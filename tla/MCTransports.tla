---------------------------- MODULE MCTransports ----------------------------
(***************************************************************************)
(* Two sockets, one after the other, on which the server calls two users   *)
(* by two aliases; two overlapping calls of connect of P2PTransport.       *)
(***************************************************************************)
EXTENDS Transports

TwoSockets == 1..2

=============================================================================
