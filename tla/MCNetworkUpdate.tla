--------------------------- MODULE MCNetworkUpdate --------------------------
(***************************************************************************)
(* Instances of NetworkUpdate for TLC: peer 2 and few others.              *)
(***************************************************************************)
EXTENDS NetworkUpdate

(* PeerToPeerTransport.ts:793 says: "If we are over the max amount of      *)
(* connections, we discard the `worst'".  So when the loop of operations   *)
(* finds that, there is one it can discard.                                *)
ExcessDiscarded == Looping /\ Excess => \E q \in known : IsConnectedTo(q)

=============================================================================
