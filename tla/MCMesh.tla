------------------------------- MODULE MCMesh -------------------------------
(***************************************************************************)
(* Instances of Mesh for TLC: two peers, 1 < 2, and few RTCPeerConnections *)
(* between them.                                                           *)
(***************************************************************************)
EXTENDS Mesh

(* Either peer may connect to the other, once: they can cross.             *)
BothWays ==
    {c \in [at : {1, 2}, peer : {1, 2}, role : Roles, n : {1}] : c.at # c.peer}

(* Peer 1 connects to peer 2, and may do so again.                         *)
Retry ==
    [at : {1}, peer : {2}, role : {"initiator"}, n : {1, 2}]
    \cup [at : {2}, peer : {1}, role : {"responder"}, n : {1, 2}]

(* ... but peer 2 answers only once.                                       *)
Reoffer == {c \in Retry : c.role = "responder" => c.n = 1}

(* No function is suspended, no message in flight.                         *)
Quiet == net = {} /\ \A c \in Conns : job[c] = "none"

(* Mesh.ts says that two peers whose offers cross keep one of the two:     *)
(* "Both peers try to establish connection with each other, closing old    *)
(* connection" at one (line 314), "keeping this offer" at the other (line  *)
(* 319).  So when both offered, nothing failed and every message was       *)
(* handled, two instances of theirs hold each other's descriptions.        *)
GlareResolved ==
    /\ Quiet
    /\ \A p, q \in Peers : p # q => Fresh(p, q, "initiator") = {}
    => \E c \in Tracked(1), d \in Tracked(2) : remote[c] = d /\ remote[d] = c

=============================================================================
