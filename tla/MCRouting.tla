------------------------------ MODULE MCRouting -----------------------------
(***************************************************************************)
(* Instances of Routing for TLC: three or four peers, of whom peer 1       *)
(* sends.                                                                  *)
(***************************************************************************)
EXTENDS Routing, MCMeshes

Triangle == {MeshOf(Peers, {{1, 2}, {1, 3}, {2, 3}}, {})}
Square == {MeshOf(Peers, {{1, 2}, {1, 3}, {2, 4}, {3, 4}}, {})}

OneMessage == OnlyFirstSends(Peers, 1)
TwoMessages == OnlyFirstSends(Peers, 2)

Agree == [p \in Peers |-> 0]

(* PeerToPeerTransport.ts:305-306 says of unreliable packets, which it     *)
(* does not store: "Same or older packages will be instantly discarded".   *)
(* So none is emitted twice.                                               *)
UnreliableAtMostOnce ==
    \A p \in Peers : \A k \in KeysSent : ~IsReliable(k) => count[p][k] <= 1

(* messageTypes.ts:13-14 says that a message is discarded for being older  *)
(* than "the last message of the same type".  So an unreliable message     *)
(* that has not expired is discarded only after a newer unreliable one.    *)
OutdatedByItsType ==
    \A p, q \in Peers :
        /\ Arrives(p, q)
        /\ Outdated(p, Head(chan[q][p]).key)
        => \E newer \in KeysSent :
              /\ newer.src = Head(chan[q][p]).key.src
              /\ ~IsReliable(newer) /\ count[p][newer] > 0

=============================================================================
