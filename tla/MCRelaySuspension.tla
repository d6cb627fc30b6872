-------------------------- MODULE MCRelaySuspension -------------------------
(***************************************************************************)
(* Instances of RelaySuspension for TLC: three or four peers, of whom peer *)
(* 1 sends.                                                                *)
(***************************************************************************)
EXTENDS RelaySuspension, MCMeshes

Shapes ==
    {MeshOf(Peers, {{1, 2}, {2, 3}, {3, 4}}, {}),            \* a path
     MeshOf(Peers, {{1, 2}, {1, 3}, {3, 4}}, {{2, 4}}),       \* a square
     MeshOf(Peers, {{1, 2}, {2, 3}, {3, 4}}, {{1, 3}})}       \* a triangle and a tail

(* A triangle that the source reaches over one of its corners.             *)
Behind == {MeshOf(Peers, {{1, 2}, {3, 4}}, {{2, 3}, {2, 4}})}

Triangle == {MeshOf(Peers, {{1, 2}, {1, 3}}, {{2, 3}})}

OneMessage == OnlyFirstSends(Peers, 1)
TwoMessages == OnlyFirstSends(Peers, 2)

Suspending == OnlySuspensions(Peers)
Anything == OnlySuspensions(Peers) \cup
    {<<"link", 2>>, <<"break", 2>>, <<"leave", 2>>, <<"dispose", 2>>}

(* The clock of peer 3 is behind the sender's.                             *)
ThirdBehind == [p \in Peers |-> IF p = 3 THEN 0 ELSE 1]
Agree == [p \in Peers |-> 0]

(* PeerToPeerTransport.ts:515 says: "We only suspend if we will have at    *)
(* least 1 path of connection for this peer after suspensions".  So        *)
(* whatever is suspended, packets of a source still have a path to every   *)
(* peer: its own links, and those that are not suspended for it.           *)
Passes(src, p, q) ==
    mesh[p][q] > 0 /\ (p = src \/ ~IsRelayToConnectionSuspended(p, q, src))

Within[n \in Nat, src \in Peers] ==
    IF n = 0 THEN {src}
    ELSE Within[n - 1, src] \cup
            {q \in Peers : \E p \in Within[n - 1, src] : Passes(src, p, q)}

PathRemains == \A src \in Peers : Within[Cardinality(Peers), src] = Peers

=============================================================================
