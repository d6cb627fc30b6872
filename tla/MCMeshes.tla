------------------------------ MODULE MCMeshes ------------------------------
(***************************************************************************)
(* The meshes the instances of Routing and RelaySuspension start with.     *)
(***************************************************************************)
EXTENDS Integers

(* The mesh with these connections, listed twice when in `double'.         *)
MeshOf(peers, links, double) ==
    [p \in peers |-> [q \in peers |->
        IF {p, q} \in double THEN 2 ELSE IF {p, q} \in links THEN 1 ELSE 0]]

(* Peer 1 sends n packets, the others none.                                *)
OnlyFirstSends(peers, n) == [p \in peers |-> IF p = 1 THEN n ELSE 0]

(* Nothing but packets, and these peers ask for suspensions.               *)
OnlySuspensions(peers) == {"suspend"} \X peers

=============================================================================
