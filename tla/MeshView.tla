------------------------------ MODULE MeshView ------------------------------
(***************************************************************************)
(* What the transport of one client and its mesh may expect of each other: *)
(* the part of src/p2p/Mesh.ts that is visible to updateNetwork and the    *)
(* handlers of src/p2p/PeerToPeerTransport.ts, for each map and each other *)
(* peer whether there is a connection and whether it is up.                *)
(*                                                                         *)
(* Mesh implements this for each of its peers, whoever calls it.           *)
(* NetworkUpdate implements it with a mesh left free: so what NetworkUpdate*)
(* assumes of a mesh and what Mesh assumes of its caller are one contract. *)
(***************************************************************************)
EXTENDS Naturals

CONSTANTS
    Self,     \* the id of the client
    Others,   \* the ids of the other peers
    Overlap   \* may calls of connectTo for a peer overlap

VARIABLES
    initiated,  \* what initiatedConnections holds for each peer
    received,   \* what receivedConnections holds
    calling,    \* the peers for which a call of connectTo is pending
    disposed    \* dispose(): "no", "removing" (awaiting the BFF), "yes"

vars == <<initiated, received, calling, disposed>>

Entry == {"none", "trying", "up"}

Trying(map) == {q \in Others : map[q] = "trying"}
Closed(map, S) == [q \in Others |-> IF q \in S THEN "none" ELSE map[q]]

Init ==
    /\ initiated = [q \in Others |-> "none"]
    /\ received = [q \in Others |-> "none"]
    /\ calling = {}
    /\ disposed = "no"

-----------------------------------------------------------------------------
(* The transport                                                           *)

(* A turn of the transport, up to its next await: it disconnects from some *)
(* peers, has the mesh discard connections that are not up, and connects   *)
(* to peers for which the maps have no entry left.                         *)
Turn(dropped, new) ==
    /\ \E x \in SUBSET Trying(initiated), y \in SUBSET Trying(received) :
          /\ x \cup y # {} => disposed = "no"
          /\ initiated' = Closed(initiated, dropped \cup x)
          /\ received' = Closed(received, dropped \cup y)
    /\ \A q \in new : /\ disposed = "no"
                      /\ initiated'[q] = "none" /\ received'[q] = "none"
                      /\ Overlap \/ q \notin calling
    /\ calling' = calling \cup new
    /\ UNCHANGED disposed

(* It disposes the mesh.                                                   *)
Dispose ==
    /\ disposed = "no"
    /\ disposed' = "removing"
    /\ UNCHANGED <<initiated, received, calling>>

-----------------------------------------------------------------------------
(* The mesh                                                                *)

(* A call for q settles: it was the only one, or calls overlap.            *)
Settles(q) ==
    /\ q \in calling
    /\ \/ calling' = calling \ {q}
       \/ Overlap /\ calling' = calling

(* It resolves, and leaves a new connection, also when the mesh was        *)
(* disposed meanwhile, ...                                                 *)
Return(q) ==
    /\ Settles(q)
    /\ initiated' = [initiated EXCEPT ![q] = "trying"]
    /\ UNCHANGED <<received, disposed>>

(* ... or it rejects, and leaves none.                                     *)
Throw(q) == Settles(q) /\ UNCHANGED <<initiated, received, disposed>>

(* Of two offers that cross, the peer with the smaller id gives up its own.*)
Yields(q) == initiated[q] # "none" /\ Self < q

Yield(q) ==
    /\ disposed = "no" /\ Yields(q)
    /\ initiated' = [initiated EXCEPT ![q] = "none"]
    /\ UNCHANGED <<received, calling, disposed>>

(* Any other offer that is accepted makes a new connection.                *)
Accept(q) ==
    /\ disposed = "no" /\ ~Yields(q)
    /\ received' = [received EXCEPT ![q] = "trying"]
    /\ UNCHANGED <<initiated, calling, disposed>>

(* A connection comes up, but none does when the mesh is disposed, ...     *)
Up(q) ==
    /\ disposed # "yes"
    /\ \/ /\ initiated[q] = "trying"
          /\ initiated' = [initiated EXCEPT ![q] = "up"]
          /\ UNCHANGED received
       \/ /\ received[q] = "trying"
          /\ received' = [received EXCEPT ![q] = "up"]
          /\ UNCHANGED initiated
    /\ UNCHANGED <<calling, disposed>>

(* ... goes down, and stays in its map, ...                                *)
Down(q) ==
    /\ disposed # "yes"
    /\ \/ /\ initiated[q] = "up"
          /\ initiated' = [initiated EXCEPT ![q] = "trying"]
          /\ UNCHANGED received
       \/ /\ received[q] = "up"
          /\ received' = [received EXCEPT ![q] = "trying"]
          /\ UNCHANGED initiated
    /\ UNCHANGED <<calling, disposed>>

(* ... or fails; then, or when one of q that is in no map does, the entry  *)
(* of receivedConnections goes, even if it is up.                          *)
Lose(q) ==
    /\ received[q] # "none"
    /\ received' = [received EXCEPT ![q] = "none"]
    /\ UNCHANGED <<initiated, calling, disposed>>

(* dispose is done: the maps are empty.                                    *)
Disposed ==
    /\ disposed = "removing"
    /\ disposed' = "yes"
    /\ initiated' = Closed(initiated, Others)
    /\ received' = Closed(received, Others)
    /\ UNCHANGED calling

Next ==
    \/ \E q \in Others :
          \/ Up(q) \/ Down(q) \/ Lose(q)
          \/ Return(q) \/ Throw(q) \/ Yield(q) \/ Accept(q)
    \/ Dispose \/ Disposed
    \/ \E dropped, new \in SUBSET Others : Turn(dropped, new)

Spec == Init /\ [][Next]_vars

=============================================================================
