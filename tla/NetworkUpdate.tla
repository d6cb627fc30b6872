---------------------------- MODULE NetworkUpdate ---------------------------
(***************************************************************************)
(* Which connections a peer makes and drops: updateNetwork and             *)
(* calculateNextNetworkOperation of src/p2p/PeerToPeerTransport.ts, with   *)
(* the known peers they choose from and what changes them.                 *)
(*                                                                         *)
(* This is one transport, `Self', and its view of its mesh: an entry of a  *)
(* map is "trying" or "up".  The other ends, the BFF and time are free.    *)
(*                                                                         *)
(* updateNetwork is cut at its awaits.  While it awaits connectTo calls,   *)
(* anything may happen; while it awaits none it goes on in microtasks,     *)
(* and no handler or timer of this client runs (`Busy').                   *)
(***************************************************************************)
EXTENDS Naturals, FiniteSets

CONSTANTS
    Self,               \* the id of this peer; naturals, as Mesh uses <
    Peers,              \* the ids of the others
    TargetConnections,  \* DEFAULT_TARGET_CONNECTIONS
    MaxConnections,     \* DEFAULT_MAX_CONNECTIONS
    Reach,              \* MAX_CONNECTION_DISTANCE
    Far,                \* DISCONNECT_DISTANCE
    Distances,          \* the discretized distances
    MaxCalls,           \* bound: connectTo calls for a peer at the same time
    Env,                \* what happens around the transport in this instance
    None                \* no position, hence no distance

(* "leave": peers leave the island; "relay": packets of peers not known    *)
(* arrive; "offer": others make offers; "down": connections break;         *)
(* "reject": connectTo rejects; "disconnect": the transport disconnects.   *)
EnvEvents == {"leave", "relay", "offer", "down", "reject", "disconnect"}

(* The largest discretized distance is DISCONNECT_DISTANCE, the number of  *)
(* DISCRETIZE_POSITION_INTERVALS, one more than MAX_CONNECTION_DISTANCE.   *)
ASSUME NetworkUpdateAssumption ==
    /\ Peers \subseteq Nat /\ Self \in Nat \ Peers /\ IsFiniteSet(Peers)
    /\ TargetConnections \in Nat \ {0} /\ MaxConnections \in Nat \ {0}
    /\ Reach \in Nat /\ Far = Reach + 1 /\ Distances \subseteq 0..Far
    /\ MaxCalls \in Nat \ {0}
    /\ Env \subseteq EnvEvents
    /\ None \notin Nat

VARIABLES
    known,       \* the keys of knownPeers
    distance,    \* distanceTo of each peer, None if undefined
    initiated,   \* initiatedConnections of the mesh
    received,    \* receivedConnections of the mesh
    calls,       \* how many connectTo calls for each peer are suspended
    phase,       \* where updateNetwork is; updatingNetwork unless "idle"
    awaited,     \* the peers whose connectTo call updateNetwork awaits
    candidates,  \* connectionCandidates of updateNetwork
    threw,       \* has updateNetwork ever left by an exception
    disposed     \* disconnect(): "no", "leaving", "disposing", "disposed"

vars == <<known, distance, initiated, received, calls, phase, awaited,
          candidates, threw, disposed>>

Entry == {"none", "trying", "up"}

-----------------------------------------------------------------------------

Up(map) == {q \in Peers : map[q] = "up"}
Trying(map) == {q \in Peers : map[q] = "trying"}
Entries(map) == Up(map) \cup Trying(map)
Closed(map, S) == [q \in Peers |-> IF q \in S THEN "none" ELSE map[q]]

(* A peer with two connections counts twice.                               *)
ConnectedCount(ini, rec) == Cardinality(Up(ini)) + Cardinality(Up(rec))
ConnectionsCount(ini, rec) == Cardinality(Entries(ini)) + Cardinality(Entries(rec))

IsConnectedTo(q) == q \in Up(initiated) \cup Up(received)

(* Mutated: received connections are forgotten.                            *)
ConnectedPeerIdsInitiated == Entries(initiated)

ConnectedPeerIds == Entries(initiated) \cup Entries(received)

Smaller(a, b) == IF a < b THEN a ELSE b

(* pickBy with peerSortCriteria, for peers that have a distance.  Among    *)
(* equally distant ones it picks at random.                                *)
Nearest(S, dist, n) ==
    {B \in SUBSET S : /\ Cardinality(B) = Smaller(n, Cardinality(S))
                      /\ \A b \in B, c \in S \ B : dist[b] <= dist[c]}

(* The first n of S sorted by the opposite criteria.                       *)
Farthest(S, n) ==
    {W \in SUBSET S :
        /\ Cardinality(W) = Smaller(n, Cardinality(S))
        /\ \A w \in W, r \in S \ W :
              \/ distance[w] = None
              \/ distance[r] # None /\ distance[w] >= distance[r]}

(* The first of the sorted candidates.  When one of them has left or lost  *)
(* its position since, peerSortCriteria gives NaN and the order is any.    *)
Best == IF \A q \in candidates : distance[q] # None
        THEN {q \in candidates : \A r \in candidates : distance[q] <= distance[r]}
        ELSE candidates

(* The distance getWorstConnectedPeerByDistance may find, None if it is    *)
(* undefined: its reduce starts over after a peer without a distance, and  *)
(* the order of the peers is not known.                                    *)
WorstDistances ==
    IF ConnectedPeerIds # {} /\ \A q \in ConnectedPeerIds : distance[q] # None
    THEN {distance[q] : q \in {w \in ConnectedPeerIds :
                \A r \in ConnectedPeerIds : distance[w] >= distance[r]}}
    ELSE {None} \cup {distance[q] : q \in ConnectedPeerIds}

(* Mutated: the comparison is negated, which an undefined distance passes. *)
BetterNegated(q, worst) ==
    worst # None /\ (distance[q] = None \/ distance[q] < worst)

Better(q, worst) ==
    worst # None /\ distance[q] # None /\ distance[q] < worst

Excess == ConnectedCount(initiated, received) > MaxConnections
TooFar == {q \in ConnectedPeerIds : distance[q] # None /\ distance[q] >= Far}

Busy == phase # "idle" /\ awaited = {}

-----------------------------------------------------------------------------

(* The constructor: the peers it is given, with or without a position.     *)
Init ==
    /\ known \in SUBSET Peers
    /\ distance \in [Peers -> Distances \cup {None}]
    /\ \A q \in Peers \ known : distance[q] = None
    /\ initiated = [q \in Peers |-> "none"]
    /\ received = [q \in Peers |-> "none"]
    /\ calls = [q \in Peers |-> 0]
    /\ phase = "idle"
    /\ awaited = {}
    /\ candidates = {}
    /\ threw = FALSE
    /\ disposed = "no"

(* The known peers in reach to which there is no connection.               *)
Candidates(peers, dist, connected) ==
    {q \in peers \ connected : dist[q] # None /\ dist[q] <= Reach}

(* The choices of peers to connect to at the start of an update.           *)
Picked(peers, dist, ini, rec) ==
    IF /\ ConnectedCount(ini, rec) < TargetConnections
       /\ ConnectionsCount(ini, rec) < MaxConnections
    THEN Nearest(Candidates(peers, dist, Entries(ini) \cup Entries(rec)), dist,
                 TargetConnections - ConnectedCount(ini, rec))
    ELSE {{}}

(* Mutated: without the check of updatingNetwork.                          *)
UpdateNetworkAgain(peers, dist, ini, rec) ==
    IF disposed # "no"
    THEN /\ initiated' = ini /\ received' = rec
         /\ UNCHANGED <<calls, phase, awaited>>
    ELSE \E x \in SUBSET Trying(ini), y \in SUBSET Trying(rec) :
         /\ initiated' = Closed(ini, x)
         /\ received' = Closed(rec, y)
         /\ phase' = "connecting"
         /\ \E picked \in Picked(peers, dist, initiated', received') :
               /\ awaited' = picked
               /\ calls' = [q \in Peers |->
                              IF q \in picked THEN calls[q] + 1 ELSE calls[q]]

(* updateNetwork up to `await Promise.all', called by a handler that       *)
(* leaves these peers, distances and maps behind.  checkConnectionsSanity  *)
(* discards any connections that are not up.                               *)
UpdateNetwork(peers, dist, ini, rec) ==
    IF phase # "idle" \/ disposed # "no"
    THEN /\ initiated' = ini /\ received' = rec
         /\ UNCHANGED <<calls, phase, awaited>>
    ELSE \E x \in SUBSET Trying(ini), y \in SUBSET Trying(rec) :
         /\ initiated' = Closed(ini, x)
         /\ received' = Closed(rec, y)
         /\ phase' = "connecting"
         /\ \E picked \in Picked(peers, dist, initiated', received') :
               /\ awaited' = picked
               /\ calls' = [q \in Peers |->
                              IF q \in picked THEN calls[q] + 1 ELSE calls[q]]

(* The timer of scheduleUpdateNetwork, or the end of connect.              *)
Trigger ==
    /\ ~Busy /\ phase = "idle" /\ disposed = "no"
    /\ UpdateNetwork(known, distance, initiated, received)
    /\ UNCHANGED <<known, distance, candidates, threw, disposed>>

-----------------------------------------------------------------------------
(* The rest of updateNetwork                                               *)

(* After Promise.all: the candidates for the loop of operations.           *)
Collect ==
    /\ phase = "connecting" /\ awaited = {}
    /\ candidates' = Candidates(known, distance, Up(initiated) \cup Up(received))
    /\ phase' = "looping"
    /\ UNCHANGED <<known, distance, initiated, received, calls, awaited, threw, disposed>>

Looping == phase = "looping" /\ awaited = {}

(* Over the maximum: the worst of the known peers are disconnected.        *)
DropExcess ==
    /\ Looping /\ Excess
    /\ \E W \in Farthest({q \in known : IsConnectedTo(q)},
                         ConnectedCount(initiated, received) - MaxConnections) :
          /\ initiated' = Closed(initiated, W)
          /\ received' = Closed(received, W)
    /\ UNCHANGED <<known, distance, calls, phase, awaited, candidates, threw, disposed>>

(* Mutated: the candidate stays in the list.                               *)
ConnectBetterKeeps ==
    /\ Looping /\ ~Excess
    /\ \E q \in Best, worst \in WorstDistances :
          /\ Better(q, worst)
          /\ candidates' = candidates
          /\ IF q \in ConnectedPeerIds
             THEN UNCHANGED <<calls, awaited>>
             ELSE /\ calls' = [calls EXCEPT ![q] = @ + 1]
                  /\ awaited' = {q}
    /\ UNCHANGED <<known, distance, initiated, received, phase, threw, disposed>>

(* The best candidate is nearer than the worst connection: connectTo,      *)
(* which returns at once if the mesh has a connection for it.              *)
ConnectBetter ==
    /\ Looping /\ ~Excess
    /\ \E q \in Best, worst \in WorstDistances :
          /\ Better(q, worst)
          /\ candidates' = candidates \ {q}
          /\ IF q \in ConnectedPeerIds
             THEN UNCHANGED <<calls, awaited>>
             ELSE /\ calls' = [calls EXCEPT ![q] = @ + 1]
                  /\ awaited' = {q}
    /\ UNCHANGED <<known, distance, initiated, received, phase, threw, disposed>>

(* There is no candidate or the best one is no better; it is dropped from  *)
(* the list all the same.                                                  *)
NoneBetter(rest) ==
    \/ candidates = {} /\ rest = {}
    \/ \E q \in Best, worst \in WorstDistances :
          ~Better(q, worst) /\ rest = candidates \ {q}

DropFar ==
    /\ Looping /\ ~Excess
    /\ TooFar # {}
    /\ \E rest \in SUBSET candidates : NoneBetter(rest) /\ candidates' = rest
    /\ initiated' = Closed(initiated, TooFar)
    /\ received' = Closed(received, TooFar)
    /\ UNCHANGED <<known, distance, calls, phase, awaited, threw, disposed>>

(* No operation is left.                                                   *)
Finish ==
    /\ Looping /\ ~Excess
    /\ TooFar = {}
    /\ \E rest \in SUBSET candidates : NoneBetter(rest)
    /\ phase' = "idle"
    /\ candidates' = {}
    /\ UNCHANGED <<known, distance, initiated, received, calls, awaited, threw, disposed>>

-----------------------------------------------------------------------------
(* connectTo settles                                                       *)

(* Which calls may be left to await when one for q settles.                *)
Settled(q) ==
    IF q \notin awaited THEN {awaited}
    ELSE IF calls[q] = 1 THEN {awaited \ {q}}
    ELSE {awaited, awaited \ {q}}

(* connectTo puts its connection in the map, whatever is there.            *)
CallDone(q) ==
    /\ ~Busy /\ calls[q] > 0
    /\ calls' = [calls EXCEPT ![q] = @ - 1]
    /\ awaited' \in Settled(q)
    /\ initiated' = [initiated EXCEPT ![q] = "trying"]
    /\ UNCHANGED <<known, distance, received, phase, candidates, threw, disposed>>

(* It rejects.  So does Promise.all, and updateNetwork leaves while the    *)
(* other calls go on; in the loop of operations it is caught.  MaxCalls    *)
(* bounds the calls that go on.                                            *)
CallFails(q) ==
    /\ "reject" \in Env
    /\ ~Busy /\ calls[q] > 0
    /\ calls' = [calls EXCEPT ![q] = @ - 1]
    /\ \E left \in Settled(q) :
          IF left # awaited /\ phase = "connecting"
          THEN /\ \A r \in left : calls[r] < MaxCalls
               /\ awaited' = {} /\ phase' = "idle" /\ threw' = TRUE
          ELSE awaited' = left /\ UNCHANGED <<phase, threw>>
    /\ UNCHANGED <<known, distance, initiated, received, candidates, disposed>>

-----------------------------------------------------------------------------
(* The island                                                              *)

Listening == disposed \in {"no", "leaving"}

PeerJoined(q) ==
    /\ ~Busy /\ Listening
    /\ known' = known \cup {q}
    /\ UpdateNetwork(known', distance, initiated, received)
    /\ UNCHANGED <<distance, candidates, threw, disposed>>

(* Mutated: the entry of knownPeers goes, what is known of it stays.       *)
PeerLeftHalf(q) ==
    /\ "leave" \in Env
    /\ ~Busy /\ Listening
    /\ known' = known \ {q}
    /\ distance' = distance
    /\ UpdateNetwork(known', distance', Closed(initiated, {q}), Closed(received, {q}))
    /\ UNCHANGED <<candidates, threw, disposed>>

PeerLeft(q) ==
    /\ "leave" \in Env
    /\ ~Busy /\ Listening
    /\ known' = known \ {q}
    /\ distance' = [distance EXCEPT ![q] = None]
    /\ UpdateNetwork(known', distance', Closed(initiated, {q}), Closed(received, {q}))
    /\ UNCHANGED <<candidates, threw, disposed>>

(* handlePeerPacket gets a packet of q over some connection.               *)
Hear(q) ==
    /\ "relay" \in Env
    /\ ~Busy /\ disposed = "no"
    /\ ConnectedCount(initiated, received) > 0
    /\ known' = known \cup {q}
    /\ UNCHANGED <<distance, initiated, received, calls, phase, awaited,
                   candidates, threw, disposed>>

(* onPeerPositionChange, or this peer moves itself.                        *)
Move(q, d) ==
    /\ ~Busy /\ q \in known
    /\ distance' = [distance EXCEPT ![q] = d]
    /\ UNCHANGED <<known, initiated, received, calls, phase, awaited,
                   candidates, threw, disposed>>

-----------------------------------------------------------------------------
(* The mesh                                                                *)

(* Mutated: offers of peers that are not known are accepted too.           *)
ShouldAcceptOfferOfAll(q) ==
    /\ disposed = "no"
    /\ ConnectedCount(initiated, received) < TargetConnections

ShouldAcceptOffer(q) ==
    /\ disposed = "no"
    /\ q \in known
    /\ ConnectedCount(initiated, received) < TargetConnections

(* onOfferMessage: an accepted offer of q makes a connection, or closes    *)
(* the own one if that is outstanding and this peer has the smaller id.    *)
Offer(q) ==
    /\ "offer" \in Env
    /\ ~Busy /\ ShouldAcceptOffer(q)
    /\ IF initiated[q] # "none" /\ Self < q
       THEN /\ initiated' = [initiated EXCEPT ![q] = "none"]
            /\ UNCHANGED received
       ELSE /\ received' = [received EXCEPT ![q] = "trying"]
            /\ UNCHANGED initiated
    /\ UNCHANGED <<known, distance, calls, phase, awaited, candidates, threw, disposed>>

(* A connection comes up; none does in a mesh that is disposed.            *)
Connect(q) ==
    /\ ~Busy /\ disposed # "disposed"
    /\ \/ /\ initiated[q] = "trying"
          /\ initiated' = [initiated EXCEPT ![q] = "up"]
          /\ UNCHANGED received
       \/ /\ received[q] = "trying"
          /\ received' = [received EXCEPT ![q] = "up"]
          /\ UNCHANGED initiated
    /\ UNCHANGED <<known, distance, calls, phase, awaited, candidates, threw, disposed>>

(* One is no longer connected, or an instance of q fails: its listener     *)
(* deletes the entry of receivedConnections, whichever instance it was.    *)
Break(q) ==
    /\ "down" \in Env
    /\ ~Busy
    /\ \/ /\ initiated[q] = "up"
          /\ initiated' = [initiated EXCEPT ![q] = "trying"]
          /\ UNCHANGED received
       \/ /\ received[q] # "none"
          /\ received' \in {[received EXCEPT ![q] = s] : s \in {"none", "trying"}}
          /\ UNCHANGED initiated
    /\ UNCHANGED <<known, distance, calls, phase, awaited, candidates, threw, disposed>>

-----------------------------------------------------------------------------
(* disconnect                                                              *)

(* Up to its first await ...                                               *)
Disconnect ==
    /\ "disconnect" \in Env
    /\ ~Busy /\ disposed = "no"
    /\ disposed' = "leaving"
    /\ UNCHANGED <<known, distance, initiated, received, calls, phase, awaited,
                   candidates, threw>>

(* Mutated: knownPeers is kept.                                            *)
ForgetNobody ==
    /\ ~Busy /\ disposed = "leaving"
    /\ disposed' = "disposing"
    /\ UNCHANGED <<known, distance, initiated, received, calls, phase, awaited,
                   candidates, threw>>

(* ... the BFF removed the listeners: knownPeers = {}, and mesh.dispose    *)
(* up to its first await ...                                               *)
Forget ==
    /\ ~Busy /\ disposed = "leaving"
    /\ disposed' = "disposing"
    /\ known' = {}
    /\ distance' = [q \in Peers |-> None]
    /\ UNCHANGED <<initiated, received, calls, phase, awaited, candidates, threw>>

(* ... and the mesh closed what its maps hold.                             *)
Disposed ==
    /\ ~Busy /\ disposed = "disposing"
    /\ disposed' = "disposed"
    /\ initiated' = Closed(initiated, Peers)
    /\ received' = Closed(received, Peers)
    /\ UNCHANGED <<known, distance, calls, phase, awaited, candidates, threw>>

-----------------------------------------------------------------------------

Operation == DropExcess \/ ConnectBetter \/ DropFar \/ Finish

Next ==
    \/ Trigger \/ Collect \/ Operation
    \/ Disconnect \/ Forget \/ Disposed
    \/ \E q \in Peers :
          \/ CallDone(q) \/ CallFails(q)
          \/ PeerJoined(q) \/ PeerLeft(q) \/ Hear(q)
          \/ Offer(q) \/ Connect(q) \/ Break(q)
          \/ \E d \in Distances : Move(q, d)

Spec == Init /\ [][Next]_vars

(* Microtasks run, and a connectTo call settles.                           *)
FairSpec ==
    /\ Spec
    /\ WF_vars(Collect) /\ WF_vars(Operation)
    /\ \A q \in Peers : WF_vars(CallDone(q) \/ CallFails(q))

-----------------------------------------------------------------------------
(* Properties                                                              *)

(* Every variable has its type, and only known peers have a distance.      *)
TypeOK ==
    /\ known \subseteq Peers
    /\ distance \in [Peers -> Distances \cup {None}]
    /\ \A q \in Peers \ known : distance[q] = None
    /\ initiated \in [Peers -> Entry] /\ received \in [Peers -> Entry]
    /\ calls \in [Peers -> 0..MaxCalls]
    /\ phase \in {"idle", "connecting", "looping"}
    /\ awaited \subseteq Peers /\ candidates \subseteq Peers
    /\ threw \in BOOLEAN
    /\ disposed \in {"no", "leaving", "disposing", "disposed"}

(* "Offer should be rejected if peer is unknown" (test/unit/p2p.spec.ts):  *)
(* more, no received connection outlives its peer in knownPeers, until     *)
(* disconnect forgets them all.                                            *)
ReceivedAreKnown == Listening => Entries(received) \subseteq known

(* The candidates of an update are chosen before its awaits and used after *)
(* them, when they may have left or moved: still it only ever calls        *)
(* connectTo for a peer that is known and in reach at that moment.         *)
ConnectsInReach ==
    [][\A q \in Peers : calls'[q] > calls[q]
          => q \in known' /\ distance'[q] # None /\ distance'[q] <= Reach]_vars

(* Unless Promise.all ever rejected, no two connectTo calls for a peer     *)
(* overlap, which is what the mesh relies on.                              *)
OneCallPerPeer == ~threw => \A q \in Peers : calls[q] <= 1

(* An update that is suspended when disconnect is called goes on, even     *)
(* after the mesh is disposed: but it calls connectTo no more.             *)
SilentAfterDispose ==
    [][~Listening => \A q \in Peers : calls'[q] <= calls[q]]_vars

(* What this transport does to its mesh, and what it is prepared for, is   *)
(* the contract that Mesh implements: it never connects to a peer for      *)
(* which there is an entry, never twice at the same time unless a call     *)
(* was rejected, and never once it disposed the mesh, although an update   *)
(* goes on after each of its awaits from what it knew before.              *)
View == INSTANCE MeshView WITH
    Others <- Peers,
    Overlap <- "reject" \in Env,
    calling <- {q \in Peers : calls[q] > 0},
    disposed <- IF disposed = "disposing" THEN "removing"
                ELSE IF disposed = "disposed" THEN "yes" ELSE "no"

ImplementsView == View!Spec

(* There are too many connections, none of them with a known peer.         *)
Spins == Excess /\ \A q \in known : ~IsConnectedTo(q)

(* An operation of the loop ends the update, or leaves fewer candidates    *)
(* and connections than it found, unless the loop spins; and what happens  *)
(* while it awaits a call adds no candidate.  So an update makes at most   *)
(* one call for each of its candidates, and few operations between two.    *)
Descends ==
    [][/\ phase = "looping" => candidates' \subseteq candidates
       /\ Looping /\ ~Spins =>
             \/ phase' = "idle"
             \/ ConnectionsCount(initiated', received') + Cardinality(candidates')
                   < ConnectionsCount(initiated, received) + Cardinality(candidates)]_vars

(* Liveness.  An update ends, unless there are too many connections and    *)
(* all are with peers that are not known: then its operation to drop the   *)
(* worst drops none, and is repeated.                                      *)
UpdateEnds == phase # "idle" ~> phase = "idle" \/ Spins

=============================================================================
