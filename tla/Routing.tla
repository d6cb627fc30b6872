------------------------------- MODULE Routing ------------------------------
(***************************************************************************)
(* How a packet spreads through the mesh: send, handlePeerPacket,          *)
(* processPacket and sendPacket of src/p2p/PeerToPeerTransport.ts, with    *)
(* the expiration timer of its constructor and the message types of        *)
(* src/p2p/messageTypes.ts.                                                *)
(*                                                                         *)
(* All functions here are synchronous, so each handler is one action.  The *)
(* peers run concurrently and are joined by data channels, which keep the  *)
(* order of the packets sent over one link and lose those in flight when   *)
(* the link breaks.                                                        *)
(***************************************************************************)
EXTENDS Integers, Sequences, FiniteSets

CONSTANTS
    Peers,     \* peer ids
    Meshes,    \* the meshes a behaviour may start with
    MaxSeq,    \* bound: how many packets each peer sends
    MaxNow,    \* bound: how often time advances
    Skew,      \* how far the clock of a peer (Date.now()) is ahead of `now'
    Ttl,       \* ttl of both message types
    ReliableExpiration,   \* expirationTime of PeerMessageTypes.reliable
    UnreliableExpiration, \* ... and of PeerMessageTypes.unreliable
    SuspensionDuration,   \* how long a relay is suspended
    Env,       \* what else may happen in this instance, and to which peers
    None       \* "no entry" of a Record

(* "link": a connection of the peer comes up; "break": one fails or is     *)
(* dropped; "leave": it is told that another peer left the island;         *)
(* "suspend": it has a relaySuspensionConfig; "dispose": it disconnects.   *)
EnvEvents == {"link", "break", "leave", "suspend", "dispose"}

ASSUME RoutingAssumption ==
    /\ IsFiniteSet(Peers)
    /\ Meshes \subseteq [Peers -> [Peers -> 0..2]]
    /\ \A m \in Meshes, p \in Peers : m[p][p] = 0
    /\ MaxSeq \in [Peers -> Nat]
    /\ MaxNow \in Nat
    /\ Skew \in [Peers -> Nat]
    /\ Ttl \in Nat \ {0}
    /\ ReliableExpiration \in Nat /\ UnreliableExpiration \in Nat
    /\ SuspensionDuration \in Nat
    /\ Env \subseteq EnvEvents \X Peers
    /\ None \notin Int /\ None \notin [ts : Int, seq : Nat]

VARIABLES
    now,        \* time
    mesh,       \* how often fullyConnectedPeerIds of a peer lists another
    chan,       \* the packets in flight on the data channel from p to q
    sent,       \* what each peer has sent, by sequenceId
    seen,       \* receivedPackets: when an entry was stored, or None
    last,       \* subtypeData of a known peer for the name `data', or None
    suspended,  \* ownSuspendedRelays: until when a source is not relayed
    disposed,   \* disposed
    count       \* how often a peer emitted a packet as a `message' event

vars == <<now, mesh, chan, sent, seen, last, suspended, disposed, count>>

Keys == UNION {[src : {p}, seq : 1..MaxSeq[p]] : p \in Peers}

(* receivedBy is a list in the code, used as a set.  The fields that never *)
(* change on the way (timestamp, reliability) are looked up in `sent'.     *)
Packets == [key : Keys, hops : Nat, receivedBy : SUBSET Peers]

-----------------------------------------------------------------------------

Clock(p) == now + Skew[p]

KeysSent == {k \in Keys : k.seq <= Len(sent[k.src])}
Timestamp(k) == sent[k.src][k.seq].ts
IsReliable(k) == sent[k.src][k.seq].reliable

(* Only unreliable packets are optimistic, have discardOlderThan = 0 and   *)
(* are not stored in receivedPackets.                                      *)
ExpirationTime(k) ==
    IF IsReliable(k) THEN ReliableExpiration ELSE UnreliableExpiration

(* Mutated: the difference of the timestamps is taken the wrong way round. *)
OutdatedReversed(p, k) ==
    LET l == last[p][k.src] IN
    ~IsReliable(k) /\ l # None /\ Timestamp(k) > l.ts /\ l.seq >= k.seq

(* discardOlderThan = 0: older than the newest packet of that name.        *)
Outdated(p, k) ==
    LET l == last[p][k.src] IN
    ~IsReliable(k) /\ l # None /\ l.ts > Timestamp(k) /\ l.seq >= k.seq

Expired(p, k) == Clock(p) - Timestamp(k) > ExpirationTime(k) \/ Outdated(p, k)

IsRelayToConnectionSuspended(p, q, src) == Clock(p) < suspended[p][q][src]

(* Who sendPacket at p chooses: receivedBy already includes p.             *)
Targets(p, packet) ==
    {q \in Peers :
        /\ mesh[p][q] > 0
        /\ q \notin packet.receivedBy
        /\ packet.hops = 0 \/ ~IsRelayToConnectionSuspended(p, q, packet.key.src)}

(* The connection of p with q is neither new at p's end nor going away at  *)
(* q's.                                                                    *)
Lasting(p, q) ==
    /\ <<"link", p>> \notin Env
    /\ <<"break", q>> \notin Env /\ <<"leave", q>> \notin Env

(* The neighbours whose data channel may not be open although the          *)
(* connection counts as connected: not yet, or not any more.               *)
MayBeClosed(p) == {q \in Peers : mesh[p][q] > 0 /\ ~Lasting(p, q)}

(* Mutated: p does not put itself in receivedBy.                           *)
SendPacketUnmarked(channels, p, packet, optimistic, closed) ==
    LET targets == Targets(p, packet)
        out == [packet EXCEPT !.receivedBy = IF optimistic THEN @ \cup targets ELSE @]
    IN [channels EXCEPT ![p] =
          [q \in Peers |-> IF q \in targets \ closed
                           THEN @[q] \o [i \in 1..mesh[p][q] |-> out]
                           ELSE @[q]]]

(* sendPacket: p puts itself in receivedBy; an optimistic packet names its *)
(* targets too, also those whose data channel is closed, which are sent    *)
(* nothing.  fullyConnectedPeerIds lists a peer twice when both            *)
(* connections with it are up, and then it is sent two copies.             *)
SendPacket(channels, p, packet, optimistic, closed) ==
    LET own == [packet EXCEPT !.receivedBy = @ \cup {p}]
        targets == Targets(p, own)
        out == [own EXCEPT !.receivedBy = IF optimistic THEN @ \cup targets ELSE @]
    IN [channels EXCEPT ![p] =
          [q \in Peers |-> IF q \in targets \ closed
                           THEN @[q] \o [i \in 1..mesh[p][q] |-> out]
                           ELSE @[q]]]

Larger(a, b) == IF a > b THEN a ELSE b

(* processPacket keeps the maxima of the timestamps and sequenceIds.       *)
Newest(l, k) ==
    IF l = None THEN [ts |-> Timestamp(k), seq |-> k.seq]
    ELSE [ts |-> Larger(l.ts, Timestamp(k)), seq |-> Larger(l.seq, k.seq)]

-----------------------------------------------------------------------------

Init ==
    /\ now = 0
    /\ mesh \in Meshes
    /\ chan = [p \in Peers |-> [q \in Peers |-> << >>]]
    /\ sent = [p \in Peers |-> << >>]
    /\ seen = [p \in Peers |-> [k \in Keys |-> None]]
    /\ last = [p \in Peers |-> [q \in Peers |-> None]]
    /\ suspended = [p \in Peers |-> [q \in Peers |-> [src \in Peers |-> 0]]]
    /\ disposed = [p \in Peers |-> FALSE]
    /\ count = [p \in Peers |-> [k \in Keys |-> 0]]

(* Mutated: the sequenceId is taken before it is incremented.              *)
SendPostIncrement(p, reliable) ==
    LET seq == Len(sent[p])
        packet == [key |-> [src |-> p, seq |-> seq], hops |-> 0, receivedBy |-> {}]
    IN
    /\ ~disposed[p] /\ seq + 1 <= MaxSeq[p]
    /\ sent' = [sent EXCEPT ![p] =
                  Append(@, [reliable |-> reliable, ts |-> Clock(p)])]
    /\ \E closed \in SUBSET MayBeClosed(p) :
          chan' = SendPacket(chan, p, packet, ~reliable, closed)
    /\ UNCHANGED <<now, mesh, seen, last, suspended, disposed, count>>

(* send, with buildPacketWithData.                                         *)
Send(p, reliable) ==
    LET seq == Len(sent[p]) + 1
        packet == [key |-> [src |-> p, seq |-> seq], hops |-> 0, receivedBy |-> {}]
    IN
    /\ ~disposed[p] /\ seq <= MaxSeq[p]
    /\ sent' = [sent EXCEPT ![p] =
                  Append(@, [reliable |-> reliable, ts |-> Clock(p)])]
    /\ \E closed \in SUBSET MayBeClosed(p) :
          chan' = SendPacket(chan, p, packet, ~reliable, closed)
    /\ UNCHANGED <<now, mesh, seen, last, suspended, disposed, count>>

Arrives(p, q) == chan[q][p] # << >> /\ ~disposed[p]
Rest(p, q) == [chan EXCEPT ![q][p] = Tail(@)]

(* Mutated: the test of discardOlderThan is reversed.                      *)
StoreUnreliable(p, k) ==
    seen' = IF ~Expired(p, k) /\ ~IsReliable(k)
            THEN [seen EXCEPT ![p][k] = Clock(p)] ELSE seen

(* handlePeerPacket stores the key of a packet that is not expired, also   *)
(* when it was stored before.                                              *)
Store(p, k) ==
    seen' = IF ~Expired(p, k) /\ IsReliable(k)
            THEN [seen EXCEPT ![p][k] = Clock(p)] ELSE seen

(* Mutated: the ttl is compared before the hop is counted.                 *)
ProcessShort(p, q) ==
    LET packet == Head(chan[q][p])
        k == packet.key
        relayed == [packet EXCEPT !.hops = @ + 1]
    IN
    /\ Arrives(p, q)
    /\ seen[p][k] = None /\ ~Expired(p, k)
    /\ Store(p, k)
    /\ last' = [last EXCEPT ![p][k.src] = Newest(@, k)]
    /\ IF relayed.hops + 1 < Ttl
       THEN \E closed \in SUBSET MayBeClosed(p) :
               chan' = SendPacket(Rest(p, q), p, relayed, ~IsReliable(k), closed)
       ELSE chan' = Rest(p, q)
    /\ count' = [count EXCEPT ![p][k] = @ + 1]
    /\ UNCHANGED <<now, mesh, sent, suspended, disposed>>

(* handlePeerPacket and processPacket at p for a new packet from q.        *)
Process(p, q) ==
    LET packet == Head(chan[q][p])
        k == packet.key
        relayed == [packet EXCEPT !.hops = @ + 1]
    IN
    /\ Arrives(p, q)
    /\ seen[p][k] = None /\ ~Expired(p, k)
    /\ Store(p, k)
    /\ last' = [last EXCEPT ![p][k.src] = Newest(@, k)]
    /\ IF relayed.hops < Ttl
       THEN \E closed \in SUBSET MayBeClosed(p) :
               chan' = SendPacket(Rest(p, q), p, relayed, ~IsReliable(k), closed)
       ELSE chan' = Rest(p, q)
    /\ count' = [count EXCEPT ![p][k] = @ + 1]
    /\ UNCHANGED <<now, mesh, sent, suspended, disposed>>

(* handlePeerPacket for a packet that was received before or is expired.   *)
Discard(p, q) ==
    LET k == Head(chan[q][p]).key IN
    /\ Arrives(p, q)
    /\ seen[p][k] # None \/ Expired(p, k)
    /\ Store(p, k)
    /\ chan' = Rest(p, q)
    /\ UNCHANGED <<now, mesh, sent, last, suspended, disposed, count>>

(* Mutated: an entry is removed a moment before its packet expires.        *)
StaleEarly(p, k) == seen[p][k] # None /\ Clock(p) - seen[p][k] >= ReliableExpiration

(* The expiration timer removes an entry of receivedPackets.               *)
Stale(p, k) == seen[p][k] # None /\ Clock(p) - seen[p][k] > ReliableExpiration

Expire(p) ==
    /\ ~disposed[p]
    /\ \E k \in Keys : Stale(p, k)
    /\ seen' = [seen EXCEPT ![p] =
                  [k \in Keys |-> IF Stale(p, k) THEN None ELSE @[k]]]
    /\ UNCHANGED <<now, mesh, chan, sent, last, suspended, disposed, count>>

Tick ==
    /\ now < MaxNow
    /\ now' = now + 1
    /\ UNCHANGED <<mesh, chan, sent, seen, last, suspended, disposed, count>>

-----------------------------------------------------------------------------
(* What Mesh and the rest of the transport do to the routing               *)

(* A connection of p with q comes up at p's end.  (Two at once are in the  *)
(* initial meshes only.)                                                   *)
Link(p, q) ==
    /\ <<"link", p>> \in Env
    /\ p # q /\ mesh[p][q] = 0
    /\ mesh' = [mesh EXCEPT ![p][q] = 1]
    /\ UNCHANGED <<now, chan, sent, seen, last, suspended, disposed, count>>

(* The connections of p with q break at p's end: packets from q that are   *)
(* still in flight are lost.                                               *)
Break(p, q) ==
    /\ <<"break", p>> \in Env
    /\ mesh[p][q] > 0
    /\ mesh' = [mesh EXCEPT ![p][q] = 0]
    /\ chan' = [chan EXCEPT ![q][p] = << >>]
    /\ UNCHANGED <<now, sent, seen, last, suspended, disposed, count>>

(* disconnectFrom, called by the network update: p closes its connections  *)
(* with q and deletes its peerRelayData.                                   *)
DisconnectFrom(p, q) ==
    /\ mesh' = [mesh EXCEPT ![p][q] = 0]
    /\ chan' = [chan EXCEPT ![q][p] = << >>]
    /\ suspended' = [suspended EXCEPT ![p][q] = [src \in Peers |-> 0]]
    /\ UNCHANGED <<now, sent, seen, disposed, count>>

Drop(p, q) ==
    /\ <<"break", p>> \in Env
    /\ mesh[p][q] > 0
    /\ DisconnectFrom(p, q)
    /\ UNCHANGED last

(* onPeerLeft: p disconnects from q and forgets it.                        *)
PeerLeft(p, q) ==
    /\ <<"leave", p>> \in Env
    /\ p # q
    /\ mesh[p][q] > 0 \/ last[p][q] # None
    /\ DisconnectFrom(p, q)
    /\ last' = [last EXCEPT ![p][q] = None]

Relays(p, src) == \E k \in Keys : k.src = src /\ count[p][k] > 0

(* processPacket of a suspendRelay packet: q asks p not to relay these     *)
(* sources to it, which p has relayed.  (RelaySuspension shows when; that  *)
(* p has a connection with q, be it not up yet, is not seen here.)         *)
Suspend(p, q, sources) ==
    /\ <<"suspend", q>> \in Env /\ ~disposed[p]
    /\ \A src \in sources : src \notin {p, q} /\ Relays(p, src)
    /\ suspended' = [suspended EXCEPT ![p][q] =
                       [src \in Peers |-> IF src \in sources
                                         THEN Clock(p) + SuspensionDuration ELSE @[src]]]
    /\ UNCHANGED <<now, mesh, chan, sent, seen, last, disposed, count>>

(* disconnect: from now on handlePeerPacket and send return at once.       *)
Dispose(p) ==
    /\ <<"dispose", p>> \in Env /\ ~disposed[p]
    /\ disposed' = [disposed EXCEPT ![p] = TRUE]
    /\ UNCHANGED <<now, mesh, chan, sent, seen, last, suspended, count>>

Receive(p, q) == Process(p, q) \/ Discard(p, q)

Next ==
    \/ Tick
    \/ \E p \in Peers :
          \/ \E reliable \in BOOLEAN : Send(p, reliable)
          \/ Expire(p) \/ Dispose(p)
          \/ \E q \in Peers :
                \/ Receive(p, q) \/ Link(p, q)
                \/ Break(p, q) \/ Drop(p, q) \/ PeerLeft(p, q)
                \/ \E sources \in SUBSET Peers : Suspend(p, q, sources)

Spec == Init /\ [][Next]_vars

(* Data channels deliver.                                                  *)
FairSpec == Spec /\ \A p, q \in Peers : WF_vars(Receive(p, q))

-----------------------------------------------------------------------------
(* Properties                                                              *)

(* Every variable has its type.                                            *)
TypeOK ==
    /\ now \in 0..MaxNow
    /\ mesh \in [Peers -> [Peers -> 0..2]]
    /\ chan \in [Peers -> [Peers -> Seq(Packets)]]
    /\ sent \in [Peers -> Seq([reliable : BOOLEAN, ts : Nat])]
    /\ seen \in [Peers -> [Keys -> Nat \cup {None}]]
    /\ last \in [Peers -> [Peers -> [ts : Nat, seq : Nat] \cup {None}]]
    /\ suspended \in [Peers -> [Peers -> [Peers -> Nat]]]
    /\ disposed \in [Peers -> BOOLEAN]
    /\ count \in [Peers -> [Keys -> Nat]]

(* How often p may emit the same reliable message of src.  Its clock takes *)
(* copies for as long as this after they were sent, less its lead over the *)
(* clock of src, and one that comes ReliableExpiration + 1 after the last  *)
(* one is new to it again: once, if its clock is not behind.               *)
Emissions(p, src) ==
    1 + (ReliableExpiration + Skew[src] - Skew[p]) \div (ReliableExpiration + 1)

(* A reliable message is emitted at most once by every peer whose clock is *)
(* not behind the sender's, although its copies arrive over many paths,    *)
(* receivedPackets forgets it after a while and a copy may arrive later    *)
(* still: an entry is only forgotten when every copy has expired by its    *)
(* timestamp.                                                              *)
ReliableAtMostOnce ==
    \A p \in Peers : \A k \in KeysSent :
        IsReliable(k) /\ Skew[k.src] <= Skew[p] => count[p][k] <= 1

(* A packet never travels in a circle: it is never sent back to its source *)
(* or, when reliable, to any peer that relayed it, and every hop adds a    *)
(* peer to receivedBy.  So the flood ends even without a ttl.              *)
PathsAreSimple ==
    \A p, q \in Peers : \A i \in 1..Len(chan[p][q]) :
        LET packet == chan[p][q][i] IN
        /\ packet.key.src # q
        /\ {packet.key.src, p} \subseteq packet.receivedBy
        /\ q \in packet.receivedBy => ~IsReliable(packet.key)
        /\ packet.hops < Cardinality(packet.receivedBy)

(* An unreliable message is never emitted after a newer unreliable one of  *)
(* that sender, whatever the paths they took (unless the peer forgot the   *)
(* sender, which "leave" allows).                                          *)
NeverBackInTime ==
    [][\A p \in Peers : \A k, newer \in KeysSent :
          /\ count'[p][k] > count[p][k] /\ ~IsReliable(k)
          /\ newer.src = k.src /\ Timestamp(newer) > Timestamp(k)
          => count[p][newer] = 0]_vars

(* Liveness.  In a mesh that is connected and stays as it is, with a ttl   *)
(* no less than the longest path, a reliable message reaches every peer:   *)
(* discarding copies by the first one that arrives loses nobody.           *)
EveryoneReached ==
    \A p \in Peers, k \in Keys :
        k \in KeysSent /\ IsReliable(k) /\ p # k.src ~> count[p][k] = 1

(* p has what was sent as k: it sent or emitted it.                        *)
Holds(p, k) == p = k.src \/ count[p][k] > 0

InTransit(p, q, k) == \E i \in 1..Len(chan[p][q]) : chan[p][q][i].key = k

(* Nobody's clock says that the packet is too old.                         *)
Fresh(k) == \A p \in Peers : Clock(p) - Timestamp(k) <= ReliableExpiration

(* p sends q what it gets of k: it is the source, or has not suspended it  *)
(* since k was sent.  (Less the skew of its clock, a time is one of `now'.) *)
Open(p, q, k) ==
    /\ mesh[p][q] > 0
    /\ \/ p = k.src
       \/ suspended[p][q][k.src] - Skew[p] <= Timestamp(k) - Skew[k.src]

(* What is safe about EveryoneReached.  Where p holds a reliable message   *)
(* and its connection with q lasts and is open for it, q holds it too or a *)
(* copy is on its way from p to q: neither discarding all copies but the   *)
(* first, nor receivedBy, nor the ttl (if no less than the number of peers *)
(* less one), nor forgetting what was received ever skips a neighbour that *)
(* nobody else has served, whatever breaks elsewhere.                      *)
NobodySkipped ==
    \A k \in KeysSent : IsReliable(k) /\ Fresh(k) =>
        \A p, q \in Peers :
            Lasting(p, q) /\ Open(p, q, k) /\ Holds(p, k)
                => Holds(q, k) \/ InTransit(p, q, k)

(* Routing implements Broadcast for the reliable messages: each step emits *)
(* at most one message, which was sent, by a peer that did not send it and *)
(* has emitted it less often than the clocks allow, also when the clock of *)
(* the sender is ahead.                                                    *)
ReliableSent == {k \in KeysSent : IsReliable(k)}

Abstract == INSTANCE Broadcast WITH
    Messages <- Keys,
    Limit <- [p \in Peers |-> [src \in Peers |-> Emissions(p, src)]],
    published <- ReliableSent,
    emitted <- [p \in Peers |-> [k \in Keys |->
                  IF k \in ReliableSent THEN count[p][k] ELSE 0]]

ImplementsBroadcast == Abstract!Spec

=============================================================================
