------------------------ MODULE RelaySuspensionProofs -----------------------
(***************************************************************************)
(* Theorems about RelaySuspension, for every set of peers, mesh and bound. *)
(***************************************************************************)
EXTENDS RelaySuspension, RoutingProofs

-----------------------------------------------------------------------------
(* What Routing promises of relays                                         *)

(* A peer has relayed what it sends on for others.                         *)
Carrying ==
    \A a, b \in Peers : \A m \in Carried(chan, a, b) :
        m.key.src # a => count[a][m.key] > 0

(* A message that was emitted stays emitted.                               *)
LEMMA EmittedKept ==
    ASSUME TypeOK, [Next]_vars, NEW p \in Peers, NEW k \in Keys, count[p][k] > 0
    PROVE  count'[p][k] > 0
<1>1. count \in [Peers -> [Keys -> Nat]] /\ chan \in Channels
  BY Zenon DEF TypeOK, Channels
<1>2. CASE count' = count
  BY <1>2
<1>3. ASSUME NEW a \in Peers, NEW q \in Peers, Process(a, q)
      PROVE  count'[p][k] > 0
  <2>a. SUFFICES ASSUME NEW j, j = Head(chan[q][a]).key
                 PROVE  count'[p][k] > 0
    OBVIOUS
  <2>1. count' = [count EXCEPT ![a][j] = @ + 1] /\ Arrives(a, q)
    BY <2>a, <1>3 DEF Process
  <2>2. j \in Keys
    BY <2>a, <2>1, <1>1, RestType DEF Packets
  <2>3. count[p][k] \in Nat /\ count[a][j] \in Nat
    BY <1>1, <2>2
  <2>4. count'[p][k] = IF p = a /\ k = j THEN count[a][j] + 1 ELSE count[p][k]
    BY <1>1, <2>1, <2>2
  <2> QED
    BY <2>3, <2>4
<1>4. CASE \E b, q \in Peers, sources \in SUBSET Peers :
               \/ Discard(b, q) \/ Expire(b) \/ Link(b, q) \/ Break(b, q)
               \/ Drop(b, q) \/ PeerLeft(b, q) \/ Suspend(b, q, sources) \/ Dispose(b)
  BY <1>2, <1>4
  DEF Discard, Expire, Link, Break, Drop, PeerLeft, DisconnectFrom, Suspend, Dispose
<1>5. CASE Tick \/ UNCHANGED vars \/ \E b \in Peers, r \in BOOLEAN : Send(b, r)
  BY <1>2, <1>5 DEF Tick, vars, Send
<1> QED
  BY <1>3, <1>4, <1>5 DEF Next, Receive

LEMMA RelaysKept ==
    ASSUME TypeOK, [Next]_vars, NEW p \in Peers, NEW src \in Peers, Relays(p, src)
    PROVE  Relays(p, src)'
<1>1. PICK k \in Keys : k.src = src /\ count[p][k] > 0
  BY DEF Relays
<1>2. count'[p][k] > 0
  BY <1>1, EmittedKept
<1> QED
  BY <1>1, <1>2 DEF Relays

LEMMA CarryingInit == Init => Carrying
<1> QED
  BY EmptySeq DEF Init, Carrying, Carried

(* Only Send and Process put packets on a channel.                         *)
LEMMA CarryingNext == Flow /\ Carrying /\ [Next]_vars => Carrying'
<1>a. SUFFICES ASSUME Flow, Carrying, [Next]_vars PROVE Carrying'
  OBVIOUS
<1>1. TypeOK /\ chan \in Channels /\ mesh \in [Peers -> [Peers -> 0..2]]
      /\ count \in [Peers -> [Keys -> Nat]]
  BY <1>a, Zenon DEF Flow, TypeOK, Channels
<1>b. SUFFICES ASSUME NEW a \in Peers, NEW b \in Peers,
                      NEW m, m \in Carried(chan', a, b), m.key.src # a
               PROVE  count'[a][m.key] > 0
  BY Zenon DEF Carrying, Carried
<1>2. CASE m \in Carried(chan, a, b)
  <2>1. m.key \in Keys /\ count[a][m.key] > 0
    BY <1>2, <1>1, <1>a, <1>b, CarriedType DEF Carrying, Packets
  <2> QED
    BY <2>1, <1>1, <1>a, EmittedKept
<1>3. ASSUME NEW p \in Peers, NEW reliable \in BOOLEAN, Send(p, reliable),
             m \notin Carried(chan, a, b)
      PROVE  FALSE
  <2>a. SUFFICES ASSUME NEW packet,
                        packet = [key |-> [src |-> p, seq |-> Len(sent[p]) + 1],
                                  hops |-> 0, receivedBy |-> {}]
                 PROVE  FALSE
    OBVIOUS
  <2>1. PICK closed \in SUBSET MayBeClosed(p) :
           chan' = SendPacket(chan, p, packet, ~reliable, closed)
    BY <2>a, <1>3 DEF Send
  <2>4. Len(sent[p]) + 1 <= MaxSeq[p]
    BY <1>3 DEF Send
  <2>2. packet \in Packets
    <3>1. sent[p] \in Seq([reliable : BOOLEAN, ts : Nat])
      BY <1>1 DEF TypeOK
    <3>2. Len(sent[p]) + 1 \in Nat /\ Len(sent[p]) + 1 > 0
      BY <3>1
    <3>3. [src |-> p, seq |-> Len(sent[p]) + 1] \in Keys
      BY <3>2, <2>4, NextKey
    <3> QED
      BY <3>3, <2>a DEF Packets
  <2>3. a = p /\ IsCopy(m, packet, p, b, ~reliable)
    BY <1>1, <1>3, <1>b, <2>1, <2>2, SendPacketAdds
  <2> QED
    BY <2>3, <2>a, <1>b DEF IsCopy
<1>4. ASSUME NEW p \in Peers, NEW q \in Peers, Process(p, q),
             m \notin Carried(chan, a, b)
      PROVE  count'[a][m.key] > 0
  <2>a. SUFFICES ASSUME NEW packet, packet = Head(chan[q][p]),
                        NEW k, k = packet.key,
                        NEW relayed, relayed = [packet EXCEPT !.hops = @ + 1]
                 PROVE  count'[a][m.key] > 0
    OBVIOUS
  <2>1. Arrives(p, q) /\ count' = [count EXCEPT ![p][k] = @ + 1]
        /\ \/ chan' = Rest(p, q)
           \/ \E closed \in SUBSET MayBeClosed(p) :
                 chan' = SendPacket(Rest(p, q), p, relayed, ~IsReliable(k), closed)
    BY <2>a, <1>4 DEF Process
  <2>2. packet \in Packets /\ Rest(p, q) \in Channels
        /\ Carried(Rest(p, q), a, b) \subseteq Carried(chan, a, b)
    BY <2>a, <2>1, <1>1, RestType
  <2>3. relayed \in Packets /\ relayed.key = k /\ k \in Keys
    BY <2>a, <2>2 DEF Packets
  <2>4. m \notin Carried(Rest(p, q), a, b)
    BY <2>2, <1>4
  <2>5. PICK closed \in SUBSET MayBeClosed(p) :
           chan' = SendPacket(Rest(p, q), p, relayed, ~IsReliable(k), closed)
    BY <2>1, <2>4, <1>b
  <2>6. a = p /\ IsCopy(m, relayed, p, b, ~IsReliable(k))
    BY <1>1, <1>b, <2>2, <2>3, <2>4, <2>5, SendPacketAdds
  <2>7. a = p /\ m.key = k
    BY <2>6, <2>3 DEF IsCopy
  <2> QED
    BY <2>7, <2>1, <2>3, <1>1
<1>5. ASSUME NEW p \in Peers, NEW q \in Peers,
             \/ Break(p, q) \/ Drop(p, q) \/ PeerLeft(p, q)
      PROVE  m \in Carried(chan, a, b)
  <2>1. chan' = [chan EXCEPT ![q][p] = << >>]
    BY <1>5 DEF Break, Drop, PeerLeft, DisconnectFrom
  <2> QED
    BY <2>1, <1>1, <1>b, CutType
<1>6. ASSUME NEW p \in Peers, NEW q \in Peers, Discard(p, q)
      PROVE  m \in Carried(chan, a, b)
  <2>1. chan' = Rest(p, q) /\ Arrives(p, q)
    BY <1>6 DEF Discard
  <2> QED
    BY <2>1, <1>1, <1>b, RestType
<1>7. CASE chan' = chan
  BY <1>7, <1>2, <1>b
<1>8. CASE \E p, q \in Peers, sources \in SUBSET Peers :
               Link(p, q) \/ Suspend(p, q, sources) \/ Dispose(p) \/ Expire(p)
  BY <1>7, <1>8 DEF Link, Suspend, Dispose, Expire
<1>9. CASE Tick \/ UNCHANGED vars
  BY <1>7, <1>9 DEF Tick, vars
<1> QED
  BY <1>a, <1>2, <1>3, <1>4, <1>5, <1>6, <1>8, <1>9 DEF Next, Receive

-----------------------------------------------------------------------------
(* The books have their types                                              *)

BooksTyped ==
    /\ reach \in [Peers -> [Peers -> [Peers -> Nat \cup {None}]]]
    /\ pending \in [Peers -> [Peers -> SUBSET Peers]]
    /\ theirs \in [Peers -> [Peers -> [Peers -> Nat \cup {None}]]]
    /\ asked \in [Peers -> [Peers -> Nat \cup {None}]]
    /\ requests \in [Peers -> [Peers -> Seq(Requests)]]

LEMMA HeardType ==
    ASSUME TypeOK, reach \in [Peers -> [Peers -> [Peers -> Nat \cup {None}]]],
           NEW p \in Peers, NEW q \in Peers, NEW src \in Peers, Heard(p, q, src)
    PROVE  reach' \in [Peers -> [Peers -> [Peers -> Nat \cup {None}]]]
<1>1. Clock(p) \in Nat
  BY ClockType DEF TypeOK
<1> QED
  BY <1>1 DEF Heard

(* What requestRelaySuspension does to the books, without its conditions.  *)
LEMMA RequestType ==
    ASSUME TypeOK, BooksTyped, NEW p \in Peers, NEW q \in Peers, NEW src \in Peers,
           RequestRelaySuspension(p, q, src)
    PROVE  /\ pending' \in [Peers -> [Peers -> SUBSET Peers]]
           /\ theirs' \in [Peers -> [Peers -> [Peers -> Nat \cup {None}]]]
           /\ asked' \in [Peers -> [Peers -> Nat \cup {None}]]
           /\ requests' \in [Peers -> [Peers -> Seq(Requests)]]
<1>a. SUFFICES ASSUME NEW wanted, wanted = Consolidate(p, q, src),
                      NEW due, due = (asked[p][q] # None /\ Clock(p) - asked[p][q] > Interval)
               PROVE  /\ pending' \in [Peers -> [Peers -> SUBSET Peers]]
                      /\ theirs' \in [Peers -> [Peers -> [Peers -> Nat \cup {None}]]]
                      /\ asked' \in [Peers -> [Peers -> Nat \cup {None}]]
                      /\ requests' \in [Peers -> [Peers -> Seq(Requests)]]
  OBVIOUS
<1>1. Clock(p) \in Nat /\ SuspensionDuration \in Nat
  BY ClockType, RoutingAssumption DEF TypeOK
<1>2. wanted \in SUBSET Peers
  BY <1>a DEF BooksTyped, Consolidate
<1>3. pending' = [pending EXCEPT ![p][q] = IF due THEN {} ELSE wanted]
  BY <1>a DEF RequestRelaySuspension
<1>4. pending' \in [Peers -> [Peers -> SUBSET Peers]]
  BY <1>2, <1>3 DEF BooksTyped
<1>5. asked' = [asked EXCEPT ![p][q] = IF @ = None \/ due THEN Clock(p) ELSE @]
  BY <1>a DEF RequestRelaySuspension
<1>6. asked' \in [Peers -> [Peers -> Nat \cup {None}]]
  BY <1>1, <1>5 DEF BooksTyped
<1>7. \/ theirs' = [theirs EXCEPT ![p][q] =
                      [s \in Peers |-> IF s \in wanted
                           THEN Clock(p) + SuspensionDuration ELSE @[s]]]
      \/ theirs' = theirs
  BY <1>a DEF RequestRelaySuspension
<1>8. theirs' \in [Peers -> [Peers -> [Peers -> Nat \cup {None}]]]
  <2>1. Clock(p) + SuspensionDuration \in Nat
    BY <1>1
  <2>2. theirs \in [Peers -> [Peers -> [Peers -> Nat \cup {None}]]]
    BY DEF BooksTyped
  <2>3. [s \in Peers |-> IF s \in wanted
              THEN Clock(p) + SuspensionDuration ELSE theirs[p][q][s]]
           \in [Peers -> Nat \cup {None}]
    BY <2>1, <2>2
  <2>4. ASSUME NEW row \in [Peers -> Nat \cup {None}],
               theirs' = [theirs EXCEPT ![p][q] = row]
        PROVE  theirs' \in [Peers -> [Peers -> [Peers -> Nat \cup {None}]]]
    BY <2>2, <2>4
  <2> QED
    BY <2>2, <2>3, <2>4, <1>7, Zenon
<1>9. \/ requests' = [requests EXCEPT ![p][q] =
                        Append(@, [sources |-> wanted, ts |-> Clock(p)])]
      \/ requests' = requests
  BY <1>a DEF RequestRelaySuspension
<1>10. requests' \in [Peers -> [Peers -> Seq(Requests)]]
  <2>1. [sources |-> wanted, ts |-> Clock(p)] \in Requests
    BY <1>1, <1>2 DEF Requests
  <2>2. requests \in [Peers -> [Peers -> Seq(Requests)]]
    BY DEF BooksTyped
  <2>3. Append(requests[p][q], [sources |-> wanted, ts |-> Clock(p)]) \in Seq(Requests)
    BY <2>1, <2>2
  <2>4. ASSUME NEW queue \in Seq(Requests),
               requests' = [requests EXCEPT ![p][q] = queue]
        PROVE  requests' \in [Peers -> [Peers -> Seq(Requests)]]
    BY <2>2, <2>4
  <2> QED
    BY <2>2, <2>3, <2>4, <1>9, Zenon
<1> QED
  BY <1>4, <1>6, <1>8, <1>10

LEMMA BooksInit == Init /\ SuspensionInit => BooksTyped
<1> QED
  BY EmptySeq DEF SuspensionInit, BooksTyped

LEMMA BooksNext ==
    ASSUME Flow, BooksTyped, [SuspensionNext]_relayVars
    PROVE  BooksTyped'
<1>1. TypeOK /\ chan \in Channels
  BY Zenon DEF Flow, TypeOK, Channels
<1>2. ASSUME NEW p \in Peers, NEW q \in Peers, Arrives(p, q)
      PROVE  Head(chan[q][p]).key.src \in Peers
  BY <1>1, <1>2, RestType, KeysType DEF Packets
<1>3. ASSUME NEW p \in Peers, NEW q \in Peers, ReceiveNew(p, q)
      PROVE  BooksTyped'
  <2>1. Head(chan[q][p]).key.src \in Peers
    BY <1>2, <1>3 DEF ReceiveNew, Process
  <2> QED
    BY <1>1, <1>3, <2>1, HeardType DEF ReceiveNew, BooksTyped, books
<1>4. ASSUME NEW p \in Peers, NEW q \in Peers, ReceiveAgain(p, q)
      PROVE  BooksTyped'
  <2>1. Head(chan[q][p]).key.src \in Peers
    BY <1>2, <1>4 DEF ReceiveAgain, Discard
  <2>2. reach' \in [Peers -> [Peers -> [Peers -> Nat \cup {None}]]]
    BY <1>1, <1>4, <2>1, HeardType DEF ReceiveAgain, BooksTyped
  <2>3. CASE RequestRelaySuspension(p, q, Head(chan[q][p]).key.src)
    BY <1>1, <2>1, <2>2, <2>3, RequestType DEF BooksTyped
  <2>4. CASE UNCHANGED books
    BY <2>2, <2>4 DEF BooksTyped, books
  <2> QED
    BY <1>4, <2>3, <2>4 DEF ReceiveAgain
<1>5. ASSUME NEW p \in Peers, NEW q \in Peers, HandleRequest(p, q)
      PROVE  BooksTyped'
  <2>1. reach' \in [Peers -> [Peers -> [Peers -> Nat \cup {None}]]]
    BY <1>1, <1>5, HeardType DEF HandleRequest, BooksTyped
  <2>2. requests' \in [Peers -> [Peers -> Seq(Requests)]]
    <3>1. requests[q][p] \in Seq(Requests) /\ requests[q][p] # << >>
      BY <1>5 DEF HandleRequest, BooksTyped
    <3>2. Tail(requests[q][p]) \in Seq(Requests)
      BY <3>1
    <3> QED
      BY <3>2, <1>5 DEF HandleRequest, BooksTyped
  <2> QED
    BY <1>5, <2>1, <2>2 DEF HandleRequest, BooksTyped
<1>6. ASSUME NEW p \in Peers, NEW q \in Peers, LoseRequests(p, q)
      PROVE  requests' \in [Peers -> [Peers -> Seq(Requests)]]
  BY <1>6, EmptySeq DEF LoseRequests, BooksTyped
<1>7. ASSUME NEW p \in Peers, NEW q \in Peers, SuspensionBreak(p, q)
      PROVE  BooksTyped'
  BY <1>6, <1>7 DEF SuspensionBreak, BooksTyped
<1>8. ASSUME NEW p \in Peers, NEW q \in Peers, ForgetRelay(p, q)
      PROVE  /\ pending' \in [Peers -> [Peers -> SUBSET Peers]]
             /\ theirs' \in [Peers -> [Peers -> [Peers -> Nat \cup {None}]]]
             /\ asked' \in [Peers -> [Peers -> Nat \cup {None}]]
             /\ requests' \in [Peers -> [Peers -> Seq(Requests)]]
  BY <1>6, <1>8 DEF ForgetRelay, BooksTyped
<1>9. ASSUME NEW p \in Peers, NEW q \in Peers, SuspensionDrop(p, q)
      PROVE  BooksTyped'
  BY <1>8, <1>9 DEF SuspensionDrop, BooksTyped
<1>10. ASSUME NEW p \in Peers, NEW q \in Peers, SuspensionPeerLeft(p, q)
       PROVE  BooksTyped'
  <2>1. reach' \in [Peers -> [Peers -> [Peers -> Nat \cup {None}]]]
    BY <1>10 DEF SuspensionPeerLeft, BooksTyped
  <2> QED
    BY <1>8, <1>10, <2>1 DEF SuspensionPeerLeft, BooksTyped
<1>11. CASE UNCHANGED <<reach, books>>
  BY <1>11 DEF BooksTyped, books
<1> QED
  BY <1>3, <1>4, <1>5, <1>7, <1>9, <1>10, <1>11
  DEF SuspensionNext, Unrelated, relayVars

-----------------------------------------------------------------------------
(* What is asked for                                                       *)

(* What p may ask q for: sources other than the two that q has relayed.    *)
Superfluous(p, q, src) == src \notin {p, q} /\ Relays(q, src)

PendingAllowed ==
    \A p, q \in Peers : \A src \in pending[p][q] : Superfluous(p, q, src)

RequestsAllowed ==
    \A p, q \in Peers : \A i \in 1..Len(requests[p][q]) :
        /\ <<"suspend", p>> \in Env
        /\ \A src \in requests[p][q][i].sources : Superfluous(p, q, src)

Asking == PendingAllowed /\ RequestsAllowed

LEMMA AskingInit == SuspensionInit => Asking
<1> QED
  BY EmptySeq DEF SuspensionInit, Asking, PendingAllowed, RequestsAllowed

(* The step of Routing that each step of RelaySuspension is.               *)
LEMMA SimulatesRouting ==
    ASSUME Flow, BooksTyped, Asking, [SuspensionNext]_relayVars
    PROVE  [Next]_vars
<1>1. ASSUME NEW p \in Peers, NEW q \in Peers, HandleRequest(p, q)
      PROVE  [Next]_vars
  <2>a. SUFFICES ASSUME NEW request, request = Head(requests[q][p])
                 PROVE  [Next]_vars
    OBVIOUS
  <2>1. /\ requests[q][p] # << >> /\ ~disposed[p]
        /\ UNCHANGED <<now, mesh, chan, sent, seen, last, disposed, count>>
    BY <1>1 DEF HandleRequest
  <2>2. /\ requests[q][p] \in Seq(Requests)
        /\ 1 \in 1..Len(requests[q][p]) /\ request = requests[q][p][1]
    <3>1. requests[q][p] \in Seq(Requests)
      BY DEF BooksTyped
    <3> QED
      BY <3>1, <2>1, <2>a, HeadTailProperties, LenProperties, EmptySeq
  <2>3. /\ request.sources \in SUBSET Peers /\ <<"suspend", q>> \in Env
        /\ \A src \in request.sources : src \notin {p, q} /\ Relays(p, src)
    <3>1. request \in Requests
      BY <2>2, ElementOfSeq
    <3>2. /\ <<"suspend", q>> \in Env
          /\ \A src \in request.sources : Superfluous(q, p, src)
      BY <2>2 DEF Asking, RequestsAllowed
    <3> QED
      BY <3>1, <3>2 DEF Requests, Superfluous
  <2>4. CASE suspended' = Granted(p, q, request.sources)
    <3>2. Suspend(p, q, request.sources)
      BY <2>1, <2>3, <2>4 DEF Suspend, Granted
    <3> QED
      BY <2>3, <3>2 DEF Next
  <2>5. CASE suspended' = suspended
    BY <2>1, <2>5 DEF vars
  <2> QED
    BY <1>1, <2>a, <2>4, <2>5 DEF HandleRequest
<1>2. ASSUME NEW p \in Peers, NEW q \in Peers, ReceiveNew(p, q) \/ ReceiveAgain(p, q)
      PROVE  Next
  BY <1>2 DEF ReceiveNew, ReceiveAgain, Receive, Next
<1>3. ASSUME NEW p \in Peers, NEW q \in Peers,
             \/ SuspensionBreak(p, q) \/ SuspensionDrop(p, q)
             \/ SuspensionPeerLeft(p, q)
      PROVE  Next
  BY <1>3 DEF SuspensionBreak, SuspensionDrop, SuspensionPeerLeft, Next
<1>4. ASSUME NEW p \in Peers, Unrelated(p)
      PROVE  Next
  BY <1>4 DEF Unrelated, Next
<1>5. CASE Tick
  BY <1>5 DEF Next
<1>6. CASE UNCHANGED relayVars
  BY <1>6 DEF relayVars
<1> QED
  BY <1>1, <1>2, <1>3, <1>4, <1>5, <1>6 DEF SuspensionNext

(* A source is found superfluous by a packet of it that the relay sent on. *)
LEMMA ConsolidateAllowed ==
    ASSUME Flow, Carrying, PendingAllowed, NEW p \in Peers, NEW q \in Peers,
           Arrives(p, q), NEW src, src = Head(chan[q][p]).key.src, q # src,
           NEW s \in Consolidate(p, q, src)
    PROVE  Superfluous(p, q, s)
<1>1. CASE s \in pending[p][q]
  BY <1>1 DEF PendingAllowed
<1>2. CASE s = src
  <2>a. SUFFICES ASSUME NEW m, m = Head(chan[q][p])
                 PROVE  Superfluous(p, q, s)
    OBVIOUS
  <2>1. m \in Packets /\ m \in Carried(chan, q, p)
    BY <2>a, RestType, Zenon DEF Flow, TypeOK, Channels
  <2>2. m.key \in Keys /\ m.key.src = src /\ src # p
    BY <2>a, <2>1 DEF Flow, InFlight, Sound, Packets
  <2>3. count[q][m.key] > 0
    BY <2>1, <2>2 DEF Carrying
  <2> QED
    BY <1>2, <2>2, <2>3 DEF Superfluous, Relays
<1> QED
  BY <1>1, <1>2 DEF Consolidate

(* Once allowed, always allowed.                                           *)
LEMMA SuperfluousKept ==
    ASSUME TypeOK, [Next]_vars, NEW p \in Peers, NEW q \in Peers, NEW src \in Peers,
           Superfluous(p, q, src)
    PROVE  Superfluous(p, q, src)'
<1> QED
  BY RelaysKept DEF Superfluous

(* A queue of requests of which only some are left.                        *)
FewerRequests ==
    \A a, b \in Peers : \A i \in 1..Len(requests'[a][b]) :
        \E j \in 1..Len(requests[a][b]) : requests'[a][b][i] = requests[a][b][j]

LEMMA FewerAllowed ==
    ASSUME Flow, BooksTyped, Asking, [Next]_vars, FewerRequests
    PROVE  RequestsAllowed'
<1>1. ASSUME NEW a \in Peers, NEW b \in Peers, NEW i \in 1..Len(requests'[a][b])
      PROVE  /\ <<"suspend", a>> \in Env
             /\ \A src \in requests'[a][b][i].sources : Superfluous(a, b, src)'
  <2>1. PICK j \in 1..Len(requests[a][b]) : requests'[a][b][i] = requests[a][b][j]
    BY DEF FewerRequests
  <2>2. requests[a][b] \in Seq(Requests)
    BY DEF BooksTyped
  <2>3. requests[a][b][j].sources \subseteq Peers
    <3>1. requests[a][b][j] \in Requests
      BY <2>2, ElementOfSeq
    <3> QED
      BY <3>1 DEF Requests
  <2>4. /\ <<"suspend", a>> \in Env
        /\ \A src \in requests[a][b][j].sources : Superfluous(a, b, src)
    BY DEF Asking, RequestsAllowed
  <2> QED
    BY <2>1, <2>3, <2>4, SuperfluousKept DEF Flow
<1> QED
  BY <1>1, Zenon DEF RequestsAllowed

LEMMA PendingKept ==
    ASSUME Flow, BooksTyped, Asking, [Next]_vars,
           \A a, b \in Peers : pending'[a][b] \subseteq pending[a][b]
    PROVE  PendingAllowed'
<1>1. ASSUME NEW a \in Peers, NEW b \in Peers, NEW src \in pending'[a][b]
      PROVE  Superfluous(a, b, src)'
  <2>1. src \in Peers /\ Superfluous(a, b, src)
    BY DEF BooksTyped, Asking, PendingAllowed
  <2> QED
    BY <2>1, SuperfluousKept DEF Flow
<1> QED
  BY <1>1, Zenon DEF PendingAllowed

LEMMA AskingNext ==
    ASSUME Flow, Carrying, BooksTyped, Asking, [SuspensionNext]_relayVars
    PROVE  Asking'
<1>1. [Next]_vars
  BY SimulatesRouting
<1>2. TypeOK /\ chan \in Channels
  BY Zenon DEF Flow, TypeOK, Channels
<1>3. CASE UNCHANGED books
  BY <1>1, <1>3, PendingKept, FewerAllowed DEF books, FewerRequests, Asking
<1>4. ASSUME NEW p \in Peers, NEW q \in Peers, NEW src,
             Arrives(p, q), src = Head(chan[q][p]).key.src, q # src,
             <<"suspend", p>> \in Env, RequestRelaySuspension(p, q, src)
      PROVE  Asking'
  <2>a. SUFFICES ASSUME NEW wanted, wanted = Consolidate(p, q, src),
                        NEW due,
                        due = (asked[p][q] # None /\ Clock(p) - asked[p][q] > Interval)
                 PROVE  Asking'
    OBVIOUS
  <2>1. \A s \in wanted : Superfluous(p, q, s)
    BY <2>a, <1>4, ConsolidateAllowed DEF Asking
  <2>2. src \in Peers
    BY <1>2, <1>4, RestType, KeysType DEF Packets
  <2>3. wanted \subseteq Peers
    BY <2>a, <2>2 DEF Consolidate, BooksTyped
  <2>4. \A s \in wanted : Superfluous(p, q, s)'
    BY <2>1, <2>3, <1>1, <1>2, SuperfluousKept
  <2>5. PendingAllowed'
    <3>1. pending' = [pending EXCEPT ![p][q] = IF due THEN {} ELSE wanted]
      BY <1>4, <2>a DEF RequestRelaySuspension
    <3>2. ASSUME NEW a \in Peers, NEW b \in Peers, NEW s \in pending'[a][b]
          PROVE  Superfluous(a, b, s)'
      <4>1. CASE a = p /\ b = q
        <5>1. s \in wanted
          BY <3>1, <3>2, <4>1 DEF BooksTyped
        <5> QED
          BY <5>1, <4>1, <2>4
      <4>2. CASE ~(a = p /\ b = q)
        <5>1. s \in pending[a][b]
          BY <3>1, <3>2, <4>2 DEF BooksTyped
        <5>2. s \in Peers /\ Superfluous(a, b, s)
          BY <5>1 DEF BooksTyped, Asking, PendingAllowed
        <5> QED
          BY <5>2, <1>1, <1>2, SuperfluousKept
      <4> QED
        BY <4>1, <4>2
    <3> QED
      BY <3>2, Zenon DEF PendingAllowed
  <2>6. RequestsAllowed'
    <3>1. CASE requests' = requests
      BY <3>1, <1>1, FewerAllowed DEF FewerRequests
    <3>2. ASSUME NEW request, request = [sources |-> wanted, ts |-> Clock(p)],
                 requests' = [requests EXCEPT ![p][q] = Append(@, request)]
          PROVE  RequestsAllowed'
      <4>1. requests \in [Peers -> [Peers -> Seq(Requests)]]
        BY DEF BooksTyped
      <4>2. ASSUME NEW a \in Peers, NEW b \in Peers,
                   NEW i \in 1..Len(requests'[a][b])
            PROVE  \/ \E j \in 1..Len(requests[a][b]) :
                         requests'[a][b][i] = requests[a][b][j]
                   \/ a = p /\ b = q /\ requests'[a][b][i] = request
        <5>1. CASE a = p /\ b = q
          <6>1. requests'[a][b] = Append(requests[p][q], request)
            BY <3>2, <4>1, <5>1
          <6>2. requests[p][q] \in Seq(Requests) /\ Len(requests[p][q]) \in Nat
            BY <4>1, LenProperties
          <6>3. CASE i \in 1..Len(requests[p][q])
            BY <5>1, <6>1, <6>2, <6>3
          <6>4. CASE i = Len(requests[p][q]) + 1
            BY <5>1, <6>1, <6>2, <6>4
          <6> QED
            BY <4>2, <6>1, <6>2, <6>3, <6>4
        <5>2. CASE ~(a = p /\ b = q)
          <6>1. requests'[a][b] = requests[a][b]
            BY <3>2, <4>1, <5>2
          <6> QED
            BY <6>1, <4>2
        <5> QED
          BY <5>1, <5>2
      <4>3. ASSUME NEW a \in Peers, NEW b \in Peers,
                   NEW i \in 1..Len(requests'[a][b])
            PROVE  /\ <<"suspend", a>> \in Env
                   /\ \A s \in requests'[a][b][i].sources : Superfluous(a, b, s)'
        <5>1. CASE a = p /\ b = q /\ requests'[a][b][i] = request
          BY <5>1, <3>2, <1>4, <2>4
        <5>2. ASSUME NEW j \in 1..Len(requests[a][b]),
                     requests'[a][b][i] = requests[a][b][j]
              PROVE  /\ <<"suspend", a>> \in Env
                     /\ \A s \in requests'[a][b][i].sources : Superfluous(a, b, s)'
          <6>1. requests[a][b][j] \in Requests
            BY <4>1, ElementOfSeq
          <6>2. requests[a][b][j].sources \subseteq Peers
            BY <6>1 DEF Requests
          <6>3. /\ <<"suspend", a>> \in Env
                /\ \A s \in requests[a][b][j].sources : Superfluous(a, b, s)
            BY DEF Asking, RequestsAllowed
          <6> QED
            BY <5>2, <6>2, <6>3, <1>1, <1>2, SuperfluousKept
        <5> QED
          BY <4>2, <5>1, <5>2
      <4> QED
        BY <4>3, Zenon DEF RequestsAllowed
    <3> QED
      BY <3>1, <3>2, <1>4, <2>a DEF RequestRelaySuspension
  <2> QED
    BY <2>5, <2>6 DEF Asking
<1>5. ASSUME NEW p \in Peers, NEW q \in Peers, ReceiveNew(p, q) \/ ReceiveAgain(p, q)
      PROVE  Asking'
  BY <1>3, <1>4, <1>5 DEF ReceiveNew, ReceiveAgain, Discard
<1>6. ASSUME NEW p \in Peers, NEW q \in Peers, HandleRequest(p, q)
      PROVE  Asking'
  <2>1. /\ requests[q][p] \in Seq(Requests) /\ requests[q][p] # << >>
        /\ requests' = [requests EXCEPT ![q][p] = Tail(@)] /\ pending' = pending
    BY <1>6 DEF HandleRequest, BooksTyped
  <2>2. /\ Len(requests[q][p]) \in Nat
        /\ Len(Tail(requests[q][p])) = Len(requests[q][p]) - 1
        /\ \A i \in 1..Len(Tail(requests[q][p])) :
              Tail(requests[q][p])[i] = requests[q][p][i + 1]
    BY <2>1, HeadTailProperties, LenProperties
  <2>3. FewerRequests
    <3>1. ASSUME NEW a \in Peers, NEW b \in Peers, NEW i \in 1..Len(requests'[a][b])
          PROVE  \E j \in 1..Len(requests[a][b]) :
                     requests'[a][b][i] = requests[a][b][j]
      <4>1. CASE a = q /\ b = p
        <5>1. requests'[a][b] = Tail(requests[q][p])
          BY <2>1, <4>1 DEF BooksTyped
        <5>2. i + 1 \in 1..Len(requests[q][p])
          BY <5>1, <3>1, <2>2
        <5> QED
          BY <5>1, <5>2, <4>1, <2>2
      <4>2. CASE ~(a = q /\ b = p)
        <5>1. requests'[a][b] = requests[a][b]
          BY <2>1, <4>2 DEF BooksTyped
        <5> QED
          BY <5>1, <3>1
      <4> QED
        BY <4>1, <4>2
    <3> QED
      BY <3>1 DEF FewerRequests
  <2> QED
    BY <1>1, <2>1, <2>3, PendingKept, FewerAllowed DEF Asking
<1>7. ASSUME NEW p \in Peers, NEW q \in Peers, LoseRequests(p, q)
      PROVE  FewerRequests
  <2>1. ASSUME NEW a \in Peers, NEW b \in Peers, NEW i \in 1..Len(requests'[a][b])
        PROVE  requests'[a][b] = requests[a][b]
    BY <1>7, <2>1, EmptySeq DEF LoseRequests, BooksTyped
  <2> QED
    BY <2>1 DEF FewerRequests
<1>8. ASSUME NEW p \in Peers, NEW q \in Peers, ForgetRelay(p, q)
      PROVE  Asking'
  <2>1. \A a, b \in Peers : pending'[a][b] \subseteq pending[a][b]
    BY <1>8 DEF ForgetRelay, BooksTyped
  <2> QED
    BY <1>1, <1>7, <1>8, <2>1, PendingKept, FewerAllowed DEF Asking, ForgetRelay
<1>9. ASSUME NEW p \in Peers, NEW q \in Peers, SuspensionBreak(p, q)
      PROVE  Asking'
  BY <1>1, <1>7, <1>9, PendingKept, FewerAllowed DEF Asking, SuspensionBreak
<1> QED
  BY <1>3, <1>5, <1>6, <1>8, <1>9
  DEF SuspensionNext, Unrelated, SuspensionDrop, SuspensionPeerLeft, relayVars

-----------------------------------------------------------------------------
(* RelaySuspension implements Routing                                      *)

Relaying == Flow /\ Carrying /\ BooksTyped /\ Asking

LEMMA RelayingInit == SuspensionInit => Relaying
<1>1. SuspensionInit => Init
  BY DEF SuspensionInit
<1> QED
  BY <1>1, FlowInit, CarryingInit, BooksInit, AskingInit DEF Relaying

LEMMA RelayingNext == Relaying /\ [SuspensionNext]_relayVars => Relaying' /\ [Next]_vars
<1> SUFFICES ASSUME Relaying, [SuspensionNext]_relayVars
             PROVE  Relaying' /\ [Next]_vars
  OBVIOUS
<1>1. Flow /\ Carrying /\ BooksTyped /\ Asking
  BY DEF Relaying
<1>2. [Next]_vars
  BY <1>1, SimulatesRouting
<1> QED
  BY <1>1, <1>2, FlowNext, CarryingNext, BooksNext, AskingNext DEF Relaying

LEMMA RelayingAlways == SuspensionSpec => []Relaying
<1> QED
  BY RelayingInit, RelayingNext, PTL DEF SuspensionSpec

(* Every variable of RelaySuspension keeps its type.                       *)
THEOREM RelayTypeCorrect == SuspensionSpec => []RelayTypeOK
<1>1. Relaying => RelayTypeOK
  BY DEF Relaying, Flow, BooksTyped, RelayTypeOK
<1> QED
  BY <1>1, RelayingAlways, PTL

(* A peer only asks a relay for what the action Suspend of Routing allows, *)
(* so that what is proved of Routing, where relays are suspended by        *)
(* anybody at any time, is true of the whole.                              *)
THEOREM RoutingImplemented == SuspensionSpec => ImplementsRouting
<1>1. SuspensionInit => Init
  BY DEF SuspensionInit
<1> QED
  BY <1>1, RelayingAlways, RelayingNext, PTL DEF SuspensionSpec, ImplementsRouting, Spec

(* With suspensions, too, no packet travels in a circle, ...               *)
THEOREM PathsCorrectRelayed == SuspensionSpec => []PathsAreSimple
<1> QED
  BY RoutingImplemented, PathsCorrect, PTL DEF ImplementsRouting

(* ... and a peer whose clock is not behind the sender's emits a reliable  *)
(* message at most once.                                                   *)
THEOREM AtMostOnceRelayed == SuspensionSpec => []ReliableAtMostOnce
<1> QED
  BY RoutingImplemented, AtMostOnceCorrect, PTL DEF ImplementsRouting

(* The flood implements Broadcast, with the limit that any two clocks set, *)
(* while relays are asked for and suspended by the code's own rules, ...   *)
THEOREM BroadcastRelayed == SuspensionSpec => ImplementsBroadcast
<1> QED
  BY RoutingImplemented, BroadcastCorrect, PTL DEF ImplementsRouting

(* ... and unreliable messages never go back in time.                      *)
THEOREM NeverBackRelayed ==
    ASSUME \A p \in Peers : <<"leave", p>> \notin Env
    PROVE  SuspensionSpec => NeverBackInTime
<1> QED
  BY RoutingImplemented, NeverBackCorrect, PTL DEF ImplementsRouting

-----------------------------------------------------------------------------
(* The paths that are left                                                 *)

(* Time does not go back.                                                  *)
LEMMA ClockGrows ==
    ASSUME TypeOK, [Next]_vars, NEW p \in Peers
    PROVE  Clock(p) \in Nat /\ Clock(p)' \in Nat /\ Clock(p)' >= Clock(p)
           /\ Clock(p) <= MaxNow + Skew[p] /\ Clock(p)' <= MaxNow + Skew[p]
<1>1. now \in Nat /\ now <= MaxNow /\ MaxNow \in Nat
  BY RoutingAssumption DEF TypeOK
<1>2. Skew[p] \in Nat
  BY RoutingAssumption
<1>3. now' = now \/ (now' = now + 1 /\ now < MaxNow)
  <2>1. ASSUME NEW b \in Peers, NEW q \in Peers
        PROVE  /\ Process(b, q) => now' = now
               /\ Discard(b, q) => now' = now
               /\ Link(b, q) \/ Break(b, q) => now' = now
               /\ Drop(b, q) \/ PeerLeft(b, q) => now' = now
               /\ \A sources : Suspend(b, q, sources) => now' = now
    <3>1. Process(b, q) => now' = now
      BY Zenon DEF Process
    <3>2. Discard(b, q) => now' = now
      BY Zenon DEF Discard
    <3>3. Link(b, q) \/ Break(b, q) => now' = now
      BY Zenon DEF Link, Break
    <3>4. Drop(b, q) \/ PeerLeft(b, q) => now' = now
      BY Zenon DEF Drop, PeerLeft, DisconnectFrom
    <3>5. \A sources : Suspend(b, q, sources) => now' = now
      BY Zenon DEF Suspend
    <3> QED
      BY <3>1, <3>2, <3>3, <3>4, <3>5
  <2>2. CASE \E b \in Peers : Expire(b) \/ Dispose(b) \/ \E r \in BOOLEAN : Send(b, r)
    BY <2>2 DEF Expire, Dispose, Send
  <2>3. CASE Tick \/ UNCHANGED vars
    BY <2>3 DEF Tick, vars
  <2> QED
    BY <2>1, <2>2, <2>3 DEF Next, Receive
<1> QED
  BY <1>1, <1>2, <1>3 DEF Clock

(* A steady peer loses no connection, ...                                  *)
LEMMA SteadyMesh ==
    ASSUME Relaying, [SuspensionNext]_relayVars, NEW p \in Peers, Steady(p),
           NEW q \in Peers, mesh[p][q] > 0
    PROVE  mesh'[p][q] > 0
<1>1. mesh \in [Peers -> [Peers -> 0..2]]
  BY Zenon DEF Relaying, Flow, TypeOK
<1>2. ASSUME NEW a \in Peers, NEW b \in Peers,
             ReceiveNew(a, b) \/ ReceiveAgain(a, b) \/ HandleRequest(a, b)
      PROVE  mesh' = mesh
  <2>1. ReceiveNew(a, b) => mesh' = mesh
    BY Zenon DEF ReceiveNew, Process
  <2>2. ReceiveAgain(a, b) => mesh' = mesh
    BY Zenon DEF ReceiveAgain, Discard
  <2>3. HandleRequest(a, b) => mesh' = mesh
    BY Zenon DEF HandleRequest
  <2> QED
    BY <1>2, <2>1, <2>2, <2>3
<1>3. ASSUME NEW a \in Peers, Unrelated(a)
      PROVE  mesh'[p][q] > 0
  <2>1. CASE \E b \in Peers : Link(a, b)
    BY <2>1, <1>1 DEF Link
  <2>2. CASE ~\E b \in Peers : Link(a, b)
    BY <2>2, <1>3 DEF Unrelated, Send, Expire, Dispose
  <2> QED
    BY <2>1, <2>2
<1>4. ASSUME NEW a \in Peers, NEW b \in Peers,
             SuspensionBreak(a, b) \/ SuspensionDrop(a, b) \/ SuspensionPeerLeft(a, b)
      PROVE  mesh'[p][q] > 0
  <2>1. a # p
    BY <1>4 DEF Steady, SuspensionBreak, SuspensionDrop, SuspensionPeerLeft,
       Break, Drop, PeerLeft
  <2>2. mesh' = [mesh EXCEPT ![a][b] = 0]
    BY <1>4 DEF SuspensionBreak, SuspensionDrop, SuspensionPeerLeft,
       Break, Drop, PeerLeft, DisconnectFrom
  <2> QED
    BY <2>1, <2>2, <1>1
<1> QED
  BY <1>2, <1>3, <1>4 DEF SuspensionNext, Tick, relayVars, vars

(* ... so a path that is known and is not suspended is still there.        *)
LEMMA PathStays ==
    ASSUME Relaying, [SuspensionNext]_relayVars,
           NEW p \in Peers, Steady(p), NEW src \in Peers,
           NEW q \in EverReachableThrough(p, src),
           reach'[p][src][q] # None,
           ~IsRelayFromConnectionSuspended(p, q, src)'
    PROVE  q \in EverReachableThrough(p, src)'
<1>1. q \in Peers /\ mesh[p][q] > 0
  BY DEF EverReachableThrough
<1>2. mesh'[p][q] > 0
  BY <1>1, SteadyMesh
<1> QED
  BY <1>1, <1>2 DEF EverReachableThrough

(* Without a new suspension, the paths that were there still are.          *)
LEMMA PathKeptQuiet ==
    ASSUME Relaying, Relaying', [SuspensionNext]_relayVars, NeverAllSuspended,
           NEW p \in Peers, Steady(p), NEW src \in Peers,
           pending'[p] = pending[p], theirs'[p] = theirs[p],
           \A q \in Peers : reach[p][src][q] # None => reach'[p][src][q] # None
    PROVE  (\E q \in Peers : IsRelayFromConnectionSuspended(p, q, src)')
               => EverReachableThrough(p, src)' # {}
<1>1. Clock(p) \in Nat /\ Clock(p)' \in Nat /\ Clock(p)' >= Clock(p)
  BY RelayingNext, ClockGrows DEF Relaying, Flow
<1>2. ASSUME NEW q \in Peers, IsRelayFromConnectionSuspended(p, q, src)'
      PROVE  IsRelayFromConnectionSuspended(p, q, src)
  <2>1. theirs[p][q][src] \in Nat \cup {None}
    BY DEF Relaying, BooksTyped
  <2>2. theirs'[p][q][src] = theirs[p][q][src] /\ pending'[p][q] = pending[p][q]
    OBVIOUS
  <2>3. CASE src \in pending'[p][q]
    BY <2>2, <2>3 DEF IsRelayFromConnectionSuspended
  <2>4. CASE theirs'[p][q][src] # None /\ Clock(p)' < theirs'[p][q][src]
    BY <2>1, <2>2, <2>4, <1>1 DEF IsRelayFromConnectionSuspended
  <2> QED
    BY <1>2, <2>3, <2>4 DEF IsRelayFromConnectionSuspended
<1>3. SUFFICES ASSUME NEW q \in Peers, IsRelayFromConnectionSuspended(p, q, src)'
               PROVE  EverReachableThrough(p, src)' # {}
  OBVIOUS
<1>4. PICK r \in EverReachableThrough(p, src) : TRUE
  BY <1>2, <1>3 DEF NeverAllSuspended
<1>5. /\ r \in Peers /\ reach[p][src][r] # None
      /\ ~IsRelayFromConnectionSuspended(p, r, src)
  BY <1>4 DEF EverReachableThrough
<1>6. ~IsRelayFromConnectionSuspended(p, r, src)'
  BY <1>2, <1>5
<1>7. r \in EverReachableThrough(p, src)'
  BY <1>5, <1>6, PathStays
<1> QED
  BY <1>7

LEMMA PathKeptInit == SuspensionInit => NeverAllSuspended
BY DEF SuspensionInit, NeverAllSuspended, IsRelayFromConnectionSuspended

(* A suspension that is new at p for q leaves another path for its source, *)
(* and those that are not are left as they were.                           *)
LEMMA PathKeptRequest ==
    ASSUME Relaying, Relaying', [SuspensionNext]_relayVars, NeverAllSuspended,
           NEW p \in Peers, Steady(p), NEW q \in Peers, NEW new \in Peers,
           RequestRelaySuspension(p, q, new), now' = now, Heard(p, q, new),
           NEW src \in Peers
    PROVE  (\E r \in Peers : IsRelayFromConnectionSuspended(p, r, src)')
               => EverReachableThrough(p, src)' # {}
<1>a. SUFFICES ASSUME NEW wanted, wanted = Consolidate(p, q, new),
                      NEW due,
                      due = (asked[p][q] # None /\ Clock(p) - asked[p][q] > Interval),
                      NEW s \in Peers, IsRelayFromConnectionSuspended(p, s, src)'
               PROVE  EverReachableThrough(p, src)' # {}
  OBVIOUS
<1>1. /\ pending \in [Peers -> [Peers -> SUBSET Peers]]
      /\ theirs \in [Peers -> [Peers -> [Peers -> Nat \cup {None}]]]
      /\ reach \in [Peers -> [Peers -> [Peers -> Nat \cup {None}]]]
  BY DEF Relaying, BooksTyped
<1>2. Clock(p)' = Clock(p) /\ Clock(p) \in Nat
  BY RelayingNext, ClockGrows DEF Relaying, Flow, Clock
<1>3. pending' = [pending EXCEPT ![p][q] = IF due THEN {} ELSE wanted]
  BY <1>a DEF RequestRelaySuspension
<1>4. \/ theirs' = [theirs EXCEPT ![p][q] =
                      [x \in Peers |-> IF x \in wanted
                           THEN Clock(p) + SuspensionDuration ELSE @[x]]]
      \/ theirs' = theirs
  BY <1>a DEF RequestRelaySuspension
<1>5. \A r \in Peers : reach[p][src][r] # None => reach'[p][src][r] # None
  <2>1. reach' = [reach EXCEPT ![p][new][q] = Clock(p)]
    BY DEF Heard
  <2>2. Clock(p) # None
    BY <1>2, RoutingAssumption
  <2> QED
    BY <2>1, <2>2, <1>1
<1>6. ASSUME NEW r \in Peers, r # q, ~IsRelayFromConnectionSuspended(p, r, src)
      PROVE  ~IsRelayFromConnectionSuspended(p, r, src)'
  <2>1. pending'[p][r] = pending[p][r] /\ theirs'[p][r] = theirs[p][r]
    BY <1>1, <1>3, <1>4, <1>6
  <2> QED
    BY <2>1, <1>2, <1>6 DEF IsRelayFromConnectionSuspended
<1>7. ASSUME NEW r \in EverReachableThrough(p, src), r # q
      PROVE  EverReachableThrough(p, src)' # {}
  <2>1. /\ r \in Peers /\ reach[p][src][r] # None
        /\ ~IsRelayFromConnectionSuspended(p, r, src)
    BY <1>7 DEF EverReachableThrough
  <2>2. r \in EverReachableThrough(p, src)'
    BY <2>1, <1>5, <1>6, <1>7, PathStays
  <2> QED
    BY <2>2
<1>8. ASSUME IsRelayFromConnectionSuspended(p, q, src)',
             ~IsRelayFromConnectionSuspended(p, q, src)
      PROVE  EverReachableThrough(p, src)' # {}
  <2>1. src \in wanted
    <3>1. CASE src \in pending'[p][q]
      BY <3>1, <1>1, <1>3
    <3>2. CASE src \notin wanted
      <4>1. theirs'[p][q][src] = theirs[p][q][src]
        BY <3>2, <1>1, <1>4
      <4>2. src \notin pending'[p][q]
        BY <3>2, <1>1, <1>3
      <4> QED
        BY <4>1, <4>2, <1>2, <1>8 DEF IsRelayFromConnectionSuspended
    <3> QED
      BY <3>2
  <2>2. src \notin pending[p][q]
    BY <1>8 DEF IsRelayFromConnectionSuspended
  <2>3. src = new /\ ReachableThrough(p, new) \ {q} # {}
    BY <2>1, <2>2, <1>a DEF Consolidate
  <2>4. PICK r \in EverReachableThrough(p, src) : r # q
    BY <2>3 DEF ReachableThrough, EverReachableThrough
  <2> QED
    BY <2>4, <1>7
<1>9. CASE ~IsRelayFromConnectionSuspended(p, q, src)'
  <2>1. s # q /\ IsRelayFromConnectionSuspended(p, s, src)
    BY <1>a, <1>6, <1>9
  <2>2. PICK r \in EverReachableThrough(p, src) : TRUE
    BY <2>1 DEF NeverAllSuspended
  <2>3. /\ r \in Peers /\ reach[p][src][r] # None
        /\ ~IsRelayFromConnectionSuspended(p, r, src)
    BY <2>2 DEF EverReachableThrough
  <2>4. r \in EverReachableThrough(p, src)'
    BY <2>3, <1>5, <1>6, <1>9, PathStays
  <2> QED
    BY <2>4
<1>10. CASE IsRelayFromConnectionSuspended(p, q, src)
  <2>1. PICK r \in EverReachableThrough(p, src) : TRUE
    BY <1>10 DEF NeverAllSuspended
  <2>2. r # q
    BY <2>1, <1>10 DEF EverReachableThrough
  <2> QED
    BY <2>1, <2>2, <1>7
<1> QED
  BY <1>8, <1>9, <1>10

LEMMA PathKeptNext ==
    ASSUME Relaying, Relaying', [SuspensionNext]_relayVars, NeverAllSuspended
    PROVE  NeverAllSuspended'
<1>1. TypeOK /\ chan \in Channels
      /\ reach \in [Peers -> [Peers -> [Peers -> Nat \cup {None}]]]
      /\ pending \in [Peers -> [Peers -> SUBSET Peers]]
      /\ theirs \in [Peers -> [Peers -> [Peers -> Nat \cup {None}]]]
      /\ asked \in [Peers -> [Peers -> Nat \cup {None}]]
  BY Zenon DEF Relaying, Flow, TypeOK, Channels, BooksTyped
<1> SUFFICES ASSUME NEW a \in Peers, Steady(a), NEW src \in Peers
             PROVE  (\E q \in Peers : IsRelayFromConnectionSuspended(a, q, src)')
                        => EverReachableThrough(a, src)' # {}
  BY Zenon DEF NeverAllSuspended, Steady
<1> DEFINE Goal == (\E q \in Peers : IsRelayFromConnectionSuspended(a, q, src)')
                       => EverReachableThrough(a, src)' # {}
<1>2. ASSUME pending'[a] = pending[a], theirs'[a] = theirs[a],
             \A q \in Peers : reach[a][src][q] # None => reach'[a][src][q] # None
      PROVE  Goal
  BY <1>2, PathKeptQuiet
<1>3. ASSUME NEW p \in Peers, NEW q \in Peers, NEW s \in Peers, Heard(p, q, s)
      PROVE  \A c \in Peers : reach[a][src][c] # None => reach'[a][src][c] # None
  <2>1. Clock(p) # None
    BY <1>1, ClockType, RoutingAssumption DEF TypeOK
  <2> QED
    BY <1>1, <1>3, <2>1 DEF Heard
<1>4. ASSUME NEW p \in Peers, NEW q \in Peers, Arrives(p, q)
      PROVE  Head(chan[q][p]).key.src \in Peers
  BY <1>1, <1>4, RestType, KeysType DEF Packets
<1>5. ASSUME NEW p \in Peers, NEW q \in Peers, ReceiveNew(p, q)
      PROVE  Goal
  <2>1. Head(chan[q][p]).key.src \in Peers
    BY <1>4, <1>5 DEF ReceiveNew, Process
  <2> QED
    BY <2>1, <1>2, <1>3, <1>5 DEF ReceiveNew, books
<1>6. ASSUME NEW p \in Peers, NEW q \in Peers, HandleRequest(p, q)
      PROVE  Goal
  BY <1>2, <1>3, <1>6 DEF HandleRequest
<1>7. ASSUME NEW p \in Peers, NEW q \in Peers, NEW new,
             new = Head(chan[q][p]).key.src, ReceiveAgain(p, q)
      PROVE  Goal
  <2>1. new \in Peers /\ now' = now /\ Heard(p, q, new)
    BY <1>4, <1>7 DEF ReceiveAgain, Discard
  <2>2. \A c \in Peers : reach[a][src][c] # None => reach'[a][src][c] # None
    BY <2>1, <1>3
  <2>3. CASE UNCHANGED books
    BY <2>2, <2>3, <1>2 DEF books
  <2>4. CASE RequestRelaySuspension(p, q, new)
    <3>1. CASE a = p
      BY <3>1, <2>1, <2>4, PathKeptRequest
    <3>2. CASE a # p
      <4>1. pending'[a] = pending[a] /\ theirs'[a] = theirs[a]
        BY <3>2, <2>4, <1>1 DEF RequestRelaySuspension
      <4> QED
        BY <4>1, <2>2, <1>2
    <3> QED
      BY <3>1, <3>2
  <2> QED
    BY <1>7, <2>3, <2>4 DEF ReceiveAgain
<1>8. ASSUME UNCHANGED <<reach, books>>
      PROVE  Goal
  BY <1>8, <1>2 DEF books
<1>9. ASSUME NEW p \in Peers, NEW q \in Peers,
             SuspensionBreak(p, q) \/ SuspensionDrop(p, q) \/ SuspensionPeerLeft(p, q)
      PROVE  Goal
  <2>1. a # p
    BY <1>9 DEF Steady, SuspensionBreak, SuspensionDrop, SuspensionPeerLeft,
       Break, Drop, PeerLeft
  <2>2. CASE SuspensionBreak(p, q)
    BY <2>2, <1>2 DEF SuspensionBreak
  <2>3. CASE SuspensionDrop(p, q) \/ SuspensionPeerLeft(p, q)
    <3>1. /\ pending' = [pending EXCEPT ![p][q] = {}]
          /\ theirs' = [theirs EXCEPT ![p][q] = [s \in Peers |-> None]]
      BY <2>3 DEF SuspensionDrop, SuspensionPeerLeft, ForgetRelay
    <3>2. reach'[a] = reach[a]
      BY <2>1, <2>3, <1>1 DEF SuspensionDrop, SuspensionPeerLeft
    <3>3. pending'[a] = pending[a] /\ theirs'[a] = theirs[a]
      BY <2>1, <3>1, <1>1
    <3> QED
      BY <3>2, <3>3, <1>2
  <2> QED
    BY <1>9, <2>2, <2>3
<1> HIDE DEF Goal
<1>10. ASSUME UNCHANGED relayVars
       PROVE  Goal
  BY <1>8, <1>10 DEF relayVars
<1>11. ASSUME NEW p \in Peers, Unrelated(p)
       PROVE  Goal
  BY <1>8, <1>11 DEF Unrelated
<1>12. ASSUME NEW p \in Peers, NEW q \in Peers, ReceiveAgain(p, q)
       PROVE  Goal
  BY <1>7, <1>12
<1>13. ASSUME SuspensionNext
       PROVE  Goal
  BY <1>5, <1>6, <1>8, <1>9, <1>11, <1>12, <1>13 DEF SuspensionNext
<1>14. Goal
  BY <1>10, <1>13
<1> QED
  BY <1>14 DEF Goal

(* Whatever happens to the rest of the mesh, a peer that keeps its own     *)
(* connections never asks for so much that every neighbour that ever       *)
(* brought it a source is suspended for it.                                *)
THEOREM NeverAllSuspendedCorrect == SuspensionSpec => []NeverAllSuspended
<1>1. SuspensionInit => Relaying /\ NeverAllSuspended
  BY RelayingInit, PathKeptInit
<1>2. (Relaying /\ NeverAllSuspended) /\ [SuspensionNext]_relayVars
          => (Relaying /\ NeverAllSuspended)'
  BY RelayingNext, PathKeptNext
<1> QED
  BY <1>1, <1>2, PTL DEF SuspensionSpec

-----------------------------------------------------------------------------
(* The two books                                                           *)

(* Nothing happens to the connections of p at its end.                     *)
Still(p) == {<<"link", p>>, <<"break", p>>, <<"leave", p>>} \cap Env = {}

(* p and q agree on their connection, which carries all that is in flight. *)
Linked(p, q) ==
    /\ mesh[p][q] > 0 <=> mesh[q][p] > 0
    /\ chan[q][p] # << >> => mesh[q][p] > 0
    /\ requests[p][q] # << >> => mesh[p][q] > 0

(* Requests were made, and suspensions begun, before now.                  *)
Dated(p, q) ==
    /\ \A i \in 1..Len(requests[p][q]) : requests[p][q][i].ts <= Clock(p)
    /\ \A src \in Peers :
          /\ suspended[q][p][src] <= Clock(q) + SuspensionDuration
          /\ theirs[p][q][src] # None
                => theirs[p][q][src] <= Clock(p) + SuspensionDuration

(* What p has asked q for is in the book of p for as long at least.        *)
Entered(p, q) ==
    \A i \in 1..Len(requests[p][q]) : \A src \in requests[p][q][i].sources :
        /\ theirs[p][q][src] # None
        /\ requests[p][q][i].ts + SuspensionDuration <= theirs[p][q][src]

(* What q withholds from p is in the book of p, about as long.             *)
Owed(p, q) ==
    \A src \in Peers : suspended[q][p][src] > 0
        => /\ theirs[p][q][src] # None
           /\ suspended[q][p][src] <= theirs[p][q][src] + RequestExpiration

(* The relay q suspends src for p no shorter than p has in its book ...    *)
Kept(p, q, src) ==
    theirs[p][q][src] - Skew[p] <= suspended[q][p][src] - Skew[q]

(* ... or will when the request arrives.                                   *)
Underway(p, q, src) ==
    \E i \in 1..Len(requests[p][q]) :
        /\ src \in requests[p][q][i].sources
        /\ theirs[p][q][src] <= requests[p][q][i].ts + SuspensionDuration

Promised(p, q) ==
    \A src \in Peers : theirs[p][q][src] # None /\ Clock(p) < theirs[p][q][src]
        => Kept(p, q, src) \/ Underway(p, q, src)

(* The books of p and q.                                                   *)
Agree(p, q) ==
    /\ Dated(p, q)
    /\ Steady(p) => Entered(p, q) /\ Owed(p, q)
    /\ Settled(p, q) => Linked(p, q) /\ Promised(p, q)

Promises == \A p, q \in Peers : Agree(p, q)

LEMMA SettledStill ==
    ASSUME NEW p \in Peers, NEW q \in Peers, Settled(p, q)
    PROVE  Still(p) /\ Still(q) /\ Lasting(p, q)
<1> QED
  BY DEF Settled, Still, Lasting

LEMMA StillMesh ==
    ASSUME Relaying, [SuspensionNext]_relayVars, NEW p \in Peers, Still(p)
    PROVE  mesh'[p] = mesh[p]
<1>1. mesh \in [Peers -> [Peers -> 0..2]]
  BY Zenon DEF Relaying, Flow, TypeOK
<1>2. ASSUME NEW a \in Peers, NEW b \in Peers
      PROVE  /\ ReceiveNew(a, b) => mesh' = mesh
             /\ ReceiveAgain(a, b) => mesh' = mesh
             /\ HandleRequest(a, b) => mesh' = mesh
  <2>1. ReceiveNew(a, b) => mesh' = mesh
    BY Zenon DEF ReceiveNew, Process
  <2>2. ReceiveAgain(a, b) => mesh' = mesh
    BY Zenon DEF ReceiveAgain, Discard
  <2>3. HandleRequest(a, b) => mesh' = mesh
    BY Zenon DEF HandleRequest
  <2> QED
    BY <2>1, <2>2, <2>3
<1>3. ASSUME NEW a \in Peers, Unrelated(a)
      PROVE  mesh'[p] = mesh[p]
  <2>1. CASE \E b \in Peers : Link(a, b)
    <3>1. PICK b \in Peers : <<"link", a>> \in Env /\ mesh' = [mesh EXCEPT ![a][b] = 1]
      BY <2>1 DEF Link
    <3>2. a # p
      BY <3>1 DEF Still
    <3> QED
      BY <3>1, <3>2, <1>1
  <2>2. CASE ~\E b \in Peers : Link(a, b)
    BY <2>2, <1>3 DEF Unrelated, Send, Expire, Dispose
  <2> QED
    BY <2>1, <2>2
<1>4. ASSUME NEW a \in Peers, NEW b \in Peers,
             SuspensionBreak(a, b) \/ SuspensionDrop(a, b) \/ SuspensionPeerLeft(a, b)
      PROVE  mesh'[p] = mesh[p]
  <2>1. a # p
    BY <1>4 DEF Still, SuspensionBreak, SuspensionDrop, SuspensionPeerLeft,
       Break, Drop, PeerLeft
  <2>2. mesh' = [mesh EXCEPT ![a][b] = 0]
    BY <1>4 DEF SuspensionBreak, SuspensionDrop, SuspensionPeerLeft,
       Break, Drop, PeerLeft, DisconnectFrom
  <2> QED
    BY <2>1, <2>2, <1>1
<1> QED
  BY <1>2, <1>3, <1>4 DEF SuspensionNext, Tick, relayVars, vars

LEMMA SendPacketWired ==
    ASSUME NEW channels \in Channels, NEW p \in Peers, NEW packet, NEW optimistic,
           NEW closed, NEW a \in Peers, NEW b \in Peers,
           SendPacket(channels, p, packet, optimistic, closed)[a][b] # << >>
    PROVE  channels[a][b] # << >> \/ mesh[a][b] > 0
<1> DEFINE own == [packet EXCEPT !.receivedBy = @ \cup {p}]
           targets == Targets(p, own)
           out == [own EXCEPT !.receivedBy = IF optimistic THEN @ \cup targets ELSE @]
           served == targets \ closed
           row == [c \in Peers |-> IF c \in served
                                   THEN channels[p][c] \o [i \in 1..mesh[p][c] |-> out]
                                   ELSE channels[p][c]]
<1>1. \A c \in served : mesh[p][c] > 0
  BY DEF Targets
<1>2. SendPacket(channels, p, packet, optimistic, closed) = [channels EXCEPT ![p] = row]
  BY DEF SendPacket
<1> HIDE DEF own, targets, out, served
<1>3. CASE a = p /\ b \in served
  BY <1>1, <1>3
<1>4. CASE ~(a = p /\ b \in served)
  <2>1. SendPacket(channels, p, packet, optimistic, closed)[a][b] = channels[a][b]
    BY <1>2, <1>4 DEF Channels
  <2> QED
    BY <2>1
<1> QED
  BY <1>3, <1>4

LEMMA RestWired ==
    ASSUME chan \in Channels, NEW p \in Peers, NEW q \in Peers, Arrives(p, q),
           NEW a \in Peers, NEW b \in Peers, Rest(p, q)[a][b] # << >>
    PROVE  chan[a][b] # << >>
<1>1. CASE a = q /\ b = p
  BY <1>1 DEF Arrives
<1>2. CASE ~(a = q /\ b = p)
  BY <1>2 DEF Rest, Channels
<1> QED
  BY <1>1, <1>2

(* Only sending puts packets on a channel, and only where it is connected. *)
LEMMA ChannelsWired ==
    ASSUME Relaying, [SuspensionNext]_relayVars, NEW a \in Peers, NEW b \in Peers,
           chan[a][b] # << >> => mesh[a][b] > 0, chan'[a][b] # << >>
    PROVE  mesh[a][b] > 0
<1>1. chan \in Channels
  BY Zenon DEF Relaying, Flow, TypeOK, Channels
<1>2. CASE chan' = chan
  BY <1>2
<1>3. ASSUME NEW p \in Peers, NEW reliable \in BOOLEAN, Send(p, reliable)
      PROVE  mesh[a][b] > 0
  <2>1. PICK packet, closed : chan' = SendPacket(chan, p, packet, ~reliable, closed)
    BY <1>3 DEF Send
  <2> QED
    BY <2>1, <1>1, SendPacketWired
<1>4. ASSUME NEW p \in Peers, NEW q \in Peers, ReceiveNew(p, q)
      PROVE  mesh[a][b] > 0
  <2>1. Arrives(p, q) /\ Process(p, q)
    BY <1>4 DEF ReceiveNew, Process
  <2>2. Rest(p, q) \in Channels
    BY <1>1, <2>1, RestType
  <2>3. CASE chan' = Rest(p, q)
    BY <2>1, <2>3, <1>1, RestWired
  <2>4. CASE chan' # Rest(p, q)
    <3>1. PICK packet, optimistic, closed :
             chan' = SendPacket(Rest(p, q), p, packet, optimistic, closed)
      BY <2>1, <2>4 DEF Process
    <3>2. Rest(p, q)[a][b] # << >> \/ mesh[a][b] > 0
      BY <3>1, <2>2, SendPacketWired
    <3> QED
      BY <3>2, <2>1, <1>1, RestWired
  <2> QED
    BY <2>3, <2>4
<1>5. ASSUME NEW p \in Peers, NEW q \in Peers, ReceiveAgain(p, q)
      PROVE  mesh[a][b] > 0
  <2>1. Arrives(p, q) /\ chan' = Rest(p, q)
    BY <1>5 DEF ReceiveAgain, Discard
  <2> QED
    BY <2>1, <1>1, RestWired
<1>6. ASSUME NEW p \in Peers, Unrelated(p), \A r \in BOOLEAN : ~Send(p, r)
      PROVE  chan' = chan
  BY <1>6 DEF Unrelated, Expire, Dispose, Link
<1>7. ASSUME NEW p \in Peers, NEW q \in Peers,
             SuspensionBreak(p, q) \/ SuspensionDrop(p, q) \/ SuspensionPeerLeft(p, q)
      PROVE  mesh[a][b] > 0
  <2>1. chan' = [chan EXCEPT ![q][p] = << >>]
    BY <1>7 DEF SuspensionBreak, SuspensionDrop, SuspensionPeerLeft,
       Break, Drop, PeerLeft, DisconnectFrom
  <2> QED
    BY <2>1, <1>1 DEF Channels
<1>8. ASSUME NEW p \in Peers, NEW q \in Peers, HandleRequest(p, q)
      PROVE  chan' = chan
  BY <1>8 DEF HandleRequest
<1>9. CASE Tick \/ UNCHANGED relayVars
  BY <1>2, <1>9 DEF Tick, relayVars, vars
<1> QED
  BY <1>2, <1>3, <1>4, <1>5, <1>6, <1>7, <1>8, <1>9 DEF SuspensionNext

(* The step leaves the books of p and q as they are, or p or q deletes its *)
(* own or loses the requests.                                              *)
Untouched(p, q) ==
    /\ requests'[p][q] = requests[p][q] \/ requests'[p][q] = << >>
    /\ \/ theirs'[p][q] = theirs[p][q]
       \/ ~Steady(p) /\ theirs'[p][q] = [src \in Peers |-> None]
    /\ \/ suspended'[q][p] = suspended[q][p]
       \/ suspended'[q][p] = [src \in Peers |-> 0]
    /\ Settled(p, q) => /\ requests'[p][q] = requests[p][q]
                        /\ theirs'[p][q] = theirs[p][q]
                        /\ suspended'[q][p] = suspended[q][p]

LEMMA ElsewhereKept ==
    ASSUME NEW S, NEW book \in [Peers -> [Peers -> S]], NEW x,
           NEW a \in Peers, NEW b \in Peers, NEW p \in Peers, NEW q \in Peers,
           ~(a = p /\ b = q)
    PROVE  [book EXCEPT ![a][b] = x][p][q] = book[p][q]
<1> QED
  OBVIOUS

LEMMA BookSteps ==
    ASSUME Relaying, [SuspensionNext]_relayVars, NEW p \in Peers, NEW q \in Peers
    PROVE  \/ Untouched(p, q)
           \/ ReceiveAgain(p, q)
              /\ RequestRelaySuspension(p, q, Head(chan[q][p]).key.src)
           \/ HandleRequest(q, p)
<1>1. /\ requests \in [Peers -> [Peers -> Seq(Requests)]]
      /\ theirs \in [Peers -> [Peers -> [Peers -> Nat \cup {None}]]]
      /\ suspended \in [Peers -> [Peers -> [Peers -> Nat]]]
  BY DEF Relaying, BooksTyped, Flow, TypeOK
<1>2. ASSUME UNCHANGED <<theirs, requests, suspended>>
      PROVE  Untouched(p, q)
  BY <1>2 DEF Untouched
<1>3. ASSUME NEW a \in Peers, NEW b \in Peers, ReceiveNew(a, b)
      PROVE  UNCHANGED <<theirs, requests, suspended>>
  BY <1>3 DEF ReceiveNew, Process, books
<1>4. ASSUME NEW a \in Peers, NEW b \in Peers, ReceiveAgain(a, b),
             ~(a = p /\ b = q
               /\ RequestRelaySuspension(p, q, Head(chan[q][p]).key.src))
      PROVE  Untouched(p, q)
  <2>a. SUFFICES ASSUME NEW src, src = Head(chan[b][a]).key.src
                 PROVE  Untouched(p, q)
    OBVIOUS
  <2>1. suspended' = suspended
    BY <1>4 DEF ReceiveAgain, Discard
  <2>2. CASE UNCHANGED books
    BY <2>1, <2>2, <1>2 DEF books
  <2>3. CASE RequestRelaySuspension(a, b, src)
    <3>1. ~(a = p /\ b = q)
      BY <1>4, <2>a, <2>3
    <3>2. PICK row : theirs' = [theirs EXCEPT ![a][b] = row] \/ theirs' = theirs
      BY <2>3, Zenon DEF RequestRelaySuspension
    <3>3. PICK x : requests' = [requests EXCEPT ![a][b] = Append(@, x)]
                   \/ requests' = requests
      BY <2>3, Zenon DEF RequestRelaySuspension
    <3>4. theirs'[p][q] = theirs[p][q]
      <4>1. ASSUME NEW y
            PROVE  [theirs EXCEPT ![a][b] = y][p][q] = theirs[p][q]
        <5>1. theirs \in [Peers -> [Peers -> [Peers -> Nat \cup {None}]]]
          BY <1>1
        <5> QED
          BY <3>1, <5>1, ElsewhereKept
      <4> QED
        BY <3>2, <4>1, Zenon
    <3>5. requests'[p][q] = requests[p][q]
      <4>1. requests' = [requests EXCEPT ![a][b] = Append(requests[a][b], x)]
            \/ requests' = requests
        BY <3>3, Zenon
      <4>2. ASSUME NEW y
            PROVE  [requests EXCEPT ![a][b] = y][p][q] = requests[p][q]
        <5>1. requests \in [Peers -> [Peers -> Seq(Requests)]]
          BY <1>1
        <5> QED
          BY <3>1, <5>1, ElsewhereKept
      <4> QED
        BY <4>1, <4>2, Zenon
    <3> QED
      BY <3>4, <3>5, <2>1 DEF Untouched
  <2> QED
    BY <1>4, <2>a, <2>2, <2>3 DEF ReceiveAgain
<1>5. ASSUME NEW a \in Peers, NEW b \in Peers, HandleRequest(a, b),
             ~(a = q /\ b = p)
      PROVE  Untouched(p, q)
  <2>1. /\ theirs' = theirs
        /\ requests' = [requests EXCEPT ![b][a] = Tail(@)]
    BY <1>5 DEF HandleRequest
  <2>2. suspended'[q][p] = suspended[q][p]
    BY <1>5, <1>1 DEF HandleRequest, Granted
  <2>3. requests'[p][q] = requests[p][q]
    BY <2>1, <1>5, <1>1
  <2> QED
    BY <2>1, <2>2, <2>3 DEF Untouched
<1>6. ASSUME NEW a \in Peers, Unrelated(a)
      PROVE  UNCHANGED <<theirs, requests, suspended>>
  BY <1>6 DEF Unrelated, Send, Expire, Dispose, Link, books
<1>7. ASSUME NEW a \in Peers, NEW b \in Peers, LoseRequests(a, b)
      PROVE  /\ requests'[p][q] = requests[p][q] \/ requests'[p][q] = << >>
             /\ a # q => requests'[p][q] = requests[p][q]
  BY <1>7, <1>1 DEF LoseRequests
<1>8. ASSUME NEW a \in Peers, NEW b \in Peers, SuspensionBreak(a, b)
      PROVE  Untouched(p, q)
  <2>1. LoseRequests(a, b) /\ UNCHANGED <<theirs, suspended>> /\ <<"break", a>> \in Env
    BY <1>8 DEF SuspensionBreak, Break
  <2>2. Settled(p, q) => a # q
    BY <2>1, SettledStill DEF Still
  <2> QED
    BY <2>1, <2>2, <1>7 DEF Untouched
<1>9. ASSUME NEW a \in Peers, NEW b \in Peers,
             SuspensionDrop(a, b) \/ SuspensionPeerLeft(a, b)
      PROVE  Untouched(p, q)
  <2>1. /\ LoseRequests(a, b)
        /\ theirs' = [theirs EXCEPT ![a][b] = [src \in Peers |-> None]]
        /\ suspended' = [suspended EXCEPT ![a][b] = [src \in Peers |-> 0]]
        /\ ~Steady(a)
    BY <1>9 DEF SuspensionDrop, SuspensionPeerLeft, ForgetRelay, Drop, PeerLeft,
       DisconnectFrom, Steady
  <2>2. Settled(p, q) => a # q /\ a # p
    BY <2>1, SettledStill DEF Still, Steady
  <2>3. /\ a # p => theirs'[p][q] = theirs[p][q]
        /\ \/ theirs'[p][q] = theirs[p][q]
           \/ a = p /\ theirs'[p][q] = [src \in Peers |-> None]
    BY <2>1, <1>1
  <2>4. /\ a # q => suspended'[q][p] = suspended[q][p]
        /\ \/ suspended'[q][p] = suspended[q][p]
           \/ suspended'[q][p] = [src \in Peers |-> 0]
    BY <2>1, <1>1
  <2> QED
    BY <2>1, <2>2, <2>3, <2>4, <1>7 DEF Untouched
<1>10. CASE Tick /\ UNCHANGED <<reach, books>>
  BY <1>2, <1>10 DEF Tick, books
<1>11. CASE UNCHANGED relayVars
  BY <1>2, <1>11 DEF relayVars, vars, books
<1> QED
  BY <1>2, <1>3, <1>4, <1>5, <1>6, <1>8, <1>9, <1>10, <1>11 DEF SuspensionNext

LEMMA AppendAt ==
    ASSUME NEW S, NEW seq \in Seq(S), NEW x, NEW out, out = Append(seq, x)
    PROVE  /\ Len(seq) \in Nat /\ Len(out) = Len(seq) + 1
           /\ out[Len(seq) + 1] = x
           /\ \A i \in 1..Len(seq) : out[i] = seq[i]
<1> QED
  OBVIOUS

LEMMA TailAt ==
    ASSUME NEW S, NEW seq \in Seq(S), seq # << >>, NEW out, out = Tail(seq)
    PROVE  /\ Len(seq) \in Nat /\ Len(out) = Len(seq) - 1
           /\ \A i \in 1..Len(out) : out[i] = seq[i + 1]
           /\ Head(seq) = seq[1] /\ 1 \in 1..Len(seq)
<1> QED
  OBVIOUS

LEMMA PromisesInit == SuspensionInit => Promises
<1> SUFFICES ASSUME SuspensionInit, NEW p \in Peers, NEW q \in Peers
             PROVE  Agree(p, q)
  BY DEF Promises
<1>1. TypeOK /\ BooksTyped
  BY RelayingInit DEF Relaying, Flow
<1>2. Clock(p) \in Nat /\ Clock(q) \in Nat /\ SuspensionDuration \in Nat
  BY <1>1, ClockType, RoutingAssumption DEF TypeOK
<1>3. /\ requests[p][q] = << >> /\ chan[q][p] = << >> /\ mesh \in Meshes
      /\ \A src \in Peers : theirs[p][q][src] = None /\ suspended[q][p][src] = 0
  BY DEF SuspensionInit, Init
<1>4. Dated(p, q)
  BY <1>2, <1>3, EmptySeq DEF Dated
<1>5. Entered(p, q) /\ Owed(p, q)
  BY <1>3, EmptySeq DEF Entered, Owed
<1>6. Settled(p, q) => Linked(p, q) /\ Promised(p, q)
  BY <1>3 DEF Settled, Linked, Promised
<1> QED
  BY <1>4, <1>5, <1>6 DEF Agree

(* What is needed of the types.                                            *)
Typed(p, q) ==
    /\ requests[p][q] \in Seq(Requests) /\ Len(requests[p][q]) \in Nat
    /\ \A i \in 1..Len(requests[p][q]) :
          /\ requests[p][q][i].ts \in Nat
          /\ requests[p][q][i].sources \subseteq Peers
    /\ \A src \in Peers :
          /\ theirs[p][q][src] \in Nat \cup {None}
          /\ suspended[q][p][src] \in Nat
    /\ Clock(p) \in Nat /\ Clock(q) \in Nat
    /\ now \in Nat /\ Skew[p] \in Nat /\ Skew[q] \in Nat
    /\ Clock(p) = now + Skew[p] /\ Clock(q) = now + Skew[q]
    /\ SuspensionDuration \in Nat /\ RequestExpiration \in Nat

LEMMA BookTypes ==
    ASSUME Relaying, NEW p \in Peers, NEW q \in Peers
    PROVE  Typed(p, q)
<1>1. /\ requests \in [Peers -> [Peers -> Seq(Requests)]]
      /\ theirs \in [Peers -> [Peers -> [Peers -> Nat \cup {None}]]]
  BY DEF Relaying, BooksTyped
<1>2. suspended \in [Peers -> [Peers -> [Peers -> Nat]]]
  BY DEF Relaying, Flow, TypeOK
<1>3. ASSUME NEW i \in 1..Len(requests[p][q])
      PROVE  /\ requests[p][q][i].ts \in Nat
             /\ requests[p][q][i].sources \subseteq Peers
  <2>1. requests[p][q][i] \in Requests
    BY <1>1, ElementOfSeq
  <2> QED
    BY <2>1 DEF Requests
<1>4. Clock(p) \in Nat /\ Clock(q) \in Nat
  BY ClockType DEF Relaying, Flow, TypeOK
<1>5. now \in Nat /\ Skew[p] \in Nat /\ Skew[q] \in Nat
  BY RoutingAssumption DEF Relaying, Flow, TypeOK
<1>6. SuspensionDuration \in Nat /\ RequestExpiration \in Nat
  BY RoutingAssumption, SuspensionAssumption
<1>7. requests[p][q] \in Seq(Requests) /\ Len(requests[p][q]) \in Nat
  BY <1>1, LenProperties
<1>8. ASSUME NEW src \in Peers
      PROVE  /\ theirs[p][q][src] \in Nat \cup {None}
             /\ suspended[q][p][src] \in Nat
  BY <1>1, <1>2
<1> QED
  BY <1>3, <1>4, <1>5, <1>6, <1>7, <1>8 DEF Typed, Clock

(* The connection of two that are settled.                                 *)
LEMMA LinkedNext ==
    ASSUME Relaying, [SuspensionNext]_relayVars, NEW p \in Peers, NEW q \in Peers,
           Settled(p, q), Linked(p, q),
           requests'[p][q] # << >> => mesh[p][q] > 0
    PROVE  Linked(p, q)'
<1>1. mesh'[p] = mesh[p] /\ mesh'[q] = mesh[q]
  BY SettledStill, StillMesh
<1>2. chan'[q][p] # << >> => mesh[q][p] > 0
  BY ChannelsWired DEF Linked
<1> QED
  BY <1>1, <1>2 DEF Linked

LEMMA AgreeUntouched ==
    ASSUME Relaying, [SuspensionNext]_relayVars, NEW p \in Peers, NEW q \in Peers,
           Agree(p, q), Untouched(p, q)
    PROVE  Agree(p, q)'
<1>n. /\ Clock(p) \in Nat /\ Clock(q) \in Nat
      /\ now \in Nat /\ Skew[p] \in Nat /\ Skew[q] \in Nat
      /\ Clock(p) = now + Skew[p] /\ Clock(q) = now + Skew[q]
      /\ SuspensionDuration \in Nat /\ RequestExpiration \in Nat
  BY BookTypes DEF Typed
<1>b. /\ \A src \in Peers : /\ theirs[p][q][src] \in Nat \cup {None}
                           /\ suspended[q][p][src] \in Nat
      /\ None \notin Nat
  BY BookTypes, RoutingAssumption DEF Typed
<1>r. /\ requests[p][q] \in Seq(Requests) /\ Len(requests[p][q]) \in Nat
      /\ \A i \in 1..Len(requests[p][q]) :
            /\ requests[p][q][i].ts \in Nat
            /\ requests[p][q][i].sources \subseteq Peers
  BY BookTypes DEF Typed
<1>1. /\ Clock(p)' \in Nat /\ Clock(p)' >= Clock(p)
      /\ Clock(q)' \in Nat /\ Clock(q)' >= Clock(q)
  BY RelayingNext, ClockGrows DEF Relaying, Flow
<1>2. \A i \in 1..Len(requests'[p][q]) :
         i \in 1..Len(requests[p][q]) /\ requests'[p][q][i] = requests[p][q][i]
  BY EmptySeq DEF Untouched
<1>3. \A src \in Peers : theirs'[p][q][src] # None
         => theirs'[p][q][src] = theirs[p][q][src]
  BY DEF Untouched
<1>4. \A src \in Peers : suspended'[q][p][src] = suspended[q][p][src]
                         \/ suspended'[q][p][src] = 0
  BY DEF Untouched
<1>5. Dated(p, q)'
  <2>1. ASSUME NEW i \in 1..Len(requests'[p][q])
        PROVE  requests'[p][q][i].ts <= Clock(p)'
    <3>1. i \in 1..Len(requests[p][q]) /\ requests'[p][q][i] = requests[p][q][i]
      BY <1>2
    <3>2. requests[p][q][i].ts \in Nat /\ requests[p][q][i].ts <= Clock(p)
      BY <3>1, <1>r DEF Agree, Dated
    <3>3. requests[p][q][i].ts <= Clock(p)'
      BY <3>2, <1>1, <1>n
    <3> QED
      BY <3>1, <3>3, Zenon
  <2>2. ASSUME NEW src \in Peers
        PROVE  suspended'[q][p][src] <= Clock(q)' + SuspensionDuration
    <3>1. suspended[q][p][src] <= Clock(q) + SuspensionDuration
      BY DEF Agree, Dated
    <3>2. suspended[q][p][src] \in Nat
      BY <1>b
    <3>3. /\ suspended[q][p][src] <= Clock(q)' + SuspensionDuration
          /\ 0 <= Clock(q)' + SuspensionDuration
      BY <3>1, <3>2, <1>1, <1>n
    <3> QED
      BY <3>3, <1>4
  <2>3. ASSUME NEW src \in Peers, theirs'[p][q][src] # None
        PROVE  theirs'[p][q][src] <= Clock(p)' + SuspensionDuration
    <3>1. theirs'[p][q][src] = theirs[p][q][src] /\ theirs[p][q][src] # None
      BY <2>3, <1>3
    <3>2. /\ theirs[p][q][src] \in Nat
          /\ theirs[p][q][src] <= Clock(p) + SuspensionDuration
      BY <3>1, <1>b DEF Agree, Dated
    <3>3. theirs[p][q][src] <= Clock(p)' + SuspensionDuration
      BY <3>2, <1>1, <1>n
    <3> QED
      BY <3>1, <3>3, Zenon
  <2> QED
    BY <2>1, <2>2, <2>3, Zenon DEF Dated
<1>6. ASSUME Steady(p)
      PROVE  Entered(p, q)' /\ Owed(p, q)'
  <2>1. theirs'[p][q] = theirs[p][q]
    BY <1>6 DEF Untouched
  <2>2. Entered(p, q)'
    BY <2>1, <1>2, <1>6 DEF Agree, Entered
  <2>3. Owed(p, q)'
    BY <2>1, <1>4, <1>6 DEF Agree, Owed
  <2> QED
    BY <2>2, <2>3
<1>7. ASSUME Settled(p, q)
      PROVE  Linked(p, q)' /\ Promised(p, q)'
  <2>1. /\ requests'[p][q] = requests[p][q]
        /\ theirs'[p][q] = theirs[p][q]
        /\ suspended'[q][p] = suspended[q][p]
    BY <1>7 DEF Untouched
  <2>2. Linked(p, q)'
    BY <2>1, <1>7, LinkedNext DEF Agree, Linked
  <2>3. Promised(p, q)'
    <3>1. ASSUME NEW src \in Peers, theirs'[p][q][src] # None,
                 Clock(p)' < theirs'[p][q][src]
          PROVE  Kept(p, q, src)' \/ Underway(p, q, src)'
      <4>1. theirs[p][q][src] # None /\ Clock(p) < theirs[p][q][src]
        BY <3>1, <2>1, <1>1, <1>n, <1>b
      <4>2. Kept(p, q, src) \/ Underway(p, q, src)
        BY <4>1, <1>7 DEF Agree, Promised
      <4> QED
        BY <4>2, <2>1 DEF Kept, Underway
    <3> QED
      BY <3>1, Zenon DEF Promised
  <2> QED
    BY <2>2, <2>3
<1> QED
  BY <1>5, <1>6, <1>7 DEF Agree, Steady, Settled

(* A request that is made is dated by the asker's clock and entered in its *)
(* book, and it is sent if the connection stays.                           *)
LEMMA AgreeRequest ==
    ASSUME Relaying, [SuspensionNext]_relayVars, NEW p \in Peers, NEW q \in Peers,
           Agree(p, q), NEW src \in Peers, ReceiveAgain(p, q),
           RequestRelaySuspension(p, q, src)
    PROVE  Agree(p, q)'
<1>n. /\ Clock(p) \in Nat /\ Clock(q) \in Nat
      /\ now \in Nat /\ Skew[p] \in Nat /\ Skew[q] \in Nat
      /\ Clock(p) = now + Skew[p] /\ Clock(q) = now + Skew[q]
      /\ SuspensionDuration \in Nat /\ RequestExpiration \in Nat
  BY BookTypes DEF Typed
<1>b. /\ \A s \in Peers : /\ theirs[p][q][s] \in Nat \cup {None}
                         /\ suspended[q][p][s] \in Nat
      /\ None \notin Nat
  BY BookTypes, RoutingAssumption DEF Typed
<1>r. /\ requests[p][q] \in Seq(Requests) /\ Len(requests[p][q]) \in Nat
      /\ \A i \in 1..Len(requests[p][q]) :
            /\ requests[p][q][i].ts \in Nat
            /\ requests[p][q][i].sources \subseteq Peers
  BY BookTypes DEF Typed
<1>a. SUFFICES ASSUME NEW wanted, wanted = Consolidate(p, q, src),
                      asked[p][q] # None /\ Clock(p) - asked[p][q] > Interval
               PROVE  Agree(p, q)'
  <2>1. CASE asked[p][q] # None /\ Clock(p) - asked[p][q] > Interval
    BY <1>a, <2>1
  <2>2. CASE ~(asked[p][q] # None /\ Clock(p) - asked[p][q] > Interval)
    <3>1. UNCHANGED <<theirs, requests, suspended>>
      BY <2>2, Zenon DEF RequestRelaySuspension, ReceiveAgain, Discard
    <3> QED
      BY <3>1, AgreeUntouched DEF Untouched
  <2> QED
    BY <2>1, <2>2
<1> DEFINE request == [sources |-> wanted, ts |-> Clock(p)]
           until == Clock(p) + SuspensionDuration
           n == Len(requests[p][q])
<1>1. UNCHANGED <<now, mesh, suspended>> /\ chan[q][p] # << >>
  BY DEF ReceiveAgain, Discard, Arrives
<1>2. Clock(p)' = Clock(p) /\ Clock(q)' = Clock(q) /\ until \in Nat
  BY <1>1, <1>n DEF Clock
<1>3. /\ requests \in [Peers -> [Peers -> Seq(Requests)]]
      /\ theirs \in [Peers -> [Peers -> [Peers -> Nat \cup {None}]]]
  BY DEF Relaying, BooksTyped
<1>4. PICK closed \in SUBSET MayBeClosed(p) :
         requests' = IF mesh[p][q] > 0 /\ q \notin closed
                     THEN [requests EXCEPT ![p][q] = Append(@, request)] ELSE requests
  BY <1>a, Zenon DEF RequestRelaySuspension
<1>5. theirs' = [theirs EXCEPT ![p][q] =
                   [s \in Peers |-> IF s \in wanted THEN until ELSE @[s]]]
  BY <1>a, Zenon DEF RequestRelaySuspension
<1>6. request.sources = wanted /\ request.ts = Clock(p)
  OBVIOUS
<1>7. n \in Nat /\ n + 1 \in Nat
  OBVIOUS
<1>8. \A s \in Peers :
         theirs'[p][q][s] = IF s \in wanted THEN until ELSE theirs[p][q][s]
  <2> HIDE DEF until
  <2> QED
    BY <1>3, <1>5
<1> HIDE DEF request
<1>9. \/ requests'[p][q] = Append(requests[p][q], request)
      \/ requests'[p][q] = requests[p][q] /\ ~(mesh[p][q] > 0 /\ q \notin closed)
  BY <1>3, <1>4
<1>10. ASSUME requests'[p][q] = Append(requests[p][q], request)
       PROVE  /\ Len(requests'[p][q]) = n + 1
              /\ requests'[p][q][n + 1] = request
              /\ \A i \in 1..n : requests'[p][q][i] = requests[p][q][i]
  BY <1>10, AppendAt
<1>11. \A i \in 1..Len(requests'[p][q]) :
          \/ requests'[p][q][i] = request
          \/ i \in 1..n /\ requests'[p][q][i] = requests[p][q][i]
  <2>1. CASE requests'[p][q] = requests[p][q]
    BY <2>1
  <2>2. CASE requests'[p][q] = Append(requests[p][q], request)
    <3>1. \A i \in 1..(n + 1) : i = n + 1 \/ i \in 1..n
      BY <1>7
    <3> QED
      BY <3>1, <2>2, <1>10
  <2> QED
    BY <2>1, <2>2, <1>9
<1> HIDE DEF n
<1>12. Dated(p, q)'
  <2>1. ASSUME NEW i \in 1..Len(requests'[p][q])
        PROVE  requests'[p][q][i].ts <= Clock(p)'
    <3>1. CASE requests'[p][q][i] = request
      BY <3>1, <1>2, <1>6, <1>n
    <3>2. CASE i \in 1..n /\ requests'[p][q][i] = requests[p][q][i]
      BY <3>2, <1>2 DEF Agree, Dated, n
    <3> QED
      BY <3>1, <3>2, <1>11
  <2>2. ASSUME NEW s \in Peers
        PROVE  suspended'[q][p][s] <= Clock(q)' + SuspensionDuration
    BY <1>1, <1>2 DEF Agree, Dated
  <2>3. ASSUME NEW s \in Peers, theirs'[p][q][s] # None
        PROVE  theirs'[p][q][s] <= Clock(p)' + SuspensionDuration
    BY <2>3, <1>2, <1>8 DEF Agree, Dated
  <2> QED
    BY <2>1, <2>2, <2>3, Zenon DEF Dated
<1>13. \A s \in Peers : theirs[p][q][s] # None
          => theirs'[p][q][s] \in Nat /\ theirs[p][q][s] <= theirs'[p][q][s]
  <2>1. ASSUME NEW s \in Peers, theirs[p][q][s] # None
        PROVE  theirs'[p][q][s] \in Nat /\ theirs[p][q][s] <= theirs'[p][q][s]
    <3>1. theirs[p][q][s] \in Nat /\ theirs[p][q][s] <= until
      BY <2>1, <1>b DEF Agree, Dated
    <3> QED
      BY <3>1, <1>2, <1>8
  <2> QED
    BY <2>1
<1>14. wanted \subseteq Peers
  BY <1>a DEF Consolidate, Relaying, BooksTyped
<1>15. ASSUME Steady(p)
       PROVE  Entered(p, q)' /\ Owed(p, q)'
  <2>1. ASSUME NEW i \in 1..Len(requests'[p][q]),
               NEW s \in requests'[p][q][i].sources
        PROVE  /\ theirs'[p][q][s] # None
               /\ requests'[p][q][i].ts + SuspensionDuration <= theirs'[p][q][s]
    <3>1. CASE requests'[p][q][i] = request
      <4>1. s \in wanted /\ s \in Peers
        BY <3>1, <2>1, <1>6, <1>14
      <4>2. theirs'[p][q][s] = until
        BY <4>1, <1>8
      <4> QED
        BY <3>1, <4>2, <1>2, <1>6, <1>n, <1>b
    <3>2. CASE i \in 1..n /\ requests'[p][q][i] = requests[p][q][i]
      <4>1. /\ s \in Peers /\ requests[p][q][i].ts \in Nat /\ theirs[p][q][s] # None
            /\ requests[p][q][i].ts + SuspensionDuration <= theirs[p][q][s]
        BY <3>2, <2>1, <1>15, <1>r DEF Agree, Entered, n
      <4>2. theirs'[p][q][s] \in Nat /\ theirs[p][q][s] <= theirs'[p][q][s]
            /\ theirs[p][q][s] \in Nat
        BY <4>1, <1>13, <1>b
      <4>3. /\ requests[p][q][i].ts + SuspensionDuration <= theirs'[p][q][s]
            /\ theirs'[p][q][s] # None
        <5>1. theirs'[p][q][s] # None
          BY <4>2, <1>b
        <5>2. requests[p][q][i].ts + SuspensionDuration <= theirs'[p][q][s]
          <6>1. ASSUME NEW t \in Nat, NEW d \in Nat, NEW x \in Nat, NEW y \in Nat,
                       t + d <= x, x <= y
                PROVE  t + d <= y
            BY <6>1
          <6> QED
            BY <4>1, <4>2, <6>1, <1>n, Zenon
        <5> QED
          BY <5>1, <5>2
      <4> QED
        BY <3>2, <4>3, Zenon
    <3> QED
      BY <3>1, <3>2, <1>11
  <2>2. ASSUME NEW s \in Peers, suspended'[q][p][s] > 0
        PROVE  /\ theirs'[p][q][s] # None
               /\ suspended'[q][p][s] <= theirs'[p][q][s] + RequestExpiration
    <3>1. /\ theirs[p][q][s] # None
          /\ suspended[q][p][s] <= theirs[p][q][s] + RequestExpiration
      BY <2>2, <1>1, <1>15 DEF Agree, Owed
    <3>2. theirs'[p][q][s] \in Nat /\ theirs[p][q][s] <= theirs'[p][q][s]
          /\ theirs[p][q][s] \in Nat
      BY <3>1, <1>13, <1>b
    <3>3. suspended[q][p][s] \in Nat
      BY <1>b
    <3>4. /\ suspended[q][p][s] <= theirs'[p][q][s] + RequestExpiration
          /\ theirs'[p][q][s] # None
      BY <3>1, <3>2, <3>3, <1>n, <1>b
    <3> QED
      BY <3>4, <1>1, Zenon
  <2>3. Entered(p, q)'
    BY <2>1, Zenon DEF Entered
  <2> QED
    BY <2>2, <2>3 DEF Owed
<1>16. ASSUME Settled(p, q)
       PROVE  Linked(p, q)' /\ Promised(p, q)'
  <2>1. mesh[p][q] > 0
    BY <1>1, <1>16 DEF Agree, Linked
  <2>2. q \notin closed
    BY <1>4, <1>16, SettledStill DEF MayBeClosed
  <2>3. requests'[p][q] = Append(requests[p][q], request)
    BY <2>1, <2>2, <1>9
  <2>4. Linked(p, q)'
    BY <2>1, <1>16, LinkedNext DEF Agree
  <2>5. ASSUME NEW s \in Peers, theirs'[p][q][s] # None,
               Clock(p)' < theirs'[p][q][s]
        PROVE  Kept(p, q, s)' \/ Underway(p, q, s)'
    <3>1. CASE s \in wanted
      <4>1. theirs'[p][q][s] <= request.ts + SuspensionDuration
        BY <3>1, <1>2, <1>6, <1>8
      <4>2. n + 1 \in 1..Len(requests'[p][q]) /\ requests'[p][q][n + 1] = request
        BY <2>3, <1>7, <1>10
      <4> QED
        BY <3>1, <4>1, <4>2, <1>6 DEF Underway
    <3>2. CASE s \notin wanted
      <4>1. theirs'[p][q][s] = theirs[p][q][s]
        BY <3>2, <1>8
      <4>2. Kept(p, q, s) \/ Underway(p, q, s)
        BY <4>1, <2>5, <1>2, <1>16 DEF Agree, Promised
      <4>3. CASE Kept(p, q, s)
        BY <4>1, <4>3, <1>1 DEF Kept
      <4>4. CASE Underway(p, q, s)
        <5>1. PICK i \in 1..n :
                 /\ s \in requests[p][q][i].sources
                 /\ theirs[p][q][s] <= requests[p][q][i].ts + SuspensionDuration
          BY <4>4 DEF Underway, n
        <5>2. i \in 1..Len(requests'[p][q]) /\ requests'[p][q][i] = requests[p][q][i]
          BY <2>3, <1>7, <1>10
        <5> QED
          BY <5>1, <5>2, <4>1 DEF Underway
      <4> QED
        BY <4>2, <4>3, <4>4
    <3> QED
      BY <3>1, <3>2
  <2> QED
    BY <2>4, <2>5, Zenon DEF Promised
<1> QED
  BY <1>12, <1>15, <1>16 DEF Agree, Steady, Settled

(* The request took some time to arrive, and the relay counts from then.   *)
LEMMA CountedLonger ==
    ASSUME NEW until \in Nat, NEW ts \in Nat, NEW d \in Nat, NEW t \in Nat,
           NEW skewA \in Nat, NEW skewB \in Nat, NEW kept \in Nat,
           until <= ts + d, ts <= t + skewA, kept = t + skewB + d
    PROVE  until - skewA <= kept - skewB
<1> QED
  OBVIOUS

(* A request that comes too late is for a suspension that is over.         *)
LEMMA OverWhenLate ==
    ASSUME NEW until \in Nat, NEW ts \in Nat, NEW d \in Nat, NEW t \in Nat,
           NEW skewA \in Nat, NEW skewB \in Nat, NEW e \in Nat,
           until <= ts + d, d + skewB - skewA <= e, t + skewB - ts > e
    PROVE  until <= t + skewA
<1> QED
  OBVIOUS

(* A request that arrives in time is granted, for longer than the asker    *)
(* counts but not much longer.                                             *)
LEMMA AgreeGrant ==
    ASSUME Relaying, [SuspensionNext]_relayVars, NEW p \in Peers, NEW q \in Peers,
           Agree(p, q), HandleRequest(q, p)
    PROVE  Agree(p, q)'
<1>n. /\ Clock(p) \in Nat /\ Clock(q) \in Nat
      /\ now \in Nat /\ Skew[p] \in Nat /\ Skew[q] \in Nat
      /\ Clock(p) = now + Skew[p] /\ Clock(q) = now + Skew[q]
      /\ SuspensionDuration \in Nat /\ RequestExpiration \in Nat
  BY BookTypes DEF Typed
<1>b. /\ \A src \in Peers : /\ theirs[p][q][src] \in Nat \cup {None}
                           /\ suspended[q][p][src] \in Nat
      /\ None \notin Nat
  BY BookTypes, RoutingAssumption DEF Typed
<1>r. /\ requests[p][q] \in Seq(Requests) /\ Len(requests[p][q]) \in Nat
      /\ \A i \in 1..Len(requests[p][q]) :
            /\ requests[p][q][i].ts \in Nat
            /\ requests[p][q][i].sources \subseteq Peers
  BY BookTypes DEF Typed
<1>a. SUFFICES ASSUME NEW request, request = Head(requests[p][q])
               PROVE  Agree(p, q)'
  OBVIOUS
<1> DEFINE until == Clock(q) + SuspensionDuration
           n == Len(requests[p][q])
<1>1. UNCHANGED <<now, mesh, theirs>> /\ requests[p][q] # << >>
  BY DEF HandleRequest
<1>2. Clock(p)' = Clock(p) /\ Clock(q)' = Clock(q) /\ until \in Nat
  BY <1>1, <1>n DEF Clock
<1>3. /\ requests \in [Peers -> [Peers -> Seq(Requests)]]
      /\ suspended \in [Peers -> [Peers -> [Peers -> Nat]]]
  BY DEF Relaying, BooksTyped, Flow, TypeOK
<1>4. requests'[p][q] = Tail(requests[p][q])
  BY <1>3 DEF HandleRequest
<1>5. /\ Len(requests'[p][q]) = n - 1 /\ n \in Nat
      /\ \A i \in 1..Len(requests'[p][q]) : requests'[p][q][i] = requests[p][q][i + 1]
      /\ request = requests[p][q][1] /\ 1 \in 1..n
  BY <1>a, <1>1, <1>4, TailAt
<1>6. /\ request.ts \in Nat /\ request.sources \subseteq Peers
      /\ request.ts <= Clock(p)
  BY <1>5, <1>r DEF Agree, Dated
<1>7. PICK entry \in BOOLEAN :
         /\ mesh[q][p] > 0 => entry
         /\ suspended' = IF Clock(q) - request.ts <= RequestExpiration /\ entry
                         THEN Granted(q, p, request.sources) ELSE suspended
  BY <1>a, Zenon DEF HandleRequest
<1> DEFINE granted == Clock(q) - request.ts <= RequestExpiration /\ entry
<1>8. \A s \in Peers :
         suspended'[q][p][s] = IF granted /\ s \in request.sources THEN until
                               ELSE suspended[q][p][s]
  BY <1>3, <1>7 DEF Granted
<1> HIDE DEF until, n
<1>9. \A i \in 1..Len(requests'[p][q]) :
         i + 1 \in 1..n /\ requests'[p][q][i] = requests[p][q][i + 1]
  BY <1>5
<1>10. Dated(p, q)'
  <2>1. ASSUME NEW i \in 1..Len(requests'[p][q])
        PROVE  requests'[p][q][i].ts <= Clock(p)'
    <3>1. i + 1 \in 1..n /\ requests'[p][q][i] = requests[p][q][i + 1]
      BY <1>9
    <3> QED
      BY <3>1, <1>2 DEF Agree, Dated, n
  <2>2. ASSUME NEW s \in Peers
        PROVE  suspended'[q][p][s] <= Clock(q)' + SuspensionDuration
    <3>1. suspended[q][p][s] <= Clock(q) + SuspensionDuration
      BY DEF Agree, Dated
    <3> QED
      BY <3>1, <1>2, <1>8 DEF until
  <2>3. ASSUME NEW s \in Peers, theirs'[p][q][s] # None
        PROVE  theirs'[p][q][s] <= Clock(p)' + SuspensionDuration
    BY <2>3, <1>1, <1>2 DEF Agree, Dated
  <2> QED
    BY <2>1, <2>2, <2>3, Zenon DEF Dated
<1>11. ASSUME Steady(p)
       PROVE  Entered(p, q)' /\ Owed(p, q)'
  <2>1. ASSUME NEW i \in 1..Len(requests'[p][q]),
               NEW s \in requests'[p][q][i].sources
        PROVE  /\ theirs'[p][q][s] # None
               /\ requests'[p][q][i].ts + SuspensionDuration <= theirs'[p][q][s]
    <3>1. i + 1 \in 1..n /\ requests'[p][q][i] = requests[p][q][i + 1]
      BY <1>9
    <3> QED
      BY <3>1, <2>1, <1>1, <1>11 DEF Agree, Entered, n
  <2>2. ASSUME NEW s \in Peers, suspended'[q][p][s] > 0
        PROVE  /\ theirs[p][q][s] # None
               /\ suspended'[q][p][s] <= theirs[p][q][s] + RequestExpiration
    <3>1. CASE granted /\ s \in request.sources
      <4>1. /\ theirs[p][q][s] # None
            /\ request.ts + SuspensionDuration <= theirs[p][q][s]
        BY <3>1, <1>5, <1>11 DEF Agree, Entered, n
      <4>2. theirs[p][q][s] \in Nat
        BY <4>1, <1>b
      <4>3. suspended'[q][p][s] = Clock(q) + SuspensionDuration
        BY <3>1, <1>8 DEF until
      <4> QED
        BY <3>1, <4>1, <4>2, <4>3, <1>6, <1>n
    <3>2. CASE ~(granted /\ s \in request.sources)
      <4>1. suspended'[q][p][s] = suspended[q][p][s]
        BY <3>2, <1>8
      <4> QED
        BY <4>1, <2>2, <1>11 DEF Agree, Owed
    <3> QED
      BY <3>1, <3>2
  <2>3. Entered(p, q)'
    BY <2>1, Zenon DEF Entered
  <2> QED
    BY <2>2, <2>3, <1>1 DEF Owed
<1>12. ASSUME Settled(p, q)
       PROVE  Linked(p, q)' /\ Promised(p, q)'
  <2>1. mesh[p][q] > 0 /\ mesh[q][p] > 0
    BY <1>1, <1>12 DEF Agree, Linked
  <2>2. Linked(p, q)'
    BY <2>1, <1>12, LinkedNext DEF Agree
  <2>3. granted <=> Clock(q) - request.ts <= RequestExpiration
    BY <2>1, <1>7
  <2>4. ASSUME NEW s \in Peers, theirs[p][q][s] # None, Clock(p) < theirs[p][q][s]
        PROVE  Kept(p, q, s)' \/ Underway(p, q, s)'
    <3>1. theirs[p][q][s] \in Nat /\ theirs'[p][q][s] = theirs[p][q][s]
      BY <2>4, <1>1, <1>b
    <3>2. Kept(p, q, s) \/ Underway(p, q, s)
      BY <2>4, <1>12 DEF Agree, Promised
    <3>3. CASE Kept(p, q, s)
      <4>1. suspended[q][p][s] <= until /\ suspended[q][p][s] \in Nat
        BY <1>b DEF Agree, Dated, until
      <4>2. suspended[q][p][s] <= suspended'[q][p][s] /\ suspended'[q][p][s] \in Nat
        BY <4>1, <1>2, <1>8
      <4>3. theirs[p][q][s] - Skew[p] <= suspended'[q][p][s] - Skew[q]
        BY <3>1, <3>3, <4>1, <4>2, <1>n DEF Kept
      <4> QED
        BY <3>1, <4>3 DEF Kept
    <3>4. ASSUME NEW i \in 1..n, s \in requests[p][q][i].sources,
                 theirs[p][q][s] <= requests[p][q][i].ts + SuspensionDuration
          PROVE  Kept(p, q, s)' \/ Underway(p, q, s)'
      <4>1. CASE i = 1
        <5>1. s \in request.sources
              /\ theirs[p][q][s] <= request.ts + SuspensionDuration
          BY <4>1, <3>4, <1>5
        <5>2. granted
          <6>1. SuspensionDuration + Skew[q] - Skew[p] <= RequestExpiration
            BY <1>12 DEF Settled
          <6>2. CASE now + Skew[q] - request.ts > RequestExpiration
            <7>1. theirs[p][q][s] <= now + Skew[p]
              BY <3>1, <5>1, <6>1, <6>2, <1>6, OverWhenLate, <1>n
            <7> QED
              BY <7>1, <3>1, <2>4, <1>n
          <6> QED
            BY <6>2, <2>3, <1>6, <1>n
        <5>3. suspended'[q][p][s] = until
          BY <5>1, <5>2, <1>8
        <5>4. theirs[p][q][s] - Skew[p] <= suspended'[q][p][s] - Skew[q]
          <6>1. /\ request.ts <= now + Skew[p]
                /\ suspended'[q][p][s] = now + Skew[q] + SuspensionDuration
                /\ suspended'[q][p][s] \in Nat
            BY <5>3, <1>2, <1>6, <1>n DEF until
          <6> QED
            BY <3>1, <5>1, <6>1, <1>6, CountedLonger, <1>n
        <5> QED
          BY <5>4, <3>1 DEF Kept
      <4>2. CASE i # 1
        <5>2. i \in Nat /\ i - 1 \in 1..Len(requests'[p][q]) /\ (i - 1) + 1 = i
          BY <4>2, <3>4, <1>5
        <5>1. i - 1 \in 1..Len(requests'[p][q])
              /\ requests'[p][q][i - 1] = requests[p][q][i]
          BY <5>2, <1>9
        <5> QED
          BY <5>1, <3>1, <3>4 DEF Underway
      <4> QED
        BY <4>1, <4>2
    <3> QED
      BY <3>2, <3>3, <3>4 DEF Underway, n
  <2>5. Promised(p, q)'
    BY <2>4, <1>1, <1>2, Zenon DEF Promised
  <2> QED
    BY <2>2, <2>5
<1> QED
  BY <1>10, <1>11, <1>12 DEF Agree, Steady, Settled

LEMMA PromisesNext ==
    ASSUME Relaying, Promises, [SuspensionNext]_relayVars
    PROVE  Promises'
<1>1. ASSUME NEW p \in Peers, NEW q \in Peers, ReceiveAgain(p, q)
      PROVE  Head(chan[q][p]).key.src \in Peers
  <2>1. Arrives(p, q)
    BY <1>1 DEF ReceiveAgain, Discard
  <2>2. TypeOK /\ chan \in Channels
    BY Zenon DEF Relaying, Flow, TypeOK, Channels
  <2> QED
    BY <2>1, <2>2, RestType, KeysType DEF Packets
<1>2. ASSUME NEW p \in Peers, NEW q \in Peers
      PROVE  Agree(p, q)'
  <2>1. Agree(p, q)
    BY DEF Promises
  <2> QED
    BY <2>1, <1>1, BookSteps, AgreeUntouched, AgreeRequest, AgreeGrant
<1> QED
  BY <1>2, Zenon DEF Promises

LEMMA PromisesAlways == SuspensionSpec => [](Relaying /\ Promises)
<1>1. SuspensionInit => Relaying /\ Promises
  BY RelayingInit, PromisesInit
<1>2. (Relaying /\ Promises) /\ [SuspensionNext]_relayVars => (Relaying /\ Promises)'
  BY RelayingNext, PromisesNext
<1> QED
  BY <1>1, <1>2, PTL DEF SuspensionSpec

(* A relay on a connection that stays withholds a source for at least as   *)
(* long as the peer that asked counts it as suspended, unless its request  *)
(* is still on the way, whatever the rest of the mesh does: a request that *)
(* comes too late to be granted comes when the peer has stopped counting.  *)
THEOREM SuspensionHonouredCorrect == SuspensionSpec => []SuspensionHonoured
<1>1. ASSUME Relaying, Promises
      PROVE  SuspensionHonoured
  <2>1. ASSUME NEW p \in Peers, NEW q \in Peers, NEW src \in Peers, Settled(p, q),
               theirs[p][q][src] # None, Clock(p) < theirs[p][q][src]
        PROVE  IsRelayToConnectionSuspended(q, p, src) \/ Asked(p, q, src)
    <3>1. Kept(p, q, src) \/ Underway(p, q, src)
      BY <1>1, <2>1 DEF Promises, Agree, Promised
    <3>2. CASE Kept(p, q, src)
      <4>1. /\ theirs[p][q][src] \in Nat /\ suspended[q][p][src] \in Nat
            /\ now \in Nat /\ Skew[p] \in Nat /\ Skew[q] \in Nat
        BY <1>1, <2>1, BookTypes DEF Typed
      <4>2. now + Skew[q] < suspended[q][p][src]
        BY <2>1, <3>2, <4>1 DEF Kept, Clock
      <4> QED
        BY <4>2 DEF IsRelayToConnectionSuspended, Clock
    <3>3. CASE Underway(p, q, src)
      BY <3>3 DEF Underway, Asked
    <3> QED
      BY <3>1, <3>2, <3>3
  <2> QED
    BY <2>1 DEF SuspensionHonoured
<1> QED
  BY <1>1, PromisesAlways, PTL

(* What a relay withholds from a peer that drops nobody, the peer entered  *)
(* in its book, and the relay resumes no later than RequestExpiration      *)
(* after the time entered there: for any clocks, and while the relay loses *)
(* the connection, forgets the peer and gets it back.                      *)
THEOREM WithheldAsAskedCorrect == SuspensionSpec => []WithheldAsAsked
<1>1. Promises => WithheldAsAsked
  BY DEF Promises, Agree, Owed, WithheldAsAsked
<1> QED
  BY <1>1, PromisesAlways, PTL

=============================================================================
