---------------------------- MODULE SpreadProofs ----------------------------
(***************************************************************************)
(* How far a reliable message spreads, for every set of peers, mesh and    *)
(* bound: with a ttl no less than the longest simple path, the flood skips *)
(* nobody.                                                                 *)
(***************************************************************************)
EXTENDS RelaySuspensionProofs

-----------------------------------------------------------------------------
(* What sendPacket puts on the channels                                    *)

(* A concatenation has the elements of both sequences.                     *)
LEMMA ConcatKeeps ==
    ASSUME NEW S, NEW old \in Seq(S), NEW more \in Seq(S)
    PROVE  /\ \A i \in 1..Len(old) : i \in 1..Len(old \o more) /\ (old \o more)[i] = old[i]
           /\ \A i \in 1..Len(more) : /\ Len(old) + i \in 1..Len(old \o more)
                                      /\ (old \o more)[Len(old) + i] = more[i]
<1>1. /\ Len(old \o more) = Len(old) + Len(more)
      /\ \A i \in 1..(Len(old) + Len(more)) :
            (old \o more)[i] = IF i <= Len(old) THEN old[i] ELSE more[i - Len(old)]
  BY ConcatProperties
<1>2. Len(old) \in Nat /\ Len(more) \in Nat
  BY LenProperties
<1>3. \A i \in 1..Len(old) : i \in 1..Len(old \o more) /\ (old \o more)[i] = old[i]
  BY <1>1, <1>2
<1>4. \A i \in 1..Len(more) : /\ Len(old) + i \in 1..Len(old \o more)
                              /\ (old \o more)[Len(old) + i] = more[i]
  BY <1>1, <1>2
<1> QED
  BY <1>3, <1>4

(* The packets that were on the channels stay there, and every peer that   *)
(* is connected over an open data channel, does not know the packet and is *)
(* not suspended gets a copy.                                              *)
LEMMA SendPacketServes ==
    ASSUME NEW channels \in Channels, mesh \in [Peers -> [Peers -> 0..2]],
           NEW p \in Peers, NEW packet \in Packets, NEW optimistic, NEW closed,
           NEW result, result = SendPacket(channels, p, packet, optimistic, closed)
    PROVE  /\ \A a, b \in Peers : Carried(channels, a, b) \subseteq Carried(result, a, b)
           /\ \A b \in Peers :
                 /\ mesh[p][b] > 0 /\ b \notin closed
                 /\ b \notin packet.receivedBy \cup {p}
                 /\ packet.hops = 0 \/ ~IsRelayToConnectionSuspended(p, b, packet.key.src)
                 => \E m \in Carried(result, p, b) : m.key = packet.key
<1> DEFINE own == [packet EXCEPT !.receivedBy = @ \cup {p}]
           targets == Targets(p, own)
           out == [own EXCEPT !.receivedBy = IF optimistic THEN @ \cup targets ELSE @]
           served == targets \ closed
<1>1. /\ own \in Packets /\ own.receivedBy = packet.receivedBy \cup {p}
      /\ own.key = packet.key /\ own.hops = packet.hops
  BY DEF Packets
<1>2. targets \subseteq Peers /\ \A b \in targets : mesh[p][b] > 0
  BY DEF Targets
<1>2a. served \subseteq targets /\ \A b \in targets : b \notin closed => b \in served
  OBVIOUS
<1>3. \A b \in Peers :
         b \in targets <=>
            /\ mesh[p][b] > 0
            /\ b \notin packet.receivedBy \cup {p}
            /\ packet.hops = 0 \/ ~IsRelayToConnectionSuspended(p, b, packet.key.src)
  <2> HIDE DEF own
  <2> QED
    BY <1>1 DEF Targets
<1>4. out \in Packets /\ out.key = packet.key
  <2> HIDE DEF own, targets
  <2> QED
    BY <1>1, <1>2 DEF Packets
<1>5. result = [channels EXCEPT ![p] =
                  [b \in Peers |-> IF b \in served
                                   THEN @[b] \o [i \in 1..mesh[p][b] |-> out]
                                   ELSE @[b]]]
  BY DEF SendPacket
<1> HIDE DEF own, targets, out, served
<1>6. \A a, b \in Peers :
         result[a][b] = IF a = p /\ b \in served
                        THEN channels[a][b] \o [i \in 1..mesh[p][b] |-> out]
                        ELSE channels[a][b]
  BY <1>5 DEF Channels
<1>7. \A b \in Peers : mesh[p][b] \in Nat /\ channels[p][b] \in Seq(Packets)
  <2>1. mesh \in [Peers -> [Peers -> 0..2]] /\ channels \in [Peers -> [Peers -> Seq(Packets)]]
    BY DEF Channels
  <2>2. \A b \in Peers : mesh[p][b] \in 0..2 /\ channels[p][b] \in Seq(Packets)
    BY <2>1
  <2> QED
    BY <2>2
<1>8. ASSUME NEW b \in served
      PROVE  /\ Carried(channels, p, b) \subseteq Carried(result, p, b)
             /\ out \in Carried(result, p, b)
  <2>1. b \in Peers /\ mesh[p][b] \in Nat /\ mesh[p][b] > 0 /\ channels[p][b] \in Seq(Packets)
    BY <1>2, <1>2a, <1>7
  <2>2. result[p][b] = channels[p][b] \o [i \in 1..mesh[p][b] |-> out]
    BY <2>1, <1>6
  <2> DEFINE copies == [i \in 1..mesh[p][b] |-> out]
  <2>3. /\ copies \in Seq(Packets) /\ 1 \in 1..Len(copies) /\ copies[1] = out
        /\ result[p][b] = channels[p][b] \o copies
    BY <2>1, <2>2, <1>4, CopiesType
  <2> HIDE DEF copies
  <2>4. /\ \A i \in 1..Len(channels[p][b]) :
              i \in 1..Len(result[p][b]) /\ result[p][b][i] = channels[p][b][i]
        /\ Len(channels[p][b]) + 1 \in 1..Len(result[p][b])
        /\ result[p][b][Len(channels[p][b]) + 1] = out
    BY <2>1, <2>3, ConcatKeeps
  <2> QED
    BY <2>4 DEF Carried
<1>9. ASSUME NEW a \in Peers, NEW b \in Peers
      PROVE  Carried(channels, a, b) \subseteq Carried(result, a, b)
  <2>1. CASE a = p /\ b \in served
    BY <2>1, <1>8
  <2>2. CASE ~(a = p /\ b \in served)
    <3>1. result[a][b] = channels[a][b]
      BY <2>2, <1>6
    <3> QED
      BY <3>1 DEF Carried
  <2> QED
    BY <2>1, <2>2
<1> QED
  BY <1>2a, <1>3, <1>4, <1>8, <1>9

(* What p sends is on its way to every neighbour it is meant for.          *)
LEMMA SendPacketReaches ==
    ASSUME NEW channels \in Channels, mesh \in [Peers -> [Peers -> 0..2]],
           NEW p \in Peers, NEW packet \in Packets, NEW optimistic, NEW closed,
           chan' = SendPacket(channels, p, packet, optimistic, closed),
           NEW b \in Peers, mesh[p][b] > 0, b \notin closed,
           b # p, b \notin packet.receivedBy,
           packet.hops = 0 \/ ~IsRelayToConnectionSuspended(p, b, packet.key.src)
    PROVE  InTransit(p, b, packet.key)'
<1>1. b \notin packet.receivedBy \cup {p}
  OBVIOUS
<1>2. \E m \in Carried(chan', p, b) : m.key = packet.key
  BY <1>1, SendPacketServes
<1> QED
  BY <1>2 DEF Carried, InTransit

(* The packets behind the one that arrives stay on the channel.            *)
LEMMA RestKeeps ==
    ASSUME chan \in Channels, NEW p \in Peers, NEW q \in Peers, Arrives(p, q),
           NEW a \in Peers, NEW b \in Peers, NEW m \in Carried(chan, a, b)
    PROVE  \/ m \in Carried(Rest(p, q), a, b)
           \/ a = q /\ b = p /\ m = Head(chan[q][p])
<1>1. CASE a = q /\ b = p
  <2>1. chan[q][p] \in Seq(Packets) /\ chan[q][p] # << >>
    BY DEF Arrives, Channels
  <2>2. /\ Head(chan[q][p]) = chan[q][p][1]
        /\ Len(chan[q][p]) \in Nat
        /\ Len(Tail(chan[q][p])) = Len(chan[q][p]) - 1
        /\ \A i \in 1..Len(Tail(chan[q][p])) : Tail(chan[q][p])[i] = chan[q][p][i + 1]
    BY <2>1, HeadTailProperties, EmptySeq, LenProperties
  <2>3. Rest(p, q)[a][b] = Tail(chan[q][p])
    BY <1>1 DEF Rest, Channels
  <2>4. PICK i \in 1..Len(chan[q][p]) : m = chan[q][p][i]
    BY <1>1 DEF Carried
  <2>5. CASE i = 1
    BY <1>1, <2>2, <2>4, <2>5
  <2>6. CASE i # 1
    <3>1. i - 1 \in 1..Len(Tail(chan[q][p])) /\ Tail(chan[q][p])[i - 1] = m
      BY <2>2, <2>4, <2>6
    <3> QED
      BY <2>3, <3>1 DEF Carried
  <2> QED
    BY <2>5, <2>6
<1>2. CASE ~(a = q /\ b = p)
  <2>1. Rest(p, q)[a][b] = chan[a][b]
    BY <1>2 DEF Rest, Channels
  <2> QED
    BY <2>1 DEF Carried
<1> QED
  BY <1>1, <1>2

-----------------------------------------------------------------------------
(* The inductive invariant                                                 *)

(* Who a reliable packet names in receivedBy has it.                       *)
Named ==
    \A a, b \in Peers : \A m \in Carried(chan, a, b) :
        IsReliable(m.key) => \A r \in m.receivedBy : Holds(r, m.key)

(* What is stored in receivedPackets was emitted.                          *)
StoredEmitted ==
    \A p \in Peers, k \in Keys : seen[p][k] # None => count[p][k] > 0

(* No suspension lasts longer than one that is granted now.                *)
Bounded ==
    \A p, q, src \in Peers : suspended[p][q][src] <= Clock(p) + SuspensionDuration

Spread == Named /\ StoredEmitted /\ Bounded

(* q has k or gets it from p.                                              *)
Served(p, q, k) == Holds(q, k) \/ InTransit(p, q, k)

LEMMA SpreadInit == Init => Spread /\ NobodySkipped
<1>1. ASSUME Init PROVE KeysSent = {}
  BY <1>1, KeysType, EmptySeq DEF Init, KeysSent
<1>2. ASSUME Init PROVE Named
  BY <1>2, EmptySeq DEF Init, Named, Carried
<1>3. ASSUME Init PROVE StoredEmitted
  BY <1>3 DEF Init, StoredEmitted
<1>4. ASSUME Init PROVE Bounded
  <2>1. ASSUME NEW p \in Peers PROVE 0 <= Clock(p) + SuspensionDuration
    BY <1>4, <2>1, RoutingAssumption DEF Init, Clock
  <2> QED
    BY <1>4, <2>1 DEF Init, Bounded
<1> QED
  BY <1>1, <1>2, <1>3, <1>4 DEF Spread, NobodySkipped

LEMMA HoldsKept ==
    ASSUME TypeOK, [Next]_vars, NEW p \in Peers, NEW k \in Keys, Holds(p, k)
    PROVE  Holds(p, k)'
BY EmittedKept DEF Holds

LEMMA NowType == ASSUME TypeOK PROVE now \in Nat
<1>1. now \in 0..MaxNow
  BY DEF TypeOK
<1> QED
  BY <1>1, RoutingAssumption

(* As long as time goes on, what is not fresh now will not be.             *)
LEMMA FreshBefore ==
    ASSUME TypeOK, NEW k \in KeysSent, now' \in Nat, now <= now',
           Timestamp(k)' = Timestamp(k), Fresh(k)'
    PROVE  Fresh(k)
<1>1. Timestamp(k) \in Nat
  BY SentType
<1>2. now \in Nat /\ ReliableExpiration \in Nat
  BY RoutingAssumption DEF TypeOK
<1>3. ASSUME NEW p \in Peers
      PROVE  Clock(p) - Timestamp(k) <= ReliableExpiration
  <2>1. Skew[p] \in Nat
    BY RoutingAssumption
  <2>2. (now' + Skew[p]) - Timestamp(k) <= ReliableExpiration
    BY DEF Fresh, Clock
  <2> QED
    BY <2>1, <2>2, <1>1, <1>2 DEF Clock
<1> QED
  BY <1>3 DEF Fresh

(* A connection that is open was not suspended at any time since k was     *)
(* sent, so p does not find it suspended.                                  *)
LEMMA OpenRelays ==
    ASSUME Flow, NEW p \in Peers, NEW q \in Peers, NEW k \in KeysSent,
           Open(p, q, k), p # k.src
    PROVE  ~IsRelayToConnectionSuspended(p, q, k.src)
<1>1. TypeOK /\ Stamped
  BY DEF Flow
<1>2. k.src \in Peers /\ Timestamp(k) \in Nat
  BY <1>1, SentType
<1>3. /\ now \in Nat /\ Skew[p] \in Nat /\ Skew[k.src] \in Nat
      /\ suspended[p][q][k.src] \in Nat
  <2>1. suspended \in [Peers -> [Peers -> [Peers -> Nat]]] /\ now \in 0..MaxNow
    BY <1>1, Zenon DEF TypeOK
  <2> QED
    BY <2>1, <1>2, RoutingAssumption
<1>4. Timestamp(k) <= now + Skew[k.src]
  BY <1>1 DEF Stamped, Clock
<1>5. suspended[p][q][k.src] - Skew[p] <= Timestamp(k) - Skew[k.src]
  BY DEF Open
<1> QED
  BY <1>2, <1>3, <1>4, <1>5 DEF IsRelayToConnectionSuspended, Clock

LEMMA SpreadSend ==
    ASSUME Flow, Spread, NobodySkipped, NEW p \in Peers, NEW reliable \in BOOLEAN,
           Send(p, reliable)
    PROVE  Spread' /\ NobodySkipped'
<1>a. SUFFICES ASSUME NEW new, new = [src |-> p, seq |-> Len(sent[p]) + 1],
                      NEW packet, packet = [key |-> new, hops |-> 0, receivedBy |-> {}],
                      NEW optimistic, optimistic = ~reliable
               PROVE  Spread' /\ NobodySkipped'
  OBVIOUS
<1>1. TypeOK /\ Counted
  BY DEF Flow
<1>2. /\ new \in Keys /\ new \notin KeysSent
      /\ KeysSent' = KeysSent \cup {new}
      /\ IsReliable(new)' = reliable
      /\ \A k \in KeysSent : Timestamp(k)' = Timestamp(k)
      /\ \A k \in KeysSent : IsReliable(k)' = IsReliable(k)
  BY <1>a, <1>1, SentKept
<1>3. packet \in Packets /\ packet.key = new /\ packet.hops = 0
      /\ packet.receivedBy = {} /\ new.src = p
  BY <1>a, <1>2 DEF Packets
<1>4. chan \in Channels /\ mesh \in [Peers -> [Peers -> 0..2]]
  BY <1>1, Zenon DEF TypeOK, Channels
<1>5. UNCHANGED <<now, mesh, seen, last, suspended, disposed, count>>
  BY DEF Send
<1>6. PICK closed \in SUBSET MayBeClosed(p) :
         chan' = SendPacket(chan, p, packet, optimistic, closed)
  BY <1>a, Zenon DEF Send
<1>7. \A a, b \in Peers : \A m \in Carried(chan', a, b) :
         m \in Carried(chan, a, b) \/ (a = p /\ IsCopy(m, packet, p, b, optimistic))
  BY <1>3, <1>4, <1>6, SendPacketAdds
<1>8. Named'
  <2>1. ASSUME NEW a \in Peers, NEW b \in Peers, NEW m \in Carried(chan', a, b),
               IsReliable(m.key)', NEW r \in m.receivedBy
        PROVE  Holds(r, m.key)'
    <3>1. CASE m \in Carried(chan, a, b)
      <4>1. m.key \in KeysSent
        BY <3>1 DEF Flow, InFlight, Sound
      <4>2. Holds(r, m.key)
        BY <2>1, <3>1, <4>1, <1>2 DEF Spread, Named
      <4> QED
        BY <4>2, <1>5 DEF Holds
    <3>2. CASE IsCopy(m, packet, p, b, optimistic)
      <4>1. m.key = new
        BY <3>2, <1>3 DEF IsCopy
      <4>2. ~optimistic
        BY <4>1, <2>1, <1>2, <1>a, Zenon DEF IsReliable
      <4> QED
        BY <3>2, <4>1, <4>2, <1>3 DEF IsCopy, Holds
    <3> QED
      BY <3>1, <3>2, <1>7
  <2> QED
    BY <2>1 DEF Named
<1>9. StoredEmitted' /\ Bounded'
  BY <1>5 DEF Spread, StoredEmitted, Bounded, Clock
<1>10. ASSUME NEW k \in KeysSent', IsReliable(k)', Fresh(k)',
              NEW a \in Peers, NEW b \in Peers,
              Lasting(a, b), Open(a, b, k)', Holds(a, k)'
       PROVE  Served(a, b, k)'
  <2>1. CASE k \in KeysSent
    <3>1. IsReliable(k) /\ Holds(a, k)
      BY <2>1, <1>2, <1>5, <1>10 DEF Holds
    <3>2. Fresh(k) /\ Open(a, b, k)
      BY <2>1, <1>2, <1>5, <1>10 DEF Fresh, Open, Clock
    <3>3. Holds(b, k) \/ InTransit(a, b, k)
      BY <2>1, <3>1, <3>2, <1>10 DEF NobodySkipped
    <3>4. CASE Holds(b, k)
      BY <3>4, <1>5 DEF Holds, Served
    <3>5. CASE InTransit(a, b, k)
      <4>1. PICK m \in Carried(chan, a, b) : m.key = k
        BY <3>5 DEF InTransit, Carried
      <4>2. m \in Carried(chan', a, b)
        BY <1>3, <1>4, <1>6, SendPacketServes
      <4> QED
        BY <4>1, <4>2 DEF Carried, InTransit, Served
    <3> QED
      BY <3>3, <3>4, <3>5
  <2>2. CASE k = new
    <3>1. a = p
      <4>1. ~(count[a][new] > 0)
        BY <1>1, <1>2 DEF Counted
      <4> QED
        BY <2>2, <4>1, <1>3, <1>5, <1>10 DEF Holds
    <3>2. CASE b = p
      BY <2>2, <3>2, <1>3 DEF Holds, Served
    <3>3. CASE b # p
      <4>1. mesh[p][b] > 0 /\ b \notin closed
        BY <3>1, <1>5, <1>6, <1>10 DEF Open, MayBeClosed
      <4>2. b \notin packet.receivedBy /\ packet.hops = 0
        BY <1>3
      <4>3. InTransit(p, b, packet.key)'
        BY <3>3, <4>1, <4>2, <1>3, <1>4, <1>6, SendPacketReaches
      <4> QED
        BY <2>2, <3>1, <4>3, <1>3 DEF InTransit, Served
    <3> QED
      BY <3>2, <3>3
  <2> QED
    BY <2>1, <2>2, <1>2
<1> QED
  BY <1>8, <1>9, <1>10 DEF Spread, NobodySkipped, Served, Lasting

(* A packet whose ttl is used up has been to every peer.                   *)
LEMMA TtlSuffices ==
    ASSUME Cardinality(Peers) <= Ttl + 1,
           NEW S \in SUBSET Peers, NEW p \in Peers, p \notin S,
           NEW hops \in Nat, hops < Cardinality(S), hops + 1 >= Ttl
    PROVE  S \cup {p} = Peers
<1>1. IsFiniteSet(Peers) /\ IsFiniteSet(S) /\ Ttl \in Nat
  BY RoutingAssumption, FS_Subset
<1>2. Cardinality(S \cup {p}) = Cardinality(S) + 1
  BY <1>1, FS_AddElement
<1>3. Cardinality(S) \in Nat /\ Cardinality(Peers) \in Nat
  BY <1>1, FS_CardinalityType
<1>4. Cardinality(S \cup {p}) >= Cardinality(Peers)
  BY <1>1, <1>2, <1>3
<1>5. ASSUME S \cup {p} # Peers PROVE FALSE
  <2>1. S \cup {p} \in SUBSET Peers
    OBVIOUS
  <2>2. /\ Cardinality(S \cup {p}) <= Cardinality(Peers)
        /\ Cardinality(S \cup {p}) # Cardinality(Peers)
    BY <2>1, <1>1, <1>5, FS_Subset
  <2> QED
    BY <2>2, <1>2, <1>3, <1>4
<1> QED
  BY <1>5

LEMMA SpreadProcess ==
    ASSUME Cardinality(Peers) <= Ttl + 1,
           Flow, Flow', Spread, NobodySkipped, NEW p \in Peers, NEW q \in Peers,
           Process(p, q)
    PROVE  Spread' /\ NobodySkipped'
<1>a. SUFFICES ASSUME NEW packet, packet = Head(chan[q][p]),
                      NEW k, k = packet.key,
                      NEW relayed, relayed = [packet EXCEPT !.hops = @ + 1],
                      NEW rest, rest = Rest(p, q),
                      NEW optimistic, optimistic = ~IsReliable(k)
               PROVE  Spread' /\ NobodySkipped'
  OBVIOUS
<1>1. TypeOK /\ InFlight /\ Arrives(p, q) /\ [Next]_vars
  BY DEF Flow, Process, Next, Receive
<1>2. /\ chan \in Channels /\ mesh \in [Peers -> [Peers -> 0..2]]
      /\ seen \in [Peers -> [Keys -> Nat \cup {None}]]
      /\ count \in [Peers -> [Keys -> Nat]]
  BY <1>1, Zenon DEF TypeOK, Channels
<1>3. /\ packet \in Packets /\ packet \in Carried(chan, q, p) /\ rest \in Channels
      /\ \A a, b \in Peers : Carried(rest, a, b) \subseteq Carried(chan, a, b)
      /\ \A a, b \in Peers : \A m \in Carried(chan, a, b) :
            m \in Carried(rest, a, b) \/ (a = q /\ b = p /\ m = packet)
  BY <1>a, <1>1, <1>2, RestType, RestKeeps, Zenon
<1>4. /\ k \in KeysSent /\ k \in Keys /\ k.src # p /\ k.src \in Peers
      /\ IsReliable(k) => p \notin packet.receivedBy
      /\ packet.hops < Cardinality(packet.receivedBy)
  BY <1>a, <1>1, <1>3, SentType DEF InFlight, Sound
<1>5. /\ relayed \in Packets /\ relayed.key = k
      /\ relayed.receivedBy = packet.receivedBy
      /\ relayed.hops = packet.hops + 1 /\ packet.hops \in Nat
      /\ packet.receivedBy \in SUBSET Peers
  BY <1>a, <1>3 DEF Packets
<1>6. /\ Store(p, k) /\ UNCHANGED <<now, mesh, sent, suspended, disposed>>
      /\ count' = [count EXCEPT ![p][k] = @ + 1]
      /\ IF relayed.hops < Ttl
         THEN \E closed \in SUBSET MayBeClosed(p) :
                 chan' = SendPacket(rest, p, relayed, optimistic, closed)
         ELSE chan' = rest
  BY <1>a DEF Process
<1>6a. PICK closed \in SUBSET MayBeClosed(p) :
          relayed.hops < Ttl => chan' = SendPacket(rest, p, relayed, optimistic, closed)
  <2>1. {} \in SUBSET MayBeClosed(p)
    OBVIOUS
  <2> QED
    BY <2>1, <1>6, Zenon
<1>7. /\ KeysSent' = KeysSent
      /\ \A j \in Keys : /\ IsReliable(j)' = IsReliable(j)
                         /\ Timestamp(j)' = Timestamp(j)
  BY <1>6 DEF KeysSent, IsReliable, Timestamp
<1>8. /\ Holds(p, k)'
      /\ \A a \in Peers, j \in Keys : Holds(a, j) => Holds(a, j)'
      /\ \A a \in Peers, j \in Keys : Holds(a, j)' => Holds(a, j) \/ (a = p /\ j = k)
  <2>1. count'[p][k] > 0
    BY <1>2, <1>4, <1>6
  <2>2. \A a \in Peers, j \in Keys : count'[a][j] = count[a][j] \/ (a = p /\ j = k)
    BY <1>2, <1>4, <1>6
  <2>3. \A a \in Peers, j \in Keys : Holds(a, j) => Holds(a, j)'
    BY <1>1, HoldsKept
  <2> QED
    BY <2>1, <2>2, <2>3 DEF Holds
<1>9. \A a, b \in Peers : Carried(rest, a, b) \subseteq Carried(chan', a, b)
  <2>1. CASE relayed.hops < Ttl
    BY <2>1, <1>2, <1>3, <1>5, <1>6a, SendPacketServes, Zenon
  <2>2. CASE ~(relayed.hops < Ttl)
    BY <2>2, <1>6
  <2> QED
    BY <2>1, <2>2
<1>10. Named'
  <2>1. ASSUME NEW a \in Peers, NEW b \in Peers, NEW m \in Carried(chan', a, b),
               IsReliable(m.key)', NEW r \in m.receivedBy
        PROVE  Holds(r, m.key)'
    <3>0. chan' \in Channels
      BY Zenon DEF Flow, TypeOK, Channels
    <3>1. m \in Packets /\ r \in Peers /\ m.key \in Keys
      BY <3>0, <2>1, CarriedType DEF Packets
    <3>2. CASE m \in Carried(chan, a, b)
      <4>1. Holds(r, m.key)
        BY <2>1, <3>1, <3>2, <1>7 DEF Spread, Named
      <4> QED
        BY <3>1, <4>1, <1>8
    <3>3. CASE m \notin Carried(chan, a, b)
      <4>1. relayed.hops < Ttl /\ m \notin Carried(rest, a, b)
        BY <3>3, <2>1, <1>3, <1>6
      <4>2. IsCopy(m, relayed, p, b, optimistic)
        <5> DEFINE result == chan'
        <5>1. result = SendPacket(rest, p, relayed, optimistic, closed)
          BY <4>1, <1>6a
        <5>2. m \in Carried(result, a, b)
          BY <2>1
        <5>3. mesh \in [Peers -> [Peers -> 0..2]] /\ rest \in Channels /\ relayed \in Packets
          BY <1>2, <1>3, <1>5
        <5> HIDE DEF result
        <5>4. m \in Carried(rest, a, b) \/ (a = p /\ IsCopy(m, relayed, p, b, optimistic))
          <6>1. \A c, d \in Peers : \A x \in Carried(result, c, d) :
                   x \in Carried(rest, c, d)
                   \/ (c = p /\ IsCopy(x, relayed, p, d, optimistic))
            BY <5>1, <5>3, SendPacketAdds
          <6> QED
            BY <6>1, <5>2, Zenon
        <5> QED
          BY <5>4, <4>1
      <4>3. m.key = k /\ IsReliable(k)
        BY <4>2, <2>1, <3>1, <1>5, <1>7 DEF IsCopy
      <4>4. r = p \/ r \in packet.receivedBy
        BY <4>2, <4>3, <2>1, <1>a, <1>5 DEF IsCopy
      <4>5. r \in packet.receivedBy => Holds(r, k)
        BY <4>3, <1>a, <1>3 DEF Spread, Named
      <4> QED
        BY <4>3, <4>4, <4>5, <3>1, <1>4, <1>8
    <3> QED
      BY <3>2, <3>3
  <2> QED
    BY <2>1 DEF Named
<1>11. StoredEmitted'
  <2>1. ASSUME NEW a \in Peers, NEW j \in Keys, seen'[a][j] # None
        PROVE  count'[a][j] > 0
    <3>1. CASE seen[a][j] # None
      BY <3>1, <1>1, EmittedKept DEF Spread, StoredEmitted
    <3>2. CASE seen[a][j] = None
      <4>1. a = p /\ j = k
        BY <2>1, <3>2, <1>2, <1>4, <1>6 DEF Store
      <4> QED
        BY <4>1, <1>2, <1>4, <1>6
    <3> QED
      BY <3>1, <3>2
  <2> QED
    BY <2>1 DEF StoredEmitted
<1>12. Bounded'
  BY <1>6 DEF Spread, Bounded, Clock
<1>13. ASSUME NEW j \in KeysSent, IsReliable(j), Fresh(j), NEW a \in Peers, NEW b \in Peers,
              Lasting(a, b), Open(a, b, j), Holds(a, j)'
       PROVE  Served(a, b, j)'
  <2>1. j \in Keys
    BY <1>1, <1>13, SentType
  <2>2. CASE Holds(a, j)
    <3>1. Holds(b, j) \/ InTransit(a, b, j)
      BY <2>2, <1>13 DEF NobodySkipped
    <3>2. CASE Holds(b, j)
      BY <3>2, <2>1, <1>8 DEF Served
    <3>3. CASE InTransit(a, b, j)
      <4>1. PICK m \in Carried(chan, a, b) : m.key = j
        BY <3>3 DEF InTransit, Carried
      <4>2. CASE m \in Carried(rest, a, b)
        <5>1. m \in Carried(chan', a, b)
          BY <4>2, <1>9
        <5> QED
          BY <4>1, <5>1 DEF Carried, InTransit, Served
      <4>3. CASE b = p /\ m = packet
        <5>1. j = k
          BY <4>1, <4>3, <1>a
        <5> QED
          BY <4>3, <5>1, <1>8 DEF Served
      <4> QED
        BY <4>2, <4>3, <1>3
    <3> QED
      BY <3>1, <3>2, <3>3
  <2>3. CASE a = p /\ j = k
    <3>a. IsReliable(k) /\ p \notin packet.receivedBy
      BY <2>3, <1>4, <1>13
    <3>1. ASSUME b \in packet.receivedBy \cup {p}
          PROVE  Holds(b, k)'
      <4>1. CASE b = p
        BY <4>1, <1>8
      <4>2. CASE b \in packet.receivedBy
        <5>1. Holds(b, k)
          BY <4>2, <3>a, <1>a, <1>3 DEF Spread, Named
        <5> QED
          BY <5>1, <1>4, <1>8
      <4> QED
        BY <3>1, <4>1, <4>2
    <3>2. CASE relayed.hops < Ttl /\ b \notin packet.receivedBy \cup {p}
      <4>1. mesh[p][b] > 0 /\ b \notin closed
        BY <2>3, <1>6a, <1>13 DEF Open, MayBeClosed
      <4>2. ~IsRelayToConnectionSuspended(p, b, k.src)
        BY <2>3, <1>4, <1>13, OpenRelays
      <4>3. /\ b \notin relayed.receivedBy /\ b # p
            /\ ~IsRelayToConnectionSuspended(p, b, relayed.key.src)
            /\ chan' = SendPacket(rest, p, relayed, optimistic, closed)
        BY <3>2, <4>2, <1>5, <1>6a
      <4>4. InTransit(p, b, relayed.key)'
        BY <4>1, <4>3, <1>2, <1>3, <1>5, SendPacketReaches
      <4> QED
        BY <2>3, <4>4, <1>5 DEF InTransit, Served
    <3>3. CASE ~(relayed.hops < Ttl)
      <4>1. packet.hops + 1 >= Ttl /\ packet.hops \in Nat
        BY <3>3, <1>5, RoutingAssumption
      <4>2. packet.receivedBy \cup {p} = Peers
        BY <3>a, <4>1, <1>4, <1>5, TtlSuffices
      <4> QED
        BY <2>3, <3>1, <4>2 DEF Served
    <3> QED
      BY <2>3, <3>1, <3>2, <3>3 DEF Served
  <2> QED
    BY <2>1, <2>2, <2>3, <1>8, <1>13
<1>14. NobodySkipped'
  <2>1. ASSUME NEW j \in KeysSent', IsReliable(j)', Fresh(j)',
               NEW a \in Peers, NEW b \in Peers,
               Lasting(a, b), Open(a, b, j)', Holds(a, j)'
        PROVE  Served(a, b, j)'
    <3>1. j \in KeysSent /\ j \in Keys
      BY <1>1, <1>7, SentType
    <3>2. IsReliable(j) /\ Fresh(j) /\ Open(a, b, j)
      BY <2>1, <3>1, <1>6, <1>7 DEF Fresh, Open, Clock
    <3> QED
      BY <2>1, <3>1, <3>2, <1>13
  <2> QED
    BY <2>1 DEF NobodySkipped, Served, Lasting
<1> QED
  BY <1>10, <1>11, <1>12, <1>14 DEF Spread

(* A step that neither sends nor emits anything, and neither opens a       *)
(* connection nor loses what nobody else delivers.                         *)
LEMMA SpreadKept ==
    ASSUME Flow, TypeOK', Spread, NobodySkipped, UNCHANGED <<sent, count>>,
           now <= now', Bounded',
           \A p \in Peers, k \in Keys : seen'[p][k] # None => seen[p][k] # None,
           \A a, b \in Peers : Carried(chan', a, b) \subseteq Carried(chan, a, b),
           \A a, b \in Peers, k \in KeysSent :
              IsReliable(k) /\ Fresh(k) /\ Lasting(a, b) /\ Open(a, b, k)'
              => Open(a, b, k) /\ (InTransit(a, b, k) => Served(a, b, k)')
    PROVE  Spread' /\ NobodySkipped'
<1>1. TypeOK /\ now' \in Nat
  BY RoutingAssumption DEF Flow, TypeOK
<1>2. /\ KeysSent' = KeysSent
      /\ \A k \in Keys : IsReliable(k)' = IsReliable(k) /\ Timestamp(k)' = Timestamp(k)
      /\ \A p \in Peers, k \in Keys : Holds(p, k)' = Holds(p, k)
  BY DEF KeysSent, IsReliable, Timestamp, Holds
<1>3. Named'
  <2>1. ASSUME NEW a \in Peers, NEW b \in Peers, NEW m \in Carried(chan', a, b),
               IsReliable(m.key)', NEW r \in m.receivedBy
        PROVE  Holds(r, m.key)'
    <3>1. m \in Carried(chan, a, b)
      BY <2>1
    <3>2. IsReliable(m.key)
      BY <2>1 DEF IsReliable
    <3>3. Holds(r, m.key)
      BY <2>1, <3>1, <3>2 DEF Spread, Named
    <3> QED
      BY <3>3 DEF Holds
  <2> QED
    BY <2>1 DEF Named
<1>4. StoredEmitted'
  BY DEF Spread, StoredEmitted
<1>5. NobodySkipped'
  <2>1. ASSUME NEW k \in KeysSent', IsReliable(k)', Fresh(k)',
               NEW a \in Peers, NEW b \in Peers,
               Lasting(a, b), Open(a, b, k)', Holds(a, k)'
        PROVE  Served(a, b, k)'
    <3>1. k \in KeysSent /\ k \in Keys
      BY <1>1, <1>2, SentType
    <3>2. Timestamp(k)' = Timestamp(k)
      BY <1>2, <3>1
    <3>3. Fresh(k)
      BY <1>1, <2>1, <3>1, <3>2, FreshBefore
    <3>4. IsReliable(k) /\ Holds(a, k)
      BY <1>2, <2>1, <3>1
    <3>5. Open(a, b, k) /\ (InTransit(a, b, k) => Served(a, b, k)')
      BY <2>1, <3>1, <3>3, <3>4
    <3>6. Holds(b, k) \/ InTransit(a, b, k)
      BY <2>1, <3>1, <3>3, <3>4, <3>5 DEF NobodySkipped
    <3> QED
      BY <3>1, <3>5, <3>6, <1>2 DEF Served
  <2> QED
    BY <2>1 DEF NobodySkipped, Served, Lasting
<1> QED
  BY <1>3, <1>4, <1>5 DEF Spread

(* A copy that is discarded is one of a packet that is had already.        *)
LEMMA SpreadDiscard ==
    ASSUME Flow, TypeOK', Spread, NobodySkipped, NEW p \in Peers, NEW q \in Peers,
           Discard(p, q)
    PROVE  Spread' /\ NobodySkipped'
<1>a. SUFFICES ASSUME NEW packet, packet = Head(chan[q][p]), NEW k, k = packet.key
               PROVE  Spread' /\ NobodySkipped'
  OBVIOUS
<1>1. TypeOK /\ Arrives(p, q) /\ Store(p, k) /\ chan' = Rest(p, q)
      /\ (seen[p][k] # None \/ Expired(p, k))
      /\ UNCHANGED <<now, mesh, sent, last, suspended, disposed, count>>
  BY <1>a DEF Flow, Discard
<1>2. chan \in Channels /\ seen \in [Peers -> [Keys -> Nat \cup {None}]] /\ now \in Nat
  <2>1. now \in Nat
    BY <1>1, NowType
  <2> QED
    BY <1>1, <2>1, Zenon DEF TypeOK, Channels
<1>3. /\ packet \in Packets
      /\ \A a, b \in Peers : Carried(chan', a, b) \subseteq Carried(chan, a, b)
      /\ \A a, b \in Peers : \A m \in Carried(chan, a, b) :
            m \in Carried(chan', a, b) \/ (a = q /\ b = p /\ m = packet)
  BY <1>a, <1>1, <1>2, RestType, RestKeeps, Zenon
<1>4. k \in Keys
  BY <1>a, <1>3 DEF Packets
<1>5. \A a \in Peers, j \in Keys : seen'[a][j] # None => seen[a][j] # None
  <2>1. CASE seen' = seen
    BY <2>1
  <2>2. CASE seen' # seen
    <3>1. seen' = [seen EXCEPT ![p][k] = Clock(p)] /\ seen[p][k] # None
      BY <2>2, <1>1 DEF Store
    <3> QED
      BY <3>1, <1>2, <1>4
  <2> QED
    BY <2>1, <2>2
<1>6. ASSUME NEW a \in Peers, NEW b \in Peers, NEW j \in KeysSent,
             IsReliable(j), Fresh(j), Lasting(a, b), Open(a, b, j)'
      PROVE  Open(a, b, j) /\ (InTransit(a, b, j) => Served(a, b, j)')
  <2>1. Open(a, b, j)
    BY <1>1, <1>6 DEF Open, Timestamp
  <2>2. ASSUME InTransit(a, b, j)
        PROVE  Served(a, b, j)'
    <3>1. PICK m \in Carried(chan, a, b) : m.key = j
      BY <2>2 DEF InTransit, Carried
    <3>2. CASE m \in Carried(chan', a, b)
      BY <3>1, <3>2 DEF Carried, InTransit, Served
    <3>3. CASE b = p /\ m = packet
      <4>1. j = k
        BY <3>1, <3>3, <1>a
      <4>2. ~Expired(p, k)
        <5>1. Clock(p) \in Nat /\ Timestamp(k) \in Nat /\ ReliableExpiration \in Nat
          BY <4>1, <1>1, SentType, ClockType, RoutingAssumption DEF TypeOK
        <5>2. Clock(p) - Timestamp(k) <= ReliableExpiration /\ IsReliable(k)
          BY <4>1, <1>6 DEF Fresh
        <5> QED
          BY <5>1, <5>2 DEF Expired, ExpirationTime, Outdated
      <4>3. count[p][k] > 0
        BY <4>2, <1>1, <1>4 DEF Spread, StoredEmitted
      <4> QED
        BY <3>3, <4>1, <4>3, <1>1 DEF Served, Holds
    <3> QED
      BY <3>2, <3>3, <1>3
  <2> QED
    BY <2>1, <2>2
<1>7. Bounded'
  BY <1>1 DEF Spread, Bounded, Clock
<1>8. UNCHANGED <<sent, count>> /\ now <= now'
  BY <1>1, <1>2
<1> QED
  BY <1>3, <1>5, <1>6, <1>7, <1>8, SpreadKept

(* What expires, ticks, or gives up a connection.                          *)
LEMMA SpreadQuiet ==
    ASSUME Flow, TypeOK', Spread, NobodySkipped, NEW p \in Peers, NEW q \in Peers,
           Tick \/ Expire(p) \/ Dispose(p) \/ Link(p, q)
    PROVE  Spread' /\ NobodySkipped'
<1>1. TypeOK /\ now \in Nat /\ now' \in Nat
  <2>1. now' \in 0..MaxNow
    BY DEF TypeOK
  <2> QED
    BY <2>1, RoutingAssumption, NowType DEF Flow
<1>2. /\ UNCHANGED <<chan, sent, suspended, count>> /\ now <= now'
      /\ mesh' = mesh \/ Link(p, q)
      /\ seen' = seen \/ Expire(p)
  BY <1>1 DEF Tick, Expire, Dispose, Link
<1>3. Bounded'
  <2>1. ASSUME NEW a \in Peers, NEW b \in Peers, NEW src \in Peers
        PROVE  suspended[a][b][src] <= (now' + Skew[a]) + SuspensionDuration
    <3>1. suspended[a][b][src] <= (now + Skew[a]) + SuspensionDuration
      BY DEF Spread, Bounded, Clock
    <3>2. suspended[a][b][src] \in Nat /\ Skew[a] \in Nat /\ SuspensionDuration \in Nat
      <4>1. suspended \in [Peers -> [Peers -> [Peers -> Nat]]]
        BY <1>1, Zenon DEF TypeOK
      <4> QED
        BY <4>1, RoutingAssumption
    <3> QED
      BY <3>1, <3>2, <1>1, <1>2
  <2> QED
    BY <2>1, <1>2 DEF Bounded, Clock
<1>4. \A a \in Peers, j \in Keys : seen'[a][j] # None => seen[a][j] # None
  <2>1. CASE Expire(p)
    <3>1. seen \in [Peers -> [Keys -> Nat \cup {None}]]
      BY <1>1, Zenon DEF TypeOK
    <3> QED
      BY <2>1, <3>1 DEF Expire
  <2> QED
    BY <2>1, <1>2
<1>5. \A a, b \in Peers : Carried(chan', a, b) \subseteq Carried(chan, a, b)
  BY <1>2 DEF Carried
<1>6. ASSUME NEW a \in Peers, NEW b \in Peers, NEW j \in KeysSent,
             Lasting(a, b), Open(a, b, j)'
      PROVE  Open(a, b, j) /\ (InTransit(a, b, j) => Served(a, b, j)')
  <2>1. mesh'[a][b] = mesh[a][b]
    <3>1. mesh \in [Peers -> [Peers -> 0..2]]
      BY <1>1, Zenon DEF TypeOK
    <3>2. CASE Link(p, q)
      BY <3>1, <3>2, <1>6 DEF Link, Lasting
    <3> QED
      BY <3>2, <1>2
  <2>2. Open(a, b, j)
    BY <2>1, <1>2, <1>6 DEF Open, Timestamp
  <2> QED
    BY <2>2, <1>2 DEF InTransit, Served
<1> QED
  BY <1>2, <1>3, <1>4, <1>5, <1>6, SpreadKept

LEMMA SpreadCut ==
    ASSUME Flow, TypeOK', Spread, NobodySkipped, NEW p \in Peers, NEW q \in Peers,
           Break(p, q) \/ Drop(p, q) \/ PeerLeft(p, q)
    PROVE  Spread' /\ NobodySkipped'
<1>1. TypeOK /\ now \in Nat
  BY NowType DEF Flow
<1>2. /\ chan \in Channels /\ mesh \in [Peers -> [Peers -> 0..2]]
      /\ suspended \in [Peers -> [Peers -> [Peers -> Nat]]]
  BY <1>1, Zenon DEF TypeOK, Channels
<1>3. /\ <<"break", p>> \in Env \/ <<"leave", p>> \in Env
      /\ UNCHANGED <<now, sent, seen, count>>
      /\ mesh' = [mesh EXCEPT ![p][q] = 0]
      /\ chan' = [chan EXCEPT ![q][p] = << >>]
      /\ \/ suspended' = suspended
         \/ suspended' = [suspended EXCEPT ![p][q] = [src \in Peers |-> 0]]
  BY DEF Break, Drop, PeerLeft, DisconnectFrom
<1>4. Bounded'
  <2>1. ASSUME NEW a \in Peers, NEW b \in Peers, NEW src \in Peers
        PROVE  suspended'[a][b][src] <= (now + Skew[a]) + SuspensionDuration
    <3>1. suspended'[a][b][src] = suspended[a][b][src] \/ suspended'[a][b][src] = 0
      <4>1. ASSUME suspended' = [suspended EXCEPT ![p][q] = [s \in Peers |-> 0]]
            PROVE  suspended'[a][b][src] = suspended[a][b][src] \/ suspended'[a][b][src] = 0
        BY <4>1, <1>2
      <4> QED
        BY <4>1, <1>3
    <3>2. suspended[a][b][src] <= (now + Skew[a]) + SuspensionDuration
      BY DEF Spread, Bounded, Clock
    <3>3. Skew[a] \in Nat /\ SuspensionDuration \in Nat
      BY RoutingAssumption
    <3> QED
      BY <3>1, <3>2, <3>3, <1>1
  <2> QED
    BY <2>1, <1>3 DEF Bounded, Clock
<1>5. \A a, b \in Peers : Carried(chan', a, b) \subseteq Carried(chan, a, b)
  BY <1>2, <1>3, CutType
<1>6. ASSUME NEW a \in Peers, NEW b \in Peers, NEW j \in KeysSent,
             Lasting(a, b), Open(a, b, j)'
      PROVE  Open(a, b, j) /\ (InTransit(a, b, j) => Served(a, b, j)')
  <2>1. ~(a = p /\ b = q)
    BY <1>2, <1>3, <1>6 DEF Open
  <2>2. ~(a = q /\ b = p)
    BY <1>3, <1>6 DEF Lasting
  <2>a. mesh'[a][b] = mesh[a][b]
    BY <2>1, <1>2, <1>3
  <2>b. suspended'[a][b] = suspended[a][b]
    <3>1. ASSUME suspended' = [suspended EXCEPT ![p][q] = [s \in Peers |-> 0]]
          PROVE  suspended'[a][b] = suspended[a][b]
      BY <3>1, <2>1, <1>2
    <3> QED
      BY <3>1, <1>3
  <2>c. chan'[a][b] = chan[a][b]
    BY <2>2, <1>2, <1>3 DEF Channels
  <2>3. mesh'[a][b] = mesh[a][b] /\ suspended'[a][b] = suspended[a][b]
        /\ chan'[a][b] = chan[a][b]
    BY <2>a, <2>b, <2>c
  <2>4. Open(a, b, j)
    BY <2>3, <1>3, <1>6 DEF Open, Timestamp
  <2> QED
    BY <2>3, <2>4 DEF InTransit, Served
<1>7. UNCHANGED <<sent, count>> /\ now <= now'
  BY <1>1, <1>3
<1> QED
  BY <1>3, <1>4, <1>5, <1>6, <1>7, SpreadKept

(* A suspension that is granted now only leaves a connection open if it    *)
(* does not last at all, and then none lasted before.                      *)
LEMMA SpreadSuspend ==
    ASSUME Flow, TypeOK', Spread, NobodySkipped, NEW p \in Peers, NEW q \in Peers,
           NEW sources \in SUBSET Peers, Suspend(p, q, sources)
    PROVE  Spread' /\ NobodySkipped'
<1>1. TypeOK /\ now \in Nat /\ SuspensionDuration \in Nat
  BY RoutingAssumption, NowType DEF Flow
<1>2. suspended \in [Peers -> [Peers -> [Peers -> Nat]]]
  BY <1>1, Zenon DEF TypeOK
<1>3. /\ UNCHANGED <<now, mesh, chan, sent, seen, count>>
      /\ \A a, b, src \in Peers :
            \/ suspended'[a][b][src] = suspended[a][b][src]
            \/ a = p /\ b = q /\ suspended'[a][b][src] = Clock(p) + SuspensionDuration
  BY <1>2 DEF Suspend
<1>4. \A a, b, src \in Peers :
         /\ suspended[a][b][src] \in Nat
         /\ suspended[a][b][src] <= Clock(a) + SuspensionDuration
  BY <1>2 DEF Spread, Bounded
<1>5. Bounded'
  <2>1. \A a \in Peers : Clock(a)' = Clock(a) /\ Clock(a) \in Nat
    BY <1>1, <1>3, ClockType DEF Clock, TypeOK
  <2> QED
    BY <2>1, <1>1, <1>3, <1>4 DEF Bounded
<1>6. ASSUME NEW a \in Peers, NEW b \in Peers, NEW j \in KeysSent,
             Open(a, b, j)'
      PROVE  Open(a, b, j) /\ (InTransit(a, b, j) => Served(a, b, j)')
  <2>1. j.src \in Peers /\ Timestamp(j) \in Nat /\ Timestamp(j)' = Timestamp(j)
    BY <1>1, <1>3, SentType DEF Timestamp
  <2>2. mesh[a][b] > 0
        /\ (a = j.src \/ suspended'[a][b][j.src] - Skew[a] <= Timestamp(j) - Skew[j.src])
    BY <2>1, <1>3, <1>6 DEF Open
  <2>3. suspended[a][b][j.src] <= suspended'[a][b][j.src]
    <3>1. suspended[a][b][j.src] \in Nat
          /\ suspended[a][b][j.src] <= Clock(a) + SuspensionDuration
      BY <2>1, <1>4
    <3>2. \/ suspended'[a][b][j.src] = suspended[a][b][j.src]
          \/ suspended'[a][b][j.src] = Clock(a) + SuspensionDuration
      BY <2>1, <1>3
    <3> QED
      BY <3>1, <3>2
  <2>4. Open(a, b, j)
    <3>1. /\ suspended[a][b][j.src] \in Nat /\ Skew[a] \in Nat /\ Skew[j.src] \in Nat
          /\ Clock(a) + SuspensionDuration \in Nat
      <4>1. Clock(a) \in Nat
        BY <1>1, ClockType DEF TypeOK
      <4> QED
        BY <4>1, <2>1, <1>1, <1>4, RoutingAssumption
    <3>2. suspended'[a][b][j.src] \in Nat
      BY <2>1, <3>1, <1>3
    <3>3. suspended'[a][b][j.src] - Skew[a] <= Timestamp(j) - Skew[j.src]
          => suspended[a][b][j.src] - Skew[a] <= Timestamp(j) - Skew[j.src]
      BY <2>1, <2>3, <3>1, <3>2
    <3> QED
      BY <2>2, <3>3 DEF Open
  <2> QED
    BY <2>4, <1>3 DEF InTransit, Served
<1>7. UNCHANGED <<sent, count>> /\ now <= now'
  BY <1>1, <1>3
<1>8. \A a \in Peers, j \in Keys : seen'[a][j] # None => seen[a][j] # None
  BY <1>3
<1>9. \A a, b \in Peers : Carried(chan', a, b) \subseteq Carried(chan, a, b)
  BY <1>3 DEF Carried
<1> QED
  BY <1>5, <1>6, <1>7, <1>8, <1>9, SpreadKept

LEMMA SpreadNext ==
    ASSUME Cardinality(Peers) <= Ttl + 1, Flow, Spread, NobodySkipped, [Next]_vars
    PROVE  Spread' /\ NobodySkipped'
<1>1. Flow' /\ TypeOK'
  BY FlowNext DEF Flow
<1>2. CASE \E p \in Peers, reliable \in BOOLEAN : Send(p, reliable)
  BY <1>2, SpreadSend
<1>3. CASE \E p, q \in Peers : Process(p, q)
  BY <1>1, <1>3, SpreadProcess
<1>4. CASE \E p, q \in Peers : Discard(p, q)
  BY <1>1, <1>4, SpreadDiscard
<1>5. CASE \E p, q \in Peers : Tick \/ Expire(p) \/ Dispose(p) \/ Link(p, q)
  BY <1>1, <1>5, SpreadQuiet
<1>6. CASE \E p, q \in Peers : Break(p, q) \/ Drop(p, q) \/ PeerLeft(p, q)
  BY <1>1, <1>6, SpreadCut
<1>7. CASE \E p, q \in Peers, sources \in SUBSET Peers : Suspend(p, q, sources)
  BY <1>1, <1>7, SpreadSuspend
<1>8. CASE UNCHANGED vars
  <2>1. UNCHANGED <<now, mesh, chan, sent, seen, suspended, count>>
    BY <1>8 DEF vars
  <2>2. Named' /\ StoredEmitted' /\ Bounded'
    BY <2>1 DEF Spread, Named, StoredEmitted, Bounded, Carried, IsReliable, Holds, Clock
  <2>3. NobodySkipped'
    BY <2>1 DEF NobodySkipped, KeysSent, IsReliable, Fresh, Clock, Timestamp, Lasting, Open,
                Holds, InTransit
  <2> QED
    BY <2>2, <2>3 DEF Spread
<1>9. CASE Tick
  <2>1. CASE Peers = {}
    <3>1. KeysSent' = {}
      BY <2>1 DEF KeysSent, Keys
    <3> QED
      BY <2>1, <3>1 DEF Spread, Named, StoredEmitted, Bounded, NobodySkipped
  <2> QED
    BY <2>1, <1>5, <1>9
<1> QED
  BY <1>2, <1>3, <1>4, <1>5, <1>6, <1>7, <1>8, <1>9 DEF Next, Receive

-----------------------------------------------------------------------------
(* The theorems                                                            *)

(* With a ttl no less than the number of peers less one, the flood skips   *)
(* nobody (NobodySkipped), for every mesh, skew and bound, whatever breaks,*)
(* is suspended, expires or leaves elsewhere: the ttl is only used up when *)
(* receivedBy names everybody, receivedBy only names peers that have the   *)
(* packet, and a copy is only discarded by a peer that has it.             *)
THEOREM NobodySkippedCorrect ==
    ASSUME Cardinality(Peers) <= Ttl + 1
    PROVE  Spec => []NobodySkipped
<1>1. Init => Flow /\ Spread /\ NobodySkipped
  BY FlowInit, SpreadInit
<1>2. (Flow /\ Spread /\ NobodySkipped) /\ [Next]_vars => (Flow /\ Spread /\ NobodySkipped)'
  BY FlowNext, SpreadNext
<1> QED
  BY <1>1, <1>2, PTL DEF Spec

(* The connections that last and are open for k join every peer to the     *)
(* source: one of them leads out of every set the source is in.            *)
Joined(k) ==
    \A S \in SUBSET Peers :
        k.src \in S /\ S # Peers =>
            \E p \in S, q \in Peers \ S : Lasting(p, q) /\ Open(p, q, k)

(* When no copy of a reliable message that is still fresh is in flight any *)
(* more, and what lasts and is open joins every peer to the source, each   *)
(* of them has emitted it, no more often than the clocks allow.            *)
ReachedWhenSettled ==
    \A k \in KeysSent :
        /\ IsReliable(k) /\ Fresh(k) /\ Joined(k)
        /\ \A p, q \in Peers : ~InTransit(p, q, k)
        => \A p \in Peers \ {k.src} :
              count[p][k] > 0 /\ count[p][k] <= Emissions(p, k.src)

(* With a ttl no less than the number of peers less one, a flood that has  *)
(* settled has reached everybody (ReachedWhenSettled): the peers that hold *)
(* the message are closed under the connections that are open.             *)
THEOREM ReachedCorrect ==
    ASSUME Cardinality(Peers) <= Ttl + 1
    PROVE  Spec => []ReachedWhenSettled
<1>1. NobodySkipped /\ Limited /\ TypeOK => ReachedWhenSettled
  <2>a. SUFFICES ASSUME NobodySkipped, Limited, TypeOK,
                        NEW k \in KeysSent, IsReliable(k), Fresh(k), Joined(k),
                        \A p, q \in Peers : ~InTransit(p, q, k),
                        NEW r \in Peers, r # k.src
                 PROVE  count[r][k] > 0 /\ count[r][k] <= Emissions(r, k.src)
    BY DEF ReachedWhenSettled
  <2> DEFINE S == {p \in Peers : Holds(p, k)}
  <2>1. k.src \in S
    BY <2>a, SentType DEF Holds
  <2>2. ASSUME NEW p \in S, NEW q \in Peers \ S, Lasting(p, q), Open(p, q, k)
        PROVE  FALSE
    BY <2>a, <2>2 DEF NobodySkipped
  <2>3. S = Peers
    <3>1. S \in SUBSET Peers
      OBVIOUS
    <3> HIDE DEF S
    <3> QED
      BY <2>a, <2>1, <2>2, <3>1 DEF Joined
  <2>4. count[r][k] > 0
    BY <2>a, <2>3 DEF Holds
  <2> QED
    BY <2>a, <2>4 DEF Limited
<1> QED
  BY <1>1, NobodySkippedCorrect, LimitedCorrect, TypeCorrect, PTL

(* Nobody is skipped in RelaySuspension either, where the suspensions are  *)
(* those that peers ask each other for.                                    *)
THEOREM NobodySkippedRelayed ==
    ASSUME Cardinality(Peers) <= Ttl + 1
    PROVE  SuspensionSpec => []NobodySkipped
BY NobodySkippedCorrect, RoutingImplemented, PTL DEF ImplementsRouting

(* And there too, a flood that has settled has reached everybody.          *)
THEOREM ReachedRelayed ==
    ASSUME Cardinality(Peers) <= Ttl + 1
    PROVE  SuspensionSpec => []ReachedWhenSettled
BY ReachedCorrect, RoutingImplemented, PTL DEF ImplementsRouting

=============================================================================
