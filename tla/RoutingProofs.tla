---------------------------- MODULE RoutingProofs ---------------------------
(***************************************************************************)
(* Theorems about Routing, for every set of peers, mesh and bound.         *)
(***************************************************************************)
EXTENDS Routing, SequenceTheorems, FiniteSetTheorems, TLAPS

-----------------------------------------------------------------------------
(* Lemmas about the operators                                              *)

(* A key names a peer and one of the packets that peer may send.           *)
LEMMA KeysType ==
    ASSUME NEW k \in Keys
    PROVE  /\ k.src \in Peers /\ k.seq \in Nat /\ k.seq \in 1..MaxSeq[k.src]
           /\ MaxSeq[k.src] > 0
           /\ k = [src |-> k.src, seq |-> k.seq]
<1>1. PICK p \in Peers : k \in [src : {p}, seq : 1..MaxSeq[p]]
  BY DEF Keys
<1>2. MaxSeq[p] \in Nat
  BY RoutingAssumption
<1> QED
  BY <1>1, <1>2

(* The clock of a peer is a time.                                          *)
LEMMA ClockType ==
    ASSUME now \in 0..MaxNow, NEW p \in Peers
    PROVE  Clock(p) \in Nat
<1>1. now \in Nat
  BY RoutingAssumption
<1>2. Skew[p] \in Nat
  BY RoutingAssumption
<1> QED
  BY <1>1, <1>2 DEF Clock

(* The packet a peer sends next has a key, as long as its bound allows.    *)
LEMMA NextKey ==
    ASSUME NEW p \in Peers, NEW n \in Nat, n > 0, n <= MaxSeq[p]
    PROVE  [src |-> p, seq |-> n] \in Keys
<1>1. n \in 1..MaxSeq[p]
  BY RoutingAssumption
<1>2. [src |-> p, seq |-> n] \in [src : {p}, seq : 1..MaxSeq[p]]
  BY <1>1
<1> QED
  BY <1>2 DEF Keys

(* The copies of a packet for one peer are a sequence of that packet.      *)
LEMMA CopiesType ==
    ASSUME NEW S, NEW s \in S, NEW n \in Nat
    PROVE  /\ [i \in 1..n |-> s] \in Seq(S)
           /\ Len([i \in 1..n |-> s]) = n
<1>1. [i \in 1..n |-> s] \in [1..n -> S]
  OBVIOUS
<1> QED
  BY <1>1

(* The packets on a channel.                                               *)
Channels == [Peers -> [Peers -> Seq(Packets)]]
Carried(channels, a, b) == {channels[a][b][i] : i \in 1..Len(channels[a][b])}

(* m is a copy of a packet that peer p sends to peer b.                    *)
IsCopy(m, packet, p, b, optimistic) ==
    /\ m.key = packet.key /\ m.hops = packet.hops
    /\ b \notin packet.receivedBy \cup {p}
    /\ packet.receivedBy \cup {p} \subseteq m.receivedBy
    /\ b \in m.receivedBy <=> optimistic
    /\ ~optimistic => m.receivedBy = packet.receivedBy \cup {p}

(* A set that gained an element is larger.                                 *)
LEMMA CardinalityGrows ==
    ASSUME NEW T, IsFiniteSet(T), NEW S, NEW x, x \notin S, S \cup {x} \subseteq T
    PROVE  /\ Cardinality(S) \in Nat /\ Cardinality(T) \in Nat
           /\ Cardinality(S) + 1 <= Cardinality(T)
<1>1. IsFiniteSet(S) /\ IsFiniteSet(S \cup {x})
  BY FS_Subset
<1>2. Cardinality(S \cup {x}) = Cardinality(S) + 1
  BY <1>1, FS_AddElement
<1>3. Cardinality(S \cup {x}) <= Cardinality(T)
  BY FS_Subset
<1> QED
  BY <1>1, <1>2, <1>3, FS_CardinalityType

LEMMA CarriedType ==
    ASSUME NEW channels \in Channels, NEW a \in Peers, NEW b \in Peers,
           NEW m \in Carried(channels, a, b)
    PROVE  m \in Packets
<1>1. channels[a][b] \in Seq(Packets)
  BY DEF Channels
<1> QED
  BY <1>1, ElementOfSeq DEF Carried

(* Appending copies of a packet to a channel adds nothing else to it.      *)
LEMMA CarriedConcat ==
    ASSUME NEW S, NEW old \in Seq(S), NEW s \in S, NEW n \in Nat
    PROVE  /\ old \o [i \in 1..n |-> s] \in Seq(S)
           /\ \A i \in 1..Len(old \o [j \in 1..n |-> s]) :
                 \/ \E j \in 1..Len(old) : (old \o [l \in 1..n |-> s])[i] = old[j]
                 \/ (old \o [l \in 1..n |-> s])[i] = s
<1> DEFINE copies == [i \in 1..n |-> s]
<1>1. copies \in Seq(S) /\ Len(copies) = n /\ \A i \in 1..n : copies[i] = s
  BY CopiesType
<1> HIDE DEF copies
<1>2. old \o copies \in Seq(S)
      /\ Len(old \o copies) = Len(old) + Len(copies)
      /\ \A i \in 1..(Len(old) + Len(copies)) :
            (old \o copies)[i] = IF i <= Len(old) THEN old[i] ELSE copies[i - Len(old)]
  BY <1>1, ConcatProperties
<1>3. ASSUME NEW i \in 1..Len(old \o copies)
      PROVE  \/ \E j \in 1..Len(old) : (old \o copies)[i] = old[j]
             \/ (old \o copies)[i] = s
  <2>1. Len(old) \in Nat /\ Len(copies) \in Nat
    BY <1>1, LenProperties
  <2>2. CASE i <= Len(old)
    BY <2>1, <2>2, <1>2
  <2>3. CASE ~(i <= Len(old))
    <3>1. i - Len(old) \in 1..n
      BY <2>1, <2>3, <1>1, <1>2
    <3> QED
      BY <2>1, <2>3, <3>1, <1>1, <1>2
  <2> QED
    BY <2>2, <2>3
<1> QED
  BY <1>2, <1>3 DEF copies

(* What sendPacket adds to the channels: copies of the packet, from the    *)
(* sender to peers that are not in receivedBy.                             *)
LEMMA SendPacketAdds ==
    ASSUME NEW channels \in Channels, mesh \in [Peers -> [Peers -> 0..2]],
           NEW p \in Peers, NEW packet \in Packets, NEW optimistic, NEW closed,
           NEW result, result = SendPacket(channels, p, packet, optimistic, closed)
    PROVE  /\ result \in Channels
           /\ \A a, b \in Peers : \A m \in Carried(result, a, b) :
                 m \in Carried(channels, a, b) \/ (a = p /\ IsCopy(m, packet, p, b, optimistic))
<1> DEFINE own == [packet EXCEPT !.receivedBy = @ \cup {p}]
           targets == Targets(p, own)
           out == [own EXCEPT !.receivedBy = IF optimistic THEN @ \cup targets ELSE @]
           served == targets \ closed
<1>1. own \in Packets /\ own.receivedBy = packet.receivedBy \cup {p}
      /\ own.key = packet.key /\ own.hops = packet.hops
  BY DEF Packets
<1>2. targets \subseteq Peers /\ \A b \in targets : b \notin own.receivedBy
  BY DEF Targets
<1>3. /\ out \in Packets /\ out.key = packet.key /\ out.hops = packet.hops
      /\ own.receivedBy \subseteq out.receivedBy
      /\ optimistic => targets \subseteq out.receivedBy
      /\ ~optimistic => out.receivedBy = own.receivedBy
  <2> HIDE DEF own, targets
  <2> QED
    BY <1>1, <1>2 DEF Packets
<1>4. result = [channels EXCEPT ![p] =
                  [b \in Peers |-> IF b \in served
                                   THEN @[b] \o [i \in 1..mesh[p][b] |-> out]
                                   ELSE @[b]]]
  BY DEF SendPacket
<1>5. \A b \in served : IsCopy(out, packet, p, b, optimistic)
  <2> HIDE DEF own, targets, out
  <2>1. CASE optimistic
    BY <2>1, <1>1, <1>2, <1>3 DEF IsCopy
  <2>2. CASE ~optimistic
    BY <2>2, <1>1, <1>2, <1>3 DEF IsCopy
  <2> QED
    BY <2>1, <2>2
<1> HIDE DEF own, targets, out, served
<1>6. \A a, b \in Peers :
         result[a][b] = IF a = p /\ b \in served
                        THEN channels[a][b] \o [i \in 1..mesh[p][b] |-> out]
                        ELSE channels[a][b]
  BY <1>4 DEF Channels
<1>7. \A b \in Peers : mesh[p][b] \in Nat /\ channels[p][b] \in Seq(Packets)
  <2>1. mesh \in [Peers -> [Peers -> 0..2]] /\ channels \in [Peers -> [Peers -> Seq(Packets)]]
    BY DEF Channels
  <2>2. \A b \in Peers : mesh[p][b] \in 0..2 /\ channels[p][b] \in Seq(Packets)
    BY <2>1
  <2> QED
    BY <2>2
<1>8. result \in Channels
  <2>a. out \in Packets
    BY <1>3
  <2>1. \A b \in Peers : channels[p][b] \o [i \in 1..mesh[p][b] |-> out] \in Seq(Packets)
    BY <2>a, <1>7, CarriedConcat
  <2> QED
    BY <1>2, <1>4, <1>7, <2>1 DEF Channels
<1>9. ASSUME NEW a \in Peers, NEW b \in Peers, NEW m \in Carried(result, a, b)
      PROVE  m \in Carried(channels, a, b) \/ (a = p /\ IsCopy(m, packet, p, b, optimistic))
  <2>1. CASE a = p /\ b \in served
    <3>1. result[a][b] = channels[p][b] \o [i \in 1..mesh[p][b] |-> out]
      BY <2>1, <1>6
    <3>2. PICK i \in 1..Len(result[a][b]) : m = result[a][b][i]
      BY DEF Carried
    <3>3. \/ \E j \in 1..Len(channels[p][b]) : m = channels[p][b][j]
          \/ m = out
      BY <3>1, <3>2, <1>3, <1>7, CarriedConcat
    <3> QED
      BY <3>3, <2>1, <1>5 DEF Carried
  <2>2. CASE ~(a = p /\ b \in served)
    BY <2>2, <1>6 DEF Carried
  <2> QED
    BY <2>1, <2>2
<1> QED
  BY <1>8, <1>9

-----------------------------------------------------------------------------
(* The inductive invariant                                                 *)

(* Packets in flight were sent, never head for their source, name their    *)
(* source and their last relay in receivedBy, which grows with every hop,  *)
(* and only name the peer they head for when they are optimistic.          *)
Sound(m, a, b) ==
    /\ m.key \in KeysSent /\ m.key.src # b
    /\ {m.key.src, a} \subseteq m.receivedBy
    /\ b \in m.receivedBy => ~IsReliable(m.key)
    /\ m.hops < Cardinality(m.receivedBy)

InFlight == \A a, b \in Peers : \A m \in Carried(chan, a, b) : Sound(m, a, b)

(* A timestamp is not ahead of the clock it was taken from.                *)
Stamped == \A k \in KeysSent : Timestamp(k) <= Clock(k.src)

(* Only what another peer sent is emitted.                                 *)
Counted ==
    \A p \in Peers, k \in Keys : count[p][k] > 0 => k \in KeysSent /\ k.src # p

Flow == TypeOK /\ InFlight /\ Stamped /\ Counted

(* What is known of a packet that was sent.                                *)
LEMMA SentType ==
    ASSUME TypeOK, NEW k \in KeysSent
    PROVE  /\ k \in Keys /\ k.src \in Peers /\ k.seq \in 1..Len(sent[k.src])
           /\ Timestamp(k) \in Nat /\ IsReliable(k) \in BOOLEAN
<1>1. k \in Keys /\ k.src \in Peers /\ k.seq \in Nat /\ k.seq >= 1
      /\ k.seq <= Len(sent[k.src])
  BY KeysType DEF KeysSent
<1>2. sent[k.src] \in Seq([reliable : BOOLEAN, ts : Nat])
  BY <1>1 DEF TypeOK
<1>3. Len(sent[k.src]) \in Nat
  BY <1>2
<1>4. k.seq \in 1..Len(sent[k.src])
  BY <1>1, <1>3
<1>5. sent[k.src][k.seq] \in [reliable : BOOLEAN, ts : Nat]
  BY <1>2, <1>4, ElementOfSeq
<1> QED
  BY <1>1, <1>4, <1>5 DEF Timestamp, IsReliable

(* The packet that arrives, and the channels without it.                   *)
LEMMA RestType ==
    ASSUME chan \in Channels, NEW p \in Peers, NEW q \in Peers, Arrives(p, q)
    PROVE  /\ Head(chan[q][p]) \in Packets
           /\ Head(chan[q][p]) \in Carried(chan, q, p)
           /\ Rest(p, q) \in Channels
           /\ \A a, b \in Peers : Carried(Rest(p, q), a, b) \subseteq Carried(chan, a, b)
<1>1. chan[q][p] \in Seq(Packets) /\ chan[q][p] # << >>
  BY DEF Arrives, Channels
<1>2. /\ Head(chan[q][p]) \in Packets /\ Head(chan[q][p]) = chan[q][p][1]
      /\ Tail(chan[q][p]) \in Seq(Packets)
      /\ Len(chan[q][p]) \in Nat /\ Len(chan[q][p]) > 0
      /\ Len(Tail(chan[q][p])) = Len(chan[q][p]) - 1
      /\ \A i \in 1..Len(Tail(chan[q][p])) : Tail(chan[q][p])[i] = chan[q][p][i + 1]
  BY <1>1, HeadTailProperties, EmptySeq, LenProperties
<1>3. Rest(p, q) \in Channels
  BY <1>2 DEF Rest, Channels
<1>4. ASSUME NEW a \in Peers, NEW b \in Peers
      PROVE  Carried(Rest(p, q), a, b) \subseteq Carried(chan, a, b)
  <2>1. CASE a = q /\ b = p
    <3>1. Rest(p, q)[a][b] = Tail(chan[q][p])
      BY <2>1 DEF Rest, Channels
    <3>2. ASSUME NEW i \in 1..Len(Tail(chan[q][p]))
          PROVE  Tail(chan[q][p])[i] \in Carried(chan, q, p)
      <4>1. i + 1 \in 1..Len(chan[q][p]) /\ Tail(chan[q][p])[i] = chan[q][p][i + 1]
        BY <1>2
      <4> QED
        BY <4>1 DEF Carried
    <3> QED
      BY <2>1, <3>1, <3>2 DEF Carried
  <2>2. CASE ~(a = q /\ b = p)
    <3>1. Rest(p, q)[a][b] = chan[a][b]
      BY <2>2 DEF Rest, Channels
    <3> QED
      BY <3>1 DEF Carried
  <2> QED
    BY <2>1, <2>2
<1>5. Head(chan[q][p]) \in Carried(chan, q, p)
  <2>1. 1 \in 1..Len(chan[q][p])
    BY <1>2
  <2> QED
    BY <2>1, <1>2 DEF Carried
<1> QED
  BY <1>2, <1>3, <1>4, <1>5

LEMMA FlowInit == Init => Flow
<1> SUFFICES ASSUME Init PROVE Flow
  OBVIOUS
<1>1. TypeOK
  <2>1. mesh \in [Peers -> [Peers -> 0..2]] /\ now \in 0..MaxNow
    BY RoutingAssumption DEF Init
  <2> QED
    BY <2>1, EmptySeq DEF Init, TypeOK
<1>2. KeysSent = {}
  BY KeysType, EmptySeq DEF Init, KeysSent
<1>3. InFlight
  BY EmptySeq DEF Init, InFlight, Carried
<1>4. Counted
  BY DEF Init, Counted
<1> QED
  BY <1>1, <1>2, <1>3, <1>4 DEF Flow, Stamped

(* Everything but Send and Tick keeps `now' and `sent'; unless it sends a  *)
(* packet, it is enough to look at the types.                              *)
LEMMA FlowKept ==
    ASSUME Flow, TypeOK', UNCHANGED <<now, sent>>, count' = count,
           \A a, b \in Peers : Carried(chan', a, b) \subseteq Carried(chan, a, b)
    PROVE  Flow'
<1>1. KeysSent' = KeysSent
  BY DEF KeysSent
<1>2. Stamped'
  BY <1>1 DEF Flow, Stamped, Timestamp, Clock
<1>3. Counted'
  BY <1>1 DEF Flow, Counted
<1>4. InFlight'
  BY <1>1 DEF Flow, InFlight, Sound, IsReliable
<1> QED
  BY <1>2, <1>3, <1>4 DEF Flow

(* A sent packet stays as it is when the sender sends another one.         *)
LEMMA SentKept ==
    ASSUME TypeOK, NEW p \in Peers, NEW reliable \in BOOLEAN, Send(p, reliable),
           NEW new, new = [src |-> p, seq |-> Len(sent[p]) + 1]
    PROVE  /\ sent' \in [Peers -> Seq([reliable : BOOLEAN, ts : Nat])]
           /\ new \in Keys /\ new \notin KeysSent
           /\ KeysSent' = KeysSent \cup {new}
           /\ Timestamp(new)' = Clock(p) /\ IsReliable(new)' = reliable
           /\ \A k \in KeysSent : Timestamp(k)' = Timestamp(k)
                                  /\ IsReliable(k)' = IsReliable(k)
<1> DEFINE R == [reliable : BOOLEAN, ts : Nat]
           r == [reliable |-> reliable, ts |-> Clock(p)]
<1>1. sent \in [Peers -> Seq(R)] /\ now \in Nat /\ Skew[p] \in Nat
  BY RoutingAssumption DEF TypeOK
<1>2. r \in R /\ Clock(p) \in Nat
  BY <1>1 DEF Clock
<1>3. sent' = [sent EXCEPT ![p] = Append(sent[p], r)]
  BY <1>1 DEF Send
<1> HIDE DEF R
<1>4. sent[p] \in Seq(R) /\ Len(sent[p]) \in Nat
  BY <1>1, LenProperties
<1>5. /\ Append(sent[p], r) \in Seq(R)
      /\ Len(Append(sent[p], r)) = Len(sent[p]) + 1
      /\ \A i \in 1..Len(sent[p]) : Append(sent[p], r)[i] = sent[p][i]
      /\ Append(sent[p], r)[Len(sent[p]) + 1] = r
  BY <1>2, <1>4, AppendProperties
<1>6. sent' \in [Peers -> Seq(R)]
  BY <1>1, <1>3, <1>5
<1>7. new \in Keys
  <2>1. Len(sent[p]) + 1 <= MaxSeq[p]
    BY DEF Send
  <2> QED
    BY <2>1, <1>4, NextKey
<1>8. new \notin KeysSent
  BY <1>4 DEF KeysSent
<1>9. \A k \in Keys : k.src = p => sent'[k.src] = Append(sent[p], r)
  BY KeysType, <1>1, <1>3
<1>10. \A k \in Keys : k.src # p => sent'[k.src] = sent[k.src]
  BY KeysType, <1>1, <1>3
<1>11. ASSUME NEW k \in Keys
       PROVE  k.seq <= Len(sent'[k.src]) <=> k.seq <= Len(sent[k.src]) \/ k = new
  <2>1. CASE k.src = p
    <3>1. k.seq \in Nat /\ k = [src |-> p, seq |-> k.seq]
      BY <2>1, KeysType
    <3>2. Len(sent'[k.src]) = Len(sent[p]) + 1
      BY <2>1, <1>5, <1>9
    <3>3. k = new <=> k.seq = Len(sent[p]) + 1
      BY <3>1
    <3> QED
      BY <2>1, <3>1, <3>2, <3>3, <1>4
  <2>2. CASE k.src # p
    BY <2>2, <1>10
  <2> QED
    BY <2>1, <2>2
<1>12. KeysSent' = KeysSent \cup {new}
  BY <1>7, <1>11 DEF KeysSent
<1>13. Timestamp(new)' = Clock(p) /\ IsReliable(new)' = reliable
  BY <1>1, <1>3, <1>5 DEF Timestamp, IsReliable
<1>14. ASSUME NEW k \in KeysSent
       PROVE  sent'[k.src][k.seq] = sent[k.src][k.seq]
  <2>1. k \in Keys /\ k.seq \in 1..Len(sent[k.src])
    BY SentType
  <2> QED
    BY <2>1, <1>5, <1>9, <1>10
<1>15. \A k \in KeysSent : Timestamp(k)' = Timestamp(k)
                           /\ IsReliable(k)' = IsReliable(k)
  BY <1>14 DEF Timestamp, IsReliable
<1> QED
  BY <1>6, <1>7, <1>8, <1>12, <1>13, <1>15 DEF R

LEMMA FlowSend ==
    ASSUME Flow, NEW p \in Peers, NEW reliable \in BOOLEAN, Send(p, reliable)
    PROVE  Flow'
<1>a. SUFFICES ASSUME NEW new, new = [src |-> p, seq |-> Len(sent[p]) + 1],
                      NEW packet, packet = [key |-> new, hops |-> 0, receivedBy |-> {}],
                      NEW optimistic, optimistic = ~reliable
               PROVE  Flow'
  OBVIOUS
<1>1. TypeOK /\ InFlight /\ Stamped /\ Counted
  BY DEF Flow
<1>2. /\ sent' \in [Peers -> Seq([reliable : BOOLEAN, ts : Nat])]
      /\ new \in Keys /\ new \notin KeysSent
      /\ KeysSent' = KeysSent \cup {new}
      /\ Timestamp(new)' = Clock(p)
      /\ \A k \in KeysSent : Timestamp(k)' = Timestamp(k)
      /\ \A k \in KeysSent : IsReliable(k)' = IsReliable(k)
  BY <1>a, <1>1, SentKept
<1>3. new.src = p
  BY <1>a
<1>4. packet \in Packets /\ packet.key = new /\ packet.hops = 0
  BY <1>a, <1>2 DEF Packets
<1>5. chan \in Channels /\ mesh \in [Peers -> [Peers -> 0..2]]
  BY <1>1, Zenon DEF TypeOK, Channels
<1>6. /\ chan' \in Channels
      /\ \A a, b \in Peers : \A m \in Carried(chan', a, b) :
            m \in Carried(chan, a, b) \/ (a = p /\ IsCopy(m, packet, p, b, optimistic))
  <2>1. PICK closed : chan' = SendPacket(chan, p, packet, optimistic, closed)
    BY <1>a, Zenon DEF Send
  <2> QED
    BY <2>1, <1>4, <1>5, SendPacketAdds
<1>7. TypeOK'
  <2>1. chan' \in [Peers -> [Peers -> Seq(Packets)]]
    BY <1>6 DEF Channels
  <2> QED
    BY <1>1, <1>2, <2>1 DEF TypeOK, Send
<1>8. InFlight'
  <2>1. ASSUME NEW a \in Peers, NEW b \in Peers, NEW m \in Carried(chan', a, b)
        PROVE  Sound(m, a, b)'
    <3>1. CASE m \in Carried(chan, a, b)
      BY <3>1, <1>1, <1>2 DEF InFlight, Sound
    <3>2. CASE a = p /\ IsCopy(m, packet, p, b, optimistic)
      <4>1. m \in Packets
        BY <1>6, CarriedType
      <4>2. m.hops < Cardinality(m.receivedBy)
        <5>1. m.receivedBy \subseteq Peers /\ p \in m.receivedBy /\ m.hops = 0
          BY <3>2, <4>1, <1>4 DEF IsCopy, Packets
        <5>2. IsFiniteSet(m.receivedBy)
          BY <5>1, RoutingAssumption, FS_Subset
        <5>3. Cardinality({}) + 1 <= Cardinality(m.receivedBy)
          BY <5>1, <5>2, CardinalityGrows
        <5> QED
          BY <5>1, <5>2, <5>3, FS_CardinalityType, FS_EmptySet
      <4>3. b \in m.receivedBy => ~reliable
        BY <3>2, <1>a DEF IsCopy
      <4>4. m.key = new /\ IsReliable(new)' = reliable
        BY <3>2, <1>4, <1>a, <1>1, SentKept DEF IsCopy
      <4>5. IsReliable(m.key)' = reliable
        BY <4>4, Zenon DEF IsReliable
      <4> QED
        BY <3>2, <1>2, <1>3, <1>4, <4>2, <4>3, <4>5 DEF IsCopy, Sound
    <3> QED
      BY <3>1, <3>2, <1>6
  <2> QED
    BY <2>1 DEF InFlight
<1>9. Stamped'
  <2>1. \A k \in Peers : Clock(k)' = Clock(k)
    BY DEF Send, Clock
  <2>2. Clock(p) \in Nat
    BY <1>1, ClockType DEF TypeOK
  <2>3. \A k \in KeysSent : k.src \in Peers
    BY <1>1, SentType
  <2> QED
    BY <1>1, <1>2, <1>3, <2>1, <2>2, <2>3 DEF Stamped
<1>10. Counted'
  BY <1>1, <1>2 DEF Send, Counted
<1> QED
  BY <1>7, <1>8, <1>9, <1>10 DEF Flow

LEMMA FlowProcess ==
    ASSUME Flow, NEW p \in Peers, NEW q \in Peers, Process(p, q)
    PROVE  Flow'
<1>a. SUFFICES ASSUME NEW packet, packet = Head(chan[q][p]),
                      NEW k, k = packet.key,
                      NEW relayed, relayed = [packet EXCEPT !.hops = @ + 1],
                      NEW rest, rest = Rest(p, q),
                      NEW optimistic, optimistic = ~IsReliable(k)
               PROVE  Flow'
  OBVIOUS
<1>1. TypeOK /\ InFlight /\ Stamped /\ Counted /\ Arrives(p, q)
  BY DEF Flow, Process
<1>2. /\ chan \in Channels /\ mesh \in [Peers -> [Peers -> 0..2]]
      /\ seen \in [Peers -> [Keys -> Nat \cup {None}]]
      /\ last \in [Peers -> [Peers -> [ts : Nat, seq : Nat] \cup {None}]]
      /\ count \in [Peers -> [Keys -> Nat]]
  BY <1>1, Zenon DEF TypeOK, Channels
<1>3. /\ packet \in Packets /\ packet \in Carried(chan, q, p)
      /\ rest \in Channels
      /\ \A a, b \in Peers : Carried(rest, a, b) \subseteq Carried(chan, a, b)
  BY <1>a, <1>1, <1>2, RestType, Zenon
<1>4. /\ k \in KeysSent /\ k.src # p /\ k.src \in packet.receivedBy
      /\ p \in packet.receivedBy => optimistic
      /\ packet.hops < Cardinality(packet.receivedBy)
  BY <1>a, <1>1, <1>3 DEF InFlight, Sound
<1>5. /\ k \in Keys /\ k.src \in Peers /\ k.seq \in Nat /\ Timestamp(k) \in Nat
  BY <1>1, <1>4, SentType, KeysType
<1>6. relayed \in Packets /\ relayed.key = k /\ relayed.receivedBy = packet.receivedBy
      /\ relayed.hops = packet.hops + 1
  BY <1>a, <1>3 DEF Packets
<1>7. /\ Store(p, k) /\ UNCHANGED <<now, mesh, sent, suspended, disposed>>
      /\ last' = [last EXCEPT ![p][k.src] = Newest(@, k)]
      /\ count' = [count EXCEPT ![p][k] = @ + 1]
  BY <1>a DEF Process
<1>8. Clock(p) \in Nat
  BY <1>1, ClockType DEF TypeOK
<1>9. /\ chan' \in Channels
      /\ \A a, b \in Peers : \A m \in Carried(chan', a, b) :
            m \in Carried(chan, a, b) \/ (a = p /\ IsCopy(m, relayed, p, b, optimistic))
  <2>1. IF relayed.hops < Ttl
        THEN \E closed \in SUBSET MayBeClosed(p) :
                chan' = SendPacket(rest, p, relayed, ~IsReliable(k), closed)
        ELSE chan' = rest
    BY <1>a DEF Process
  <2>2. CASE relayed.hops < Ttl
    <3>1. PICK closed : chan' = SendPacket(rest, p, relayed, optimistic, closed)
      BY <1>a, <2>1, <2>2, Zenon
    <3>2. /\ chan' \in Channels
          /\ \A a, b \in Peers : \A m \in Carried(chan', a, b) :
                m \in Carried(rest, a, b) \/ (a = p /\ IsCopy(m, relayed, p, b, optimistic))
      <4>1. /\ rest \in Channels /\ relayed \in Packets
            /\ mesh \in [Peers -> [Peers -> 0..2]]
        BY <1>2, <1>3, <1>6
      <4> QED
        BY <3>1, <4>1, SendPacketAdds
    <3> QED
      BY <3>2, <1>3
  <2>3. CASE ~(relayed.hops < Ttl)
    BY <2>1, <2>3, <1>3
  <2> QED
    BY <2>2, <2>3
<1>10. TypeOK'
  <2>1. seen' \in [Peers -> [Keys -> Nat \cup {None}]]
    BY <1>2, <1>5, <1>7, <1>8 DEF Store
  <2>2. last' \in [Peers -> [Peers -> [ts : Nat, seq : Nat] \cup {None}]]
    <3>1. Newest(last[p][k.src], k) \in [ts : Nat, seq : Nat]
      BY <1>2, <1>5 DEF Newest, Larger
    <3>2. last' = [last EXCEPT ![p][k.src] = Newest(last[p][k.src], k)]
      BY <1>7, <1>2
    <3> QED
      BY <3>1, <3>2, <1>2, <1>5
  <2>3. count' \in [Peers -> [Keys -> Nat]]
    BY <1>2, <1>5, <1>7
  <2>4. chan' \in [Peers -> [Peers -> Seq(Packets)]]
    BY <1>9 DEF Channels
  <2> QED
    BY <2>1, <2>2, <2>3, <2>4, <1>1, <1>7 DEF TypeOK
<1>11. KeysSent' = KeysSent
  BY <1>7 DEF KeysSent
<1>12. InFlight'
  <2>1. ASSUME NEW a \in Peers, NEW b \in Peers, NEW m \in Carried(chan', a, b)
        PROVE  Sound(m, a, b)'
    <3>1. CASE m \in Carried(chan, a, b)
      BY <3>1, <1>1, <1>7, <1>11 DEF InFlight, Sound, IsReliable
    <3>2. CASE a = p /\ IsCopy(m, relayed, p, b, optimistic)
      <4>1. m \in Packets
        BY <1>9, CarriedType
      <4>2. m.hops < Cardinality(m.receivedBy)
        <5>1. /\ m.receivedBy \subseteq Peers /\ m.hops = packet.hops + 1
              /\ packet.hops \in Nat /\ packet.receivedBy \cup {p} \subseteq m.receivedBy
              /\ b \notin packet.receivedBy
          BY <3>2, <4>1, <1>3, <1>6 DEF IsCopy, Packets
        <5>2. IsFiniteSet(m.receivedBy)
          BY <5>1, RoutingAssumption, FS_Subset
        <5>3. PICK x : x \notin packet.receivedBy /\ packet.receivedBy \cup {x} \subseteq m.receivedBy
          <6>1. CASE p \in packet.receivedBy
            BY <6>1, <5>1, <3>2, <1>4 DEF IsCopy
          <6>2. CASE p \notin packet.receivedBy
            BY <6>2, <5>1
          <6> QED
            BY <6>1, <6>2
        <5>4. /\ Cardinality(packet.receivedBy) \in Nat /\ Cardinality(m.receivedBy) \in Nat
              /\ Cardinality(packet.receivedBy) + 1 <= Cardinality(m.receivedBy)
          BY <5>2, <5>3, CardinalityGrows
        <5> QED
          BY <5>1, <5>4, <1>4
      <4>3. b \in m.receivedBy => ~IsReliable(k)
        BY <3>2, <1>a DEF IsCopy
      <4>4. IsReliable(m.key)' = IsReliable(k)
        BY <3>2, <1>6, <1>7 DEF IsCopy, IsReliable
      <4> QED
        BY <3>2, <4>2, <4>3, <4>4, <1>4, <1>6, <1>11 DEF IsCopy, Sound
    <3> QED
      BY <3>1, <3>2, <1>9
  <2> QED
    BY <2>1 DEF InFlight
<1>13. Stamped'
  BY <1>1, <1>7, <1>11 DEF Stamped, Timestamp, Clock
<1>14. Counted'
  BY <1>1, <1>2, <1>4, <1>5, <1>7, <1>11 DEF Counted
<1> QED
  BY <1>10, <1>12, <1>13, <1>14 DEF Flow

(* A connection that breaks loses what is in flight and nothing else.      *)
LEMMA CutType ==
    ASSUME chan \in Channels, NEW p \in Peers, NEW q \in Peers,
           chan' = [chan EXCEPT ![q][p] = << >>]
    PROVE  /\ chan' \in Channels
           /\ \A a, b \in Peers : Carried(chan', a, b) \subseteq Carried(chan, a, b)
<1>1. chan' \in Channels
  BY EmptySeq DEF Channels
<1>2. ASSUME NEW a \in Peers, NEW b \in Peers
      PROVE  Carried(chan', a, b) \subseteq Carried(chan, a, b)
  <2>1. CASE a = q /\ b = p
    <3>1. chan'[a][b] = << >>
      BY <2>1 DEF Channels
    <3> QED
      BY <3>1, EmptySeq DEF Carried
  <2>2. CASE ~(a = q /\ b = p)
    <3>1. chan'[a][b] = chan[a][b]
      BY <2>2 DEF Channels
    <3> QED
      BY <3>1 DEF Carried
  <2> QED
    BY <2>1, <2>2
<1> QED
  BY <1>1, <1>2

LEMMA FlowDiscard ==
    ASSUME Flow, NEW p \in Peers, NEW q \in Peers, Discard(p, q)
    PROVE  Flow'
<1>a. SUFFICES ASSUME NEW k, k = Head(chan[q][p]).key
               PROVE  Flow'
  OBVIOUS
<1>1. TypeOK /\ Arrives(p, q) /\ Store(p, k) /\ chan' = Rest(p, q)
      /\ UNCHANGED <<now, mesh, sent, last, suspended, disposed, count>>
  BY <1>a DEF Flow, Discard
<1>2. chan \in Channels /\ seen \in [Peers -> [Keys -> Nat \cup {None}]]
  BY <1>1, Zenon DEF TypeOK, Channels
<1>3. /\ Head(chan[q][p]) \in Packets /\ chan' \in Channels
      /\ \A a, b \in Peers : Carried(chan', a, b) \subseteq Carried(chan, a, b)
  BY <1>1, <1>2, RestType
<1>4. k \in Keys
  BY <1>a, <1>3 DEF Packets
<1>5. Clock(p) \in Nat
  BY <1>1, ClockType DEF TypeOK
<1>6. seen' \in [Peers -> [Keys -> Nat \cup {None}]]
  BY <1>1, <1>2, <1>4, <1>5 DEF Store
<1>7. TypeOK'
  <2>1. chan' \in [Peers -> [Peers -> Seq(Packets)]]
    BY <1>3, Zenon DEF Channels
  <2> QED
    BY <2>1, <1>1, <1>6 DEF TypeOK
<1> QED
  BY <1>1, <1>3, <1>7, FlowKept

LEMMA FlowTick == ASSUME Flow, Tick PROVE Flow'
<1>1. TypeOK /\ InFlight /\ Stamped /\ Counted
  BY DEF Flow
<1>2. now' = now + 1 /\ now < MaxNow
      /\ UNCHANGED <<mesh, chan, sent, seen, last, suspended, disposed, count>>
  BY DEF Tick
<1>3. TypeOK'
  <2>1. now' \in 0..MaxNow
    BY <1>1, <1>2, RoutingAssumption DEF TypeOK
  <2> QED
    BY <2>1, <1>1, <1>2 DEF TypeOK
<1>4. KeysSent' = KeysSent
  BY <1>2 DEF KeysSent
<1>5. InFlight' /\ Counted'
  BY <1>1, <1>2, <1>4 DEF InFlight, Sound, Carried, Counted, IsReliable
<1>6. Stamped'
  <2>1. ASSUME NEW k \in KeysSent
        PROVE  Timestamp(k) <= now' + Skew[k.src]
    <3>1. Timestamp(k) \in Nat /\ k.src \in Peers /\ Timestamp(k) <= Clock(k.src)
      BY <1>1, SentType DEF Stamped
    <3>2. Skew[k.src] \in Nat /\ now \in Nat
      BY <1>1, <3>1, RoutingAssumption DEF TypeOK
    <3> QED
      BY <3>1, <3>2, <1>2 DEF Clock
  <2> QED
    BY <2>1, <1>2, <1>4 DEF Stamped, Timestamp, Clock
<1> QED
  BY <1>3, <1>5, <1>6 DEF Flow

(* The steps that do to the routing what the rest of the transport does.   *)
LEMMA FlowEnv ==
    ASSUME Flow, NEW p \in Peers, NEW q \in Peers, NEW sources \in SUBSET Peers,
           \/ Link(p, q) \/ Break(p, q) \/ Drop(p, q) \/ PeerLeft(p, q)
           \/ Suspend(p, q, sources) \/ Dispose(p) \/ Expire(p)
    PROVE  Flow'
<1>1. TypeOK
  BY DEF Flow
<1>2. /\ chan \in Channels /\ mesh \in [Peers -> [Peers -> 0..2]]
      /\ seen \in [Peers -> [Keys -> Nat \cup {None}]]
      /\ last \in [Peers -> [Peers -> [ts : Nat, seq : Nat] \cup {None}]]
      /\ suspended \in [Peers -> [Peers -> [Peers -> Nat]]]
      /\ disposed \in [Peers -> BOOLEAN]
  BY <1>1, Zenon DEF TypeOK, Channels
<1>3. CASE Link(p, q)
  <2>1. mesh' \in [Peers -> [Peers -> 0..2]] /\ chan' = chan
    BY <1>2, <1>3 DEF Link
  <2>2. TypeOK'
    BY <1>1, <1>3, <2>1 DEF TypeOK, Link
  <2> QED
    BY <1>3, <2>1, <2>2, FlowKept DEF Link
<1>4. CASE Break(p, q)
  <2>1. /\ chan' \in Channels
        /\ \A a, b \in Peers : Carried(chan', a, b) \subseteq Carried(chan, a, b)
    BY <1>2, <1>4, CutType DEF Break
  <2>2. mesh' \in [Peers -> [Peers -> 0..2]]
        /\ chan' \in [Peers -> [Peers -> Seq(Packets)]]
    BY <1>2, <1>4, <2>1 DEF Break, Channels
  <2>3. TypeOK'
    BY <1>1, <1>4, <2>2 DEF TypeOK, Break
  <2> QED
    BY <1>4, <2>1, <2>3, FlowKept DEF Break
<1>5. ASSUME DisconnectFrom(p, q), last' = last \/ PeerLeft(p, q)
      PROVE  Flow'
  <2>1. /\ chan' \in Channels
        /\ \A a, b \in Peers : Carried(chan', a, b) \subseteq Carried(chan, a, b)
    BY <1>2, <1>5, CutType DEF DisconnectFrom
  <2>2. mesh' \in [Peers -> [Peers -> 0..2]]
        /\ chan' \in [Peers -> [Peers -> Seq(Packets)]]
    BY <1>2, <1>5, <2>1 DEF DisconnectFrom, Channels
  <2>3. last' \in [Peers -> [Peers -> [ts : Nat, seq : Nat] \cup {None}]]
    <3>1. CASE last' = last
      BY <1>2, <3>1
    <3>2. CASE PeerLeft(p, q)
      BY <1>2, <3>2 DEF PeerLeft
    <3> QED
      BY <1>5, <3>1, <3>2
  <2>4. suspended' \in [Peers -> [Peers -> [Peers -> Nat]]]
    BY <1>2, <1>5 DEF DisconnectFrom
  <2>5. TypeOK'
    BY <1>1, <1>5, <2>2, <2>3, <2>4 DEF TypeOK, DisconnectFrom
  <2> QED
    BY <1>5, <2>1, <2>5, FlowKept DEF DisconnectFrom
<1>6. CASE Suspend(p, q, sources)
  <2>1. Clock(p) \in Nat /\ SuspensionDuration \in Nat
    BY <1>1, ClockType, RoutingAssumption DEF TypeOK
  <2>2. suspended' \in [Peers -> [Peers -> [Peers -> Nat]]] /\ chan' = chan
    BY <1>2, <1>6, <2>1 DEF Suspend
  <2>3. TypeOK'
    BY <1>1, <1>6, <2>2 DEF TypeOK, Suspend
  <2> QED
    BY <1>6, <2>2, <2>3, FlowKept DEF Suspend
<1>7. CASE Dispose(p)
  <2>1. disposed' \in [Peers -> BOOLEAN] /\ chan' = chan
    BY <1>2, <1>7 DEF Dispose
  <2>2. TypeOK'
    BY <1>1, <1>7, <2>1 DEF TypeOK, Dispose
  <2> QED
    BY <1>7, <2>1, <2>2, FlowKept DEF Dispose
<1>8. CASE Expire(p)
  <2>1. seen' \in [Peers -> [Keys -> Nat \cup {None}]] /\ chan' = chan
    BY <1>2, <1>8 DEF Expire
  <2>2. TypeOK'
    BY <1>1, <1>8, <2>1 DEF TypeOK, Expire
  <2> QED
    BY <1>8, <2>1, <2>2, FlowKept DEF Expire
<1> QED
  BY <1>3, <1>4, <1>5, <1>6, <1>7, <1>8 DEF Drop, PeerLeft

LEMMA FlowNext == Flow /\ [Next]_vars => Flow'
<1>a. SUFFICES ASSUME Flow, [Next]_vars PROVE Flow'
  OBVIOUS
<1>1. CASE Tick
  BY <1>a, <1>1, FlowTick
<1>2. CASE \E p \in Peers, reliable \in BOOLEAN : Send(p, reliable)
  BY <1>a, <1>2, FlowSend
<1>3. CASE \E p, q \in Peers : Process(p, q)
  BY <1>a, <1>3, FlowProcess
<1>4. CASE \E p, q \in Peers : Discard(p, q)
  BY <1>a, <1>4, FlowDiscard
<1>5. CASE \E p, q \in Peers, sources \in SUBSET Peers :
               \/ Link(p, q) \/ Break(p, q) \/ Drop(p, q) \/ PeerLeft(p, q)
               \/ Suspend(p, q, sources) \/ Dispose(p) \/ Expire(p)
  BY <1>a, <1>5, FlowEnv
<1>6. CASE UNCHANGED vars
  <2>1. TypeOK'
    BY <1>a, <1>6 DEF Flow, TypeOK, vars
  <2> QED
    BY <1>a, <1>6, <2>1, FlowKept DEF vars
<1> QED
  BY <1>a, <1>1, <1>2, <1>3, <1>4, <1>5, <1>6 DEF Next, Receive

-----------------------------------------------------------------------------
(* Every variable keeps its type, whatever happens to the peers.           *)
THEOREM TypeCorrect == Spec => []TypeOK
<1>1. Flow => TypeOK
  BY DEF Flow
<1> QED
  BY <1>1, FlowInit, FlowNext, PTL DEF Spec

(* A packet never travels in a circle, so that a flood ends even without   *)
(* the ttl: PathsAreSimple follows from the invariant.                     *)
THEOREM PathsCorrect == Spec => []PathsAreSimple
<1>1. Flow => PathsAreSimple
  <2>a. SUFFICES ASSUME Flow, NEW p \in Peers, NEW q \in Peers,
                        NEW i \in 1..Len(chan[p][q]),
                        NEW packet, packet = chan[p][q][i]
                 PROVE  /\ packet.key.src # q
                        /\ {packet.key.src, p} \subseteq packet.receivedBy
                        /\ q \in packet.receivedBy => ~IsReliable(packet.key)
                        /\ packet.hops < Cardinality(packet.receivedBy)
    BY DEF PathsAreSimple
  <2>1. packet \in Carried(chan, p, q)
    BY <2>a DEF Carried
  <2>2. Sound(packet, p, q)
    BY <2>a, <2>1 DEF Flow, InFlight
  <2> QED
    BY <2>2 DEF Sound
<1> QED
  BY <1>1, FlowInit, FlowNext, PTL DEF Spec

-----------------------------------------------------------------------------
(* Reliable messages are emitted no more often than the clocks allow       *)

(* How long ago k was sent.                                                *)
Age(k) == now + Skew[k.src] - Timestamp(k)

(* An entry of receivedPackets is kept for this long.                      *)
Span == ReliableExpiration + 1

(* Only packets that were sent are stored.                                 *)
Stored == \A p \in Peers, k \in Keys : seen[p][k] # None => k \in KeysSent

(* Emissions of a packet are a Span apart: as many Spans have passed since *)
(* it was sent as it was emitted, or one less when the entry was stored    *)
(* again for the last time, if it is still there.  And the last emission   *)
(* came before the packet was too old.                                     *)
Spaced(p, k) ==
    /\ seen[p][k] = None => count[p][k] * Span <= Age(k)
    /\ seen[p][k] # None =>
          /\ count[p][k] > 0 /\ seen[p][k] <= Clock(p)
          /\ count[p][k] * Span <= Span + Age(k) - (Clock(p) - seen[p][k])
    /\ count[p][k] > 0 =>
          count[p][k] * Span <= Span + ReliableExpiration + Skew[k.src] - Skew[p]

AllSpaced == \A p \in Peers, k \in KeysSent : IsReliable(k) => Spaced(p, k)

LEMMA SpanType == Span \in Nat /\ Span = ReliableExpiration + 1 /\ ReliableExpiration \in Nat
BY RoutingAssumption DEF Span

LEMMA Products ==
    ASSUME NEW n \in Nat
    PROVE  /\ n * Span \in Nat /\ (n + 1) * Span = n * Span + Span
           /\ n = 0 => n * Span = 0
BY SpanType

(* What fits into the time that copies are taken is within the limit.      *)
LEMMA WithinEmissions ==
    ASSUME NEW p \in Peers, NEW src \in Peers, NEW n \in Nat,
           n * Span <= ReliableExpiration + Skew[src] - Skew[p]
    PROVE  n < Emissions(p, src)
<1>1. Skew[p] \in Nat /\ Skew[src] \in Nat
  BY RoutingAssumption
<1> DEFINE time == ReliableExpiration + Skew[src] - Skew[p]
<1>2. time \in Int /\ Span \in Nat /\ Span > 0
  BY <1>1, SpanType
<1>3. n <= time \div Span
  <2>1. n * Span <= time
    OBVIOUS
  <2> HIDE DEF time
  <2> QED
    BY <2>1, <1>2, SMTT(60)
<1>4. time \div Span \in Int
  <2> HIDE DEF time
  <2> QED
    BY <1>2
<1>5. Emissions(p, src) = 1 + (time \div Span)
  BY DEF Emissions, Span
<1> QED
  BY <1>3, <1>4, <1>5

LEMMA EmissionsType ==
    ASSUME NEW p \in Peers, NEW src \in Peers
    PROVE  Emissions(p, src) \in Int
<1> DEFINE time == ReliableExpiration + Skew[src] - Skew[p]
<1>1. time \in Int /\ Span \in Nat /\ Span > 0
  BY SpanType, RoutingAssumption
<1>2. time \div Span \in Int
  <2> HIDE DEF time
  <2> QED
    BY <1>1
<1> QED
  BY <1>2 DEF Emissions, Span

(* A peer whose clock is not behind may emit a packet once.                *)
LEMMA OneEmission ==
    ASSUME NEW p \in Peers, NEW src \in Peers, Skew[src] <= Skew[p]
    PROVE  Emissions(p, src) \in Int /\ Emissions(p, src) <= 1
<1>1. Skew[p] \in Nat /\ Skew[src] \in Nat
  BY RoutingAssumption
<1> DEFINE time == ReliableExpiration + Skew[src] - Skew[p]
<1>2. time \in Int /\ Span \in Nat /\ time < Span
  BY <1>1, SpanType
<1>3. time \div Span \in Int /\ time \div Span <= 0
  <2>1. Span > 0
    BY SpanType
  <2> HIDE DEF time
  <2> QED
    BY <1>2, <2>1, SMTT(60)
<1>4. Emissions(p, src) = 1 + (time \div Span)
  BY DEF Emissions, Span
<1> QED
  BY <1>3, <1>4

(* What the invariant says of the limit.                                   *)
LEMMA SpacedLimit ==
    ASSUME TypeOK, AllSpaced, NEW p \in Peers, NEW k \in KeysSent, IsReliable(k)
    PROVE  /\ count[p][k] > 0 => count[p][k] <= Emissions(p, k.src)
           /\ Skew[k.src] <= Skew[p] => count[p][k] <= 1
<1>1. k \in Keys /\ k.src \in Peers /\ count[p][k] \in Nat
  BY SentType DEF TypeOK
<1>2. ASSUME count[p][k] > 0
      PROVE  count[p][k] <= Emissions(p, k.src) /\ Emissions(p, k.src) \in Int
  <2>1. PICK n \in Nat : count[p][k] = n + 1
    <3>1. count[p][k] - 1 \in Nat /\ count[p][k] = (count[p][k] - 1) + 1
      BY <1>1, <1>2
    <3> QED
      BY <3>1
  <2>2. count[p][k] * Span <= Span + ReliableExpiration + Skew[k.src] - Skew[p]
    BY <1>2 DEF AllSpaced, Spaced
  <2>3. n * Span <= ReliableExpiration + Skew[k.src] - Skew[p]
    <3>1. (n + 1) * Span = n * Span + Span /\ n * Span \in Nat
      BY Products
    <3>2. Skew[p] \in Nat /\ Skew[k.src] \in Nat /\ Span \in Nat /\ ReliableExpiration \in Nat
      BY <1>1, SpanType, RoutingAssumption
    <3> QED
      BY <2>1, <2>2, <3>1, <3>2
  <2>4. n < Emissions(p, k.src)
    BY <1>1, <2>3, WithinEmissions
  <2>5. Emissions(p, k.src) \in Int
    BY <1>1, EmissionsType
  <2> QED
    BY <2>1, <2>4, <2>5
<1>3. ASSUME Skew[k.src] <= Skew[p]
      PROVE  count[p][k] <= 1
  <2>1. Emissions(p, k.src) <= 1
    BY <1>1, <1>3, OneEmission
  <2> QED
    BY <1>1, <1>2, <2>1
<1> QED
  BY <1>2, <1>3

LEMMA SpacedInit == Init => Stored /\ AllSpaced
<1>1. ASSUME Init PROVE KeysSent = {}
  BY <1>1, KeysType, EmptySeq DEF Init, KeysSent
<1> QED
  BY <1>1 DEF Init, Stored, AllSpaced

(* The numbers that Spaced speaks of.                                      *)
LEMMA SpacedType ==
    ASSUME Flow, NEW p \in Peers, NEW k \in KeysSent
    PROVE  /\ k \in Keys /\ k.src \in Peers
           /\ count[p][k] \in Nat /\ seen[p][k] \in Nat \cup {None}
           /\ now \in Nat /\ Timestamp(k) \in Nat
           /\ Skew[p] \in Nat /\ Skew[k.src] \in Nat
           /\ Clock(p) = now + Skew[p] /\ Clock(p) \in Nat /\ Clock(p) # None
           /\ Age(k) \in Nat
<1>1. TypeOK /\ Stamped
  BY DEF Flow
<1>2. k \in Keys /\ k.src \in Peers /\ Timestamp(k) \in Nat
  BY <1>1, SentType
<1>3. seen \in [Peers -> [Keys -> Nat \cup {None}]] /\ count \in [Peers -> [Keys -> Nat]]
  BY <1>1, Zenon DEF TypeOK
<1>4. now \in Nat /\ Skew[p] \in Nat /\ Skew[k.src] \in Nat
  BY <1>1, <1>2, RoutingAssumption DEF TypeOK
<1>5. Timestamp(k) <= now + Skew[k.src]
  BY <1>1 DEF Stamped, Clock
<1>6. Clock(p) = now + Skew[p] /\ Clock(p) \in Nat
  BY <1>4 DEF Clock
<1>7. Clock(p) # None
  BY <1>6, RoutingAssumption
<1>8. Age(k) \in Nat
  BY <1>2, <1>4, <1>5 DEF Age
<1> QED
  BY <1>2, <1>3, <1>4, <1>6, <1>7, <1>8

(* Spaced is not disturbed where the entry and the count stay.             *)
LEMMA SpacedKept ==
    ASSUME Flow, NEW p \in Peers, NEW k \in KeysSent, Spaced(p, k),
           now' = now, Timestamp(k)' = Timestamp(k),
           seen'[p][k] = seen[p][k], count'[p][k] = count[p][k]
    PROVE  Spaced(p, k)'
BY DEF Spaced, Age, Clock

LEMMA SpacedSend ==
    ASSUME Flow, Stored /\ AllSpaced, NEW p \in Peers, NEW reliable \in BOOLEAN,
           Send(p, reliable)
    PROVE  Stored' /\ AllSpaced'
<1>a. SUFFICES ASSUME NEW new, new = [src |-> p, seq |-> Len(sent[p]) + 1]
               PROVE  Stored' /\ AllSpaced'
  OBVIOUS
<1>1. TypeOK /\ Counted
  BY DEF Flow
<1>2. /\ new \in Keys /\ new \notin KeysSent /\ new.src = p
      /\ KeysSent' = KeysSent \cup {new}
      /\ Timestamp(new)' = Clock(p)
      /\ \A k \in KeysSent : Timestamp(k)' = Timestamp(k)
      /\ \A k \in KeysSent : IsReliable(k)' = IsReliable(k)
  BY <1>a, <1>1, SentKept
<1>3. UNCHANGED <<now, seen, count>>
  BY DEF Send
<1>4. Stored'
  BY <1>2, <1>3 DEF Stored
<1>5. ASSUME NEW a \in Peers, NEW k \in KeysSent', IsReliable(k)'
      PROVE  Spaced(a, k)'
  <2>1. CASE k = new
    <3>1. count[a][k] = 0
      <4>1. count[a][k] \in Nat /\ ~(count[a][k] > 0)
        BY <2>1, <1>1, <1>2 DEF Counted, TypeOK
      <4> QED
        BY <4>1
    <3>2. seen[a][k] = None
      BY <2>1, <1>2 DEF Stored
    <3>3. count[a][k] * Span = 0
      BY <3>1, Products
    <3>4. Age(k)' = 0
      <4>1. now \in Nat /\ Skew[p] \in Nat
        BY <1>1, RoutingAssumption DEF TypeOK
      <4>2. Age(k)' = now' + Skew[p] - Clock(p)
        BY <2>1, <1>2 DEF Age
      <4> QED
        BY <4>1, <4>2, <1>3 DEF Clock
    <3> QED
      BY <3>1, <3>2, <3>3, <3>4, <1>3 DEF Spaced
  <2>2. CASE k \in KeysSent
    BY <2>2, <1>2, <1>3, <1>5, SpacedKept DEF AllSpaced
  <2> QED
    BY <2>1, <2>2, <1>2
<1> QED
  BY <1>4, <1>5 DEF AllSpaced

LEMMA SpacedProcess ==
    ASSUME Flow, Stored /\ AllSpaced, NEW p \in Peers, NEW q \in Peers, Process(p, q)
    PROVE  /\ Stored' /\ AllSpaced'
           /\ IsReliable(Head(chan[q][p]).key) =>
                 LET k == Head(chan[q][p]).key IN count[p][k] < Emissions(p, k.src)
<1>a. SUFFICES ASSUME NEW k, k = Head(chan[q][p]).key
               PROVE  /\ Stored' /\ AllSpaced'
                      /\ IsReliable(k) => count[p][k] < Emissions(p, k.src)
  OBVIOUS
<1>1. TypeOK /\ InFlight /\ Arrives(p, q)
  BY DEF Flow, Process
<1>2. chan \in Channels /\ count \in [Peers -> [Keys -> Nat]]
      /\ seen \in [Peers -> [Keys -> Nat \cup {None}]]
  BY <1>1, Zenon DEF TypeOK, Channels
<1>3. k \in KeysSent /\ k \in Keys
  BY <1>a, <1>1, <1>2, RestType, SentType DEF InFlight, Sound
<1>4. /\ Store(p, k) /\ UNCHANGED <<now, sent>>
      /\ seen[p][k] = None /\ ~Expired(p, k)
      /\ count' = [count EXCEPT ![p][k] = @ + 1]
  BY <1>a DEF Process
<1>5. KeysSent' = KeysSent
      /\ \A j \in Keys : Timestamp(j)' = Timestamp(j) /\ IsReliable(j)' = IsReliable(j)
  BY <1>4 DEF KeysSent, Timestamp, IsReliable
<1>6. /\ \A a \in Peers, j \in Keys :
            ~(a = p /\ j = k) => seen'[a][j] = seen[a][j] /\ count'[a][j] = count[a][j]
      /\ count'[p][k] = count[p][k] + 1
      /\ IsReliable(k) => seen'[p][k] = Clock(p)
  BY <1>2, <1>3, <1>4 DEF Store
<1>7. Stored'
  BY <1>3, <1>5, <1>6 DEF Stored
<1>8. ASSUME IsReliable(k)
      PROVE  /\ Spaced(p, k)'
             /\ count[p][k] < Emissions(p, k.src)
  <2>1. /\ count[p][k] \in Nat /\ Age(k) \in Nat /\ Timestamp(k) \in Nat
        /\ now \in Nat /\ Skew[p] \in Nat /\ Skew[k.src] \in Nat /\ k.src \in Peers
        /\ Clock(p) = now + Skew[p] /\ Clock(p) \in Nat /\ Clock(p) # None
    BY <1>3, SpacedType
  <2>2. count[p][k] * Span <= Age(k)
    BY <1>3, <1>4, <1>8 DEF AllSpaced, Spaced
  <2>3. Clock(p) - Timestamp(k) <= ReliableExpiration
    BY <1>4, <1>8, <2>1, SpanType DEF Expired, ExpirationTime
  <2>4. /\ count[p][k] * Span \in Nat
        /\ (count[p][k] + 1) * Span = count[p][k] * Span + Span
    BY <2>1, Products
  <2>5. Age(k) = now + Skew[k.src] - Timestamp(k) /\ Age(k)' = Age(k) /\ Clock(p)' = Clock(p)
    BY <1>3, <1>4, <1>5 DEF Age, Clock
  <2>6. count[p][k] * Span <= ReliableExpiration + Skew[k.src] - Skew[p]
    BY <2>1, <2>2, <2>3, <2>4, <2>5, SpanType
  <2>7. count[p][k] < Emissions(p, k.src)
    BY <2>1, <2>6, WithinEmissions
  <2>8. seen'[p][k] = Clock(p) /\ count'[p][k] = count[p][k] + 1
    BY <1>6, <1>8
  <2>9. count'[p][k] * Span <= Span + Age(k)
    BY <2>1, <2>2, <2>4, <2>8, SpanType
  <2>10. count'[p][k] * Span <= Span + ReliableExpiration + Skew[k.src] - Skew[p]
    BY <2>1, <2>4, <2>6, <2>8, SpanType
  <2>11. count'[p][k] > 0 /\ Clock(p)' - seen'[p][k] = 0 /\ seen'[p][k] <= Clock(p)'
    BY <2>1, <2>5, <2>8
  <2>12. Age(k)' - (Clock(p)' - seen'[p][k]) = Age(k)
         /\ Span + Age(k)' - (Clock(p)' - seen'[p][k]) = Span + Age(k)
    BY <2>1, <2>5, <2>11, SpanType
  <2> QED
    BY <2>1, <2>7, <2>8, <2>9, <2>10, <2>11, <2>12 DEF Spaced
<1>9. ASSUME NEW a \in Peers, NEW j \in KeysSent, IsReliable(j), ~(a = p /\ j = k)
      PROVE  Spaced(a, j)'
  BY <1>4, <1>5, <1>6, <1>9, SpacedKept DEF AllSpaced, KeysSent
<1>10. AllSpaced'
  <2>1. ASSUME NEW a \in Peers, NEW j \in KeysSent, IsReliable(j)
        PROVE  Spaced(a, j)'
    BY <2>1, <1>8, <1>9
  <2>2. \A j \in KeysSent : IsReliable(j)' = IsReliable(j)
    BY <1>5 DEF KeysSent
  <2> QED
    BY <2>1, <2>2, <1>5 DEF AllSpaced
<1> QED
  BY <1>7, <1>8, <1>10

(* A copy that comes while the entry is there stores it again, later.      *)
LEMMA SpacedDiscard ==
    ASSUME Flow, Stored /\ AllSpaced, NEW p \in Peers, NEW q \in Peers, Discard(p, q)
    PROVE  Stored' /\ AllSpaced'
<1>a. SUFFICES ASSUME NEW k, k = Head(chan[q][p]).key
               PROVE  Stored' /\ AllSpaced'
  OBVIOUS
<1>1. TypeOK /\ InFlight /\ Arrives(p, q)
  BY DEF Flow, Discard
<1>2. chan \in Channels /\ seen \in [Peers -> [Keys -> Nat \cup {None}]]
  BY <1>1, Zenon DEF TypeOK, Channels
<1>3. k \in KeysSent /\ k \in Keys
  BY <1>a, <1>1, <1>2, RestType, SentType DEF InFlight, Sound
<1>4. /\ Store(p, k) /\ UNCHANGED <<now, sent, count>>
      /\ seen[p][k] # None \/ Expired(p, k)
  BY <1>a DEF Discard
<1>5. KeysSent' = KeysSent
      /\ \A j \in Keys : Timestamp(j)' = Timestamp(j) /\ IsReliable(j)' = IsReliable(j)
  BY <1>4 DEF KeysSent, Timestamp, IsReliable
<1>6. \A a \in Peers, j \in Keys :
         \/ seen'[a][j] = seen[a][j]
         \/ a = p /\ j = k /\ IsReliable(k) /\ seen[p][k] # None /\ seen'[p][k] = Clock(p)
  BY <1>2, <1>3, <1>4 DEF Store
<1>7. Stored'
  BY <1>3, <1>5, <1>6 DEF Stored
<1>8. ASSUME NEW a \in Peers, NEW j \in KeysSent, IsReliable(j)
      PROVE  Spaced(a, j)'
  <2>0. Spaced(a, j) /\ j \in Keys
    BY <1>8 DEF AllSpaced, KeysSent
  <2>1. CASE seen'[a][j] = seen[a][j]
    BY <2>0, <2>1, <1>4, <1>5, SpacedKept
  <2>2. CASE a = p /\ j = k /\ seen[p][k] # None /\ seen'[p][k] = Clock(p)
    <3>1. /\ count[p][k] \in Nat /\ Age(k) \in Nat /\ seen[p][k] \in Nat
          /\ Clock(p) \in Nat /\ Clock(p) # None
      BY <1>3, <2>2, SpacedType
    <3>2. Age(k)' = Age(k) /\ Clock(p)' = Clock(p) /\ count' = count
      BY <1>3, <1>4, <1>5 DEF Age, Clock
    <3>3. count[p][k] * Span \in Nat /\ Span \in Nat
      BY <3>1, Products, SpanType
    <3>4. /\ count[p][k] > 0
          /\ count[p][k] * Span <= Span + Age(k) - (Clock(p) - seen[p][k])
          /\ seen[p][k] <= Clock(p)
      BY <2>0, <2>2 DEF Spaced
    <3>5. count[p][k] * Span <= Span + Age(k) - (Clock(p) - Clock(p))
      BY <3>1, <3>3, <3>4
    <3>6. Clock(p) <= Clock(p)
      BY <3>1
    <3> QED
      BY <2>0, <2>2, <3>1, <3>2, <3>4, <3>5, <3>6 DEF Spaced
  <2> QED
    BY <2>0, <2>1, <2>2, <1>6
<1> QED
  BY <1>5, <1>7, <1>8 DEF AllSpaced, KeysSent

(* An entry is removed a Span after it was stored last.                    *)
LEMMA SpacedExpire ==
    ASSUME Flow, Stored /\ AllSpaced, NEW p \in Peers, Expire(p)
    PROVE  Stored' /\ AllSpaced'
<1>1. TypeOK
  BY DEF Flow
<1>2. seen \in [Peers -> [Keys -> Nat \cup {None}]]
  BY <1>1, Zenon DEF TypeOK
<1>3. /\ UNCHANGED <<now, sent, count>>
      /\ \A a \in Peers, k \in Keys :
            seen'[a][k] = IF a = p /\ Stale(p, k) THEN None ELSE seen[a][k]
  BY <1>2 DEF Expire
<1>4. KeysSent' = KeysSent
      /\ \A j \in Keys : Timestamp(j)' = Timestamp(j) /\ IsReliable(j)' = IsReliable(j)
  BY <1>3 DEF KeysSent, Timestamp, IsReliable
<1>5. Stored'
  BY <1>3, <1>4 DEF Stored
<1>6. ASSUME NEW a \in Peers, NEW k \in KeysSent, IsReliable(k)
      PROVE  Spaced(a, k)'
  <2>1. Spaced(a, k) /\ k \in Keys
    BY <1>6 DEF AllSpaced, KeysSent
  <2>2. CASE a = p /\ Stale(p, k)
    <3>1. /\ seen[p][k] # None /\ seen'[p][k] = None
          /\ Clock(p) - seen[p][k] > ReliableExpiration
      BY <2>1, <2>2, <1>3 DEF Stale
    <3>2. /\ count[p][k] \in Nat /\ Age(k) \in Nat /\ seen[p][k] \in Nat
          /\ Clock(p) \in Nat
      BY <1>6, <3>1, SpacedType
    <3>3. count[p][k] * Span \in Nat
      BY <3>2, Products
    <3>4. count[p][k] * Span <= Span + Age(k) - (Clock(p) - seen[p][k])
      BY <2>1, <2>2, <3>1 DEF Spaced
    <3>5. count[p][k] * Span <= Age(k)
      BY <3>1, <3>2, <3>3, <3>4, SpanType
    <3>6. Age(k)' = Age(k) /\ Clock(p)' = Clock(p) /\ count' = count
      BY <2>1, <1>3, <1>4 DEF Age, Clock
    <3> QED
      BY <2>1, <2>2, <3>1, <3>5, <3>6 DEF Spaced
  <2>3. CASE ~(a = p /\ Stale(p, k))
    <3>1. seen'[a][k] = seen[a][k]
      BY <2>1, <2>3, <1>3
    <3> QED
      BY <2>1, <3>1, <1>3, <1>4, SpacedKept
  <2> QED
    BY <2>2, <2>3
<1> QED
  BY <1>4, <1>5, <1>6 DEF AllSpaced, KeysSent

LEMMA SpacedTick ==
    ASSUME Flow, Stored /\ AllSpaced, Tick
    PROVE  Stored' /\ AllSpaced'
<1>1. now' = now + 1 /\ UNCHANGED <<sent, seen, count>>
  BY DEF Tick
<1>2. KeysSent' = KeysSent
      /\ \A j \in Keys : Timestamp(j)' = Timestamp(j) /\ IsReliable(j)' = IsReliable(j)
  BY <1>1 DEF KeysSent, Timestamp, IsReliable
<1>3. ASSUME NEW a \in Peers, NEW k \in KeysSent, IsReliable(k)
      PROVE  Spaced(a, k)'
  <2>1. Spaced(a, k) /\ k \in Keys
    BY <1>3 DEF AllSpaced, KeysSent
  <2>2. /\ count[a][k] \in Nat /\ Age(k) \in Nat /\ seen[a][k] \in Nat \cup {None}
        /\ now \in Nat /\ Skew[a] \in Nat /\ Clock(a) \in Nat
        /\ Skew[k.src] \in Nat /\ Timestamp(k) \in Nat /\ Clock(a) = now + Skew[a]
    BY SpacedType
  <2>3. Age(k)' = Age(k) + 1 /\ Clock(a)' = Clock(a) + 1
    BY <2>1, <2>2, <1>1, <1>2 DEF Age, Clock
  <2>4. count[a][k] * Span \in Nat /\ Span \in Nat
    BY <2>2, Products, SpanType
  <2>5. ASSUME seen[a][k] = None
        PROVE  count[a][k] * Span <= Age(k) + 1
    BY <2>1, <2>2, <2>4, <2>5 DEF Spaced
  <2>6. ASSUME seen[a][k] # None
        PROVE  /\ count[a][k] > 0 /\ seen[a][k] <= Clock(a) + 1
               /\ count[a][k] * Span <= Span + (Age(k) + 1) - ((Clock(a) + 1) - seen[a][k])
    BY <2>1, <2>2, <2>4, <2>6 DEF Spaced
  <2> QED
    BY <2>1, <2>3, <2>5, <2>6, <1>1 DEF Spaced
<1> QED
  BY <1>1, <1>2, <1>3 DEF AllSpaced, Stored, KeysSent

LEMMA SpacedNext ==
    ASSUME Flow, Stored /\ AllSpaced, [Next]_vars
    PROVE  Stored' /\ AllSpaced'
<1>1. CASE Tick
  BY <1>1, SpacedTick
<1>2. CASE \E p \in Peers, reliable \in BOOLEAN : Send(p, reliable)
  BY <1>2, SpacedSend
<1>3. CASE \E p, q \in Peers : Process(p, q)
  BY <1>3, SpacedProcess
<1>4. CASE \E p, q \in Peers : Discard(p, q)
  BY <1>4, SpacedDiscard
<1>5. CASE \E p \in Peers : Expire(p)
  BY <1>5, SpacedExpire
<1>6. CASE UNCHANGED <<now, sent, seen, count>>
  <2>1. KeysSent' = KeysSent
    BY <1>6 DEF KeysSent
  <2> QED
    BY <1>6, <2>1
    DEF Stored, AllSpaced, Spaced, Clock, Age, Timestamp, IsReliable
<1>7. CASE \E p, q \in Peers, sources \in SUBSET Peers :
               \/ Link(p, q) \/ Break(p, q) \/ Drop(p, q) \/ PeerLeft(p, q)
               \/ Suspend(p, q, sources) \/ Dispose(p)
  BY <1>6, <1>7 DEF Link, Break, Drop, PeerLeft, DisconnectFrom, Suspend, Dispose
<1> QED
  BY <1>1, <1>2, <1>3, <1>4, <1>5, <1>6, <1>7 DEF Next, Receive, vars

(* A peer whose clock is not behind the sender's emits a reliable message  *)
(* at most once (ReliableAtMostOnce), over any number of paths, link       *)
(* failures and expirations, whatever the other clocks say.                *)
THEOREM AtMostOnceCorrect == Spec => []ReliableAtMostOnce
<1>1. Init => Flow /\ Stored /\ AllSpaced
  BY FlowInit, SpacedInit
<1>2. (Flow /\ Stored /\ AllSpaced) /\ [Next]_vars => (Flow /\ Stored /\ AllSpaced)'
  BY FlowNext, SpacedNext
<1>3. Flow /\ AllSpaced => ReliableAtMostOnce
  BY SpacedLimit DEF Flow, ReliableAtMostOnce
<1> QED
  BY <1>1, <1>2, <1>3, PTL DEF Spec

(* And any peer emits one at most as often as the clocks allow: for a      *)
(* sender that is ahead by no more than ReliableExpiration + 1, twice.     *)
Limited ==
    \A p \in Peers : \A k \in KeysSent :
        IsReliable(k) /\ count[p][k] > 0 => count[p][k] <= Emissions(p, k.src)

THEOREM LimitedCorrect == Spec => []Limited
<1>1. Init => Flow /\ Stored /\ AllSpaced
  BY FlowInit, SpacedInit
<1>2. (Flow /\ Stored /\ AllSpaced) /\ [Next]_vars => (Flow /\ Stored /\ AllSpaced)'
  BY FlowNext, SpacedNext
<1>3. Flow /\ AllSpaced => Limited
  BY SpacedLimit DEF Flow, Limited
<1> QED
  BY <1>1, <1>2, <1>3, PTL DEF Spec

-----------------------------------------------------------------------------
(* Routing implements Broadcast                                            *)

LEMMA AbstractInit == Init => Abstract!Init
<1>1. ASSUME Init PROVE ReliableSent = {}
  BY <1>1, KeysType, EmptySeq DEF Init, KeysSent, ReliableSent
<1> QED
  BY <1>1 DEF Abstract!Init

(* A step that emits nothing and sends nothing reliable is a stutter.      *)
LEMMA AbstractStutter ==
    ASSUME ReliableSent' = ReliableSent,
           \A p \in Peers, k \in ReliableSent : count'[p][k] = count[p][k]
    PROVE  UNCHANGED Abstract!vars
BY DEF Abstract!vars

LEMMA AbstractSend ==
    ASSUME Flow, NEW p \in Peers, NEW reliable \in BOOLEAN, Send(p, reliable)
    PROVE  [Abstract!Next]_(Abstract!vars)
<1>a. SUFFICES ASSUME NEW new, new = [src |-> p, seq |-> Len(sent[p]) + 1]
               PROVE  [Abstract!Next]_(Abstract!vars)
  OBVIOUS
<1>1. TypeOK /\ Counted
  BY DEF Flow
<1>2. /\ new \in Keys /\ new \notin KeysSent
      /\ KeysSent' = KeysSent \cup {new}
      /\ IsReliable(new)' = reliable
      /\ \A k \in KeysSent : IsReliable(k)' = IsReliable(k)
  BY <1>a, <1>1, SentKept
<1>3. count' = count
  BY DEF Send
<1>4. \A a \in Peers : count[a][new] = 0
  <2>1. \A a \in Peers : count[a][new] \in Nat /\ ~(count[a][new] > 0)
    BY <1>1, <1>2 DEF Counted, TypeOK
  <2> QED
    BY <2>1
<1>5. CASE reliable
  <2>1. ReliableSent' = ReliableSent \cup {new}
    BY <1>2, <1>5, Zenon DEF ReliableSent
  <2>2. new \notin ReliableSent
    BY <1>2 DEF ReliableSent
  <2>3. Abstract!Publish(new)
    BY <2>1, <2>2, <1>3, <1>4 DEF Abstract!Publish
  <2> QED
    BY <2>3, <1>2 DEF Abstract!Next
<1>6. CASE ~reliable
  <2>1. ReliableSent' = ReliableSent
    BY <1>2, <1>6, Zenon DEF ReliableSent
  <2> QED
    BY <2>1, <1>3, AbstractStutter
<1> QED
  BY <1>5, <1>6

LEMMA AbstractProcess ==
    ASSUME Flow, Stored /\ AllSpaced, NEW p \in Peers, NEW q \in Peers, Process(p, q)
    PROVE  [Abstract!Next]_(Abstract!vars)
<1>a. SUFFICES ASSUME NEW k, k = Head(chan[q][p]).key
               PROVE  [Abstract!Next]_(Abstract!vars)
  OBVIOUS
<1>1. TypeOK /\ InFlight /\ Arrives(p, q)
  BY DEF Flow, Process
<1>2. chan \in Channels /\ count \in [Peers -> [Keys -> Nat]]
  BY <1>1, Zenon DEF TypeOK, Channels
<1>3. k \in KeysSent /\ k \in Keys /\ k.src # p
  BY <1>a, <1>1, <1>2, RestType, SentType DEF InFlight, Sound
<1>4. /\ UNCHANGED <<now, sent>>
      /\ seen[p][k] = None /\ ~Expired(p, k)
      /\ count' = [count EXCEPT ![p][k] = @ + 1]
  BY <1>a DEF Process
<1>5. ReliableSent' = ReliableSent
  BY <1>4 DEF ReliableSent, KeysSent, IsReliable
<1>6. CASE IsReliable(k)
  <2>1. k \in ReliableSent
    BY <1>3, <1>6 DEF ReliableSent
  <2>2. count[p][k] < Emissions(p, k.src) /\ k.src \in Peers
    BY <1>a, <1>1, <1>3, <1>6, SpacedProcess, SentType
  <2>3. \A a \in Peers, j \in Keys :
           count'[a][j] = IF a = p /\ j = k THEN count[p][k] + 1 ELSE count[a][j]
    BY <1>2, <1>3, <1>4
  <2>4. Abstract!Emit(p, k)
    <3> DEFINE emitted == [a \in Peers |-> [j \in Keys |->
                            IF j \in ReliableSent THEN count[a][j] ELSE 0]]
               emittedNext == [a \in Peers |-> [j \in Keys |->
                                IF j \in ReliableSent THEN count'[a][j] ELSE 0]]
    <3>1. /\ emitted[p][k] = count[p][k]
          /\ \A a \in Peers, j \in Keys :
                emittedNext[a][j] = IF a = p /\ j = k THEN emitted[p][k] + 1 ELSE emitted[a][j]
      BY <2>1, <2>3, <1>3
    <3>2. /\ emitted = [a \in Peers |-> [j \in Keys |-> emitted[a][j]]]
          /\ emittedNext = [a \in Peers |-> [j \in Keys |-> emittedNext[a][j]]]
      OBVIOUS
    <3>3. emittedNext = [emitted EXCEPT ![p][k] = @ + 1]
      <4> HIDE DEF emitted, emittedNext
      <4> QED
        BY <3>1, <3>2, <1>3
    <3>4. emitted[p][k] < [a \in Peers |-> [src \in Peers |-> Emissions(a, src)]][p][k.src]
      BY <3>1, <2>2
    <3> QED
      BY <3>3, <3>4, <2>1, <1>3, <1>5 DEF Abstract!Emit
  <2> QED
    BY <2>4, <1>3 DEF Abstract!Next
<1>7. CASE ~IsReliable(k)
  <2>1. k \notin ReliableSent
    BY <1>7 DEF ReliableSent
  <2>2. \A a \in Peers, j \in ReliableSent : count'[a][j] = count[a][j]
    <3>1. \A j \in ReliableSent : j \in Keys /\ j # k
      BY <2>1 DEF ReliableSent, KeysSent
    <3> QED
      BY <3>1, <1>2, <1>4
  <2> QED
    BY <2>2, <1>5, AbstractStutter
<1> QED
  BY <1>6, <1>7

LEMMA AbstractNext ==
    ASSUME Flow, Stored /\ AllSpaced, [Next]_vars
    PROVE  [Abstract!Next]_(Abstract!vars)
<1>1. CASE \E p \in Peers, reliable \in BOOLEAN : Send(p, reliable)
  BY <1>1, AbstractSend
<1>2. CASE \E p, q \in Peers : Process(p, q)
  BY <1>2, AbstractProcess
<1>3. CASE UNCHANGED <<sent, count>>
  <2>1. ReliableSent' = ReliableSent
    BY <1>3 DEF ReliableSent, KeysSent, IsReliable
  <2> QED
    BY <1>3, <2>1, AbstractStutter
<1>4. CASE \E p, q \in Peers, sources \in SUBSET Peers :
               \/ Discard(p, q) \/ Expire(p) \/ Tick
               \/ Link(p, q) \/ Break(p, q) \/ Drop(p, q) \/ PeerLeft(p, q)
               \/ Suspend(p, q, sources) \/ Dispose(p)
  BY <1>3, <1>4
  DEF Discard, Expire, Tick, Link, Break, Drop, PeerLeft, DisconnectFrom,
      Suspend, Dispose
<1>5. CASE Tick
  BY <1>3, <1>5 DEF Tick
<1> QED
  BY <1>1, <1>2, <1>3, <1>4, <1>5 DEF Next, Receive, vars

(* The flood of packets with its ttl, its expirations and its caches       *)
(* implements Broadcast: each step sends or emits one reliable message, no *)
(* more often than the clocks of the two peers allow, or changes nothing   *)
(* of them.                                                                *)
THEOREM BroadcastCorrect == Spec => ImplementsBroadcast
<1>1. Init => Flow /\ Stored /\ AllSpaced
  BY FlowInit, SpacedInit
<1>2. (Flow /\ Stored /\ AllSpaced) /\ [Next]_vars => (Flow /\ Stored /\ AllSpaced)'
  BY FlowNext, SpacedNext
<1>3. Flow /\ Stored /\ AllSpaced /\ [Next]_vars => [Abstract!Next]_(Abstract!vars)
  BY AbstractNext
<1> QED
  BY <1>1, <1>2, <1>3, AbstractInit, PTL DEF Spec, ImplementsBroadcast, Abstract!Spec

-----------------------------------------------------------------------------
(* Unreliable messages never go back in time                               *)

(* A peer numbers its packets in the order of their timestamps.            *)
Ordered ==
    \A k, j \in KeysSent :
        k.src = j.src /\ k.seq <= j.seq => Timestamp(k) <= Timestamp(j)

(* What a peer knows of a sender covers every packet it emitted.           *)
Covers(l, k) == l # None /\ Timestamp(k) <= l.ts /\ k.seq <= l.seq

Covered ==
    \A p \in Peers, k \in KeysSent : count[p][k] > 0 => Covers(last[p][k.src], k)

LEMMA OrderInit == Init => Ordered /\ Covered
<1>1. ASSUME Init PROVE KeysSent = {}
  BY <1>1, KeysType, EmptySeq DEF Init, KeysSent
<1> QED
  BY <1>1 DEF Ordered, Covered

LEMMA OrderSend ==
    ASSUME Flow, Ordered /\ Covered, NEW p \in Peers, NEW reliable \in BOOLEAN,
           Send(p, reliable)
    PROVE  Ordered' /\ Covered'
<1>a. SUFFICES ASSUME NEW new, new = [src |-> p, seq |-> Len(sent[p]) + 1]
               PROVE  Ordered' /\ Covered'
  OBVIOUS
<1>1. TypeOK /\ Counted /\ Stamped
  BY DEF Flow
<1>2. /\ new \in Keys /\ new \notin KeysSent
      /\ KeysSent' = KeysSent \cup {new}
      /\ Timestamp(new)' = Clock(p)
      /\ \A k \in KeysSent : Timestamp(k)' = Timestamp(k)
  BY <1>a, <1>1, SentKept
<1>3. UNCHANGED <<last, count>> /\ new.src = p /\ new.seq = Len(sent[p]) + 1
  BY <1>a DEF Send
<1>4. Clock(p) \in Nat /\ Len(sent[p]) \in Nat
  BY <1>1, ClockType DEF TypeOK
<1>5. \A k \in KeysSent : k.src = p => k.seq \in Nat /\ k.seq <= Len(sent[p])
                                       /\ Timestamp(k) <= Clock(p)
  BY <1>1, SentType DEF Stamped
<1>6. Ordered'
  <2>1. ASSUME NEW k \in KeysSent', NEW j \in KeysSent', k.src = j.src, k.seq <= j.seq
        PROVE  Timestamp(k)' <= Timestamp(j)'
    <3>1. CASE k \in KeysSent /\ j \in KeysSent
      BY <2>1, <3>1, <1>2 DEF Ordered
    <3>2. CASE k \in KeysSent /\ j = new
      BY <2>1, <3>2, <1>2, <1>3, <1>5
    <3>3. CASE k = new /\ j \in KeysSent
      BY <2>1, <3>3, <1>3, <1>4, <1>5
    <3>4. CASE k = new /\ j = new
      BY <3>4, <1>2, <1>4
    <3> QED
      BY <3>1, <3>2, <3>3, <3>4, <1>2
  <2> QED
    BY <2>1 DEF Ordered
<1>7. Covered'
  <2>1. \A a \in Peers : ~(count[a][new] > 0)
    BY <1>1, <1>2 DEF Counted
  <2> QED
    BY <2>1, <1>2, <1>3 DEF Covered, Covers
<1> QED
  BY <1>6, <1>7

LEMMA OrderProcess ==
    ASSUME Flow, Ordered /\ Covered, NEW p \in Peers, NEW q \in Peers, Process(p, q)
    PROVE  Ordered' /\ Covered'
<1>a. SUFFICES ASSUME NEW k, k = Head(chan[q][p]).key
               PROVE  Ordered' /\ Covered'
  OBVIOUS
<1>1. TypeOK /\ InFlight /\ Arrives(p, q)
  BY DEF Flow, Process
<1>2. /\ chan \in Channels /\ count \in [Peers -> [Keys -> Nat]]
      /\ last \in [Peers -> [Peers -> [ts : Nat, seq : Nat] \cup {None}]]
  BY <1>1, Zenon DEF TypeOK, Channels
<1>3. k \in KeysSent
  BY <1>a, <1>1, <1>2, RestType DEF InFlight, Sound
<1>4. /\ UNCHANGED sent
      /\ last' = [last EXCEPT ![p][k.src] = Newest(@, k)]
      /\ count' = [count EXCEPT ![p][k] = @ + 1]
  BY <1>a DEF Process
<1>5. KeysSent' = KeysSent /\ \A j \in Keys : Timestamp(j)' = Timestamp(j)
  BY <1>4 DEF KeysSent, Timestamp
<1>6. \A j \in KeysSent : /\ j \in Keys /\ j.src \in Peers /\ j.seq \in Nat
                          /\ Timestamp(j) \in Nat
  BY <1>1, SentType
<1>7. Ordered'
  BY <1>5, <1>6 DEF Ordered
<1>8. ASSUME NEW a \in Peers, NEW j \in KeysSent, count'[a][j] > 0
      PROVE  Covers(last'[a][j.src], j)
  <2>1. CASE a = p /\ j.src = k.src
    <3>1. last'[a][j.src] = Newest(last[p][k.src], k)
      BY <2>1, <1>2, <1>3, <1>4, <1>6
    <3>2. last[p][k.src] \in [ts : Nat, seq : Nat] \cup {None}
      BY <1>2, <1>3, <1>6
    <3>3. None \notin [ts : Nat, seq : Nat]
      BY RoutingAssumption
    <3>4. j = k \/ Covers(last[p][k.src], j)
      BY <2>1, <1>2, <1>3, <1>4, <1>6, <1>8 DEF Covered
    <3> QED
      BY <3>1, <3>2, <3>3, <3>4, <1>3, <1>6 DEF Newest, Larger, Covers
  <2>2. CASE ~(a = p /\ j.src = k.src)
    <3>1. last'[a][j.src] = last[a][j.src] /\ count'[a][j] = count[a][j]
      BY <2>2, <1>2, <1>3, <1>4, <1>6
    <3> QED
      BY <3>1, <1>8 DEF Covered
  <2> QED
    BY <2>1, <2>2
<1>9. Covered'
  BY <1>5, <1>6, <1>8 DEF Covered, Covers
<1> QED
  BY <1>7, <1>9

LEMMA OrderNext ==
    ASSUME \A p \in Peers : <<"leave", p>> \notin Env,
           Flow, Ordered /\ Covered, [Next]_vars
    PROVE  Ordered' /\ Covered'
<1>1. CASE \E p \in Peers, reliable \in BOOLEAN : Send(p, reliable)
  BY <1>1, OrderSend
<1>2. CASE \E p, q \in Peers : Process(p, q)
  BY <1>2, OrderProcess
<1>3. CASE UNCHANGED <<sent, count, last>>
  <2>1. KeysSent' = KeysSent
    BY <1>3 DEF KeysSent
  <2> QED
    BY <1>3, <2>1 DEF Ordered, Covered, Covers, Timestamp
<1>4. CASE \E p, q \in Peers, sources \in SUBSET Peers :
               \/ Discard(p, q) \/ Expire(p) \/ Link(p, q) \/ Break(p, q)
               \/ Drop(p, q) \/ PeerLeft(p, q) \/ Suspend(p, q, sources) \/ Dispose(p)
  BY <1>3, <1>4
  DEF Discard, Expire, Link, Break, Drop, PeerLeft, DisconnectFrom, Suspend, Dispose
<1>5. CASE Tick
  BY <1>3, <1>5 DEF Tick
<1> QED
  BY <1>1, <1>2, <1>3, <1>4, <1>5 DEF Next, Receive, vars

(* A step that emits a packet processes it.                                *)
LEMMA EmitsProcessed ==
    ASSUME Flow, [Next]_vars, NEW p \in Peers, NEW k \in Keys,
           count'[p][k] > count[p][k]
    PROVE  seen[p][k] = None /\ ~Expired(p, k)
<1>1. count \in [Peers -> [Keys -> Nat]] /\ chan \in Channels
  BY Zenon DEF Flow, TypeOK, Channels
<1>2. count' # count
  BY <1>1
<1>3. PICK a \in Peers, q \in Peers : Process(a, q)
  <2>1. CASE \E b, q \in Peers, sources \in SUBSET Peers :
                 \/ Discard(b, q) \/ Expire(b) \/ Link(b, q) \/ Break(b, q)
                 \/ Drop(b, q) \/ PeerLeft(b, q) \/ Suspend(b, q, sources) \/ Dispose(b)
    BY <1>2, <2>1
    DEF Discard, Expire, Link, Break, Drop, PeerLeft, DisconnectFrom, Suspend, Dispose
  <2>2. CASE Tick \/ UNCHANGED vars \/ \E b \in Peers, r \in BOOLEAN : Send(b, r)
    BY <1>2, <2>2 DEF Tick, vars, Send
  <2> QED
    BY <2>1, <2>2 DEF Next, Receive
<1>a. SUFFICES ASSUME NEW j, j = Head(chan[q][a]).key
               PROVE  seen[p][k] = None /\ ~Expired(p, k)
  OBVIOUS
<1>4. /\ Arrives(a, q) /\ seen[a][j] = None /\ ~Expired(a, j)
      /\ count' = [count EXCEPT ![a][j] = @ + 1]
  BY <1>a, <1>3 DEF Process
<1>5. a = p /\ j = k
  BY <1>1, <1>4
<1> QED
  BY <1>4, <1>5

(* As long as no peer is forgotten, an unreliable message is never emitted *)
(* after one that its sender sent later: NeverBackInTime follows from what *)
(* subtypeData covers, although discardOlderThan compares both the         *)
(* timestamps and the sequenceIds, and packets overtake each other.        *)
THEOREM NeverBackCorrect ==
    ASSUME \A p \in Peers : <<"leave", p>> \notin Env
    PROVE  Spec => NeverBackInTime
<1> DEFINE Newer(p, k, newer) ==
              /\ count'[p][k] > count[p][k] /\ ~IsReliable(k)
              /\ newer.src = k.src /\ Timestamp(newer) > Timestamp(k)
<1>1. Init => Flow /\ Ordered /\ Covered
  BY FlowInit, OrderInit
<1>2. (Flow /\ Ordered /\ Covered) /\ [Next]_vars => (Flow /\ Ordered /\ Covered)'
  BY FlowNext, OrderNext
<1>3. Flow /\ Ordered /\ Covered /\ [Next]_vars =>
        \A p \in Peers : \A k, newer \in KeysSent :
            Newer(p, k, newer) => count[p][newer] = 0
  <2>a. SUFFICES ASSUME Flow, Ordered, Covered, [Next]_vars, NEW p \in Peers,
                        NEW k \in KeysSent, NEW newer \in KeysSent,
                        Newer(p, k, newer)
                 PROVE  count[p][newer] = 0
    OBVIOUS
  <2>1. TypeOK /\ k \in Keys /\ newer \in Keys
    BY <2>a DEF Flow, KeysSent
  <2>2. /\ k.src \in Peers /\ k.seq \in Nat /\ Timestamp(k) \in Nat
        /\ newer.seq \in Nat /\ Timestamp(newer) \in Nat
    BY <2>1, SentType
  <2>3. count[p][newer] \in Nat
        /\ last[p][k.src] \in [ts : Nat, seq : Nat] \cup {None}
    BY <2>1, <2>2 DEF TypeOK
  <2>4. ~Expired(p, k)
    BY <2>a, <2>1, EmitsProcessed
  <2>5. ASSUME count[p][newer] > 0
        PROVE  FALSE
    <3>1. Covers(last[p][k.src], newer)
      BY <2>a, <2>5 DEF Covered
    <3>2. k.seq <= newer.seq
      BY <2>a, <2>2 DEF Ordered
    <3>3. None \notin [ts : Nat, seq : Nat]
      BY RoutingAssumption
    <3>4. Outdated(p, k)
      BY <2>a, <2>2, <2>3, <3>1, <3>2, <3>3 DEF Outdated, Covers
    <3> QED
      BY <2>4, <3>4 DEF Expired
  <2> QED
    BY <2>3, <2>5
<1> QED
  BY <1>1, <1>2, <1>3, PTL DEF Spec, NeverBackInTime

=============================================================================
