------------------------- MODULE NetworkUpdateProofs ------------------------
(***************************************************************************)
(* Theorems about NetworkUpdate, for every set of peers, every limit and   *)
(* every environment.                                                      *)
(***************************************************************************)
EXTENDS NetworkUpdate, FiniteSetTheorems, TLAPS

(* The map with some entries closed.                                       *)
LEMMA ClosedType ==
    ASSUME NEW map \in [Peers -> Entry], NEW S
    PROVE  /\ Closed(map, S) \in [Peers -> Entry]
           /\ \A q \in Peers : Closed(map, S)[q] # "none"
                               => map[q] # "none" /\ q \notin S
BY DEF Closed, Entry

(* updateNetwork chooses among the known peers in reach.                   *)
LEMMA PickedType ==
    ASSUME NEW peers, NEW dist, NEW ini, NEW rec,
           NEW picked \in Picked(peers, dist, ini, rec), NEW q \in picked
    PROVE  q \in peers /\ dist[q] # None /\ dist[q] <= Reach
BY DEF Picked, Nearest, Candidates

LEMMA BestType ==
    ASSUME NEW q \in Best
    PROVE  q \in candidates
BY DEF Best

(* The worst distance is a distance.                                       *)
LEMMA WorstType ==
    ASSUME TypeOK, NEW worst \in WorstDistances
    PROVE  worst \in Distances \cup {None}
BY DEF TypeOK, WorstDistances, ConnectedPeerIds, Entries, Up, Trying

-----------------------------------------------------------------------------
(* The handlers that call updateNetwork                                    *)

Starts == Trigger \/ \E q \in Peers : PeerJoined(q) \/ PeerLeft(q)

(* An update begins: it awaits calls for peers that are known and in reach.*)
Begun ==
    /\ phase = "idle" /\ disposed = "no"
    /\ phase' = "connecting"
    /\ \A q \in awaited' : /\ q \in Peers /\ q \in known'
                           /\ distance'[q] # None /\ distance'[q] <= Reach
    /\ calls' = [q \in Peers |-> IF q \in awaited' THEN calls[q] + 1 ELSE calls[q]]

(* What the handlers leave behind, whether an update begins or not.        *)
LEMMA UpdateNetworkType ==
    ASSUME NEW ini \in [Peers -> Entry], NEW rec \in [Peers -> Entry],
           known' \in SUBSET Peers,
           UpdateNetwork(known', distance', ini, rec)
    PROVE  /\ initiated' \in [Peers -> Entry] /\ received' \in [Peers -> Entry]
           /\ \A q \in Peers : received'[q] # "none" => rec[q] # "none"
           /\ Begun \/ UNCHANGED <<calls, phase, awaited>>
<1>1. CASE phase # "idle" \/ disposed # "no"
  BY <1>1 DEF UpdateNetwork
<1>2. CASE phase = "idle" /\ disposed = "no"
  <2>1. PICK x \in SUBSET Trying(ini), y \in SUBSET Trying(rec) :
           /\ initiated' = Closed(ini, x)
           /\ received' = Closed(rec, y)
           /\ phase' = "connecting"
           /\ \E picked \in Picked(known', distance', initiated', received') :
                 /\ awaited' = picked
                 /\ calls' = [q \in Peers |->
                                IF q \in picked THEN calls[q] + 1 ELSE calls[q]]
    BY <1>2 DEF UpdateNetwork
  <2>2. /\ initiated' \in [Peers -> Entry] /\ received' \in [Peers -> Entry]
        /\ \A q \in Peers : received'[q] # "none" => rec[q] # "none"
    BY <2>1, ClosedType
  <2>3. awaited' \in Picked(known', distance', initiated', received')
    BY <2>1
  <2>4. \A q \in awaited' : /\ q \in Peers /\ q \in known'
                            /\ distance'[q] # None /\ distance'[q] <= Reach
    BY <2>3 DEF Picked, Nearest, Candidates
  <2> QED
    BY <1>2, <2>1, <2>2, <2>4 DEF Begun
<1> QED
  BY <1>1, <1>2

(* What these handlers leave behind, whether an update begins or not.      *)
Started ==
    /\ known' \subseteq Peers
    /\ distance' \in [Peers -> Distances \cup {None}]
    /\ \A q \in Peers \ known' : distance'[q] = None
    /\ initiated' \in [Peers -> Entry] /\ received' \in [Peers -> Entry]
    /\ \A q \in Peers : received'[q] # "none"
                        => received[q] # "none" /\ (q \in known => q \in known')
    /\ Begun \/ UNCHANGED <<calls, phase, awaited>>
    /\ Listening
    /\ UNCHANGED <<candidates, threw, disposed>>

LEMMA StartsEffect ==
    ASSUME TypeOK, Starts
    PROVE  Started
<1>1. CASE Trigger
  <2>1. UpdateNetwork(known', distance', initiated, received)
    BY <1>1 DEF Trigger
  <2> QED
    BY <1>1, <2>1, UpdateNetworkType DEF TypeOK, Trigger, Listening, Started
<1>2. ASSUME NEW q \in Peers, PeerJoined(q)
      PROVE  Started
  <2>1. UpdateNetwork(known', distance', initiated, received)
    BY <1>2 DEF PeerJoined
  <2> QED
    BY <1>2, <2>1, UpdateNetworkType DEF TypeOK, PeerJoined, Started
<1>3. ASSUME NEW q \in Peers, PeerLeft(q)
      PROVE  Started
  <2>1. /\ Closed(initiated, {q}) \in [Peers -> Entry]
        /\ Closed(received, {q}) \in [Peers -> Entry]
        /\ \A r \in Peers : Closed(received, {q})[r] # "none"
                            => received[r] # "none" /\ r # q
    BY ClosedType DEF TypeOK
  <2>2. UpdateNetwork(known', distance', Closed(initiated, {q}), Closed(received, {q}))
    BY <1>3 DEF PeerLeft
  <2>3. known' \in SUBSET Peers
    BY <1>3 DEF PeerLeft, TypeOK
  <2>4. /\ initiated' \in [Peers -> Entry] /\ received' \in [Peers -> Entry]
        /\ \A r \in Peers : received'[r] # "none" => Closed(received, {q})[r] # "none"
        /\ Begun \/ UNCHANGED <<calls, phase, awaited>>
    BY <2>1, <2>2, <2>3, UpdateNetworkType
  <2> QED
    BY <1>3, <2>1, <2>3, <2>4 DEF TypeOK, PeerLeft, Started
<1> QED
  BY <1>1, <1>2, <1>3 DEF Starts

-----------------------------------------------------------------------------
(* Types                                                                   *)

(* Nothing is awaited by no update; an awaited call is one of the calls,   *)
(* and those nobody awaits leave room for one more.                        *)
Counted ==
    /\ phase = "idle" => awaited = {}
    /\ \A q \in Peers : /\ q \in awaited => calls[q] > 0
                        /\ q \notin awaited => calls[q] < MaxCalls

Typed == TypeOK /\ Counted

LEMMA TypedInit == Init => Typed
<1>a. SUFFICES ASSUME Init PROVE Typed
  OBVIOUS
<1>1. 0 \in 0..MaxCalls /\ 0 < MaxCalls
  BY NetworkUpdateAssumption
<1>2. calls \in [Peers -> 0..MaxCalls] /\ Counted
  BY <1>a, <1>1 DEF Init, Counted
<1>3. initiated \in [Peers -> Entry] /\ received \in [Peers -> Entry]
  BY <1>a DEF Init, Entry
<1> QED
  BY <1>a, <1>2, <1>3 DEF Init, Typed, TypeOK

LEMMA TypedStarts ==
    ASSUME Typed, Starts
    PROVE  Typed'
<1>1. Started
  BY StartsEffect DEF Typed
<1>2. CASE UNCHANGED <<calls, phase, awaited>>
  BY <1>1, <1>2 DEF Typed, TypeOK, Counted, Started
<1>3. CASE Begun
  <2>1. awaited' \subseteq Peers
    BY <1>3 DEF Begun
  <2>2. \A q \in Peers : calls[q] \in 0..MaxCalls /\ calls[q] < MaxCalls
    BY <1>3 DEF Begun, Typed, TypeOK, Counted
  <2>3. \A q \in Peers : calls'[q] = IF q \in awaited' THEN calls[q] + 1 ELSE calls[q]
    BY <1>3 DEF Begun
  <2>4. calls' \in [Peers -> 0..MaxCalls]
    BY <1>3, <2>2, NetworkUpdateAssumption DEF Begun
  <2>5. Counted'
    BY <1>3, <2>2, <2>3 DEF Begun, Counted
  <2> QED
    BY <1>1, <1>3, <2>1, <2>4, <2>5 DEF Typed, TypeOK, Started, Begun
<1> QED
  BY <1>1, <1>2, <1>3 DEF Started

LEMMA TypedOperation ==
    ASSUME Typed, Collect \/ Operation
    PROVE  Typed'
<1>1. CASE Collect
  BY <1>1 DEF Collect, Candidates, Typed, TypeOK, Counted
<1>2. CASE DropExcess
  BY <1>2, ClosedType DEF DropExcess, Typed, TypeOK, Counted
<1>3. CASE ConnectBetter
  <2>1. PICK q \in Best : /\ candidates' = candidates \ {q}
                          /\ \/ UNCHANGED <<calls, awaited>>
                             \/ /\ calls' = [calls EXCEPT ![q] = @ + 1]
                                /\ awaited' = {q}
    BY <1>3 DEF ConnectBetter
  <2>2. q \in Peers
    BY BestType DEF Typed, TypeOK
  <2>3. awaited = {} /\ phase = "looping"
    BY <1>3 DEF ConnectBetter, Looping
  <2>4. calls[q] \in 0..MaxCalls /\ calls[q] < MaxCalls
    BY <2>2, <2>3 DEF Typed, TypeOK, Counted
  <2>5. candidates' \subseteq Peers
    BY <2>1 DEF Typed, TypeOK
  <2>6. awaited' \subseteq Peers
    BY <2>1, <2>2, <2>3
  <2>7. calls' \in [Peers -> 0..MaxCalls]
    <3>1. calls \in [Peers -> 0..MaxCalls]
      BY DEF Typed, TypeOK
    <3>2. calls[q] + 1 \in 0..MaxCalls
      BY <2>4, NetworkUpdateAssumption
    <3> QED
      BY <2>1, <2>2, <3>1, <3>2
  <2>8. Counted'
    BY <1>3, <2>1, <2>2, <2>3, <2>4 DEF ConnectBetter, Typed, TypeOK, Counted
  <2> QED
    BY <1>3, <2>5, <2>6, <2>7, <2>8 DEF ConnectBetter, Typed, TypeOK
<1>4. CASE DropFar
  BY <1>4, ClosedType DEF DropFar, Typed, TypeOK, Counted
<1>5. CASE Finish
  BY <1>5 DEF Finish, Looping, Typed, TypeOK, Counted
<1> QED
  BY <1>1, <1>2, <1>3, <1>4, <1>5 DEF Operation

(* What settling does to the calls and to those awaited.                   *)
LEMMA SettledType ==
    ASSUME Typed, NEW q \in Peers, calls[q] > 0, NEW left \in Settled(q)
    PROVE  /\ left \in {awaited, awaited \ {q}}
           /\ q \in left => calls[q] > 1
           /\ calls[q] - 1 \in 0..MaxCalls /\ calls[q] - 1 < MaxCalls
<1>1. calls[q] \in 0..MaxCalls
  BY DEF Typed, TypeOK
<1> QED
  BY <1>1, NetworkUpdateAssumption DEF Settled

LEMMA TypedCall ==
    ASSUME Typed, NEW q \in Peers, CallDone(q) \/ CallFails(q)
    PROVE  Typed'
<1>1. /\ calls[q] > 0
      /\ calls' = [calls EXCEPT ![q] = @ - 1]
  BY DEF CallDone, CallFails
<1>2. calls[q] - 1 \in 0..MaxCalls /\ calls[q] - 1 < MaxCalls
  <2>1. calls[q] \in 0..MaxCalls
    BY DEF Typed, TypeOK
  <2> QED
    BY <1>1, <2>1, NetworkUpdateAssumption
<1>3. calls' \in [Peers -> 0..MaxCalls]
  BY <1>1, <1>2 DEF Typed, TypeOK
<1>4. ASSUME NEW left \in Settled(q), awaited' = left, phase' = phase
      PROVE  Counted' /\ awaited' \subseteq Peers
  <2>1. /\ left \in {awaited, awaited \ {q}}
        /\ q \in left => calls[q] > 1
    BY <1>1, <1>4, SettledType
  <2>2. \A r \in Peers : calls[r] \in 0..MaxCalls
    BY DEF Typed, TypeOK
  <2> QED
    BY <1>1, <1>2, <1>4, <2>1, <2>2 DEF Typed, TypeOK, Counted
<1>5. CASE CallDone(q)
  BY <1>3, <1>4, <1>5 DEF CallDone, Typed, TypeOK, Entry
<1>6. CASE CallFails(q)
  <2>1. PICK left \in Settled(q) :
           \/ /\ \A r \in left : calls[r] < MaxCalls
              /\ awaited' = {} /\ phase' = "idle" /\ threw' = TRUE
           \/ awaited' = left /\ UNCHANGED <<phase, threw>>
    BY <1>6 DEF CallFails
  <2>2. CASE awaited' = left /\ UNCHANGED <<phase, threw>>
    BY <1>3, <1>4, <1>6, <2>2 DEF CallFails, Typed, TypeOK
  <2>3. CASE /\ \A r \in left : calls[r] < MaxCalls
             /\ awaited' = {} /\ phase' = "idle" /\ threw' = TRUE
    <3>1. left \in {awaited, awaited \ {q}}
      BY <1>1, SettledType
    <3>2. \A r \in Peers \ {q} : calls[r] < MaxCalls
      BY <2>3, <3>1 DEF Typed, Counted
    <3>3. Counted'
      BY <1>1, <1>2, <2>3, <3>2 DEF Typed, TypeOK, Counted
    <3> QED
      BY <1>3, <1>6, <2>3, <3>3 DEF CallFails, Typed, TypeOK
  <2> QED
    BY <2>1, <2>2, <2>3
<1> QED
  BY <1>5, <1>6

LEMMA TypedElse ==
    ASSUME Typed,
           \/ Disconnect \/ Forget \/ Disposed
           \/ \E q \in Peers : \/ Hear(q) \/ Offer(q) \/ Connect(q) \/ Break(q)
                               \/ \E d \in Distances : Move(q, d)
    PROVE  Typed'
<1>1. CASE Disconnect
  BY <1>1 DEF Disconnect, Typed, TypeOK, Counted
<1>2. CASE Forget
  BY <1>2 DEF Forget, Typed, TypeOK, Counted
<1>3. CASE Disposed
  BY <1>3, ClosedType DEF Disposed, Typed, TypeOK, Counted
<1>4. ASSUME NEW q \in Peers, Hear(q) PROVE Typed'
  BY <1>4 DEF Hear, Typed, TypeOK, Counted
<1>5. ASSUME NEW q \in Peers, Offer(q) PROVE Typed'
  BY <1>5 DEF Offer, Entry, Typed, TypeOK, Counted
<1>6. ASSUME NEW q \in Peers, Connect(q) PROVE Typed'
  BY <1>6 DEF Connect, Entry, Typed, TypeOK, Counted
<1>7. ASSUME NEW q \in Peers, Break(q) PROVE Typed'
  BY <1>7 DEF Break, Entry, Typed, TypeOK, Counted
<1>8. ASSUME NEW q \in Peers, NEW d \in Distances, Move(q, d) PROVE Typed'
  BY <1>8 DEF Move, Typed, TypeOK, Counted
<1> QED
  BY <1>1, <1>2, <1>3, <1>4, <1>5, <1>6, <1>7, <1>8

LEMMA TypedNext == Typed /\ [Next]_vars => Typed'
<1>1. ASSUME Typed, UNCHANGED vars PROVE Typed'
  BY <1>1 DEF Typed, TypeOK, Counted, vars
<1> QED
  BY <1>1, TypedStarts, TypedOperation, TypedCall, TypedElse DEF Next, Starts

(* Every variable keeps its type.                                          *)
THEOREM TypeCorrect == Spec => []TypeOK
<1>1. Typed => TypeOK
  BY DEF Typed
<1> QED
  BY <1>1, TypedInit, TypedNext, PTL DEF Spec

-----------------------------------------------------------------------------
(* Received connections                                                    *)

(* The received connections of a transport that listens to its island are  *)
(* connections with known peers: leaving closes what shouldAcceptOffer let *)
(* in, and no late offer or failure brings it back.                        *)
THEOREM ReceivedAreKnownCorrect == Spec => []ReceivedAreKnown
<1>1. Init => ReceivedAreKnown
  BY DEF Init, ReceivedAreKnown, Entries, Up, Trying
<1>2. Typed /\ ReceivedAreKnown /\ [Next]_vars => ReceivedAreKnown'
  <2>a. SUFFICES ASSUME Typed, ReceivedAreKnown, [Next]_vars,
                        Listening', NEW q \in Peers, received'[q] \in {"trying", "up"}
                 PROVE  q \in known'
    BY DEF ReceivedAreKnown, Entries, Up, Trying
  <2>b. received \in [Peers -> Entry]
    BY <2>a DEF Typed, TypeOK
  <2>c. Listening => (received[q] # "none" => q \in known)
    BY <2>a, <2>b DEF ReceivedAreKnown, Entries, Up, Trying, Entry
  <2>1. CASE Starts
    BY <2>1, <2>a, <2>c, StartsEffect DEF Started, Typed
  <2>2. CASE Collect \/ Operation
    BY <2>2, <2>a, <2>b, <2>c
       DEF Collect, Operation, DropExcess, ConnectBetter, DropFar, Finish,
           Closed, Listening
  <2>3. CASE Disconnect \/ Forget \/ Disposed
    BY <2>3, <2>a, <2>c DEF Disconnect, Forget, Disposed, Listening
  <2>4. ASSUME NEW r \in Peers, CallDone(r) \/ CallFails(r) \/ Hear(r)
        PROVE  q \in known'
    BY <2>4, <2>a, <2>c DEF CallDone, CallFails, Hear, Listening
  <2>5. ASSUME NEW r \in Peers, Offer(r)
        PROVE  q \in known'
    BY <2>5, <2>a, <2>b, <2>c DEF Offer, ShouldAcceptOffer, Listening
  <2>6. ASSUME NEW r \in Peers, Connect(r) \/ Break(r)
        PROVE  q \in known'
    BY <2>6, <2>a, <2>b, <2>c DEF Connect, Break, Listening
  <2>7. ASSUME NEW r \in Peers, NEW d \in Distances, Move(r, d)
        PROVE  q \in known'
    BY <2>7, <2>a, <2>c DEF Move, Listening
  <2>8. CASE UNCHANGED vars
    BY <2>8, <2>a, <2>c DEF vars, Listening
  <2> QED
    BY <2>a, <2>1, <2>2, <2>3, <2>4, <2>5, <2>6, <2>7, <2>8 DEF Next, Starts
<1> QED
  BY <1>1, <1>2, TypedInit, TypedNext, PTL DEF Spec

-----------------------------------------------------------------------------
(* Calls of connectTo                                                      *)

(* Every step that makes a call begins an update or is ConnectBetter.      *)
LEMMA CallsGrow ==
    ASSUME Typed, [Next]_vars, NEW q \in Peers, calls'[q] > calls[q]
    PROVE  Starts \/ ConnectBetter
<1>1. calls \in [Peers -> 0..MaxCalls]
  BY DEF Typed, TypeOK
<1>2. calls[q] \in Nat
  BY <1>1
<1>3. calls' # calls
  BY <1>2
<1>4. ASSUME NEW r \in Peers, CallDone(r) \/ CallFails(r)
      PROVE  FALSE
  <2>1. calls' = [calls EXCEPT ![r] = @ - 1]
    BY <1>4 DEF CallDone, CallFails
  <2>2. calls'[q] = calls[q] \/ calls'[q] = calls[q] - 1
    BY <1>1, <2>1
  <2> QED
    BY <1>2, <2>2
<1> QED
  BY <1>3, <1>4
     DEF Next, Starts, Collect, Operation, DropExcess, DropFar, Finish,
         Disconnect, Forget, Disposed, Hear, Offer, Connect, Break, Move, vars

(* What ConnectBetter calls.                                               *)
LEMMA BetterCall ==
    ASSUME Typed, ConnectBetter
    PROVE  /\ awaited = {}
           /\ \E b \in Peers :
                 /\ distance[b] # None /\ distance[b] <= Reach
                 /\ \/ UNCHANGED <<calls, awaited>>
                    \/ /\ calls' = [calls EXCEPT ![b] = @ + 1]
                       /\ awaited' = {b}
<1>1. PICK b \in Best, worst \in WorstDistances :
         /\ Better(b, worst)
         /\ \/ UNCHANGED <<calls, awaited>>
            \/ /\ calls' = [calls EXCEPT ![b] = @ + 1]
               /\ awaited' = {b}
  BY DEF ConnectBetter
<1>2. b \in Peers
  BY BestType DEF Typed, TypeOK
<1>3. worst \in Distances
  BY <1>1, WorstType DEF Typed, Better
<1>4. distance[b] \in Distances /\ distance[b] < worst /\ distance[b] # None
  BY <1>1, <1>2 DEF Better, Typed, TypeOK
<1>5. Reach \in Nat /\ Far = Reach + 1 /\ worst \in 0..Far /\ distance[b] \in 0..Far
  BY <1>3, <1>4, NetworkUpdateAssumption
<1>6. distance[b] <= Reach
  BY <1>4, <1>5
<1> QED
  BY <1>1, <1>2, <1>4, <1>6 DEF ConnectBetter, Looping

(* A peer that updateNetwork calls connectTo for is known and in reach at  *)
(* that moment, however long ago it became a candidate.                    *)
THEOREM ConnectsInReachCorrect == Spec => ConnectsInReach
<1>1. Typed /\ [Next]_vars =>
        [\A q \in Peers : calls'[q] > calls[q]
           => q \in known' /\ distance'[q] # None /\ distance'[q] <= Reach]_vars
  <2>a. SUFFICES ASSUME Typed, [Next]_vars, NEW q \in Peers, calls'[q] > calls[q]
                 PROVE  q \in known' /\ distance'[q] # None /\ distance'[q] <= Reach
    OBVIOUS
  <2>b. calls[q] \in Nat
    BY <2>a DEF Typed, TypeOK
  <2>1. CASE Starts
    <3>1. Begun
      BY <2>1, <2>a, <2>b, StartsEffect DEF Started, Typed
    <3>2. q \in awaited'
      BY <3>1, <2>a, <2>b DEF Begun
    <3> QED
      BY <3>1, <3>2 DEF Begun
  <2>2. CASE ConnectBetter
    <3>1. PICK b \in Peers :
             /\ distance[b] # None /\ distance[b] <= Reach
             /\ \/ UNCHANGED <<calls, awaited>>
                \/ /\ calls' = [calls EXCEPT ![b] = @ + 1]
                   /\ awaited' = {b}
      BY <2>2, <2>a, BetterCall
    <3>2. b = q
      BY <3>1, <2>a, <2>b DEF Typed, TypeOK
    <3>3. q \in known
      BY <3>1, <3>2, <2>a DEF Typed, TypeOK
    <3> QED
      BY <3>1, <3>2, <3>3, <2>2 DEF ConnectBetter
  <2> QED
    BY <2>a, <2>1, <2>2, CallsGrow
<1> QED
  BY <1>1, TypedInit, TypedNext, PTL DEF Spec, ConnectsInReach

(* Until Promise.all first rejects, the calls are those that updateNetwork *)
(* awaits, one each.                                                       *)
Single == ~threw => \A q \in Peers : calls[q] = IF q \in awaited THEN 1 ELSE 0

LEMMA SingleNext == Typed /\ Single /\ [Next]_vars => Single'
<1>a. SUFFICES ASSUME Typed, Single, [Next]_vars
               PROVE  Single'
  OBVIOUS
<1>b. calls \in [Peers -> 0..MaxCalls] /\ (phase = "idle" => awaited = {})
  BY <1>a DEF Typed, TypeOK, Counted
<1>1. CASE Starts
  <2>1. CASE Begun
    <3>1. UNCHANGED threw /\ awaited = {}
      BY <1>1, <2>1, <1>a, <1>b, StartsEffect DEF Started, Begun, Typed
    <3>2. ~threw => \A q \in Peers : calls[q] = 0
      BY <3>1, <1>a DEF Single
    <3>3. \A q \in Peers : calls'[q] = IF q \in awaited' THEN calls[q] + 1 ELSE calls[q]
      BY <2>1 DEF Begun
    <3> QED
      BY <3>1, <3>2, <3>3 DEF Single
  <2>2. CASE UNCHANGED <<calls, awaited>>
    BY <2>2, <1>1, <1>a, StartsEffect DEF Started, Single, Typed
  <2> QED
    BY <2>1, <2>2, <1>1, <1>a, StartsEffect DEF Started, Typed
<1>2. CASE ConnectBetter
  <2>1. UNCHANGED threw
    BY <1>2 DEF ConnectBetter
  <2>2. CASE UNCHANGED <<calls, awaited>>
    BY <2>1, <2>2, <1>a DEF Single
  <2>3. ASSUME NEW b \in Peers, calls' = [calls EXCEPT ![b] = @ + 1], awaited' = {b}
        PROVE  Single'
    <3>1. ~threw => \A q \in Peers : calls[q] = 0
      BY <1>2, <1>a, BetterCall DEF Single
    <3> QED
      BY <2>1, <2>3, <3>1, <1>b DEF Single
  <2> QED
    BY <2>2, <2>3, <1>2, <1>a, BetterCall
<1>3. ASSUME NEW r \in Peers, CallDone(r) \/ CallFails(r)
      PROVE  Single'
  <2>1. calls' = [calls EXCEPT ![r] = @ - 1] /\ calls[r] > 0
    BY <1>3 DEF CallDone, CallFails
  <2>2. CASE ~threw'
    <3>1. awaited' \in Settled(r) /\ UNCHANGED threw
      BY <1>3, <2>2 DEF CallDone, CallFails
    <3>2. \A q \in Peers : calls[q] = IF q \in awaited THEN 1 ELSE 0
      BY <2>2, <3>1, <1>a DEF Single
    <3>3. r \in awaited /\ calls[r] = 1
      BY <2>1, <3>2
    <3>4. awaited' = awaited \ {r}
      BY <3>1, <3>3 DEF Settled
    <3> QED
      BY <2>1, <3>2, <3>3, <3>4, <1>b DEF Single
  <2> QED
    BY <2>2 DEF Single
<1>4. CASE UNCHANGED <<calls, awaited, threw>>
  BY <1>4, <1>a DEF Single
<1> QED
  BY <1>a, <1>1, <1>2, <1>3, <1>4
     DEF Next, Starts, Collect, Operation, DropExcess, DropFar, Finish,
         Disconnect, Forget, Disposed, Hear, Offer, Connect, Break, Move, vars

(* Until Promise.all first rejects, no two connectTo calls for a peer      *)
(* overlap: updatingNetwork and the await of every call keep them apart.   *)
THEOREM OneCallPerPeerCorrect == Spec => []OneCallPerPeer
<1>1. Init => Single
  BY DEF Init, Single
<1>2. Typed /\ Single /\ [Next]_vars => Single'
  BY SingleNext
<1>3. Single => OneCallPerPeer
  BY DEF Single, OneCallPerPeer
<1> QED
  BY <1>1, <1>2, <1>3, TypedInit, TypedNext, PTL DEF Spec

(* After disconnect there is no known peer.                                *)
Forgotten == ~Listening => known = {}

LEMMA ForgottenNext == Typed /\ Forgotten /\ [Next]_vars => Forgotten'
<1>a. SUFFICES ASSUME Typed, Forgotten, [Next]_vars
               PROVE  Forgotten'
  OBVIOUS
<1>1. CASE Starts
  BY <1>1, <1>a, StartsEffect DEF Started, Forgotten, Listening, Typed
<1>2. CASE Forget
  BY <1>2 DEF Forget, Forgotten
<1>3. ASSUME NEW q \in Peers, Hear(q)
      PROVE  Forgotten'
  BY <1>3 DEF Hear, Forgotten, Listening
<1>4. CASE Disconnect \/ Disposed
  BY <1>4, <1>a DEF Disconnect, Disposed, Forgotten, Listening
<1>5. CASE UNCHANGED <<known, disposed>>
  BY <1>5, <1>a DEF Forgotten, Listening
<1> QED
  BY <1>a, <1>1, <1>2, <1>3, <1>4, <1>5
     DEF Next, Starts, Collect, Operation, DropExcess, ConnectBetter, DropFar,
         Finish, CallDone, CallFails, Offer, Connect, Break, Move, vars

(* An update that is still suspended when the transport has disconnected   *)
(* goes on, but makes no call: the peers it would call are forgotten.      *)
THEOREM SilentAfterDisposeCorrect == Spec => SilentAfterDispose
<1>1. Init => Forgotten
  BY DEF Init, Forgotten, Listening
<1>2. Typed /\ Forgotten /\ [Next]_vars => Forgotten'
  BY ForgottenNext
<1>3. Typed /\ Forgotten /\ [Next]_vars =>
        [~Listening => \A q \in Peers : calls'[q] <= calls[q]]_vars
  <2>a. SUFFICES ASSUME Typed, Forgotten, [Next]_vars, ~Listening, NEW q \in Peers
                 PROVE  calls'[q] <= calls[q]
    OBVIOUS
  <2>1. known = {} /\ \A b \in Peers : distance[b] = None
    BY <2>a DEF Forgotten, Typed, TypeOK
  <2>2. CASE Starts
    BY <2>2, <2>a, StartsEffect DEF Started, Typed
  <2>3. CASE ConnectBetter
    BY <2>1, <2>3, <2>a, BetterCall
  <2>4. calls[q] \in Nat /\ calls \in [Peers -> 0..MaxCalls]
    BY <2>a DEF Typed, TypeOK
  <2>5. ASSUME NEW r \in Peers, CallDone(r) \/ CallFails(r)
        PROVE  calls'[q] <= calls[q]
    <3>1. calls' = [calls EXCEPT ![r] = @ - 1]
      BY <2>5 DEF CallDone, CallFails
    <3>2. calls'[q] = calls[q] \/ calls'[q] = calls[q] - 1
      BY <2>4, <3>1
    <3> QED
      BY <2>4, <3>2
  <2>6. CASE UNCHANGED calls
    BY <2>4, <2>6
  <2> QED
    BY <2>a, <2>2, <2>3, <2>5, <2>6
       DEF Next, Starts, Collect, Operation, DropExcess, DropFar, Finish,
           Disconnect, Forget, Disposed, Hear, Offer, Connect, Break, Move, vars
<1> QED
  BY <1>1, <1>2, <1>3, TypedInit, TypedNext, PTL DEF Spec, SilentAfterDispose

-----------------------------------------------------------------------------
(* The loop of operations                                                  *)

LEMMA Smallness ==
    ASSUME NEW S \in SUBSET Peers
    PROVE  IsFiniteSet(S) /\ Cardinality(S) \in Nat
<1>1. IsFiniteSet(S)
  BY NetworkUpdateAssumption, FS_Subset
<1> QED
  BY <1>1, FS_CardinalityType

LEMMA EntriesType ==
    ASSUME NEW map
    PROVE  Entries(map) \in SUBSET Peers /\ Up(map) \in SUBSET Peers
BY DEF Entries, Up, Trying

(* Closing entries takes them from the map, and only them.                 *)
LEMMA EntriesClosed ==
    ASSUME NEW map \in [Peers -> Entry], NEW S
    PROVE  Entries(Closed(map, S)) = Entries(map) \ S
BY DEF Entries, Up, Trying, Closed, Entry

LEMMA SmallerSet ==
    ASSUME NEW S \in SUBSET Peers, NEW T \in SUBSET S
    PROVE  /\ Cardinality(T) \in Nat /\ Cardinality(S) \in Nat
           /\ Cardinality(T) <= Cardinality(S)
           /\ T # S => Cardinality(T) < Cardinality(S)
<1>1. IsFiniteSet(S) /\ Cardinality(S) \in Nat
  BY Smallness
<1>2. T \in SUBSET Peers
  OBVIOUS
<1>3. Cardinality(T) \in Nat
  BY <1>2, Smallness
<1>4. Cardinality(T) <= Cardinality(S) /\ (Cardinality(S) = Cardinality(T) => S = T)
  BY <1>1, FS_Subset
<1> QED
  BY <1>1, <1>3, <1>4

(* Closing the connections with these peers, at least one of which has an  *)
(* entry, leaves fewer of them.                                            *)
LEMMA FewerConnections ==
    ASSUME NEW ini \in [Peers -> Entry], NEW rec \in [Peers -> Entry], NEW S,
           NEW q \in S, q \in Entries(ini) \cup Entries(rec)
    PROVE  /\ ConnectionsCount(Closed(ini, S), Closed(rec, S)) \in Nat
           /\ ConnectionsCount(ini, rec) \in Nat
           /\ ConnectionsCount(Closed(ini, S), Closed(rec, S)) < ConnectionsCount(ini, rec)
<1> DEFINE I == Entries(ini)
           R == Entries(rec)
<1>1. I \in SUBSET Peers /\ R \in SUBSET Peers
  BY EntriesType
<1>2. I \ S \in SUBSET I /\ R \ S \in SUBSET R
  OBVIOUS
<1>3. /\ Cardinality(I \ S) \in Nat /\ Cardinality(I) \in Nat
      /\ Cardinality(I \ S) <= Cardinality(I)
      /\ I \ S # I => Cardinality(I \ S) < Cardinality(I)
  BY <1>1, <1>2, SmallerSet
<1>4. /\ Cardinality(R \ S) \in Nat /\ Cardinality(R) \in Nat
      /\ Cardinality(R \ S) <= Cardinality(R)
      /\ R \ S # R => Cardinality(R \ S) < Cardinality(R)
  BY <1>1, <1>2, SmallerSet
<1>5. I \ S # I \/ R \ S # R
  OBVIOUS
<1>6. Entries(Closed(ini, S)) = I \ S /\ Entries(Closed(rec, S)) = R \ S
  BY EntriesClosed
<1> HIDE DEF I, R
<1>7. Cardinality(I \ S) + Cardinality(R \ S) < Cardinality(I) + Cardinality(R)
  BY <1>3, <1>4, <1>5
<1>8. ConnectionsCount(Closed(ini, S), Closed(rec, S)) = Cardinality(I \ S) + Cardinality(R \ S)
  BY <1>6 DEF ConnectionsCount
<1>9. ConnectionsCount(ini, rec) = Cardinality(I) + Cardinality(R)
  BY DEF ConnectionsCount, I, R
<1> QED
  BY <1>3, <1>4, <1>7, <1>8, <1>9

(* Too many connections, at least one of them with a known peer: one is    *)
(* among the worst.                                                        *)
LEMMA SomeWorst ==
    ASSUME NEW S \in SUBSET Peers, S # {}, NEW n \in Nat, n > 0,
           NEW W \in Farthest(S, n)
    PROVE  W \in SUBSET S /\ W # {}
<1>1. W \in SUBSET S /\ Cardinality(W) = Smaller(n, Cardinality(S))
  BY DEF Farthest
<1>2. Cardinality(S) \in Nat /\ Cardinality(S) # 0
  <2>1. IsFiniteSet(S) /\ Cardinality(S) \in Nat
    BY Smallness
  <2>2. Cardinality(S) = 0 => S = {}
    BY <2>1, FS_EmptySet
  <2> QED
    BY <2>1, <2>2
<1>3. Cardinality(W) # 0
  BY <1>1, <1>2 DEF Smaller
<1> QED
  BY <1>1, <1>3, FS_EmptySet

Size == ConnectionsCount(initiated, received) + Cardinality(candidates)

LEMMA SizeType ==
    ASSUME TypeOK
    PROVE  /\ ConnectionsCount(initiated, received) \in Nat
           /\ ConnectedCount(initiated, received) \in Nat
           /\ Cardinality(candidates) \in Nat
<1>1. /\ Entries(initiated) \in SUBSET Peers /\ Entries(received) \in SUBSET Peers
      /\ Up(initiated) \in SUBSET Peers /\ Up(received) \in SUBSET Peers
      /\ candidates \in SUBSET Peers
  BY EntriesType DEF TypeOK
<1>2. Cardinality(Entries(initiated)) \in Nat /\ Cardinality(Entries(received)) \in Nat
  BY <1>1, Smallness
<1>3. Cardinality(Up(initiated)) \in Nat /\ Cardinality(Up(received)) \in Nat
  BY <1>1, Smallness
<1> QED
  BY <1>1, <1>2, <1>3, Smallness DEF ConnectionsCount, ConnectedCount

(* While an update loops, its list of candidates only shrinks.             *)
LEMMA CandidatesShrink ==
    ASSUME Typed, [Next]_vars, phase = "looping"
    PROVE  candidates' \subseteq candidates
<1>1. CASE Starts
  BY <1>1, StartsEffect DEF Started, Typed
<1> QED
  BY <1>1 DEF Next, Starts, Collect, Operation, DropExcess, ConnectBetter,
       DropFar, Finish, Disconnect, Forget, Disposed, CallDone, CallFails,
       Hear, Offer, Connect, Break, Move, vars

(* An update that awaits nothing is not interrupted.                       *)
LEMMA LoopingSteps ==
    ASSUME Typed, [Next]_vars, Looping
    PROVE  Operation \/ UNCHANGED vars
<1>1. Busy /\ phase = "looping"
  BY DEF Looping, Busy
<1>2. ~Starts
  BY <1>1 DEF Starts, Trigger, PeerJoined, PeerLeft
<1> QED
  BY <1>1, <1>2
     DEF Next, Starts, Collect, Disconnect, Forget, Disposed, CallDone,
         CallFails, Hear, Offer, Connect, Break, Move

LEMMA OperationDescends ==
    ASSUME Typed, Operation, ~Spins
    PROVE  phase' = "idle" \/ Size' < Size
<1>a. /\ initiated \in [Peers -> Entry] /\ received \in [Peers -> Entry]
      /\ candidates \in SUBSET Peers /\ known \in SUBSET Peers
  BY DEF Typed, TypeOK
<1>b. /\ ConnectionsCount(initiated, received) \in Nat
      /\ ConnectedCount(initiated, received) \in Nat
      /\ Cardinality(candidates) \in Nat
  BY SizeType DEF Typed
<1>1. CASE DropExcess
  <2> DEFINE S == {q \in known : IsConnectedTo(q)}
             n == ConnectedCount(initiated, received) - MaxConnections
  <2>1. S \in SUBSET Peers /\ S # {}
    BY <1>1, <1>a DEF DropExcess, Spins
  <2>2. n \in Nat /\ n > 0
    BY <1>1, <1>b, NetworkUpdateAssumption DEF DropExcess, Excess
  <2>3. PICK W \in Farthest(S, n) : /\ initiated' = Closed(initiated, W)
                                    /\ received' = Closed(received, W)
    BY <1>1 DEF DropExcess
  <2>4. W \in SUBSET S /\ W # {}
    BY <2>1, <2>2, SomeWorst
  <2>5. PICK q \in W : q \in Entries(initiated) \cup Entries(received)
    BY <2>4 DEF IsConnectedTo, Entries
  <2>6. /\ ConnectionsCount(initiated', received') \in Nat
        /\ ConnectionsCount(initiated', received') < ConnectionsCount(initiated, received)
    BY <2>3, <2>5, <1>a, FewerConnections
  <2>7. candidates' = candidates
    BY <1>1 DEF DropExcess
  <2> QED
    BY <2>6, <2>7, <1>b DEF Size
<1>2. CASE ConnectBetter
  <2>1. PICK q \in Best : candidates' = candidates \ {q}
    BY <1>2 DEF ConnectBetter
  <2>2. q \in candidates
    BY BestType
  <2>3. candidates' \in SUBSET candidates /\ candidates' # candidates
    BY <2>1, <2>2
  <2>4. Cardinality(candidates') \in Nat /\ Cardinality(candidates') < Cardinality(candidates)
    BY <2>3, <1>a, SmallerSet
  <2>5. initiated' = initiated /\ received' = received
    BY <1>2 DEF ConnectBetter
  <2> QED
    BY <2>4, <2>5, <1>b DEF Size
<1>3. CASE DropFar
  <2>1. PICK q : q \in TooFar
    BY <1>3 DEF DropFar
  <2>2. q \in Entries(initiated) \cup Entries(received)
    BY <2>1 DEF TooFar, ConnectedPeerIds
  <2>3. initiated' = Closed(initiated, TooFar) /\ received' = Closed(received, TooFar)
    BY <1>3 DEF DropFar
  <2>4. /\ ConnectionsCount(initiated', received') \in Nat
        /\ ConnectionsCount(initiated', received') < ConnectionsCount(initiated, received)
    BY <2>1, <2>2, <2>3, <1>a, FewerConnections
  <2>5. candidates' \in SUBSET candidates
    BY <1>3 DEF DropFar
  <2>6. Cardinality(candidates') \in Nat /\ Cardinality(candidates') <= Cardinality(candidates)
    BY <2>5, <1>a, SmallerSet
  <2> QED
    BY <2>4, <2>6, <1>b DEF Size
<1>4. CASE Finish
  BY <1>4 DEF Finish
<1> QED
  BY <1>1, <1>2, <1>3, <1>4 DEF Operation

(* Unless there are too many connections and all are with peers not known, *)
(* every operation of the loop of an update leaves it with less to do: the *)
(* safety half of why updates end, for every number of peers.              *)
THEOREM DescendsCorrect == Spec => Descends
<1>1. Typed /\ [Next]_vars =>
        [/\ phase = "looping" => candidates' \subseteq candidates
         /\ Looping /\ ~Spins =>
               \/ phase' = "idle"
               \/ ConnectionsCount(initiated', received') + Cardinality(candidates')
                     < ConnectionsCount(initiated, received) + Cardinality(candidates)]_vars
  <2>a. SUFFICES ASSUME Typed, [Next]_vars, ~UNCHANGED vars
                 PROVE  /\ phase = "looping" => candidates' \subseteq candidates
                        /\ Looping /\ ~Spins => phase' = "idle" \/ Size' < Size
    BY DEF Size, ConnectionsCount
  <2>1. phase = "looping" => candidates' \subseteq candidates
    BY <2>a, CandidatesShrink
  <2>2. Looping /\ ~Spins => phase' = "idle" \/ Size' < Size
    BY <2>a, LoopingSteps, OperationDescends
  <2> QED
    BY <2>1, <2>2
<1> QED
  BY <1>1, TypedInit, TypedNext, PTL DEF Spec, Descends

(* An update that finds too many connections, none of them with a known    *)
(* peer, is not left again: the operation that drops the worst drops none  *)
(* and awaits nothing, so that nothing else of this client ever runs.      *)
THEOREM SpinsForever == Spec => [][~(Looping /\ Spins)]_vars
<1>1. Typed /\ [Next]_vars => [~(Looping /\ Spins)]_vars
  <2>a. SUFFICES ASSUME Typed, [Next]_vars, Looping, Spins
                 PROVE  UNCHANGED vars
    OBVIOUS
  <2>1. CASE DropExcess
    <3>1. {q \in known : IsConnectedTo(q)} = {}
      BY <2>a DEF Spins
    <3>2. PICK W \in SUBSET {} : /\ initiated' = Closed(initiated, W)
                                 /\ received' = Closed(received, W)
      BY <2>1, <3>1 DEF DropExcess, Farthest
    <3>3. initiated' = initiated /\ received' = received
      BY <3>2, <2>a DEF Typed, TypeOK, Closed
    <3> QED
      BY <2>1, <3>3 DEF DropExcess, vars
  <2>2. ~(ConnectBetter \/ DropFar \/ Finish)
    BY <2>a DEF Spins, ConnectBetter, DropFar, Finish
  <2> QED
    BY <2>a, <2>1, <2>2, LoopingSteps DEF Operation
<1> QED
  BY <1>1, TypedInit, TypedNext, PTL DEF Spec

-----------------------------------------------------------------------------
(* The contract with the mesh                                              *)

(* Nothing was thrown where nothing is, and no call is left alone.         *)
Unthrown == "reject" \notin Env => ~threw

(* The maps of a disposed mesh: nothing is received, nothing is up.        *)
Emptied ==
    disposed = "disposed" =>
        \A q \in Peers : initiated[q] # "up" /\ received[q] = "none"

Contracted == Single /\ Forgotten /\ Unthrown /\ Emptied

Calling == {q \in Peers : calls[q] > 0}

(* Until calls may be rejected, an update that awaits nothing is alone.    *)
LEMMA NobodyCalling ==
    ASSUME Contracted, "reject" \notin Env, awaited = {}
    PROVE  Calling = {}
BY DEF Contracted, Unthrown, Single, Calling

LEMMA CallingGrows ==
    ASSUME Typed, NEW new \in SUBSET Peers,
           \A q \in Peers : calls'[q] = IF q \in new THEN calls[q] + 1 ELSE calls[q]
    PROVE  Calling' = Calling \cup new
<1>1. \A q \in Peers : calls[q] \in Nat
  BY DEF Typed, TypeOK
<1> QED
  BY <1>1 DEF Calling

(* The new calls of a turn are for peers without an entry.                 *)
Bare(new) ==
    /\ \A q \in new : initiated'[q] = "none" /\ received'[q] = "none"
    /\ new # {} => disposed \in {"no", "leaving"} /\ awaited = {}

LEMMA TurnView ==
    ASSUME Typed, Contracted, NEW dropped, NEW new \in SUBSET Peers, Bare(new),
           NEW x \in SUBSET Trying(initiated), NEW y \in SUBSET Trying(received),
           x \cup y # {} => disposed = "no",
           initiated' = Closed(initiated, dropped \cup x),
           received' = Closed(received, dropped \cup y),
           Calling' = Calling \cup new,
           UNCHANGED disposed
    PROVE  View!Turn(dropped, new)
<1>1. x \in SUBSET View!Trying(initiated) /\ y \in SUBSET View!Trying(received)
  BY DEF Trying, View!Trying
<1>2. /\ initiated' = View!Closed(initiated, dropped \cup x)
      /\ received' = View!Closed(received, dropped \cup y)
  BY DEF Closed, View!Closed
<1>3. \A q \in new : disposed \in {"no", "leaving"} /\ ("reject" \in Env \/ q \notin Calling)
  BY NobodyCalling DEF Bare
<1> QED
  BY <1>1, <1>2, <1>3 DEF View!Turn, Bare, Calling

(* A turn that only disconnects.                                           *)
LEMMA DropView ==
    ASSUME Typed, Contracted, NEW dropped,
           initiated' = Closed(initiated, dropped),
           received' = Closed(received, dropped),
           UNCHANGED <<calls, disposed>>
    PROVE  View!Turn(dropped, {})
<1>1. {} \in SUBSET Trying(initiated) /\ {} \in SUBSET Trying(received)
  OBVIOUS
<1>2. dropped \cup {} = dropped
  OBVIOUS
<1>3. Calling' = Calling \cup {}
  BY DEF Calling
<1>4. Bare({})
  BY DEF Bare
<1> QED
  BY <1>1, <1>2, <1>3, <1>4, TurnView

LEMMA ClosedNone ==
    ASSUME NEW map \in [Peers -> Entry]
    PROVE  Closed(map, {}) = map
BY DEF Closed

LEMMA ClosedTwice ==
    ASSUME NEW map \in [Peers -> Entry], NEW S, NEW T
    PROVE  Closed(Closed(map, S), T) = Closed(map, S \cup T)
BY DEF Closed

(* updateNetwork, called by a handler that disconnects from these peers.   *)
LEMMA UpdateNetworkView ==
    ASSUME Typed, Contracted, NEW dropped, Listening,
           known' \in SUBSET Peers, UNCHANGED disposed,
           UpdateNetwork(known', distance', Closed(initiated, dropped),
                         Closed(received, dropped))
    PROVE  \E new \in SUBSET Peers : View!Turn(dropped, new)
<1>a. initiated \in [Peers -> Entry] /\ received \in [Peers -> Entry]
  BY DEF Typed, TypeOK
<1>1. CASE phase # "idle" \/ disposed # "no"
  <2>1. View!Turn(dropped, {})
    BY <1>1, DropView DEF UpdateNetwork
  <2> QED
    BY <2>1
<1>2. CASE phase = "idle" /\ disposed = "no"
  <2>1. PICK x \in SUBSET Trying(Closed(initiated, dropped)),
             y \in SUBSET Trying(Closed(received, dropped)) :
           /\ initiated' = Closed(Closed(initiated, dropped), x)
           /\ received' = Closed(Closed(received, dropped), y)
           /\ \E picked \in Picked(known', distance', initiated', received') :
                 /\ awaited' = picked
                 /\ calls' = [q \in Peers |->
                                IF q \in picked THEN calls[q] + 1 ELSE calls[q]]
    BY <1>2 DEF UpdateNetwork
  <2>2. /\ initiated' = Closed(initiated, dropped \cup x)
        /\ received' = Closed(received, dropped \cup y)
    BY <2>1, <1>a, ClosedTwice
  <2>3. x \in SUBSET Trying(initiated) /\ y \in SUBSET Trying(received)
    BY <2>1 DEF Trying, Closed
  <2>4. PICK new \in Picked(known', distance', initiated', received') :
           calls' = [q \in Peers |-> IF q \in new THEN calls[q] + 1 ELSE calls[q]]
    BY <2>1
  <2>5. new \in SUBSET (known' \ (Entries(initiated') \cup Entries(received')))
    BY <2>4 DEF Picked, Nearest, Candidates
  <2>6. new \in SUBSET Peers
    BY <2>5
  <2>7. \A q \in Peers : initiated'[q] \in Entry /\ received'[q] \in Entry
    BY <1>a, <2>2 DEF Closed, Entry
  <2>8. \A q \in new : initiated'[q] = "none" /\ received'[q] = "none"
    BY <2>5, <2>6, <2>7 DEF Entries, Up, Trying, Entry
  <2>9. Bare(new)
    BY <2>8, <1>2 DEF Bare, Typed, Counted
  <2>10. Calling' = Calling \cup new
    BY <2>4, <2>6, CallingGrows
  <2>11. View!Turn(dropped, new)
    BY <1>2, <2>2, <2>3, <2>6, <2>9, <2>10, TurnView
  <2> QED
    BY <2>6, <2>11
<1> QED
  BY <1>1, <1>2

LEMMA StartsView ==
    ASSUME Typed, Contracted, Starts
    PROVE  View!Next
<1>a. initiated \in [Peers -> Entry] /\ received \in [Peers -> Entry]
  BY DEF Typed, TypeOK
<1>b. Closed(initiated, {}) = initiated /\ Closed(received, {}) = received
  BY <1>a, ClosedNone
<1>1. ASSUME NEW dropped \in SUBSET Peers,
             \E new \in SUBSET Peers : View!Turn(dropped, new)
      PROVE  View!Next
  BY <1>1 DEF View!Next
<1>2. CASE Trigger
  <2>1. known' \in SUBSET Peers /\ UNCHANGED disposed /\ Listening
    BY <1>2 DEF Trigger, Typed, TypeOK, Listening
  <2>2. UpdateNetwork(known', distance', Closed(initiated, {}), Closed(received, {}))
    BY <1>2, <1>b DEF Trigger
  <2>3. \E new \in SUBSET Peers : View!Turn({}, new)
    BY <2>1, <2>2, UpdateNetworkView
  <2> QED
    BY <1>1, <2>3
<1>3. ASSUME NEW q \in Peers, PeerJoined(q)
      PROVE  View!Next
  <2>1. known' \in SUBSET Peers /\ UNCHANGED disposed /\ Listening
    BY <1>3 DEF PeerJoined, Typed, TypeOK
  <2>2. UpdateNetwork(known', distance', Closed(initiated, {}), Closed(received, {}))
    BY <1>3, <1>b DEF PeerJoined
  <2>3. \E new \in SUBSET Peers : View!Turn({}, new)
    BY <2>1, <2>2, UpdateNetworkView
  <2> QED
    BY <1>1, <2>3
<1>4. ASSUME NEW q \in Peers, PeerLeft(q)
      PROVE  View!Next
  <2>1. known' \in SUBSET Peers /\ UNCHANGED disposed /\ Listening
    BY <1>4 DEF PeerLeft, Typed, TypeOK
  <2>2. UpdateNetwork(known', distance', Closed(initiated, {q}), Closed(received, {q}))
    BY <1>4 DEF PeerLeft
  <2>3. \E new \in SUBSET Peers : View!Turn({q}, new)
    BY <2>1, <2>2, UpdateNetworkView
  <2> QED
    BY <1>1, <2>3
<1> QED
  BY <1>2, <1>3, <1>4 DEF Starts

LEMMA OperationView ==
    ASSUME Typed, Contracted, Collect \/ Operation
    PROVE  View!Next \/ UNCHANGED View!vars
<1>a. initiated \in [Peers -> Entry] /\ received \in [Peers -> Entry]
  BY DEF Typed, TypeOK
<1>1. CASE Collect \/ Finish
  BY <1>1 DEF Collect, Finish, View!vars
<1>2. CASE DropExcess
  <2>1. PICK W \in SUBSET known : /\ initiated' = Closed(initiated, W)
                                  /\ received' = Closed(received, W)
    BY <1>2 DEF DropExcess, Farthest
  <2>2. View!Turn(W, {})
    BY <1>2, <2>1, DropView DEF DropExcess
  <2>3. W \in SUBSET Peers
    BY <2>1 DEF Typed, TypeOK
  <2> QED
    BY <2>2, <2>3 DEF View!Next
<1>3. CASE DropFar
  <2>1. View!Turn(TooFar, {})
    BY <1>3, DropView DEF DropFar
  <2>2. TooFar \in SUBSET Peers
    BY DEF TooFar, ConnectedPeerIds, Entries, Up, Trying
  <2> QED
    BY <2>1, <2>2 DEF View!Next
<1>4. CASE ConnectBetter
  <2>1. PICK q \in Best, worst \in WorstDistances :
           /\ Better(q, worst)
           /\ IF q \in ConnectedPeerIds
              THEN UNCHANGED <<calls, awaited>>
              ELSE calls' = [calls EXCEPT ![q] = @ + 1]
    BY <1>4 DEF ConnectBetter
  <2>2. UNCHANGED <<initiated, received, disposed>> /\ awaited = {}
    BY <1>4 DEF ConnectBetter, Looping
  <2>3. CASE q \in ConnectedPeerIds
    BY <2>1, <2>2, <2>3 DEF View!vars
  <2>4. CASE q \notin ConnectedPeerIds
    <3>1. q \in Peers
      BY <2>1, BestType DEF Typed, TypeOK
    <3>2. initiated[q] = "none" /\ received[q] = "none"
      BY <1>a, <2>4, <3>1 DEF ConnectedPeerIds, Entries, Up, Trying, Entry
    <3>3. distance[q] # None
      BY <2>1 DEF Better
    <3>4. disposed \in {"no", "leaving"}
      BY <3>1, <3>3 DEF Contracted, Forgotten, Listening, Typed, TypeOK
    <3>5. Bare({q})
      BY <2>2, <3>2, <3>4 DEF Bare
    <3>6. \A r \in Peers : calls'[r] = IF r \in {q} THEN calls[r] + 1 ELSE calls[r]
      BY <2>1, <2>4 DEF Typed, TypeOK
    <3>7. Calling' = Calling \cup {q}
      BY <3>1, <3>6, CallingGrows
    <3>8. initiated' = Closed(initiated, {} \cup {}) /\ received' = Closed(received, {} \cup {})
      BY <1>a, <2>2, ClosedNone
    <3>9. {} \in SUBSET Trying(initiated) /\ {} \in SUBSET Trying(received)
      OBVIOUS
    <3>10. View!Turn({}, {q})
      BY <2>2, <3>1, <3>5, <3>7, <3>8, <3>9, TurnView
    <3> QED
      BY <3>1, <3>10 DEF View!Next
  <2> QED
    BY <2>3, <2>4
<1> QED
  BY <1>1, <1>2, <1>3, <1>4 DEF Operation

LEMMA CallView ==
    ASSUME Typed, Contracted, NEW q \in Peers, CallDone(q) \/ CallFails(q)
    PROVE  View!Next
<1>1. calls' = [calls EXCEPT ![q] = @ - 1] /\ calls[q] > 0
  BY DEF CallDone, CallFails
<1>2. calls \in [Peers -> 0..MaxCalls] /\ calls[q] \in Nat
  BY DEF Typed, TypeOK
<1>3. q \in Calling
  BY <1>1 DEF Calling
<1>4. calls[q] > 1 => "reject" \in Env
  BY DEF Contracted, Unthrown, Single
<1>5. \A r \in Peers : r # q => calls'[r] = calls[r]
  BY <1>1, <1>2
<1>6. calls'[q] = calls[q] - 1
  BY <1>1, <1>2
<1>7. CASE calls[q] = 1
  <2>1. Calling' = Calling \ {q}
    BY <1>5, <1>6, <1>7 DEF Calling
  <2> QED
    BY <1>3, <2>1 DEF CallDone, CallFails, Calling, View!Next, View!Return,
       View!Throw, View!Settles
<1>8. CASE calls[q] > 1
  <2>1. Calling' = Calling
    BY <1>5, <1>6, <1>8, <1>2 DEF Calling
  <2> QED
    BY <1>3, <1>4, <1>8, <2>1 DEF CallDone, CallFails, Calling, View!Next,
       View!Return, View!Throw, View!Settles
<1> QED
  BY <1>1, <1>2, <1>7, <1>8

LEMMA MeshStepView ==
    ASSUME Typed, Contracted, NEW q \in Peers, Offer(q) \/ Connect(q) \/ Break(q)
    PROVE  View!Next \/ UNCHANGED View!vars
<1>1. CASE Offer(q)
  <2>1. View!Yield(q) \/ View!Accept(q)
    BY <1>1 DEF Offer, ShouldAcceptOffer, View!Yield, View!Accept, View!Yields
  <2> QED
    BY <2>1 DEF View!Next
<1>2. CASE Connect(q)
  <2>1. View!Up(q)
    BY <1>2 DEF Connect, View!Up, Typed, TypeOK
  <2> QED
    BY <2>1 DEF View!Next
<1>3. CASE Break(q)
  <2>a. initiated \in [Peers -> Entry] /\ received \in [Peers -> Entry]
    BY DEF Typed, TypeOK
  <2>b. UNCHANGED <<calls, disposed>> /\ disposed # "disposed"
    BY <1>3 DEF Break, Contracted, Emptied
  <2>1. CASE initiated[q] = "up" /\ initiated' = [initiated EXCEPT ![q] = "trying"]
             /\ UNCHANGED received
    BY <2>1, <2>b DEF View!Down, View!Next, Typed, TypeOK
  <2>2. CASE received[q] # "none" /\ received' = [received EXCEPT ![q] = "none"]
             /\ UNCHANGED initiated
    BY <2>2, <2>b DEF View!Lose, View!Next
  <2>3. CASE received[q] = "up" /\ received' = [received EXCEPT ![q] = "trying"]
             /\ UNCHANGED initiated
    BY <2>3, <2>b DEF View!Down, View!Next, Typed, TypeOK
  <2>4. CASE received[q] = "trying" /\ received' = [received EXCEPT ![q] = "trying"]
             /\ UNCHANGED initiated
    BY <2>a, <2>4, <2>b DEF View!vars
  <2> QED
    BY <1>3, <2>a, <2>1, <2>2, <2>3, <2>4 DEF Break, Entry
<1> QED
  BY <1>1, <1>2, <1>3

LEMMA NextView ==
    ASSUME Typed, Contracted, [Next]_vars
    PROVE  View!Next \/ UNCHANGED View!vars
<1>1. ASSUME NEW q \in Peers, Hear(q) PROVE UNCHANGED View!vars
  BY <1>1 DEF Hear, View!vars
<1>2. ASSUME NEW q \in Peers, NEW d \in Distances, Move(q, d) PROVE UNCHANGED View!vars
  BY <1>2 DEF Move, View!vars
<1>3. CASE Disconnect
  BY <1>3 DEF Disconnect, View!vars
<1>4. CASE Forget
  <2>1. View!Dispose
    BY <1>4 DEF Forget, View!Dispose
  <2> QED
    BY <2>1 DEF View!Next
<1>5. CASE Disposed
  <2>1. View!Disposed
    BY <1>5 DEF Disposed, View!Disposed, Closed, View!Closed
  <2> QED
    BY <2>1 DEF View!Next
<1>6. CASE UNCHANGED vars
  BY <1>6 DEF vars, View!vars
<1> QED
  BY <1>1, <1>2, <1>3, <1>4, <1>5, <1>6, StartsView, OperationView, CallView,
     MeshStepView DEF Next, Starts

LEMMA EmptiedNext ==
    ASSUME Typed, Contracted, [Next]_vars
    PROVE  Emptied'
<1>a. SUFFICES ASSUME disposed' = "disposed", NEW q \in Peers
               PROVE  initiated'[q] # "up" /\ received'[q] = "none"
  BY DEF Emptied
<1>b. initiated \in [Peers -> Entry] /\ received \in [Peers -> Entry]
  BY DEF Typed, TypeOK
<1>c. disposed = "disposed" => initiated[q] # "up" /\ received[q] = "none"
  BY DEF Contracted, Emptied
<1>1. CASE Disposed
  BY <1>1 DEF Disposed, Closed
<1>2. CASE Starts
  BY <1>2, <1>a, StartsEffect DEF Started, Listening, Typed
<1>3. CASE Collect \/ Operation
  BY <1>3, <1>a, <1>b, <1>c
     DEF Collect, Operation, DropExcess, ConnectBetter, DropFar, Finish, Closed
<1>4. CASE Disconnect \/ Forget
  BY <1>4, <1>a DEF Disconnect, Forget
<1>5. ASSUME NEW r \in Peers, CallDone(r) \/ CallFails(r)
      PROVE  initiated'[q] # "up" /\ received'[q] = "none"
  BY <1>5, <1>a, <1>b, <1>c DEF CallDone, CallFails
<1>6. ASSUME NEW r \in Peers, Hear(r) \/ Offer(r) \/ Connect(r) \/ Break(r)
      PROVE  initiated'[q] # "up" /\ received'[q] = "none"
  BY <1>6, <1>a, <1>b, <1>c
     DEF Hear, Offer, ShouldAcceptOffer, Connect, Break, Contracted, Emptied
<1>7. ASSUME NEW r \in Peers, NEW d \in Distances, Move(r, d)
      PROVE  initiated'[q] # "up" /\ received'[q] = "none"
  BY <1>7, <1>a, <1>c DEF Move
<1>8. CASE UNCHANGED vars
  BY <1>8, <1>a, <1>c DEF vars
<1> QED
  BY <1>1, <1>2, <1>3, <1>4, <1>5, <1>6, <1>7, <1>8 DEF Next, Starts, Typed

LEMMA UnthrownNext ==
    ASSUME Typed, Unthrown, [Next]_vars
    PROVE  Unthrown'
<1>1. CASE Starts
  BY <1>1, StartsEffect DEF Started, Unthrown, Typed
<1> QED
  BY <1>1 DEF Unthrown, Next, Starts, Collect, Operation, DropExcess,
       ConnectBetter, DropFar, Finish, Disconnect, Forget, Disposed, CallDone,
       CallFails, Hear, Offer, Connect, Break, Move, vars

LEMMA ContractedInit == Init => Contracted
BY DEF Init, Contracted, Single, Forgotten, Listening, Unthrown, Emptied

LEMMA ContractedNext == Typed /\ Contracted /\ [Next]_vars => Contracted'
BY SingleNext, ForgottenNext, UnthrownNext, EmptiedNext DEF Contracted

(* The network update and its mesh: what the transport asks of a mesh, and *)
(* what it is prepared to find in its maps, is the contract MeshView, for  *)
(* every set of peers, every limit and every environment.                  *)
THEOREM NetworkUpdateKeepsContract == Spec => ImplementsView
<1>1. Init => View!Init
  <2>1. ASSUME Init PROVE {q \in Peers : calls[q] > 0} = {}
    BY <2>1 DEF Init
  <2> QED
    BY <2>1 DEF Init, View!Init
<1>2. Typed /\ Contracted /\ [Next]_vars => [View!Next]_(View!vars)
  BY NextView
<1> QED
  BY <1>1, <1>2, TypedInit, TypedNext, ContractedInit, ContractedNext, PTL
     DEF Spec, ImplementsView, View!Spec

=============================================================================
