-------------------------- MODULE TransportsProofs --------------------------
(***************************************************************************)
(* Theorems about Transports, for any number of sockets, peers and calls.  *)
(***************************************************************************)
EXTENDS Transports, TLAPS

-----------------------------------------------------------------------------
(* WsTransport                                                             *)

States == {"none", "connecting", "open", "leaving", "left", "lost"}
Live == {"connecting", "open"}

(* The socket in use, and only this one, has its handlers and is alive.    *)
InUse ==
    /\ \A s \in Sockets : handlers[s] # {} => ws = s
    /\ \A s \in Sockets : socket[s] \in Live => ws = s
    /\ ws # Nobody => handlers[ws] = Handlers /\ socket[ws] \in Live
    /\ \A s \in Sockets :
          socket[s] \in {"none", "connecting"} =>
              inbox[s] = << >> /\ room[s] = [a \in Aliases |-> Nobody]

WsInv == WsTypeOK /\ InUse

LEMMA RoomsKept ==
    ASSUME NEW peers \in Rooms, aliases \in Rooms
    PROVE  Named(peers) \in Rooms
<1> QED
  BY DEF Named, Rooms

LEMMA HangUpTyped ==
    ASSUME WsTypeOK, ws # Nobody, NEW sockets \in [Sockets -> States], HangUp(sockets)
    PROVE  /\ ws' = Nobody
           /\ socket' \in [Sockets -> States]
           /\ handlers' = [handlers EXCEPT ![ws] = {}]
           /\ handlers' \in [Sockets -> SUBSET Handlers]
           /\ \A s \in Sockets : s # ws => socket'[s] = sockets[s]
           /\ socket'[ws] \notin Live
           /\ sockets[ws] \notin Live => socket'[ws] = sockets[ws]
           /\ wsTold' = wsTold + 1 /\ wsTold' \in Nat
<1>1. ws \in Sockets
  BY DEF WsTypeOK
<1>2. ws' = Nobody /\ handlers' = [handlers EXCEPT ![ws] = {}] /\ wsTold' = wsTold + 1
  BY DEF HangUp
<1>3. handlers' \in [Sockets -> SUBSET Handlers] /\ wsTold' \in Nat
  BY <1>2 DEF WsTypeOK
<1>4. \/ sockets[ws] \in Live /\ socket' = [sockets EXCEPT ![ws] = "leaving"]
      \/ sockets[ws] \notin Live /\ socket' = sockets
  BY DEF HangUp, Live
<1>5. /\ socket' \in [Sockets -> States]
      /\ \A s \in Sockets : s # ws => socket'[s] = sockets[s]
      /\ socket'[ws] \notin Live
      /\ sockets[ws] \notin Live => socket'[ws] = sockets[ws]
  BY <1>1, <1>4 DEF States, Live
<1> QED
  BY <1>2, <1>3, <1>5

(* What the end of a socket does, by its state.                            *)
LEMMA EndsHow ==
    ASSUME WsInv, NEW s \in Sockets, NEW failed \in BOOLEAN, SocketEnds(s, failed)
    PROVE  \/ /\ ws = s /\ ws' = Nobody
              /\ socket' = [socket EXCEPT ![s] = "lost"]
              /\ handlers' = [handlers EXCEPT ![s] = {}]
              /\ wsTold' = wsTold + 1
           \/ /\ ws # s /\ socket[s] = "leaving"
              /\ socket' = [socket EXCEPT ![s] = "left"]
              /\ UNCHANGED <<ws, handlers, wsTold>>
<1> DEFINE ended == [socket EXCEPT ![s] = IF @ = "leaving" THEN "left" ELSE "lost"]
           called == handlers[s] \cap (IF failed THEN {"error", "close"} ELSE {"close"})
<1>1. socket[s] \in {"open", "leaving", "connecting"}
  BY DEF SocketEnds
<1>2. socket \in [Sockets -> States] /\ handlers \in [Sockets -> SUBSET Handlers]
  BY DEF WsInv, WsTypeOK, States
<1>3. Nobody \notin Sockets
  BY WsAssumption
<1>4. CASE ws = s
  <2>1. handlers[s] = Handlers /\ socket[s] \in Live
    BY <1>3, <1>4 DEF WsInv, InUse
  <2>2. "close" \in called
    BY <2>1 DEF Handlers
  <2>3. HangUp(ended)
    BY <2>2, <1>3, <1>4 DEF SocketEnds
  <2>4. ended = [socket EXCEPT ![s] = "lost"]
    BY <2>1, <1>2 DEF Live
  <2>5. ended[ws] = "lost"
    BY <2>4, <1>2, <1>4
  <2>6. socket' = ended /\ ws' = Nobody /\ wsTold' = wsTold + 1
        /\ handlers' = [handlers EXCEPT ![ws] = {}]
    BY <2>3, <2>5 DEF HangUp
  <2> QED
    BY <2>4, <2>6, <1>4
<1>5. CASE ws # s
  <2>1. handlers[s] = {} /\ socket[s] \notin Live
    BY <1>5 DEF WsInv, InUse
  <2>2. called = {}
    BY <2>1
  <2>3. socket' = ended /\ UNCHANGED <<ws, handlers, wsTold>>
    BY <2>2 DEF SocketEnds
  <2>4. socket[s] = "leaving"
    BY <2>1, <1>1 DEF Live
  <2>5. ended = [socket EXCEPT ![s] = "left"]
    BY <2>4, <1>2
  <2> QED
    BY <2>3, <2>4, <2>5, <1>5
<1> QED
  BY <1>4, <1>5

LEMMA WsInvInit == WsInit => WsInv
<1>1. SUFFICES ASSUME WsInit PROVE WsInv
  OBVIOUS
<1>2. << >> \in Seq(WsPackets)
  OBVIOUS
<1>3. [a \in Aliases |-> Nobody] \in Rooms
  BY DEF Rooms
<1>4. updates \in 0..MaxUpdates
  BY <1>1, WsAssumption DEF WsInit
<1>5. WsTypeOK
  BY <1>1, <1>2, <1>3, <1>4 DEF WsInit, WsTypeOK
<1>6. InUse
  BY <1>1 DEF WsInit, InUse, Live
<1> QED
  BY <1>5, <1>6 DEF WsInv

LEMMA PacketTyped ==
    ASSUME WsInv, NEW s \in Sockets, inbox[s] # << >>
    PROVE  /\ Head(inbox[s]) \in WsPackets
           /\ Tail(inbox[s]) \in Seq(WsPackets)
<1>1. inbox[s] \in Seq(WsPackets)
  BY DEF WsInv, WsTypeOK
<1> QED
  BY <1>1

LEMMA WsInvNext == WsInv /\ WsNext => WsInv'
<1>a. SUFFICES ASSUME WsInv, WsNext PROVE WsInv'
  OBVIOUS
<1>t. /\ ws \in Sockets \cup {Nobody}
      /\ socket \in [Sockets -> States]
      /\ handlers \in [Sockets -> SUBSET Handlers]
      /\ promise \in [Sockets -> {"none", "pending", "resolved", "rejected"}]
      /\ aliases \in Rooms
      /\ room \in [Sockets -> Rooms]
      /\ inbox \in [Sockets -> Seq(WsPackets)]
      /\ updates \in 0..MaxUpdates
      /\ emitted \in (Users \cup {Nobody}) \X (Users \cup {Nobody})
      /\ wsHeard \in Nat /\ wsTold \in Nat
  BY <1>a DEF WsInv, WsTypeOK, States
<1>u. Nobody \notin Sockets
  BY WsAssumption
<1>e. << >> \in Seq(WsPackets)
  OBVIOUS
<1>1. ASSUME WsDisconnect
      PROVE  WsInv'
  <2>1. ws # Nobody /\ ws \in Sockets /\ HangUp(socket)
    BY <1>1, <1>t DEF WsDisconnect
  <2>2. /\ ws' = Nobody
        /\ socket' \in [Sockets -> States]
        /\ handlers' = [handlers EXCEPT ![ws] = {}]
        /\ handlers' \in [Sockets -> SUBSET Handlers]
        /\ \A s \in Sockets : s # ws => socket'[s] = socket[s]
        /\ socket'[ws] \notin Live
        /\ wsTold' \in Nat
    BY <2>1, <1>a, <1>t, HangUpTyped DEF WsInv
  <2>3. WsTypeOK'
    BY <1>1, <1>t, <2>2 DEF WsDisconnect, WsTypeOK, States
  <2>4. socket'[ws] = "leaving"
    BY <2>1, <1>a, <1>t, <1>u DEF HangUp, WsInv, InUse, Live
  <2>5. \A s \in Sockets : handlers'[s] = {} /\ socket'[s] \notin Live
    BY <2>2, <1>a, <1>t DEF WsInv, InUse
  <2>6. \A s \in Sockets : socket'[s] \in {"none", "connecting"} => socket'[s] = socket[s]
    BY <2>2, <2>4
  <2>7. UNCHANGED <<inbox, room>>
    BY <1>1 DEF WsDisconnect
  <2>8. InUse'
    BY <2>2, <2>5, <2>6, <2>7, <1>a DEF WsInv, InUse
  <2> QED
    BY <2>3, <2>8 DEF WsInv
<1>2. ASSUME NEW s \in Sockets, WsConnect(s)
      PROVE  WsInv'
  <2>1. /\ ws = Nobody /\ ws' = s /\ socket[s] = "none"
        /\ socket' = [socket EXCEPT ![s] = "connecting"]
        /\ handlers' = [handlers EXCEPT ![s] = Handlers]
        /\ promise' = [promise EXCEPT ![s] = "pending"]
        /\ UNCHANGED <<aliases, room, inbox, updates, emitted, wsHeard, wsTold>>
    BY <1>2 DEF WsConnect, Unused
  <2>2. WsTypeOK'
    BY <2>1, <1>t DEF WsTypeOK, States
  <2>3. \A r \in Sockets : handlers[r] = {} /\ socket[r] \notin Live
    BY <2>1, <1>a, <1>u DEF WsInv, InUse
  <2>4. \A r \in Sockets : r # s => handlers'[r] = {} /\ socket'[r] \notin Live
    BY <2>1, <2>3, <1>t
  <2>5. handlers'[s] = Handlers /\ socket'[s] = "connecting"
    BY <2>1, <1>t
  <2>6. InUse'
    BY <2>1, <2>4, <2>5, <1>a, <1>t DEF WsInv, InUse, Live
  <2> QED
    BY <2>2, <2>6 DEF WsInv
<1>3. ASSUME NEW s \in Sockets, SocketOpens(s)
      PROVE  WsInv'
  <2>1. PICK peers \in Rooms :
           /\ socket[s] = "connecting"
           /\ socket' = [socket EXCEPT ![s] = "open"]
           /\ promise' = [promise EXCEPT ![s] = "resolved"]
           /\ room' = [room EXCEPT ![s] = peers]
           /\ inbox' = [inbox EXCEPT ![s] = << [type |-> "peers", peers |-> peers] >>]
           /\ UNCHANGED <<ws, handlers, aliases, updates, emitted, wsHeard, wsTold>>
    BY <1>3 DEF SocketOpens
  <2>2. << [type |-> "peers", peers |-> peers] >> \in Seq(WsPackets)
    <3>1. [type |-> "peers", peers |-> peers] \in WsPackets
      BY DEF WsPackets
    <3> QED
      BY <3>1
  <2>3. inbox' \in [Sockets -> Seq(WsPackets)]
    BY <2>1, <2>2, <1>t
  <2>4. WsTypeOK'
    BY <2>1, <2>3, <1>t DEF WsTypeOK, States
  <2>5. ws = s
    BY <2>1, <1>a DEF WsInv, InUse, Live
  <2>6. InUse'
    BY <2>1, <2>5, <1>a, <1>t DEF WsInv, InUse, Live
  <2> QED
    BY <2>4, <2>6 DEF WsInv
<1>4. ASSUME NEW s \in Sockets, NEW failed \in BOOLEAN, SocketEnds(s, failed)
      PROVE  WsInv'
  <2>1. /\ promise' \in [Sockets -> {"none", "pending", "resolved", "rejected"}]
        /\ inbox' = [inbox EXCEPT ![s] = << >>]
        /\ UNCHANGED <<aliases, room, updates, emitted, wsHeard>>
    <3>1. \E x \in {"none", "pending", "resolved", "rejected"} :
             promise' = [promise EXCEPT ![s] = x]
      BY <1>4, <1>t DEF SocketEnds
    <3> QED
      BY <1>4, <1>t, <3>1 DEF SocketEnds
  <2>2. inbox' \in [Sockets -> Seq(WsPackets)]
    BY <2>1, <1>t, <1>e
  <2>3. CASE /\ ws = s /\ ws' = Nobody
             /\ socket' = [socket EXCEPT ![s] = "lost"]
             /\ handlers' = [handlers EXCEPT ![s] = {}]
             /\ wsTold' = wsTold + 1
    <3>1. WsTypeOK'
      BY <2>1, <2>2, <2>3, <1>t DEF WsTypeOK, States
    <3>2. \A r \in Sockets : handlers'[r] = {} /\ socket'[r] \notin Live
      BY <2>3, <1>a, <1>t DEF WsInv, InUse, Live
    <3>3. \A r \in Sockets : socket'[r] \in {"none", "connecting"} => r # s /\ socket'[r] = socket[r]
      BY <2>3, <1>t
    <3>4. InUse'
      BY <2>1, <2>3, <3>2, <3>3, <1>a, <1>t DEF WsInv, InUse
    <3> QED
      BY <3>1, <3>4 DEF WsInv
  <2>4. CASE /\ ws # s /\ socket[s] = "leaving"
             /\ socket' = [socket EXCEPT ![s] = "left"]
             /\ UNCHANGED <<ws, handlers, wsTold>>
    <3>1. WsTypeOK'
      BY <2>1, <2>2, <2>4, <1>t DEF WsTypeOK, States
    <3>2. InUse'
      BY <2>1, <2>4, <1>a, <1>t DEF WsInv, InUse, Live
    <3> QED
      BY <3>1, <3>2 DEF WsInv
  <2> QED
    BY <2>3, <2>4, <1>4, <1>a, EndsHow
<1>5. ASSUME NEW s \in Sockets, OnWsMessage(s)
      PROVE  WsInv'
  <2>1. /\ inbox[s] # << >>
        /\ inbox' = [inbox EXCEPT ![s] = Tail(@)]
        /\ UNCHANGED <<ws, socket, handlers, promise, room, updates, wsTold>>
    BY <1>5 DEF OnWsMessage
  <2>2. Head(inbox[s]) \in WsPackets /\ Tail(inbox[s]) \in Seq(WsPackets)
    BY <2>1, <1>a, PacketTyped
  <2>3. inbox' \in [Sockets -> Seq(WsPackets)]
    BY <2>1, <2>2, <1>t
  <2>4. /\ aliases' \in Rooms
        /\ emitted' \in (Users \cup {Nobody}) \X (Users \cup {Nobody})
        /\ wsHeard' \in Nat
    <3>1. CASE UNCHANGED <<aliases, emitted, wsHeard>>
      BY <3>1, <1>t
    <3>2. CASE /\ Head(inbox[s]).type = "peers"
               /\ aliases' = Named(Head(inbox[s]).peers) /\ UNCHANGED <<emitted, wsHeard>>
      <4>1. Head(inbox[s]).peers \in Rooms
        BY <2>2, <3>2 DEF WsPackets
      <4> QED
        BY <3>2, <4>1, <1>t, RoomsKept
    <3>3. CASE /\ Head(inbox[s]).type # "peers"
               /\ emitted' = <<aliases[Head(inbox[s]).alias], Head(inbox[s]).user>>
               /\ wsHeard' = wsHeard + 1 /\ UNCHANGED aliases
      <4>1. Head(inbox[s]).alias \in Aliases /\ Head(inbox[s]).user \in Users
        BY <2>2, <3>3 DEF WsPackets
      <4>2. aliases[Head(inbox[s]).alias] \in Users \cup {Nobody}
        BY <4>1, <1>t DEF Rooms
      <4> QED
        BY <3>3, <4>1, <4>2, <1>t
    <3> QED
      BY <1>5, <3>1, <3>2, <3>3 DEF OnWsMessage
  <2>5. WsTypeOK'
    BY <2>1, <2>3, <2>4, <1>t DEF WsTypeOK, States
  <2>6. InUse'
    BY <2>1, <1>a, <1>t DEF WsInv, InUse
  <2> QED
    BY <2>5, <2>6 DEF WsInv
<1>6. ASSUME NEW s \in Sockets, NEW a \in Aliases, NEW u \in Users, PeerEnters(s, a, u)
      PROVE  WsInv'
  <2> DEFINE packet == [type |-> "peers",
                        peers |-> [b \in Aliases |-> IF b = a THEN u ELSE Nobody]]
  <2>1. /\ socket[s] = "open"
        /\ room' = [room EXCEPT ![s][a] = u]
        /\ inbox' = [inbox EXCEPT ![s] = Append(@, packet)]
        /\ UNCHANGED <<ws, socket, handlers, promise, aliases, updates, emitted, wsHeard, wsTold>>
    BY <1>6 DEF PeerEnters, Serves
  <2>2. packet \in WsPackets
    BY DEF WsPackets, Rooms
  <2>3. Append(inbox[s], packet) \in Seq(WsPackets)
    BY <2>2, <1>t
  <2> HIDE DEF packet
  <2>4. inbox' \in [Sockets -> Seq(WsPackets)]
    BY <2>1, <2>3, <1>t
  <2>5. room' \in [Sockets -> Rooms]
    BY <2>1, <1>t DEF Rooms
  <2>6. WsTypeOK'
    BY <2>1, <2>4, <2>5, <1>t DEF WsTypeOK, States
  <2>7. InUse'
    BY <2>1, <1>a, <1>t DEF WsInv, InUse
  <2> QED
    BY <2>6, <2>7 DEF WsInv
<1>7. ASSUME NEW s \in Sockets, NEW a \in Aliases, PeerExits(s, a)
      PROVE  WsInv'
  <2>1. /\ socket[s] = "open"
        /\ room' = [room EXCEPT ![s][a] = Nobody]
        /\ UNCHANGED <<ws, socket, handlers, promise, aliases, inbox, updates, emitted, wsHeard, wsTold>>
    BY <1>7 DEF PeerExits, Serves
  <2>2. room' \in [Sockets -> Rooms]
    BY <2>1, <1>t DEF Rooms
  <2>3. WsTypeOK'
    BY <2>1, <2>2, <1>t DEF WsTypeOK, States
  <2>4. InUse'
    BY <2>1, <1>a, <1>t DEF WsInv, InUse
  <2> QED
    BY <2>3, <2>4 DEF WsInv
<1>8. ASSUME NEW s \in Sockets, NEW a \in Aliases, PeerUpdates(s, a)
      PROVE  WsInv'
  <2> DEFINE packet == [type |-> "update", alias |-> a, user |-> room[s][a]]
  <2>1. /\ socket[s] = "open" /\ room[s][a] # Nobody
        /\ updates' = updates + 1 /\ updates < MaxUpdates
        /\ inbox' = [inbox EXCEPT ![s] = Append(@, packet)]
        /\ UNCHANGED <<ws, socket, handlers, promise, aliases, room, emitted, wsHeard, wsTold>>
    BY <1>8 DEF PeerUpdates, Serves
  <2>2. room[s][a] \in Users
    BY <2>1, <1>t DEF Rooms
  <2>3. packet \in WsPackets
    BY <2>2 DEF WsPackets
  <2>4. Append(inbox[s], packet) \in Seq(WsPackets)
    BY <2>3, <1>t
  <2> HIDE DEF packet
  <2>5. inbox' \in [Sockets -> Seq(WsPackets)]
    BY <2>1, <2>4, <1>t
  <2>6. updates' \in 0..MaxUpdates
    BY <2>1, <1>t, WsAssumption
  <2>7. WsTypeOK'
    BY <2>1, <2>5, <2>6, <1>t DEF WsTypeOK, States
  <2>8. InUse'
    BY <2>1, <1>a, <1>t DEF WsInv, InUse
  <2> QED
    BY <2>7, <2>8 DEF WsInv
<1> QED
  BY <1>a, <1>1, <1>2, <1>3, <1>4, <1>5, <1>6, <1>7, <1>8 DEF WsNext

-----------------------------------------------------------------------------
(* Whose messages they are                                                 *)

Names(packet, a) == packet.type = "peers" /\ packet.peers[a] # Nobody

(* When the first n packets of the socket have been handled, a is called u. *)
Called(s, n, a, u) ==
    \/ \E j \in 1..n :
          /\ Names(inbox[s][j], a) /\ inbox[s][j].peers[a] = u
          /\ \A k \in j + 1..n : ~Names(inbox[s][k], a)
    \/ aliases[a] = u /\ \A k \in 1..n : ~Names(inbox[s][k], a)

(* So it is when an update is next, and when all that is sent is handled.  *)
Announced ==
    \A s \in Sockets :
        ws = s =>
            /\ \A a \in Aliases : room[s][a] # Nobody =>
                   Called(s, Len(inbox[s]), a, room[s][a])
            /\ \A i \in 1..Len(inbox[s]) : inbox[s][i].type = "update" =>
                   Called(s, i - 1, inbox[s][i].alias, inbox[s][i].user)

AttributionInv == WsInv /\ Announced /\ Attribution

(* Packets that are appended change nothing before them.                   *)
LEMMA CalledAppend ==
    ASSUME WsInv, NEW s \in Sockets, NEW packet \in WsPackets,
           inbox' = [inbox EXCEPT ![s] = Append(@, packet)], aliases' = aliases,
           NEW a \in Aliases, NEW u \in Users,
           NEW n \in Nat, n = Len(inbox[s])
    PROVE  /\ \A m \in 0..n : Called(s, m, a, u) => Called(s, m, a, u)'
           /\ Called(s, n, a, u) /\ ~Names(packet, a) => Called(s, n + 1, a, u)'
           /\ Names(packet, a) /\ packet.peers[a] = u => Called(s, n + 1, a, u)'
<1>1. inbox[s] \in Seq(WsPackets) /\ inbox \in [Sockets -> Seq(WsPackets)]
  BY DEF WsInv, WsTypeOK
<1>2. inbox'[s] = Append(inbox[s], packet)
  BY <1>1
<1>3. /\ inbox'[s][n + 1] = packet
      /\ \A k \in 1..n : inbox'[s][k] = inbox[s][k]
  BY <1>1, <1>2
<1>4. ASSUME NEW m \in 0..n, Called(s, m, a, u)
      PROVE  Called(s, m, a, u)'
  BY <1>3, <1>4 DEF Called
<1>5. ASSUME Called(s, n, a, u), ~Names(packet, a)
      PROVE  Called(s, n + 1, a, u)'
  <2>1. CASE aliases[a] = u /\ \A k \in 1..n : ~Names(inbox[s][k], a)
    <3>1. ASSUME NEW k \in 1..n + 1
          PROVE  ~Names(inbox'[s][k], a)
      <4>1. k \in 1..n \/ k = n + 1
        OBVIOUS
      <4> QED
        BY <4>1, <1>3, <1>5, <2>1
    <3> QED
      BY <2>1, <3>1 DEF Called
  <2>2. ASSUME NEW j \in 1..n, Names(inbox[s][j], a), inbox[s][j].peers[a] = u,
               \A k \in j + 1..n : ~Names(inbox[s][k], a)
        PROVE  Called(s, n + 1, a, u)'
    <3>1. ASSUME NEW k \in j + 1..n + 1
          PROVE  ~Names(inbox'[s][k], a)
      <4>1. (k \in j + 1..n /\ k \in 1..n) \/ k = n + 1
        OBVIOUS
      <4> QED
        BY <4>1, <1>3, <1>5, <2>2
    <3>2. j \in 1..n + 1 /\ inbox'[s][j] = inbox[s][j]
      BY <1>3
    <3> QED
      BY <2>2, <3>1, <3>2 DEF Called
  <2> QED
    BY <1>5, <2>1, <2>2 DEF Called
<1>6. ASSUME Names(packet, a), packet.peers[a] = u
      PROVE  Called(s, n + 1, a, u)'
  <2>1. n + 1 \in 1..n + 1 /\ (n + 1) + 1..n + 1 = {}
    OBVIOUS
  <2> QED
    BY <1>3, <1>6, <2>1 DEF Called
<1> QED
  BY <1>4, <1>5, <1>6

(* The packet that is handled is the first.                                *)
LEMMA CalledTail ==
    ASSUME WsInv, NEW s \in Sockets, inbox[s] # << >>,
           inbox' = [inbox EXCEPT ![s] = Tail(@)], aliases' \in Rooms,
           NEW a \in Aliases, NEW u \in Users,
           aliases'[a] = IF Names(Head(inbox[s]), a) THEN Head(inbox[s]).peers[a]
                         ELSE aliases[a],
           NEW n \in 1..Len(inbox[s]), Called(s, n, a, u)
    PROVE  Called(s, n - 1, a, u)'
<1>1. inbox[s] \in Seq(WsPackets) /\ inbox \in [Sockets -> Seq(WsPackets)]
  BY DEF WsInv, WsTypeOK
<1>2. inbox'[s] = Tail(inbox[s])
  BY <1>1
<1>3. /\ Len(inbox[s]) \in Nat
      /\ Head(inbox[s]) = inbox[s][1]
      /\ \A k \in 1..Len(inbox[s]) - 1 : inbox'[s][k] = inbox[s][k + 1]
  BY <1>1, <1>2
<1>4. \A k \in 1..n - 1 : k + 1 \in 1..n /\ inbox'[s][k] = inbox[s][k + 1]
  BY <1>3
<1>5. CASE aliases[a] = u /\ \A k \in 1..n : ~Names(inbox[s][k], a)
  <2>1. ~Names(inbox[s][1], a)
    BY <1>5, <1>3
  <2>2. aliases'[a] = u
    BY <2>1, <1>3, <1>5
  <2> QED
    BY <2>2, <1>4, <1>5 DEF Called
<1>6. ASSUME NEW j \in 1..n,
             Names(inbox[s][j], a), inbox[s][j].peers[a] = u,
             \A k \in j + 1..n : ~Names(inbox[s][k], a)
      PROVE  Called(s, n - 1, a, u)'
  <2>1. CASE j = 1
    <3>1. aliases'[a] = u
      BY <1>3, <1>6, <2>1
    <3>2. \A k \in 1..n - 1 : k + 1 \in j + 1..n
      BY <2>1
    <3> QED
      BY <3>1, <3>2, <1>4, <1>6 DEF Called
  <2>2. CASE j # 1
    <3>1. j - 1 \in 1..n - 1 /\ (j - 1) + 1 = j
      BY <2>2
    <3>2. inbox'[s][j - 1] = inbox[s][j]
      BY <3>1, <1>4
    <3>3. \A k \in (j - 1) + 1..n - 1 : k \in 1..n - 1 /\ k + 1 \in j + 1..n
      BY <3>1
    <3>4. \A k \in (j - 1) + 1..n - 1 : ~Names(inbox'[s][k], a)
      BY <3>3, <1>4, <1>6
    <3> QED
      BY <3>1, <3>2, <3>4, <1>6 DEF Called
  <2> QED
    BY <2>1, <2>2
<1> QED
  BY <1>5, <1>6 DEF Called

LEMMA AttributionInit == WsInit => AttributionInv
<1>1. SUFFICES ASSUME WsInit PROVE AttributionInv
  OBVIOUS
<1>2. \A s \in Sockets : ws # s
  BY <1>1, WsAssumption DEF WsInit
<1>3. Attribution
  BY <1>1 DEF WsInit, Attribution
<1> QED
  BY <1>1, <1>2, <1>3, WsInvInit DEF AttributionInv, Announced

(* The steps after which no new packet is there and no alias is different. *)
LEMMA AnnouncedKept ==
    ASSUME Announced, UNCHANGED <<aliases, room>>,
           \A s \in Sockets : ws' = s => ws = s /\ inbox'[s] = inbox[s]
    PROVE  Announced'
<1>1. ASSUME NEW s \in Sockets, ws' = s
      PROVE  /\ \A a \in Aliases : room'[s][a] # Nobody =>
                   Called(s, Len(inbox[s]), a, room[s][a])'
             /\ \A i \in 1..Len(inbox'[s]) : inbox'[s][i].type = "update" =>
                   Called(s, i - 1, inbox[s][i].alias, inbox[s][i].user)'
  <2>1. ws = s /\ inbox'[s] = inbox[s]
    BY <1>1
  <2>3. ASSUME NEW a \in Aliases, room'[s][a] # Nobody
        PROVE  Called(s, Len(inbox[s]), a, room[s][a])'
    <3>1. Called(s, Len(inbox[s]), a, room[s][a])
      BY <2>1, <2>3 DEF Announced
    <3> QED
      BY <3>1, <2>1 DEF Called
  <2>4. ASSUME NEW i \in 1..Len(inbox'[s]), inbox'[s][i].type = "update"
        PROVE  Called(s, i - 1, inbox[s][i].alias, inbox[s][i].user)'
    <3>1. Called(s, i - 1, inbox[s][i].alias, inbox[s][i].user)
      BY <2>1, <2>4 DEF Announced
    <3> QED
      BY <3>1, <2>1 DEF Called
  <2> QED
    BY <2>3, <2>4
<1> QED
  BY <1>1, Zenon DEF Announced

LEMMA AttributionNext == AttributionInv /\ WsNext => AttributionInv'
<1>a. SUFFICES ASSUME AttributionInv, WsNext PROVE AttributionInv'
  OBVIOUS
<1>b. WsInv /\ WsInv' /\ Announced /\ Attribution
  BY <1>a, WsInvNext DEF AttributionInv
<1>t. /\ ws \in Sockets \cup {Nobody}
      /\ aliases \in Rooms
      /\ room \in [Sockets -> Rooms]
      /\ inbox \in [Sockets -> Seq(WsPackets)]
      /\ Nobody \notin Sockets /\ Nobody \notin Users
  BY <1>b, WsAssumption DEF WsInv, WsTypeOK
<1>1. ASSUME WsDisconnect
      PROVE  Announced' /\ Attribution'
  <2>1. ws' = Nobody /\ UNCHANGED <<aliases, room, emitted>>
    BY <1>1 DEF WsDisconnect, HangUp
  <2> QED
    BY <2>1, <1>b, <1>t, AnnouncedKept DEF Attribution
<1>2. ASSUME NEW s \in Sockets, WsConnect(s)
      PROVE  Announced' /\ Attribution'
  <2>1. ws' = s /\ socket[s] = "none" /\ UNCHANGED <<aliases, room, inbox, emitted>>
    BY <1>2 DEF WsConnect, Unused
  <2>2. inbox[s] = << >> /\ \A a \in Aliases : room[s][a] = Nobody
    BY <2>1, <1>b DEF WsInv, InUse
  <2>3. ASSUME NEW r \in Sockets, ws' = r
        PROVE  /\ \A a \in Aliases : room'[r][a] # Nobody =>
                     Called(r, Len(inbox[r]), a, room[r][a])'
               /\ \A i \in 1..Len(inbox'[r]) : inbox'[r][i].type = "update" =>
                     Called(r, i - 1, inbox[r][i].alias, inbox[r][i].user)'
    BY <2>1, <2>2, <2>3
  <2>4. Announced'
    BY <2>3, Zenon DEF Announced
  <2> QED
    BY <2>1, <2>4, <1>b DEF Attribution
<1>3. ASSUME NEW s \in Sockets, SocketOpens(s)
      PROVE  Announced' /\ Attribution'
  <2>1. PICK peers \in Rooms :
           /\ socket[s] = "connecting"
           /\ room' = [room EXCEPT ![s] = peers]
           /\ inbox' = [inbox EXCEPT ![s] = << [type |-> "peers", peers |-> peers] >>]
           /\ UNCHANGED <<ws, aliases, emitted>>
    BY <1>3 DEF SocketOpens
  <2> DEFINE packet == [type |-> "peers", peers |-> peers]
  <2>2. ws = s
    BY <2>1, <1>b DEF WsInv, InUse, Live
  <2>3. room'[s] = peers /\ inbox'[s] = << packet >>
    BY <2>1, <1>t
  <2>4. packet.type = "peers" /\ packet.peers = peers
    OBVIOUS
  <2> HIDE DEF packet
  <2>5. Len(inbox'[s]) = 1 /\ inbox'[s][1] = packet /\ 1 \in 1..1 /\ 1 + 1..1 = {}
    BY <2>3
  <2>6. ASSUME NEW r \in Sockets, ws' = r
        PROVE  /\ \A a \in Aliases : room'[r][a] # Nobody =>
                     Called(r, Len(inbox[r]), a, room[r][a])'
               /\ \A i \in 1..Len(inbox'[r]) : inbox'[r][i].type = "update" =>
                     Called(r, i - 1, inbox[r][i].alias, inbox[r][i].user)'
    <3>1. r = s
      BY <2>1, <2>2, <2>6
    <3>2. ASSUME NEW a \in Aliases, room'[s][a] # Nobody
          PROVE  Called(s, Len(inbox[s]), a, room[s][a])'
      BY <3>2, <2>3, <2>4, <2>5 DEF Called, Names
    <3>3. ASSUME NEW i \in 1..Len(inbox'[s])
          PROVE  inbox'[s][i].type # "update"
      BY <3>3, <2>4, <2>5
    <3> QED
      BY <3>1, <3>2, <3>3
  <2>7. Announced'
    BY <2>6, Zenon DEF Announced
  <2> QED
    BY <2>1, <2>7, <1>b DEF Attribution
<1>4. ASSUME NEW s \in Sockets, NEW failed \in BOOLEAN, SocketEnds(s, failed)
      PROVE  Announced' /\ Attribution'
  <2>1. inbox' = [inbox EXCEPT ![s] = << >>] /\ UNCHANGED <<aliases, room, emitted>>
    BY <1>4 DEF SocketEnds
  <2>a. \/ /\ ws = s /\ ws' = Nobody
            /\ socket' = [socket EXCEPT ![s] = "lost"]
            /\ handlers' = [handlers EXCEPT ![s] = {}]
            /\ wsTold' = wsTold + 1
         \/ /\ ws # s /\ socket[s] = "leaving"
            /\ socket' = [socket EXCEPT ![s] = "left"]
            /\ UNCHANGED <<ws, handlers, wsTold>>
    BY <1>4, <1>b, EndsHow
  <2>2. ws' = Nobody \/ (ws # s /\ ws' = ws)
    BY <2>a
  <2>3. \A r \in Sockets : ws' = r => ws = r /\ inbox'[r] = inbox[r]
    BY <2>1, <2>2, <1>t
  <2> QED
    BY <2>1, <2>3, <1>b, AnnouncedKept DEF Attribution
<1>5. ASSUME NEW s \in Sockets, OnWsMessage(s)
      PROVE  Announced' /\ Attribution'
  <2> DEFINE packet == Head(inbox[s])
  <2>1. /\ inbox[s] # << >>
        /\ inbox' = [inbox EXCEPT ![s] = Tail(@)]
        /\ UNCHANGED <<ws, room>>
    BY <1>5 DEF OnWsMessage
  <2>2. packet \in WsPackets
    BY <2>1, <1>b, PacketTyped
  <2>3. CASE ws # s
    <3>1. handlers[s] = {}
      BY <2>3, <1>b DEF WsInv, InUse
    <3>2. UNCHANGED <<aliases, emitted>>
      BY <1>5, <3>1 DEF OnWsMessage
    <3>3. \A r \in Sockets : ws' = r => ws = r /\ inbox'[r] = inbox[r]
      BY <2>1, <2>3, <1>t
    <3> QED
      BY <2>1, <3>2, <3>3, <1>b, AnnouncedKept DEF Attribution
  <2>4. CASE ws = s
    <3>1. "message" \in handlers[s]
      BY <2>4, <1>b, <1>t DEF WsInv, InUse, Handlers
    <3>2. \/ packet.type = "peers" /\ packet.peers \in Rooms
          \/ /\ packet.type = "update"
             /\ packet.alias \in Aliases /\ packet.user \in Users
      BY <2>2 DEF WsPackets
    <3>3. \/ packet.type = "peers" /\ aliases' = Named(packet.peers) /\ emitted' = emitted
          \/ packet.type = "update" /\ aliases' = aliases
             /\ \/ emitted' = emitted
                \/ emitted' = <<aliases[packet.alias], packet.user>>
                   /\ aliases[packet.alias] # Nobody
      BY <1>5, <3>1, <3>2 DEF OnWsMessage
    <3>4. ASSUME NEW a \in Aliases
          PROVE  aliases'[a] = IF Names(packet, a) THEN packet.peers[a] ELSE aliases[a]
      BY <3>2, <3>3 DEF Names, Named
    <3>5. aliases' \in Rooms
      BY <1>b DEF WsInv, WsTypeOK
    <3>6. /\ inbox[s] \in Seq(WsPackets) /\ Len(inbox[s]) \in Nat
          /\ inbox'[s] = Tail(inbox[s]) /\ Len(inbox'[s]) = Len(inbox[s]) - 1
          /\ Len(inbox[s]) \in 1..Len(inbox[s]) /\ 1 \in 1..Len(inbox[s])
          /\ packet = inbox[s][1]
          /\ \A i \in 1..Len(inbox'[s]) : /\ i + 1 \in 1..Len(inbox[s])
                                         /\ inbox'[s][i] = inbox[s][i + 1]
      <4>1. inbox[s] \in Seq(WsPackets) /\ inbox'[s] = Tail(inbox[s]) /\ inbox[s] # << >>
        BY <2>1, <1>t
      <4> QED
        BY <4>1
    <3>7. Attribution'
      <4>1. CASE emitted' = emitted
        BY <4>1, <1>b DEF Attribution
      <4>2. CASE /\ packet.type = "update"
                 /\ emitted' = <<aliases[packet.alias], packet.user>>
        <5>1. Called(s, 1 - 1, packet.alias, packet.user)
          BY <4>2, <2>4, <3>6, <1>b DEF Announced
        <5>2. aliases[packet.alias] = packet.user
          BY <5>1 DEF Called
        <5> QED
          BY <5>2, <4>2 DEF Attribution
      <4> QED
        BY <4>1, <4>2, <3>3
    <3> HIDE DEF packet
    <3>8. ASSUME NEW a \in Aliases, room'[s][a] # Nobody
          PROVE  Called(s, Len(inbox[s]), a, room[s][a])'
      <4>a. room[s][a] \in Users
        BY <2>1, <3>8, <1>t DEF Rooms
      <4>1. PICK u \in Users, n \in 1..Len(inbox[s]) : u = room[s][a] /\ n = Len(inbox[s])
        BY <4>a, <3>6
      <4>2. Called(s, n, a, u)
        BY <4>1, <2>1, <2>4, <3>8, <1>b DEF Announced
      <4>3. Called(s, n - 1, a, u)'
        BY <4>2, <3>4, <3>5, <3>6, <2>1, <1>b, CalledTail DEF packet
      <4>4. Called(s, Len(inbox[s]), a, u)'
        BY <4>1, <4>3, <3>6 DEF Called
      <4> QED
        BY <4>1, <4>4, <2>1 DEF Called
    <3>9. ASSUME NEW i \in 1..Len(inbox'[s]), inbox'[s][i].type = "update"
          PROVE  Called(s, i - 1, inbox[s][i].alias, inbox[s][i].user)'
      <4>1. i + 1 \in 1..Len(inbox[s]) /\ inbox'[s][i] = inbox[s][i + 1]
            /\ (i + 1) - 1 = i /\ i \in 1..Len(inbox[s])
        BY <3>6
      <4>2. inbox[s][i + 1] \in WsPackets
        BY <3>6, <4>1
      <4>3. PICK a \in Aliases, u \in Users :
               a = inbox[s][i + 1].alias /\ u = inbox[s][i + 1].user
        BY <4>1, <4>2, <3>9 DEF WsPackets
      <4>4. Called(s, i, a, u)
        BY <4>1, <4>3, <2>4, <3>9, <1>b DEF Announced
      <4>5. Called(s, i - 1, a, u)'
        BY <4>1, <4>4, <3>4, <3>5, <2>1, <1>b, CalledTail DEF packet
      <4> QED
        BY <4>1, <4>3, <4>5 DEF Called
    <3>10. ASSUME NEW r \in Sockets, ws' = r
           PROVE  /\ \A a \in Aliases : room'[r][a] # Nobody =>
                        Called(r, Len(inbox[r]), a, room[r][a])'
                  /\ \A i \in 1..Len(inbox'[r]) : inbox'[r][i].type = "update" =>
                        Called(r, i - 1, inbox[r][i].alias, inbox[r][i].user)'
      BY <2>1, <2>4, <3>8, <3>9, <3>10
    <3>11. Announced'
      BY <3>10, Zenon DEF Announced
    <3> QED
      BY <3>7, <3>11
  <2> QED
    BY <2>3, <2>4
<1> DEFINE Sends(s, packet) ==
              /\ socket[s] = "open" /\ ws = s
              /\ inbox' = [inbox EXCEPT ![s] = Append(@, packet)]
              /\ UNCHANGED <<ws, aliases, emitted>>
<1>6. ASSUME NEW s \in Sockets, NEW packet \in WsPackets, Sends(s, packet),
             \A a \in Aliases : room'[s][a] # Nobody =>
                 \/ Names(packet, a) /\ packet.peers[a] = room'[s][a]
                 \/ ~Names(packet, a) /\ room'[s][a] = room[s][a],
             packet.type = "update" => room[s][packet.alias] = packet.user,
             room'[s] \in Rooms
      PROVE  Announced' /\ Attribution'
  <2>1. /\ inbox[s] \in Seq(WsPackets) /\ Len(inbox[s]) \in Nat
        /\ Len(inbox'[s]) = Len(inbox[s]) + 1
        /\ inbox'[s][Len(inbox[s]) + 1] = packet
        /\ Len(inbox[s]) \in 0..Len(inbox[s]) /\ (Len(inbox[s]) + 1) - 1 = Len(inbox[s])
        /\ \A i \in 1..Len(inbox'[s]) :
              \/ i = Len(inbox[s]) + 1
              \/ /\ i \in 1..Len(inbox[s]) /\ i - 1 \in 0..Len(inbox[s])
                 /\ inbox'[s][i] = inbox[s][i]
    <3>1. inbox[s] \in Seq(WsPackets) /\ inbox'[s] = Append(inbox[s], packet)
      BY <1>6, <1>t
    <3> QED
      BY <3>1
  <2>2. ASSUME NEW a \in Aliases, room'[s][a] # Nobody
        PROVE  Called(s, Len(inbox[s]), a, room[s][a])'
    <3>1. PICK u \in Users, n \in Nat : u = room'[s][a] /\ n = Len(inbox[s])
      BY <1>6, <2>1, <2>2 DEF Rooms
    <3>2. Called(s, n + 1, a, u)'
      <4>1. CASE Names(packet, a) /\ packet.peers[a] = u
        BY <3>1, <4>1, <1>6, <1>b, CalledAppend
      <4>2. CASE ~Names(packet, a) /\ room[s][a] = u
        <5>1. Called(s, n, a, u)
          BY <3>1, <4>2, <1>6, <1>b, <1>t DEF Announced
        <5> QED
          BY <3>1, <5>1, <4>2, <1>6, <1>b, CalledAppend
      <4> QED
        BY <4>1, <4>2, <3>1, <2>2, <1>6
    <3> QED
      BY <3>1, <3>2, <2>1 DEF Called
  <2>3. ASSUME NEW i \in 1..Len(inbox'[s]), inbox'[s][i].type = "update"
        PROVE  Called(s, i - 1, inbox[s][i].alias, inbox[s][i].user)'
    <3>1. inbox'[s][i] \in WsPackets
      <4>1. inbox'[s] \in Seq(WsPackets)
        BY <1>b DEF WsInv, WsTypeOK
      <4> QED
        BY <4>1
    <3>2. PICK a \in Aliases, u \in Users :
             a = inbox'[s][i].alias /\ u = inbox'[s][i].user
      BY <3>1, <2>3 DEF WsPackets
    <3>3. Called(s, i - 1, a, u) /\ i - 1 \in 0..Len(inbox[s])
      <4>1. CASE i = Len(inbox[s]) + 1
        <5>1. room[s][a] = u
          BY <4>1, <3>2, <2>1, <2>3, <1>6
        <5> QED
          BY <5>1, <4>1, <2>1, <1>6, <1>b, <1>t DEF Announced
      <4>2. CASE i # Len(inbox[s]) + 1
        BY <4>2, <3>2, <2>1, <2>3, <1>6, <1>b DEF Announced
      <4> QED
        BY <4>1, <4>2
    <3>4. Called(s, i - 1, a, u)'
      BY <3>3, <2>1, <1>6, <1>b, CalledAppend
    <3> QED
      BY <3>2, <3>4 DEF Called
  <2>4. ASSUME NEW r \in Sockets, ws' = r
        PROVE  /\ \A a \in Aliases : room'[r][a] # Nobody =>
                     Called(r, Len(inbox[r]), a, room[r][a])'
               /\ \A i \in 1..Len(inbox'[r]) : inbox'[r][i].type = "update" =>
                     Called(r, i - 1, inbox[r][i].alias, inbox[r][i].user)'
    BY <1>6, <2>2, <2>3, <2>4
  <2>5. Announced'
    BY <2>4, Zenon DEF Announced
  <2> QED
    BY <2>5, <1>6, <1>b DEF Attribution
<1>7. ASSUME NEW s \in Sockets, NEW a \in Aliases, NEW u \in Users, PeerEnters(s, a, u)
      PROVE  Announced' /\ Attribution'
  <2> DEFINE packet == [type |-> "peers",
                        peers |-> [b \in Aliases |-> IF b = a THEN u ELSE Nobody]]
  <2>1. packet \in WsPackets /\ packet.type = "peers"
    BY DEF WsPackets, Rooms
  <2>2. Sends(s, packet) /\ room' = [room EXCEPT ![s][a] = u]
    BY <1>7, <1>b DEF PeerEnters, Serves, WsInv, InUse, Live
  <2>3. ASSUME NEW b \in Aliases, room'[s][b] # Nobody
        PROVE  \/ Names(packet, b) /\ packet.peers[b] = room'[s][b]
               \/ ~Names(packet, b) /\ room'[s][b] = room[s][b]
    BY <2>2, <1>t DEF Names, Rooms
  <2>4. room'[s] \in Rooms
    BY <1>b DEF WsInv, WsTypeOK
  <2> HIDE DEF packet, Sends
  <2> QED
    BY <2>1, <2>2, <2>3, <2>4, <1>6
<1>8. ASSUME NEW s \in Sockets, NEW a \in Aliases, PeerUpdates(s, a)
      PROVE  Announced' /\ Attribution'
  <2> DEFINE packet == [type |-> "update", alias |-> a, user |-> room[s][a]]
  <2>1. packet \in WsPackets
    BY <1>8, <1>t DEF PeerUpdates, WsPackets, Rooms
  <2>2. packet.type = "update" /\ room[s][packet.alias] = packet.user
    OBVIOUS
  <2>3. Sends(s, packet) /\ room' = room
    BY <1>8, <1>b DEF PeerUpdates, Serves, WsInv, InUse, Live
  <2>4. room'[s] \in Rooms
    BY <1>b DEF WsInv, WsTypeOK
  <2>5. \A b \in Aliases : ~Names(packet, b)
    BY <2>2 DEF Names
  <2> HIDE DEF packet, Sends
  <2> QED
    BY <2>1, <2>2, <2>3, <2>4, <2>5, <1>6
<1>9. ASSUME NEW s \in Sockets, NEW a \in Aliases, PeerExits(s, a)
      PROVE  Announced' /\ Attribution'
  <2>1. /\ room' = [room EXCEPT ![s][a] = Nobody]
        /\ UNCHANGED <<ws, aliases, inbox, emitted>>
    BY <1>9 DEF PeerExits
  <2>2. \A r \in Sockets, b \in Aliases :
           room'[r][b] = room[r][b] \/ room'[r][b] = Nobody
    BY <2>1, <1>t DEF Rooms
  <2>3. ASSUME NEW r \in Sockets, ws' = r
        PROVE  /\ \A b \in Aliases : room'[r][b] # Nobody =>
                     Called(r, Len(inbox[r]), b, room[r][b])'
               /\ \A i \in 1..Len(inbox'[r]) : inbox'[r][i].type = "update" =>
                     Called(r, i - 1, inbox[r][i].alias, inbox[r][i].user)'
    BY <2>1, <2>2, <2>3, <1>b DEF Announced, Called
  <2>4. Announced'
    BY <2>3, Zenon DEF Announced
  <2> QED
    BY <2>1, <2>4, <1>b DEF Attribution
<1> HIDE DEF Sends
<1>10. Announced' /\ Attribution'
  BY <1>a, <1>1, <1>2, <1>3, <1>4, <1>5, <1>7, <1>8, <1>9 DEF WsNext
<1> QED
  BY <1>b, <1>10 DEF AttributionInv

-----------------------------------------------------------------------------
(* P2PTransport                                                            *)

LEMMA Places ==
    /\ \A topic \in Topics : Place(topic) \in 1..5 /\ Removed[Place(topic)] = topic
    /\ \A i \in 1..5 : Removed[i] \in Topics /\ Place(Removed[i]) = i /\ Added[i] \in Topics
<1>1. ASSUME NEW topic \in Topics
      PROVE  Place(topic) \in 1..5 /\ Removed[Place(topic)] = topic
  <2>1. \E i \in 1..5 : Removed[i] = topic
    <3>1. Removed[1] = "join" /\ Removed[2] = "left" /\ Removed[3] = "candidate"
          /\ Removed[4] = "answer" /\ Removed[5] = "offer"
      BY DEF Removed
    <3> QED
      BY <3>1 DEF Topics
  <2> QED
    BY <2>1 DEF Place
<1>2. ASSUME NEW i \in 1..5
      PROVE  Removed[i] \in Topics /\ Added[i] \in Topics
  <2>1. i = 1 \/ i = 2 \/ i = 3 \/ i = 4 \/ i = 5
    OBVIOUS
  <2> QED
    BY <2>1 DEF Removed, Added, Topics
<1>3. ASSUME NEW i \in 1..5, NEW j \in 1..5, Removed[i] = Removed[j]
      PROVE  i = j
  <2>1. i = 1 \/ i = 2 \/ i = 3 \/ i = 4 \/ i = 5
    OBVIOUS
  <2>2. j = 1 \/ j = 2 \/ j = 3 \/ j = 4 \/ j = 5
    OBVIOUS
  <2> QED
    BY <1>3, <2>1, <2>2 DEF Removed
<1> QED
  BY <1>1, <1>2, <1>3

(* What Proceed(i) stops at, if it is not done.                            *)
LEMMA ProceedsTo ==
    ASSUME P2PTypeOK, NEW i \in 1..6, Proceed(i)
    PROVE  \/ /\ removing' = 6 /\ handle' = NoCall /\ p2pTold' = p2pTold + 1
              /\ \A j \in i..5 : listener[Removed[j]] = NoCall
           \/ /\ removing' \in i..5 /\ removing' \in 1..5
              /\ handle' = listener[Removed[removing']] /\ p2pTold' = p2pTold
              /\ handle' \in Calls
              /\ \A j \in i..removing' - 1 : listener[Removed[j]] = NoCall
<1> DEFINE set == {j \in i..5 : listener[Removed[j]] # NoCall}
<1>1. CASE set = {}
  <2>1. \A j \in i..5 : listener[Removed[j]] = NoCall
    BY <1>1
  <2> QED
    BY <1>1, <2>1 DEF Proceed
<1>2. CASE set # {}
  <2>1. \A j \in set : j \in i..5 /\ j \in 1..5
    OBVIOUS
  <2>2. \E j \in set : \A k \in set : j <= k
    <3> HIDE DEF set
    <3>1. \A j \in set : j = 1 \/ j = 2 \/ j = 3 \/ j = 4 \/ j = 5
      BY <2>1
    <3>2. CASE 1 \in set
      BY <3>1, <3>2
    <3>3. CASE 1 \notin set /\ 2 \in set
      BY <3>1, <3>3
    <3>4. CASE 1 \notin set /\ 2 \notin set /\ 3 \in set
      BY <3>1, <3>4
    <3>5. CASE 1 \notin set /\ 2 \notin set /\ 3 \notin set /\ 4 \in set
      BY <3>1, <3>5
    <3>6. CASE 1 \notin set /\ 2 \notin set /\ 3 \notin set /\ 4 \notin set
      BY <3>1, <3>6, <1>2
    <3> QED
      BY <3>2, <3>3, <3>4, <3>5, <3>6
  <2>3. PICK r : r = CHOOSE j \in set : \A k \in set : j <= k
    OBVIOUS
  <2>4. r \in set /\ \A k \in set : r <= k
    BY <2>2, <2>3
  <2>5. removing' = r /\ handle' = listener[Removed[removing']] /\ p2pTold' = p2pTold
    BY <1>2, <2>3 DEF Proceed
  <2>6. \A j \in i..r - 1 : j \in i..5 /\ j \notin set
    BY <2>1, <2>4
  <2>7. listener[Removed[r]] \in Calls
    BY <2>1, <2>4, Places DEF P2PTypeOK
  <2> QED
    BY <2>1, <2>4, <2>5, <2>6, <2>7
<1> QED
  BY <1>1, <1>2

(* The listener that is being removed is the one in its variable, or was,  *)
(* and DISCONNECTION was emitted once when disconnect was done.            *)
P2PInv ==
    /\ P2PTypeOK
    /\ TimersStopped
    /\ ListenersRemoved
    /\ removing \in 1..5 =>
          \/ listener[Removed[removing]] = handle
          \/ <<Removed[removing], listener[Removed[removing]]>> \in late
    /\ p2pTold = IF removing = 6 THEN 1 ELSE 0
    /\ ~created => removing = 0

LEMMA P2PInvInit == P2PInit => P2PInv
<1>a. SUFFICES ASSUME P2PInit PROVE P2PInv
  OBVIOUS
<1>1. /\ adding \in [Calls -> 0..7]
      /\ listener \in [Topics -> Calls \cup {NoCall}]
  BY <1>a DEF P2PInit
<1>2. created \in BOOLEAN
  BY <1>a, Zenon DEF P2PInit
<1>3. /\ listening = {} /\ late = {} /\ timers = {} /\ handle = NoCall
      /\ removing = 0 /\ p2pHeard = 0 /\ p2pTold = 0
  BY <1>a DEF P2PInit
<1>4. P2PTypeOK
  BY <1>1, <1>2, <1>3 DEF P2PTypeOK
<1>5. TimersStopped /\ ListenersRemoved
  BY <1>3 DEF TimersStopped, ListenersRemoved
<1> QED
  BY <1>3, <1>4, <1>5 DEF P2PInv

LEMMA P2PConstructInv ==
    ASSUME P2PInv, P2PConstruct
    PROVE  P2PInv'
<1>1. removing = 0 /\ removing' = 0
  BY DEF P2PInv, P2PConstruct
<1>2. P2PTypeOK'
  BY DEF P2PInv, P2PConstruct, P2PTypeOK
<1>3. TimersStopped' /\ ListenersRemoved'
  BY <1>1 DEF TimersStopped, ListenersRemoved, IsDisposed
<1> QED
  BY <1>1, <1>2, <1>3 DEF P2PInv, P2PConstruct

LEMMA ScheduleKeeps ==
    ASSUME P2PTypeOK, TimersStopped, ScheduleUpdateNetwork, removing' = removing
    PROVE  timers' \in SUBSET {"update", "expire"} /\ TimersStopped'
<1> QED
  BY DEF ScheduleUpdateNetwork, P2PTypeOK, TimersStopped, IsDisposed

LEMMA P2PInvNext ==
    ASSUME P2PInv, P2PNext
    PROVE  P2PInv'
<1>t. P2PTypeOK /\ TimersStopped /\ ListenersRemoved
  BY DEF P2PInv
<1>1. ASSUME P2PDisconnect
      PROVE  P2PInv'
  <2>1. /\ created /\ removing = 0 /\ timers' = {} /\ Proceed(1)
        /\ UNCHANGED <<created, adding, listening, listener, late, p2pHeard>>
    BY <1>1 DEF P2PDisconnect, IsDisposed
  <2>2. \/ /\ removing' = 6 /\ handle' = NoCall /\ p2pTold' = p2pTold + 1
           /\ \A j \in 1..5 : listener[Removed[j]] = NoCall
        \/ /\ removing' \in 1..5
           /\ handle' = listener[Removed[removing']] /\ p2pTold' = p2pTold
           /\ handle' \in Calls
           /\ \A j \in 1..removing' - 1 : listener[Removed[j]] = NoCall
    BY <2>1, <1>t, ProceedsTo
  <2>3. p2pTold = 0
    BY <2>1 DEF P2PInv
  <2>4. P2PTypeOK'
    BY <2>1, <2>2, <2>3, <1>t DEF P2PTypeOK
  <2>5. TimersStopped'
    BY <2>1 DEF TimersStopped
  <2>6. ASSUME NEW l \in listening', removing' \in 1..6, removing' > Place(l[1])
        PROVE  listener'[l[1]] # l[2]
    <3>1. l[1] \in Topics /\ l[2] \in Calls
      BY <2>1, <2>6, <1>t DEF P2PTypeOK
    <3>2. Place(l[1]) \in 1..5 /\ Removed[Place(l[1])] = l[1]
      BY <3>1, Places
    <3>3. listener[Removed[Place(l[1])]] = NoCall
      <4>1. CASE removing' = 6
        BY <4>1, <2>2, <3>2
      <4>2. CASE removing' # 6
        <5>1. \A j \in 1..removing' - 1 : listener[Removed[j]] = NoCall
          BY <4>2, <2>2
        <5>2. Place(l[1]) \in 1..removing' - 1
          BY <3>2, <2>6
        <5> QED
          BY <5>1, <5>2
      <4> QED
        BY <4>1, <4>2
    <3>4. listener[l[1]] = NoCall
      BY <3>2, <3>3
    <3> QED
      BY <2>1, <3>1, <3>4, LifecycleAssumption
  <2>7. ListenersRemoved'
    BY <2>6, Zenon DEF ListenersRemoved
  <2> QED
    BY <2>1, <2>2, <2>3, <2>4, <2>5, <2>7 DEF P2PInv
<1>2. ASSUME ListenerRemoved
      PROVE  P2PInv'
  <2>1. /\ removing \in 1..5 /\ Proceed(removing + 1)
        /\ listening' = listening \ {<<Removed[removing], handle>>}
        /\ UNCHANGED <<created, adding, listener, late, timers, p2pHeard>>
    BY <1>2 DEF ListenerRemoved
  <2>2. PICK r \in 1..5 : r = removing
    BY <2>1
  <2>3. r + 1 \in 1..6 /\ Proceed(r + 1)
    BY <2>1, <2>2
  <2>4. \/ /\ removing' = 6 /\ handle' = NoCall /\ p2pTold' = p2pTold + 1
           /\ \A j \in r + 1..5 : listener[Removed[j]] = NoCall
        \/ /\ removing' \in r + 1..5 /\ removing' \in 1..5
           /\ handle' = listener[Removed[removing']] /\ p2pTold' = p2pTold
           /\ handle' \in Calls
           /\ \A j \in r + 1..removing' - 1 : listener[Removed[j]] = NoCall
    BY <2>3, <1>t, ProceedsTo
  <2>5. p2pTold = 0
    BY <2>1 DEF P2PInv
  <2>6. P2PTypeOK'
    BY <2>1, <2>4, <2>5, <1>t DEF P2PTypeOK
  <2>7. TimersStopped'
    BY <2>1, <1>t DEF TimersStopped, IsDisposed
  <2>8. ASSUME NEW l \in listening', removing' \in 1..6, removing' > Place(l[1])
        PROVE  l \in late' \/ listener'[l[1]] # l[2]
    <3>1. l \in listening /\ l[1] \in Topics /\ l[2] \in Calls /\ l = <<l[1], l[2]>>
      BY <2>1, <2>8, <1>t DEF P2PTypeOK
    <3>2. Place(l[1]) \in 1..5 /\ Removed[Place(l[1])] = l[1]
      BY <3>1, Places
    <3>3. CASE Place(l[1]) < r
      BY <3>1, <3>3, <2>1, <2>2, <1>t DEF ListenersRemoved
    <3>4. CASE Place(l[1]) = r
      <4>1. l[1] = Removed[removing] /\ l[2] # handle
        BY <3>1, <3>2, <3>4, <2>1, <2>2, <2>8
      <4>2. \/ listener[Removed[removing]] = handle
            \/ <<Removed[removing], listener[Removed[removing]]>> \in late
        BY <2>1 DEF P2PInv
      <4> QED
        BY <4>1, <4>2, <3>1, <2>1
    <3>5. CASE Place(l[1]) > r
      <4>1. listener[Removed[Place(l[1])]] = NoCall
        <5>1. CASE removing' = 6
          <6>1. Place(l[1]) \in r + 1..5
            BY <3>2, <3>5
          <6> QED
            BY <5>1, <6>1, <2>4
        <5>2. CASE removing' # 6
          <6>1. \A j \in r + 1..removing' - 1 : listener[Removed[j]] = NoCall
            BY <5>2, <2>4
          <6>2. Place(l[1]) \in r + 1..removing' - 1
            BY <3>2, <3>5, <2>8
          <6> QED
            BY <6>1, <6>2
        <5> QED
          BY <5>1, <5>2
      <4> QED
        BY <4>1, <3>1, <3>2, <2>1, LifecycleAssumption
    <3> QED
      BY <3>2, <3>3, <3>4, <3>5
  <2>9. ListenersRemoved'
    BY <2>8, Zenon DEF ListenersRemoved
  <2> QED
    BY <2>1, <2>4, <2>5, <2>6, <2>7, <2>9 DEF P2PInv
<1>3. ASSUME NEW c \in Calls, ListenerAdded(c)
      PROVE  P2PInv'
  <2> DEFINE topic == Added[adding[c]]
  <2>1. /\ adding[c] \in 1..5
        /\ listening' = listening \cup {<<topic, c>>}
        /\ listener' = [listener EXCEPT ![topic] = c]
        /\ late' = IF removing >= Place(topic) THEN late \cup {<<topic, c>>} ELSE late
        /\ adding' = [adding EXCEPT ![c] = @ + 1]
        /\ UNCHANGED <<created, removing, handle, p2pHeard, p2pTold>>
    BY <1>3 DEF ListenerAdded
  <2>2. topic \in Topics /\ Place(topic) \in 1..5
    BY <2>1, Places
  <2>3. timers' \in SUBSET {"update", "expire"} /\ TimersStopped'
    <3>1. ScheduleUpdateNetwork \/ timers' = timers
      BY <1>3 DEF ListenerAdded
    <3>2. CASE timers' = timers
      BY <3>2, <2>1, <1>t DEF P2PTypeOK, TimersStopped, IsDisposed
    <3> QED
      BY <3>1, <3>2, <2>1, <1>t, ScheduleKeeps
  <2> HIDE DEF topic
  <2>4. P2PTypeOK'
    BY <2>1, <2>2, <2>3, <1>t DEF P2PTypeOK
  <2>5. ASSUME NEW l \in listening', removing' \in 1..6, removing' > Place(l[1])
        PROVE  l \in late' \/ listener'[l[1]] # l[2]
    <3>1. CASE l = <<topic, c>>
      BY <3>1, <2>1, <2>2, <2>5
    <3>2. CASE l # <<topic, c>>
      <4>1. l \in listening /\ l[1] \in Topics /\ l = <<l[1], l[2]>>
        BY <3>2, <2>1, <1>t DEF P2PTypeOK
      <4>2. l \in late \/ listener[l[1]] # l[2]
        BY <4>1, <2>1, <2>5, <1>t DEF ListenersRemoved
      <4> QED
        BY <4>1, <4>2, <3>2, <2>1, <2>2, <1>t DEF P2PTypeOK
    <3> QED
      BY <3>1, <3>2
  <2>6. ListenersRemoved'
    BY <2>5, Zenon DEF ListenersRemoved
  <2>7. ASSUME removing \in 1..5
        PROVE  \/ listener'[Removed[removing]] = handle
               \/ <<Removed[removing], listener'[Removed[removing]]>> \in late'
    <3>1. CASE topic = Removed[removing]
      <4>1. Place(topic) = removing /\ listener'[Removed[removing]] = c
        BY <3>1, <2>1, <2>2, <2>7, <1>t, Places DEF P2PTypeOK
      <4> QED
        BY <4>1, <3>1, <2>1, <2>7
    <3>2. CASE topic # Removed[removing]
      <4>1. listener'[Removed[removing]] = listener[Removed[removing]]
        BY <3>2, <2>1, <2>7, <1>t, Places DEF P2PTypeOK
      <4> QED
        BY <4>1, <2>1, <2>7 DEF P2PInv
    <3> QED
      BY <3>1, <3>2
  <2> QED
    BY <2>1, <2>3, <2>4, <2>6, <2>7 DEF P2PInv
<1>4. ASSUME \/ \E c \in Calls : P2PConnect(c) \/ AddRejected(c)
             \/ RemovalRejected
      PROVE  P2PInv'
  <2>1. /\ UNCHANGED <<created, listening, listener, late, timers, p2pHeard, p2pTold>>
        /\ \/ UNCHANGED <<removing, handle>>
           \/ removing \in 1..5 /\ removing' = 7 /\ handle' = NoCall
    BY <1>4 DEF P2PConnect, AddRejected, RemovalRejected
  <2>2. adding' \in [Calls -> 0..7]
    BY <1>4, <1>t DEF P2PConnect, AddRejected, RemovalRejected, P2PTypeOK
  <2>3. P2PTypeOK'
    BY <2>1, <2>2, <1>t DEF P2PTypeOK
  <2>4. TimersStopped'
    BY <2>1, <1>t DEF TimersStopped, IsDisposed
  <2>5. ListenersRemoved'
    BY <2>1, <1>t DEF ListenersRemoved
  <2> QED
    BY <2>1, <2>3, <2>4, <2>5 DEF P2PInv
<1>5. ASSUME \/ \E timer \in {"update", "expire"} : TimerFires(timer)
             \/ IslandChanges \/ HandlePeerPacket
      PROVE  P2PInv'
  <2>1. UNCHANGED <<created, adding, listening, listener, removing, handle, late, p2pTold>>
    BY <1>5 DEF TimerFires, IslandChanges, HandlePeerPacket
  <2>2. p2pHeard' \in Nat
    BY <1>5, <1>t DEF TimerFires, IslandChanges, HandlePeerPacket, P2PTypeOK
  <2>3. timers' \in SUBSET {"update", "expire"} /\ TimersStopped'
    <3>1. ScheduleUpdateNetwork \/ timers' = timers
          \/ \E timer \in timers : timers' = timers \cup {timer}
      BY <1>5 DEF TimerFires, IslandChanges, HandlePeerPacket
    <3>2. CASE ~ScheduleUpdateNetwork
      <4>1. timers' = timers
        BY <3>1, <3>2
      <4> QED
        BY <4>1, <2>1, <1>t DEF P2PTypeOK, TimersStopped, IsDisposed
    <3> QED
      BY <3>2, <2>1, <1>t, ScheduleKeeps
  <2>4. P2PTypeOK'
    BY <2>1, <2>2, <2>3, <1>t DEF P2PTypeOK
  <2>5. ListenersRemoved'
    BY <2>1, <1>t DEF ListenersRemoved
  <2> QED
    BY <2>1, <2>3, <2>4, <2>5 DEF P2PInv
<1> QED
  BY <1>1, <1>2, <1>3, <1>4, <1>5 DEF P2PNext

-----------------------------------------------------------------------------
(* LivekitTransport                                                        *)

LivekitInv ==
    /\ LivekitTypeOK
    /\ disconnected => livekitTold = 1 /\ livekit = "disconnected"
    /\ ~disconnected => livekitTold = 0

LEMMA LivekitInvInit == LivekitInit => LivekitInv
<1>a. SUFFICES ASSUME LivekitInit PROVE LivekitInv
  OBVIOUS
<1>1. ~disconnected /\ disconnected \in BOOLEAN
  BY <1>a, Zenon DEF LivekitInit
<1>2. /\ livekit = "new" /\ joined = "none"
      /\ undispatched = 0 /\ livekitHeard = 0 /\ livekitTold = 0
  BY <1>a DEF LivekitInit
<1> QED
  BY <1>1, <1>2 DEF LivekitInv, LivekitTypeOK

(* What disconnect does, the first time and later.                         *)
LEMMA DisconnectHow ==
    ASSUME LivekitInv, NEW left \in Nat, Disconnect(left)
    PROVE  /\ undispatched' \in Nat
           /\ \/ disconnected /\ UNCHANGED <<disconnected, livekit, livekitTold>>
              \/ /\ ~disconnected /\ disconnected'
                 /\ disconnected' \in BOOLEAN
                 /\ livekit' = "disconnected" /\ livekitTold' = 1
<1>1. CASE disconnected
  BY <1>1 DEF Disconnect
<1>2. CASE ~disconnected
  <2>1. /\ disconnected' = TRUE /\ livekit' = "disconnected"
        /\ undispatched' \in IF livekit \in {"connecting", "connected"}
                             THEN {left, left + 1} ELSE {left}
        /\ livekitTold' = livekitTold + 1
    BY <1>2 DEF Disconnect
  <2>2. disconnected' /\ disconnected' \in BOOLEAN
    BY <2>1, Zenon
  <2>3. undispatched' \in Nat /\ livekitTold' = 1
    BY <2>1, <1>2 DEF LivekitInv
  <2> QED
    BY <2>1, <2>2, <2>3, <1>2
<1> QED
  BY <1>1, <1>2

LEMMA LivekitInvNext ==
    ASSUME LivekitInv, LivekitNext
    PROVE  LivekitInv'
<1>1. ASSUME NEW left \in Nat, Disconnect(left), UNCHANGED <<joined, livekitHeard>>
      PROVE  LivekitInv'
  <2>1. /\ undispatched' \in Nat
        /\ \/ disconnected /\ UNCHANGED <<disconnected, livekit, livekitTold>>
           \/ /\ ~disconnected /\ disconnected'
              /\ disconnected' \in BOOLEAN
              /\ livekit' = "disconnected" /\ livekitTold' = 1
    BY <1>1, DisconnectHow
  <2> QED
    BY <1>1, <2>1 DEF LivekitInv, LivekitTypeOK
<1>2. CASE LivekitDisconnect \/ OnDisconnected
  <2>1. undispatched \in Nat
    BY DEF LivekitInv, LivekitTypeOK
  <2>2. \/ Disconnect(undispatched)
        \/ Disconnect(undispatched - 1) /\ undispatched - 1 \in Nat
    BY <1>2, <2>1 DEF LivekitDisconnect, OnDisconnected
  <2>3. UNCHANGED <<joined, livekitHeard>>
    BY <1>2 DEF LivekitDisconnect, OnDisconnected
  <2> QED
    BY <1>1, <2>1, <2>2, <2>3
<1>3. CASE LivekitConnect \/ RoomConnects \/ RoomRejects \/ RoomDrops \/ OnDataReceived
  BY <1>3 DEF LivekitConnect, RoomConnects, RoomRejects, RoomDrops, OnDataReceived,
              LivekitInv, LivekitTypeOK
<1> QED
  BY <1>2, <1>3 DEF LivekitNext

-----------------------------------------------------------------------------
(* All of them                                                             *)

Inv ==
    /\ kind \in {"none", "ws", "livekit", "p2p"}
    /\ AttributionInv /\ LivekitInv /\ P2PInv
    /\ kind = "none" => ws = Nobody /\ ~disconnected /\ removing = 0

LEMMA InvInit == Init => Inv
<1>1. ASSUME Init
      PROVE  Inv
  <2>1. WsInit /\ LivekitInit /\ P2PInit /\ kind = "none"
    BY <1>1 DEF Init
  <2>2. AttributionInv /\ LivekitInv /\ P2PInv
    BY <2>1, AttributionInit, LivekitInvInit, P2PInvInit
  <2> QED
    BY <2>1, <2>2 DEF Inv, WsInit, LivekitInit, P2PInit
<1> QED
  BY <1>1

LEMMA WsStill ==
    ASSUME AttributionInv, UNCHANGED wsVars
    PROVE  AttributionInv'
<1>1. WsInv' /\ Attribution'
  BY DEF AttributionInv, WsInv, WsTypeOK, InUse, wsVars, Attribution
<1>2. Announced'
  BY AnnouncedKept DEF AttributionInv, wsVars
<1> QED
  BY <1>1, <1>2 DEF AttributionInv

LEMMA LivekitStill ==
    ASSUME LivekitInv, UNCHANGED livekitVars
    PROVE  LivekitInv'
<1> QED
  BY DEF LivekitInv, LivekitTypeOK, livekitVars

LEMMA P2PStill ==
    ASSUME P2PInv, UNCHANGED p2pVars
    PROVE  P2PInv'
<1> QED
  BY DEF P2PInv, P2PTypeOK, TimersStopped, ListenersRemoved, IsDisposed, p2pVars

LEMMA InvNext == Inv /\ [Next]_allVars => Inv'
<1>a. SUFFICES ASSUME Inv, [Next]_allVars PROVE Inv'
  OBVIOUS
<1>i. AttributionInv /\ LivekitInv /\ P2PInv
  BY <1>a DEF Inv
<1>1. CASE WsStep
  <2>1. kind = "ws" /\ WsNext /\ UNCHANGED kind /\ UNCHANGED livekitVars /\ UNCHANGED p2pVars
    BY <1>1 DEF WsStep
  <2>2. AttributionInv' /\ LivekitInv' /\ P2PInv'
    BY <2>1, <1>i, AttributionNext, LivekitStill, P2PStill
  <2> QED
    BY <2>1, <2>2 DEF Inv
<1>2. CASE LivekitStep
  <2>1. kind = "livekit" /\ LivekitNext /\ UNCHANGED kind /\ UNCHANGED wsVars /\ UNCHANGED p2pVars
    BY <1>2 DEF LivekitStep
  <2>2. AttributionInv' /\ LivekitInv' /\ P2PInv'
    BY <2>1, <1>i, LivekitInvNext, WsStill, P2PStill
  <2> QED
    BY <2>1, <2>2 DEF Inv
<1>3. CASE P2PStep
  <2>1. kind = "p2p" /\ P2PNext /\ UNCHANGED kind /\ UNCHANGED wsVars /\ UNCHANGED livekitVars
    BY <1>3 DEF P2PStep
  <2>2. AttributionInv' /\ LivekitInv' /\ P2PInv'
    BY <2>1, <1>i, P2PInvNext, WsStill, LivekitStill
  <2> QED
    BY <2>1, <2>2 DEF Inv
<1>4. CASE CreateTransport
  <2>1. /\ kind' \in {"ws", "livekit", "p2p"} /\ UNCHANGED wsVars /\ UNCHANGED livekitVars
        /\ UNCHANGED p2pVars \/ P2PConstruct
    BY <1>4 DEF CreateTransport
  <2>2. AttributionInv' /\ LivekitInv' /\ P2PInv'
    BY <2>1, <1>i, WsStill, LivekitStill, P2PStill, P2PConstructInv
  <2> QED
    BY <2>1, <2>2 DEF Inv
<1>5. CASE UNCHANGED allVars
  <2>1. UNCHANGED kind /\ UNCHANGED wsVars /\ UNCHANGED livekitVars /\ UNCHANGED p2pVars
    BY <1>5 DEF allVars
  <2>2. AttributionInv' /\ LivekitInv' /\ P2PInv'
    BY <2>1, <1>i, WsStill, LivekitStill, P2PStill
  <2>3. ws' = ws /\ disconnected' = disconnected /\ removing' = removing
    BY <2>1 DEF wsVars, livekitVars, p2pVars
  <2> QED
    BY <2>1, <2>2, <2>3, <1>a DEF Inv
<1> QED
  BY <1>a, <1>1, <1>2, <1>3, <1>4, <1>5 DEF Next

LEMMA InvAlways == Spec => []Inv
<1> QED
  BY InvInit, InvNext, PTL DEF Spec

(* Every variable has its type.                                            *)
THEOREM TypeCorrect == Spec => []TypeOK
<1>1. Inv => TypeOK
  BY DEF Inv, TypeOK, AttributionInv, WsInv, LivekitInv, P2PInv
<1> QED
  BY <1>1, InvAlways, PTL

(* WsTransport never loses sight of a socket that is open.                 *)
THEOREM OneSocketCorrect == Spec => []OneSocket
<1>1. Inv => OneSocket
  BY DEF Inv, AttributionInv, WsInv, InUse, Live, OneSocket
<1> QED
  BY <1>1, InvAlways, PTL

(* Its messages carry the address of the peer that sent them, whatever     *)
(* aliases are left from earlier sockets.                                  *)
THEOREM AttributionCorrect == Spec => []Attribution
<1>1. Inv => Attribution
  BY DEF Inv, AttributionInv
<1> QED
  BY <1>1, InvAlways, PTL

(* No timer of P2PTransport is left running by disconnect.                 *)
THEOREM TimersStoppedCorrect == Spec => []TimersStopped
<1>1. Inv => TimersStopped
  BY DEF Inv, P2PInv
<1> QED
  BY <1>1, InvAlways, PTL

(* disconnect removes every listener it can know of, whatever calls of     *)
(* connect go on at the same time.                                         *)
THEOREM ListenersRemovedCorrect == Spec => []ListenersRemoved
<1>1. Inv => ListenersRemoved
  BY DEF Inv, P2PInv
<1> QED
  BY <1>1, InvAlways, PTL

(* No event of an earlier socket ends a session of WsTransport.            *)
THEOREM OwnSessionCorrect == Spec => OwnSession
<1>1. ASSUME Inv, [Next]_allVars, ws # Nobody, ws' # ws
      PROVE  WsDisconnect \/ socket'[ws] = "lost"
  <2>1. WsInv
    BY <1>1 DEF Inv, AttributionInv
  <2>2. WsNext
    BY <1>1 DEF Next, CreateTransport, LivekitStep, P2PStep, WsStep, allVars, wsVars
  <2>3. ASSUME NEW s \in Sockets, NEW failed \in BOOLEAN, SocketEnds(s, failed)
        PROVE  socket'[ws] = "lost"
    <3>1. ws = s /\ socket' = [socket EXCEPT ![s] = "lost"]
      BY <2>1, <2>3, <1>1, EndsHow
    <3> QED
      BY <3>1, <2>1 DEF WsInv, WsTypeOK
  <2>4. ASSUME NEW s \in Sockets
        PROVE  /\ ~WsConnect(s) /\ ~SocketOpens(s) /\ ~OnWsMessage(s)
               /\ \A a \in Aliases : /\ ~PeerExits(s, a) /\ ~PeerUpdates(s, a)
                                     /\ \A u \in Users : ~PeerEnters(s, a, u)
    BY <1>1 DEF WsConnect, SocketOpens, OnWsMessage, PeerExits, PeerUpdates, PeerEnters
  <2> QED
    BY <2>2, <2>3, <2>4 DEF WsNext
<1>2. Inv /\ [Next]_allVars =>
        [ws # Nobody /\ ws' # ws => WsDisconnect \/ socket'[ws] = "lost"]_wsVars
  BY <1>1
<1> QED
  BY <1>2, InvAlways, PTL DEF Spec, OwnSession

-----------------------------------------------------------------------------
(* The promise of Transport                                                *)

Told == wsTold + livekitTold + p2pTold
Messages == wsHeard + livekitHeard + p2pHeard

LEMMA Counted ==
    ASSUME Inv
    PROVE  /\ wsTold \in Nat /\ livekitTold \in Nat /\ p2pTold \in Nat
           /\ wsHeard \in Nat /\ livekitHeard \in Nat /\ p2pHeard \in Nat
<1> QED
  BY DEF Inv, AttributionInv, WsInv, WsTypeOK, LivekitInv, LivekitTypeOK, P2PInv, P2PTypeOK

(* A step maps to a step of Transport by what it does to the three counts. *)
Maps ==
    \/ ~Session /\ Session' /\ Told' = Told /\ Messages' = Messages
    \/ Session /\ Session' /\ Told' = Told /\ Messages' = Messages + 1
    \/ Session /\ ~Session' /\ Told' = Told + 1 /\ Messages' = Messages
    \/ (Session' <=> Session) /\ Told' = Told /\ Messages' = Messages

LEMMA MapsTo ==
    ASSUME Maps
    PROVE  [Promise!Next]_(Promise!transportVars)
<1>1. Session \in BOOLEAN /\ Session' \in BOOLEAN
  BY Zenon DEF Session
<1>2. CASE ~Session /\ Session' /\ Told' = Told /\ Messages' = Messages
  <2>1. Promise!Begin
    BY <1>1, <1>2 DEF Promise!Begin, Told, Messages
  <2> QED
    BY <2>1 DEF Promise!Next
<1>3. CASE Session /\ Session' /\ Told' = Told /\ Messages' = Messages + 1
  <2>1. Promise!Message
    BY <1>1, <1>3 DEF Promise!Message, Told, Messages
  <2> QED
    BY <2>1 DEF Promise!Next
<1>4. CASE Session /\ ~Session' /\ Told' = Told + 1 /\ Messages' = Messages
  <2>1. Promise!End
    BY <1>1, <1>4 DEF Promise!End, Told, Messages
  <2> QED
    BY <2>1 DEF Promise!Next
<1>5. CASE (Session' <=> Session) /\ Told' = Told /\ Messages' = Messages
  BY <1>1, <1>5 DEF Promise!transportVars, Told, Messages
<1> QED
  BY <1>2, <1>3, <1>4, <1>5 DEF Maps

LEMMA WsMaps ==
    ASSUME Inv, WsStep
    PROVE  Maps
<1>1. /\ kind = "ws" /\ kind' = "ws" /\ WsNext
      /\ UNCHANGED livekitVars /\ UNCHANGED p2pVars
  BY DEF WsStep
<1>2. /\ livekitTold' = livekitTold /\ livekitHeard' = livekitHeard
      /\ p2pTold' = p2pTold /\ p2pHeard' = p2pHeard
  BY <1>1 DEF livekitVars, p2pVars
<1>3. (Session <=> ws # Nobody) /\ (Session' <=> ws' # Nobody)
  BY <1>1 DEF Session
<1>4. WsInv /\ Nobody \notin Sockets
  BY WsAssumption DEF Inv, AttributionInv
<1>n. /\ wsTold \in Nat /\ livekitTold \in Nat /\ p2pTold \in Nat
      /\ wsHeard \in Nat /\ livekitHeard \in Nat /\ p2pHeard \in Nat
  BY Counted
<1>5. CASE ws # Nobody /\ ws' = Nobody /\ wsTold' = wsTold + 1 /\ wsHeard' = wsHeard
  <2>1. Told' = Told + 1 /\ Messages' = Messages
    BY <1>2, <1>5, <1>n DEF Told, Messages
  <2> QED
    BY <2>1, <1>3, <1>5 DEF Maps
<1>6. CASE ws' = ws /\ wsTold' = wsTold /\ wsHeard' = wsHeard
  <2>1. Told' = Told /\ Messages' = Messages
    BY <1>2, <1>6 DEF Told, Messages
  <2> QED
    BY <2>1, <1>3, <1>6 DEF Maps
<1>7. CASE ws # Nobody /\ ws' = ws /\ wsTold' = wsTold /\ wsHeard' = wsHeard + 1
  <2>1. Told' = Told /\ Messages' = Messages + 1
    BY <1>2, <1>7, <1>n DEF Told, Messages
  <2> QED
    BY <2>1, <1>3, <1>7 DEF Maps
<1>8. ASSUME NEW s \in Sockets, WsConnect(s)
      PROVE  Maps
  <2>1. ws = Nobody /\ ws' # Nobody /\ wsTold' = wsTold /\ wsHeard' = wsHeard
    BY <1>8, <1>4 DEF WsConnect
  <2>2. Told' = Told /\ Messages' = Messages
    BY <1>2, <2>1 DEF Told, Messages
  <2> QED
    BY <2>1, <2>2, <1>3 DEF Maps
<1>9. ASSUME NEW s \in Sockets, OnWsMessage(s)
      PROVE  Maps
  <2>1. ws' = ws /\ wsTold' = wsTold
    BY <1>9 DEF OnWsMessage
  <2>2. \/ wsHeard' = wsHeard
        \/ "message" \in handlers[s] /\ wsHeard' = wsHeard + 1
    BY <1>9 DEF OnWsMessage
  <2>3. "message" \in handlers[s] => ws # Nobody
    BY <1>4 DEF WsInv, InUse
  <2> QED
    BY <2>1, <2>2, <2>3, <1>6, <1>7
<1>10. ASSUME NEW s \in Sockets, NEW failed \in BOOLEAN, SocketEnds(s, failed)
       PROVE  Maps
  <2>1. wsHeard' = wsHeard
    BY <1>10 DEF SocketEnds
  <2>2. \/ ws # Nobody /\ ws' = Nobody /\ wsTold' = wsTold + 1
        \/ ws' = ws /\ wsTold' = wsTold
    BY <1>10, <1>4, EndsHow
  <2> QED
    BY <2>1, <2>2, <1>5, <1>6
<1>11. ASSUME WsDisconnect
       PROVE  Maps
  <2>1. ws # Nobody /\ ws' = Nobody /\ wsTold' = wsTold + 1 /\ wsHeard' = wsHeard
    BY <1>11 DEF WsDisconnect, HangUp
  <2> QED
    BY <2>1, <1>5
<1>12. ASSUME NEW s \in Sockets,
              \/ SocketOpens(s)
              \/ \E a \in Aliases : \/ PeerExits(s, a) \/ PeerUpdates(s, a)
                                    \/ \E u \in Users : PeerEnters(s, a, u)
       PROVE  Maps
  <2>1. ws' = ws /\ wsTold' = wsTold /\ wsHeard' = wsHeard
    BY <1>12 DEF SocketOpens, PeerExits, PeerUpdates, PeerEnters
  <2> QED
    BY <2>1, <1>6
<1> QED
  BY <1>1, <1>8, <1>9, <1>10, <1>11, <1>12 DEF WsNext

LEMMA LivekitMaps ==
    ASSUME Inv, LivekitStep
    PROVE  Maps
<1>1. /\ kind = "livekit" /\ kind' = "livekit" /\ LivekitNext
      /\ UNCHANGED wsVars /\ UNCHANGED p2pVars
  BY DEF LivekitStep
<1>2. /\ wsTold' = wsTold /\ wsHeard' = wsHeard
      /\ p2pTold' = p2pTold /\ p2pHeard' = p2pHeard
  BY <1>1 DEF wsVars, p2pVars
<1>3. (Session <=> ~disconnected) /\ (Session' <=> ~disconnected')
  BY <1>1 DEF Session
<1>4. LivekitInv
  BY DEF Inv
<1>n. /\ wsTold \in Nat /\ livekitTold \in Nat /\ p2pTold \in Nat
      /\ wsHeard \in Nat /\ livekitHeard \in Nat /\ p2pHeard \in Nat
  BY Counted
<1>5. ASSUME NEW left \in Nat, Disconnect(left), livekitHeard' = livekitHeard
      PROVE  Maps
  <2>1. \/ disconnected /\ UNCHANGED <<disconnected, livekit, livekitTold>>
        \/ ~disconnected /\ disconnected' /\ livekitTold' = 1
    BY <1>4, <1>5, DisconnectHow
  <2>2. CASE disconnected /\ UNCHANGED <<disconnected, livekit, livekitTold>>
    <3>1. Told' = Told /\ Messages' = Messages
      BY <2>2, <1>2, <1>5 DEF Told, Messages
    <3>2. Session' <=> Session
      BY <2>2, <1>3
    <3> QED
      BY <3>1, <3>2, Zenon DEF Maps
  <2>3. CASE ~disconnected /\ disconnected' /\ livekitTold' = 1
    <3>1. livekitTold = 0
      BY <2>3, <1>4 DEF LivekitInv
    <3>2. Told' = Told + 1 /\ Messages' = Messages
      BY <2>3, <3>1, <1>2, <1>5, <1>n DEF Told, Messages
    <3>3. Session /\ ~Session'
      BY <2>3, <1>3
    <3> QED
      BY <3>2, <3>3, Zenon DEF Maps
  <2> QED
    BY <2>1, <2>2, <2>3
<1>6. CASE LivekitDisconnect \/ OnDisconnected
  <2>1. undispatched \in Nat
    BY <1>4 DEF LivekitInv, LivekitTypeOK
  <2>2. \/ Disconnect(undispatched)
        \/ Disconnect(undispatched - 1) /\ undispatched - 1 \in Nat
    BY <1>6, <2>1 DEF LivekitDisconnect, OnDisconnected
  <2>3. livekitHeard' = livekitHeard
    BY <1>6 DEF LivekitDisconnect, OnDisconnected
  <2> QED
    BY <1>5, <2>1, <2>2, <2>3
<1>7. CASE LivekitConnect \/ RoomConnects \/ RoomRejects \/ RoomDrops
  <2>1. disconnected' = disconnected
    BY <1>7 DEF LivekitConnect, RoomConnects, RoomRejects, RoomDrops
  <2>2. livekitTold' = livekitTold /\ livekitHeard' = livekitHeard
    BY <1>7 DEF LivekitConnect, RoomConnects, RoomRejects, RoomDrops
  <2>3. Told' = Told /\ Messages' = Messages
    BY <2>2, <1>2 DEF Told, Messages
  <2>4. Session' <=> Session
    BY <2>1, <1>3
  <2> QED
    BY <2>3, <2>4, Zenon DEF Maps
<1>8. CASE OnDataReceived
  <2>1. livekit = "connected" /\ disconnected' = disconnected
    BY <1>8 DEF OnDataReceived
  <2>2. livekitTold' = livekitTold /\ livekitHeard' = livekitHeard + 1
    BY <1>8 DEF OnDataReceived
  <2>3. Told' = Told /\ Messages' = Messages + 1
    BY <2>2, <1>2, <1>n DEF Told, Messages
  <2>4. ~disconnected
    BY <2>1, <1>4 DEF LivekitInv
  <2>5. Session /\ Session'
    BY <2>1, <2>4, <1>3
  <2> QED
    BY <2>3, <2>5, Zenon DEF Maps
<1> QED
  BY <1>1, <1>6, <1>7, <1>8 DEF LivekitNext

LEMMA P2PMaps ==
    ASSUME Inv, P2PStep
    PROVE  Maps
<1>1. /\ kind = "p2p" /\ kind' = "p2p" /\ P2PNext
      /\ UNCHANGED wsVars /\ UNCHANGED livekitVars
  BY DEF P2PStep
<1>2. /\ wsTold' = wsTold /\ wsHeard' = wsHeard
      /\ livekitTold' = livekitTold /\ livekitHeard' = livekitHeard
  BY <1>1 DEF wsVars, livekitVars
<1>3. (Session <=> p2pTold = 0) /\ (Session' <=> p2pTold' = 0)
  BY <1>1 DEF Session
<1>4. P2PTypeOK /\ p2pTold = IF removing = 6 THEN 1 ELSE 0
  BY DEF Inv, P2PInv
<1>n. /\ wsTold \in Nat /\ livekitTold \in Nat /\ p2pTold \in Nat
      /\ wsHeard \in Nat /\ livekitHeard \in Nat /\ p2pHeard \in Nat
  BY Counted
<1>5. CASE p2pTold' = p2pTold /\ p2pHeard' = p2pHeard
  <2>1. Told' = Told /\ Messages' = Messages
    BY <1>2, <1>5 DEF Told, Messages
  <2> QED
    BY <2>1, <1>3, <1>5 DEF Maps
<1>6. ASSUME NEW i \in 1..6, Proceed(i), p2pTold = 0, p2pHeard' = p2pHeard
      PROVE  Maps
  <2>1. p2pTold' = p2pTold + 1 \/ p2pTold' = p2pTold
    BY <1>4, <1>6, ProceedsTo
  <2>2. CASE p2pTold' = p2pTold + 1
    <3>1. Told' = Told + 1 /\ Messages' = Messages
      BY <1>2, <1>6, <1>n, <2>2 DEF Told, Messages
    <3>2. Session /\ ~Session'
      BY <1>3, <1>6, <2>2
    <3> QED
      BY <3>1, <3>2, Zenon DEF Maps
  <2> QED
    BY <2>1, <2>2, <1>5, <1>6
<1>7. CASE P2PDisconnect
  <2>1. Proceed(1) /\ removing = 0 /\ p2pHeard' = p2pHeard
    BY <1>7 DEF P2PDisconnect, IsDisposed
  <2> QED
    BY <2>1, <1>4, <1>6
<1>8. CASE ListenerRemoved
  <2>1. Proceed(removing + 1) /\ removing \in 1..5 /\ p2pHeard' = p2pHeard
    BY <1>8 DEF ListenerRemoved
  <2>2. removing + 1 \in 1..6 /\ p2pTold = 0
    BY <2>1, <1>4
  <2> QED
    BY <2>1, <2>2, <1>6
<1>9. CASE HandlePeerPacket
  <2>1. removing = 0 /\ p2pTold' = p2pTold /\ p2pHeard' = p2pHeard + 1
    BY <1>9 DEF HandlePeerPacket, IsDisposed
  <2>2. Told' = Told /\ Messages' = Messages + 1
    BY <2>1, <1>2, <1>n DEF Told, Messages
  <2>3. Session /\ Session'
    BY <2>1, <1>3, <1>4
  <2> QED
    BY <2>2, <2>3, Zenon DEF Maps
<1>10. CASE \/ \E c \in Calls : P2PConnect(c) \/ ListenerAdded(c) \/ AddRejected(c)
            \/ RemovalRejected \/ IslandChanges
            \/ \E timer \in {"update", "expire"} : TimerFires(timer)
  <2>1. p2pTold' = p2pTold /\ p2pHeard' = p2pHeard
    BY <1>10 DEF P2PConnect, ListenerAdded, AddRejected, RemovalRejected, IslandChanges,
                 TimerFires
  <2> QED
    BY <2>1, <1>5
<1> QED
  BY <1>1, <1>7, <1>8, <1>9, <1>10 DEF P2PNext

LEMMA CreateMaps ==
    ASSUME Inv, CreateTransport
    PROVE  Maps
<1>1. /\ kind = "none" /\ kind' \in {"ws", "livekit", "p2p"}
      /\ UNCHANGED wsVars /\ UNCHANGED livekitVars
      /\ UNCHANGED p2pVars \/ P2PConstruct
  BY DEF CreateTransport
<1>2. p2pTold' = p2pTold /\ p2pHeard' = p2pHeard
  BY <1>1 DEF P2PConstruct, p2pVars
<1>3. /\ wsTold' = wsTold /\ wsHeard' = wsHeard
      /\ livekitTold' = livekitTold /\ livekitHeard' = livekitHeard
  BY <1>1 DEF wsVars, livekitVars
<1>4. Told' = Told /\ Messages' = Messages
  BY <1>2, <1>3 DEF Told, Messages
<1>5. ~Session
  BY <1>1 DEF Session
<1> QED
  BY <1>4, <1>5, Zenon DEF Maps

(* Messages only come while a session lasts, and its end is announced      *)
(* once, whichever kind of transport createTransport made.                 *)
THEOREM TransportImplemented == Spec => ImplementsTransport
<1>1. Init => Promise!Init
  <2>1. ASSUME Init
        PROVE  Promise!Init
    <3>1. /\ wsTold = 0 /\ livekitTold = 0 /\ p2pTold = 0
          /\ wsHeard = 0 /\ livekitHeard = 0 /\ p2pHeard = 0
          /\ kind = "none"
      BY <2>1 DEF Init, WsInit, LivekitInit, P2PInit
    <3>2. Session = FALSE
      BY <3>1 DEF Session
    <3> QED
      BY <3>1, <3>2 DEF Promise!Init
  <2> QED
    BY <2>1
<1>2. Inv /\ [Next]_allVars => [Promise!Next]_(Promise!transportVars)
  <2>1. ASSUME Inv, [Next]_allVars
        PROVE  [Promise!Next]_(Promise!transportVars)
    <3>1. CASE Next
      <4>1. Maps
        BY <2>1, <3>1, WsMaps, LivekitMaps, P2PMaps, CreateMaps DEF Next
      <4> QED
        BY <4>1, MapsTo
    <3>2. CASE UNCHANGED allVars
      <4>1. (Session' <=> Session) /\ Told' = Told /\ Messages' = Messages
        BY <3>2 DEF allVars, wsVars, livekitVars, p2pVars, Session, Told, Messages
      <4>2. Maps
        BY <4>1, Zenon DEF Maps
      <4> QED
        BY <4>2, MapsTo
    <3> QED
      BY <2>1, <3>1, <3>2
  <2> QED
    BY <2>1
<1> QED
  BY <1>1, <1>2, InvAlways, PTL DEF Spec, ImplementsTransport, Promise!Spec

=============================================================================
