----------------------------- MODULE WsTransport ----------------------------
(***************************************************************************)
(* src/ws/WsTransport.ts: a transport over a WebSocket.  It can be         *)
(* connected again after a disconnection, with a new socket, while events  *)
(* of the old socket are still to come.                                    *)
(*                                                                         *)
(* The browser and the server are external.  A socket that is closed from  *)
(* this end may go on dispatching what it has received, and its close      *)
(* event, until it is closed.  A server welcomes a client with the aliases *)
(* of all peers in the room, and announces any alias it assigns later      *)
(* before it relays an update from it.                                     *)
(***************************************************************************)
EXTENDS Naturals, Sequences

CONSTANTS
    Sockets,     \* sockets, as 1..n (n bounds how often connect opens one)
    Users,       \* addresses of other peers
    Aliases,     \* what the server calls them on one socket
    MaxInbox,    \* bound: packets on the way over a socket
    MaxUpdates,  \* bound: peerUpdateMessages of a behaviour
    Nobody       \* no socket, no address

Handlers == {"message", "error", "close"}

ASSUME WsAssumption ==
    /\ Sockets \subseteq Nat
    /\ MaxInbox \in Nat /\ MaxUpdates \in Nat
    /\ Nobody \notin Sockets /\ Nobody \notin Users

VARIABLES
    ws,         \* the socket in use, or Nobody
    socket,     \* "none", "connecting", "open"; "leaving" and then "left" when
                \* closed from this end; "lost" when it failed or was closed
    handlers,   \* which of onmessage, onerror and onclose are set
    promise,    \* of the connect that opened the socket
    aliases,    \* the address of an alias, or Nobody
    room,       \* the server: who has the alias, on each socket
    inbox,      \* packets the server has sent
    updates,    \* how many of them were updates
    emitted,    \* the last `message': its address, and whose it was
    wsHeard,    \* how many `message' events
    wsTold      \* how many DISCONNECTION events

wsVars == <<ws, socket, handlers, promise, aliases, room, inbox, updates,
            emitted, wsHeard, wsTold>>

Rooms == [Aliases -> Users \cup {Nobody}]

(* welcomeMessage and peerJoinMessage name peers; a peerUpdateMessage      *)
(* names an alias (`user' is whose it is).                                 *)
WsPackets ==
    [type : {"peers"}, peers : Rooms]
        \cup [type : {"update"}, alias : Aliases, user : Users]

WsInit ==
    /\ ws = Nobody
    /\ socket = [s \in Sockets |-> "none"]
    /\ handlers = [s \in Sockets |-> {}]
    /\ promise = [s \in Sockets |-> "none"]
    /\ aliases = [a \in Aliases |-> Nobody]
    /\ room = [s \in Sockets |-> [a \in Aliases |-> Nobody]]
    /\ inbox = [s \in Sockets |-> << >>]
    /\ updates = 0 /\ wsHeard = 0 /\ wsTold = 0
    /\ emitted = <<Nobody, Nobody>>

Unused(s) == socket[s] = "none" /\ \A t \in Sockets : t < s => socket[t] # "none"

(* Mutated: connect does not look whether there is a socket.               *)
WsConnectAgain(s) ==
    /\ Unused(s)
    /\ ws' = s
    /\ socket' = [socket EXCEPT ![s] = "connecting"]
    /\ handlers' = [handlers EXCEPT ![s] = Handlers]
    /\ promise' = [promise EXCEPT ![s] = "pending"]
    /\ UNCHANGED <<aliases, room, inbox, updates, emitted, wsHeard, wsTold>>

(* connect.  (With a socket in use it resolves at once; if the WebSocket   *)
(* constructor throws it rejects.  Neither changes anything.)              *)
WsConnect(s) ==
    /\ ws = Nobody /\ Unused(s)
    /\ ws' = s
    /\ socket' = [socket EXCEPT ![s] = "connecting"]
    /\ handlers' = [handlers EXCEPT ![s] = Handlers]
    /\ promise' = [promise EXCEPT ![s] = "pending"]
    /\ UNCHANGED <<aliases, room, inbox, updates, emitted, wsHeard, wsTold>>

(* Mutated: onclose of the socket stays.                                   *)
HangUpListening(sockets) ==
    /\ ws' = Nobody
    /\ handlers' = [handlers EXCEPT ![ws] = {"close"}]
    /\ socket' = IF sockets[ws] \in {"connecting", "open"}
                 THEN [sockets EXCEPT ![ws] = "leaving"] ELSE sockets
    /\ wsTold' = wsTold + 1

(* disconnect when there is a socket, the sockets being in these states.   *)
HangUp(sockets) ==
    /\ ws' = Nobody
    /\ handlers' = [handlers EXCEPT ![ws] = {}]
    /\ socket' = IF sockets[ws] \in {"connecting", "open"}
                 THEN [sockets EXCEPT ![ws] = "leaving"] ELSE sockets
    /\ wsTold' = wsTold + 1

WsDisconnect ==
    /\ ws # Nobody
    /\ HangUp(socket)
    /\ UNCHANGED <<promise, aliases, room, inbox, updates, emitted, wsHeard>>

-----------------------------------------------------------------------------
(* The events of a socket                                                  *)

(* onopen.  The server's first packet is the welcome.                      *)
SocketOpens(s) ==
    /\ socket[s] = "connecting"
    /\ socket' = [socket EXCEPT ![s] = "open"]
    /\ promise' = [promise EXCEPT ![s] = "resolved"]
    /\ \E peers \in Rooms :
          /\ room' = [room EXCEPT ![s] = peers]
          /\ inbox' = [inbox EXCEPT ![s] =
                         << [type |-> "peers", peers |-> peers] >>]
    /\ UNCHANGED <<ws, handlers, aliases, updates, emitted, wsHeard, wsTold>>

(* Mutated: onerror does not reject.                                       *)
SocketEndsSilently(s, failed) ==
    LET ended == [socket EXCEPT ![s] = IF @ = "leaving" THEN "left" ELSE "lost"]
        called == handlers[s] \cap (IF failed THEN {"error", "close"} ELSE {"close"})
    IN
    /\ socket[s] \in {"open", "leaving"} \cup (IF failed THEN {"connecting"} ELSE {})
    /\ promise' = promise
    /\ inbox' = [inbox EXCEPT ![s] = << >>]
    /\ IF called # {} /\ ws # Nobody
       THEN HangUp(ended)
       ELSE socket' = ended /\ UNCHANGED <<ws, handlers, wsTold>>
    /\ UNCHANGED <<aliases, room, updates, emitted, wsHeard>>

(* onerror and onclose: a socket that fails dispatches an error before it  *)
(* closes, and one that does not open fails.  What it had not dispatched   *)
(* yet is lost.                                                            *)
SocketEnds(s, failed) ==
    LET ended == [socket EXCEPT ![s] = IF @ = "leaving" THEN "left" ELSE "lost"]
        called == handlers[s] \cap (IF failed THEN {"error", "close"} ELSE {"close"})
    IN
    /\ socket[s] \in {"open", "leaving"} \cup (IF failed THEN {"connecting"} ELSE {})
    /\ promise' = [promise EXCEPT ![s] =
                     IF @ = "pending" /\ "error" \in called THEN "rejected" ELSE @]
    /\ inbox' = [inbox EXCEPT ![s] = << >>]
    /\ IF called # {} /\ ws # Nobody
       THEN HangUp(ended)
       ELSE socket' = ended /\ UNCHANGED <<ws, handlers, wsTold>>
    /\ UNCHANGED <<aliases, room, updates, emitted, wsHeard>>

(* Mutated: an alias that has an address keeps it.                         *)
NamedKeeping(peers) ==
    [a \in Aliases |-> IF aliases[a] # Nobody THEN aliases[a] ELSE peers[a]]

(* The aliases after a welcomeMessage or a peerJoinMessage.                *)
Named(peers) ==
    [a \in Aliases |-> IF peers[a] # Nobody THEN peers[a] ELSE aliases[a]]

(* Mutated: the alias is emitted where the address should be.              *)
OnWsMessageRaw(s) ==
    LET packet == Head(inbox[s]) IN
    /\ inbox[s] # << >>
    /\ inbox' = [inbox EXCEPT ![s] = Tail(@)]
    /\ IF "message" \notin handlers[s]
       THEN UNCHANGED <<aliases, emitted, wsHeard>>
       ELSE IF packet.type = "peers"
       THEN aliases' = Named(packet.peers) /\ UNCHANGED <<emitted, wsHeard>>
       ELSE /\ emitted' = <<packet.alias, packet.user>>
            /\ wsHeard' = wsHeard + 1
            /\ UNCHANGED aliases
    /\ UNCHANGED <<ws, socket, handlers, promise, room, updates, wsTold>>

(* onWsMessage.                                                            *)
OnWsMessage(s) ==
    LET packet == Head(inbox[s]) IN
    /\ inbox[s] # << >>
    /\ inbox' = [inbox EXCEPT ![s] = Tail(@)]
    /\ IF "message" \notin handlers[s]
       THEN UNCHANGED <<aliases, emitted, wsHeard>>
       ELSE IF packet.type = "peers"
       THEN aliases' = Named(packet.peers) /\ UNCHANGED <<emitted, wsHeard>>
       ELSE /\ IF aliases[packet.alias] = Nobody
               THEN UNCHANGED <<emitted, wsHeard>>
               ELSE /\ emitted' = <<aliases[packet.alias], packet.user>>
                    /\ wsHeard' = wsHeard + 1
            /\ UNCHANGED aliases
    /\ UNCHANGED <<ws, socket, handlers, promise, room, updates, wsTold>>

-----------------------------------------------------------------------------
(* The server                                                              *)

Serves(s) == socket[s] = "open" /\ Len(inbox[s]) < MaxInbox

PeerEnters(s, a, u) ==
    /\ Serves(s) /\ room[s][a] = Nobody
    /\ room' = [room EXCEPT ![s][a] = u]
    /\ inbox' = [inbox EXCEPT ![s] =
                   Append(@, [type |-> "peers",
                              peers |-> [b \in Aliases |-> IF b = a THEN u ELSE Nobody]])]
    /\ UNCHANGED <<ws, socket, handlers, promise, aliases, updates, emitted, wsHeard, wsTold>>

(* Its alias is free again.  (The transport handles no packet for this.)   *)
PeerExits(s, a) ==
    /\ Serves(s) /\ room[s][a] # Nobody
    /\ room' = [room EXCEPT ![s][a] = Nobody]
    /\ UNCHANGED <<ws, socket, handlers, promise, aliases, inbox, updates, emitted, wsHeard, wsTold>>

PeerUpdates(s, a) ==
    /\ Serves(s) /\ room[s][a] # Nobody
    /\ updates < MaxUpdates /\ updates' = updates + 1
    /\ inbox' = [inbox EXCEPT ![s] =
                   Append(@, [type |-> "update", alias |-> a, user |-> room[s][a]])]
    /\ UNCHANGED <<ws, socket, handlers, promise, aliases, room, emitted, wsHeard, wsTold>>

-----------------------------------------------------------------------------

(* A socket opens or fails, and closes when it is asked to.                *)
SocketSettles(s) ==
    \/ SocketOpens(s)
    \/ /\ socket[s] \in {"connecting", "leaving"}
       /\ \E failed \in BOOLEAN : SocketEnds(s, failed)

WsNext ==
    \/ WsDisconnect
    \/ \E s \in Sockets :
          \/ WsConnect(s) \/ SocketOpens(s) \/ OnWsMessage(s)
          \/ \E failed \in BOOLEAN : SocketEnds(s, failed)
          \/ \E a \in Aliases :
                \/ PeerExits(s, a) \/ PeerUpdates(s, a)
                \/ \E u \in Users : PeerEnters(s, a, u)

-----------------------------------------------------------------------------
(* Properties                                                              *)

WsTypeOK ==
    /\ ws \in Sockets \cup {Nobody}
    /\ socket \in [Sockets ->
                     {"none", "connecting", "open", "leaving", "left", "lost"}]
    /\ handlers \in [Sockets -> SUBSET Handlers]
    /\ promise \in [Sockets -> {"none", "pending", "resolved", "rejected"}]
    /\ aliases \in Rooms
    /\ room \in [Sockets -> Rooms]
    /\ inbox \in [Sockets -> Seq(WsPackets)]
    /\ updates \in 0..MaxUpdates
    /\ emitted \in (Users \cup {Nobody}) \X (Users \cup {Nobody})
    /\ wsHeard \in Nat /\ wsTold \in Nat

(* No socket is lost sight of: one that is not in use was closed or closed *)
(* itself, however connect, disconnect and its events interleave.          *)
OneSocket ==
    \A s \in Sockets : socket[s] \in {"connecting", "open"} => ws = s

(* A message carries the address of the peer that sent it, although the    *)
(* aliases of an earlier socket are never cleared and aliases are given    *)
(* again to others.                                                        *)
Attribution == emitted[1] = emitted[2]

(* A session is ended by the application or by its own socket, never by an *)
(* event of an earlier one.                                                *)
OwnSession ==
    [][ws # Nobody /\ ws' # ws => WsDisconnect \/ socket'[ws] = "lost"]_wsVars

=============================================================================
