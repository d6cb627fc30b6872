---------------------------- MODULE P2PLifecycle ----------------------------
(***************************************************************************)
(* connect and disconnect of src/p2p/PeerToPeerTransport.ts, with          *)
(* registerSubscriptions and dispose of src/p2p/Mesh.ts and the timers of  *)
(* the transport.                                                          *)
(*                                                                         *)
(* connect registers five listeners at the BFF, one after the other, and   *)
(* disconnect removes them one after the other, each an await: the two     *)
(* functions, several calls of connect and the messages to the listeners   *)
(* interleave.  The BFF is external: it answers a request or rejects it.   *)
(***************************************************************************)
EXTENDS Naturals, Sequences

CONSTANTS
    Calls,        \* calls of connect
    MaxPackets,   \* bound: packets that are emitted as messages
    NoCall        \* no listener

ASSUME LifecycleAssumption ==
    /\ MaxPackets \in Nat
    /\ NoCall \notin Calls

(* The listeners in the order of connect, and of disconnect.               *)
Added == <<"join", "left", "candidate", "offer", "answer">>
Removed == <<"join", "left", "candidate", "answer", "offer">>
Topics == {"join", "left", "candidate", "offer", "answer"}

Place(topic) == CHOOSE i \in 1..5 : Removed[i] = topic

VARIABLES
    created,     \* the constructor has run
    adding,      \* what each connect awaits: Added[i]; 0 not called, 6 done, 7 rejected
    listening,   \* the listeners registered at the BFF, by the call they are of
    listener,    \* onPeerJoinedListener etc.: the call its handle is of, or NoCall
    removing,    \* what disconnect awaits: Removed[i]; 0 not called, 6 done, 7 rejected
    handle,      \* the call whose listener it is removing
    late,        \* listeners registered when disconnect was already at their place
    timers,      \* updateNetworkTimeoutId, expireTimeoutId
    p2pHeard,    \* how many `message' events
    p2pTold      \* how many DISCONNECTION events

p2pVars == <<created, adding, listening, listener, removing, handle, late,
             timers, p2pHeard, p2pTold>>

IsDisposed == removing # 0

P2PInit ==
    /\ created = FALSE
    /\ adding = [c \in Calls |-> 0]
    /\ listening = {} /\ late = {}
    /\ listener = [topic \in Topics |-> NoCall]
    /\ removing = 0 /\ handle = NoCall
    /\ timers = {}
    /\ p2pHeard = 0 /\ p2pTold = 0

(* The constructor starts both timers.                                     *)
P2PConstruct ==
    /\ ~created /\ created' = TRUE
    /\ timers' = {"update", "expire"}
    /\ UNCHANGED <<adding, listening, listener, removing, handle, late, p2pHeard, p2pTold>>

(* Mutated: without the check of disposed.                                 *)
ScheduleUpdateNetworkAlways == timers' = timers \cup {"update"}

(* scheduleUpdateNetwork.                                                  *)
ScheduleUpdateNetwork ==
    timers' = IF IsDisposed THEN timers ELSE timers \cup {"update"}

(* connect: the request for the first listener.                            *)
P2PConnect(c) ==
    /\ created /\ adding[c] = 0
    /\ adding' = [adding EXCEPT ![c] = 1]
    /\ UNCHANGED <<created, listening, listener, removing, handle, late,
                   timers, p2pHeard, p2pTold>>

(* The BFF has added a listener: connect keeps its handle and asks for the *)
(* next one, or is done and triggers an update.                            *)
ListenerAdded(c) ==
    LET topic == Added[adding[c]] IN
    /\ adding[c] \in 1..5
    /\ listening' = listening \cup {<<topic, c>>}
    /\ listener' = [listener EXCEPT ![topic] = c]
    /\ late' = IF removing >= Place(topic) THEN late \cup {<<topic, c>>} ELSE late
    /\ adding' = [adding EXCEPT ![c] = @ + 1]
    /\ IF adding[c] = 5 THEN ScheduleUpdateNetwork ELSE UNCHANGED timers
    /\ UNCHANGED <<created, removing, handle, p2pHeard, p2pTold>>

AddRejected(c) ==
    /\ adding[c] \in 1..5
    /\ adding' = [adding EXCEPT ![c] = 7]
    /\ UNCHANGED <<created, listening, listener, removing, handle, late,
                   timers, p2pHeard, p2pTold>>

(* Mutated: a listener that is not set ends the removal.                   *)
ProceedWhileSet(i) ==
    IF i = 6 \/ listener[Removed[i]] = NoCall
    THEN removing' = 6 /\ handle' = NoCall /\ p2pTold' = p2pTold + 1
    ELSE /\ removing' = i
         /\ handle' = listener[Removed[i]]
         /\ UNCHANGED p2pTold

(* disconnect goes on at Removed[i]: it asks to remove the next listener   *)
(* that is set, or emits DISCONNECTION.                                    *)
Proceed(i) ==
    LET set == {j \in i..5 : listener[Removed[j]] # NoCall} IN
    IF set = {}
    THEN removing' = 6 /\ handle' = NoCall /\ p2pTold' = p2pTold + 1
    ELSE /\ removing' = CHOOSE j \in set : \A k \in set : j <= k
         /\ handle' = listener[Removed[removing']]
         /\ UNCHANGED p2pTold

(* disconnect.  (Any later call returns at once.)                          *)
P2PDisconnect ==
    /\ created /\ ~IsDisposed
    /\ timers' = {}
    /\ Proceed(1)
    /\ UNCHANGED <<created, adding, listening, listener, late, p2pHeard>>

ListenerRemoved ==
    /\ removing \in 1..5
    /\ listening' = listening \ {<<Removed[removing], handle>>}
    /\ Proceed(removing + 1)
    /\ UNCHANGED <<created, adding, listener, late, timers, p2pHeard>>

(* disconnect rejects: nothing else is removed, nothing is announced.      *)
RemovalRejected ==
    /\ removing \in 1..5
    /\ removing' = 7 /\ handle' = NoCall
    /\ UNCHANGED <<created, adding, listening, listener, late, timers, p2pHeard, p2pTold>>

-----------------------------------------------------------------------------

(* A timer goes off: an expiration schedules the next one whatever         *)
(* happens, an update by scheduleUpdateNetwork.                            *)
TimerFires(timer) ==
    /\ timer \in timers
    /\ IF timer = "update" THEN ScheduleUpdateNetwork ELSE timers' = timers \cup {timer}
    /\ UNCHANGED <<created, adding, listening, listener, removing, handle, late,
                   p2pHeard, p2pTold>>

(* onPeerJoined and onPeerLeft trigger an update.  What they do to the     *)
(* known peers and connections is in NetworkUpdate and Routing.  The event *)
(* PEER_DISCONNECTED of onPeerLeft is left out: it is not kept anywhere,   *)
(* and Transport, which is about the session, has none.  (A listener that  *)
(* was registered too late to be removed can emit it after DISCONNECTION.) *)
IslandChanges ==
    /\ \E l \in listening : l[1] \in {"join", "left"}
    /\ ScheduleUpdateNetwork
    /\ UNCHANGED <<created, adding, listening, listener, removing, handle, late,
                   p2pHeard, p2pTold>>

(* Mutated: packets are handled until disconnect is done.                  *)
HandlePeerPacketLate ==
    /\ created /\ p2pHeard < MaxPackets
    /\ p2pHeard' = p2pHeard + 1
    /\ UNCHANGED <<created, adding, listening, listener, removing, handle, late,
                   timers, p2pTold>>

(* handlePeerPacket emits a message.                                       *)
HandlePeerPacket ==
    /\ created /\ ~IsDisposed
    /\ p2pHeard < MaxPackets
    /\ p2pHeard' = p2pHeard + 1
    /\ UNCHANGED <<created, adding, listening, listener, removing, handle, late,
                   timers, p2pTold>>

P2PNext ==
    \/ P2PDisconnect
    \/ \E c \in Calls : P2PConnect(c) \/ ListenerAdded(c) \/ AddRejected(c)
    \/ ListenerRemoved \/ RemovalRejected
    \/ \E timer \in {"update", "expire"} : TimerFires(timer)
    \/ IslandChanges \/ HandlePeerPacket

-----------------------------------------------------------------------------
(* Properties                                                              *)

P2PTypeOK ==
    /\ created \in BOOLEAN
    /\ adding \in [Calls -> 0..7]
    /\ listening \in SUBSET (Topics \X Calls)
    /\ listener \in [Topics -> Calls \cup {NoCall}]
    /\ removing \in 0..7
    /\ handle \in Calls \cup {NoCall}
    /\ late \in SUBSET (Topics \X Calls)
    /\ timers \in SUBSET {"update", "expire"}
    /\ p2pHeard \in Nat /\ p2pTold \in Nat

(* After disconnect nothing wakes the transport up any more: no timer is   *)
(* running, although connect may still go on, and peers join and leave.    *)
TimersStopped == IsDisposed => timers = {}

(* Once disconnect is past a listener, it is gone, unless it came too late *)
(* or another call of connect had replaced its handle: listeners that are  *)
(* added while disconnect runs, but ahead of it, are removed.              *)
ListenersRemoved ==
    \A l \in listening :
        removing \in 1..6 /\ removing > Place(l[1])
            => l \in late \/ listener[l[1]] # l[2]

=============================================================================
