--------------------------- MODULE LivekitTransport -------------------------
(***************************************************************************)
(* src/livekit/LivekitTransport.ts: a transport over a room of LiveKit.    *)
(*                                                                         *)
(* The room (livekit-client) is external: it emits Disconnected when a     *)
(* connection is lost, and also when it is told to disconnect, at once or  *)
(* later; it delivers data while it is connected.                          *)
(***************************************************************************)
EXTENDS Naturals

CONSTANT MaxData    \* bound: messages of a behaviour

ASSUME LivekitAssumption == MaxData \in Nat

VARIABLES
    livekit,        \* the room: "new", "connecting", "connected", "disconnected"
    joined,         \* the promise of connect
    disconnected,   \* disconnected
    undispatched,   \* Disconnected events the room has yet to emit
    livekitHeard,   \* how many `message' events
    livekitTold     \* how many DISCONNECTION events

livekitVars == <<livekit, joined, disconnected, undispatched, livekitHeard, livekitTold>>

LivekitInit ==
    /\ livekit = "new" /\ joined = "none"
    /\ disconnected = FALSE
    /\ undispatched = 0 /\ livekitHeard = 0 /\ livekitTold = 0

(* connect.  The application does not connect what it has disconnected.    *)
LivekitConnect ==
    /\ livekit = "new" /\ joined = "none" /\ ~disconnected
    /\ livekit' = "connecting" /\ joined' = "pending"
    /\ UNCHANGED <<disconnected, undispatched, livekitHeard, livekitTold>>

(* room.connect settles.                                                   *)
RoomConnects ==
    /\ livekit = "connecting"
    /\ livekit' = "connected" /\ joined' = "resolved"
    /\ UNCHANGED <<disconnected, undispatched, livekitHeard, livekitTold>>

RoomRejects ==
    /\ joined = "pending"
    /\ livekit' = "disconnected" /\ joined' = "rejected"
    /\ UNCHANGED <<disconnected, undispatched, livekitHeard, livekitTold>>

(* The connection is lost, or the server closes the room.                  *)
RoomDrops ==
    /\ livekit = "connected"
    /\ livekit' = "disconnected"
    /\ undispatched' = undispatched + 1
    /\ UNCHANGED <<joined, disconnected, livekitHeard, livekitTold>>

(* disconnect, with this many events left.  An event that the room emits   *)
(* at once finds disconnected set and does nothing.                        *)
Disconnect(left) ==
    IF disconnected
    THEN UNCHANGED <<disconnected, livekit, livekitTold>> /\ undispatched' = left
    ELSE /\ disconnected' = TRUE
         /\ livekit' = "disconnected"
         /\ undispatched' \in IF livekit \in {"connecting", "connected"}
                              THEN {left, left + 1} ELSE {left}
         /\ livekitTold' = livekitTold + 1

LivekitDisconnect == Disconnect(undispatched) /\ UNCHANGED <<joined, livekitHeard>>

(* Mutated: the event is only logged.                                      *)
OnDisconnectedIgnored ==
    /\ undispatched > 0
    /\ undispatched' = undispatched - 1
    /\ UNCHANGED <<livekit, disconnected, livekitTold, joined, livekitHeard>>

(* RoomEvent.Disconnected.                                                 *)
OnDisconnected ==
    /\ undispatched > 0
    /\ Disconnect(undispatched - 1)
    /\ UNCHANGED <<joined, livekitHeard>>

(* RoomEvent.DataReceived from a participant.                              *)
OnDataReceived ==
    /\ livekit = "connected" /\ livekitHeard < MaxData
    /\ livekitHeard' = livekitHeard + 1
    /\ UNCHANGED <<livekit, joined, disconnected, undispatched, livekitTold>>

LivekitNext ==
    \/ LivekitConnect \/ RoomConnects \/ RoomRejects \/ RoomDrops
    \/ LivekitDisconnect \/ OnDisconnected \/ OnDataReceived

LivekitTypeOK ==
    /\ livekit \in {"new", "connecting", "connected", "disconnected"}
    /\ joined \in {"none", "pending", "resolved", "rejected"}
    /\ disconnected \in BOOLEAN
    /\ undispatched \in Nat /\ livekitHeard \in Nat /\ livekitTold \in Nat

=============================================================================
