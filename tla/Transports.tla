----------------------------- MODULE Transports -----------------------------
(***************************************************************************)
(* A transport as the application gets it from createTransport of          *)
(* src/index.ts: the connection string of the island selects one of three  *)
(* kinds, all of which keep the promise of Transport.                      *)
(***************************************************************************)
EXTENDS WsTransport, LivekitTransport, P2PLifecycle

VARIABLE kind    \* the transport that was created, or "none"

allVars == <<kind, wsVars, livekitVars, p2pVars>>

Init == kind = "none" /\ WsInit /\ LivekitInit /\ P2PInit

(* createTransport.  (With another connection string, or without a token   *)
(* for LiveKit, there is no transport.)                                    *)
CreateTransport ==
    /\ kind = "none"
    /\ \/ kind' \in {"ws", "livekit"} /\ UNCHANGED p2pVars
       \/ kind' = "p2p" /\ P2PConstruct
    /\ UNCHANGED <<wsVars, livekitVars>>

WsStep == kind = "ws" /\ WsNext /\ UNCHANGED <<kind, livekitVars, p2pVars>>
LivekitStep == kind = "livekit" /\ LivekitNext /\ UNCHANGED <<kind, wsVars, p2pVars>>
P2PStep == kind = "p2p" /\ P2PNext /\ UNCHANGED <<kind, wsVars, livekitVars>>

Next == CreateTransport \/ WsStep \/ LivekitStep \/ P2PStep

Spec == Init /\ [][Next]_allVars

(* What is external answers in the end: a socket settles (SocketSettles),  *)
(* the room dispatches its events, the BFF settles a request.              *)
FairSpec ==
    /\ Spec
    /\ \A s \in Sockets : WF_allVars(WsStep /\ SocketSettles(s))
    /\ WF_allVars(LivekitStep /\ OnDisconnected)
    /\ WF_allVars(P2PStep /\ (ListenerRemoved \/ RemovalRejected))

-----------------------------------------------------------------------------
(* Properties                                                              *)

(* Every variable has its type.                                            *)
TypeOK ==
    /\ kind \in {"none", "ws", "livekit", "p2p"}
    /\ WsTypeOK /\ LivekitTypeOK /\ P2PTypeOK

(* Every kind keeps the promise.  A session begins with a socket of        *)
(* WsTransport, and with the object for the others, which emit             *)
(* DISCONNECTION also when they were never connected.                      *)
Session ==
    \/ kind = "ws" /\ ws # Nobody
    \/ kind = "livekit" /\ ~disconnected
    \/ kind = "p2p" /\ p2pTold = 0

Promise == INSTANCE Transport WITH
    session <- Session,
    told <- wsTold + livekitTold + p2pTold,
    heard <- wsHeard + livekitHeard + p2pHeard

ImplementsTransport == Promise!Spec

(* Liveness.  The promise of connect settles, unless the application       *)
(* disconnects before it does; and the end of a session is announced when  *)
(* LiveKit loses the room and when disconnect of P2PTransport was called,  *)
(* unless the BFF rejects to remove a listener.                            *)
ConnectSettles ==
    \A s \in Sockets :
        promise[s] = "pending" ~> promise[s] # "pending" \/ socket[s] = "left"

EndAnnounced ==
    /\ (livekit = "disconnected" /\ joined = "resolved") ~> livekitTold = 1
    /\ IsDisposed ~> p2pTold = 1 \/ removing = 7

=============================================================================
