-------------------------------- MODULE Mesh --------------------------------
(***************************************************************************)
(* The WebRTC mesh of src/p2p/Mesh.ts: how the peers of an island offer,   *)
(* accept, keep and discard connections to each other.                     *)
(*                                                                         *)
(* Every peer runs one single-threaded Mesh.  Its handlers are atomic up   *)
(* to an `await'; an async function that is suspended is recorded in       *)
(* `job' of the instance it works on and resumes in an action of its own.  *)
(* Two components outside src/ are modelled from how Mesh uses them:       *)
(* RTCPeerConnection (connection states, descriptions, candidates) and the *)
(* BFF, which carries the signalling messages and may lose or reorder      *)
(* them.                                                                   *)
(*                                                                         *)
(* The caller of connectTo and disconnectFrom, who also answers            *)
(* shouldAcceptOffer (the P2PTransport), is left arbitrary here: it may    *)
(* connect to and disconnect from any peer at any time, and accept or      *)
(* refuse any offer.                                                       *)
(***************************************************************************)
EXTENDS Naturals, FiniteSets

CONSTANTS
    Peers,  \* peer ids; naturals, because Mesh compares ids with <
    Conns,  \* the RTCPeerConnection instances that may ever be constructed
    Env,    \* what the environment of the mesh does in this instance
    None    \* "no entry" of a Map, "no remote description"

Roles == {"initiator", "responder"}

(* "disconnect", "dispose": the transport calls it; "overlap": it calls    *)
(* connectTo for a peer while a call for that peer is pending; "reject":   *)
(* awaited promises reject; "refuse": shouldAcceptOffer says no; "lose":   *)
(* the BFF loses messages; "ice": an established connection breaks;        *)
(* "timeout": PEER_CONNECT_TIMEOUT passes.                                 *)
EnvEvents == {"disconnect", "dispose", "overlap", "reject", "refuse", "lose",
              "ice", "timeout"}

(* An instance is named by the mesh that constructs it, the peer it is     *)
(* for, whether it offers or answers, and a number: the n-th of its kind.  *)
(* Conns is the bound on how many are constructed.                         *)
ASSUME MeshAssumption ==
    /\ Peers \subseteq Nat
    /\ Conns \subseteq [at : Peers, peer : Peers, role : Roles, n : Nat]
    /\ None \notin Conns
    /\ Env \subseteq EnvEvents

VARIABLES
    disposed,   \* dispose(): "no", "removing" (awaiting the BFF), "yes"
    initiated,  \* initiatedConnections: Peers -> Peers -> instance or None
    received,   \* receivedConnections
    state,      \* connectionState of an instance; "none": not constructed
    remote,     \* the instance whose description was set as the remote one
    cand,       \* has the instance a candidate of its remote one
    dc,         \* is Connection.dc set, i.e. was its data channel opened
    old,        \* has PEER_CONNECT_TIMEOUT passed since createTimestamp
    job,        \* the await at which the function using an instance is
    net         \* signalling messages in flight

vars == <<disposed, initiated, received, state, remote, cand, dc, old, job, net>>

States == {"none", "new", "connecting", "connected", "disconnected",
           "failed", "closed"}
Messages == [type : {"offer", "answer", "candidate"}, conn : Conns]

-----------------------------------------------------------------------------

Entry(map, p, q) == {map[p][q]} \ {None}
EntriesOf(map, p) == {map[p][q] : q \in Peers} \ {None}
Tracked(p) == EntriesOf(initiated, p) \cup EntriesOf(received, p)

(* The instances of the connectTo calls for q that are suspended.          *)
Pending(p, q) ==
    {c \in Conns : c.at = p /\ c.peer = q /\ job[c] \in {"offering", "publishing"}}

(* The instance the next `new RTCPeerConnection' of that kind returns.     *)
Fresh(p, q, role) ==
    {c \in Conns : /\ c.at = p /\ c.peer = q /\ c.role = role
                   /\ state[c] = "none"
                   /\ \A d \in Conns : /\ d.at = p /\ d.peer = q
                                       /\ d.role = role /\ d.n < c.n
                                       => state[d] # "none"}

(* RTCPeerConnection.close() on a set of instances: no event is fired.     *)
Closing(S) == [c \in Conns |-> IF c \in S THEN "closed" ELSE state[c]]

Init ==
    /\ disposed = [p \in Peers |-> "no"]
    /\ initiated = [p \in Peers |-> [q \in Peers |-> None]]
    /\ received = [p \in Peers |-> [q \in Peers |-> None]]
    /\ state = [c \in Conns |-> "none"]
    /\ remote = [c \in Conns |-> None]
    /\ cand = [c \in Conns |-> FALSE]
    /\ dc = [c \in Conns |-> FALSE]
    /\ old = [c \in Conns |-> FALSE]
    /\ job = [c \in Conns |-> "none"]
    /\ net = {}

-----------------------------------------------------------------------------
(* connectTo                                                               *)

(* Up to `await createOffer': the instance is in no map yet.  The          *)
(* transport makes no call once it has disposed its mesh, and its flag     *)
(* updatingNetwork keeps two calls for one peer from overlapping.          *)
ConnectTo(p, q) ==
    /\ p # q
    /\ disposed[p] = "no"
    /\ "overlap" \in Env \/ Pending(p, q) = {}
    /\ initiated[p][q] = None /\ received[p][q] = None
    /\ \E c \in Fresh(p, q, "initiator") :
          /\ state' = [state EXCEPT ![c] = "new"]
          /\ job' = [job EXCEPT ![c] = "offering"]
    /\ UNCHANGED <<disposed, initiated, received, remote, cand, dc, old, net>>

(* createOffer and setLocalDescription resolve: the offer is published,    *)
(* and the gathering that the local description starts publishes the       *)
(* instance's candidate.                                                   *)
OfferCreated(c) ==
    /\ job[c] = "offering"
    /\ job' = [job EXCEPT ![c] = "publishing"]
    /\ net' = net \cup {[type |-> "offer", conn |-> c],
                        [type |-> "candidate", conn |-> c]}
    /\ UNCHANGED <<disposed, initiated, received, state, remote, cand, dc, old>>

(* Mutated: the instance replaces the peer's whole map.                    *)
ConnectToDoneUnkeyed(c) ==
    /\ job[c] = "publishing"
    /\ job' = [job EXCEPT ![c] = "none"]
    /\ initiated' = [initiated EXCEPT ![c.at] = c]
    /\ UNCHANGED <<disposed, received, state, remote, cand, dc, old, net>>

(* publishToTopic resolves: only now the instance enters the map.          *)
ConnectToDone(c) ==
    /\ job[c] = "publishing"
    /\ job' = [job EXCEPT ![c] = "none"]
    /\ initiated' = [initiated EXCEPT ![c.at][c.peer] = c]
    /\ UNCHANGED <<disposed, received, state, remote, cand, dc, old, net>>

(* One of the awaited promises rejects and connectTo throws.               *)
ConnectToFails(c) ==
    /\ "reject" \in Env
    /\ job[c] \in {"offering", "publishing"}
    /\ job' = [job EXCEPT ![c] = "none"]
    /\ UNCHANGED <<disposed, initiated, received, state, remote, cand, dc, old, net>>

-----------------------------------------------------------------------------
(* Signalling messages                                                     *)

(* onOfferMessage for an accepted offer while an own offer to that peer is *)
(* outstanding, at the peer with the smaller id.                           *)
OnOfferYield(m) ==
    LET p == m.conn.peer  q == m.conn.at IN
    /\ m \in net /\ m.type = "offer"
    /\ disposed[p] = "no"
    /\ initiated[p][q] # None /\ p < q
    /\ state' = Closing({initiated[p][q]})
    /\ initiated' = [initiated EXCEPT ![p][q] = None]
    /\ net' = net \ {m}
    /\ UNCHANGED <<disposed, received, remote, cand, dc, old, job>>

(* Mutated: without the check of `disposed'.                               *)
OnOfferAcceptDisposed(m) ==
    LET p == m.conn.peer  q == m.conn.at IN
    /\ m \in net /\ m.type = "offer"
    /\ ~(initiated[p][q] # None /\ p < q)
    /\ \E c \in Fresh(p, q, "responder") :
          /\ state' = [state EXCEPT ![c] = "new"]
          /\ received' = [received EXCEPT ![p][q] = c]
          /\ remote' = [remote EXCEPT ![c] = m.conn]
          /\ job' = [job EXCEPT ![c] = "answering"]
    /\ net' = net \ {m}
    /\ UNCHANGED <<disposed, initiated, cand, dc, old>>

(* onOfferMessage otherwise, up to `await setRemoteDescription'.  An entry *)
(* for the same peer is overwritten, not closed.                           *)
OnOfferAccept(m) ==
    LET p == m.conn.peer  q == m.conn.at IN
    /\ m \in net /\ m.type = "offer"
    /\ disposed[p] = "no"
    /\ ~(initiated[p][q] # None /\ p < q)
    /\ \E c \in Fresh(p, q, "responder") :
          /\ state' = [state EXCEPT ![c] = "new"]
          /\ received' = [received EXCEPT ![p][q] = c]
          /\ remote' = [remote EXCEPT ![c] = m.conn]
          /\ job' = [job EXCEPT ![c] = "answering"]
    /\ net' = net \ {m}
    /\ UNCHANGED <<disposed, initiated, cand, dc, old>>

(* createAnswer and setLocalDescription resolve and the answer is          *)
(* published; they reject on an instance that was closed meanwhile.        *)
AnswerCreated(c) ==
    /\ job[c] = "answering" /\ state[c] # "closed"
    /\ job' = [job EXCEPT ![c] = "none"]
    /\ state' = [state EXCEPT ![c] = "connecting"]
    /\ net' = net \cup {[type |-> "answer", conn |-> c],
                        [type |-> "candidate", conn |-> c]}
    /\ UNCHANGED <<disposed, initiated, received, remote, cand, dc, old>>

(* Mutated: the entry is deleted, but the instance is not closed.          *)
AnswerFailsForgets(c) ==
    /\ job[c] = "answering"
    /\ "reject" \in Env \/ state[c] = "closed"
    /\ job' = [job EXCEPT ![c] = "none"]
    /\ received' = [received EXCEPT ![c.at][c.peer] = None]
    /\ UNCHANGED <<disposed, initiated, state, remote, cand, dc, old, net>>

(* ... or one of them rejects: caught and logged, the entry stays.         *)
AnswerFails(c) ==
    /\ job[c] = "answering"
    /\ "reject" \in Env \/ state[c] = "closed"
    /\ job' = [job EXCEPT ![c] = "none"]
    /\ UNCHANGED <<disposed, initiated, received, state, remote, cand, dc, old, net>>

(* Mutated: an instance that has an answer takes another one.              *)
OnAnswerAgain(m) ==
    LET p == m.conn.peer
        c == initiated[p][m.conn.at]
        waits == c # None /\ state[c] \in {"new", "connecting"}
    IN
    /\ m \in net /\ m.type = "answer"
    /\ disposed[p] = "no"
    /\ remote' = IF waits THEN [remote EXCEPT ![c] = m.conn] ELSE remote
    /\ state' = IF waits THEN [state EXCEPT ![c] = "connecting"] ELSE state
    /\ net' = net \ {m}
    /\ UNCHANGED <<disposed, initiated, received, cand, dc, old, job>>

(* onAnswerListener: applied to whichever instance initiatedConnections    *)
(* holds for the sender, if that one still waits for an answer.  On an     *)
(* instance that has one, setRemoteDescription rejects and is caught.      *)
OnAnswer(m) ==
    LET p == m.conn.peer
        c == initiated[p][m.conn.at]
        waits == c # None /\ state[c] = "new" /\ remote[c] = None
    IN
    /\ m \in net /\ m.type = "answer"
    /\ disposed[p] = "no"
    /\ remote' = IF waits THEN [remote EXCEPT ![c] = m.conn] ELSE remote
    /\ state' = IF waits THEN [state EXCEPT ![c] = "connecting"] ELSE state
    /\ net' = net \ {m}
    /\ UNCHANGED <<disposed, initiated, received, cand, dc, old, job>>

(* onCandidateMessage: `initiator' in the message selects the map.  The    *)
(* instance found there takes the candidate only in a live state and if it *)
(* belongs to its remote description; otherwise addIceCandidate rejects.   *)
OnCandidate(m) ==
    LET p == m.conn.peer
        c == IF m.conn.role = "responder" THEN initiated[p][m.conn.at]
                                          ELSE received[p][m.conn.at]
    IN
    /\ m \in net /\ m.type = "candidate"
    /\ disposed[p] = "no"
    /\ cand' = IF /\ c # None
                  /\ state[c] \in {"new", "connecting", "connected"}
                  /\ remote[c] = m.conn
               THEN [cand EXCEPT ![c] = TRUE] ELSE cand
    /\ net' = net \ {m}
    /\ UNCHANGED <<disposed, initiated, received, state, remote, dc, old, job>>

(* shouldAcceptOffer refuses the offer: nothing is sent back.              *)
OnOfferRefuse(m) ==
    /\ "refuse" \in Env
    /\ m \in net /\ m.type = "offer"
    /\ disposed[m.conn.peer] = "no"
    /\ net' = net \ {m}
    /\ UNCHANGED <<disposed, initiated, received, state, remote, cand, dc, old, job>>

(* The BFF loses the message, or the mesh it reaches is disposed.          *)
Drop(m) ==
    /\ m \in net
    /\ "lose" \in Env \/ disposed[m.conn.peer] # "no"
    /\ net' = net \ {m}
    /\ UNCHANGED <<disposed, initiated, received, state, remote, cand, dc, old, job>>

-----------------------------------------------------------------------------
(* Discarding connections                                                  *)

(* Mutated: the initiated instance is deleted, but not closed.             *)
DisconnectFromHalf(p, q) ==
    /\ "disconnect" \in Env
    /\ Entry(initiated, p, q) \cup Entry(received, p, q) # {}
    /\ state' = Closing(Entry(received, p, q))
    /\ initiated' = [initiated EXCEPT ![p][q] = None]
    /\ received' = [received EXCEPT ![p][q] = None]
    /\ UNCHANGED <<disposed, remote, cand, dc, old, job, net>>

DisconnectFrom(p, q) ==
    /\ "disconnect" \in Env
    /\ Entry(initiated, p, q) \cup Entry(received, p, q) # {}
    /\ state' = Closing(Entry(initiated, p, q) \cup Entry(received, p, q))
    /\ initiated' = [initiated EXCEPT ![p][q] = None]
    /\ received' = [received EXCEPT ![p][q] = None]
    /\ UNCHANGED <<disposed, remote, cand, dc, old, job, net>>

(* Mutated: a connection that was up once is never discarded.              *)
InsaneWhileConnecting(c) ==
    c # None /\ state[c] \in {"new", "connecting"} /\ old[c]

Insane(c) == c # None /\ state[c] # "connected" /\ old[c]

(* Mutated: closes, but deletes from receivedConnections only.             *)
CheckConnectionsSanityKeeps(p) ==
    LET Kept(map) == [map EXCEPT ![p] =
                        [q \in Peers |-> IF Insane(@[q]) THEN None ELSE @[q]]]
    IN
    /\ disposed[p] = "no"
    /\ \E c \in Tracked(p) : Insane(c)
    /\ state' = Closing({c \in Tracked(p) : Insane(c)})
    /\ received' = Kept(received)
    /\ UNCHANGED <<disposed, initiated, remote, cand, dc, old, job, net>>

(* Mutated: looks at receivedConnections only.                             *)
CheckConnectionsSanityHalf(p) ==
    LET Kept(map) == [map EXCEPT ![p] =
                        [q \in Peers |-> IF Insane(@[q]) THEN None ELSE @[q]]]
    IN
    /\ disposed[p] = "no"
    /\ \E c \in EntriesOf(received, p) : Insane(c)
    /\ state' = Closing({c \in EntriesOf(received, p) : Insane(c)})
    /\ received' = Kept(received)
    /\ UNCHANGED <<disposed, initiated, remote, cand, dc, old, job, net>>

(* checkConnectionsSanity, called by the transport's network update.       *)
CheckConnectionsSanity(p) ==
    LET Kept(map) == [map EXCEPT ![p] =
                        [q \in Peers |-> IF Insane(@[q]) THEN None ELSE @[q]]]
    IN
    /\ disposed[p] = "no"
    /\ \E c \in Tracked(p) : Insane(c)
    /\ state' = Closing({c \in Tracked(p) : Insane(c)})
    /\ initiated' = Kept(initiated)
    /\ received' = Kept(received)
    /\ UNCHANGED <<disposed, remote, cand, dc, old, job, net>>

(* dispose, up to its first await ...                                      *)
Dispose(p) ==
    /\ "dispose" \in Env
    /\ disposed[p] = "no"
    /\ disposed' = [disposed EXCEPT ![p] = "removing"]
    /\ UNCHANGED <<initiated, received, state, remote, cand, dc, old, job, net>>

(* ... and after the BFF removed the three listeners.                      *)
DisposeDone(p) ==
    /\ disposed[p] = "removing"
    /\ disposed' = [disposed EXCEPT ![p] = "yes"]
    /\ state' = Closing(Tracked(p))
    /\ initiated' = [initiated EXCEPT ![p] = [q \in Peers |-> None]]
    /\ received' = [received EXCEPT ![p] = [q \in Peers |-> None]]
    /\ UNCHANGED <<remote, cand, dc, old, job, net>>

-----------------------------------------------------------------------------
(* RTCPeerConnection                                                       *)

(* ICE can join two instances that hold each other's descriptions and at   *)
(* least one candidate, as long as neither end is gone.                    *)
Paired(c) ==
    LET d == remote[c] IN
    /\ d # None /\ remote[d] = c
    /\ state[d] \in {"connecting", "connected", "disconnected"}
    /\ cand[c] \/ cand[d]

Connected(c) ==
    /\ state[c] \in {"connecting", "disconnected"}
    /\ Paired(c)
    /\ state' = [state EXCEPT ![c] = "connected"]
    /\ UNCHANGED <<disposed, initiated, received, remote, cand, dc, old, job, net>>

(* The other end is beyond reach: closed or failed, joined to another      *)
(* instance, or waiting for an answer that is no longer on its way.        *)
Gone(c) ==
    LET d == remote[c] IN
    /\ d # None
    /\ \/ state[d] \in {"closed", "failed"}
       \/ remote[d] \notin {None, c}
       \/ /\ remote[d] = None /\ job[c] = "none"
          /\ [type |-> "answer", conn |-> c] \notin net

Disconnected(c) ==
    /\ state[c] = "connected"
    /\ "ice" \in Env \/ Gone(c)
    /\ state' = [state EXCEPT ![c] = "disconnected"]
    /\ UNCHANGED <<disposed, initiated, received, remote, cand, dc, old, job, net>>

(* The listeners of connectTo (lines 90-92) and of the `datachannel' event *)
(* (lines 342-348) put the channel in the Connection once it is open.      *)
DataChannelOpen(c) ==
    /\ state[c] = "connected" /\ ~dc[c]
    /\ dc' = [dc EXCEPT ![c] = TRUE]
    /\ UNCHANGED <<disposed, initiated, received, state, remote, cand, old, job, net>>

(* `failed' runs the connectionstatechange listener of the instance.  The  *)
(* one of connectTo (lines 71-85) and the one of onOfferMessage (lines     *)
(* 327-341) both delete the peer's entry of receivedConnections.           *)
Failed(c) ==
    /\ state[c] \in {"connecting", "disconnected"}
    /\ "ice" \in Env \/ Gone(c)
    /\ state' = [state EXCEPT ![c] = "failed"]
    /\ received' = [received EXCEPT ![c.at][c.peer] = None]
    /\ UNCHANGED <<disposed, initiated, remote, cand, dc, old, job, net>>

(* PEER_CONNECT_TIMEOUT passes since the instance was constructed.         *)
Timeout(c) ==
    /\ "timeout" \in Env
    /\ c \in Tracked(c.at) /\ ~old[c]
    /\ old' = [old EXCEPT ![c] = TRUE]
    /\ UNCHANGED <<disposed, initiated, received, state, remote, cand, dc, job, net>>

-----------------------------------------------------------------------------

Deliver(m) ==
    \/ OnOfferYield(m) \/ OnOfferAccept(m) \/ OnOfferRefuse(m)
    \/ OnAnswer(m) \/ OnCandidate(m)

Resume(c) ==
    \/ OfferCreated(c) \/ ConnectToDone(c) \/ ConnectToFails(c)
    \/ AnswerCreated(c) \/ AnswerFails(c)

Ice(c) == Connected(c) \/ Disconnected(c) \/ Failed(c) \/ DataChannelOpen(c)

Next ==
    \/ \E p, q \in Peers : ConnectTo(p, q) \/ DisconnectFrom(p, q)
    \/ \E p \in Peers :
          CheckConnectionsSanity(p) \/ Dispose(p) \/ DisposeDone(p)
    \/ \E m \in net : Deliver(m) \/ Drop(m)
    \/ \E c \in Conns : Resume(c) \/ Ice(c) \/ Timeout(c)

Spec == Init /\ [][Next]_vars

(* The transport calls checkConnectionsSanity from a timer, time passes,   *)
(* the BFF answers dispose, and ICE notices that the other end is gone.    *)
Fairness ==
    /\ \A p \in Peers :
          WF_vars(CheckConnectionsSanity(p)) /\ WF_vars(DisposeDone(p))
    /\ \A c \in Conns :
          /\ WF_vars(Timeout(c))
          /\ WF_vars(Gone(c) /\ (Disconnected(c) \/ Failed(c)))

FairSpec == Spec /\ Fairness

-----------------------------------------------------------------------------
(* Properties                                                              *)

(* Every variable has its type.                                            *)
TypeOK ==
    /\ disposed \in [Peers -> {"no", "removing", "yes"}]
    /\ initiated \in [Peers -> [Peers -> Conns \cup {None}]]
    /\ received \in [Peers -> [Peers -> Conns \cup {None}]]
    /\ state \in [Conns -> States]
    /\ remote \in [Conns -> Conns \cup {None}]
    /\ cand \in [Conns -> BOOLEAN]
    /\ dc \in [Conns -> BOOLEAN]
    /\ old \in [Conns -> BOOLEAN]
    /\ job \in [Conns -> {"none", "offering", "publishing", "answering"}]
    /\ net \subseteq Messages

(* The two maps never hold a dead connection: what initiatedConnections    *)
(* or receivedConnections gives for a peer was constructed for that peer   *)
(* in that role and is not closed, no connectTo still works on an          *)
(* initiated one, and a received one has not failed either.  Every path    *)
(* that closes an instance, and the `failed' listeners, must clean up.     *)
TrackedOpen ==
    \A p, q \in Peers :
       /\ \A c \in Entry(initiated, p, q) :
             /\ c.at = p /\ c.peer = q /\ c.role = "initiator"
             /\ state[c] \notin {"none", "closed"} /\ job[c] = "none"
       /\ \A c \in Entry(received, p, q) :
             /\ c.at = p /\ c.peer = q /\ c.role = "responder"
             /\ state[c] \notin {"none", "closed", "failed"}

(* Whatever is lost, late or repeated, data only ever flows between the    *)
(* offering end at one peer and the answering end at the other, each       *)
(* holding the other's description: an answer that onAnswerListener gives  *)
(* to a newer instance than it was made for never yields a connection.     *)
ConnectedAcross ==
    \A c \in Conns : state[c] \in {"connected", "disconnected"} =>
        /\ remote[c] \in Conns /\ remote[remote[c]] = c
        /\ remote[c].at = c.peer /\ remote[c].peer = c.at
        /\ remote[c].role # c.role

(* As long as no two connectTo calls for a peer overlap, an initiated      *)
(* instance that was answered can be reached until it is closed: there is  *)
(* no connection that exchanges packets but that disconnectFrom, the       *)
(* sanity check and dispose do not see.                                    *)
InitiatedNeverLeaks ==
    \A c \in Conns :
        c.role = "initiator" /\ remote[c] # None /\ state[c] # "closed"
        => initiated[c.at][c.peer] = c

(* A received instance can leak, but for two reasons only: a later offer   *)
(* of that peer overwrote the entry (line 325), or an instance for the     *)
(* same peer failed, whose listener deletes the peer's entry whichever     *)
(* instance it holds (lines 77, 80, 333, 336), or was closed with it.      *)
LeakHasCause ==
    \A c \in Conns :
        /\ c.role = "responder"
        /\ state[c] \notin {"none", "closed", "failed"}
        /\ received[c.at][c.peer] # c
        => \E d \in Conns \ {c} :
              /\ d.at = c.at /\ d.peer = c.peer
              /\ \/ state[d] \in {"failed", "closed"}
                 \/ d.role = "responder" /\ d.n > c.n /\ state[d] # "none"

(* When dispose has returned, the mesh holds no connection that was ever   *)
(* negotiated, and none it holds ever will be: all that a connectTo still  *)
(* suspended then can add is an offer without an answer.                   *)
DisposedIsSilent ==
    \A p \in Peers : disposed[p] = "yes" =>
        \A c \in Tracked(p) :
            /\ initiated[p][c.peer] = c
            /\ state[c] = "new" /\ remote[c] = None /\ ~dc[c]

(* What the transport of p sees of its mesh.                               *)
Seen(c) ==
    IF c = None THEN "none" ELSE IF state[c] = "connected" THEN "up" ELSE "trying"

View(p) == INSTANCE MeshView WITH
    Self <- p,
    Others <- Peers \ {p},
    Overlap <- "overlap" \in Env,
    initiated <- [q \in Peers \ {p} |-> Seen(initiated[p][q])],
    received <- [q \in Peers \ {p} |-> Seen(received[p][q])],
    calling <- {q \in Peers \ {p} : Pending(p, q) # {}},
    disposed <- disposed[p]

(* Every mesh keeps the contract that NetworkUpdate relies on: whatever    *)
(* messages, timers and states of instances do, its transport sees no more *)
(* than entries that appear where a call or an accepted offer puts them,   *)
(* come up, go down and disappear as MeshView says, and none comes up once *)
(* the mesh is disposed.                                                   *)
ImplementsView ==
    /\ \A p \in Peers : View(p)!Init
    /\ [][\A p \in Peers : UNCHANGED View(p)!vars \/ View(p)!Next]_vars

(* Liveness.  A connection that does not come up, or breaks, is discarded  *)
(* from whichever map holds it, by its `failed' listener or by             *)
(* checkConnectionsSanity.                                                 *)
DeadDiscarded ==
    \A c \in Conns :
        c \in Tracked(c.at) /\ state[c] # "connected"
        ~> \/ c \notin Tracked(c.at) \/ state[c] = "connected"
           \/ disposed[c.at] = "yes"

(* Liveness.  When the other end of a connection goes away, is joined to   *)
(* another instance or never gets the answer, the peer stops tracking the  *)
(* connection, whatever state it had reached.                              *)
GoneForgotten ==
    \A c \in Conns :
        Gone(c) ~> c \notin Tracked(c.at) \/ disposed[c.at] = "yes"

=============================================================================
