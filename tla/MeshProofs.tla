----------------------------- MODULE MeshProofs -----------------------------
(***************************************************************************)
(* Theorems about Mesh, for every set of peers and of instances.           *)
(***************************************************************************)
EXTENDS Mesh, TLAPS

(* An instance belongs to a peer and is made for a peer.                   *)
LEMMA ConnsType ==
    ASSUME NEW c \in Conns
    PROVE  c.at \in Peers /\ c.peer \in Peers /\ c.role \in Roles /\ c # None
BY MeshAssumption

(* So do the messages about it.                                            *)
LEMMA MessageType ==
    ASSUME TypeOK, NEW m \in net
    PROVE  /\ m.conn \in Conns /\ m.conn.at \in Peers /\ m.conn.peer \in Peers
           /\ m.conn.role \in Roles
BY ConnsType DEF TypeOK, Messages

(* The entries of a map are instances.                                     *)
LEMMA EntryType ==
    ASSUME TypeOK, NEW p \in Peers, NEW q \in Peers
    PROVE  /\ initiated[p][q] # None => initiated[p][q] \in Conns
           /\ received[p][q] # None => received[p][q] \in Conns
BY DEF TypeOK

(* A fresh instance.                                                       *)
LEMMA FreshType ==
    ASSUME NEW p, NEW q, NEW role, NEW c \in Fresh(p, q, role)
    PROVE  /\ c \in Conns /\ c.at = p /\ c.peer = q /\ c.role = role
           /\ state[c] = "none"
BY DEF Fresh

-----------------------------------------------------------------------------
(* Types                                                                   *)

LEMMA TypeInit == Init => TypeOK
BY DEF Init, TypeOK, States

LEMMA TypeTransport ==
    ASSUME TypeOK, NEW p \in Peers, NEW q \in Peers,
           \/ ConnectTo(p, q) \/ DisconnectFrom(p, q)
           \/ CheckConnectionsSanity(p) \/ Dispose(p) \/ DisposeDone(p)
    PROVE  TypeOK'
<1>1. CASE ConnectTo(p, q)
  <2>1. PICK c \in Fresh(p, q, "initiator") :
           /\ state' = [state EXCEPT ![c] = "new"]
           /\ job' = [job EXCEPT ![c] = "offering"]
    BY <1>1 DEF ConnectTo
  <2>2. c \in Conns
    BY FreshType
  <2> QED
    BY <1>1, <2>1, <2>2 DEF TypeOK, ConnectTo, States
<1>2. CASE DisconnectFrom(p, q)
  BY <1>2 DEF TypeOK, DisconnectFrom, Closing, States
<1>3. CASE CheckConnectionsSanity(p)
  BY <1>3 DEF TypeOK, CheckConnectionsSanity, Closing, States
<1>4. CASE Dispose(p)
  BY <1>4 DEF TypeOK, Dispose
<1>5. CASE DisposeDone(p)
  BY <1>5 DEF TypeOK, DisposeDone, Closing, States
<1> QED
  BY <1>1, <1>2, <1>3, <1>4, <1>5

LEMMA TypeMessage ==
    ASSUME TypeOK, NEW m \in net, Deliver(m) \/ Drop(m)
    PROVE  TypeOK'
<1>1. m.conn \in Conns /\ m.conn.at \in Peers /\ m.conn.peer \in Peers
  BY MessageType
<1>2. CASE OnOfferYield(m)
  BY <1>1, <1>2 DEF TypeOK, OnOfferYield, Closing, States
<1>3. CASE OnOfferAccept(m)
  <2>1. PICK c \in Fresh(m.conn.peer, m.conn.at, "responder") :
           /\ state' = [state EXCEPT ![c] = "new"]
           /\ received' = [received EXCEPT ![m.conn.peer][m.conn.at] = c]
           /\ remote' = [remote EXCEPT ![c] = m.conn]
           /\ job' = [job EXCEPT ![c] = "answering"]
    BY <1>3 DEF OnOfferAccept
  <2>2. c \in Conns
    BY FreshType
  <2> QED
    BY <1>1, <1>3, <2>1, <2>2 DEF TypeOK, OnOfferAccept, States
<1>4. CASE OnOfferRefuse(m)
  BY <1>4 DEF TypeOK, OnOfferRefuse
<1>5. CASE OnAnswer(m)
  BY <1>1, <1>5, EntryType DEF TypeOK, OnAnswer, States
<1>6. CASE OnCandidate(m)
  BY <1>1, <1>6 DEF TypeOK, OnCandidate
<1>7. CASE Drop(m)
  BY <1>7 DEF TypeOK, Drop
<1> QED
  BY <1>2, <1>3, <1>4, <1>5, <1>6, <1>7 DEF Deliver

LEMMA TypeInstance ==
    ASSUME TypeOK, NEW c \in Conns, Resume(c) \/ Ice(c) \/ Timeout(c)
    PROVE  TypeOK'
<1>1. c.at \in Peers /\ c.peer \in Peers
  BY ConnsType
<1>2. CASE OfferCreated(c)
  BY <1>2 DEF TypeOK, OfferCreated, Messages
<1>3. CASE ConnectToDone(c)
  BY <1>1, <1>3 DEF TypeOK, ConnectToDone
<1>4. CASE ConnectToFails(c)
  BY <1>4 DEF TypeOK, ConnectToFails
<1>5. CASE AnswerCreated(c)
  BY <1>5 DEF TypeOK, AnswerCreated, Messages, States
<1>6. CASE AnswerFails(c)
  BY <1>6 DEF TypeOK, AnswerFails
<1>7. CASE Connected(c)
  BY <1>7 DEF TypeOK, Connected, States
<1>8. CASE Disconnected(c)
  BY <1>8 DEF TypeOK, Disconnected, States
<1>9. CASE Failed(c)
  BY <1>1, <1>9 DEF TypeOK, Failed, States
<1>10. CASE DataChannelOpen(c)
  BY <1>10 DEF TypeOK, DataChannelOpen
<1>11. CASE Timeout(c)
  BY <1>11 DEF TypeOK, Timeout
<1> QED
  BY <1>2, <1>3, <1>4, <1>5, <1>6, <1>7, <1>8, <1>9, <1>10, <1>11
  DEF Resume, Ice

LEMMA TypeNext == TypeOK /\ [Next]_vars => TypeOK'
<1>1. ASSUME TypeOK, UNCHANGED vars PROVE TypeOK'
  BY <1>1 DEF TypeOK, vars
<1> QED
  BY <1>1, TypeTransport, TypeMessage, TypeInstance DEF Next

(* Every variable keeps its type.                                          *)
THEOREM TypeCorrect == Spec => []TypeOK
BY TypeInit, TypeNext, PTL DEF Spec

-----------------------------------------------------------------------------
(* The maps                                                                *)

(* The instance of a suspended connectTo or onOfferMessage.                *)
Suspended ==
    \A c \in Conns :
        /\ job[c] \in {"offering", "publishing"} =>
              c.role = "initiator" /\ state[c] = "new"
        /\ job[c] = "answering" => c.role = "responder"

(* An instance that is not constructed, or whose offer has no answer yet.  *)
Waiting ==
    \A c \in Conns :
        /\ state[c] = "none" => job[c] = "none"
        /\ state[c] = "none" \/ (state[c] = "new" /\ c.role = "initiator")
              => remote[c] = None /\ ~dc[c]

Held == TypeOK /\ TrackedOpen /\ Suspended /\ Waiting

(* What TrackedOpen says of the entry for one peer.                        *)
LEMMA EntryOpen ==
    ASSUME TypeOK, TrackedOpen, NEW p \in Peers, NEW q \in Peers
    PROVE  /\ \A c \in Entry(initiated, p, q) :
                 /\ c \in Conns /\ c.at = p /\ c.peer = q /\ c.role = "initiator"
                 /\ state[c] # "none" /\ state[c] # "closed" /\ job[c] = "none"
           /\ \A c \in Entry(received, p, q) :
                 /\ c \in Conns /\ c.at = p /\ c.peer = q /\ c.role = "responder"
                 /\ state[c] # "none" /\ state[c] # "closed" /\ state[c] # "failed"
BY DEF TypeOK, TrackedOpen, Entry

(* Deleting entries and closing the instances they held, and no other.     *)
LEMMA HeldClosing ==
    ASSUME Held, TypeOK', NEW S, state' = Closing(S),
           UNCHANGED <<remote, dc, job>>,
           \A c \in S : \E p, q \in Peers :
              c \in Entry(initiated, p, q) \cup Entry(received, p, q),
           \A p, q \in Peers :
              /\ Entry(initiated', p, q) \subseteq Entry(initiated, p, q) \ S
              /\ Entry(received', p, q) \subseteq Entry(received, p, q) \ S
    PROVE  Held'
<1>1. TypeOK /\ TrackedOpen /\ Suspended /\ Waiting
  BY DEF Held
<1>2. \A c \in Conns : state'[c] = IF c \in S THEN "closed" ELSE state[c]
  BY DEF Closing
<1>3. \A c \in S : /\ c \in Conns /\ state[c] # "none"
                   /\ job[c] # "offering" /\ job[c] # "publishing"
  BY <1>1, EntryOpen DEF Suspended
<1>4. TrackedOpen'
  <2>1. ASSUME NEW p \in Peers, NEW q \in Peers, NEW c \in Entry(initiated', p, q)
        PROVE  /\ c.at = p /\ c.peer = q /\ c.role = "initiator"
               /\ state'[c] # "none" /\ state'[c] # "closed" /\ job'[c] = "none"
    BY <2>1, <1>1, <1>2, EntryOpen
  <2>2. ASSUME NEW p \in Peers, NEW q \in Peers, NEW c \in Entry(received', p, q)
        PROVE  /\ c.at = p /\ c.peer = q /\ c.role = "responder"
               /\ state'[c] # "none" /\ state'[c] # "closed" /\ state'[c] # "failed"
    BY <2>2, <1>1, <1>2, EntryOpen
  <2> QED
    BY <2>1, <2>2 DEF TrackedOpen, Entry
<1>5. Suspended' /\ Waiting'
  BY <1>1, <1>2, <1>3 DEF Suspended, Waiting
<1> QED
  BY <1>4, <1>5 DEF Held

LEMMA HeldInit == Init => Held
<1>1. ASSUME Init PROVE TrackedOpen
  BY <1>1 DEF Init, TrackedOpen, Entry
<1> QED
  BY <1>1, TypeInit DEF Init, Held, Suspended, Waiting

(* Closing an instance and deleting the entry that holds it.               *)
LEMMA HeldTransport ==
    ASSUME Held, NEW p \in Peers, NEW q \in Peers, TypeOK',
           \/ ConnectTo(p, q) \/ DisconnectFrom(p, q)
           \/ CheckConnectionsSanity(p) \/ Dispose(p) \/ DisposeDone(p)
    PROVE  Held'
<1>1. TypeOK /\ TrackedOpen /\ Suspended /\ Waiting
  BY DEF Held
<1>2. CASE ConnectTo(p, q)
  <2>1. PICK c \in Fresh(p, q, "initiator") :
           /\ state' = [state EXCEPT ![c] = "new"]
           /\ job' = [job EXCEPT ![c] = "offering"]
    BY <1>2 DEF ConnectTo
  <2>2. c \in Conns /\ c.role = "initiator" /\ state[c] = "none"
    BY FreshType
  <2>3. UNCHANGED <<initiated, received, remote, dc>>
    BY <1>2 DEF ConnectTo
  <2>4. TrackedOpen'
    BY <1>1, <2>1, <2>2, <2>3 DEF TrackedOpen, Entry, TypeOK
  <2>5. Suspended' /\ Waiting'
    BY <1>1, <2>1, <2>2, <2>3 DEF Suspended, Waiting, TypeOK
  <2> QED
    BY <2>4, <2>5 DEF Held
<1>3. CASE DisconnectFrom(p, q)
  <2>1. PICK S : S = Entry(initiated, p, q) \cup Entry(received, p, q)
    OBVIOUS
  <2>2. state' = Closing(S) /\ UNCHANGED <<remote, dc, job>>
    BY <1>3, <2>1 DEF DisconnectFrom
  <2>3. \A a, b \in Peers :
           /\ Entry(initiated', a, b) = IF a = p /\ b = q THEN {} ELSE Entry(initiated, a, b)
           /\ Entry(received', a, b) = IF a = p /\ b = q THEN {} ELSE Entry(received, a, b)
    BY <1>1, <1>3 DEF DisconnectFrom, Entry, TypeOK
  <2>4. \A a, b \in Peers :
           /\ Entry(initiated', a, b) \subseteq Entry(initiated, a, b) \ S
           /\ Entry(received', a, b) \subseteq Entry(received, a, b) \ S
    BY <1>1, <2>1, <2>3, EntryOpen
  <2> QED
    BY <2>1, <2>2, <2>4, HeldClosing
<1>4. CASE CheckConnectionsSanity(p)
  <2>1. PICK S : S = {c \in Tracked(p) : Insane(c)}
    OBVIOUS
  <2>2. state' = Closing(S) /\ UNCHANGED <<remote, dc, job>>
    BY <1>4, <2>1 DEF CheckConnectionsSanity
  <2>3. \A c \in S : \E a, b \in Peers :
           c \in Entry(initiated, a, b) \cup Entry(received, a, b)
    BY <2>1 DEF Tracked, EntriesOf, Entry
  <2>4. \A a, b \in Peers :
           /\ Entry(initiated', a, b) =
                 {c \in Entry(initiated, a, b) : ~(a = p /\ Insane(c))}
           /\ Entry(received', a, b) =
                 {c \in Entry(received, a, b) : ~(a = p /\ Insane(c))}
    BY <1>1, <1>4 DEF CheckConnectionsSanity, Entry, TypeOK
  <2>5. \A c \in S : Insane(c) /\ \E b \in Peers :
           c \in Entry(initiated, p, b) \cup Entry(received, p, b)
    BY <2>1 DEF Tracked, EntriesOf, Entry
  <2>6. \A a, b \in Peers :
           /\ Entry(initiated', a, b) \subseteq Entry(initiated, a, b) \ S
           /\ Entry(received', a, b) \subseteq Entry(received, a, b) \ S
    BY <1>1, <2>4, <2>5, EntryOpen
  <2> QED
    BY <2>2, <2>3, <2>6, HeldClosing
<1>5. CASE Dispose(p)
  BY <1>1, <1>5 DEF Held, Dispose, TrackedOpen, Entry, Suspended, Waiting
<1>6. CASE DisposeDone(p)
  <2>1. state' = Closing(Tracked(p)) /\ UNCHANGED <<remote, dc, job>>
    BY <1>6 DEF DisposeDone
  <2>2. \A c \in Tracked(p) : \E b \in Peers :
           c \in Entry(initiated, p, b) \cup Entry(received, p, b)
    BY DEF Tracked, EntriesOf, Entry
  <2>3. \A a, b \in Peers :
           /\ Entry(initiated', a, b) = IF a = p THEN {} ELSE Entry(initiated, a, b)
           /\ Entry(received', a, b) = IF a = p THEN {} ELSE Entry(received, a, b)
    BY <1>1, <1>6 DEF DisposeDone, Entry, TypeOK
  <2>4. \A a, b \in Peers :
           /\ Entry(initiated', a, b) \subseteq Entry(initiated, a, b) \ Tracked(p)
           /\ Entry(received', a, b) \subseteq Entry(received, a, b) \ Tracked(p)
    BY <1>1, <2>2, <2>3, EntryOpen
  <2> QED
    BY <2>1, <2>2, <2>4, HeldClosing
<1> QED
  BY <1>2, <1>3, <1>4, <1>5, <1>6

LEMMA HeldMessage ==
    ASSUME Held, TypeOK', NEW m \in net, Deliver(m) \/ Drop(m)
    PROVE  Held'
<1>a. SUFFICES ASSUME NEW p, p = m.conn.peer, NEW q, q = m.conn.at
               PROVE  Held'
  OBVIOUS
<1>1. TypeOK /\ TrackedOpen /\ Suspended /\ Waiting
  BY DEF Held
<1>2. m.conn \in Conns /\ p \in Peers /\ q \in Peers
  BY <1>a, <1>1, MessageType
<1>3. CASE OnOfferYield(m)
  <2>1. PICK S : S = {initiated[p][q]}
    OBVIOUS
  <2>2. /\ state' = Closing(S) /\ UNCHANGED <<remote, dc, job, received>>
        /\ initiated[p][q] # None
        /\ initiated' = [initiated EXCEPT ![p][q] = None]
    BY <1>a, <1>3, <2>1 DEF OnOfferYield
  <2>3. \A c \in S : c \in Entry(initiated, p, q)
    BY <2>1, <2>2 DEF Entry
  <2>4. \A a, b \in Peers :
           /\ Entry(initiated', a, b) =
                 IF a = p /\ b = q THEN {} ELSE Entry(initiated, a, b)
           /\ Entry(received', a, b) = Entry(received, a, b)
    BY <1>1, <1>2, <2>2 DEF Entry, TypeOK
  <2>5. \A a, b \in Peers :
           /\ Entry(initiated', a, b) \subseteq Entry(initiated, a, b) \ S
           /\ Entry(received', a, b) \subseteq Entry(received, a, b) \ S
    BY <1>1, <1>2, <2>3, <2>4, EntryOpen
  <2> QED
    BY <1>2, <2>2, <2>3, <2>5, HeldClosing
<1>4. CASE OnOfferAccept(m)
  <2>1. PICK c \in Fresh(p, q, "responder") :
           /\ state' = [state EXCEPT ![c] = "new"]
           /\ received' = [received EXCEPT ![p][q] = c]
           /\ remote' = [remote EXCEPT ![c] = m.conn]
           /\ job' = [job EXCEPT ![c] = "answering"]
    BY <1>a, <1>4 DEF OnOfferAccept
  <2>2. c \in Conns /\ c.at = p /\ c.peer = q /\ c.role = "responder" /\ state[c] = "none"
    BY FreshType
  <2>3. UNCHANGED <<initiated, dc>>
    BY <1>4 DEF OnOfferAccept
  <2>4. TrackedOpen'
    BY <1>1, <1>2, <2>1, <2>2, <2>3 DEF TrackedOpen, Entry, TypeOK
  <2>5. Suspended' /\ Waiting'
    BY <1>1, <2>1, <2>2, <2>3 DEF Suspended, Waiting, TypeOK
  <2> QED
    BY <2>4, <2>5 DEF Held
<1>5. CASE OnAnswer(m)
  <2>1. UNCHANGED <<initiated, received, dc, job>>
    BY <1>5 DEF OnAnswer
  <2>2. CASE UNCHANGED <<state, remote>>
    BY <1>1, <2>1, <2>2 DEF Held, TrackedOpen, Entry, Suspended, Waiting
  <2>3. CASE ~UNCHANGED <<state, remote>>
    <3>1. PICK c : /\ c = initiated[p][q] /\ c # None /\ state[c] = "new"
                   /\ remote' = [remote EXCEPT ![c] = m.conn]
                   /\ state' = [state EXCEPT ![c] = "connecting"]
      BY <1>a, <1>5, <2>3 DEF OnAnswer
    <3>2. c \in Conns /\ job[c] = "none"
      BY <1>1, <1>2, <3>1, EntryOpen DEF Entry
    <3>3. \A d \in Conns : /\ state'[d] = IF d = c THEN "connecting" ELSE state[d]
                           /\ d # c => remote'[d] = remote[d]
      BY <1>1, <3>1, <3>2 DEF TypeOK
    <3>4. TrackedOpen'
      BY <1>1, <2>1, <3>3, EntryOpen DEF TrackedOpen, Entry
    <3>5. Suspended' /\ Waiting'
      BY <1>1, <2>1, <3>2, <3>3 DEF Suspended, Waiting
    <3> QED
      BY <3>4, <3>5 DEF Held
  <2> QED
    BY <2>2, <2>3
<1>6. CASE OnCandidate(m) \/ OnOfferRefuse(m) \/ Drop(m)
  <2>1. UNCHANGED <<initiated, received, state, remote, dc, job>>
    BY <1>6 DEF OnCandidate, OnOfferRefuse, Drop
  <2> QED
    BY <1>1, <2>1 DEF Held, TrackedOpen, Entry, Suspended, Waiting
<1> QED
  BY <1>3, <1>4, <1>5, <1>6 DEF Deliver

LEMMA HeldInstance ==
    ASSUME Held, TypeOK', NEW c \in Conns, Resume(c) \/ Ice(c) \/ Timeout(c)
    PROVE  Held'
<1>1. TypeOK /\ TrackedOpen /\ Suspended /\ Waiting
  BY DEF Held
<1>2. c.at \in Peers /\ c.peer \in Peers /\ c # None
  BY ConnsType
<1>3. CASE ConnectToDone(c)
  <2>1. /\ job[c] = "publishing" /\ job' = [job EXCEPT ![c] = "none"]
        /\ initiated' = [initiated EXCEPT ![c.at][c.peer] = c]
        /\ UNCHANGED <<received, state, remote, dc>>
    BY <1>3 DEF ConnectToDone
  <2>2. c.role = "initiator" /\ state[c] = "new"
    BY <1>1, <2>1 DEF Suspended
  <2>3. TrackedOpen'
    BY <1>1, <1>2, <2>1, <2>2 DEF TrackedOpen, Entry, TypeOK
  <2>4. Suspended' /\ Waiting'
    BY <1>1, <2>1, <2>2 DEF Suspended, Waiting, TypeOK
  <2> QED
    BY <2>3, <2>4 DEF Held
<1>4. CASE OfferCreated(c) \/ ConnectToFails(c) \/ AnswerFails(c)
  <2>1. /\ UNCHANGED <<initiated, received, state, remote, dc>>
        /\ job[c] # "none"
        /\ \/ job' = [job EXCEPT ![c] = "none"]
           \/ job[c] = "offering" /\ job' = [job EXCEPT ![c] = "publishing"]
    BY <1>4 DEF OfferCreated, ConnectToFails, AnswerFails
  <2>2. TrackedOpen'
    BY <1>1, <2>1 DEF TrackedOpen, Entry, TypeOK
  <2>3. Suspended' /\ Waiting'
    BY <1>1, <2>1 DEF Suspended, Waiting, TypeOK
  <2> QED
    BY <2>2, <2>3 DEF Held
<1>5. CASE AnswerCreated(c)
  <2>1. /\ job[c] = "answering" /\ job' = [job EXCEPT ![c] = "none"]
        /\ state' = [state EXCEPT ![c] = "connecting"]
        /\ UNCHANGED <<initiated, received, remote, dc>>
    BY <1>5 DEF AnswerCreated
  <2>2. TrackedOpen'
    BY <1>1, <2>1 DEF TrackedOpen, Entry, TypeOK
  <2>3. Suspended' /\ Waiting'
    BY <1>1, <2>1 DEF Suspended, Waiting, TypeOK
  <2> QED
    BY <2>2, <2>3 DEF Held
<1>6. CASE Connected(c) \/ Disconnected(c)
  <2>1. /\ state[c] \in {"connecting", "connected", "disconnected"}
        /\ \/ state' = [state EXCEPT ![c] = "connected"]
           \/ state' = [state EXCEPT ![c] = "disconnected"]
        /\ UNCHANGED <<initiated, received, remote, dc, job>>
    BY <1>6 DEF Connected, Disconnected
  <2>2. TrackedOpen'
    BY <1>1, <2>1 DEF TrackedOpen, Entry, TypeOK
  <2>3. Suspended' /\ Waiting'
    BY <1>1, <2>1 DEF Suspended, Waiting, TypeOK
  <2> QED
    BY <2>2, <2>3 DEF Held
<1>7. CASE Failed(c)
  <2>1. /\ state[c] \in {"connecting", "disconnected"}
        /\ state' = [state EXCEPT ![c] = "failed"]
        /\ received' = [received EXCEPT ![c.at][c.peer] = None]
        /\ UNCHANGED <<initiated, remote, dc, job>>
    BY <1>7 DEF Failed
  <2>2. TrackedOpen'
    BY <1>1, <1>2, <2>1 DEF TrackedOpen, Entry, TypeOK
  <2>3. Suspended' /\ Waiting'
    BY <1>1, <2>1 DEF Suspended, Waiting, TypeOK
  <2> QED
    BY <2>2, <2>3 DEF Held
<1>8. CASE DataChannelOpen(c)
  <2>1. /\ state[c] = "connected" /\ dc' = [dc EXCEPT ![c] = TRUE]
        /\ UNCHANGED <<initiated, received, state, remote, job>>
    BY <1>8 DEF DataChannelOpen
  <2> QED
    BY <1>1, <2>1 DEF Held, TrackedOpen, Entry, Suspended, Waiting, TypeOK
<1>9. CASE Timeout(c)
  BY <1>1, <1>9 DEF Timeout, Held, TrackedOpen, Entry, Suspended, Waiting
<1> QED
  BY <1>3, <1>4, <1>5, <1>6, <1>7, <1>8, <1>9 DEF Resume, Ice

LEMMA HeldNext == Held /\ [Next]_vars => Held'
<1>1. ASSUME Held, UNCHANGED vars PROVE Held'
  BY <1>1 DEF vars, Held, TypeOK, TrackedOpen, Entry, Suspended, Waiting
<1>2. ASSUME Held, [Next]_vars PROVE TypeOK'
  BY <1>2, TypeNext DEF Held
<1> QED
  BY <1>1, <1>2, HeldTransport, HeldMessage, HeldInstance DEF Next

(* However often connections are retried, replaced, closed or fail while   *)
(* functions are suspended, the two maps of a mesh never hold a dead one.  *)
THEOREM TrackedOpenCorrect == Spec => []TrackedOpen
<1>1. Held => TrackedOpen
  BY DEF Held
<1> QED
  BY <1>1, HeldInit, HeldNext, PTL DEF Spec

-----------------------------------------------------------------------------
(* Who is connected to whom                                                *)

(* Offers come from initiators, answers from responders.                   *)
Named ==
    \A m \in net : /\ m.type = "offer" => m.conn.role = "initiator"
                   /\ m.type = "answer" => m.conn.role = "responder"

(* d is an instance of the peer that c is for, in the other role.          *)
Across(c, d) == d \in Conns /\ d.at = c.peer /\ d.peer = c.at /\ d.role # c.role

(* A remote description is one of the other end, and what is connected was *)
(* chosen by the other end too.                                            *)
Joined ==
    \A c \in Conns :
        /\ remote[c] # None => Across(c, remote[c])
        /\ state[c] \in {"connected", "disconnected"} =>
              remote[c] # None /\ remote[remote[c]] = c

LEMMA JoinedInit == Init => Named /\ Joined
BY DEF Init, Named, Joined

(* A step that sets no description, sends nothing and connects nothing.    *)
LEMMA JoinedKept ==
    ASSUME Named, Joined, remote' = remote, net' \subseteq net,
           \A c \in Conns : state'[c] \in {"connected", "disconnected"} =>
                            state[c] \in {"connected", "disconnected"}
    PROVE  Named' /\ Joined'
BY DEF Named, Joined, Across

(* A step that sets the description of an instance that had none.          *)
LEMMA JoinedRemote ==
    ASSUME TypeOK, Waiting, Named, Joined, net' \subseteq net, NEW c \in Conns, NEW d,
           Across(c, d), remote[c] = None, remote' = [remote EXCEPT ![c] = d],
           NEW s, s = "new" \/ s = "connecting", state' = [state EXCEPT ![c] = s]
    PROVE  Named' /\ Joined'
<1>1. \A e \in Conns : /\ remote'[e] = IF e = c THEN d ELSE remote[e]
                       /\ state'[e] = IF e = c THEN s ELSE state[e]
  BY DEF TypeOK
<1>2. c # None /\ d # None
  BY ConnsType DEF Across
<1>3. \A e \in Conns : remote[e] # None => remote[e] \in Conns
  BY DEF TypeOK
<1>4. Named'
  BY DEF Named
<1>5. Joined'
  <2>1. ASSUME NEW e \in Conns, remote'[e] # None
        PROVE  Across(e, remote'[e])
    BY <2>1, <1>1 DEF Joined
  <2>2. ASSUME NEW e \in Conns, state'[e] \in {"connected", "disconnected"}
        PROVE  remote'[e] # None /\ remote'[remote'[e]] = e
    <3>1. e # c /\ state[e] \in {"connected", "disconnected"}
      BY <2>2, <1>1
    <3>2. remote[e] # None /\ remote[remote[e]] = e /\ remote[e] \in Conns
      BY <3>1, <1>3 DEF Joined
    <3>3. remote[e] # c
      BY <3>2, ConnsType
    <3> QED
      BY <3>1, <3>2, <3>3, <1>1
  <2> QED
    BY <2>1, <2>2 DEF Joined, Across
<1> QED
  BY <1>4, <1>5

LEMMA JoinedTransport ==
    ASSUME Held, Named, Joined, NEW p \in Peers, NEW q \in Peers,
           \/ ConnectTo(p, q) \/ DisconnectFrom(p, q)
           \/ CheckConnectionsSanity(p) \/ Dispose(p) \/ DisposeDone(p)
    PROVE  Named' /\ Joined'
<1>1. remote' = remote /\ net' = net
  BY DEF ConnectTo, DisconnectFrom, CheckConnectionsSanity, Dispose, DisposeDone
<1>2. ASSUME NEW c \in Conns, state'[c] \in {"connected", "disconnected"}
      PROVE  state[c] \in {"connected", "disconnected"}
  <2>1. CASE ConnectTo(p, q)
    BY <1>2, <2>1, FreshType DEF ConnectTo, Held, TypeOK
  <2>2. CASE \/ DisconnectFrom(p, q) \/ CheckConnectionsSanity(p)
             \/ Dispose(p) \/ DisposeDone(p)
    BY <1>2, <2>2 DEF DisconnectFrom, CheckConnectionsSanity, Dispose, DisposeDone, Closing
  <2> QED
    BY <2>1, <2>2
<1> QED
  BY <1>1, <1>2, JoinedKept

LEMMA JoinedMessage ==
    ASSUME Held, Named, Joined, NEW m \in net, Deliver(m) \/ Drop(m)
    PROVE  Named' /\ Joined'
<1>a. SUFFICES ASSUME NEW p, p = m.conn.peer, NEW q, q = m.conn.at
               PROVE  Named' /\ Joined'
  OBVIOUS
<1>1. TypeOK /\ TrackedOpen /\ Waiting
  BY DEF Held
<1>2. m.conn \in Conns /\ p \in Peers /\ q \in Peers
  BY <1>a, <1>1, MessageType
<1>3. net' \subseteq net
  BY DEF Deliver, OnOfferYield, OnOfferAccept, OnOfferRefuse, OnAnswer, OnCandidate, Drop
<1>4. CASE OnOfferYield(m)
  BY <1>3, <1>4, JoinedKept DEF OnOfferYield, Closing
<1>5. CASE OnOfferAccept(m)
  <2>1. PICK c \in Fresh(p, q, "responder") :
           /\ state' = [state EXCEPT ![c] = "new"]
           /\ remote' = [remote EXCEPT ![c] = m.conn]
    BY <1>a, <1>5 DEF OnOfferAccept
  <2>2. c \in Conns /\ c.at = p /\ c.peer = q /\ c.role = "responder" /\ state[c] = "none"
    BY FreshType
  <2>3. m.conn.role = "initiator" /\ m.conn.at = q /\ m.conn.peer = p
    BY <1>a, <1>5 DEF Named, OnOfferAccept
  <2>4. Across(c, m.conn) /\ remote[c] = None
    BY <1>1, <1>2, <2>2, <2>3 DEF Across, Waiting
  <2> QED
    BY <1>1, <1>3, <2>1, <2>2, <2>4, JoinedRemote
<1>6. CASE OnAnswer(m)
  <2>1. CASE UNCHANGED <<state, remote>>
    BY <1>3, <2>1, JoinedKept
  <2>2. CASE ~UNCHANGED <<state, remote>>
    <3>1. PICK c : /\ c = initiated[p][q] /\ c # None /\ remote[c] = None
                   /\ remote' = [remote EXCEPT ![c] = m.conn]
                   /\ state' = [state EXCEPT ![c] = "connecting"]
      BY <1>a, <1>6, <2>2 DEF OnAnswer
    <3>2. c \in Conns /\ c.at = p /\ c.peer = q /\ c.role = "initiator"
      BY <1>1, <1>2, <3>1, EntryOpen DEF Entry
    <3>3. m.conn.role = "responder" /\ m.conn.at = q /\ m.conn.peer = p
      BY <1>a, <1>6 DEF Named, OnAnswer
    <3>4. Across(c, m.conn)
      BY <1>2, <3>2, <3>3 DEF Across
    <3> QED
      BY <1>1, <1>3, <3>1, <3>2, <3>4, JoinedRemote
  <2> QED
    BY <2>1, <2>2
<1>7. CASE OnCandidate(m) \/ OnOfferRefuse(m) \/ Drop(m)
  <2>1. UNCHANGED <<state, remote>>
    BY <1>7 DEF OnCandidate, OnOfferRefuse, Drop
  <2> QED
    BY <1>3, <2>1, JoinedKept
<1> QED
  BY <1>4, <1>5, <1>6, <1>7 DEF Deliver

LEMMA JoinedInstance ==
    ASSUME Held, Named, Joined, NEW c \in Conns, Resume(c) \/ Ice(c) \/ Timeout(c)
    PROVE  Named' /\ Joined'
<1>1. TypeOK /\ Suspended
  BY DEF Held
<1>2. CASE OfferCreated(c)
  <2>1. c.role = "initiator" /\ UNCHANGED <<state, remote>>
        /\ net' = net \cup {[type |-> "offer", conn |-> c],
                            [type |-> "candidate", conn |-> c]}
    BY <1>1, <1>2 DEF OfferCreated, Suspended
  <2>2. Named'
    BY <2>1 DEF Named
  <2>3. Joined'
    BY <2>1 DEF Joined, Across
  <2> QED
    BY <2>2, <2>3
<1>3. CASE AnswerCreated(c)
  <2>1. c.role = "responder" /\ remote' = remote
        /\ state' = [state EXCEPT ![c] = "connecting"]
        /\ net' = net \cup {[type |-> "answer", conn |-> c],
                            [type |-> "candidate", conn |-> c]}
    BY <1>1, <1>3 DEF AnswerCreated, Suspended
  <2>2. Named'
    BY <2>1 DEF Named
  <2>3. Joined'
    BY <1>1, <2>1 DEF Joined, Across, TypeOK
  <2> QED
    BY <2>2, <2>3
<1>4. CASE Connected(c)
  <2>1. /\ remote[c] # None /\ remote[remote[c]] = c
        /\ state' = [state EXCEPT ![c] = "connected"]
        /\ UNCHANGED <<remote, net>>
    BY <1>4 DEF Connected, Paired
  <2>2. Named'
    BY <2>1 DEF Named
  <2>3. Joined'
    BY <1>1, <2>1 DEF Joined, Across, TypeOK
  <2> QED
    BY <2>2, <2>3
<1>5. CASE \/ ConnectToDone(c) \/ ConnectToFails(c) \/ AnswerFails(c)
           \/ DataChannelOpen(c) \/ Timeout(c)
  <2>1. UNCHANGED <<state, remote, net>>
    BY <1>5 DEF ConnectToDone, ConnectToFails, AnswerFails, DataChannelOpen, Timeout
  <2> QED
    BY <2>1, JoinedKept
<1>6. CASE Disconnected(c) \/ Failed(c)
  <2>1. /\ UNCHANGED <<remote, net>>
        /\ \A d \in Conns : state'[d] \in {"connected", "disconnected"} =>
                            state[d] \in {"connected", "disconnected"}
    BY <1>1, <1>6 DEF Disconnected, Failed, TypeOK
  <2> QED
    BY <2>1, JoinedKept
<1> QED
  BY <1>2, <1>3, <1>4, <1>5, <1>6 DEF Resume, Ice

LEMMA JoinedNext ==
    ASSUME Held, Named, Joined, [Next]_vars
    PROVE  Named' /\ Joined'
<1>1. CASE UNCHANGED vars
  BY <1>1, JoinedKept DEF vars
<1> QED
  BY <1>1, JoinedTransport, JoinedMessage, JoinedInstance DEF Next

(* Data only flows between two ends that chose each other, whichever       *)
(* instance an answer was given to.                                        *)
THEOREM ConnectedAcrossCorrect == Spec => []ConnectedAcross
<1>1. Init => Held /\ Named /\ Joined
  BY HeldInit, JoinedInit
<1>2. (Held /\ Named /\ Joined) /\ [Next]_vars => (Held /\ Named /\ Joined)'
  BY HeldNext, JoinedNext
<1>3. Joined => ConnectedAcross
  BY DEF Joined, Across, ConnectedAcross
<1> QED
  BY <1>1, <1>2, <1>3, PTL DEF Spec

-----------------------------------------------------------------------------
(* After dispose                                                           *)

(* A disposed mesh holds nothing but offers that nobody answered.          *)
Silent ==
    \A p \in Peers : disposed[p] = "yes" =>
        \A q \in Peers : /\ Entry(received, p, q) = {}
                         /\ \A c \in Entry(initiated, p, q) : state[c] = "new"

LEMMA SilentInit == Init => Silent
BY DEF Init, Silent

(* What a disposed mesh holds stays or goes, but does not change.          *)
LEMMA SilentKept ==
    ASSUME Silent,
           \A p \in Peers : disposed'[p] = "yes" =>
              /\ disposed[p] = "yes"
              /\ \A q \in Peers :
                    /\ Entry(received', p, q) \subseteq Entry(received, p, q)
                    /\ Entry(initiated', p, q) \subseteq Entry(initiated, p, q)
                    /\ \A c \in Entry(initiated', p, q) : state'[c] = state[c]
    PROVE  Silent'
<1>1. ASSUME NEW p \in Peers, disposed'[p] = "yes", NEW q \in Peers
      PROVE  /\ Entry(received', p, q) = {}
             /\ \A c \in Entry(initiated', p, q) : state'[c] = "new"
  BY <1>1 DEF Silent
<1> QED
  BY <1>1 DEF Silent, Entry

LEMMA SilentNext ==
    ASSUME Held, Silent, [Next]_vars
    PROVE  Silent'
<1>1. TypeOK /\ TrackedOpen /\ Suspended
  BY DEF Held
<1>2. ASSUME NEW p \in Peers, NEW q \in Peers, ConnectTo(p, q)
      PROVE  Silent'
  <2>1. PICK c \in Fresh(p, q, "initiator") : state' = [state EXCEPT ![c] = "new"]
    BY <1>2 DEF ConnectTo
  <2>2. c \in Conns /\ state[c] = "none"
    BY FreshType
  <2>3. UNCHANGED <<disposed, initiated, received>>
    BY <1>2 DEF ConnectTo
  <2>4. \A a, b \in Peers : \A d \in Entry(initiated, a, b) : state'[d] = state[d]
    BY <1>1, <2>1, <2>2, EntryOpen DEF TypeOK
  <2> QED
    BY <2>3, <2>4, SilentKept DEF Entry
<1>3. ASSUME NEW p \in Peers, NEW q \in Peers, DisconnectFrom(p, q)
      PROVE  Silent'
  <2>1. PICK S : S = Entry(initiated, p, q) \cup Entry(received, p, q)
    OBVIOUS
  <2>2. disposed' = disposed /\ state' = Closing(S)
    BY <1>3, <2>1 DEF DisconnectFrom
  <2>3. \A a, b \in Peers :
           /\ Entry(initiated', a, b) = IF a = p /\ b = q THEN {} ELSE Entry(initiated, a, b)
           /\ Entry(received', a, b) = IF a = p /\ b = q THEN {} ELSE Entry(received, a, b)
    BY <1>1, <1>3 DEF DisconnectFrom, Entry, TypeOK
  <2>4. \A a, b \in Peers : \A c \in Entry(initiated', a, b) : c \in Conns /\ c \notin S
    BY <1>1, <1>3, <2>1, <2>3, EntryOpen
  <2>5. \A a, b \in Peers : \A c \in Entry(initiated', a, b) : state'[c] = state[c]
    BY <2>2, <2>4 DEF Closing
  <2> QED
    BY <2>2, <2>3, <2>5, SilentKept
<1>4. ASSUME NEW p \in Peers, CheckConnectionsSanity(p)
      PROVE  Silent'
  <2>1. disposed' = disposed /\ disposed[p] = "no"
        /\ state' = Closing({c \in Tracked(p) : Insane(c)})
    BY <1>4 DEF CheckConnectionsSanity
  <2>2. \A a, b \in Peers : a # p =>
           /\ Entry(initiated', a, b) = Entry(initiated, a, b)
           /\ Entry(received', a, b) = Entry(received, a, b)
    BY <1>1, <1>4 DEF CheckConnectionsSanity, Entry, TypeOK
  <2>3. \A a, b \in Peers : \A c \in Entry(initiated, a, b) :
           c \in Conns /\ (a # p => c \notin Tracked(p))
    BY <1>1, EntryOpen DEF Tracked, EntriesOf, Entry
  <2>4. \A a, b \in Peers : a # p =>
           \A c \in Entry(initiated, a, b) : state'[c] = state[c]
    BY <2>1, <2>3 DEF Closing
  <2> QED
    BY <2>1, <2>2, <2>4, SilentKept
<1>5. ASSUME NEW p \in Peers, Dispose(p)
      PROVE  Silent'
  <2>1. /\ UNCHANGED <<initiated, received, state>>
        /\ \A a \in Peers : disposed'[a] = "yes" => disposed[a] = "yes"
    BY <1>1, <1>5 DEF Dispose, TypeOK
  <2> QED
    BY <2>1, SilentKept DEF Entry
<1>6. ASSUME NEW p \in Peers, DisposeDone(p)
      PROVE  Silent'
  <2>1. state' = Closing(Tracked(p))
        /\ \A a \in Peers : a # p /\ disposed'[a] = "yes" => disposed[a] = "yes"
    BY <1>1, <1>6 DEF DisposeDone, TypeOK
  <2>2. \A a, b \in Peers :
           /\ Entry(initiated', a, b) = IF a = p THEN {} ELSE Entry(initiated, a, b)
           /\ Entry(received', a, b) = IF a = p THEN {} ELSE Entry(received, a, b)
    BY <1>1, <1>6 DEF DisposeDone, Entry, TypeOK
  <2>3. \A a, b \in Peers : \A c \in Entry(initiated, a, b) :
           c \in Conns /\ (a # p => c \notin Tracked(p))
    BY <1>1, EntryOpen DEF Tracked, EntriesOf, Entry
  <2>4. \A a, b \in Peers : a # p =>
           \A c \in Entry(initiated, a, b) : state'[c] = state[c]
    BY <2>1, <2>3 DEF Closing
  <2>5. ASSUME NEW a \in Peers, disposed'[a] = "yes", NEW b \in Peers
        PROVE  /\ Entry(received', a, b) = {}
               /\ \A c \in Entry(initiated', a, b) : state'[c] = "new"
    BY <2>1, <2>2, <2>4, <2>5 DEF Silent
  <2> QED
    BY <2>5 DEF Silent, Entry
<1>7. ASSUME NEW m \in net, Deliver(m) \/ Drop(m)
      PROVE  Silent'
  <2>a. SUFFICES ASSUME NEW p, p = m.conn.peer, NEW q, q = m.conn.at
                 PROVE  Silent'
    OBVIOUS
  <2>1. p \in Peers /\ q \in Peers /\ disposed' = disposed
    BY <2>a, <1>1, <1>7, MessageType
    DEF Deliver, OnOfferYield, OnOfferAccept, OnOfferRefuse, OnAnswer, OnCandidate, Drop
  <2>2. CASE UNCHANGED <<initiated, received, state>>
    BY <2>1, <2>2, SilentKept DEF Entry
  <2>3. CASE ~UNCHANGED <<initiated, received, state>>
    <3>1. disposed[p] = "no" /\ (OnOfferYield(m) \/ OnOfferAccept(m) \/ OnAnswer(m))
      BY <2>a, <1>7, <2>3
      DEF Deliver, OnOfferYield, OnOfferAccept, OnOfferRefuse, OnAnswer, OnCandidate, Drop
    <3>2. \A a, b \in Peers : a # p =>
             /\ Entry(initiated', a, b) = Entry(initiated, a, b)
             /\ Entry(received', a, b) = Entry(received, a, b)
      BY <2>a, <1>1, <2>1, <3>1
      DEF OnOfferYield, OnOfferAccept, OnAnswer, Entry, TypeOK
    <3>3. \A c \in Conns : c.at # p /\ state[c] # "none" => state'[c] = state[c]
      <4>1. CASE OnOfferYield(m)
        <5>1. state' = Closing({initiated[p][q]}) /\ initiated[p][q] # None
          BY <2>a, <4>1 DEF OnOfferYield
        <5>2. initiated[p][q].at = p
          BY <1>1, <2>1, <5>1, EntryOpen DEF Entry
        <5> QED
          BY <5>1, <5>2 DEF Closing
      <4>2. CASE OnOfferAccept(m)
        BY <2>a, <4>2, <1>1, FreshType DEF OnOfferAccept, TypeOK
      <4>3. CASE OnAnswer(m)
        <5>1. \/ state' = state
              \/ /\ initiated[p][q] # None
                 /\ state' = [state EXCEPT ![initiated[p][q]] = "connecting"]
          BY <2>a, <4>3 DEF OnAnswer
        <5>2. initiated[p][q] # None => initiated[p][q].at = p
          BY <1>1, <2>1, EntryOpen DEF Entry
        <5> QED
          BY <5>1, <5>2, <1>1 DEF TypeOK
      <4> QED
        BY <3>1, <4>1, <4>2, <4>3
    <3>4. \A a, b \in Peers : a # p =>
             \A c \in Entry(initiated, a, b) : state'[c] = state[c]
      BY <1>1, <3>3, EntryOpen
    <3> QED
      BY <2>1, <3>1, <3>2, <3>4, SilentKept
  <2> QED
    BY <2>2, <2>3
<1>8. ASSUME NEW c \in Conns, ConnectToDone(c)
      PROVE  Silent'
  <2>1. /\ initiated' = [initiated EXCEPT ![c.at][c.peer] = c]
        /\ UNCHANGED <<disposed, received, state>> /\ state[c] = "new"
    BY <1>1, <1>8 DEF ConnectToDone, Suspended
  <2>2. \A a, b \in Peers : \A d \in Entry(initiated', a, b) :
           d = c \/ d \in Entry(initiated, a, b)
    BY <1>1, <2>1, ConnsType DEF Entry, TypeOK
  <2>3. ASSUME NEW a \in Peers, disposed'[a] = "yes", NEW b \in Peers
        PROVE  /\ Entry(received', a, b) = {}
               /\ \A d \in Entry(initiated', a, b) : state'[d] = "new"
    BY <2>1, <2>2, <2>3 DEF Silent, Entry
  <2> QED
    BY <2>3 DEF Silent, Entry
<1>9. ASSUME NEW c \in Conns,
             \/ OfferCreated(c) \/ ConnectToFails(c) \/ AnswerFails(c)
             \/ DataChannelOpen(c) \/ Timeout(c)
      PROVE  Silent'
  <2>1. UNCHANGED <<disposed, initiated, received, state>>
    BY <1>9 DEF OfferCreated, ConnectToFails, AnswerFails, DataChannelOpen, Timeout
  <2> QED
    BY <2>1, SilentKept DEF Entry
<1>10. ASSUME NEW c \in Conns,
              AnswerCreated(c) \/ Connected(c) \/ Disconnected(c) \/ Failed(c)
       PROVE  Silent'
  <2>1. /\ UNCHANGED <<disposed, initiated>>
        /\ c.role = "responder" \/ state[c] # "new"
        /\ \A d \in Conns : d # c => state'[d] = state[d]
    BY <1>1, <1>10
    DEF AnswerCreated, Connected, Disconnected, Failed, Suspended, TypeOK
  <2>2. \A a, b \in Peers : Entry(received', a, b) \subseteq Entry(received, a, b)
    <3>1. \/ received' = received
          \/ received' = [received EXCEPT ![c.at][c.peer] = None]
      BY <1>10 DEF AnswerCreated, Connected, Disconnected, Failed
    <3>2. \A a, b \in Peers : received'[a][b] = received[a][b] \/ received'[a][b] = None
      <4>1. received \in [Peers -> [Peers -> Conns \cup {None}]]
        BY <1>1 DEF TypeOK
      <4> QED
        BY <4>1, <3>1, ConnsType
    <3> QED
      BY <3>2 DEF Entry
  <2>3. ASSUME NEW a \in Peers, disposed[a] = "yes", NEW b \in Peers,
               NEW d \in Entry(initiated, a, b)
        PROVE  state'[d] = state[d]
    <3>1. d \in Conns /\ d.role = "initiator" /\ state[d] = "new"
      BY <1>1, <2>3, EntryOpen DEF Silent
    <3>2. d # c
      BY <2>1, <3>1
    <3> QED
      BY <2>1, <3>1, <3>2
  <2> QED
    BY <2>1, <2>2, <2>3, SilentKept DEF Entry
<1>11. CASE UNCHANGED vars
  BY <1>11, SilentKept DEF vars, Entry
<1> QED
  BY <1>2, <1>3, <1>4, <1>5, <1>6, <1>7, <1>8, <1>9, <1>10, <1>11
  DEF Next, Resume, Ice

(* A mesh that was disposed never exchanges data again, although functions *)
(* it had suspended resume later and still enter what they constructed.    *)
THEOREM DisposedIsSilentCorrect == Spec => []DisposedIsSilent
<1>1. Held /\ Silent => DisposedIsSilent
  <2>a. SUFFICES ASSUME Held, Silent, NEW p \in Peers, disposed[p] = "yes",
                        NEW c \in Tracked(p)
                 PROVE  /\ initiated[p][c.peer] = c
                        /\ state[c] = "new" /\ remote[c] = None /\ ~dc[c]
    BY DEF DisposedIsSilent
  <2>1. PICK q \in Peers : c \in Entry(initiated, p, q) \cup Entry(received, p, q)
    BY <2>a DEF Tracked, EntriesOf, Entry
  <2>2. c \in Entry(initiated, p, q) /\ state[c] = "new"
    BY <2>a, <2>1 DEF Silent
  <2>3. c \in Conns /\ c.peer = q /\ c.role = "initiator" /\ initiated[p][q] = c
    BY <2>a, <2>2, EntryOpen DEF Held, Entry
  <2> QED
    BY <2>a, <2>2, <2>3 DEF Held, Waiting
<1> QED
  BY <1>1, HeldInit, HeldNext, SilentInit, SilentNext, PTL DEF Spec

-----------------------------------------------------------------------------
(* Initiated instances are not lost                                        *)

(* At most one connectTo for a peer is suspended, and then the map has no  *)
(* entry that it could overwrite.                                          *)
Unique ==
    \A c \in Conns : job[c] \in {"offering", "publishing"} =>
        /\ initiated[c.at][c.peer] = None
        /\ \A d \in Conns : /\ d.at = c.at /\ d.peer = c.peer
                            /\ job[d] \in {"offering", "publishing"}
                            => d = c

Reachable == Unique /\ InitiatedNeverLeaks

LEMMA ReachableInit == Init => Reachable
BY DEF Init, Reachable, Unique, InitiatedNeverLeaks

(* A step that starts no connectTo, adds no entry, and closes what the     *)
(* entries it deletes held.                                                *)
LEMMA ReachableKept ==
    ASSUME Reachable,
           \A c \in Conns :
              /\ job'[c] \in {"offering", "publishing"} =>
                    job[c] \in {"offering", "publishing"}
              /\ c.role = "initiator" /\ remote'[c] # None => remote[c] # None
              /\ state[c] = "closed" => state'[c] = "closed",
           \A p, q \in Peers :
              \/ initiated'[p][q] = initiated[p][q]
              \/ /\ initiated'[p][q] = None
                 /\ initiated[p][q] \in Conns => state'[initiated[p][q]] = "closed"
    PROVE  Reachable'
<1>1. \A c \in Conns : c.at \in Peers /\ c.peer \in Peers
  BY ConnsType
<1>2. Unique'
  BY <1>1 DEF Reachable, Unique
<1>3. InitiatedNeverLeaks'
  BY <1>1 DEF Reachable, InitiatedNeverLeaks
<1> QED
  BY <1>2, <1>3 DEF Reachable

LEMMA ReachableTransport ==
    ASSUME "overlap" \notin Env, Held, Reachable, NEW p \in Peers, NEW q \in Peers,
           \/ ConnectTo(p, q) \/ DisconnectFrom(p, q)
           \/ CheckConnectionsSanity(p) \/ Dispose(p) \/ DisposeDone(p)
    PROVE  Reachable'
<1>1. TypeOK /\ TrackedOpen /\ Waiting
  BY DEF Held
<1>2. CASE ConnectTo(p, q)
  <2>1. PICK c \in Fresh(p, q, "initiator") :
           /\ state' = [state EXCEPT ![c] = "new"]
           /\ job' = [job EXCEPT ![c] = "offering"]
    BY <1>2 DEF ConnectTo
  <2>2. c \in Conns /\ c.at = p /\ c.peer = q /\ state[c] = "none"
    BY FreshType
  <2>3. UNCHANGED <<initiated, remote>> /\ Pending(p, q) = {} /\ initiated[p][q] = None
    BY <1>2 DEF ConnectTo
  <2>4. Unique'
    BY <1>1, <2>1, <2>2, <2>3 DEF Reachable, Unique, Pending, TypeOK
  <2>5. remote[c] = None
    BY <1>1, <2>2 DEF Waiting
  <2>6. InitiatedNeverLeaks'
    BY <1>1, <2>1, <2>2, <2>3, <2>5 DEF Reachable, InitiatedNeverLeaks, TypeOK
  <2> QED
    BY <2>4, <2>6 DEF Reachable
<1>3. CASE DisconnectFrom(p, q)
  <2>1. UNCHANGED <<remote, job>>
        /\ state' = Closing(Entry(initiated, p, q) \cup Entry(received, p, q))
        /\ initiated' = [initiated EXCEPT ![p][q] = None]
    BY <1>3 DEF DisconnectFrom
  <2>2. \A a, b \in Peers :
           initiated'[a][b] = IF a = p /\ b = q THEN None ELSE initiated[a][b]
    BY <1>1, <2>1 DEF TypeOK
  <2>3. initiated[p][q] \in Conns => state'[initiated[p][q]] = "closed"
    BY <2>1, MeshAssumption DEF Closing, Entry
  <2> QED
    BY <2>1, <2>2, <2>3, ReachableKept DEF Closing
<1>4. CASE CheckConnectionsSanity(p)
  <2>1. UNCHANGED <<remote, job>>
        /\ state' = Closing({c \in Tracked(p) : Insane(c)})
    BY <1>4 DEF CheckConnectionsSanity
  <2>2. \A a, b \in Peers :
           initiated'[a][b] = IF a = p /\ Insane(initiated[a][b]) THEN None
                              ELSE initiated[a][b]
    BY <1>1, <1>4 DEF CheckConnectionsSanity, TypeOK
  <2>3. \A b \in Peers : initiated[p][b] # None => initiated[p][b] \in Tracked(p)
    BY DEF Tracked, EntriesOf
  <2>4. \A b \in Peers :
           Insane(initiated[p][b]) /\ initiated[p][b] \in Conns
              => state'[initiated[p][b]] = "closed"
    BY <2>1, <2>3, MeshAssumption DEF Closing
  <2>5. \A c \in Conns : state[c] = "closed" => state'[c] = "closed"
    BY <2>1 DEF Closing
  <2>6. \A a, b \in Peers :
           \/ initiated'[a][b] = initiated[a][b]
           \/ /\ initiated'[a][b] = None
              /\ initiated[a][b] \in Conns => state'[initiated[a][b]] = "closed"
    BY <2>2, <2>4
  <2> QED
    BY <2>1, <2>5, <2>6, ReachableKept
<1>5. CASE Dispose(p)
  BY <1>5, ReachableKept DEF Dispose
<1>6. CASE DisposeDone(p)
  <2>1. UNCHANGED <<remote, job>> /\ state' = Closing(Tracked(p))
        /\ initiated' = [initiated EXCEPT ![p] = [b \in Peers |-> None]]
    BY <1>6 DEF DisposeDone
  <2>2. \A a, b \in Peers :
           initiated'[a][b] = IF a = p THEN None ELSE initiated[a][b]
    BY <1>1, <2>1 DEF TypeOK
  <2>3. \A b \in Peers :
           initiated[p][b] \in Conns => state'[initiated[p][b]] = "closed"
    BY <2>1, MeshAssumption DEF Closing, Tracked, EntriesOf
  <2>4. \A c \in Conns : state[c] = "closed" => state'[c] = "closed"
    BY <2>1 DEF Closing
  <2> QED
    BY <2>1, <2>2, <2>3, <2>4, ReachableKept
<1> QED
  BY <1>2, <1>3, <1>4, <1>5, <1>6

LEMMA ReachableMessage ==
    ASSUME Held, Reachable, NEW m \in net, Deliver(m) \/ Drop(m)
    PROVE  Reachable'
<1>a. SUFFICES ASSUME NEW p, p = m.conn.peer, NEW q, q = m.conn.at
               PROVE  Reachable'
  OBVIOUS
<1>1. TypeOK /\ TrackedOpen /\ Waiting
  BY DEF Held
<1>2. p \in Peers /\ q \in Peers
  BY <1>a, <1>1, MessageType
<1>3. CASE OnOfferYield(m)
  <2>1. UNCHANGED <<remote, job>> /\ state' = Closing({initiated[p][q]})
        /\ initiated' = [initiated EXCEPT ![p][q] = None]
    BY <1>a, <1>3 DEF OnOfferYield
  <2>2. \A a, b \in Peers :
           initiated'[a][b] = IF a = p /\ b = q THEN None ELSE initiated[a][b]
    BY <1>1, <2>1 DEF TypeOK
  <2>3. initiated[p][q] \in Conns => state'[initiated[p][q]] = "closed"
    BY <2>1 DEF Closing
  <2> QED
    BY <2>1, <2>2, <2>3, ReachableKept DEF Closing
<1>4. CASE OnOfferAccept(m)
  <2>1. PICK c \in Fresh(p, q, "responder") :
           /\ state' = [state EXCEPT ![c] = "new"]
           /\ remote' = [remote EXCEPT ![c] = m.conn]
           /\ job' = [job EXCEPT ![c] = "answering"]
    BY <1>a, <1>4 DEF OnOfferAccept
  <2>2. c \in Conns /\ c.role = "responder" /\ state[c] = "none" /\ initiated' = initiated
    BY <1>4, FreshType DEF OnOfferAccept
  <2>3. \A d \in Conns :
           /\ job'[d] \in {"offering", "publishing"} => job[d] \in {"offering", "publishing"}
           /\ d.role = "initiator" /\ remote'[d] # None => remote[d] # None
           /\ state[d] = "closed" => state'[d] = "closed"
    BY <1>1, <2>1, <2>2 DEF TypeOK
  <2> QED
    BY <2>2, <2>3, ReachableKept
<1>5. CASE OnAnswer(m)
  <2>1. UNCHANGED <<initiated, job>>
    BY <1>5 DEF OnAnswer
  <2>2. CASE UNCHANGED <<state, remote>>
    BY <2>1, <2>2, ReachableKept
  <2>3. CASE ~UNCHANGED <<state, remote>>
    <3>1. PICK c : /\ c = initiated[p][q] /\ c # None /\ state[c] = "new"
                   /\ remote' = [remote EXCEPT ![c] = m.conn]
                   /\ state' = [state EXCEPT ![c] = "connecting"]
      BY <1>a, <1>5, <2>3 DEF OnAnswer
    <3>2. c \in Conns /\ c.at = p /\ c.peer = q
      BY <1>1, <1>2, <3>1, EntryOpen DEF Entry
    <3>3. Unique'
      BY <2>1 DEF Reachable, Unique
    <3>4. InitiatedNeverLeaks'
      BY <1>1, <2>1, <3>1, <3>2 DEF Reachable, InitiatedNeverLeaks, TypeOK
    <3> QED
      BY <3>3, <3>4 DEF Reachable
  <2> QED
    BY <2>2, <2>3
<1>6. CASE OnCandidate(m) \/ OnOfferRefuse(m) \/ Drop(m)
  <2>1. UNCHANGED <<initiated, job, state, remote>>
    BY <1>6 DEF OnCandidate, OnOfferRefuse, Drop
  <2> QED
    BY <2>1, ReachableKept
<1> QED
  BY <1>3, <1>4, <1>5, <1>6 DEF Deliver

LEMMA ReachableInstance ==
    ASSUME Held, Reachable, NEW c \in Conns, Resume(c) \/ Ice(c) \/ Timeout(c)
    PROVE  Reachable'
<1>1. TypeOK
  BY DEF Held
<1>2. c.at \in Peers /\ c.peer \in Peers /\ c # None
  BY ConnsType
<1>3. CASE ConnectToDone(c)
  <2>1. /\ job[c] = "publishing" /\ job' = [job EXCEPT ![c] = "none"]
        /\ initiated' = [initiated EXCEPT ![c.at][c.peer] = c]
        /\ UNCHANGED <<state, remote>>
    BY <1>3 DEF ConnectToDone
  <2>2. initiated[c.at][c.peer] = None
    BY <2>1 DEF Reachable, Unique
  <2>3. Unique'
    <3>1. ASSUME NEW d \in Conns, job'[d] \in {"offering", "publishing"}
          PROVE  /\ job[d] \in {"offering", "publishing"} /\ d # c
                 /\ ~(d.at = c.at /\ d.peer = c.peer)
      BY <1>1, <2>1, <3>1 DEF Reachable, Unique, TypeOK
    <3>2. \A a, b \in Peers :
             ~(a = c.at /\ b = c.peer) => initiated'[a][b] = initiated[a][b]
      BY <1>1, <2>1 DEF TypeOK
    <3> QED
      BY <3>1, <3>2, ConnsType DEF Reachable, Unique
  <2>4. InitiatedNeverLeaks'
    <3>1. ASSUME NEW d \in Conns, d.role = "initiator", remote[d] # None,
                 state[d] # "closed"
          PROVE  initiated'[d.at][d.peer] = d
      <4>1. initiated[d.at][d.peer] = d /\ d # None /\ d.at \in Peers /\ d.peer \in Peers
        BY <3>1, ConnsType DEF Reachable, InitiatedNeverLeaks
      <4>2. ~(d.at = c.at /\ d.peer = c.peer)
        BY <4>1, <2>2
      <4> QED
        BY <4>1, <4>2, <1>1, <2>1 DEF TypeOK
    <3> QED
      BY <3>1, <2>1 DEF InitiatedNeverLeaks
  <2> QED
    BY <2>3, <2>4 DEF Reachable
<1>4. CASE ~ConnectToDone(c)
  <2>1. UNCHANGED <<initiated, remote>>
    BY <1>4
    DEF Resume, Ice, OfferCreated, ConnectToFails, AnswerCreated, AnswerFails,
        Connected, Disconnected, Failed, DataChannelOpen, Timeout
  <2>2. \A d \in Conns :
           job'[d] \in {"offering", "publishing"} => job[d] \in {"offering", "publishing"}
    BY <1>1, <1>4
    DEF Resume, Ice, OfferCreated, ConnectToFails, AnswerCreated, AnswerFails,
        Connected, Disconnected, Failed, DataChannelOpen, Timeout, TypeOK
  <2>3. \A d \in Conns : state[d] = "closed" => state'[d] = "closed"
    BY <1>1, <1>4
    DEF Resume, Ice, OfferCreated, ConnectToFails, AnswerCreated, AnswerFails,
        Connected, Disconnected, Failed, DataChannelOpen, Timeout, TypeOK
  <2> QED
    BY <2>1, <2>2, <2>3, ReachableKept
<1> QED
  BY <1>3, <1>4

LEMMA ReachableNext ==
    ASSUME "overlap" \notin Env, Held, Reachable, [Next]_vars
    PROVE  Reachable'
<1>1. CASE UNCHANGED vars
  BY <1>1, ReachableKept DEF vars
<1> QED
  BY <1>1, ReachableTransport, ReachableMessage, ReachableInstance DEF Next

(* When no two connectTo calls for a peer overlap, the mesh never loses an *)
(* initiated instance that was answered: the window between the await of   *)
(* connectTo and the entry in initiatedConnections is harmless.            *)
THEOREM InitiatedNeverLeaksCorrect ==
    ASSUME "overlap" \notin Env
    PROVE  Spec => []InitiatedNeverLeaks
<1>1. Reachable => InitiatedNeverLeaks
  BY DEF Reachable
<1>2. (Held /\ Reachable) /\ [Next]_vars => (Held /\ Reachable)'
  BY HeldNext, ReachableNext
<1> QED
  BY <1>1, <1>2, HeldInit, ReachableInit, PTL DEF Spec

-----------------------------------------------------------------------------
(* Received instances that are lost                                        *)

Dead == {"failed", "closed"}

(* Instances are constructed in the order of their numbers.                *)
Numbered ==
    \A c, d \in Conns :
        /\ d.at = c.at /\ d.peer = c.peer /\ d.role = c.role /\ d.n < c.n
        /\ state[c] # "none"
        => state[d] # "none"

(* Nothing but close() happens to an instance while its answer is created. *)
Answering == \A c \in Conns : job[c] = "answering" => state[c] \in {"new", "closed"}

(* What LeakHasCause gives as the reasons for a leak of c.                 *)
Overtaken(c) ==
    \E d \in Conns \ {c} :
        /\ d.at = c.at /\ d.peer = c.peer
        /\ state[d] \in Dead \/ (d.role = "responder" /\ d.n > c.n /\ state[d] # "none")

Leaks(c) ==
    /\ c.role = "responder" /\ state[c] \notin {"none"} \cup Dead
    /\ received[c.at][c.peer] # c

Constructed == Numbered /\ Answering /\ LeakHasCause

LEMMA LeakMeans == LeakHasCause <=> \A c \in Conns : Leaks(c) => Overtaken(c)
BY DEF LeakHasCause, Leaks, Overtaken, Dead

LEMMA ConstructedInit == Init => Constructed
BY DEF Init, Constructed, Numbered, Answering, LeakHasCause

(* What every step is shown to do: instances are constructed as Fresh      *)
(* gives them, what is dead stays dead, an answer is not overtaken by a    *)
(* state that only a finished one leads to, and a new leak has its cause.  *)
LEMMA ConstructedKept ==
    ASSUME Constructed,
           \A c \in Conns :
              /\ state[c] # "none" => state'[c] # "none"
              /\ state[c] \in Dead => state'[c] \in Dead
              /\ state[c] = "none" /\ state'[c] # "none"
                    => c \in Fresh(c.at, c.peer, c.role)
              /\ job'[c] = "answering" => state'[c] \in {"new", "closed"}
              /\ Leaks(c)' => Leaks(c) \/ Overtaken(c)'
    PROVE  Constructed'
<1>1. Numbered'
  BY DEF Constructed, Numbered, Fresh
<1>2. Answering'
  BY DEF Answering
<1>3. ASSUME NEW c \in Conns, Overtaken(c)
      PROVE  Overtaken(c)'
  BY <1>3 DEF Overtaken
<1>4. LeakHasCause'
  BY <1>3, LeakMeans DEF Constructed, LeakHasCause, Leaks, Overtaken, Dead
<1> QED
  BY <1>1, <1>2, <1>4 DEF Constructed

(* Closing instances and deleting the entries of receivedConnections that  *)
(* held them.                                                              *)
LEMMA ConstructedClosing ==
    ASSUME Constructed, NEW S, state' = Closing(S), job' = job,
           \A c \in S : c \in Conns => state[c] # "none",
           \A p, q \in Peers : \/ received'[p][q] = received[p][q]
                               \/ received[p][q] \in S
    PROVE  Constructed'
<1>1. \A c \in Conns : state'[c] = IF c \in S THEN "closed" ELSE state[c]
  BY DEF Closing
<1>2. ASSUME NEW c \in Conns, Leaks(c)'
      PROVE  Leaks(c)
  BY <1>1, <1>2, ConnsType DEF Leaks, Dead
<1> QED
  BY <1>1, <1>2, ConstructedKept DEF Constructed, Answering, Dead

LEMMA ConstructedTransport ==
    ASSUME Held, Constructed, NEW p \in Peers, NEW q \in Peers,
           \/ ConnectTo(p, q) \/ DisconnectFrom(p, q)
           \/ CheckConnectionsSanity(p) \/ Dispose(p) \/ DisposeDone(p)
    PROVE  Constructed'
<1>1. TypeOK /\ TrackedOpen /\ Suspended /\ Waiting
  BY DEF Held
<1>2. CASE ConnectTo(p, q)
  <2>1. PICK c \in Fresh(p, q, "initiator") :
           /\ state' = [state EXCEPT ![c] = "new"]
           /\ job' = [job EXCEPT ![c] = "offering"]
    BY <1>2 DEF ConnectTo
  <2>2. /\ c \in Conns /\ c.at = p /\ c.peer = q /\ c.role = "initiator"
        /\ state[c] = "none" /\ received' = received
    BY <1>2, FreshType DEF ConnectTo
  <2>3. \A d \in Conns : /\ state'[d] = IF d = c THEN "new" ELSE state[d]
                         /\ job'[d] = IF d = c THEN "offering" ELSE job[d]
    BY <1>1, <2>1, <2>2 DEF TypeOK
  <2> QED
    BY <2>1, <2>2, <2>3, ConstructedKept DEF Constructed, Answering, Leaks, Dead
<1>3. CASE DisconnectFrom(p, q)
  <2>1. PICK S : S = Entry(initiated, p, q) \cup Entry(received, p, q)
    OBVIOUS
  <2>2. /\ state' = Closing(S) /\ job' = job
        /\ received' = [received EXCEPT ![p][q] = None]
    BY <1>3, <2>1 DEF DisconnectFrom
  <2>3. \A a, b \in Peers : received'[a][b] = received[a][b] \/ received[a][b] \in S
    BY <1>1, <2>1, <2>2 DEF TypeOK, Entry
  <2>4. \A c \in S : state[c] # "none"
    BY <1>1, <2>1, EntryOpen
  <2> QED
    BY <2>2, <2>3, <2>4, ConstructedClosing
<1>4. CASE CheckConnectionsSanity(p)
  <2>1. PICK S : S = {c \in Tracked(p) : Insane(c)}
    OBVIOUS
  <2>2. state' = Closing(S) /\ job' = job
    BY <1>4, <2>1 DEF CheckConnectionsSanity
  <2>3. \A a, b \in Peers :
           \/ received'[a][b] = received[a][b]
           \/ a = p /\ Insane(received[a][b])
    BY <1>1, <1>4 DEF CheckConnectionsSanity, TypeOK
  <2>4. \A b \in Peers : Insane(received[p][b]) => received[p][b] \in S
    BY <2>1 DEF Insane, Tracked, EntriesOf
  <2>5. \A c \in S : state[c] # "none"
    BY <1>1, <2>1, EntryOpen DEF Tracked, EntriesOf, Entry
  <2> QED
    BY <2>2, <2>3, <2>4, <2>5, ConstructedClosing
<1>5. CASE Dispose(p)
  BY <1>5, ConstructedKept DEF Dispose, Constructed, Answering, Leaks
<1>6. CASE DisposeDone(p)
  <2>1. /\ state' = Closing(Tracked(p)) /\ job' = job
        /\ received' = [received EXCEPT ![p] = [b \in Peers |-> None]]
    BY <1>6 DEF DisposeDone
  <2>2. \A a, b \in Peers :
           \/ received'[a][b] = received[a][b]
           \/ received[a][b] \in Tracked(p)
    BY <1>1, <2>1 DEF TypeOK, Tracked, EntriesOf
  <2>3. \A c \in Tracked(p) : state[c] # "none"
    BY <1>1, EntryOpen DEF Tracked, EntriesOf, Entry
  <2> QED
    BY <2>1, <2>2, <2>3, ConstructedClosing
<1> QED
  BY <1>2, <1>3, <1>4, <1>5, <1>6

LEMMA ConstructedMessage ==
    ASSUME Held, Constructed, NEW m \in net, Deliver(m) \/ Drop(m)
    PROVE  Constructed'
<1>a. SUFFICES ASSUME NEW p, p = m.conn.peer, NEW q, q = m.conn.at
               PROVE  Constructed'
  OBVIOUS
<1>1. TypeOK /\ TrackedOpen /\ Suspended /\ Waiting
  BY DEF Held
<1>2. p \in Peers /\ q \in Peers
  BY <1>a, <1>1, MessageType
<1>3. CASE OnOfferYield(m)
  <2>1. PICK S : S = {initiated[p][q]}
    OBVIOUS
  <2>2. /\ state' = Closing(S) /\ UNCHANGED <<received, job>>
        /\ initiated[p][q] # None
    BY <1>a, <1>3, <2>1 DEF OnOfferYield
  <2>3. \A c \in S : state[c] # "none"
    BY <1>1, <1>2, <2>1, <2>2, EntryOpen DEF Entry
  <2> QED
    BY <2>2, <2>3, ConstructedClosing
<1>4. CASE OnOfferAccept(m)
  <2>1. PICK c \in Fresh(p, q, "responder") :
           /\ state' = [state EXCEPT ![c] = "new"]
           /\ received' = [received EXCEPT ![p][q] = c]
           /\ job' = [job EXCEPT ![c] = "answering"]
    BY <1>a, <1>4 DEF OnOfferAccept
  <2>2. /\ c \in Conns /\ c.at = p /\ c.peer = q /\ c.role = "responder"
        /\ state[c] = "none"
    BY FreshType
  <2>3. \A d \in Conns : /\ state'[d] = IF d = c THEN "new" ELSE state[d]
                         /\ job'[d] = IF d = c THEN "answering" ELSE job[d]
    BY <1>1, <2>1, <2>2 DEF TypeOK
  <2>4. ASSUME NEW d \in Conns, Leaks(d)', ~Leaks(d)
        PROVE  Overtaken(d)'
    <3>1. d # c
      BY <1>1, <1>2, <2>1, <2>2, <2>4 DEF Leaks, TypeOK
    <3>2. /\ d.role = "responder" /\ state[d] # "none" /\ state[d] \notin Dead
          /\ received[d.at][d.peer] = d
      BY <2>3, <2>4, <3>1 DEF Leaks, Dead
    <3>3. d.at = p /\ d.peer = q
      <4>1. received'[d.at][d.peer] # d /\ d.at \in Peers /\ d.peer \in Peers
        BY <2>4, ConnsType DEF Leaks
      <4>2. ~(d.at = p /\ d.peer = q) => received'[d.at][d.peer] = received[d.at][d.peer]
        BY <1>1, <2>1, <4>1 DEF TypeOK
      <4> QED
        BY <3>2, <4>1, <4>2
    <3>4. c.n > d.n
      <4>1. c.n \in Nat /\ d.n \in Nat
        BY <2>2, MeshAssumption
      <4>2. ~(c.n < d.n)
        BY <2>2, <3>2, <3>3 DEF Constructed, Numbered
      <4>3. c.n # d.n
        BY <2>2, <3>1, <3>2, <3>3, MeshAssumption
      <4> QED
        BY <4>1, <4>2, <4>3
    <3> QED
      BY <2>2, <2>3, <3>1, <3>3, <3>4 DEF Overtaken
  <2> QED
    BY <2>1, <2>2, <2>3, <2>4, ConstructedKept DEF Constructed, Answering, Dead
<1>5. CASE OnAnswer(m)
  <2>1. UNCHANGED <<received, job>>
    BY <1>5 DEF OnAnswer
  <2>2. CASE UNCHANGED state
    BY <2>1, <2>2, ConstructedKept DEF Constructed, Answering, Leaks
  <2>3. CASE ~UNCHANGED state
    <3>1. PICK c : /\ c = initiated[p][q] /\ c # None /\ state[c] = "new"
                   /\ state' = [state EXCEPT ![c] = "connecting"]
      BY <1>a, <1>5, <2>3 DEF OnAnswer
    <3>2. c \in Conns /\ c.role = "initiator"
      BY <1>1, <1>2, <3>1, EntryOpen DEF Entry
    <3>3. \A d \in Conns : state'[d] = IF d = c THEN "connecting" ELSE state[d]
      BY <1>1, <3>1, <3>2 DEF TypeOK
    <3>4. job[c] # "answering"
      BY <1>1, <3>2 DEF Suspended
    <3> QED
      BY <2>1, <3>1, <3>2, <3>3, <3>4, ConstructedKept
      DEF Constructed, Answering, Leaks, Dead
  <2> QED
    BY <2>2, <2>3
<1>6. CASE OnCandidate(m) \/ OnOfferRefuse(m) \/ Drop(m)
  <2>1. UNCHANGED <<received, job, state>>
    BY <1>6 DEF OnCandidate, OnOfferRefuse, Drop
  <2> QED
    BY <2>1, ConstructedKept DEF Constructed, Answering, Leaks
<1> QED
  BY <1>3, <1>4, <1>5, <1>6 DEF Deliver

LEMMA ConstructedInstance ==
    ASSUME Held, Constructed, NEW c \in Conns, Resume(c) \/ Ice(c) \/ Timeout(c)
    PROVE  Constructed'
<1>1. TypeOK /\ Suspended /\ Waiting /\ Answering
  BY DEF Held, Constructed
<1>2. c.at \in Peers /\ c.peer \in Peers
  BY ConnsType
<1>3. CASE \/ OfferCreated(c) \/ ConnectToDone(c) \/ ConnectToFails(c)
           \/ AnswerFails(c) \/ DataChannelOpen(c) \/ Timeout(c)
  <2>1. /\ UNCHANGED <<received, state>>
        /\ \A d \in Conns : job'[d] = "answering" => job[d] = "answering"
    BY <1>1, <1>3 DEF OfferCreated, ConnectToDone, ConnectToFails, AnswerFails,
                      DataChannelOpen, Timeout, TypeOK
  <2> QED
    BY <2>1, <1>1, ConstructedKept DEF Answering, Leaks
<1>4. CASE AnswerCreated(c)
  <2>1. /\ job[c] = "answering" /\ state[c] = "new" /\ received' = received
        /\ \A d \in Conns : /\ state'[d] = IF d = c THEN "connecting" ELSE state[d]
                            /\ job'[d] = IF d = c THEN "none" ELSE job[d]
    BY <1>1, <1>4 DEF AnswerCreated, Answering, TypeOK
  <2> QED
    BY <2>1, <1>1, ConstructedKept DEF Answering, Leaks, Dead
<1>5. CASE Connected(c) \/ Disconnected(c)
  <2>1. /\ state[c] \in {"connecting", "connected", "disconnected"}
        /\ state'[c] \in {"connected", "disconnected"}
        /\ UNCHANGED <<received, job>>
        /\ \A d \in Conns : d # c => state'[d] = state[d]
    BY <1>1, <1>5 DEF Connected, Disconnected, TypeOK
  <2> QED
    BY <2>1, <1>1, ConstructedKept DEF Answering, Leaks, Dead
<1>6. CASE Failed(c)
  <2>1. /\ state[c] \in {"connecting", "disconnected"}
        /\ state'[c] = "failed" /\ job' = job
        /\ \A d \in Conns : d # c => state'[d] = state[d]
        /\ received' = [received EXCEPT ![c.at][c.peer] = None]
    BY <1>1, <1>6 DEF Failed, TypeOK
  <2>2. ASSUME NEW d \in Conns, Leaks(d)', ~Leaks(d)
        PROVE  Overtaken(d)'
    <3>1. d # c /\ received[d.at][d.peer] = d /\ received'[d.at][d.peer] # d
      BY <2>1, <2>2 DEF Leaks, Dead
    <3>2. d.at = c.at /\ d.peer = c.peer
      <4>1. d.at \in Peers /\ d.peer \in Peers
        BY ConnsType
      <4> QED
        BY <1>1, <2>1, <3>1, <4>1 DEF TypeOK
    <3> QED
      BY <2>1, <3>1, <3>2 DEF Overtaken, Dead
  <2> QED
    BY <2>1, <2>2, <1>1, ConstructedKept DEF Answering, Dead
<1> QED
  BY <1>3, <1>4, <1>5, <1>6 DEF Resume, Ice

LEMMA ConstructedNext ==
    ASSUME Held, Constructed, [Next]_vars
    PROVE  Constructed'
<1>1. CASE UNCHANGED vars
  BY <1>1, ConstructedKept DEF vars, Constructed, Answering, Leaks
<1> QED
  BY <1>1, ConstructedTransport, ConstructedMessage, ConstructedInstance DEF Next

(* A received instance that is open and in no map was overwritten by a     *)
(* later offer of that peer, or lost its entry to another instance that    *)
(* failed or was closed: nothing else makes the mesh lose one.             *)
THEOREM LeakHasCauseCorrect == Spec => []LeakHasCause
<1>1. Constructed => LeakHasCause
  BY DEF Constructed
<1>2. (Held /\ Constructed) /\ [Next]_vars => (Held /\ Constructed)'
  BY HeldNext, ConstructedNext
<1> QED
  BY <1>1, <1>2, HeldInit, ConstructedInit, PTL DEF Spec

-----------------------------------------------------------------------------
(* What the transport sees                                                 *)

(* The values that View gives the variables of MeshView.                   *)
InitiatedView(p) == [q \in Peers \ {p} |-> Seen(initiated[p][q])]
ReceivedView(p) == [q \in Peers \ {p} |-> Seen(received[p][q])]
Calling(p) == {q \in Peers \ {p} : Pending(p, q) # {}}

Visible ==
    Held /\ Constructed /\ Silent /\ ("overlap" \notin Env => Reachable)

(* What is in the maps, and where.                                         *)
LEMMA InMaps ==
    ASSUME Held, NEW p \in Peers, NEW q \in Peers
    PROVE  /\ initiated[p][q] # None =>
                 /\ initiated[p][q] \in Conns
                 /\ initiated[p][q].at = p /\ initiated[p][q].peer = q
                 /\ initiated[p][q].role = "initiator"
                 /\ state[initiated[p][q]] # "none"
           /\ received[p][q] # None =>
                 /\ received[p][q] \in Conns
                 /\ received[p][q].at = p /\ received[p][q].peer = q
                 /\ received[p][q].role = "responder"
                 /\ state[received[p][q]] # "none"
<1>1. /\ initiated[p][q] # None => initiated[p][q] \in Entry(initiated, p, q)
      /\ received[p][q] # None => received[p][q] \in Entry(received, p, q)
  BY DEF Entry
<1> QED
  BY <1>1, EntryOpen DEF Held

(* Nothing changes for the transport of p.                                 *)
LEMMA Unseen ==
    ASSUME NEW p \in Peers,
           \A q \in Peers \ {p} :
              /\ Seen(initiated[p][q])' = Seen(initiated[p][q])
              /\ Seen(received[p][q])' = Seen(received[p][q])
              /\ Pending(p, q)' = Pending(p, q),
           disposed'[p] = disposed[p]
    PROVE  UNCHANGED View(p)!vars
<1>1. InitiatedView(p)' = InitiatedView(p) /\ ReceivedView(p)' = ReceivedView(p)
  BY DEF InitiatedView, ReceivedView
<1>2. Calling(p)' = Calling(p)
  BY DEF Calling
<1> QED
  BY <1>1, <1>2 DEF View!vars, InitiatedView, ReceivedView, Calling

(* One entry changes.                                                      *)
LEMMA OneInitiated ==
    ASSUME NEW p \in Peers, NEW q \in Peers \ {p}, NEW v,
           \A r \in Peers \ {p} : Seen(initiated[p][r])' =
              IF r = q THEN v ELSE Seen(initiated[p][r])
    PROVE  InitiatedView(p)' = [InitiatedView(p) EXCEPT ![q] = v]
BY DEF InitiatedView

LEMMA OneReceived ==
    ASSUME NEW p \in Peers, NEW q \in Peers \ {p}, NEW v,
           \A r \in Peers \ {p} : Seen(received[p][r])' =
              IF r = q THEN v ELSE Seen(received[p][r])
    PROVE  ReceivedView(p)' = [ReceivedView(p) EXCEPT ![q] = v]
BY DEF ReceivedView

LEMMA NoneChanged ==
    ASSUME NEW p \in Peers
    PROVE  /\ (\A r \in Peers \ {p} : Seen(initiated[p][r])' = Seen(initiated[p][r]))
                 => InitiatedView(p)' = InitiatedView(p)
           /\ (\A r \in Peers \ {p} : Seen(received[p][r])' = Seen(received[p][r]))
                 => ReceivedView(p)' = ReceivedView(p)
           /\ (\A r \in Peers \ {p} : Pending(p, r)' = Pending(p, r))
                 => Calling(p)' = Calling(p)
BY DEF InitiatedView, ReceivedView, Calling

(* No connection comes up or goes down, and the maps stay as they are.     *)
LEMMA SeenSame ==
    ASSUME Held, UNCHANGED <<initiated, received>>,
           \A c \in Conns : state'[c] = "connected" <=> state[c] = "connected",
           NEW p \in Peers, NEW q \in Peers
    PROVE  /\ Seen(initiated[p][q])' = Seen(initiated[p][q])
           /\ Seen(received[p][q])' = Seen(received[p][q])
BY InMaps DEF Seen

(* The job of one instance changes: elsewhere the calls are the same.      *)
LEMMA PendingElsewhere ==
    ASSUME TypeOK, NEW c \in Conns, NEW j, job' = [job EXCEPT ![c] = j]
    PROVE  /\ \A p, q \in Peers : ~(p = c.at /\ q = c.peer)
                                  => Pending(p, q)' = Pending(p, q)
           /\ (j \in {"offering", "publishing"}
                  <=> job[c] \in {"offering", "publishing"})
                  => \A p, q \in Peers : Pending(p, q)' = Pending(p, q)
BY DEF TypeOK, Pending

LEMMA ConnectToView ==
    ASSUME Visible, NEW p \in Peers, NEW q \in Peers, ConnectTo(p, q), NEW a \in Peers
    PROVE  UNCHANGED View(a)!vars \/ View(a)!Next
<1>1. PICK c \in Fresh(p, q, "initiator") :
         /\ state' = [state EXCEPT ![c] = "new"]
         /\ job' = [job EXCEPT ![c] = "offering"]
  BY DEF ConnectTo
<1>2. c \in Conns /\ c.at = p /\ c.peer = q /\ state[c] = "none" /\ job[c] = "none"
  BY FreshType DEF Visible, Held, Waiting
<1>3. /\ UNCHANGED <<initiated, received, disposed>> /\ p # q /\ disposed[p] = "no"
      /\ "overlap" \in Env \/ Pending(p, q) = {}
      /\ initiated[p][q] = None /\ received[p][q] = None
  BY DEF ConnectTo
<1>4. \A d \in Conns : state'[d] = "connected" <=> state[d] = "connected"
  BY <1>1, <1>2 DEF Visible, Held, TypeOK
<1>5. \A r \in Peers : /\ Seen(initiated[a][r])' = Seen(initiated[a][r])
                       /\ Seen(received[a][r])' = Seen(received[a][r])
  BY <1>3, <1>4, SeenSame DEF Visible
<1>6. \A b, r \in Peers : ~(b = p /\ r = q) => Pending(b, r)' = Pending(b, r)
  BY <1>1, <1>2, PendingElsewhere DEF Visible, Held
<1>7. CASE a # p
  BY <1>3, <1>5, <1>6, <1>7, Unseen
<1>8. CASE a = p
  <2>1. c \in Pending(p, q)'
    BY <1>1, <1>2 DEF Visible, Held, TypeOK, Pending
  <2>2. Calling(p)' = Calling(p) \cup {q}
    BY <1>3, <1>6, <2>1 DEF Calling
  <2>3. InitiatedView(p)' = InitiatedView(p) /\ ReceivedView(p)' = ReceivedView(p)
    BY <1>5, <1>8, NoneChanged
  <2>4. /\ InitiatedView(p) = View(p)!Closed(InitiatedView(p), {} \cup {})
        /\ ReceivedView(p) = View(p)!Closed(ReceivedView(p), {} \cup {})
    BY DEF View!Closed, InitiatedView, ReceivedView
  <2>5. InitiatedView(p)[q] = "none" /\ ReceivedView(p)[q] = "none"
    BY <1>3 DEF InitiatedView, ReceivedView, Seen
  <2>6. "overlap" \in Env \/ q \notin Calling(p)
    BY <1>3 DEF Calling
  <2>7. \E x \in SUBSET View(p)!Trying(InitiatedView(p)),
           y \in SUBSET View(p)!Trying(ReceivedView(p)) :
           /\ x \cup y # {} => disposed[p] = "no"
           /\ InitiatedView(p)' = View(p)!Closed(InitiatedView(p), {} \cup x)
           /\ ReceivedView(p)' = View(p)!Closed(ReceivedView(p), {} \cup y)
    <3>1. {} \in SUBSET View(p)!Trying(InitiatedView(p)) /\ {} \in SUBSET View(p)!Trying(ReceivedView(p))
      OBVIOUS
    <3> QED
      BY <2>3, <2>4, <3>1
  <2>8. \A r \in {q} : /\ disposed[p] = "no"
                       /\ InitiatedView(p)'[r] = "none" /\ ReceivedView(p)'[r] = "none"
                       /\ "overlap" \in Env \/ r \notin Calling(p)
    BY <1>3, <2>3, <2>5, <2>6
  <2>9. View(p)!Turn({}, {q})
    BY <1>3, <2>2, <2>7, <2>8 DEF View!Turn, InitiatedView, ReceivedView, Calling
  <2> QED
    BY <1>3, <1>8, <2>9 DEF View!Next
<1> QED
  BY <1>7, <1>8

(* Closing what the entries hold that are deleted, and no other.           *)
LEMMA ClosingView ==
    ASSUME Visible, NEW p \in Peers, NEW S, state' = Closing(S),
           UNCHANGED <<disposed, job>>,
           \A c \in S : c \in Conns /\ c.at = p,
           \A a, q \in Peers :
              /\ \/ initiated'[a][q] = initiated[a][q] /\ initiated[a][q] \notin S
                 \/ a = p /\ initiated'[a][q] = None
              /\ \/ received'[a][q] = received[a][q] /\ received[a][q] \notin S
                 \/ a = p /\ received'[a][q] = None
    PROVE  /\ \A a \in Peers \ {p} : UNCHANGED View(a)!vars
           /\ \A q \in Peers \ {p} :
                 /\ Seen(initiated[p][q])' =
                       IF initiated'[p][q] = None THEN "none" ELSE Seen(initiated[p][q])
                 /\ Seen(received[p][q])' =
                       IF received'[p][q] = None THEN "none" ELSE Seen(received[p][q])
           /\ Calling(p)' = Calling(p)
<1>1. \A a, q \in Peers : Pending(a, q)' = Pending(a, q)
  BY DEF Pending
<1>2. \A c \in Conns : c \notin S => state'[c] = state[c]
  BY DEF Closing
<1>3. ASSUME NEW a \in Peers \ {p}
      PROVE  UNCHANGED View(a)!vars
  <2>1. \A q \in Peers : /\ Seen(initiated[a][q])' = Seen(initiated[a][q])
                         /\ Seen(received[a][q])' = Seen(received[a][q])
    BY <1>2, <1>3, InMaps DEF Visible, Seen
  <2> QED
    BY <1>1, <1>3, <2>1, Unseen
<1>4. ASSUME NEW q \in Peers
      PROVE  /\ Seen(initiated[p][q])' =
                   IF initiated'[p][q] = None THEN "none" ELSE Seen(initiated[p][q])
             /\ Seen(received[p][q])' =
                   IF received'[p][q] = None THEN "none" ELSE Seen(received[p][q])
  BY <1>2, InMaps DEF Visible, Seen
<1>5. Calling(p)' = Calling(p)
  BY <1>1, NoneChanged
<1> QED
  BY <1>3, <1>4, <1>5

(* What remains of the views of a mesh that closes some of its entries.    *)
LEMMA TurnClosing ==
    ASSUME NEW p \in Peers, NEW dropped \in SUBSET (Peers \ {p}),
           NEW x \in SUBSET (Peers \ {p}), NEW y \in SUBSET (Peers \ {p}),
           \A q \in x : Seen(initiated[p][q]) = "trying",
           \A q \in y : Seen(received[p][q]) = "trying",
           x \cup y # {} => disposed[p] = "no",
           \A q \in Peers \ {p} :
              /\ Seen(initiated[p][q])' =
                    IF q \in dropped \cup x THEN "none" ELSE Seen(initiated[p][q])
              /\ Seen(received[p][q])' =
                    IF q \in dropped \cup y THEN "none" ELSE Seen(received[p][q]),
           Calling(p)' = Calling(p), UNCHANGED disposed
    PROVE  View(p)!Next
<1>1. /\ InitiatedView(p)' = View(p)!Closed(InitiatedView(p), dropped \cup x)
      /\ ReceivedView(p)' = View(p)!Closed(ReceivedView(p), dropped \cup y)
  BY DEF View!Closed, InitiatedView, ReceivedView
<1>2. x \in SUBSET View(p)!Trying(InitiatedView(p)) /\ y \in SUBSET View(p)!Trying(ReceivedView(p))
  BY DEF View!Trying, InitiatedView, ReceivedView
<1>3. View(p)!Turn(dropped, {})
  BY <1>1, <1>2 DEF View!Turn, InitiatedView, ReceivedView, Calling
<1> QED
  BY <1>3 DEF View!Next

LEMMA DiscardView ==
    ASSUME Visible, NEW p \in Peers, NEW q \in Peers, NEW a \in Peers,
           \/ DisconnectFrom(p, q) \/ CheckConnectionsSanity(p)
           \/ Dispose(p) \/ DisposeDone(p)
    PROVE  UNCHANGED View(a)!vars \/ View(a)!Next
<1>1. Held /\ TypeOK
  BY DEF Visible, Held
<1>2. CASE DisconnectFrom(p, q)
  <2>1. PICK S : S = Entry(initiated, p, q) \cup Entry(received, p, q)
    OBVIOUS
  <2>2. state' = Closing(S) /\ UNCHANGED <<disposed, job>>
    BY <1>2, <2>1 DEF DisconnectFrom
  <2>3. \A c \in S : c \in Conns /\ c.at = p /\ c.peer = q
    BY <1>1, <2>1, InMaps DEF Entry
  <2>4. \A b, r \in Peers :
           /\ initiated'[b][r] = IF b = p /\ r = q THEN None ELSE initiated[b][r]
           /\ received'[b][r] = IF b = p /\ r = q THEN None ELSE received[b][r]
    BY <1>1, <1>2 DEF DisconnectFrom, TypeOK
  <2>5. \A b, r \in Peers : ~(b = p /\ r = q) =>
           initiated[b][r] \notin S /\ received[b][r] \notin S
    BY <1>1, <2>3, InMaps, MeshAssumption
  <2>6. /\ \A b \in Peers \ {p} : UNCHANGED View(b)!vars
        /\ \A r \in Peers \ {p} :
              /\ Seen(initiated[p][r])' =
                    IF initiated'[p][r] = None THEN "none" ELSE Seen(initiated[p][r])
              /\ Seen(received[p][r])' =
                    IF received'[p][r] = None THEN "none" ELSE Seen(received[p][r])
        /\ Calling(p)' = Calling(p)
    BY <2>2, <2>3, <2>4, <2>5, ClosingView
  <2>7. PICK dropped, x : dropped = {q} \ {p} /\ x = {}
    OBVIOUS
  <2>8. \A r \in Peers \ {p} :
           /\ Seen(initiated[p][r])' =
                 IF r \in dropped \cup x THEN "none" ELSE Seen(initiated[p][r])
           /\ Seen(received[p][r])' =
                 IF r \in dropped \cup x THEN "none" ELSE Seen(received[p][r])
    BY <2>4, <2>6, <2>7 DEF Seen
  <2>9. /\ dropped \in SUBSET (Peers \ {p}) /\ x \in SUBSET (Peers \ {p})
        /\ x \cup x # {} => disposed[p] = "no"
        /\ \A r \in x : Seen(initiated[p][r]) = "trying"
        /\ \A r \in x : Seen(received[p][r]) = "trying"
    BY <2>7
  <2>10. View(p)!Next
    BY <2>2, <2>6, <2>8, <2>9, TurnClosing
  <2> QED
    BY <2>6, <2>10
<1>3. CASE CheckConnectionsSanity(p)
  <2>1. PICK S : S = {c \in Tracked(p) : Insane(c)}
    OBVIOUS
  <2>2. state' = Closing(S) /\ UNCHANGED <<disposed, job>> /\ disposed[p] = "no"
    BY <1>3, <2>1 DEF CheckConnectionsSanity
  <2>3. \A c \in S : c \in Conns /\ c.at = p /\ Insane(c)
    BY <1>1, <2>1, InMaps DEF Tracked, EntriesOf
  <2>4. \A b, r \in Peers :
           /\ initiated'[b][r] = IF b = p /\ Insane(initiated[b][r]) THEN None ELSE initiated[b][r]
           /\ received'[b][r] = IF b = p /\ Insane(received[b][r]) THEN None ELSE received[b][r]
    BY <1>1, <1>3 DEF CheckConnectionsSanity, TypeOK
  <2>5. \A b, r \in Peers :
           /\ ~(b = p /\ Insane(initiated[b][r])) => initiated[b][r] \notin S
           /\ ~(b = p /\ Insane(received[b][r])) => received[b][r] \notin S
    BY <1>1, <2>3, InMaps, MeshAssumption
  <2>6. /\ \A b \in Peers \ {p} : UNCHANGED View(b)!vars
        /\ \A r \in Peers \ {p} :
              /\ Seen(initiated[p][r])' =
                    IF initiated'[p][r] = None THEN "none" ELSE Seen(initiated[p][r])
              /\ Seen(received[p][r])' =
                    IF received'[p][r] = None THEN "none" ELSE Seen(received[p][r])
        /\ Calling(p)' = Calling(p)
    BY <2>2, <2>3, <2>4, <2>5, ClosingView
  <2>7. PICK x : x = {r \in Peers \ {p} : Insane(initiated[p][r])}
    OBVIOUS
  <2>8. PICK y : y = {r \in Peers \ {p} : Insane(received[p][r])}
    OBVIOUS
  <2>9. /\ \A r \in x : Seen(initiated[p][r]) = "trying"
        /\ \A r \in y : Seen(received[p][r]) = "trying"
    BY <2>7, <2>8 DEF Insane, Seen
  <2>10. \A r \in Peers \ {p} :
           /\ Seen(initiated[p][r])' =
                 IF r \in {} \cup x THEN "none" ELSE Seen(initiated[p][r])
           /\ Seen(received[p][r])' =
                 IF r \in {} \cup y THEN "none" ELSE Seen(received[p][r])
    BY <2>4, <2>6, <2>7, <2>8 DEF Seen
  <2>11. x \in SUBSET (Peers \ {p}) /\ y \in SUBSET (Peers \ {p}) /\ {} \in SUBSET (Peers \ {p})
    BY <2>7, <2>8
  <2>12. View(p)!Next
    BY <2>2, <2>6, <2>9, <2>10, <2>11, TurnClosing
  <2> QED
    BY <2>6, <2>12
<1>4. CASE Dispose(p)
  <2>1. UNCHANGED <<initiated, received, state, job>>
        /\ disposed' = [disposed EXCEPT ![p] = "removing"] /\ disposed[p] = "no"
    BY <1>4 DEF Dispose
  <2>2. /\ InitiatedView(a)' = InitiatedView(a) /\ ReceivedView(a)' = ReceivedView(a)
        /\ Calling(a)' = Calling(a)
    BY <2>1 DEF InitiatedView, ReceivedView, Calling, Seen, Pending
  <2>3. disposed'[a] = IF a = p THEN "removing" ELSE disposed[a]
    BY <1>1, <2>1 DEF TypeOK
  <2>4. CASE a = p
    <3>1. View(a)!Dispose
      BY <2>1, <2>2, <2>3, <2>4 DEF View!Dispose, InitiatedView, ReceivedView, Calling
    <3> QED
      BY <3>1 DEF View!Next
  <2>5. CASE a # p
    BY <2>2, <2>3, <2>5 DEF View!vars, InitiatedView, ReceivedView, Calling
  <2> QED
    BY <2>4, <2>5
<1>5. CASE DisposeDone(p)
  <2>1. state' = Closing(Tracked(p)) /\ UNCHANGED job /\ disposed[p] = "removing"
        /\ disposed' = [disposed EXCEPT ![p] = "yes"]
    BY <1>5 DEF DisposeDone
  <2>2. \A c \in Tracked(p) : c \in Conns /\ c.at = p
    BY <1>1, InMaps DEF Tracked, EntriesOf
  <2>3. \A b, r \in Peers :
           /\ initiated'[b][r] = IF b = p THEN None ELSE initiated[b][r]
           /\ received'[b][r] = IF b = p THEN None ELSE received[b][r]
    BY <1>1, <1>5 DEF DisposeDone, TypeOK
  <2>4. \A b, r \in Peers : b # p =>
           initiated[b][r] \notin Tracked(p) /\ received[b][r] \notin Tracked(p)
    BY <1>1, <2>2, InMaps, MeshAssumption
  <2>5. disposed'[a] = IF a = p THEN "yes" ELSE disposed[a]
    BY <1>1, <2>1 DEF TypeOK
  <2>6. \A r \in Peers : Pending(a, r)' = Pending(a, r)
    BY <2>1 DEF Pending
  <2>7. CASE a = p
    <3>1. Calling(a)' = Calling(a)
      BY <2>6, NoneChanged
    <3>2. /\ InitiatedView(a)' = View(a)!Closed(InitiatedView(a), Peers \ {a})
          /\ ReceivedView(a)' = View(a)!Closed(ReceivedView(a), Peers \ {a})
      BY <2>3, <2>7 DEF InitiatedView, ReceivedView, View!Closed, Seen
    <3>3. View(a)!Disposed
      BY <2>1, <2>5, <2>7, <3>1, <3>2 DEF View!Disposed, InitiatedView, ReceivedView, Calling
    <3> QED
      BY <3>3 DEF View!Next
  <2>8. CASE a # p
    <3>1. \A c \in Conns : c \notin Tracked(p) => state'[c] = state[c]
      BY <2>1 DEF Closing
    <3>2. \A r \in Peers : /\ Seen(initiated[a][r])' = Seen(initiated[a][r])
                           /\ Seen(received[a][r])' = Seen(received[a][r])
      BY <1>1, <2>3, <2>4, <2>8, <3>1, InMaps DEF Seen
    <3> QED
      BY <2>5, <2>6, <2>8, <3>2, Unseen
  <2> QED
    BY <2>7, <2>8
<1> QED
  BY <1>2, <1>3, <1>4, <1>5

(* A step that changes no map and makes no connection come up or go down.  *)
LEMMA UnseenStep ==
    ASSUME Held, UNCHANGED <<disposed, initiated, received>>, NEW a \in Peers,
           \A c \in Conns : state'[c] = "connected" <=> state[c] = "connected",
           \A q \in Peers : Pending(a, q)' = Pending(a, q)
    PROVE  UNCHANGED View(a)!vars
<1>1. \A q \in Peers : /\ Seen(initiated[a][q])' = Seen(initiated[a][q])
                       /\ Seen(received[a][q])' = Seen(received[a][q])
  BY SeenSame
<1> QED
  BY <1>1, Unseen

LEMMA MessageView ==
    ASSUME Visible, NEW m \in net, Deliver(m) \/ Drop(m), NEW a \in Peers
    PROVE  UNCHANGED View(a)!vars \/ View(a)!Next
<1>a. Held /\ TypeOK
  BY DEF Visible, Held
<1>b. PICK p \in Peers, q \in Peers : p = m.conn.peer /\ q = m.conn.at
  BY <1>a, MessageType
<1>1. CASE OnOfferYield(m)
  <2>1. /\ disposed[p] = "no" /\ initiated[p][q] # None /\ p < q
        /\ state' = Closing({initiated[p][q]})
        /\ initiated' = [initiated EXCEPT ![p][q] = None]
        /\ UNCHANGED <<disposed, received, job>>
    BY <1>1, <1>b DEF OnOfferYield
  <2>2. PICK S : S = {initiated[p][q]}
    OBVIOUS
  <2>3. \A c \in S : c \in Conns /\ c.at = p /\ c.peer = q /\ c.role = "initiator"
    BY <1>a, <2>1, <2>2, InMaps
  <2>4. \A b, r \in Peers :
           /\ initiated'[b][r] = IF b = p /\ r = q THEN None ELSE initiated[b][r]
           /\ received'[b][r] = received[b][r]
    BY <1>a, <2>1 DEF TypeOK
  <2>5. \A b, r \in Peers : /\ ~(b = p /\ r = q) => initiated[b][r] \notin S
                            /\ received[b][r] \notin S
    BY <1>a, <2>3, InMaps, MeshAssumption
  <2>6. /\ state' = Closing(S)
        /\ \A b, r \in Peers :
              /\ \/ initiated'[b][r] = initiated[b][r] /\ initiated[b][r] \notin S
                 \/ b = p /\ initiated'[b][r] = None
              /\ received'[b][r] = received[b][r] /\ received[b][r] \notin S
    BY <2>1, <2>2, <2>4, <2>5
  <2>7. /\ \A b \in Peers \ {p} : UNCHANGED View(b)!vars
        /\ \A r \in Peers \ {p} :
              /\ Seen(initiated[p][r])' =
                    IF initiated'[p][r] = None THEN "none" ELSE Seen(initiated[p][r])
              /\ Seen(received[p][r])' =
                    IF received'[p][r] = None THEN "none" ELSE Seen(received[p][r])
        /\ Calling(p)' = Calling(p)
    BY <2>1, <2>3, <2>6, ClosingView
  <2>8. q \in Peers \ {p}
    BY <2>1, MeshAssumption
  <2>9. \A r \in Peers \ {p} :
           /\ Seen(initiated[p][r])' = IF r = q THEN "none" ELSE Seen(initiated[p][r])
           /\ Seen(received[p][r])' = Seen(received[p][r])
    BY <2>4, <2>7 DEF Seen
  <2>10. InitiatedView(p)' = [InitiatedView(p) EXCEPT ![q] = "none"]
    BY <2>8, <2>9, OneInitiated
  <2>11. ReceivedView(p)' = ReceivedView(p)
    BY <2>9, NoneChanged
  <2>12. InitiatedView(p)[q] # "none"
    BY <2>1, <2>8 DEF InitiatedView, Seen
  <2>13. View(p)!Yield(q)
    BY <2>1, <2>7, <2>10, <2>11, <2>12
       DEF View!Yield, View!Yields, InitiatedView, ReceivedView, Calling
  <2>14. View(p)!Next
    BY <2>8, <2>13 DEF View!Next
  <2> QED
    BY <2>7, <2>14
<1>2. CASE OnOfferAccept(m)
  <2>1. PICK c \in Fresh(p, q, "responder") :
           /\ state' = [state EXCEPT ![c] = "new"]
           /\ received' = [received EXCEPT ![p][q] = c]
           /\ job' = [job EXCEPT ![c] = "answering"]
    BY <1>2, <1>b DEF OnOfferAccept
  <2>2. c \in Conns /\ c # None /\ state[c] = "none" /\ job[c] = "none"
    BY <2>1, FreshType, ConnsType DEF Visible, Held, Waiting
  <2>3. /\ disposed[p] = "no" /\ ~(initiated[p][q] # None /\ p < q)
        /\ UNCHANGED <<disposed, initiated>>
    BY <1>2, <1>b DEF OnOfferAccept
  <2>4. \A b, r \in Peers : Pending(b, r)' = Pending(b, r)
    <3>1. "answering" \in {"offering", "publishing"} <=> job[c] \in {"offering", "publishing"}
      BY <2>2
    <3> QED
      BY <1>a, <2>1, <2>2, <3>1, PendingElsewhere
  <2>5. /\ state'[c] = "new"
        /\ \A d \in Conns : state'[d] = "connected" <=> state[d] = "connected"
    BY <1>a, <2>1, <2>2 DEF TypeOK
  <2>6. \A b, r \in Peers :
           received'[b][r] = IF b = p /\ r = q THEN c ELSE received[b][r]
    BY <1>a, <2>1 DEF TypeOK
  <2>7. \A b, r \in Peers :
           /\ Seen(initiated[b][r])' = Seen(initiated[b][r])
           /\ Seen(received[b][r])' =
                 IF b = p /\ r = q THEN "trying" ELSE Seen(received[b][r])
    BY <1>a, <2>2, <2>3, <2>5, <2>6, InMaps DEF Seen
  <2>8. CASE a = p /\ q # p
    <3>1. ReceivedView(p)' = [ReceivedView(p) EXCEPT ![q] = "trying"]
      BY <2>7, <2>8, OneReceived
    <3>2. InitiatedView(p)' = InitiatedView(p) /\ Calling(p)' = Calling(p)
      BY <2>4, <2>7, NoneChanged
    <3>3. ~(InitiatedView(p)[q] # "none" /\ p < q)
      BY <2>3, <2>8 DEF InitiatedView, Seen
    <3>4. View(p)!Accept(q)
      BY <2>3, <3>1, <3>2, <3>3
         DEF View!Accept, View!Yields, InitiatedView, ReceivedView, Calling
    <3> QED
      BY <2>8, <3>4 DEF View!Next
  <2>9. CASE ~(a = p /\ q # p)
    <3>1. \A r \in Peers \ {a} : /\ Seen(initiated[a][r])' = Seen(initiated[a][r])
                                 /\ Seen(received[a][r])' = Seen(received[a][r])
      BY <2>7, <2>9
    <3> QED
      BY <2>3, <2>4, <3>1, Unseen
  <2> QED
    BY <2>8, <2>9
<1>3. CASE OnAnswer(m)
  <2>1. UNCHANGED <<disposed, initiated, received, job>>
    BY <1>3 DEF OnAnswer
  <2>2. PICK c : c = initiated[p][q]
    OBVIOUS
  <2>3. \/ UNCHANGED state
        \/ /\ c # None /\ state[c] = "new"
           /\ state' = [state EXCEPT ![c] = "connecting"]
    BY <1>3, <1>b, <2>2 DEF OnAnswer
  <2>4. \A d \in Conns : state'[d] = "connected" <=> state[d] = "connected"
    BY <1>a, <2>3 DEF TypeOK
  <2>5. \A r \in Peers : Pending(a, r)' = Pending(a, r)
    BY <2>1 DEF Pending
  <2>6. UNCHANGED <<disposed, initiated, received>>
    BY <2>1
  <2>7. UNCHANGED View(a)!vars
    BY <1>a, <2>4, <2>5, <2>6, UnseenStep
  <2> QED
    BY <2>7
<1>4. CASE OnOfferRefuse(m) \/ OnCandidate(m) \/ Drop(m)
  <2>1. UNCHANGED <<disposed, initiated, received, state, job>>
    BY <1>4 DEF OnOfferRefuse, OnCandidate, Drop
  <2>2. \A r \in Peers : Pending(a, r)' = Pending(a, r)
    BY <2>1 DEF Pending
  <2> QED
    BY <1>a, <2>1, <2>2, UnseenStep
<1> QED
  BY <1>1, <1>2, <1>3, <1>4 DEF Deliver

(* A connectTo call that is suspended settles.                             *)
LEMMA SettlesView ==
    ASSUME Visible, NEW c \in Conns, c.peer # c.at,
           job[c] \in {"offering", "publishing"}, job' = [job EXCEPT ![c] = "none"]
    PROVE  View(c.at)!Settles(c.peer)
<1>a. c.at \in Peers /\ c.peer \in Peers \ {c.at} /\ TypeOK
  BY ConnsType DEF Visible, Held
<1>1. c \in Pending(c.at, c.peer)
  BY DEF Pending
<1>2. c.peer \in Calling(c.at)
  BY <1>a, <1>1 DEF Calling
<1>3. \A r \in Peers : r # c.peer => Pending(c.at, r)' = Pending(c.at, r)
  BY <1>a, PendingElsewhere
<1>4. Calling(c.at)' \in {Calling(c.at), Calling(c.at) \ {c.peer}}
  BY <1>a, <1>2, <1>3 DEF Calling
<1>5. ASSUME "overlap" \notin Env
      PROVE  Calling(c.at)' = Calling(c.at) \ {c.peer}
  <2>1. \A d \in Pending(c.at, c.peer) : d = c
    BY <1>5 DEF Visible, Reachable, Unique, Pending
  <2>2. Pending(c.at, c.peer)' = {}
    BY <1>a, <2>1 DEF Pending, TypeOK
  <2>3. c.peer \notin Calling(c.at)'
    BY <2>2 DEF Calling
  <2> QED
    BY <1>4, <2>3
<1> QED
  BY <1>2, <1>4, <1>5 DEF View!Settles, Calling

(* The state of one instance changes, and with it what is seen of the      *)
(* entry that holds it.                                                    *)
LEMMA OneState ==
    ASSUME Held, NEW c \in Conns, NEW st, state' = [state EXCEPT ![c] = st],
           UNCHANGED <<initiated, received>>
    PROVE  /\ state'[c] = st
           /\ \A a, r \in Peers :
                 /\ Seen(initiated[a][r])' =
                       IF initiated[a][r] = c
                       THEN IF st = "connected" THEN "up" ELSE "trying"
                       ELSE Seen(initiated[a][r])
                 /\ Seen(received[a][r])' =
                       IF received[a][r] = c
                       THEN IF st = "connected" THEN "up" ELSE "trying"
                       ELSE Seen(received[a][r])
<1>1. state'[c] = st /\ \A d \in Conns : d # c => state'[d] = state[d]
  BY DEF Held, TypeOK
<1>2. c # None
  BY ConnsType
<1> QED
  BY <1>1, <1>2, InMaps DEF Seen

LEMMA CallView ==
    ASSUME Visible, NEW c \in Conns, NEW a \in Peers,
           \/ OfferCreated(c) \/ ConnectToDone(c) \/ ConnectToFails(c)
           \/ AnswerCreated(c) \/ AnswerFails(c)
    PROVE  UNCHANGED View(a)!vars \/ View(a)!Next
<1>a. Held /\ TypeOK /\ c.at \in Peers /\ c.peer \in Peers /\ c # None
  BY ConnsType DEF Visible, Held
<1>1. CASE OfferCreated(c) \/ AnswerFails(c)
  <2>1. UNCHANGED <<disposed, initiated, received>> /\ UNCHANGED state
    BY <1>1 DEF OfferCreated, AnswerFails
  <2>2. \E j : /\ job' = [job EXCEPT ![c] = j]
               /\ j \in {"offering", "publishing"} <=> job[c] \in {"offering", "publishing"}
    BY <1>1 DEF OfferCreated, AnswerFails
  <2>3. \A r \in Peers : Pending(a, r)' = Pending(a, r)
    BY <1>a, <2>2, PendingElsewhere
  <2> QED
    BY <1>a, <2>1, <2>3, UnseenStep
<1>2. CASE AnswerCreated(c)
  <2>1. /\ job[c] = "answering" /\ state[c] = "new"
        /\ job' = [job EXCEPT ![c] = "none"]
        /\ state' = [state EXCEPT ![c] = "connecting"]
    BY <1>2 DEF AnswerCreated, Visible, Constructed, Answering
  <2>2. UNCHANGED <<disposed, initiated, received>>
    BY <1>2 DEF AnswerCreated
  <2>3. "none" \in {"offering", "publishing"} <=> job[c] \in {"offering", "publishing"}
    BY <2>1
  <2>4. \A r \in Peers : Pending(a, r)' = Pending(a, r)
    BY <1>a, <2>1, <2>3, PendingElsewhere
  <2>5. \A d \in Conns : state'[d] = "connected" <=> state[d] = "connected"
    BY <1>a, <2>1 DEF TypeOK
  <2> QED
    BY <1>a, <2>2, <2>4, <2>5, UnseenStep
<1>3. CASE ConnectToFails(c)
  <2>1. /\ job[c] \in {"offering", "publishing"} /\ job' = [job EXCEPT ![c] = "none"]
        /\ UNCHANGED <<disposed, initiated, received, state>>
    BY <1>3 DEF ConnectToFails
  <2>2. CASE a = c.at /\ c.peer # c.at
    <3>1. InitiatedView(a)' = InitiatedView(a) /\ ReceivedView(a)' = ReceivedView(a)
      BY <2>1 DEF InitiatedView, ReceivedView, Seen
    <3>2. View(a)!Settles(c.peer)
      BY <2>1, <2>2, SettlesView
    <3>3. View(a)!Throw(c.peer)
      BY <2>1, <3>1, <3>2 DEF View!Throw, InitiatedView, ReceivedView
    <3> QED
      BY <1>a, <2>2, <3>3 DEF View!Next
  <2>3. CASE ~(a = c.at /\ c.peer # c.at)
    <3>a. \A r \in Peers \ {a} : ~(a = c.at /\ r = c.peer)
      BY <2>3
    <3>b. job' = [job EXCEPT ![c] = "none"]
      BY <2>1
    <3>c. \A p, q \in Peers : ~(p = c.at /\ q = c.peer) => Pending(p, q)' = Pending(p, q)
      BY <1>a, <3>b, PendingElsewhere
    <3>1. \A r \in Peers \ {a} : Pending(a, r)' = Pending(a, r)
      BY <3>a, <3>c
    <3>2. \A r \in Peers : /\ Seen(initiated[a][r])' = Seen(initiated[a][r])
                           /\ Seen(received[a][r])' = Seen(received[a][r])
      BY <2>1 DEF Seen
    <3>3. UNCHANGED View(a)!vars
      BY <2>1, <3>1, <3>2, Unseen
    <3> QED
      BY <3>3
  <2> QED
    BY <2>2, <2>3
<1>4. CASE ConnectToDone(c)
  <2>1. /\ job[c] = "publishing" /\ job' = [job EXCEPT ![c] = "none"]
        /\ initiated' = [initiated EXCEPT ![c.at][c.peer] = c]
        /\ UNCHANGED <<disposed, received, state>>
    BY <1>4 DEF ConnectToDone
  <2>2. state[c] = "new"
    BY <1>a, <2>1 DEF Held, Suspended
  <2>3. \A b, r \in Peers :
           initiated'[b][r] = IF b = c.at /\ r = c.peer THEN c ELSE initiated[b][r]
    BY <1>a, <2>1 DEF TypeOK
  <2>4. \A b, r \in Peers :
           /\ Seen(initiated[b][r])' =
                 IF b = c.at /\ r = c.peer THEN "trying" ELSE Seen(initiated[b][r])
           /\ Seen(received[b][r])' = Seen(received[b][r])
    BY <1>a, <2>1, <2>2, <2>3 DEF Seen
  <2>5. CASE a = c.at /\ c.peer # c.at
    <3>1. InitiatedView(a)' = [InitiatedView(a) EXCEPT ![c.peer] = "trying"]
      BY <1>a, <2>4, <2>5, OneInitiated
    <3>2. ReceivedView(a)' = ReceivedView(a)
      BY <2>4, NoneChanged
    <3>3. View(a)!Settles(c.peer)
      BY <2>1, <2>5, SettlesView
    <3>4. View(a)!Return(c.peer)
      BY <2>1, <3>1, <3>2, <3>3 DEF View!Return, InitiatedView, ReceivedView
    <3> QED
      BY <1>a, <2>5, <3>4 DEF View!Next
  <2>6. CASE ~(a = c.at /\ c.peer # c.at)
    <3>a. \A r \in Peers \ {a} : ~(a = c.at /\ r = c.peer)
      BY <2>6
    <3>b. job' = [job EXCEPT ![c] = "none"]
      BY <2>1
    <3>c. \A p, q \in Peers : ~(p = c.at /\ q = c.peer) => Pending(p, q)' = Pending(p, q)
      BY <1>a, <3>b, PendingElsewhere
    <3>1. \A r \in Peers \ {a} : Pending(a, r)' = Pending(a, r)
      BY <3>a, <3>c
    <3>2. \A r \in Peers \ {a} : /\ Seen(initiated[a][r])' = Seen(initiated[a][r])
                                 /\ Seen(received[a][r])' = Seen(received[a][r])
      BY <2>4, <2>6
    <3>3. UNCHANGED View(a)!vars
      BY <2>1, <3>1, <3>2, Unseen
    <3> QED
      BY <3>3
  <2> QED
    BY <2>5, <2>6
<1> QED
  BY <1>1, <1>2, <1>3, <1>4

(* Where the instance whose state changes is.                              *)
LEMMA EntryOf ==
    ASSUME Held, NEW c \in Conns
    PROVE  /\ \A a, r \in Peers : initiated[a][r] = c => a = c.at /\ r = c.peer
           /\ \A a, r \in Peers : received[a][r] = c => a = c.at /\ r = c.peer
           /\ initiated[c.at][c.peer] = c => received[c.at][c.peer] # c
BY ConnsType, InMaps

(* A connection comes up or goes down.                                     *)
LEMMA UpDownView ==
    ASSUME Visible, NEW c \in Conns, NEW a \in Peers, Connected(c) \/ Disconnected(c)
    PROVE  UNCHANGED View(a)!vars \/ View(a)!Next
<1>a. Held /\ TypeOK /\ c.at \in Peers /\ c.peer \in Peers /\ c # None
  BY ConnsType DEF Visible, Held
<1>1. PICK st \in {"connected", "disconnected"} :
         /\ state' = [state EXCEPT ![c] = st]
         /\ st = "connected" => state[c] \in {"connecting", "disconnected"}
         /\ st = "disconnected" => state[c] = "connected"
  BY DEF Connected, Disconnected
<1>2. UNCHANGED <<disposed, initiated, received>> /\ UNCHANGED job
  BY DEF Connected, Disconnected
<1>3. \A r \in Peers \ {a} : Pending(a, r)' = Pending(a, r)
  BY <1>2 DEF Pending
<1>b. Calling(a)' = Calling(a)
  BY <1>3, NoneChanged
<1> DEFINE value == IF st = "connected" THEN "up" ELSE "trying"
           before == IF st = "connected" THEN "trying" ELSE "up"
<1>4. \A b, r \in Peers :
         /\ Seen(initiated[b][r])' =
               IF initiated[b][r] = c THEN value ELSE Seen(initiated[b][r])
         /\ Seen(received[b][r])' =
               IF received[b][r] = c THEN value ELSE Seen(received[b][r])
  <2>1. state' = [state EXCEPT ![c] = st] /\ UNCHANGED <<initiated, received>>
    BY <1>1, <1>2
  <2>2. state'[c] = st /\ \A d \in Conns : d # c => state'[d] = state[d]
    BY <1>a, <2>1 DEF TypeOK
  <2>3. Seen(c)' = value
    BY <1>a, <2>2 DEF Seen
  <2>4. \A d \in Conns : d # c => Seen(d)' = Seen(d)
    BY <2>2 DEF Seen
  <2>5. Seen(None)' = Seen(None)
    BY DEF Seen
  <2>6. \A b, r \in Peers : /\ initiated'[b][r] = initiated[b][r]
                            /\ initiated[b][r] \in Conns \cup {None}
                            /\ received'[b][r] = received[b][r]
                            /\ received[b][r] \in Conns \cup {None}
    BY <1>a, <2>1 DEF TypeOK
  <2> HIDE DEF value
  <2> QED
    BY <2>3, <2>4, <2>5, <2>6
<1>5. Seen(c) = before
  BY <1>a, <1>1 DEF Seen
<1>6. CASE a = c.at /\ c.peer # c.at /\ initiated[a][c.peer] = c
  <2>a. \A r \in Peers : initiated[a][r] = c <=> r = c.peer
    BY <1>a, <1>6, EntryOf
  <2>1. \A r \in Peers \ {a} : Seen(initiated[a][r])' =
           IF r = c.peer THEN value ELSE Seen(initiated[a][r])
    BY <1>4, <2>a
  <2>2. InitiatedView(a)' = [InitiatedView(a) EXCEPT ![c.peer] = value]
    <3> HIDE DEF value
    <3>1. c.peer \in Peers \ {a}
      BY <1>a, <1>6
    <3> QED
      BY <2>1, <3>1, OneInitiated
  <2>b. \A r \in Peers : received[a][r] # c
    BY <1>a, <1>6, EntryOf
  <2>3. \A r \in Peers \ {a} : Seen(received[a][r])' = Seen(received[a][r])
    BY <1>4, <2>b
  <2>4. ReceivedView(a)' = ReceivedView(a)
    BY <2>3, NoneChanged
  <2>5. InitiatedView(a)[c.peer] = before
    BY <1>a, <1>5, <1>6 DEF InitiatedView
  <2>6. disposed[a] # "yes"
    BY <1>a, <1>1, <1>6 DEF Visible, Silent, Entry
  <2>7. UNCHANGED <<Calling(a), disposed[a]>>
    BY <1>2, <1>b
  <2>8. View(a)!Up(c.peer) \/ View(a)!Down(c.peer)
    <3>1. CASE st = "connected"
      <4>1. /\ InitiatedView(a)' = [InitiatedView(a) EXCEPT ![c.peer] = "up"]
            /\ InitiatedView(a)[c.peer] = "trying"
        BY <2>2, <2>5, <3>1
      <4>2. View(a)!Up(c.peer)
        BY <2>4, <4>1, <2>6, <2>7 DEF View!Up, InitiatedView, ReceivedView, Calling
      <4> QED
        BY <4>2
    <3>2. CASE st = "disconnected"
      <4>1. /\ InitiatedView(a)' = [InitiatedView(a) EXCEPT ![c.peer] = "trying"]
            /\ InitiatedView(a)[c.peer] = "up"
        BY <2>2, <2>5, <3>2
      <4>2. View(a)!Down(c.peer)
        BY <2>4, <4>1, <2>6, <2>7 DEF View!Down, InitiatedView, ReceivedView, Calling
      <4> QED
        BY <4>2
    <3> QED
      BY <3>1, <3>2
  <2> QED
    BY <1>a, <1>6, <2>8 DEF View!Next
<1>7. CASE a = c.at /\ c.peer # c.at /\ received[a][c.peer] = c
  <2>a. \A r \in Peers : received[a][r] = c <=> r = c.peer
    BY <1>a, <1>7, EntryOf
  <2>1. \A r \in Peers \ {a} : Seen(received[a][r])' =
           IF r = c.peer THEN value ELSE Seen(received[a][r])
    BY <1>4, <2>a
  <2>2. ReceivedView(a)' = [ReceivedView(a) EXCEPT ![c.peer] = value]
    <3> HIDE DEF value
    <3>1. c.peer \in Peers \ {a}
      BY <1>a, <1>7
    <3> QED
      BY <2>1, <3>1, OneReceived
  <2>b. \A r \in Peers : initiated[a][r] # c
    BY <1>a, <1>7, EntryOf
  <2>3. \A r \in Peers \ {a} : Seen(initiated[a][r])' = Seen(initiated[a][r])
    BY <1>4, <2>b
  <2>4. InitiatedView(a)' = InitiatedView(a)
    BY <2>3, NoneChanged
  <2>5. ReceivedView(a)[c.peer] = before
    BY <1>a, <1>5, <1>7 DEF ReceivedView
  <2>6. disposed[a] # "yes"
    BY <1>a, <1>1, <1>7 DEF Visible, Silent, Entry
  <2>7. UNCHANGED <<Calling(a), disposed[a]>>
    BY <1>2, <1>b
  <2>8. View(a)!Up(c.peer) \/ View(a)!Down(c.peer)
    <3>1. CASE st = "connected"
      <4>1. /\ ReceivedView(a)' = [ReceivedView(a) EXCEPT ![c.peer] = "up"]
            /\ ReceivedView(a)[c.peer] = "trying"
        BY <2>2, <2>5, <3>1
      <4>2. View(a)!Up(c.peer)
        BY <2>4, <4>1, <2>6, <2>7 DEF View!Up, InitiatedView, ReceivedView, Calling
      <4> QED
        BY <4>2
    <3>2. CASE st = "disconnected"
      <4>1. /\ ReceivedView(a)' = [ReceivedView(a) EXCEPT ![c.peer] = "trying"]
            /\ ReceivedView(a)[c.peer] = "up"
        BY <2>2, <2>5, <3>2
      <4>2. View(a)!Down(c.peer)
        BY <2>4, <4>1, <2>6, <2>7 DEF View!Down, InitiatedView, ReceivedView, Calling
      <4> QED
        BY <4>2
    <3> QED
      BY <3>1, <3>2
  <2> QED
    BY <1>a, <1>7, <2>8 DEF View!Next
<1>8. CASE /\ ~(a = c.at /\ c.peer # c.at /\ initiated[a][c.peer] = c)
           /\ ~(a = c.at /\ c.peer # c.at /\ received[a][c.peer] = c)
  <2>1. \A r \in Peers \ {a} : initiated[a][r] # c /\ received[a][r] # c
    BY <1>a, <1>8, EntryOf
  <2>2. \A r \in Peers \ {a} : /\ Seen(initiated[a][r])' = Seen(initiated[a][r])
                               /\ Seen(received[a][r])' = Seen(received[a][r])
    BY <1>4, <2>1
  <2>3. UNCHANGED View(a)!vars
    BY <1>2, <1>3, <2>2, Unseen
  <2> QED
    BY <2>3
<1> QED
  BY <1>6, <1>7, <1>8

(* A connection fails: the entry of receivedConnections goes.              *)
LEMMA FailedView ==
    ASSUME Visible, NEW c \in Conns, NEW a \in Peers, Failed(c)
    PROVE  UNCHANGED View(a)!vars \/ View(a)!Next
<1>a. Held /\ TypeOK /\ c.at \in Peers /\ c.peer \in Peers /\ c # None
  BY ConnsType DEF Visible, Held
<1>1. /\ state[c] \in {"connecting", "disconnected"}
      /\ state' = [state EXCEPT ![c] = "failed"]
      /\ received' = [received EXCEPT ![c.at][c.peer] = None]
      /\ UNCHANGED <<disposed, initiated, job>>
  BY DEF Failed
<1>2. \A d \in Conns : state'[d] = "connected" <=> state[d] = "connected"
  BY <1>a, <1>1 DEF TypeOK
<1>3. \A b, r \in Peers :
         received'[b][r] = IF b = c.at /\ r = c.peer THEN None ELSE received[b][r]
  BY <1>a, <1>1 DEF TypeOK
<1>4. \A b, r \in Peers :
         /\ Seen(initiated[b][r])' = Seen(initiated[b][r])
         /\ Seen(received[b][r])' =
               IF b = c.at /\ r = c.peer THEN "none" ELSE Seen(received[b][r])
  BY <1>a, <1>1, <1>2, <1>3, InMaps DEF Seen
<1>5. \A r \in Peers \ {a} : Pending(a, r)' = Pending(a, r)
  BY <1>1 DEF Pending
<1>6. CASE a = c.at /\ c.peer # c.at /\ received[a][c.peer] # None
  <2>1. \A r \in Peers \ {a} : Seen(received[a][r])' =
           IF r = c.peer THEN "none" ELSE Seen(received[a][r])
    BY <1>4, <1>6
  <2>2. ReceivedView(a)' = [ReceivedView(a) EXCEPT ![c.peer] = "none"]
    BY <1>a, <1>6, <2>1, OneReceived
  <2>3. InitiatedView(a)' = InitiatedView(a) /\ Calling(a)' = Calling(a)
    BY <1>4, <1>5, NoneChanged
  <2>4. ReceivedView(a)[c.peer] # "none"
    BY <1>a, <1>6 DEF ReceivedView, Seen
  <2>5. View(a)!Lose(c.peer)
    BY <1>1, <2>2, <2>3, <2>4 DEF View!Lose, InitiatedView, ReceivedView, Calling
  <2> QED
    BY <1>a, <1>6, <2>5 DEF View!Next
<1>7. CASE ~(a = c.at /\ c.peer # c.at /\ received[a][c.peer] # None)
  <2>1. \A r \in Peers \ {a} : a = c.at /\ r = c.peer => Seen(received[a][r]) = "none"
    BY <1>7 DEF Seen
  <2>2. \A r \in Peers \ {a} : /\ Seen(initiated[a][r])' = Seen(initiated[a][r])
                               /\ Seen(received[a][r])' = Seen(received[a][r])
    BY <1>4, <2>1
  <2>3. UNCHANGED View(a)!vars
    BY <1>1, <1>5, <2>2, Unseen
  <2> QED
    BY <2>3
<1> QED
  BY <1>6, <1>7

LEMMA VisibleNext ==
    ASSUME Visible, [Next]_vars
    PROVE  Visible'
<1>1. Held'
  BY HeldNext DEF Visible
<1>2. Constructed'
  BY ConstructedNext DEF Visible
<1>3. Silent'
  BY SilentNext DEF Visible
<1>4. ASSUME "overlap" \notin Env
      PROVE  Reachable'
  <2>1. Held /\ Reachable
    BY <1>4 DEF Visible
  <2> QED
    BY <1>4, <2>1, ReachableNext
<1>5. ("overlap" \notin Env => Reachable)'
  BY <1>4
<1> QED
  BY <1>1, <1>2, <1>3, <1>5 DEF Visible

LEMMA NextView ==
    ASSUME Visible, [Next]_vars, NEW a \in Peers
    PROVE  UNCHANGED View(a)!vars \/ View(a)!Next
<1>a. Held
  BY DEF Visible
<1>1. CASE UNCHANGED vars
  <2>1. UNCHANGED <<disposed, initiated, received, state, job>>
    BY <1>1 DEF vars
  <2>2. \A q \in Peers : Pending(a, q)' = Pending(a, q)
    BY <2>1 DEF Pending
  <2> QED
    BY <1>a, <2>1, <2>2, UnseenStep
<1>2. ASSUME NEW c \in Conns, DataChannelOpen(c) \/ Timeout(c)
      PROVE  UNCHANGED View(a)!vars
  <2>1. UNCHANGED <<disposed, initiated, received, state, job>>
    BY <1>2 DEF DataChannelOpen, Timeout
  <2>2. \A q \in Peers : Pending(a, q)' = Pending(a, q)
    BY <2>1 DEF Pending
  <2> QED
    BY <1>a, <2>1, <2>2, UnseenStep
<1>3. CASE \E p, q \in Peers : ConnectTo(p, q) \/ DisconnectFrom(p, q)
  BY <1>3, ConnectToView, DiscardView
<1>4. CASE \E p \in Peers : CheckConnectionsSanity(p) \/ Dispose(p) \/ DisposeDone(p)
  BY <1>4, DiscardView
<1>5. CASE \E m \in net : Deliver(m) \/ Drop(m)
  BY <1>5, MessageView DEF Deliver
<1>6. CASE \E c \in Conns : Resume(c) \/ Ice(c) \/ Timeout(c)
  <2>1. PICK c \in Conns : Resume(c) \/ Ice(c) \/ Timeout(c)
    BY <1>6
  <2>2. CASE Resume(c)
    BY <2>2, CallView DEF Resume
  <2>3. CASE Connected(c) \/ Disconnected(c)
    BY <2>3, UpDownView
  <2>4. CASE Failed(c)
    BY <2>4, FailedView
  <2>5. CASE DataChannelOpen(c) \/ Timeout(c)
    BY <2>5, <1>2
  <2> QED
    BY <2>1, <2>2, <2>3, <2>4, <2>5 DEF Ice
<1> QED
  BY <1>1, <1>3, <1>4, <1>5, <1>6 DEF Next

LEMMA VisibleInit == Init => Visible
BY HeldInit, ConstructedInit, SilentInit, ReachableInit DEF Visible

LEMMA InitView ==
    ASSUME Init, NEW p \in Peers
    PROVE  View(p)!Init
<1>1. \A q \in Peers \ {p} : /\ Seen(initiated[p][q]) = "none"
                             /\ Seen(received[p][q]) = "none"
  BY DEF Init, Seen
<1>2. Calling(p) = {}
  BY DEF Init, Calling, Pending
<1>3. disposed[p] = "no"
  BY DEF Init
<1> QED
  BY <1>1, <1>2, <1>3 DEF View!Init, Calling

(* Every mesh keeps the contract with its transport that MeshView states,  *)
(* whatever the other peers, the BFF and the browser do, ...               *)
THEOREM MeshImplementsView ==
    ASSUME NEW p \in Peers
    PROVE  Spec => View(p)!Spec
<1>1. Init => View(p)!Init
  BY InitView
<1>2. Visible /\ [Next]_vars => [View(p)!Next]_(View(p)!vars)
  BY NextView
<1> QED
  BY <1>1, <1>2, VisibleInit, VisibleNext, PTL DEF Spec, View!Spec

(* ... and all of them keep it in every step together, which is the form   *)
(* that a run checks.                                                      *)
THEOREM MeshKeepsContract == Spec => ImplementsView
<1>1. Init => \A p \in Peers : View(p)!Init
  BY InitView
<1>2. Visible /\ [Next]_vars
         => [\A p \in Peers : UNCHANGED View(p)!vars \/ View(p)!Next]_vars
  BY NextView
<1> QED
  BY <1>1, <1>2, VisibleInit, VisibleNext, PTL DEF Spec, ImplementsView

=============================================================================
