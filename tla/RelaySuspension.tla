--------------------------- MODULE RelaySuspension --------------------------
(***************************************************************************)
(* When a peer asks another one to stop relaying a source to it:           *)
(* knownPeers[src].reachableThrough, requestRelaySuspension and            *)
(* consolidateSuspensionRequest of src/p2p/PeerToPeerTransport.ts, added   *)
(* to the steps of Routing.                                                *)
(*                                                                         *)
(* A peer that receives a packet again, or too late, finds the relay it    *)
(* came from superfluous for that source.  It collects such sources and    *)
(* asks the relay, at most once per interval, to suspend them.  The peer   *)
(* and the relay each keep a book of what is suspended until when.         *)
(***************************************************************************)
EXTENDS Routing

CONSTANTS
    Interval,            \* relaySuspensionInterval
    RelayExpire,         \* KNOWN_PEER_RELAY_EXPIRE_TIME
    RequestExpiration    \* expiration time of a suspendRelay packet

ASSUME SuspensionAssumption ==
    /\ Interval \in Nat
    /\ RelayExpire \in Nat
    /\ RequestExpiration \in Nat

VARIABLES
    reach,     \* reachableThrough: when p last got a packet of src from q
    pending,   \* pendingSuspensionRequests of p for the relay q
    theirs,    \* theirSuspendedRelays: until when p counts q as suspended
    asked,     \* lastRelaySuspensionTimestamp of p for the relay q
    requests   \* the suspendRelay packets in flight from p to q

books == <<pending, theirs, asked, requests>>
relayVars == <<vars, reach, books>>

Requests == [sources : SUBSET Peers, ts : Nat]

-----------------------------------------------------------------------------

(* p counts q as suspended for src, or is about to ask for it.             *)
IsRelayFromConnectionSuspended(p, q, src) ==
    \/ src \in pending[p][q]
    \/ theirs[p][q][src] # None /\ Clock(p) < theirs[p][q][src]

(* The neighbours p counts on for packets of src.                          *)
ReachableThrough(p, src) ==
    {q \in Peers :
        /\ mesh[p][q] > 0
        /\ reach[p][src][q] # None /\ Clock(p) - reach[p][src][q] < RelayExpire
        /\ ~IsRelayFromConnectionSuspended(p, q, src)}

(* Mutated: the relay itself counts as the path that is left.              *)
ConsolidateLast(p, q, src) ==
    IF ReachableThrough(p, src) # {} THEN pending[p][q] \cup {src} ELSE pending[p][q]

(* consolidateSuspensionRequest.  (Whether q itself is in the list makes   *)
(* no difference to the test of its length.)                               *)
Consolidate(p, q, src) ==
    IF ReachableThrough(p, src) \ {q} # {}
    THEN pending[p][q] \cup {src} ELSE pending[p][q]

(* Mutated: pendingSuspensionRequests is cleared before it is sent.        *)
RequestRelaySuspensionCleared(p, q, src) ==
    LET wanted == Consolidate(p, q, src)
        due == asked[p][q] # None /\ Clock(p) - asked[p][q] > Interval
    IN
    /\ asked' = [asked EXCEPT ![p][q] = IF @ = None \/ due THEN Clock(p) ELSE @]
    /\ pending' = [pending EXCEPT ![p][q] = IF due THEN {} ELSE wanted]
    /\ theirs' = IF due
                 THEN [theirs EXCEPT ![p][q] =
                         [s \in Peers |-> IF s \in wanted
                              THEN Clock(p) + SuspensionDuration ELSE @[s]]]
                 ELSE theirs
    /\ \E closed \in SUBSET MayBeClosed(p) :
          requests' = IF due /\ mesh[p][q] > 0 /\ q \notin closed
                      THEN [requests EXCEPT ![p][q] =
                              Append(@, [sources |-> {}, ts |-> Clock(p)])]
                      ELSE requests

(* requestRelaySuspension: the first time nothing is asked; later, when    *)
(* the interval has passed, all that is pending, be it nothing.  The       *)
(* suspension is entered in the book of p whether it could be sent or not. *)
RequestRelaySuspension(p, q, src) ==
    LET wanted == Consolidate(p, q, src)
        due == asked[p][q] # None /\ Clock(p) - asked[p][q] > Interval
    IN
    /\ asked' = [asked EXCEPT ![p][q] = IF @ = None \/ due THEN Clock(p) ELSE @]
    /\ pending' = [pending EXCEPT ![p][q] = IF due THEN {} ELSE wanted]
    /\ theirs' = IF due
                 THEN [theirs EXCEPT ![p][q] =
                         [s \in Peers |-> IF s \in wanted
                              THEN Clock(p) + SuspensionDuration ELSE @[s]]]
                 ELSE theirs
    /\ \E closed \in SUBSET MayBeClosed(p) :
          requests' = IF due /\ mesh[p][q] > 0 /\ q \notin closed
                      THEN [requests EXCEPT ![p][q] =
                              Append(@, [sources |-> wanted, ts |-> Clock(p)])]
                      ELSE requests

-----------------------------------------------------------------------------

SuspensionInit ==
    /\ Init
    /\ reach = [p \in Peers |-> [src \in Peers |-> [q \in Peers |-> None]]]
    /\ pending = [p \in Peers |-> [q \in Peers |-> {}]]
    /\ theirs = [p \in Peers |-> [q \in Peers |-> [src \in Peers |-> None]]]
    /\ asked = [p \in Peers |-> [q \in Peers |-> None]]
    /\ requests = [p \in Peers |-> [q \in Peers |-> << >>]]

Heard(p, q, src) == reach' = [reach EXCEPT ![p][src][q] = Clock(p)]

(* handlePeerPacket for a new packet.                                      *)
ReceiveNew(p, q) ==
    /\ Process(p, q)
    /\ Heard(p, q, Head(chan[q][p]).key.src)
    /\ UNCHANGED books

(* handlePeerPacket for a packet that is discarded: unless it came from    *)
(* its source, a peer with a relaySuspensionConfig finds the relay         *)
(* superfluous.                                                            *)
ReceiveAgain(p, q) ==
    LET src == Head(chan[q][p]).key.src IN
    /\ Discard(p, q)
    /\ Heard(p, q, src)
    /\ IF q # src /\ <<"suspend", p>> \in Env
       THEN RequestRelaySuspension(p, q, src) ELSE UNCHANGED books

(* Mutated: what one connection asks for is suspended for all of them.     *)
GrantedForAll(p, q, sources) ==
    [suspended EXCEPT ![p] =
        [r \in Peers |-> [src \in Peers |->
            IF src \in sources
            THEN Clock(p) + SuspensionDuration ELSE @[r][src]]]]

(* p grants a request: what it asks for is suspended for q.                *)
Granted(p, q, sources) ==
    [suspended EXCEPT ![p][q] =
        [src \in Peers |-> IF src \in sources
                          THEN Clock(p) + SuspensionDuration ELSE @[src]]]

(* Mutated: a request is granted however old it is.                        *)
HandleRequestLate(p, q) ==
    LET request == Head(requests[q][p]) IN
    /\ requests[q][p] # << >> /\ ~disposed[p]
    /\ requests' = [requests EXCEPT ![q][p] = Tail(@)]
    /\ Heard(p, q, q)
    /\ \E entry \in BOOLEAN :
          /\ mesh[p][q] > 0 => entry
          /\ suspended' = IF entry THEN Granted(p, q, request.sources) ELSE suspended
    /\ UNCHANGED <<now, mesh, chan, sent, seen, last, disposed, count>>
    /\ UNCHANGED <<pending, theirs, asked>>

(* A suspendRelay packet of q arrives at p, which grants it if it is not   *)
(* too old and p has a connection with q in its maps: an entry there may   *)
(* be one that is not up, or no more.                                      *)
HandleRequest(p, q) ==
    LET request == Head(requests[q][p]) IN
    /\ requests[q][p] # << >> /\ ~disposed[p]
    /\ requests' = [requests EXCEPT ![q][p] = Tail(@)]
    /\ Heard(p, q, q)
    /\ \E entry \in BOOLEAN :
          /\ mesh[p][q] > 0 => entry
          /\ suspended' =
                IF Clock(p) - request.ts <= RequestExpiration /\ entry
                THEN Granted(p, q, request.sources) ELSE suspended
    /\ UNCHANGED <<now, mesh, chan, sent, seen, last, disposed, count>>
    /\ UNCHANGED <<pending, theirs, asked>>

(* The channel breaks with the connection.                                 *)
LoseRequests(p, q) == requests' = [requests EXCEPT ![q][p] = << >>]

SuspensionBreak(p, q) ==
    /\ Break(p, q)
    /\ LoseRequests(p, q)
    /\ UNCHANGED <<reach, pending, theirs, asked>>

ForgetRelay(p, q) ==
    /\ LoseRequests(p, q)
    /\ pending' = [pending EXCEPT ![p][q] = {}]
    /\ theirs' = [theirs EXCEPT ![p][q] = [src \in Peers |-> None]]
    /\ asked' = [asked EXCEPT ![p][q] = None]

SuspensionDrop(p, q) == Drop(p, q) /\ ForgetRelay(p, q) /\ UNCHANGED reach

SuspensionPeerLeft(p, q) ==
    /\ PeerLeft(p, q)
    /\ ForgetRelay(p, q)
    /\ reach' = [reach EXCEPT ![p][q] = [r \in Peers |-> None]]

(* The steps of Routing that have nothing to do with relays.               *)
Unrelated(p) ==
    /\ \/ \E reliable \in BOOLEAN : Send(p, reliable)
       \/ Expire(p) \/ Dispose(p)
       \/ \E q \in Peers : Link(p, q)
    /\ UNCHANGED <<reach, books>>

SuspensionNext ==
    \/ Tick /\ UNCHANGED <<reach, books>>
    \/ \E p \in Peers :
          \/ Unrelated(p)
          \/ \E q \in Peers :
                \/ ReceiveNew(p, q) \/ ReceiveAgain(p, q) \/ HandleRequest(p, q)
                \/ SuspensionBreak(p, q) \/ SuspensionDrop(p, q)
                \/ SuspensionPeerLeft(p, q)

SuspensionSpec == SuspensionInit /\ [][SuspensionNext]_relayVars

(* Data channels deliver.                                                  *)
FairSuspensionSpec ==
    /\ SuspensionSpec
    /\ \A p, q \in Peers : WF_relayVars(ReceiveNew(p, q) \/ ReceiveAgain(p, q))

-----------------------------------------------------------------------------
(* Properties                                                              *)

(* Every variable has its type.                                            *)
RelayTypeOK ==
    /\ TypeOK
    /\ reach \in [Peers -> [Peers -> [Peers -> Nat \cup {None}]]]
    /\ pending \in [Peers -> [Peers -> SUBSET Peers]]
    /\ theirs \in [Peers -> [Peers -> [Peers -> Nat \cup {None}]]]
    /\ asked \in [Peers -> [Peers -> Nat \cup {None}]]
    /\ requests \in [Peers -> [Peers -> Seq(Requests)]]

(* What Routing says of requests it knows nothing about is true of these:  *)
(* a relay is only asked, by a peer that has the configuration, for        *)
(* sources whose packets it has relayed, never for its own or for the      *)
(* asker's, whatever was lost, forgotten or delayed in between.            *)
ImplementsRouting == Spec

(* The connections of p only become more, whatever those of others do.     *)
Steady(p) == <<"break", p>> \notin Env /\ <<"leave", p>> \notin Env

(* The neighbours that p ever got a packet of src from and has not         *)
(* suspended for it.                                                       *)
EverReachableThrough(p, src) ==
    {q \in Peers : /\ mesh[p][q] > 0 /\ reach[p][src][q] # None
                  /\ ~IsRelayFromConnectionSuspended(p, q, src)}

(* However the rest of the mesh changes and whatever time passes, a peer   *)
(* that keeps its own connections never suspends all the neighbours that   *)
(* brought it a source: not even with requests that were still waiting     *)
(* when others were made, or that outlive the path they were made for.     *)
NeverAllSuspended ==
    \A p, src \in Peers :
        Steady(p) /\ (\E q \in Peers : IsRelayFromConnectionSuspended(p, q, src))
            => EverReachableThrough(p, src) # {}

(* The connections of p and q with each other stay as they are, both agree *)
(* on them, and a suspension is over before a request for it is too old.   *)
Settled(p, q) ==
    /\ \A r \in {p, q} : {<<"link", r>>, <<"break", r>>, <<"leave", r>>} \cap Env = {}
    /\ \A m \in Meshes : m[p][q] > 0 <=> m[q][p] > 0
    /\ SuspensionDuration + Skew[q] - Skew[p] <= RequestExpiration

Asked(p, q, src) ==
    \E i \in 1..Len(requests[p][q]) : src \in requests[p][q][i].sources

(* The two books agree, as far as that matters to the peer: a relay that   *)
(* it counts as suspended, on a connection that stays, is, from the moment *)
(* the request arrives, and never resumes before the peer expects it to,   *)
(* however late the request.                                               *)
SuspensionHonoured ==
    \A p, q, src \in Peers :
        /\ Settled(p, q)
        /\ theirs[p][q][src] # None /\ Clock(p) < theirs[p][q][src]
        => IsRelayToConnectionSuspended(q, p, src) \/ Asked(p, q, src)

(* The other way round, whatever happens to the relay and to the           *)
(* connection: what a relay withholds from a peer that drops nobody, that  *)
(* peer has entered in its book (where expired entries stay, here), and    *)
(* the relay resumes no later than a request stays valid after that time.  *)
WithheldAsAsked ==
    \A p, q, src \in Peers :
        Steady(p) /\ suspended[q][p][src] > 0
            => /\ theirs[p][q][src] # None
               /\ suspended[q][p][src] <= theirs[p][q][src] + RequestExpiration

=============================================================================
