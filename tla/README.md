# comms3-transports in TLA+

This directory specifies the transports of `comms3-transports` (TypeScript
sources in `src/src/`) in TLA+, checks the specifications on small instances
with TLC, and proves theorems about them with TLAPS. Paths below are relative
to `src/src/`.

## 1. The system

A *transport* (`types.ts`: `MinimumTransport`) connects a client to the other
peers of its island and carries opaque messages between them, reliable or not.
There are three: peer to peer over WebRTC (the one with an algorithm), a
WebSocket server and a LiveKit room.

| component | source | state | operations |
|---|---|---|---|
| Mesh | `p2p/Mesh.ts` | `initiatedConnections`, `receivedConnections` (peer id to connection), `disposed`, three BFF listeners | `connectTo`, `disconnectFrom`, `checkConnectionsSanity`, `dispose`, handlers of offers, answers and candidates, listeners of `connectionstatechange` and of data channels, `sendPacketToPeer`, the counts and lists |
| Packet routing | `p2p/PeerToPeerTransport.ts` 258-367, 538-595, 623-664; `p2p/messageTypes.ts` | `receivedPackets`, `knownPeers[..].subtypeData`, `currentMessageId`, `peerRelayData[..].ownSuspendedRelays` | `send`, `handlePeerPacket`, `processPacket`, `sendPacket`, the expiration timer |
| Network update | `p2p/PeerToPeerTransport.ts` 99-119, 666-877 | `knownPeers` and positions, `updatingNetwork`, `updateNetworkTimeoutId` | `shouldAcceptOffer`, `triggerUpdateNetwork`, `updateNetwork`, `calculateNextNetworkOperation`, `disconnectFrom` |
| Relay suspension | `p2p/PeerToPeerTransport.ts` 319-332, 391-419, 445-536 | `peerRelayData` (own, their and pending suspensions), `reachableThrough` | `requestRelaySuspension`, `consolidateSuspensionRequest`, the expirations |
| Ping | `p2p/PeerToPeerTransport.ts` 368-390, 597-621 | `activePings` | `ping`, the ping and pong cases of `processPacket` |
| Lifecycle | `p2p/PeerToPeerTransport.ts` 84-256 | `disposed`, two listeners, two timers | constructor, `connect`, `disconnect`, `onPeerJoined`, `onPeerLeft` |
| WsTransport | `ws/WsTransport.ts` | `ws`, `aliases` | `connect`, `disconnect`, `send`, `onWsMessage` |
| LivekitTransport | `livekit/LivekitTransport.ts` | `disconnected`, the room | `connect`, `disconnect`, `send`, `handleMessage` |
| StatisticsCollector | `statistics.ts` | window and four counters | `start`, `stop`, `collectStatistics`, `onBytes*` |
| helpers | `p2p/utils.ts`, `index.ts`, `DummyTransport.ts` | none | `pickBy`, `discretizedPositionDistanceXZ`, `createTransport` |

How they interact. `P2PTransport` owns one `Mesh`. It calls `connectTo`,
`disconnectFrom`, `checkConnectionsSanity` and `dispose`; the mesh calls back
`shouldAcceptOffer` for an offer and `packetHandler` for a packet. Two meshes
talk through the BFF, which carries offers, answers and ICE candidates as topic
messages and loses or reorders them, and through the data channels of the
connections they set up. The routing floods packets over those channels. The
network update decides which connections to make and drop. Everything in one
client runs on one thread, cut at `await`s; the clients run concurrently.

What is hard. A function suspended at an `await` does not see what handlers do
meanwhile (`connectTo` publishes its offer before its connection is in the map).
Connections are made by two peers from opposite ends, with messages lost, late
and crossing. Listeners outlive the map entries they were made for. Copies of a
packet take several paths and arrive late and out of order, while the memory of
what was received is forgotten by a timer. Peers ask each other to stop relaying,
each from what it has seen itself. Sockets and rooms go on dispatching events
after they were given up, and `connect` and `disconnect` overlap. `PROJECT.json` lists these hazards
line by line.

What makes each component correct:

- *Mesh*: a connection joins two matching ends; what is in the maps is usable,
  and what is open is in the maps, but for received instances that were
  overwritten; what does not work is discarded in the end; after `dispose`
  nothing that the maps held is connected (an overwritten instance is in no map,
  and nothing closes it).
- *Routing*: a message is emitted at most once where clocks agree, never out of
  order when unreliable, by everybody when the mesh holds; packets do not circle.
- *Network update*: it connects only to peers that are known and in reach, one
  call at a time and none once `disconnect` has emptied `knownPeers`; offers of
  unknown peers lead to nothing; an update ends, having dropped the worst of too
  many connections.
- *Relay suspension*: a peer never suspends all that brought it a source, relays
  do what they were asked and no more, and no message is doubled by it.
- *Lifecycle, WsTransport, LivekitTransport*: promises settle, `DISCONNECTION`
  is emitted once, no message is emitted after it (a `PEER_DISCONNECTED` of a
  listener that was registered late may be), a message names its sender, and no
  socket, timer or listener is left behind.

## 2. Modules

| module | what it is |
|---|---|
| `Mesh` | `p2p/Mesh.ts`: all peers' meshes, the BFF and the RTCPeerConnections |
| `MeshView` | the abstract specification: what one transport sees of its mesh, which `Mesh` and `NetworkUpdate` both keep to |
| `MCMesh` | instances of `Mesh` and the property of one finding |
| `MeshProofs` | theorems about `Mesh` |
| `Routing` | the routing of reliable and unreliable messages by all peers |
| `Broadcast` | the abstract specification: what reliable messages promise |
| `MCRouting` | instances of `Routing` and the properties of two findings |
| `RoutingProofs` | theorems about `Routing`, the refinement of `Broadcast` among them |
| `RelaySuspension` | extends `Routing`: when relays are asked to suspend a source |
| `MCRelaySuspension`, `MCMeshes` | instances of both, and the property of one finding |
| `RelaySuspensionProofs` | theorems about `RelaySuspension`, the refinement of `Routing` among them |
| `SpreadProofs` | theorems about how messages spread in `Routing` and `RelaySuspension` |
| `NetworkUpdate` | the network update of one transport: which connections it makes and drops |
| `MCNetworkUpdate` | instances of `NetworkUpdate` and the property of one finding |
| `NetworkUpdateProofs` | theorems about `NetworkUpdate` |
| `Transport` | the abstract specification: what the events of any transport promise |
| `WsTransport` | `ws/WsTransport.ts`, its sockets and their server |
| `LivekitTransport` | `livekit/LivekitTransport.ts` and its room |
| `P2PLifecycle` | `connect` and `disconnect` of `P2PTransport` and its mesh, and the timers |
| `Transports` | `index.ts`: one of the three, shown to keep the promise of `Transport` |
| `MCTransports` | the instance of `Transports` |
| `TransportsProofs` | theorems about `Transports` |

In all of them an operator marked *Mutated* is a plausible slip in the
definition that follows it. It is used by no specification; `PROJECT.json` says
which property notices it.

### Mesh

`initiated` and `received` are the two maps of every peer. A connection is an
`RTCPeerConnection` instance: a record of who constructed it, for whom, in which
role, and a number. Its connection state, the instance whose description it
took, and whether it has a candidate and an open data channel are variables.
`job[c]` says at which `await` the function that works on `c` is suspended:

| code | actions |
|---|---|
| `connectTo` up to `await createOffer` (62-99) | `ConnectTo` |
| ... up to `await publishToTopic` (99-106) | `OfferCreated` |
| ... to the end (106-109) | `ConnectToDone`, which alone puts `c` in the map |
| a rejection in between | `ConnectToFails` |
| `onOfferMessage` up to its first `await` | `OnOfferYield`, `OnOfferAccept`, `OnOfferRefuse` |
| ... after it, or its `catch` | `AnswerCreated`, `AnswerFails` |
| `onAnswerListener`, `onCandidateMessage` | `OnAnswer`, `OnCandidate` |
| `disconnectFrom`, `checkConnectionsSanity` | actions of that name |
| `dispose` before and after its awaits | `Dispose`, `DisposeDone` |
| the `connectionstatechange` listeners | part of `Failed` |
| the data channel listeners | `DataChannelOpen` |

`createOffer` and `setLocalDescription` are one await in the model: nothing
outside the instance can tell the moments between them apart. Listeners of the
BFF are removed one after the other in `dispose`; since every handler starts
with a check of `disposed`, which is set first, one step stands for the three.
An instance's candidates are one message. `RTCPeerConnection` is modelled from
what its specification lets happen to the code: two instances that hold each
other's description and a candidate may connect; an instance whose other end is
gone may, and under fairness will, become `disconnected` or `failed`; `close()`
fires no event.

The caller of the mesh is arbitrary: it calls `connectTo` and `disconnectFrom`
for any peer at any time, and accepts or refuses any offer. So whatever is shown
here does not depend on the network update. The one thing a property assumes of
it, that `connectTo` calls for a peer do not overlap, is `OneCallPerPeer` of
`NetworkUpdate`, which holds until `Promise.all` first rejects.

### MeshView

The seam between `Mesh` and `NetworkUpdate`. Its state is what
`hasConnectionsFor`, `isConnectedTo` and the counts can tell one transport: for
each map and each other peer no entry, one that is `"trying"` or one that is
`"up"`; the peers for which `connectTo` is pending; and how far `dispose` is.
`Turn` is what the transport may do up to its next await, the other actions are
what its mesh may do. `Mesh` implements it for every peer (`View(p)`, with the
states of instances behind `Seen`), called by anybody; `NetworkUpdate` implements
it with the mesh it leaves free. So `NetworkUpdate` assumes of its mesh what
`Mesh` is shown to give: that a call may still leave an entry in a mesh that is
disposed, but that no connection comes up there; that an entry may go while it is
up, because another instance failed; that crossing offers cost the smaller id its
own. `Overlap`
says whether calls for one peer may overlap, which they do only once `Promise.all`
has rejected.

### Routing

`chan[p][q]` holds the packets in flight on the link from `p` to `q`, in order.
`mesh[p][q]` is how often `fullyConnectedPeerIds` of `p` lists `q`: twice when
an initiated and a received connection are both up, and then `sendPacket` sends
two copies. `seen`, `last` and `suspended` are `receivedPackets`, `subtypeData`
and `ownSuspendedRelays`. All the functions involved are synchronous, so `Send`,
`Process`, `Discard` and `Expire` are each a whole handler, the relaying
included. Each peer reads its own clock: `Clock(p) == now + Skew[p]`. Fields of
a packet that no relay changes (timestamp, type) are looked up in `sent`.

`Link`, `Break`, `Drop`, `PeerLeft`, `Suspend` and `Dispose` are what the rest of
the transport does to the routing, at any time. `Break` is a connection that
fails; `Drop` is `disconnectFrom` of the network update, which also deletes
`peerRelayData`. `Suspend` lets any peer ask, for any sources the peer has
relayed. `sendPacketToPeer` drops a packet silently when the data channel it
chooses is not open (`Mesh.ts` 205-217): the targets it cannot serve are any
subset of `MayBeClosed`, the neighbours whose connection with the peer is new at
its end or going away at the other. They are named in `receivedBy` of an
optimistic packet all the same. Where a connection lasts (`Lasting`) the channel is
open. A packet of an unlinked peer is lost; the order within a link is kept,
as an ordered data channel does. `Env` is a set of pairs: which events may happen
to which peers.

`count` is history: how often a peer emitted a message. The refinement maps
`Broadcast`'s `published` to the reliable packets sent, `emitted` to `count`, and
`Limit`, how often a peer may emit a message of a source, to `Emissions`. An age is
the difference of two clocks: a receiver accepts copies until its clock is
`ReliableExpiration` past the timestamp, and `receivedPackets` forgets one
`ReliableExpiration + 1` after it was stored, so `Emissions` counts how many such
spans fit into the time in which copies are accepted. It is 1 for a receiver whose
clock is not behind the sender's, and 2 for one that is behind by 1 to
`ReliableExpiration + 1`.

### RelaySuspension

It adds to `Routing` the variables `reach` (`reachableThrough`), `pending`,
`theirs` and `asked` (a peer's `pendingSuspensionRequests`, `theirSuspendedRelays`
and `lastRelaySuspensionTimestamp` for a relay) and `requests`, the `suspendRelay`
packets in flight; `suspended` of `Routing` is `ownSuspendedRelays`.

| code | actions |
|---|---|
| `handlePeerPacket` for a new packet | `ReceiveNew`: `Process`, and `reachableThrough` (287-291) |
| ... for one that is discarded (317-331) | `ReceiveAgain`: `Discard`, `reachableThrough`, and `requestRelaySuspension` unless it came from its source |
| `requestRelaySuspension`, `consolidateSuspensionRequest` (445-522) | the operators `RequestRelaySuspension`, `Consolidate` |
| the `suspendRelayData` case (391-399) | `HandleRequest`, with `Granted` |
| `disconnectFrom`, `onPeerLeft` | `SuspensionDrop`, `SuspensionPeerLeft` |

Only peers with `"suspend"` in `Env` have a `relaySuspensionConfig`. An expired
entry of a book or of `reachableThrough` is ignored wherever it is read, by the
same comparison that `expirePeerRelayData` and `expireKnownPeers` delete it by
(403-430), so deleting it changes nothing and is no action; it stays in the model,
where `WithheldAsAsked` and `NeverAllSuspended` refer to it. A request has
`ttl` 1 and is handled by the neighbour alone, if `hasConnectionsFor` finds an entry
of it in either map, be it of a connection that is not up (393): `mesh` does not
see those, so without a connection `HandleRequest` leaves it open (`entry`). A
request that could not be sent, because the channel was not open, is entered in
the book like any other; it travels in a channel of its
own, so that it may also be overtaken by packets. Since every step is a step of
`Routing` (`ImplementsRouting`), whatever is shown of `Routing` holds here.

### NetworkUpdate

One transport and what it sees: the keys of `knownPeers` and the `distance` of
each (`None` when a position is missing), and the two maps of its mesh, an entry
of which is `"trying"` or `"up"`. `phase` and `awaited` say where `updateNetwork`
is; `calls[q]` counts the `connectTo` calls for `q` that have not settled,
whoever still awaits them.

| code | actions |
|---|---|
| `triggerUpdateNetwork` (666-683), `onPeerJoined`, `onPeerLeft` up to `await Promise.all` (697-737) | `Trigger`, `PeerJoined`, `PeerLeft`, each with `UpdateNetwork` |
| the candidates (740-747) | `Collect` |
| `calculateNextNetworkOperation` and `await operation()`, for each thing it may decide | `DropExcess`, `ConnectBetter`, `DropFar`, `Finish` |
| `connectTo` settles, and with it `Promise.all` or the operation | `CallDone`, `CallFails` |
| `shouldAcceptOffer` with `onOfferMessage` | `Offer` |
| `handlePeerPacket` (285) | `Hear` |
| `onPeerPositionChange`, or the own position | `Move` |
| `disconnect` up to, between and after its awaits | `Disconnect`, `Forget`, `Disposed` |
| connections come up and break | `Connect`, `Break` |

While an update awaits nothing but settled promises it runs on in microtasks,
before any timer or event of the client: this is `Busy`, which disables every
other action. An operation is therefore decided and carried out in one step.
The candidates are spliced from the array that the next iteration uses, so the
best one is gone from it whether or not it was better (`NoneBetter`).
`WorstDistances` is a set: `getWorstConnectedPeerByDistance` starts over at every
peer without a distance, and the order of the maps is not modelled. The BFF, the
other ends and time are free; in particular an entry may come up, break, or be
old enough for the sanity check at any time. `disconnect` is that of a transport
whose `connect` has finished. Once this peer has a position it keeps one.

### Transport, WsTransport, LivekitTransport, P2PLifecycle, Transports

`Transport` has three variables: whether a session lasts, how many
`DISCONNECTION` and how many `message` events were emitted. `Begin`, `Message`
and `End` are its only steps. `Transports` holds the variables of all three
kinds; `kind` says which one `createTransport` made, and only that one moves. Its
refinement mapping (`Session`) says when a session lasts: while `WsTransport` has
a socket; for the others until the end was announced, since they emit
`DISCONNECTION` also when they never were connected.

*WsTransport.* A socket is a number; `connect` opens the next one. `socket[s]` is
its state, `handlers[s]` which of `onmessage`, `onerror` and `onclose` are set
(`disconnect` clears them; `onopen` stays and resolves the promise). A socket that
is closed from this end goes on dispatching until it is closed. The server is
external: it welcomes a client with everybody in the room, announces who enters,
assigns an alias again once it is free, and never sends an update from an alias
it has not announced. `emitted` remembers the address of the last `message`
event and, as history, whose message it was.

*LivekitTransport.* The room may drop, reject, and emit `Disconnected` by itself
or when it is told to disconnect, at once (while `disconnect` runs) or later.

*P2PLifecycle.* `adding[c]` is how far the call `c` of `connect` has come with its
five listeners, three of them those of the mesh; `removing` how far `disconnect`
is, in its own order. `listener` is what the fields hold, the handle of the call
that set them last; `listening` what is registered at the BFF, which answers or
rejects each request. `late` is history: the listeners that were registered when
`disconnect` was past their place, which the code cannot remove. What the
listeners do is left to `Mesh`, `Routing` and `NetworkUpdate`, except that they
may schedule an update. `onPeerLeft` also emits `PEER_DISCONNECTED` (215), which
is left out: `Transport` speaks of `message` and `DISCONNECTION` only.

## 3. What TLC checks

| run | instance | shows |
|---|---|---|
| `mesh_retry` | peer 1 connects to 2, two instances at each end; disconnects, rejections, refusals, losses | `TypeOK`, `ConnectedAcross`, `InitiatedNeverLeaks`, `LeakHasCause` |
| `mesh_cross` | both connect to each other, one instance per role and end; ICE failures, dispose | `DisposedIsSilent`, `ImplementsView` of both meshes |
| `mesh_live` | two offers, one answer; overlapping calls, rejections, timeouts, disconnects; fair | `TrackedOpen`, `DeadDiscarded`, `GoneForgotten` |
| `mesh_glare` | both connect, nothing fails | `GlareResolved` is violated |
| `routing_spread` | 4 peers; path, square, triangle with a tail, two of them with a doubled link; two messages, two moments; everybody asks for suspensions; fair | `RelayTypeOK`, `PathsAreSimple`, `NeverAllSuspended`, `SuspensionHonoured`, `NobodySkipped`, `NeverBackInTime`, `ImplementsBroadcast`, `EveryoneReached` |
| `routing_env` | 3 peers, one message, three moments, one clock behind the sender's; links, breaks, drops, departures, closed data channels, disposal and suspensions | `ReliableAtMostOnce`, `NeverAllSuspended`, `WithheldAsAsked`, `ImplementsRouting`, `ImplementsBroadcast` |
| `routing_twice` | square, one message | `UnreliableAtMostOnce` is violated |
| `routing_subtype` | triangle, two messages | `OutdatedByItsType` is violated |
| `suspension_lost` | a triangle that the source reaches over one corner, two messages | `PathRemains` is violated |
| `update` | two other peers, target and maximum 2, distances in reach, at its edge and beyond; every event; fair | `TypeOK`, `ReceivedAreKnown`, `OneCallPerPeer`, `ConnectsInReach`, `SilentAfterDispose`, `Descends`, `ImplementsView`, `UpdateEnds` |
| `update_spin` | target and maximum 1; offers and `disconnect` only | `ExcessDiscarded` is violated |
| `transports` | each kind; two sockets, two users that share one alias, a LiveKit room, two calls of `connect` that overlap `disconnect`; fair | `TypeOK`, `OneSocket`, `Attribution`, `OwnSession`, `TimersStopped`, `ListenersRemoved`, `ImplementsTransport`, `ConnectSettles`, `EndAnnounced` |

**Bounds.** `Conns` bounds how many instances are constructed: two at each end
are enough for an entry to be overwritten, for an answer to reach a later
instance than it was made for, and for offers to cross, which are the ways the
maps and the instances can disagree. Two peers are enough, because a mesh treats
every remote peer separately. `MaxSeq` and `MaxNow` bound how many packets are
sent and how often time advances; with an expiration of one unit, two ticks let
an entry of `receivedPackets` go stale and late copies arrive, and two packets
are enough for one to overtake the other. Four peers give paths of different
length (square), a cycle with a tail and a doubled link. `Env` says which events
of the environment a run includes, in `Routing` with the peer it may happen to;
between them the runs include all:

| event | run |
|---|---|
| `disconnect` | `mesh_retry`, `mesh_live` |
| `reject` | `mesh_retry`, `mesh_live` |
| `refuse`, `lose` | `mesh_retry` |
| `ice`, `dispose` (mesh) | `mesh_cross` |
| `overlap`, `timeout` | `mesh_live` |
| `link`, `break`, `dispose`, `leave` (peer 2), `suspend` (all) | `routing_env` |
| `suspend` alone | `routing_spread`, `suspension_lost` |
| `leave`, `relay`, `offer`, `down`, `reject`, `disconnect` (update) | `update` |

`Interval` is 0 and `SuspensionDuration` 1: a peer that finds a relay superfluous
at one moment asks at the next. In `routing_spread` time advances once, so that a
suspension outlasts the run, no request is late and no entry of `receivedPackets`
goes stale; those happen in `routing_env`, where time advances twice and everything
happens to peer 2, while peers 1 and 3 keep their own connections, so that
`NeverAllSuspended` and `WithheldAsAsked` say something of them. There suspensions
end, a request that waited is too old at peer 1 (`RequestExpiration` is 1), and a
path ages (`RelayExpire` is 2). The clock of peer 3 is one unit behind the
sender's, so that it accepts copies for two units and may emit the message twice,
which `Emissions` allows and `ReliableAtMostOnce` excepts; the others may not. In
the triangle of `routing_env` a peer has one relay besides the source; requests for
several relays compete in the square of `routing_spread`.

In `transports` two sockets are the old and the new one of a transport that is
connected again. With one alias and two users the alias is assigned to a second
user on the same socket and on the next; three packets hold the welcome, one
entrance and one update. Two calls of `connect` are enough for one to replace the
handle of the other while `disconnect` is at any of the five places. `MaxData` and
`MaxPackets` bound the messages of the other kinds; `Message` steps differ only in
their count.

In `update` two peers, one with a smaller and one with a larger id, can have four
connections, two more than the maximum, so that the excess is dropped. `MaxCalls`
bounds the calls for one peer that overlap once `Promise.all` has rejected; a
rejection that would leave room for more is not taken.

The theorems below show most of these properties without any bound. The runs do
not check for deadlock: a mesh whose instances are used up, a set of peers that
have sent everything, or a transport that is disconnected, rightly stops.

**Fairness.** `Mesh!Fairness` assumes that the transport keeps calling
`checkConnectionsSanity` (`scheduleUpdateNetwork` re-arms its timer on every
trigger, `PeerToPeerTransport.ts` 666-683; the call is the first thing an update
does), that `PEER_CONNECT_TIMEOUT` passes for every tracked instance, that the
BFF answers the removal of listeners, and that ICE notices an end that is gone.
Nothing is assumed of signalling, of the caller or of connections coming up.
The code does not call `checkConnectionsSanity` while an update is suspended:
a `connectTo` that never settles would stop it (section 6).
`RelaySuspension!FairSuspensionSpec` assumes that data channels deliver packets
(of requests it assumes nothing). `NetworkUpdate!FairSpec` assumes that microtasks
run (`Collect`, `Operation`) and that every `connectTo` settles, which
the browser and the BFF's socket owe; without that an update hangs, and with it
the sanity check. `Transports!FairSpec` assumes that a socket that is opening or
closing gets there or fails, that the room dispatches its events, and that the
BFF settles the removal of a listener, one way or the other.

## 4. Findings

1. *Offers that cross are both lost* (`mesh_glare`). Both sides log that one of
   the two connections is kept (`Mesh.ts` 314, 319), but the peer with the
   smaller id closes its own and returns without answering the other. Both then
   wait for the timeout of the sanity check and try again.
2. *Unreliable messages are emitted twice* (`routing_twice`). The comment at
   `PeerToPeerTransport.ts` 305-306 says "same or older packages will be
   instantly discarded", but only strictly older ones are.
3. *A reliable message can discard an unreliable one* (`routing_subtype`). The
   key of `subtypeData` is the name of the message type, which must be unique
   (`messageTypes.ts` 32) and which `send` shares between both types.
4. *Suspensions can leave no path* (`suspension_lost`). "We only suspend if we
   will have at least 1 path of connection for this peer after suspensions"
   (`PeerToPeerTransport.ts` 515). What a peer counts is a neighbour it received
   packets from; that neighbour may have them from the very relay that is asked
   to stop, and may ask it to stop as well, because of this peer. Until the
   suspensions expire neither of them gets anything from the source. `NeverAllSuspended`
   shows what does hold, each peer's own view.
5. *An update can spin forever* (`update_spin`). Above the maximum "we discard
   the worst" (`PeerToPeerTransport.ts` 793), but only among `knownPeers`, which
   `disconnect` empties (253). When an update was suspended at that time and more
   offers than the maximum were accepted before (`shouldAcceptOffer` counts only
   those that are up, 111), their connections can come up until `mesh.dispose`
   closes them: the update resumes, its operation drops nobody and is repeated
   in microtasks, and the client hangs. `UpdateEnds` shows that such a state,
   too many connections and none with a known peer, is the only way for an
   update not to end in the instance checked.

Two more that no run stands for. An age is a difference of two peers' clocks
(294), although `messageTypes.ts` 19-20 speaks of the known peer's timestamp
only: a receiver whose clock is behind the sender's may emit a message twice,
when a copy comes more than an expiration time after the first one. `Emissions` says
how often, and the theorems show that it is never more. And the field
`error` of `DisconnectionEvent`, which "signals if the disconnection was caused by
an error" (`types.ts` 31-35), is never set, whatever ended a session.

## 5. What TLAPS proves

For every set of peers, of instances and of environment events, every mesh and
every expiration time:

| theorem | property | beyond the module's own assumptions |
|---|---|---|
| `MeshProofs!TypeCorrect` | `TypeOK` | |
| `MeshProofs!TrackedOpenCorrect` | `TrackedOpen` | |
| `MeshProofs!ConnectedAcrossCorrect` | `ConnectedAcross` | |
| `MeshProofs!DisposedIsSilentCorrect` | `DisposedIsSilent` | |
| `MeshProofs!InitiatedNeverLeaksCorrect` | `InitiatedNeverLeaks` | no overlapping `connectTo` for one peer |
| `MeshProofs!LeakHasCauseCorrect` | `LeakHasCause` | |
| `MeshProofs!MeshImplementsView` | `View(p)!Spec` for every peer | |
| `MeshProofs!MeshKeepsContract` | `ImplementsView` | |
| `RoutingProofs!TypeCorrect` | `TypeOK` | |
| `RoutingProofs!PathsCorrect` | `PathsAreSimple` | |
| `RoutingProofs!AtMostOnceCorrect` | `ReliableAtMostOnce` | |
| `RoutingProofs!NeverBackCorrect` | `NeverBackInTime` | no peer is told that another left |
| `RoutingProofs!LimitedCorrect` | `Limited`: no more emissions than the clocks allow | |
| `RoutingProofs!BroadcastCorrect` | `ImplementsBroadcast` | |
| `SpreadProofs!NobodySkippedCorrect` | `NobodySkipped` | `Ttl` no less than the number of peers less one |
| `SpreadProofs!ReachedCorrect` | `ReachedWhenSettled` | the same |
| `RelaySuspensionProofs!RelayTypeCorrect` | `RelayTypeOK` | |
| `RelaySuspensionProofs!RoutingImplemented` | `ImplementsRouting` | |
| `RelaySuspensionProofs!PathsCorrectRelayed` | `PathsAreSimple` | |
| `RelaySuspensionProofs!AtMostOnceRelayed` | `ReliableAtMostOnce` | |
| `RelaySuspensionProofs!BroadcastRelayed` | `ImplementsBroadcast` | |
| `RelaySuspensionProofs!NeverBackRelayed` | `NeverBackInTime` | no peer is told that another left |
| `SpreadProofs!NobodySkippedRelayed` | `NobodySkipped` | `Ttl` no less than the number of peers less one |
| `SpreadProofs!ReachedRelayed` | `ReachedWhenSettled` | the same |
| `RelaySuspensionProofs!NeverAllSuspendedCorrect` | `NeverAllSuspended` | |
| `RelaySuspensionProofs!SuspensionHonouredCorrect` | `SuspensionHonoured` | |
| `RelaySuspensionProofs!WithheldAsAskedCorrect` | `WithheldAsAsked` | |
| `NetworkUpdateProofs!TypeCorrect` | `TypeOK` | |
| `NetworkUpdateProofs!ReceivedAreKnownCorrect` | `ReceivedAreKnown` | |
| `NetworkUpdateProofs!ConnectsInReachCorrect` | `ConnectsInReach` | |
| `NetworkUpdateProofs!OneCallPerPeerCorrect` | `OneCallPerPeer` | |
| `NetworkUpdateProofs!SilentAfterDisposeCorrect` | `SilentAfterDispose` | |
| `NetworkUpdateProofs!DescendsCorrect` | `Descends` | |
| `NetworkUpdateProofs!SpinsForever` | a loop that spins is never left | |
| `NetworkUpdateProofs!NetworkUpdateKeepsContract` | `ImplementsView` | |
| `TransportsProofs!TypeCorrect` | `TypeOK` | |
| `TransportsProofs!OneSocketCorrect` | `OneSocket` | |
| `TransportsProofs!AttributionCorrect` | `Attribution` | |
| `TransportsProofs!OwnSessionCorrect` | `OwnSession` | |
| `TransportsProofs!TimersStoppedCorrect` | `TimersStopped` | |
| `TransportsProofs!ListenersRemovedCorrect` | `ListenersRemoved` | |
| `TransportsProofs!TransportImplemented` | `ImplementsTransport` | |

**Mesh.** `TrackedOpen` is nearly inductive: it needs to know that the instance
a suspended function works on (`Suspended`) is of the right role, and that
messages in flight (`Waiting`) name instances that exist. `ConnectedAcross`
follows from `Joined`: descriptions are only ever exchanged between instances
that name each other's peers, once each, which in turn needs the invariant on
messages, `Named`. `DisposedIsSilent` needs `Silent`: what a suspended
`connectTo` will still add is new, and no handler of a disposed mesh touches it.
`InitiatedNeverLeaks` needs `Unique`: without an overlap, an open initiated
instance is either the map's or the one that is suspended, and only one such
exists for a peer. With an overlap it is false, which is the hazard at
`Mesh.ts` 108. `LeakHasCause` becomes inductive with `Constructed`: instances
for a peer are constructed in the order of their numbers, so that the one an
overwritten entry goes to is the later one, and nothing but `close()` happens to
an instance while its answer is created.

**MeshView.** The proof that `Mesh` implements it puts these invariants together
(`Visible`). Each action of `Mesh` is one of `MeshView` for the peer it happens
at, when it changes what that peer sees, and a stutter for all others. `Held`
says which entry an instance is (`EntryOf`), so that a state change is seen in one
place; `Silent` that what a disposed mesh still holds never comes up; `Constructed`
that an instance which is being answered is not up yet; and, unless calls
overlap, `Unique` that a call that settles was the only one for its peer. On the
other side `NetworkUpdate` needs that calls overlap only after a rejection, that a
disposed update connects no more, and that the maps are empty once the mesh is
disposed (`Contracted`).

**Routing.** `Flow` says of each packet in flight that its source is in
`receivedBy` and that hops are fewer than the peers in `receivedBy`
(`InFlight`), that timestamps are not ahead of the sender's clock and grow with
the sequence number (`Stamped`), and that nothing is emitted that was not sent
(`Counted`). `PathsAreSimple` is part of it. How often a reliable
message is emitted rests on `Spaced`. `Span`, which is `ReliableExpiration + 1`, is
how long an entry of `receivedPackets` keeps further copies out, after it was
stored last. So if a peer has emitted a message n times and holds no entry of it, n
spans have passed since it was sent; if it holds one, n - 1 spans had passed when
the entry was stored. A copy is only accepted while the
receiver's clock is no more than `ReliableExpiration` past the timestamp, which
bounds n by `Emissions` (`Limited`); for a receiver that is not behind the sender
that is 1. Nothing is assumed of any clock. `NeverBackInTime` rests on `Ordered`
and `Covered`: `subtypeData` is at least as new as every message emitted, which
`onPeerLeft` breaks by forgetting it. The refinement is the step-by-step
consequence: `Send` of a reliable packet publishes, `Process` of one emits, all
other steps stutter.

**Spread.** `NobodySkipped` is the safe half of `EveryoneReached`: the flood leaves
nobody out. A peer sends what it gets to each of its connections unless
`receivedBy` names the other end, the source is suspended for it, or the ttl is
used up. The first is harmless, since `receivedBy` of a reliable packet only names peers
that have the message; the second is excluded by `Open`. The ttl is only used up when
`receivedBy` names everybody, since every hop adds a peer to it and the ttl is no
less than the number of peers less one. A copy on its way is only discarded by a
peer that holds the message, as nothing has expired (`Fresh`), and only lost with
its connection (`Lasting`), whose data channel is open. `ReachedWhenSettled` follows:
the peers that hold the message are closed under connections that are open, and
`Limited` says how often they emitted it. The ttl of the code is
10, so it is proved of islands of up to eleven peers; on a longer path the ttl
does run out.

**Relay suspension.** `Relaying` adds to `Flow` the types of the books and that a
peer asks a relay only for sources whose packets it sent this way (`Carrying`,
and the same of what is pending and of the requests in flight): that is the guard
of `Suspend`, so every step is a step of `Routing`, and four theorems carry over.
`NeverAllSuspended` is inductive by itself, on every mesh: a request for one relay
leaves another that is counted, and time only makes suspensions end. It says of each
peer that keeps its own connections that one of the neighbours that ever brought it
a source is not suspended for it. It does not say that this neighbour still gets
the source (finding 4).

The two books are compared pair by pair (`Agree`), so that the theorems speak of
one connection in a mesh that changes everywhere else, for any time. `Dated`: no
request is from the future, no entry lasts longer than a duration from now.
`Entered` and `Owed` hold of a peer that keeps its connections (`Steady`): what is
in a request was entered in the asker's book for as long, and what the relay
withholds is in that book, give or take the time a request stays valid.
`WithheldAsAsked` follows, whatever the relay breaks, forgets or gets back.
`Linked` and `Promised` hold of two peers whose connection stays at both ends
(`Settled`): what the asker counts on is granted for no shorter (`Kept`, the relay
starts the duration only when the request arrives), or the request is still in
flight (`Underway`). A request that is too old to be granted breaks neither, since
the suspension it asks for is over by then (`OverWhenLate`): that is the third
conjunct of `Settled`, a duration no longer than `RequestExpiration` (10 s in the
code, the duration comes from the configuration) by the clocks of the two. It is
part of `SuspensionHonoured` since with a longer duration the property is false:
a request that came late would be counted by the one and refused by the other.

**Network update.** `Counted`, that an idle transport awaits nothing and that a
peer nobody awaits has room for a call, makes `TypeOK` inductive (`Typed`). The
three handlers that may begin an update share one description of their effect,
`Started`. `ConnectsInReach` needs no more than that: the guard that compares a
stale candidate with the worst connection fails for a peer without a distance,
and the largest distance is only one beyond reach (`Far = Reach + 1`).
`SilentAfterDispose` then follows from `Forgotten`, that there are no known peers
left. `OneCallPerPeer` is strengthened to `Single`: until `Promise.all` rejects,
the calls are exactly those awaited. `Descends` is the measure that `UpdateEnds`
lacks: each operation takes away a candidate or a connection, unless it is the one
that drops nobody, and `SpinsForever` shows that this one is never left.

**Transports.** `InUse` says that the socket in use, and no other, has handlers
and is connecting or open: `OneSocket`, `OwnSession` and the session's end follow
(`EndsHow` works out what the end of a socket does). `Attribution` needs
`Announced`: replaying the packets of the live socket on the present aliases, an
alias names the user of every update behind it, and at the end the occupant of
the server's room, so that an alias from an earlier owner or socket is always
overwritten before it is used. `P2PInv` says that the handle being removed is the
field's or was replaced by a late one; `ListenersRemoved` is then kept at each of
the two functions' steps. `TransportImplemented` counts: a step changes at most one
of the two sums, by one, and only while `Session` holds (`Maps`).

Only model-checked: the liveness properties (the prover has no reasoning about
fairness): `DeadDiscarded`, `GoneForgotten`, `EveryoneReached`, `UpdateEnds`,
`ConnectSettles` and `EndAnnounced`. What is safe about `EveryoneReached` and
`UpdateEnds` is proved, as `NobodySkipped` and `Descends`. Not claimed: that
messages arrive over connections that change; there they may be lost.

## 6. Not modelled, and what could follow

- `ping` has no caller: its interval is commented out (`PeerToPeerTransport.ts`
  146-157) and nothing reads the latency that a pong records. Pings and pongs
  would only be two more kinds of packets to `Routing`.
- `StatisticsCollector` is four counters of one client; `DummyTransport` is empty.
- Logging, `countRelay` (numbers nothing reads), the parsing of connection
  strings, the encoding of packets (generated code and `p2p.proto`), and the
  internals of the browser, the BFF, the servers and LiveKit beyond what is
  described above.
- A `connect` of LiveKit after `disconnect`, which no caller here does; its room
  would connect while `disconnected` stays set.
- `NetworkUpdate` composed with `Mesh`: two transports whose updates drive their
  meshes, with far peers that are never tried while near ones do not answer. The
  product of the two is out of TLC's reach; each is checked against a free
  environment, and both keep to `MeshView`.
- What a transport does after a failed `disconnect`, when the BFF rejects to remove
  a listener: `P2PLifecycle` has the step, and nothing in the code or its docs
  promises anything of what follows, so no property speaks of it.
- An instance that was constructed and never answered because its `connectTo` threw:
  it is in no map and stays open, and no connection can come of it.
