SPECIFICATION FairSpec
CONSTANTS
  Sockets <- TwoSockets
  Users = {alice, bob}
  Aliases = {a1}
  MaxInbox = 3
  MaxUpdates = 2
  Nobody = Nobody
  MaxData = 1
  Calls = {c1, c2}
  MaxPackets = 1
  NoCall = NoCall
INVARIANTS
  TypeOK
  OneSocket
  Attribution
  TimersStopped
  ListenersRemoved
PROPERTIES
  OwnSession
  ImplementsTransport
  ConnectSettles
  EndAnnounced
CHECK_DEADLOCK FALSE
