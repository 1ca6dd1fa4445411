SPECIFICATION FairSpec
CONSTANTS
  Users = {u1}
  Sockets = {s1, s2, s3}
  Nonces = {n1, n2}
  Events = {e1}
  MaxConnectionsPerUser = 2
  TicketLife = 1
  MaxAhead = 2
  PublishWindow = 0
  NoUser = NoUser
  NoTicket = NoTicket
  MaxTime = 2
INVARIANTS
  RoomsMatchSockets
  RoomCap
PROPERTIES
  ReusedOnlyAtExpiry
  VanishedPeersLeave
  ShutdownEnds
