SPECIFICATION Spec
CONSTANTS
  Users = {u1, u2}
  NoUser = NoUser
  NoLoad = NoLoad
  NoValue = NoValue
  Empty = Empty
  MaxVersion = 2
  MaxSessions = 6
SYMMETRY Symmetry
INVARIANTS
  EventNotLost
  ForeignOnlyIfNeglected
PROPERTIES
  NeverErased
CHECK_DEADLOCK FALSE
