SPECIFICATION Spec
CONSTANTS
  Users = {u1, u2}
  NoUser = NoUser
  NoToken = NoToken
  Slots = {q1, q2}
  None = None
  MaxLogins = 2
  MaxFaults = 1
INVARIANTS
  TypeOK
  SignedInIsWhole
  SignedOutIsUnregistered
  TokenIsRevoked
SYMMETRY Interchangeable
CHECK_DEADLOCK FALSE
