SPECIFICATION FairSpec
CONSTANTS
  Mine = {m1, m2}
  Theirs = {t1, t2}
  NoLoad = NoLoad
  Pending = Pending
  NoValue = NoValue
  Polling = TRUE
INVARIANTS
  SentStays
PROPERTIES
  PollConverges
