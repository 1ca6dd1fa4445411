\* The bound MaxOps ends every behaviour, so the model may stop.
SPECIFICATION Spec
CONSTANTS
  client = client
  agent = agent
  admin = admin
  prop = prop
  d1 = d1
  d2 = d2
  t1 = t1
  t2 = t2
  w1 = w1
  w2 = w2
  NoRow = NoRow
  NoJob = NoJob
  Users <- MCUsers
  Admins <- MCAdmins
  Properties <- MCProperties
  AgentOf <- MCAgentOf
  PanelRows <- MCPanelRows
  Dates <- OneDate
  Times <- OneTime
  Workers <- TwoWorkers
  MaxRequests = 1
  MaxOps = 3
SYMMETRY WorkerSymmetry
PROPERTIES
  DeletedStaysDeleted
CHECK_DEADLOCK FALSE
