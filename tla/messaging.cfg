\* The bound MaxOps ends every behaviour, so the model may stop.
SPECIFICATION FairSpec
CONSTANTS
  client = client
  agent = agent
  p1 = p1
  p2 = p2
  w1 = w1
  w2 = w2
  NoJob = NoJob
  Users <- MCUsers
  Properties <- TwoProperties
  AgentOf <- MCAgentOf
  Workers <- TwoWorkers
  MaxConvs = 2
  MaxMessages = 2
  MaxOps = 4
INVARIANTS
  JobsFindNotification
  ReceiptIsTrue
  OneThreadPerPair
  NothingForgotten
PROPERTIES
  MessageIsAnnounced
CHECK_DEADLOCK FALSE
