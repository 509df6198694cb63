CONSTANTS
  c1 = c1  i1 = i1  i2 = i2   m1 = m1  m2 = m2
  Chats = {c1}
  Items <- TwoItems
  ChatOf <- InOneChat
  Messages = {m1, m2}
  MsgOf <- Distinct
  Redelivered = {}
  CacheSize = 1
  DrainTimeout = 1
  PerChat = 1
  Global = 1
  MaxBatch = 1
  Concurrency <- OneEach
SPECIFICATION AppSpec
INVARIANTS AcceptedTextIsStored
CHECK_DEADLOCK FALSE
