CONSTANTS
  c1 = c1  i1 = i1  i2 = i2  i3 = i3  m1 = m1  m2 = m2
  Chats = {c1}
  Items <- ThreeItems
  ChatOf <- InOneChat
  Messages = {m1, m2}
  MsgOf <- CopiesAndOne
  Redelivered = {m1}
  CacheSize = 1
  DrainTimeout = 0
  PerChat = 1
  Global = 1
  MaxBatch = 1
  Concurrency <- OneEach
SYMMETRY Alike
SPECIFICATION Spec
INVARIANTS BotTypeOK HandledOnce RefusalLeavesNothing
CHECK_DEADLOCK FALSE
