CONSTANTS
  m1 = m1
  m2 = m2
  m3 = m3

  \* ChatStore
  NoMsg = NoMsg
  ChatMsgs = {m1, m2, m3}
  Replies = {r1}
  ChatCap = 3
  SendCount = 2
  MaxTokens = 6
  HitCost = 1
  MissCost = 4
  System = 1
  Twice = {m1}
  ChatFaults = 1
  Weight <- MCWeight
  Quotes <- MCQuotes
  SentAt <- MCSentAt

  \* Names
  NameGroups = {g1, g2}
  Members = {b}
  Self = b
  NameOf = {"A", "B"}
  NoName = "-"
  MemberInfos <- MCMemberInfos
  NameCalls = 2
  NameFaults = 1

  \* Panel
  PanelChats = {"c1"}
  Owner <- MCOwner
  PanelMessages = {"m1"}
  PanelPeople = {"u1"}
  Home <- MCHome
  PanelWriters = {1, 2}
  PageLimit = 1
  PanelResets = 2

  \* LlmGuard
  LlmCallers = {1, 2}
  Burst = 2
  Trip = 2
  Formats = {1, 2}
  TakesKwargs = FALSE
  LlmCalls = 4
  LlmFaults = 3

  \* ToolLoop
  Pictures = {"pic1", "pic2", "pic3", "pic4"}
  Given <- MCGiven
  MaxRounds = 2
  ViewLimit = 3
  CallsAtOnce = 2
  Sentences = 2

  \* Commands
  Arrivals <- MCArrivals
  Personas = {"p"}
  NoPersona = "none"
  TableChanges = 2
  CommandFaults = 1

  \* Orchestrator
  c1 = c1
  c2 = c2
  i1 = i1
  i2 = i2
  i3 = i3
  Chats <- MCChats
  Items <- MCItems
  ChatOf <- MCChatOf
  PerChat = 2
  Global = 2
  MaxBatch = 2
  Concurrency <- MCConcurrency

SYMMETRY Alike
SPECIFICATION RequestsSpec
INVARIANTS
  RequestsTypeOK
  RequestIsTrue
  NamesAgree
  PanelExact
  FaultsOnly
  ReplyIsClean
  CommandsTakeEffectOnce
  ChatOrder
  NothingVanishes
PROPERTY WindowIsTail
CHECK_DEADLOCK FALSE
