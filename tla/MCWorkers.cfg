CONSTANTS
  p1 = p1
  p2 = p2

  \* TagJobs
  NoAsset = NoAsset
  Assets = {1, 2}
  Worn = {p1}
  Workers = {w1, w2}
  PicOf <- MCPicOf
  TagConcurrency = 1
  NoteRetries = 1
  MaxAttempts = 2
  TagBatch = 2
  Work = 1
  ClaimTimeout = 2
  TagFaults = 1

  \* Mentions
  Texts = {1, 2, 3}
  People = {1, 2}
  Mentioned <- MCMentioned
  Author <- MCAuthor
  Signed = {2, 3}
  Torn = {2}
  MentionBatch = 2
  MentionRounds = 3
  MentionFaults = 1

  \* Workspaces
  Accounts = {a, b}
  Keywords = {k}
  NoAccount = none
  WsEdits = 2
  WsStarts = 1

  \* McpSessions
  McpServers = 2
  McpOffers <- MCOffers
  Clean <- MCClean
  Injected = {1, 2}
  McpCallers = {1}
  McpChanges = 1
  McpCalls = 1
  McpFaults = 1

  \* ConfigFiles
  Unset = Unset
  ConfigDocs <- MCDocs
  SecretDocs <- MCSecrets
  Settings <- MCSettings
  EnvPassword = ""
  ConfigEdits = 2
  ConfigFaults = 1

SPECIFICATION WorkersSpec
INVARIANTS
  WorkersTypeOK
  OneWorkerPerJob
  EveryPictureAccountedFor
  SnapshotOfLive
  NoLeakedSession
  SnapshotWorks
PROPERTY BackgroundSettles
CHECK_DEADLOCK FALSE
