CONSTANTS
  m1 = m1  m2 = m2  m3 = m3  None = None
  Msgs = {m1, m2}
  Again = {m1}
  Scripts <- Pairs
  ReplyMax = 2
  Batch = 2
  MaxStreak = 1
  Cooldown = 1
  JudgeEvery = 1
  SilenceReset = 1
  MaxFaults = 1
SPECIFICATION Spec
INVARIANTS SpeechTypeOK SentOnce NoGap AnchorMeansSent
PROPERTIES QuietAfterSpeaking BatchEnds
CHECK_DEADLOCK FALSE
