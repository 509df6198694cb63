CONSTANTS
  m1 = m1  m2 = m2  m3 = m3  None = None
  Msgs = {m1, m2, m3}
  Again = {}
  Scripts <- Chatter
  ReplyMax = 1
  Batch = 2
  MaxStreak = 2
  Cooldown = 1
  JudgeEvery = 1
  SilenceReset = 2
  MaxFaults = 0
SPECIFICATION Spec
INVARIANT UnaskedLimit
CHECK_DEADLOCK FALSE
