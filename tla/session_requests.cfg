CONSTANTS
  m1 = m1
  m2 = m2
  m3 = m3
  c1 = c1
  c2 = c2
  NoInput = none
  Inputs = {m1, m2}
  Closers = {c1, c2}
  MaxTurns = 2
  MaxCalls = 1
  MaxActions = 0
  Failures = {"message", "drop"}
  Starts = {"idle"}
  HookRewrites = FALSE
  ClientOps = {"prompt", "steer", "followUp", "abort", "close"}
SPECIFICATION FairSpec
CHECK_DEADLOCK FALSE
PROPERTIES RequestsAreAnswered AcceptedMessagesRun EventOrderWhileOpen
