CONSTANTS
  m1 = m1
  m2 = m2
  m3 = m3
  c1 = c1
  c2 = c2
  NoInput = none
  Inputs = {m1, m2}
  Closers = {}
  MaxTurns = 2
  MaxCalls = 2
  MaxActions = 1
  Failures = {"hook"}
  Starts = {"resume"}
  HookRewrites = TRUE
  ClientOps = {"prompt", "steer", "followUp", "abort"}
SPECIFICATION AbortSpec
CHECK_DEADLOCK FALSE
INVARIANTS ToolUsesAnswered
PROPERTIES AbortedRunsEnd EventOrder
