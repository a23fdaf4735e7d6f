CONSTANTS
  m1 = m1
  m2 = m2
  m3 = m3
  c1 = c1
  c2 = c2
  NoInput = none
  Inputs = {m1, m2}
  Closers = {}
  MaxTurns = 1
  MaxCalls = 0
  MaxActions = 0
  Failures = {"message"}
  Starts = {"resume"}
  HookRewrites = FALSE
  ClientOps = {"prompt", "steer"}
SPECIFICATION Spec
CHECK_DEADLOCK FALSE
PROPERTIES NoEventAfterShutdown
