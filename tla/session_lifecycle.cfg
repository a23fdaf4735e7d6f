CONSTANTS
  m1 = m1
  m2 = m2
  m3 = m3
  c1 = c1
  c2 = c2
  NoInput = none
  Inputs = {m1, m2, m3}
  Closers = {c1}
  MaxTurns = 1
  MaxCalls = 0
  MaxActions = 1
  Failures = {"message", "custom", "drop", "command", "hook"}
  Starts = {"resume", "idle"}
  HookRewrites = FALSE
  ClientOps = {"prompt", "steer", "followUp", "abort", "close"}
SPECIFICATION Spec
SYMMETRY InputSymmetry
CHECK_DEADLOCK FALSE
INVARIANTS ActorTypeOK EndedIsQuiet InputsAreAccountedFor
PROPERTIES DropsAreReported NothingNewRevivesFatal ClosedIsFinal
