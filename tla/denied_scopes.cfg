SPECIFICATION ScopesSpec
CONSTANTS
  Extensions = {a, b}
  NoExtension = noone
  MaxTasks = 1
  MaxHostcalls = 2
  MaxTimers = 0
INVARIANTS AwaitedCallsArePerformed
CHECK_DEADLOCK FALSE
