SPECIFICATION HostSpec
CONSTANTS
  \* NodePump
  Calls = {c1, c2, c3}
  NoCall = none
  Streams = {}
  Chunked = {c1, c2}
  Exits = {c3}
  Children = {c1}
  HostcallTimeout = 3
  QueueLimit = 3
  BufferLimit = 1
  StallTimeout = 1
  MaxChunks = 2
  MaxUserTimers = 0
  MaxTime = 4
  MaxTimerId = 12
  Pumps = {"program", "extension", "none"}
  ProgramWidth = 1
  ExtensionWidth = 2
  Disturbed = FALSE
  \* PiRuntime
  MaxCommands = 3
  MaxStaged = 1
  \* ExtensionScopes
  Extensions = {e1, e2}
  NoExtension = noextension
  MaxTasks = 2
  MaxHostcalls = 2
  MaxTimers = 1
  \* ExtensionCalls
  Sessions = {s1, s2}
  NoSession = nobody
  NativeCalls = {n1, n2}
  \* ProviderStream
  MaxPieces = 3
  MaxItems = 3
  \* NodeStream
  MaxFed = 2
INVARIANTS ChildrenAreSound PiIsSound ScopesAreSound SessionsAreApart CancelReachesCalls  TerminalIsRestored
PROPERTIES CallsGetThrough PiWaitsEnd TaskWaitsEnd PipelinesAreSound
CHECK_DEADLOCK FALSE
