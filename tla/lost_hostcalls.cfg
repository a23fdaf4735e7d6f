SPECIFICATION PumpSpec
CONSTANTS
  Calls = {c1, c2, c3}
  NoCall = none
  Streams = {}
  Chunked = {c1, c2}
  Exits = {c3}
  HostcallTimeout = 0
  QueueLimit = 3
  BufferLimit = 1
  StallTimeout = 1
  MaxChunks = 2
  MaxUserTimers = 0
  MaxTime = 0
  MaxTimerId = 12
  Pumps = {"program"}
  ProgramWidth = 2
  ExtensionWidth = 2
  Disturbed = FALSE
PROPERTY ProgramsEnd
CHECK_DEADLOCK FALSE
