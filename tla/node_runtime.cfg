SPECIFICATION MCSpec
CONSTANTS
  Calls = {c1, c2}
  NoCall = none
  Streams = {c1}
  Chunked = {}
  Exits = {}
  HostcallTimeout = 2
  QueueLimit = 1
  BufferLimit = 1
  StallTimeout = 1
  MaxChunks = 2
  MaxUserTimers = 1
  MaxTime = 2
  MaxTimerId = 12
 
PROPERTIES StreamsAreSound
CHECK_DEADLOCK FALSE
