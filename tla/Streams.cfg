SPECIFICATION MCSpec
CONSTANTS
  Clients = {b1, b2}
  BroadcastCap = 1
  SendCap = 2
  MaxEvents = 3
  MaxChunks = 3
  MaxMessages = 3
  MaxLines = 3
INVARIANTS NoPanic NoGap RecordingIsWhatWasSent
PROPERTIES StopEndsAll ClientsKeepUp SessionEnds StreamEndsWithClient
CHECK_DEADLOCK FALSE
