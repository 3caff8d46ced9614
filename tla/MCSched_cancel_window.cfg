\* One request is enough: it is cancelled while start_request holds it.
CONSTANTS
  r1 = r1
  r2 = r2
  r3 = r3
  Req <- MCReq2
  None = None
  Worker = Worker
  MaxSessions = 1
  QueueDepth = 1
  MaxFrames = 2
  MaxChunks = 1
  MaxStarts = 1
  Faults = {}
SPECIFICATION Spec
INVARIANT QuietAfterCancel
CHECK_DEADLOCK FALSE
