\* Three requests, two session slots, a ring of two: the ring fills up, slots
\* are reused, and a request can be in every place while two others move.  Everything may fail.
CONSTANTS
  r1 = r1
  r2 = r2
  r3 = r3
  Req <- MCReq3
  None = None
  Worker = Worker
  MaxSessions = 2
  QueueDepth = 2
  MaxFrames = 2
  MaxChunks = 2
  MaxStarts = 1
  Faults <- FaultKinds
SYMMETRY Symmetric3
SPECIFICATION Spec
INVARIANTS
  TypeOK
  Ownership
  SlotsCounted
  QuietAfterCancelOK
  NoCallbackAfterOver
\* Once every request is served or refused the worker sleeps: no deadlock.
CHECK_DEADLOCK FALSE
