\* No symmetry: liveness.  Two requests over one ring entry and two slots,
\* and a restart after a stop.
CONSTANTS
  r1 = r1
  r2 = r2
  r3 = r3
  Req <- MCReq2
  None = None
  Worker = Worker
  MaxSessions = 2
  QueueDepth = 1
  MaxFrames = 2
  MaxChunks = 2
  MaxStarts = 2
  Faults <- ServiceFaults
SPECIFICATION Spec
INVARIANT StopDrains
PROPERTIES
  ContractSafety
  EveryRequestEnds
  CancelReturns
  StopReturns
CHECK_DEADLOCK FALSE
