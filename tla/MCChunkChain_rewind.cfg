\* Three chunks, all at a time; the middle one may overrun while the last is
\* already submitted.
CONSTANTS
  N = 3
  Parallel = 3
  Retries = 1
  Cap = 1
  MinPieces = 1
  Guarded <- NoChunk
  Empties <- NoChunk
  Overruns <- LaterChunks
  MaxReq = 6
  MaxFull = 0
  Faults <- NoFault
SPECIFICATION Spec
INVARIANT WireInOrder
CHECK_DEADLOCK FALSE
