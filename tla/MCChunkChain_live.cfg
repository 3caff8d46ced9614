\* Three chunks, two at a time: any later chunk may come back short, the
\* last may be regenerated, the first and the last cut, and the queue may be
\* full for a chunk, though not for a regeneration.
CONSTANTS
  N = 3
  Parallel = 2
  Retries = 1
  Cap = 2
  MinPieces = 2
  Guarded <- LastChunk
  Empties <- LaterChunks
  Overruns <- EndChunks
  MaxReq = 4
  MaxFull = 1
  Faults <- OnlyFull
SPECIFICATION Spec
PROPERTY ChainEnds
\* The connection is gone and its requests are over: nothing is left to do.
CHECK_DEADLOCK FALSE
