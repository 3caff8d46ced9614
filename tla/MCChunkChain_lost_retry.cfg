\* As MCChunkChain_live.cfg, but the queue is full when the regenerated chunk
\* is submitted again.
CONSTANTS
  N = 3
  Parallel = 2
  Retries = 1
  Cap = 2
  MinPieces = 2
  Guarded <- LastChunk
  Empties <- LaterChunks
  Overruns <- EndChunks
  MaxReq = 4
  MaxFull = 1
  Faults <- RetryFull
SPECIFICATION Spec
PROPERTY ChainEnds
\* The connection is gone and its requests are over: nothing is left to do.
CHECK_DEADLOCK FALSE
