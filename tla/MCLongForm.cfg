\* Three chunks, two at a time.  The last chunk may be regenerated; the first
\* may come back empty or be cut.  Everything may fail.
\* The constants of the chunker and the filter are scaled down: a character
\* fits the target, and a window, a budget and a gap are a few samples.
CONSTANTS
  N = 3
  Parallel = 2
  Retries = 1
  Cap = 2
  MinPieces = 2
  Guarded <- LastChunk
  Empties <- EndChunks
  Overruns <- EndChunks
  MaxReq = 4
  MaxFull = 1
  Faults <- AllFaults
  TargetBytes = 4
  MaxSentences = 2
  Hold = 4
  LeadMax = 2
  Gap = 1
SPECIFICATION Spec
INVARIANTS
  TypeOK
  WireInOrder
  Accounted
  RegeneratedUnheard
  WindowKept
  ConnAlive
  FinishIsLast
  ChunksAreTheText
  JoinsAreTheGap
\* The connection is gone and its requests are over: nothing is left to do.
CHECK_DEADLOCK FALSE
