\* Three slots sharing a pool of two CUDA streams and their addresses, so that
\* two of them may fill one roster of the buffer table and then another; groups
\* of two frames, a cap of five: two full groups, with a remainder at the end
\* or at the cap.  Slots are used again without a bound.
CONSTANTS
  MaxSessions = 3
  NCust = 2
  Batch = 2
  FrameCap = 5
  CudaFails = TRUE
SPECIFICATION Spec
INVARIANTS
  TypeOK
  FramesAccounted
  EndsComplete
  Prompt
PROPERTIES
  StreamedIsWhole
\* The worker sleeps when no session is active and none will come.
CHECK_DEADLOCK FALSE
