\* Two slots, two voices with room for both prefixes, a clone too long for
\* the context, chunks that end before and in the reference (a chunk of three
\* tokens, the run of codes at the fifth).
CONSTANTS
  NSlots = 2
  Voices <- MCVoices
  Others <- MCOthers
  PartLen <- MCPartLen
  NumCodebooks = 2
  Cap = 2
  PfChunks <- MCPfChunks
  Ctx = 14
  ScratchRows = 8
  FrameCap = 3
  Texts <- MCTexts
  Faults = TRUE
  \* attention: three splits, the last one short; two tiles
  Tile = 3
  Split = 2
  KvHeads = 2
  Group = 2
  HeadDim = 2
  MaxSeq = 5
  Span = 8
  KvBits = {16, 8}
  \* sampler: three semantic candidates and the end, two best kept
  NSem = 3
  TopK = 3
  MaxWindow = 4
  DefWindow = 4
  RasTopP = 70
  Levels = 2
  Spread = 8
SPECIFICATION Spec
INVARIANTS
  TypeOK
  KvIsPrompt
  FramesAreOwn
  OnlyTooLongRefused
  WarmStaysWarm
  AttentionIsExact
  SamplersAgree
\* The worker sleeps when no session is active and none will come.
CHECK_DEADLOCK FALSE
