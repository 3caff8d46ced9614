\* Two versions of every input, five environments, one voice; everything may
\* fail, and a start may be killed at any point.
CONSTANTS
  Tensors <- MCTensors
  FastAr <- MCFastAr
  NotCached <- MCOutput
  Voice = {"ref"}
  Envs <- MCEnvs
  MaxVersion = 1
  Faults <- MCFaults
SPECIFICATION Spec
INVARIANTS
  TypeOK
  SidecarsAreHonest
  ServesTheSame
