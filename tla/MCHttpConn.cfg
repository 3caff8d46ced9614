\* One slot, and so one descriptor, for two clients one after the other: the
\* first streams, the second asks for a file or for what is at hand.
CONSTANTS
  c1 = c1
  c2 = c2
  Client = {c1, c2}
  NoClient = NoClient
  MaxConns = 1
  KindOf <- MCKindOf
  Cap = 1
  Takes <- MCTakes
  Faults <- MCFaults
SPECIFICATION Spec
INVARIANTS
  TypeOK
  OwnsItsConnection
  OneResponse
PROPERTIES
  Answered
  ClosedIsComplete
\* The server has shut down.
CHECK_DEADLOCK FALSE
