SPECIFICATION Spec
CONSTANTS
  r1 = r1
  r2 = r2
  Requests <- MCRequests
  Timed <- MCTimed
  PartialWrites = TRUE
  MaxConns = 2
  None = None
INVARIANT WireFaithful
