SPECIFICATION Spec
CONSTANTS
  r1 = r1
  r2 = r2
  Requests <- MCRequests
  Timed <- MCTimed
  PartialWrites = FALSE
  MaxConns = 2
  None = None
INVARIANTS
  TypeOK
  WriteAssert
  WireFaithful
  ItemsHeld
  OrderKept
  NothingStuck
