SPECIFICATION FairSpec
CONSTANTS
  Nodes <- MCNodes
  Existing <- MCExisting
INVARIANTS
  IInv
  VerdictIsExact
PROPERTY
  SearchReturns
CHECK_DEADLOCK FALSE
