SPECIFICATION Spec
CONSTANTS
  Rems = {r1}
  Templates <- MCTemplates
  Edits <- MCEdits
  Clients = {c1}
  MaxTime = 3
  MaxCalls = 2
  MaxChanges = 1
  MaxFaults = 1
INVARIANTS
  IInv
PROPERTIES
  SilencedStaysSilent
  NothingIsForgotten
CHECK_DEADLOCK FALSE
