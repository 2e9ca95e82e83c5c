SPECIFICATION ServiceSpec
CONSTANTS
  s = s
  e = e
  a = a
  k = k
  t = t
  none = none
  c1 = c1
  c2 = c2
  StartId = s
  EndId = e
  Ids = {a, k}
  KindOf <- MCKindOf
  Metas <- MCMetas
  MetaInputs <- MCMetaInputs
  Operated = {a, k}
  Tasks = {t}
  NoTask = none
  TaskInputs <- MCTaskInputs
  Outcomes = {"success"}
  EdgeInputs <- MCEdgeInputs
  MaxReopens = 5
  Clients = {c1, c2}
  Requests <- AllRequests
  MaxCalls = 5
SYMMETRY Symmetry
INVARIANTS
  RowsAreSound
PROPERTIES
  RemovedStaysRemoved
  CurrentCommitIsAtomic
CHECK_DEADLOCK FALSE
