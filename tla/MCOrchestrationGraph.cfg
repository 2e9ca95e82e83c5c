SPECIFICATION Spec
CONSTANTS
  s = s
  e = e
  a = a
  b = b
  k = k
  t = t
  none = none
  StartId = s
  EndId = e
  Ids = {a, b, k}
  KindOf <- MCKindOf
  Metas <- MCMetas
  MetaInputs <- MCMetaInputs
  Operated = {a, b, k}
  Tasks = {t}
  NoTask = none
  TaskInputs <- MCTaskInputs
  Outcomes = {"success"}
  EdgeInputs <- MCEdgeInputs
  MaxReopens = 1
INVARIANTS
  IInv
  NeverStuck
  ChainIsPaths
CHECK_DEADLOCK FALSE
