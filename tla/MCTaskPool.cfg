SPECIFICATION Spec
CONSTANTS
  a1 = a1
  Tasks = {t1, t2}
  Agents = {a1}
  CapOptions <- EditedCap
  OverrideTargets = {"running"}
  HoldingLimit = 1
  MaxRecoveryResets = 1
  NoAgent = NoAgent
  NotMember = NotMember
INVARIANTS
  IInv
PROPERTIES
  SlotsNeverOverfilled
  ClaimTakesOwnerless
  TerminalFactsStay
  PoolDrains
CHECK_DEADLOCK FALSE
