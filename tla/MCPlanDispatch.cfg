SPECIFICATION Spec
CONSTANTS
  dev = dev
  review = review
  integrate = integrate
  Tasks = {dev, review, integrate}
  Authored <- FeatureCycle
  MaxRounds = 1
  Overrides = {"running", "failed", "discarded"}
  MaxMishaps = 1
INVARIANTS
  RowsAreSound
  ReleasedInOrder
  DoneHoldsNothing
CHECK_DEADLOCK FALSE
PROPERTIES
  ReadyIsDispatched
  HoldsAreReleased
