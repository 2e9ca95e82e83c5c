SPECIFICATION Spec
CONSTANTS
  dev = dev
  review = review
  integrate = integrate
  Tasks = {dev, review, integrate}
  Authored <- FeatureCycle
  MaxRounds = 1
  Overrides = {"running", "failed", "discarded"}
  MaxMishaps = 0
CHECK_DEADLOCK FALSE
PROPERTY
  SweepDispatches
