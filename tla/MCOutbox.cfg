SPECIFICATION ParticipantsSpec
CONSTANTS
  Events = {1, 2, 3, 4}
  NumProjectors = 3
  SameTx <- MCSameTx
  Poison <- MCPoison
  Needs <- MCNeeds
  About <- MCAbout
  Created = 1
  BatchSize = 3
  MaxFaults = 3
INVARIANTS
  IInv
  SameTxExactlyOnce
  DuplicatesNeedFaults
  ParticipantsFollow
PROPERTIES
  ImplementsDelivery
  HealthyEventsDrain
