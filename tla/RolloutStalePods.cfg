SPECIFICATION Spec
CONSTANTS
  Microservices <- OneService
  Migrating = {"auth"}
  Tiers = {2}
  Kinds = {"standard", "light"}
  Created = {"standard"}
  MaxLag = 1
  MaxDisturbances = 1
INVARIANT AvailableIsFunctional
CHECK_DEADLOCK FALSE
