SPECIFICATION Spec
CONSTANTS
  Microservices <- OneService
  Migrating = {"auth"}
  Tiers = {2}
  Kinds = {"standard"}
  Created = {"standard"}
  MaxLag = 1
  MaxDisturbances = 1
PROPERTY StaysReady
CHECK_DEADLOCK FALSE
