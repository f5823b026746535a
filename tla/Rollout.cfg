SPECIFICATION FairSpec
CONSTANTS
  Microservices <- TwoServices
  Migrating = {"auth"}
  Tiers = {2}
  Kinds = {"standard", "light"}
  Created = {"standard"}
  MaxLag = 1
  MaxDisturbances = 1
INVARIANTS TypeOK ReadyIsEarned RestsWhenReady
PROPERTIES
  BecomesReady
  AppIsThere
CHECK_DEADLOCK FALSE
