SPECIFICATION FairSpec
CONSTANTS
  Addresses = {home, typo}
  Valid = {home}
  Empty = empty
  MaxEdits = 1
  MaxDisturbances = 1
INVARIANTS TypeOK RestsWhenRight
PROPERTIES
  KeepsPromise
  PayoutArrives
CHECK_DEADLOCK FALSE
