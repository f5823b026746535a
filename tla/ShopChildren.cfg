SPECIFICATION FairSpec
CONSTANTS
  Calls <- EachWay
  MaxIncarnations = 2
  MaxDisturbances = 1
  MaxLag = 1
INVARIANTS TypeOK RestsWithItsParts
PROPERTIES
  ReadyKeepsItsParts
  NothingIsReplaced
  CascadeDelete
  PartsReturn
CHECK_DEADLOCK FALSE
