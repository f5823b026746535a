SPECIFICATION FairSpec
CONSTANTS
  Calls <- Light
  MaxIncarnations = 2
  MaxDisturbances = 0
  MaxLag = 1
PROPERTY DatabaseIsThere
CHECK_DEADLOCK FALSE
