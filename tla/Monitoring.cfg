SPECIFICATION FairSpec
CONSTANTS
  MaxDisturbances = 2
  Words <- AllWords
  Names <- ShortNames
INVARIANTS
  RoutesHaveSecrets
  RestsWhenRouted
  ObjectsAreOwn
  RulesAreOwn
  TrafficIsOwn
  AlertsAreOwn
PROPERTIES
  MonitoringIsOptional
  AlertsAreRouted
CHECK_DEADLOCK FALSE
