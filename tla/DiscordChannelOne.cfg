SPECIFICATION FairSpec
CONSTANTS
  BotStates = {"ok", "absent", "noToken"}
  Operators = {w1}
  MaxChannels = 2
  MaxHooks = 2
  MaxDisturbances = 4
INVARIANT WebhooksPostToRecordedChannel
PROPERTIES
  GoneOnlyAfterItsChannel
  Provisioned
  CleanedUp
CHECK_DEADLOCK FALSE
