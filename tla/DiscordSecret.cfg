SPECIFICATION FairSpec
CONSTANTS
  BotStates = {"ok"}
  Operators = {w1}
  MaxChannels = 2
  MaxHooks = 2
  MaxDisturbances = 3
PROPERTY SecretMatchesStatus
CHECK_DEADLOCK FALSE
