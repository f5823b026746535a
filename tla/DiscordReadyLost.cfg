SPECIFICATION FairSpec
CONSTANTS
  BotStates = {"ok", "absent"}
  Operators = {w1}
  MaxChannels = 1
  MaxHooks = 1
  MaxDisturbances = 3
PROPERTY ReadyIsRestored
CHECK_DEADLOCK FALSE
