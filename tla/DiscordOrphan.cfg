SPECIFICATION Spec
CONSTANTS
  BotStates = {"ok"}
  Operators = {w1}
  MaxChannels = 2
  MaxHooks = 2
  MaxDisturbances = 3
INVARIANT NoOrphanChannel
CHECK_DEADLOCK FALSE
