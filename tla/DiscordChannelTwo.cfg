SPECIFICATION Spec
CONSTANTS
  BotStates = {"ok"}
  Operators = {w1, w2}
  MaxChannels = 2
  MaxHooks = 1
  MaxDisturbances = 3
SYMMETRY Symmetry
INVARIANTS
  TypeOK
  FinalizerBeforeChannel
  RecordedChannelIsLive
  RestsWhenDone
PROPERTIES
  RecordsAreFinal
  KeepsContract
CHECK_DEADLOCK FALSE
