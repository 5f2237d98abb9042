SPECIFICATION Spec
CONSTANTS
  Directory <- HalfOrders
  DeviceType <- AllBoards
  Waveform <- Movers
  MaxObj = 3
  Files <- AllFiles
  Commands <- RackCommands
  Answers = {"done", "refused", "silent"}
  MaxHandle = 9
  MaxRestarts = 0
INVARIANTS TypeOK HandlesLive NoDanglingTarget
PROPERTIES OnlyKnownCrashes CommandEnds
CHECK_DEADLOCK FALSE
