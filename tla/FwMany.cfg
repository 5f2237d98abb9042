SPECIFICATION Spec
CONSTANTS
  Directory <- OneOrder
  DeviceType <- AllBoards
  Waveform <- AllWaveforms
  MaxObj = 3
  Files <- AllFiles
  Commands <- ManyCommands
  Answers = {"done"}
  MaxHandle = 12
  MaxRestarts = 0
INVARIANTS CommandReaches SwitchDone PlacementWhole
CHECK_DEADLOCK FALSE
