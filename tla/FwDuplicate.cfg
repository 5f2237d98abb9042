SPECIFICATION Spec
CONSTANTS
  Directory <- OneOrder
  DeviceType <- AllBoards
  Waveform <- SarOnly
  MaxObj = 3
  Files <- AllFiles
  Commands <- AppCommands
  Answers = {"done", "mute", "silent"}
  MaxHandle = 11
  MaxRestarts = 1
INVARIANTS UniqueAppNames
CHECK_DEADLOCK FALSE
