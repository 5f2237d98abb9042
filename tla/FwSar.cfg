SPECIFICATION Spec
CONSTANTS
  Directory <- OneOrder
  DeviceType <- AllBoards
  Waveform <- SarOnly
  MaxObj = 3
  Files <- AllFiles
  Commands <- AppCommands
  Answers = {"done", "mute", "silent"}
  MaxHandle = 12
  MaxRestarts = 1
CONSTRAINT UniqueAppNames
INVARIANTS StreamSafe
CHECK_DEADLOCK FALSE
