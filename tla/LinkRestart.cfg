SPECIFICATION Spec
CONSTANTS
  Links = {"dsp1", "fpga1"}
  Fpgas = {"fpga1"}
  Messages = {"start", "stop"}
  Faults = {"missing", "dma", "mute", "silent"}
  MaxRestarts = 2
INVARIANTS Quiet
PROPERTIES Synchronised
CHECK_DEADLOCK FALSE
