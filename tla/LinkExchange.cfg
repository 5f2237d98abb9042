SPECIFICATION Spec
CONSTANTS
  Links = {"dsp1", "fpga1"}
  Fpgas = {"fpga1"}
  Messages = {"start", "stop"}
  Faults = {"missing", "dma", "mute", "silent"}
  MaxRestarts = 0
PROPERTIES ImplementsExchange
CHECK_DEADLOCK FALSE
