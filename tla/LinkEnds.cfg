SPECIFICATION Spec
CONSTANTS
  Links = {"dsp1", "fpga1"}
  Fpgas = {"fpga1"}
  Messages = {"start", "stop"}
  Faults = {"missing"}
  MaxRestarts = 2
PROPERTIES MethodEnds
