CONSTANTS
  History = 2
  Capacity = 1
  SeqSize = 8
  Lengths = {1}
  OrderedAcks = FALSE
  MaxUnits = 3
  MaxAge = 3
  MaxAcks = 2
SPECIFICATION Spec
PROPERTY Delivered
CHECK_DEADLOCK FALSE
