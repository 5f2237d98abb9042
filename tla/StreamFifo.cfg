CONSTANTS
  History = 2
  Capacity = 2
  SeqSize = 6
  Lengths = {1, 2}
  OrderedAcks = TRUE
  MaxUnits = 6
  MaxAge = 2
  MaxAcks = 2
SPECIFICATION Spec
INVARIANTS TypeOK Retained
PROPERTIES ImplementsFifo ConfirmedDelivered RoomAgain Delivered
CHECK_DEADLOCK FALSE
