SPECIFICATION Spec
CONSTANTS
  Clients = {"c1", "c2"}
  Careless = {"c2"}
  Names = {"f"}
  InsSize = 2
  FileSize = 2
  BufferSize = 2
  MaxPolite = 2
  MaxCareless = 2
INVARIANTS FileWhole
PROPERTIES ImplementsService Served
CHECK_DEADLOCK FALSE
