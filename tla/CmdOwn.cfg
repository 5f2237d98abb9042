SPECIFICATION Spec
CONSTANTS
  Texts <- WithProgram
  Values <- Spelled
INVARIANTS TypeOK OwnArguments
