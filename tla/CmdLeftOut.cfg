SPECIFICATION Spec
CONSTANTS
  Texts <- WithProgram
  Values <- Spelled
INVARIANT NeededIsNamed
