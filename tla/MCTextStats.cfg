SPECIFICATION Spec
CONSTANTS
  Bytes = {"lf", "cr", "ascii", "lead2", "lead3", "lead4", "cont"}
  MaxLength = 5
CHECK_DEADLOCK FALSE
INVARIANTS TypeOK LinesMatch CharsMatch StrictRejectsInvalid
