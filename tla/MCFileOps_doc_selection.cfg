SPECIFICATION Spec
CONSTANTS
  Names = {a, b, c}
  Contents = {"x"}
  Env = {}
  MaxOps = 3
PROPERTY DirectoryStays
CHECK_DEADLOCK FALSE
