SPECIFICATION Spec
CONSTANTS
  Names = {a, b, c}
  Contents = {"x"}
  Env = {}
  MaxOps = 3
INVARIANT LastOperationIsUndone
CHECK_DEADLOCK FALSE
