SPECIFICATION Spec
CONSTANTS
  Names = {a, b, c}
  Contents = {"x"}
  Env = {"others", "commands_fail"}
  MaxOps = 3
SYMMETRY NameSymmetry
INVARIANTS TypeOK CanBeUndone CanBeRedone
PROPERTY ContentsSurvive
CHECK_DEADLOCK FALSE
