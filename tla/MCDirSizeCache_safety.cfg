SPECIFICATION Spec
CONSTANTS
  Paths = {p1, p2}
  NoPath = NoPath
  ItemSizes = {1, 3}
  MaxItems = 2
  MaxSize = 4
  Faults = {"malloc", "thread"}
SYMMETRY PathSymmetry
INVARIANTS
  TypeOK
  PendingIsOwed
  OneJobPerPath
  NoLostWakeup
  StoppedIsQuiet
  ScreenAgrees
PROPERTIES
  ReadyIsFinal
  ProgressAdvances
  ImplementsService
