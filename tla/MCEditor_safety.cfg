SPECIFICATION Spec
CONSTANTS
  Docs = {d1, d2}
  Files = {f1, f2}
  Positions = {home}
  NoDoc = NoDoc
  NoFile = NoFile
  Home = home
  EDITOR_UNDO_MAX = 2
  Env = {"open_fails"}
SYMMETRY EditorSymmetry
INVARIANTS
  TypeOK
  UnsavedIsDirty
  HistoryFits
PROPERTIES
  NoSilentDiscard
  ImplementsHistory
