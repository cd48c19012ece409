SPECIFICATION FairSpec
CONSTANTS
  Docs = {d1, d2}
  Files = {f1}
  Positions = {home, away}
  NoDoc = NoDoc
  NoFile = NoFile
  Home = home
  EDITOR_UNDO_MAX = 1
  Env = {"open_fails", "write_fails", "edits_and_passes"}
PROPERTIES
  CloseIsHandled
