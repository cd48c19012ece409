SPECIFICATION Spec
CONSTANTS
  Docs = {d1, d2}
  Files = {f1}
  Positions = {home}
  NoDoc = NoDoc
  NoFile = NoFile
  Home = home
  EDITOR_UNDO_MAX = 1
  Env = {"write_fails"}
PROPERTIES
  AnnouncedSaveIsOnDisk
