SPECIFICATION ArchiveSpec
CONSTANTS
  Archives <- MCArchives
  TarBlock = 2
  MaxRead = 2
INVARIANT ExtractedIsAll
