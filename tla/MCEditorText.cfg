SPECIFICATION Spec
CONSTANTS
  Chars <- MCChars
  Blanks = {"A"}
  Upper <- MCUpper
  NL = NL
  Snippets <- MCSnippets
  MaxText = 2
INVARIANTS
  TypeOK
  CutPasteRestores
PROPERTIES
  ImplementsFlatText
