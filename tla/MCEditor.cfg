SPECIFICATION EditorSpec
CONSTANTS
  Bytes = {"n", "x"}
  Keys = {"n", "x"}
  NL = "n"
  Files <- MCFiles
  MaxSize = 5
  ED_ROWS = 2
INVARIANTS
  EditorTypeOK
  CursorVisible
  MoveExact
PROPERTIES
  ImplementsTextBuffer
