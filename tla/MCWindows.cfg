SPECIFICATION WindowsSpec
CONSTANTS
  ROWS = 5
  COLS = 6
  W = 2
  H = 2
  WROW = 0
  WCOL = 1
INVARIANTS
  WindowsTypeOK
  CoveredKept
  CloseRestores
  BorderWhole
