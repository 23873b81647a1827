SPECIFICATION CwaSpec
CONSTANTS
  Labels = {"p", "q", "x"}
  Externs = {"x"}
  Programs <- MCPrograms16
  ORG = 7
  ShortMin <- MCShortMin
  ShortMax = 6
  MAX_PASSES = 20
  Unknown = Unknown
INVARIANTS
  NoSizeDrift
CHECK_DEADLOCK FALSE
