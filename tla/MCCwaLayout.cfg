SPECIFICATION CwaSpec
CONSTANTS
  Labels = {"p", "q", "x"}
  Externs = {"x"}
  Programs <- MCPrograms
  ORG = 7
  ShortMin <- MCShortMin
  ShortMax = 6
  MAX_PASSES = 20
  Unknown = Unknown
INVARIANTS
  LayoutConsistent
  PassesBounded
  CodeMatchesLayout
  NoSizeDrift
PROPERTIES
  Terminates
CHECK_DEADLOCK FALSE
