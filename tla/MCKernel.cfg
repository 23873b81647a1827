SPECIFICATION FairSpec
CONSTANTS
  VGA_ROWS = 3
  VGA_COLS = 3
  Chars = {"nl", "cr", " ", ">", "b", "h", "!", "a", "#"}
  Newline = "nl"
  Return = "cr"
  Space = " "
  Block = "@"
  KeyBytes = {28}
  MouseAnswers = {250, 254, 0}
  Modes = {69, 101}
  ew_words <- MCWords
  EW_MAXLEN = 2
  LISTED = 2
  DIGITS = 3
  Letters = {"a", "b"}
  Prompt <- MCPrompt
  SHELL_MAX = 4
  Loading <- MCLoading
  Banner <- MCBanner
  Outputs <- MCOutputs
  FaultText <- MCFault
  Typed = {"a", "b"}
  Ink = "#"
  Drawn = {7}
  Spots = {1, 8}
  Motions = 2
  Faults <- MCFaults
  Slots = {0, 1}
  FileSizes = {12, 3640, 4096}
  RMFS_FILES = 28192
  GDT = 31860
INVARIANTS
  KernelTypeOK
  LineShown
  HandlerTransparent
  FrameRead
  ResetOnlyByOverwrite
  StartUnlessDisturbed
PROPERTIES
  OutputAboveKept
  CompletesRanked
  StartupEnds
CHECK_DEADLOCK FALSE
