SPECIFICATION FairSpec
CONSTANTS
  KeyStreams <- RoutedKeys
  MouseStreams <- RoutedMouse
  NoByte = NoByte
  Cols = 2
  Rows = 2
  StartX = 1
  StartY = 0
  Symbols = {"t", " "}
  Blank = " "
  Block = "#"
  Printable <- MCPrintable
  UsedReaders = {"kbd_getchar", "div_getkey"}
  MaxWrites = 0
INVARIANTS
  PointerOnScreen
PROPERTIES
  ImplementsRouter
  ShiftAsHeldByOneReader
