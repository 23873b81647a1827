SPECIFICATION Spec
CONSTANTS
  KeyStreams <- PointerKeys
  MouseStreams <- PointerMouse
  NoByte = NoByte
  Cols = 2
  Rows = 2
  StartX = 1
  StartY = 0
  Symbols = {"t", " "}
  Blank = " "
  Block = "#"
  Printable <- MCPrintable
  UsedReaders = {"kbd_getchar"}
  MaxWrites = 1
INVARIANTS
  TypeOK
  PacketsIntactUnlessRaced
  OverlayExactUnlessRaced
