SPECIFICATION BrowserSpec
CONSTANTS
  Names <- MCNames
  Components = {"a", "b", "c"}
  Empty = ""
  Overlong = {}
  Dirs <- MCDirs
  Bytes = {1}
  Contents <- MCContents
  OutSizes = {}
  MaxFiles = 4
  MaxSize = 1
  NoName = NoName
  NoCall = NoCall
  DIV_MAX_ENTRIES = 4
  DIV_ROWS = 2
INVARIANTS
  ListingCurrent
  SelectionOnPage
  OpenedExists
PROPERTIES
  SaveSucceeds
