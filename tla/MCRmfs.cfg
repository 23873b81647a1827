SPECIFICATION Spec
CONSTANTS
  Names <- MCNames
  Components = {"a", "b", "c"}
  Empty = ""
  Overlong <- MCOverlong
  Dirs <- MCDirs
  Bytes = {0, 1}
  Contents <- MCContents
  OutSizes = {1, 3}
  MaxFiles = 2
  MaxSize = 2
  NoName = NoName
  NoCall = NoCall
INVARIANTS
  TypeOK
  UniqueNames
  CensusAgrees
  ListedFilesOpen
PROPERTIES
  ImplementsFileStore
