SPECIFICATION ShellSpec
CONSTANTS
  Names <- MCNames
  Components = {"a", "b"}
  Empty = ""
  Overlong = {}
  Bytes = {"0", "n"}
  Contents = {}
  OutSizes = {}
  MaxFiles = 2
  MaxSize = 2
  NoName = NoName
  NoCall = NoCall
  Texts <- MCTexts
  BootFiles <- MCBootFiles
  Magic <- MCMagic
  NUL = "0"
  NL = "n"
INVARIANTS
  MessagesTrue
  OutputTrue
PROPERTIES
  OnlyTargetChanges
