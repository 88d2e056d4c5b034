SPECIFICATION ShellSpec
VIEW View
CONSTANTS
  FS_MAX_FILES = 3
  FS_MAX_FILESIZE = 2
  Root <- const_Root
  Empty <- const_Empty
  Name <- const_Name
  ValidName <- const_ValidName
  Arg <- const_Arg
  WithExtension <- const_WithExtension
  Byte <- const_Byte
  Content <- const_Content
  Rank <- const_Rank
INVARIANTS
  ShellTypeOK
  MoveKeepsContent
  CopiesOverwriteNothing
  ListingsShowTheTree
PROPERTIES
  SavesAreComplete
