SPECIFICATION FsSpec
CONSTANTS
  FS_MAX_FILES = 3
  FS_MAX_FILESIZE = 2
  Name <- const_Name
  ValidName <- const_ValidName
  Byte <- const_Byte
  Content <- const_Content
  Root = root
  root = root
  Empty = Empty
  a = a
  b = b
  c = c
  tooLong = tooLong
  x = x
  y = y
INVARIANTS
  FsTypeOK
  UniqueNames
  OnlyWrittenBytes
PROPERTIES
  ImplementsStore
SYMMETRY symmetry
