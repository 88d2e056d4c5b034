SPECIFICATION Spec
VIEW PageView
CONSTANTS
  VGA_ROWS = 5
  VGA_COLS = 2
  HISTORY_LINES = 1
  FS_MAX_FILESIZE = 6
  Byte = {"a"}
  Rule = "-"
  Bell = "!"
  NoFile = NoFile
  Header <- const_Header
  Message <- const_Message
INVARIANTS
  ScreenShowsBuffer
