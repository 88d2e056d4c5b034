SPECIFICATION Spec
CONSTANTS
  VGA_ROWS = 2
  VGA_COLS = 4
  HISTORY_LINES = 3
  TAB_STOP = 2
  TabAnywhere = TRUE
  MaxCalls = 2
  MaxScrolls = 0
  Printable <- const_Printable
  ScrollLines <- const_ScrollLines
  CursorRows <- const_CursorRows
  CursorCols <- const_CursorCols
CHECK_DEADLOCK FALSE
PROPERTIES
  TabEnds
