SPECIFICATION Spec
CONSTANTS
  INPUT_MAX = 4
  HISTORY_MAX = 2
  VGA_ROWS = 3
  VGA_COLS = 2
  Char <- const_Char
  Space = " "
  NUL = "nul"
INVARIANTS
  TypeOK
PROPERTIES
  ImplementsLine
  ScreenFollowsLine
