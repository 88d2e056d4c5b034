SPECIFICATION Spec
CHECK_DEADLOCK FALSE
CONSTANTS
  Codes = {3, 30}
  Kinds = {"none", "plain", "wheel"}
  Firmware = {69, 97}
  MaxLate = 0
  Reports <- const_Reports
INVARIANTS
  KeyboardStaysEnabled
