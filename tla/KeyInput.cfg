SPECIFICATION Spec
CONSTANTS
  KB_BUF_SIZE = 4
  NUL = NUL
  MaxScan = 4
  Lines <- const_Lines
  Codes <- const_Codes
  Firmware <- const_Firmware
  Char <- const_Char
INVARIANTS
  TypeOK
  ReaderOwnsSlot
  HandlersDoNotNest
  NoEarlyInterrupt
  NoStrandedByte
PROPERTIES
  ImplementsQueue
  EveryScanIsRead
  StoredKeyIsReturned
