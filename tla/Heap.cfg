SPECIFICATION Spec
CONSTANTS
  HEAP_SIZE = 88
  HEADER = 12
  ALIGN_BYTES = 8
  WORD = 128
  Requests <- const_Requests
INVARIANTS
  TypeOK
  BlocksTile
  LiveHoldsRequest
  NoAdjacentFree
  UsedIsAllocated
  NullOnlyWithoutGap
PROPERTIES
  CallsReturn
