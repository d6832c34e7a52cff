SPECIFICATION Spec
CONSTANTS
  Total = 3
  Shift = 1
  OctetWidth = 2
  LastBox = 2
  MaxTable = 3
  SharedFree = TRUE
PROPERTY MallocPrivate
