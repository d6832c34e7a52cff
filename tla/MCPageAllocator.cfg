SPECIFICATION Spec
CONSTANTS
  Total = 3
  Shift = 1
  OctetWidth = 2
  LastBox = 2
  MaxTable = 3
  SharedFree = FALSE
INVARIANTS FreeCount UsageIsOwnership SecurePagesDisjoint NoStaleAccess Confidentiality
PROPERTY MallocPrivate
