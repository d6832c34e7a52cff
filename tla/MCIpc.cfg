CONSTANTS
  Boxes = {0, 1}
  Threads = {"s", "r"}
  BoxOf <- MCBoxOf
  NumTokens = 3
  NumSlots = 2
  ANY = 255
  Requests <- MCRequests
  Waits <- MCWaits
SPECIFICATION Spec
INVARIANTS
  TypeOK
  PendingTokensDistinct
  SlotOnce
PROPERTIES
  RequestsNotLost
  TokensStable
  DrainProgress
