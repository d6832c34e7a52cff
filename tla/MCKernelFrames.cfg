CONSTANTS
  LastBox = 3
  LibConfig = {1, 3}
  HomeOf <- MCHomeOf
  OwnHeap = {"u"}
  THREADS_MAX_COUNT = 2
  CONTEXT_MAX_DEPTH = 2
  DebugBoxes = {3}
  OwnerOf <- MCOwnerOf
  PriorityOf <- MCPriorityOf
  MaxStack = 1
SPECIFICATION Spec
INVARIANT FramesApart
CHECK_DEADLOCK FALSE
