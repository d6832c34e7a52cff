SPECIFICATION Spec
CONSTANTS
  MIN_STACK_SIZE = 64
  PAGE_MAX_COUNT = 16
  PAGE_MAP_COUNT = 1
  MaxSlots = 5
  MaxRegions = 6
  Tables <- MCTables
  BoxesStart = 1184
  BoxesEnd = 4096
  HeapStart = 16560
  HeapEnd = 16976
  PageSize = 32
  HeapBounds <- MCHeapBounds
  Owned <- MCOwned
  Public = 100
  BOX_INDEX_SIZE = 12
INVARIANTS LayoutSound LeastMemory PagesAreSubregions OnlyOwnRegions
PROPERTIES StackKept AccessServed
CHECK_DEADLOCK FALSE
