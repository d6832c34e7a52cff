SPECIFICATION Spec
CONSTANTS
  Boxes = {b1, b2}
  Irqs = {i1, i2}
  BadIrqs = {bad}
  Priorities = {0, 1}
  MaxCounter = 2
  MaxDepth = 2
  INVALID = INVALID
INVARIANTS EnabledIsOwned DisableAllHolds NoSpuriousEnable IsrRunsInOwnerBox
PROPERTY OwnershipStable
CHECK_DEADLOCK FALSE
