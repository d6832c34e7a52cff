SPECIFICATION Spec
CONSTANTS
  Num = 3
  Queues = {todo}
  Threads = {t1, t2}
  ThreadOps <- OpsWithoutFind
INVARIANTS MutualExclusion ExclusiveOwnership SlotsConserved
PROPERTIES LockReleased ImplementsPoolSpec
