SPECIFICATION Spec
CONSTANTS
  Num = 2
  Queues = {todo}
  Threads = {t1, t2, t3}
  ThreadOps <- OpsWithFind
INVARIANT MutualExclusion
