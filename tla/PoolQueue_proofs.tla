-------------------------- MODULE PoolQueue_proofs --------------------------
(***************************************************************************)
(* Theorems about PoolQueue, for every number of slots and of threads.     *)
(***************************************************************************)
EXTENDS PoolQueue, FiniteSetTheorems, SequenceTheorems, NaturalsInduction,
        WellFoundedInduction, TLAPS

\* No thread searches a queue of this pool (IPC and outgoing RPC pools).
NoThreadFind == "find_first" \notin ThreadOps

----------------------------------------------------------------------------
(***************************************************************************)
(* The spinlock alone.                                                     *)
(***************************************************************************)
LockInv ==
  /\ acquired \in BOOLEAN
  /\ pc \in [Threads -> {"idle", "spin", "locked", "unlock"}]
  /\ call \in [Threads -> Calls]
  /\ \A t \in Threads : pc[t] # "idle" => call[t].op \in ThreadOps
  /\ acquired <=> \E t \in Threads : Inside(t)
  /\ \A t, u \in Threads : Inside(t) /\ Inside(u) => t = u

LEMMA NoCallType == NoCall \in Calls
  BY NumAssumption, QueuesAssumption DEF NoCall, Calls, OpNames, Slots

LEMMA LockInvInit == Init => LockInv
  BY NoCallType DEF Init, LockInv, Inside

LEMMA LockInvStep == NoThreadFind /\ LockInv /\ [Next]_vars => LockInv'
  <1> SUFFICES ASSUME NoThreadFind, LockInv, [Next]_vars PROVE LockInv'
    OBVIOUS
  <1>1. ASSUME NEW t \in Threads, Enter(t) PROVE LockInv'
    BY <1>1 DEF LockInv, Enter, Inside
  <1>2. ASSUME NEW t \in Threads, spin_lock(t) PROVE LockInv'
    BY <1>2 DEF LockInv, spin_lock, Inside
  <1>3. ASSUME NEW t \in Threads, Write(t) PROVE LockInv'
    <2>1. ~ ReleasesInBody(call[t], Body(snap[t], call[t]).ret)
      BY <1>3 DEF LockInv, NoThreadFind, ReleasesInBody, Write
    <2>2. /\ acquired' = acquired
          /\ pc' = [pc EXCEPT ![t] = "unlock"]
          /\ pc[t] = "locked"
          /\ call' = call
      BY <1>3, <2>1 DEF Write, LockInv
    <2> QED
      BY <2>2 DEF LockInv, Inside
  <1>4. ASSUME NEW t \in Threads, spin_unlock(t) PROVE LockInv'
    BY <1>4, NoCallType DEF LockInv, spin_unlock, Inside
  <1>5. CASE uVisorTry
    BY <1>5 DEF LockInv, uVisorTry, Inside
  <1>6. CASE UNCHANGED vars
    BY <1>6 DEF LockInv, vars, Inside
  <1> QED
    BY <1>1, <1>2, <1>3, <1>4, <1>5, <1>6 DEF Next, ThreadStep

\* pool_queue.c under spinlock.c: as long as no thread uses find_first, the
\* spinlock serializes the updates of the pool, for any number of threads,
\* slots and queues.
THEOREM SpinlockSerializes == NoThreadFind => (Spec => []MutualExclusion)
  <1> SUFFICES ASSUME NoThreadFind PROVE Spec => []MutualExclusion
    OBVIOUS
  <1>1. LockInv => MutualExclusion
    BY DEF LockInv, MutualExclusion, Inside
  <1>2. LockInv /\ [Next]_vars => LockInv'
    BY LockInvStep
  <1> QED
    BY <1>1, <1>2, LockInvInit, PTL DEF Spec

----------------------------------------------------------------------------
(***************************************************************************)
(* The lists of a pool with one queue.                                     *)
(***************************************************************************)
Linked(m) == m \in Memory /\ FreeListLinked(m) /\ \A q \in Queues : QueueLinked(m, q)

LEMMA InitLinked == Linked(pool_queue_init) /\ IdleSlots(pool_queue_init) = {}
  <1> DEFINE m == pool_queue_init
  <1>1. m \in Memory /\ FreeListLinked(m) /\ IdleSlots(m) = {}
    BY NumAssumption
       DEF pool_queue_init, Memory, FreeListLinked, Slots, Bytes, FreeSlots, IdleSlots,
           INVALID, DEQUEUED, FREE
  <1>2. ASSUME NEW q \in Queues PROVE QueueLinked(m, q)
    <2>1. \A L : QueueIs(m, q, 0, L)
      BY DEF QueueIs, pool_queue_init, QueuedSlots, FREE, DEQUEUED
    <2>2. 0 \in 0 .. Num
      BY NumAssumption
    <2>3. [i \in 1 .. 0 |-> 0] \in [1 .. 0 -> Slots]
      OBVIOUS
    <2> QED
      BY <2>1, <2>2, <2>3 DEF QueueLinked
  <1> QED
    BY <1>1, <1>2 DEF Linked

\* What the four helpers of pool_queue.c that change a pool do to its lists.  The
\* queue is a sequence of slots, as in QueueIs.
QueuesKept(m, n) ==
  \A q \in Queues : \A len \in 0 .. Num : \A L \in [1 .. len -> Slots] :
    QueueIs(m, q, len, L) => QueueIs(n, q, len, L)

FreeListKept(m, n) ==
  /\ n.first_free = m.first_free /\ n.num_allocated = m.num_allocated
  /\ FreeSlots(n) = FreeSlots(m)
  /\ \A r \in FreeSlots(m) : n.next[r] = m.next[r]

Allocated(m, n, s) ==
  /\ s \in FreeSlots(m) /\ s = m.first_free
  /\ FreeSlots(n) = FreeSlots(m) \ {s} /\ IdleSlots(n) = IdleSlots(m) \cup {s}
  /\ n.first_free = m.next[s] /\ n.num_allocated = (m.num_allocated + 1) % 256
  /\ \A r \in FreeSlots(m) \ {s} : n.next[r] = m.next[r]
  /\ QueuesKept(m, n)

Released(m, n, s) ==
  /\ s \in IdleSlots(m) /\ s \notin FreeSlots(m)
  /\ FreeSlots(n) = FreeSlots(m) \cup {s} /\ IdleSlots(n) = IdleSlots(m) \ {s}
  /\ n.first_free = s /\ n.num_allocated = (m.num_allocated - 1) % 256
  /\ n.next[s] = m.first_free
  /\ \A r \in FreeSlots(m) : n.next[r] = m.next[r]
  /\ QueuesKept(m, n)

Appended(len, L, s) == [i \in 1 .. len + 1 |-> IF i = len + 1 THEN s ELSE L[i]]
Without(len, L, p) == [i \in 1 .. len - 1 |-> IF i < p THEN L[i] ELSE L[i + 1]]

Enqueued(m, n, q, s) ==
  /\ s \in IdleSlots(m) /\ IdleSlots(n) = IdleSlots(m) \ {s}
  /\ FreeListKept(m, n)
  /\ \E len \in 0 .. Num : \E L \in [1 .. len -> Slots] :
       /\ QueueIs(m, q, len, L)
       /\ len + 1 \in 0 .. Num /\ Appended(len, L, s) \in [1 .. len + 1 -> Slots]
       /\ QueueIs(n, q, len + 1, Appended(len, L, s))

Dequeued(m, n, q, s) ==
  /\ IdleSlots(n) = IdleSlots(m) \cup {s}
  /\ FreeListKept(m, n)
  /\ \E len \in 0 .. Num : \E L \in [1 .. len -> Slots] : \E p \in 1 .. len :
       /\ QueueIs(m, q, len, L) /\ L[p] = s
       /\ len - 1 \in 0 .. Num /\ Without(len, L, p) \in [1 .. len - 1 -> Slots]
       /\ QueueIs(n, q, len - 1, Without(len, L, p))

\* A queue stays as it is when its ends and the entries of its slots do.
LEMMA SameQueue ==
  ASSUME NEW m, NEW n, NEW q, QueueLinked(m, q),
         n.head[q] = m.head[q], n.tail[q] = m.tail[q],
         QueuedSlots(n) = QueuedSlots(m),
         \A r \in QueuedSlots(m) : n.next[r] = m.next[r] /\ n.prev[r] = m.prev[r]
  PROVE  /\ QueueLinked(n, q)
         /\ \A len \in 0 .. Num : \A L \in [1 .. len -> Slots] :
              QueueIs(m, q, len, L) => QueueIs(n, q, len, L)
  <1>1. PICK len \in 0 .. Num : \E L \in [1 .. len -> Slots] : QueueIs(m, q, len, L)
    BY DEF QueueLinked
  <1>2. PICK L \in [1 .. len -> Slots] : QueueIs(m, q, len, L)
    BY <1>1
  <1>3. \A k \in 0 .. Num : \A K \in [1 .. k -> Slots] : QueueIs(m, q, k, K) => QueueIs(n, q, k, K)
    BY DEF QueueIs
  <1> QED
    BY <1>2, <1>3 DEF QueueLinked

LEMMA MemoryFields ==
  ASSUME NEW m \in Memory
  PROVE  /\ m.first_free \in Bytes /\ m.num_allocated \in Bytes
         /\ m.next \in [Slots -> Bytes] /\ m.prev \in [Slots -> Bytes]
         /\ m.head \in [Queues -> Bytes] /\ m.tail \in [Queues -> Bytes]
         /\ m = [first_free |-> m.first_free, num_allocated |-> m.num_allocated,
                 next |-> m.next, prev |-> m.prev, head |-> m.head, tail |-> m.tail]
  BY DEF Memory

\* Slots are told apart from the marks that share their byte.
LEMMA SlotBytes ==
  /\ \A s \in Slots : s \in Bytes /\ s # INVALID /\ s # DEQUEUED /\ s # FREE
  /\ INVALID \in Bytes /\ DEQUEUED \in Bytes /\ FREE \in Bytes
  /\ INVALID # DEQUEUED /\ INVALID # FREE /\ DEQUEUED # FREE
  BY NumAssumption DEF Slots, Bytes, INVALID, DEQUEUED, FREE

LEMMA ByteCount ==
  ASSUME NEW k \in Bytes PROVE (k + 1) % 256 \in Bytes /\ (k - 1) % 256 \in Bytes
  BY DEF Bytes

\* pool_alloc takes the first free slot, and only it changes its state.
LEMMA AllocLinked ==
  ASSUME NEW m, Linked(m), m.first_free # INVALID
  PROVE  LET s == m.first_free IN
         /\ Linked(pool_alloc(m))
         /\ s \in FreeSlots(m)
         /\ IdleSlots(pool_alloc(m)) = IdleSlots(m) \cup {s}
         /\ Allocated(m, pool_alloc(m), s)
  <1> DEFINE s == m.first_free
             n == pool_alloc(m)
  <1>1. s \in FreeSlots(m) /\ s \in Slots
    BY DEF Linked, FreeListLinked, FreeSlots
  <1>2. m \in Memory
    BY DEF Linked
  <1>3. /\ n.first_free = m.next[s]
        /\ n.next = [m.next EXCEPT ![s] = INVALID]
        /\ n.prev = [m.prev EXCEPT ![s] = DEQUEUED]
        /\ n.head = m.head
        /\ n.tail = m.tail
        /\ n.num_allocated = (m.num_allocated + 1) % 256
        /\ n = [first_free |-> n.first_free, num_allocated |-> n.num_allocated,
                next |-> n.next, prev |-> n.prev, head |-> n.head, tail |-> n.tail]
    BY <1>1, <1>2 DEF pool_alloc, Memory
  <1> HIDE DEF n
  <1>a. n \in Memory
    BY <1>1, <1>2, <1>3, NumAssumption, ByteCount DEF Memory, Bytes, INVALID, DEQUEUED
  <1>4. FreeSlots(n) = FreeSlots(m) \ {s}
    BY <1>1, <1>2, <1>3 DEF FreeSlots, Memory, DEQUEUED, FREE
  <1>5. QueuedSlots(n) = QueuedSlots(m)
    BY <1>1, <1>2, <1>3 DEF QueuedSlots, FreeSlots, Memory, DEQUEUED, FREE
  <1>6. IdleSlots(n) = IdleSlots(m) \cup {s}
    BY <1>1, <1>2, <1>3 DEF IdleSlots, FreeSlots, Memory, DEQUEUED, FREE
  <1>7. FreeListLinked(n)
    BY <1>1, <1>2, <1>3, <1>4 DEF FreeListLinked, Linked, Memory, FreeSlots
  <1>8. ASSUME NEW q \in Queues
        PROVE  /\ QueueLinked(n, q)
               /\ \A len \in 0 .. Num : \A L \in [1 .. len -> Slots] :
                    QueueIs(m, q, len, L) => QueueIs(n, q, len, L)
    <2>1. QueueLinked(m, q) /\ s \notin QueuedSlots(m)
      BY <1>1 DEF Linked, QueuedSlots, FreeSlots
    <2>2. \A r \in QueuedSlots(m) : n.next[r] = m.next[r] /\ n.prev[r] = m.prev[r]
      BY <1>2, <1>3, <2>1 DEF QueuedSlots, Memory
    <2>3. n.head[q] = m.head[q] /\ n.tail[q] = m.tail[q]
      BY <1>3
    <2> QED
      BY <1>5, <2>1, <2>2, <2>3, SameQueue
  <1>9. Allocated(m, n, s)
    <2>1. \A r \in FreeSlots(m) \ {s} : n.next[r] = m.next[r]
      BY <1>1, <1>2, <1>3 DEF FreeSlots, Memory
    <2>2. QueuesKept(m, n)
      BY <1>8 DEF QueuesKept
    <2> QED
      BY <1>1, <1>3, <1>4, <1>6, <2>1, <2>2 DEF Allocated
  <1> QED
    BY <1>1, <1>a, <1>6, <1>7, <1>8, <1>9 DEF Linked, n

\* pool_free puts a slot that was out in front of the free list.
LEMMA FreeLinked ==
  ASSUME NEW m, Linked(m), NEW s \in IdleSlots(m)
  PROVE  /\ Linked(pool_free(m, s))
         /\ IdleSlots(pool_free(m, s)) = IdleSlots(m) \ {s}
         /\ Released(m, pool_free(m, s), s)
  <1> DEFINE n == pool_free(m, s)
  <1>1. m \in Memory /\ s \in Slots /\ m.prev[s] = DEQUEUED
    BY DEF Linked, IdleSlots
  <1>t. /\ m.first_free \in Bytes /\ m.num_allocated \in Bytes
        /\ m.next \in [Slots -> Bytes] /\ m.prev \in [Slots -> Bytes]
        /\ m.head \in [Queues -> Bytes] /\ m.tail \in [Queues -> Bytes]
    BY <1>1, MemoryFields
  <1>2. /\ n.first_free = s
        /\ n.next = [m.next EXCEPT ![s] = m.first_free]
        /\ n.prev = [m.prev EXCEPT ![s] = FREE]
        /\ n.head = m.head
        /\ n.tail = m.tail
        /\ n.num_allocated = (m.num_allocated - 1) % 256
    BY <1>1 DEF pool_free, Memory
  <1>3. n \in Memory
    <2>1. n = [m EXCEPT !.next = n.next, !.prev = n.prev, !.first_free = n.first_free,
                        !.num_allocated = n.num_allocated]
      BY <1>1 DEF pool_free, Memory
    <2>2. /\ n.next \in [Slots -> Bytes] /\ n.prev \in [Slots -> Bytes]
          /\ n.first_free \in Bytes /\ n.num_allocated \in Bytes
      BY <1>1, <1>t, <1>2, SlotBytes, ByteCount
    <2> HIDE DEF n
    <2> QED
      BY <1>1, <2>1, <2>2 DEF Memory
  <1> HIDE DEF n
  <1>4. FreeSlots(n) = FreeSlots(m) \cup {s} /\ s \notin FreeSlots(m)
    BY <1>1, <1>t, <1>2, SlotBytes DEF FreeSlots
  <1>5. QueuedSlots(n) = QueuedSlots(m) /\ s \notin QueuedSlots(m)
    BY <1>1, <1>t, <1>2, SlotBytes DEF QueuedSlots
  <1>6. IdleSlots(n) = IdleSlots(m) \ {s}
    BY <1>1, <1>t, <1>2, SlotBytes DEF IdleSlots
  <1>7. FreeListLinked(n)
    <2>1. \A r \in FreeSlots(m) : r # INVALID /\ n.next[r] = m.next[r]
      BY <1>1, <1>t, <1>2, <1>4, SlotBytes DEF FreeSlots
    <2>2. s # INVALID /\ n.next[s] = m.first_free
      BY <1>1, <1>t, <1>2, SlotBytes
    <2> QED
      BY <1>2, <1>4, <2>1, <2>2 DEF FreeListLinked, Linked
  <1>8. ASSUME NEW q \in Queues
        PROVE  /\ QueueLinked(n, q)
               /\ \A len \in 0 .. Num : \A L \in [1 .. len -> Slots] :
                    QueueIs(m, q, len, L) => QueueIs(n, q, len, L)
    <2>1. \A r \in QueuedSlots(m) : n.next[r] = m.next[r] /\ n.prev[r] = m.prev[r]
      BY <1>1, <1>t, <1>2, <1>5 DEF QueuedSlots
    <2>2. QueueLinked(m, q)
      BY DEF Linked
    <2> QED
      BY <1>2, <1>5, <2>1, <2>2, SameQueue
  <1>9. Released(m, n, s)
    <2>1. n.next[s] = m.first_free /\ \A r \in FreeSlots(m) : n.next[r] = m.next[r]
      BY <1>1, <1>t, <1>2, <1>4 DEF FreeSlots
    <2>2. QueuesKept(m, n)
      BY <1>8 DEF QueuesKept
    <2> QED
      BY <1>2, <1>4, <1>6, <2>1, <2>2 DEF Released
  <1> QED
    BY <1>3, <1>6, <1>7, <1>8, <1>9 DEF Linked, n

\* A list of distinct slots is no longer than the pool.
LEMMA ListFits ==
  ASSUME NEW n \in Nat, NEW L \in [1 .. n -> Slots],
         \A i, j \in 1 .. n : L[i] = L[j] => i = j
  PROVE  n <= Num
  <1>1. IsFiniteSet(1 .. n) /\ Cardinality(1 .. n) = n
    BY FS_Interval
  <1>2. IsFiniteSet(Slots) /\ Cardinality(Slots) = Num
    BY FS_Interval, NumAssumption DEF Slots
  <1>3. L \in Injection(1 .. n, Slots)
    BY DEF Injection, IsInjective
  <1> QED
    BY <1>1, <1>2, <1>3, FS_Injection DEF ExistsInjection

\* enqueue appends a slot that was out to the only queue.
LEMMA EnqueueLinked ==
  ASSUME NEW q, Queues = {q}, NEW m, Linked(m), NEW s \in IdleSlots(m)
  PROVE  /\ Linked(enqueue(m, q, s))
         /\ IdleSlots(enqueue(m, q, s)) = IdleSlots(m) \ {s}
         /\ Enqueued(m, enqueue(m, q, s), q, s)
  <1> DEFINE n == enqueue(m, q, s)
  <1>1. m \in Memory /\ s \in Slots /\ m.prev[s] = DEQUEUED
    BY DEF Linked, IdleSlots
  <1>2. PICK len \in 0 .. Num : \E L \in [1 .. len -> Slots] : QueueIs(m, q, len, L)
    BY DEF Linked, QueueLinked
  <1>3. PICK L \in [1 .. len -> Slots] : QueueIs(m, q, len, L)
    BY <1>2
  <1>4. s \notin QueuedSlots(m) /\ s # INVALID /\ s # DEQUEUED /\ s # FREE
    BY <1>1, NumAssumption DEF QueuedSlots, Slots, INVALID, DEQUEUED, FREE
  <1>5. /\ \A i \in 1 .. len : L[i] \in QueuedSlots(m) /\ L[i] # s /\ L[i] \in Slots
        /\ \A i \in 1 .. len : L[i] # INVALID /\ L[i] # FREE /\ L[i] # DEQUEUED
    BY <1>3, <1>4, NumAssumption DEF QueueIs, Slots, INVALID, FREE, DEQUEUED
  <1>6. /\ n.first_free = m.first_free
        /\ n.next = IF len = 0 THEN [m.next EXCEPT ![s] = INVALID]
                     ELSE [m.next EXCEPT ![L[len]] = s, ![s] = INVALID]
        /\ n.prev = [m.prev EXCEPT ![s] = IF len = 0 THEN INVALID ELSE L[len]]
        /\ n.head = [m.head EXCEPT ![q] = IF len = 0 THEN s ELSE L[1]]
        /\ n.tail = [m.tail EXCEPT ![q] = s]
        /\ n.num_allocated = m.num_allocated
        /\ n = [first_free |-> n.first_free, num_allocated |-> n.num_allocated,
                next |-> n.next, prev |-> n.prev, head |-> n.head, tail |-> n.tail]
    <2>1. CASE len = 0
      <3>1. m.head[q] = INVALID
        BY <1>3, <2>1 DEF QueueIs
      <3> QED
        BY <1>1, <2>1, <3>1 DEF enqueue, Memory
    <2>2. CASE len # 0
      <3>1. m.head[q] = L[1] /\ m.head[q] # INVALID /\ m.tail[q] = L[len]
        BY <1>3, <1>5, <2>2 DEF QueueIs
      <3>2. [m.head EXCEPT ![q] = L[1]] = m.head
        BY <1>1, <3>1 DEF Memory
      <3> QED
        BY <1>1, <2>2, <3>1, <3>2 DEF enqueue, Memory
    <2> QED
      BY <2>1, <2>2
  <1> HIDE DEF n
  <1>7. n \in Memory
    <2>1. n.next \in [Slots -> Bytes] /\ n.prev \in [Slots -> Bytes]
      BY <1>1, <1>5, <1>6, SlotBytes, MemoryFields
    <2>2. n.head \in [Queues -> Bytes] /\ n.tail \in [Queues -> Bytes]
      BY <1>1, <1>5, <1>6, SlotBytes, MemoryFields
    <2> QED
      BY <1>1, <1>6, <2>1, <2>2 DEF Memory
  <1>8. /\ FreeSlots(n) = FreeSlots(m)
        /\ IdleSlots(n) = IdleSlots(m) \ {s}
        /\ QueuedSlots(n) = QueuedSlots(m) \cup {s}
    <2>1. n.prev[s] \notin {FREE, DEQUEUED} /\ \A r \in Slots \ {s} : n.prev[r] = m.prev[r]
      BY <1>1, <1>5, <1>6 DEF Memory, INVALID, FREE, DEQUEUED
    <2> QED
      BY <1>1, <2>1 DEF FreeSlots, IdleSlots, QueuedSlots, FREE, DEQUEUED
  <1>9. FreeListLinked(n) /\ FreeListKept(m, n)
    <2>1. \A r \in FreeSlots(m) : n.next[r] = m.next[r]
      BY <1>1, <1>4, <1>5, <1>6 DEF FreeSlots, QueuedSlots, Memory, FREE, DEQUEUED
    <2>2. FreeListKept(m, n)
      BY <1>6, <1>8, <2>1 DEF FreeListKept
    <2> QED
      BY <1>6, <1>8, <2>1, <2>2 DEF FreeListLinked, Linked
  <1>10. QueueLinked(n, q) /\ Enqueued(m, n, q, s)
    <2> DEFINE k == len + 1
               K == [i \in 1 .. k |-> IF i = k THEN s ELSE L[i]]
    <2>1. K \in [1 .. k -> Slots] /\ \A i, j \in 1 .. k : K[i] = K[j] => i = j
      BY <1>1, <1>3, <1>5 DEF QueueIs
    <2>2. k \in 0 .. Num
      <3> k \in Nat
        OBVIOUS
      <3> HIDE DEF k, K
      <3>1. k <= Num
        BY <2>1, ListFits
      <3> QED
        BY <3>1, NumAssumption
    <2>3. QueuedSlots(n) = {K[i] : i \in 1 .. k}
      <3>1. {K[i] : i \in 1 .. k} = {L[i] : i \in 1 .. len} \cup {s}
        <4>1. \A i \in 1 .. len : i \in 1 .. k /\ K[i] = L[i]
          OBVIOUS
        <4>2. k \in 1 .. k /\ K[k] = s
          OBVIOUS
        <4>3. \A i \in 1 .. k : i = k \/ i \in 1 .. len
          OBVIOUS
        <4> HIDE DEF k, K
        <4> QED
          BY <4>1, <4>2, <4>3
      <3> QED
        BY <1>3, <1>8, <3>1 DEF QueueIs
    <2>4. n.head[q] = K[1] /\ n.tail[q] = K[k]
      BY <1>1, <1>6 DEF Memory
    <2>5. ASSUME NEW i \in 1 .. k
          PROVE  /\ n.prev[K[i]] = IF i = 1 THEN INVALID ELSE K[i - 1]
                 /\ n.next[K[i]] = IF i = k THEN INVALID ELSE K[i + 1]
      <3>1. CASE i = k
        BY <1>1, <1>5, <1>6, <3>1 DEF Memory
      <3>2. CASE i # k
        BY <1>1, <1>3, <1>5, <1>6, <3>2 DEF Memory, QueueIs
      <3> QED
        BY <3>1, <3>2
    <2>6. QueueIs(n, q, k, K)
      BY <2>1, <2>3, <2>4, <2>5 DEF QueueIs
    <2>7. K = Appended(len, L, s)
      BY DEF Appended
    <2> HIDE DEF K
    <2>8. Enqueued(m, n, q, s)
      BY <1>3, <1>8, <1>9, <2>1, <2>2, <2>6, <2>7 DEF Enqueued
    <2> QED
      BY <2>1, <2>2, <2>6, <2>8 DEF QueueLinked
  <1> QED
    BY <1>7, <1>8, <1>9, <1>10 DEF Linked, n

\* dequeue takes any slot out of the only queue and keeps the others in order.
LEMMA DequeueLinked ==
  ASSUME NEW q, Queues = {q}, NEW m, Linked(m), NEW s \in QueuedSlots(m)
  PROVE  /\ m.head[q] # INVALID
         /\ Linked(dequeue(m, q, s))
         /\ IdleSlots(dequeue(m, q, s)) = IdleSlots(m) \cup {s}
         /\ Dequeued(m, dequeue(m, q, s), q, s)
  <1> DEFINE n == dequeue(m, q, s)
  <1>1. m \in Memory /\ s \in Slots /\ q \in Queues
    BY DEF Linked, QueuedSlots
  <1>t. /\ m.next \in [Slots -> Bytes] /\ m.prev \in [Slots -> Bytes]
        /\ m.head \in [Queues -> Bytes] /\ m.tail \in [Queues -> Bytes]
    BY <1>1, MemoryFields
  <1>2. PICK len \in 0 .. Num : \E L \in [1 .. len -> Slots] : QueueIs(m, q, len, L)
    BY DEF Linked, QueueLinked
  <1>3. PICK L \in [1 .. len -> Slots] : QueueIs(m, q, len, L)
    BY <1>2
  <1>4. PICK p \in 1 .. len : L[p] = s
    BY <1>3 DEF QueueIs
  <1>5. /\ \A i \in 1 .. len : L[i] \in QueuedSlots(m) /\ L[i] \in Slots /\ L[i] \in Bytes
        /\ \A i \in 1 .. len : L[i] # INVALID /\ L[i] # FREE /\ L[i] # DEQUEUED
        /\ \A i, j \in 1 .. len : L[i] = L[j] => i = j
    BY <1>3, SlotBytes DEF QueueIs
  <1>6. /\ m.head[q] = L[1] /\ m.tail[q] = L[len]
        /\ m.prev[s] = IF p = 1 THEN INVALID ELSE L[p - 1]
        /\ m.next[s] = IF p = len THEN INVALID ELSE L[p + 1]
    BY <1>3, <1>4 DEF QueueIs
  <1> DEFINE before == IF p = 1 THEN INVALID ELSE L[p - 1]
             after  == IF p = len THEN INVALID ELSE L[p + 1]
  <1>7. /\ n \in Memory
        /\ n.first_free = m.first_free /\ n.num_allocated = m.num_allocated
        /\ n.head[q] = IF p = 1 THEN after ELSE L[1]
        /\ n.tail[q] = IF p = len THEN before ELSE L[len]
        /\ n.prev = IF p = len THEN [m.prev EXCEPT ![s] = DEQUEUED]
                     ELSE [m.prev EXCEPT ![L[p + 1]] = before, ![s] = DEQUEUED]
        /\ n.next = IF p = 1 THEN [m.next EXCEPT ![s] = INVALID]
                     ELSE [m.next EXCEPT ![L[p - 1]] = after, ![s] = INVALID]
    <2>1. CASE len = 1
      <3>1. p = 1 /\ m.head[q] = m.tail[q]
        BY <1>6, <2>1
      <3>2. n = [m EXCEPT !.head[q] = INVALID, !.tail[q] = INVALID,
                          !.next[s] = INVALID, !.prev[s] = DEQUEUED]
        BY <3>1 DEF dequeue
      <3> HIDE DEF n
      <3> QED
        BY <1>1, <2>1, <3>1, <3>2, SlotBytes DEF Memory
    <2>2. CASE len # 1 /\ p = 1
      <3>1. m.head[q] # m.tail[q] /\ m.head[q] = s /\ m.next[s] = L[2] /\ 2 \in 1 .. len
        BY <1>4, <1>5, <1>6, <2>2
      <3>2. n = [m EXCEPT !.head[q] = L[2], !.prev[L[2]] = INVALID,
                          !.next[s] = INVALID, !.prev[s] = DEQUEUED]
        BY <3>1 DEF dequeue
      <3> HIDE DEF n
      <3> QED
        BY <1>1, <1>5, <1>6, <2>2, <3>1, <3>2, SlotBytes DEF Memory
    <2>3. CASE p # 1 /\ p = len
      <3>1. /\ m.head[q] # m.tail[q] /\ m.head[q] # s /\ m.tail[q] = s
            /\ m.prev[s] = L[p - 1] /\ p - 1 \in 1 .. len
        BY <1>4, <1>5, <1>6, <2>3
      <3>2. n = [m EXCEPT !.tail[q] = L[p - 1], !.next[L[p - 1]] = INVALID,
                          !.next[s] = INVALID, !.prev[s] = DEQUEUED]
        BY <3>1 DEF dequeue
      <3> HIDE DEF n
      <3> QED
        BY <1>1, <1>5, <1>6, <2>3, <3>1, <3>2, SlotBytes DEF Memory
    <2>4. CASE p # 1 /\ p # len
      <3>1. /\ m.head[q] # m.tail[q] /\ m.head[q] # s /\ m.tail[q] # s
            /\ m.prev[s] = L[p - 1] /\ p - 1 \in 1 .. len
            /\ m.next[s] = L[p + 1] /\ p + 1 \in 1 .. len
        BY <1>4, <1>5, <1>6, <2>4
      <3>2. n = [m EXCEPT !.next[L[p - 1]] = L[p + 1], !.prev[L[p + 1]] = L[p - 1],
                          !.next[s] = INVALID, !.prev[s] = DEQUEUED]
        BY <3>1 DEF dequeue
      <3> HIDE DEF n
      <3> QED
        BY <1>1, <1>5, <1>6, <2>4, <3>1, <3>2, SlotBytes DEF Memory
    <2> QED
      BY <2>1, <2>2, <2>3, <2>4
  <1> HIDE DEF n
  <1>8. /\ n.prev[s] = DEQUEUED /\ n.next[s] = INVALID
        /\ \A r \in Slots \ QueuedSlots(m) : n.prev[r] = m.prev[r] /\ n.next[r] = m.next[r]
        /\ \A i \in 1 .. len : i # p =>
             /\ n.prev[L[i]] = IF i = p + 1 THEN before ELSE m.prev[L[i]]
             /\ n.next[L[i]] = IF i = p - 1 THEN after ELSE m.next[L[i]]
    BY <1>1, <1>t, <1>4, <1>5, <1>7
  <1>b. \A i \in 1 .. len : /\ m.prev[L[i]] = IF i = 1 THEN INVALID ELSE L[i - 1]
                            /\ m.next[L[i]] = IF i = len THEN INVALID ELSE L[i + 1]
    BY <1>3 DEF QueueIs
  <1>9. \A r \in QueuedSlots(m) \ {s} : n.prev[r] # FREE /\ n.prev[r] # DEQUEUED
    <2> SUFFICES ASSUME NEW i \in 1 .. len, i # p
                 PROVE  n.prev[L[i]] # FREE /\ n.prev[L[i]] # DEQUEUED
      BY <1>3, <1>4 DEF QueueIs
    <2>1. n.prev[L[i]] = INVALID \/ \E j \in 1 .. len : n.prev[L[i]] = L[j]
      <3>1. CASE i = p + 1 /\ p # 1
        <4>1. p - 1 \in 1 .. len /\ n.prev[L[i]] = L[p - 1]
          BY <1>8, <3>1
        <4> QED
          BY <4>1
      <3>2. CASE i # p + 1 /\ i # 1
        <4>1. i - 1 \in 1 .. len /\ n.prev[L[i]] = L[i - 1]
          BY <1>8, <1>b, <3>2
        <4> QED
          BY <4>1
      <3>3. CASE (i = p + 1 /\ p = 1) \/ (i # p + 1 /\ i = 1)
        BY <1>8, <1>b, <3>3
      <3> QED
        BY <3>1, <3>2, <3>3
    <2> QED
      BY <1>5, <2>1, SlotBytes
  <1>10. /\ FreeSlots(n) = FreeSlots(m)
         /\ IdleSlots(n) = IdleSlots(m) \cup {s}
         /\ QueuedSlots(n) = QueuedSlots(m) \ {s}
    BY <1>1, <1>8, <1>9, SlotBytes DEF FreeSlots, IdleSlots, QueuedSlots
  <1>11. FreeListLinked(n) /\ FreeListKept(m, n)
    <2>1. \A r \in FreeSlots(m) : n.next[r] = m.next[r]
      BY <1>8 DEF FreeSlots, QueuedSlots
    <2>2. FreeListKept(m, n)
      BY <1>7, <1>10, <2>1 DEF FreeListKept
    <2> QED
      BY <1>7, <1>10, <2>1, <2>2 DEF FreeListLinked, Linked
  <1>12. QueueLinked(n, q) /\ Dequeued(m, n, q, s)
    <2> DEFINE k == len - 1
               K == [i \in 1 .. k |-> IF i < p THEN L[i] ELSE L[i + 1]]
    <2>1. k \in 0 .. Num /\ K \in [1 .. k -> Slots]
      BY NumAssumption
    <2>2. \A i, j \in 1 .. k : K[i] = K[j] => i = j
      BY <1>5
    <2>3. QueuedSlots(n) = {K[i] : i \in 1 .. k}
      <3>1. \A i \in 1 .. k : K[i] \in QueuedSlots(n)
        BY <1>4, <1>5, <1>10
      <3>2. ASSUME NEW r \in QueuedSlots(n) PROVE \E i \in 1 .. k : r = K[i]
        <4>1. PICK i \in 1 .. len : r = L[i] /\ i # p
          BY <1>3, <1>4, <1>10 DEF QueueIs
        <4>2. CASE i < p
          BY <4>1, <4>2
        <4>3. CASE i > p
          <5>1. i - 1 \in 1 .. k /\ K[i - 1] = L[i]
            BY <4>3
          <5> QED
            BY <4>1, <5>1
        <4> QED
          BY <4>1, <4>2, <4>3
      <3> HIDE DEF k, K
      <3> QED
        BY <3>1, <3>2
    <2>4. /\ n.head[q] = IF k = 0 THEN INVALID ELSE K[1]
          /\ n.tail[q] = IF k = 0 THEN INVALID ELSE K[k]
      BY <1>7
    <2>5. ASSUME NEW i \in 1 .. k
          PROVE  /\ n.prev[K[i]] = IF i = 1 THEN INVALID ELSE K[i - 1]
                 /\ n.next[K[i]] = IF i = k THEN INVALID ELSE K[i + 1]
      <3>1. CASE i < p
        <4>1. i \in 1 .. len /\ i # p /\ i # p + 1 /\ K[i] = L[i]
          BY <3>1
        <4>2. n.prev[L[i]] = IF i = 1 THEN INVALID ELSE K[i - 1]
          <5>1. n.prev[L[i]] = m.prev[L[i]]
            BY <1>8, <4>1
          <5>2. i # 1 => K[i - 1] = L[i - 1]
            BY <3>1
          <5> QED
            BY <1>b, <4>1, <5>1, <5>2
        <4>3. n.next[L[i]] = IF i = k THEN INVALID ELSE K[i + 1]
          BY <1>8, <1>b, <3>1, <4>1
        <4> QED
          BY <4>1, <4>2, <4>3
      <3>2. CASE i >= p
        <4>1. i + 1 \in 1 .. len /\ i + 1 # p /\ K[i] = L[i + 1]
          BY <3>2
        <4>2. n.prev[L[i + 1]] = IF i = 1 THEN INVALID ELSE K[i - 1]
          <5>1. CASE i = p
            <6>1. i # 1 => i - 1 < p /\ i - 1 \in 1 .. k /\ K[i - 1] = L[p - 1]
              BY <5>1
            <6>2. n.prev[L[i + 1]] = IF p = 1 THEN INVALID ELSE L[p - 1]
              BY <1>8, <4>1, <5>1
            <6> QED
              BY <5>1, <6>1, <6>2
          <5>2. CASE i > p
            <6>1. i # 1 /\ i - 1 \in 1 .. k /\ K[i - 1] = L[i]
              BY <5>2
            <6>2. n.prev[L[i + 1]] = m.prev[L[i + 1]]
              BY <1>8, <4>1, <5>2
            <6>3. m.prev[L[i + 1]] = L[i]
              BY <1>b, <4>1, <5>2
            <6> QED
              BY <6>1, <6>2, <6>3
          <5> QED
            BY <3>2, <5>1, <5>2
        <4>3. n.next[L[i + 1]] = IF i = k THEN INVALID ELSE K[i + 1]
          BY <1>8, <1>b, <3>2, <4>1
        <4> QED
          BY <4>1, <4>2, <4>3
      <3> QED
        BY <3>1, <3>2
    <2>6. QueueIs(n, q, k, K)
      <3> HIDE DEF k, K
      <3> QED
        BY <2>2, <2>3, <2>4, <2>5 DEF QueueIs
    <2>7. K = Without(len, L, p)
      BY DEF Without
    <2> HIDE DEF K
    <2>8. Dequeued(m, n, q, s)
      BY <1>3, <1>4, <1>10, <1>11, <2>1, <2>6, <2>7 DEF Dequeued
    <2> QED
      BY <2>1, <2>6, <2>8 DEF QueueLinked
  <1> QED
    BY <1>5, <1>6, <1>7, <1>10, <1>11, <1>12 DEF Linked, n

LEMMA HeadQueued ==
  ASSUME NEW q, Queues = {q}, NEW m, Linked(m), m.head[q] # INVALID
  PROVE  /\ m.head[q] \in QueuedSlots(m)
         /\ m.head[q] \in Slots
         /\ m.head[q] \notin IdleSlots(m)
  <1>1. PICK len \in 0 .. Num : \E L \in [1 .. len -> Slots] : QueueIs(m, q, len, L)
    BY DEF Linked, QueueLinked
  <1>2. PICK L \in [1 .. len -> Slots] : QueueIs(m, q, len, L)
    BY <1>1
  <1>3. 1 \in 1 .. len /\ m.head[q] = L[1]
    BY <1>2, NumAssumption DEF QueueIs
  <1> QED
    BY <1>2, <1>3 DEF QueueIs, QueuedSlots, IdleSlots

\* Calls after which the caller holds one slot more, one slot less.
Gains(c, r) == c.op \in {"allocate", "dequeue", "dequeue_first"} /\ r \in Slots
Gives(c, r) == c.op = "enqueue" \/ (c.op = "free" /\ r = c.slot)

\* A function does the work of one helper, or nothing.
HelperDid(m, n) ==
  \/ n = m
  \/ \E s \in Slots : \/ Allocated(m, n, s) \/ Released(m, n, s)
                      \/ \E q \in Queues : Enqueued(m, n, q, s) \/ Dequeued(m, n, q, s)

\* From m, call c led to mem and returned ret: the lists are in order, and the
\* slots that are out differ by the slot that the caller gained or gave.
BodyDid(m, c, mem, ret) ==
  /\ Linked(mem)
  /\ HelperDid(m, mem)
  /\ Gains(c, ret) => ret \notin IdleSlots(m) /\ IdleSlots(mem) = IdleSlots(m) \cup {ret}
  /\ Gives(c, ret) => c.slot \in IdleSlots(m) /\ IdleSlots(mem) = IdleSlots(m) \ {c.slot}
  /\ ~ Gains(c, ret) /\ ~ Gives(c, ret) => IdleSlots(mem) = IdleSlots(m)

\* A call that changes nothing returns no slot to its caller.
LEMMA Refused ==
  ASSUME NEW m, Linked(m), NEW c, NEW ret, ~ Gains(c, ret), ~ Gives(c, ret)
  PROVE  BodyDid(m, c, m, ret)
  BY DEF BodyDid, HelperDid

\* What a body does to the lists, and to the slots that are out.
LEMMA BodyLinked ==
  ASSUME NEW q, Queues = {q}, NEW m, Linked(m), NEW c \in Calls, ~ EarlyReturn(c),
         c.op = "enqueue" => c.slot \in IdleSlots(m),
         c.op = "free" => c.slot \in IdleSlots(m) \cup FreeSlots(m)
  PROVE  BodyDid(m, c, Body(m, c).mem, Body(m, c).ret)
  <1>0. c.op \in OpNames /\ c.q = q
    BY DEF Calls
  <1>1. CASE c.op = "allocate"
    <2>1. Body(m, c).mem = pool_alloc(m) /\ Body(m, c).ret = m.first_free
      BY <1>1 DEF Body, allocate_body, Result
    <2>2. CASE m.first_free = INVALID
      <3>1. pool_alloc(m) = m /\ ~ Gains(c, INVALID) /\ ~ Gives(c, INVALID)
        BY <1>1, <2>2, SlotBytes DEF pool_alloc, Gains, Gives
      <3> QED
        BY <2>1, <2>2, <3>1, Refused
    <2>3. CASE m.first_free # INVALID
      <3>1. /\ Linked(pool_alloc(m)) /\ m.first_free \in FreeSlots(m)
            /\ IdleSlots(pool_alloc(m)) = IdleSlots(m) \cup {m.first_free}
            /\ Allocated(m, pool_alloc(m), m.first_free)
        BY <2>3, AllocLinked
      <3>2. m.first_free \in Slots /\ m.first_free \notin IdleSlots(m)
        BY <3>1, SlotBytes DEF FreeSlots, IdleSlots
      <3>3. HelperDid(m, pool_alloc(m))
        BY <3>1, <3>2 DEF HelperDid
      <3> QED
        BY <1>1, <2>1, <3>1, <3>2, <3>3 DEF Gains, Gives, BodyDid
    <2> QED
      BY <2>2, <2>3
  <1>2. CASE c.op = "enqueue"
    <2>1. Body(m, c).mem = enqueue(m, q, c.slot) /\ c.slot \in IdleSlots(m)
      BY <1>0, <1>2 DEF Body, enqueue_body, Result
    <2>2. /\ Linked(enqueue(m, q, c.slot))
          /\ IdleSlots(enqueue(m, q, c.slot)) = IdleSlots(m) \ {c.slot}
          /\ Enqueued(m, enqueue(m, q, c.slot), q, c.slot)
      BY <2>1, EnqueueLinked
    <2>3. HelperDid(m, enqueue(m, q, c.slot))
      BY <2>1, <2>2 DEF HelperDid, IdleSlots
    <2> QED
      BY <1>2, <2>1, <2>2, <2>3 DEF Gains, Gives, BodyDid
  <1>3. CASE c.op = "free"
    <2>0. c.slot \in Slots
      BY <1>3 DEF EarlyReturn
    <2>1. Body(m, c) = free_body(m, c.slot)
      BY <1>3 DEF Body
    <2>2. CASE m.prev[c.slot] = FREE
      <3>1. Body(m, c).mem = m /\ Body(m, c).ret = FREE
        BY <2>1, <2>2 DEF free_body, Result
      <3>2. ~ Gains(c, FREE) /\ ~ Gives(c, FREE)
        BY <1>3, <2>0, SlotBytes DEF Gains, Gives
      <3> QED
        BY <3>1, <3>2, Refused
    <2>3. CASE m.prev[c.slot] # FREE
      <3>1. c.slot \in IdleSlots(m)
        BY <1>3, <2>3 DEF FreeSlots
      <3>2. Body(m, c).mem = pool_free(m, c.slot) /\ Body(m, c).ret = c.slot
        BY <2>1, <2>3 DEF free_body, Result
      <3>3. /\ Linked(pool_free(m, c.slot))
            /\ IdleSlots(pool_free(m, c.slot)) = IdleSlots(m) \ {c.slot}
            /\ Released(m, pool_free(m, c.slot), c.slot)
        BY <3>1, FreeLinked
      <3>4. HelperDid(m, pool_free(m, c.slot))
        BY <2>0, <3>3 DEF HelperDid
      <3> QED
        BY <1>3, <3>1, <3>2, <3>3, <3>4 DEF Gains, Gives, BodyDid
    <2> QED
      BY <2>2, <2>3
  <1>4. CASE c.op = "dequeue"
    <2>0. c.slot \in Slots
      BY <1>4 DEF EarlyReturn
    <2>1. Body(m, c) = dequeue_body(m, q, c.slot)
      BY <1>0, <1>4 DEF Body
    <2>2. CASE m.prev[c.slot] \in {FREE, DEQUEUED}
      <3>1. Body(m, c).mem = m /\ Body(m, c).ret = m.prev[c.slot]
        BY <2>1, <2>2 DEF dequeue_body, Result
      <3>2. ~ Gains(c, m.prev[c.slot]) /\ ~ Gives(c, m.prev[c.slot])
        BY <1>4, <2>2, SlotBytes DEF Gains, Gives
      <3> QED
        BY <3>1, <3>2, Refused
    <2>3. CASE m.prev[c.slot] \notin {FREE, DEQUEUED}
      <3>1. c.slot \in QueuedSlots(m) /\ c.slot \notin IdleSlots(m)
        BY <2>0, <2>3 DEF QueuedSlots, IdleSlots
      <3>2. /\ m.head[q] # INVALID
            /\ Linked(dequeue(m, q, c.slot))
            /\ IdleSlots(dequeue(m, q, c.slot)) = IdleSlots(m) \cup {c.slot}
            /\ Dequeued(m, dequeue(m, q, c.slot), q, c.slot)
        BY <3>1, DequeueLinked
      <3>3. Body(m, c).mem = dequeue(m, q, c.slot) /\ Body(m, c).ret = c.slot
        BY <2>1, <2>3, <3>2 DEF dequeue_body, Result
      <3>4. HelperDid(m, dequeue(m, q, c.slot))
        BY <2>0, <3>2 DEF HelperDid
      <3> QED
        BY <1>4, <2>0, <3>1, <3>2, <3>3, <3>4 DEF Gains, Gives, BodyDid
    <2> QED
      BY <2>2, <2>3
  <1>5. CASE c.op = "dequeue_first"
    <2>1. Body(m, c) = dequeue_first_body(m, q)
      BY <1>0, <1>5 DEF Body
    <2>2. CASE m.head[q] = INVALID
      <3>1. Body(m, c).mem = m /\ Body(m, c).ret = INVALID
        BY <2>1, <2>2 DEF dequeue_first_body, Result
      <3>2. ~ Gains(c, INVALID) /\ ~ Gives(c, INVALID)
        BY <1>5, SlotBytes DEF Gains, Gives
      <3> QED
        BY <3>1, <3>2, Refused
    <2>3. CASE m.head[q] # INVALID
      <3> DEFINE h == m.head[q]
      <3>1. h \in QueuedSlots(m) /\ h \in Slots /\ h \notin IdleSlots(m)
        BY <2>3, HeadQueued
      <3>2. Body(m, c).mem = dequeue(m, q, h) /\ Body(m, c).ret = h
        BY <2>1, <2>3 DEF dequeue_first_body, Result
      <3>3. /\ Linked(dequeue(m, q, h))
            /\ IdleSlots(dequeue(m, q, h)) = IdleSlots(m) \cup {h}
            /\ Dequeued(m, dequeue(m, q, h), q, h)
        BY <3>1, DequeueLinked
      <3>4. HelperDid(m, dequeue(m, q, h))
        BY <3>1, <3>3 DEF HelperDid
      <3> HIDE DEF h
      <3> QED
        BY <1>5, <3>1, <3>2, <3>3, <3>4 DEF Gains, Gives, BodyDid
    <2> QED
      BY <2>2, <2>3
  <1>6. CASE c.op = "find_first"
    <2>1. Body(m, c).mem = m
      BY <1>6 DEF Body, find_first_body, Result
    <2>2. ~ Gains(c, Body(m, c).ret) /\ ~ Gives(c, Body(m, c).ret)
      BY <1>6 DEF Gains, Gives
    <2> QED
      BY <2>1, <2>2, Refused
  <1> QED
    BY <1>0, <1>1, <1>2, <1>3, <1>4, <1>5, <1>6 DEF OpNames

----------------------------------------------------------------------------
(***************************************************************************)
(* Ownership of slots, for a pool with one queue.                          *)
(***************************************************************************)
\* One call of one actor keeps every slot with one owner.
LEMMA OwnershipStep ==
  ASSUME NEW a \in Actors, NEW c, NEW mem, NEW ret,
         held \in [Actors -> SUBSET Slots], ExclusiveOwnership,
         BodyDid(pool, c, mem, ret), Gives(c, ret) => c.slot \in held[a],
         pool' = mem, held' = [held EXCEPT ![a] = HeldAfter(a, c, ret)]
  PROVE  /\ held' \in [Actors -> SUBSET Slots]
         /\ ExclusiveOwnership'
         /\ \A b \in Actors : b # a => held'[b] = held[b]
  <1>1. CASE Gains(c, ret)
    <2>1. HeldAfter(a, c, ret) = held[a] \cup {ret} /\ ret \in Slots
      BY <1>1 DEF HeldAfter, Gains
    <2>2. ret \notin IdleSlots(pool) /\ IdleSlots(pool') = IdleSlots(pool) \cup {ret}
      BY <1>1 DEF BodyDid
    <2> QED
      BY <2>1, <2>2 DEF ExclusiveOwnership
  <1>2. CASE Gives(c, ret)
    <2>1. HeldAfter(a, c, ret) = held[a] \ {c.slot} /\ c.slot \in held[a]
      BY <1>2 DEF HeldAfter, Gives
    <2>2. IdleSlots(pool') = IdleSlots(pool) \ {c.slot}
      BY <1>2 DEF BodyDid
    <2> QED
      BY <2>1, <2>2 DEF ExclusiveOwnership
  <1>3. CASE ~ Gains(c, ret) /\ ~ Gives(c, ret)
    <2>1. HeldAfter(a, c, ret) = held[a]
      BY <1>3 DEF HeldAfter, Gains, Gives
    <2>2. IdleSlots(pool') = IdleSlots(pool)
      BY <1>3 DEF BodyDid
    <2> QED
      BY <2>1, <2>2 DEF ExclusiveOwnership
  <1> QED
    BY <1>1, <1>2, <1>3

\* What a disciplined caller passes, as BodyLinked and OwnershipStep ask.
LEMMA DisciplinedArguments ==
  ASSUME NEW a \in Actors, ExclusiveOwnership, NEW c \in Calls, Disciplined(a, c),
         ~ EarlyReturn(c)
  PROVE  /\ c.op = "enqueue" => c.slot \in held[a] /\ c.slot \in IdleSlots(pool)
         /\ c.op = "free" => c.slot \in held[a] /\ c.slot \in IdleSlots(pool)
  <1>1. Num \notin Slots
    BY NumAssumption DEF Slots
  <1> QED
    BY <1>1 DEF Disciplined, EarlyReturn, ExclusiveOwnership

LEMMA PoolInvInit == Init => PoolInv
  <1> SUFFICES ASSUME Init PROVE PoolInv
    OBVIOUS
  <1>1. TypeOK
    BY InitLinked, NoCallType DEF Init, TypeOK, Linked
  <1>2. FreeListLinked(pool) /\ \A q \in Queues : QueueLinked(pool, q)
    BY InitLinked DEF Init, Linked
  <1>3. LockDiscipline /\ CallsInOrder /\ ExclusiveOwnership
    BY DEF Init, LockDiscipline, CallsInOrder, ExclusiveOwnership, Inside
  <1> QED
    BY <1>1, <1>2, <1>3 DEF PoolInv

\* The shape in which the steps below use the invariant.
LEMMA PoolInvParts ==
  PoolInv <=> /\ Linked(pool)
              /\ acquired \in BOOLEAN
              /\ pc \in [Threads -> {"idle", "spin", "locked", "unlock"}]
              /\ call \in [Threads -> Calls]
              /\ snap \in [Threads -> Memory]
              /\ held \in [Actors -> SUBSET Slots]
              /\ LockDiscipline /\ CallsInOrder /\ ExclusiveOwnership
  BY DEF PoolInv, TypeOK, Linked

LEMMA PoolInvPrimed ==
  ASSUME Linked(pool'), acquired' \in BOOLEAN,
         pc' \in [Threads -> {"idle", "spin", "locked", "unlock"}],
         call' \in [Threads -> Calls], snap' \in [Threads -> Memory],
         held' \in [Actors -> SUBSET Slots],
         LockDiscipline', CallsInOrder', ExclusiveOwnership'
  PROVE  PoolInv'
  BY DEF PoolInv, TypeOK, Linked

\* A step that leaves the pool and the holders alone.
LEMMA SamePool ==
  ASSUME PoolInv, pool' = pool, held' = held
  PROVE  Linked(pool') /\ held' \in [Actors -> SUBSET Slots] /\ ExclusiveOwnership'
  BY PoolInvParts DEF ExclusiveOwnership

\* The obligation of a call stands while the call and what its caller holds do.
LEMMA SameCall ==
  ASSUME NEW t \in Threads, call'[t] = call[t], held'[t] = held[t],
         Disciplined(t, call[t])
  PROVE  Disciplined(t, call[t])'
  BY DEF Disciplined

\* A thread that writes under the lock writes what its function computes from
\* the present pool.
LEMMA WrittenUnderLock ==
  ASSUME NEW m \in Memory, NEW n \in Memory
  PROVE  Written(m, n, m) = n
  <1> DEFINE upd(f, g) == [x \in DOMAIN f |-> IF g[x] # f[x] THEN g[x] ELSE f[x]]
  <1>1. upd(m.next, n.next) = n.next /\ upd(m.prev, n.prev) = n.prev
    BY MemoryFields
  <1>2. upd(m.head, n.head) = n.head /\ upd(m.tail, n.tail) = n.tail
    BY MemoryFields
  <1>3. Written(m, n, m) = [first_free |-> n.first_free, num_allocated |-> n.num_allocated,
                            next |-> n.next, prev |-> n.prev, head |-> n.head, tail |-> n.tail]
    BY <1>1, <1>2 DEF Written
  <1> QED
    BY <1>3, MemoryFields

\* One call of actor a: it read the pool as it is, and wrote what its function
\* computed.
CallDid(a) ==
  \E c \in Calls : \E ret :
    /\ BodyDid(pool, c, pool', ret)
    /\ Gives(c, ret) => c.slot \in held[a]
    /\ held' = [held EXCEPT ![a] = HeldAfter(a, c, ret)]

\* A thread that writes holds the lock, so nobody wrote since it read.
LEMMA WriteDid ==
  ASSUME NEW q, Queues = {q}, NoThreadFind, PoolInv, NEW t \in Threads, Write(t)
  PROVE  CallDid(t)
  <1>0. /\ Linked(pool) /\ pool \in Memory /\ call \in [Threads -> Calls]
        /\ LockDiscipline /\ CallsInOrder /\ ExclusiveOwnership
    BY PoolInvParts DEF Linked
  <1> DEFINE c == call[t]
             r == Body(pool, c)
  <1>1. /\ snap[t] = pool /\ c \in Calls /\ ~ EarlyReturn(c) /\ Disciplined(t, c)
    BY <1>0 DEF Write, LockDiscipline, CallsInOrder
  <1>2. t \in Actors
    BY DEF Actors
  <1>3. /\ c.op = "enqueue" => c.slot \in held[t] /\ c.slot \in IdleSlots(pool)
        /\ c.op = "free" => c.slot \in held[t] /\ c.slot \in IdleSlots(pool)
    BY <1>0, <1>1, <1>2, DisciplinedArguments
  <1>4. BodyDid(pool, c, r.mem, r.ret)
    BY <1>0, <1>1, <1>3, BodyLinked
  <1>5. r.mem \in Memory
    BY <1>4 DEF BodyDid, Linked
  <1>6. pool' = r.mem /\ held' = [held EXCEPT ![t] = HeldAfter(t, c, r.ret)]
    BY <1>0, <1>1, <1>5, WrittenUnderLock DEF Write
  <1>7. Gives(c, r.ret) => c.slot \in held[t]
    BY <1>3 DEF Gives
  <1> HIDE DEF c, r
  <1> QED
    BY <1>1, <1>4, <1>6, <1>7 DEF CallDid

\* The core finds the lock free and is not preempted.
LEMMA TryDid ==
  ASSUME NEW q, Queues = {q}, PoolInv, uVisorTry
  PROVE  CallDid(uVisor)
  <1>0. Linked(pool) /\ ExclusiveOwnership
    BY PoolInvParts
  <1>1. PICK c \in Calls :
          /\ Disciplined(uVisor, c) \/ (c.op = "free" /\ c.slot \in FreeSlots(pool))
          /\ ~ EarlyReturn(c)
          /\ pool' = Body(pool, c).mem
          /\ held' = [held EXCEPT ![uVisor] = HeldAfter(uVisor, c, Body(pool, c).ret)]
    BY DEF uVisorTry
  <1> DEFINE r == Body(pool, c)
  <1>2. uVisor \in Actors
    BY DEF Actors
  <1>3. /\ c.op = "enqueue" => c.slot \in held[uVisor] /\ c.slot \in IdleSlots(pool)
        /\ c.op = "free" =>
             \/ c.slot \in FreeSlots(pool)
             \/ c.slot \in held[uVisor] /\ c.slot \in IdleSlots(pool)
    BY <1>0, <1>1, <1>2, DisciplinedArguments
  <1>4. BodyDid(pool, c, r.mem, r.ret)
    BY <1>0, <1>1, <1>3, BodyLinked
  <1>5. Gives(c, r.ret) => c.slot \in held[uVisor]
    <2>1. Gives(c, r.ret) => c.slot \in IdleSlots(pool)
      BY <1>4 DEF BodyDid
    <2>2. c.slot \in IdleSlots(pool) => c.slot \notin FreeSlots(pool)
      BY SlotBytes DEF IdleSlots, FreeSlots
    <2> QED
      BY <1>3, <2>1, <2>2 DEF Gives
  <1>6. pool' = r.mem /\ held' = [held EXCEPT ![uVisor] = HeldAfter(uVisor, c, r.ret)]
    BY <1>1
  <1> HIDE DEF r
  <1> QED
    BY <1>4, <1>5, <1>6 DEF CallDid

\* One call of one actor keeps the lists and the owners in order.
LEMMA CallKeepsOwners ==
  ASSUME NEW a \in Actors, CallDid(a), held \in [Actors -> SUBSET Slots], ExclusiveOwnership
  PROVE  /\ Linked(pool') /\ held' \in [Actors -> SUBSET Slots]
         /\ ExclusiveOwnership'
         /\ \A b \in Actors : b # a => held'[b] = held[b]
  <1>1. PICK c \in Calls : \E ret :
          /\ BodyDid(pool, c, pool', ret)
          /\ Gives(c, ret) => c.slot \in held[a]
          /\ held' = [held EXCEPT ![a] = HeldAfter(a, c, ret)]
    BY DEF CallDid
  <1>2. PICK ret :
          /\ BodyDid(pool, c, pool', ret)
          /\ Gives(c, ret) => c.slot \in held[a]
          /\ held' = [held EXCEPT ![a] = HeldAfter(a, c, ret)]
    BY <1>1
  <1>3. Linked(pool')
    BY <1>2 DEF BodyDid
  <1> QED
    BY <1>2, <1>3, OwnershipStep

LEMMA PoolInvStep ==
  ASSUME NEW q, Queues = {q}, NoThreadFind, PoolInv, [Next]_vars
  PROVE  PoolInv'
  <1>0. /\ Linked(pool) /\ pool \in Memory
        /\ acquired \in BOOLEAN
        /\ pc \in [Threads -> {"idle", "spin", "locked", "unlock"}]
        /\ call \in [Threads -> Calls]
        /\ snap \in [Threads -> Memory]
        /\ held \in [Actors -> SUBSET Slots]
        /\ LockDiscipline /\ CallsInOrder /\ ExclusiveOwnership
    BY PoolInvParts DEF Linked
  <1>1. ASSUME NEW t \in Threads, Enter(t) PROVE PoolInv'
    <2>1. PICK c \in Calls :
            /\ c.op \in ThreadOps /\ Disciplined(t, c) /\ ~ EarlyReturn(c)
            /\ call' = [call EXCEPT ![t] = c]
      BY <1>1 DEF Enter
    <2>2. /\ pc[t] = "idle" /\ pc' = [pc EXCEPT ![t] = "spin"]
          /\ UNCHANGED <<pool, acquired, snap, held>>
      BY <1>1 DEF Enter
    <2>3. LockDiscipline'
      BY <1>0, <2>2 DEF LockDiscipline, Inside
    <2>4. CallsInOrder'
      <3>1. Disciplined(t, call[t])'
        BY <1>0, <2>1, <2>2 DEF Disciplined
      <3> QED
        BY <1>0, <2>1, <2>2, <3>1, SameCall DEF CallsInOrder
    <2> QED
      BY <1>0, <2>1, <2>2, <2>3, <2>4, SamePool, PoolInvPrimed
  <1>2. ASSUME NEW t \in Threads, spin_lock(t) PROVE PoolInv'
    <2>1. /\ pc[t] = "spin" /\ ~ acquired /\ acquired' = TRUE
          /\ pc' = [pc EXCEPT ![t] = "locked"] /\ snap' = [snap EXCEPT ![t] = pool]
          /\ UNCHANGED <<pool, call, held>>
      BY <1>2 DEF spin_lock
    <2>2. LockDiscipline'
      BY <1>0, <2>1 DEF LockDiscipline, Inside
    <2>3. CallsInOrder'
      BY <1>0, <2>1, SameCall DEF CallsInOrder
    <2> QED
      BY <1>0, <2>1, <2>2, <2>3, SamePool, PoolInvPrimed
  <1>3. ASSUME NEW t \in Threads, Write(t) PROVE PoolInv'
    <2>1. pc[t] = "locked" /\ snap[t] = pool /\ call[t].op \in ThreadOps
      BY <1>0, <1>3 DEF Write, LockDiscipline, CallsInOrder
    <2>2. t \in Actors /\ CallDid(t)
      BY <1>3, WriteDid DEF Actors
    <2>3. ~ ReleasesInBody(call[t], Body(pool, call[t]).ret)
      BY <2>1 DEF NoThreadFind, ReleasesInBody
    <2>4. acquired' = acquired /\ pc' = [pc EXCEPT ![t] = "unlock"] /\ call' = call /\ snap' = snap
      BY <1>0, <1>3, <2>1, <2>3 DEF Write
    <2>5. /\ Linked(pool') /\ held' \in [Actors -> SUBSET Slots]
          /\ ExclusiveOwnership'
          /\ \A b \in Actors : b # t => held'[b] = held[b]
      BY <1>0, <2>2, CallKeepsOwners
    <2>6. LockDiscipline'
      BY <1>0, <2>1, <2>4 DEF LockDiscipline, Inside
    <2>7. CallsInOrder'
      <3>1. \A u \in Threads : u # t => held'[u] = held[u] /\ call'[u] = call[u]
        BY <2>4, <2>5 DEF Actors
      <3> QED
        BY <1>0, <2>1, <2>4, <3>1, SameCall DEF CallsInOrder
    <2> QED
      BY <1>0, <2>4, <2>5, <2>6, <2>7, PoolInvPrimed
  <1>4. ASSUME NEW t \in Threads, spin_unlock(t) PROVE PoolInv'
    <2>1. /\ pc[t] = "unlock" /\ acquired' = FALSE
          /\ pc' = [pc EXCEPT ![t] = "idle"] /\ call' = [call EXCEPT ![t] = NoCall]
          /\ snap' = [snap EXCEPT ![t] = pool_queue_init]
          /\ UNCHANGED <<pool, held>>
      BY <1>4 DEF spin_unlock
    <2>2. LockDiscipline'
      BY <1>0, <2>1 DEF LockDiscipline, Inside
    <2>3. CallsInOrder'
      BY <1>0, <2>1, SameCall DEF CallsInOrder
    <2>4. call' \in [Threads -> Calls] /\ snap' \in [Threads -> Memory]
      BY <1>0, <2>1, NoCallType, InitLinked DEF Linked
    <2> QED
      BY <1>0, <2>1, <2>2, <2>3, <2>4, SamePool, PoolInvPrimed
  <1>5. CASE uVisorTry
    <2>1. ~ acquired /\ UNCHANGED <<acquired, pc, call, snap>>
      BY <1>5 DEF uVisorTry
    <2>2. uVisor \in Actors /\ CallDid(uVisor)
      BY <1>5, TryDid DEF Actors
    <2>3. /\ Linked(pool') /\ held' \in [Actors -> SUBSET Slots]
          /\ ExclusiveOwnership'
          /\ \A b \in Actors : b # uVisor => held'[b] = held[b]
      BY <1>0, <2>2, CallKeepsOwners
    <2>4. LockDiscipline'
      BY <1>0, <2>1 DEF LockDiscipline, Inside
    <2>5. CallsInOrder'
      <3>1. \A u \in Threads : held'[u] = held[u] /\ call'[u] = call[u]
        BY <2>1, <2>3, ThreadsAssumption DEF Actors
      <3> QED
        BY <1>0, <2>1, <3>1, SameCall DEF CallsInOrder
    <2> QED
      BY <1>0, <2>1, <2>3, <2>4, <2>5, PoolInvPrimed
  <1>6. CASE UNCHANGED vars
    <2>1. UNCHANGED <<pool, acquired, pc, call, snap, held>>
      BY <1>6 DEF vars
    <2>2. LockDiscipline'
      BY <1>0, <2>1 DEF LockDiscipline, Inside
    <2>3. CallsInOrder'
      BY <1>0, <2>1, SameCall DEF CallsInOrder
    <2> QED
      BY <1>0, <2>1, <2>2, <2>3, SamePool, PoolInvPrimed
  <1> QED
    BY <1>1, <1>2, <1>3, <1>4, <1>5, <1>6 DEF Next, ThreadStep

\* A pool with one queue whose threads do not search it, as the pools of IPC
\* are: for any number of slots and threads, allocate and the dequeues hand a
\* slot to one actor only, even when any slot may be asked out of the queue,
\* and the free list and the queue stay proper lists.
THEOREM SlotsHaveOneOwner ==
  ASSUME NEW q, Queues = {q}, NoThreadFind
  PROVE  Spec => [](PoolInv /\ ExclusiveOwnership)
  <1>1. PoolInv /\ [Next]_vars => PoolInv'
    BY PoolInvStep
  <1>2. PoolInv => ExclusiveOwnership
    BY DEF PoolInv
  <1> QED
    BY <1>1, <1>2, PoolInvInit, PTL DEF Spec
----------------------------------------------------------------------------
(***************************************************************************)
(* What the recursive Chain, and the lists read from it, compute of a      *)
(* proper list.                                                            *)
(***************************************************************************)

\* A set of natural numbers has a least element.
LEMMA LeastElement ==
  ASSUME NEW S, S \subseteq Nat, S # {}
  PROVE  \E i \in S : \A j \in S : i <= j
  <1>1. \E i \in S : \A j \in S : <<j, i>> \notin OpToRel(<, Nat)
    BY NatLessThanWellFounded, WFMin, Zenon
  <1>2. ASSUME NEW i \in S, \A j \in S : <<j, i>> \notin OpToRel(<, Nat), NEW j \in S
        PROVE  i <= j
    <2>1. ~(j < i)
      BY <1>2 DEF OpToRel
    <2> QED
      BY <2>1
  <1> QED
    BY <1>1, <1>2

\* The slots L[1], ..., L[n], linked by next, from s on.
LinksFrom(m, s, n, L) ==
  /\ s = IF n = 0 THEN INVALID ELSE L[1]
  /\ \A i \in 1 .. n : m.next[L[i]] = IF i = n THEN INVALID ELSE L[i + 1]

\* The list is a solution of the recursion of Chain, and the only one.
LEMMA ChainIs ==
  ASSUME NEW m, NEW s, NEW n \in 0 .. Num, NEW L \in [1 .. n -> Slots], LinksFrom(m, s, n, L)
  PROVE  Chain(m, s) = [k \in 0 .. Num + 1 |-> IF k < n THEN L[k + 1] ELSE INVALID]
  <1> DEFINE D == 0 .. Num + 1
             Unfold(at) == [k \in D |-> IF k = 0 THEN s
                                        ELSE IF at[k - 1] \in Slots THEN m.next[at[k - 1]] ELSE INVALID]
             f == [k \in D |-> IF k < n THEN L[k + 1] ELSE INVALID]
  <1>0. n \in Nat /\ Num \in Nat /\ n <= Num /\ D \subseteq Nat /\ 0 \in D /\ INVALID \notin Slots
    BY NumAssumption, SlotBytes
  <1>1. ASSUME NEW k \in D
        PROVE  f[k] = IF k = 0 THEN s ELSE IF f[k - 1] \in Slots THEN m.next[f[k - 1]] ELSE INVALID
    <2>1. CASE k = 0
      BY <1>0, <2>1 DEF LinksFrom
    <2>2. CASE k # 0 /\ k <= n
      <3>1. k - 1 \in D /\ f[k - 1] = L[k] /\ k \in 1 .. n /\ L[k] \in Slots
        BY <1>0, <2>2
      <3>2. m.next[L[k]] = IF k = n THEN INVALID ELSE L[k + 1]
        BY <3>1 DEF LinksFrom
      <3>3. f[k] = IF k = n THEN INVALID ELSE L[k + 1]
        BY <2>2, <1>0
      <3> HIDE DEF f
      <3> QED
        BY <2>2, <3>1, <3>2, <3>3
    <2>3. CASE k > n
      <3>1. k - 1 \in D /\ f[k - 1] = INVALID /\ f[k] = INVALID
        BY <1>0, <2>3
      <3> HIDE DEF f
      <3> QED
        BY <2>3, <3>1, <1>0
    <2> QED
      BY <2>1, <2>2, <2>3, <1>0
  <1>2. f = Unfold(f)
    <2>1. f = [k \in D |-> f[k]]
      OBVIOUS
    <2> HIDE DEF f, D
    <2> QED
      BY <1>1, <2>1
  <1>3. Chain(m, s) = CHOOSE at : at = Unfold(at)
    BY DEF Chain
  <1> DEFINE c == Chain(m, s)
  <1>4. c = Unfold(c)
    <2> HIDE DEF f, D, Unfold
    <2> QED
      BY <1>2, <1>3
  <1>5. \A k \in D : c[k] = IF k = 0 THEN s ELSE IF c[k - 1] \in Slots THEN m.next[c[k - 1]] ELSE INVALID
    <2> HIDE DEF c, D
    <2> QED
      BY <1>4
  <1>6. c = [k \in D |-> c[k]]
    <2> HIDE DEF c, D
    <2> QED
      BY <1>4
  <1> DEFINE Bad == {k \in D : c[k] # f[k]}
  <1>7. ASSUME Bad # {} PROVE FALSE
    <2>1. PICK k \in Bad : \A j \in Bad : k <= j
      BY <1>7, <1>0, LeastElement
    <2>2. k \in D /\ c[k] # f[k] /\ (k # 0 => k - 1 \in D /\ c[k - 1] = f[k - 1])
      <3> HIDE DEF c, f
      <3>1. k # 0 => k - 1 \in D /\ k - 1 \notin Bad
        BY <1>0, <2>1
      <3> QED
        BY <2>1, <3>1
    <2> HIDE DEF c, f, D
    <2> QED
      BY <2>2, <1>1, <1>5
  <1> HIDE DEF c, f, D
  <1>8. \A k \in D : c[k] = f[k]
    BY <1>7
  <1>9. c = f
    <2>1. f = [k \in D |-> f[k]]
      BY DEF f
    <2> QED
      BY <1>6, <1>8, <2>1
  <1> QED
    BY <1>9 DEF c, f, D

\* Hence what ListFrom reads is the list.
LEMMA ListIs ==
  ASSUME NEW m, NEW s, NEW n \in 0 .. Num, NEW L \in [1 .. n -> Slots], LinksFrom(m, s, n, L)
  PROVE  Length(m, s) = n /\ ListFrom(m, s) = L /\ Members(m, s) = {L[i] : i \in 1 .. n}
  <1> DEFINE c == Chain(m, s)
             ends == {k \in DOMAIN c : c[k] \notin Slots}
  <1>0. n \in Nat /\ Num \in Nat /\ n <= Num /\ INVALID \notin Slots
    BY NumAssumption, SlotBytes
  <1>1. c = [k \in 0 .. Num + 1 |-> IF k < n THEN L[k + 1] ELSE INVALID]
    BY ChainIs
  <1> HIDE DEF c
  <1>2. \A k \in 0 .. Num + 1 : IF k < n THEN c[k] = L[k + 1] /\ c[k] \in Slots ELSE c[k] \notin Slots
    BY <1>0, <1>1
  <1>3. DOMAIN c = 0 .. Num + 1
    BY <1>1
  <1>4. ends = n .. Num + 1
    BY <1>0, <1>2, <1>3
  <1>5. ends # {} /\ n \in ends /\ \A j \in ends : n <= j
    BY <1>0, <1>4
  <1>6. (CHOOSE k \in ends : \A j \in ends : k <= j) = n
    <2> HIDE DEF ends
    <2>1. PICK k : k = CHOOSE i \in ends : \A j \in ends : i <= j
      OBVIOUS
    <2>2. k \in ends /\ \A j \in ends : k <= j
      BY <1>5, <2>1
    <2>3. k = n
      BY <1>4, <1>5, <2>2, <1>0
    <2> QED
      BY <2>1, <2>3, Zenon
  <1>7. Length(m, s) = n
    <2>1. Length(m, s) = IF ends = {} THEN Num + 1 ELSE CHOOSE k \in ends : \A j \in ends : k <= j
      BY DEF Length, c
    <2> HIDE DEF ends
    <2> QED
      BY <2>1, <1>5, <1>6
  <1>8. ListFrom(m, s) = L
    <2>1. ListFrom(m, s) = [k \in 1 .. n |-> c[k - 1]]
      BY <1>7 DEF ListFrom, c
    <2>2. \A k \in 1 .. n : c[k - 1] = L[k]
      BY <1>0, <1>2
    <2>3. L = [k \in 1 .. n |-> L[k]]
      OBVIOUS
    <2> QED
      BY <2>1, <2>2, <2>3
  <1>9. Members(m, s) = {L[i] : i \in 1 .. n}
    BY <1>8 DEF Members
  <1> QED
    BY <1>7, <1>8, <1>9

----------------------------------------------------------------------------
(***************************************************************************)
(* The refinement of PoolSpec.                                             *)
(***************************************************************************)
\* The list that is read from the head of a proper queue is the queue.
LEMMA QueueList ==
  ASSUME NEW m, NEW q, NEW n \in 0 .. Num, NEW L \in [1 .. n -> Slots], QueueIs(m, q, n, L)
  PROVE  Length(m, m.head[q]) = n /\ ListFrom(m, m.head[q]) = L /\ Members(m, m.head[q]) = QueuedSlots(m)
  <1>1. LinksFrom(m, m.head[q], n, L)
    BY DEF QueueIs, LinksFrom
  <1>2. QueuedSlots(m) = {L[i] : i \in 1 .. n}
    BY DEF QueueIs
  <1> QED
    BY <1>1, <1>2, ListIs

\* Lists as sequences.
LEMMA AppendedIs ==
  ASSUME NEW n \in Nat, NEW L \in [1 .. n -> Slots], NEW s \in Slots
  PROVE  Appended(n, L, s) = Append(L, s)
  <1>1. L \in Seq(Slots) /\ Len(L) = n
    OBVIOUS
  <1>2. PICK A : A = Append(L, s)
    OBVIOUS
  <1>3. /\ A \in Seq(Slots) /\ Len(A) = n + 1
        /\ \A i \in 1 .. n : A[i] = L[i]
        /\ A[n + 1] = s
    BY <1>1, <1>2, AppendProperties
  <1>4. A \in [1 .. n + 1 -> Slots]
    BY <1>3, LenProperties
  <1>5. A = [i \in 1 .. n + 1 |-> A[i]]
    BY <1>4
  <1>6. \A i \in 1 .. n + 1 : A[i] = IF i = n + 1 THEN s ELSE L[i]
    BY <1>3
  <1>7. A = Appended(n, L, s)
    BY <1>5, <1>6 DEF Appended
  <1> QED
    BY <1>2, <1>7

LEMMA WithoutIs ==
  ASSUME NEW n \in Nat, NEW L \in [1 .. n -> Slots], NEW p \in 1 .. n
  PROVE  Without(n, L, p) = Abs!RemoveAt(L, p)
  <1>1. L \in Seq(Slots) /\ Len(L) = n /\ DOMAIN L = 1 .. n
    OBVIOUS
  <1> DEFINE a == SubSeq(L, 1, p - 1)
             b == SubSeq(L, p + 1, n)
  <1>2. /\ a \in Seq(Slots) /\ Len(a) = p - 1
        /\ \A i \in 1 .. p - 1 : a[i] = L[i]
    <2>1. 1 \in Int /\ p - 1 \in Int /\ \A i \in 1 .. p - 1 : L[i] \in Slots
      OBVIOUS
    <2>2. /\ a \in Seq(Slots) /\ Len(a) = IF 1 <= p - 1 THEN (p - 1) - 1 + 1 ELSE 0
          /\ \A i \in 1 .. (p - 1) - 1 + 1 : a[i] = L[1 + i - 1]
      BY <2>1, SubSeqProperties
    <2> HIDE DEF a
    <2> QED
      BY <2>2
  <1>3. /\ b \in Seq(Slots) /\ Len(b) = n - p
        /\ \A i \in 1 .. n - p : b[i] = L[p + i]
    <2>1. p + 1 \in Int /\ n \in Int /\ \A i \in p + 1 .. n : L[i] \in Slots
      OBVIOUS
    <2>2. /\ b \in Seq(Slots) /\ Len(b) = IF p + 1 <= n THEN n - (p + 1) + 1 ELSE 0
          /\ \A i \in 1 .. n - (p + 1) + 1 : b[i] = L[(p + 1) + i - 1]
      BY <2>1, SubSeqProperties
    <2> HIDE DEF b
    <2> QED
      BY <2>2
  <1>4. Abs!RemoveAt(L, p) = a \o b
    BY <1>1 DEF Abs!RemoveAt
  <1> HIDE DEF a, b
  <1>5. /\ a \o b \in Seq(Slots) /\ Len(a \o b) = n - 1
        /\ \A i \in 1 .. n - 1 : (a \o b)[i] = IF i <= p - 1 THEN a[i] ELSE b[i - (p - 1)]
    <2>1. /\ a \o b \in Seq(Slots) /\ Len(a \o b) = Len(a) + Len(b)
          /\ \A i \in 1 .. Len(a) + Len(b) : (a \o b)[i] = IF i <= Len(a) THEN a[i] ELSE b[i - Len(a)]
      BY <1>2, <1>3, ConcatProperties
    <2>2. Len(a) + Len(b) = n - 1 /\ Len(a) = p - 1
      BY <1>2, <1>3
    <2> QED
      BY <2>1, <2>2
  <1>6. \A i \in 1 .. n - 1 : (a \o b)[i] = IF i < p THEN L[i] ELSE L[i + 1]
    <2> SUFFICES ASSUME NEW i \in 1 .. n - 1
                 PROVE  (a \o b)[i] = IF i < p THEN L[i] ELSE L[i + 1]
      OBVIOUS
    <2>1. CASE i < p
      BY <1>2, <1>5, <2>1
    <2>2. CASE i >= p
      <3>1. i - (p - 1) \in 1 .. n - p /\ p + (i - (p - 1)) = i + 1
        BY <2>2
      <3> QED
        BY <1>3, <1>5, <2>2, <3>1
    <2>3. i \in Int /\ p \in Int
      OBVIOUS
    <2>4. i < p \/ i >= p
      BY <2>3
    <2> QED
      BY <2>1, <2>2, <2>4
  <1>7. a \o b = [i \in 1 .. n - 1 |-> (a \o b)[i]]
    <2>1. PICK ab : ab = a \o b
      OBVIOUS
    <2>2. ab \in Seq(Slots) /\ Len(ab) = n - 1
      BY <1>5, <2>1
    <2>3. ab \in [1 .. Len(ab) -> Slots]
      BY <2>2, LenProperties
    <2>4. ab = [i \in 1 .. n - 1 |-> ab[i]]
      BY <2>2, <2>3
    <2> QED
      BY <2>1, <2>4, Zenon
  <1> QED
    BY <1>4, <1>6, <1>7 DEF Without

\* The state of PoolSpec that a pool stands for.
Lists(m) == [q \in Queues |-> ListFrom(m, m.head[q])]

\* The only queue is L.
Single(L) == [q \in Queues |-> L]

LEMMA OnlyList ==
  ASSUME NEW q, Queues = {q}, NEW m, NEW n \in 0 .. Num, NEW L \in [1 .. n -> Slots], QueueIs(m, q, n, L)
  PROVE  Lists(m) = Single(L)
  BY QueueList DEF Lists, Single

\* What a helper does to the pool is a step of PoolSpec.
LEMMA HelperRefines ==
  ASSUME NEW q, Queues = {q}, Linked(pool), HelperDid(pool, pool')
  PROVE  [Abs!Next]_<<FreeSlots(pool), IdleSlots(pool), Lists(pool)>>
  <1>1. PICK len \in 0 .. Num : \E L \in [1 .. len -> Slots] : QueueIs(pool, q, len, L)
    BY DEF Linked, QueueLinked
  <1>2. PICK L \in [1 .. len -> Slots] : QueueIs(pool, q, len, L)
    BY <1>1
  <1>3. ASSUME QueuesKept(pool, pool') PROVE Lists(pool') = Lists(pool)
    BY <1>2, <1>3, OnlyList DEF QueuesKept
  <1>4. CASE pool' = pool
    BY <1>4 DEF FreeSlots, IdleSlots, Lists
  <1>5. ASSUME NEW s \in Slots, Allocated(pool, pool', s) PROVE Abs!Allocate(s)
    BY <1>3, <1>5 DEF Allocated, Abs!Allocate, Lists
  <1>6. ASSUME NEW s \in Slots, Released(pool, pool', s) PROVE Abs!Free(s)
    BY <1>3, <1>6 DEF Released, Abs!Free, Lists
  <1>7. ASSUME NEW s \in Slots, Enqueued(pool, pool', q, s) PROVE Abs!Enqueue(q, s)
    <2>1. PICK k \in 0 .. Num : \E K \in [1 .. k -> Slots] :
            /\ QueueIs(pool, q, k, K)
            /\ k + 1 \in 0 .. Num /\ Appended(k, K, s) \in [1 .. k + 1 -> Slots]
            /\ QueueIs(pool', q, k + 1, Appended(k, K, s))
      BY <1>7 DEF Enqueued
    <2>2. PICK K \in [1 .. k -> Slots] :
            /\ QueueIs(pool, q, k, K)
            /\ k + 1 \in 0 .. Num /\ Appended(k, K, s) \in [1 .. k + 1 -> Slots]
            /\ QueueIs(pool', q, k + 1, Appended(k, K, s))
      BY <2>1
    <2>3. /\ Lists(pool) = Single(K)
          /\ Lists(pool') = Single(Appended(k, K, s))
      <3>1. Lists(pool) = Single(K)
        BY <2>2, OnlyList
      <3>2. PICK A : A = Appended(k, K, s)
        OBVIOUS
      <3>3. k + 1 \in 0 .. Num /\ A \in [1 .. k + 1 -> Slots] /\ QueueIs(pool', q, k + 1, A)
        BY <2>2, <3>2
      <3>4. Lists(pool') = Single(A)
        BY <3>3, OnlyList
      <3> QED
        BY <3>1, <3>2, <3>4
    <2>4. Appended(k, K, s) = Append(K, s)
      BY AppendedIs
    <2>5. Lists(pool') = [Lists(pool) EXCEPT ![q] = Append(@, s)]
      BY <2>3, <2>4 DEF Single
    <2> QED
      BY <1>7, <2>5 DEF Enqueued, FreeListKept, Abs!Enqueue, Lists
  <1>8. ASSUME NEW s \in Slots, Dequeued(pool, pool', q, s)
        PROVE  \E i \in DOMAIN Lists(pool)[q] : Abs!Dequeue(q, i)
    <2>1. PICK k \in 0 .. Num : \E K \in [1 .. k -> Slots] : \E p \in 1 .. k :
            /\ QueueIs(pool, q, k, K) /\ K[p] = s
            /\ k - 1 \in 0 .. Num /\ Without(k, K, p) \in [1 .. k - 1 -> Slots]
            /\ QueueIs(pool', q, k - 1, Without(k, K, p))
      BY <1>8 DEF Dequeued
    <2>2. PICK K \in [1 .. k -> Slots] : \E p \in 1 .. k :
            /\ QueueIs(pool, q, k, K) /\ K[p] = s
            /\ k - 1 \in 0 .. Num /\ Without(k, K, p) \in [1 .. k - 1 -> Slots]
            /\ QueueIs(pool', q, k - 1, Without(k, K, p))
      BY <2>1
    <2>3. PICK p \in 1 .. k :
            /\ QueueIs(pool, q, k, K) /\ K[p] = s
            /\ k - 1 \in 0 .. Num /\ Without(k, K, p) \in [1 .. k - 1 -> Slots]
            /\ QueueIs(pool', q, k - 1, Without(k, K, p))
      BY <2>2
    <2>4. /\ Lists(pool) = Single(K)
          /\ Lists(pool') = Single(Without(k, K, p))
      <3>1. Lists(pool) = Single(K)
        BY <2>3, OnlyList
      <3>2. PICK A, j : A = Without(k, K, p) /\ j = k - 1
        OBVIOUS
      <3>3. j \in 0 .. Num /\ A \in [1 .. j -> Slots] /\ QueueIs(pool', q, j, A)
        BY <2>3, <3>2, Zenon
      <3>4. Lists(pool') = Single(A)
        BY <3>3, OnlyList
      <3> QED
        BY <3>1, <3>2, <3>4
    <2>5. Without(k, K, p) = Abs!RemoveAt(K, p)
      BY WithoutIs
    <2>6. /\ Lists(pool') = [Lists(pool) EXCEPT ![q] = Abs!RemoveAt(@, p)]
          /\ Lists(pool)[q][p] = s /\ p \in DOMAIN Lists(pool)[q]
      BY <2>3, <2>4, <2>5 DEF Single
    <2>7. Abs!Dequeue(q, p)
      BY <1>8, <2>6 DEF Dequeued, FreeListKept, Abs!Dequeue, Lists
    <2> QED
      BY <2>6, <2>7
  <1> QED
    BY <1>4, <1>5, <1>6, <1>7, <1>8 DEF HelperDid, Abs!Next, Lists

\* A step is one call of one actor, or leaves the pool and the holders alone.
LEMMA StepDid ==
  ASSUME NEW q, Queues = {q}, NoThreadFind, PoolInv, [Next]_vars
  PROVE  (\E a \in Actors : CallDid(a)) \/ (pool' = pool /\ held' = held)
  <1>1. ASSUME NEW t \in Threads, Write(t) PROVE t \in Actors /\ CallDid(t)
    BY <1>1, WriteDid DEF Actors
  <1>2. ASSUME uVisorTry PROVE uVisor \in Actors /\ CallDid(uVisor)
    BY <1>2, TryDid DEF Actors
  <1>3. ASSUME NEW t \in Threads, Enter(t) \/ spin_lock(t) \/ spin_unlock(t)
        PROVE  pool' = pool /\ held' = held
    BY <1>3 DEF Enter, spin_lock, spin_unlock
  <1>4. UNCHANGED vars => pool' = pool /\ held' = held
    BY DEF vars
  <1> QED
    BY <1>1, <1>2, <1>3, <1>4 DEF Next, ThreadStep

LEMMA InitRefines ==
  ASSUME NEW q, Queues = {q}, Init
  PROVE  Abs!Init
  <1>1. QueueIs(pool, q, 0, <<>>) /\ FreeSlots(pool) = Slots /\ IdleSlots(pool) = {}
    BY SlotBytes DEF Init, QueueIs, pool_queue_init, QueuedSlots, FreeSlots, IdleSlots
  <1>2. 0 \in 0 .. Num /\ <<>> \in [1 .. 0 -> Slots]
    BY NumAssumption
  <1>3. Lists(pool) = Single(<<>>)
    BY <1>1, <1>2, OnlyList
  <1> QED
    BY <1>1, <1>3 DEF Lists, Single, Abs!Init

\* The variables of PoolSpec, as Abs maps them.
AbsVars ==
  <<FreeSlots(pool), IdleSlots(pool), [q \in Queues |-> ListFrom(pool, pool.head[q])]>>

\* A pool with one queue whose threads do not search it implements PoolSpec:
\* whatever the interleaving of threads and core, a step allocates a slot,
\* releases one, appends one, or takes one out of the queue without disturbing
\* the order of the others.
THEOREM PoolImplementsSpec ==
  ASSUME NEW only, Queues = {only}, NoThreadFind
  PROVE  Spec => ImplementsPoolSpec
  <1>1. Init => Abs!Init
    BY InitRefines
  <1>2. PoolInv /\ [Next]_vars
        => [Abs!Next]_AbsVars
    <2> SUFFICES ASSUME PoolInv, [Next]_vars
                 PROVE  [Abs!Next]_<<FreeSlots(pool), IdleSlots(pool), Lists(pool)>>
      BY DEF Lists, AbsVars
    <2>1. Linked(pool)
      BY PoolInvParts
    <2>2. HelperDid(pool, pool')
      BY StepDid DEF CallDid, BodyDid, HelperDid
    <2> QED
      BY <2>1, <2>2, HelperRefines
  <1>3. PoolInv /\ [Next]_vars => PoolInv'
    BY PoolInvStep
  <1>4. Spec => Abs!Init /\ [][Abs!Next]_AbsVars
    BY <1>1, <1>2, <1>3, PoolInvInit, PTL DEF Spec
  <1> QED
    BY <1>4, PTL DEF ImplementsPoolSpec, Abs!Spec, AbsVars

----------------------------------------------------------------------------
(***************************************************************************)
(* No slot is lost.                                                        *)
(***************************************************************************)
\* The free slots are exactly F[1], ..., F[n], linked in this order.
FreeListIs(m, n, F) ==
  /\ \A i, j \in 1 .. n : F[i] = F[j] => i = j
  /\ FreeSlots(m) = {F[i] : i \in 1 .. n}
  /\ LinksFrom(m, m.first_free, n, F)

FreeListChained(m) == \E n \in 0 .. Num : \E F \in [1 .. n -> Slots] : FreeListIs(m, n, F)

Counted(m) == m.num_allocated = Num - Cardinality(FreeSlots(m))

Prepended(n, F, s) == [i \in 1 .. n + 1 |-> IF i = 1 THEN s ELSE F[i - 1]]

LEMMA FreeSlotsFinite ==
  ASSUME NEW m
  PROVE  /\ IsFiniteSet(FreeSlots(m))
         /\ Cardinality(FreeSlots(m)) \in 0 .. Num
  <1>1. IsFiniteSet(Slots) /\ Cardinality(Slots) = Num
    BY FS_Interval, NumAssumption DEF Slots
  <1>2. FreeSlots(m) \subseteq Slots
    BY DEF FreeSlots
  <1>3. /\ IsFiniteSet(FreeSlots(m))
        /\ Cardinality(FreeSlots(m)) <= Num
    BY <1>1, <1>2, FS_Subset
  <1>4. Cardinality(FreeSlots(m)) \in Nat
    BY <1>3, FS_CardinalityType
  <1> QED
    BY <1>3, <1>4, NumAssumption

\* A free list stays as it is when the entries of its slots do.
LEMMA KeptFree ==
  ASSUME NEW m, NEW n, FreeListKept(m, n), FreeListChained(m), Counted(m)
  PROVE  FreeListChained(n) /\ Counted(n)
  <1>1. PICK k \in 0 .. Num : \E F \in [1 .. k -> Slots] : FreeListIs(m, k, F)
    BY DEF FreeListChained
  <1>2. PICK F \in [1 .. k -> Slots] : FreeListIs(m, k, F)
    BY <1>1
  <1>3. \A i \in 1 .. k : n.next[F[i]] = m.next[F[i]]
    BY <1>2 DEF FreeListIs, FreeListKept
  <1>4. FreeListIs(n, k, F)
    BY <1>2, <1>3 DEF FreeListIs, LinksFrom, FreeListKept
  <1> QED
    BY <1>4 DEF FreeListChained, Counted, FreeListKept

\* pool_alloc takes the first slot off the list and counts it.
LEMMA AllocatedFree ==
  ASSUME NEW m, NEW n, NEW s \in Slots, Allocated(m, n, s), FreeListChained(m), Counted(m)
  PROVE  FreeListChained(n) /\ Counted(n)
  <1>1. PICK k \in 0 .. Num : \E F \in [1 .. k -> Slots] : FreeListIs(m, k, F)
    BY DEF FreeListChained
  <1>2. PICK F \in [1 .. k -> Slots] : FreeListIs(m, k, F)
    BY <1>1
  <1>k. k \in Nat /\ k <= Num /\ Num \in Nat
    BY NumAssumption
  <1>3. k # 0 /\ F[1] = s
    BY <1>2, <1>k, SlotBytes DEF FreeListIs, LinksFrom, Allocated
  <1> DEFINE G == Without(k, F, 1)
  <1>4. /\ k - 1 \in 0 .. Num /\ G \in [1 .. k - 1 -> Slots]
        /\ \A i \in 1 .. k - 1 : G[i] = F[i + 1]
    BY <1>3, <1>k DEF Without
  <1> HIDE DEF G
  <1>5. \A i, j \in 1 .. k - 1 : G[i] = G[j] => i = j
    <2> SUFFICES ASSUME NEW i \in 1 .. k - 1, NEW j \in 1 .. k - 1, G[i] = G[j] PROVE i = j
      OBVIOUS
    <2>1. i + 1 \in 1 .. k /\ j + 1 \in 1 .. k /\ F[i + 1] = F[j + 1]
      BY <1>4, <1>k
    <2>2. i + 1 = j + 1
      BY <1>2, <2>1 DEF FreeListIs
    <2> QED
      BY <2>2
  <1>6. FreeSlots(n) = {G[i] : i \in 1 .. k - 1}
    <2>1. FreeSlots(n) = {F[i] : i \in 1 .. k} \ {s}
      BY <1>2 DEF FreeListIs, Allocated
    <2>2. ASSUME NEW i \in 1 .. k, F[i] # s PROVE \E j \in 1 .. k - 1 : G[j] = F[i]
      <3>1. i # 1
        BY <1>3, <2>2
      <3>2. i - 1 \in 1 .. k - 1 /\ (i - 1) + 1 = i
        BY <3>1, <1>k
      <3> QED
        BY <1>4, <3>2
    <2>3. ASSUME NEW j \in 1 .. k - 1 PROVE \E i \in 1 .. k : F[i] = G[j] /\ F[i] # s
      <3>1. j + 1 \in 1 .. k /\ j + 1 # 1 /\ 1 \in 1 .. k
        BY <1>k, <1>3
      <3>2. F[j + 1] # s
        BY <1>2, <1>3, <3>1 DEF FreeListIs
      <3> QED
        BY <1>4, <3>1, <3>2
    <2> QED
      BY <2>1, <2>2, <2>3
  <1>7. LinksFrom(n, n.first_free, k - 1, G)
    <2>1. 1 \in 1 .. k /\ m.next[F[1]] = IF k = 1 THEN INVALID ELSE F[2]
      BY <1>2, <1>3, <1>k DEF FreeListIs, LinksFrom
    <2>2. n.first_free = IF k - 1 = 0 THEN INVALID ELSE G[1]
      BY <1>3, <1>4, <1>k, <2>1 DEF Allocated
    <2>3. ASSUME NEW i \in 1 .. k - 1
          PROVE  n.next[G[i]] = IF i = k - 1 THEN INVALID ELSE G[i + 1]
      <3>1. i + 1 \in 1 .. k /\ (i + 1 = k <=> i = k - 1) /\ (i # k - 1 => i + 1 \in 1 .. k - 1)
        BY <1>k
      <3>2. m.next[F[i + 1]] = IF i = k - 1 THEN INVALID ELSE F[(i + 1) + 1]
        BY <1>2, <3>1 DEF FreeListIs, LinksFrom
      <3>3. G[i] \in FreeSlots(m) \ {s}
        BY <1>6 DEF Allocated
      <3>4. n.next[G[i]] = m.next[G[i]]
        BY <3>3 DEF Allocated
      <3> QED
        BY <1>4, <3>1, <3>2, <3>4
    <2> QED
      BY <2>2, <2>3 DEF LinksFrom
  <1>8. Counted(n)
    <2>1. s \in FreeSlots(m) /\ FreeSlots(n) = FreeSlots(m) \ {s}
          /\ n.num_allocated = (m.num_allocated + 1) % 256
      BY DEF Allocated
    <2>2. Cardinality(FreeSlots(n)) = Cardinality(FreeSlots(m)) - 1
      BY <2>1, FreeSlotsFinite, FS_RemoveElement
    <2>3. Cardinality(FreeSlots(m)) \in 0 .. Num /\ Cardinality(FreeSlots(n)) \in 0 .. Num
      BY FreeSlotsFinite
    <2>4. \A x \in 0 .. Num : \A y \in 0 .. Num : y = x - 1 => (Num - x + 1) % 256 = Num - y
      BY NumAssumption
    <2> QED
      BY <2>1, <2>2, <2>3, <2>4 DEF Counted
  <1> QED
    BY <1>4, <1>5, <1>6, <1>7, <1>8 DEF FreeListIs, FreeListChained

\* pool_free puts the slot in front of the list and uncounts it.
LEMMA ReleasedFree ==
  ASSUME NEW m, NEW n, NEW s \in Slots, Released(m, n, s), FreeListChained(m), Counted(m)
  PROVE  FreeListChained(n) /\ Counted(n)
  <1>1. PICK k \in 0 .. Num : \E F \in [1 .. k -> Slots] : FreeListIs(m, k, F)
    BY DEF FreeListChained
  <1>2. PICK F \in [1 .. k -> Slots] : FreeListIs(m, k, F)
    BY <1>1
  <1>k. k \in Nat /\ k <= Num /\ Num \in Nat
    BY NumAssumption
  <1>3. \A i \in 1 .. k : F[i] \in FreeSlots(m) /\ F[i] # s /\ n.next[F[i]] = m.next[F[i]]
    BY <1>2 DEF FreeListIs, Released
  <1> DEFINE G == Prepended(k, F, s)
  <1>4. /\ k + 1 \in Nat /\ G \in [1 .. k + 1 -> Slots]
        /\ G[1] = s /\ \A i \in 1 .. k : G[i + 1] = F[i]
    BY <1>k DEF Prepended
  <1> HIDE DEF G
  <1>x. \A i \in 1 .. k + 1 : i = 1 \/ (i - 1 \in 1 .. k /\ G[i] = F[i - 1])
    <2> SUFFICES ASSUME NEW i \in 1 .. k + 1, i # 1 PROVE i - 1 \in 1 .. k /\ G[i] = F[i - 1]
      OBVIOUS
    <2>1. i - 1 \in 1 .. k /\ (i - 1) + 1 = i
      BY <1>k
    <2> QED
      BY <1>4, <2>1
  <1>5. \A i, j \in 1 .. k + 1 : G[i] = G[j] => i = j
    <2> SUFFICES ASSUME NEW i \in 1 .. k + 1, NEW j \in 1 .. k + 1, G[i] = G[j] PROVE i = j
      OBVIOUS
    <2>1. CASE i = 1 \/ j = 1
      BY <1>3, <1>4, <1>x, <2>1
    <2>2. CASE i # 1 /\ j # 1
      <3>1. i - 1 \in 1 .. k /\ j - 1 \in 1 .. k /\ F[i - 1] = F[j - 1]
        BY <1>x, <2>2
      <3>2. i - 1 = j - 1
        BY <1>2, <3>1 DEF FreeListIs
      <3> QED
        BY <3>2
    <2> QED
      BY <2>1, <2>2
  <1>6. k + 1 \in 0 .. Num
    BY <1>4, <1>5, <1>k, ListFits
  <1>7. FreeSlots(n) = {G[i] : i \in 1 .. k + 1}
    <2>1. FreeSlots(n) = {F[i] : i \in 1 .. k} \cup {s}
      BY <1>2 DEF FreeListIs, Released
    <2>2. ASSUME NEW i \in 1 .. k PROVE i + 1 \in 1 .. k + 1 /\ G[i + 1] = F[i]
      BY <1>4, <1>k
    <2>3. 1 \in 1 .. k + 1
      BY <1>k
    <2> QED
      BY <1>4, <1>x, <2>1, <2>2, <2>3
  <1>8. LinksFrom(n, n.first_free, k + 1, G)
    <2>1. n.first_free = IF k + 1 = 0 THEN INVALID ELSE G[1]
      BY <1>4, <1>k DEF Released
    <2>2. ASSUME NEW i \in 1 .. k + 1
          PROVE  n.next[G[i]] = IF i = k + 1 THEN INVALID ELSE G[i + 1]
      <3>1. CASE i = 1
        <4>1. n.next[G[i]] = IF k = 0 THEN INVALID ELSE F[1]
          BY <1>2, <1>4, <3>1 DEF Released, FreeListIs, LinksFrom
        <4>2. k # 0 => 1 \in 1 .. k /\ G[1 + 1] = F[1]
          BY <1>4, <1>k
        <4> QED
          BY <3>1, <4>1, <4>2, <1>k
      <3>2. CASE i # 1
        <4>1. i - 1 \in 1 .. k /\ G[i] = F[i - 1] /\ (i - 1) + 1 = i
              /\ (i - 1 = k <=> i = k + 1) /\ (i # k + 1 => i \in 1 .. k)
          BY <1>x, <1>k, <3>2
        <4>2. n.next[G[i]] = IF i = k + 1 THEN INVALID ELSE F[i]
          BY <1>2, <1>3, <4>1 DEF FreeListIs, LinksFrom
        <4> QED
          BY <1>4, <4>1, <4>2
      <3> QED
        BY <3>1, <3>2
    <2> QED
      BY <2>1, <2>2 DEF LinksFrom
  <1>9. Counted(n)
    <2>1. s \notin FreeSlots(m) /\ FreeSlots(n) = FreeSlots(m) \cup {s}
          /\ n.num_allocated = (m.num_allocated - 1) % 256
      BY DEF Released
    <2>2. Cardinality(FreeSlots(n)) = Cardinality(FreeSlots(m)) + 1
      BY <2>1, FreeSlotsFinite, FS_AddElement
    <2>3. Cardinality(FreeSlots(m)) \in 0 .. Num /\ Cardinality(FreeSlots(n)) \in 0 .. Num
      BY FreeSlotsFinite
    <2>4. \A x \in 0 .. Num : \A y \in 0 .. Num : y = x + 1 => (Num - x - 1) % 256 = Num - y
      BY NumAssumption
    <2> QED
      BY <2>1, <2>2, <2>3, <2>4 DEF Counted
  <1> QED
    BY <1>4, <1>5, <1>6, <1>7, <1>8, <1>9 DEF FreeListIs, FreeListChained

\* The inductive invariant for SlotsConserved: beside PoolInv, the free list is
\* one list of all free slots, num_allocated counts the others, and every slot
\* that is out has a holder.
ConserveInv ==
  /\ PoolInv
  /\ FreeListChained(pool)
  /\ Counted(pool)
  /\ \A s \in IdleSlots(pool) : \E a \in Actors : s \in held[a]

LEMMA ConserveInit == Init => ConserveInv
  <1> SUFFICES ASSUME Init PROVE ConserveInv
    OBVIOUS
  <1>1. Num \in Nat /\ Num # 0 /\ Num \in 0 .. Num
    BY NumAssumption
  <1>2. /\ pool.first_free = 0 /\ pool.num_allocated = 0
        /\ \A s \in Slots : pool.next[s] = IF s = Num - 1 THEN INVALID ELSE s + 1
        /\ FreeSlots(pool) = Slots /\ IdleSlots(pool) = {}
    BY SlotBytes DEF Init, pool_queue_init, FreeSlots, IdleSlots
  <1> DEFINE F == [i \in 1 .. Num |-> i - 1]
  <1>3. /\ F \in [1 .. Num -> Slots] /\ \A i \in 1 .. Num : F[i] = i - 1
    BY <1>1 DEF Slots
  <1> HIDE DEF F
  <1>4. \A i, j \in 1 .. Num : F[i] = F[j] => i = j
    BY <1>3
  <1>5. Slots = {F[i] : i \in 1 .. Num}
    <2>1. ASSUME NEW s \in Slots PROVE \E i \in 1 .. Num : F[i] = s
      <3>1. s + 1 \in 1 .. Num /\ (s + 1) - 1 = s
        BY <1>1 DEF Slots
      <3> QED
        BY <1>3, <3>1
    <2> QED
      BY <1>3, <2>1
  <1>6. LinksFrom(pool, pool.first_free, Num, F)
    <2>1. 1 \in 1 .. Num /\ F[1] = 0
      BY <1>1, <1>3
    <2>2. ASSUME NEW i \in 1 .. Num PROVE pool.next[F[i]] = IF i = Num THEN INVALID ELSE F[i + 1]
      <3>1. F[i] = i - 1 /\ F[i] \in Slots /\ (i - 1 = Num - 1 <=> i = Num) /\ (i - 1) + 1 = i
        BY <1>1, <1>3
      <3>2. i # Num => i + 1 \in 1 .. Num /\ (i + 1) - 1 = i
        BY <1>1
      <3>3. i # Num => F[i + 1] = i
        BY <1>3, <3>2
      <3> QED
        BY <1>2, <3>1, <3>3
    <2> QED
      BY <1>1, <1>2, <2>1, <2>2 DEF LinksFrom
  <1>7. FreeListChained(pool)
    BY <1>1, <1>2, <1>3, <1>4, <1>5, <1>6 DEF FreeListChained, FreeListIs
  <1>8. Counted(pool)
    <2>1. Cardinality(Slots) = Num
      BY FS_Interval, NumAssumption DEF Slots
    <2> QED
      BY <1>1, <1>2, <2>1 DEF Counted
  <1> QED
    BY <1>2, <1>7, <1>8, PoolInvInit DEF ConserveInv

LEMMA ConserveStep ==
  ASSUME NEW q, Queues = {q}, NoThreadFind, ConserveInv, [Next]_vars
  PROVE  ConserveInv'
  <1>1. PoolInv /\ PoolInv'
    BY PoolInvStep DEF ConserveInv
  <1>2. CASE pool' = pool /\ held' = held
    BY <1>1, <1>2 DEF ConserveInv
  <1>3. ASSUME NEW a \in Actors, CallDid(a) PROVE ConserveInv'
    <2>1. PICK c \in Calls : \E ret :
            /\ BodyDid(pool, c, pool', ret)
            /\ Gives(c, ret) => c.slot \in held[a]
            /\ held' = [held EXCEPT ![a] = HeldAfter(a, c, ret)]
      BY <1>3 DEF CallDid
    <2>2. PICK ret :
            /\ BodyDid(pool, c, pool', ret)
            /\ Gives(c, ret) => c.slot \in held[a]
            /\ held' = [held EXCEPT ![a] = HeldAfter(a, c, ret)]
      BY <2>1
    <2>3. FreeListChained(pool') /\ Counted(pool')
      <3>1. HelperDid(pool, pool')
        BY <2>2 DEF BodyDid
      <3>2. FreeListChained(pool) /\ Counted(pool)
        BY DEF ConserveInv
      <3>3. ASSUME NEW s \in Slots, NEW x \in Queues, Enqueued(pool, pool', x, s) \/ Dequeued(pool, pool', x, s)
            PROVE  FreeListKept(pool, pool')
        BY <3>3 DEF Enqueued, Dequeued
      <3> QED
        BY <3>1, <3>2, <3>3, KeptFree, AllocatedFree, ReleasedFree DEF HelperDid
    <2>4. \A s \in IdleSlots(pool') : \E b \in Actors : s \in held'[b]
      <3>0. /\ held \in [Actors -> SUBSET Slots]
            /\ \A s \in IdleSlots(pool) : \E b \in Actors : s \in held[b]
        BY <1>1, PoolInvParts DEF ConserveInv
      <3>1. held'[a] = HeldAfter(a, c, ret) /\ \A b \in Actors : b # a => held'[b] = held[b]
        BY <2>2, <3>0
      <3>2. CASE Gains(c, ret)
        <4>1. held'[a] = held[a] \cup {ret} /\ IdleSlots(pool') = IdleSlots(pool) \cup {ret}
          BY <2>2, <3>1, <3>2 DEF HeldAfter, Gains, BodyDid
        <4> QED
          BY <3>0, <3>1, <4>1
      <3>3. CASE Gives(c, ret)
        <4>1. held'[a] = held[a] \ {c.slot} /\ IdleSlots(pool') = IdleSlots(pool) \ {c.slot}
          BY <2>2, <3>1, <3>3 DEF HeldAfter, Gives, BodyDid
        <4> QED
          BY <3>0, <3>1, <4>1
      <3>4. CASE ~ Gains(c, ret) /\ ~ Gives(c, ret)
        <4>1. held'[a] = held[a] /\ IdleSlots(pool') = IdleSlots(pool)
          BY <2>2, <3>1, <3>4 DEF HeldAfter, Gains, Gives, BodyDid
        <4> QED
          BY <3>0, <3>1, <4>1
      <3> QED
        BY <3>2, <3>3, <3>4
    <2> QED
      BY <1>1, <2>3, <2>4 DEF ConserveInv
  <1> QED
    BY <1>1, <1>2, <1>3, StepDid

LEMMA ConserveImplies ==
  ASSUME NEW q, Queues = {q}, ConserveInv
  PROVE  SlotsConserved
  <1>0. Linked(pool) /\ ExclusiveOwnership /\ held \in [Actors -> SUBSET Slots] /\ Num \in Nat
    BY PoolInvParts, NumAssumption DEF ConserveInv
  <1>1. PICK k \in 0 .. Num : \E F \in [1 .. k -> Slots] : FreeListIs(pool, k, F)
    BY DEF ConserveInv, FreeListChained
  <1>2. PICK F \in [1 .. k -> Slots] : FreeListIs(pool, k, F)
    BY <1>1
  <1>3. Length(pool, pool.first_free) = k /\ Members(pool, pool.first_free) = FreeSlots(pool)
    BY <1>2, ListIs DEF FreeListIs
  <1>4. PICK n \in 0 .. Num : \E L \in [1 .. n -> Slots] : QueueIs(pool, q, n, L)
    BY <1>0 DEF Linked, QueueLinked
  <1>5. PICK L \in [1 .. n -> Slots] : QueueIs(pool, q, n, L)
    BY <1>4
  <1>6. /\ Length(pool, pool.head[q]) = n /\ ListFrom(pool, pool.head[q]) = L
        /\ Members(pool, pool.head[q]) = QueuedSlots(pool)
    BY <1>5, QueueList
  <1>7. /\ pool.head[q] = INVALID <=> pool.tail[q] = INVALID
        /\ \A i \in DOMAIN L : pool.prev[L[i]] = IF i = 1 THEN INVALID ELSE L[i - 1]
        /\ L # <<>> => pool.tail[q] = L[n]
    <2>1. n \in Nat /\ (n = 0 \/ (1 \in 1 .. n /\ n \in 1 .. n)) /\ DOMAIN L = 1 .. n
      OBVIOUS
    <2>2. n = 0 => L = <<>>
      OBVIOUS
    <2> QED
      BY <1>5, <2>1, <2>2, SlotBytes DEF QueueIs
  <1>8. UNION {held[a] : a \in Actors} = IdleSlots(pool)
    BY <1>0 DEF ConserveInv, ExclusiveOwnership
  <1>9. Slots = FreeSlots(pool) \cup IdleSlots(pool) \cup QueuedSlots(pool)
    BY DEF FreeSlots, IdleSlots, QueuedSlots
  <1>10. /\ k <= Num /\ n <= Num
         /\ pool.num_allocated = Num - Cardinality(FreeSlots(pool))
         /\ \A a, b \in Actors : a # b => held[a] \cap held[b] = {}
    BY <1>0 DEF ConserveInv, Counted, ExclusiveOwnership
  <1>11. UNION {Members(pool, pool.head[x]) : x \in Queues} = QueuedSlots(pool)
    BY <1>6
  <1>12. \A x \in Queues : x = q
    OBVIOUS
  <1>13. \A x \in Queues :
           /\ Length(pool, pool.head[x]) <= Num
           /\ pool.head[x] = INVALID <=> pool.tail[x] = INVALID
           /\ \A i \in DOMAIN ListFrom(pool, pool.head[x]) :
                pool.prev[ListFrom(pool, pool.head[x])[i]] =
                  IF i = 1 THEN INVALID ELSE ListFrom(pool, pool.head[x])[i - 1]
           /\ ListFrom(pool, pool.head[x]) # <<>> =>
                pool.tail[x] = ListFrom(pool, pool.head[x])[Length(pool, pool.head[x])]
    BY <1>6, <1>7, <1>10, <1>12
  <1> QED
    BY <1>3, <1>8, <1>9, <1>10, <1>11, <1>12, <1>13 DEF SlotsConserved

\* In such a pool no slot is ever lost or in two places: every slot is on the
\* free list, in the queue or with one actor, the lists have no cycle, and
\* num_allocated, a byte, is the number of slots that are not free.
THEOREM NoSlotIsLost ==
  ASSUME NEW q, Queues = {q}, NoThreadFind
  PROVE  Spec => []SlotsConserved
  <1>1. ConserveInv /\ [Next]_vars => ConserveInv'
    BY ConserveStep
  <1>2. ConserveInv => SlotsConserved
    BY ConserveImplies
  <1> QED
    BY <1>1, <1>2, ConserveInit, PTL DEF Spec
============================================================================
