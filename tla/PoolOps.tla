------------------------------ MODULE PoolOps ------------------------------
(***************************************************************************)
(* The data structure of core/system/src/pool_queue.c: a pool of Num slots *)
(* whose management array threads the free list and the queues of the      *)
(* pool.  Every static helper of the file is an operator from a pool       *)
(* memory to a pool memory; locking and callers are in PoolQueue.          *)
(*                                                                         *)
(* A memory is a record                                                    *)
(*   first_free, num_allocated : fields of uvisor_pool_t                   *)
(*   next, prev                : management_array[s]; the C union lays     *)
(*                               dequeued.state over queued.prev, so prev  *)
(*                               also holds FREE and DEQUEUED              *)
(*   head, tail                : one uvisor_pool_queue_t per queue         *)
(***************************************************************************)
EXTENDS Integers

CONSTANTS Num,      \* pool->num
          Queues    \* the queues laid over the pool

\* uvisor_pool_init refuses num >= UVISOR_POOL_MAX_VALID (0xFC); with num = 0
\* it writes management_array[-1], so every caller passes at least one slot.
ASSUME NumAssumption == Num \in 1..251
ASSUME QueuesAssumption == Queues # {}

INVALID  == 255
DEQUEUED == 254
FREE     == 253

Slots == 0 .. Num - 1
Bytes == 0 .. 255

Memory == [first_free : Bytes, num_allocated : Bytes,
           next : [Slots -> Bytes], prev : [Slots -> Bytes],
           head : [Queues -> Bytes], tail : [Queues -> Bytes]]

\* uvisor_pool_init followed by uvisor_pool_queue_init for every queue.
pool_queue_init ==
  [ first_free    |-> 0,
    num_allocated |-> 0,
    next |-> [s \in Slots |-> IF s = Num - 1 THEN INVALID ELSE s + 1],
    prev |-> [s \in Slots |-> FREE],
    head |-> [q \in Queues |-> INVALID],
    tail |-> [q \in Queues |-> INVALID] ]

pool_alloc(m) ==
  LET fresh == m.first_free IN
  IF fresh = INVALID THEN m
  ELSE [m EXCEPT !.first_free    = m.next[fresh],
                 !.next[fresh]   = INVALID,
                 !.prev[fresh]   = DEQUEUED,
                 !.num_allocated = (@ + 1) % 256]

\* Mutant of enqueue: the slot is linked in front of the queue.
enqueue_front(m, q, s) ==
  IF m.head[q] = INVALID
  THEN [m EXCEPT !.head[q] = s, !.tail[q] = s, !.next[s] = INVALID, !.prev[s] = INVALID]
  ELSE [m EXCEPT !.prev[m.head[q]] = s, !.next[s] = m.head[q], !.prev[s] = INVALID,
                 !.head[q] = s]

enqueue(m, q, s) ==
  IF m.head[q] = INVALID
  THEN [m EXCEPT !.head[q] = s, !.tail[q] = s, !.next[s] = INVALID, !.prev[s] = INVALID]
  ELSE [m EXCEPT !.tail[q] = s, !.next[m.tail[q]] = s, !.next[s] = INVALID,
                 !.prev[s] = m.tail[q]]

\* Mutant of pool_free: the counter of allocated slots is not lowered.
pool_free_uncounted(m, s) ==
  [m EXCEPT !.next[s] = m.first_free, !.prev[s] = FREE, !.first_free = s]

\* Mutant of pool_free: the slot is not marked free.
pool_free_unmarked(m, s) ==
  [m EXCEPT !.next[s] = m.first_free, !.first_free = s,
            !.num_allocated = (@ - 1) % 256]

pool_free(m, s) ==
  [m EXCEPT !.next[s]       = m.first_free,
            !.prev[s]       = FREE,
            !.first_free    = s,
            !.num_allocated = (@ - 1) % 256]

\* Mutant of dequeue: a middle slot is unlinked in one direction only.
dequeue_one_way(m, q, s) ==
  IF m.head[q] = m.tail[q]
  THEN [m EXCEPT !.head[q] = INVALID, !.tail[q] = INVALID,
                 !.next[s] = INVALID, !.prev[s] = DEQUEUED]
  ELSE IF m.head[q] = s
  THEN [m EXCEPT !.head[q] = m.next[s], !.prev[m.next[s]] = INVALID,
                 !.next[s] = INVALID, !.prev[s] = DEQUEUED]
  ELSE IF m.tail[q] = s
  THEN [m EXCEPT !.tail[q] = m.prev[s], !.next[m.prev[s]] = INVALID,
                 !.next[s] = INVALID, !.prev[s] = DEQUEUED]
  ELSE [m EXCEPT !.next[m.prev[s]] = m.next[s],
                 !.next[s] = INVALID, !.prev[s] = DEQUEUED]

\* Note the first test: it asks whether the queue has one slot, not which.
dequeue(m, q, s) ==
  IF m.head[q] = m.tail[q]
  THEN [m EXCEPT !.head[q] = INVALID, !.tail[q] = INVALID,
                 !.next[s] = INVALID, !.prev[s] = DEQUEUED]
  ELSE IF m.head[q] = s
  THEN [m EXCEPT !.head[q] = m.next[s], !.prev[m.next[s]] = INVALID,
                 !.next[s] = INVALID, !.prev[s] = DEQUEUED]
  ELSE IF m.tail[q] = s
  THEN [m EXCEPT !.tail[q] = m.prev[s], !.next[m.prev[s]] = INVALID,
                 !.next[s] = INVALID, !.prev[s] = DEQUEUED]
  ELSE [m EXCEPT !.next[m.prev[s]] = m.next[s], !.prev[m.next[s]] = m.prev[s],
                 !.next[s] = INVALID, !.prev[s] = DEQUEUED]

----------------------------------------------------------------------------
(***************************************************************************)
(* The bodies of the public functions, between taking and releasing the    *)
(* spinlock: [mem |-> the pool after it, ret |-> what is returned].        *)
(***************************************************************************)

Result(m, r) == [mem |-> m, ret |-> r]

allocate_body(m) == Result(pool_alloc(m), m.first_free)

enqueue_body(m, q, s) == Result(enqueue(m, q, s), s)

\* Mutant of free_body: no check that the slot is already free.
free_body_unchecked(m, s) == Result(pool_free(m, s), s)

free_body(m, s) ==
  IF m.prev[s] = FREE THEN Result(m, FREE) ELSE Result(pool_free(m, s), s)

\* Mutant of dequeue_body: only a free slot is recognised as not queued.
dequeue_body_unchecked(m, q, s) ==
  IF m.prev[s] = FREE THEN Result(m, FREE)
  ELSE Result(IF m.head[q] # INVALID THEN dequeue(m, q, s) ELSE m, s)

dequeue_body(m, q, s) ==
  IF m.prev[s] \in {FREE, DEQUEUED} THEN Result(m, m.prev[s])
  ELSE Result(IF m.head[q] # INVALID THEN dequeue(m, q, s) ELSE m, s)

dequeue_first_body(m, q) ==
  LET s == m.head[q] IN
  Result(IF s # INVALID THEN dequeue(m, q, s) ELSE m, s)

\* The slots met by following next from slot s, as far as Num + 1 links:
\* Chain(m, s)[k] is the slot k links away, INVALID past the end.
Chain(m, s) ==
  LET at[k \in 0 .. Num + 1] ==
        IF k = 0 THEN s
        ELSE IF at[k - 1] \in Slots THEN m.next[at[k - 1]] ELSE INVALID
  IN  at

\* query_fn holds of exactly the slots in `matching'.
find_first_body(m, q, matching) ==
  LET at   == Chain(m, m.head[q])
      hits == {k \in DOMAIN at : at[k] \in Slots \cap matching}
  IN  Result(m, IF hits = {} THEN INVALID
                ELSE at[CHOOSE k \in hits : \A j \in hits : k <= j])

----------------------------------------------------------------------------
(***************************************************************************)
(* What a well-formed memory looks like.                                   *)
(***************************************************************************)

\* Links from s to the end of its list; Num + 1 when the list never ends.
Length(m, s) ==
  LET at   == Chain(m, s)
      ends == {k \in DOMAIN at : at[k] \notin Slots}
  IN  IF ends = {} THEN Num + 1 ELSE CHOOSE k \in ends : \A j \in ends : k <= j

\* The list that starts at s, as a sequence of slots.
ListFrom(m, s) == [k \in 1 .. Length(m, s) |-> Chain(m, s)[k - 1]]

Members(m, s) == {ListFrom(m, s)[k] : k \in DOMAIN ListFrom(m, s)}

FreeSlots(m) == {s \in Slots : m.prev[s] = FREE}
IdleSlots(m) == {s \in Slots : m.prev[s] = DEQUEUED}
============================================================================
