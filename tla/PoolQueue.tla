----------------------------- MODULE PoolQueue -----------------------------
(***************************************************************************)
(* core/system/src/pool_queue.c under core/system/src/spinlock.c: one pool *)
(* with its queues, used by the threads of a box and by the uVisor core.   *)
(*                                                                         *)
(* Threads call the blocking functions and may be preempted anywhere: a    *)
(* call is a step that takes the spinlock (and reads the pool into snap),  *)
(* a step that writes the pool and a step that releases the lock.  What a  *)
(* thread writes is computed from what it read, so a thread that loses the *)
(* lock in between overwrites what the others did.                         *)
(* The uVisor core calls the try_ functions from exception handlers that   *)
(* no thread preempts: each is one step, and fails when the lock is taken. *)
(***************************************************************************)
EXTENDS PoolOps, FiniteSets

CONSTANTS Threads,     \* threads that share the pool
          ThreadOps    \* the blocking functions they call on this pool

uVisor == "uVisor"
Actors == Threads \cup {uVisor}
OpNames == {"allocate", "enqueue", "free", "dequeue", "dequeue_first", "find_first"}

ASSUME ThreadsAssumption == uVisor \notin Threads /\ IsFiniteSet(Threads)
ASSUME ThreadOpsAssumption == ThreadOps \subseteq OpNames

VARIABLES
  pool,      \* the pool and its queues, a Memory
  acquired,  \* pool->spinlock.acquired
  pc,        \* thread -> "idle" | "spin" | "locked" | "unlock"
  call,      \* thread -> the call it is executing
  snap,      \* thread -> the pool as it read it after taking the lock
  held       \* actor -> slots it got from the pool and has not given back

vars == <<pool, acquired, pc, call, snap, held>>

\* A call names the function, the queue, the slot argument and, for find_first,
\* the slots that query_fn accepts.  Slot Num stands for every slot >= num.
Calls == [op : OpNames, q : Queues, slot : 0 .. Num, matching : SUBSET Slots]

NoCall == [op |-> "allocate", q |-> CHOOSE q \in Queues : TRUE, slot |-> Num, matching |-> {}]

\* Callers give back only what they hold: a slot is enqueued or freed by the
\* actor that allocated or dequeued it.  Any slot may be asked out of a queue,
\* as handle_incoming_rpc does with a slot that it found earlier.  Nobody
\* frees or dequeues with a slot outside the pool but the code handles it.
Disciplined(a, c) ==
  CASE c.op = "enqueue" -> c.slot \in held[a]
    [] c.op = "free"    -> c.slot \in held[a] \cup {Num}
    [] OTHER            -> TRUE

\* Which part of a call its function reads; the rest is fixed, to keep one
\* representative of the calls that do the same.
Canonical(c) ==
  /\ c.op \in {"allocate", "dequeue_first", "find_first"} => c.slot = Num
  /\ c.op \in {"allocate", "free"} => c.q = NoCall.q
  /\ c.op # "find_first" => c.matching = {}

\* uvisor_pool_free and uvisor_pool_queue_dequeue return before taking the
\* lock when the slot is out of range.
EarlyReturn(c) == c.op \in {"free", "dequeue"} /\ c.slot \notin Slots

Body(m, c) ==
  CASE c.op = "allocate"      -> allocate_body(m)
    [] c.op = "enqueue"       -> enqueue_body(m, c.q, c.slot)
    [] c.op = "free"          -> free_body(m, c.slot)
    [] c.op = "dequeue"       -> dequeue_body(m, c.q, c.slot)
    [] c.op = "dequeue_first" -> dequeue_first_body(m, c.q)
    [] c.op = "find_first"    -> find_first_body(m, c.q, c.matching)

\* The slots a holds after a call c that returned r.
HeldAfter(a, c, r) ==
  CASE c.op \in {"allocate", "dequeue", "dequeue_first"} /\ r \in Slots -> held[a] \cup {r}
    [] c.op = "enqueue" \/ (c.op = "free" /\ r = c.slot) -> held[a] \ {c.slot}
    [] OTHER -> held[a]

\* find_first releases the lock itself when a slot matches.
ReleasesInBody(c, r) == c.op = "find_first" /\ r \in Slots

----------------------------------------------------------------------------
Init ==
  /\ pool = pool_queue_init
  /\ acquired = FALSE
  /\ pc = [t \in Threads |-> "idle"]
  /\ call = [t \in Threads |-> NoCall]
  /\ snap = [t \in Threads |-> pool_queue_init]
  /\ held = [a \in Actors |-> {}]

\* A thread enters one of the blocking functions.
Enter(t) ==
  /\ pc[t] = "idle"
  /\ \E c \in Calls :
       /\ c.op \in ThreadOps
       /\ Canonical(c)
       /\ Disciplined(t, c)
       /\ ~ EarlyReturn(c)
       /\ call' = [call EXCEPT ![t] = c]
  /\ pc' = [pc EXCEPT ![t] = "spin"]
  /\ UNCHANGED <<pool, acquired, snap, held>>

\* Mutant of spin_lock: the lock is taken without looking at it.
spin_lock_blind(t) ==
  /\ pc[t] = "spin"
  /\ acquired' = TRUE
  /\ pc' = [pc EXCEPT ![t] = "locked"]
  /\ snap' = [snap EXCEPT ![t] = pool]
  /\ UNCHANGED <<pool, call, held>>

\* uvisor_spin_lock: the compare-and-swap of one spin succeeds; the thread
\* then reads the pool.
spin_lock(t) ==
  /\ pc[t] = "spin"
  /\ ~ acquired
  /\ acquired' = TRUE
  /\ pc' = [pc EXCEPT ![t] = "locked"]
  /\ snap' = [snap EXCEPT ![t] = pool]
  /\ UNCHANGED <<pool, call, held>>

\* cur with the changes from old to new written over it.
Written(old, new, cur) ==
  LET upd(f, g, h) == [x \in DOMAIN h |-> IF g[x] # f[x] THEN g[x] ELSE h[x]]
      val(f, g, h) == IF g # f THEN g ELSE h
  IN  [ first_free    |-> val(old.first_free, new.first_free, cur.first_free),
        num_allocated |-> val(old.num_allocated, new.num_allocated, cur.num_allocated),
        next          |-> upd(old.next, new.next, cur.next),
        prev          |-> upd(old.prev, new.prev, cur.prev),
        head          |-> upd(old.head, new.head, cur.head),
        tail          |-> upd(old.tail, new.tail, cur.tail) ]

\* The thread writes the pool, from what it read under the lock.
Write(t) ==
  LET c == call[t]
      r == Body(snap[t], c)
  IN  /\ pc[t] = "locked"
      /\ pool' = Written(snap[t], r.mem, pool)
      /\ held' = [held EXCEPT ![t] = HeldAfter(t, c, r.ret)]
      /\ acquired' = (acquired /\ ~ ReleasesInBody(c, r.ret))
      /\ pc' = [pc EXCEPT ![t] = "unlock"]
      /\ UNCHANGED <<call, snap>>

\* Mutant of spin_unlock: a function that was refused the slot it asked for
\* returns without releasing the lock.
spin_unlock_forgotten(t) ==
  /\ pc[t] = "unlock"
  /\ acquired' = (acquired /\ Body(snap[t], call[t]).ret \in {FREE, DEQUEUED})
  /\ pc' = [pc EXCEPT ![t] = "idle"]
  /\ call' = [call EXCEPT ![t] = NoCall]
  /\ snap' = [snap EXCEPT ![t] = pool_queue_init]
  /\ UNCHANGED <<pool, held>>

\* uvisor_spin_unlock, which does not ask who holds the lock, and the return.
\* snap and call are dead from here on and are reset.
spin_unlock(t) ==
  /\ pc[t] = "unlock"
  /\ acquired' = FALSE
  /\ pc' = [pc EXCEPT ![t] = "idle"]
  /\ call' = [call EXCEPT ![t] = NoCall]
  /\ snap' = [snap EXCEPT ![t] = pool_queue_init]
  /\ UNCHANGED <<pool, held>>

\* A try_ function of the uVisor core that gets the lock.  When the lock is
\* taken it returns without touching the pool.  The second release of a
\* matching find_first happens within the same handler.
uVisorTry ==
  /\ ~ acquired
  /\ \E c \in Calls :
       LET r == Body(pool, c) IN
       /\ Canonical(c)
       /\ Disciplined(uVisor, c) \/ (c.op = "free" /\ c.slot \in FreeSlots(pool))
       /\ ~ EarlyReturn(c)
       /\ pool' = r.mem
       /\ held' = [held EXCEPT ![uVisor] = HeldAfter(uVisor, c, r.ret)]
  /\ UNCHANGED <<acquired, pc, call, snap>>

ThreadStep(t) == Enter(t) \/ spin_lock(t) \/ Write(t) \/ spin_unlock(t)

Next == (\E t \in Threads : ThreadStep(t)) \/ uVisorTry

\* A thread inside a function keeps running: the scheduler of the box serves
\* every ready thread.  Nobody is obliged to call, or to win the spinlock.
Fairness == \A t \in Threads : WF_vars(Write(t) \/ spin_unlock(t))

Spec == Init /\ [][Next]_vars /\ Fairness

----------------------------------------------------------------------------
TypeOK ==
  /\ pool \in Memory
  /\ acquired \in BOOLEAN
  /\ pc \in [Threads -> {"idle", "spin", "locked", "unlock"}]
  /\ call \in [Threads -> Calls]
  /\ snap \in [Threads -> Memory]
  /\ held \in [Actors -> SUBSET Slots]

\* The spinlock serializes updates to the management array: two threads are
\* never both between reading the pool under the lock and writing it back.
MutualExclusion ==
  \A t, u \in Threads : pc[t] = "locked" /\ pc[u] = "locked" => t = u

\* A slot that an actor got from allocate or from a dequeue is its own: nobody
\* else holds it, and the pool keeps it off the free list and off the queues
\* until the actor gives it back.
ExclusiveOwnership ==
  /\ \A a, b \in Actors : a # b => held[a] \cap held[b] = {}
  /\ \A a \in Actors : held[a] \subseteq IdleSlots(pool)

\* Every slot is at one place: on the free list, in one queue, or held by one
\* actor (or being enqueued); the free list and the queues are proper lists,
\* doubly linked in the case of queues, and num_allocated counts the slots
\* that are not free.  No slot is lost and none is in two places.
SlotsConserved ==
  LET queued(q) == Members(pool, pool.head[q])
      free      == Members(pool, pool.first_free)
  IN  /\ Length(pool, pool.first_free) <= Num
      /\ free = FreeSlots(pool)
      /\ pool.num_allocated = Num - Cardinality(free)
      /\ \A q \in Queues :
           LET l == ListFrom(pool, pool.head[q]) IN
           /\ Length(pool, pool.head[q]) <= Num
           /\ pool.head[q] = INVALID <=> pool.tail[q] = INVALID
           /\ \A k \in DOMAIN l : pool.prev[l[k]] = IF k = 1 THEN INVALID ELSE l[k - 1]
           /\ l # <<>> => pool.tail[q] = l[Length(pool, pool.head[q])]
      /\ \A q1, q2 \in Queues : q1 # q2 => queued(q1) \cap queued(q2) = {}
      /\ \A a, b \in Actors : a # b => held[a] \cap held[b] = {}
      /\ UNION {held[a] : a \in Actors} = IdleSlots(pool)
      /\ Slots = free \cup IdleSlots(pool) \cup UNION {queued(q) : q \in Queues}

\* From the call of spin_lock that succeeds to the spin_unlock before return.
Inside(t) == pc[t] \in {"locked", "unlock"}

\* Why the properties above hold when no thread calls find_first: the lock is
\* taken exactly while one thread is inside, and what it read is still there.
LockDiscipline ==
  /\ acquired <=> \E t \in Threads : Inside(t)
  /\ \A t, u \in Threads : Inside(t) /\ Inside(u) => t = u
  /\ \A t \in Threads : pc[t] = "locked" => snap[t] = pool

\* The free list, link by link: it starts at a free slot, leads from free slots
\* to free slots, and never to the same one twice.
FreeListLinked(m) ==
  /\ m.first_free \in FreeSlots(m) \cup {INVALID}
  /\ \A s \in FreeSlots(m) :
       /\ m.next[s] \in FreeSlots(m) \cup {INVALID}
       /\ m.next[s] # INVALID => m.next[s] # m.first_free
       /\ \A r \in FreeSlots(m) : m.next[r] = m.next[s] /\ m.next[s] # INVALID => r = s

QueuedSlots(m) == {s \in Slots : m.prev[s] \notin {FREE, DEQUEUED}}

\* The slots that are neither free nor out are exactly L[1], ..., L[n], linked
\* in this order in both directions between the head and the tail of queue q.
QueueIs(m, q, n, L) ==
  /\ \A i, j \in 1 .. n : L[i] = L[j] => i = j
  /\ QueuedSlots(m) = {L[i] : i \in 1 .. n}
  /\ m.head[q] = IF n = 0 THEN INVALID ELSE L[1]
  /\ m.tail[q] = IF n = 0 THEN INVALID ELSE L[n]
  /\ \A i \in 1 .. n : /\ m.prev[L[i]] = IF i = 1 THEN INVALID ELSE L[i - 1]
                       /\ m.next[L[i]] = IF i = n THEN INVALID ELSE L[i + 1]

\* Queue q of a pool with one queue is a proper list.
QueueLinked(m, q) == \E n \in 0 .. Num : \E L \in [1 .. n -> Slots] : QueueIs(m, q, n, L)

\* The arguments of a call in progress are still what the discipline asked for.
CallsInOrder ==
  \A t \in Threads :
    /\ pc[t] # "idle" => call[t].op \in ThreadOps /\ ~ EarlyReturn(call[t])
    /\ pc[t] \in {"spin", "locked"} => Disciplined(t, call[t])

\* The inductive invariant of a pool with one queue.
PoolInv ==
  /\ TypeOK
  /\ LockDiscipline
  /\ FreeListLinked(pool)
  /\ \A q \in Queues : QueueLinked(pool, q)
  /\ CallsInOrder
  /\ ExclusiveOwnership

\* A lock that is taken is released again: no path through the functions
\* returns with the lock held.
LockReleased == acquired ~> ~ acquired

----------------------------------------------------------------------------
(***************************************************************************)
(* The pool implements PoolSpec: a set of free slots, a set of slots that  *)
(* are out, and first-in first-out queues.                                 *)
(***************************************************************************)
Abs == INSTANCE PoolSpec WITH
         free   <- FreeSlots(pool),
         out    <- IdleSlots(pool),
         queue  <- [q \in Queues |-> ListFrom(pool, pool.head[q])]

\* Every step of the threads and of the core is an allocation, a release, an
\* append, or the removal of one element that leaves the order of the others.
ImplementsPoolSpec == Abs!Spec
============================================================================
