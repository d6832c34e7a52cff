------------------------------ MODULE PoolSpec ------------------------------
(***************************************************************************)
(* What a pool with queues promises (api/inc/pool_queue_exports.h): a slot *)
(* is free, out (allocated or dequeued) or in one queue; queues keep the   *)
(* order in which slots were enqueued, and any slot can be taken out.      *)
(***************************************************************************)
EXTENDS Integers, SequencesExt

CONSTANTS Slots, Queues

VARIABLES free, out, queue

Init == free = Slots /\ out = {} /\ queue = [q \in Queues |-> <<>>]

Allocate(s) ==
  /\ s \in free
  /\ free' = free \ {s} /\ out' = out \cup {s}
  /\ UNCHANGED queue

Free(s) ==
  /\ s \in out
  /\ out' = out \ {s} /\ free' = free \cup {s}
  /\ UNCHANGED queue

Enqueue(q, s) ==
  /\ s \in out
  /\ out' = out \ {s}
  /\ queue' = [queue EXCEPT ![q] = Append(@, s)]
  /\ UNCHANGED free

Dequeue(q, i) ==
  /\ queue' = [queue EXCEPT ![q] = RemoveAt(@, i)]
  /\ out' = out \cup {queue[q][i]}
  /\ UNCHANGED free

Next ==
  \/ \E s \in Slots : Allocate(s) \/ Free(s)
  \/ \E q \in Queues : \/ \E s \in Slots : Enqueue(q, s)
                       \/ \E i \in DOMAIN queue[q] : Dequeue(q, i)

Spec == Init /\ [][Next]_<<free, out, queue>>
============================================================================
