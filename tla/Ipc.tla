-------------------------------- MODULE Ipc --------------------------------
(***************************************************************************)
(* Inter-box messages: api/src/ipc.c, run by the threads of the boxes, and *)
(* core/system/src/ipc.c, run by the scheduler when it leaves a box.       *)
(*                                                                         *)
(* A request to send or to receive takes a token and a slot of the pool of *)
(* its kind and is put into the queue of its kind.  The core drains the    *)
(* send queue of a box: it looks for a matching receive request, copies    *)
(* the message and completes both tokens, which the threads wait for.      *)
(*                                                                         *)
(* Pools are used through what PoolSpec promises: a set of free slots and  *)
(* a queue.  A thread is preempted anywhere, also while it holds a lock:   *)
(* the core then finds the lock taken.  No thread runs during a drain.     *)
(***************************************************************************)
EXTENDS Integers, Sequences

CONSTANTS Boxes,
          Threads,
          BoxOf,        \* the box of a thread
          NumTokens,    \* bits of allocated_tokens, 32
          NumSlots,     \* UVISOR_IPC_SEND_SLOTS = UVISOR_IPC_RECV_SLOTS
          ANY,          \* UVISOR_BOX_ID_ANY
          Requests,     \* thread -> the requests it makes, kind and descriptor
          Waits         \* thread -> the waits it makes, condition and tokens

Tokens == 1 .. NumTokens     \* token t is bit t - 1
Slots  == 1 .. NumSlots
NONE   == 0                  \* UVISOR_IPC_INVALID_TOKEN, and first_slot = -1
Kinds  == {"send", "recv"}

\* In a descriptor, box is the destination (of a send) or the permitted sender
\* (of a receive); accessible tells whether descriptor and buffer lie in memory
\* of the caller.  A descriptor is not shared between pending requests.
Descs == {c.desc : c \in UNION {Requests[t] : t \in Threads}}
Entries == [slot : Slots, token : Tokens, desc : Descs]

ASSUME IpcAssumption ==
  /\ BoxOf \in [Threads -> Boxes]
  /\ NumTokens \in Nat \ {0} /\ NumSlots \in Nat \ {0}
  /\ ANY \notin Boxes
  /\ \A t \in Threads : \A c \in Requests[t] : c.kind \in Kinds
  /\ \A t \in Threads : Waits[t] \subseteq [cond : {"any", "all"}, wait : SUBSET Tokens]
  /\ \A d \in Descs : d.len \in Nat /\ d.accessible \in BOOLEAN

VARIABLES
  free,       \* box -> kind -> slots on the free list of the pool
  queue,      \* box -> kind -> the requests in the queue
  allocated,  \* box -> allocated_tokens
  completed,  \* box -> completed_tokens
  pc,         \* thread -> where it is
  job,        \* thread -> the call it executes
  drain       \* the drain in progress: the sending box and first_slot; tick
              \* flips on each pass of the loop, so that no pass is a stutter

vars == <<free, queue, allocated, completed, pc, job, drain>>

Idle == [box |-> ANY, first |-> NONE, tick |-> FALSE]
Draining == drain # Idle

\* At "in_x" a thread holds the lock that x needs, at "want_x" and before it
\* starts a call it spins on that lock.
Places == {"idle", "in_token", "want_slot", "in_slot", "want_enqueue", "in_enqueue", "in_wait"}

NoJob == [call |-> "none"]

\* The lock that thread t holds.
LockOf(t) ==
  CASE pc[t] \in {"in_token", "in_wait"}   -> "tokens"
    [] pc[t] \in {"in_slot", "in_enqueue"} -> job[t].kind
    [] OTHER                               -> "none"

Taken(b, lock) == \E t \in Threads : BoxOf[t] = b /\ LockOf(t) = lock

----------------------------------------------------------------------------
\* ipc_box_init of every box.
Init ==
  /\ free = [b \in Boxes |-> [k \in Kinds |-> Slots]]
  /\ queue = [b \in Boxes |-> [k \in Kinds |-> <<>>]]
  /\ allocated = [b \in Boxes |-> {}]
  /\ completed = [b \in Boxes |-> {}]
  /\ pc = [t \in Threads |-> "idle"]
  /\ job = [t \in Threads |-> NoJob]
  /\ drain = Idle

GoTo(t, from, to) == pc[t] = from /\ pc' = [pc EXCEPT ![t] = to] /\ ~Draining

\* ipc_send and ipc_recv, up to the lock in ipc_allocate_token.
ipc_io(t) ==
  /\ GoTo(t, "idle", "in_token")
  /\ ~Taken(BoxOf[t], "tokens")
  /\ \E c \in Requests[t] :
       job' = [job EXCEPT ![t] = [call |-> "io", kind |-> c.kind, desc |-> c.desc,
                                  token |-> NONE, slot |-> NONE]]
  /\ UNCHANGED <<free, queue, allocated, completed, drain>>

\* ipc_waitforany and ipc_waitforall, up to the lock in ipc_waitfor.
ipc_wait(t) ==
  /\ GoTo(t, "idle", "in_wait")
  /\ ~Taken(BoxOf[t], "tokens")
  /\ \E w \in Waits[t] :
       job' = [job EXCEPT ![t] = [call |-> "wait", cond |-> w.cond, wait |-> w.wait]]
  /\ UNCHANGED <<free, queue, allocated, completed, drain>>

\* The lock of the pool, before a slot is allocated and before it is enqueued.
lock(t) ==
  /\ GoTo(t, "want_slot", "in_slot") \/ GoTo(t, "want_enqueue", "in_enqueue")
  /\ ~Taken(BoxOf[t], job[t].kind)
  /\ UNCHANGED <<free, queue, allocated, completed, job, drain>>

Unused_completed(b) == Tokens \ (allocated[b] \ completed[b])

Unused_beyond(b) == (Tokens \cup {NumTokens + 1}) \ allocated[b]

Unused(b) == Tokens \ allocated[b]

\* The lowest bit that is clear; the call fails when there is none.
ipc_allocate_token(t) ==
  LET b == BoxOf[t] IN
  /\ IF Unused(b) = {}
     THEN /\ GoTo(t, "in_token", "idle")
          /\ job' = [job EXCEPT ![t] = NoJob]
          /\ UNCHANGED allocated
     ELSE LET bit == CHOOSE i \in Unused(b) : \A j \in Unused(b) : i <= j IN
          /\ GoTo(t, "in_token", "want_slot")
          /\ job' = [job EXCEPT ![t].token = bit]
          /\ allocated' = [allocated EXCEPT ![b] = @ \cup {bit}]
  /\ UNCHANGED <<free, queue, completed, drain>>

\* uvisor_pool_queue_allocate; without a free slot the call fails and keeps
\* its token.
allocate_slot(t) ==
  LET b == BoxOf[t]
      k == job[t].kind
  IN  /\ \/ /\ GoTo(t, "in_slot", "idle")
            /\ free[b][k] = {}
            /\ job' = [job EXCEPT ![t] = NoJob]
            /\ UNCHANGED free
         \/ /\ GoTo(t, "in_slot", "want_enqueue")
            /\ \E s \in free[b][k] :
                 /\ job' = [job EXCEPT ![t].slot = s]
                 /\ free' = [free EXCEPT ![b][k] = @ \ {s}]
      /\ UNCHANGED <<queue, allocated, completed, drain>>

\* The request is filled in and enqueued.
enqueue(t) ==
  /\ GoTo(t, "in_enqueue", "idle")
  /\ queue' = [queue EXCEPT ![BoxOf[t]][job[t].kind] =
                 Append(@, [slot |-> job[t].slot, token |-> job[t].token, desc |-> job[t].desc])]
  /\ job' = [job EXCEPT ![t] = NoJob]
  /\ UNCHANGED <<free, allocated, completed, drain>>

ConditionMet(t, done) == IF job[t].cond = "any" THEN done # {} ELSE done = job[t].wait

FreedTokens_waited(t, done) == job[t].wait

\* The tokens that a wait gives back.
FreedTokens(t, done) == done

\* One round of ipc_waitfor.  When the condition does not hold the call fails,
\* if timeout_ms is 0, or starts again.
ipc_waitfor(t) ==
  LET b    == BoxOf[t]
      done == completed[b] \cap job[t].wait
  IN  /\ GoTo(t, "in_wait", "idle")
      /\ job' = [job EXCEPT ![t] = NoJob]
      /\ IF ConditionMet(t, done)
         THEN /\ allocated' = [allocated EXCEPT ![b] = @ \ FreedTokens(t, done)]
              /\ completed' = [completed EXCEPT ![b] = @ \ FreedTokens(t, done)]
         ELSE UNCHANGED <<allocated, completed>>
      /\ UNCHANGED <<free, queue, drain>>

----------------------------------------------------------------------------
\* ipc_drain_queue, for the box that the scheduler leaves; each pass of its
\* loop is a step.

SendQueue == queue[drain.box]["send"]
Send      == Head(SendQueue)
To        == Send.desc.box
Without(q, i) == SubSeq(q, 1, i - 1) \o SubSeq(q, i + 1, Len(q))

Rotated_lost(q) == Tail(q)

\* put_it_back, after try_dequeue_first.
Rotated(q) == Append(Tail(q), Head(q))

recv_match(from, send, recv) ==
  /\ recv.desc.box \in {from, ANY}
  /\ send.desc.port = recv.desc.port
  /\ send.desc.len <= recv.desc.len

\* Positions in the receive queue of To that Send may be delivered to.
Matches == {i \in DOMAIN queue[To]["recv"] : recv_match(drain.box, Send, queue[To]["recv"][i])}

FirstMatch == CHOOSE i \in Matches : \A j \in Matches : i <= j
Recv       == queue[To]["recv"][FirstMatch]

ipc_drain_queue(b) ==
  /\ ~Draining
  /\ drain' = [box |-> b, first |-> NONE, tick |-> FALSE]
  /\ UNCHANGED <<free, queue, allocated, completed, pc, job>>

\* try_dequeue_first finds the queue empty or its lock taken.
drain_stop ==
  /\ Draining
  /\ SendQueue = <<>> \/ Taken(drain.box, "send")
  /\ drain' = Idle
  /\ UNCHANGED <<free, queue, allocated, completed, pc, job>>

CanDequeue == Draining /\ SendQueue # <<>> /\ ~Taken(drain.box, "send")

\* The slot that the loop started from comes round: it is put back at the end.
drain_seen ==
  /\ CanDequeue
  /\ Send.slot = drain.first
  /\ queue' = [queue EXCEPT ![drain.box]["send"] = Rotated(@)]
  /\ drain' = Idle
  /\ UNCHANGED <<free, allocated, completed, pc, job>>

\* first_slot, set by the first pass and after it was reset.
First == IF drain.first = NONE THEN Send.slot ELSE drain.first

Visit == CanDequeue /\ Send.slot # drain.first

\* The next pass, with first_slot set to first.
Continue(first) == drain' = [drain EXCEPT !.first = first, !.tick = ~@]

Deliverable == Send.desc.accessible /\ To \in Boxes

\* ipc_io_is_ok fails or the box is unknown: the request is not put back.
drain_drop ==
  /\ Visit /\ ~Deliverable
  /\ queue' = [queue EXCEPT ![drain.box]["send"] = Tail(@)]
  /\ Continue(First)
  /\ UNCHANGED <<free, allocated, completed, pc, job>>

\* try_find_first finds the receive queue locked or no match in it.
Unmatched == Taken(To, "recv") \/ Matches = {}

drain_unmatched ==
  /\ Visit /\ Deliverable /\ Unmatched
  /\ queue' = [queue EXCEPT ![drain.box]["send"] = Rotated(@)]
  /\ Continue(First)
  /\ UNCHANGED <<free, allocated, completed, pc, job>>

Matched == Visit /\ Deliverable /\ ~Unmatched

\* ipc_io_is_ok fails for the receive request, which is not put back.
drain_drop_recv ==
  /\ Matched /\ ~Recv.desc.accessible
  /\ queue' = [queue EXCEPT ![drain.box]["send"] = Rotated(@),
                            ![To]["recv"] = Without(@, FirstMatch)]
  /\ Continue(First)
  /\ UNCHANGED <<free, allocated, completed, pc, job>>

TokensBusy_sender == Taken(drain.box, "tokens")

\* ipc_deliver cannot take the token locks of both boxes.
TokensBusy == Taken(drain.box, "tokens") \/ Taken(To, "tokens")

drain_busy ==
  /\ Matched /\ Recv.desc.accessible /\ TokensBusy
  /\ queue' = [queue EXCEPT ![drain.box]["send"] = Rotated(@),
                            ![To]["recv"] = Append(Without(@, FirstMatch), Recv)]
  /\ Continue(First)
  /\ UNCHANGED <<free, allocated, completed, pc, job>>

\* The queues after a delivery.
Left == [queue EXCEPT ![drain.box]["send"] = Tail(@),
                      ![To]["recv"] = Without(@, FirstMatch)]

Freed_first == [free EXCEPT ![drain.box]["send"] = @ \cup {First},
                           ![To]["recv"] = @ \cup {Recv.slot}]

\* The free slots after a delivery.
Freed == [free EXCEPT ![drain.box]["send"] = @ \cup {Send.slot},
                      ![To]["recv"] = @ \cup {Recv.slot}]

NextFirst_kept == First

\* first_slot after a delivery.
NextFirst == IF First = Send.slot THEN NONE ELSE First

\* ipc_deliver succeeds and both slots are freed.
ipc_deliver ==
  /\ Matched /\ Recv.desc.accessible /\ ~TokensBusy
  /\ queue' = Left
  /\ free' = Freed
  /\ completed' = [completed EXCEPT ![drain.box] = @ \cup {Send.token},
                                    ![To] = @ \cup {Recv.token}]
  /\ Continue(NextFirst)
  /\ UNCHANGED <<allocated, pc, job>>

Drain == \/ drain_stop \/ drain_seen \/ drain_drop \/ drain_unmatched
         \/ drain_drop_recv \/ drain_busy \/ ipc_deliver

Next ==
  \/ \E t \in Threads :
       \/ ipc_io(t) \/ ipc_wait(t) \/ lock(t)
       \/ ipc_allocate_token(t) \/ allocate_slot(t) \/ enqueue(t) \/ ipc_waitfor(t)
  \/ \E b \in Boxes : ipc_drain_queue(b)
  \/ Drain

\* The core runs its loop until the loop ends; nothing preempts it.
Spec == Init /\ [][Next]_vars /\ WF_vars(Drain)

----------------------------------------------------------------------------
Queued(b, k) == {queue[b][k][i] : i \in DOMAIN queue[b][k]}

\* Where slot or token n of box b is in use by a request of kind k: at a place
\* of the queue, or with a thread that will enqueue it.
InUse(b, k, field, n) ==
  {<<k, i>> : i \in {j \in DOMAIN queue[b][k] : queue[b][k][j][field] = n}}
    \cup {<<"thread", t>> : t \in {u \in Threads : /\ BoxOf[u] = b
                                                  /\ job[u].call = "io"
                                                  /\ job[u].kind = k
                                                  /\ job[u][field] = n}}

IoJobs(tokens, slots) ==
  [call : {"io"}, kind : Kinds, desc : Descs, token : tokens, slot : slots]
WaitJobs == [call : {"wait"}, cond : {"any", "all"}, wait : SUBSET Tokens]
Jobs     == {NoJob} \cup WaitJobs \cup IoJobs(Tokens \cup {NONE}, Slots \cup {NONE})

\* What a thread may be doing at place p.
JobsAt(p) ==
  CASE p = "idle"                         -> {NoJob}
    [] p = "in_wait"                      -> WaitJobs
    [] p = "in_token"                     -> IoJobs({NONE}, {NONE})
    [] p \in {"want_slot", "in_slot"}      -> IoJobs(Tokens, {NONE})
    [] p \in {"want_enqueue", "in_enqueue"} -> IoJobs(Tokens, Slots)

\* Every variable has its type: a thread that enqueues has a token and a slot,
\* and the core drains a box that exists.
TypeOK ==
  /\ free \in [Boxes -> [Kinds -> SUBSET Slots]]
  /\ queue \in [Boxes -> [Kinds -> Seq(Entries)]]
  /\ allocated \in [Boxes -> SUBSET Tokens]
  /\ completed \in [Boxes -> SUBSET Tokens]
  /\ pc \in [Threads -> Places]
  /\ job \in [Threads -> Jobs] /\ \A t \in Threads : job[t] \in JobsAt(pc[t])
  /\ drain \in [box : Boxes \cup {ANY}, first : Slots \cup {NONE}, tick : BOOLEAN]
  /\ drain.box = ANY => drain = Idle

\* Two threads of a box never hold the same lock.
LocksExclusive ==
  \A t, u \in Threads :
    BoxOf[t] = BoxOf[u] /\ LockOf(t) = LockOf(u) /\ LockOf(t) # "none" => t = u

\* A token stands for one request: the requests of a box that wait in its
\* queues or are being made have different tokens, which are allocated and not
\* yet completed.  The tokens are taken under tokens_lock, completed by the core
\* and given back by ipc_waitfor, for any set of tokens a thread asks for.
PendingTokensDistinct ==
  \A b \in Boxes, n \in Tokens :
    LET users == InUse(b, "send", "token", n) \cup InUse(b, "recv", "token", n) IN
    /\ \A x, y \in users : x = y
    /\ users # {} => n \in allocated[b] \ completed[b]

\* A slot is on the free list, in the queue once or with one thread, and never
\* in two of these places: the core gives back exactly the slots that it took
\* out of the queues.
SlotOnce ==
  \A b \in Boxes, k \in Kinds, s \in Slots :
    LET users == InUse(b, k, "slot", s) IN
    /\ \A x, y \in users : x = y
    /\ s \in free[b][k] => users = {}

WellFormed(k, r) == r.desc.accessible /\ (k = "send" => r.desc.box \in Boxes)

\* A request in accessible memory, to a box that exists, leaves its queue only
\* when it is answered: its token is completed and its slot freed in that step,
\* whatever else the core finds in the queues and whichever locks are taken.
RequestsNotLost ==
  [][\A b \in Boxes, k \in Kinds : \A r \in Queued(b, k) :
       WellFormed(k, r) =>
         \/ r \in Queued(b, k)'
         \/ r.token \in completed'[b] /\ r.slot \in free'[b][k]]_vars

\* While a thread is inside a section of tokens_lock, neither the core nor
\* another thread changes the tokens of its box.
TokensStable ==
  [][\A t \in Threads :
       LockOf(t) = "tokens" /\ pc'[t] = pc[t] =>
         /\ allocated'[BoxOf[t]] = allocated[BoxOf[t]]
         /\ completed'[BoxOf[t]] = completed[BoxOf[t]]]_vars

\* The request that the loop started from was taken out for good: its slot is
\* neither queued nor free.
FirstDropped ==
  /\ Draining /\ drain.first # NONE
  /\ drain.first \notin free[drain.box]["send"]
  /\ \A r \in Queued(drain.box, "send") : r.slot # drain.first

\* How far the request that the loop started from is from the head.
FirstAt ==
  LET at == {i \in DOMAIN SendQueue : SendQueue[i].slot = drain.first} IN
  IF at = {} THEN Len(SendQueue) + 1 ELSE CHOOSE i \in at : TRUE

\* Every pass of the loop of ipc_drain_queue that does not end it comes closer
\* to its end: the send queue gets shorter or first_slot gets closer to its
\* head.  So the loop ends, unless it dropped the request that it started from.
DrainProgress ==
  [][Draining /\ Draining' /\ ~FirstDropped' =>
       \/ Len(SendQueue)' < Len(SendQueue)
       \/ Len(SendQueue)' = Len(SendQueue) /\ FirstAt' < FirstAt]_vars
=============================================================================
