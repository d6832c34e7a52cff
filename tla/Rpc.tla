-------------------------------- MODULE Rpc --------------------------------
(***************************************************************************)
(* Remote procedure calls between boxes: api/src/rpc.c, run by the threads *)
(* of the boxes, and core/system/src/rpc.c, run by the core in every       *)
(* thread switch.                                                          *)
(*                                                                         *)
(* A caller puts a message into a slot of the outgoing pool of its box.    *)
(* The core copies it to a slot of the incoming pool of the callee's box,  *)
(* whose todo and done queues share one memory (PoolOps), and posts the    *)
(* semaphores of the function groups that contain the target.  A thread    *)
(* that waits for such a group runs the function and puts the slot into    *)
(* the done queue, from which the core takes the result back.              *)
(*                                                                         *)
(* The outgoing pools are used through what PoolSpec promises.  A thread   *)
(* is preempted anywhere, also while it holds a lock; nothing preempts the *)
(* core.  That find_first unlocks twice is left to PoolQueue.              *)
(***************************************************************************)
EXTENDS Integers, Sequences, FiniteSets

F == INSTANCE Functions

CONSTANTS Boxes,
          Threads,
          BoxOf,        \* the box of a thread
          NumOut,       \* UVISOR_RPC_OUTGOING_MESSAGE_SLOTS
          NumIn,        \* UVISOR_RPC_INCOMING_MESSAGE_SLOTS
          NumGroups,    \* UVISOR_RPC_FN_GROUP_SLOTS
          Calls,        \* thread -> the calls it makes, gateway and sync
          Serves,       \* thread -> the function groups it waits for
          MaxCalls      \* box -> bound on the calls it sends

In == INSTANCE PoolOps WITH Num <- NumIn, Queues <- {"todo", "done"}

OutSlots == 1 .. NumOut
NONE     == 0           \* first_slot = -1

\* A gateway names the callee's box and the target function; valid tells
\* whether is_valid_rpc_gateway accepts it.  A function group is identified
\* by fn_ptr_array: here, the set of its functions.
Gateways == {c.gateway : c \in UNION {Calls[t] : t \in Threads}}
Groups   == UNION {Serves[t] : t \in Threads}

ASSUME RpcAssumption ==
  /\ BoxOf \in [Threads -> Boxes]
  /\ NumOut \in Nat \ {0} /\ NumIn \in 1 .. 251 /\ NumGroups \in Nat \ {0}
  /\ MaxCalls \in [Boxes -> Nat]
  /\ \A t \in Threads : \A c \in Calls[t] : c.sync \in BOOLEAN
  /\ \A g \in Gateways : g.valid \in BOOLEAN /\ (g.valid => g.box \in Boxes)

\* uvisor_result_build.  The counter grows by 2, so that it never is the
\* invalid one; that it wraps after 2^21 calls is beyond MaxCalls.
Cookie(counter, slot) == [counter |-> counter, slot |-> slot]
INVALID_COUNTER == -1

VARIABLES
  outpool,   \* box -> free slots and queue of the outgoing pool
  out,       \* box -> slot -> outgoing message
  inpool,    \* box -> memory of the incoming pool
  in,        \* box -> slot -> incoming message
  groups,    \* box -> the function groups allocated, in slot order
  counter,   \* box -> result_counter
  cookies,   \* box -> what rpc_fncall_async returned to its threads
  pc, job,   \* thread -> where it is, and the call it executes
  drain,     \* the thread switch in progress; tick as in Ipc
  ran        \* box -> counter -> how often the function of the call was run

vars == <<outpool, out, inpool, in, groups, counter, cookies, pc, job, drain, ran>>

Idle == [box |-> NONE, phase |-> "none", first |-> NONE, held |-> {}, tick |-> FALSE]
Draining == drain # Idle

\* The places of a thread, named after what it does next; PoolOf is the pool
\* whose lock that takes.  A thread at such a place may hold the lock when a
\* thread switch comes.
PoolOf == [alloc |-> "out", send |-> "out", free |-> "out",
           find |-> "in", take |-> "in", done |-> "in",
           group |-> "groups", list |-> "groups"]
Places == DOMAIN PoolOf \cup {"idle", "pend", "wait", "run"}

MayHold == {<<BoxOf[t], PoolOf[pc[t]]>> : t \in {u \in Threads : pc[u] \in DOMAIN PoolOf}}

Taken(b, pool) == <<b, pool>> \in drain.held

NoJob  == [call |-> "none"]
NoCall == <<0, 0>>                       \* a call is known by box and counter
NoGateway  == [box |-> 0, fn |-> "none", valid |-> FALSE]
NullCookie == Cookie(0, 0)

\* The outgoing message before its first use; the box memory is zeroed.
NoOut == [gateway |-> NoGateway, arg |-> NoCall, peer |-> 0, wait |-> NullCookie,
          match |-> NullCookie, state |-> "invalid", result |-> NoCall, sem |-> 0]
NoIn  == [gateway |-> NoGateway, arg |-> NoCall, peer |-> 0,
          match |-> NullCookie, state |-> "invalid", result |-> NoCall]

----------------------------------------------------------------------------
\* __uvisor_initialize_rpc_queues of every box.  Semaphores count from 0 to 1.
Init ==
  /\ outpool = [b \in Boxes |-> [free |-> [s \in OutSlots |-> s], queue |-> <<>>]]
  /\ out = [b \in Boxes |-> [s \in OutSlots |-> NoOut]]
  /\ inpool = [b \in Boxes |-> In!pool_queue_init]
  /\ in = [b \in Boxes |-> [s \in In!Slots |-> NoIn]]
  /\ groups = [b \in Boxes |-> <<>>]
  /\ counter = [b \in Boxes |-> 0]
  /\ cookies = [b \in Boxes |-> {}]
  /\ pc = [t \in Threads |-> "idle"]
  /\ job = [t \in Threads |-> NoJob]
  /\ drain = Idle
  /\ ran = [b \in Boxes |-> [c \in 1 .. 2 * MaxCalls[b] |-> 0]]

GoTo(t, from, to) == pc[t] = from /\ pc' = [pc EXCEPT ![t] = to] /\ ~Draining

----------------------------------------------------------------------------
\* The caller.

\* The bound: a box gets no more than MaxCalls slots.
MayCall(b) == counter[b] < 2 * MaxCalls[b]

\* rpc_fncall_sync and rpc_fncall_async.
rpc_fncall(t) ==
  /\ GoTo(t, "idle", "alloc")
  /\ MayCall(BoxOf[t]) \/ outpool[BoxOf[t]].free = <<>>
  /\ \E c \in Calls[t] :
       job' = [job EXCEPT ![t] = [call |-> "call", gateway |-> c.gateway, sync |-> c.sync,
                                  slot |-> NONE, arg |-> NoCall, ret |-> NoCall]]
  /\ UNCHANGED <<outpool, out, inpool, in, groups, counter, cookies, drain, ran>>

\* The allocation in send_outgoing_rpc finds no slot: a synchronous call tries
\* again, an asynchronous one fails.
send_outgoing_rpc_full(t) ==
  /\ pc[t] = "alloc"
  /\ outpool[BoxOf[t]].free = <<>>
  /\ IF job[t].sync
     THEN GoTo(t, "alloc", "alloc") /\ UNCHANGED job
     ELSE GoTo(t, "alloc", "idle") /\ job' = [job EXCEPT ![t] = NoJob]
  /\ UNCHANGED <<outpool, out, inpool, in, groups, counter, cookies, drain, ran>>

\* send_outgoing_rpc takes a slot and the next counter and fills the message in.
send_outgoing_rpc(t) ==
  LET b == BoxOf[t]
      n == counter[b] + 2
  IN  /\ GoTo(t, "alloc", "send")
      /\ MayCall(b)
      /\ counter' = [counter EXCEPT ![b] = n]
      /\ outpool[b].free # <<>>
      /\ outpool' = [outpool EXCEPT ![b].free = Tail(@)]
      /\ LET s == Head(outpool[b].free) IN
           /\ out' = [out EXCEPT ![b][s] = [@ EXCEPT
                         !.gateway = job[t].gateway, !.arg = <<b, n>>,
                         !.wait = Cookie(n, s), !.match = Cookie(n, s), !.state = "ready"]]
           /\ job' = [job EXCEPT ![t] = [@ EXCEPT !.slot = s, !.arg = <<b, n>>]]
      /\ UNCHANGED <<inpool, in, groups, cookies, drain, ran>>

\* The slot is put into the queue; an asynchronous call returns the cookie.
enqueue_outgoing(t) ==
  LET b == BoxOf[t]
      s == job[t].slot
  IN  /\ pc[t] = "send"
      /\ outpool' = [outpool EXCEPT ![b].queue = Append(@, s)]
      /\ IF job[t].sync
         THEN GoTo(t, "send", "pend") /\ UNCHANGED <<cookies, job>>
         ELSE /\ GoTo(t, "send", "idle")
              /\ cookies' = [cookies EXCEPT ![b] = @ \cup {out[b][s].match}]
              /\ job' = [job EXCEPT ![t] = NoJob]
      /\ UNCHANGED <<out, inpool, in, groups, counter, drain, ran>>

\* Mutant: the cookie is compared but not swapped.
Spent_nothing(b, c) == out

\* The compare-and-swap of wait_cookie.
Spent(b, c) == [out EXCEPT ![b][c.slot].wait = Cookie(INVALID_COUNTER, c.slot)]

\* rpc_fncall_wait, on any cookie the box was given; it fails when the cookie
\* is not the slot's wait_cookie.
rpc_fncall_wait(t) ==
  LET b == BoxOf[t] IN
  /\ GoTo(t, "idle", "pend")
  /\ Serves[t] = {}
  /\ \E c \in cookies[b] :
       /\ out[b][c.slot].wait = c
       /\ out' = Spent(b, c)
       /\ job' = [job EXCEPT ![t] = [call |-> "call", gateway |-> out[b][c.slot].gateway,
                                     sync |-> FALSE, slot |-> c.slot, arg |-> <<b, c.counter>>,
                                     ret |-> NoCall]]
  /\ UNCHANGED <<outpool, inpool, in, groups, counter, cookies, drain, ran>>

\* Mutant: the status of the pend is ignored.
wait_for_rpc_result_unchecked(t) ==
  /\ GoTo(t, "pend", "free")
  /\ job' = [job EXCEPT ![t].ret = out[BoxOf[t]][job[t].slot].result]
  /\ UNCHANGED <<outpool, out, inpool, in, groups, counter, cookies, drain, ran>>

\* wait_for_rpc_result succeeds and the result is read.
wait_for_rpc_result(t) ==
  LET b == BoxOf[t]
      s == job[t].slot
  IN  /\ GoTo(t, "pend", "free")
      /\ out[b][s].sem > 0
      /\ out' = [out EXCEPT ![b][s].sem = @ - 1]
      /\ job' = [job EXCEPT ![t].ret = out[b][s].result]
      /\ UNCHANGED <<outpool, inpool, in, groups, counter, cookies, drain, ran>>

\* Mutant: a wait that times out gives the slot back.
wait_timeout_frees(t) ==
  /\ GoTo(t, "pend", "free")
  /\ ~job[t].sync
  /\ UNCHANGED <<outpool, out, inpool, in, groups, counter, cookies, job, drain, ran>>

\* The wait of rpc_fncall_wait times out: the slot stays allocated.
wait_timeout(t) ==
  /\ GoTo(t, "pend", "idle")
  /\ ~job[t].sync
  /\ job' = [job EXCEPT ![t] = NoJob]
  /\ UNCHANGED <<outpool, out, inpool, in, groups, counter, cookies, drain, ran>>

\* FreeSlotsQuiet shows that the test before the free never fails.
free_outgoing_msg(t) ==
  /\ GoTo(t, "free", "idle")
  /\ outpool' = [outpool EXCEPT ![BoxOf[t]].free = <<job[t].slot>> \o @]
  /\ job' = [job EXCEPT ![t] = NoJob]
  /\ UNCHANGED <<out, inpool, in, groups, counter, cookies, drain, ran>>

----------------------------------------------------------------------------
\* The callee.

\* get_function_group: the slots that hold group g.
SlotsOf(b, g) == {i \in DOMAIN groups[b] : groups[b][i].fns = g}

Serve(g, i, fresh) == [call |-> "serve", fns |-> g, group |-> i, fresh |-> fresh, slot |-> NONE]

\* rpc_fncall_waitfor, up to the wait or the allocation of the group.
rpc_fncall_waitfor(t) ==
  LET b == BoxOf[t] IN
  /\ \E g \in Serves[t] :
       IF SlotsOf(b, g) = {}
       THEN /\ GoTo(t, "idle", "group")
            /\ job' = [job EXCEPT ![t] = Serve(g, NONE, TRUE)]
       ELSE /\ GoTo(t, "idle", "wait")
            /\ job' = [job EXCEPT ![t] =
                 Serve(g, CHOOSE i \in SlotsOf(b, g) : \A j \in SlotsOf(b, g) : i <= j, FALSE)]
  /\ UNCHANGED <<outpool, out, inpool, in, groups, counter, cookies, drain, ran>>

\* Without a slot rpc_fncall_waitfor fails.
allocate_function_group(t) ==
  LET b == BoxOf[t] IN
  /\ IF Len(groups[b]) = NumGroups
     THEN /\ GoTo(t, "group", "idle")
          /\ job' = [job EXCEPT ![t] = NoJob]
          /\ UNCHANGED groups
     ELSE /\ GoTo(t, "group", "list")
          /\ groups' = [groups EXCEPT ![b] = Append(@, [fns |-> job[t].fns, sem |-> 0,
                                                        listed |-> FALSE])]
          /\ job' = [job EXCEPT ![t].group = Len(groups[b]) + 1]
  /\ UNCHANGED <<outpool, out, inpool, in, counter, cookies, drain, ran>>

\* The group is enqueued; from now on the core posts its semaphore.
list_function_group(t) ==
  /\ GoTo(t, "list", "find")
  /\ groups' = [groups EXCEPT ![BoxOf[t]][job[t].group].listed = TRUE]
  /\ UNCHANGED <<outpool, out, inpool, in, counter, cookies, job, drain, ran>>

\* The semaphore of the group.
pend_group(t) ==
  LET b == BoxOf[t] IN
  /\ GoTo(t, "wait", "find")
  /\ groups[b][job[t].group].sem > 0
  /\ groups' = [groups EXCEPT ![b][job[t].group].sem = @ - 1]
  /\ UNCHANGED <<outpool, out, inpool, in, counter, cookies, job, drain, ran>>

waitfor_timeout(t) ==
  /\ GoTo(t, "wait", "idle")
  /\ job' = [job EXCEPT ![t] = NoJob]
  /\ UNCHANGED <<outpool, out, inpool, in, groups, counter, cookies, drain, ran>>

\* handle_incoming_rpc returns 0: the call for a new group goes on to wait,
\* others fail.
NotHandled(t, from) ==
  IF job[t].fresh
  THEN GoTo(t, from, "wait") /\ job' = [job EXCEPT ![t] = [@ EXCEPT !.fresh = FALSE, !.slot = NONE]]
  ELSE GoTo(t, from, "idle") /\ job' = [job EXCEPT ![t] = NoJob]

\* Mutant: every message is for the group.
query_for_fn_group_any(t) == In!Slots

\* query_for_fn_group: the slots with a message for the group of thread t.
query_for_fn_group(t) == {s \in In!Slots : in[BoxOf[t]][s].gateway.fn \in job[t].fns}

find_incoming(t) ==
  LET found == In!find_first_body(inpool[BoxOf[t]], "todo", query_for_fn_group(t)).ret IN
  /\ pc[t] = "find"
  /\ IF found \in In!Slots
     THEN GoTo(t, "find", "take") /\ job' = [job EXCEPT ![t].slot = found]
     ELSE NotHandled(t, "find")
  /\ UNCHANGED <<outpool, out, inpool, in, groups, counter, cookies, drain, ran>>

\* Mutant: the slot found is not dequeued.
dequeue_incoming_peek(t) ==
  /\ GoTo(t, "take", "run")
  /\ UNCHANGED <<outpool, out, inpool, in, groups, counter, cookies, job, drain, ran>>

\* The slot found is dequeued, if it still is in a queue of the pool.
dequeue_incoming(t) ==
  LET b == BoxOf[t]
      r == In!dequeue_body(inpool[b], "todo", job[t].slot)
  IN  /\ pc[t] = "take"
      /\ inpool' = [inpool EXCEPT ![b] = r.mem]
      /\ IF r.ret \in In!Slots
         THEN GoTo(t, "take", "run") /\ UNCHANGED job
         ELSE NotHandled(t, "take")
      /\ UNCHANGED <<outpool, out, in, groups, counter, cookies, drain, ran>>

\* The target function runs; its result depends on the arguments.  The core
\* has checked the gateway, which is in flash, so its magic is good.
dispatch(t) ==
  LET b == BoxOf[t]
      m == in[b][job[t].slot]
  IN  /\ GoTo(t, "run", "done")
      /\ in' = [in EXCEPT ![b][job[t].slot] = [@ EXCEPT !.result = m.arg, !.state = "done"]]
      /\ ran' = [ran EXCEPT ![m.arg[1]][m.arg[2]] = @ + 1]
      /\ UNCHANGED <<outpool, out, inpool, groups, counter, cookies, job, drain>>

enqueue_done(t) ==
  LET b == BoxOf[t] IN
  /\ GoTo(t, "done", "idle")
  /\ inpool' = [inpool EXCEPT ![b] = In!enqueue(@, "done", job[t].slot)]
  /\ job' = [job EXCEPT ![t] = NoJob]
  /\ UNCHANGED <<outpool, out, in, groups, counter, cookies, drain, ran>>

----------------------------------------------------------------------------
\* The core: thread_switch drains the queues of the active box.

thread_switch(b) ==
  /\ ~Draining
  /\ \E held \in SUBSET (MayHold \cap ({<<b, "out">>} \cup Boxes \X {"in"})) :
       drain' = [box |-> b, phase |-> "messages", first |-> NONE, held |-> held, tick |-> FALSE]
  /\ UNCHANGED <<outpool, out, inpool, in, groups, counter, cookies, pc, job, ran>>

\* drain_message_queue; each pass of its loop is a step.
OutQueue == outpool[drain.box].queue
Slot     == Head(OutQueue)
Message  == out[drain.box][Slot]
Callee   == Message.gateway.box

CanDequeue == drain.phase = "messages" /\ OutQueue # <<>> /\ ~Taken(drain.box, "out")

NextPhase == drain' = [drain EXCEPT !.phase = "results", !.first = NONE, !.tick = FALSE]

\* The queue is empty or its lock taken.
drain_message_stop ==
  /\ drain.phase = "messages"
  /\ ~CanDequeue
  /\ NextPhase
  /\ UNCHANGED <<outpool, out, inpool, in, groups, counter, cookies, pc, job, ran>>

\* Mutant: the slot is dequeued and not put back.
PutBack_lost(q) == Tail(q)

\* The queue after put_it_back.
PutBack(q) == Append(Tail(q), Head(q))

drain_message_seen ==
  /\ CanDequeue
  /\ Slot = drain.first
  /\ outpool' = [outpool EXCEPT ![drain.box].queue = PutBack(@)]
  /\ NextPhase
  /\ UNCHANGED <<out, inpool, in, groups, counter, cookies, pc, job, ran>>

\* The next pass; first_slot is set by the first one.
Visit ==
  /\ CanDequeue
  /\ Slot # drain.first
  /\ drain' = [drain EXCEPT !.first = IF @ = NONE THEN Slot ELSE @, !.tick = ~@]

\* An invalid gateway: the message is not put back.
drain_message_drop ==
  /\ Visit
  /\ ~Message.gateway.valid
  /\ outpool' = [outpool EXCEPT ![drain.box].queue = Tail(@)]
  /\ UNCHANGED <<out, inpool, in, groups, counter, cookies, pc, job, ran>>

\* No slot in the callee's pool, or its lock taken: backpressure.
CalleeBusy == Taken(Callee, "in") \/ inpool[Callee].first_free \notin In!Slots

drain_message_busy ==
  /\ Visit
  /\ Message.gateway.valid /\ CalleeBusy
  /\ outpool' = [outpool EXCEPT ![drain.box].queue = PutBack(@)]
  /\ UNCHANGED <<out, inpool, in, groups, counter, cookies, pc, job, ran>>

\* Mutant: the semaphores count without a maximum.
Posted_counting(gs, fn) ==
  [i \in DOMAIN gs |-> IF gs[i].listed /\ fn \in gs[i].fns THEN [gs[i] EXCEPT !.sem = @ + 1] ELSE gs[i]]

\* wake_up_handlers_for_target: a semaphore that is at its maximum stays there.
Posted(gs, fn) ==
  [i \in DOMAIN gs |-> IF gs[i].listed /\ fn \in gs[i].fns THEN [gs[i] EXCEPT !.sem = 1] ELSE gs[i]]

\* Mutant: the wait cookie is copied, which a waiter has invalidated.
Delivered_wait ==
  [gateway |-> Message.gateway, arg |-> Message.arg, peer |-> drain.box,
   match |-> Message.wait, state |-> "sent",
   result |-> in[Callee][inpool[Callee].first_free].result]

\* The message as the callee gets it; its result is left as it was.
Delivered ==
  [gateway |-> Message.gateway, arg |-> Message.arg, peer |-> drain.box,
   match |-> Message.match, state |-> "sent",
   result |-> in[Callee][inpool[Callee].first_free].result]

drain_message_deliver ==
  LET s == inpool[Callee].first_free IN
  /\ Visit
  /\ Message.gateway.valid /\ ~CalleeBusy
  /\ outpool' = [outpool EXCEPT ![drain.box].queue = Tail(@)]
  /\ inpool' = [inpool EXCEPT ![Callee] = In!enqueue(In!pool_alloc(@), "todo", s)]
  /\ in' = [in EXCEPT ![Callee][s] = Delivered]
  /\ out' = [out EXCEPT ![drain.box][Slot] = [@ EXCEPT !.peer = Callee, !.state = "sent"]]
  /\ groups' = [groups EXCEPT ![Callee] = Posted(@, Message.gateway.fn)]
  /\ UNCHANGED <<counter, cookies, pc, job, ran>>

\* drain_result_queue.
DoneSlot == inpool[drain.box].head["done"]
Result   == in[drain.box][DoneSlot]

HasResult == DoneSlot \in In!Slots /\ ~Taken(drain.box, "in")

drain_result_stop ==
  /\ drain.phase = "results"
  /\ ~HasResult
  /\ drain' = Idle
  /\ UNCHANGED <<outpool, out, inpool, in, groups, counter, cookies, pc, job, ran>>

\* The caller waits for this box to complete this call.
Expected(msg, result) ==
  /\ msg.peer = drain.box
  /\ msg.state = "sent"
  /\ msg.match = result.match

\* A result that is not expected is dropped and its slot never freed.
drain_result ==
  LET b == Result.peer
      s == Result.match.slot
      m == In!dequeue(inpool[drain.box], "done", DoneSlot)
  IN  /\ drain.phase = "results"
      /\ HasResult
      /\ IF Expected(out[b][s], Result)
         THEN /\ out' = [out EXCEPT ![b][s] = [@ EXCEPT !.result = Result.result,
                                                     !.state = "done", !.sem = 1]]
              /\ in' = [in EXCEPT ![drain.box][DoneSlot].state = "idle"]
              /\ inpool' = [inpool EXCEPT ![drain.box] = In!pool_free(m, DoneSlot)]
         ELSE /\ inpool' = [inpool EXCEPT ![drain.box] = m]
              /\ UNCHANGED <<out, in>>
      /\ drain' = [drain EXCEPT !.tick = ~@]
      /\ UNCHANGED <<outpool, groups, counter, cookies, pc, job, ran>>

Drain == \/ drain_message_stop \/ drain_message_seen \/ drain_message_drop
         \/ drain_message_busy \/ drain_message_deliver
         \/ drain_result_stop \/ drain_result

Call(t) == \/ send_outgoing_rpc_full(t) \/ send_outgoing_rpc(t) \/ enqueue_outgoing(t)
           \/ wait_for_rpc_result(t) \/ free_outgoing_msg(t)

Serving(t) == \/ rpc_fncall_waitfor(t) \/ allocate_function_group(t) \/ list_function_group(t)
              \/ find_incoming(t) \/ dequeue_incoming(t) \/ dispatch(t) \/ enqueue_done(t)

Next == \/ \E t \in Threads : \/ rpc_fncall(t) \/ rpc_fncall_wait(t) \/ wait_timeout(t) \/ Call(t)
                              \/ Serving(t) \/ pend_group(t) \/ waitfor_timeout(t)
        \/ \E b \in Boxes : thread_switch(b)
        \/ Drain

\* The loops of the core are not preempted.  Every box is switched away from
\* again and again, and every thread that can run does so between switches; a
\* server waits for the next call when it is done with one, and a semaphore
\* that was posted is taken before the waits on it time out for ever.
Spec ==
  /\ Init /\ [][Next]_vars
  /\ WF_vars(Drain)
  /\ \A t \in Threads : SF_vars(Call(t)) /\ SF_vars(Serving(t)) /\ SF_vars(pend_group(t))
  /\ \A b \in Boxes : SF_vars(thread_switch(b))

----------------------------------------------------------------------------
Counters    == Nat \cup {INVALID_COUNTER}
CookieType  == [counter : Counters, slot : OutSlots \cup {NONE}]
ArgType     == Boxes \X Counters \cup {NoCall}
GatewayType == Gateways \cup {NoGateway}

OutType == [gateway : GatewayType, arg : ArgType, peer : Boxes \cup {0}, wait : CookieType,
            match : CookieType, state : {"invalid", "ready", "sent", "done"},
            result : ArgType, sem : 0 .. 1]
InType  == [gateway : GatewayType, arg : ArgType, peer : Boxes \cup {0}, match : CookieType,
            state : {"invalid", "sent", "done", "idle"}, result : ArgType]
JobType == {NoJob}
  \cup [call : {"call"}, gateway : Gateways, sync : BOOLEAN, slot : OutSlots \cup {NONE},
        arg : ArgType, ret : ArgType]
  \cup [call : {"serve"}, fns : Groups, group : 0 .. NumGroups, fresh : BOOLEAN,
        slot : In!Slots \cup {NONE}]

\* Every variable has its type.
TypeOK ==
  /\ outpool \in [Boxes -> [free : Seq(OutSlots), queue : Seq(OutSlots)]]
  /\ out \in [Boxes -> [OutSlots -> OutType]]
  /\ inpool \in [Boxes -> In!Memory]
  /\ in \in [Boxes -> [In!Slots -> InType]]
  /\ groups \in [Boxes -> Seq([fns : Groups, sem : 0 .. 1, listed : BOOLEAN])]
  /\ counter \in [Boxes -> Counters]
  /\ cookies \in [Boxes -> SUBSET CookieType]
  /\ pc \in [Threads -> Places]
  /\ job \in [Threads -> JobType]
  /\ drain \in [box : Boxes \cup {NONE}, phase : {"none", "messages", "results"},
                first : OutSlots \cup {NONE}, tick : BOOLEAN,
                held : SUBSET (Boxes \X {"out", "in", "groups"})]
  /\ DOMAIN ran = Boxes /\ \A b \in Boxes : ran[b] \in [1 .. 2 * MaxCalls[b] -> Nat]

Busy(b)   == {s \in In!Slots : inpool[b].prev[s] # In!FREE}
Origin(m) == out[m.peer][m.match.slot]

\* Calls in flight and busy slots of the callees correspond one to one, over
\* copies, retries, timeouts and reuse of slots on both sides: each busy slot
\* holds the message of a call whose caller is told by peer and whose slot is
\* marked as sent to this box, with the same cookie.  So the tests of
\* drain_result_queue (core/system/src/rpc.c:412-436) never drop a result.
InFlight ==
  /\ \A b \in Boxes : \A s \in Busy(b) :
       LET m == in[b][s] IN
       /\ m.peer = m.arg[1]
       /\ Origin(m).state = "sent" /\ Origin(m).peer = b
       /\ Origin(m).match = m.match /\ Origin(m).arg = m.arg
       /\ \A r \in Busy(b) \ {s} : in[b][r].arg # m.arg
  /\ \A b \in Boxes, k \in OutSlots :
       out[b][k].state = "sent" =>
         \E s \in Busy(out[b][k].peer) : in[out[b][k].peer][s].arg = out[b][k].arg

\* A caller gets the result of its own call, which has been run: whichever
\* thread waits, however long ago the call was made, and whatever became of
\* the earlier calls that used the same slots.
ResultMatches ==
  \A t \in Threads :
    job[t].call = "call" /\ pc[t] = "free" =>
      job[t].ret = job[t].arg /\ ran[job[t].arg[1]][job[t].arg[2]] > 0

\* "In between finding an RPC we could handle and trying to dequeue it,
\* somebody else dequeued it" (api/src/rpc.c:299): the call is then left to
\* the other thread, so that a function runs once for each call.  It holds if
\* one thread of the box serves the function; of two threads the second may
\* dequeue the slot out of the done queue, and run the call again.
RunAtMostOnce == \A b \in Boxes : \A c \in DOMAIN ran[b] : ran[b][c] <= 1

\* A thread only runs functions of the group that it waits for now, although
\* calls for its other groups arrive in between and share the slots.
RunsOwnGroup ==
  \A t \in Threads : pc[t] = "run" => in[BoxOf[t]][job[t].slot].gateway.fn \in job[t].fns

FreeOut(b)   == F!Range(outpool[b].free)
QueuedOut(b) == F!Range(outpool[b].queue)

Uses(t) == pc[t] \in {"send", "pend", "free"}

\* At most one thread waits for a call or will free its slot: the compare-and-
\* swap on wait_cookie stops a second wait, also with a cookie that is stale.
WaiterUnique ==
  \A t, u \in Threads :
    Uses(t) /\ Uses(u) /\ BoxOf[t] = BoxOf[u] /\ job[t].slot = job[u].slot => t = u

\* A slot is only freed when its call is over, so that a slot on the free list
\* has no message in flight, no place in the queue and no token left in its
\* semaphore; the test in free_outgoing_msg (api/src/rpc.c:122) never fails.
FreeSlotsQuiet ==
  \A b \in Boxes :
    LET freeing == {job[t].slot : t \in {u \in Threads : BoxOf[u] = b /\ pc[u] = "free"}} IN
    /\ freeing \cap FreeOut(b) = {}
    /\ \A s \in FreeOut(b) \cup freeing :
         /\ out[b][s].state \in {"invalid", "done"} /\ out[b][s].sem = 0
         /\ s \notin QueuedOut(b)

\* A message with a valid gateway leaves the outgoing queue only when it is
\* delivered, however often the callee has no room and whichever locks are
\* taken at that moment.
MessagesNotLost ==
  [][\A b \in Boxes : \A s \in QueuedOut(b) :
       out[b][s].gateway.valid => s \in QueuedOut(b)' \/ out'[b][s].state = "sent"]_vars

Waiting(b, s) ==
  /\ In!Length(inpool[b], inpool[b].head["todo"]) > 0
  /\ s \in In!Members(inpool[b], inpool[b].head["todo"])

\* A thread waits "forever for an incoming RPC call" and handles it
\* (docs/lib/manual/UseCases.md:571): while it does so, no call for a function
\* of its group stays in the todo queue for ever.
TodoServed ==
  \A t \in Threads : \A s \in In!Slots :
    (Serves[t] # {} /\ Waiting(BoxOf[t], s) /\ in[BoxOf[t]][s].gateway.fn \in UNION Serves[t])
      ~> ~Waiting(BoxOf[t], s)
=============================================================================
