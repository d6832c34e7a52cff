------------------------------- MODULE Kernel -------------------------------
(***************************************************************************)
(* Which code runs in which box and on which stack: the context switches   *)
(* of core/system/src/context.c under their users, the interrupt gateway   *)
(* (core_armv7m/virq.c), the box initialisation chain                      *)
(* (core_armv7m/box_init_v7m.c), the thread hooks (thread.c) and the debug *)
(* box (core/debug), with the halt that enters it.                         *)
(*                                                                         *)
(* Handlers run one at a time, at the highest priority, so each is one     *)
(* step.  HALT_ERROR returns to its caller after it has prepared a switch  *)
(* to the debug box, so a handler is written as a chain of functions from  *)
(* state to state, which goes on after a halt unless the system is dead.   *)
(*                                                                         *)
(* A stack is named by the box or thread it was made for, and a stack      *)
(* pointer has the number of frames in use on it.                          *)
(***************************************************************************)
EXTENDS Integers, Sequences, FiniteSets

CONSTANTS LastBox,      \* g_vmpu_box_count - 1
          LibConfig,    \* the boxes with a lib_config
          HomeOf,       \* thread -> the box whose code creates it
          OwnHeap,      \* those that are given an allocator of their own
          THREADS_MAX_COUNT,
          CONTEXT_MAX_DEPTH,
          DebugBoxes,   \* the boxes that register a debug driver
          OwnerOf,      \* IRQ -> the box that registered it
          PriorityOf,   \* IRQ -> its priority; a lower number preempts
          MaxStack      \* bound: the frames that code uses beyond where it starts

ASSUME KernelAssumption ==
  /\ LastBox \in Nat
  /\ LibConfig \subseteq 1 .. LastBox
  /\ THREADS_MAX_COUNT \in Nat \ {0} /\ CONTEXT_MAX_DEPTH \in Nat \ {0}
  /\ MaxStack \in Nat
  /\ \A t \in DOMAIN HomeOf : HomeOf[t] \in 0 .. LastBox /\ t # "none"
  /\ \A i \in DOMAIN OwnerOf : OwnerOf[i] \in 0 .. LastBox /\ PriorityOf[i] \in Nat

Boxes == 0 .. LastBox
Irqs  == DOMAIN OwnerOf
Threads == DOMAIN HomeOf
Slots == 1 .. THREADS_MAX_COUNT
NONE  == "none"
NoBox == -1
NoContext == 0              \* a thread that does not exist
FOREIGN   == -1             \* a context that is not in the thread table

\* The stack of a box, and that of a thread in the heap of the box it is made in.
BoxStack(b)    == [box |-> b, thread |-> NONE]
ThreadStack(t) == [box |-> HomeOf[t], thread |-> t]
At(stack, n)   == [stack |-> stack, at |-> n]
Stacked(p)     == [p EXCEPT !.at = @ + 1]     \* an exception frame was pushed
Unstacked(p)   == [p EXCEPT !.at = @ - 1]

VARIABLES
  s,        \* the core's globals and registers
  slots,    \* thread[]: slot -> [allocator, process_id], allocator NONE if free
  context,  \* RTOS: thread -> the context that thread_create returned, or NONE
  saved,    \* RTOS: thread -> its stack pointer; where it starts unless suspended
  heap,     \* active_heap of the boxes with threads: "box", a thread's own, or NONE
  full      \* thread_create has found no free slot

vars == <<s, slots, context, saved, heap, full>>

\* What runs: the boot code of box 0, a thread, an ISR, an init handler or the
\* debug handler, with the stack depth at which it started.
Code(kind, box, who, base) == [kind |-> kind, box |-> box, who |-> who, base |-> base]

\* The core after vmpu_init: box 0 is about to go on, unprivileged.
Booted ==
  [active   |-> 0,
   previous |-> <<>>,
   sp       |-> [b \in Boxes |-> At(BoxStack(b), 0)],
   psp      |-> At(BoxStack(0), 0),
   basepri  |-> FALSE,
   dead     |-> FALSE,
   why      |-> NONE,                       \* the first halt
   debug    |-> [box |-> NoBox, used |-> FALSE],
   happened |-> FALSE, counter |-> 0, box0_sp |-> At(BoxStack(0), 0),
   inits    |-> <<>>,                       \* handlers run so far
   code     |-> <<Code("boot", 0, NONE, 0)>>]

NoSlots    == [i \in Slots |-> [allocator |-> NONE, process_id |-> 0]]
NoContexts == [t \in Threads |-> NoContext]
NoSaved    == [t \in Threads |-> At(ThreadStack(t), 0)]
NoHeaps    == [b \in {HomeOf[t] : t \in Threads} |-> NONE]

Init ==
  /\ s = Booted
  /\ slots = NoSlots /\ context = NoContexts /\ saved = NoSaved /\ heap = NoHeaps
  /\ full = FALSE

Running == s.code[Len(s.code)]
Active(kinds) == ~s.dead /\ Running.kind \in kinds

----------------------------------------------------------------------------
\* context.c and halt.c.

Dead(k) == [k EXCEPT !.dead = TRUE]
Because(k, why) == [k EXCEPT !.why = IF @ = NONE THEN why ELSE @]
Then(k, Op(_)) == IF k.dead THEN k ELSE Op(k)

\* Mutant: the depth is not checked.
context_state_push_unchecked(k, type, src_id, src_sp) ==
  [k EXCEPT !.previous = Append(@, [type |-> type, src_id |-> src_id, src_sp |-> src_sp]),
            !.sp[src_id] = src_sp]

\* An overflow halts; entering the debug box then overflows again.
context_state_push(k, type, src_id, src_sp) ==
  IF Len(k.previous) >= CONTEXT_MAX_DEPTH THEN Dead(Because(k, "overflow"))
  ELSE [k EXCEPT !.previous = Append(@, [type |-> type, src_id |-> src_id, src_sp |-> src_sp]),
                 !.sp[src_id] = src_sp]

context_forge_exc_sf(k, dst_id) == Stacked(k.sp[dst_id])

context_discard_exc_sf(k, dst_id, dst_sp) == [k EXCEPT !.sp[dst_id] = Unstacked(dst_sp)]

\* A switch bound to a function: the destination runs when the handler returns
\* and its frame is unstacked.
context_switch_in(k, type, dst_id, src_sp, dst_sp, kind, who) ==
  Then(context_state_push([k EXCEPT !.active = dst_id], type, k.active, src_sp),
       LAMBDA j : [j EXCEPT !.psp = Unstacked(dst_sp),
                            !.code = Append(@, Code(kind, dst_id, who, Unstacked(dst_sp).at))])

\* debug_halt_error and debug_deprivilege_and_return: dead without a debug box,
\* or if it was entered before; else the OS is suspended, the interrupts are
\* masked and the debug handler runs next.
halt(k, why) ==
  LET j == Because(k, why)
      b == k.debug.box
  IN  IF b = NoBox \/ k.debug.used THEN Dead(j)
      ELSE context_switch_in([j EXCEPT !.debug.used = TRUE, !.basepri = TRUE],
                             "DEBUG", b, Stacked(k.psp), context_forge_exc_sf(k, b), "debug", NONE)

HaltIf(k, condition, why) == IF condition THEN halt(k, why) ELSE k

context_switch_out(k) ==
  Then(HaltIf(k, k.previous = <<>>, "underflow"),
       LAMBDA j : LET top == j.previous[Len(j.previous)] IN
         [j EXCEPT !.previous = SubSeq(@, 1, Len(@) - 1),
                   !.active = top.src_id,
                   !.psp = Unstacked(top.src_sp),
                   !.code = SubSeq(@, 1, Len(@) - 1)])

----------------------------------------------------------------------------
\* Unprivileged code.

\* It calls a function, or returns from one.
use_stack ==
  /\ ~s.dead
  /\ \E n \in Running.base .. Running.base + MaxStack :
       n # s.psp.at /\ s' = [s EXCEPT !.psp.at = n]
  /\ UNCHANGED <<slots, context, saved, heap, full>>

\* It returns from where it started, to the thunk that the frame names.
Returned == [s EXCEPT !.psp.at = Running.base]

\* A fault that is not recovered, or an SVC that is refused.
fault ==
  /\ ~s.dead
  /\ s' = halt(s, "fault")
  /\ UNCHANGED <<slots, context, saved, heap, full>>

\* "Upon return from the debug handler, the system will die": debug_die makes
\* the SVC of halt_user_error.  Any box may make it.
halt_user_error ==
  /\ ~s.dead
  /\ s' = Dead(Because(s, "fault"))
  /\ UNCHANGED <<slots, context, saved, heap, full>>

\* With the driver in public flash; it is set even if the halt returns.
debug_register_driver ==
  /\ ~s.dead /\ s.active \in DebugBoxes
  /\ s' = Then(HaltIf(s, s.debug.box # NoBox, "registered"),
               LAMBDA k : [k EXCEPT !.debug.box = k.active])
  /\ UNCHANGED <<slots, context, saved, heap, full>>

\* The reset follows the halt if the halt returns, whoever asked for it.
debug_reboot ==
  LET k == HaltIf(s, s.debug.box = NoBox \/ s.active # s.debug.box, "reboot") IN
  /\ ~s.dead
  /\ IF k.dead THEN s' = k /\ UNCHANGED <<slots, context, saved, heap, full>>
     ELSE /\ s' = Booted
          /\ slots' = NoSlots /\ context' = NoContexts /\ saved' = NoSaved /\ heap' = NoHeaps
          /\ full' = FALSE

----------------------------------------------------------------------------
\* Interrupts: virq_gateway_context_switch_in and _out.

virq_gateway_in(i) ==
  /\ ~s.dead /\ ~s.basepri
  /\ \A c \in {s.code[n] : n \in DOMAIN s.code} : c.kind = "isr" => PriorityOf[i] < PriorityOf[c.who]
  /\ s' = context_switch_in(s, "ISR", OwnerOf[i], Stacked(s.psp),
                            context_forge_exc_sf(s, OwnerOf[i]), "isr", i)
  /\ UNCHANGED <<slots, context, saved, heap, full>>

\* Mutant: the frame is discarded after the switch, for the box switched to.
virq_gateway_out_late ==
  /\ Active({"isr"})
  /\ s' = Then(context_switch_out(Returned),
               LAMBDA k : context_discard_exc_sf(k, k.active, Stacked(Returned.psp)))
  /\ UNCHANGED <<slots, context, saved, heap, full>>

virq_gateway_out ==
  /\ Active({"isr"})
  /\ s' = context_switch_out(context_discard_exc_sf(Returned, s.active, Stacked(Returned.psp)))
  /\ UNCHANGED <<slots, context, saved, heap, full>>

----------------------------------------------------------------------------
\* Box initialisation.

\* The boxes after the last one that are left to initialise.
Left(k) == {b \in LibConfig : b > k.counter}

\* Mutant: the interrupts stay masked.
Finish_masked(k) == [k EXCEPT !.happened = TRUE]

Finish(k) == [k EXCEPT !.happened = TRUE, !.basepri = FALSE]

\* box_init_context_switch_next, for the SVC of the code that runs.
box_init_next(k, src_sp) ==
  Then(HaltIf(k, k.happened, "once"), LAMBDA k1 :
  IF LastBox = 0 THEN [k1 EXCEPT !.happened = TRUE] ELSE
  Then(HaltIf(k1, k1.active # k1.counter, "order"), LAMBDA k2 :
  Then(IF k2.counter = 0 THEN [k2 EXCEPT !.box0_sp = src_sp]
       ELSE context_switch_out(context_discard_exc_sf(k2, k2.active, src_sp)), LAMBDA k3 :
  IF Left(k2) = {} THEN Finish(k3) ELSE
  LET dst == CHOOSE b \in Left(k2) : \A c \in Left(k2) : b <= c
  IN  context_switch_in([k3 EXCEPT !.counter = dst, !.inits = Append(@, dst)], "GATEWAY", dst,
                        k3.box0_sp, context_forge_exc_sf(k3, dst), "init", NONE))))

\* The first SVC masks the interrupts.
box_init_first ==
  /\ Active({"boot", "thread"})
  /\ s' = box_init_next([s EXCEPT !.basepri = TRUE], Stacked(s.psp))
  /\ UNCHANGED <<slots, context, saved, heap, full>>

\* The handler returns to box_init_thunk, which makes the next one.
box_init_thunk ==
  /\ Active({"init"})
  /\ s' = box_init_next(Returned, Stacked(Returned.psp))
  /\ UNCHANGED <<slots, context, saved, heap, full>>

----------------------------------------------------------------------------
\* Threads.  The RTOS calls the hooks from its own SVCs and from PendSV.

Free == {i \in Slots : slots[i].allocator = NONE}

Slot(i, t) == [allocator |-> IF t \in OwnHeap THEN t ELSE "box", process_id |-> s.active]

\* The allocator is the argument, or the heap of the box.  Without a free slot
\* the argument is returned and becomes the context of the thread.
thread_create(t) ==
  /\ Active({"boot", "init", "thread"})
  /\ s.active = HomeOf[t] /\ context[t] = NoContext
  /\ IF Free # {}
     THEN LET i == CHOOSE i \in Free : \A j \in Free : i <= j IN
          /\ slots' = [slots EXCEPT ![i] = Slot(i, t)]
          /\ context' = [context EXCEPT ![t] = i]
          /\ UNCHANGED full
     ELSE /\ context' = [context EXCEPT ![t] = FOREIGN]
          /\ full' = TRUE
          /\ UNCHANGED slots
  /\ UNCHANGED <<s, saved, heap>>

\* The slot is released for the box of the thread only; in a release build
\* another box leaves it in use.
Destroyed(t) ==
  IF context[t] \in Slots /\ slots[context[t]].process_id = s.active
  THEN [slots EXCEPT ![context[t]].allocator = NONE] ELSE slots

thread_destroy(t) ==
  /\ Active({"boot", "init", "thread"})
  /\ context[t] # NoContext /\ s.code[1].who # t
  /\ slots' = Destroyed(t)
  /\ context' = [context EXCEPT ![t] = NoContext]
  /\ saved' = [saved EXCEPT ![t] = NoSaved[t]]
  /\ UNCHANGED <<s, heap, full>>

\* The first malloc of a box makes its heap, and makes it the active one.
init_allocator ==
  /\ Active({"boot", "init", "thread"})
  /\ s.active \in DOMAIN heap /\ heap[s.active] = NONE
  /\ heap' = [heap EXCEPT ![s.active] = "box"]
  /\ UNCHANGED <<s, slots, context, saved, full>>

\* The heaps after a switch to the thread of a slot.  Without a heap of the box
\* its active heap stays as it is.
Heaps(slot) ==
  IF heap[slot.process_id] = NONE THEN heap
  ELSE [heap EXCEPT ![slot.process_id] = slot.allocator]

\* Mutant: the switch is made for a thread of the active box.
SwitchedTo_same(c) ==
  IF c = FOREIGN \/ slots[c].process_id # s.active THEN [box |-> s.active, heap |-> heap]
  ELSE [box |-> slots[c].process_id, heap |-> Heaps(slots[c])]

\* thread_switch for context c (queues are drained in Rpc and Ipc): the box to
\* run in and the heaps.  A context outside the table, or of a slot that is
\* free, changes neither.
SwitchedTo(c) ==
  IF c = FOREIGN \/ slots[c].allocator = NONE THEN [box |-> s.active, heap |-> heap]
  ELSE [box |-> slots[c].process_id, heap |-> Heaps(slots[c])]

\* PendSV, below every interrupt: the RTOS saves the stack pointer of the
\* thread that ran, unless it has ended (exits), and loads the other one's.
thread_switch(t, exits) ==
  LET u    == Running.who
      c    == context[t]
      next == SwitchedTo(c)
  IN  /\ Active({"boot", "thread"}) /\ ~s.basepri
      /\ t # u /\ c # NoContext
      /\ exits => u \in Threads
      /\ s' = [s EXCEPT !.active = next.box, !.psp = saved[t],
                        !.code = <<Code("thread", HomeOf[t], t, 0)>>]
      /\ saved' = [v \in Threads |-> IF v = t THEN NoSaved[t]
                                      ELSE IF v = u /\ ~exits THEN s.psp ELSE saved[v]]
      /\ heap' = next.heap
      /\ slots' = IF exits THEN Destroyed(u) ELSE slots
      /\ context' = IF exits THEN [context EXCEPT ![u] = NoContext] ELSE context
      /\ UNCHANGED full

----------------------------------------------------------------------------
Next ==
  \/ use_stack \/ fault \/ halt_user_error
  \/ debug_register_driver \/ debug_reboot
  \/ \E i \in Irqs : virq_gateway_in(i)
  \/ virq_gateway_out
  \/ box_init_first \/ box_init_thunk
  \/ init_allocator
  \/ \E t \in Threads : \/ thread_create(t)
                        \/ thread_destroy(t)
                        \/ \E exits \in BOOLEAN : thread_switch(t, exits)

\* Init handlers return.
Spec == Init /\ [][Next]_vars /\ WF_vars(box_init_thunk)

----------------------------------------------------------------------------
\* Every variable has its type; the state stack stays in its array.
TypeOK ==
  /\ s.active \in Boxes
  /\ Len(s.previous) <= CONTEXT_MAX_DEPTH
  /\ \A n \in DOMAIN s.previous : s.previous[n].src_id \in Boxes
  /\ s.code # <<>>
  /\ slots \in [Slots -> [allocator : Threads \cup {"box", NONE}, process_id : Boxes]]
  /\ context \in [Threads -> Slots \cup {NoContext, FOREIGN}]
  /\ heap \in [DOMAIN NoHeaps -> Threads \cup {"box", NONE}]

\* Nothing has halted yet, and every thread has got a slot of the table.
Normal == s.why = NONE /\ ~full

\* Whatever interrupts, initialises and switches: the code that runs is in its
\* own box, all code that it interrupted has one saved state, with its own box,
\* and a thread allocates from its own heap or that of the box, never from
\* another thread's.
OwnBox ==
  Normal =>
    /\ s.active = Running.box
    /\ Len(s.previous) = Len(s.code) - 1
    /\ \A n \in DOMAIN s.previous : s.previous[n].src_id = s.code[n].box
    /\ Running.kind = "thread" /\ context[Running.who] \in Slots =>
         heap[s.active] \in {slots[context[Running.who]].allocator, "box", NONE}

\* A box never runs on the memory of another: the stack in use is the active
\* box's, and so is every stack pointer recorded for a box, on which the frame
\* of its next ISR will be put.
StacksOwned ==
  Normal => /\ s.psp.stack.box = s.active
            /\ \A b \in Boxes : s.sp[b].stack.box = b

\* All boxes with a configuration have been initialised, once and in order, and
\* the caller goes on where it was, with interrupts enabled.
Initialised ==
  /\ s.happened
  /\ \A i, j \in DOMAIN s.inits : i < j => s.inits[i] < s.inits[j]
  /\ {s.inits[i] : i \in DOMAIN s.inits} = LibConfig
  /\ s.active = 0 /\ s.previous = <<>> /\ ~s.basepri
  /\ Stacked(s.psp) = s.box0_sp

\* A chain of initialisations that has begun ends, unless a handler of a box
\* halts or resets the system: it is not broken by an interrupt or a thread switch ("then the
\* recursive chain of context switches has been broken", box_init_v7m.c:168).
BoxInitCompletes ==
  (s.counter > 0 /\ ~s.happened) ~>
    (Initialised \/ s.counter = 0 \/ s.why \notin {NONE, "order", "underflow"})

\* "the stack pointer is updated at every context switch" (context.h:78), of
\* the box that is left and of the box that is gone back to, so that an ISR
\* starts below what the code it interrupts had in use at the last switch: code
\* that is suspended, by an interrupt or by a thread switch, keeps its part of
\* a thread's stack.
FramesApart ==
  Normal =>
  \A p \in {s.previous[n].src_sp : n \in DOMAIN s.previous}
           \cup {saved[t] : t \in {u \in Threads : context[u] # NoContext /\ u # s.code[1].who}} :
    p.stack = s.psp.stack /\ p.stack.thread # NONE => s.psp.at >= p.at
=============================================================================
