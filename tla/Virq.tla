-------------------------------- MODULE Virq --------------------------------
(***************************************************************************)
(* The virtual interrupts of core/system/src/core_armv7m/virq.c: who owns  *)
(* an IRQ, which IRQs the NVIC delivers, the nested disable-all sections   *)
(* of each box, and the switch to the box of an ISR and back.              *)
(*                                                                         *)
(* Every vIRQ function is called by the active box through an SVC and is   *)
(* one step; an interrupt comes between any two steps and the handler, as  *)
(* code of the box that owns the IRQ, calls the same functions.            *)
(* HALT_ERROR stops the system: nothing happens once halted is TRUE.       *)
(***************************************************************************)
EXTENDS Naturals, Sequences, FiniteSets

CONSTANTS Boxes, Irqs,
          BadIrqs,      \* IRQ numbers out of range, or that uVisor handles itself
          Priorities,   \* virtual priorities, 0 .. UVISOR_VIRQ_MAX_PRIORITY
          MaxCounter,   \* UINT32_MAX - 1
          MaxDepth,     \* UVISOR_CONTEXT_MAX_DEPTH
          INVALID       \* UVISOR_BOX_ID_INVALID

ASSUME VirqAssumption ==
  /\ INVALID \notin Boxes
  /\ Irqs \cap BadIrqs = {}
  /\ Priorities \subseteq Nat /\ 0 \in Priorities
  /\ MaxCounter \in Nat \ {0} /\ MaxDepth \in Nat

VARIABLES
  id,           \* g_virq_vector[].id: the box that owns an IRQ, or INVALID
  hdlr,         \* g_virq_vector[].hdlr: the IRQs with a handler
  was_enabled,  \* g_virq_vector[].was_enabled: the IRQs with the flag set
  counter,      \* g_irq_disable_all_counter
  nvic,         \* NVIC: the enabled and pending bits and the priority of an IRQ
  active,       \* g_active_box
  isr,          \* the ISRs being served, innermost last, and the box each interrupted
  halted,       \* HALT_ERROR was called
  due           \* history: IRQs that were enabled when the disable-all section of
                \* their box began, or that the box enabled since

vars == <<id, hdlr, was_enabled, counter, nvic, active, isr, halted, due>>
table == <<id, hdlr, was_enabled, counter>>

Halt == halted' = TRUE /\ UNCHANGED <<table, nvic, active, isr, due>>

OwnedBy(b) == {i \in Irqs : id[i] = b}

\* NVIC_EnableIRQ and NVIC_DisableIRQ on a set of IRQs.
SetEnabled(is, on) == [i \in Irqs |-> IF i \in is THEN [nvic[i] EXCEPT !.enabled = on] ELSE nvic[i]]

----------------------------------------------------------------------------
\* virq_init copies the user's vector table, before any box runs.
Init ==
  /\ id = [i \in Irqs |-> INVALID]
  /\ hdlr \in SUBSET Irqs
  /\ was_enabled = {}
  /\ counter = [b \in Boxes |-> 0]
  /\ nvic = [i \in Irqs |-> [enabled |-> FALSE, pending |-> FALSE, prio |-> 0]]
  /\ active = INVALID
  /\ isr = <<>>
  /\ halted = FALSE
  /\ due = {}

\* Boot: the ACLs of the boxes, while no box is active.  An IRQ in two ACLs, or
\* twice in one, belongs to "another box" and halts.
virq_acl_add(b, i) ==
  /\ ~halted
  /\ active = INVALID
  /\ IF i \in BadIrqs \/ id[i] # INVALID
     THEN Halt
     ELSE /\ id' = [id EXCEPT ![i] = b]
          /\ UNCHANGED <<hdlr, was_enabled, counter, nvic, active, isr, halted, due>>

\* The first switch and the thread switches, at the lowest exception priority.
SwitchBox(b) ==
  /\ ~halted
  /\ isr = <<>>
  /\ active' = b
  /\ UNCHANGED <<table, nvic, isr, halted, due>>

----------------------------------------------------------------------------
Denied_never(i) == i \in BadIrqs
Registered_skipped(i) == id

\* virq_isr_register: the calls that halt, and the owner after the others.
Denied(i) == i \in BadIrqs \/ id[i] \notin {INVALID, active}
Registered(i) == [id EXCEPT ![i] = active]

\* A vIRQ function on IRQ i that registers it first.
OnIrq(i, Body) ==
  /\ ~halted
  /\ active # INVALID
  /\ IF Denied(i) THEN Halt
     ELSE /\ id' = Registered(i)
          /\ Body
          /\ UNCHANGED <<counter, active, isr>>

virq_isr_set(i, vector) ==
  OnIrq(i, /\ hdlr' = IF vector THEN hdlr \cup {i} ELSE hdlr \ {i}
           /\ UNCHANGED <<was_enabled, nvic, halted, due>>)

\* virq_isr_get, virq_irq_pending_get and virq_irq_priority_get register too.
virq_get(i) == OnIrq(i, UNCHANGED <<hdlr, was_enabled, nvic, halted, due>>)

EnableNow_always == TRUE

\* The IRQs of the box are not globally disabled.
EnableNow == counter[active] = 0

virq_irq_enable(i) ==
  OnIrq(i, /\ IF EnableNow
              THEN /\ nvic' = SetEnabled({i}, TRUE)
                   /\ UNCHANGED <<was_enabled, due>>
              ELSE /\ was_enabled' = was_enabled \cup {i}
                   /\ due' = due \cup {i}
                   /\ UNCHANGED nvic
           /\ UNCHANGED <<hdlr, halted>>)

\* The state that disable_all remembered is left alone.
virq_irq_disable(i) ==
  OnIrq(i, /\ nvic' = SetEnabled({i}, FALSE)
           /\ UNCHANGED <<hdlr, was_enabled, halted, due>>)

virq_irq_pending(i, value) ==
  OnIrq(i, /\ nvic' = [nvic EXCEPT ![i].pending = value]
           /\ UNCHANGED <<hdlr, was_enabled, halted, due>>)

\* A priority above UVISOR_VIRQ_MAX_PRIORITY halts, after the registration.
virq_irq_priority_set(i, priority) ==
  OnIrq(i, /\ IF priority \in Priorities
              THEN nvic' = [nvic EXCEPT ![i].prio = priority] /\ UNCHANGED halted
              ELSE halted' = TRUE /\ UNCHANGED nvic
           /\ UNCHANGED <<hdlr, was_enabled, due>>)

Remembered_owned(is) == OwnedBy(active)

\* The loop of disable_all sets was_enabled for the IRQs it disables and clears
\* it for every other one, of whichever box.
Remembered(is) == is

virq_irq_disable_all ==
  LET first == counter[active] = 0
      is    == {i \in OwnedBy(active) : nvic[i].enabled}
  IN  /\ ~halted /\ active # INVALID
      /\ was_enabled' = IF first THEN Remembered(is) ELSE was_enabled
      /\ nvic' = IF first THEN SetEnabled(is, FALSE) ELSE nvic
      /\ due' = IF first THEN (due \ OwnedBy(active)) \cup is ELSE due
      /\ IF counter[active] < MaxCounter
         THEN counter' = [counter EXCEPT ![active] = @ + 1] /\ UNCHANGED halted
         ELSE halted' = TRUE /\ UNCHANGED counter
      /\ UNCHANGED <<id, hdlr, active, isr>>

LastEnable_any == counter[active] > 0

\* The outermost enable-all restores; the inner ones and spurious ones do not.
LastEnable == counter[active] = 1

virq_irq_enable_all ==
  LET is == OwnedBy(active) \cap was_enabled
  IN  /\ ~halted /\ active # INVALID
      /\ IF LastEnable
         THEN /\ nvic' = SetEnabled(is, TRUE)
              /\ was_enabled' = was_enabled \ is
              /\ due' = due \ OwnedBy(active)
         ELSE UNCHANGED <<nvic, was_enabled, due>>
      /\ counter' = [counter EXCEPT ![active] = IF @ > 0 THEN @ - 1 ELSE 0]
      /\ UNCHANGED <<id, hdlr, active, isr, halted>>

----------------------------------------------------------------------------
\* The NVIC takes the exception of an enabled, pending IRQ that is not being
\* served and has a higher priority (a lower number) than the one that is.
Preempts(i) ==
  /\ \A k \in DOMAIN isr : isr[k].irq # i
  /\ \A k \in DOMAIN isr : nvic[i].prio < nvic[isr[k].irq].prio

\* A peripheral raises its IRQ.
Raise(i) ==
  /\ ~halted
  /\ active # INVALID /\ ~nvic[i].pending
  /\ nvic' = [nvic EXCEPT ![i].pending = TRUE]
  /\ UNCHANGED <<table, active, isr, halted, due>>

\* virq_gateway_context_switch_in: it halts without a handler, and
\* context_switch_in halts on an invalid box and when the state stack is full.
virq_gateway_in(i) ==
  /\ ~halted
  /\ active # INVALID
  /\ nvic[i].enabled /\ nvic[i].pending /\ Preempts(i)
  /\ IF i \notin hdlr \/ id[i] \notin Boxes \/ Len(isr) >= MaxDepth
     THEN Halt
     ELSE /\ nvic' = [nvic EXCEPT ![i].pending = FALSE]
          /\ isr' = Append(isr, [irq |-> i, src |-> active])
          /\ active' = id[i]
          /\ UNCHANGED <<table, halted, due>>

\* virq_gateway_context_switch_out: back to the box that was interrupted.
virq_gateway_out ==
  /\ ~halted
  /\ isr # <<>>
  /\ active' = isr[Len(isr)].src
  /\ isr' = SubSeq(isr, 1, Len(isr) - 1)
  /\ UNCHANGED <<table, nvic, halted, due>>

----------------------------------------------------------------------------
\* The vIRQ functions on one IRQ.
IrqCall(i) ==
  \/ \E vector \in BOOLEAN : virq_isr_set(i, vector)
  \/ virq_get(i)
  \/ virq_irq_enable(i)
  \/ virq_irq_disable(i)
  \/ \E value \in BOOLEAN : virq_irq_pending(i, value)
  \/ \E p \in Priorities \cup {Cardinality(Priorities)} : virq_irq_priority_set(i, p)

Next ==
  \/ \E b \in Boxes, i \in Irqs \cup BadIrqs : virq_acl_add(b, i)
  \/ \E b \in Boxes : SwitchBox(b)
  \/ \E i \in Irqs \cup BadIrqs : IrqCall(i)
  \/ virq_irq_disable_all
  \/ virq_irq_enable_all
  \/ \E i \in Irqs : Raise(i) \/ virq_gateway_in(i)
  \/ virq_gateway_out

Spec == Init /\ [][Next]_vars

----------------------------------------------------------------------------
Nvic == [enabled : BOOLEAN, pending : BOOLEAN, prio : Priorities]

TypeOK ==
  /\ id \in [Irqs -> Boxes \cup {INVALID}]
  /\ hdlr \in SUBSET Irqs
  /\ was_enabled \in SUBSET Irqs
  /\ counter \in [Boxes -> Nat]
  /\ nvic \in [Irqs -> Nvic]
  /\ active \in Boxes \cup {INVALID}
  /\ isr \in Seq([irq : Irqs, src : Boxes])
  /\ halted \in BOOLEAN
  /\ due \in SUBSET Irqs

\* The NVIC delivers only IRQs that belong to a box, so an interrupt always has
\* a box to run its handler in (virq_gateway_context_switch_in takes the box
\* from the vector table without checking it).
EnabledIsOwned == \A i \in Irqs : nvic[i].enabled => id[i] # INVALID

\* "it never happens that a nested function re-enables IRQs for the caller":
\* while a box is in a disable-all section none of its IRQs is enabled, whatever
\* it or its ISRs enable, and however its calls are nested with other boxes'.
DisableAllHolds == \A i \in Irqs : id[i] \in Boxes /\ counter[id[i]] > 0 => ~nvic[i].enabled

\* "we are sure we don't enable spurious interrupts": the IRQs enable_all will
\* enable were enabled before the section or during it, and outside a section a
\* spurious call of enable_all has nothing to enable.
NoSpuriousEnable == \A i \in was_enabled : id[i] \in Boxes /\ counter[id[i]] > 0 /\ i \in due

\* The box that runs, or that the next ISR interrupted.
Running(k) == IF k = Len(isr) THEN active ELSE isr[k + 1].src

\* Every ISR runs in the box that owns its IRQ, at every level of nesting, and
\* stays there until it returns.
IsrRunsInOwnerBox == \A k \in DOMAIN isr : Running(k) = id[isr[k].irq]

\* Interrupts are served only once a box is active.
BootQuiet == active = INVALID => isr = <<>>

\* The inductive invariant: IsrRunsInOwnerBox needs BootQuiet, and the three on
\* the NVIC need each other, since registering an IRQ that is enabled, or that
\* has something to restore, would bring it into the section of another box.
VirqInv ==
  /\ TypeOK
  /\ BootQuiet
  /\ EnabledIsOwned
  /\ DisableAllHolds
  /\ NoSpuriousEnable
  /\ IsrRunsInOwnerBox

\* An IRQ that a box owns is never taken over by another one
\* ("HALT_ERROR(PERMISSION_DENIED" in virq_isr_register and virq_acl_add), not
\* even while its owner is suspended by an ISR; only a release would be allowed.
OwnershipStable == [][\A i \in Irqs : id[i] \in Boxes => id'[i] \in {id[i], INVALID}]_vars
=============================================================================
