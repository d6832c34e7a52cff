---------------------------- MODULE Virq_proofs ----------------------------
(***************************************************************************)
(* The virtual interrupts of Virq, for any number of boxes, IRQs and       *)
(* priorities and any bound on the nesting of disable-all sections.        *)
(***************************************************************************)
EXTENDS Virq, TLAPS

\* Facts on sequences that the provers find only when nothing else is around.
LEMMA SeqElement ==
  ASSUME NEW S, NEW s \in Seq(S), NEW k \in DOMAIN s
  PROVE  /\ Len(s) \in Nat /\ k \in 1 .. Len(s) /\ s[k] \in S
         /\ k # Len(s) => k + 1 \in DOMAIN s /\ s[k + 1] \in S
OBVIOUS

LEMMA SeqPush ==
  ASSUME NEW S, NEW s \in Seq(S), NEW e \in S
  PROVE  /\ Append(s, e) \in Seq(S)
         /\ Len(Append(s, e)) = Len(s) + 1 /\ Len(s) \in Nat
         /\ Append(s, e) # <<>>
         /\ DOMAIN Append(s, e) = 1 .. Len(s) + 1 /\ DOMAIN s = 1 .. Len(s)
         /\ \A k \in DOMAIN s : Append(s, e)[k] = s[k]
         /\ Append(s, e)[Len(s) + 1] = e
OBVIOUS

LEMMA SeqPop ==
  ASSUME NEW S, NEW s \in Seq(S), s # <<>>
  PROVE  LET t == SubSeq(s, 1, Len(s) - 1)
         IN  /\ t \in Seq(S)
             /\ Len(s) \in Nat \ {0} /\ Len(t) = Len(s) - 1
             /\ Len(s) \in DOMAIN s /\ s[Len(s)] \in S
             /\ DOMAIN t = 1 .. Len(s) - 1
             /\ \A k \in DOMAIN t : k \in DOMAIN s /\ t[k] = s[k]
<1>1. Len(s) \in Nat /\ Len(s) # 0 /\ DOMAIN s = 1 .. Len(s) /\ \A k \in 1 .. Len(s) : s[k] \in S
  OBVIOUS
<1>2. 1 \in 1 .. Len(s) + 1 /\ Len(s) - 1 \in 0 .. Len(s) /\ Len(s) - 1 \in Nat
  BY <1>1
<1>3. /\ SubSeq(s, 1, Len(s) - 1) \in Seq(S)
      /\ Len(SubSeq(s, 1, Len(s) - 1)) = Len(s) - 1
      /\ \A k \in 1 .. Len(s) - 1 : SubSeq(s, 1, Len(s) - 1)[k] = s[k]
  BY <1>1, <1>2
<1>4. DOMAIN SubSeq(s, 1, Len(s) - 1) = 1 .. Len(s) - 1
  BY <1>3
<1> QED
  BY <1>1, <1>2, <1>3, <1>4

LEMMA VirqInvInit == Init => VirqInv
<1> SUFFICES ASSUME Init PROVE VirqInv
  OBVIOUS
<1>1. TypeOK
  <2>1. isr \in Seq([irq : Irqs, src : Boxes])
    BY DEF Init
  <2>2. nvic \in [Irqs -> Nvic]
    BY VirqAssumption DEF Init, Nvic
  <2> QED
    BY <2>1, <2>2 DEF Init, TypeOK
<1>2. EnabledIsOwned /\ DisableAllHolds /\ NoSpuriousEnable /\ IsrRunsInOwnerBox /\ BootQuiet
  BY VirqAssumption
     DEF Init, EnabledIsOwned, DisableAllHolds, NoSpuriousEnable, IsrRunsInOwnerBox, BootQuiet
<1> QED
  BY <1>1, <1>2 DEF VirqInv

\* A step that changes neither owners nor ISRs nor the active box cannot move
\* an ISR to another box.
LEMMA IsrsKept ==
  ASSUME IsrRunsInOwnerBox, BootQuiet, UNCHANGED <<id, active, isr>>
  PROVE  IsrRunsInOwnerBox' /\ BootQuiet'
BY DEF IsrRunsInOwnerBox, BootQuiet, Running

\* HALT_ERROR leaves the state alone.
LEMMA HaltKeepsVirqInv ==
  ASSUME VirqInv, Halt
  PROVE  VirqInv'
<1> USE DEF VirqInv, Halt, table
<1>1. TypeOK'
  BY DEF TypeOK
<1>2. EnabledIsOwned' /\ DisableAllHolds' /\ NoSpuriousEnable'
  BY DEF EnabledIsOwned, DisableAllHolds, NoSpuriousEnable
<1> QED
  BY <1>1, <1>2, IsrsKept

\* What SetEnabled does to each IRQ.
LEMMA SetEnabledFacts ==
  ASSUME TypeOK, NEW is \in SUBSET Irqs, NEW on \in BOOLEAN
  PROVE  /\ SetEnabled(is, on) \in [Irqs -> Nvic]
         /\ \A i \in Irqs : SetEnabled(is, on)[i].enabled = IF i \in is THEN on ELSE nvic[i].enabled
<1>1. \A i \in Irqs : /\ nvic[i] \in Nvic
                      /\ [nvic[i] EXCEPT !.enabled = on] \in Nvic
                      /\ [nvic[i] EXCEPT !.enabled = on].enabled = on
  BY DEF TypeOK, Nvic
<1> QED
  BY <1>1 DEF SetEnabled

LEMMA SetOneEnabledFacts ==
  ASSUME TypeOK, NEW i \in Irqs, NEW on \in BOOLEAN
  PROVE  /\ SetEnabled({i}, on) \in [Irqs -> Nvic]
         /\ SetEnabled({i}, on)[i].enabled = on
         /\ \A j \in Irqs : j # i => SetEnabled({i}, on)[j].enabled = nvic[j].enabled
<1>1. {i} \in SUBSET Irqs
  OBVIOUS
<1>2. /\ SetEnabled({i}, on) \in [Irqs -> Nvic]
      /\ \A j \in Irqs : SetEnabled({i}, on)[j].enabled = IF j \in {i} THEN on ELSE nvic[j].enabled
  BY <1>1, SetEnabledFacts
<1> QED
  BY <1>2

\* virq_isr_register keeps the owners of the IRQs that have one.
LEMMA RegisterFacts ==
  ASSUME VirqInv, NEW i \in Irqs, active # INVALID, id[i] \in {INVALID, active},
         id' = [id EXCEPT ![i] = active], UNCHANGED <<counter, active, isr>>
  PROVE  /\ id' \in [Irqs -> Boxes \cup {INVALID}]
         /\ active \in Boxes
         /\ id'[i] = active
         /\ \A j \in Irqs : j # i => id'[j] = id[j]
         /\ \A j \in Irqs : id[j] \in Boxes => id'[j] = id[j]
         /\ IsrRunsInOwnerBox' /\ BootQuiet'
<1> USE DEF VirqInv
<1>1. /\ id' \in [Irqs -> Boxes \cup {INVALID}]
      /\ active \in Boxes
      /\ id'[i] = active
      /\ \A j \in Irqs : j # i => id'[j] = id[j]
  BY DEF TypeOK
<1>2. \A j \in Irqs : id[j] \in Boxes => id'[j] = id[j]
  BY <1>1, VirqAssumption DEF TypeOK
<1>3. BootQuiet'
  BY DEF BootQuiet
<1>4. IsrRunsInOwnerBox'
  <2> SUFFICES ASSUME NEW k \in DOMAIN isr
               PROVE  Running(k) = id'[isr[k].irq]
    BY DEF IsrRunsInOwnerBox, Running
  <2>1. Running(k) = id[isr[k].irq]
    BY DEF IsrRunsInOwnerBox
  <2>0. isr \in Seq([irq : Irqs, src : Boxes])
    BY DEF TypeOK
  <2>2. isr[k] \in [irq : Irqs, src : Boxes]
    BY <2>0, SeqElement
  <2>3. k # Len(isr) => isr[k + 1] \in [irq : Irqs, src : Boxes]
    BY <2>0, SeqElement
  <2>4. Running(k) \in Boxes
    BY <1>1, <2>2, <2>3 DEF Running
  <2> QED
    BY <1>2, <2>1, <2>2, <2>4
<1> QED
  BY <1>1, <1>2, <1>3, <1>4

\* Registering an IRQ preserves the invariant whatever else the function does
\* to the IRQ, as long as it enables it only outside of a section, and asks for
\* it to be enabled later only inside of one.
LEMMA CallKeepsVirqInv ==
  ASSUME VirqInv, NEW i \in Irqs, active # INVALID, id[i] \in {INVALID, active},
         id' = [id EXCEPT ![i] = active], UNCHANGED <<counter, active, isr>>,
         hdlr' \in SUBSET Irqs, nvic' \in [Irqs -> Nvic], halted' \in BOOLEAN,
         \A j \in Irqs : j # i => nvic'[j].enabled = nvic[j].enabled,
         nvic'[i].enabled => nvic[i].enabled \/ counter[active] = 0,
         \/ UNCHANGED <<was_enabled, due>>
         \/ counter[active] > 0 /\ was_enabled' = was_enabled \cup {i} /\ due' = due \cup {i}
  PROVE  VirqInv'
<1> USE DEF VirqInv
<1>1. /\ id' \in [Irqs -> Boxes \cup {INVALID}]
      /\ active \in Boxes
      /\ id'[i] = active
      /\ \A j \in Irqs : j # i => id'[j] = id[j]
      /\ \A j \in Irqs : id[j] \in Boxes => id'[j] = id[j]
      /\ IsrRunsInOwnerBox' /\ BootQuiet'
  BY RegisterFacts
<1>2. TypeOK'
  BY <1>1 DEF TypeOK
<1>3. EnabledIsOwned'
  <2> SUFFICES ASSUME NEW j \in Irqs, nvic'[j].enabled PROVE id'[j] # INVALID
    BY DEF EnabledIsOwned
  <2> QED
    BY <1>1 DEF EnabledIsOwned
<1>4. DisableAllHolds'
  <2> SUFFICES ASSUME NEW j \in Irqs, id'[j] \in Boxes, counter[id'[j]] > 0, nvic'[j].enabled
               PROVE  FALSE
    BY DEF DisableAllHolds
  <2>1. CASE j = i
    <3>1. nvic[i].enabled
      BY <2>1, <1>1
    <3>2. id[i] = active
      BY <3>1 DEF EnabledIsOwned
    <3> QED
      BY <2>1, <3>1, <3>2, <1>1 DEF DisableAllHolds
  <2>2. CASE j # i
    BY <2>2, <1>1 DEF DisableAllHolds
  <2> QED
    BY <2>1, <2>2
<1>5. NoSpuriousEnable'
  <2> SUFFICES ASSUME NEW j \in was_enabled'
               PROVE  id'[j] \in Boxes /\ counter[id'[j]] > 0 /\ j \in due'
    BY DEF NoSpuriousEnable
  <2>1. CASE j \in was_enabled
    BY <2>1, <1>1 DEF NoSpuriousEnable, TypeOK
  <2>2. CASE j \notin was_enabled
    BY <2>2, <1>1
  <2> QED
    BY <2>1, <2>2
<1> QED
  BY <1>1, <1>2, <1>3, <1>4, <1>5

\* Any vIRQ function on one IRQ.
LEMMA IrqCallStep ==
  ASSUME VirqInv, NEW i \in Irqs \cup BadIrqs, IrqCall(i)
  PROVE  VirqInv'
<1> USE DEF VirqInv
<1>0. CASE Denied(i)
  BY <1>0, HaltKeepsVirqInv
     DEF IrqCall, virq_isr_set, virq_get, virq_irq_enable, virq_irq_disable, virq_irq_pending,
         virq_irq_priority_set, OnIrq
<1> SUFFICES ASSUME ~Denied(i) PROVE VirqInv'
  BY <1>0
<1>1. i \in Irqs /\ id[i] \in {INVALID, active}
  BY DEF Denied
<1>2. active # INVALID /\ id' = [id EXCEPT ![i] = active] /\ UNCHANGED <<counter, active, isr>>
  BY DEF IrqCall, virq_isr_set, virq_get, virq_irq_enable, virq_irq_disable, virq_irq_pending,
         virq_irq_priority_set, OnIrq, Registered
<1>3. hdlr \in SUBSET Irqs /\ halted \in BOOLEAN /\ nvic \in [Irqs -> Nvic]
  BY DEF TypeOK
<1>4. ASSUME NEW vector \in BOOLEAN, virq_isr_set(i, vector) PROVE VirqInv'
  <2>1. hdlr' \in SUBSET Irqs /\ UNCHANGED <<was_enabled, nvic, halted, due>>
    BY <1>1, <1>3, <1>4 DEF virq_isr_set, OnIrq
  <2> QED
    BY <1>1, <1>2, <1>3, <2>1, CallKeepsVirqInv
<1>5. ASSUME virq_get(i) PROVE VirqInv'
  <2>1. UNCHANGED <<hdlr, was_enabled, nvic, halted, due>>
    BY <1>5 DEF virq_get, OnIrq
  <2> QED
    BY <1>1, <1>2, <1>3, <2>1, CallKeepsVirqInv
<1>6. ASSUME virq_irq_enable(i) PROVE VirqInv'
  <2>1. UNCHANGED <<hdlr, halted>>
    BY <1>6 DEF virq_irq_enable, OnIrq
  <2>2. CASE EnableNow
    <3>1. nvic' = SetEnabled({i}, TRUE) /\ UNCHANGED <<was_enabled, due>>
      BY <1>6, <2>2 DEF virq_irq_enable, OnIrq
    <3>2. /\ nvic' \in [Irqs -> Nvic]
          /\ \A j \in Irqs : j # i => nvic'[j].enabled = nvic[j].enabled
      BY <1>1, <3>1, SetOneEnabledFacts
    <3> QED
      BY <1>1, <1>2, <1>3, <2>1, <2>2, <3>1, <3>2, CallKeepsVirqInv DEF EnableNow
  <2>3. CASE ~EnableNow
    <3>1. /\ was_enabled' = was_enabled \cup {i}
          /\ due' = due \cup {i}
          /\ UNCHANGED nvic
      BY <1>6, <2>3 DEF virq_irq_enable, OnIrq
    <3>2. counter[active] > 0
      BY <1>2, <2>3 DEF EnableNow, TypeOK
    <3> QED
      BY <1>1, <1>2, <1>3, <2>1, <3>1, <3>2, CallKeepsVirqInv
  <2> QED
    BY <2>2, <2>3
<1>7. ASSUME virq_irq_disable(i) PROVE VirqInv'
  <2>1. nvic' = SetEnabled({i}, FALSE) /\ UNCHANGED <<hdlr, was_enabled, halted, due>>
    BY <1>7 DEF virq_irq_disable, OnIrq
  <2>2. /\ nvic' \in [Irqs -> Nvic]
        /\ nvic'[i].enabled = FALSE
        /\ \A j \in Irqs : j # i => nvic'[j].enabled = nvic[j].enabled
    BY <1>1, <2>1, SetOneEnabledFacts
  <2> QED
    BY <1>1, <1>2, <1>3, <2>1, <2>2, CallKeepsVirqInv
<1>8. ASSUME NEW value \in BOOLEAN, virq_irq_pending(i, value) PROVE VirqInv'
  <2>1. nvic' = [nvic EXCEPT ![i].pending = value] /\ UNCHANGED <<hdlr, was_enabled, halted, due>>
    BY <1>8 DEF virq_irq_pending, OnIrq
  <2>2. /\ nvic' \in [Irqs -> Nvic]
        /\ \A j \in Irqs : nvic'[j].enabled = nvic[j].enabled
    BY <1>1, <1>3, <2>1 DEF Nvic
  <2> QED
    BY <1>1, <1>2, <1>3, <2>1, <2>2, CallKeepsVirqInv
<1>9. ASSUME NEW p, virq_irq_priority_set(i, p) PROVE VirqInv'
  <2>1. UNCHANGED <<hdlr, was_enabled, due>>
    BY <1>9 DEF virq_irq_priority_set, OnIrq
  <2>2. CASE p \in Priorities
    <3>1. nvic' = [nvic EXCEPT ![i].prio = p] /\ UNCHANGED halted
      BY <1>9, <2>2 DEF virq_irq_priority_set, OnIrq
    <3>2. /\ nvic' \in [Irqs -> Nvic]
          /\ \A j \in Irqs : nvic'[j].enabled = nvic[j].enabled
      BY <1>1, <1>3, <2>2, <3>1 DEF Nvic
    <3> QED
      BY <1>1, <1>2, <1>3, <2>1, <3>1, <3>2, CallKeepsVirqInv
  <2>3. CASE p \notin Priorities
    <3>1. halted' = TRUE /\ UNCHANGED nvic
      BY <1>9, <2>3 DEF virq_irq_priority_set, OnIrq
    <3> QED
      BY <1>1, <1>2, <1>3, <2>1, <3>1, CallKeepsVirqInv
  <2> QED
    BY <2>2, <2>3
<1> QED
  BY <1>4, <1>5, <1>6, <1>7, <1>8, <1>9 DEF IrqCall

LEMMA DisableAllStep ==
  ASSUME VirqInv, virq_irq_disable_all
  PROVE  VirqInv'
<1> USE DEF VirqInv
<1> DEFINE is == {i \in OwnedBy(active) : nvic[i].enabled}
           first == counter[active] = 0
<1>1. /\ is \in SUBSET Irqs
      /\ \A i \in Irqs : i \in is <=> id[i] = active /\ nvic[i].enabled
  BY DEF OwnedBy
<1>2. /\ active \in Boxes /\ counter[active] \in Nat
      /\ UNCHANGED <<id, hdlr, active, isr>>
      /\ was_enabled' = IF first THEN Remembered(is) ELSE was_enabled
      /\ nvic' = IF first THEN SetEnabled(is, FALSE) ELSE nvic
      /\ due' = IF first THEN (due \ OwnedBy(active)) \cup is ELSE due
  BY DEF virq_irq_disable_all, TypeOK
<1>7. /\ counter' = [counter EXCEPT ![active] = counter[active] + 1] \/ (~first /\ UNCHANGED counter)
      /\ halted' \in BOOLEAN
  <2>1. IF counter[active] < MaxCounter
        THEN counter' = [counter EXCEPT ![active] = counter[active] + 1] /\ UNCHANGED halted
        ELSE halted' = TRUE /\ UNCHANGED counter
    BY DEF virq_irq_disable_all
  <2>2. counter[active] < MaxCounter \/ ~first
    BY VirqAssumption
  <2> QED
    BY <2>1, <2>2 DEF TypeOK
<1> HIDE DEF is
<1>3. /\ counter' \in [Boxes -> Nat]
      /\ \A b \in Boxes : counter[b] \in Nat
      /\ \A b \in Boxes : b # active => counter'[b] = counter[b]
      /\ counter'[active] > 0
  <2>1. CASE counter' = [counter EXCEPT ![active] = counter[active] + 1]
    BY <1>2, <2>1 DEF TypeOK
  <2>2. CASE ~first /\ UNCHANGED counter
    BY <1>2, <2>2 DEF TypeOK
  <2> QED
    BY <1>7, <2>1, <2>2
<1>4. IsrRunsInOwnerBox' /\ BootQuiet'
  BY <1>2, IsrsKept
<1>5. CASE ~first
  <2>1. UNCHANGED <<was_enabled, nvic, due>>
    BY <1>2, <1>5
  <2>2. TypeOK'
    BY <1>2, <1>3, <1>7, <2>1 DEF TypeOK
  <2>3. EnabledIsOwned'
    BY <1>2, <2>1 DEF EnabledIsOwned
  <2>4. DisableAllHolds'
    <3> SUFFICES ASSUME NEW i \in Irqs, id[i] \in Boxes, counter'[id[i]] > 0, nvic[i].enabled
                 PROVE  FALSE
      BY <1>2, <2>1 DEF DisableAllHolds
    <3>1. CASE id[i] = active
      BY <3>1, <1>2, <1>5 DEF DisableAllHolds
    <3>2. CASE id[i] # active
      <4>1. counter'[id[i]] = counter[id[i]]
        BY <3>2, <1>3
      <4> QED
        BY <4>1 DEF DisableAllHolds
    <3> QED
      BY <3>1, <3>2
  <2>5. NoSpuriousEnable'
    <3> SUFFICES ASSUME NEW i \in was_enabled
                 PROVE  id[i] \in Boxes /\ counter'[id[i]] > 0 /\ i \in due
      BY <1>2, <2>1 DEF NoSpuriousEnable
    <3> QED
      BY <1>3 DEF NoSpuriousEnable
  <2> QED
    BY <1>4, <2>2, <2>3, <2>4, <2>5
<1>6. CASE first
  <2>0. /\ nvic' = SetEnabled(is, FALSE) /\ was_enabled' = is
        /\ due' = (due \ OwnedBy(active)) \cup is
    BY <1>2, <1>6 DEF Remembered
  <2>1. /\ nvic' \in [Irqs -> Nvic]
        /\ \A i \in Irqs : nvic'[i].enabled = IF i \in is THEN FALSE ELSE nvic[i].enabled
    <3>1. /\ SetEnabled(is, FALSE) \in [Irqs -> Nvic]
          /\ \A i \in Irqs : SetEnabled(is, FALSE)[i].enabled = IF i \in is THEN FALSE ELSE nvic[i].enabled
      BY <1>1, SetEnabledFacts
    <3> QED
      BY <2>0, <3>1
  <2>2. was_enabled' \in SUBSET Irqs /\ due' \in SUBSET Irqs /\ is \subseteq due'
    BY <1>1, <2>0 DEF TypeOK
  <2>3. TypeOK'
    BY <1>2, <1>3, <1>7, <2>1, <2>2 DEF TypeOK
  <2>4. EnabledIsOwned'
    BY <1>2, <2>1 DEF EnabledIsOwned
  <2>5. DisableAllHolds'
    <3> SUFFICES ASSUME NEW i \in Irqs, id[i] \in Boxes, counter'[id[i]] > 0, nvic'[i].enabled
                 PROVE  FALSE
      BY <1>2 DEF DisableAllHolds
    <3>1. i \notin is /\ nvic[i].enabled
      BY <2>1
    <3>2. id[i] # active
      BY <3>1, <1>1
    <3>3. counter'[id[i]] = counter[id[i]]
      BY <3>2, <1>3
    <3> QED
      BY <3>1, <3>3 DEF DisableAllHolds
  <2>6. NoSpuriousEnable'
    BY <1>1, <1>2, <1>3, <2>0, <2>2 DEF NoSpuriousEnable
  <2> QED
    BY <1>4, <2>3, <2>4, <2>5, <2>6
<1> QED
  BY <1>5, <1>6

LEMMA EnableAllStep ==
  ASSUME VirqInv, virq_irq_enable_all
  PROVE  VirqInv'
<1> USE DEF VirqInv
<1> DEFINE is == OwnedBy(active) \cap was_enabled
<1>1. is \in SUBSET Irqs /\ \A i \in Irqs : i \in is <=> id[i] = active /\ i \in was_enabled
  BY DEF OwnedBy, TypeOK
<1>2. /\ active \in Boxes /\ counter[active] \in Nat
      /\ UNCHANGED <<id, hdlr, active, isr, halted>>
      /\ counter' = [counter EXCEPT ![active] = IF counter[active] > 0 THEN counter[active] - 1 ELSE 0]
  BY DEF virq_irq_enable_all, TypeOK
<1>3. IF LastEnable
      THEN nvic' = SetEnabled(is, TRUE) /\ was_enabled' = was_enabled \ is /\ due' = due \ OwnedBy(active)
      ELSE UNCHANGED <<nvic, was_enabled, due>>
  BY DEF virq_irq_enable_all
<1> HIDE DEF is
<1>4. /\ counter' \in [Boxes -> Nat]
      /\ \A b \in Boxes : counter[b] \in Nat
      /\ \A b \in Boxes : b # active => counter'[b] = counter[b]
      /\ counter'[active] = IF counter[active] > 0 THEN counter[active] - 1 ELSE 0
  BY <1>2 DEF TypeOK
<1>5. IsrRunsInOwnerBox' /\ BootQuiet'
  BY <1>2, IsrsKept
<1>6. CASE ~LastEnable
  <2>1. UNCHANGED <<nvic, was_enabled, due>>
    BY <1>3, <1>6
  <2>2. TypeOK'
    BY <1>2, <1>4, <2>1 DEF TypeOK
  <2>3. EnabledIsOwned'
    BY <1>2, <2>1 DEF EnabledIsOwned
  <2>4. DisableAllHolds'
    <3> SUFFICES ASSUME NEW i \in Irqs, id[i] \in Boxes, counter'[id[i]] > 0
                 PROVE  ~nvic[i].enabled
      BY <1>2, <2>1 DEF DisableAllHolds
    <3>1. counter[id[i]] > 0
      BY <1>4
    <3> QED
      BY <3>1 DEF DisableAllHolds
  <2>5. NoSpuriousEnable'
    <3> SUFFICES ASSUME NEW i \in was_enabled
                 PROVE  id[i] \in Boxes /\ counter'[id[i]] > 0 /\ i \in due
      BY <1>2, <2>1 DEF NoSpuriousEnable
    <3> QED
      BY <1>2, <1>4, <1>6 DEF NoSpuriousEnable, LastEnable
  <2> QED
    BY <1>5, <2>2, <2>3, <2>4, <2>5
\* The section ends: what is enabled belongs to the active box, whose counter is
\* now 0, and nothing is left to restore for it.
<1>7. CASE LastEnable
  <2>0. /\ nvic' = SetEnabled(is, TRUE) /\ was_enabled' = was_enabled \ is
        /\ due' = due \ OwnedBy(active) /\ counter'[active] = 0
    BY <1>2, <1>3, <1>4, <1>7 DEF LastEnable
  <2>1. /\ SetEnabled(is, TRUE) \in [Irqs -> Nvic]
        /\ \A i \in Irqs : SetEnabled(is, TRUE)[i].enabled = IF i \in is THEN TRUE ELSE nvic[i].enabled
    BY <1>1, SetEnabledFacts
  <2>2. TypeOK'
    BY <1>2, <1>4, <2>0, <2>1 DEF TypeOK
  <2>3. EnabledIsOwned'
    <3> SUFFICES ASSUME NEW i \in Irqs, nvic'[i].enabled PROVE id[i] # INVALID
      BY <1>2 DEF EnabledIsOwned
    <3>1. i \in is \/ nvic[i].enabled
      BY <2>0, <2>1
    <3> QED
      BY <3>1, <1>1, <1>2, VirqAssumption DEF EnabledIsOwned
  <2>4. DisableAllHolds'
    <3> SUFFICES ASSUME NEW i \in Irqs, id[i] \in Boxes, counter'[id[i]] > 0, nvic'[i].enabled
                 PROVE  FALSE
      BY <1>2 DEF DisableAllHolds
    <3>1. id[i] # active /\ counter[id[i]] > 0
      BY <1>4, <2>0
    <3>2. nvic[i].enabled
      BY <3>1, <1>1, <2>0, <2>1
    <3> QED
      BY <3>1, <3>2 DEF DisableAllHolds
  <2>5. NoSpuriousEnable'
    <3> SUFFICES ASSUME NEW i \in was_enabled'
                 PROVE  id[i] \in Boxes /\ counter'[id[i]] > 0 /\ i \in due'
      BY <1>2 DEF NoSpuriousEnable
    <3>1. i \in was_enabled /\ i \in Irqs /\ id[i] # active
      BY <1>1, <2>0 DEF TypeOK
    <3> QED
      BY <3>1, <1>4, <2>0 DEF NoSpuriousEnable, OwnedBy
  <2> QED
    BY <1>5, <2>2, <2>3, <2>4, <2>5
<1> QED
  BY <1>6, <1>7

\* An interrupt and the return from its handler.
LEMMA GatewayInStep ==
  ASSUME VirqInv, NEW i \in Irqs, virq_gateway_in(i)
  PROVE  VirqInv'
<1> USE DEF VirqInv
<1>0. CASE Halt
  BY <1>0, HaltKeepsVirqInv
<1> SUFFICES ASSUME ~Halt PROVE VirqInv'
  BY <1>0
<1> DEFINE e == [irq |-> i, src |-> active]
<1>1. /\ active \in Boxes /\ id[i] \in Boxes
      /\ nvic' = [nvic EXCEPT ![i].pending = FALSE]
      /\ isr' = Append(isr, e) /\ active' = id[i]
      /\ UNCHANGED <<id, hdlr, was_enabled, counter, halted, due>>
  BY DEF virq_gateway_in, table, TypeOK
<1>2. isr \in Seq([irq : Irqs, src : Boxes]) /\ e \in [irq : Irqs, src : Boxes]
  BY <1>1 DEF TypeOK
<1>3. /\ isr' \in Seq([irq : Irqs, src : Boxes])
      /\ Len(isr') = Len(isr) + 1 /\ Len(isr) \in Nat
      /\ DOMAIN isr' = 1 .. Len(isr) + 1 /\ DOMAIN isr = 1 .. Len(isr)
      /\ \A k \in DOMAIN isr : isr'[k] = isr[k]
      /\ isr'[Len(isr) + 1] = e
  BY <1>1, <1>2, SeqPush
<1>4. nvic' \in [Irqs -> Nvic] /\ \A j \in Irqs : nvic'[j].enabled = nvic[j].enabled
  BY <1>1 DEF TypeOK, Nvic
<1>5. TypeOK'
  BY <1>1, <1>3, <1>4 DEF TypeOK
<1>6. EnabledIsOwned' /\ DisableAllHolds' /\ NoSpuriousEnable'
  BY <1>1, <1>4 DEF EnabledIsOwned, DisableAllHolds, NoSpuriousEnable
<1>7. BootQuiet'
  BY <1>1, VirqAssumption DEF BootQuiet
<1>8. IsrRunsInOwnerBox'
  <2> SUFFICES ASSUME NEW k \in DOMAIN isr'
               PROVE  (IF k = Len(isr') THEN active' ELSE isr'[k + 1].src) = id'[isr'[k].irq]
    BY DEF IsrRunsInOwnerBox, Running
  <2>1. CASE k = Len(isr) + 1
    BY <1>1, <1>3, <2>1
  <2>2. CASE k # Len(isr) + 1
    <3>1. k \in DOMAIN isr /\ isr'[k] = isr[k] /\ k # Len(isr')
      BY <1>3, <2>2
    <3>2. Running(k) = id[isr[k].irq]
      BY <3>1 DEF IsrRunsInOwnerBox
    <3>3. isr'[k + 1].src = Running(k)
      <4>1. CASE k = Len(isr)
        BY <1>3, <4>1 DEF Running
      <4>2. CASE k # Len(isr)
        <5>1. k + 1 \in DOMAIN isr
          BY <1>3, <3>1, <4>2
        <5> QED
          BY <1>3, <4>2, <5>1 DEF Running
      <4> QED
        BY <4>1, <4>2
    <3> QED
      BY <1>1, <3>1, <3>2, <3>3
  <2> QED
    BY <2>1, <2>2
<1> QED
  BY <1>5, <1>6, <1>7, <1>8

LEMMA GatewayOutStep ==
  ASSUME VirqInv, virq_gateway_out
  PROVE  VirqInv'
<1> USE DEF VirqInv
<1>1. /\ isr # <<>> /\ active' = isr[Len(isr)].src
      /\ isr' = SubSeq(isr, 1, Len(isr) - 1)
      /\ UNCHANGED <<id, hdlr, was_enabled, counter, nvic, halted, due>>
  BY DEF virq_gateway_out, table
<1>2. isr \in Seq([irq : Irqs, src : Boxes])
  BY DEF TypeOK
<1>3. /\ isr' \in Seq([irq : Irqs, src : Boxes])
      /\ Len(isr) \in Nat \ {0} /\ Len(isr') = Len(isr) - 1
      /\ isr[Len(isr)] \in [irq : Irqs, src : Boxes]
      /\ DOMAIN isr' = 1 .. Len(isr) - 1
      /\ \A k \in DOMAIN isr' : k \in DOMAIN isr /\ isr'[k] = isr[k]
  BY <1>1, <1>2, SeqPop
<1>4. TypeOK'
  BY <1>1, <1>3 DEF TypeOK
<1>5. EnabledIsOwned' /\ DisableAllHolds' /\ NoSpuriousEnable'
  BY <1>1 DEF EnabledIsOwned, DisableAllHolds, NoSpuriousEnable
<1>6. BootQuiet'
  BY <1>1, <1>3, VirqAssumption DEF BootQuiet
<1>7. IsrRunsInOwnerBox'
  <2> SUFFICES ASSUME NEW k \in DOMAIN isr'
               PROVE  (IF k = Len(isr') THEN active' ELSE isr'[k + 1].src) = id'[isr'[k].irq]
    BY DEF IsrRunsInOwnerBox, Running
  <2>1. k \in DOMAIN isr /\ isr'[k] = isr[k] /\ k \in 1 .. Len(isr) - 1
    BY <1>3
  <2>2. Running(k) = id[isr[k].irq] /\ Running(k) = isr[k + 1].src
    BY <1>3, <2>1 DEF IsrRunsInOwnerBox, Running
  <2>3. CASE k = Len(isr')
    <3>1. k + 1 = Len(isr)
      BY <1>3, <2>3
    <3>2. active' = isr[k + 1].src
      BY <1>1, <3>1
    <3> QED
      BY <1>1, <2>1, <2>2, <2>3, <3>2
  <2>4. CASE k # Len(isr')
    <3>1. k + 1 \in DOMAIN isr'
      BY <1>3, <2>1, <2>4
    <3> QED
      BY <1>1, <1>3, <2>1, <2>2, <2>4, <3>1
  <2> QED
    BY <2>3, <2>4
<1> QED
  BY <1>4, <1>5, <1>6, <1>7

LEMMA VirqInvStep ==
  ASSUME VirqInv, [Next]_vars
  PROVE  VirqInv'
<1> USE DEF VirqInv
<1>1. ASSUME NEW b \in Boxes, NEW i \in Irqs \cup BadIrqs, virq_acl_add(b, i)
      PROVE  VirqInv'
  <2>1. CASE i \in BadIrqs \/ id[i] # INVALID
    BY <1>1, <2>1, HaltKeepsVirqInv DEF virq_acl_add
  <2>2. CASE ~(i \in BadIrqs \/ id[i] # INVALID)
    <3>1. /\ i \in Irqs /\ id[i] = INVALID /\ active = INVALID
          /\ id' = [id EXCEPT ![i] = b]
          /\ UNCHANGED <<hdlr, was_enabled, counter, nvic, active, isr, halted, due>>
      BY <1>1, <2>2 DEF virq_acl_add
    <3>2. isr = <<>>
      BY <3>1 DEF BootQuiet
    <3>3. /\ TypeOK'
          /\ \A j \in Irqs : id[j] # INVALID => id'[j] = id[j]
          /\ ~nvic[i].enabled /\ i \notin was_enabled
      BY <3>1, VirqAssumption DEF TypeOK, EnabledIsOwned, NoSpuriousEnable
    <3>4. EnabledIsOwned'
      BY <3>1, <3>3, VirqAssumption DEF EnabledIsOwned, TypeOK
    <3>5. DisableAllHolds'
      <4> SUFFICES ASSUME NEW j \in Irqs, id'[j] \in Boxes, counter[id'[j]] > 0
                   PROVE  ~nvic[j].enabled
        BY <3>1 DEF DisableAllHolds
      <4>1. CASE j = i
        BY <3>3, <4>1
      <4>2. CASE j # i
        BY <3>1, <4>2 DEF DisableAllHolds, TypeOK
      <4> QED
        BY <4>1, <4>2
    <3>6. NoSpuriousEnable'
      BY <3>1, <3>3, VirqAssumption DEF NoSpuriousEnable, TypeOK
    <3>7. IsrRunsInOwnerBox' /\ BootQuiet'
      BY <3>1, <3>2 DEF IsrRunsInOwnerBox, BootQuiet
    <3> QED
      BY <3>3, <3>4, <3>5, <3>6, <3>7
  <2> QED
    BY <2>1, <2>2
<1>2. ASSUME NEW b \in Boxes, SwitchBox(b)
      PROVE  VirqInv'
  BY <1>2 DEF SwitchBox, table, TypeOK, EnabledIsOwned, DisableAllHolds, NoSpuriousEnable,
              IsrRunsInOwnerBox, BootQuiet
<1>3. ASSUME NEW i \in Irqs, Raise(i)
      PROVE  VirqInv'
  <2>1. nvic' = [nvic EXCEPT ![i].pending = TRUE] /\ UNCHANGED <<table, active, isr, halted, due>>
    BY <1>3 DEF Raise
  <2>2. nvic' \in [Irqs -> Nvic] /\ \A j \in Irqs : nvic'[j].enabled = nvic[j].enabled
    BY <2>1 DEF TypeOK, Nvic
  <2>3. TypeOK' /\ EnabledIsOwned' /\ DisableAllHolds' /\ NoSpuriousEnable'
    BY <2>1, <2>2 DEF table, TypeOK, EnabledIsOwned, DisableAllHolds, NoSpuriousEnable
  <2>4. IsrRunsInOwnerBox' /\ BootQuiet'
    BY <2>1, IsrsKept DEF table
  <2> QED
    BY <2>3, <2>4
<1>4. ASSUME UNCHANGED vars
      PROVE  VirqInv'
  <2>1. TypeOK' /\ EnabledIsOwned' /\ DisableAllHolds' /\ NoSpuriousEnable'
    BY <1>4 DEF vars, TypeOK, EnabledIsOwned, DisableAllHolds, NoSpuriousEnable
  <2>2. IsrRunsInOwnerBox' /\ BootQuiet'
    BY <1>4, IsrsKept DEF vars
  <2> QED
    BY <2>1, <2>2
<1> QED
  BY <1>1, <1>2, <1>3, <1>4, IrqCallStep, DisableAllStep, EnableAllStep, GatewayInStep, GatewayOutStep
     DEF Next

\* No IRQ is enabled without an owner or inside a disable-all section of its
\* owner, enable_all never enables what the box did not ask for, and every ISR
\* runs in the box that owns its IRQ, however the boxes' calls and interrupts
\* interleave (core_armv7m/virq.c).
THEOREM VirqIsSafe == Spec => []VirqInv
<1>1. VirqInv /\ [Next]_vars => VirqInv'
  BY VirqInvStep
<1> QED
  BY VirqInvInit, <1>1, PTL DEF Spec

\* An interrupt that the NVIC delivers has a box for the gateway to switch to.
THEOREM DeliveredIrqsAreOwned == Spec => []EnabledIsOwned
BY VirqIsSafe, PTL DEF VirqInv

\* No nesting of virq_irq_disable_all, virq_irq_enable_all and ISRs enables an
\* IRQ of a box inside its section.
THEOREM SectionsHold == Spec => []DisableAllHolds
BY VirqIsSafe, PTL DEF VirqInv

\* virq_irq_enable_all has nothing to enable that the box has not enabled
\* before or in its section.
THEOREM NothingIsEnabledUnasked == Spec => []NoSpuriousEnable
BY VirqIsSafe, PTL DEF VirqInv

\* The gateway runs each ISR in the box that owns the IRQ, at every depth.
THEOREM IsrsRunAtHome == Spec => []IsrRunsInOwnerBox
BY VirqIsSafe, PTL DEF VirqInv

\* No call of any box and no interrupt gives an IRQ that a box owns to another box
\* (virq_isr_register and virq_acl_add in core_armv7m/virq.c).
THEOREM IrqsKeepTheirOwner == Spec => OwnershipStable
<1> DEFINE P == \A i \in Irqs : id[i] \in Boxes => id'[i] \in {id[i], INVALID}
<1>1. VirqInv /\ [Next]_vars => [P]_vars
  <2> SUFFICES ASSUME VirqInv, Next, NEW j \in Irqs, id[j] \in Boxes
               PROVE  id'[j] = id[j]
    OBVIOUS
  <2>0. id \in [Irqs -> Boxes \cup {INVALID}]
    BY DEF VirqInv, TypeOK
  <2>1. ASSUME NEW b \in Boxes, NEW i \in Irqs \cup BadIrqs, virq_acl_add(b, i)
        PROVE  id'[j] = id[j]
    BY <2>0, <2>1, VirqAssumption DEF virq_acl_add, Halt, table
  <2>2. ASSUME NEW i \in Irqs \cup BadIrqs, IrqCall(i)
        PROVE  id'[j] = id[j]
    <3>1. CASE Denied(i)
      BY <2>2, <3>1 DEF IrqCall, virq_isr_set, virq_get, virq_irq_enable, virq_irq_disable,
                        virq_irq_pending, virq_irq_priority_set, OnIrq, Halt, table
    <3>2. CASE ~Denied(i)
      <4>1. id' = [id EXCEPT ![i] = active] /\ i \in Irqs /\ id[i] \in {INVALID, active}
        BY <2>2, <3>2 DEF IrqCall, virq_isr_set, virq_get, virq_irq_enable, virq_irq_disable,
                          virq_irq_pending, virq_irq_priority_set, OnIrq, Registered, Denied
      <4> QED
        BY <2>0, <4>1, VirqAssumption
    <3> QED
      BY <3>1, <3>2
  <2>3. ASSUME virq_irq_disable_all \/ virq_irq_enable_all \/ virq_gateway_out
        PROVE  id'[j] = id[j]
    BY <2>3 DEF virq_irq_disable_all, virq_irq_enable_all, virq_gateway_out, table
  <2>4. ASSUME NEW i \in Irqs, Raise(i) \/ virq_gateway_in(i)
        PROVE  id'[j] = id[j]
    BY <2>4 DEF Raise, virq_gateway_in, Halt, table
  <2>5. ASSUME NEW b \in Boxes, SwitchBox(b)
        PROVE  id'[j] = id[j]
    BY <2>5 DEF SwitchBox, table
  <2> QED
    BY <2>1, <2>2, <2>3, <2>4, <2>5 DEF Next
<1>2. Spec => []VirqInv
  BY VirqIsSafe
<1> QED
  BY <1>1, <1>2, PTL DEF Spec, OwnershipStable
=============================================================================
