---------------------------- MODULE Kernel_proofs ----------------------------
(***************************************************************************)
(* Proofs about Kernel, for any boxes, threads, IRQs, priorities and depth *)
(* of the state stack.                                                     *)
(***************************************************************************)
EXTENDS Kernel, WellFoundedInduction, SequenceTheorems, TLAPS

Stacks   == [box : Boxes, thread : Threads \cup {NONE}]
Pointers == [stack : Stacks, at : Int]
Codes    == [kind : {"boot", "thread", "isr", "init", "debug"}, box : Boxes,
             who : Threads \cup Irqs \cup {NONE}, base : Int]
Saved    == [type : {"ISR", "GATEWAY", "DEBUG"}, src_id : Boxes, src_sp : Pointers]
Reasons  == {NONE, "fault", "overflow", "underflow", "registered", "reboot", "once", "order"}
States   == [active : Boxes, previous : Seq(Saved), sp : [Boxes -> Pointers], psp : Pointers,
             basepri : BOOLEAN, dead : BOOLEAN, why : Reasons,
             debug : [box : Boxes \cup {NoBox}, used : BOOLEAN],
             happened : BOOLEAN, counter : Boxes, box0_sp : Pointers,
             inits : Seq(Boxes), code : Seq(Codes)]

\* Whatever has halted: each code but the first was entered by a switch, which
\* left one saved state, and a core that is dead has a reason.
WellFormed(k) ==
  /\ k \in States
  /\ Len(k.code) = Len(k.previous) + 1 /\ Len(k.previous) <= CONTEXT_MAX_DEPTH
  /\ \A n \in 1 .. Len(k.code) : k.code[n].kind \in {"boot", "thread"} <=> n = 1
  /\ k.dead => k.why # NONE
  /\ k.code[1].kind = "boot" => k.code[1].who = NONE
  /\ k.code[1].kind = "thread" => k.code[1].who \in Threads /\ k.code[1].box = HomeOf[k.code[1].who]

Top(k) == k.code[Len(k.code)]

\* Before any halt: the code that runs, what is saved and what is recorded are of
\* the right box.
Owned(k) ==
  /\ k.active = Top(k).box
  /\ \A n \in 1 .. Len(k.previous) : /\ k.previous[n].src_id = k.code[n].box
                                     /\ k.previous[n].src_sp.stack.box = k.code[n].box
  /\ k.psp.stack.box = k.active
  /\ \A b \in Boxes : k.sp[b].stack.box = b
  /\ k.box0_sp.stack.box = 0

\* The chain of initialisations runs on top of code of box 0, alone.
Chain(k) ==
  /\ \A n \in 1 .. Len(k.code) :
       k.code[n].kind = "init" => /\ n = 2 /\ Len(k.code) = 2 /\ k.basepri
                                  /\ k.code[1].box = 0
                                  /\ k.counter = k.code[2].box /\ k.counter > 0 /\ ~k.happened
  /\ k.counter > 0 /\ ~k.happened => Top(k).kind = "init"

TypeInv ==
  /\ WellFormed(s)
  /\ slots \in [Slots -> [allocator : Threads \cup {"box", NONE}, process_id : Boxes]]
  /\ context \in [Threads -> Slots \cup {NoContext, FOREIGN}]
  /\ saved \in [Threads -> Pointers]
  /\ heap \in [DOMAIN NoHeaps -> Threads \cup {"box", NONE}]
  /\ full \in BOOLEAN

\* Threads have slots of their own, made for their box, and are suspended on
\* stacks of their box.
SlotInv ==
  /\ \A t \in Threads : context[t] # FOREIGN
  /\ \A t \in Threads : context[t] \in Slots =>
       slots[context[t]].process_id = HomeOf[t] /\ slots[context[t]].allocator # NONE
  /\ \A t, u \in Threads : t # u /\ context[t] \in Slots => context[t] # context[u]
  /\ \A t \in Threads : saved[t].stack.box = HomeOf[t]

\* The thread that runs, or that is interrupted, allocates from its own heap or
\* that of the box.
HeapInv ==
  s.code[1].kind = "thread" =>
    LET t == s.code[1].who IN
    /\ context[t] # NoContext
    /\ context[t] \in Slots => heap[HomeOf[t]] \in {slots[context[t]].allocator, "box", NONE}

NormalInv == Normal => Owned(s) /\ Chain(s) /\ SlotInv /\ HeapInv

KernelInv == TypeInv /\ NormalInv

----------------------------------------------------------------------------
\* The operations on states.

LEMMA PointerMoves ==
  ASSUME NEW p \in Pointers
  PROVE  /\ Stacked(p) \in Pointers /\ Stacked(p).stack = p.stack
         /\ Unstacked(p) \in Pointers /\ Unstacked(p).stack = p.stack
         /\ Unstacked(Stacked(p)).stack = p.stack
  BY DEF Pointers, Stacked, Unstacked

\* A switch in that is not refused.
SwitchedIn(k, j, dst_id, src_sp, dst_sp, kind, who) ==
  /\ j.active = dst_id
  /\ j.previous = Append(k.previous, [type |-> j.previous[Len(k.previous) + 1].type, src_id |-> k.active, src_sp |-> src_sp])
  /\ j.sp = [k.sp EXCEPT ![k.active] = src_sp]
  /\ j.psp = Unstacked(dst_sp)
  /\ j.code = Append(k.code, Code(kind, dst_id, who, Unstacked(dst_sp).at))
  /\ j.basepri = k.basepri /\ j.dead = k.dead /\ j.why = k.why /\ j.debug = k.debug
  /\ j.happened = k.happened /\ j.counter = k.counter /\ j.box0_sp = k.box0_sp /\ j.inits = k.inits

LEMMA Dies ==
  ASSUME NEW k, WellFormed(k), NEW why \in Reasons \ {NONE}
  PROVE  LET j == Dead(Because(k, why)) IN WellFormed(j) /\ j.dead /\ j.why # NONE /\ j.code[1] = k.code[1]
<1> DEFINE i == Because(k, why)
           j == Dead(i)
<1>1. k \in States
  BY DEF WellFormed
<1>2. i \in States /\ i.code = k.code /\ i.previous = k.previous /\ i.why # NONE
  BY <1>1 DEF Because, States, NONE
<1> HIDE DEF i
<1>3. j \in States /\ j.code = i.code /\ j.previous = i.previous /\ j.why = i.why /\ j.dead
  BY <1>2 DEF Dead, States
<1> HIDE DEF j
<1>4. WellFormed(j)
  BY <1>2, <1>3 DEF WellFormed
<1>5. QED
  BY <1>2, <1>3, <1>4 DEF j, i

\* Fields that well-formedness is about.
LEMMA FormOf ==
  ASSUME NEW k, WellFormed(k), NEW j \in States,
         j.code = k.code, j.previous = k.previous, j.dead = k.dead, k.why # NONE => j.why # NONE
  PROVE  WellFormed(j)
  BY DEF WellFormed

LEMMA SwitchIn ==
  ASSUME NEW k, WellFormed(k), ~k.dead, NEW type \in {"ISR", "GATEWAY", "DEBUG"}, NEW dst \in Boxes,
         NEW src_sp \in Pointers, NEW dst_sp \in Pointers,
         NEW kind \in {"isr", "init", "debug"}, NEW who \in Threads \cup Irqs \cup {NONE},
         NEW j, j = context_switch_in(k, type, dst, src_sp, dst_sp, kind, who)
  PROVE  /\ WellFormed(j) /\ j.code[1] = k.code[1]
         /\ \/ j.dead /\ j.why # NONE
            \/ SwitchedIn(k, j, dst, src_sp, dst_sp, kind, who)
<1> DEFINE m == [k EXCEPT !.active = dst]
<1>0. k \in States /\ k.active \in Boxes
  BY DEF WellFormed, States
<1>1. m \in States /\ m.active = dst /\ m.previous = k.previous /\ m.sp = k.sp /\ m.dead = k.dead
      /\ m.why = k.why /\ m.code = k.code /\ m.basepri = k.basepri /\ m.debug = k.debug
      /\ m.happened = k.happened /\ m.counter = k.counter /\ m.box0_sp = k.box0_sp /\ m.inits = k.inits
  BY <1>0 DEF States
<1>2. WellFormed(m)
  BY <1>1, FormOf
<1> HIDE DEF m
<1>3. CASE Len(k.previous) >= CONTEXT_MAX_DEPTH
  <2>1. j = Dead(Because(m, "overflow"))
    BY <1>1, <1>3 DEF context_switch_in, context_state_push, Then, Dead, Because, m
  <2>2. "overflow" \in Reasons \ {NONE}
    BY DEF NONE, Reasons
  <2>3. QED
    BY <1>1, <1>2, <2>1, <2>2, Dies
<1>4. CASE ~(Len(k.previous) >= CONTEXT_MAX_DEPTH)
  <2> DEFINE e == [type |-> type, src_id |-> k.active, src_sp |-> src_sp]
             c == Code(kind, dst, who, Unstacked(dst_sp).at)
             ps == Append(k.previous, e)
             cs == Append(k.code, c)
             sp == [k.sp EXCEPT ![k.active] = src_sp]
             n == [m EXCEPT !.previous = Append(@, e), !.sp[k.active] = src_sp]
  <2>1. e \in Saved /\ c \in Codes
    BY <1>0, PointerMoves DEF Saved, Codes, Code, Pointers
  <2>2. context_state_push(m, type, k.active, src_sp) = n
    BY <1>1, <1>4 DEF context_state_push
  <2>2a. n = [m EXCEPT !.previous = ps, !.sp = sp]
    BY <1>1
  <2>2b. ps \in Seq(Saved) /\ cs \in Seq(Codes) /\ sp \in [Boxes -> Pointers]
    <3> HIDE DEF e, c
    <3>1. QED
      BY <1>0, <2>1 DEF States
  <2> HIDE DEF e, ps, cs, sp, n, c
  <2>3. /\ n \in States /\ n.active = dst /\ n.previous = ps /\ n.sp = sp
        /\ n.dead = k.dead
        /\ n.why = k.why /\ n.code = k.code /\ n.basepri = k.basepri /\ n.debug = k.debug
        /\ n.happened = k.happened /\ n.counter = k.counter /\ n.box0_sp = k.box0_sp /\ n.inits = k.inits
    BY <1>0, <1>1, <2>2a, <2>2b DEF States
  <2>4. j = [n EXCEPT !.psp = Unstacked(dst_sp), !.code = cs]
    BY <2>2, <2>3 DEF context_switch_in, Then, c, m, cs
  <2>5. /\ j \in States /\ j.active = dst /\ j.previous = ps /\ j.sp = sp
        /\ j.psp = Unstacked(dst_sp) /\ j.code = cs
        /\ j.dead = k.dead
        /\ j.why = k.why /\ j.basepri = k.basepri /\ j.debug = k.debug
        /\ j.happened = k.happened /\ j.counter = k.counter /\ j.box0_sp = k.box0_sp /\ j.inits = k.inits
    <3>1. Unstacked(dst_sp) \in Pointers
      BY PointerMoves
    <3>2. QED
      BY <2>2b, <2>3, <2>4, <3>1 DEF States
  <2>6. k.previous \in Seq(Saved) /\ k.code \in Seq(Codes)
    BY <1>0 DEF States
  <2>7. j.previous[Len(k.previous) + 1] = e
    BY <2>1, <2>5, <2>6, AppendProperties DEF ps
  <2>8. SwitchedIn(k, j, dst, src_sp, dst_sp, kind, who)
    BY <2>5, <2>7 DEF SwitchedIn, e, c, ps, cs, sp
  <2>9. WellFormed(j)
    <3>1. Len(j.previous) = Len(k.previous) + 1 /\ Len(j.code) = Len(k.code) + 1
          /\ Len(k.previous) \in Nat /\ Len(k.code) \in Nat
      BY <2>1, <2>5, <2>6, AppendProperties DEF ps, cs
    <3>2. \A i \in 1 .. Len(k.code) : j.code[i] = k.code[i]
      BY <2>1, <2>5, <2>6, AppendProperties DEF ps, cs
    <3>3. j.code[Len(k.code) + 1].kind \in {"isr", "init", "debug"}
      <4>1. j.code[Len(k.code) + 1] = c
        BY <2>1, <2>5, <2>6, AppendProperties DEF ps, cs
      <4>2. c.kind = kind
        BY DEF c, Code
      <4>3. QED
        BY <4>1, <4>2
    <3>4. Len(k.code) = Len(k.previous) + 1 /\ \A i \in 1 .. Len(k.code) : k.code[i].kind \in {"boot", "thread"} <=> i = 1
      BY DEF WellFormed
    <3>5. \A i \in 1 .. Len(j.code) : j.code[i].kind \in {"boot", "thread"} <=> i = 1
      <4>1. TAKE i \in 1 .. Len(j.code)
      <4>2. CASE i = Len(k.code) + 1
        BY <3>1, <3>3, <3>4, <4>2
      <4>3. CASE i # Len(k.code) + 1
        <5>1. i \in 1 .. Len(k.code)
          BY <3>1, <4>3
        <5>2. QED
          BY <5>1, <3>2, <3>4
      <4>4. QED
        BY <4>2, <4>3
    <3>6. Len(j.previous) <= CONTEXT_MAX_DEPTH /\ Len(j.code) = Len(j.previous) + 1
      BY <1>4, <3>1, <3>4, KernelAssumption
    <3>7. j.dead => j.why # NONE
      BY <2>5 DEF WellFormed
    <3>8. j.code[1] = k.code[1]
      BY <3>1, <3>2, <3>4
    <3>9. QED
      BY <2>5, <3>5, <3>6, <3>7, <3>8 DEF WellFormed
  <2>10. j.code[1] = k.code[1]
    <3>1. Len(k.code) \in Nat /\ Len(k.code) >= 1
      BY <2>6 DEF WellFormed, States
    <3>2. QED
      BY <2>1, <2>5, <2>6, <3>1, AppendProperties DEF cs
  <2>11. QED
    BY <2>8, <2>9, <2>10
<1>5. QED
  BY <1>3, <1>4

\* debug_halt_error.
LEMMA Halts ==
  ASSUME NEW k, WellFormed(k), ~k.dead, NEW why \in Reasons \ {NONE}, NEW h, h = halt(k, why)
  PROVE  WellFormed(h) /\ h.why # NONE /\ (h.dead \/ h.previous # <<>>) /\ h.code[1] = k.code[1]
<1> DEFINE j == Because(k, why)
           b == k.debug.box
<1>0. k \in States
  BY DEF WellFormed
<1>1. CASE b = NoBox \/ k.debug.used
  <2>1. h = Dead(j)
    BY <1>1 DEF halt
  <2>2. QED
    BY <2>1, Dies
<1>2. CASE ~(b = NoBox \/ k.debug.used)
  <2> DEFINE m == [j EXCEPT !.debug.used = TRUE, !.basepri = TRUE]
  <2>1. j \in States /\ j.code = k.code /\ j.previous = k.previous /\ j.why \in Reasons \ {NONE} /\ j.dead = k.dead
        /\ j.debug = k.debug
    BY <1>0 DEF Because, States
  <2>2. b \in Boxes /\ k.sp[b] \in Pointers /\ k.psp \in Pointers
    BY <1>0, <1>2 DEF States
  <2>3. h = context_switch_in(m, "DEBUG", b, Stacked(k.psp), context_forge_exc_sf(k, b), "debug", NONE)
    BY <1>2 DEF halt
  <2> HIDE DEF j, b
  <2>4. m \in States /\ m.code = k.code /\ m.previous = k.previous /\ m.why = j.why /\ m.dead = k.dead
    BY <2>1 DEF States
  <2> HIDE DEF m
  <2>5. WellFormed(m)
    BY <2>1, <2>4, FormOf
  <2>6. Stacked(k.psp) \in Pointers /\ context_forge_exc_sf(k, b) \in Pointers
    BY <2>2, PointerMoves DEF context_forge_exc_sf
  <2>7. /\ WellFormed(h) /\ h.code[1] = m.code[1]
        /\ \/ h.dead /\ h.why # NONE
           \/ SwitchedIn(m, h, b, Stacked(k.psp), context_forge_exc_sf(k, b), "debug", NONE)
    BY <2>2, <2>3, <2>4, <2>5, <2>6, SwitchIn
  <2>8. ASSUME SwitchedIn(m, h, b, Stacked(k.psp), context_forge_exc_sf(k, b), "debug", NONE)
        PROVE  h.why = m.why /\ h.previous # <<>>
    <3>1. /\ h.why = m.why
          /\ \E e : h.previous = Append(m.previous, e)
      BY <2>8 DEF SwitchedIn
    <3>2. m.previous \in Seq(Saved) /\ h.previous \in Seq(Saved)
      BY <2>4, <2>7 DEF States, WellFormed
    <3>3. QED
      BY <3>1, <3>2
  <2>9. QED
    BY <2>1, <2>4, <2>7, <2>8
<1>3. QED
  BY <1>1, <1>2

\* A switch out to the code below.
SwitchedOut(k, j) ==
  /\ j.active = k.previous[Len(k.previous)].src_id
  /\ j.psp = Unstacked(k.previous[Len(k.previous)].src_sp)
  /\ j.previous = SubSeq(k.previous, 1, Len(k.previous) - 1)
  /\ j.code = SubSeq(k.code, 1, Len(k.code) - 1)
  /\ j.sp = k.sp /\ j.basepri = k.basepri /\ j.dead = k.dead /\ j.why = k.why /\ j.debug = k.debug
  /\ j.happened = k.happened /\ j.counter = k.counter /\ j.box0_sp = k.box0_sp /\ j.inits = k.inits

LEMMA Pops ==
  ASSUME NEW k, WellFormed(k), k.previous # <<>>, NEW j,
         j = [k EXCEPT !.previous = SubSeq(@, 1, Len(@) - 1),
                       !.active = k.previous[Len(k.previous)].src_id,
                       !.psp = Unstacked(k.previous[Len(k.previous)].src_sp),
                       !.code = SubSeq(@, 1, Len(@) - 1)]
  PROVE  WellFormed(j) /\ SwitchedOut(k, j) /\ j.code[1] = k.code[1]
<1> DEFINE ps == SubSeq(k.previous, 1, Len(k.previous) - 1)
           cs == SubSeq(k.code, 1, Len(k.code) - 1)
           top == k.previous[Len(k.previous)]
<1>1. k \in States /\ k.previous \in Seq(Saved) /\ k.code \in Seq(Codes)
  BY DEF WellFormed, States
<1>2. Len(k.code) = Len(k.previous) + 1 /\ Len(k.previous) <= CONTEXT_MAX_DEPTH
  BY DEF WellFormed
<1>3. Len(k.previous) \in Nat \ {0} /\ Len(k.code) \in Nat
  BY <1>1
<1>4. top \in Saved
  BY <1>1, <1>3
<1>5. ps \in Seq(Saved) /\ Len(ps) = Len(k.previous) - 1
  BY <1>1, <1>3, SubSeqProperties
<1>6. cs \in Seq(Codes) /\ Len(cs) = Len(k.code) - 1 /\ \A i \in 1 .. Len(cs) : cs[i] = k.code[i]
  BY <1>1, <1>2, <1>3, SubSeqProperties
<1>7. j = [k EXCEPT !.previous = ps, !.active = top.src_id, !.psp = Unstacked(top.src_sp), !.code = cs]
  OBVIOUS
<1>8. top.src_id \in Boxes /\ Unstacked(top.src_sp) \in Pointers
  BY <1>4, PointerMoves DEF Saved
<1> HIDE DEF ps, cs, top
<1>9. /\ j \in States /\ j.active = top.src_id /\ j.psp = Unstacked(top.src_sp)
      /\ j.previous = ps /\ j.code = cs
      /\ j.sp = k.sp /\ j.basepri = k.basepri /\ j.dead = k.dead /\ j.why = k.why /\ j.debug = k.debug
      /\ j.happened = k.happened /\ j.counter = k.counter /\ j.box0_sp = k.box0_sp /\ j.inits = k.inits
  BY <1>1, <1>5, <1>6, <1>7, <1>8 DEF States
<1>10. SwitchedOut(k, j)
  BY <1>9 DEF SwitchedOut, ps, cs, top
<1>11. j.code[1] = k.code[1]
  BY <1>2, <1>3, <1>6, <1>9
<1>12. WellFormed(j)
  <2>1. Len(j.code) = Len(j.previous) + 1 /\ Len(j.previous) <= CONTEXT_MAX_DEPTH
    BY <1>2, <1>3, <1>5, <1>6, <1>9, KernelAssumption
  <2>2. \A n \in 1 .. Len(j.code) : j.code[n].kind \in {"boot", "thread"} <=> n = 1
    <3>1. TAKE n \in 1 .. Len(j.code)
    <3>2. n \in 1 .. Len(k.code) /\ j.code[n] = k.code[n]
      BY <1>3, <1>6, <1>9
    <3>3. QED
      BY <3>2 DEF WellFormed
  <2>3. QED
    BY <1>9, <1>11, <2>1, <2>2 DEF WellFormed
<1>13. QED
  BY <1>10, <1>11, <1>12

LEMMA SwitchOut ==
  ASSUME NEW k, WellFormed(k), ~k.dead, NEW j, j = context_switch_out(k)
  PROVE  /\ WellFormed(j) /\ j.code[1] = k.code[1]
         /\ j.why # NONE \/ (k.previous # <<>> /\ SwitchedOut(k, j))
<1> DEFINE Pop(i) == [i EXCEPT !.previous = SubSeq(@, 1, Len(@) - 1),
                               !.active = i.previous[Len(i.previous)].src_id,
                               !.psp = Unstacked(i.previous[Len(i.previous)].src_sp),
                               !.code = SubSeq(@, 1, Len(@) - 1)]
           h == HaltIf(k, k.previous = <<>>, "underflow")
<1>1. j = IF h.dead THEN h ELSE Pop(h)
  BY DEF context_switch_out, Then
<1>2. CASE k.previous # <<>>
  <2>1. h = k
    BY <1>2 DEF HaltIf
  <2>2. j = Pop(k)
    BY <1>1, <2>1
  <2>3. QED
    BY <1>2, <2>2, Pops
<1>3. CASE k.previous = <<>>
  <2>1. "underflow" \in Reasons \ {NONE}
    BY DEF Reasons, NONE
  <2>2. h = halt(k, "underflow")
    BY <1>3 DEF HaltIf
  <2>3. WellFormed(h) /\ h.why # NONE /\ (h.dead \/ h.previous # <<>>) /\ h.code[1] = k.code[1]
    BY <2>1, <2>2, Halts
  <2>4. CASE h.dead
    BY <1>1, <2>3, <2>4
  <2>5. CASE ~h.dead
    <3>1. j = Pop(h)
      BY <1>1, <2>5
    <3> HIDE DEF h
    <3>2. WellFormed(j) /\ SwitchedOut(h, j) /\ j.code[1] = h.code[1]
      BY <2>3, <2>5, <3>1, Pops
    <3>3. j.why = h.why
      BY <3>2 DEF SwitchedOut
    <3>4. QED
      BY <2>3, <3>2, <3>3
  <2>6. QED
    BY <2>4, <2>5
<1>4. QED
  BY <1>2, <1>3

\* A switch in from a stack of the box that is left to one of the box entered
\* leaves everything owned.
LEMMA OwnedIn ==
  ASSUME NEW k, WellFormed(k), Owned(k), NEW j, WellFormed(j),
         NEW dst \in Boxes, NEW src_sp \in Pointers, NEW dst_sp \in Pointers, NEW kind, NEW who,
         SwitchedIn(k, j, dst, src_sp, dst_sp, kind, who),
         src_sp.stack.box = k.active, dst_sp.stack.box = dst
  PROVE  /\ Owned(j) /\ Len(j.code) = Len(k.code) + 1
         /\ Top(j).kind = kind /\ Top(j).box = dst
         /\ \A n \in 1 .. Len(k.code) : j.code[n] = k.code[n]
<1> DEFINE e == [type |-> j.previous[Len(k.previous) + 1].type, src_id |-> k.active, src_sp |-> src_sp]
           c == Code(kind, dst, who, Unstacked(dst_sp).at)
<1>1. /\ j.active = dst /\ j.previous = Append(k.previous, e)
      /\ j.sp = [k.sp EXCEPT ![k.active] = src_sp] /\ j.psp = Unstacked(dst_sp)
      /\ j.code = Append(k.code, c) /\ j.box0_sp = k.box0_sp
  BY DEF SwitchedIn
<1>2. k.previous \in Seq(Saved) /\ k.code \in Seq(Codes) /\ j.previous \in Seq(Saved) /\ j.code \in Seq(Codes)
      /\ k.sp \in [Boxes -> Pointers] /\ k.active \in Boxes
  BY DEF WellFormed, States
<1>3. e.src_id = k.active /\ e.src_sp = src_sp /\ c.kind = kind /\ c.box = dst
  BY DEF Code
<1> HIDE DEF e, c
<1>4. Len(j.previous) = Len(k.previous) + 1 /\ Len(k.previous) \in Nat
      /\ j.previous[Len(k.previous) + 1] = e
      /\ \A n \in 1 .. Len(k.previous) : j.previous[n] = k.previous[n]
  BY <1>1, <1>2
<1>5. Len(j.code) = Len(k.code) + 1 /\ Len(k.code) \in Nat
      /\ j.code[Len(k.code) + 1] = c
      /\ \A n \in 1 .. Len(k.code) : j.code[n] = k.code[n]
  BY <1>1, <1>2
<1>6. Top(j) = c
  BY <1>5 DEF Top
<1>7. Len(k.code) = Len(k.previous) + 1
  BY DEF WellFormed
<1>8. \A n \in 1 .. Len(j.previous) : /\ j.previous[n].src_id = j.code[n].box
                                      /\ j.previous[n].src_sp.stack.box = j.code[n].box
  <2>1. TAKE n \in 1 .. Len(j.previous)
  <2>2. CASE n = Len(k.previous) + 1
    <3>1. j.code[n] = k.code[Len(k.code)] /\ j.previous[n] = e
      BY <1>4, <1>5, <1>7, <2>2
    <3>2. k.code[Len(k.code)].box = k.active
      BY DEF Owned, Top
    <3>3. QED
      BY <1>3, <3>1, <3>2
  <2>3. CASE n # Len(k.previous) + 1
    <3>1. n \in 1 .. Len(k.previous) /\ j.previous[n] = k.previous[n] /\ j.code[n] = k.code[n]
      BY <1>4, <1>5, <1>7, <2>3
    <3>2. QED
      BY <3>1 DEF Owned
  <2>4. QED
    BY <2>2, <2>3
<1>9. j.psp.stack.box = j.active
  BY <1>1, PointerMoves
<1>10. \A b \in Boxes : j.sp[b].stack.box = b
  BY <1>1, <1>2 DEF Owned
<1>11. Owned(j)
  BY <1>1, <1>3, <1>6, <1>8, <1>9, <1>10 DEF Owned
<1>12. QED
  BY <1>3, <1>5, <1>6, <1>11

LEMMA OwnedOut ==
  ASSUME NEW k, WellFormed(k), Owned(k), NEW j, WellFormed(j), k.previous # <<>>, SwitchedOut(k, j)
  PROVE  /\ Owned(j) /\ Len(j.code) = Len(k.code) - 1
         /\ \A n \in 1 .. Len(j.code) : n \in 1 .. Len(k.code) /\ j.code[n] = k.code[n]
<1>1. /\ j.active = k.previous[Len(k.previous)].src_id
      /\ j.psp = Unstacked(k.previous[Len(k.previous)].src_sp)
      /\ j.previous = SubSeq(k.previous, 1, Len(k.previous) - 1)
      /\ j.code = SubSeq(k.code, 1, Len(k.code) - 1)
      /\ j.sp = k.sp /\ j.box0_sp = k.box0_sp
  BY DEF SwitchedOut
<1>2. k.previous \in Seq(Saved) /\ k.code \in Seq(Codes)
  BY DEF WellFormed, States
<1>3. Len(k.code) = Len(k.previous) + 1
  BY DEF WellFormed
<1>4. Len(k.previous) \in Nat \ {0} /\ Len(k.code) \in Nat
  BY <1>2
<1>5. Len(j.previous) = Len(k.previous) - 1 /\ \A n \in 1 .. Len(k.previous) - 1 : j.previous[n] = k.previous[n]
  BY <1>1, <1>2, <1>4, SubSeqProperties
<1>6. Len(j.code) = Len(k.code) - 1 /\ \A n \in 1 .. Len(k.code) - 1 : j.code[n] = k.code[n]
  BY <1>1, <1>2, <1>3, <1>4, SubSeqProperties
<1>7. Top(j) = k.code[Len(k.previous)]
  BY <1>3, <1>4, <1>6 DEF Top
<1> DEFINE top == k.previous[Len(k.previous)]
<1>8. top \in Saved /\ top.src_id = k.code[Len(k.previous)].box /\ top.src_sp.stack.box = top.src_id
  BY <1>2, <1>4 DEF Owned
<1>9. j.psp.stack.box = j.active
  <2>1. top.src_sp \in Pointers
    BY <1>8 DEF Saved
  <2>2. QED
    BY <1>1, <1>8, <2>1, PointerMoves
<1>10. \A n \in 1 .. Len(j.previous) : /\ j.previous[n].src_id = j.code[n].box
                                       /\ j.previous[n].src_sp.stack.box = j.code[n].box
  <2>1. TAKE n \in 1 .. Len(j.previous)
  <2>2. n \in 1 .. Len(k.previous) /\ j.previous[n] = k.previous[n] /\ j.code[n] = k.code[n]
    BY <1>3, <1>4, <1>5, <1>6
  <2>3. QED
    BY <2>2 DEF Owned
<1>11. Owned(j)
  BY <1>1, <1>7, <1>8, <1>9, <1>10 DEF Owned
<1>12. \A n \in 1 .. Len(j.code) : n \in 1 .. Len(k.code) /\ j.code[n] = k.code[n]
  BY <1>4, <1>6
<1>13. QED
  BY <1>6, <1>11, <1>12

\* An ISR switches out; its frame is discarded first.
LEMMA Discards ==
  ASSUME NEW k, WellFormed(k), NEW p \in Pointers, NEW j, j = context_discard_exc_sf(k, k.active, p)
  PROVE  /\ WellFormed(j) /\ j.code = k.code /\ j.previous = k.previous /\ j.why = k.why /\ j.dead = k.dead
         /\ j.counter = k.counter /\ j.happened = k.happened /\ j.basepri = k.basepri
         /\ j.active = k.active /\ j.box0_sp = k.box0_sp /\ j.psp = k.psp /\ j.inits = k.inits
         /\ Owned(k) /\ p.stack.box = k.active => Owned(j)
<1> DEFINE q == [k.sp EXCEPT ![k.active] = Unstacked(p)]
<1>1. k \in States /\ k.active \in Boxes /\ k.sp \in [Boxes -> Pointers]
  BY DEF WellFormed, States
<1>2. Unstacked(p) \in Pointers /\ Unstacked(p).stack = p.stack
  BY PointerMoves
<1>3. q \in [Boxes -> Pointers]
  BY <1>1, <1>2
<1>4. j = [k EXCEPT !.sp = q]
  BY DEF context_discard_exc_sf
<1>5. p.stack.box = k.active /\ (\A b \in Boxes : k.sp[b].stack.box = b) => \A b \in Boxes : q[b].stack.box = b
  BY <1>1, <1>2
<1> HIDE DEF q
<1>6. /\ j \in States /\ j.sp = q /\ j.code = k.code /\ j.previous = k.previous /\ j.why = k.why /\ j.dead = k.dead
      /\ j.counter = k.counter /\ j.happened = k.happened /\ j.basepri = k.basepri
      /\ j.active = k.active /\ j.box0_sp = k.box0_sp /\ j.psp = k.psp /\ j.inits = k.inits
  BY <1>1, <1>3, <1>4 DEF States
<1>7. WellFormed(j)
  BY <1>6, FormOf
<1>8. Owned(k) /\ p.stack.box = k.active => Owned(j)
  BY <1>5, <1>6 DEF Owned, Top
<1>9. QED
  BY <1>6, <1>7, <1>8

----------------------------------------------------------------------------
\* The chain of initialisations.

LEMMA LeastElement ==
  ASSUME NEW S, S \subseteq Nat, S # {}
  PROVE  \E i \in S : \A j \in S : i <= j
<1>1. \E i \in S : \A j \in S : <<j, i>> \notin OpToRel(<, Nat)
  BY NatLessThanWellFounded, WFMin, Zenon
<1>2. ASSUME NEW i \in S, \A j \in S : <<j, i>> \notin OpToRel(<, Nat), NEW j \in S
      PROVE  i <= j
  <2>1. ~(j < i)
    BY <1>2 DEF OpToRel
  <2>2. QED
    BY <2>1
<1>3. QED
  BY <1>1, <1>2

\* A halt on a condition, or none.
Follows(k, j) ==
  /\ WellFormed(j) /\ j.code[1] = k.code[1]
  /\ k.why # NONE => j.why # NONE

LEMMA MayHalt ==
  ASSUME NEW k, WellFormed(k), ~k.dead, NEW c \in BOOLEAN, NEW why \in Reasons \ {NONE},
         NEW j, j = HaltIf(k, c, why)
  PROVE  Follows(k, j) /\ (j.why = NONE => j = k /\ ~c)
<1>1. CASE c
  <2>1. j = halt(k, why)
    BY <1>1 DEF HaltIf
  <2>2. QED
    BY <2>1, Halts DEF Follows
<1>2. CASE ~c
  BY <1>2 DEF HaltIf, Follows
<1>3. QED
  BY <1>1, <1>2

\* What is left to do when the handler before has returned: nothing is on top of
\* the code of box 0.
GoesOn(k, L) ==
  IF L = {} THEN Finish(k) ELSE
  LET dst == CHOOSE b \in L : \A c \in L : b <= c
  IN  context_switch_in([k EXCEPT !.counter = dst, !.inits = Append(@, dst)], "GATEWAY", dst,
                        k.box0_sp, context_forge_exc_sf(k, dst), "init", NONE)

LEMMA ChainGoesOn ==
  ASSUME NEW k, WellFormed(k), ~k.dead, NEW L \in SUBSET (1 .. LastBox), NEW r, r = GoesOn(k, L)
  PROVE  /\ Follows(k, r)
         /\ r.why = NONE /\ Owned(k) /\ Len(k.code) = 1 /\ k.active = 0 /\ k.basepri /\ ~k.happened
              => Owned(r) /\ Chain(r)
<1>0. k \in States /\ k.code \in Seq(Codes) /\ k.inits \in Seq(Boxes) /\ k.box0_sp \in Pointers
      /\ k.sp \in [Boxes -> Pointers]
  BY DEF WellFormed, States
<1>1. CASE L = {}
  <2>1. r = Finish(k)
    BY <1>1 DEF GoesOn
  <2>2. /\ r \in States /\ r.code = k.code /\ r.previous = k.previous /\ r.dead = k.dead /\ r.why = k.why
        /\ r.happened /\ r.active = k.active /\ r.psp = k.psp /\ r.sp = k.sp /\ r.box0_sp = k.box0_sp
    BY <1>0, <2>1 DEF Finish, States
  <2>3. WellFormed(r)
    BY <2>2, FormOf
  <2>4. ASSUME Owned(k), Len(k.code) = 1
        PROVE  Owned(r) /\ Chain(r)
    <3>1. Owned(r)
      BY <2>2, <2>4 DEF Owned, Top
    <3>2. \A n \in 1 .. Len(r.code) : r.code[n].kind # "init"
      BY <2>2, <2>4 DEF WellFormed
    <3>3. QED
      BY <2>2, <3>1, <3>2 DEF Chain
  <2>5. QED
    BY <2>2, <2>3, <2>4 DEF Follows
<1>2. CASE L # {}
  <2> DEFINE dst == CHOOSE b \in L : \A c \in L : b <= c
             m == [k EXCEPT !.counter = dst, !.inits = Append(@, dst)]
             ns == Append(k.inits, dst)
  <2>1. dst \in L
    <3>1. L \in SUBSET Nat
      BY KernelAssumption
    <3>2. \E b \in L : \A c \in L : b <= c
      BY <1>2, <3>1, LeastElement
    <3>3. QED
      BY <3>2
  <2>2. r = context_switch_in(m, "GATEWAY", dst, k.box0_sp, context_forge_exc_sf(k, dst), "init", NONE)
    BY <1>2 DEF GoesOn
  <2> HIDE DEF dst
  <2>3. dst \in Boxes /\ dst > 0 /\ ns \in Seq(Boxes)
    BY <1>0, <2>1, KernelAssumption DEF Boxes
  <2>4. m = [k EXCEPT !.counter = dst, !.inits = ns]
    BY <1>0
  <2> HIDE DEF m, ns
  <2>5. /\ m \in States /\ m.code = k.code /\ m.previous = k.previous /\ m.dead = k.dead /\ m.why = k.why
        /\ m.happened = k.happened /\ m.active = k.active /\ m.psp = k.psp /\ m.sp = k.sp /\ m.box0_sp = k.box0_sp
        /\ m.basepri = k.basepri /\ m.counter = dst
    BY <1>0, <2>3, <2>4 DEF States
  <2>6. WellFormed(m)
    BY <2>5, FormOf
  <2> DEFINE f == context_forge_exc_sf(k, dst)
  <2>7. f \in Pointers /\ f.stack = k.sp[dst].stack
    BY <1>0, <2>3, PointerMoves DEF context_forge_exc_sf
  <2> HIDE DEF f
  <2>8. /\ WellFormed(r) /\ r.code[1] = m.code[1]
        /\ \/ r.dead /\ r.why # NONE
           \/ SwitchedIn(m, r, dst, k.box0_sp, f, "init", NONE)
    BY <1>0, <2>2, <2>3, <2>5, <2>6, <2>7, SwitchIn DEF f
  <2>9. Follows(k, r)
    BY <2>5, <2>8 DEF Follows, SwitchedIn
  <2>10. ASSUME r.why = NONE, Owned(k), Len(k.code) = 1, k.active = 0, k.basepri, ~k.happened
         PROVE  Owned(r) /\ Chain(r)
    <3>1. SwitchedIn(m, r, dst, k.box0_sp, f, "init", NONE)
      BY <2>8, <2>10
    <3>2. Owned(m)
      BY <2>5, <2>10 DEF Owned, Top
    <3>3. k.box0_sp.stack.box = m.active /\ f.stack.box = dst
      BY <2>3, <2>5, <2>7, <2>10 DEF Owned
    <3>4. /\ Owned(r) /\ Len(r.code) = Len(m.code) + 1
          /\ Top(r).kind = "init" /\ Top(r).box = dst
          /\ \A n \in 1 .. Len(m.code) : r.code[n] = m.code[n]
      BY <1>0, <2>3, <2>6, <2>7, <2>8, <3>1, <3>2, <3>3, OwnedIn
    <3>5. Len(r.code) = 2 /\ r.code[1] = k.code[1]
      <4>1. Len(r.code) = Len(k.code) + 1
        BY <2>5, <3>4, Zenon
      <4>2. r.code[1] = k.code[1]
        BY <2>5, <2>8, Zenon
      <4>3. QED
        BY <2>10, <4>1, <4>2
    <3>5a. k.code[1].kind # "init" /\ k.code[1].box = 0
      <4>1. k.code[1].kind \in {"boot", "thread"}
        BY <2>10 DEF WellFormed
      <4>2. k.code[1].box = 0
        BY <2>10 DEF Owned, Top
      <4>3. QED
        BY <4>1, <4>2
    <3>6. r.basepri /\ r.counter = dst /\ ~r.happened
      BY <2>5, <2>10, <3>1 DEF SwitchedIn
    <3>7. QED
      <4>1. r.code[2].kind = "init" /\ r.code[2].box = dst
        BY <3>4, <3>5 DEF Top
      <4>2. \A n \in 1 .. Len(r.code) : n = 1 \/ n = 2
        BY <3>5
      <4>3. QED
        BY <2>3, <3>4, <3>5, <3>5a, <3>6, <4>1, <4>2 DEF Chain
  <2>11. QED
    BY <2>9, <2>10
<1>3. QED
  BY <1>1, <1>2

\* The state in which the next handler is switched to.
Back(k, src_sp) ==
  IF k.counter = 0 THEN [k EXCEPT !.box0_sp = src_sp]
  ELSE context_switch_out(context_discard_exc_sf(k, k.active, src_sp))

LEMMA GoesBack ==
  ASSUME NEW k, WellFormed(k), ~k.dead, NEW p \in Pointers, NEW r, r = Back(k, p)
  PROVE  /\ Follows(k, r)
         /\ r.why = NONE /\ Owned(k) /\ Chain(k) /\ ~k.happened /\ k.active = k.counter /\ k.basepri
              /\ p.stack = k.psp.stack /\ Top(k).kind \in {"boot", "init", "thread"}
              => Owned(r) /\ Len(r.code) = 1 /\ r.active = 0 /\ r.basepri /\ ~r.happened
<1>0. k \in States /\ k.code \in Seq(Codes) /\ k.counter \in Boxes /\ k.psp \in Pointers
      /\ Len(k.code) \in Nat /\ Len(k.code) = Len(k.previous) + 1 /\ Len(k.code) > 0
  BY DEF WellFormed, States
<1>1. CASE k.counter = 0
  <2>1. r = [k EXCEPT !.box0_sp = p]
    BY <1>1 DEF Back
  <2>2. /\ r \in States /\ r.code = k.code /\ r.previous = k.previous /\ r.dead = k.dead /\ r.why = k.why
        /\ r.happened = k.happened /\ r.active = k.active /\ r.psp = k.psp /\ r.sp = k.sp /\ r.box0_sp = p
        /\ r.basepri = k.basepri
    BY <1>0, <2>1 DEF States
  <2>3. WellFormed(r)
    BY <2>2, FormOf
  <2>4. ASSUME Owned(k), Chain(k), k.active = k.counter, p.stack = k.psp.stack,
               Top(k).kind \in {"boot", "init", "thread"}
        PROVE  Owned(r) /\ Len(r.code) = 1
    <3>1. p.stack.box = 0
      BY <1>1, <2>4 DEF Owned
    <3>2. Owned(r)
      BY <2>2, <2>4, <3>1 DEF Owned, Top
    <3>3. Top(k).kind # "init"
      BY <1>0, <1>1, <2>4 DEF Chain, Top
    <3>4. Len(k.code) = 1
      BY <1>0, <2>4, <3>3 DEF WellFormed, Top
    <3>5. QED
      BY <2>2, <3>2, <3>4
  <2>5. Follows(k, r)
    BY <2>2, <2>3 DEF Follows
  <2>6. QED
    BY <1>1, <2>2, <2>4, <2>5
<1>2. CASE k.counter # 0
  <2> DEFINE d == context_discard_exc_sf(k, k.active, p)
  <2>1. r = context_switch_out(d)
    BY <1>2 DEF Back
  <2>2. /\ WellFormed(d) /\ d.code = k.code /\ d.previous = k.previous /\ d.why = k.why /\ d.dead = k.dead
        /\ d.counter = k.counter /\ d.happened = k.happened /\ d.basepri = k.basepri
        /\ d.active = k.active /\ d.box0_sp = k.box0_sp /\ d.psp = k.psp /\ d.inits = k.inits
        /\ Owned(k) /\ p.stack.box = k.active => Owned(d)
    BY Discards
  <2> HIDE DEF d
  <2>3. /\ WellFormed(r) /\ r.code[1] = d.code[1]
        /\ r.why # NONE \/ (d.previous # <<>> /\ SwitchedOut(d, r))
    BY <2>1, <2>2, SwitchOut
  <2>4. Follows(k, r)
    BY <2>2, <2>3 DEF Follows, SwitchedOut
  <2>5. ASSUME r.why = NONE, Owned(k), Chain(k), ~k.happened, k.basepri, p.stack = k.psp.stack
        PROVE  Owned(r) /\ Len(r.code) = 1 /\ r.active = 0 /\ r.basepri /\ ~r.happened
    <3>1. d.previous # <<>> /\ SwitchedOut(d, r)
      BY <2>3, <2>5
    <3>2. Owned(d)
      BY <2>2, <2>5 DEF Owned
    <3>3. /\ Owned(r) /\ Len(r.code) = Len(d.code) - 1
      BY <2>2, <2>3, <3>1, <3>2, OwnedOut
    <3>4. k.counter > 0
      BY <1>0, <1>2, KernelAssumption DEF Boxes
    <3>5. Top(k).kind = "init"
      BY <2>5, <3>4 DEF Chain
    <3>6. Len(k.code) = 2 /\ k.code[1].box = 0
      BY <1>0, <2>5, <3>5 DEF Chain, Top
    <3>7. Len(r.code) = 1
      <4>1. Len(r.code) = Len(k.code) - 1
        BY <2>2, <3>3, Zenon
      <4>2. QED
        BY <3>6, <4>1
    <3>8. r.active = 0
      <4>1. r.active = r.code[1].box
        BY <3>3, <3>7 DEF Owned, Top
      <4>2. r.code[1] = k.code[1]
        BY <2>2, <2>3, Zenon
      <4>3. QED
        BY <3>6, <4>1, <4>2
    <3>9. QED
      BY <2>2, <2>5, <3>1, <3>3, <3>7, <3>8 DEF SwitchedOut
  <2>6. QED
    BY <2>4, <2>5
<1>3. QED
  BY <1>1, <1>2

LEMMA BoxInit ==
  ASSUME NEW k, WellFormed(k), ~k.dead, NEW p \in Pointers, p.stack = k.psp.stack,
         Top(k).kind \in {"boot", "init", "thread"}, NEW r, r = box_init_next(k, p)
  PROVE  /\ Follows(k, r)
         /\ r.why = NONE /\ k.basepri /\ Owned(k) /\ Chain(k) => Owned(r) /\ Chain(r)
<1> DEFINE k1 == HaltIf(k, k.happened, "once")
           k2 == HaltIf(k1, k1.active # k1.counter, "order")
           k3 == Back(k2, p)
<1>1. r = IF k1.dead THEN k1 ELSE
          IF LastBox = 0 THEN [k1 EXCEPT !.happened = TRUE] ELSE
          IF k2.dead THEN k2 ELSE
          IF k3.dead THEN k3 ELSE GoesOn(k3, Left(k2))
  BY DEF box_init_next, Then, Back, GoesOn
<1> HIDE DEF k1, k2, k3
<1>2. "once" \in Reasons \ {NONE} /\ "order" \in Reasons \ {NONE}
  BY DEF Reasons, NONE
<1>3. Follows(k, k1) /\ (k1.why = NONE => k1 = k /\ ~k.happened)
  <2>1. k.happened \in BOOLEAN
    BY DEF WellFormed, States
  <2>2. QED
    BY <1>2, <2>1, MayHalt DEF k1
<1>4. CASE k1.dead
  BY <1>1, <1>3, <1>4 DEF Follows, WellFormed
<1>5. CASE ~k1.dead /\ LastBox = 0
  <2>1. r = [k1 EXCEPT !.happened = TRUE]
    BY <1>1, <1>5
  <2>2. k1 \in States /\ WellFormed(k1)
    BY <1>3 DEF Follows, WellFormed
  <2>3. /\ r \in States /\ r.code = k1.code /\ r.previous = k1.previous /\ r.dead = k1.dead /\ r.why = k1.why
        /\ r.happened /\ r.active = k1.active /\ r.psp = k1.psp /\ r.sp = k1.sp /\ r.box0_sp = k1.box0_sp
        /\ r.counter = k1.counter
    BY <2>1, <2>2 DEF States
  <2>4. Follows(k, r)
    <3>1. WellFormed(r)
      BY <2>2, <2>3, FormOf
    <3>2. QED
      BY <1>3, <2>3, <3>1 DEF Follows
  <2>5. ASSUME r.why = NONE, k.basepri, Owned(k), Chain(k)
        PROVE  Owned(r) /\ Chain(r)
    <3>1. k1 = k
      BY <1>3, <2>3, <2>5
    <3>2. Owned(r)
      BY <2>3, <2>5, <3>1 DEF Owned, Top
    <3>3. \A n \in 1 .. Len(k.code) : k.code[n].kind # "init"
      <4>1. k.counter = 0
        BY <1>5 DEF WellFormed, States, Boxes
      <4>2. QED
        BY <2>5, <4>1 DEF Chain
    <3>4. QED
      BY <2>3, <3>1, <3>2, <3>3 DEF Chain
  <2>6. QED
    BY <2>4, <2>5
<1>6. CASE ~k1.dead /\ LastBox # 0
  <2>1. Follows(k1, k2) /\ (k2.why = NONE => k2 = k1 /\ k1.active = k1.counter)
    <3>1. WellFormed(k1)
      BY <1>3 DEF Follows
    <3> DEFINE c == k1.active # k1.counter
    <3>2. c \in BOOLEAN /\ k2 = HaltIf(k1, c, "order")
      BY DEF k2
    <3> HIDE DEF c
    <3>3. Follows(k1, k2) /\ (k2.why = NONE => k2 = k1 /\ ~c)
      BY <1>2, <1>6, <3>1, <3>2, MayHalt
    <3>4. QED
      BY <3>3 DEF c
  <2>2. CASE k2.dead
    <3>1. r = k2 /\ r.why # NONE
      BY <1>1, <1>6, <2>1, <2>2 DEF Follows, WellFormed
    <3>2. QED
      BY <1>3, <2>1, <3>1 DEF Follows
  <2>3. CASE ~k2.dead
    <3>1. WellFormed(k2)
      BY <2>1 DEF Follows
    <3>2. /\ Follows(k2, k3)
          /\ k3.why = NONE /\ Owned(k2) /\ Chain(k2) /\ ~k2.happened /\ k2.active = k2.counter /\ k2.basepri
              /\ p.stack = k2.psp.stack /\ Top(k2).kind \in {"boot", "init", "thread"}
              => Owned(k3) /\ Len(k3.code) = 1 /\ k3.active = 0 /\ k3.basepri /\ ~k3.happened
      BY <2>3, <3>1, GoesBack DEF k3
    <3>3. CASE k3.dead
      <4>1. r = k3 /\ r.why # NONE
        BY <1>1, <1>6, <2>3, <3>2, <3>3 DEF Follows, WellFormed
      <4>2. QED
        BY <1>3, <2>1, <3>2, <4>1 DEF Follows
    <3>4. CASE ~k3.dead
      <4>1. r = GoesOn(k3, Left(k2))
        BY <1>1, <1>6, <2>3, <3>4
      <4>2. Left(k2) \in SUBSET (1 .. LastBox) /\ WellFormed(k3)
        BY <3>2, KernelAssumption DEF Left, Follows
      <4>3. /\ Follows(k3, r)
            /\ r.why = NONE /\ Owned(k3) /\ Len(k3.code) = 1 /\ k3.active = 0 /\ k3.basepri /\ ~k3.happened
                 => Owned(r) /\ Chain(r)
        BY <3>4, <4>1, <4>2, ChainGoesOn
      <4>4. Follows(k, r)
        BY <1>3, <2>1, <3>2, <4>3 DEF Follows
      <4>5. ASSUME r.why = NONE, k.basepri, Owned(k), Chain(k)
            PROVE  Owned(r) /\ Chain(r)
        <5>1. k3.why = NONE /\ k2.why = NONE /\ k1.why = NONE
          BY <2>1, <3>2, <4>3, <4>5 DEF Follows
        <5>2. k2 = k /\ ~k.happened /\ k.active = k.counter
          BY <1>3, <2>1, <5>1
        <5>3. QED
          BY <3>2, <4>3, <4>5, <5>1, <5>2
      <4>6. QED
        BY <4>4, <4>5
    <3>5. QED
      BY <3>3, <3>4
  <2>4. QED
    BY <2>2, <2>3
<1>7. QED
  BY <1>4, <1>5, <1>6

\* Code that runs moves on its stack.
Moved(k, j) ==
  /\ WellFormed(j) /\ j.code = k.code /\ j.why = k.why /\ j.dead = k.dead /\ j.active = k.active
  /\ j.counter = k.counter /\ j.happened = k.happened /\ j.basepri = k.basepri
  /\ j.psp \in Pointers /\ j.psp.stack = k.psp.stack
  /\ Owned(k) => Owned(j)
  /\ Chain(k) => Chain(j)

LEMMA Moves ==
  ASSUME NEW k, WellFormed(k), NEW n \in Int
  PROVE  Moved(k, [k EXCEPT !.psp.at = n])
<1> DEFINE q == [k.psp EXCEPT !.at = n]
           j == [k EXCEPT !.psp.at = n]
<1>1. k \in States /\ k.psp \in Pointers
  BY DEF WellFormed, States
<1>2. q \in Pointers /\ q.stack = k.psp.stack
  BY <1>1 DEF Pointers
<1>3. j = [k EXCEPT !.psp = q]
  BY <1>1 DEF States
<1> HIDE DEF q, j
<1>4. /\ j \in States /\ j.psp = q /\ j.sp = k.sp /\ j.code = k.code /\ j.previous = k.previous /\ j.why = k.why
      /\ j.dead = k.dead /\ j.counter = k.counter /\ j.happened = k.happened /\ j.basepri = k.basepri
      /\ j.active = k.active /\ j.box0_sp = k.box0_sp
  BY <1>1, <1>2, <1>3 DEF States
<1>5. WellFormed(j)
  BY <1>4, FormOf
<1>6. Owned(k) => Owned(j)
  BY <1>2, <1>4 DEF Owned, Top
<1>7. Chain(k) => Chain(j)
  BY <1>4 DEF Chain, Top
<1>8. Moved(k, j)
  BY <1>2, <1>4, <1>5, <1>6, <1>7 DEF Moved
<1>9. QED
  BY <1>8 DEF j

----------------------------------------------------------------------------
\* The actions.

LEMMA BootedInv == WellFormed(Booted) /\ Owned(Booted) /\ Chain(Booted) /\ Booted.code[1].kind = "boot"
<1> DEFINE p == [b \in Boxes |-> At(BoxStack(b), 0)]
           c == Code("boot", 0, NONE, 0)
           cs == <<c>>
           d == [box |-> NoBox, used |-> FALSE]
           q == At(BoxStack(0), 0)
<1>1. 0 \in Boxes
  BY KernelAssumption DEF Boxes
<1>2. \A b \in Boxes : At(BoxStack(b), 0) \in Pointers /\ At(BoxStack(b), 0).stack.box = b
  BY DEF At, BoxStack, Pointers, Stacks
<1>3. p \in [Boxes -> Pointers] /\ (\A b \in Boxes : p[b].stack.box = b) /\ q \in Pointers /\ q.stack.box = 0
  BY <1>1, <1>2
<1>4. c \in Codes /\ c.kind = "boot" /\ c.who = NONE /\ c.box = 0
  BY <1>1 DEF c, Code, Codes
<1>5. d \in [box : Boxes \cup {NoBox}, used : BOOLEAN]
  OBVIOUS
<1>6. Booted = [active |-> 0, previous |-> <<>>, sp |-> p, psp |-> q, basepri |-> FALSE, dead |-> FALSE,
                why |-> NONE, debug |-> d, happened |-> FALSE, counter |-> 0, box0_sp |-> q,
                inits |-> <<>>, code |-> cs]
  BY DEF Booted
<1> HIDE DEF p, q, c, d
<1>7. cs \in Seq(Codes) /\ Len(cs) = 1 /\ cs[1] = c
  BY <1>4
<1> HIDE DEF cs
<1>8. /\ Booted \in States /\ Booted.active = 0 /\ Booted.previous = <<>> /\ Booted.sp = p /\ Booted.psp = q
      /\ ~Booted.dead /\ Booted.counter = 0 /\ Booted.box0_sp = q /\ Booted.code = cs
  <2>1. NONE \in Reasons
    BY DEF Reasons
  <2>2. QED
    BY <1>1, <1>3, <1>5, <1>6, <1>7, <2>1 DEF States
<1>9. Len(Booted.previous) = 0
  BY <1>8
<1>9a. Len(Booted.code) = 1 /\ Booted.code[1] = c
  BY <1>7, <1>8
<1>9b. \A n \in 1 .. Len(Booted.code) : n = 1
  BY <1>9a
<1>9c. Booted.code[1].kind = "boot" /\ Booted.code[1].who = NONE /\ Booted.code[1].box = 0
  BY <1>4, <1>9a
<1>10. WellFormed(Booted)
  <2>1. Len(Booted.code) = Len(Booted.previous) + 1 /\ Len(Booted.previous) <= CONTEXT_MAX_DEPTH
    BY <1>9, <1>9a, KernelAssumption
  <2>2. \A n \in 1 .. Len(Booted.code) : Booted.code[n].kind \in {"boot", "thread"} <=> n = 1
    <3>1. TAKE n \in 1 .. Len(Booted.code)
    <3>2. n = 1
      BY <1>9b
    <3>3. QED
      BY <1>9c, <3>2
  <2>3. Booted.code[1].kind # "thread"
    BY <1>9c
  <2>4. QED
    BY <1>8, <1>9c, <2>1, <2>2, <2>3 DEF WellFormed
<1>11. Owned(Booted)
  <2>1. Top(Booted).box = 0
    BY <1>9a, <1>9c DEF Top
  <2>2. \A n \in 1 .. Len(Booted.previous) : FALSE
    BY <1>9
  <2>3. Booted.psp.stack.box = 0 /\ Booted.box0_sp.stack.box = 0 /\ \A b \in Boxes : Booted.sp[b].stack.box = b
    BY <1>3, <1>8
  <2>4. QED
    BY <1>8, <2>1, <2>2, <2>3 DEF Owned
<1>12. Chain(Booted)
  <2>1. ASSUME NEW n \in 1 .. Len(Booted.code) PROVE Booted.code[n].kind # "init"
    <3>1. n = 1
      BY <1>9b
    <3>2. QED
      BY <1>9c, <3>1
  <2>2. ~(Booted.counter > 0)
    BY <1>8
  <2>3. QED
    BY <2>1, <2>2 DEF Chain
<1>13. QED
  BY <1>9c, <1>10, <1>11, <1>12

LEMMA NoneYet ==
  /\ NoSlots \in [Slots -> [allocator : Threads \cup {"box", NONE}, process_id : Boxes]]
  /\ NoContexts \in [Threads -> Slots \cup {NoContext, FOREIGN}] /\ \A t \in Threads : NoContexts[t] = NoContext
  /\ NoSaved \in [Threads -> Pointers] /\ \A t \in Threads : NoSaved[t].stack.box = HomeOf[t]
  /\ NoHeaps \in [DOMAIN NoHeaps -> Threads \cup {"box", NONE}]
<1>1. 0 \in Boxes
  BY KernelAssumption DEF Boxes
<1>2. \A t \in Threads : /\ At(ThreadStack(t), 0) \in Pointers
                         /\ At(ThreadStack(t), 0).stack.box = HomeOf[t]
  BY KernelAssumption DEF Threads, At, ThreadStack, Pointers, Stacks, Boxes
<1>3. QED
  BY <1>1, <1>2 DEF NoSlots, NoContexts, NoSaved, NoHeaps

LEMMA InitInv == Init => KernelInv
<1> SUFFICES ASSUME Init PROVE KernelInv
  OBVIOUS
<1>1. TypeInv
  BY BootedInv, NoneYet DEF Init, TypeInv
<1>2. Owned(s) /\ Chain(s) /\ s.code[1].kind = "boot"
  BY BootedInv DEF Init
<1>3. SlotInv
  <2>1. \A t \in Threads : context[t] = NoContext /\ saved[t].stack.box = HomeOf[t]
    BY NoneYet DEF Init
  <2>2. NoContext # FOREIGN /\ NoContext \notin Slots
    BY KernelAssumption DEF NoContext, FOREIGN, Slots
  <2>3. QED
    BY <2>1, <2>2 DEF SlotInv
<1>4. HeapInv
  BY <1>2 DEF HeapInv
<1>5. QED
  BY <1>1, <1>2, <1>3, <1>4 DEF KernelInv, NormalInv

LEMMA BootStep ==
  ASSUME s' = Booted, slots' = NoSlots, context' = NoContexts, saved' = NoSaved, heap' = NoHeaps, full' = FALSE
  PROVE  KernelInv'
<1>1. TypeInv'
  BY BootedInv, NoneYet DEF TypeInv
<1>2. Owned(s') /\ Chain(s') /\ s'.code[1].kind = "boot"
  BY BootedInv
<1>3. SlotInv'
  <2>1. \A t \in Threads : context'[t] = NoContext /\ saved'[t].stack.box = HomeOf[t]
    BY NoneYet
  <2>2. NoContext # FOREIGN /\ NoContext \notin Slots
    BY KernelAssumption DEF NoContext, FOREIGN, Slots
  <2>3. QED
    BY <2>1, <2>2 DEF SlotInv
<1>4. HeapInv'
  BY <1>2 DEF HeapInv
<1>5. QED
  BY <1>1, <1>2, <1>3, <1>4 DEF KernelInv, NormalInv

\* A step of the core alone.
LEMMA CoreStep ==
  ASSUME KernelInv, UNCHANGED <<slots, context, saved, heap, full>>, Follows(s, s'),
         s'.why = NONE /\ s.why = NONE /\ Owned(s) /\ Chain(s) => Owned(s') /\ Chain(s')
  PROVE  KernelInv'
<1>1. TypeInv'
  BY DEF KernelInv, TypeInv, Follows
<1>2. ASSUME Normal'
      PROVE  Owned(s') /\ Chain(s') /\ SlotInv' /\ HeapInv'
  <2>1. Normal
    BY <1>2 DEF Normal, Follows
  <2>2. Owned(s) /\ Chain(s) /\ SlotInv /\ HeapInv
    BY <2>1 DEF KernelInv, NormalInv
  <2>3. SlotInv'
    BY <2>2 DEF SlotInv
  <2>4. HeapInv'
    BY <2>2 DEF HeapInv, Follows
  <2>5. QED
    BY <1>2, <2>1, <2>2, <2>3, <2>4 DEF Normal
<1>3. QED
  BY <1>1, <1>2 DEF KernelInv, NormalInv

LEMMA RunningType ==
  ASSUME KernelInv
  PROVE  /\ WellFormed(s) /\ s.psp \in Pointers /\ Running \in Codes /\ Running = Top(s)
         /\ Running.kind \in {"boot", "thread"} => Len(s.code) = 1 /\ s.previous = <<>>
<1>1. WellFormed(s) /\ s.code \in Seq(Codes) /\ s.previous \in Seq(Saved) /\ s.psp \in Pointers
  BY DEF KernelInv, TypeInv, WellFormed, States
<1>2. Len(s.code) \in 1 .. Len(s.code) /\ Len(s.code) = Len(s.previous) + 1
  BY <1>1 DEF WellFormed
<1>3. Running \in Codes /\ Running = Top(s)
  BY <1>1, <1>2 DEF Running, Top
<1>4. ASSUME Running.kind \in {"boot", "thread"}
      PROVE  Len(s.code) = 1
  BY <1>1, <1>2, <1>4 DEF WellFormed, Running
<1>5. Len(s.code) = 1 => s.previous = <<>>
  BY <1>1, <1>2
<1>6. QED
  BY <1>1, <1>3, <1>4, <1>5

LEMMA UseStackInv == ASSUME KernelInv, use_stack PROVE KernelInv'
<1>1. PICK n \in Running.base .. Running.base + MaxStack : s' = [s EXCEPT !.psp.at = n]
  BY DEF use_stack
<1>2. n \in Int /\ WellFormed(s)
  BY RunningType, KernelAssumption DEF Codes
<1>3. Moved(s, s')
  BY <1>1, <1>2, Moves
<1>4. UNCHANGED <<slots, context, saved, heap, full>>
  BY DEF use_stack
<1>5. QED
  BY <1>3, <1>4, CoreStep DEF Follows, Moved

LEMMA FaultInv == ASSUME KernelInv, fault \/ halt_user_error PROVE KernelInv'
<1>1. "fault" \in Reasons \ {NONE} /\ WellFormed(s)
  BY RunningType DEF Reasons, NONE
<1>2. UNCHANGED <<slots, context, saved, heap, full>>
  BY DEF fault, halt_user_error
<1>3. CASE fault
  <2>1. WellFormed(s') /\ s'.why # NONE /\ s'.code[1] = s.code[1]
    BY <1>1, <1>3, Halts DEF fault
  <2>2. QED
    BY <1>2, <2>1, CoreStep DEF Follows
<1>4. CASE halt_user_error
  <2>1. WellFormed(s') /\ s'.why # NONE /\ s'.code[1] = s.code[1]
    BY <1>1, <1>4, Dies DEF halt_user_error
  <2>2. QED
    BY <1>2, <2>1, CoreStep DEF Follows
<1>5. QED
  BY <1>3, <1>4

LEMMA RegisterInv == ASSUME KernelInv, debug_register_driver PROVE KernelInv'
<1> DEFINE c == s.debug.box # NoBox
           k == HaltIf(s, c, "registered")
<1>1. "registered" \in Reasons \ {NONE} /\ WellFormed(s) /\ c \in BOOLEAN /\ ~s.dead
  BY RunningType DEF Reasons, NONE, debug_register_driver
<1>2. s' = IF k.dead THEN k ELSE [k EXCEPT !.debug.box = k.active]
  BY DEF debug_register_driver, Then
<1> HIDE DEF c
<1>3. Follows(s, k) /\ (k.why = NONE => k = s)
  BY <1>1, MayHalt
<1> HIDE DEF k
<1>4. UNCHANGED <<slots, context, saved, heap, full>>
  BY DEF debug_register_driver
<1>5. CASE k.dead
  <2>1. s' = k /\ k.why # NONE
    BY <1>2, <1>3, <1>5 DEF Follows, WellFormed
  <2>2. QED
    BY <1>3, <1>4, <2>1, CoreStep
<1>6. CASE ~k.dead
  <2> DEFINE d == [k.debug EXCEPT !.box = k.active]
  <2>1. k \in States /\ WellFormed(k)
    BY <1>3 DEF Follows, WellFormed
  <2>2. d \in [box : Boxes \cup {NoBox}, used : BOOLEAN] /\ s' = [k EXCEPT !.debug = d]
    BY <1>2, <1>6, <2>1 DEF States
  <2> HIDE DEF d
  <2>3. /\ s' \in States /\ s'.psp = k.psp /\ s'.sp = k.sp /\ s'.code = k.code /\ s'.previous = k.previous
        /\ s'.why = k.why /\ s'.dead = k.dead /\ s'.counter = k.counter /\ s'.happened = k.happened
        /\ s'.basepri = k.basepri /\ s'.active = k.active /\ s'.box0_sp = k.box0_sp
    BY <2>1, <2>2 DEF States
  <2>4. WellFormed(s')
    BY <2>1, <2>3, FormOf
  <2>5. Follows(s, s')
    BY <1>3, <2>3, <2>4 DEF Follows
  <2>6. Owned(k) /\ Chain(k) => Owned(s') /\ Chain(s')
    BY <2>3 DEF Owned, Chain, Top
  <2>7. QED
    BY <1>3, <1>4, <2>3, <2>5, <2>6, CoreStep
<1>7. QED
  BY <1>5, <1>6

LEMMA RebootInv == ASSUME KernelInv, debug_reboot PROVE KernelInv'
<1> DEFINE c == s.debug.box = NoBox \/ s.active # s.debug.box
           k == HaltIf(s, c, "reboot")
<1>1. "reboot" \in Reasons \ {NONE} /\ WellFormed(s) /\ c \in BOOLEAN /\ ~s.dead
  BY RunningType DEF Reasons, NONE, debug_reboot
<1>2. /\ IF k.dead THEN s' = k /\ UNCHANGED <<slots, context, saved, heap, full>>
         ELSE /\ s' = Booted
              /\ slots' = NoSlots /\ context' = NoContexts /\ saved' = NoSaved /\ heap' = NoHeaps
              /\ full' = FALSE
  BY DEF debug_reboot
<1> HIDE DEF c
<1>3. Follows(s, k)
  BY <1>1, MayHalt
<1> HIDE DEF k
<1>4. CASE k.dead
  <2>1. s' = k /\ k.why # NONE
    BY <1>2, <1>3, <1>4 DEF Follows, WellFormed
  <2>2. QED
    BY <1>2, <1>3, <1>4, <2>1, CoreStep
<1>5. CASE ~k.dead
  BY <1>2, <1>5, BootStep
<1>6. QED
  BY <1>4, <1>5

LEMMA GatewayInInv == ASSUME KernelInv, NEW i \in Irqs, virq_gateway_in(i) PROVE KernelInv'
<1> DEFINE b == OwnerOf[i]
           p == Stacked(s.psp)
           f == context_forge_exc_sf(s, b)
<1>1. WellFormed(s) /\ ~s.dead /\ s.psp \in Pointers /\ s.sp \in [Boxes -> Pointers] /\ ~s.basepri
  BY RunningType DEF WellFormed, States, virq_gateway_in
<1>2. b \in Boxes /\ i \in Threads \cup Irqs \cup {NONE}
  BY KernelAssumption DEF Boxes, Irqs
<1>3. p \in Pointers /\ p.stack = s.psp.stack /\ f \in Pointers /\ f.stack = s.sp[b].stack
  BY <1>1, <1>2, PointerMoves DEF context_forge_exc_sf
<1>4. s' = context_switch_in(s, "ISR", b, p, f, "isr", i)
  BY DEF virq_gateway_in
<1>5. UNCHANGED <<slots, context, saved, heap, full>>
  BY DEF virq_gateway_in
<1> HIDE DEF b, p, f
<1>6. /\ WellFormed(s') /\ s'.code[1] = s.code[1]
      /\ \/ s'.dead /\ s'.why # NONE
         \/ SwitchedIn(s, s', b, p, f, "isr", i)
  BY <1>1, <1>2, <1>3, <1>4, SwitchIn
<1>7. Follows(s, s')
  BY <1>6 DEF Follows, SwitchedIn
<1>8. ASSUME s'.why = NONE, Owned(s), Chain(s)
      PROVE  Owned(s') /\ Chain(s')
  <2>1. SwitchedIn(s, s', b, p, f, "isr", i)
    BY <1>6, <1>8
  <2>2. p.stack.box = s.active /\ f.stack.box = b
    BY <1>2, <1>3, <1>8 DEF Owned
  <2>3. /\ Owned(s') /\ Len(s'.code) = Len(s.code) + 1
        /\ Top(s').kind = "isr"
        /\ \A n \in 1 .. Len(s.code) : s'.code[n] = s.code[n]
    BY <1>1, <1>2, <1>3, <1>6, <1>8, <2>1, <2>2, OwnedIn
  <2>4. \A n \in 1 .. Len(s.code) : s.code[n].kind # "init"
    BY <1>1, <1>8 DEF Chain
  <2>5. Len(s.code) \in Nat /\ Len(s.code) > 0
    BY <1>1 DEF WellFormed, States
  <2>6. \A n \in 1 .. Len(s'.code) : s'.code[n].kind # "init"
    <3>1. TAKE n \in 1 .. Len(s'.code)
    <3>2. CASE n = Len(s.code) + 1
      BY <2>3, <3>2 DEF Top
    <3>3. CASE n # Len(s.code) + 1
      <4>1. n \in 1 .. Len(s.code)
        BY <2>3, <2>5, <3>3
      <4>2. QED
        BY <2>3, <2>4, <4>1
    <3>4. QED
      BY <3>2, <3>3
  <2>7. ~(s.counter > 0 /\ ~s.happened)
    BY <1>8, <2>4, <2>5 DEF Chain, Top
  <2>8. s'.counter = s.counter /\ s'.happened = s.happened
    BY <2>1 DEF SwitchedIn
  <2>9. QED
    BY <2>3, <2>6, <2>7, <2>8 DEF Chain
<1>9. QED
  BY <1>5, <1>7, <1>8, CoreStep

LEMMA ReturnedType == ASSUME KernelInv PROVE Moved(s, Returned)
<1>1. Running.base \in Int /\ WellFormed(s)
  BY RunningType DEF Codes
<1>2. QED
  BY <1>1, Moves DEF Returned

LEMMA GatewayOutInv == ASSUME KernelInv, virq_gateway_out PROVE KernelInv'
<1> DEFINE r == Returned
           p == Stacked(Returned.psp)
           d == context_discard_exc_sf(r, r.active, p)
<1>1. /\ WellFormed(r) /\ r.code = s.code /\ r.why = s.why /\ r.dead = s.dead
      /\ r.active = s.active
      /\ r.counter = s.counter /\ r.happened = s.happened /\ r.basepri = s.basepri
      /\ r.psp \in Pointers /\ r.psp.stack = s.psp.stack
      /\ Owned(s) => Owned(r)
      /\ Chain(s) => Chain(r)
  BY ReturnedType DEF Moved
<1>2. s' = context_switch_out(d) /\ ~s.dead /\ Running.kind = "isr"
  BY <1>1 DEF virq_gateway_out, Active
<1>3. UNCHANGED <<slots, context, saved, heap, full>>
  BY DEF virq_gateway_out
<1>4. p \in Pointers /\ p.stack = r.psp.stack
  BY <1>1, PointerMoves
<1> HIDE DEF r, p, d
<1>5. /\ WellFormed(d) /\ d.code = r.code /\ d.previous = r.previous /\ d.why = r.why /\ d.dead = r.dead
      /\ d.counter = r.counter /\ d.happened = r.happened /\ d.basepri = r.basepri
      /\ Owned(r) /\ p.stack.box = r.active => Owned(d)
  BY <1>1, <1>4, Discards DEF d
<1>6. /\ WellFormed(s') /\ s'.code[1] = d.code[1]
      /\ s'.why # NONE \/ (d.previous # <<>> /\ SwitchedOut(d, s'))
  BY <1>1, <1>2, <1>5, SwitchOut
<1>7. Follows(s, s')
  BY <1>1, <1>5, <1>6 DEF Follows, SwitchedOut
<1>8. ASSUME s'.why = NONE, Owned(s), Chain(s)
      PROVE  Owned(s') /\ Chain(s')
  <2>1. d.previous # <<>> /\ SwitchedOut(d, s')
    BY <1>6, <1>8
  <2>2. Owned(d)
    BY <1>1, <1>4, <1>5, <1>8 DEF Owned
  <2>3. /\ Owned(s') /\ \A n \in 1 .. Len(s'.code) : n \in 1 .. Len(d.code) /\ s'.code[n] = d.code[n]
    BY <1>5, <1>6, <2>1, <2>2, OwnedOut
  <2>4. \A n \in 1 .. Len(s.code) : s.code[n].kind # "init"
    BY <1>2, <1>8 DEF Chain, Running
  <2>5. \A n \in 1 .. Len(s'.code) : s'.code[n].kind # "init"
    <3>1. d.code = s.code
      BY <1>1, <1>5
    <3>2. QED
      BY <2>3, <2>4, <3>1
  <2>6. ~(s.counter > 0 /\ ~s.happened)
    BY <1>2, <1>8 DEF Chain, Top, Running
  <2>7. s'.counter = s.counter /\ s'.happened = s.happened
    BY <1>1, <1>5, <2>1 DEF SwitchedOut
  <2>8. QED
    BY <2>3, <2>5, <2>6, <2>7 DEF Chain
<1>9. QED
  BY <1>3, <1>7, <1>8, CoreStep

LEMMA BoxInitInv == ASSUME KernelInv, box_init_first \/ box_init_thunk PROVE KernelInv'
<1>1. UNCHANGED <<slots, context, saved, heap, full>>
  BY DEF box_init_first, box_init_thunk
<1>2. WellFormed(s) /\ s.psp \in Pointers /\ Running = Top(s)
  BY RunningType
<1>3. CASE box_init_first
  <2> DEFINE k == [s EXCEPT !.basepri = TRUE]
             p == Stacked(s.psp)
  <2>1. s' = box_init_next(k, p) /\ ~s.dead /\ Top(s).kind \in {"boot", "thread"}
    BY <1>2, <1>3 DEF box_init_first, Active
  <2>2. p \in Pointers /\ p.stack = s.psp.stack
    BY <1>2, PointerMoves
  <2>3. /\ k \in States /\ k.psp = s.psp /\ k.sp = s.sp /\ k.code = s.code /\ k.previous = s.previous
        /\ k.why = s.why /\ k.dead = s.dead /\ k.counter = s.counter /\ k.happened = s.happened
        /\ k.basepri /\ k.active = s.active /\ k.box0_sp = s.box0_sp
    BY <1>2 DEF WellFormed, States
  <2> HIDE DEF k, p
  <2>4. WellFormed(k) /\ Top(k) = Top(s)
    BY <1>2, <2>3, FormOf DEF Top
  <2>5. Owned(s) /\ Chain(s) => Owned(k) /\ Chain(k)
    BY <2>3 DEF Owned, Chain, Top
  <2>6. /\ Follows(k, s')
        /\ s'.why = NONE /\ k.basepri /\ Owned(k) /\ Chain(k) => Owned(s') /\ Chain(s')
    BY <2>1, <2>2, <2>3, <2>4, BoxInit
  <2>7. Follows(s, s')
    BY <2>3, <2>6 DEF Follows
  <2>8. QED
    BY <1>1, <2>3, <2>5, <2>6, <2>7, CoreStep
<1>4. CASE box_init_thunk
  <2> DEFINE k == Returned
             p == Stacked(k.psp)
  <2>1. s' = box_init_next(k, p) /\ ~s.dead /\ Top(s).kind = "init"
    BY <1>2, <1>4 DEF box_init_thunk, Active
  <2>2. /\ WellFormed(k) /\ k.code = s.code /\ k.why = s.why /\ k.dead = s.dead
        /\ k.basepri = s.basepri /\ k.psp \in Pointers
        /\ Owned(s) => Owned(k)
        /\ Chain(s) => Chain(k)
    BY ReturnedType DEF Moved
  <2> HIDE DEF k
  <2>3. p \in Pointers /\ p.stack = k.psp.stack
    BY <2>2, PointerMoves
  <2> HIDE DEF p
  <2>4. Top(k).kind = "init"
    BY <2>1, <2>2 DEF Top
  <2>5. /\ Follows(k, s')
        /\ s'.why = NONE /\ k.basepri /\ Owned(k) /\ Chain(k) => Owned(s') /\ Chain(s')
    BY <2>1, <2>2, <2>3, <2>4, BoxInit
  <2>6. Follows(s, s')
    BY <2>2, <2>5 DEF Follows
  <2>7. Chain(s) => s.basepri
    <3>1. Len(s.code) \in 1 .. Len(s.code)
      BY <1>2 DEF WellFormed, States
    <3>2. QED
      BY <2>1, <3>1 DEF Chain, Top
  <2>8. QED
    BY <1>1, <2>2, <2>5, <2>6, <2>7, CoreStep
<1>5. QED
  BY <1>3, <1>4

\* A step of the thread table alone.
LEMMA TableStep ==
  ASSUME KernelInv, s' = s, TypeInv', full' = FALSE => full = FALSE,
         Normal /\ SlotInv /\ HeapInv /\ full' = FALSE => SlotInv' /\ HeapInv'
  PROVE  KernelInv'
<1>1. ASSUME Normal'
      PROVE  Owned(s') /\ Chain(s') /\ SlotInv' /\ HeapInv'
  <2>1. Normal /\ full' = FALSE
    BY <1>1 DEF Normal, TypeInv, KernelInv
  <2>2. Owned(s) /\ Chain(s) /\ SlotInv /\ HeapInv
    BY <2>1 DEF KernelInv, NormalInv
  <2>3. QED
    BY <2>1, <2>2
<1>2. QED
  BY <1>1 DEF KernelInv, NormalInv

LEMMA InitAllocatorInv == ASSUME KernelInv, init_allocator PROVE KernelInv'
<1>1. TypeInv'
  BY DEF KernelInv, TypeInv, init_allocator
<1>2. SlotInv => SlotInv'
  BY DEF SlotInv, init_allocator
<1>3. HeapInv => HeapInv'
  <2> SUFFICES ASSUME HeapInv, s.code[1].kind = "thread"
               PROVE  /\ context[s.code[1].who] # NoContext
                      /\ context[s.code[1].who] \in Slots =>
                           heap'[HomeOf[s.code[1].who]] \in {slots[context[s.code[1].who]].allocator, "box", NONE}
    BY DEF HeapInv, init_allocator
  <2> DEFINE t == s.code[1].who
  <2>1. t \in Threads /\ heap \in [DOMAIN NoHeaps -> Threads \cup {"box", NONE}]
    BY DEF KernelInv, TypeInv, WellFormed
  <2>2. HomeOf[t] \in DOMAIN NoHeaps
    BY <2>1 DEF NoHeaps
  <2>3. heap'[HomeOf[t]] = heap[HomeOf[t]] \/ heap'[HomeOf[t]] = "box"
    BY <2>1, <2>2 DEF init_allocator
  <2>4. QED
    BY <2>3 DEF HeapInv
<1>4. QED
  BY <1>1, <1>2, <1>3, TableStep DEF init_allocator

LEMMA ThreadCreateInv == ASSUME KernelInv, NEW t \in Threads, thread_create(t) PROVE KernelInv'
<1>1. /\ slots \in [Slots -> [allocator : Threads \cup {"box", NONE}, process_id : Boxes]]
      /\ context \in [Threads -> Slots \cup {NoContext, FOREIGN}] /\ s.active \in Boxes
      /\ s.code[1].kind = "thread" => s.code[1].who \in Threads
  BY DEF KernelInv, TypeInv, WellFormed, States
<1>2. /\ s' = s /\ saved' = saved /\ heap' = heap /\ s.active = HomeOf[t] /\ context[t] = NoContext
  BY DEF thread_create
<1>3. NoContext # FOREIGN /\ NoContext \notin Slots /\ FOREIGN \notin Slots /\ t # NONE
  BY KernelAssumption DEF NoContext, FOREIGN, Slots, Threads, NONE
<1>4. CASE Free # {}
  <2> DEFINE i == CHOOSE i \in Free : \A j \in Free : i <= j
             x == Slot(i, t)
  <2>1. i \in Free
    <3>1. \E j \in Free : \A l \in Free : j <= l
      <4>1. Free \subseteq Nat
        BY KernelAssumption DEF Free, Slots
      <4>2. QED
        BY <1>4, <4>1, LeastElement
    <3>2. QED
      BY <3>1
  <2>2. slots' = [slots EXCEPT ![i] = x] /\ context' = [context EXCEPT ![t] = i] /\ full' = full
    BY <1>4 DEF thread_create
  <2> HIDE DEF i
  <2>3. x \in [allocator : Threads \cup {"box", NONE}, process_id : Boxes] /\ x.process_id = HomeOf[t] /\ x.allocator # NONE
    BY <1>1, <1>2, <1>3 DEF Slot, NONE
  <2> HIDE DEF x
  <2>4. i \in Slots /\ slots[i].allocator = NONE
    BY <2>1 DEF Free
  <2>5. TypeInv'
    BY <1>1, <1>2, <2>2, <2>3, <2>4 DEF KernelInv, TypeInv
  <2>6. ASSUME SlotInv
        PROVE  /\ context'[t] = i /\ slots'[i] = x
               /\ \A u \in Threads : u # t => context'[u] = context[u] /\ context[u] # i
               /\ \A u \in Threads : u # t /\ context[u] \in Slots => slots'[context[u]] = slots[context[u]]
    <3>1. \A u \in Threads : context[u] # i
      BY <2>4, <2>6 DEF SlotInv
    <3>2. QED
      BY <1>1, <2>2, <2>4, <3>1
  <2>7. ASSUME SlotInv PROVE SlotInv'
    <3>1. \A u \in Threads : context'[u] # FOREIGN
      BY <1>3, <2>4, <2>6, <2>7 DEF SlotInv
    <3>2. \A u \in Threads : context'[u] \in Slots =>
            slots'[context'[u]].process_id = HomeOf[u] /\ slots'[context'[u]].allocator # NONE
      BY <2>3, <2>6, <2>7 DEF SlotInv
    <3>3. \A v, u \in Threads : v # u /\ context'[v] \in Slots => context'[v] # context'[u]
      BY <2>6, <2>7 DEF SlotInv
    <3>4. \A u \in Threads : saved'[u].stack.box = HomeOf[u]
      BY <1>2, <2>7 DEF SlotInv
    <3>5. QED
      BY <3>1, <3>2, <3>3, <3>4 DEF SlotInv
  <2>8. ASSUME SlotInv, HeapInv PROVE HeapInv'
    <3>1. SUFFICES ASSUME s.code[1].kind = "thread"
                   PROVE  /\ context'[s.code[1].who] # NoContext
                          /\ context'[s.code[1].who] \in Slots =>
                               heap[HomeOf[s.code[1].who]] \in {slots'[context'[s.code[1].who]].allocator, "box", NONE}
      BY <1>2 DEF HeapInv
    <3> DEFINE u == s.code[1].who
    <3>2. u \in Threads /\ u # t
      BY <1>1, <1>2, <2>8, <3>1 DEF HeapInv
    <3> HIDE DEF u
    <3>3. context'[u] = context[u] /\ (context[u] \in Slots => slots'[context[u]] = slots[context[u]])
      BY <2>6, <2>8, <3>2
    <3>4. /\ context[u] # NoContext
          /\ context[u] \in Slots => heap[HomeOf[u]] \in {slots[context[u]].allocator, "box", NONE}
      BY <2>8, <3>1 DEF HeapInv, u
    <3>5. QED
      BY <3>3, <3>4 DEF u
  <2>9. QED
    BY <1>2, <2>2, <2>5, <2>7, <2>8, TableStep
<1>5. CASE Free = {}
  <2>1. context' = [context EXCEPT ![t] = FOREIGN] /\ full' = TRUE /\ slots' = slots
    BY <1>5 DEF thread_create
  <2>2. TypeInv'
    BY <1>1, <1>2, <2>1 DEF KernelInv, TypeInv
  <2>3. QED
    BY <1>2, <2>1, <2>2, TableStep
<1>6. QED
  BY <1>4, <1>5

\* The slot of a thread that is destroyed is no other thread's.
LEMMA DestroyedSlot ==
  ASSUME KernelInv, NEW t \in Threads
  PROVE  /\ Destroyed(t) \in [Slots -> [allocator : Threads \cup {"box", NONE}, process_id : Boxes]]
         /\ SlotInv => \A u \in Threads : u # t /\ context[u] \in Slots => Destroyed(t)[context[u]] = slots[context[u]]
<1>1. /\ slots \in [Slots -> [allocator : Threads \cup {"box", NONE}, process_id : Boxes]]
      /\ context \in [Threads -> Slots \cup {NoContext, FOREIGN}]
  BY DEF KernelInv, TypeInv
<1>2. CASE Destroyed(t) = slots
  BY <1>1, <1>2
<1>3. CASE context[t] \in Slots /\ Destroyed(t) = [slots EXCEPT ![context[t]].allocator = NONE]
  <2>1. Destroyed(t) \in [Slots -> [allocator : Threads \cup {"box", NONE}, process_id : Boxes]]
    BY <1>1, <1>3
  <2>2. SlotInv => \A u \in Threads : u # t /\ context[u] \in Slots => context[u] # context[t]
    BY DEF SlotInv
  <2>3. \A c \in Slots : c # context[t] => Destroyed(t)[c] = slots[c]
    BY <1>1, <1>3
  <2>4. QED
    BY <2>1, <2>2, <2>3
<1>4. QED
  BY <1>2, <1>3 DEF Destroyed

LEMMA ThreadDestroyInv == ASSUME KernelInv, NEW t \in Threads, thread_destroy(t) PROVE KernelInv'
<1>1. /\ slots \in [Slots -> [allocator : Threads \cup {"box", NONE}, process_id : Boxes]]
      /\ context \in [Threads -> Slots \cup {NoContext, FOREIGN}]
      /\ saved \in [Threads -> Pointers]
      /\ s.code[1].kind = "thread" => s.code[1].who \in Threads
  BY DEF KernelInv, TypeInv, WellFormed
<1>2. /\ s' = s /\ heap' = heap /\ full' = full /\ s.code[1].who # t /\ slots' = Destroyed(t)
      /\ context' = [context EXCEPT ![t] = NoContext] /\ saved' = [saved EXCEPT ![t] = NoSaved[t]]
  BY DEF thread_destroy
<1>3. NoContext # FOREIGN /\ NoContext \notin Slots
  BY KernelAssumption DEF NoContext, FOREIGN, Slots
<1>4. NoSaved[t] \in Pointers /\ NoSaved[t].stack.box = HomeOf[t]
  BY NoneYet
<1>5. TypeInv'
  <2>1. slots' \in [Slots -> [allocator : Threads \cup {"box", NONE}, process_id : Boxes]]
    BY <1>2, DestroyedSlot
  <2>2. QED
    BY <1>1, <1>2, <1>4, <2>1 DEF KernelInv, TypeInv
<1>6. ASSUME SlotInv
      PROVE  /\ context'[t] = NoContext
             /\ \A u \in Threads : u # t => context'[u] = context[u]
             /\ \A u \in Threads : u # t /\ context[u] \in Slots => slots'[context[u]] = slots[context[u]]
  BY <1>1, <1>2, <1>6, DestroyedSlot
<1>7. ASSUME SlotInv PROVE SlotInv'
  <2>1. \A u \in Threads : context'[u] # FOREIGN
    BY <1>3, <1>6, <1>7 DEF SlotInv
  <2>2. \A u \in Threads : context'[u] \in Slots =>
          slots'[context'[u]].process_id = HomeOf[u] /\ slots'[context'[u]].allocator # NONE
    <3>1. TAKE u \in Threads
    <3>2. CASE u = t
      BY <1>3, <1>6, <1>7, <3>2
    <3>3. CASE u # t
      <4>1. context'[u] = context[u] /\ (context[u] \in Slots => slots'[context[u]] = slots[context[u]])
        BY <1>6, <1>7, <3>3
      <4>2. QED
        BY <1>7, <4>1 DEF SlotInv
    <3>4. QED
      BY <3>2, <3>3
  <2>3. \A v, u \in Threads : v # u /\ context'[v] \in Slots => context'[v] # context'[u]
    BY <1>3, <1>6, <1>7 DEF SlotInv
  <2>4. \A u \in Threads : saved'[u].stack.box = HomeOf[u]
    BY <1>1, <1>2, <1>4, <1>7 DEF SlotInv
  <2>5. QED
    BY <2>1, <2>2, <2>3, <2>4 DEF SlotInv
<1>8. ASSUME SlotInv, HeapInv PROVE HeapInv'
  <2>1. SUFFICES ASSUME s.code[1].kind = "thread"
                 PROVE  /\ context'[s.code[1].who] # NoContext
                        /\ context'[s.code[1].who] \in Slots =>
                             heap[HomeOf[s.code[1].who]] \in {slots'[context'[s.code[1].who]].allocator, "box", NONE}
    BY <1>2 DEF HeapInv
  <2> DEFINE u == s.code[1].who
  <2>2. u \in Threads /\ u # t
    BY <1>1, <1>2, <2>1
  <2> HIDE DEF u
  <2>3. context'[u] = context[u] /\ (context[u] \in Slots => slots'[context[u]] = slots[context[u]])
    BY <1>6, <1>8, <2>2
  <2>4. /\ context[u] # NoContext
        /\ context[u] \in Slots => heap[HomeOf[u]] \in {slots[context[u]].allocator, "box", NONE}
    BY <1>8, <2>1 DEF HeapInv, u
  <2>5. QED
    BY <2>3, <2>4 DEF u
<1>9. QED
  BY <1>2, <1>5, <1>7, <1>8, TableStep

LEMMA ThreadSwitchInv ==
  ASSUME KernelInv, NEW t \in Threads, NEW exits \in BOOLEAN, thread_switch(t, exits)
  PROVE  KernelInv'
<1> DEFINE u == s.code[1].who
           c == context[t]
           next == SwitchedTo(c)
           e == Code("thread", HomeOf[t], t, 0)
           es == <<e>>
<1>1. /\ slots \in [Slots -> [allocator : Threads \cup {"box", NONE}, process_id : Boxes]]
      /\ context \in [Threads -> Slots \cup {NoContext, FOREIGN}]
      /\ saved \in [Threads -> Pointers]
      /\ heap \in [DOMAIN NoHeaps -> Threads \cup {"box", NONE}]
      /\ s \in States /\ s.active \in Boxes /\ s.psp \in Pointers /\ WellFormed(s)
  BY DEF KernelInv, TypeInv, WellFormed, States
<1>2. Len(s.code) = 1 /\ s.previous = <<>> /\ Running = s.code[1] /\ Top(s) = s.code[1]
  BY RunningType DEF thread_switch, Active, Running, Top
<1>3. /\ Running.kind \in {"boot", "thread"} /\ t # u /\ c # NoContext /\ (exits => u \in Threads)
      /\ s' = [s EXCEPT !.active = next.box, !.psp = saved[t], !.code = es]
      /\ saved' = [v \in Threads |-> IF v = t THEN NoSaved[t] ELSE IF v = u /\ ~exits THEN s.psp ELSE saved[v]]
      /\ heap' = next.heap
      /\ slots' = IF exits THEN Destroyed(u) ELSE slots
      /\ context' = IF exits THEN [context EXCEPT ![u] = NoContext] ELSE context
      /\ full' = full
  BY <1>2 DEF thread_switch, Active
<1>4. NoContext # FOREIGN /\ NoContext \notin Slots /\ FOREIGN \notin Slots
  BY KernelAssumption DEF NoContext, FOREIGN, Slots
<1>5. HomeOf[t] \in DOMAIN NoHeaps /\ HomeOf[t] \in Boxes
  BY KernelAssumption DEF NoHeaps, Threads, Boxes
<1>6. e \in Codes /\ e.kind = "thread" /\ e.box = HomeOf[t] /\ e.who = t
  BY <1>5 DEF Code, Codes
<1> HIDE DEF e
<1>7. es \in Seq(Codes) /\ Len(es) = 1 /\ es[1] = e
  BY <1>6
<1>8. /\ next.box \in Boxes /\ next.heap \in [DOMAIN NoHeaps -> Threads \cup {"box", NONE}]
      /\ c \in Slots /\ slots[c].allocator # NONE =>
           /\ next.box = slots[c].process_id
           /\ slots[c].process_id \in DOMAIN NoHeaps =>
                next.heap[slots[c].process_id] \in {NONE, slots[c].allocator}
  <2>1. CASE c = FOREIGN \/ slots[c].allocator = NONE
    BY <1>1, <1>4, <2>1 DEF SwitchedTo
  <2>2. CASE ~(c = FOREIGN \/ slots[c].allocator = NONE)
    <3> DEFINE x == slots[c]
    <3>1. c \in Slots /\ x \in [allocator : Threads \cup {"box", NONE}, process_id : Boxes]
      BY <1>1, <1>3, <2>2
    <3>2. next = [box |-> x.process_id, heap |-> Heaps(x)]
      BY <2>2 DEF SwitchedTo
    <3> HIDE DEF x
    <3>3. /\ Heaps(x) \in [DOMAIN NoHeaps -> Threads \cup {"box", NONE}]
          /\ x.process_id \in DOMAIN NoHeaps => Heaps(x)[x.process_id] \in {NONE, x.allocator}
      <4>1. CASE heap[x.process_id] = NONE
        BY <1>1, <3>1, <4>1 DEF Heaps
      <4>2. CASE heap[x.process_id] # NONE
        BY <1>1, <3>1, <4>2 DEF Heaps
      <4>3. QED
        BY <4>1, <4>2
    <3>4. next.box = x.process_id /\ next.heap = Heaps(x)
      BY <3>2
    <3>5. QED
      BY <3>1, <3>3, <3>4 DEF x
  <2>3. QED
    BY <2>1, <2>2
<1> HIDE DEF next, es
<1>9. /\ s' \in States /\ s'.active = next.box /\ s'.psp = saved[t] /\ s'.code = es
      /\ s'.previous = s.previous /\ s'.sp = s.sp /\ s'.why = s.why /\ s'.dead = s.dead
      /\ s'.counter = s.counter /\ s'.happened = s.happened /\ s'.box0_sp = s.box0_sp
  BY <1>1, <1>3, <1>7, <1>8 DEF States
<1>10. Len(s'.code) = 1 /\ s'.code[1] = e /\ Len(s'.previous) = 0
  BY <1>2, <1>7, <1>9
<1>10a. \A n \in 1 .. Len(s'.code) : n = 1
  BY <1>10
<1>11. WellFormed(s')
  <2>1. Len(s'.code) = Len(s'.previous) + 1 /\ Len(s'.previous) <= CONTEXT_MAX_DEPTH
    BY <1>10, KernelAssumption
  <2>2. s'.code[1].kind = "thread" /\ s'.code[1].who = t /\ s'.code[1].box = HomeOf[t]
    BY <1>6, <1>10
  <2>3. \A n \in 1 .. Len(s'.code) : s'.code[n].kind \in {"boot", "thread"} <=> n = 1
    <3>1. TAKE n \in 1 .. Len(s'.code)
    <3>2. n = 1
      BY <1>10a
    <3>3. QED
      BY <2>2, <3>2
  <2>4. s'.dead => s'.why # NONE
    BY <1>1, <1>9 DEF WellFormed
  <2>5. QED
    BY <1>9, <2>1, <2>2, <2>3, <2>4 DEF WellFormed
<1>12. slots' \in [Slots -> [allocator : Threads \cup {"box", NONE}, process_id : Boxes]]
  BY <1>1, <1>3, DestroyedSlot
<1>13. context' \in [Threads -> Slots \cup {NoContext, FOREIGN}]
  BY <1>1, <1>3
<1>14. saved' \in [Threads -> Pointers]
  BY <1>1, <1>3, NoneYet
<1>15. TypeInv'
  BY <1>3, <1>8, <1>11, <1>12, <1>13, <1>14 DEF KernelInv, TypeInv
<1>16. ASSUME Normal'
       PROVE  Owned(s') /\ Chain(s') /\ SlotInv' /\ HeapInv'
  <2>1. Owned(s) /\ Chain(s) /\ SlotInv /\ HeapInv
    BY <1>3, <1>9, <1>16 DEF Normal, KernelInv, NormalInv
  <2>2. c \in Slots /\ slots[c].allocator # NONE /\ slots[c].process_id = HomeOf[t]
    BY <1>1, <1>3, <2>1 DEF SlotInv
  <2>3. next.box = HomeOf[t] /\ next.heap[HomeOf[t]] \in {NONE, slots[c].allocator}
    BY <1>5, <1>8, <2>2
  <2>4. Owned(s')
    <3>1. Top(s').box = HomeOf[t]
      BY <1>6, <1>10 DEF Top
    <3>2. \A n \in 1 .. Len(s'.previous) : FALSE
      BY <1>10
    <3>3. s'.psp.stack.box = HomeOf[t]
      BY <1>9, <2>1 DEF SlotInv
    <3>4. s'.active = HomeOf[t]
      BY <1>9, <2>3
    <3>5. s'.box0_sp.stack.box = 0 /\ \A b \in Boxes : s'.sp[b].stack.box = b
      BY <1>9, <2>1 DEF Owned
    <3>6. QED
      BY <3>1, <3>2, <3>3, <3>4, <3>5 DEF Owned
  <2>5. Chain(s')
    <3>1. ASSUME NEW n \in 1 .. Len(s'.code) PROVE s'.code[n].kind # "init"
      <4>1. n = 1
        BY <1>10a
      <4>2. QED
        BY <1>6, <1>10, <4>1
    <3>2. ~(s.counter > 0 /\ ~s.happened)
      BY <1>2, <1>3, <2>1 DEF Chain
    <3>3. QED
      BY <1>9, <3>1, <3>2 DEF Chain
  <2>6. /\ exits => context'[u] = NoContext
        /\ \A v \in Threads : ~(exits /\ v = u) => context'[v] = context[v]
        /\ \A v \in Threads : ~(exits /\ v = u) /\ context[v] \in Slots => slots'[context[v]] = slots[context[v]]
    <3>1. CASE exits
      <4>1. u \in Threads /\ slots' = Destroyed(u) /\ context' = [context EXCEPT ![u] = NoContext]
        BY <1>3, <3>1
      <4> HIDE DEF u
      <4>2. \A v \in Threads : v # u /\ context[v] \in Slots => Destroyed(u)[context[v]] = slots[context[v]]
        BY <2>1, <4>1, DestroyedSlot
      <4>3. context'[u] = NoContext /\ \A v \in Threads : v # u => context'[v] = context[v]
        BY <1>1, <4>1
      <4>4. QED
        BY <3>1, <4>1, <4>2, <4>3
    <3>2. CASE ~exits
      BY <1>3, <3>2
    <3>3. QED
      BY <3>1, <3>2
  <2>7. SlotInv'
    <3>1. \A v \in Threads : context'[v] # FOREIGN
      BY <1>4, <2>1, <2>6 DEF SlotInv
    <3>2. \A v \in Threads : context'[v] \in Slots =>
            slots'[context'[v]].process_id = HomeOf[v] /\ slots'[context'[v]].allocator # NONE
      <4>1. TAKE v \in Threads
      <4>2. CASE exits /\ v = u
        BY <1>4, <2>6, <4>2
      <4>3. CASE ~(exits /\ v = u)
        <5>1. context'[v] = context[v] /\ (context[v] \in Slots => slots'[context[v]] = slots[context[v]])
          BY <2>6, <4>3
        <5>2. QED
          BY <2>1, <5>1 DEF SlotInv
      <4>4. QED
        BY <4>2, <4>3
    <3>3. \A v, w \in Threads : v # w /\ context'[v] \in Slots => context'[v] # context'[w]
      <4>1. TAKE v, w \in Threads
      <4>2. CASE exits /\ v = u
        BY <1>4, <2>6, <4>2
      <4>3. CASE exits /\ w = u
        BY <1>4, <2>6, <4>3
      <4>4. CASE ~(exits /\ v = u) /\ ~(exits /\ w = u)
        <5>1. context'[v] = context[v] /\ context'[w] = context[w]
          BY <2>6, <4>4
        <5>2. QED
          BY <2>1, <5>1 DEF SlotInv
      <4>5. QED
        BY <4>2, <4>3, <4>4
    <3>4. \A v \in Threads : saved'[v].stack.box = HomeOf[v]
      <4>1. TAKE v \in Threads
      <4>2. CASE v = t
        BY <1>3, <4>2, NoneYet
      <4>3. CASE v # t /\ v = u /\ ~exits
        <5>1. saved'[v] = s.psp
          BY <1>3, <4>3
        <5>2. s.code[1].kind = "thread"
          <6>1. v # NONE
            BY KernelAssumption DEF Threads, NONE
          <6>2. QED
            BY <1>1, <1>2, <1>3, <4>3, <6>1 DEF WellFormed
        <5>3. s.code[1].box = HomeOf[v]
          BY <1>1, <4>3, <5>2 DEF WellFormed
        <5>4. s.psp.stack.box = s.code[1].box
          BY <1>2, <2>1 DEF Owned
        <5>5. QED
          BY <5>1, <5>3, <5>4
      <4>4. CASE v # t /\ ~(v = u /\ ~exits)
        <5>1. saved'[v] = saved[v]
          BY <1>3, <4>4
        <5>2. QED
          BY <2>1, <5>1 DEF SlotInv
      <4>5. QED
        BY <4>2, <4>3, <4>4
    <3>5. QED
      BY <3>1, <3>2, <3>3, <3>4 DEF SlotInv
  <2>8. HeapInv'
    <3>1. s'.code[1].who = t
      BY <1>6, <1>10
    <3>2. context'[t] = c /\ slots'[c] = slots[c]
      BY <1>3, <2>2, <2>6
    <3>3. heap'[HomeOf[t]] \in {slots'[context'[t]].allocator, "box", NONE} /\ context'[t] # NoContext
      BY <1>3, <2>3, <3>2
    <3>4. QED
      BY <3>1, <3>3 DEF HeapInv
  <2>9. QED
    BY <2>4, <2>5, <2>7, <2>8
<1>17. QED
  BY <1>15, <1>16 DEF KernelInv, NormalInv

----------------------------------------------------------------------------
LEMMA StepInv == KernelInv /\ [Next]_vars => KernelInv'
<1> SUFFICES ASSUME KernelInv, [Next]_vars PROVE KernelInv'
  OBVIOUS
<1>1. CASE use_stack
  BY <1>1, UseStackInv
<1>2. CASE fault \/ halt_user_error
  BY <1>2, FaultInv
<1>3. CASE debug_register_driver
  BY <1>3, RegisterInv
<1>4. CASE debug_reboot
  BY <1>4, RebootInv
<1>5. ASSUME NEW i \in Irqs, virq_gateway_in(i) PROVE KernelInv'
  BY <1>5, GatewayInInv
<1>6. CASE virq_gateway_out
  BY <1>6, GatewayOutInv
<1>7. CASE box_init_first \/ box_init_thunk
  BY <1>7, BoxInitInv
<1>8. CASE init_allocator
  BY <1>8, InitAllocatorInv
<1>9. ASSUME NEW t \in Threads, thread_create(t) PROVE KernelInv'
  BY <1>9, ThreadCreateInv
<1>10. ASSUME NEW t \in Threads, thread_destroy(t) PROVE KernelInv'
  BY <1>10, ThreadDestroyInv
<1>11. ASSUME NEW t \in Threads, NEW exits \in BOOLEAN, thread_switch(t, exits) PROVE KernelInv'
  BY <1>11, ThreadSwitchInv
<1>12. CASE UNCHANGED vars
  BY <1>12 DEF vars, KernelInv, TypeInv, NormalInv, Normal, SlotInv, HeapInv
<1>13. QED
  BY <1>1, <1>2, <1>3, <1>4, <1>5, <1>6, <1>7, <1>8, <1>9, <1>10, <1>11, <1>12 DEF Next

\* The inductive invariant of the context switches.
THEOREM KernelInvariant == Spec => []KernelInv
  BY InitInv, StepInv, PTL DEF Spec

\* Whatever happens, halts included, the state stack stays in its array, there
\* is code to go on with, and the thread table and the heaps are well formed.
THEOREM TypeCorrect == Spec => []TypeOK
<1>1. KernelInv => TypeOK
  <2> SUFFICES ASSUME KernelInv PROVE TypeOK
    OBVIOUS
  <2>1. WellFormed(s) /\ s.previous \in Seq(Saved) /\ s.code \in Seq(Codes) /\ s.active \in Boxes
    BY DEF KernelInv, TypeInv, WellFormed, States
  <2>2. Len(s.previous) <= CONTEXT_MAX_DEPTH /\ Len(s.code) = Len(s.previous) + 1
    BY <2>1 DEF WellFormed
  <2>3. \A n \in DOMAIN s.previous : s.previous[n].src_id \in Boxes
    <3>1. ASSUME NEW n \in DOMAIN s.previous PROVE s.previous[n] \in Saved
      BY <2>1
    <3>2. QED
      BY <3>1 DEF Saved
  <2>4. s.code # <<>>
    BY <2>1, <2>2
  <2>5. QED
    BY <2>1, <2>2, <2>3, <2>4 DEF KernelInv, TypeInv, TypeOK
<1>2. QED
  BY <1>1, KernelInvariant, PTL

\* Until something halts or a thread finds no free slot: the code that runs is in
\* its own box, every code it interrupted has a saved state of its own box, and
\* a thread allocates from no other thread's heap.
THEOREM CodeRunsInItsBox == Spec => []OwnBox
<1>1. KernelInv => OwnBox
  <2> SUFFICES ASSUME KernelInv, Normal
               PROVE  /\ s.active = Running.box
                      /\ Len(s.previous) = Len(s.code) - 1
                      /\ \A n \in DOMAIN s.previous : s.previous[n].src_id = s.code[n].box
                      /\ Running.kind = "thread" /\ context[Running.who] \in Slots =>
                           heap[s.active] \in {slots[context[Running.who]].allocator, "box", NONE}
    BY DEF OwnBox
  <2>1. Owned(s) /\ HeapInv
    BY DEF KernelInv, NormalInv
  <2>2. WellFormed(s) /\ s.previous \in Seq(Saved) /\ s.code \in Seq(Codes)
    BY DEF KernelInv, TypeInv, WellFormed, States
  <2>3. Running = Top(s) /\ (Running.kind \in {"boot", "thread"} => Len(s.code) = 1)
    BY RunningType
  <2>4. s.active = Running.box
    BY <2>1, <2>3 DEF Owned
  <2>5. Len(s.previous) = Len(s.code) - 1
    BY <2>2 DEF WellFormed
  <2>6. \A n \in DOMAIN s.previous : s.previous[n].src_id = s.code[n].box
    BY <2>1, <2>2 DEF Owned
  <2>7. ASSUME Running.kind = "thread", context[Running.who] \in Slots
        PROVE  heap[s.active] \in {slots[context[Running.who]].allocator, "box", NONE}
    <3>1. Running = s.code[1]
      BY <2>3, <2>7 DEF Top
    <3>2. s.active = HomeOf[Running.who]
      BY <2>2, <2>4, <2>7, <3>1 DEF WellFormed
    <3>3. QED
      BY <2>1, <2>7, <3>1, <3>2 DEF HeapInv
  <2>8. QED
    BY <2>4, <2>5, <2>6, <2>7
<1>2. QED
  BY <1>1, KernelInvariant, PTL

\* Until then no box runs on the stack of another, and no stack pointer that is
\* recorded for a box, where the frame of its next ISR is forged, is in the
\* memory of another.
THEOREM StacksAreOwned == Spec => []StacksOwned
<1>1. KernelInv => StacksOwned
  BY DEF KernelInv, NormalInv, Owned, StacksOwned
<1>2. QED
  BY <1>1, KernelInvariant, PTL
=============================================================================
