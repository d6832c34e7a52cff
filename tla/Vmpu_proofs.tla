---------------------------- MODULE Vmpu_proofs ----------------------------
(***************************************************************************)
(* Proofs about Vmpu, for any configuration tables, regions, pages and     *)
(* number of MPU slots.                                                    *)
(***************************************************************************)
EXTENDS Vmpu, PageHeap_proofs, FiniteSetTheorems, WellFoundedInduction, SequenceTheorems, TLAPS

\* The region table: each box has a sequence of regions, and a secure box that
\* is configured has at least its memory.
TableInv ==
  /\ cfg \in Tables /\ next \in 0 .. BoxCount + 1
  /\ regions = [b \in BoxIds |-> regions[b]]
  /\ \A b \in BoxIds : IsSequence(regions[b])
  /\ \A b \in 1 .. BoxCount - 1 : b < next => Len(regions[b]) > 0
  /\ active \in 0 .. BoxCount - 1

\* A table of MPU slots.
MpuTable(m) ==
  /\ m = [slot |-> m.slot, region |-> m.region, priority |-> m.priority]
  /\ m.slot \in Slots
  /\ m.region = [s \in Slots |-> m.region[s]]
  /\ m.priority \in [Slots -> 0 .. 255]

\* Nothing is loaded before all boxes are configured, and what is loaded, or
\* about to be, are regions of the active box.
LoadInv ==
  /\ next <= BoxCount => pushes = <<>> /\ mpu = vmpu_mpu_invalidate
  /\ MpuTable(mpu)
  /\ IsSequence(pushes)
  /\ \A i \in DOMAIN pushes : pushes[i].region \in RegionsOf(active) /\ pushes[i].priority \in 1 .. 255
  /\ OnlyOwnRegions

\* The highest priority is pushed into an empty MPU; while the last slot
\* written has it, the others are empty, so that the next push finds one.
StackInv ==
  /\ mpu.priority[mpu.slot] = 255 => \A s \in Slots \ {mpu.slot} : mpu.priority[s] = 0
  /\ \A i \in DOMAIN pushes :
       pushes[i].priority = 255 => i = 1 /\ \A s \in Slots : mpu.priority[s] = 0

----------------------------------------------------------------------------
\* A set of natural numbers has a least element.
LEMMA LeastElement ==
  ASSUME NEW S, S \subseteq Nat, S # {}
  PROVE  \E i \in S : \A j \in S : i <= j
<1>1. \E i \in S : \A j \in S : <<j, i>> \notin OpToRel(<, Nat)
  BY NatLessThanWellFounded, WFMin, Zenon
<1>2. ASSUME NEW i \in S, \A j \in S : <<j, i>> \notin OpToRel(<, Nat), NEW j \in S
      PROVE  i <= j
  <2>1. ~(j < i)
    BY <1>2 DEF OpToRel
  <2>2. QED
    BY <2>1
<1>3. QED
  BY <1>1, <1>2

LEMMA LowestIn ==
  ASSUME NEW S, S \subseteq Nat, S # {}
  PROVE  Lowest(S) \in S
<1>1. \E i \in S : \A j \in S : i <= j
  BY LeastElement
<1>2. QED
  BY <1>1 DEF Lowest

\* A set of natural numbers with an upper bound has a greatest element.
LEMMA GreatestElement ==
  ASSUME NEW n \in Nat, NEW S, S \subseteq 0 .. n, S # {}
  PROVE  \E i \in S : \A j \in S : j <= i
<1> DEFINE D == {n - i : i \in S}
<1>1. D \subseteq Nat /\ D # {}
  OBVIOUS
<1>2. PICK d \in D : \A e \in D : d <= e
  BY <1>1, LeastElement
<1>3. PICK i \in S : d = n - i
  BY <1>2
<1>4. ASSUME NEW j \in S
      PROVE  j <= i
  <2>1. d <= n - j
    BY <1>2
  <2>2. QED
    BY <2>1, <1>3
<1>5. QED
  BY <1>4

LEMMA SequenceOf ==
  ASSUME NEW S, NEW x \in Seq(S)
  PROVE  IsSequence(x) /\ DOMAIN x = 1 .. Len(x) /\ \A i \in DOMAIN x : x[i] \in S
  BY DEF IsSequence

LEMMA FunctionIn ==
  ASSUME NEW n \in Nat, NEW f, f = [i \in 1 .. n |-> f[i]], NEW S, \A i \in 1 .. n : f[i] \in S
  PROVE  f \in Seq(S) /\ Len(f) = n
  OBVIOUS

LEMMA SequenceIn ==
  ASSUME NEW x, IsSequence(x), NEW S, \A i \in 1 .. Len(x) : x[i] \in S
  PROVE  x \in Seq(S)
  BY DEF IsSequence

----------------------------------------------------------------------------
\* vmpu_mpu_push.

LEMMA SlotsAreNat == Slots \subseteq Nat /\ REGIONS_STATIC \in Slots /\ REGIONS_STATIC + 1 \in Slots
  BY VmpuAssumption DEF Slots, REGIONS_STATIC

\* The slot taken has a lower priority, unless no slot has.
LEMMA TargetLower ==
  ASSUME NEW m, MpuTable(m), NEW p \in 1 .. 255
  PROVE  /\ Target(m, p) \in Slots
         /\ (\E s \in Slots : m.priority[s] < p) => m.priority[Target(m, p)] < p
         /\ (~\E s \in Slots : m.priority[s] < p) => Target(m, p) = m.slot
<1> DEFINE lower == {s \in Slots : m.priority[s] < p}
           above == {s \in lower : s > m.slot}
           chosen == IF above # {} THEN above ELSE lower
<1>1. Target(m, p) = IF lower = {} THEN m.slot ELSE Lowest(chosen)
  BY DEF Target
<1>2. lower # {} => Lowest(chosen) \in lower
  <2> SUFFICES ASSUME lower # {} PROVE Lowest(chosen) \in lower
    OBVIOUS
  <2>1. chosen \subseteq lower /\ chosen # {} /\ chosen \subseteq Nat
    BY SlotsAreNat
  <2> HIDE DEF chosen, lower
  <2>2. QED
    BY <2>1, LowestIn
<1>3. QED
  BY <1>1, <1>2 DEF MpuTable

\* What a push does to each slot.
Pushed(m, n, r, p) ==
  /\ MpuTable(n) /\ n.slot = Target(m, p) /\ n.slot \in Slots
  /\ n.region[n.slot] = r /\ n.priority[n.slot] = p
  /\ \A s \in Slots \ {n.slot} : n.region[s] = m.region[s] /\ n.priority[s] = m.priority[s]

LEMMA PushFields ==
  ASSUME NEW m, MpuTable(m), NEW p \in 1 .. 255, NEW r
  PROVE  Pushed(m, vmpu_mpu_push(m, r, p), r, p)
<1> DEFINE t == Target(m, p)
           n == vmpu_mpu_push(m, r, p)
<1>1. t \in Slots
  BY TargetLower
<1>2. /\ n = [slot |-> t, region |-> [m.region EXCEPT ![t] = r],
              priority |-> [m.priority EXCEPT ![t] = p]]
  BY DEF vmpu_mpu_push
<1>3. n.slot = t /\ n.region = [m.region EXCEPT ![t] = r] /\ n.priority = [m.priority EXCEPT ![t] = p]
      /\ n = [slot |-> n.slot, region |-> n.region, priority |-> n.priority]
  BY <1>2
<1> HIDE DEF t, n
<1>4. n.priority \in [Slots -> 0 .. 255]
  BY <1>1, <1>3 DEF MpuTable
<1>5. n.region = [s \in Slots |-> n.region[s]]
  BY <1>1, <1>3 DEF MpuTable
<1>6. /\ n.region[t] = r /\ n.priority[t] = p
      /\ \A s \in Slots \ {t} : n.region[s] = m.region[s] /\ n.priority[s] = m.priority[s]
  BY <1>1, <1>3 DEF MpuTable
<1>7. MpuTable(n)
  BY <1>1, <1>3, <1>4, <1>5 DEF MpuTable
<1>8. QED
  BY <1>1, <1>3, <1>6, <1>7 DEF t, n, Pushed

\* A push of a region of R leaves regions of R.
LEMMA PushOwn ==
  ASSUME NEW m, MpuTable(m), NEW p \in 1 .. 255, NEW R, NEW r \in R,
         \A s \in Slots : m.priority[s] > 0 => m.region[s] \in R
  PROVE  \A s \in Slots : vmpu_mpu_push(m, r, p).priority[s] > 0 => vmpu_mpu_push(m, r, p).region[s] \in R
<1>1. Pushed(m, vmpu_mpu_push(m, r, p), r, p)
  BY PushFields
<1>2. QED
  BY <1>1 DEF Pushed

\* While the last slot written has the highest priority, the others are empty.
Reserved(m) == m.priority[m.slot] = 255 => \A s \in Slots \ {m.slot} : m.priority[s] = 0
Empty(m)    == \A s \in Slots : m.priority[s] = 0

\* The regions of the highest priority stay.
Kept(m, n) ==
  \A s \in Slots : m.priority[s] = 255 => n.region[s] = m.region[s] /\ n.priority[s] = 255

\* A push evicts no region of the highest priority, though it takes the last
\* slot written when no slot has a lower priority.
LEMMA PushKeeps ==
  ASSUME NEW m, MpuTable(m), NEW p \in 1 .. 255, NEW r, Reserved(m), p = 255 => Empty(m)
  PROVE  Reserved(vmpu_mpu_push(m, r, p)) /\ Kept(m, vmpu_mpu_push(m, r, p))
<1> DEFINE t == Target(m, p)
           n == vmpu_mpu_push(m, r, p)
<1>1. /\ n.slot = t /\ t \in Slots
      /\ n.priority[t] = p
      /\ \A s \in Slots \ {t} : n.region[s] = m.region[s] /\ n.priority[s] = m.priority[s]
  <2>1. Pushed(m, n, r, p)
    BY PushFields
  <2>2. QED
    BY <2>1 DEF Pushed
<1>2. /\ (\E s \in Slots : m.priority[s] < p) => m.priority[t] < p
      /\ (~\E s \in Slots : m.priority[s] < p) => t = m.slot
  BY TargetLower
<1>3. m.priority \in [Slots -> 0 .. 255] /\ m.slot \in Slots
  BY DEF MpuTable
<1> HIDE DEF t, n
<1>4. m.priority[t] # 255
  <2>1. CASE \E s \in Slots : m.priority[s] < p
    BY <2>1, <1>1, <1>2, <1>3
  <2>2. CASE ~\E s \in Slots : m.priority[s] < p
    <3>1. t = m.slot
      BY <2>2, <1>2
    <3>2. PICK s \in Slots : s # m.slot
      BY SlotsAreNat
    <3>3. m.priority[s] # 0
      BY <2>2, <1>3
    <3>4. QED
      BY <3>1, <3>2, <3>3 DEF Reserved
  <2>3. QED
    BY <2>1, <2>2
<1>5. Reserved(n)
  BY <1>1, <1>3 DEF Reserved, Empty
<1>6. Kept(m, n)
  BY <1>1, <1>4 DEF Kept
<1>7. QED
  BY <1>5, <1>6 DEF n

----------------------------------------------------------------------------
\* What vmpu_switch is about to push.

LEMMA MapCount ==
  /\ PAGE_MAX_COUNT \in Nat /\ PAGE_MAP_COUNT \in Nat
  /\ PAGE_MAX_COUNT + 7 <= 32 * PAGE_MAP_COUNT /\ PAGE_MAP_COUNT <= 8
  BY VmpuAssumption

LEMMA OctetRange ==
  ASSUME NEW b \in BoxIds
  PROVE  OctetsOf(b) \subseteq 0 .. 31
<1>1. Owned[b] \subseteq Nat
  BY VmpuAssumption DEF BoxIds
<1>2. Heap.shift \in 0 .. 255
  BY VmpuAssumption, MapCount, HeapShift DEF Heap
<1>3. ASSUME NEW p \in Owned[b]
      PROVE  Octet(Heap, p) \in 0 .. 31
  <2>1. MapBit(Heap, p) \in 0 .. 255
    BY <1>1, <1>2, ByteRange DEF MapBit
  <2>2. QED
    BY <2>1 DEF Octet
<1>4. QED
  BY <1>3 DEF OctetsOf

\* The pushes that box b may make.
PushesOf(b) == [region : RegionsOf(b), priority : 1 .. 255]

LEMMA PagePushType ==
  ASSUME NEW b \in BoxIds
  PROVE  /\ PagePush(b) \in Seq(PushesOf(b)) /\ Len(PagePush(b)) <= 1
         /\ \A i \in DOMAIN PagePush(b) : PagePush(b)[i].priority = 100
<1> DEFINE met == {o \in OctetsOf(b) : o >= PAGE_MAP_COUNT * 4 - (Heap.total + 7) \div 8}
           last == CHOOSE o \in met : \A q \in met : q <= o
<1>1. PagePush(b) = IF met = {} THEN <<>> ELSE <<Push(PageRegion(Heap, Owned[b], last), 100)>>
  BY DEF PagePush
<1>2. CASE met = {}
  BY <1>1, <1>2
<1>3. CASE met # {}
  <2>1. met \subseteq 0 .. 31 /\ met \subseteq OctetsOf(b)
    BY OctetRange
  <2>2. \E o \in met : \A q \in met : q <= o
    <3> HIDE DEF met
    <3>1. QED
      BY <1>3, <2>1, GreatestElement
  <2>3. last \in OctetsOf(b)
    BY <2>1, <2>2
  <2> HIDE DEF last, met
  <2>4. PageRegion(Heap, Owned[b], last) \in RegionsOf(b)
    BY <2>3 DEF RegionsOf
  <2>5. Push(PageRegion(Heap, Owned[b], last), 100) \in PushesOf(b)
    BY <2>4 DEF Push, PushesOf
  <2>6. Push(PageRegion(Heap, Owned[b], last), 100).priority = 100
    BY DEF Push
  <2>7. QED
    BY <1>1, <1>3, <2>5, <2>6
<1>4. QED
  BY <1>2, <1>3

\* The regions of a box, with some priority.
AclPushes(b, p) == [i \in 1 .. Len(regions[b]) |-> Push(regions[b][i], p)]

LEMMA AclPushType ==
  ASSUME NEW b \in BoxIds, IsSequence(regions[b]), NEW p \in 1 .. 254
  PROVE  /\ AclPushes(b, p) \in Seq(PushesOf(b)) /\ Len(AclPushes(b, p)) = Len(regions[b])
         /\ \A i \in 1 .. Len(AclPushes(b, p)) : AclPushes(b, p)[i].priority = p
<1> DEFINE acls == AclPushes(b, p)
<1>1. Len(regions[b]) \in Nat /\ DOMAIN regions[b] = 1 .. Len(regions[b])
  BY DEF IsSequence
<1>2. ASSUME NEW i \in 1 .. Len(regions[b])
      PROVE  acls[i] \in PushesOf(b) /\ acls[i].priority = p
  <2>1. regions[b][i] \in RegionsOf(b)
    BY <1>1 DEF RegionsOf
  <2>2. QED
    BY <2>1 DEF Push, PushesOf, AclPushes
<1>3. acls = [i \in 1 .. Len(regions[b]) |-> acls[i]]
  BY DEF AclPushes
<1> HIDE DEF acls
<1>4. acls \in Seq(PushesOf(b)) /\ Len(acls) = Len(regions[b])
  BY <1>1, <1>2, <1>3, FunctionIn, Zenon
<1>5. QED
  BY <1>1, <1>2, <1>4 DEF acls

\* The pushes of a switch are regions of the box, and only the first may have
\* the highest priority.
LEMMA SwitchPushType ==
  ASSUME NEW b \in BoxIds, IsSequence(regions[b]), b # 0 => Len(regions[b]) > 0
  PROVE  /\ SwitchPushes(b) \in Seq(PushesOf(b))
         /\ \A i \in DOMAIN SwitchPushes(b) : SwitchPushes(b)[i].priority = 255 => i = 1
<1> DEFINE a1 == AclPushes(b, 1)
           a2 == AclPushes(b, 2)
           pp == PagePush(b)
           first == <<Push(regions[b][1], 255)>>
<1>1. SwitchPushes(b) = IF b = 0 THEN pp \o a2 \o a1 ELSE first \o pp \o Tail(a2)
  BY DEF SwitchPushes, AclPushes
<1>2. /\ a1 \in Seq(PushesOf(b)) /\ Len(a1) = Len(regions[b])
      /\ \A i \in 1 .. Len(a1) : a1[i].priority = 1
  <2>1. 1 \in 1 .. 254
    OBVIOUS
  <2>2. QED
    BY <2>1, AclPushType, Zenon
<1>3. /\ a2 \in Seq(PushesOf(b)) /\ Len(a2) = Len(regions[b])
      /\ \A i \in 1 .. Len(a2) : a2[i].priority = 2
  <2>1. 2 \in 1 .. 254
    OBVIOUS
  <2>2. QED
    BY <2>1, AclPushType, Zenon
<1>4. /\ pp \in Seq(PushesOf(b))
      /\ \A i \in 1 .. Len(pp) : pp[i].priority = 100
  BY PagePushType
<1>5. CASE b = 0
  <2> HIDE DEF a1, a2, pp
  <2> DEFINE q == pp \o a2
             r == q \o a1
  <2>1. q \in Seq(PushesOf(b)) /\ \A i \in 1 .. Len(q) : q[i].priority # 255
    BY <1>3, <1>4
  <2> HIDE DEF q
  <2>2. r \in Seq(PushesOf(b)) /\ \A i \in 1 .. Len(r) : r[i].priority # 255
    BY <2>1, <1>2
  <2>3. SwitchPushes(b) = r
    BY <1>1, <1>5 DEF q
  <2> HIDE DEF r
  <2>4. QED
    BY <2>2, <2>3
<1>6. CASE b # 0
  <2>1. first \in Seq(PushesOf(b)) /\ Len(first) = 1
    <3>1. Len(regions[b]) \in Nat /\ DOMAIN regions[b] = 1 .. Len(regions[b]) /\ Len(regions[b]) > 0
      BY <1>6 DEF IsSequence
    <3>2. regions[b][1] \in RegionsOf(b)
      BY <3>1 DEF RegionsOf
    <3>3. QED
      BY <3>2 DEF Push, PushesOf
  <2>2. Len(a2) > 0 /\ a2 # <<>>
    BY <1>3, <1>6 DEF IsSequence
  <2> HIDE DEF a1, a2, pp, first
  <2> DEFINE t == Tail(a2)
             q == first \o pp
             r == q \o t
  <2>3. t \in Seq(PushesOf(b)) /\ \A i \in 1 .. Len(t) : t[i].priority # 255
    BY <1>3, <2>2
  <2> HIDE DEF t
  <2>4. q \in Seq(PushesOf(b)) /\ \A i \in 1 .. Len(q) : q[i].priority = 255 => i = 1
    <3>1. q \in Seq(PushesOf(b)) /\ Len(q) = 1 + Len(pp)
      <4>1. first \in Seq(PushesOf(b)) /\ pp \in Seq(PushesOf(b))
        BY <1>4, <2>1, Zenon
      <4>2. q \in Seq(PushesOf(b)) /\ Len(q) = Len(first) + Len(pp)
        BY <4>1
      <4>3. QED
        BY <2>1, <4>2
    <3>2. \A i \in 2 .. Len(q) : q[i] = pp[i - 1] /\ i - 1 \in 1 .. Len(pp)
      BY <1>4, <2>1, <3>1, ConcatProperties
    <3>3. QED
      BY <1>4, <3>1, <3>2
  <2>5. Len(q) > 0
    BY <1>4, <2>1
  <2> HIDE DEF q
  <2>6. r \in Seq(PushesOf(b)) /\ \A i \in 1 .. Len(r) : r[i].priority = 255 => i = 1
    BY <2>3, <2>4, <2>5
  <2>7. SwitchPushes(b) = r
    BY <1>1, <1>6 DEF q, t
  <2> HIDE DEF r
  <2>8. QED
    BY <2>6, <2>7
<1>7. QED
  BY <1>5, <1>6

----------------------------------------------------------------------------
VmpuInv == TableInv /\ LoadInv /\ StackInv

LEMMA EmptyMpu ==
  /\ MpuTable(vmpu_mpu_invalidate)
  /\ \A s \in Slots : vmpu_mpu_invalidate.priority[s] = 0
  BY SlotsAreNat DEF MpuTable, vmpu_mpu_invalidate

LEMMA InitInv == Init => VmpuInv
<1> SUFFICES ASSUME Init PROVE VmpuInv
  OBVIOUS
<1>1. Len(cfg) \in Nat /\ Len(cfg) > 0 /\ cfg \in Tables
  BY VmpuAssumption DEF Init, IsSequence
<1>2. TableInv
  <2>1. IsSequence(<<>>)
    BY DEF IsSequence
  <2>2. QED
    BY <1>1, <2>1 DEF Init, TableInv, BoxCount
<1>3. LoadInv /\ StackInv
  <2>1. IsSequence(<<>>)
    BY DEF IsSequence
  <2>2. QED
    BY EmptyMpu, <2>1 DEF Init, LoadInv, StackInv, OnlyOwnRegions, MpuTable
<1>4. QED
  BY <1>2, <1>3 DEF VmpuInv

\* The regions that a box gets are a sequence, and a secure box gets one or more.
LEMMA BoxRegions ==
  ASSUME NEW b \in Nat, NEW sram, NEW c, IsSequence(c.acls),
         NEW table, table = vmpu_configure_box_sram(b, sram) \o vmpu_configure_box_peripherals(c)
  PROVE  IsSequence(table) /\ (b > 0 => Len(table) > 0)
<1> DEFINE mine  == vmpu_configure_box_sram(b, sram)
           acls  == vmpu_configure_box_peripherals(c)
           m     == [start |-> sram.start, size |-> sram.size, off |-> sram.off, read |-> TRUE, write |-> TRUE]
           S     == {m} \cup {acls[i] : i \in 1 .. Len(c.acls)}
<1>1. mine = IF b = 0 THEN <<>> ELSE <<m>>
  BY DEF vmpu_configure_box_sram
<1>2. m \in S
  OBVIOUS
<1>3. acls = [i \in 1 .. Len(c.acls) |-> acls[i]] /\ Len(c.acls) \in Nat
  BY DEF vmpu_configure_box_peripherals, IsSequence
<1>4. \A i \in 1 .. Len(c.acls) : acls[i] \in S
  OBVIOUS
<1> HIDE DEF m, S, acls, mine
<1>5. acls \in Seq(S)
  BY <1>3, <1>4, FunctionIn, Zenon
<1>6. mine \in Seq(S) /\ (b > 0 => Len(mine) > 0)
  BY <1>1, <1>2
<1>7. table = mine \o acls
  BY DEF mine, acls
<1>8. table \in Seq(S) /\ Len(table) = Len(mine) + Len(acls)
  BY <1>5, <1>6, <1>7
<1>9. IsSequence(table)
  BY <1>8, SequenceOf
<1>10. Len(mine) \in Nat /\ Len(acls) \in Nat
  BY <1>5, <1>6
<1>11. QED
  BY <1>6, <1>8, <1>9, <1>10

LEMMA TableFacts ==
  ASSUME TableInv
  PROVE  /\ BoxCount \in Nat /\ BoxCount > 0
         /\ 0 .. BoxCount - 1 \subseteq BoxIds
         /\ DOMAIN regions = BoxIds
         /\ \A i \in 1 .. BoxCount : IsSequence(cfg[i].acls)
         /\ next \in 0 .. BoxCount + 1 /\ active \in 0 .. BoxCount - 1
         /\ \A b \in BoxIds : IsSequence(regions[b])
         /\ \A b \in 1 .. BoxCount - 1 : b < next => Len(regions[b]) > 0
<1>1. cfg \in Tables /\ regions = [b \in BoxIds |-> regions[b]]
  BY DEF TableInv
<1>2. /\ BoxCount \in Nat /\ BoxCount > 0
      /\ 0 .. BoxCount - 1 \subseteq BoxIds
      /\ DOMAIN regions = BoxIds
      /\ \A i \in 1 .. BoxCount : IsSequence(cfg[i].acls)
  BY <1>1, VmpuAssumption DEF BoxCount, BoxIds, IsSequence
<1>3. QED
  BY <1>2, Zenon DEF TableInv

LEMMA SameTables ==
  ASSUME VmpuInv, UNCHANGED <<cfg, next, regions, active, mpu, pushes>>
  PROVE  VmpuInv'
<1>1. BoxCount' = BoxCount
  BY DEF BoxCount
<1>2. RegionsOf(active)' = RegionsOf(active)
  BY DEF RegionsOf
<1>3. TableInv'
  BY <1>1 DEF VmpuInv, TableInv
<1>4. LoadInv'
  <2>1. OnlyOwnRegions'
    BY <1>2 DEF VmpuInv, LoadInv, OnlyOwnRegions
  <2>2. QED
    BY <1>1, <1>2, <2>1 DEF VmpuInv, LoadInv
<1>5. StackInv'
  BY DEF VmpuInv, StackInv
<1>6. QED
  BY <1>3, <1>4, <1>5 DEF VmpuInv

\* The steps of boot.
LEMMA BootStep ==
  ASSUME VmpuInv, OrderSound, order_boxes \/ enumerate_box
  PROVE  VmpuInv' /\ mpu' = mpu
<1>1. TableInv /\ LoadInv /\ StackInv
  BY DEF VmpuInv
<1>2. CASE order_boxes
  <2>1. UNCHANGED <<cfg, next, mem_pos, regions, active, mpu, pushes, access>>
    BY <1>2 DEF order_boxes
  <2>2. QED
    BY <2>1, SameTables
<1>3. CASE enumerate_box
  <2> DEFINE b    == next
             c    == cfg[order[b + 1]]
             sram == vmpu_acl_sram(mem_pos, SumBss(c), c.stack)
             table == vmpu_configure_box_sram(b, sram) \o vmpu_configure_box_peripherals(c)
  <2>1. /\ order # <<>> /\ next < BoxCount
        /\ UNCHANGED <<cfg, order, active, mpu, pushes, access>>
        /\ \/ next' = b + 1 /\ regions' = [regions EXCEPT ![b] = table]
           \/ next' = next /\ regions' = regions
    BY <1>3 DEF enumerate_box
  <2>2. next \in Nat /\ next \in BoxIds /\ next + 1 \in 1 .. BoxCount /\ BoxCount \in Nat
    <3>1. BoxCount \in Nat /\ 0 .. BoxCount - 1 \subseteq BoxIds /\ next \in 0 .. BoxCount + 1
      BY <1>1, TableFacts
    <3>2. QED
      BY <2>1, <3>1
  <2>3. order[b + 1] \in 1 .. BoxCount
    BY <2>1, <2>2 DEF OrderSound
  <2>4. IsSequence(c.acls)
    BY <1>1, <2>3, TableFacts
  <2> HIDE DEF c, sram
  <2>5. IsSequence(table) /\ (b > 0 => Len(table) > 0)
    BY <2>2, <2>4, BoxRegions
  <2> HIDE DEF table
  <2>6. BoxCount' = BoxCount
    BY <2>1 DEF BoxCount
  <2>7. TableInv'
    <3>1. CASE next' = b + 1 /\ regions' = [regions EXCEPT ![b] = table]
      <4>1. DOMAIN regions = BoxIds
        BY <1>1, TableFacts
      <4>2. regions' = [a \in BoxIds |-> regions'[a]] /\ regions'[b] = table
            /\ \A a \in BoxIds \ {b} : regions'[a] = regions[a]
        BY <1>1, <3>1, <2>2, <4>1 DEF TableInv
      <4>3. \A a \in BoxIds : IsSequence(regions'[a])
        BY <1>1, <4>2, <2>5 DEF TableInv
      <4>4. \A a \in 1 .. BoxCount - 1 : a < next' => Len(regions'[a]) > 0
        <5>1. 0 .. BoxCount - 1 \subseteq BoxIds
          BY <1>1, TableFacts
        <5>2. TAKE a \in 1 .. BoxCount - 1
        <5>3. CASE a = b
          BY <5>3, <4>2, <2>5
        <5>4. CASE a # b
          <6>1. a < next => Len(regions[a]) > 0
            BY <1>1, TableFacts
          <6>2. a \in BoxIds /\ regions'[a] = regions[a]
            BY <5>1, <5>4, <4>2, <2>2
          <6>3. QED
            BY <2>2, <3>1, <5>4, <6>1, <6>2
        <5>5. QED
          BY <5>3, <5>4
      <4>5. cfg' \in Tables /\ next' \in 0 .. BoxCount + 1 /\ active' \in 0 .. BoxCount - 1
        BY <1>1, <3>1, <2>1, <2>2 DEF TableInv
      <4>6. QED
        BY <2>6, <4>2, <4>3, <4>4, <4>5 DEF TableInv
    <3>2. CASE next' = next /\ regions' = regions
      BY <1>1, <2>1, <2>6, <3>2 DEF TableInv
    <3>3. QED
      BY <2>1, <3>1, <3>2
  <2>8. pushes = <<>> /\ mpu = vmpu_mpu_invalidate
    BY <1>1, <2>1, <2>2 DEF LoadInv
  <2>9. LoadInv' /\ StackInv'
    <3>1. pushes' = <<>> /\ mpu' = vmpu_mpu_invalidate /\ DOMAIN pushes' = {}
      BY <2>1, <2>8
    <3>2. MpuTable(mpu') /\ \A s \in Slots : mpu'.priority[s] = 0
      BY <3>1, EmptyMpu
    <3>3. IsSequence(pushes')
      BY <3>1 DEF IsSequence
    <3>4. mpu'.slot \in Slots
      BY <3>2 DEF MpuTable
    <3>5. OnlyOwnRegions'
      BY <3>2 DEF OnlyOwnRegions
    <3>6. QED
      BY <3>1, <3>2, <3>3, <3>4, <3>5 DEF LoadInv, StackInv
  <2>10. QED
    BY <2>1, <2>7, <2>9 DEF VmpuInv
<1>4. QED
  BY <1>2, <1>3

\* A switch, at the end of boot or later.
LEMMA SwitchStep ==
  ASSUME VmpuInv, NEW b \in 0 .. BoxCount - 1, vmpu_switch(b), active' = b,
         UNCHANGED <<cfg, regions>>, next >= BoxCount, next' = BoxCount + 1
  PROVE  VmpuInv' /\ mpu' = vmpu_mpu_invalidate
<1>1. TableInv
  BY DEF VmpuInv
<1>2. BoxCount \in Nat /\ b \in BoxIds /\ BoxCount' = BoxCount
  BY <1>1, TableFacts DEF BoxCount
<1>3. TableInv'
  <2>1. \A a \in 1 .. BoxCount - 1 : a < next
    BY <1>1, <1>2 DEF TableInv
  <2>2. QED
    BY <1>1, <1>2, <2>1 DEF TableInv
<1>4. mpu' = vmpu_mpu_invalidate /\ pushes' = SwitchPushes(b)
  BY DEF vmpu_switch
<1>5. IsSequence(regions[b]) /\ (b # 0 => Len(regions[b]) > 0)
  <2>1. /\ next \in 0 .. BoxCount + 1
        /\ \A a \in BoxIds : IsSequence(regions[a])
        /\ \A a \in 1 .. BoxCount - 1 : a < next => Len(regions[a]) > 0
    BY <1>1, TableFacts
  <2>2. QED
    BY <1>2, <2>1
<1>6. /\ pushes' \in Seq(PushesOf(b))
      /\ \A i \in DOMAIN pushes' : pushes'[i].priority = 255 => i = 1
  BY <1>2, <1>4, <1>5, SwitchPushType
<1>7. IsSequence(pushes') /\ \A i \in DOMAIN pushes' : pushes'[i] \in PushesOf(b)
  BY <1>6, SequenceOf
<1>8. RegionsOf(b) = RegionsOf(active)'
  BY DEF RegionsOf
<1>9. \A i \in DOMAIN pushes' : pushes'[i].region \in RegionsOf(active)' /\ pushes'[i].priority \in 1 .. 255
  BY <1>7, <1>8 DEF PushesOf
<1>10. MpuTable(mpu') /\ (\A s \in Slots : mpu'.priority[s] = 0) /\ mpu'.slot \in Slots
  BY <1>4, EmptyMpu DEF MpuTable
<1>11. OnlyOwnRegions'
  BY <1>10 DEF OnlyOwnRegions
<1>12. LoadInv'
  BY <1>2, <1>7, <1>9, <1>10, <1>11 DEF LoadInv
<1>13. StackInv'
  BY <1>6, <1>10 DEF StackInv
<1>14. QED
  BY <1>3, <1>4, <1>12, <1>13 DEF VmpuInv

\* A push of a region of the active box, from the list or from a fault.
LEMMA PushStep ==
  ASSUME VmpuInv, NEW r \in RegionsOf(active), NEW p \in 1 .. 255,
         p = 255 => Empty(mpu),
         mpu' = vmpu_mpu_push(mpu, r, p),
         UNCHANGED <<cfg, next, regions, active>>, next = BoxCount + 1,
         \/ pushes = <<>> /\ pushes' = <<>>
         \/ pushes # <<>> /\ pushes' = Tail(pushes)
  PROVE  /\ VmpuInv'
         /\ Kept(mpu, mpu')
<1>1. TableInv /\ MpuTable(mpu) /\ IsSequence(pushes) /\ OnlyOwnRegions /\ Reserved(mpu)
  BY DEF VmpuInv, LoadInv, StackInv, Reserved
<1>2. BoxCount' = BoxCount /\ BoxCount \in Nat
  BY <1>1, TableFacts DEF BoxCount
<1>3. RegionsOf(active)' = RegionsOf(active)
  BY DEF RegionsOf
<1>4. TableInv'
  BY <1>1, <1>2 DEF TableInv
<1>5. Pushed(mpu, mpu', r, p)
  BY <1>1, PushFields
<1>6. MpuTable(mpu')
  BY <1>5 DEF Pushed
<1>7. OnlyOwnRegions'
  <2>1. \A s \in Slots : mpu'.priority[s] > 0 => mpu'.region[s] \in RegionsOf(active)
    BY <1>1, <1>5 DEF Pushed, OnlyOwnRegions
  <2>2. QED
    BY <1>3, <2>1 DEF OnlyOwnRegions
<1>8. /\ Reserved(mpu')
      /\ Kept(mpu, mpu')
  BY <1>1, PushKeeps
<1>9. /\ IsSequence(pushes')
      /\ \A i \in DOMAIN pushes' : i + 1 \in DOMAIN pushes /\ pushes'[i] = pushes[i + 1] /\ i \in Nat \ {0}
  <2> DEFINE S == {pushes[i] : i \in 1 .. Len(pushes)}
  <2>1. pushes \in Seq(S)
    BY <1>1, SequenceIn
  <2> HIDE DEF S
  <2>2. CASE pushes = <<>> /\ pushes' = <<>>
    BY <2>2 DEF IsSequence
  <2>3. CASE pushes # <<>> /\ pushes' = Tail(pushes)
    <3>1. /\ pushes' \in Seq(S) /\ Len(pushes') = Len(pushes) - 1 /\ Len(pushes) \in Nat
          /\ \A i \in 1 .. Len(pushes) - 1 : pushes'[i] = pushes[i + 1]
      BY <2>1, <2>3
    <3>2. DOMAIN pushes = 1 .. Len(pushes) /\ DOMAIN pushes' = 1 .. Len(pushes')
      BY <2>1, <3>1
    <3>3. IsSequence(pushes')
      BY <3>1, SequenceOf
    <3>4. QED
      BY <3>1, <3>2, <3>3
  <2>4. QED
    BY <2>2, <2>3
<1>10. \A i \in DOMAIN pushes' : /\ pushes'[i].region \in RegionsOf(active)
                                 /\ pushes'[i].priority \in 1 .. 255 /\ pushes'[i].priority # 255
  <2> TAKE i \in DOMAIN pushes'
  <2>1. i + 1 \in DOMAIN pushes /\ pushes'[i] = pushes[i + 1] /\ i + 1 # 1
    BY <1>9
  <2>2. pushes[i + 1].region \in RegionsOf(active) /\ pushes[i + 1].priority \in 1 .. 255
    BY <2>1 DEF VmpuInv, LoadInv
  <2>3. pushes[i + 1].priority # 255
    BY <2>1 DEF VmpuInv, StackInv
  <2>4. QED
    BY <2>1, <2>2, <2>3
<1>11. LoadInv'
  <2>1. \A i \in DOMAIN pushes' : pushes'[i].region \in RegionsOf(active)' /\ pushes'[i].priority \in 1 .. 255
    BY <1>3, <1>10
  <2>2. ~(next' <= BoxCount')
    BY <1>2
  <2>3. QED
    BY <1>6, <1>7, <1>9, <2>1, <2>2 DEF LoadInv
<1>12. StackInv'
  <2>1. \A i \in DOMAIN pushes' : pushes'[i].priority # 255
    <3> TAKE i \in DOMAIN pushes'
    <3>1. QED
      BY <1>10
  <2>2. QED
    BY <1>8, <2>1 DEF StackInv, Reserved
<1>13. QED
  BY <1>4, <1>8, <1>11, <1>12 DEF VmpuInv

\* vmpu_mem_invalidate.
LEMMA InvalidateStep ==
  ASSUME VmpuInv, vmpu_mem_invalidate
  PROVE  VmpuInv' /\ mpu' = vmpu_mpu_invalidate
<1>1. /\ mpu' = vmpu_mpu_invalidate /\ pushes = <<>>
      /\ UNCHANGED <<cfg, next, regions, active, pushes>>
  BY DEF vmpu_mem_invalidate, Running, boot
<1>2. TableInv'
  BY <1>1 DEF VmpuInv, TableInv, BoxCount
<1>3. MpuTable(mpu') /\ (\A s \in Slots : mpu'.priority[s] = 0) /\ mpu'.slot \in Slots
  BY <1>1, EmptyMpu DEF MpuTable
<1>4. pushes' = <<>> /\ DOMAIN pushes' = {} /\ IsSequence(pushes')
  BY <1>1 DEF IsSequence
<1>5. OnlyOwnRegions'
  BY <1>3 DEF OnlyOwnRegions
<1>6. LoadInv' /\ StackInv'
  BY <1>1, <1>3, <1>4, <1>5 DEF LoadInv, StackInv
<1>7. QED
  BY <1>1, <1>2, <1>6 DEF VmpuInv

\* The regions that a fault loads are regions of the active box.
LEMMA FaultRegion ==
  ASSUME VmpuInv, NEW addr
  PROVE  /\ OwnsPageAt(addr) =>
              PageRegion(Heap, Owned[active], Octet(Heap, PageAt(Heap, addr))) \in RegionsOf(active)
         /\ Found(FaultBox(addr), addr) # {} =>
              FirstRegion(FaultBox(addr), addr) \in RegionsOf(active)
<1>1. ASSUME OwnsPageAt(addr)
      PROVE  PageRegion(Heap, Owned[active], Octet(Heap, PageAt(Heap, addr))) \in RegionsOf(active)
  <2>1. Octet(Heap, PageAt(Heap, addr)) \in OctetsOf(active)
    BY <1>1 DEF OwnsPageAt, OctetsOf
  <2>2. QED
    BY <2>1 DEF RegionsOf
<1>2. ASSUME NEW b \in BoxIds, b = active \/ b = 0, Found(b, addr) # {}
      PROVE  FirstRegion(b, addr) \in RegionsOf(active)
  <2>1. DOMAIN regions[b] = 1 .. Len(regions[b]) /\ Len(regions[b]) \in Nat
    <3>1. IsSequence(regions[b])
      BY TableFacts DEF VmpuInv
    <3>2. QED
      BY <3>1 DEF IsSequence
  <2>2. Found(b, addr) \subseteq DOMAIN regions[b] /\ DOMAIN regions[b] \subseteq Nat
    BY <2>1 DEF Found
  <2>3. Lowest(Found(b, addr)) \in DOMAIN regions[b]
    BY <1>2, <2>2, LowestIn
  <2>4. QED
    BY <1>2, <2>3 DEF FirstRegion, RegionsOf
<1>3. FaultBox(addr) \in BoxIds /\ (FaultBox(addr) = active \/ FaultBox(addr) = 0)
  <2>1. active \in BoxIds /\ 0 \in BoxIds
    <3>1. BoxCount \in Nat /\ BoxCount > 0 /\ 0 .. BoxCount - 1 \subseteq BoxIds /\ active \in 0 .. BoxCount - 1
      BY TableFacts DEF VmpuInv
    <3>2. QED
      BY <3>1
  <2>2. QED
    BY <2>1 DEF FaultBox
<1>4. QED
  BY <1>1, <1>2, <1>3

\* Every step keeps the invariant, and the regions of the highest priority, or
\* empties the MPU.
StackStep ==
  \A s \in Slots :
    mpu.priority[s] = 255 =>
      \/ mpu'.region[s] = mpu.region[s] /\ mpu'.priority[s] = 255
      \/ mpu' = vmpu_mpu_invalidate

LEMMA VmpuStep ==
  ASSUME VmpuInv, OrderSound, [Next]_vars
  PROVE  VmpuInv' /\ StackStep
<1>0. TableInv /\ LoadInv /\ StackInv
  BY DEF VmpuInv
<1>1. BoxCount \in Nat /\ BoxCount > 0 /\ next \in 0 .. BoxCount + 1
  BY <1>0, TableFacts
<1>2. CASE order_boxes \/ enumerate_box
  BY <1>2, BootStep DEF StackStep
<1>3. CASE load_box_0
  <2>1. /\ vmpu_switch(0) /\ active' = 0 /\ next = BoxCount /\ next' = BoxCount + 1
        /\ UNCHANGED <<cfg, regions>>
    BY <1>3 DEF load_box_0
  <2>2. 0 \in 0 .. BoxCount - 1 /\ next >= BoxCount
    BY <1>1, <2>1
  <2>3. QED
    BY <2>1, <2>2, SwitchStep DEF StackStep
<1>4. CASE push_next
  <2>1. next = BoxCount + 1 /\ pushes # <<>> /\ IsSequence(pushes)
    BY <1>0, <1>1, <1>4 DEF push_next, LoadInv
  <2>2. DOMAIN pushes = 1 .. Len(pushes) /\ Len(pushes) \in Nat
    BY <2>1 DEF IsSequence
  <2>3. 1 \in DOMAIN pushes /\ Head(pushes) = pushes[1]
    BY <2>1, <2>2 DEF IsSequence
  <2>4. Head(pushes).region \in RegionsOf(active) /\ Head(pushes).priority \in 1 .. 255
    BY <1>0, <2>3 DEF LoadInv
  <2>5. Head(pushes).priority = 255 => Empty(mpu)
    BY <1>0, <2>3 DEF StackInv, Empty
  <2>6. /\ mpu' = vmpu_mpu_push(mpu, Head(pushes).region, Head(pushes).priority)
        /\ pushes' = Tail(pushes)
        /\ UNCHANGED <<cfg, next, regions, active>>
    BY <1>4 DEF push_next, boot
  <2>7. QED
    <3>1. VmpuInv' /\ Kept(mpu, mpu')
      BY <2>1, <2>4, <2>5, <2>6, PushStep, Zenon
    <3>2. QED
      BY <3>1 DEF StackStep, Kept
<1>5. ASSUME NEW b \in 0 .. BoxCount - 1, context_switch(b)
      PROVE  VmpuInv' /\ StackStep
  <2>1. /\ vmpu_switch(b) /\ active' = b /\ next = BoxCount + 1 /\ next' = BoxCount + 1
        /\ UNCHANGED <<cfg, regions>>
    BY <1>5 DEF context_switch, Running, Booted, boot
  <2>2. next >= BoxCount
    BY <1>1, <2>1
  <2>3. QED
    BY <2>1, <2>2, SwitchStep DEF StackStep
<1>6. CASE vmpu_mem_invalidate
  BY <1>6, InvalidateStep DEF StackStep
<1>7. CASE fault_recovery
  <2>1. /\ next = BoxCount + 1 /\ pushes = <<>> /\ pushes' = <<>>
        /\ UNCHANGED <<cfg, next, regions, active, pushes>>
    BY <1>7 DEF fault_recovery, Running, Booted, boot
  <2>2. \/ /\ OwnsPageAt(access.addr)
           /\ mpu' = vmpu_mpu_push(mpu, PageRegion(Heap, Owned[active],
                                                   Octet(Heap, PageAt(Heap, access.addr))), 100)
        \/ /\ Found(FaultBox(access.addr), access.addr) # {}
           /\ mpu' = vmpu_mpu_push(mpu, FirstRegion(FaultBox(access.addr), access.addr), 3)
        \/ mpu' = mpu
    BY <1>7 DEF fault_recovery
  <2>3. ASSUME NEW r \in RegionsOf(active), NEW p \in 1 .. 254, mpu' = vmpu_mpu_push(mpu, r, p)
        PROVE  VmpuInv' /\ StackStep
    <3>1. p \in 1 .. 255 /\ p # 255
      OBVIOUS
    <3>2. VmpuInv' /\ Kept(mpu, mpu')
      BY <2>1, <2>3, <3>1, PushStep, Zenon
    <3>3. QED
      BY <3>2 DEF StackStep, Kept
  <2>4. ASSUME mpu' = mpu
        PROVE  VmpuInv' /\ StackStep
    BY <2>1, <2>4, SameTables DEF StackStep
  <2>5. 100 \in 1 .. 254 /\ 3 \in 1 .. 254
    OBVIOUS
  <2>6. QED
    BY <2>2, <2>3, <2>4, <2>5, FaultRegion, Zenon
<1>8. CASE access_denied \/ access_repeated \/ UNCHANGED vars
  <2>1. UNCHANGED <<cfg, next, regions, active, mpu, pushes>>
    BY <1>8 DEF access_denied, access_repeated, boot, vars
  <2>2. QED
    BY <2>1, SameTables DEF StackStep
<1>9. QED
  BY <1>2, <1>3, <1>4, <1>5, <1>6, <1>7, <1>8 DEF Next

----------------------------------------------------------------------------
\* The memory of a secure box.

\* The sizes that a region can have.
LEMMA Powers ==
  ASSUME NEW b \in 5 .. 29
  PROVE  2 ^ b \in Nat /\ 2 ^ b > 0 /\ (b >= 8 => \E u \in Nat : 2 ^ b = 8 * u /\ u >= 32)
<1> DEFINE x == 2 ^ b
<1>1. CASE b \in 5 .. 7
  <2>1. b = 5 \/ b = 6 \/ b = 7
    BY <1>1
  <2>2. x = 2 ^ 5 \/ x = 2 ^ 6 \/ x = 2 ^ 7
    BY <2>1, Zenon
  <2> HIDE DEF x
  <2>3. x \in Nat /\ x > 0
    BY <2>2, SMT
  <2>4. QED
    BY <1>1, <2>3 DEF x
<1>2. CASE b \in 8 .. 29
  <2>1. \/ b = 8 \/ b = 9 \/ b = 10 \/ b = 11 \/ b = 12 \/ b = 13 \/ b = 14 \/ b = 15 \/ b = 16
        \/ b = 17 \/ b = 18 \/ b = 19 \/ b = 20 \/ b = 21 \/ b = 22 \/ b = 23 \/ b = 24
        \/ b = 25 \/ b = 26 \/ b = 27 \/ b = 28 \/ b = 29
    BY <1>2
  <2>2. \/ x = 2 ^ 8 \/ x = 2 ^ 9 \/ x = 2 ^ 10 \/ x = 2 ^ 11 \/ x = 2 ^ 12 \/ x = 2 ^ 13
        \/ x = 2 ^ 14 \/ x = 2 ^ 15 \/ x = 2 ^ 16 \/ x = 2 ^ 17 \/ x = 2 ^ 18 \/ x = 2 ^ 19
        \/ x = 2 ^ 20 \/ x = 2 ^ 21 \/ x = 2 ^ 22 \/ x = 2 ^ 23 \/ x = 2 ^ 24 \/ x = 2 ^ 25
        \/ x = 2 ^ 26 \/ x = 2 ^ 27 \/ x = 2 ^ 28 \/ x = 2 ^ 29
    BY <2>1, Zenon
  <2> HIDE DEF x
  <2>3. x \in Nat /\ x > 0 /\ x \div 8 \in Nat /\ x \div 8 >= 32 /\ x = 8 * (x \div 8)
    BY <2>2, SMT
  <2>4. QED
    BY <2>3 DEF x
<1>3. QED
  BY <1>1, <1>2

\* vmpu_region_bits finds a region that is large enough.
LEMMA RegionBits ==
  ASSUME NEW size \in Nat, size <= 2 ^ 29
  PROVE  vmpu_region_bits(size) \in 5 .. 29 /\ 2 ^ vmpu_region_bits(size) >= size
<1> DEFINE B == {b \in 5 .. 29 : 2 ^ b >= size}
<1>1. 29 \in B /\ B \subseteq Nat
  OBVIOUS
<1>2. PICK b \in B : \A c \in B : b <= c
  <2>1. B # {}
    BY <1>1
  <2> HIDE DEF B
  <2>2. QED
    BY <1>1, <2>1, LeastElement
<1>3. \A c \in 5 .. b - 1 : 2 ^ c < size
  <2> SUFFICES ASSUME NEW c \in 5 .. b - 1 PROVE 2 ^ c < size
    OBVIOUS
  <2>1. c \in 5 .. 29 /\ ~(b <= c)
    OBVIOUS
  <2>2. 2 ^ c \in Nat /\ ~(2 ^ c >= size)
    BY <1>2, <2>1, Powers
  <2>3. QED
    BY <2>2
<1>4. \E c \in ALIGNMENT_BITS .. 29 : 2 ^ c >= size /\ \A d \in ALIGNMENT_BITS .. c - 1 : 2 ^ d < size
  BY <1>2, <1>3 DEF ALIGNMENT_BITS
<1>5. QED
  BY <1>4 DEF vmpu_region_bits, ALIGNMENT_BITS

\* Six of the eight subregions hold what the box asked for; none is smaller than
\* the smallest region.
LEMMA RegionSize ==
  ASSUME NEW bss \in Nat, NEW stack \in Nat, ((stack + bss) * 8) \div 6 <= 2 ^ 29
  PROVE  \E sub \in Nat \ {0} : /\ vmpu_acl_sram_region_size(bss, stack) = 8 * sub
                                /\ 6 * sub >= stack + bss /\ sub >= 32
<1> DEFINE n    == ((stack + bss) * 8) \div 6
           bits == vmpu_region_bits(n)
           c    == IF bits < 8 THEN 8 ELSE bits
<1>1. n \in Nat /\ 6 * n > (stack + bss) * 8 - 6
  OBVIOUS
<1>2. bits \in 5 .. 29 /\ 2 ^ bits >= n
  BY <1>1, RegionBits
<1>3. vmpu_acl_sram_region_size(bss, stack) = 2 ^ c
  BY DEF vmpu_acl_sram_region_size
<1> HIDE DEF n, bits
<1>4. c \in 8 .. 29 /\ 2 ^ c >= n
  <2>1. CASE bits < 8
    <3>1. bits = 5 \/ bits = 6 \/ bits = 7
      BY <1>2, <2>1
    <3> DEFINE x == 2 ^ bits
    <3>2. x = 2 ^ 5 \/ x = 2 ^ 6 \/ x = 2 ^ 7
      BY <3>1, Zenon
    <3>3. x >= n /\ c = 8
      BY <1>2, <2>1
    <3> HIDE DEF c, x
    <3>4. 2 ^ 8 >= n
      BY <1>1, <3>2, <3>3, SMT
    <3>5. QED
      BY <3>3, <3>4
  <2>2. CASE ~(bits < 8)
    BY <1>2, <2>2
  <2>3. QED
    BY <2>1, <2>2
<1> HIDE DEF c
<1>5. PICK sub \in Nat : 2 ^ c = 8 * sub /\ sub >= 32
  <2>1. c \in 5 .. 29 /\ c >= 8
    BY <1>4
  <2>2. QED
    BY <2>1, Powers
<1>6. 8 * sub >= n
  BY <1>4, <1>5
<1>7. 6 * sub >= stack + bss
  BY <1>1, <1>6
<1>8. QED
  BY <1>3, <1>5, <1>7

\* The first multiple of size from pos on.
LEMMA AlignedIs ==
  ASSUME NEW pos \in Nat, NEW size \in Nat \ {0}
  PROVE  Aligned(pos, size) \in Nat /\ Aligned(pos, size) >= pos /\ Aligned(pos, size) % size = 0
<1> DEFINE q == pos \div size
           r == pos % size
<1>1. r \in 0 .. size - 1 /\ q \in Int /\ pos = q * size + r
  OBVIOUS
<1>2. CASE r = 0
  BY <1>1, <1>2 DEF Aligned
<1>3. CASE r # 0
  <2>1. Aligned(pos, size) = (pos - r) + size
    BY <1>3 DEF Aligned
  <2> HIDE DEF q, r
  <2>2. (pos - r) + size = (q + 1) * size /\ q + 1 \in Int
    BY <1>1
  <2>3. ((q + 1) * size) % size = 0
    BY <2>2, DivProduct
  <2>4. (pos - r) + size \in Nat /\ (pos - r) + size >= pos
    BY <1>1
  <2>5. QED
    BY <2>1, <2>2, <2>3, <2>4
<1>4. QED
  BY <1>2, <1>3

\* A guard of at least 32 bytes lies between what was asked for the sections of a
\* secure box and what was asked for its stack.
Split(r, bss, stack) ==
  \E k \in 1 .. 6 : /\ r.off = {k}
                    /\ r.start + bss <= Sub(r, k)
                    /\ Sub(r, k) + 32 <= Sub(r, k + 1) /\ Sub(r, k) \in Nat /\ Sub(r, k + 1) \in Nat
                    /\ r.size - (k + 1) * (r.size \div 8) >= stack

\* The region of a secure box.  The sanity checks of vmpu_acl_sram pass.
LEMMA SramIs ==
  ASSUME NEW pos \in Nat, NEW bss \in Nat, NEW stack_size \in Nat, MIN_STACK_SIZE \in Nat,
         ((UVISOR_MIN_STACK(stack_size) + bss) * 8) \div 6 <= 2 ^ 29,
         NEW r, r = vmpu_acl_sram(pos, bss, stack_size)
  PROVE  /\ r.fits
         /\ r.size = vmpu_acl_sram_region_size(bss, UVISOR_MIN_STACK(stack_size))
         /\ r.size \in Nat \ {0} /\ r.start = Aligned(pos, r.size)
         /\ r.start \in Nat /\ r.start >= pos /\ r.start % r.size = 0
         /\ bss > 0 => Split(r, bss, stack_size)
<1> DEFINE stack  == UVISOR_MIN_STACK(stack_size)
           size   == vmpu_acl_sram_region_size(bss, stack)
<1>1. stack \in Nat /\ stack >= stack_size
  BY DEF UVISOR_MIN_STACK
<1>2. PICK sub \in Nat \ {0} : size = 8 * sub /\ 6 * sub >= stack + bss /\ sub >= 32
  BY <1>1, RegionSize
<1> DEFINE nbss   == (bss + sub - 1) \div sub
           nstack == IF nbss > 0 THEN 8 - nbss - 1 ELSE 8
           fits   == nbss * sub >= bss /\ nstack * sub >= stack
<1> HIDE DEF stack, size
<1>3. size \in Nat \ {0} /\ size \div 8 = sub
  BY <1>2
<1>4. r = [start |-> Aligned(pos, size), size |-> size, off |-> IF nbss > 0 THEN {nbss} ELSE {},
           fits |-> fits]
  BY <1>3 DEF vmpu_acl_sram, stack, size
<1> HIDE DEF fits
<1>5. r.start \in Nat /\ r.start >= pos /\ r.start % r.size = 0
  BY <1>3, <1>4, AlignedIs
<1>6. nbss \in Int /\ nbss * sub <= bss + sub - 1 /\ bss + sub - 1 < nbss * sub + sub
  <2>1. bss + sub - 1 \in Int
    OBVIOUS
  <2>2. QED
    BY <2>1, Division
<1> HIDE DEF nbss
<1>7. nbss * sub \in Int /\ nbss * sub >= bss
  BY <1>6
<1>8. nbss >= 0 /\ (bss > 0 => nbss > 0) /\ (bss = 0 => nbss = 0)
  <2>1. nbss < 0 => nbss * sub < 0
    BY <1>6
  <2>2. nbss = 0 => nbss * sub = 0
    OBVIOUS
  <2>3. nbss >= 1 => nbss * sub >= sub
    BY <1>6
  <2>4. QED
    BY <1>6, <1>7, <2>1, <2>2, <2>3
<1>9. nbss <= 6 /\ (7 - nbss) * sub >= stack
  <2>1. nbss >= 7 => nbss * sub >= 7 * sub
    BY <1>6
  <2>2. (7 - nbss) * sub = 7 * sub - nbss * sub
    BY <1>6
  <2>3. QED
    BY <1>1, <1>2, <1>6, <1>7, <2>1, <2>2
<1>10. nbss * sub >= bss /\ nstack * sub >= stack
  <2>1. CASE nbss > 0
    BY <1>6, <1>7, <1>9, <2>1
  <2>2. CASE nbss = 0
    BY <1>1, <1>2, <1>7, <2>2
  <2>3. QED
    BY <1>6, <1>8, <2>1, <2>2
<1>11. r.fits
  <2>1. r.fits = fits
    BY <1>4
  <2>2. fits
    BY <1>10 DEF fits
  <2>3. QED
    BY <2>1, <2>2, Zenon
<1>12. ASSUME bss > 0 PROVE Split(r, bss, stack_size)
  <2>1. nbss \in 1 .. 6 /\ r.off = {nbss}
    BY <1>4, <1>6, <1>8, <1>9, <1>12
  <2>2. Sub(r, nbss) = r.start + nbss * sub /\ Sub(r, nbss + 1) = r.start + (nbss + 1) * sub
    BY <1>3, <1>4 DEF Sub
  <2>3. (nbss + 1) * sub = nbss * sub + sub
    BY <1>6
  <2>4. r.start + bss <= Sub(r, nbss) /\ Sub(r, nbss) \in Nat
    BY <1>5, <1>7, <2>2
  <2>5. Sub(r, nbss) + 32 <= Sub(r, nbss + 1) /\ Sub(r, nbss + 1) \in Nat
    BY <1>2, <1>5, <1>7, <2>2, <2>3, <2>4
  <2>6. r.size - (nbss + 1) * (r.size \div 8) = 8 * sub - (nbss + 1) * sub
    BY <1>2, <1>3, <1>4
  <2>7. 8 * sub - (nbss + 1) * sub = (7 - nbss) * sub
    BY <1>6
  <2>8. (7 - nbss) * sub >= stack_size
    BY <1>1, <1>6, <1>9
  <2>9. QED
    BY <2>1, <2>4, <2>5, <2>6, <2>7, <2>8 DEF Split
<1>13. r.size = size /\ r.start = Aligned(pos, r.size)
  BY <1>4
<1>14. QED
  BY <1>3, <1>5, <1>11, <1>12, <1>13, Zenon DEF size, stack

\* Rounding takes at most three bytes.
LEMMA RoundedUp ==
  ASSUME NEW n \in Nat
  PROVE  Round4(n) \in n .. n + 3 /\ (n % 4 = 0 => Round4(n) = n)
BY DEF Round4

\* The two sizes that are rounded before the last section starts add at most six
\* bytes to the sum for which vmpu_acl_sram has left room: less than the guard.
LEMMA SectionsSplit ==
  ASSUME NEW r, NEW c, r.start \in Nat, \A i \in Sections : c.bss[i] \in Nat,
         Split(r, SumBss(c), c.stack)
  PROVE  Guarded(r, c)
<1> DEFINE b1 == c.bss[1]
           b2 == c.bss[2]
           b3 == c.bss[3]
           at == SectionAt(c)
<1>1. b1 \in Nat /\ b2 \in Nat /\ b3 \in Nat /\ SumBss(c) = b1 + b2 + b3
  BY DEF Sections, SumBss
<1>2. at[1] = 0 /\ at[2] = Round4(b1) /\ at[3] = Round4(b1) + Round4(b2)
  BY DEF SectionAt
<1> HIDE DEF b1, b2, b3, at
<1>3. /\ Round4(b1) \in b1 .. b1 + 3 /\ (b1 % 4 = 0 => Round4(b1) = b1)
      /\ Round4(b2) \in b2 .. b2 + 3 /\ (b2 % 4 = 0 => Round4(b2) = b2)
  BY <1>1, RoundedUp
<1>4. PICK k \in 1 .. 6 : /\ r.off = {k}
                          /\ r.start + SumBss(c) <= Sub(r, k)
                          /\ Sub(r, k) + 32 <= Sub(r, k + 1) /\ Sub(r, k) \in Nat /\ Sub(r, k + 1) \in Nat
                          /\ r.size - (k + 1) * (r.size \div 8) >= c.stack
  BY DEF Split
<1>5. ASSUME NEW a \in Nat, NEW slack \in 0 .. 6, r.start + SumBss(c) + slack <= a,
             Round4(b1) + Round4(b2) <= b1 + b2 + slack, Round4(b1) <= b1 + slack
      PROVE  SectionsEndBy(r, c, a)
  <2> SUFFICES ASSUME NEW i \in Sections PROVE r.start + SectionAt(c)[i] + c.bss[i] <= a
    BY DEF SectionsEndBy
  <2>1. r.start + at[1] + b1 <= a /\ r.start + at[2] + b2 <= a /\ r.start + at[3] + b3 <= a
    BY <1>1, <1>2, <1>3, <1>5
  <2>2. i = 1 \/ i = 2 \/ i = 3
    BY DEF Sections
  <2>3. QED
    BY <2>1, <2>2 DEF at, b1, b2, b3
<1>6. SectionsEndBy(r, c, Sub(r, k + 1))
  <2>1. r.start + SumBss(c) + 6 <= Sub(r, k + 1)
    BY <1>1, <1>4
  <2>2. Round4(b1) + Round4(b2) <= b1 + b2 + 6 /\ Round4(b1) <= b1 + 6 /\ 6 \in 0 .. 6
    BY <1>1, <1>3
  <2>3. QED
    BY <1>4, <1>5, <2>1, <2>2
<1>7. ASSUME b1 % 4 = 0, b2 % 4 = 0
      PROVE  SectionsEndBy(r, c, Sub(r, k))
  <2>1. r.start + SumBss(c) + 0 <= Sub(r, k)
    BY <1>1, <1>4
  <2>2. Round4(b1) + Round4(b2) <= b1 + b2 + 0 /\ Round4(b1) <= b1 + 0 /\ 0 \in 0 .. 6
    BY <1>1, <1>3, <1>7
  <2>3. QED
    BY <1>4, <1>5, <2>1, <2>2
<1>8. QED
  BY <1>4, <1>6, <1>7 DEF Guarded, b1, b2

\* Induction over the members of a set, upwards and downwards.
LEMMA Upward ==
  ASSUME NEW n \in Nat, NEW S, 0 \in S, \A k \in 0 .. n - 1 : k \in S => k + 1 \in S
  PROVE  \A k \in 0 .. n : k \in S
<1> DEFINE D == {k \in 0 .. n : k \notin S}
<1>1. SUFFICES ASSUME D # {} PROVE FALSE
  OBVIOUS
<1>2. D \subseteq Nat
  OBVIOUS
<1>3. PICK k \in D : \A j \in D : k <= j
  BY <1>1, <1>2, LeastElement
<1>4. k \in 0 .. n /\ k \notin S /\ k # 0
  BY <1>3
<1>5. k - 1 \in 0 .. n - 1 /\ ~(k <= k - 1) /\ (k - 1) + 1 = k
  BY <1>4
<1>6. k - 1 \in S
  BY <1>3, <1>5
<1>7. QED
  BY <1>4, <1>5, <1>6

LEMMA Downward ==
  ASSUME NEW n \in Nat \ {0}, NEW S, n \in S, \A k \in 1 .. n - 1 : k + 1 \in S => k \in S
  PROVE  \A k \in 1 .. n : k \in S
<1> DEFINE D == {d \in 0 .. n - 1 : n - d \in S}
<1>1. 0 \in D
  OBVIOUS
<1>2. \A d \in 0 .. (n - 1) - 1 : d \in D => d + 1 \in D
  <2> SUFFICES ASSUME NEW d \in 0 .. (n - 1) - 1, d \in D PROVE d + 1 \in D
    OBVIOUS
  <2>1. n - (d + 1) \in 1 .. n - 1 /\ (n - (d + 1)) + 1 = n - d
    OBVIOUS
  <2>2. n - (d + 1) \in S
    BY <2>1
  <2>3. QED
    BY <2>2
<1>3. n - 1 \in Nat
  OBVIOUS
<1> HIDE DEF D
<1>4. \A d \in 0 .. n - 1 : d \in D
  BY <1>1, <1>2, <1>3, Upward
<1>5. QED
  <2> SUFFICES ASSUME NEW k \in 1 .. n PROVE k \in S
    OBVIOUS
  <2>1. n - k \in 0 .. n - 1 /\ n - (n - k) = k
    OBVIOUS
  <2>2. n - k \in D
    BY <1>4, <2>1
  <2>3. QED
    BY <2>1, <2>2 DEF D

----------------------------------------------------------------------------
\* Where the boxes end.

SizeAt(sizes, ord, k) == vmpu_acl_sram_region_size(sizes[ord[k]].bss, sizes[ord[k]].stack)
EndAt(sizes, ord, start, e, k) ==
  IF k = 0 THEN start ELSE Aligned(e[k - 1], SizeAt(sizes, ord, k)) + SizeAt(sizes, ord, k)
IsEnds(sizes, ord, start, n, e) == e = [k \in 0 .. n |-> EndAt(sizes, ord, start, e, k)]

LEMMA SramEndsExist ==
  ASSUME NEW sizes, NEW ord, NEW start, NEW n \in Nat
  PROVE  \E e : IsEnds(sizes, ord, start, n, e)
<1> DEFINE S == {m \in 0 .. n : \E e : e = [k \in 0 .. m |-> EndAt(sizes, ord, start, e, k)]}
<1>1. 0 \in S
  <2> DEFINE e == [k \in 0 .. 0 |-> start]
  <2>1. \A k \in 0 .. 0 : EndAt(sizes, ord, start, e, k) = start
    BY DEF EndAt
  <2>2. e = [k \in 0 .. 0 |-> EndAt(sizes, ord, start, e, k)]
    BY <2>1
  <2>3. QED
    BY <2>2
<1>2. \A m \in 0 .. n - 1 : m \in S => m + 1 \in S
  <2> SUFFICES ASSUME NEW m \in 0 .. n - 1, m \in S PROVE m + 1 \in S
    OBVIOUS
  <2>1. PICK e : e = [k \in 0 .. m |-> EndAt(sizes, ord, start, e, k)]
    OBVIOUS
  <2> DEFINE g == [k \in 0 .. m + 1 |-> IF k = m + 1 THEN EndAt(sizes, ord, start, e, k) ELSE e[k]]
  <2>2. \A k \in 0 .. m + 1 : g[k] = EndAt(sizes, ord, start, g, k)
    <3> SUFFICES ASSUME NEW k \in 0 .. m + 1 PROVE g[k] = EndAt(sizes, ord, start, g, k)
      OBVIOUS
    <3>1. g[k] = EndAt(sizes, ord, start, e, k)
      <4>1. CASE k = m + 1
        BY <4>1
      <4>2. CASE k # m + 1
        <5>1. k \in 0 .. m
          BY <4>2
        <5>2. e[k] = EndAt(sizes, ord, start, e, k)
          BY <2>1, <5>1
        <5>3. QED
          BY <4>2, <5>2
      <4>3. QED
        BY <4>1, <4>2
    <3>2. k # 0 => k - 1 \in 0 .. m /\ g[k - 1] = e[k - 1]
      OBVIOUS
    <3>3. QED
      BY <3>1, <3>2 DEF EndAt
  <2> HIDE DEF g
  <2>3. g = [k \in 0 .. m + 1 |-> g[k]]
    BY DEF g
  <2>4. g = [k \in 0 .. m + 1 |-> EndAt(sizes, ord, start, g, k)]
    BY <2>2, <2>3
  <2>5. QED
    BY <2>4
<1> HIDE DEF S
<1>3. n \in S
  BY <1>1, <1>2, Upward
<1>4. QED
  BY <1>3 DEF S, IsEnds

LEMMA SramEndsIs ==
  ASSUME NEW sizes, NEW ord, NEW start, NEW n \in Nat, Len(ord) = n,
         NEW e, e = SramEnds(sizes, ord, start)
  PROVE  \A k \in 0 .. n : e[k] = EndAt(sizes, ord, start, e, k)
<1>1. e = CHOOSE f : IsEnds(sizes, ord, start, n, f)
  BY DEF SramEnds, IsEnds, EndAt, SizeAt
<1>2. IsEnds(sizes, ord, start, n, e)
  BY <1>1, SramEndsExist, Zenon
<1>3. QED
  BY <1>2 DEF IsEnds

\* The boxes follow each other upwards.
LEMMA SramEndsUp ==
  ASSUME NEW sizes, NEW ord, NEW start \in Nat, NEW n \in Nat, Len(ord) = n,
         \A k \in 1 .. n : SizeAt(sizes, ord, k) \in Nat \ {0},
         NEW e, e = SramEnds(sizes, ord, start)
  PROVE  /\ e[0] = start
         /\ \A k \in 0 .. n : e[k] \in Nat
         /\ \A k \in 1 .. n : /\ e[k] = Aligned(e[k - 1], SizeAt(sizes, ord, k)) + SizeAt(sizes, ord, k)
                              /\ e[k - 1] < e[k]
<1>1. \A k \in 0 .. n : e[k] = EndAt(sizes, ord, start, e, k)
  BY SramEndsIs
<1>2. e[0] = start
  BY <1>1 DEF EndAt
<1>3. ASSUME NEW k \in 1 .. n
      PROVE  e[k] = Aligned(e[k - 1], SizeAt(sizes, ord, k)) + SizeAt(sizes, ord, k)
  BY <1>1 DEF EndAt
<1>4. ASSUME NEW k \in 1 .. n, e[k - 1] \in Nat
      PROVE  e[k] \in Nat /\ e[k - 1] < e[k]
  <2>1. /\ Aligned(e[k - 1], SizeAt(sizes, ord, k)) \in Nat
        /\ Aligned(e[k - 1], SizeAt(sizes, ord, k)) >= e[k - 1]
    BY <1>4, AlignedIs
  <2>2. e[k] = Aligned(e[k - 1], SizeAt(sizes, ord, k)) + SizeAt(sizes, ord, k)
    BY <1>3
  <2>3. SizeAt(sizes, ord, k) \in Nat \ {0}
    OBVIOUS
  <2>4. QED
    BY <1>4, <2>1, <2>2, <2>3
<1> DEFINE S == {k \in 0 .. n : e[k] \in Nat}
<1>5. 0 \in S
  BY <1>2
<1>6. \A k \in 0 .. n - 1 : k \in S => k + 1 \in S
  <2> SUFFICES ASSUME NEW k \in 0 .. n - 1, k \in S PROVE k + 1 \in S
    OBVIOUS
  <2>1. k + 1 \in 1 .. n /\ (k + 1) - 1 = k /\ e[(k + 1) - 1] \in Nat
    OBVIOUS
  <2>2. e[k + 1] \in Nat
    BY <1>4, <2>1
  <2>3. QED
    BY <2>1, <2>2
<1> HIDE DEF S
<1>7. \A k \in 0 .. n : k \in S
  BY <1>5, <1>6, Upward
<1>8. \A k \in 0 .. n : e[k] \in Nat
  BY <1>7 DEF S
<1>9. ASSUME NEW k \in 1 .. n
      PROVE  e[k - 1] < e[k]
  <2>1. k - 1 \in 0 .. n
    OBVIOUS
  <2>2. QED
    BY <1>4, <1>8, <2>1
<1>10. QED
  BY <1>2, <1>3, <1>8, <1>9

\* So the end of all is above the end of each.
LEMMA SramEndsBelow ==
  ASSUME NEW n \in Nat, NEW e, \A k \in 0 .. n : e[k] \in Nat, \A k \in 1 .. n : e[k - 1] < e[k]
  PROVE  \A j, k \in 0 .. n : j <= k => e[j] <= e[k]
<1> SUFFICES ASSUME NEW j \in 0 .. n PROVE \A k \in 0 .. n : j <= k => e[j] <= e[k]
  OBVIOUS
<1> DEFINE S == {k \in 0 .. n : j <= k => e[j] <= e[k]}
<1>1. 0 \in S
  OBVIOUS
<1>2. \A k \in 0 .. n - 1 : k \in S => k + 1 \in S
  <2> SUFFICES ASSUME NEW k \in 0 .. n - 1, k \in S PROVE k + 1 \in S
    OBVIOUS
  <2>1. k + 1 \in 1 .. n /\ (k + 1) - 1 = k /\ k \in 0 .. n /\ k + 1 \in 0 .. n
    OBVIOUS
  <2>2. e[k] < e[k + 1] /\ e[k] \in Nat /\ e[k + 1] \in Nat /\ e[j] \in Nat
    BY <2>1
  <2>3. CASE j <= k
    BY <2>1, <2>2, <2>3
  <2>4. CASE j = k + 1
    BY <2>1, <2>2, <2>4
  <2>5. CASE j > k + 1
    BY <2>1, <2>5
  <2>6. QED
    BY <2>3, <2>4, <2>5
<1> HIDE DEF S
<1>3. \A k \in 0 .. n : k \in S
  BY <1>1, <1>2, Upward
<1>4. QED
  BY <1>3 DEF S

----------------------------------------------------------------------------
\* The orders that vmpu_order_boxes tries.

Among(s, x) == \E j \in 1 .. Len(s) : s[j] = x

FlatAt(ss, f, i) == IF i = 1 THEN ss[i] ELSE f[i - 1] \o ss[i]
IsFlat(ss, n, f) == f = [i \in 1 .. n |-> FlatAt(ss, f, i)]

LEMMA FlatExists ==
  ASSUME NEW ss, NEW n \in Nat \ {0}
  PROVE  \E f : IsFlat(ss, n, f)
<1> DEFINE S == {m \in 0 .. n - 1 : \E f : IsFlat(ss, m + 1, f)}
<1>1. 0 \in S
  <2> DEFINE f == [i \in 1 .. 1 |-> ss[i]]
  <2>1. \A i \in 1 .. 1 : FlatAt(ss, f, i) = ss[i]
    BY DEF FlatAt
  <2>2. f = [i \in 1 .. 1 |-> FlatAt(ss, f, i)]
    BY <2>1
  <2> HIDE DEF f
  <2>3. IsFlat(ss, 0 + 1, f)
    BY <2>2 DEF IsFlat
  <2>4. QED
    BY <2>3
<1>2. \A m \in 0 .. (n - 1) - 1 : m \in S => m + 1 \in S
  <2> SUFFICES ASSUME NEW m \in 0 .. (n - 1) - 1, m \in S PROVE m + 1 \in S
    OBVIOUS
  <2> DEFINE k == m + 2
  <2>1. PICK f : f = [i \in 1 .. k - 1 |-> FlatAt(ss, f, i)]
    <3>1. k - 1 = m + 1
      OBVIOUS
    <3>2. QED
      BY <3>1 DEF IsFlat
  <2>2. k \in Nat /\ k >= 2
    OBVIOUS
  <2> HIDE DEF k
  <2> DEFINE g == [i \in 1 .. k |-> IF i = k THEN FlatAt(ss, f, i) ELSE f[i]]
  <2>3. \A i \in 1 .. k : g[i] = FlatAt(ss, g, i)
    <3> SUFFICES ASSUME NEW i \in 1 .. k PROVE g[i] = FlatAt(ss, g, i)
      OBVIOUS
    <3>1. g[i] = FlatAt(ss, f, i)
      <4>1. CASE i = k
        BY <4>1
      <4>2. CASE i # k
        <5>1. i \in 1 .. k - 1
          BY <2>2, <4>2
        <5>2. f[i] = FlatAt(ss, f, i)
          BY <2>1, <5>1
        <5>3. QED
          BY <4>2, <5>2
      <4>3. QED
        BY <4>1, <4>2
    <3>2. i # 1 => i - 1 \in 1 .. k - 1 /\ g[i - 1] = f[i - 1]
      BY <2>2
    <3> HIDE DEF g
    <3>3. QED
      BY <3>1, <3>2 DEF FlatAt
  <2> HIDE DEF g
  <2>4. g = [i \in 1 .. k |-> g[i]]
    BY DEF g
  <2>5. g = [i \in 1 .. k |-> FlatAt(ss, g, i)]
    BY <2>3, <2>4
  <2>6. IsFlat(ss, (m + 1) + 1, g)
    <3>1. (m + 1) + 1 = k
      BY DEF k
    <3>2. QED
      BY <2>5, <3>1 DEF IsFlat
  <2>7. m + 1 \in 0 .. n - 1
    OBVIOUS
  <2>8. QED
    BY <2>6, <2>7
<1>3. n - 1 \in Nat /\ (n - 1) + 1 = n
  OBVIOUS
<1> HIDE DEF S
<1>4. n - 1 \in S
  BY <1>1, <1>2, <1>3, Upward
<1>5. QED
  BY <1>3, <1>4 DEF S

\* What is in two sequences put together.
LEMMA AmongBoth ==
  ASSUME NEW T, NEW a \in Seq(T), NEW b \in Seq(T)
  PROVE  a \o b \in Seq(T) /\ \A x : Among(a \o b, x) <=> Among(a, x) \/ Among(b, x)
<1>1. a \o b \in Seq(T) /\ Len(a \o b) = Len(a) + Len(b) /\ Len(a) \in Nat /\ Len(b) \in Nat
  OBVIOUS
<1>2. \A j \in 1 .. Len(a) : (a \o b)[j] = a[j]
  OBVIOUS
<1>3. \A j \in 1 .. Len(b) : (a \o b)[Len(a) + j] = b[j]
  OBVIOUS
<1> SUFFICES ASSUME NEW x PROVE Among(a \o b, x) <=> Among(a, x) \/ Among(b, x)
  BY <1>1
<1> DEFINE c == a \o b
<1> HIDE DEF c
<1>4. ASSUME Among(c, x)
      PROVE  Among(a, x) \/ Among(b, x)
  <2>1. PICK j \in 1 .. Len(c) : c[j] = x
    BY <1>4 DEF Among
  <2>2. CASE j <= Len(a)
    <3>1. j \in 1 .. Len(a) /\ a[j] = x
      BY <1>1, <1>2, <2>1, <2>2 DEF c
    <3>2. QED
      BY <3>1 DEF Among
  <2>3. CASE j > Len(a)
    <3>1. j - Len(a) \in 1 .. Len(b) /\ Len(a) + (j - Len(a)) = j
      BY <1>1, <2>1, <2>3 DEF c
    <3>2. b[j - Len(a)] = x
      BY <1>3, <2>1, <3>1 DEF c
    <3>3. QED
      BY <3>1, <3>2 DEF Among
  <2>4. QED
    BY <1>1, <2>2, <2>3
<1>5. ASSUME Among(a, x)
      PROVE  Among(c, x)
  <2>1. PICK j \in 1 .. Len(a) : a[j] = x
    BY <1>5 DEF Among
  <2>2. j \in 1 .. Len(c) /\ c[j] = x
    BY <1>1, <1>2, <2>1 DEF c
  <2>3. QED
    BY <2>2 DEF Among
<1>6. ASSUME Among(b, x)
      PROVE  Among(c, x)
  <2>1. PICK j \in 1 .. Len(b) : b[j] = x
    BY <1>6 DEF Among
  <2>2. Len(a) + j \in 1 .. Len(c)
    BY <1>1, <2>1 DEF c
  <2>3. c[Len(a) + j] = x
    BY <1>3, <2>1 DEF c
  <2>4. QED
    BY <2>2, <2>3 DEF Among
<1>7. QED
  BY <1>4, <1>5, <1>6 DEF c

LEMMA Flattened ==
  ASSUME NEW T, NEW n \in Nat \ {0}, NEW ss, ss = [i \in 1 .. n |-> ss[i]],
         \A i \in 1 .. n : ss[i] \in Seq(T)
  PROVE  /\ Sq!FlattenSeq(ss) \in Seq(T)
         /\ \A x : Among(Sq!FlattenSeq(ss), x) <=> \E i \in 1 .. n : Among(ss[i], x)
<1>1. Len(ss) = n
  BY FunctionIn
<1>2. PICK f : IsFlat(ss, n, f) /\ Sq!FlattenSeq(ss) = f[n]
  <2> DEFINE f == CHOOSE g : IsFlat(ss, n, g)
  <2>1. IsFlat(ss, n, f)
    BY FlatExists, Zenon
  <2>2. Sq!FlattenSeq(ss) = f[n]
    BY <1>1 DEF Sq!FlattenSeq, IsFlat, FlatAt
  <2>3. QED
    BY <2>1, <2>2
<1>3. f[1] = ss[1] /\ \A i \in 2 .. n : f[i] = f[i - 1] \o ss[i]
  <2>1. \A i \in 1 .. n : f[i] = FlatAt(ss, f, i)
    BY <1>2 DEF IsFlat
  <2>2. 1 \in 1 .. n /\ \A i \in 2 .. n : i \in 1 .. n /\ i # 1
    OBVIOUS
  <2>3. QED
    BY <2>1, <2>2, Zenon DEF FlatAt
<1> DEFINE S == {m \in 0 .. n - 1 : /\ f[m + 1] \in Seq(T)
                                    /\ \A x : Among(f[m + 1], x) <=> \E i \in 1 .. m + 1 : Among(ss[i], x)}
<1>4. 0 \in S
  <2>1. f[0 + 1] = ss[1] /\ ss[1] \in Seq(T)
    BY <1>3
  <2>2. 1 .. 0 + 1 = {1}
    OBVIOUS
  <2>3. QED
    BY <2>1, <2>2
<1>5. \A m \in 0 .. (n - 1) - 1 : m \in S => m + 1 \in S
  <2> SUFFICES ASSUME NEW m \in 0 .. (n - 1) - 1, m \in S PROVE m + 1 \in S
    OBVIOUS
  <2> DEFINE k == (m + 1) + 1
  <2>1. k \in 2 .. n /\ k - 1 = m + 1 /\ m + 1 \in 0 .. n - 1 /\ k \in 1 .. n
    OBVIOUS
  <2>2. f[k] = f[m + 1] \o ss[k]
    BY <1>3, <2>1
  <2>3. /\ f[m + 1] \in Seq(T) /\ ss[k] \in Seq(T)
        /\ \A x : Among(f[m + 1], x) <=> \E i \in 1 .. m + 1 : Among(ss[i], x)
    BY <2>1
  <2>4. f[k] \in Seq(T) /\ \A x : Among(f[k], x) <=> Among(f[m + 1], x) \/ Among(ss[k], x)
    BY <2>2, <2>3, AmongBoth
  <2>5. \A i : i \in 1 .. k <=> i \in 1 .. m + 1 \/ i = k
    OBVIOUS
  <2> HIDE DEF k
  <2>6. \A x : Among(f[k], x) <=> \E i \in 1 .. k : Among(ss[i], x)
    BY <2>3, <2>4, <2>5, Zenon
  <2>7. QED
    BY <2>1, <2>4, <2>6 DEF k
<1>6. n - 1 \in Nat /\ (n - 1) + 1 = n /\ n - 1 \in 0 .. n - 1
  OBVIOUS
<1> HIDE DEF S
<1>7. n - 1 \in S
  BY <1>4, <1>5, <1>6, Upward
<1>8. f[n] \in Seq(T) /\ \A x : Among(f[n], x) <=> \E i \in 1 .. n : Among(ss[i], x)
  BY <1>6, <1>7 DEF S
<1>9. QED
  BY <1>2, <1>8

\* The permutations of 1 .. n, and those that leave what is below k in place.
Perms(n)     == {p \in [1 .. n -> 1 .. n] : \A i, j \in 1 .. n : p[i] = p[j] => i = j}
Fixing(n, k) == {p \in Perms(n) : \A o \in 1 .. k - 1 : p[o] = o}
Identity(n)  == [o \in 1 .. n |-> o]
After(n, s, p) == [o \in 1 .. n |-> s[p[o]]]

LEMMA SwapIs ==
  ASSUME NEW n \in Nat, NEW k \in 1 .. n, NEW m \in 1 .. n,
         NEW s, s = swap_boxes(Identity(n), k, m)
  PROVE  /\ s \in Perms(n) /\ s[k] = m /\ s[m] = k
         /\ \A i \in 1 .. n : i # k /\ i # m => s[i] = i
         /\ \A i \in 1 .. n : s[s[i]] = i
<1>1. s = [i \in 1 .. n |-> IF i = m THEN k ELSE IF i = k THEN m ELSE i]
  BY DEF swap_boxes, Identity
<1>2. s \in [1 .. n -> 1 .. n] /\ s[k] = m /\ s[m] = k /\ \A i \in 1 .. n : i # k /\ i # m => s[i] = i
  BY <1>1
<1>3. \A i \in 1 .. n : s[s[i]] = i
  BY <1>2
<1>4. \A i, j \in 1 .. n : s[i] = s[j] => i = j
  BY <1>3
<1>5. QED
  BY <1>2, <1>3, <1>4 DEF Perms

LEMMA PermsClosed ==
  ASSUME NEW n \in Nat, NEW s \in Perms(n), NEW p \in Perms(n)
  PROVE  After(n, s, p) \in Perms(n)
<1>1. s \in [1 .. n -> 1 .. n] /\ p \in [1 .. n -> 1 .. n]
  BY DEF Perms
<1>2. After(n, s, p) \in [1 .. n -> 1 .. n] /\ \A o \in 1 .. n : After(n, s, p)[o] = s[p[o]] /\ p[o] \in 1 .. n
  BY <1>1 DEF After
<1>3. \A i, j \in 1 .. n : After(n, s, p)[i] = After(n, s, p)[j] => i = j
  BY <1>2 DEF Perms
<1>4. QED
  BY <1>2, <1>3 DEF Perms

VisitStep(n, w, k) ==
  Sq!FlattenSeq([i \in 1 .. n - k + 1 |->
    [j \in DOMAIN w |-> After(n, swap_boxes(Identity(n), k, k + i - 1), w[j])]])
VisitAt(n, v, k) == IF k >= n THEN <<Identity(n)>> ELSE VisitStep(n, v[k + 1], k)
IsVisit(n, m, v) == v = [k \in m .. n + 1 |-> VisitAt(n, v, k)]

LEMMA VisitExists ==
  ASSUME NEW n \in Nat
  PROVE  \E v : IsVisit(n, 1, v)
<1> DEFINE S == {m \in 1 .. n + 1 : \E v : IsVisit(n, m, v)}
<1>1. n + 1 \in S
  <2> DEFINE v == [k \in n + 1 .. n + 1 |-> <<Identity(n)>>]
  <2>1. \A k \in n + 1 .. n + 1 : k >= n
    OBVIOUS
  <2>2. \A k \in n + 1 .. n + 1 : VisitAt(n, v, k) = <<Identity(n)>>
    BY <2>1, Zenon DEF VisitAt
  <2>3. v = [k \in n + 1 .. n + 1 |-> VisitAt(n, v, k)]
    BY <2>2
  <2> HIDE DEF v
  <2>4. IsVisit(n, n + 1, v)
    BY <2>3 DEF IsVisit
  <2>5. n + 1 \in 1 .. n + 1
    OBVIOUS
  <2>6. QED
    BY <2>4, <2>5
<1>2. \A m \in 1 .. (n + 1) - 1 : m + 1 \in S => m \in S
  <2> SUFFICES ASSUME NEW m \in 1 .. (n + 1) - 1, m + 1 \in S PROVE m \in S
    OBVIOUS
  <2>1. PICK v : v = [k \in m + 1 .. n + 1 |-> VisitAt(n, v, k)]
    BY DEF IsVisit
  <2> DEFINE g == [k \in m .. n + 1 |-> IF k = m THEN VisitAt(n, v, k) ELSE v[k]]
  <2>2. \A k \in m .. n + 1 : g[k] = VisitAt(n, g, k)
    <3> SUFFICES ASSUME NEW k \in m .. n + 1 PROVE g[k] = VisitAt(n, g, k)
      OBVIOUS
    <3>1. g[k] = VisitAt(n, v, k)
      <4>1. CASE k = m
        BY <4>1
      <4>2. CASE k # m
        <5>1. k \in m + 1 .. n + 1
          BY <4>2
        <5>2. v[k] = VisitAt(n, v, k)
          BY <2>1, <5>1
        <5>3. QED
          BY <4>2, <5>2
      <4>3. QED
        BY <4>1, <4>2
    <3>2. ~(k >= n) => k + 1 \in m .. n + 1 /\ k + 1 # m
      OBVIOUS
    <3>3. ~(k >= n) => g[k + 1] = v[k + 1]
      BY <3>2
    <3> HIDE DEF g
    <3>4. QED
      BY <3>1, <3>3, Zenon DEF VisitAt
  <2> HIDE DEF g
  <2>3. g = [k \in m .. n + 1 |-> g[k]]
    BY DEF g
  <2>4. g = [k \in m .. n + 1 |-> VisitAt(n, g, k)]
    BY <2>2, <2>3
  <2>5. IsVisit(n, m, g)
    BY <2>4 DEF IsVisit
  <2>6. m \in 1 .. n + 1
    OBVIOUS
  <2>7. QED
    BY <2>5, <2>6
<1>3. n + 1 \in Nat \ {0} /\ 1 \in 1 .. n + 1
  OBVIOUS
<1> HIDE DEF S
<1>4. 1 \in S
  BY <1>1, <1>2, <1>3, Downward
<1>5. QED
  BY <1>4 DEF S

LEMMA VisitedIs ==
  ASSUME NEW n \in Nat
  PROVE  \E v : /\ Visited(n) = v[1]
                /\ \A k \in 1 .. n + 1 : v[k] = VisitAt(n, v, k)
<1> DEFINE v == CHOOSE w : IsVisit(n, 1, w)
<1>1. IsVisit(n, 1, v)
  BY VisitExists, Zenon
<1>2. Visited(n) = v[1]
  BY DEF Visited, IsVisit, VisitAt, VisitStep, After, Identity
<1> HIDE DEF v
<1>3. \A k \in 1 .. n + 1 : v[k] = VisitAt(n, v, k)
  BY <1>1 DEF IsVisit
<1>4. QED
  BY <1>2, <1>3

LEMMA IdentityFixes ==
  ASSUME NEW n \in Nat \ {0}
  PROVE  Identity(n) \in Perms(n) /\ \A k \in 1 .. n : Identity(n) \in Fixing(n, k)
<1>1. Identity(n) \in Perms(n)
  BY DEF Identity, Perms
<1>2. QED
  BY <1>1 DEF Fixing, Identity

\* Nothing else leaves all but the last in place.
LEMMA LastFixed ==
  ASSUME NEW n \in Nat \ {0}, NEW p \in Fixing(n, n)
  PROVE  p = Identity(n)
<1>1. p \in [1 .. n -> 1 .. n] /\ (\A i, j \in 1 .. n : p[i] = p[j] => i = j) /\ \A o \in 1 .. n - 1 : p[o] = o
  BY DEF Fixing, Perms
<1>2. p[n] = n
  <2> SUFFICES ASSUME p[n] # n PROVE FALSE
    OBVIOUS
  <2>1. n \in 1 .. n /\ p[n] \in 1 .. n /\ p[n] \in 1 .. n - 1
    BY <1>1
  <2>2. p[p[n]] = p[n]
    BY <1>1, <2>1
  <2>3. QED
    BY <1>1, <2>1, <2>2
<1>3. \A o \in 1 .. n : p[o] = o
  BY <1>1, <1>2
<1>4. QED
  BY <1>1, <1>3 DEF Identity

\* What a swap of k with a later position makes of the orders that fix k.
Swapped(n, k, x) ==
  \E i \in 1 .. n - k + 1 : \E p \in Fixing(n, k + 1) :
    x = After(n, swap_boxes(Identity(n), k, k + i - 1), p)

LEMMA SwapFixes ==
  ASSUME NEW n \in Nat \ {0}, NEW k \in 1 .. n - 1, NEW x
  PROVE  x \in Fixing(n, k) <=> Swapped(n, k, x)
<1>1. ASSUME NEW i \in 1 .. n - k + 1, NEW p \in Fixing(n, k + 1),
             x = After(n, swap_boxes(Identity(n), k, k + i - 1), p)
      PROVE  x \in Fixing(n, k)
  <2> DEFINE s == swap_boxes(Identity(n), k, k + i - 1)
  <2>1. k \in 1 .. n /\ k + i - 1 \in 1 .. n /\ k + i - 1 >= k
    OBVIOUS
  <2>2. s \in Perms(n) /\ \A o \in 1 .. n : o # k /\ o # k + i - 1 => s[o] = o
    BY <2>1, SwapIs
  <2>3. p \in Perms(n) /\ \A o \in 1 .. (k + 1) - 1 : p[o] = o
    BY DEF Fixing
  <2> HIDE DEF s
  <2>4. x \in Perms(n)
    BY <1>1, <2>2, <2>3, PermsClosed DEF s
  <2>5. ASSUME NEW o \in 1 .. k - 1 PROVE x[o] = o
    <3>1. o \in 1 .. n /\ o # k /\ o # k + i - 1 /\ o \in 1 .. (k + 1) - 1
      BY <2>1
    <3>2. p[o] = o /\ s[o] = o
      BY <2>2, <2>3, <3>1
    <3>3. x[o] = s[p[o]]
      BY <1>1, <3>1 DEF After, s
    <3>4. QED
      BY <3>2, <3>3
  <2>6. QED
    BY <2>4, <2>5 DEF Fixing
<1>2. ASSUME x \in Fixing(n, k)
      PROVE  Swapped(n, k, x)
  <2> DEFINE m == x[k]
             s == swap_boxes(Identity(n), k, m)
             p == After(n, s, x)
  <2>1. /\ x \in [1 .. n -> 1 .. n] /\ (\A i, j \in 1 .. n : x[i] = x[j] => i = j)
        /\ \A o \in 1 .. k - 1 : x[o] = o
    BY <1>2 DEF Fixing, Perms
  <2>2. k \in 1 .. n /\ m \in 1 .. n
    BY <2>1
  <2>3. m >= k
    <3> SUFFICES ASSUME ~(m >= k) PROVE FALSE
      OBVIOUS
    <3>1. m \in 1 .. k - 1
      BY <2>2
    <3>2. x[m] = x[k]
      BY <2>1, <3>1
    <3>3. m = k
      BY <2>1, <2>2, <3>2
    <3>4. QED
      BY <2>2, <3>1, <3>3
  <2> HIDE DEF m
  <2>4. /\ s \in Perms(n) /\ s[k] = m /\ s[m] = k
        /\ \A i \in 1 .. n : i # k /\ i # m => s[i] = i
        /\ \A i \in 1 .. n : s[s[i]] = i
    BY <2>2, SwapIs
  <2> HIDE DEF s
  <2>5. p \in Perms(n)
    BY <1>2, <2>4, PermsClosed DEF Fixing
  <2>6. \A o \in 1 .. n : p[o] = s[x[o]]
    BY DEF After
  <2> HIDE DEF p
  <2>7. \A o \in 1 .. (k + 1) - 1 : p[o] = o
    <3> SUFFICES ASSUME NEW o \in 1 .. (k + 1) - 1 PROVE p[o] = o
      OBVIOUS
    <3>1. CASE o = k
      BY <2>2, <2>4, <2>6, <3>1 DEF m
    <3>2. CASE o # k
      <4>1. o \in 1 .. k - 1 /\ o \in 1 .. n /\ o # m
        BY <2>2, <2>3, <3>2
      <4>2. x[o] = o /\ s[o] = o
        BY <2>1, <2>4, <3>2, <4>1
      <4>3. QED
        BY <2>6, <4>1, <4>2
    <3>3. QED
      BY <3>1, <3>2
  <2>8. p \in Fixing(n, k + 1)
    BY <2>5, <2>7 DEF Fixing
  <2>9. x = After(n, s, p)
    <3>1. \A o \in 1 .. n : x[o] \in 1 .. n /\ s[p[o]] = x[o]
      BY <2>1, <2>4, <2>6
    <3>2. After(n, s, p) = [o \in 1 .. n |-> x[o]]
      BY <3>1 DEF After
    <3>3. QED
      BY <2>1, <3>2
  <2> DEFINE i == m - k + 1
  <2>10. i \in 1 .. n - k + 1 /\ k + i - 1 = m
    BY <2>2, <2>3
  <2> HIDE DEF i
  <2>11. x = After(n, swap_boxes(Identity(n), k, k + i - 1), p)
    BY <2>9, <2>10 DEF s
  <2>12. QED
    BY <2>8, <2>10, <2>11 DEF Swapped
<1>3. QED
  BY <1>1, <1>2 DEF Swapped

LEMMA VisitStepIs ==
  ASSUME NEW n \in Nat \ {0}, NEW k \in 1 .. n - 1, NEW w \in Seq(Perms(n)),
         \A p : Among(w, p) <=> p \in Fixing(n, k + 1)
  PROVE  /\ VisitStep(n, w, k) \in Seq(Perms(n))
         /\ \A x : Among(VisitStep(n, w, k), x) <=> x \in Fixing(n, k)
<1> DEFINE s(i)  == swap_boxes(Identity(n), k, k + i - 1)
           part(i) == [j \in DOMAIN w |-> After(n, s(i), w[j])]
           m     == n - k + 1
           ss    == [i \in 1 .. m |-> part(i)]
<1>1. VisitStep(n, w, k) = Sq!FlattenSeq(ss)
  BY DEF VisitStep
<1>2. m \in Nat \ {0} /\ DOMAIN w = 1 .. Len(w) /\ Len(w) \in Nat
  OBVIOUS
<1>3. ASSUME NEW i \in 1 .. m
      PROVE  /\ ss[i] \in Seq(Perms(n))
             /\ \A x : Among(ss[i], x) <=> \E p \in Fixing(n, k + 1) : x = After(n, s(i), p)
  <2>1. ss[i] = part(i)
    OBVIOUS
  <2>2. k \in 1 .. n /\ k + i - 1 \in 1 .. n
    OBVIOUS
  <2>3. s(i) \in Perms(n)
    BY <2>2, SwapIs
  <2> HIDE DEF s, ss, m
  <2>4. \A j \in 1 .. Len(w) : After(n, s(i), w[j]) \in Perms(n)
    <3> SUFFICES ASSUME NEW j \in 1 .. Len(w) PROVE After(n, s(i), w[j]) \in Perms(n)
      OBVIOUS
    <3>1. w[j] \in Perms(n)
      OBVIOUS
    <3>2. QED
      BY <2>3, <3>1, PermsClosed
  <2>5. /\ part(i) = [j \in 1 .. Len(w) |-> part(i)[j]]
        /\ \A j \in 1 .. Len(w) : part(i)[j] = After(n, s(i), w[j])
    BY <1>2
  <2> HIDE DEF part
  <2>6. part(i) \in Seq(Perms(n)) /\ Len(part(i)) = Len(w)
    BY <1>2, <2>4, <2>5, FunctionIn
  <2>7. ASSUME NEW x
        PROVE  Among(part(i), x) <=> \E p \in Fixing(n, k + 1) : x = After(n, s(i), p)
    <3>1. Among(part(i), x) <=> \E j \in 1 .. Len(w) : After(n, s(i), w[j]) = x
      BY <2>5, <2>6 DEF Among
    <3>2. (\E p \in Fixing(n, k + 1) : x = After(n, s(i), p)) <=> \E p : Among(w, p) /\ x = After(n, s(i), p)
      BY Zenon
    <3>3. (\E p : Among(w, p) /\ x = After(n, s(i), p)) <=> \E j \in 1 .. Len(w) : After(n, s(i), w[j]) = x
      BY Zenon DEF Among
    <3>4. QED
      BY <3>1, <3>2, <3>3
  <2>8. QED
    BY <2>1, <2>6, <2>7
<1>4. ss = [i \in 1 .. m |-> ss[i]]
  OBVIOUS
<1> HIDE DEF ss, m, part
<1>5. /\ Sq!FlattenSeq(ss) \in Seq(Perms(n))
      /\ \A x : Among(Sq!FlattenSeq(ss), x) <=> \E i \in 1 .. m : Among(ss[i], x)
  BY <1>2, <1>3, <1>4, Flattened
<1>6. ASSUME NEW x
      PROVE  (\E i \in 1 .. m : Among(ss[i], x)) <=> x \in Fixing(n, k)
  <2>1. (\E i \in 1 .. m : Among(ss[i], x)) <=>
          \E i \in 1 .. m : \E p \in Fixing(n, k + 1) : x = After(n, s(i), p)
    BY <1>3, Zenon
  <2>2. x \in Fixing(n, k) <=> Swapped(n, k, x)
    BY SwapFixes
  <2>3. Swapped(n, k, x) <=>
          \E i \in 1 .. m : \E p \in Fixing(n, k + 1) : x = After(n, s(i), p)
    BY DEF Swapped, m
  <2>4. QED
    BY <2>1, <2>2, <2>3, Zenon
<1>7. QED
  BY <1>1, <1>5, <1>6, Zenon

\* __vmpu_order_boxes visits every permutation, and nothing else.
LEMMA VisitedAll ==
  ASSUME NEW n \in Nat \ {0}
  PROVE  /\ Visited(n) \in Seq(Perms(n))
         /\ \A x : Among(Visited(n), x) <=> x \in Perms(n)
<1>1. PICK v : Visited(n) = v[1] /\ \A k \in 1 .. n + 1 : v[k] = VisitAt(n, v, k)
  BY VisitedIs
<1> DEFINE S == {k \in 1 .. n : /\ v[k] \in Seq(Perms(n))
                                /\ \A x : Among(v[k], x) <=> x \in Fixing(n, k)}
<1>2. n \in S
  <2>1. n \in 1 .. n /\ n \in 1 .. n + 1 /\ n >= n
    OBVIOUS
  <2>2. v[n] = <<Identity(n)>>
    BY <1>1, <2>1, Zenon DEF VisitAt
  <2>3. v[n] \in Seq(Perms(n)) /\ Len(v[n]) = 1 /\ v[n][1] = Identity(n)
    BY <2>2, IdentityFixes
  <2>4. \A x : Among(v[n], x) <=> x = Identity(n)
    BY <2>3 DEF Among
  <2>5. \A x : x \in Fixing(n, n) <=> x = Identity(n)
    BY <2>1, IdentityFixes, LastFixed
  <2>6. QED
    BY <2>1, <2>3, <2>4, <2>5
<1>3. \A k \in 1 .. n - 1 : k + 1 \in S => k \in S
  <2> SUFFICES ASSUME NEW k \in 1 .. n - 1, k + 1 \in S PROVE k \in S
    OBVIOUS
  <2>1. k \in 1 .. n + 1 /\ k \in 1 .. n /\ ~(k >= n)
    OBVIOUS
  <2>2. v[k] = VisitStep(n, v[k + 1], k)
    BY <1>1, <2>1, Zenon DEF VisitAt
  <2>3. v[k + 1] \in Seq(Perms(n)) /\ \A x : Among(v[k + 1], x) <=> x \in Fixing(n, k + 1)
    OBVIOUS
  <2>4. v[k] \in Seq(Perms(n)) /\ \A x : Among(v[k], x) <=> x \in Fixing(n, k)
    BY <2>2, <2>3, VisitStepIs
  <2>5. QED
    BY <2>1, <2>4
<1>4. 1 \in 1 .. n
  OBVIOUS
<1> HIDE DEF S
<1>5. 1 \in S
  BY <1>2, <1>3, <1>4, Downward
<1>6. v[1] \in Seq(Perms(n)) /\ \A x : Among(v[1], x) <=> x \in Fixing(n, 1)
  BY <1>5 DEF S
<1>7. \A x : x \in Fixing(n, 1) <=> x \in Perms(n)
  BY DEF Fixing
<1>8. QED
  BY <1>1, <1>6, <1>7, Zenon

\* The order chosen is a permutation, and none ends lower.
LEMMA OrderIsBest ==
  ASSUME NEW n \in Nat \ {0}, NEW sizes, Len(sizes) = n, NEW start,
         \A p \in Perms(n) : SramEnd(sizes, p, start) \in Nat,
         NEW best, best = vmpu_order_boxes(sizes, start)
  PROVE  best \in Perms(n) /\ \A p \in Perms(n) : SramEnd(sizes, best, start) <= SramEnd(sizes, p, start)
<1> DEFINE all == Visited(n)
           m   == Len(all)
           E   == [k \in 1 .. m |-> SramEnd(sizes, all[k], start)]
           Good(k) == \A j \in DOMAIN all :
                        /\ SramEnd(sizes, all[k], start) <= SramEnd(sizes, all[j], start)
                        /\ j < k => SramEnd(sizes, all[k], start) < SramEnd(sizes, all[j], start)
<1>1. all \in Seq(Perms(n)) /\ \A x : Among(all, x) <=> x \in Perms(n)
  BY VisitedAll
<1>2. best = all[CHOOSE k \in DOMAIN all : Good(k)]
  BY DEF vmpu_order_boxes
<1> HIDE DEF all
<1>3. m \in Nat /\ DOMAIN all = 1 .. m /\ \A k \in 1 .. m : all[k] \in Perms(n)
  BY <1>1
<1>4. \A k \in 1 .. m : E[k] = SramEnd(sizes, all[k], start) /\ E[k] \in Nat
  BY <1>3
<1> HIDE DEF E, m
<1>5. 1 \in 1 .. m
  <2>1. Among(all, Identity(n))
    BY <1>1, IdentityFixes
  <2>2. QED
    BY <1>3, <2>1 DEF Among, m
<1>6. PICK k \in 1 .. m : \A j \in 1 .. m : E[k] <= E[j] /\ (j < k => E[k] < E[j])
  <2> DEFINE V == {E[k] : k \in 1 .. m}
  <2>1. V \subseteq Nat /\ V # {}
    BY <1>4, <1>5
  <2>2. PICK e \in V : \A f \in V : e <= f
    BY <2>1, LeastElement
  <2> DEFINE K == {k \in 1 .. m : E[k] = e}
  <2>3. K \subseteq Nat /\ K # {}
    BY <2>2
  <2>4. PICK k \in K : \A j \in K : k <= j
    <3> HIDE DEF K, V
    <3>1. QED
      BY <2>3, LeastElement
  <2>5. k \in 1 .. m /\ E[k] = e
    BY <2>4
  <2>6. ASSUME NEW j \in 1 .. m
        PROVE  E[k] <= E[j] /\ (j < k => E[k] < E[j])
    <3>1. e <= E[j] /\ e \in Nat /\ E[j] \in Nat
      BY <1>4, <2>1, <2>2
    <3>2. E[j] = e => k <= j
      BY <2>4
    <3>3. QED
      BY <2>5, <3>1, <3>2
  <2>7. QED
    BY <2>5, <2>6
<1>7. Good(k) /\ k \in DOMAIN all
  BY <1>3, <1>4, <1>6
<1> DEFINE c == CHOOSE i \in DOMAIN all : Good(i)
<1>8. c \in DOMAIN all /\ Good(c)
  <2> HIDE DEF Good
  <2>1. QED
    BY <1>7, Zenon
<1> HIDE DEF c
<1>9. best = all[c] /\ c \in 1 .. m
  BY <1>2, <1>3, <1>8 DEF c
<1>10. ASSUME NEW p \in Perms(n)
       PROVE  SramEnd(sizes, best, start) <= SramEnd(sizes, p, start)
  <2>1. PICK j \in 1 .. m : all[j] = p
    BY <1>1 DEF Among, m
  <2>2. QED
    BY <1>3, <1>8, <1>9, <2>1
<1>11. QED
  BY <1>3, <1>9, <1>10

----------------------------------------------------------------------------
\* The order chosen at boot and where the boxes end in it.
Best == vmpu_order_boxes(Sizes, BoxesStart)
Ends == SramEnds(Sizes, Best, BoxesStart)

LEMMA SizesAre ==
  ASSUME cfg \in Tables, BoxCount > 1, NEW n, n = BoxCount - 1
  PROVE  /\ n \in Nat \ {0} /\ BoxCount \in Nat /\ Len(Sizes) = n
         /\ \A i \in 1 .. n : /\ SizesFit(cfg[i + 1])
                              /\ Sizes[i].bss = SumBss(cfg[i + 1]) /\ Sizes[i].stack = cfg[i + 1].stack
                              /\ SumBss(cfg[i + 1]) \in Nat /\ cfg[i + 1].stack \in Nat
<1>1. BoxCount \in Nat /\ \A i \in 2 .. BoxCount : SizesFit(cfg[i])
  BY VmpuAssumption DEF BoxCount, IsSequence
<1>2. n \in Nat \ {0} /\ \A i \in 1 .. n : i + 1 \in 2 .. BoxCount
  BY <1>1
<1>3. Sizes = [i \in 1 .. n |-> [bss |-> SumBss(cfg[i + 1]), stack |-> cfg[i + 1].stack]]
  BY DEF Sizes
<1>4. Len(Sizes) = n
  <2> DEFINE S == {Sizes[i] : i \in 1 .. n}
  <2>1. Sizes = [i \in 1 .. n |-> Sizes[i]] /\ \A i \in 1 .. n : Sizes[i] \in S
    BY <1>3
  <2> HIDE DEF S
  <2>2. QED
    BY <1>2, <2>1, FunctionIn
<1>5. ASSUME NEW i \in 1 .. n
      PROVE  /\ SizesFit(cfg[i + 1])
             /\ Sizes[i].bss = SumBss(cfg[i + 1]) /\ Sizes[i].stack = cfg[i + 1].stack
             /\ SumBss(cfg[i + 1]) \in Nat /\ cfg[i + 1].stack \in Nat
  <2>1. SizesFit(cfg[i + 1])
    BY <1>1, <1>2
  <2>2. Sizes[i].bss = SumBss(cfg[i + 1]) /\ Sizes[i].stack = cfg[i + 1].stack
    BY <1>3
  <2>3. SumBss(cfg[i + 1]) \in Nat /\ cfg[i + 1].stack \in Nat
    BY <2>1 DEF SizesFit, SumBss, Sections
  <2>4. QED
    BY <2>1, <2>2, <2>3
<1>6. QED
  BY <1>1, <1>2, <1>4, <1>5

LEMMA PermIs ==
  ASSUME NEW n \in Nat, NEW p \in Perms(n)
  PROVE  Len(p) = n /\ p = [i \in 1 .. n |-> p[i]] /\ \A i \in 1 .. n : p[i] \in 1 .. n
<1>1. p \in [1 .. n -> 1 .. n]
  BY DEF Perms
<1>2. QED
  BY <1>1, FunctionIn

LEMMA SizeIsNat ==
  ASSUME cfg \in Tables, BoxCount > 1, NEW n, n = BoxCount - 1, NEW p \in Perms(n), NEW k \in 1 .. n
  PROVE  SizeAt(Sizes, p, k) \in Nat \ {0}
<1> DEFINE i == p[k]
           c == cfg[i + 1]
<1>1. n \in Nat
  BY SizesAre
<1>2. i \in 1 .. n
  BY <1>1, PermIs
<1>3. /\ SizesFit(c) /\ SumBss(c) \in Nat /\ c.stack \in Nat
      /\ SizeAt(Sizes, p, k) = vmpu_acl_sram_region_size(SumBss(c), c.stack)
  BY <1>2, SizesAre DEF SizeAt
<1> DEFINE u == UVISOR_MIN_STACK(c.stack)
<1> HIDE DEF c
<1>4. u \in Nat /\ u >= c.stack
  BY <1>3, VmpuAssumption DEF UVISOR_MIN_STACK
<1>5. ((u + SumBss(c)) * 8) \div 6 <= 2 ^ 29
  BY <1>3 DEF SizesFit
<1> HIDE DEF u
<1>6. ((c.stack + SumBss(c)) * 8) \div 6 <= 2 ^ 29
  <2>1. ((c.stack + SumBss(c)) * 8) \div 6 <= ((u + SumBss(c)) * 8) \div 6
    BY <1>3, <1>4
  <2>2. 2 ^ 29 \in Nat /\ ((c.stack + SumBss(c)) * 8) \div 6 \in Int /\ ((u + SumBss(c)) * 8) \div 6 \in Int
    BY <1>3, <1>4, SMT
  <2>3. QED
    BY <1>5, <2>1, <2>2, SMT
<1>7. PICK sub \in Nat \ {0} : vmpu_acl_sram_region_size(SumBss(c), c.stack) = 8 * sub
  BY <1>3, <1>6, RegionSize
<1>8. QED
  BY <1>3, <1>7

LEMMA BestIs ==
  ASSUME cfg \in Tables, BoxCount > 1, NEW n, n = BoxCount - 1
  PROVE  /\ Best \in Perms(n)
         /\ \A p \in Perms(n) : SramEnd(Sizes, Best, BoxesStart) <= SramEnd(Sizes, p, BoxesStart)
<1>1. n \in Nat \ {0} /\ Len(Sizes) = n
  BY SizesAre
<1>2. ASSUME NEW p \in Perms(n)
      PROVE  SramEnd(Sizes, p, BoxesStart) \in Nat
  <2> DEFINE e == SramEnds(Sizes, p, BoxesStart)
  <2>1. Len(p) = n /\ n \in 0 .. n
    BY <1>1, PermIs
  <2>2. \A k \in 1 .. n : SizeAt(Sizes, p, k) \in Nat \ {0}
    BY SizeIsNat
  <2>3. BoxesStart \in Nat
    BY VmpuAssumption
  <2>4. \A k \in 0 .. n : e[k] \in Nat
    BY <1>1, <2>1, <2>2, <2>3, SramEndsUp
  <2>5. QED
    BY <2>1, <2>4 DEF SramEnd
<1>3. QED
  BY <1>1, <1>2, OrderIsBest DEF Best

LEMMA EndsAre ==
  ASSUME cfg \in Tables, BoxCount > 1, NEW n, n = BoxCount - 1
  PROVE  /\ Ends[0] = BoxesStart /\ Ends[n] = SramEnd(Sizes, Best, BoxesStart)
         /\ \A k \in 0 .. n : Ends[k] \in Nat
         /\ \A k \in 1 .. n : /\ Ends[k] = Aligned(Ends[k - 1], SizeAt(Sizes, Best, k)) + SizeAt(Sizes, Best, k)
                              /\ SizeAt(Sizes, Best, k) \in Nat \ {0}
         /\ \A j, k \in 0 .. n : j <= k => Ends[j] <= Ends[k]
<1>1. n \in Nat \ {0} /\ Best \in Perms(n) /\ BoxesStart \in Nat
  BY SizesAre, BestIs, VmpuAssumption
<1>2. Len(Best) = n
  BY <1>1, PermIs
<1>3. \A k \in 1 .. n : SizeAt(Sizes, Best, k) \in Nat \ {0}
  BY <1>1, SizeIsNat
<1>4. /\ Ends[0] = BoxesStart
      /\ \A k \in 0 .. n : Ends[k] \in Nat
      /\ \A k \in 1 .. n : /\ Ends[k] = Aligned(Ends[k - 1], SizeAt(Sizes, Best, k)) + SizeAt(Sizes, Best, k)
                           /\ Ends[k - 1] < Ends[k]
  BY <1>1, <1>2, <1>3, SramEndsUp DEF Ends
<1>5. \A j, k \in 0 .. n : j <= k => Ends[j] <= Ends[k]
  BY <1>1, <1>4, SramEndsBelow
<1>6. Ends[n] = SramEnd(Sizes, Best, BoxesStart)
  BY <1>2 DEF SramEnd, Ends
<1>7. QED
  BY <1>3, <1>4, <1>5, <1>6

\* What the order is, once chosen.
Ordered ==
  /\ BoxCount > 1
  /\ order = <<1>> \o [i \in DOMAIN Best |-> Best[i] + 1]
  /\ SramEnd(Sizes, Best, BoxesStart) <= BoxesEnd

LEMMA OrderIs ==
  ASSUME cfg \in Tables, Ordered, NEW n, n = BoxCount - 1
  PROVE  /\ OrderSound /\ order # <<>>
         /\ \A k \in 1 .. n : order[k + 1] = Best[k] + 1 /\ Best[k] \in 1 .. n
<1>1. BoxCount > 1 /\ BoxCount \in Nat /\ n \in Nat \ {0} /\ Best \in Perms(n)
  BY SizesAre, BestIs DEF Ordered
<1>2. Best = [i \in 1 .. n |-> Best[i]] /\ \A k \in 1 .. n : Best[k] \in 1 .. n
  BY <1>1, PermIs
<1> DEFINE rest == [i \in 1 .. n |-> Best[i] + 1]
<1>3. order = <<1>> \o rest
  <2>1. DOMAIN Best = 1 .. n
    BY <1>2
  <2>2. QED
    BY <2>1 DEF Ordered
<1>4. rest \in Seq(Nat) /\ Len(rest) = n /\ \A k \in 1 .. n : rest[k] = Best[k] + 1
  <2>1. \A k \in 1 .. n : rest[k] = Best[k] + 1 /\ rest[k] \in Nat
    BY <1>2
  <2>2. rest = [i \in 1 .. n |-> rest[i]]
    OBVIOUS
  <2> HIDE DEF rest
  <2>3. QED
    BY <1>1, <2>1, <2>2, FunctionIn
<1> HIDE DEF rest
<1>5. order \in Seq(Nat) /\ Len(order) = n + 1 /\ order[1] = 1
  BY <1>1, <1>3, <1>4
<1>6. ASSUME NEW k \in 1 .. n PROVE order[k + 1] = Best[k] + 1
  <2>1. order[k + 1] = rest[k]
    BY <1>1, <1>3, <1>4
  <2>2. QED
    BY <1>4, <2>1
<1>7. ASSUME NEW i \in 1 .. BoxCount PROVE order[i] \in 1 .. BoxCount /\ (i # 1 => order[i] = Best[i - 1] + 1 /\ i - 1 \in 1 .. n)
  <2>1. CASE i = 1
    BY <1>1, <1>5, <2>1
  <2>2. CASE i # 1
    <3>1. i - 1 \in 1 .. n /\ (i - 1) + 1 = i
      BY <1>1, <2>2
    <3>2. order[i] = Best[i - 1] + 1
      BY <1>6, <3>1
    <3>3. Best[i - 1] \in 1 .. n
      BY <1>2, <3>1
    <3>4. QED
      BY <1>1, <3>1, <3>2, <3>3
  <2>3. QED
    BY <2>1, <2>2
<1>8. order \in [1 .. BoxCount -> 1 .. BoxCount]
  <2>1. order = [i \in 1 .. BoxCount |-> order[i]]
    <3>1. n + 1 = BoxCount
      BY <1>1
    <3>2. QED
      BY <1>5, <3>1
  <2>2. QED
    BY <1>7, <2>1
<1>9. \A i, j \in 1 .. BoxCount : order[i] = order[j] => i = j
  <2> SUFFICES ASSUME NEW i \in 1 .. BoxCount, NEW j \in 1 .. BoxCount, order[i] = order[j] PROVE i = j
    OBVIOUS
  <2>1. \A k, m \in 1 .. n : Best[k] = Best[m] => k = m
    BY <1>1 DEF Perms
  <2>2. i # 1 => order[i] = Best[i - 1] + 1 /\ i - 1 \in 1 .. n /\ Best[i - 1] \in 1 .. n
    BY <1>2, <1>7
  <2>3. j # 1 => order[j] = Best[j - 1] + 1 /\ j - 1 \in 1 .. n /\ Best[j - 1] \in 1 .. n
    BY <1>2, <1>7
  <2>4. CASE i # 1 /\ j # 1
    <3>1. Best[i - 1] = Best[j - 1]
      BY <1>1, <2>2, <2>3, <2>4
    <3>2. i - 1 = j - 1
      BY <2>1, <2>2, <2>3, <2>4, <3>1
    <3>3. QED
      BY <3>2
  <2>5. CASE i = 1 \/ j = 1
    BY <1>1, <1>5, <2>2, <2>3, <2>5
  <2>6. QED
    BY <2>4, <2>5
<1>10. order # <<>>
  BY <1>1, <1>5
<1>11. QED
  BY <1>2, <1>5, <1>6, <1>8, <1>9, <1>10 DEF OrderSound

\* The memory of box b starts where the boxes before it end.
Laid(b, r) ==
  /\ r.size = SizeAt(Sizes, Best, b) /\ r.start = Aligned(Ends[b - 1], r.size)
  /\ Guarded(r, ConfigOf(b))

\* The boxes configured so far lie where the order that was chosen puts them, so
\* that mem_pos is what vmpu_order_boxes has computed for as many boxes.
LaidOut ==
  /\ order = <<>> => next = 0 /\ mem_pos = BoxesStart
  /\ order # <<>> => Ordered /\ (next <= BoxCount => mem_pos = Ends[IF next = 0 THEN 0 ELSE next - 1])
  /\ \A b \in 1 .. BoxCount - 1 : b < next => Laid(b, Sram(b))

LEMMA LaidSame ==
  ASSUME UNCHANGED <<cfg, order>>
  PROVE  /\ BoxCount' = BoxCount /\ Sizes' = Sizes /\ Best' = Best /\ Ends' = Ends /\ Ordered' = Ordered
         /\ \A b, r : Laid(b, r)' <=> Laid(b, r)
<1>1. BoxCount' = BoxCount /\ Sizes' = Sizes
  BY DEF BoxCount, Sizes
<1>2. Best' = Best
  BY <1>1 DEF Best
<1>3. Ends' = Ends
  BY <1>1, <1>2 DEF Ends
<1>4. Ordered' = Ordered
  BY <1>1, <1>2 DEF Ordered
<1>5. \A b : ConfigOf(b)' = ConfigOf(b)
  BY DEF ConfigOf
<1>6. \A b, r : Laid(b, r)' <=> Laid(b, r)
  BY <1>1, <1>2, <1>3, <1>5 DEF Laid
<1>7. QED
  BY <1>1, <1>2, <1>3, <1>4, <1>6

\* The first region of a secure box is its memory.
BoxTable(b, sram, c) == vmpu_configure_box_sram(b, sram) \o vmpu_configure_box_peripherals(c)

LEMMA SramFirst ==
  ASSUME NEW b \in Nat \ {0}, NEW sram, NEW c, IsSequence(c.acls), NEW table, table = BoxTable(b, sram, c)
  PROVE  table[1].start = sram.start /\ table[1].size = sram.size /\ table[1].off = sram.off
<1> DEFINE acls  == vmpu_configure_box_peripherals(c)
           m     == [start |-> sram.start, size |-> sram.size, off |-> sram.off, read |-> TRUE, write |-> TRUE]
           S     == {acls[i] : i \in 1 .. Len(c.acls)}
<1>1. vmpu_configure_box_sram(b, sram) = <<m>>
  BY DEF vmpu_configure_box_sram
<1>2. acls = [i \in 1 .. Len(c.acls) |-> acls[i]] /\ Len(c.acls) \in Nat
  BY DEF vmpu_configure_box_peripherals, IsSequence
<1>3. \A i \in 1 .. Len(c.acls) : acls[i] \in S
  OBVIOUS
<1>4. m.start = sram.start /\ m.size = sram.size /\ m.off = sram.off
  OBVIOUS
<1> HIDE DEF m, S, acls
<1>5. acls \in Seq(S)
  BY <1>2, <1>3, FunctionIn, Zenon
<1>6. table = <<m>> \o acls
  BY <1>1 DEF acls, BoxTable
<1>7. table[1] = m
  BY <1>5, <1>6
<1>8. QED
  BY <1>4, <1>7

LEMMA OrderLaid ==
  ASSUME TableInv, LaidOut, order_boxes
  PROVE  LaidOut'
<1>1. order = <<>> /\ next = 0 /\ mem_pos = BoxesStart /\ cfg \in Tables /\ BoxCount \in Nat /\ BoxCount > 0
  BY TableFacts DEF order_boxes, LaidOut, TableInv
<1>2. UNCHANGED <<cfg, next, mem_pos, regions>>
  BY DEF order_boxes
<1>3. BoxCount' = BoxCount /\ Sizes' = Sizes
  BY <1>2 DEF BoxCount, Sizes
<1>4. Best' = Best
  BY <1>3 DEF Best
<1>5. Ends' = Ends
  BY <1>3, <1>4 DEF Ends
<1>6. \A b \in 1 .. BoxCount' - 1 : ~(b < next')
  BY <1>1, <1>2, <1>3
<1>7. CASE order' = order
  BY <1>1, <1>2, <1>6, <1>7 DEF LaidOut
<1>8. CASE order' # order
  <2>1. /\ BoxCount # 1 /\ ~(SramEnd(Sizes, Best, BoxesStart) > BoxesEnd)
        /\ order' = <<1>> \o [i \in DOMAIN Best |-> Best[i] + 1]
    BY <1>8 DEF order_boxes, Best
  <2> DEFINE n == BoxCount - 1
  <2>2. BoxCount > 1 /\ n \in 0 .. n
    BY <1>1, <2>1
  <2>3. /\ Ends[0] = BoxesStart /\ Ends[n] = SramEnd(Sizes, Best, BoxesStart)
        /\ Ends[n] \in Nat
    <3> HIDE DEF n
    <3>1. n = BoxCount - 1
      BY DEF n
    <3>2. QED
      BY <1>1, <2>2, <3>1, EndsAre
  <2> HIDE DEF n
  <2>4. SramEnd(Sizes, Best, BoxesStart) <= BoxesEnd
    BY <2>1, <2>3, VmpuAssumption
  <2>5. Ordered'
    BY <1>3, <1>4, <2>1, <2>2, <2>4 DEF Ordered
  <2>6. QED
    BY <1>1, <1>2, <1>5, <1>6, <2>3, <2>5 DEF LaidOut
<1>9. QED
  BY <1>7, <1>8

\* A box of the order has ACLs, and sizes for which a region is found.
LEMMA ConfigIs ==
  ASSUME cfg \in Tables, Ordered, NEW b \in 1 .. BoxCount - 1, NEW c, c = ConfigOf(b)
  PROVE  /\ SizesFit(c) /\ SumBss(c) \in Nat /\ c.stack \in Nat /\ IsSequence(c.acls)
         /\ SizeAt(Sizes, Best, b) = vmpu_acl_sram_region_size(SumBss(c), c.stack)
<1> DEFINE n == BoxCount - 1
           i == Best[b]
<1>1. BoxCount > 1 /\ BoxCount \in Nat /\ n \in Nat
  BY SizesAre DEF Ordered
<1>2. order[b + 1] = i + 1 /\ i \in 1 .. n
  BY OrderIs
<1>3. c = cfg[i + 1] /\ i + 1 \in 1 .. BoxCount
  BY <1>1, <1>2 DEF ConfigOf
<1>4. /\ SizesFit(cfg[i + 1])
      /\ Sizes[i].bss = SumBss(cfg[i + 1]) /\ Sizes[i].stack = cfg[i + 1].stack
      /\ SumBss(cfg[i + 1]) \in Nat /\ cfg[i + 1].stack \in Nat
  BY <1>1, <1>2, SizesAre
<1>5. IsSequence(c.acls)
  BY <1>3, VmpuAssumption DEF BoxCount
<1>6. QED
  BY <1>3, <1>4, <1>5 DEF SizeAt

\* The memory that vmpu_acl_sram gives to box b, where the boxes before it end.
LEMMA SramLaid ==
  ASSUME cfg \in Tables, Ordered, NEW b \in 1 .. BoxCount - 1, NEW c, c = ConfigOf(b),
         NEW sram, sram = vmpu_acl_sram(Ends[b - 1], SumBss(c), c.stack)
  PROVE  /\ sram.fits
         /\ c.stack >= MIN_STACK_SIZE /\ c.bss[1] >= BOX_INDEX_SIZE =>
              Laid(b, sram) /\ sram.start + sram.size = Ends[b]
<1>1. BoxCount > 1 /\ BoxCount \in Nat
  BY SizesAre DEF Ordered
<1>2. /\ SizesFit(c) /\ SumBss(c) \in Nat /\ c.stack \in Nat
      /\ SizeAt(Sizes, Best, b) = vmpu_acl_sram_region_size(SumBss(c), c.stack)
  BY ConfigIs
<1>3. b - 1 \in 0 .. BoxCount - 1
  BY <1>1
<1>4. /\ Ends[b - 1] \in Nat
      /\ Ends[b] = Aligned(Ends[b - 1], SizeAt(Sizes, Best, b)) + SizeAt(Sizes, Best, b)
  BY <1>1, <1>3, EndsAre
<1>5. MIN_STACK_SIZE \in Nat
  BY VmpuAssumption
<1>6. ((UVISOR_MIN_STACK(c.stack) + SumBss(c)) * 8) \div 6 <= 2 ^ 29
  BY <1>2 DEF SizesFit
<1>7. /\ sram.fits
      /\ sram.size = vmpu_acl_sram_region_size(SumBss(c), UVISOR_MIN_STACK(c.stack))
      /\ sram.start = Aligned(Ends[b - 1], sram.size)
      /\ sram.start \in Nat
      /\ SumBss(c) > 0 => Split(sram, SumBss(c), c.stack)
  BY <1>2, <1>4, <1>5, <1>6, SramIs
<1>8. ASSUME c.stack >= MIN_STACK_SIZE, c.bss[1] >= BOX_INDEX_SIZE
      PROVE  Laid(b, sram) /\ sram.start + sram.size = Ends[b]
  <2>1. UVISOR_MIN_STACK(c.stack) = c.stack
    BY <1>2, <1>5, <1>8 DEF UVISOR_MIN_STACK
  <2>2. sram.size = SizeAt(Sizes, Best, b)
    BY <1>2, <1>7, <2>1
  <2>3. \A i \in Sections : c.bss[i] \in Nat
    BY <1>2 DEF SizesFit
  <2>4. SumBss(c) > 0
    <3>1. BOX_INDEX_SIZE \in Nat \ {0}
      BY VmpuAssumption
    <3>2. c.bss[1] \in Nat /\ c.bss[2] \in Nat /\ c.bss[3] \in Nat
      BY <2>3 DEF Sections
    <3>3. QED
      BY <1>8, <3>1, <3>2 DEF SumBss
  <2>5. Guarded(sram, c)
    BY <1>7, <2>3, <2>4, SectionsSplit
  <2>6. QED
    BY <1>4, <1>7, <2>2, <2>5 DEF Laid
<1>9. QED
  BY <1>7, <1>8

LEMMA EnumerateLaid ==
  ASSUME TableInv, LaidOut, enumerate_box
  PROVE  LaidOut'
<1>1. order # <<>> /\ next < BoxCount /\ UNCHANGED <<cfg, order>>
  BY DEF enumerate_box
<1>2. /\ Ordered /\ cfg \in Tables /\ BoxCount \in Nat /\ next \in 0 .. BoxCount - 1 /\ BoxCount > 1
      /\ mem_pos = Ends[IF next = 0 THEN 0 ELSE next - 1]
  <2>1. BoxCount \in Nat /\ next \in 0 .. BoxCount + 1 /\ cfg \in Tables
    BY TableFacts DEF TableInv
  <2>2. next \in 0 .. BoxCount - 1 /\ next <= BoxCount
    BY <1>1, <2>1
  <2>3. QED
    BY <1>1, <2>1, <2>2 DEF LaidOut, Ordered
<1>3. /\ BoxCount' = BoxCount /\ Ends' = Ends /\ Ordered' = Ordered
      /\ \A a, r : Laid(a, r)' <=> Laid(a, r)
  BY <1>1, LaidSame
<1>4. CASE next' = next /\ mem_pos' = mem_pos /\ regions' = regions
  <2>1. \A a : Sram(a)' = Sram(a)
    BY <1>4 DEF Sram
  <2>2. QED
    BY <1>1, <1>2, <1>3, <1>4, <2>1 DEF LaidOut
<1>5. PICK b : b = next
  OBVIOUS
<1>6. PICK c : c = ConfigOf(b)
  OBVIOUS
<1>7. PICK sram : sram = vmpu_acl_sram(mem_pos, SumBss(c), c.stack)
  OBVIOUS
<1>8. PICK table : table = BoxTable(b, sram, c)
  OBVIOUS
<1>9. CASE /\ next' = b + 1 /\ vmpu_check_sanity_box_cfgtbl(b, c)
           /\ mem_pos' = IF b = 0 THEN mem_pos ELSE sram.start + sram.size
           /\ regions' = [regions EXCEPT ![b] = table]
  <2>1. 0 .. BoxCount - 1 \subseteq BoxIds /\ DOMAIN regions = BoxIds
    BY TableFacts
  <2>2. b \in 0 .. BoxCount - 1 /\ regions'[b] = table /\ \A a \in 1 .. BoxCount - 1 : a # b => regions'[a] = regions[a]
    BY <1>2, <1>5, <1>9, <2>1
  <2>3. ASSUME NEW a \in 1 .. BoxCount - 1, a < b
        PROVE  Laid(a, Sram(a))'
    <3>1. PICK r : r = Sram(a)
      OBVIOUS
    <3>2. Laid(a, r)
      BY <1>5, <2>3, <3>1 DEF LaidOut
    <3>3. a # b
      BY <2>2, <2>3
    <3>4. Sram(a)' = r
      BY <2>2, <3>1, <3>3 DEF Sram
    <3>5. Laid(a, r)'
      BY <1>3, <3>2
    <3>6. QED
      BY <3>4, <3>5 DEF Laid
  <2>4. CASE b = 0
    <3>1. next' = 1 /\ mem_pos' = mem_pos /\ mem_pos = Ends[0]
      BY <1>2, <1>5, <1>9, <2>4
    <3>2. \A a \in 1 .. BoxCount' - 1 : ~(a < next')
      BY <1>2, <1>3, <3>1
    <3>3. QED
      BY <1>1, <1>2, <1>3, <3>1, <3>2 DEF LaidOut
  <2>5. CASE b # 0
    <3>1. b \in 1 .. BoxCount - 1 /\ b \in Nat \ {0} /\ mem_pos = Ends[b - 1]
      BY <1>2, <1>5, <2>5
    <3>2. IsSequence(c.acls) /\ c.stack >= MIN_STACK_SIZE /\ c.bss[1] >= BOX_INDEX_SIZE
      BY <1>2, <1>6, <1>9, <2>5, <3>1, ConfigIs DEF vmpu_check_sanity_box_cfgtbl
    <3>3. Laid(b, sram) /\ sram.start + sram.size = Ends[b]
      BY <1>2, <1>6, <1>7, <3>1, <3>2, SramLaid
    <3>4. PICK r : r = table[1]
      OBVIOUS
    <3>5. r.start = sram.start /\ r.size = sram.size /\ r.off = sram.off
      <4>1. table[1].start = sram.start /\ table[1].size = sram.size /\ table[1].off = sram.off
        <5>1. b \in Nat \ {0} /\ IsSequence(c.acls)
          BY <3>1, <3>2
        <5>2. QED
          BY <1>8, <5>1, SramFirst
      <4>2. QED
        BY <3>4, <4>1
    <3>6. Laid(b, r)
      <4>1. \A k : Sub(r, k) = Sub(sram, k)
        BY <3>5 DEF Sub
      <4>2. QED
        BY <3>3, <3>5, <4>1 DEF Laid, Guarded, SectionsEndBy
    <3>7. Sram(b)' = r
      BY <2>2, <3>4 DEF Sram
    <3>8. Laid(b, r)'
      BY <1>3, <3>6
    <3>9. Laid(b, Sram(b))'
      BY <3>7, <3>8 DEF Laid
    <3>10. ASSUME NEW a \in 1 .. BoxCount - 1, a < next'
           PROVE  Laid(a, Sram(a))'
      <4>1. CASE a = b
        BY <3>9, <4>1
      <4>2. CASE a # b
        <5>1. a < b
          BY <1>9, <2>2, <3>10, <4>2
        <5>2. QED
          BY <2>3, <5>1
      <4>3. QED
        BY <4>1, <4>2
    <3>11. mem_pos' = Ends[next' - 1] /\ next' # 0
      <4>1. next' - 1 = b /\ next' # 0
        BY <1>9, <2>2
      <4>2. QED
        BY <1>9, <2>5, <3>3, <4>1
    <3>12. QED
      BY <1>1, <1>2, <1>3, <3>10, <3>11 DEF LaidOut
  <2>6. QED
    BY <2>4, <2>5
<1>10. QED
  BY <1>4, <1>5, <1>6, <1>7, <1>8, <1>9 DEF enumerate_box, ConfigOf, BoxTable

----------------------------------------------------------------------------
\* Boot lays the boxes out, and nothing moves them afterwards.
LEMMA LayoutStep ==
  ASSUME VmpuInv, LaidOut, [Next]_vars
  PROVE  LaidOut'
<1>1. TableInv /\ LoadInv
  BY DEF VmpuInv
<1>2. BoxCount \in Nat /\ next \in 0 .. BoxCount + 1
  BY <1>1, TableFacts
<1>3. CASE order_boxes
  BY <1>1, <1>3, OrderLaid
<1>4. CASE enumerate_box
  BY <1>1, <1>4, EnumerateLaid
<1>5. ASSUME cfg' = cfg, order' = order, mem_pos' = mem_pos, regions' = regions,
             next' = next \/ (next = BoxCount /\ next' = BoxCount + 1 /\ order # <<>>)
      PROVE  LaidOut'
  <2>1. /\ BoxCount' = BoxCount /\ Ends' = Ends /\ Ordered' = Ordered
        /\ \A a, r : Laid(a, r)' <=> Laid(a, r)
    BY <1>5, LaidSame
  <2>2. \A a : Sram(a)' = Sram(a)
    BY <1>5 DEF Sram
  <2>3. ASSUME NEW b \in 1 .. BoxCount - 1, b < next'
        PROVE  Laid(b, Sram(b))'
    <3>1. PICK r : r = Sram(b)
      OBVIOUS
    <3>2. b < next
      BY <1>2, <1>5, <2>3
    <3>3. Laid(b, r)
      BY <3>1, <3>2 DEF LaidOut
    <3>4. Laid(b, r)' /\ Sram(b)' = r
      BY <2>1, <2>2, <3>1, <3>3
    <3>5. QED
      BY <3>4 DEF Laid
  <2>4. next' <= BoxCount => next' = next
    BY <1>2, <1>5
  <2>5. order = <<>> => next' = next
    BY <1>5
  <2>6. QED
    BY <1>5, <2>1, <2>3, <2>4, <2>5 DEF LaidOut
<1>6. CASE load_box_0
  BY <1>5, <1>6 DEF load_box_0
<1>7. CASE \/ push_next \/ (\E b \in 0 .. BoxCount - 1 : context_switch(b)) \/ vmpu_mem_invalidate
           \/ access_denied \/ fault_recovery \/ access_repeated \/ UNCHANGED vars
  <2>1. UNCHANGED boot
    <3>1. CASE UNCHANGED vars
      BY <3>1 DEF boot, vars
    <3>2. CASE push_next
      BY <3>2 DEF push_next
    <3>3. CASE \E b \in 0 .. BoxCount - 1 : context_switch(b)
      BY <3>3 DEF context_switch
    <3>4. CASE vmpu_mem_invalidate
      BY <3>4 DEF vmpu_mem_invalidate
    <3>5. CASE access_denied \/ fault_recovery \/ access_repeated
      BY <3>5 DEF access_denied, fault_recovery, access_repeated
    <3>6. QED
      BY <1>7, <3>1, <3>2, <3>3, <3>4, <3>5
  <2>2. cfg' = cfg /\ order' = order /\ mem_pos' = mem_pos /\ regions' = regions /\ next' = next
    BY <2>1 DEF boot
  <2>3. QED
    BY <1>5, <2>2
<1>8. QED
  BY <1>3, <1>4, <1>6, <1>7 DEF Next

\* Every box is in the order once, before and after the order is chosen.
LEMMA LaidOrder ==
  ASSUME VmpuInv, LaidOut
  PROVE  OrderSound
<1>1. cfg \in Tables
  BY DEF VmpuInv, TableInv
<1>2. CASE order = <<>>
  BY <1>2 DEF OrderSound
<1>3. CASE order # <<>>
  BY <1>1, <1>3, OrderIs DEF LaidOut
<1>4. QED
  BY <1>2, <1>3

\* The inductive invariant.
LEMMA BootInv == Spec => [](VmpuInv /\ LaidOut)
<1>1. Init => VmpuInv /\ LaidOut
  <2>1. Init => LaidOut
    <3> SUFFICES ASSUME Init PROVE LaidOut
      OBVIOUS
    <3>1. order = <<>> /\ next = 0 /\ mem_pos = BoxesStart
      BY DEF Init
    <3>2. \A b \in 1 .. BoxCount - 1 : ~(b < next)
      BY <3>1
    <3>3. QED
      BY <3>1, <3>2 DEF LaidOut
  <2>2. QED
    BY <2>1, InitInv
<1>2. VmpuInv /\ LaidOut /\ [Next]_vars => VmpuInv' /\ LaidOut'
  BY LaidOrder, VmpuStep, LayoutStep
<1>3. QED
  BY <1>1, <1>2, PTL DEF Spec

\* The MPU holds no region of a box other than the active one and box 0, for any
\* tables, pages and number of slots.
THEOREM OnlyOwnRegionsAreOpen == Spec => []OnlyOwnRegions
<1>1. VmpuInv => OnlyOwnRegions
  BY DEF VmpuInv, LoadInv
<1>2. QED
  BY BootInv, <1>1, PTL

\* No number of faults evicts the memory of a secure box.
THEOREM StacksAreKept == Spec => StackKept
<1>1. VmpuInv /\ LaidOut /\ [Next]_vars => [StackStep]_vars
  BY LaidOrder, VmpuStep
<1>2. StackKept <=> [][StackStep]_vars
  BY DEF StackKept, StackStep
<1>3. QED
  BY BootInv, <1>1, <1>2, PTL DEF Spec

\* Every secure box has memory of its own between bss_boxes_start and
\* bss_boxes_end, aligned to its size, for any tables.  The sections as
\* vmpu_box_index_init rounds them end before the end of the guard, and below the
\* guard when their sizes are multiples of 4; the stack that was asked for lies
\* above it.  The sanity checks of vmpu_acl_sram never fail.
THEOREM BoxesAreLaidOutSoundly == Spec => []LayoutSound
<1>1. ASSUME VmpuInv, LaidOut
      PROVE  LayoutSound
  <2>1. cfg \in Tables /\ BoxCount \in Nat /\ next \in 0 .. BoxCount + 1
    BY <1>1, TableFacts DEF VmpuInv, TableInv
  <2>2. OrderSound
    BY <1>1, LaidOrder
  <2> SUFFICES ASSUME next <= BoxCount
               PROVE  /\ order # <<>> /\ next \in 1 .. BoxCount - 1 =>
                           vmpu_acl_sram(mem_pos, SumBss(ConfigOf(next)), ConfigOf(next).stack).fits
                      /\ \A b \in Secure :
                           LET r == Sram(b)
                           IN  /\ r.start % r.size = 0
                               /\ r.start >= BoxesStart /\ r.start + r.size <= BoxesEnd
                               /\ \A c \in Secure \ {b} :
                                    r.start + r.size <= Sram(c).start \/ Sram(c).start + Sram(c).size <= r.start
                               /\ Guarded(r, ConfigOf(b))
    BY <2>2 DEF LayoutSound
  <2>3. ASSUME order # <<>>, next \in 1 .. BoxCount - 1
        PROVE  vmpu_acl_sram(mem_pos, SumBss(ConfigOf(next)), ConfigOf(next).stack).fits
    <3>1. Ordered /\ mem_pos = Ends[next - 1]
      BY <1>1, <2>1, <2>3 DEF LaidOut
    <3>2. QED
      BY <2>1, <2>3, <3>1, SramLaid
  <2>4. ASSUME NEW b \in Secure
        PROVE  /\ order # <<>> /\ Ordered /\ BoxCount > 1 /\ b \in 1 .. BoxCount - 1
               /\ Laid(b, Sram(b))
               /\ Sram(b).size \in Nat \ {0} /\ Sram(b).start \in Nat
               /\ Sram(b).start >= Ends[b - 1] /\ Sram(b).start + Sram(b).size = Ends[b]
               /\ Sram(b).start % Sram(b).size = 0
    <3>1. b \in 1 .. BoxCount - 1 /\ b < next /\ b - 1 \in 0 .. BoxCount - 1 /\ next # 0
      BY <2>1 DEF Secure
    <3>2. order # <<>> /\ Ordered /\ BoxCount > 1 /\ Laid(b, Sram(b))
      BY <1>1, <3>1 DEF LaidOut, Ordered
    <3> DEFINE size == SizeAt(Sizes, Best, b)
    <3>3. /\ Ends[b - 1] \in Nat /\ size \in Nat \ {0} /\ Ends[b] = Aligned(Ends[b - 1], size) + size
      BY <2>1, <3>1, <3>2, EndsAre
    <3>4. Sram(b).size = size /\ Sram(b).start = Aligned(Ends[b - 1], size)
      BY <3>2 DEF Laid
    <3> HIDE DEF size
    <3>5. /\ Aligned(Ends[b - 1], size) \in Nat /\ Aligned(Ends[b - 1], size) >= Ends[b - 1]
          /\ Aligned(Ends[b - 1], size) % size = 0
      BY <3>3, AlignedIs
    <3>6. QED
      BY <3>1, <3>2, <3>3, <3>4, <3>5
  <2>5. ASSUME NEW b \in Secure, NEW c \in Secure, b < c
        PROVE  Sram(b).start + Sram(b).size <= Sram(c).start
    <3>1. /\ Sram(b).start + Sram(b).size = Ends[b] /\ Sram(c).start >= Ends[c - 1] /\ Sram(c).start \in Nat
          /\ b \in 1 .. BoxCount - 1 /\ c \in 1 .. BoxCount - 1 /\ BoxCount > 1
      BY <2>4
    <3>2. b \in 0 .. BoxCount - 1 /\ c - 1 \in 0 .. BoxCount - 1 /\ b <= c - 1
      BY <2>1, <2>5, <3>1
    <3>3. Ends[b] <= Ends[c - 1] /\ Ends[b] \in Nat /\ Ends[c - 1] \in Nat
      BY <2>1, <3>1, <3>2, EndsAre
    <3>4. QED
      BY <3>1, <3>3
  <2>6. ASSUME NEW b \in Secure
        PROVE  Sram(b).start >= BoxesStart /\ Sram(b).start + Sram(b).size <= BoxesEnd
    <3>1. /\ Ordered /\ BoxCount > 1 /\ b \in 1 .. BoxCount - 1 /\ Sram(b).start \in Nat
          /\ Sram(b).start >= Ends[b - 1] /\ Sram(b).start + Sram(b).size = Ends[b]
      BY <2>4
    <3>2. /\ b - 1 \in 0 .. BoxCount - 1 /\ b \in 0 .. BoxCount - 1 /\ 0 \in 0 .. BoxCount - 1
          /\ BoxCount - 1 \in 0 .. BoxCount - 1 /\ 0 <= b - 1 /\ b <= BoxCount - 1
      BY <2>1, <3>1
    <3>3. /\ Ends[0] <= Ends[b - 1] /\ Ends[b] <= Ends[BoxCount - 1] /\ Ends[b - 1] \in Nat /\ Ends[b] \in Nat
          /\ Ends[0] = BoxesStart /\ Ends[BoxCount - 1] = SramEnd(Sizes, Best, BoxesStart)
          /\ Ends[BoxCount - 1] \in Nat
      BY <2>1, <3>1, <3>2, EndsAre
    <3>4. SramEnd(Sizes, Best, BoxesStart) <= BoxesEnd /\ BoxesStart \in Nat /\ BoxesEnd \in Nat
      BY <3>1, VmpuAssumption DEF Ordered
    <3>5. QED
      BY <3>1, <3>3, <3>4
  <2>7. ASSUME NEW b \in Secure
        PROVE  Guarded(Sram(b), ConfigOf(b))
    BY <2>4 DEF Laid
  <2>8. ASSUME NEW b \in Secure, NEW c \in Secure \ {b}
        PROVE  \/ Sram(b).start + Sram(b).size <= Sram(c).start
               \/ Sram(c).start + Sram(c).size <= Sram(b).start
    <3>1. b < c \/ c < b
      BY <2>1 DEF Secure
    <3>2. QED
      BY <2>5, <3>1
  <2>9. QED
    BY <2>3, <2>4, <2>6, <2>7, <2>8
<1>2. QED
  BY BootInv, <1>1, PTL

\* Where the boxes end is the lowest end that any order of them has, for any
\* number of boxes and sizes: __vmpu_order_boxes visits every permutation, and
\* enumerate_box puts the boxes where the order was computed for.
THEOREM BoxesNeedTheLeastMemory == Spec => []LeastMemory
<1>1. ASSUME VmpuInv, LaidOut
      PROVE  LeastMemory
  <2> DEFINE n == BoxCount - 1
  <2>1. cfg \in Tables /\ BoxCount \in Nat /\ BoxCount > 0
    BY <1>1, TableFacts DEF VmpuInv, TableInv
  <2> SUFFICES ASSUME next = BoxCount, NEW o \in [1 .. n -> 1 .. n], Cardinality({o[i] : i \in DOMAIN o}) = n
               PROVE  mem_pos <= SramEnd(Sizes, o, BoxesStart)
    BY DEF LeastMemory
  <2>2. order # <<>> /\ Ordered /\ BoxCount > 1 /\ mem_pos = Ends[n]
    <3>1. next # 0 /\ next <= BoxCount /\ next - 1 = n
      BY <2>1
    <3>2. order # <<>> /\ Ordered /\ mem_pos = Ends[next - 1]
      BY <1>1, <3>1, Zenon DEF LaidOut
    <3>3. QED
      BY <3>1, <3>2 DEF Ordered
  <2>3. n \in Nat /\ mem_pos = SramEnd(Sizes, Best, BoxesStart)
    BY <2>1, <2>2, EndsAre
  <2>4. o \in Perms(n)
    <3> HIDE DEF n
    <3> DEFINE T == {o[i] : i \in 1 .. n}
    <3>1. IsFiniteSet(1 .. n) /\ Cardinality(1 .. n) = n
      BY <2>3, FS_Interval
    <3>2. Cardinality(T) = n
      OBVIOUS
    <3>3. o \in Surjection(1 .. n, T)
      BY DEF Surjection
    <3> HIDE DEF T
    <3>4. o \in Injection(1 .. n, T)
      BY <3>1, <3>2, <3>3, FS_Surjection
    <3>5. QED
      BY <3>4 DEF Injection, IsInjective, Perms
  <2>5. QED
    BY <2>1, <2>2, <2>3, <2>4, BestIs
<1>2. QED
  BY BootInv, <1>1, PTL

\* Each page is exactly the MPU subregion that stands for it, wherever the page
\* heap lies.
THEOREM PagesAreMpuSubregions == Spec => []PagesAreSubregions
<1>1. ASSUME NEW bound \in HeapBounds \cup {<<HeapStart, HeapEnd>>}, NEW heap,
             heap = page_allocator_init(bound[1], bound[2], PageSize), NEW p \in 0 .. heap.total - 1
      PROVE  LET r == PageRegion(heap, {p}, Octet(heap, p)) IN
             /\ PageStart(heap, p) = Sub(r, Subregion(heap, p))
             /\ r.start % r.size = 0
             /\ MapBit(heap, p) < 32 * PAGE_MAP_COUNT
             /\ bound[1] <= PageStart(heap, p) /\ PageStart(heap, p) + PageSize <= bound[2]
  <2>1. bound[1] \in Nat /\ bound[2] \in Nat /\ PageSize \in Nat \ {0}
    BY VmpuAssumption
  <2>2. heap.size = PageSize
    BY <1>1 DEF page_allocator_init
  <2>3. PageIsSubregion(heap, bound[1], bound[2], p)
    BY <1>1, <2>1, MapCount, PageSubregion
  <2>4. QED
    BY <2>2, <2>3 DEF PageIsSubregion, Sub
<1>2. PagesAreSubregions
  BY <1>1 DEF PagesAreSubregions
<1>3. QED
  BY <1>2, PTL
=============================================================================
