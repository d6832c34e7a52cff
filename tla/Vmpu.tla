-------------------------------- MODULE Vmpu --------------------------------
(***************************************************************************)
(* The vMPU of ARMv7-M: core/vmpu/src/vmpu.c, mpu_armv7m/vmpu_armv7m.c and *)
(* mpu_armv7m/vmpu_armv7m_mpu.c.                                           *)
(*                                                                         *)
(* At boot the boxes of the configuration table are put in an order, each  *)
(* gets a region for its memory and one for each of its ACLs, and box 0 is *)
(* loaded.  From then on the MPU is a cache of these tables: a switch      *)
(* loads the first regions of the box, an access that the MPU denies       *)
(* faults, and the fault loads a region that holds the address and repeats *)
(* the access.  Of regions that overlap, the MPU obeys the one in the      *)
(* highest slot.  vmpu_switch is a loop of pushes, one step each; nothing  *)
(* preempts it.                                                            *)
(***************************************************************************)
EXTENDS BoxLayout, PageHeap, FiniteSets

CONSTANTS MaxSlots,     \* ARMv7M_MPU_REGIONS_MAX
          MaxRegions,   \* MPU_ACL_COUNT
          Tables,       \* the configuration tables to boot with
          BoxesStart, BoxesEnd,     \* bss_boxes_start, bss_boxes_end
          HeapStart, HeapEnd, PageSize,   \* page_start, page_end, page_size
          HeapBounds,   \* other pairs of page_start and page_end
          Owned,        \* box -> the pages it owns
          Public,       \* an address of public memory, open to all boxes
          BOX_INDEX_SIZE   \* sizeof(UvisorBoxIndex)

\* Slots 0 and 1 hold the public flash and SRAM and never change.
REGIONS_STATIC == 2
Slots == REGIONS_STATIC .. MaxSlots - 1

IsSequence(x) == Len(x) \in Nat /\ x = [i \in 1 .. Len(x) |-> x[i]]

\* The six BSS sections of a box as three: the box index and the context; the
\* newlib_reent, rpc and ipc sections; and the heap.  Index, newlib_reent, rpc and
\* ipc consist of whole words: of the six, only the sizes of the context and the
\* heap need rounding, which each is the end of a section here.
Sections  == 1 .. 3
SumBss(c) == c.bss[1] + c.bss[2] + c.bss[3]

\* vmpu_box_index_init: the sections one after the other, each size rounded up
\* to a multiple of 4; the offsets at which they start.
Round4(n)    == ((n + 3) \div 4) * 4
SectionAt(c) == <<0, Round4(c.bss[1]), Round4(c.bss[1]) + Round4(c.bss[2])>>

\* What a secure box asks for fits the largest region, of 2^29 bytes
\* (vmpu_is_region_size_valid); eight times its size is then below 2^32.
SizesFit(c) ==
  /\ (\A i \in Sections : c.bss[i] \in Nat) /\ c.stack \in Nat
  /\ ((UVISOR_MIN_STACK(c.stack) + SumBss(c)) * 8) \div 6 <= 2 ^ 29

\* Tables are sequences, of which every box has ACLs and, maybe, pages.
ASSUME VmpuAssumption ==
  /\ MaxSlots \in Nat /\ MaxSlots >= REGIONS_STATIC + 2
  /\ \A table \in Tables :
       /\ IsSequence(table) /\ Len(table) > 0
       /\ 0 .. Len(table) - 1 \subseteq DOMAIN Owned
       /\ \A i \in 1 .. Len(table) : IsSequence(table[i].acls)
       /\ \A i \in 2 .. Len(table) : SizesFit(table[i])
  /\ BoxesStart \in Nat /\ BoxesEnd \in Nat /\ MIN_STACK_SIZE \in Nat
  /\ BOX_INDEX_SIZE \in Nat \ {0}
  /\ HeapStart \in Nat /\ HeapEnd \in Nat /\ PageSize \in Nat \ {0}
  /\ \A bound \in HeapBounds : bound[1] \in Nat /\ bound[2] \in Nat
  /\ PAGE_MAX_COUNT \in Nat
  /\ PAGE_MAP_COUNT = (PAGE_MAX_COUNT + 31 + 8) \div 32    \* page_allocator_config.h
  /\ PAGE_MAP_COUNT <= 8               \* a byte numbers the bits of a map
  /\ \A b \in DOMAIN Owned : Owned[b] \subseteq Nat

BoxIds == DOMAIN Owned
NONE   == [start |-> 0, size |-> 0, off |-> {}, read |-> FALSE, write |-> FALSE]
NoAccess == [addr |-> 0, write |-> FALSE]

VARIABLES
  cfg,      \* the configuration table: a sequence, box 0 first
  order,    \* box id -> index in cfg, once chosen
  next,     \* the box to configure next
  mem_pos,  \* box_mem_pos
  regions,  \* g_mpu_box_region: box -> its regions
  active,   \* g_active_box
  mpu,      \* slot (g_mpu_slot), region and priority of each slot
  pushes,   \* what is left to push in the running vmpu_switch
  access,   \* the access that a fault repeats
  halted

vars == <<cfg, order, next, mem_pos, regions, active, mpu, pushes, access, halted>>
boot == <<cfg, order, next, mem_pos, regions>>

BoxCount == Len(cfg)
Booted   == next = BoxCount + 1
Heap     == page_allocator_init(HeapStart, HeapEnd, PageSize)

vmpu_mpu_invalidate ==
  [slot |-> REGIONS_STATIC, region |-> [s \in Slots |-> NONE], priority |-> [s \in Slots |-> 0]]

Init ==
  /\ cfg \in Tables
  /\ order = <<>> /\ next = 0 /\ mem_pos = BoxesStart
  /\ regions = [b \in BoxIds |-> <<>>]
  /\ active = 0
  /\ mpu = vmpu_mpu_invalidate /\ pushes = <<>>
  /\ access = NoAccess /\ halted = FALSE

----------------------------------------------------------------------------
\* Boot.

Sizes     == [i \in 1 .. BoxCount - 1 |-> [bss |-> SumBss(cfg[i + 1]), stack |-> cfg[i + 1].stack]]

\* vmpu_order_boxes halts if the boxes do not fit; without a secure box it
\* finds no order and takes the size to be UINT32_MAX.
order_boxes ==
  LET best == vmpu_order_boxes(Sizes, BoxesStart) IN
  /\ ~halted /\ order = <<>>
  /\ IF BoxCount = 1 \/ SramEnd(Sizes, best, BoxesStart) > BoxesEnd
     THEN halted' = TRUE /\ UNCHANGED order
     ELSE order' = <<1>> \o [i \in DOMAIN best |-> best[i] + 1] /\ UNCHANGED halted
  /\ UNCHANGED <<cfg, next, mem_pos, regions, active, mpu, pushes, access>>

\* vmpu_map_acl: the accesses that the hardware can grant; it cannot tell user
\* from supervisor execution, nor grant a user more than a supervisor.
vmpu_map_acl(acl) ==
  (CASE "UWRITE" \in acl -> {"UREAD", "UWRITE", "SREAD", "SWRITE"}
     [] "UWRITE" \notin acl /\ "UREAD" \in acl -> {"UREAD", "SREAD"} \cup (acl \cap {"SWRITE"})
     [] acl \cap {"UWRITE", "UREAD"} = {} /\ "SWRITE" \in acl -> {"SREAD", "SWRITE"}
     [] OTHER -> acl \cap {"SREAD"})
  \cup (IF acl \cap {"UEXECUTE", "SEXECUTE"} # {} THEN {"UEXECUTE", "SEXECUTE"} ELSE {})

\* vmpu_region_translate_acl: the rounded size, and whether the checks pass.
RoundedBits(item) ==
  LET bits == vmpu_region_bits(item.size)
  IN  IF 2 ^ bits # item.size /\ item.round = "down" THEN bits - 1 ELSE bits
Translates(item) ==
  LET bits == RoundedBits(item) IN
  /\ 2 ^ vmpu_region_bits(item.size) = item.size \/ item.round \in {"up", "down"}
  /\ bits >= ALIGNMENT_BITS
  /\ item.start % 2 ^ bits = 0
  /\ vmpu_map_acl(item.acl) = item.acl
vmpu_region_translate_acl(item) ==
  [start |-> item.start, size |-> 2 ^ RoundedBits(item), off |-> {},
   read |-> "UREAD" \in item.acl, write |-> "UWRITE" \in item.acl]

\* g_mpu_region_count; vmpu_region_add_static_acl halts when the table is full.
RegionCount == LET sum[b \in -1 .. next] == IF b = -1 THEN 0 ELSE sum[b - 1] + Len(regions[b])
               IN  sum[next - 1]
vmpu_region_add_static_acl(n) == RegionCount + n <= MaxRegions

\* The box index is there; box 0 has neither a stack nor a heap of its own.
vmpu_check_sanity_box_cfgtbl(b, c) ==
  /\ c.bss[1] >= BOX_INDEX_SIZE
  /\ IF b = 0 THEN c.stack = 0 /\ c.bss[3] = 0 ELSE c.stack >= MIN_STACK_SIZE

\* The memory of a secure box, a sequence of one region; box 0 needs none.
vmpu_configure_box_sram(b, sram) ==
  IF b = 0 THEN <<>>
  ELSE <<[start |-> sram.start, size |-> sram.size, off |-> sram.off, read |-> TRUE, write |-> TRUE]>>

vmpu_configure_box_peripherals(c) ==
  [i \in DOMAIN c.acls |-> vmpu_region_translate_acl(c.acls[i])]

\* One pass of the loop of vmpu_enumerate_boxes; whatever check fails halts.
enumerate_box ==
  LET b    == next
      c    == cfg[order[b + 1]]
      sram == vmpu_acl_sram(mem_pos, SumBss(c), c.stack)
      mine == vmpu_configure_box_sram(b, sram)
      ok   == /\ vmpu_check_sanity_box_cfgtbl(b, c)
              /\ b # 0 => sram.fits
              /\ \A i \in DOMAIN c.acls : Translates(c.acls[i])
              /\ vmpu_region_add_static_acl(Len(mine) + Len(c.acls))
  IN  /\ ~halted /\ order # <<>> /\ next < BoxCount
      /\ IF ok
         THEN /\ next' = b + 1
              /\ mem_pos' = IF b = 0 THEN mem_pos ELSE sram.start + sram.size
              /\ regions' = [regions EXCEPT ![b] = mine \o vmpu_configure_box_peripherals(c)]
              /\ UNCHANGED halted
         ELSE halted' = TRUE /\ UNCHANGED <<next, mem_pos, regions>>
      /\ UNCHANGED <<cfg, order, active, mpu, pushes, access>>

----------------------------------------------------------------------------
\* The MPU.

Lowest(S) == CHOOSE s \in S : \A t \in S : s <= t

\* Mutant: the slot after the last one written is taken, whatever it holds.
Target_next(m, priority) == IF m.slot + 1 = MaxSlots THEN REGIONS_STATIC ELSE m.slot + 1

\* The slot that vmpu_mpu_push takes: the first after g_mpu_slot, in a circle,
\* with a lower priority, else the one where the search started.
Target(m, priority) ==
  LET lower == {s \in Slots : m.priority[s] < priority}
      above == {s \in lower : s > m.slot}
  IN  IF lower = {} THEN m.slot ELSE Lowest(IF above # {} THEN above ELSE lower)

vmpu_mpu_push(m, region, priority) ==
  LET s == Target(m, priority)
  IN  [slot |-> s, region |-> [m.region EXCEPT ![s] = region],
       priority |-> [m.priority EXCEPT ![s] = priority]]

Push(region, priority) == [region |-> region, priority |-> priority]

\* The octets of the owner map of box b with a page in them, and the one that
\* page_allocator_iterate_active_page_masks meets first, from the end.
OctetsOf(b) == {Octet(Heap, p) : p \in Owned[b]}
PagePush(b) ==
  LET octets == (Heap.total + 7) \div 8
      met    == {o \in OctetsOf(b) : o >= PAGE_MAP_COUNT * 4 - octets}
  IN  IF met = {} THEN <<>>
      ELSE <<Push(PageRegion(Heap, Owned[b], CHOOSE o \in met : \A q \in met : q <= o), 100)>>

\* The pushes of vmpu_switch to box b, in order: memory of a secure box, pages,
\* ACLs, and for box 0 its ACLs again.
SwitchPushes(b) ==
  LET acls(p) == [i \in 1 .. Len(regions[b]) |-> Push(regions[b][i], p)]
  IN  IF b = 0 THEN PagePush(0) \o acls(2) \o acls(1)
      ELSE <<Push(regions[b][1], 255)>> \o PagePush(b) \o Tail(acls(2))

Running == Booted /\ ~halted /\ pushes = <<>>

\* Mutant: the regions of the box that is left stay.
vmpu_switch_kept(b) ==
  /\ mpu' = mpu
  /\ pushes' = SwitchPushes(b)
  /\ access' = NoAccess

vmpu_switch(b) ==
  /\ mpu' = vmpu_mpu_invalidate
  /\ pushes' = SwitchPushes(b)
  /\ access' = NoAccess

\* The end of vmpu_enumerate_boxes: box 0 is loaded.
load_box_0 ==
  /\ ~halted /\ order # <<>> /\ next = BoxCount
  /\ next' = next + 1
  /\ active' = 0
  /\ vmpu_switch(0)
  /\ UNCHANGED <<cfg, order, mem_pos, regions, halted>>

\* A context switch to another box; what was accessed is accessed again when
\* the box runs again.
context_switch(b) ==
  /\ Running
  /\ b # active
  /\ active' = b
  /\ vmpu_switch(b)
  /\ UNCHANGED <<boot, halted>>

push_next ==
  /\ pushes # <<>>
  /\ mpu' = vmpu_mpu_push(mpu, Head(pushes).region, Head(pushes).priority)
  /\ pushes' = Tail(pushes)
  /\ UNCHANGED <<boot, active, access, halted>>

\* The SVC of that name calls vmpu_mpu_invalidate.
vmpu_mem_invalidate ==
  /\ Running
  /\ access = NoAccess
  /\ mpu' = vmpu_mpu_invalidate
  /\ UNCHANGED <<boot, active, pushes, access, halted>>

----------------------------------------------------------------------------
\* Accesses and faults.

Holds(r, addr) == r.start <= addr /\ addr < r.start + r.size
Covers(r, addr) == Holds(r, addr) /\ (addr - r.start) \div (r.size \div 8) \notin r.off

\* What the hardware decides, by the covering region in the highest slot.
Permits(r, write) == IF write THEN r.write ELSE r.read
Allowed(a) ==
  LET hits == {s \in Slots : mpu.priority[s] > 0 /\ Covers(mpu.region[s], a.addr)}
  IN  IF hits = {} THEN a.addr = Public
      ELSE Permits(mpu.region[CHOOSE s \in hits : \A t \in hits : t <= s], a.write)

\* vmpu_region_find_for_address: the first region of the box.  Disabled
\* subregions are not looked at.
Found(b, addr) == {i \in DOMAIN regions[b] : Holds(regions[b][i], addr)}
FirstRegion(b, addr) == regions[b][Lowest(Found(b, addr))]

OwnsPageAt(addr) == InHeap(Heap, addr) /\ PageAt(Heap, addr) \in Owned[active]

\* Mutant: the ACLs of the active box are not searched.
FaultBox_public(addr) == 0

\* vmpu_fault_find_region: the active box, then box 0.
FaultBox(addr) == IF active # 0 /\ Found(active, addr) # {} THEN active ELSE 0

\* The addresses that matter: the ends of every region, its guard, and pages.
Addresses ==
  UNION {UNION {LET r == regions[b][i] IN
                  {r.start, r.start + r.size - 8} \cup {r.start + k * (r.size \div 8) : k \in r.off}
                : i \in DOMAIN regions[b]} : b \in BoxIds}
  \cup {PageStart(Heap, p) : p \in 0 .. Heap.total - 1} \cup {Public}

\* Code of the active box makes an access that the MPU does not allow.
access_denied ==
  /\ Running
  /\ access = NoAccess
  /\ \E addr \in Addresses, write \in BOOLEAN :
       /\ access' = [addr |-> addr, write |-> write]
       /\ ~Allowed(access')
  /\ UNCHANGED <<boot, active, mpu, pushes, halted>>

\* vmpu_fault_recovery_mpu, called by vmpu_sys_mux_handler, which halts when
\* there is nothing to load.
fault_recovery ==
  LET addr == access.addr
      b    == FaultBox(addr)
  IN  /\ Running
      /\ access # NoAccess
      /\ ~Allowed(access)
      /\ IF OwnsPageAt(addr)
         THEN /\ mpu' = vmpu_mpu_push(mpu, PageRegion(Heap, Owned[active],
                                                      Octet(Heap, PageAt(Heap, addr))), 100)
              /\ UNCHANGED halted
         ELSE IF Found(b, addr) # {}
         THEN /\ mpu' = vmpu_mpu_push(mpu, FirstRegion(b, addr), 3)
              /\ UNCHANGED halted
         ELSE halted' = TRUE /\ UNCHANGED mpu
      /\ UNCHANGED <<boot, active, pushes, access>>

access_repeated ==
  /\ Running
  /\ access # NoAccess
  /\ Allowed(access)
  /\ access' = NoAccess
  /\ UNCHANGED <<boot, active, mpu, pushes, halted>>

Next == \/ order_boxes \/ enumerate_box \/ load_box_0
        \/ push_next \/ \E b \in 0 .. BoxCount - 1 : context_switch(b)
        \/ vmpu_mem_invalidate
        \/ access_denied \/ fault_recovery \/ access_repeated

\* The core runs its own loop, and the processor repeats what faulted.
Spec == Init /\ [][Next]_vars
        /\ WF_vars(push_next) /\ WF_vars(fault_recovery) /\ WF_vars(access_repeated)

----------------------------------------------------------------------------
Secure == 1 .. next - 1                         \* secure boxes configured so far
Sram(b) == regions[b][1]
ConfigOf(b) == cfg[order[b + 1]]

\* The bytes of subregion k of a region.
Sub(r, k) == r.start + k * (r.size \div 8)

\* The order that was chosen has every box once, box 0 first.
OrderSound ==
  order # <<>> =>
    /\ order \in [1 .. BoxCount -> 1 .. BoxCount]
    /\ order[1] = 1
    /\ \A i, j \in 1 .. BoxCount : order[i] = order[j] => i = j

\* The sections that box b was given in its memory r end at or below address a.
SectionsEndBy(r, c, a) ==
  \A i \in Sections : c.bss[i] > 0 => r.start + SectionAt(c)[i] + c.bss[i] <= a

\* The memory r is divided by a guard, one whole subregion: the sections end
\* before its end, so that none reaches into the stack, and below it if the
\* sizes need no rounding; above it there is room for the stack.
Guarded(r, c) ==
  \E k \in 1 .. 6 :
    /\ r.off = {k}
    /\ SectionsEndBy(r, c, Sub(r, k + 1))
    /\ c.bss[1] % 4 = 0 /\ c.bss[2] % 4 = 0 => SectionsEndBy(r, c, Sub(r, k))
    /\ r.size - (k + 1) * (r.size \div 8) >= c.stack

\* Whatever the sizes and the order: every box is configured once; the memory of
\* a secure box is aligned to its size, as the MPU requires, and shares no byte
\* with another box; of its BSS sections, as vmpu_box_index_init rounds and lays
\* them out, none reaches over the guard into the stack, and none into the guard
\* if all sizes are multiples of 4; the stack has the size that was asked for;
\* the boxes end before bss_boxes_end.  The sanity checks at
\* vmpu_armv7m.c:355-360 never fail.
LayoutSound ==
  next <= BoxCount =>
  /\ OrderSound
  /\ order # <<>> /\ next \in 1 .. BoxCount - 1 =>
       vmpu_acl_sram(mem_pos, SumBss(ConfigOf(next)), ConfigOf(next).stack).fits
  /\ \A b \in Secure :
       LET r == Sram(b)
       IN  /\ r.start % r.size = 0
           /\ r.start >= BoxesStart /\ r.start + r.size <= BoxesEnd
           /\ \A c \in Secure \ {b} : r.start + r.size <= Sram(c).start \/ Sram(c).start + Sram(c).size <= r.start
           /\ Guarded(r, ConfigOf(b))

\* "updates the best_order array with the configuration that minimizes the
\* SRAM usage" (vmpu_armv7m.c:571): no order of the boxes would end lower than
\* where they end, alignment included.
LeastMemory ==
  next = BoxCount =>
    \A o \in [1 .. BoxCount - 1 -> 1 .. BoxCount - 1] :
      Cardinality({o[i] : i \in DOMAIN o}) = BoxCount - 1 =>
        mem_pos <= SramEnd(Sizes, o, BoxesStart)

\* At boot, wherever the page heap starts and ends, and however many pages the linker
\* left for it: each page is exactly the MPU subregion that its bit in the owner
\* map stands for, inside the heap and inside the map.  Neither the rounded
\* end, the clamp to the table size, nor the eight-bit page count opens a byte
\* of another page.
PagesAreSubregions == order = <<>> =>
  \A bound \in HeapBounds \cup {<<HeapStart, HeapEnd>>} :
    LET heap == page_allocator_init(bound[1], bound[2], PageSize) IN
    \A p \in 0 .. heap.total - 1 :
      LET r == PageRegion(heap, {p}, Octet(heap, p)) IN
      /\ PageStart(heap, p) = Sub(r, Subregion(heap, p))
      /\ r.start % r.size = 0
      /\ MapBit(heap, p) < 32 * PAGE_MAP_COUNT
      /\ bound[1] <= PageStart(heap, p) /\ PageStart(heap, p) + PageSize <= bound[2]

\* The regions of the active box: its own, those of box 0, and its pages.
RegionsOf(b) ==
  {regions[b][i] : i \in DOMAIN regions[b]} \cup {regions[0][i] : i \in DOMAIN regions[0]}
  \cup {PageRegion(Heap, Owned[b], o) : o \in OctetsOf(b)}

\* Whatever was switched, evicted, faulted and invalidated before: the MPU
\* holds no region of a box other than the active one and box 0.
OnlyOwnRegions ==
  \A s \in Slots : mpu.priority[s] > 0 => mpu.region[s] \in RegionsOf(active)

\* The memory of a secure box, loaded first with the highest priority, is not
\* evicted by any number of faults: "take the next position that does not have
\* the highest priority" (vmpu_armv7m_mpu.c:429), although the code takes the
\* last slot written without looking at its priority.
StackKept ==
  [][\A s \in Slots :
       mpu.priority[s] = 255 =>
         \/ mpu'.region[s] = mpu.region[s] /\ mpu'.priority[s] = 255
         \/ mpu' = vmpu_mpu_invalidate]_vars

\* Is the access in a page of the active box, or does a region of it or of box
\* 0 allow it?
Permitted(a) ==
  \/ OwnsPageAt(a.addr)
  \/ \E b \in {active, 0} : \E i \in DOMAIN regions[b] :
       Covers(regions[b][i], a.addr) /\ Permits(regions[b][i], a.write)

\* An access that the ACLs of the active box or box 0, or its pages, allow is
\* carried out after some number of faults, whatever the MPU holds: it neither
\* faults for ever nor halts the system.  (Of ACLs that overlap and differ the
\* handler would have to load the right one in the highest slot, and does not.)
AccessServed == (access # NoAccess /\ Permitted(access)) ~> (access = NoAccess)
=============================================================================
