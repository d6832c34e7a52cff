--------------------------- MODULE PageAllocator ---------------------------
(***************************************************************************)
(* The page heap of core/system/src/page_allocator.c and the part of the   *)
(* ARMv7-M vMPU that opens its pages to the active box.                    *)
(*                                                                         *)
(* Allocation and release run in an SVC handler, so each is one step.  The *)
(* MPU is a cache of the ownership map: a box switch loads one octet of    *)
(* pages, an access to an owned page that is not loaded faults and loads   *)
(* the octet of that page, and nothing reloads the MPU when pages are      *)
(* freed.  The content of a page is abstracted to the boxes whose data it  *)
(* holds, which is what the isolation of boxes is about.                   *)
(***************************************************************************)
EXTENDS Integers, FiniteSets, Sequences

CONSTANTS Total,        \* g_page_count_total
          Shift,        \* g_page_map_shift
          OctetWidth,   \* pages under one MPU region, 8 on ARMv7-M
          LastBox,      \* UVISOR_MAX_BOXES - 1
          SharedFree,   \* may a box list pages of box 0 in a table it frees?
          MaxTable      \* bound on the page_count of a table given to free

ASSUME PageAssumption ==
  /\ Total \in Nat /\ Shift \in Nat /\ OctetWidth \in Nat \ {0}
  /\ LastBox \in Nat /\ MaxTable \in Nat
  /\ SharedFree \in BOOLEAN

Pages == 0 .. Total - 1
Boxes == 0 .. LastBox
Nowhere == Total             \* a pointer that is in no page of the heap

VARIABLES
  owner,       \* g_page_owner_map: box -> the pages it may access
  usage,       \* g_page_usage_map: the pages that are allocated
  count_free,  \* g_page_count_free
  active,      \* g_active_box
  loaded,      \* the pages that the MPU lets the active box access
  content      \* page -> the boxes whose data is in the page

vars == <<owner, usage, count_free, active, loaded, content>>

----------------------------------------------------------------------------
Init ==
  /\ owner = [b \in Boxes |-> {}]
  /\ usage = {}
  /\ count_free = Total
  /\ active = 0
  /\ loaded = {}
  /\ content = [p \in Pages |-> {}]

(***************************************************************************)
(* page_allocator_malloc                                                   *)
(***************************************************************************)

\* The first n pages that the usage map does not mark, or all of them.
FirstUnused(n) ==
  LET unused == Pages \ usage
  IN  {p \in unused : Cardinality({q \in unused : q < p}) < n}

\* Pages of box 0 are accessible to all other boxes.
OwnersFor(b) == IF b = 0 THEN Boxes ELSE {b}

Granted(ps) == [b \in Boxes |-> IF b \in OwnersFor(active) THEN owner[b] \cup ps ELSE owner[b]]

Zeroed_skipped(ps) == content

\* memset before handing the page out.
Zeroed(ps) == [p \in Pages |-> IF p \in ps THEN {} ELSE content[p]]

malloc_code(n, size_ok) ==
  CASE n = 0 -> "INVALID_PAGE_COUNT"
    [] n > 0 /\ ~size_ok -> "INVALID_PAGE_SIZE"
    [] n > 0 /\ size_ok /\ n > count_free -> "OUT_OF_MEMORY"
    [] OTHER -> "OK"

page_allocator_malloc(n, size_ok) ==
  LET code == malloc_code(n, size_ok)
      ps   == IF code = "OK" THEN FirstUnused(n) ELSE {}
  IN  /\ count_free' = IF code = "OK" THEN count_free - n ELSE count_free
      /\ usage' = usage \cup ps
      /\ owner' = Granted(ps)
      /\ content' = Zeroed(ps)
      /\ UNCHANGED <<active, loaded>>

(***************************************************************************)
(* page_allocator_free                                                     *)
(***************************************************************************)

Accepted_any_allocated(table, i) ==
  /\ table[i] \in Pages
  /\ table[i] \in usage
  /\ \A j \in 1 .. i - 1 : table[j] # table[i]

\* The loop clears the owner bit of each page it accepts, so a page listed a
\* second time is no longer owned.
Accepted(table, i) ==
  /\ table[i] \in Pages
  /\ table[i] \in owner[active]
  /\ \A j \in 1 .. i - 1 : table[j] # table[i]

\* The loop stops at the first entry that it rejects.
Rejected(table) == {i \in DOMAIN table : ~Accepted(table, i)}
FreedBy(table) ==
  {table[i] : i \in {i \in DOMAIN table : \A j \in 1 .. i : j \notin Rejected(table)}}

check_code(table, size_ok) ==
  CASE count_free = Total -> "INVALID_PAGE_TABLE"
    [] count_free # Total /\ ~size_ok -> "INVALID_PAGE_SIZE"
    [] count_free # Total /\ size_ok /\ table = <<>> -> "INVALID_PAGE_COUNT"
    [] count_free # Total /\ size_ok /\ Len(table) > Total - count_free -> "INVALID_PAGE_TABLE"
    [] OTHER -> "OK"

\* What page_allocator_free returns: the checks before the loop, then the loop.
free_code(table, size_ok) ==
  IF check_code(table, size_ok) # "OK" \/ Rejected(table) = {}
  THEN check_code(table, size_ok)
  ELSE LET first == CHOOSE i \in Rejected(table) : \A j \in Rejected(table) : i <= j
       IN  IF table[first] \in Pages THEN "INVALID_PAGE_OWNER" ELSE "INVALID_PAGE_ORIGIN"

Revoked_caller_only(ps) == [owner EXCEPT ![active] = @ \ ps]

Revoked(ps) == [b \in Boxes |-> IF b \in OwnersFor(active) THEN owner[b] \ ps ELSE owner[b]]

page_allocator_free(table, size_ok) ==
  LET ps == IF check_code(table, size_ok) = "OK" THEN FreedBy(table) ELSE {}
  IN  /\ usage' = usage \ ps
      /\ owner' = Revoked(ps)
      /\ count_free' = count_free + Cardinality(ps)
      /\ UNCHANGED <<active, loaded, content>>

----------------------------------------------------------------------------
(***************************************************************************)
(* The MPU                                                                 *)
(***************************************************************************)

Octet(p) == (p + Shift) \div OctetWidth

\* The mask of an octet: the pages under it that box b owns.
Mask(b, o) == {p \in owner[b] : Octet(p) = o}

\* page_allocator_iterate_active_page_masks visits the octets from the end of
\* the heap and the callback stops it at the first mask that is not empty.
\* It visits as many octets as Total pages fill when they are aligned.
LastOctet == Octet(Total - 1)
VisitedOctets == {o \in 0 .. LastOctet : o > LastOctet - (Total + OctetWidth - 1) \div OctetWidth}
PagesAtSwitch(b) ==
  LET full == {o \in VisitedOctets : Mask(b, o) # {}}
  IN  UNION {Mask(b, o) : o \in {o \in full : \A other \in full : other <= o}}

vmpu_switch_no_invalidate(b) == loaded \cup PagesAtSwitch(b)

\* vmpu_switch drops the regions of the box that is left.
vmpu_switch(b) == PagesAtSwitch(b)

\* context_switch_in and context_switch_out call vmpu_switch when the box changes.
SwitchBox(b) ==
  /\ b # active
  /\ active' = b
  /\ loaded' = vmpu_switch(b)
  /\ UNCHANGED <<owner, usage, count_free, content>>

\* vmpu_fault_recovery_mpu: the region of the faulting page may take the slot
\* of another page region.  An access to a page the box does not own halts.
PageFault(p) ==
  /\ p \in owner[active] \ loaded
  /\ \E kept \in SUBSET loaded : loaded' = kept \cup Mask(active, Octet(p))
  /\ UNCHANGED <<owner, usage, count_free, active, content>>

\* A fault on another region of the box may evict page regions.
OtherFault ==
  /\ loaded' \in SUBSET loaded
  /\ UNCHANGED <<owner, usage, count_free, active, content>>

\* The active box writes its data to a page that the MPU opens.
Write(p) ==
  /\ p \in loaded
  /\ content' = [content EXCEPT ![p] = @ \cup {active}]
  /\ UNCHANGED <<owner, usage, count_free, active, loaded>>

----------------------------------------------------------------------------
\* Pages of box 0 are in the owner map of every box.
Disciplined(table) ==
  SharedFree \/ active = 0 \/ \A i \in DOMAIN table : table[i] \notin owner[0]

Tables == UNION {[1 .. n -> 0 .. Total] : n \in 0 .. MaxTable}

Next ==
  \/ \E n \in 0 .. Total + 1, size_ok \in BOOLEAN : page_allocator_malloc(n, size_ok)
  \/ \E table \in Tables, size_ok \in BOOLEAN :
        Disciplined(table) /\ page_allocator_free(table, size_ok)
  \/ \E b \in Boxes : SwitchBox(b)
  \/ \E p \in Pages : PageFault(p) \/ Write(p)
  \/ OtherFault

Spec == Init /\ [][Next]_vars

----------------------------------------------------------------------------
TypeOK ==
  /\ owner \in [Boxes -> SUBSET Pages]
  /\ usage \in SUBSET Pages
  /\ count_free \in Int
  /\ active \in Boxes
  /\ loaded \in SUBSET Pages
  /\ content \in [Pages -> SUBSET Boxes]

\* The free counter is the number of pages the usage map does not mark, so a
\* malloc that passes the check of g_page_count_free finds all its pages
\* (page_allocator_malloc subtracts the pages it is asked for before it looks
\* for them, page_allocator_free adds one per table entry).
FreeCount == count_free = Cardinality(Pages \ usage)

\* The usage map marks exactly the pages in some owner map: no page is lost to
\* every box and none is handed out while a box still owns it.
UsageIsOwnership == usage = UNION {owner[b] : b \in Boxes}

\* A page is accessible to every box, if box 0 allocated it, or to one box:
\* no sequence of malloc and free gives two secure boxes a page in common.
SecurePagesDisjoint ==
  \A b, c \in Boxes : b # c => \A p \in owner[b] \cap owner[c] : p \in owner[0]

\* Pages of box 0 are accessible to all other boxes (page_allocator_malloc,
\* the loop over UVISOR_MAX_BOXES).
PublicPagesShared == \A b \in Boxes : owner[0] \subseteq owner[b]

\* The MPU is a cache that malloc and free do not refresh; still, every page it
\* opens is a page of the active box or a page that nobody owns: a page is
\* never open to one box while another has it.
NoStaleAccess == loaded \subseteq owner[active] \cup (Pages \ usage)

\* An allocated page holds data of boxes that may access it only: whatever the
\* previous owner left there is zeroed before the page changes hands.
Confidentiality == \A p \in usage : \A c \in content[p] : p \in owner[c]

\* The inductive invariant: each part needs the others.  A page that malloc
\* takes from the usage map is in no owner map, so granting it shares nothing;
\* a page the MPU still opens after a free is one that nobody owns.
PageInv ==
  /\ TypeOK
  /\ UsageIsOwnership
  /\ SecurePagesDisjoint
  /\ PublicPagesShared
  /\ NoStaleAccess
  /\ Confidentiality

\* "Otherwise, remember ownership only for active box." (page_allocator_malloc):
\* a page that a secure box is given is a page no other box may access.
MallocPrivate ==
  [][active # 0 => \A p \in usage' \ usage : \A b \in Boxes \ {active} : p \notin owner'[b]]_vars
============================================================================
