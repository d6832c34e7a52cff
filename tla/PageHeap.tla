------------------------------ MODULE PageHeap ------------------------------
(***************************************************************************)
(* Where the pages of the page heap lie, and which MPU subregion protects  *)
(* each: page_allocator_init of core/system/src/page_allocator.c and the   *)
(* map arithmetic of page_allocator_config.h and page_allocator_faults.c.  *)
(*                                                                         *)
(* The owner maps are read from their end: the last bit stands for the     *)
(* last page below the heap end rounded up to eight pages, so that each    *)
(* byte of a map is the mask of one MPU region with eight subregions.      *)
(***************************************************************************)
EXTENDS Integers

CONSTANTS PAGE_MAX_COUNT,      \* UVISOR_PAGE_MAX_COUNT
          PAGE_MAP_COUNT       \* UVISOR_PAGE_MAP_COUNT, in words of 32 bits

Byte(n) == n % 256

vmpu_round_up_region(addr, size) == ((addr + size - 1) \div size) * size

\* Mutant: the heap end is not rounded before the map is shifted.
Shift_aligned(total, off) == Byte(PAGE_MAP_COUNT * 32 - total)

Shift(total, off) == Byte(PAGE_MAP_COUNT * 32 - total - off)

\* page_allocator_init, for a page size that the platform supports.  The page
\* count is a byte, and is clamped after it has been stored.
page_allocator_init(heap_start, heap_end, page_size) ==
  LET first   == vmpu_round_up_region(heap_start, page_size)
      count   == IF first + page_size > heap_end THEN 0
                 ELSE Byte((heap_end - first) \div page_size)
      clamped == count > PAGE_MAX_COUNT
      start   == IF clamped THEN first + (count - PAGE_MAX_COUNT) * page_size ELSE first
      total   == IF clamped THEN PAGE_MAX_COUNT ELSE count
      end     == start + total * page_size
      rounded == vmpu_round_up_region(end, page_size * 8)
  IN  [size |-> page_size, start |-> start, total |-> total, end |-> end, rounded |-> rounded,
       shift |-> Shift(total, (rounded - end) \div page_size)]

\* page_allocator_get_page_from_address.
InHeap(heap, addr)  == heap.start <= addr /\ addr < heap.end
PageAt(heap, addr)  == (addr - heap.start) \div heap.size
PageStart(heap, p)  == heap.start + p * heap.size

\* The bit of a page in the maps, the byte it is in, and its place there.
MapBit(heap, p)    == Byte(p + heap.shift)
Octet(heap, p)     == MapBit(heap, p) \div 8
Subregion(heap, p) == MapBit(heap, p) % 8

\* The region of vmpu_mem_push_page_acl_iterator for octet o of a map in which
\* the pages of owned are set; the subregions of the others are disabled.
PageRegion(heap, owned, o) ==
  [start |-> heap.rounded - heap.size * 8 * (PAGE_MAP_COUNT * 4 - o), size |-> heap.size * 8,
   off   |-> (0 .. 7) \ {Subregion(heap, p) : p \in {q \in owned : Octet(heap, q) = o}},
   read  |-> TRUE, write |-> TRUE]
=============================================================================
