----------------------------- MODULE BoxLayout -----------------------------
(***************************************************************************)
(* Where the secure boxes lie in SRAM: the arithmetic of                   *)
(* core/vmpu/src/mpu_armv7m/vmpu_armv7m.c, which divides a power-of-two    *)
(* MPU region of each box into eight subregions, for its BSS sections, a   *)
(* guard and its stack, and orders the boxes so that they need the least   *)
(* memory.                                                                 *)
(***************************************************************************)
EXTENDS Integers, Sequences

Sq == INSTANCE SequencesExt

CONSTANT MIN_STACK_SIZE       \* UVISOR_MIN_STACK_SIZE

ALIGNMENT_BITS == 5           \* ARMv7M_MPU_ALIGNMENT_BITS

\* vmpu_region_bits: the least power of two that holds size bytes, 32 at least.
vmpu_region_bits(size) ==
  CHOOSE b \in ALIGNMENT_BITS .. 29 :
    2 ^ b >= size /\ \A c \in ALIGNMENT_BITS .. b - 1 : 2 ^ c < size

UVISOR_MIN_STACK(size) == IF size < MIN_STACK_SIZE THEN MIN_STACK_SIZE ELSE size

\* The size that vmpu_acl_sram_region_size returns: 2/8 are kept for the guard
\* and for rounding, and subregions need 2^8 bytes at least.
vmpu_acl_sram_region_size(bss, stack) ==
  LET bits == vmpu_region_bits(((stack + bss) * 8) \div 6)
  IN  2 ^ (IF bits < 8 THEN 8 ELSE bits)

\* Mutant: a region starts where the one before it ends.
Aligned_not(pos, size) == pos

\* The start that it puts the region at, the first multiple of the size.
Aligned(pos, size) == IF pos % size # 0 THEN (pos - (pos % size)) + size ELSE pos

\* The region of vmpu_acl_sram for a box whose memory starts at pos or after.
\* off is the set of disabled subregions; fits says whether the sanity checks
\* pass.
vmpu_acl_sram(pos, bss, stack_size) ==
  LET stack  == UVISOR_MIN_STACK(stack_size)
      size   == vmpu_acl_sram_region_size(bss, stack)
      sub    == size \div 8
      nbss   == (bss + sub - 1) \div sub
      nstack == IF nbss > 0 THEN 8 - nbss - 1 ELSE 8
  IN  [start |-> Aligned(pos, size), size |-> size,
       off   |-> IF nbss > 0 THEN {nbss} ELSE {},
       fits  |-> nbss * sub >= bss /\ nstack * sub >= stack]

\* sizes is a sequence: the bytes of BSS and of stack of each secure box, in
\* the order of the configuration table.  An order is a permutation of its
\* indices.
SramEnds(sizes, order, start) ==      \* after each of the boxes
  LET end[k \in 0 .. Len(order)] ==
        IF k = 0 THEN start
        ELSE LET size == vmpu_acl_sram_region_size(sizes[order[k]].bss, sizes[order[k]].stack)
             IN  Aligned(end[k - 1], size) + size
  IN  end
SramEnd(sizes, order, start) == SramEnds(sizes, order, start)[Len(order)]

swap_boxes(order, i, j) == [order EXCEPT ![i] = order[j], ![j] = order[i]]

\* The permutations in the order in which __vmpu_order_boxes visits them.
Visited(n) ==
  LET visit[k \in 1 .. n + 1] ==    \* those that differ from k on, as changes
        IF k >= n THEN <<[o \in 1 .. n |-> o]>>
        ELSE Sq!FlattenSeq([i \in 1 .. n - k + 1 |->
               [j \in DOMAIN visit[k + 1] |->
                  [o \in 1 .. n |-> swap_boxes([p \in 1 .. n |-> p], k, k + i - 1)
                                      [visit[k + 1][j][o]]]]])
  IN  visit[1]

\* Mutant: the configuration order is kept.
vmpu_order_boxes_none(sizes, start) == [i \in DOMAIN sizes |-> i]

\* vmpu_order_boxes: the first of them that needs the least memory.
vmpu_order_boxes(sizes, start) ==
  LET all  == Visited(Len(sizes))
      best == CHOOSE k \in DOMAIN all :
                \A j \in DOMAIN all :
                  /\ SramEnd(sizes, all[k], start) <= SramEnd(sizes, all[j], start)
                  /\ j < k => SramEnd(sizes, all[k], start) < SramEnd(sizes, all[j], start)
  IN  all[best]
=============================================================================
