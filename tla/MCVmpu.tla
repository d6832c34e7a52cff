------------------------------- MODULE MCVmpu -------------------------------
EXTENDS Vmpu

RO == {"UREAD", "SREAD"}
RW == {"UREAD", "UWRITE", "SREAD", "SWRITE"}
Acl(start, size, round, acl) == [start |-> start, size |-> size, round |-> round, acl |-> acl]
Box(bss, stack, acls) == [bss |-> bss, stack |-> stack, acls |-> acls]
Box0 == Box(<<12, 52, 0>>, 0, <<Acl(8192, 32, "none", RW)>>)

\* Peripherals: a register block within a larger one, and sizes to round.
Peripherals == <<Acl(8448, 64, "none", RW), Acl(8448, 250, "up", RW), Acl(8704, 40, "down", RO)>>

\* Secure boxes without ACLs, of 256, 256, 512 and 1024 bytes; the third fills
\* its region but for the guard and rounding.
Plain == {Box(<<12, 0, 0>>, 64, <<>>), Box(<<31, 0, 1>>, 64, <<>>),
          Box(<<13, 51, 1>>, 319, <<>>), Box(<<80, 20, 33>>, 320, <<>>)}

\* The tables: every choice of three plain boxes; a box with peripherals and
\* one without; and tables that are refused, for a size that is not rounded, an
\* ACL that the hardware cannot express, a start that is not aligned, a size
\* that is too small to be rounded down, a stack or an index that is too small,
\* a heap of box 0, too many regions, too much memory, and no secure box.
MCTables ==
  {<<Box0, a, b, c>> : a \in Plain, b \in Plain, c \in Plain}
  \cup
  { <<Box0, Box(<<30, 70, 32>>, 200, Peripherals), Box(<<12, 0, 0>>, 64, <<>>)>>,
    <<Box0, Box(<<12, 0, 0>>, 64, <<Acl(8448, 65, "none", RW)>>)>>,
    <<Box0, Box(<<12, 0, 0>>, 64, <<Acl(8448, 64, "none", {"UWRITE"})>>)>>,
    <<Box0, Box(<<12, 0, 0>>, 64, <<Acl(8464, 64, "none", RO)>>)>>,
    <<Box0, Box(<<12, 0, 0>>, 64, <<Acl(8448, 30, "down", RO)>>)>>,
    <<Box0, Box(<<12, 0, 0>>, 40, <<>>)>>,
    <<Box0, Box(<<11, 0, 0>>, 64, <<>>)>>,
    <<[Box0 EXCEPT !.bss = <<12, 52, 4>>], Box(<<12, 0, 0>>, 64, <<>>)>>,
    <<Box0, Box(<<12, 0, 0>>, 64, [i \in 1 .. 6 |-> Acl(8192 + 64 * i, 64, "none", RO)])>>,
    <<Box0, Box(<<2000, 0, 0>>, 640, <<>>)>>,
    <<Box0>> }

\* Heaps of 0 to 20 pages at every alignment, and of 255 to 257 pages.
MCHeapBounds ==
  {<<s, e>> : s \in {16384 + 16 * i : i \in 0 .. 16}, e \in {16672 + 16 * i : i \in 0 .. 24}}
  \cup {<<16384, 16384 + 32 * n>> : n \in 255 .. 257}

MCOwned == [b \in 0 .. 3 |-> CASE b = 0 -> {0, 1} [] b = 1 -> {2, 3, 10} [] OTHER -> {}]
=============================================================================
