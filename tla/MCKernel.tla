------------------------------ MODULE MCKernel ------------------------------
(***************************************************************************)
(* Four boxes, of which 1 and 3 have an init handler; an IRQ of each of    *)
(* these, of which the second preempts the first; a thread of box 0 and    *)
(* one of box 1.                                                           *)
(***************************************************************************)
EXTENDS Kernel

MCHomeOf     == [t \in {"t", "u"} |-> IF t = "t" THEN 1 ELSE 0]
MCOwnerOf    == [i \in {"i", "j"} |-> IF i = "i" THEN 1 ELSE 3]
MCPriorityOf == [i \in {"i", "j"} |-> IF i = "i" THEN 1 ELSE 0]
=============================================================================
