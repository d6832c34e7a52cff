------------------------------- MODULE MCVirq -------------------------------
(* Instances of Virq for TLC.                                               *)
EXTENDS Virq, TLC
=============================================================================
