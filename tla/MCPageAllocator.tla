-------------------------- MODULE MCPageAllocator --------------------------
(* Instances of PageAllocator for TLC.                                      *)
EXTENDS PageAllocator, TLC
============================================================================
