---------------------------- MODULE MCPoolQueue ----------------------------
(* Instances of PoolQueue for TLC.                                          *)
EXTENDS PoolQueue, TLC

\* A pool whose threads allocate, enqueue, free and dequeue: the pools of IPC
\* and of outgoing RPC.  The core also uses try_find_first.
OpsWithoutFind == OpNames \ {"find_first"}

\* The pool of incoming RPC: threads search the queue themselves.
OpsWithFind == {"allocate", "enqueue", "find_first"}
============================================================================
