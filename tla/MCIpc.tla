------------------------------- MODULE MCIpc -------------------------------
(***************************************************************************)
(* Two boxes: thread "s" of box 0 sends, thread "r" of box 1 receives.     *)
(***************************************************************************)
EXTENDS Ipc

MCBoxOf == [t \in Threads |-> IF t = "r" THEN 1 ELSE 0]

Request(kind, box, accessible) ==
  [kind |-> kind,
   desc |-> [box |-> box, port |-> 1, len |-> 1, accessible |-> accessible]]

\* Sends to box 1 and to a box that does not exist; receives from any box, and
\* from box 0 into a buffer that box 1 does not own.
MCRequests ==
  [t \in Threads |->
     CASE t = "s" -> {Request("send", 1, TRUE), Request("send", 2, TRUE)}
       [] t = "r" -> {Request("recv", ANY, TRUE), Request("recv", 0, FALSE)}]

Wait(cond, wait) == [cond |-> cond, wait |-> wait]

MCWaits ==
  [t \in Threads |->
     CASE t = "s" -> {Wait("any", Tokens), Wait("all", {1, 2})}
       [] t = "r" -> {}]
=============================================================================
