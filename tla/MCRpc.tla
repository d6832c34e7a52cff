------------------------------- MODULE MCRpc -------------------------------
(***************************************************************************)
(* Boxes 0 and 2 call functions of box 1.                                  *)
(***************************************************************************)
EXTENDS Rpc

MCBoxOf ==
  [t \in Threads |-> CASE t \in {"a", "c", "d"} -> 0 [] t = "e" -> 2 [] OTHER -> 1]

Gateway(fn, valid) == [box |-> 1, fn |-> fn, valid |-> valid]

\* "a" and "c" make asynchronous calls; "d" only waits for the calls of "c";
\* "e" makes synchronous calls, also through a gateway that is not in flash.
MCCalls ==
  [t \in Threads |->
     CASE t = "a" -> {[gateway |-> Gateway("f", TRUE), sync |-> FALSE]}
       [] t = "c" -> {[gateway |-> Gateway("f", TRUE), sync |-> FALSE]}
       [] t = "e" -> {[gateway |-> Gateway("g", TRUE), sync |-> TRUE],
                      [gateway |-> Gateway("g", FALSE), sync |-> TRUE]}
       [] OTHER   -> {}]

MCMaxCalls == [b \in Boxes |-> CASE b = 0 -> 2 [] b = 1 -> 0 [] b = 2 -> 1]

\* "s" and "t" serve one group; "r" tries two, but there is room for one.
MCServes ==
  [t \in Threads |->
     CASE t = "r"          -> {{"f"}, {"f", "g"}}
       [] t \in {"s", "t"} -> {{"f"}}
       [] OTHER            -> {}]
=============================================================================
