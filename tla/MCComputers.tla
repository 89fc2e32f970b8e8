---------------------------- MODULE MCComputers ----------------------------
(***************************************************************************)
(* Instance of Computers: two callers (1 and 2) and two orders (3 and 4),  *)
(* all for one Bot, or one each for two Bots that want one slot.  Scenes   *)
(* that differ by a renaming are left out, and so are two stops.           *)
(***************************************************************************)
EXTENDS Computers

ForOne  == [i \in 1..4 |-> 1]
ForEach == [i \in 1..4 |-> IF i \in {2, 4} THEN 2 ELSE 1]

MCScenes == [bot : {ForOne, ForEach},
             kind : {[o \in {3, 4} |-> "reset"],
                     [o \in {3, 4} |-> IF o = 3 THEN "stop" ELSE "reset"]}]
=============================================================================
