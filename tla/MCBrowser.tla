------------------------------ MODULE MCBrowser ------------------------------
(***************************************************************************)
(* Instance of Browser: three calls at once, of any kind, three launches.  *)
(***************************************************************************)
EXTENDS Browser, TLC

CONSTANTS c1, c2, c3

MCSymmetry == Permutations(Calls)

MCBudget == [act |-> 3, human |-> 2, secret |-> 2, stop |-> 1, reset |-> 1,
             takes |-> 2, faults |-> 2]
=============================================================================
