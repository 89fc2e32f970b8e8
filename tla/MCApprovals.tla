---------------------------- MODULE MCApprovals ----------------------------
(***************************************************************************)
(* Instance of Approvals: two calls, each for one action inside a run or   *)
(* for another outside any run.                                            *)
(***************************************************************************)
EXTENDS Approvals

OneRun == {1}
Asked  == {[run |-> 1, action |-> "send"], [run |-> 0, action |-> "delete"]}
=============================================================================
