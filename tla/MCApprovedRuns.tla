--------------------------- MODULE MCApprovedRuns ---------------------------
(***************************************************************************)
(* Instance of ApprovedRuns: one run of at most two attempts, one process. *)
(***************************************************************************)
EXTENDS ApprovedRuns

CONSTANT w1

OneRun  == 1..1
Single  == {w1}
None    == {}
=============================================================================
