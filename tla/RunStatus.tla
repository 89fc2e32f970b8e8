----------------------------- MODULE RunStatus -----------------------------
(***************************************************************************)
(* The statuses of a task run and the table of transitions the run store   *)
(* consults (server/src/runs/store.ts).  Both the abstract life of a run   *)
(* (RunLifecycle) and the store with its executors (TaskRuns) use them.    *)
(***************************************************************************)

Statuses == {"queued", "running", "waiting_for_approval", "waiting_for_input",
             "succeeded", "failed", "cancelled"}

Terminal == {"succeeded", "failed", "cancelled"}

Waiting == {"waiting_for_approval", "waiting_for_input"}

\* A run whose row has not been inserted yet.
Absent == "absent"

\* The table TRANSITIONS, as a function from a status to its successors.
Transitions ==
  [s \in Statuses |->
     CASE s = "queued"  -> {"running", "failed", "cancelled"}
       [] s = "running" -> Statuses \ {"running"}
       [] s \in Waiting -> {"running", "failed", "cancelled"}
       [] OTHER         -> {}]
=============================================================================
