---------------------------- MODULE RunLifecycle ----------------------------
(***************************************************************************)
(* What a run promises to a reader of its row, whoever writes it: the      *)
(* status only moves along the table of transitions, the attempt number    *)
(* only grows, by one, when a queued run starts, and a finished run stays  *)
(* as it finished.                                                         *)
(*                                                                         *)
(* The store checks the table in transitionOn alone; claiming, settling    *)
(* and recovering write the status directly.  TaskRuns implements this     *)
(* specification, so those paths obey the table as well.                   *)
(***************************************************************************)
EXTENDS Naturals, RunStatus

CONSTANT Runs

VARIABLES status, attempt

vars == <<status, attempt>>

TypeOK == /\ status \in [Runs -> Statuses \cup {Absent}]
          /\ attempt \in [Runs -> Nat]

Init == /\ status = [r \in Runs |-> Absent]
        /\ attempt = [r \in Runs |-> 0]

Create(r) ==
  /\ status[r] = Absent
  /\ status' = [status EXCEPT ![r] = "queued"]
  /\ UNCHANGED attempt

\* A queued run starts its next attempt.
Start(r) ==
  /\ status[r] = "queued"
  /\ status' = [status EXCEPT ![r] = "running"]
  /\ attempt' = [attempt EXCEPT ![r] = @ + 1]

Move(r, s) ==
  /\ status[r] \in Statuses
  /\ s \in Transitions[status[r]]
  /\ status' = [status EXCEPT ![r] = s]
  /\ UNCHANGED attempt

\* One recovery transaction gives up on any number of lost attempts.
GiveUp(lost) ==
  /\ \A r \in lost : status[r] = "running"
  /\ \E outcome \in [lost -> {"queued", "failed"}] :
       status' = [r \in Runs |-> IF r \in lost THEN outcome[r] ELSE status[r]]
  /\ UNCHANGED attempt

Next ==
  \/ \E r \in Runs : Create(r) \/ Start(r)
  \/ \E r \in Runs, s \in Statuses : Move(r, s)
  \/ \E lost \in SUBSET Runs : GiveUp(lost)

Spec == Init /\ [][Next]_vars
=============================================================================
