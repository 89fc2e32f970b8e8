---------------------------- MODULE ApprovedRuns ----------------------------
(***************************************************************************)
(* The executor and human approval together: the attempt that executes a   *)
(* run calls a tool whose policy verdict is "approval required", from      *)
(* inside the process that executes it (plugins/tools.ts).  The attempt    *)
(* ends only when its call has ended, its abort signal ends the wait, and  *)
(* both move the status in the one row of the run: the approval service    *)
(* through transitionSystem, the executor by claiming and settling.        *)
(*                                                                         *)
(* Attempt n of run r makes the call <<r, n>>.  One clock drives leases,   *)
(* retry delays, the life of a request and the patience of a caller.  The  *)
(* runtime budget is longer than anything here, and nobody but the         *)
(* approval service writes statuses from outside the executor.             *)
(***************************************************************************)
EXTENDS TaskRuns

CONSTANTS
  NoRun,       \* no run; every call of this composition has one
  LifeTicks,   \* APPROVAL_LIFETIME_MS
  WaitTicks,   \* APPROVAL_WAIT_MS
  MaxRequests  \* bound: requests created

ASSUME NoRunAssumption == NoRun \notin Runs
ASSUME WaitsAssumption == LifeTicks \in Nat /\ WaitTicks \in Nat

VARIABLES
  req, call, owed,   \* as in Approvals
  runStatus,         \* the column status of the rows, which Approvals writes
  late               \* history: runs made to wait after their request was answered

avars == <<req, call, owed>>
allvars == <<vars, avars, runStatus, late>>

Calls == Runs \X (1..MaxClaims)

A == INSTANCE Approvals WITH
       Asks  <- {[run |-> r, action |-> "write"] : r \in Runs},
       Moves <- {}

CallOf(e) == <<e.run, e.no>>

----------------------------------------------------------------------------
CInit == Init /\ req = <<>> /\ owed = {}
         /\ call = [c \in Calls |-> [ask |-> [run |-> c[1], action |-> "write"],
                                    step |-> "idle", id |-> 0, retried |-> FALSE,
                                    left |-> 0, stale |-> FALSE]]
         /\ runStatus = [r \in Runs |-> Absent]
         /\ late = {}

----------------------------------------------------------------------------
\* A step of the executor; the requests do not change.
Executor(Step) == /\ Step
                  /\ runStatus' = [r \in Runs |-> run'[r].status]
                  /\ UNCHANGED <<avars, late>>

\* A call suspends its run, and the request it inserted is no longer open.
TooLate(r) == \E c \in Calls : /\ call[c].step = "suspend" /\ call'[c].step # "suspend"
                              /\ call[c].ask.run = r
                              /\ req[call[c].id].status # "pending"

\* The runs that wait because of such a call.
LateNow == {r \in Runs : /\ runStatus'[r] = "waiting_for_approval"
                         /\ (r \in late \/ TooLate(r))}

\* A step of the approval service or of a caller: where it moves the status of a
\* run, it does so as transitionOn does.
Approval(Step) ==
  /\ Step
  /\ run' = [r \in Runs |-> IF runStatus'[r] = runStatus[r] THEN run[r]
                            ELSE Moved(run[r], runStatus'[r])]
  /\ late' = LateNow
  /\ UNCHANGED <<exec, active, mode, tick, lost, told, faults>>

\* The agent calls the tool while its attempt executes.
CallTool(e) ==
  /\ e.phase = "executing"
  /\ Approval(A!Begin(CallOf(e)) /\ ~call'[CallOf(e)].retried)

\* The caller hears the abort of its attempt.  A call a remote agent made over
\* HTTP need not hear it, and waits on.
AbortCall(c) ==
  /\ \A e \in exec : CallOf(e) = c => e.aborted
  /\ Approval(A!Abort(c))

\* The agent's run ends after its call; an aborted one does not wait for it.
EndAttempt(e) ==
  /\ e.aborted \/ call[CallOf(e)].step \in A!Over \cup {"idle"}
  /\ Executor(Executed(e))

RowsTimed == \E r \in Runs : run[r].lease > 0 \/ run[r].delay > 0

Clock ==
  \/ RowsTimed /\ A!Timed /\ Tick /\ A!Tick /\ UNCHANGED late
  \/ ~A!Timed /\ Executor(Tick)
  \/ ~RowsTimed /\ Approval(A!Tick)

\* What the executor does without being asked.
Go(e) == \/ EndAttempt(e)
         \/ Executor(Launch(e) \/ Started(e) \/ SettleSuccess(e)
                       \/ SettleFailure(e) \/ Tell(e))

CNext ==
  \/ \E r \in Runs, asked \in AskedAttempts : Executor(Create(r, asked))
  \/ \E r \in Runs, k \in Sources : Executor(Link(r, k))
  \/ \E w \in Workers : Executor(Recover(w)) \/ Executor(EndTick(w))
  \/ \E w \in Workers, r \in Runs :
       Executor(TellLost(w, r)) \/ Executor(Claim(w, r))
  \/ \E e \in exec : Go(e) \/ Executor(Heartbeat(e)) \/ CallTool(e)
  \/ \E c \in Calls : Approval(A!Progress(c)) \/ AbortCall(c)
  \/ \E i \in A!Ids, answer \in {"approved", "declined"} :
       Approval(A!Decide(i, answer))
  \/ \E i \in A!Ids : Approval(A!Expire(i)) \/ Approval(A!GiveBack(i))
  \/ Clock

CSpec == CInit /\ [][CNext]_allvars

\* As in the two parts; the second statement of an answer is carried out, and
\* heartbeats, people and readers who would expire a request owe nothing.
CFairness ==
  /\ WF_allvars(Clock)
  /\ \A w \in Workers :
       /\ WF_allvars(Executor(Recover(w)))
       /\ WF_allvars(Executor(EndTick(w)))
       /\ WF_allvars(Executor(\E r \in Runs : TellLost(w, r)))
       /\ SF_allvars(Executor(\E r \in Runs : Claim(w, r)))
       /\ WF_allvars(\E e \in exec : e.worker = w /\ Go(e))
  /\ \A c \in Calls : WF_allvars(Approval(A!Progress(c)))
  /\ WF_allvars(\E i \in A!Ids : Approval(A!GiveBack(i)))

FairCSpec == CSpec /\ CFairness

----------------------------------------------------------------------------
(* Properties *)

\* A call is let through only on its own approved and spent request, and one
\* approval lets one call through, also when an attempt that was given up left a
\* call behind that waits beside the call of the next attempt.
ActsOnApproval == A!PermittedWasApproved /\ A!OneUse

\* Only an answer ends the wait of a run: neither recovery, nor a claim, nor the
\* settlement of the attempt that asked touches a run that waits for approval.
OnlyAnswersResume ==
  [][\A r \in Runs :
       runStatus[r] = "waiting_for_approval" /\ runStatus'[r] # runStatus[r]
         => /\ runStatus'[r] = "running"
            /\ \E i \in A!Ids : /\ req[i].ask.run = r
                               /\ \/ req[i].consumed
                                  \/ req[i].status \in {"declined", "expired"}]_allvars

\* A run does not wait for approval without a request that ends the wait: one of
\* its requests is open, or its answer is still to be carried out, or it is
\* approved and a call has yet to spend it or to move the run on.  The exception
\* is a run suspended by a call whose request was answered before: authorize
\* inserts the request and moves the run in two statements, and an answer that
\* comes between them moved a run that did not wait yet.
WaitsForARequest ==
  \A r \in Runs : runStatus[r] = "waiting_for_approval" =>
    \/ r \in late
    \/ \E i \in A!Ids : /\ req[i].ask.run = r
                        /\ \/ req[i].status = "pending"
                           \/ i \in owed
                           \/ req[i].status = "approved" /\ ~req[i].consumed
                           \/ \E c \in Calls : call[c].step = "resume" /\ call[c].id = i

----------------------------------------------------------------------------
(* What the sources of the program say of it, and the code does not keep *)

\* architecture.md: a call that needs approval "waits on its validated durable
\* task and retries once with the exact approved request".  A run that waits and
\* whose request is approved does not wait for ever.
ApprovedGoesOn ==
  \A r \in Runs :
    (/\ runStatus[r] = "waiting_for_approval"
     /\ \E i \in A!Ids : /\ req[i].ask.run = r
                        /\ req[i].status = "approved" /\ ~req[i].consumed)
      ~> runStatus[r] # "waiting_for_approval"
=============================================================================
