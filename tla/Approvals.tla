----------------------------- MODULE Approvals -----------------------------
(***************************************************************************)
(* Human approval of one exact tool call: the approval service             *)
(* (server/src/approvals/store.ts) and the caller that waits for it        *)
(* (server/src/plugins/tools.ts, callToolWithApproval).                    *)
(*                                                                         *)
(* authorize is a series of statements, not a transaction: it tries to     *)
(* consume an approval, looks for a pending request, inserts one, and then *)
(* moves the task run.  Every statement is an action, so calls, people and *)
(* expiry interleave between them.  Requests are numbered in the order of  *)
(* createdAt; what is left of a lifetime or of a wait is counted in ticks. *)
(*                                                                         *)
(* The statements of one authorize compare lifetimes with one reading of   *)
(* the clock, taken when it begins: a call the clock overtook is stale, and *)
(* takes a request that lapsed in the meantime for live or not.            *)
(*                                                                         *)
(* Operators marked "Slip" are plausible mistakes in the operator that     *)
(* follows them; no action uses them, the runs show that each is noticed.  *)
(***************************************************************************)
EXTENDS Naturals, FiniteSets, Sequences, RunStatus

CONSTANTS
  Runs,        \* task runs
  Calls,       \* tool calls whose policy verdict is "approval required"
  NoRun,       \* the run of a call made outside a durable task
  Asks,        \* what calls ask for: a run or NoRun, and what the fingerprint
               \* of the call tells apart
  Moves,       \* the statuses executors and members move a run to meanwhile
  LifeTicks,   \* APPROVAL_LIFETIME_MS
  WaitTicks,   \* APPROVAL_WAIT_MS
  MaxRequests  \* bound: requests created

ASSUME CallsAssumption ==
  /\ NoRun \notin Runs
  /\ \A ask \in Asks : ask.run \in Runs \cup {NoRun}
ASSUME MovesAssumption == Moves \subseteq Statuses
ASSUME LifetimesAssumption == LifeTicks \in Nat /\ WaitTicks \in Nat

VARIABLES
  req,        \* table approval_requests, by creation
  call,       \* call[c]: where call c stands
  owed,       \* requests answered or expired whose run is still to be moved
  runStatus   \* runStatus[r]: the status in the row of run r

vars == <<req, call, owed, runStatus>>

Ids == 1..Len(req)

Steps == {"idle", "consume", "select", "insert", "suspend", "waiting", "resume",
          "act", "acted", "refused", "dead"}

Over == {"acted", "refused", "dead"}

----------------------------------------------------------------------------
\* transitionSystem(...).catch(() => null): a move the table forbids is dropped.
MoveRun(r, s) ==
  runStatus' = IF r \in Runs /\ runStatus[r] \in Statuses
                  /\ s \in Transitions[runStatus[r]]
               THEN [runStatus EXCEPT ![r] = s] ELSE runStatus

RunOf(c) == call[c].ask.run

\* The request is for the very call that asks: same run, same fingerprint.
Matches(i, c) == req[i].ask = call[c].ask

\* Slip: a spent approval is accepted again.
UsableAgain(i, c) == Matches(i, c) /\ req[i].status = "approved"
\* Slip: the request is found by its id alone.
UsableById(i, c) == req[i].status = "approved" /\ ~req[i].consumed
Usable(i, c) == /\ Matches(i, c)
                /\ req[i].status = "approved"
                /\ ~req[i].consumed

Pending(c) == {i \in Ids : Matches(i, c) /\ req[i].status = "pending"}

\* The requests of a set that are live for c, as its reading of the clock has it.
Live(ids, c) ==
  LET now == {i \in ids : req[i].left > 0}
  IN  IF call[c].stale THEN {now, ids} ELSE {now}

\* Slip: an answered request is not left alone.
LapsedAnyway(i) == req[i].left = 0 /\ req[i].status # "expired"
\* What expireIfNeeded expires.
Lapsed(i) == req[i].status = "pending" /\ req[i].left = 0

Goto(c, step) == call' = [call EXCEPT ![c] = [@ EXCEPT !.step = step]]

Ask(c, step, id, retried) ==
  call' = [call EXCEPT ![c] = [@ EXCEPT !.step = step, !.id = id,
                                        !.retried = retried, !.stale = FALSE]]

\* The answer "not authorized, here is request i".  The first time the caller
\* starts to wait, unless it has no task to wait in; after the retry, the error
\* goes to the agent.
Await(c, i) ==
  call' = [call EXCEPT ![c] =
            [@ EXCEPT !.id = i,
                      !.left = WaitTicks,
                      !.step = IF call[c].retried \/ RunOf(c) = NoRun
                               THEN "refused" ELSE "waiting"]]

----------------------------------------------------------------------------
Init ==
  /\ req = <<>>
  /\ \E asks \in [Calls -> Asks] :
       call = [c \in Calls |-> [ask |-> asks[c], step |-> "idle", id |-> 0,
                                retried |-> FALSE, left |-> 0, stale |-> FALSE]]
  /\ owed = {}
  /\ runStatus = [r \in Runs |-> "running"]

\* callTool without an approval id, or with one the client sends: a browser that
\* waited for the answer itself calls again with the id, and then gives up.
Begin(c) ==
  /\ call[c].step = "idle"
  /\ \/ Ask(c, "select", 0, FALSE)
     \/ \E i \in Ids : Ask(c, "consume", i, TRUE)
  /\ UNCHANGED <<req, owed, runStatus>>

\* One conditional update: the approval is spent, or it cannot be used.
Consume(c) ==
  /\ call[c].step = "consume"
  /\ \E usable \in Live({i \in {call[c].id} : Usable(i, c)}, c) :
       \/ /\ call[c].id \in usable
          /\ req' = [req EXCEPT ![call[c].id] = [@ EXCEPT !.consumed = TRUE]]
          /\ Goto(c, "resume")
       \/ /\ call[c].id \notin usable
          /\ Goto(c, "select")
          /\ UNCHANGED req
  /\ UNCHANGED <<owed, runStatus>>

Resume(c) ==
  /\ call[c].step = "resume"
  /\ MoveRun(RunOf(c), "running")
  /\ Goto(c, "act")
  /\ UNCHANGED <<req, owed>>

\* The permitted call reaches the remote server.
Act(c) ==
  /\ call[c].step = "act"
  /\ Goto(c, "acted")
  /\ UNCHANGED <<req, owed, runStatus>>

\* The newest pending request for this call, if there is one.
Select(c) ==
  /\ call[c].step = "select"
  /\ \E live \in Live(Pending(c), c) :
       \/ \E i \in live : (\A j \in live : j <= i) /\ Await(c, i)
       \/ live = {} /\ Goto(c, "insert")
  /\ UNCHANGED <<req, owed, runStatus>>

Insert(c) ==
  /\ call[c].step = "insert"
  /\ Len(req) < MaxRequests
  /\ \E left \in IF call[c].stale THEN 0..LifeTicks ELSE {LifeTicks} :
       req' = Append(req, [ask |-> call[c].ask, status |-> "pending",
                           consumed |-> FALSE, left |-> left])
  /\ IF RunOf(c) = NoRun THEN Await(c, Len(req) + 1)
     ELSE call' = [call EXCEPT ![c] = [@ EXCEPT !.step = "suspend",
                                                !.id = Len(req) + 1]]
  /\ UNCHANGED <<owed, runStatus>>

Suspend(c) ==
  /\ call[c].step = "suspend"
  /\ MoveRun(RunOf(c), "waiting_for_approval")
  /\ Await(c, call[c].id)
  /\ UNCHANGED <<req, owed>>

----------------------------------------------------------------------------
(* The waiting caller *)

\* approvals.get finds the person's approval: call again, once, with it.
PollApproved(c) ==
  /\ call[c].step = "waiting" /\ call[c].left > 0
  /\ req[call[c].id].status = "approved"
  /\ Ask(c, "consume", call[c].id, TRUE)
  /\ UNCHANGED <<req, owed, runStatus>>

\* Slip: the poll has no deadline.
PollRefusedOnly(c) ==
  /\ call[c].step = "waiting"
  /\ req[call[c].id].status = "declined"
  /\ Goto(c, "refused")
  /\ UNCHANGED <<req, owed, runStatus>>
PollRefused(c) ==
  /\ call[c].step = "waiting"
  /\ \/ req[call[c].id].status \in {"declined", "expired"}
     \/ call[c].left = 0
  /\ Goto(c, "refused")
  /\ UNCHANGED <<req, owed, runStatus>>

\* The signal of the attempt, or the person's stop, ends the wait.
Abort(c) ==
  /\ call[c].step = "waiting"
  /\ Goto(c, "refused")
  /\ UNCHANGED <<req, owed, runStatus>>

----------------------------------------------------------------------------
(* People and time *)

\* decide: a decline hands control back to the agent, an approval leaves the run
\* waiting until it is consumed.
Decide(i, answer) ==
  /\ req[i].status = "pending" /\ req[i].left > 0
  /\ req' = [req EXCEPT ![i] = [@ EXCEPT !.status = answer]]
  /\ owed' = IF answer = "declined" THEN owed \cup {i} ELSE owed
  /\ UNCHANGED <<call, runStatus>>

\* expireIfNeeded, on whichever reader comes by: the waiting caller's get, a
\* person's list, a decision that is too late.
Expire(i) ==
  /\ Lapsed(i)
  /\ req' = [req EXCEPT ![i] = [@ EXCEPT !.status = "expired"]]
  /\ owed' = owed \cup {i}
  /\ UNCHANGED <<call, runStatus>>

\* The second statement of a decline or an expiry.
GiveBack(i) ==
  /\ i \in owed
  /\ MoveRun(req[i].ask.run, "running")
  /\ owed' = owed \ {i}
  /\ UNCHANGED <<req, call>>

Left(n) == IF n > 0 THEN n - 1 ELSE 0

Timed == \/ \E i \in Ids : req[i].left > 0
         \/ \E c \in Calls : call[c].left > 0

Tick ==
  /\ Timed
  /\ req' = [i \in Ids |-> [req[i] EXCEPT !.left = Left(@)]]
  /\ call' = [c \in Calls |->
       [call[c] EXCEPT !.left = Left(@),
                       !.stale = call[c].step \in {"consume", "select", "insert"}]]
  /\ UNCHANGED <<owed, runStatus>>

\* The server dies between any two statements; the requests are durable.
Crash ==
  /\ \E c \in Calls : call[c].step \notin Over \cup {"idle"}
  /\ call' = [c \in Calls |-> IF call[c].step \in Over \cup {"idle"} THEN call[c]
                              ELSE [call[c] EXCEPT !.step = "dead", !.left = 0,
                                                   !.stale = FALSE]]
  /\ owed' = {}
  /\ UNCHANGED <<req, runStatus>>

\* The executor and the members move the run at any time.
Elsewhere(r, s) ==
  /\ s \in Transitions[runStatus[r]]
  /\ runStatus' = [runStatus EXCEPT ![r] = s]
  /\ UNCHANGED <<req, call, owed>>

----------------------------------------------------------------------------
Progress(c) == \/ Consume(c) \/ Resume(c) \/ Act(c) \/ Select(c) \/ Insert(c)
               \/ Suspend(c) \/ PollApproved(c) \/ PollRefused(c)

Next ==
  \/ \E c \in Calls : Begin(c) \/ Progress(c) \/ Abort(c)
  \/ \E i \in Ids : \/ \E answer \in {"approved", "declined"} : Decide(i, answer)
                    \/ Expire(i) \/ GiveBack(i)
  \/ Tick
  \/ Crash
  \/ \E r \in Runs, s \in Moves : Elsewhere(r, s)

Spec == Init /\ [][Next]_vars

\* Statements are answered, the poll comes round and time passes; people and
\* readers other than the waiting caller owe nothing.
Fairness == WF_vars(Tick) /\ \A c \in Calls : WF_vars(Progress(c))

FairSpec == Spec /\ Fairness

----------------------------------------------------------------------------
(* Properties *)

Request == [ask : Asks,
            status : {"pending", "approved", "declined", "expired"},
            consumed : BOOLEAN, left : Nat]

\* Every variable keeps the shape of its table or of the caller's locals.
TypeOK ==
  /\ req \in Seq(Request)
  /\ call \in [Calls -> [ask : Asks, step : Steps, id : Nat, retried : BOOLEAN, left : Nat,
                     stale : BOOLEAN]]
  /\ owed \subseteq Nat
  /\ runStatus \in [Runs -> Statuses]

\* Calls that were let through, or are about to be.
Permitted(c) == call[c].step \in {"resume", "act", "acted"}

\* A call goes through only on a person's approval of that same call in that same
\* run, and that approval is spent: approving one action never permits another,
\* however calls with the same or another fingerprint share requests.
PermittedWasApproved ==
  \A c \in Calls : Permitted(c) =>
    /\ call[c].id \in Ids
    /\ Matches(call[c].id, c)
    /\ req[call[c].id].status = "approved"
    /\ req[call[c].id].consumed

\* One approval lets one call through: two calls that waited on the same request
\* never both act on it.
OneUse ==
  \A c, d \in Calls : Permitted(c) /\ Permitted(d) /\ call[c].id = call[d].id
                        => c = d

\* An answer is final: a late expiry does not undo an approval, a late answer
\* does not revive an expired request, and a spent approval stays spent.
AnswersFinal ==
  [][\A i \in Ids :
       /\ req[i].status # "pending" => req'[i].status = req[i].status
       /\ req[i].consumed => req'[i].consumed]_vars

\* No call waits for ever: with no answer at all, with an answer that races the
\* expiry, after a retry whose approval had lapsed.
CallsEnd == \A c \in Calls : call[c].step = "select" ~> call[c].step \in Over
=============================================================================
