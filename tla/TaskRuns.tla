------------------------------ MODULE TaskRuns ------------------------------
(***************************************************************************)
(* The durable task runs of OpenBot: the rows of table task_runs with the  *)
(* operations of server/src/runs/store.ts, and the processes that execute  *)
(* them, server/src/runs/executor.ts.  Each store operation is one         *)
(* database transaction and one action; between two of them a process only *)
(* changes its memory, and it may die between any two.                     *)
(*                                                                         *)
(* Time.  A row's lease and its retry delay are kept as what is left of    *)
(* them, in ticks: 0 is "leaseExpiresAt <= now" (or null), and one Tick of *)
(* the clock brings every row one nearer to it.                            *)
(*                                                                         *)
(* A row also carries its events of kind "status" (task_run_events), the   *)
(* trace that transitionOn leaves of a status written from outside the     *)
(* executor: no step reads it, the properties tell by it what is due to    *)
(* such a write.                                                           *)
(*                                                                         *)
(* Operators marked "Slip" are plausible mistakes in the operator that     *)
(* follows them; no action uses them, the runs show that each is noticed.  *)
(***************************************************************************)
EXTENDS Naturals, FiniteSets, Sequences, RunStatus

CONSTANTS
  Runs,         \* run identifiers, numbered in the order of createdAt
  Workers,      \* executor processes; a restarted server is another process
  Nobody,       \* a null leaseOwner
  Sources,      \* kinds of automated source: "routine", "delegation", "external"
  AskedAttempts,\* the values of input.maxAttempts that callers of create pass
  Patches,      \* statuses that people, tools and sources move a run to
  LeaseTicks,   \* leaseMs
  RetryTicks,   \* baseRetryMs
  RecoverBatch, \* maximum, how many expired runs one tick recovers
  Concurrency,  \* how many runs one process executes at a time
  MayCrash,     \* the processes that may die or be shut down
  MaxFaults,    \* bound: how many database calls of an executor fail
  MaxClaims     \* bound: the largest attempt number a claim gives

ASSUME RunsAssumption        == Runs \subseteq Nat
ASSUME NobodyAssumption      == Nobody \notin Workers
ASSUME SourcesAssumption     == "none" \notin Sources
ASSUME AskedAssumption       == AskedAttempts \subseteq Nat
ASSUME PatchesAssumption     == Patches \subseteq Statuses
ASSUME TicksAssumption       == LeaseTicks \in Nat \ {0} /\ RetryTicks \in Nat \ {0}
ASSUME MayCrashAssumption    == MayCrash \subseteq Workers
ASSUME ConcurrencyAssumption == Concurrency \in Nat \ {0} /\ RecoverBatch \in Nat \ {0}
ASSUME BoundsAssumption      == MaxFaults \in Nat /\ MaxClaims \in Nat

VARIABLES
  run,      \* run[r]: the row of r
  exec,     \* attempts in the memory of the processes, one record each
  active,   \* active[w][r]: attempt under key r in the map active of w, or 0
  mode,     \* mode[w]: "up", "stopping" (being shut down) or "dead"
  tick,     \* tick[w]: "idle", or "claiming" once a tick has recovered
  lost,     \* lost[w]: runs given up in this tick whose onFailed is to come
  told,     \* told[r]: the terminal hooks that ran for r, oldest first
  faults    \* database failures so far

vars == <<run, exec, active, mode, tick, lost, told, faults>>

----------------------------------------------------------------------------
(* Rows *)

Row == [status : Statuses \cup {Absent}, attempt : Nat, maxAttempts : Nat,
        source : Sources \cup {"none"},
        leaseOwner : Workers \cup {Nobody}, lease : Nat, delay : Nat,
        moved : SUBSET (Statuses \X Nat)]

Phases == {"claimed", "starting", "executing", "settling", "failing",
           "succeeded", "failed"}

Attempt == [worker : Workers, run : Runs, no : Nat, phase : Phases,
            aborted : BOOLEAN]

Clamp(asked) == IF asked < 1 THEN 1 ELSE IF asked > 10 THEN 10 ELSE asked

\* The exponent of the backoff is attempt - 1, clamped to 0..8.
Backoff == <<1, 2, 4, 8, 16, 32, 64, 128, 256>>

RetryDelay(n) == RetryTicks * Backoff[IF n < 1 THEN 1 ELSE IF n > 9 THEN 9 ELSE n]

\* Slip: every claim is the first attempt.
NextAttemptReused(row) == 1
NextAttempt(row) == row.attempt + 1

\* Slip: the ceiling counts retries, not attempts.
CanRetryOnceMore(row) == row.attempt <= row.maxAttempts
CanRetry(row) == row.attempt < row.maxAttempts

\* settleOn: how an attempt that ended leaves its row.
Settled(row, ok) ==
  LET retry == ~ok /\ CanRetry(row)
  IN  [row EXCEPT !.status = IF ok THEN "succeeded"
                             ELSE IF retry THEN "queued" ELSE "failed",
                  !.leaseOwner = Nobody,
                  !.lease = 0,
                  !.delay = IF retry THEN RetryDelay(row.attempt) ELSE 0]

\* transitionOn: how a status written from outside the executor leaves a row; the
\* event tells the status and, by its place among the claims, the attempt.
Moved(row, s) ==
  LET release == s \in Terminal \cup {"queued"}
  IN  [row EXCEPT !.status = s,
                  !.leaseOwner = IF release THEN Nobody ELSE @,
                  !.lease = IF release THEN 0 ELSE @,
                  !.moved = @ \cup {<<s, row.attempt>>}]

\* The attempt that the row counts was made to wait.
MadeToWait(row) == \E s \in Waiting : <<s, row.attempt>> \in row.moved

\* Slip: the status is not compared.
DueUnleased(row) == row.leaseOwner = Nobody /\ row.delay = 0 /\ row.source # "none"
Due(row) == row.status = "queued" /\ row.delay = 0 /\ row.source # "none"

\* Slip: runs of delegations are not recovered.
ExpiredRoutines(row) == /\ row.status = "running" /\ row.leaseOwner # Nobody
                        /\ row.lease = 0 /\ row.source = "routine"
\* Runs of external messages are not among those recoverExpiredAutomated reads.
Expired(row) == /\ row.status = "running"
                /\ row.leaseOwner # Nobody
                /\ row.lease = 0
                /\ row.source \in {"routine", "delegation"}

\* Slip: the status is not compared.
OwnedByName(e) == run[e.run].leaseOwner = e.worker
Owned(e) == /\ run[e.run].status = "running"
            /\ run[e.run].leaseOwner = e.worker

----------------------------------------------------------------------------
(* In-memory attempts *)

\* e goes on to phase p.
Become(e, p) == exec' = (exec \ {e}) \cup {[e EXCEPT !.phase = p]}

\* The attempt is over: its finally block drops the key of its run.
Leave(e) == /\ exec' = exec \ {e}
            /\ active' = [active EXCEPT ![e.worker][e.run] = 0]

Busy(w) == Cardinality({r \in Runs : active[w][r] # 0})

\* A database call of an executor fails; the bound keeps them finite.
Fault == faults < MaxFaults /\ faults' = faults + 1

----------------------------------------------------------------------------
Init ==
  /\ run = [r \in Runs |-> [status |-> Absent, attempt |-> 0, maxAttempts |-> 0,
                            source |-> "none", leaseOwner |-> Nobody,
                            lease |-> 0, delay |-> 0, moved |-> {}]]
  /\ exec = {}
  /\ active = [w \in Workers |-> [r \in Runs |-> 0]]
  /\ mode = [w \in Workers |-> "up"]
  /\ tick = [w \in Workers |-> "idle"]
  /\ lost = [w \in Workers |-> {}]
  /\ told = [r \in Runs |-> <<>>]
  /\ faults = 0

----------------------------------------------------------------------------
(* The rest of the server *)

\* create: the row is inserted as queued.
Create(r, asked) ==
  /\ run[r].status = Absent
  /\ \A q \in Runs : q < r => run[q].status # Absent
  /\ run' = [run EXCEPT ![r] = [@ EXCEPT !.status = "queued",
                                       !.maxAttempts = Clamp(asked)]]
  /\ UNCHANGED <<exec, active, mode, tick, lost, told, faults>>

\* A routine, a delegation or an inbox stores the id of the run it created, in
\* a statement of its own; until then no executor sees the run.
Link(r, k) ==
  /\ run[r].status # Absent /\ run[r].source = "none"
  /\ run' = [run EXCEPT ![r] = [@ EXCEPT !.source = k]]
  /\ UNCHANGED <<exec, active, mode, tick, lost, told, faults>>

\* transition and transitionSystem: a member's PATCH, an approval asked for or
\* answered, a delegation that changes status.
Transition(r, s) ==
  /\ run[r].status \in Statuses
  /\ s \in Transitions[run[r].status]
  /\ run' = [run EXCEPT ![r] = Moved(@, s)]
  /\ UNCHANGED <<exec, active, mode, tick, lost, told, faults>>

Left(n) == IF n > 0 THEN n - 1 ELSE 0

Tick ==
  /\ \E r \in Runs : run[r].lease > 0 \/ run[r].delay > 0
  /\ run' = [r \in Runs |->
              [run[r] EXCEPT !.lease = Left(@), !.delay = Left(@)]]
  /\ UNCHANGED <<exec, active, mode, tick, lost, told, faults>>

----------------------------------------------------------------------------
(* One tick of an executor: recover, call the hooks, claim *)

\* Slip: a retried run is reported as failed.
ExhaustedAll(expired) == expired
\* Slip: nothing is reported.
ExhaustedNone(expired) == {}
\* The runs whose attempts are used up; the others are queued again.
Exhausted(expired) == {r \in expired : ~CanRetry(run[r])}

\* The rows one transaction takes, any of those that expired when they are too many.
Batches ==
  LET expired == {r \in Runs : Expired(run[r])}
  IN  {batch \in SUBSET expired : \/ batch = expired /\ Cardinality(batch) <= RecoverBatch
                                  \/ Cardinality(batch) = RecoverBatch}

Recover(w) ==
  /\ mode[w] = "up" /\ tick[w] = "idle"
  /\ tick' = [tick EXCEPT ![w] = "claiming"]
  /\ \E batch \in Batches :
       /\ run' = [r \in Runs |-> IF r \in batch THEN Settled(run[r], FALSE) ELSE run[r]]
       /\ lost' = [lost EXCEPT ![w] = Exhausted(batch)]
  /\ UNCHANGED <<exec, active, mode, told, faults>>

TellLost(w, r) ==
  /\ r \in lost[w]
  /\ lost' = [lost EXCEPT ![w] = @ \ {r}]
  /\ told' = [told EXCEPT ![r] = Append(@, "failed")]
  /\ UNCHANGED <<run, exec, active, mode, tick, faults>>

\* The tick waits for the answer of one claim before it asks for another.
Claiming(w) == /\ tick[w] = "claiming"
               /\ lost[w] = {}
               /\ \A e \in exec : e.worker = w => e.phase # "claimed"

Room(w) == mode[w] = "up" /\ Busy(w) < Concurrency

Claimed(row, w) == [row EXCEPT !.status = "running",
                               !.attempt = NextAttempt(row),
                               !.leaseOwner = w,
                               !.lease = LeaseTicks,
                               !.delay = 0]

\* claimAutomated: the oldest due run.
TakeOldest(w, r) ==
  /\ Claiming(w) /\ Room(w)
  /\ Due(run[r]) /\ \A q \in Runs : Due(run[q]) => r <= q
  /\ run[r].attempt < MaxClaims
  /\ run' = [run EXCEPT ![r] = Claimed(@, w)]

Claim(w, r) ==
  /\ TakeOldest(w, r)
  /\ exec' = exec \cup {[worker |-> w, run |-> r, no |-> NextAttempt(run[r]),
                         phase |-> "claimed", aborted |-> FALSE]}
  /\ UNCHANGED <<active, mode, tick, lost, told, faults>>

\* executeClaim, which does not look at stopped: the key of the run now names
\* this attempt, also when an earlier attempt of the run is still in memory.
Launch(e) ==
  /\ e.phase = "claimed"
  /\ Become(e, "starting")
  /\ active' = [active EXCEPT ![e.worker][e.run] = e.no]
  /\ UNCHANGED <<run, mode, tick, lost, told, faults>>

EndTick(w) ==
  /\ Claiming(w)
  /\ Room(w) => ~\E r \in Runs : Due(run[r])
  /\ tick' = [tick EXCEPT ![w] = "idle"]
  /\ UNCHANGED <<run, exec, active, mode, lost, told, faults>>

\* claimAutomated throws, before or after its transaction committed: the tick is
\* over, and nobody in this process knows of a run that was claimed.
ClaimFails(w) ==
  /\ Claiming(w) /\ Room(w)
  /\ Fault
  /\ UNCHANGED run \/ \E r \in Runs : TakeOldest(w, r)
  /\ tick' = [tick EXCEPT ![w] = "idle"]
  /\ UNCHANGED <<exec, active, mode, lost, told>>

----------------------------------------------------------------------------
(* One attempt *)

\* onStarted has run, or it threw because its source is not to be executed.
Started(e) ==
  /\ e.phase = "starting"
  /\ \E p \in {"executing", "failing"} : Become(e, p)
  /\ UNCHANGED <<run, active, mode, tick, lost, told, faults>>

\* The agent's run ends; a result that comes after the abort is an error.
Executed(e) ==
  /\ e.phase = "executing"
  /\ \/ Become(e, "failing")
     \/ ~e.aborted /\ Become(e, "settling")
  /\ UNCHANGED <<run, active, mode, tick, lost, told, faults>>

SettleSuccess(e) ==
  /\ e.phase = "settling"
  /\ \/ /\ Owned(e)
        /\ run' = [run EXCEPT ![e.run] = Settled(@, TRUE)]
        /\ Become(e, "succeeded")
        /\ UNCHANGED active
     \/ /\ ~Owned(e)
        /\ Leave(e)
        /\ UNCHANGED run
  /\ UNCHANGED <<mode, tick, lost, told, faults>>

SettleFailure(e) ==
  /\ e.phase = "failing"
  /\ \/ /\ Owned(e)
        /\ run' = [run EXCEPT ![e.run] = Settled(@, FALSE)]
        /\ IF CanRetry(run[e.run]) THEN Leave(e)
                                   ELSE Become(e, "failed") /\ UNCHANGED active
     \/ /\ ~Owned(e)
        /\ Leave(e)
        /\ UNCHANGED run
  /\ UNCHANGED <<mode, tick, lost, told, faults>>

\* The settling call throws, before or after its transaction committed.
SettleFails(e) ==
  /\ e.phase \in {"settling", "failing"}
  /\ Fault
  /\ \/ UNCHANGED run
     \/ Owned(e) /\ run' = [run EXCEPT ![e.run] = Settled(@, e.phase = "settling")]
  /\ IF e.phase = "settling" THEN Become(e, "failing") /\ UNCHANGED active
                             ELSE Leave(e)
  /\ UNCHANGED <<mode, tick, lost, told>>

\* onSucceeded or onFailed of the source.
Tell(e) ==
  /\ e.phase \in {"succeeded", "failed"}
  /\ told' = [told EXCEPT ![e.run] = Append(@, e.phase)]
  /\ Leave(e)
  /\ UNCHANGED <<run, mode, tick, lost, faults>>

\* heartbeatAutomated: false aborts the attempt, an error is only logged.
Heartbeat(e) ==
  /\ e.phase # "claimed" /\ ~e.aborted
  /\ IF Owned(e)
     THEN run' = [run EXCEPT ![e.run] = [@ EXCEPT !.lease = LeaseTicks]] /\ UNCHANGED exec
     ELSE exec' = (exec \ {e}) \cup {[e EXCEPT !.aborted = TRUE]} /\ UNCHANGED run
  /\ UNCHANGED <<active, mode, tick, lost, told, faults>>

\* The timer of maxRuntimeMs.
BudgetSpent(e) ==
  /\ e.phase # "claimed" /\ ~e.aborted
  /\ exec' = (exec \ {e}) \cup {[e EXCEPT !.aborted = TRUE]}
  /\ UNCHANGED <<run, active, mode, tick, lost, told, faults>>

----------------------------------------------------------------------------
(* The life of a process *)

\* The stop function aborts the attempts the map names; no tick starts again.
Stop(w) ==
  /\ mode[w] = "up"
  /\ mode' = [mode EXCEPT ![w] = "stopping"]
  /\ exec' = {IF e.worker = w /\ e.no = active[w][e.run]
              THEN [e EXCEPT !.aborted = TRUE] ELSE e : e \in exec}
  /\ UNCHANGED <<run, active, tick, lost, told, faults>>

\* The process is gone, killed or at the end of its shutdown.
Crash(w) ==
  /\ mode[w] # "dead"
  /\ mode' = [mode EXCEPT ![w] = "dead"]
  /\ exec' = {e \in exec : e.worker # w}
  /\ active' = [active EXCEPT ![w] = [r \in Runs |-> 0]]
  /\ tick' = [tick EXCEPT ![w] = "idle"]
  /\ lost' = [lost EXCEPT ![w] = {}]
  /\ UNCHANGED <<run, told, faults>>

----------------------------------------------------------------------------
\* What an attempt does without being asked.
Progress(e) == \/ Launch(e) \/ Started(e) \/ Executed(e)
               \/ SettleSuccess(e) \/ SettleFailure(e) \/ Tell(e)

Next ==
  \/ \E r \in Runs : \/ \E asked \in AskedAttempts : Create(r, asked)
                     \/ \E k \in Sources : Link(r, k)
                     \/ \E s \in Patches : Transition(r, s)
  \/ Tick
  \/ \E w \in Workers : \/ Recover(w) \/ EndTick(w) \/ ClaimFails(w)
                        \/ \E r \in Runs : TellLost(w, r) \/ Claim(w, r)
  \/ \E e \in exec : Progress(e) \/ SettleFails(e) \/ Heartbeat(e) \/ BudgetSpent(e)
  \/ \E w \in MayCrash : Stop(w) \/ Crash(w)

Spec == Init /\ [][Next]_vars

(***************************************************************************)
(* A process that is up keeps ticking and running its attempts: the        *)
(* interval timer, the answered database calls and the runtime budget that *)
(* aborts an agent see to it.  Claims compete with the claims of other     *)
(* processes, so they are treated strongly.  Nothing is asked of           *)
(* heartbeats: an attempt may lose its lease.                              *)
(***************************************************************************)
Fairness ==
  /\ WF_vars(Tick)
  /\ \A w \in Workers :
       /\ WF_vars(Recover(w))
       /\ WF_vars(EndTick(w))
       /\ WF_vars(\E r \in Runs : TellLost(w, r))
       /\ SF_vars(\E r \in Runs : Claim(w, r))
       /\ WF_vars(\E e \in exec : e.worker = w /\ Progress(e))

FairSpec == Spec /\ Fairness

----------------------------------------------------------------------------
(* Properties *)

\* Every variable keeps the shape of its column or map.
TypeOK ==
  /\ run \in [Runs -> Row]
  /\ exec \subseteq Attempt
  /\ active \in [Workers -> [Runs -> Nat]]
  /\ mode \in [Workers -> {"up", "stopping", "dead"}]
  /\ tick \in [Workers -> {"idle", "claiming"}]
  /\ lost \in [Workers -> SUBSET Runs]
  /\ told \in [Runs -> Seq({"succeeded", "failed"})]
  /\ faults \in Nat

\* A lease is held by someone and on a run that is under way: whatever writes a
\* status (settling, recovery, a PATCH, an approval), a run that is queued again
\* or finished is free, so nothing later can expire it or settle it.
LeaseCoherent ==
  \A r \in Runs :
    /\ run[r].leaseOwner # Nobody => run[r].status \in {"running"} \cup Waiting
    /\ run[r].lease > 0 => run[r].leaseOwner # Nobody

\* No run starts more often than its ceiling of attempts, however its attempts
\* end: settled, lost with their process, or retried after a failed settlement.  The
\* claim does not look at the ceiling, so each start beyond it is one that somebody
\* asked for, by a PATCH that moved the attempt before it back to the queue.
AttemptsBounded ==
  \A r \in Runs : \A n \in run[r].maxAttempts..(run[r].attempt - 1) :
    <<"queued", n>> \in run[r].moved

\* One attempt number is executed in one place: two attempts in memory never
\* carry the same number of the same run, and the attempt a leased row counts
\* belongs to the process the lease names.
OneExecution ==
  /\ \A e, f \in exec : e.run = f.run /\ e.no = f.no => e = f
  /\ \A e \in exec : run[e.run].leaseOwner # Nobody /\ e.no = run[e.run].attempt
                      => run[e.run].leaseOwner = e.worker

\* A source hears of the end of its run at most once, and hears what the row
\* says: no sequence of recoveries, retries and late settlements reports both a
\* success and a failure.
ToldOnceAndTrue ==
  \A r \in Runs : told[r] = <<>> \/ told[r] = <<run[r].status>>

\* The rows live the life RunLifecycle describes: claims, settlements and
\* recoveries, which write a status without asking the table, follow it too.
Life == INSTANCE RunLifecycle WITH status  <- [r \in Runs |-> run[r].status],
                                   attempt <- [r \in Runs |-> run[r].attempt]
FollowsLifecycle == Life!Spec

\* An automated run comes to an end: crashes, expired leases and failed database
\* calls do not strand it while one process stays up.  This is for the kinds of
\* source that recovery reads, and for runs whose status nobody wrote by hand: one
\* that is made to wait, or that is moved out of the queue, may stay there.
RecoverableFinishes ==
  \A r \in Runs : run[r].source \in {"routine", "delegation"}
                   ~> run[r].status \in Terminal \/ run[r].moved # {}

\* The source of a run that ended hears of it, whether an attempt or a recovery
\* ended it.  A process that dies between the commit and the hook, or a settling
\* call whose answer is lost, leaves the source without its answer: nothing
\* reports a second time.  Nor does anything report an end that a member wrote.
EndedByHand(r) == <<run[r].status, run[r].attempt>> \in run[r].moved
SourceHears ==
  \A r \in Runs :
    run[r].status \in {"succeeded", "failed"}
      ~> \/ told[r] # <<>> \/ EndedByHand(r)
         \/ faults > 0 \/ \E w \in Workers : mode[w] = "dead"

\* What of these holds at every moment.  A run that is under way has a lease, by which it
\* is found when nobody works it (recoverExpiredAutomated): one without is a run that was
\* moved out of the queue by hand, and nothing else leaves one behind (transitionOn keeps
\* the lease of a run that waits).
Unleased(r) == run[r].status \in {"running"} \cup Waiting /\ run[r].leaseOwner = Nobody
UnleasedByMove ==
  [][\A r \in Runs : Unleased(r)' /\ ~Unleased(r)
       => run[r].status = "queued" /\ Transition(r, "running")]_vars

\* The attempt that a leased row counts is in the memory of the process it names, however
\* other attempts of the run end meanwhile, until a call to the database fails or the
\* process dies.  One that is made to wait loses its lease to the next heartbeat
\* and keeps its row (transitionOn, heartbeatAutomated).
HolderAtWork ==
  \A r \in Runs : run[r].leaseOwner # Nobody =>
    \/ \E e \in exec : e.run = r /\ e.worker = run[r].leaseOwner /\ e.no = run[r].attempt
    \/ MadeToWait(run[r])
    \/ faults > 0 \/ mode[run[r].leaseOwner] = "dead"

\* While the source of a run that ended was not told, an attempt or a tick is about to,
\* unless a member wrote the end (transitionOn calls no hook).
TellerLeft ==
  \A r \in Runs : run[r].status \in {"succeeded", "failed"} /\ told[r] = <<>> =>
    \/ EndedByHand(r)
    \/ \E e \in exec : e.run = r /\ e.phase = run[r].status
    \/ \E w \in Workers : r \in lost[w] \/ mode[w] = "dead"
    \/ faults > 0

----------------------------------------------------------------------------
(* What the sources of the program say of it, and the code does not keep *)

\* executor.ts: "an expired owner cannot complete a run after a replacement has
\* recovered it".  An attempt that settles its row is the attempt the row counts.
StaleNeverSettles ==
  [][\A e \in exec :
       (SettleSuccess(e) \/ SettleFailure(e)) /\ run' # run
         => e.no = run[e.run].attempt]_vars

\* What the code does keep of it: an attempt settles a row that counts another only where
\* its own process has claimed the run again and works that later attempt, or worked it
\* until it was made to wait.
StaleSettlesOwnOnly ==
  [][\A e \in exec :
       (SettleSuccess(e) \/ SettleFailure(e)) /\ run' # run /\ faults = 0
         => \/ \E f \in exec : /\ f.run = e.run /\ f.worker = e.worker /\ f.no >= e.no
                               /\ f.no = run[e.run].attempt
            \/ MadeToWait(run[e.run])]_vars

\* architecture.md: the executor "recovers expired leases after a process dies".
\* Every kind of automated run comes to an end.
AutomatedFinishes ==
  \A r \in Runs : run[r].source # "none" ~> run[r].status \in Terminal
=============================================================================
