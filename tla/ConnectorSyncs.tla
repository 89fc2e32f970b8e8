--------------------------- MODULE ConnectorSyncs ---------------------------
(***************************************************************************)
(* The synchronisation of a connector: the row of connector_instances and  *)
(* its sync_runs, the workers that lease it (worker/src/queue.ts and       *)
(* runtime.ts), what a sync reads from the source and writes beside the    *)
(* cursor (connector-runner.ts, sync-persistence.ts), and the              *)
(* administrator who configures it or asks for a sync (server/src/         *)
(* connectors.ts).                                                         *)
(*                                                                         *)
(* The source is a log of changes and a cursor is a position in it.  The   *)
(* content of a document is the position of the change that made it, a     *)
(* deletion being a content like any other, except that no deletion can    *)
(* fail to be read.  The first crawl is over.                              *)
(* A worker is one life of the process, for its name is drawn at start:    *)
(* a restarted process is another worker.                                  *)
(*                                                                         *)
(* The last six variables record history and guard no step of the code.   *)
(* Operators marked "Slip" are plausible mistakes in the operator that     *)
(* follows them; no action uses them, the runs show that each is noticed.  *)
(***************************************************************************)
EXTENDS Naturals, Sequences

CONSTANTS
  Workers,      \* lives of worker processes
  Nobody,       \* a null lease_owner
  Docs,         \* documents of the source
  Log,          \* the source: the document each change is of, in the order they happen
  Deletions,    \* the changes in the log that delete their document
  MaxSyncs,     \* sync runs, one for each claim
  Budgets,      \* bounds of a behaviour: polls of one worker under way at once, claims,
                \* changes in the source, configurations, shutdowns, faults
  Scenes        \* which workers are up, who is reading the source, what it has, with which budget

ASSUME NobodyAssumption == Nobody \notin Workers
ASSUME LogAssumption == Log \in Seq(Docs) /\ Deletions \subseteq 1..Len(Log)
ASSUME BoundsAssumption ==
  MaxSyncs \in Nat /\ Budgets \subseteq [polls : Nat, syncs : 0..MaxSyncs, changes : Nat, asks : Nat, stops : Nat, faults : Nat]
ASSUME ScenesAssumption ==
  /\ Scenes \subseteq [up : SUBSET Workers, reader : Workers \cup {Nobody},
                       end : 0..Len(Log), budget : Budgets]
  /\ \A scene \in Scenes : scene.reader # Nobody => scene.reader \in scene.up /\ MaxSyncs > 0

VARIABLES
  instance,     \* the row of connector_instances
  syncRun,      \* the status of each row of sync_runs
  cursor,       \* the row of connector_cursors
  docs,         \* the content the documents table has of each document
  end,          \* how much of the log of the source has happened
  worker,       \* what each worker process holds in memory
  job,          \* what the execution of each claim is doing
  budget,       \* what is left to happen
  holder,       \* the claim that the lease was given to
  detached,     \* claims whose lease a new configuration took away
  robbed,       \* claims whose lease another execution of the same worker ended
  overtaken,    \* whether an execution without the lease has written
  undercut,     \* whether a batch was written that begins beyond the cursor
  skipped       \* changes that a written batch had listed and not read

vars == <<instance, syncRun, cursor, docs, end, worker, job, budget,
          holder, detached, robbed, overtaken, undercut, skipped>>

----------------------------------------------------------------------------
Syncs == 1..MaxSyncs
None == 0                               \* no execution, no claim
NoBatch == [d \in Docs |-> 0]
Idle == [worker |-> Nobody, step |-> "none", from |-> 0, upto |-> 0, batch |-> NoBatch,
         missed |-> {}]
Fresh == [mode |-> "up", polls |-> 0, active |-> None, controller |-> None, awaits |-> None]
Executing == {"reading", "discovering", "persisting", "finishing", "recording", "failing"}

Row(status, due) == [status |-> status, due |-> due, owner |-> Nobody, lapsed |-> FALSE]

\* The scene opens with a row that waits, or with the first claim reading the source.
Reading(w) == [Idle EXCEPT !.worker = w, !.step = "discovering"]
InitScene(scene) ==
  LET w == scene.reader
      held(v) == IF v = w THEN [Fresh EXCEPT !.active = 1, !.controller = 1] ELSE Fresh
  IN
  /\ instance = IF w = Nobody THEN Row("pending", TRUE)
                ELSE [Row("running", TRUE) EXCEPT !.owner = w]
  /\ syncRun = [i \in Syncs |-> IF i = 1 /\ w # Nobody THEN "running" ELSE "none"]
  /\ job = [i \in Syncs |-> IF i = 1 /\ w # Nobody THEN Reading(w) ELSE Idle]
  /\ holder = IF w = Nobody THEN None ELSE 1
  /\ worker = [v \in Workers |-> IF v \in scene.up THEN held(v) ELSE [Fresh EXCEPT !.mode = "gone"]]
  /\ cursor = 0 /\ docs = NoBatch /\ end = scene.end
  /\ budget = scene.budget
  /\ detached = {} /\ robbed = {}
  /\ overtaken = FALSE /\ undercut = FALSE /\ skipped = {}

Init == \E scene \in Scenes : InitScene(scene)

Spend(what) == budget[what] > 0 /\ budget' = [budget EXCEPT ![what] = @ - 1]
Others(w) == {v \in Workers \ {w} : worker[v].mode = "up"}

index == <<cursor, docs, end>>
history == <<holder, detached, robbed, overtaken, undercut, skipped>>

----------------------------------------------------------------------------
(* tick and claim.                                                         *)

\* active is set when the claim has come back, not when it is asked for.
Poll(w) ==
  /\ worker[w].mode = "up" /\ worker[w].active = None
  /\ worker[w].polls < budget.polls
  /\ worker' = [worker EXCEPT ![w].polls = @ + 1]
  /\ UNCHANGED <<instance, syncRun, index, job, budget, history>>

\* Slip: an expired lease is not taken over.
ClaimableWhenIdle == instance.status # "running" /\ instance.due
Claimable == \/ instance.status # "running" /\ instance.due
             \/ instance.status = "running" /\ instance.lapsed

Recovered(i) ==
  [j \in Syncs |-> IF j = i THEN "running"
                   ELSE IF instance.status = "running" /\ syncRun[j] = "running" THEN "failed"
                   ELSE syncRun[j]]

\* The transaction of a claim commits; step is what the process does next.
Lease(w, i, step) ==
  /\ worker[w].mode # "gone" /\ worker[w].polls > 0 /\ Claimable /\ budget.syncs > 0
  /\ syncRun[i] = "none" /\ \A j \in Syncs : j < i => syncRun[j] # "none"
  /\ syncRun' = Recovered(i)
  /\ instance' = [instance EXCEPT !.status = "running", !.owner = w, !.lapsed = FALSE]
  /\ job' = [job EXCEPT ![i] = [Idle EXCEPT !.worker = w, !.step = step]]
  /\ worker' = [worker EXCEPT ![w].polls = @ - 1]
  /\ holder' = i
  /\ UNCHANGED <<index, detached, robbed, overtaken, undercut, skipped>>

Claim(w, i) == Lease(w, i, "starting") /\ Spend("syncs")

\* It commits and its answer is lost: the tick takes that for no claim.
ClaimUnheard(w, i) ==
  /\ Lease(w, i, "over") /\ budget.faults > 0
  /\ budget' = [budget EXCEPT !.syncs = @ - 1, !.faults = @ - 1]

ClaimNothing(w) ==
  /\ worker[w].mode # "gone" /\ worker[w].polls > 0 /\ ~Claimable
  /\ worker' = [worker EXCEPT ![w].polls = @ - 1]
  /\ UNCHANGED <<instance, syncRun, index, job, budget, history>>

ClaimFails(w) ==
  /\ worker[w].mode # "gone" /\ worker[w].polls > 0
  /\ Spend("faults")
  /\ worker' = [worker EXCEPT ![w].polls = @ - 1]
  /\ UNCHANGED <<instance, syncRun, index, job, history>>

----------------------------------------------------------------------------
(* execute, of one claim.                                                  *)

Goto(i, step) == job' = [job EXCEPT ![i] = [Idle EXCEPT !.worker = job[i].worker, !.step = step]]

\* Whoever ends clears active; another execution may be under way.
End(i) ==
  LET w == job[i].worker IN
  /\ Goto(i, "over")
  /\ worker' = [worker EXCEPT ![w] = [@ EXCEPT
       !.active = None,
       !.controller = IF worker[w].controller = i THEN None ELSE worker[w].controller]]

Begin(i) ==
  /\ job[i].step = "starting"
  /\ Goto(i, "reading")
  /\ worker' = [worker EXCEPT ![job[i].worker] = [@ EXCEPT !.active = i, !.controller = i]]
  /\ UNCHANGED <<instance, syncRun, index, budget, history>>

\* Slip: the lease of the instance is enough, whoever holds it.
OwnedByAny(i) == instance.status = "running"
Owned(i) == instance.status = "running" /\ instance.owner = job[i].worker

\* The timer renews the lease while it is the worker's.
Heartbeat(i) ==
  /\ job[i].step \in Executing /\ Owned(i)
  /\ instance' = [instance EXCEPT !.lapsed = FALSE]
  /\ UNCHANGED <<syncRun, index, worker, job, budget, history>>

\* When it is not, or when the process stops, the requests to the source are aborted.
Abort(i) ==
  LET w == worker[job[i].worker] IN
  /\ job[i].step = "discovering"
  /\ ~Owned(i) \/ (w.mode = "stopping" /\ w.controller = i)
  /\ Goto(i, "failing")
  /\ UNCHANGED <<instance, syncRun, index, worker, budget, history>>

ReadCursor(i) ==
  /\ job[i].step = "reading"
  /\ job' = [job EXCEPT ![i] = [@ EXCEPT !.step = "discovering", !.from = cursor]]
  /\ UNCHANGED <<instance, syncRun, index, worker, budget, history>>

\* The k-th change made document d what it is now.
Current(d, k) ==
  /\ k # 0 => Log[k] = d
  /\ \A j \in 1..end : Log[j] = d => j <= k
Listed(low, high) == {d \in Docs : \E k \in (low + 1)..high : Log[k] = d}

\* The source has the document: its last change is no deletion.
There(d) == \E k \in 1..end : Log[k] = d /\ Current(d, k) /\ k \notin Deletions

\* A page of changes from low to high, with the documents as they are when it is read, but
\* for those that are passed over.
Page(low, high, passed, batch) ==
  \A d \in Docs : IF d \in Listed(low, high) \ passed THEN Current(d, batch[d])
                  ELSE batch[d] = 0

\* Slip: the end of the log rather than the end of the page.
NewStart(n) == end
NextToken(n) == n

\* A document that is there is passed over when its download fails or it is too large, has
\* no text, or has left the folders that are read; a deletion needs no download.  The token
\* moves beyond them all.  (A page that passes something over counts as a fault.)
Discover(i) ==
  LET from == job[i].from IN
  /\ job[i].step = "discovering"
  /\ \E n \in from..end :
       /\ from < end => from < n
       /\ \E passed \in SUBSET {d \in Listed(from, n) : There(d)} :
            /\ IF passed = {} THEN UNCHANGED budget ELSE Spend("faults")
            /\ \E batch \in [Docs -> 0..end] :
                 /\ Page(from, n, passed, batch)
                 /\ job' = [job EXCEPT ![i] = [@ EXCEPT
                      !.step = "persisting", !.upto = NextToken(n), !.batch = batch,
                      !.missed = {k \in (from + 1)..n : Log[k] \in passed}]]
  /\ UNCHANGED <<instance, syncRun, index, worker, history>>

\* persistBatch: documents and cursor in one transaction, and no look at the lease.
Persist(i) ==
  /\ job[i].step = "persisting"
  /\ docs' = [d \in Docs |-> IF job[i].batch[d] = 0 THEN docs[d] ELSE job[i].batch[d]]
  /\ cursor' = job[i].upto
  /\ Goto(i, "finishing")
  /\ overtaken' = (overtaken \/ holder # i)
  /\ undercut' = (undercut \/ cursor < job[i].from)
  /\ skipped' = skipped \cup job[i].missed
  /\ UNCHANGED <<instance, syncRun, end, worker, budget, holder, detached, robbed>>

\* finish: by the name of the worker, then the sync run of the claim.
Settle(i, outcome) ==
  /\ instance' = Row(outcome, FALSE)
  /\ syncRun' = [syncRun EXCEPT ![i] = outcome]
  /\ robbed' = robbed \cup {j \in {holder} \ {i, None} : job[j].worker = job[i].worker}
  /\ holder' = None

Finish(i) ==
  /\ job[i].step = "finishing" /\ Owned(i)
  /\ Settle(i, "succeeded")
  /\ Goto(i, "recording")
  /\ UNCHANGED <<index, worker, budget, detached, overtaken, undercut, skipped>>

FinishFailed(i) ==
  /\ job[i].step = "failing" /\ Owned(i)
  /\ Settle(i, "failed")
  /\ End(i)
  /\ UNCHANGED <<index, budget, detached, overtaken, undercut, skipped>>

\* Its audit record is written, or the lease was another's.
Over(i) ==
  /\ \/ job[i].step = "recording"
     \/ job[i].step \in {"finishing", "failing"} /\ ~Owned(i)
  /\ End(i)
  /\ UNCHANGED <<instance, syncRun, index, budget, history>>

Fails(i) ==
  /\ job[i].step \in Executing \ {"failing"} /\ Spend("faults")
  /\ Goto(i, "failing")
  /\ UNCHANGED <<instance, syncRun, index, worker, history>>

\* What the catch writes fails too: the execution ends without it.
FinishBreaks(i) ==
  /\ job[i].step = "failing" /\ Spend("faults")
  /\ End(i)
  /\ UNCHANGED <<instance, syncRun, index, history>>

----------------------------------------------------------------------------
(* Processes end; another life takes over.                                 *)

\* stop waits for the execution that active names, and then the process exits.
Stop(w) ==
  /\ worker[w].mode = "up" /\ Others(w) # {} /\ Spend("stops")
  /\ worker' = [worker EXCEPT ![w] = [@ EXCEPT !.mode = "stopping", !.awaits = worker[w].active]]
  /\ UNCHANGED <<instance, syncRun, index, job, history>>

Gone(w) ==
  /\ worker' = [worker EXCEPT ![w] = [Fresh EXCEPT !.mode = "gone"]]
  /\ job' = [i \in Syncs |-> IF job[i].worker # w THEN job[i]
                             ELSE [Idle EXCEPT !.worker = w, !.step = "over"]]
  /\ UNCHANGED <<instance, syncRun, index, history>>

Exit(w) ==
  /\ worker[w].mode = "stopping"
  /\ worker[w].awaits # None => job[worker[w].awaits].step = "over"
  /\ Gone(w)
  /\ UNCHANGED budget

Crash(w) ==
  /\ worker[w].mode = "stopping" \/ (worker[w].mode = "up" /\ Others(w) # {})
  /\ Spend("faults")
  /\ Gone(w)

----------------------------------------------------------------------------
(* Time, the administrator and the source.                                 *)

Beating == \E i \in Syncs : job[i].step \in Executing /\ Owned(i)

\* While its worker is alive only a fault keeps it from renewing in time.
LeaseLapses ==
  /\ instance.status = "running" /\ ~instance.lapsed
  /\ IF Beating THEN Spend("faults") ELSE UNCHANGED budget
  /\ instance' = [instance EXCEPT !.lapsed = TRUE]
  /\ UNCHANGED <<syncRun, index, worker, job, history>>

\* The next time comes, or somebody asks for a sync now.
FallsDue ==
  /\ instance.status # "running" /\ ~instance.due
  /\ instance' = [instance EXCEPT !.due = TRUE]
  /\ UNCHANGED <<syncRun, index, worker, job, budget, history>>

\* configureGoogleDrive: the row starts over, even under a sync.
Configure ==
  /\ Spend("asks")
  /\ instance' = Row("pending", TRUE)
  /\ detached' = detached \cup ({holder} \ {None})
  /\ holder' = None
  /\ UNCHANGED <<syncRun, index, worker, job, robbed, overtaken, undercut, skipped>>

\* Somebody changes a document.
Change ==
  /\ end < Len(Log) /\ Spend("changes")
  /\ end' = end + 1
  /\ UNCHANGED <<instance, syncRun, cursor, docs, worker, job, history>>

----------------------------------------------------------------------------
Step(i) == \/ Begin(i) \/ ReadCursor(i) \/ Discover(i) \/ Persist(i)
           \/ Finish(i) \/ FinishFailed(i) \/ Over(i)
Answer(w) == ClaimNothing(w) \/ \E i \in Syncs : Claim(w, i)

Next ==
  \/ \E w \in Workers : \/ Poll(w) \/ Answer(w) \/ ClaimFails(w)
                        \/ \E i \in Syncs : ClaimUnheard(w, i)
                        \/ Stop(w) \/ Exit(w) \/ Crash(w)
  \/ \E i \in Syncs : Step(i) \/ Heartbeat(i) \/ Abort(i) \/ Fails(i) \/ FinishBreaks(i)
  \/ LeaseLapses \/ FallsDue \/ Configure \/ Change

Spec == Init /\ [][Next]_vars

(***************************************************************************)
(* The timers of a worker go on, the database and the source answer or     *)
(* fail, and time passes.  Nobody has to ask for anything, no fault has to *)
(* happen, and a heartbeat may be late.                                    *)
(***************************************************************************)
Fairness ==
  /\ \A w \in Workers : WF_vars(Poll(w)) /\ WF_vars(Answer(w)) /\ WF_vars(Exit(w))
  /\ \A i \in Syncs : WF_vars(Step(i))
  /\ WF_vars(LeaseLapses) /\ WF_vars(FallsDue)

FairSpec == Spec /\ Fairness

----------------------------------------------------------------------------
(* Properties *)

\* Every row, process and execution keeps its shape, and neither the cursor nor a document
\* is ever ahead of the source.
TypeOK ==
  /\ instance \in [status : {"pending", "running", "succeeded", "failed"}, due : BOOLEAN,
                   owner : Workers \cup {Nobody}, lapsed : BOOLEAN]
  /\ syncRun \in [Syncs -> {"none", "running", "succeeded", "failed"}]
  /\ end \in 0..Len(Log) /\ cursor \in 0..end /\ docs \in [Docs -> 0..end]
  /\ worker \in [Workers -> [mode : {"up", "stopping", "gone"}, polls : Nat,
                             active : Syncs \cup {None}, controller : Syncs \cup {None},
                             awaits : Syncs \cup {None}]]
  /\ job \in [Syncs -> [worker : Workers \cup {Nobody},
                        step : {"none", "starting", "over"} \cup Executing,
                        from : 0..end, upto : 0..end, batch : [Docs -> 0..end],
                        missed : SUBSET (1..Len(Log))]]
  /\ budget \in [polls : Nat, syncs : 0..MaxSyncs, changes : Nat, asks : Nat, stops : Nat, faults : Nat]
  /\ holder \in Syncs \cup {None}
  /\ detached \subseteq Syncs /\ robbed \subseteq Syncs
  /\ overtaken \in BOOLEAN /\ undercut \in BOOLEAN /\ skipped \subseteq 1..Len(Log)

\* A change that a written batch listed and did not read, of a document that is there: a
\* deletion is passed over only once its document has come back.
PassedOver(k) == k \in skipped /\ \E j \in k..end : Log[j] = Log[k] /\ j \notin Deletions

\* The index has every change up to the cursor but those whose document could not be read:
\* a sync resumes from the cursor of the batch it follows.
Covered == \A k \in 1..Len(Log) : k <= cursor => docs[Log[k]] >= k \/ PassedOver(k)

\* However leases, configurations and workers change while syncs read and write, no
\* change of the source is lost for good except one whose document a page listed and did not
\* read (google-drive.ts upsertFor and text, whose refusal the token moves beyond), until a
\* sync writes a batch that begins beyond the cursor; and that takes one that had lost its
\* lease to write before it (persistBatch does not look at the lease).
ChangesKept == (undercut \/ Covered) /\ (undercut => overtaken)

\* The lease and the open sync run are one: the run of the lease is open and its worker
\* the owner, and a run stays open without the lease only when a configuration took it
\* away, or another execution of the same worker, finishing by the worker's name
\* (queue.ts finish), ended it.
OpenRunHeld ==
  /\ \A i \in Syncs : syncRun[i] = "running" => i = holder \/ i \in detached \cup robbed
  /\ IF holder = None THEN instance.status # "running"
     ELSE /\ instance.status = "running" /\ syncRun[holder] = "running"
          /\ instance.owner = job[holder].worker

\* "Sync jobs are leased and retried so a worker restart does not strand a connector"
\* (docs/architecture.md): what is due is claimed and every lease comes to its end,
\* whoever died or lost an answer, as long as there are claims left to make.
Spent == budget.syncs = 0
NotStranded ==
  /\ instance.due /\ instance.status # "running" ~> instance.status = "running" \/ Spent
  /\ \A i \in Syncs : holder = i ~> holder # i \/ Spent

\* What of NotStranded holds at every moment: the execution that keeps a worker from
\* polling, or that its stop would abort, is one of its own and still at work, so it
\* ends and lets go; and who died is not at work on any claim, so its lease lapses.
BusyIsAtWork ==
  /\ \A w \in Workers, i \in Syncs :
       i \in {worker[w].active, worker[w].controller}
         => job[i].worker = w /\ job[i].step \in Executing
  /\ \A i \in Syncs : job[i].step \in {"starting"} \cup Executing
                       => worker[job[i].worker].mode # "gone"
=============================================================================
