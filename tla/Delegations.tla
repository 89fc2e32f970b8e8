---------------------------- MODULE Delegations ----------------------------
(***************************************************************************)
(* Handoffs of work between coworkers (server/src/work/delegations.ts),    *)
(* the run each of them owns, and the executor that works the run off.     *)
(*                                                                         *)
(* A handoff and its run are two rows, written by statements of their own: *)
(* people move the handoff and drag the run along, the executor moves the  *)
(* run and drags the handoff along, a person who moves the run itself      *)
(* drags nothing along, and one who stops a handoff walks the tree below   *)
(* it.  Every transition of a handoff reads the status, checks it, and     *)
(* writes without comparing again.                                         *)
(*                                                                         *)
(* The executor is reduced to what a handoff sees of it: one attempt at a  *)
(* time, which is claimed, announces itself, ends or is lost, and reports. *)
(* TaskRuns has the rest.                                                  *)
(*                                                                         *)
(* Operators marked "Slip" are plausible mistakes in the operator that     *)
(* follows them; no action uses them, the runs show that each is noticed.  *)
(***************************************************************************)
EXTENDS RunStatus, Naturals, FiniteSets

CONSTANTS
  Handoffs,      \* one request to create each
  People,        \* requests of members that change the status of a handoff
  Stoppers,      \* requests that stop a handoff and what is below it
  None,
  MaxDepth, MaxChildren, MaxParallel,
  MaxAttempts,   \* the ceiling of every run
  MaxFaults,     \* bound on lost processes and failed statements
  Scenes         \* which of the requests and faults happen together

ASSUME BoundsAssumption ==
  /\ {MaxDepth, MaxFaults} \subseteq Nat
  /\ {MaxChildren, MaxParallel, MaxAttempts} \subseteq Nat \ {0}

ASSUME ScenesAssumption ==
  Scenes \subseteq [handoffs : SUBSET Handoffs, executed : SUBSET Handoffs,
                    people : SUBSET People, stoppers : SUBSET Stoppers,
                    faults : 0..MaxFaults]

ASSUME NamesAssumption == None \notin Handoffs /\ People \cap Handoffs = {}

VARIABLES
  row,        \* the table of handoffs
  run,        \* the run of each handoff
  creating,   \* the request that creates it
  change,     \* a transition in progress: of a person, or of a run's hook
  exec,       \* the attempt at each run
  stop,       \* the requests that stop a tree
  crowded,    \* history: created after a sibling its request had not counted
  overtaken,  \* history: written by a request whose reading was out of date
  dragged,    \* history: its run moved by a change that another one had ended
  mishap,     \* history: left half changed by a fault
  moved,      \* history: the statuses a member wrote into its run itself
  faults

vars == <<row, run, creating, change, exec, stop, crowded, overtaken, dragged, mishap,
          moved, faults>>

Open  == {"queued", "accepted", "in_progress"}
Ended == {"completed", "failed", "cancelled"}

\* Slip: an ended handoff may be taken up again.
MovesReopened ==
  [s \in Open \cup Ended |->
     CASE s = "in_progress" -> Ended
       [] s = "completed"   -> {"in_progress"}
       [] OTHER             -> {"accepted", "in_progress", "failed", "cancelled"} \ {s}]
\* The table TRANSITIONS.
Moves ==
  [s \in Open \cup Ended |->
     CASE s = "queued"      -> {"accepted", "in_progress", "failed", "cancelled"}
       [] s = "accepted"    -> {"in_progress", "failed", "cancelled"}
       [] s = "in_progress" -> Ended
       [] OTHER             -> {}]

NoChange == [step |-> "idle", of |-> None, from |-> "queued", to |-> "queued"]
AnsweredChange == [NoChange EXCEPT !.step = "over"]

Asking == [step |-> "asking", parent |-> None, depth |-> 0, stopped |-> FALSE, siblings |-> {}]
Answered == [Asking EXCEPT !.step = "over"]

Fault == faults < MaxFaults /\ faults' = faults + 1

----------------------------------------------------------------------------
InitScene(scene) ==
  /\ row = [h \in Handoffs |-> [status |-> Absent, parent |-> None, depth |-> 0,
                                stopped |-> FALSE]]
  /\ run = [h \in Handoffs |-> [status |-> Absent, leased |-> FALSE, attempt |-> 0]]
  /\ creating = [h \in Handoffs |-> IF h \in scene.handoffs THEN Asking ELSE Answered]
  /\ change = [t \in People \cup Handoffs |->
                IF t \in Handoffs \cup scene.people THEN NoChange ELSE AnsweredChange]
  /\ exec = [h \in Handoffs |-> IF h \in scene.executed THEN "none" ELSE "away"]
  /\ stop = [s \in Stoppers |-> [step |-> IF s \in scene.stoppers THEN "ready" ELSE "over",
                                 frontier |-> {}, todo |-> {}, current |-> None, existing |-> {}]]
  /\ crowded = {} /\ overtaken = {} /\ dragged = {} /\ mishap = {}
  /\ moved = [h \in Handoffs |-> {}]
  /\ faults = MaxFaults - scene.faults

Init == \E scene \in Scenes : InitScene(scene)

----------------------------------------------------------------------------
(* create: parent, count, run and row are four statements *)

Exists(h) == row[h].status # Absent
Children(p) == {h \in Handoffs : Exists(h) /\ row[h].parent = p}
Active(p) == {h \in Children(p) : row[h].status \in Open}

\* A handoff without a parent has nothing to count.
AskRoot(h) ==
  /\ creating[h].step = "asking"
  /\ creating' = [creating EXCEPT ![h].step = "admitted"]
  /\ UNCHANGED <<row, run, change, exec, stop,
                 crowded, overtaken, dragged, mishap, moved, faults>>

\* getOwned of the parent; a handoff that is too deep is refused at once.
AskBelow(h, p) ==
  /\ creating[h].step = "asking"
  /\ Exists(p)
  /\ creating' = [creating EXCEPT
       ![h] = IF row[p].depth + 1 > MaxDepth THEN Answered
              ELSE [@ EXCEPT !.step = "counting", !.parent = p,
                             !.depth = row[p].depth + 1, !.stopped = row[p].stopped]]
  /\ UNCHANGED <<row, run, change, exec, stop,
                 crowded, overtaken, dragged, mishap, moved, faults>>

\* Slip: the limit is passed by one.
AdmitsOneMore(c) == /\ Cardinality(Children(c.parent)) <= MaxChildren
                    /\ Cardinality(Active(c.parent)) <= MaxParallel
                    /\ ~c.stopped
Admits(c) == /\ Cardinality(Children(c.parent)) < MaxChildren
             /\ Cardinality(Active(c.parent)) < MaxParallel
             /\ ~c.stopped

Count(h) ==
  /\ creating[h].step = "counting"
  /\ creating' = [creating EXCEPT
       ![h] = IF Admits(@) THEN [@ EXCEPT !.step = "admitted", !.siblings = Children(creating[h].parent)]
              ELSE Answered]
  /\ UNCHANGED <<row, run, change, exec, stop,
                 crowded, overtaken, dragged, mishap, moved, faults>>

\* The run is queued; no executor sees it before the row of its handoff exists.
CreateRun(h) ==
  /\ creating[h].step = "admitted"
  /\ creating' = [creating EXCEPT ![h].step = "queued"]
  /\ run' = [run EXCEPT ![h].status = "queued"]
  /\ UNCHANGED <<row, change, exec, stop, crowded, overtaken, dragged, mishap, moved, faults>>

InsertRow(h) ==
  LET c == creating[h] IN
  /\ c.step = "queued"
  /\ creating' = [creating EXCEPT ![h] = Answered]
  /\ row' = [row EXCEPT ![h] = [status |-> "queued", parent |-> c.parent,
                                depth |-> c.depth, stopped |-> FALSE]]
  /\ crowded' = IF c.parent # None /\ Children(c.parent) # c.siblings
                THEN crowded \cup {h} ELSE crowded
  /\ UNCHANGED <<run, change, exec, stop, overtaken, dragged, mishap, moved, faults>>

\* The request dies on its way: a run may remain that nothing will claim.
CreationFails(h) ==
  /\ creating[h].step \in {"admitted", "queued"}
  /\ Fault
  /\ creating' = [creating EXCEPT ![h] = Answered]
  /\ UNCHANGED <<row, run, change, exec, stop, crowded, overtaken, dragged, mishap, moved>>

----------------------------------------------------------------------------
(* transition: read and check, write, then move the run *)

Idle(t) == change[t].step = "idle"

Allowed(from, to) == from = to \/ to \in Moves[from]

Reading(t, h, to) ==
  change' = [change EXCEPT ![t] = [step |-> "writing", of |-> h,
                                   from |-> row[h].status, to |-> to]]

\* A member's PATCH.
Ask(t, h, to) ==
  /\ t \in People /\ Idle(t)
  /\ Exists(h) /\ Allowed(row[h].status, to)
  /\ Reading(t, h, to)
  /\ UNCHANGED <<row, run, creating, exec, stop,
                 crowded, overtaken, dragged, mishap, moved, faults>>

\* The update compares the id alone.
Write(t) ==
  LET c == change[t] IN
  /\ c.step = "writing"
  /\ row' = [row EXCEPT ![c.of].status = c.to]
  /\ overtaken' = IF row[c.of].status # c.from THEN overtaken \cup {c.of} ELSE overtaken
  /\ change' = [change EXCEPT ![t].step = IF c.to = "cancelled" THEN "finishing" ELSE "entering"]
  /\ UNCHANGED <<run, creating, exec, stop, crowded, dragged, mishap, moved, faults>>

\* transitionSystem, whose refusal is swallowed.
Sent(h, s) ==
  IF s \in Transitions[run[h].status]
  THEN [run EXCEPT ![h] = [run[h] EXCEPT
          !.status = s, !.leased = run[h].leased /\ s \notin Terminal \cup {"queued"}]]
  ELSE run

\* The request of a member is answered.  What the hook of a run was for is done:
\* the attempt works, or it is over.
Done(t) ==
  /\ change' = [change EXCEPT ![t] = IF t \in Handoffs THEN NoChange ELSE AnsweredChange]
  /\ exec' = IF t \in Handoffs
             THEN [exec EXCEPT ![t] = IF @ = "starting" THEN "working" ELSE "none"]
             ELSE exec

\* syncTaskRun: any status but queued and cancelled moves the run to running.
Enter(t) ==
  LET c == change[t] IN
  /\ c.step = "entering"
  /\ run' = IF c.to = "queued" THEN run ELSE Sent(c.of, "running")
  /\ IF c.to \in Ended
     THEN change' = [change EXCEPT ![t].step = "finishing"] /\ UNCHANGED exec
     ELSE Done(t)
  /\ dragged' = IF c.to \in Open /\ row[c.of].status \in Ended /\ run' # run
                THEN dragged \cup {c.of} ELSE dragged
  /\ UNCHANGED <<row, creating, stop, crowded, overtaken, mishap, moved, faults>>

\* Slip: the run of a cancelled handoff goes on.
OutcomeKept(s) == CASE s = "completed" -> "succeeded" [] s = "failed" -> "failed"
                    [] OTHER -> "running"
Outcome(s) == IF s = "completed" THEN "succeeded" ELSE s

Finish(t) ==
  LET c == change[t] IN
  /\ c.step = "finishing"
  /\ run' = Sent(c.of, Outcome(c.to))
  /\ Done(t)
  /\ UNCHANGED <<row, creating, stop, crowded, overtaken, dragged, mishap, moved, faults>>

\* PATCH of the run itself (runs/routes.ts): one transaction, which knows of no handoff;
\* no hook follows a status that is written here.
MoveRun(t, h, s) ==
  /\ t \in People /\ Idle(t)
  /\ run[h].status \in Statuses /\ s \in Transitions[run[h].status]
  /\ run' = Sent(h, s)
  /\ moved' = [moved EXCEPT ![h] = @ \cup {s}]
  /\ change' = [change EXCEPT ![t] = AnsweredChange]
  /\ UNCHANGED <<row, creating, exec, stop, crowded, overtaken, dragged, mishap, faults>>

\* The member's request dies after its write, or the run store fails.
ChangeFails(t) ==
  /\ t \in People /\ change[t].step \in {"entering", "finishing"}
  /\ Fault
  /\ mishap' = mishap \cup {change[t].of}
  /\ Done(t)
  /\ UNCHANGED <<row, run, creating, stop, crowded, overtaken, dragged, moved>>

----------------------------------------------------------------------------
(* The executor, as a handoff sees it *)

Claim(h) ==
  /\ run[h].status = "queued" /\ Exists(h) /\ exec[h] = "none"
  /\ run' = [run EXCEPT ![h] = [status |-> "running", leased |-> TRUE, attempt |-> @.attempt + 1]]
  /\ exec' = [exec EXCEPT ![h] = "starting"]
  /\ UNCHANGED <<row, creating, change, stop, crowded, overtaken, dragged, mishap, moved, faults>>

Announced == [starting |-> "in_progress", succeeded |-> "completed", failed |-> "failed"]

\* onStarted, onSucceeded and onFailed ask for a transition of the handoff.
Hook(h) ==
  LET to == Announced[exec[h]] IN
  /\ exec[h] \in DOMAIN Announced /\ Idle(h)
  /\ Exists(h) /\ Allowed(row[h].status, to)
  /\ Reading(h, h, to)
  /\ UNCHANGED <<row, run, creating, exec, stop,
                 crowded, overtaken, dragged, mishap, moved, faults>>

\* The refusal of the first one keeps the attempt from starting, that of the
\* others is logged.
HookRefused(h) ==
  /\ exec[h] \in DOMAIN Announced /\ Idle(h)
  /\ ~(Exists(h) /\ Allowed(row[h].status, Announced[exec[h]]))
  /\ exec' = [exec EXCEPT ![h] = IF @ = "starting" THEN "refused" ELSE "none"]
  /\ UNCHANGED <<row, run, creating, change, stop,
                 crowded, overtaken, dragged, mishap, moved, faults>>

\* A statement of the hook fails: an attempt that could not announce itself does
\* not start, a report is given up.
HookFails(h) ==
  /\ exec[h] \in DOMAIN Announced /\ ~Idle(h)
  /\ Fault
  /\ change' = [change EXCEPT ![h] = NoChange]
  /\ exec' = [exec EXCEPT ![h] = IF @ = "starting" THEN "refused" ELSE "none"]
  /\ mishap' = IF exec[h] # "starting" THEN mishap \cup {h} ELSE mishap
  /\ UNCHANGED <<row, run, creating, stop, crowded, overtaken, dragged, moved>>

Retries(h) == run[h].attempt < MaxAttempts

\* Slip: a failure is not reported.
ReportedOnSuccess(ok, retry) == IF ok THEN "succeeded" ELSE "none"
Reported(ok, retry) == IF retry THEN "none" ELSE IF ok THEN "succeeded" ELSE "failed"

\* settleAutomated by the attempt, or recoverExpiredAutomated for one that was lost, or
\* that was dropped by a run which a member set to wait, with its lease, and then running.
Settle(h, ok) ==
  LET retry == ~ok /\ Retries(h) IN
  /\ exec[h] \in {"none", "working", "refused", "lost"}
  /\ ok => exec[h] = "working"
  /\ run[h].status = "running" /\ run[h].leased
  /\ run' = [run EXCEPT ![h] = [@ EXCEPT !.leased = FALSE,
                                         !.status = IF ok THEN "succeeded"
                                                    ELSE IF retry THEN "queued" ELSE "failed"]]
  /\ exec' = [exec EXCEPT ![h] = Reported(ok, retry)]
  /\ UNCHANGED <<row, creating, change, stop, crowded, overtaken, dragged, mishap, moved, faults>>

\* The run was taken away: its heartbeat aborts the attempt and nothing settles.
Dropped(h) ==
  /\ exec[h] \in {"working", "refused", "lost"}
  /\ ~(run[h].status = "running" /\ run[h].leased)
  /\ exec' = [exec EXCEPT ![h] = "none"]
  /\ UNCHANGED <<row, run, creating, change, stop,
                 crowded, overtaken, dragged, mishap, moved, faults>>

\* The process dies; a report it had not made is made by nobody.
ProcessDies(h) ==
  /\ exec[h] \in {"starting", "working", "succeeded", "failed"}
  /\ Fault
  /\ change' = [change EXCEPT ![h] = NoChange]
  /\ exec' = [exec EXCEPT ![h] = IF @ \in {"starting", "working"} THEN "lost" ELSE "none"]
  /\ mishap' = IF exec[h] \in {"succeeded", "failed"} THEN mishap \cup {h} ELSE mishap
  /\ UNCHANGED <<row, run, creating, stop, crowded, overtaken, dragged, moved>>

----------------------------------------------------------------------------
(* steer with stop: walk the tree level by level, then cancel what was open *)

OpenAmong(S) == {h \in S : row[h].status \in Open}

\* What exists below h, h included: the least set that holds h and its own children.
Tree(h) ==
  {g \in Handoffs : \A S \in SUBSET Handoffs :
     h \in S /\ (\A p \in S : Children(p) \subseteq S) => g \in S}

BeginStop(s, h) ==
  /\ stop[s].step = "ready" /\ Exists(h)
  /\ stop' = [stop EXCEPT ![s] = [step |-> "walking", frontier |-> {h}, todo |-> OpenAmong({h}),
                                  current |-> None, existing |-> Tree(h)]]
  /\ UNCHANGED <<row, run, creating, change, exec,
                 crowded, overtaken, dragged, mishap, moved, faults>>

\* Slip: the walk ends one level too early.
NextLevelShort(s) == {h \in UNION {Children(p) : p \in stop[s].frontier} : row[h].depth < MaxDepth}
NextLevel(s) == UNION {Children(p) : p \in stop[s].frontier}

Walk(s) ==
  LET kids == NextLevel(s) IN
  /\ stop[s].step = "walking"
  /\ stop' = [stop EXCEPT ![s] = [@ EXCEPT !.step = IF kids = {} THEN "cancelling" ELSE "walking",
                                           !.frontier = kids,
                                           !.todo = stop[s].todo \cup OpenAmong(kids)]]
  /\ UNCHANGED <<row, run, creating, change, exec,
                 crowded, overtaken, dragged, mishap, moved, faults>>

\* From the top down; the status read on the walk is not read again.
CancelRow(s, h) ==
  /\ stop[s].step = "cancelling" /\ stop[s].current = None
  /\ h \in stop[s].todo /\ \A g \in stop[s].todo : row[h].depth <= row[g].depth
  /\ row' = [row EXCEPT ![h] = [@ EXCEPT !.status = "cancelled", !.stopped = TRUE]]
  /\ overtaken' = IF row[h].status \in Ended THEN overtaken \cup {h} ELSE overtaken
  /\ stop' = [stop EXCEPT ![s] = [@ EXCEPT !.todo = stop[s].todo \ {h}, !.current = h]]
  /\ UNCHANGED <<run, creating, change, exec, crowded, dragged, mishap, moved, faults>>

CancelRun(s) ==
  /\ stop[s].current # None
  /\ run' = Sent(stop[s].current, "cancelled")
  /\ stop' = [stop EXCEPT ![s].current = None]
  /\ UNCHANGED <<row, creating, change, exec, crowded, overtaken, dragged, mishap, moved, faults>>

EndStop(s) ==
  /\ stop[s].step = "cancelling" /\ stop[s].current = None /\ stop[s].todo = {}
  /\ stop' = [stop EXCEPT ![s].step = "over"]
  /\ UNCHANGED <<row, run, creating, change, exec,
                 crowded, overtaken, dragged, mishap, moved, faults>>

StopFails(s) ==
  /\ stop[s].step = "cancelling"
  /\ Fault
  /\ stop' = [stop EXCEPT ![s] = [@ EXCEPT !.step = "over", !.todo = {}, !.current = None]]
  /\ mishap' = mishap \cup stop[s].todo \cup ({stop[s].current} \ {None})
  /\ UNCHANGED <<row, run, creating, change, exec, crowded, overtaken, dragged, moved>>

----------------------------------------------------------------------------
Creation(h) == Count(h) \/ CreateRun(h) \/ InsertRow(h)
Attempt(h) == \/ Claim(h) \/ Hook(h) \/ HookRefused(h) \/ Dropped(h)
              \/ \E ok \in BOOLEAN : Settle(h, ok)
Change(t) == Write(t) \/ Enter(t) \/ Finish(t)
Stopping(s) == \/ Walk(s) \/ CancelRun(s) \/ EndStop(s)
               \/ \E h \in Handoffs : CancelRow(s, h)

Next ==
  \/ \E h \in Handoffs : \/ AskRoot(h) \/ Creation(h) \/ CreationFails(h)
                         \/ Attempt(h) \/ HookFails(h) \/ ProcessDies(h)
                         \/ \E p \in Handoffs : AskBelow(h, p)
  \/ \E t \in People : \/ ChangeFails(t)
                       \/ \E h \in Handoffs, to \in Open \cup Ended : Ask(t, h, to)
                       \/ \E h \in Handoffs, s \in Statuses : MoveRun(t, h, s)
  \/ \E t \in People \cup Handoffs : Change(t)
  \/ \E s \in Stoppers : \/ Stopping(s) \/ StopFails(s)
                         \/ \E h \in Handoffs : BeginStop(s, h)

Spec == Init /\ [][Next]_vars

(***************************************************************************)
(* Requests that are under way are carried out, executors tick, attempts   *)
(* end by their runtime budget and lost ones are recovered.  Nobody has to *)
(* ask for anything.                                                       *)
(***************************************************************************)
Fairness ==
  /\ \A h \in Handoffs : WF_vars(Creation(h)) /\ WF_vars(Attempt(h))
  /\ \A t \in People \cup Handoffs : WF_vars(Change(t))
  /\ \A s \in Stoppers : WF_vars(Stopping(s))

FairSpec == Spec /\ Fairness

----------------------------------------------------------------------------
(* Properties *)

\* Every row and every request keeps its shape, and no run that is not queued again by
\* hand is attempted more often than its ceiling says.
TypeOK ==
  /\ row \in [Handoffs -> [status : Open \cup Ended \cup {Absent},
                           parent : Handoffs \cup {None}, depth : 0..MaxDepth,
                           stopped : BOOLEAN]]
  /\ run \in [Handoffs -> [status : Statuses \cup {Absent}, leased : BOOLEAN, attempt : Nat]]
  /\ \A h \in Handoffs : "queued" \notin moved[h] => run[h].attempt <= MaxAttempts
  /\ creating \in [Handoffs -> [step : {"asking", "counting", "admitted", "queued", "over"},
                                parent : Handoffs \cup {None}, depth : 0..MaxDepth,
                                stopped : BOOLEAN, siblings : SUBSET Handoffs]]
  /\ change \in [People \cup Handoffs ->
                   [step : {"idle", "writing", "entering", "finishing", "over"},
                    of : Handoffs \cup {None}, from : Open \cup Ended, to : Open \cup Ended]]
  /\ exec \in [Handoffs -> {"away", "none", "starting", "working", "refused", "succeeded",
                            "failed", "lost"}]
  /\ stop \in [Stoppers -> [step : {"ready", "walking", "cancelling", "over"},
                            frontier : SUBSET Handoffs, todo : SUBSET Handoffs,
                            current : Handoffs \cup {None}, existing : SUBSET Handoffs]]
  /\ {crowded, overtaken, dragged, mishap} \subseteq SUBSET Handoffs
  /\ moved \in [Handoffs -> SUBSET Statuses]
  /\ faults \in 0..MaxFaults

\* The limits of a handoff hold for the requests that did not overlap: whatever
\* ends, is stopped or is retried, only children that were counted at the same
\* time, or that came back through an overtaken write, exceed them.
LimitsHeld ==
  \A p \in Handoffs :
    /\ Cardinality(Children(p) \ crowded) <= MaxChildren
    /\ Cardinality(Active(p) \ (crowded \cup overtaken)) <= MaxParallel

\* A stop that was answered has ended everything that was below the handoff when
\* it was asked for, unless a transition that had read the old status, or a
\* fault, put it back.
TreeStopped ==
  \A s \in Stoppers : stop[s].step = "over" =>
    \A h \in stop[s].existing : row[h].status \in Ended \/ h \in overtaken \cup mishap

\* An end is final but for one race: a handoff that ended changes its status
\* only by a request that had read it before it ended.
EndUndoneByRaceOnly ==
  [][\A h \in Handoffs : row[h].status \in Ended /\ row'[h].status # row[h].status
       => h \in overtaken']_vars

\* The run of a handoff that ended comes to an end too, and does not go on
\* retrying or stay claimed, whoever ended the handoff; unless a change that came
\* before the end moved the run after it, from its retry out of every executor's sight,
\* or a member wrote into the run itself that it goes on or waits.
RunsEnd ==
  \A h \in Handoffs : row[h].status \in Ended ~> \/ run[h].status \in Terminal
                                                \/ h \in overtaken \cup mishap \cup dragged
                                                \/ ~(moved[h] \subseteq Terminal)

\* The handoff of a run that ended hears of it, whatever else members wrote into the run,
\* unless a member wrote that end into it: that request tells nobody (runs/routes.ts:102).
EndedByHand(h) == moved[h] \cap Terminal # {}
HandoffHears ==
  \A h \in Handoffs : Exists(h) /\ run[h].status \in Terminal
                        ~> \/ row[h].status \in Ended
                           \/ h \in overtaken \cup mishap
                           \/ EndedByHand(h)

\* The safety half of RunsEnd: the run of an ended handoff that is running is an attempt's,
\* or is about to be ended by who ended the handoff.
EndIsPassedOn ==
  \A h \in Handoffs : row[h].status \in Ended /\ run[h].status = "running" =>
    \/ run[h].leased /\ exec[h] \in {"starting", "working", "refused", "lost"}
    \/ \E t \in People \cup Handoffs : /\ change[t].step \in {"entering", "finishing"}
                                      /\ change[t].of = h /\ change[t].to \in Ended
    \/ \E s \in Stoppers : stop[s].current = h
    \/ h \in overtaken \cup mishap \cup dragged
    \/ ~(moved[h] \subseteq Terminal)

\* The safety half of HandoffHears: an open handoff whose run ended is still to be told
\* by its last attempt (notifyFailed, onSucceeded), and that report will be accepted.
ReportIsDue ==
  \A h \in Handoffs : Exists(h) /\ run[h].status \in Terminal /\ row[h].status \in Open =>
    \/ exec[h] \in {"succeeded", "failed"} /\ Allowed(row[h].status, Announced[exec[h]])
    \/ h \in overtaken \cup mishap
    \/ EndedByHand(h)

\* The runs of handoffs live the life RunLifecycle describes, as those of TaskRuns do:
\* members, stops and hooks move them through the store, never around it.
Life == INSTANCE RunLifecycle WITH Runs    <- Handoffs,
                                   status  <- [h \in Handoffs |-> run[h].status],
                                   attempt <- [h \in Handoffs |-> run[h].attempt]
FollowsLifecycle == Life!Spec

----------------------------------------------------------------------------
(* What the sources of the program say of it, and the code does not keep *)

\* architecture.md: the executor leases queued runs of handoffs and recovers
\* them.  A handoff a member accepted is worked on.
AcceptedGoesOn ==
  \A h \in Handoffs : row[h].status = "accepted" ~> row[h].status # "accepted"
=============================================================================
