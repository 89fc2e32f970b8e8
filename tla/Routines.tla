------------------------------ MODULE Routines ------------------------------
(***************************************************************************)
(* Routines: work that is queued on a schedule, by a webhook or by hand    *)
(* (server/src/work/routines.ts and scheduler.ts).                         *)
(*                                                                         *)
(* The scheduler of each process claims the routines that are due and      *)
(* moves them to their next occurrence in one transaction, and then        *)
(* dispatches what it claimed one by one, each by statements of its own:   *)
(* reserve the pair of routine and time, create the run, link the two,     *)
(* tell the owner.  A step that throws withdraws the reservation and ends  *)
(* the tick.  Members change a routine by a row they read before.          *)
(*                                                                         *)
(* Time is counted in minutes; the schedule is an interval of one minute.  *)
(* A schedule the database holds is one that parsed when it was written.   *)
(*                                                                         *)
(* The last six variables record history and guard no step of the code.    *)
(* Operators marked "Slip" are plausible mistakes in the operator that     *)
(* follows them; no action uses them, the runs show that each is noticed.  *)
(***************************************************************************)
EXTENDS Naturals, FiniteSets

CONSTANTS
  Names,        \* routines
  Schedulers,   \* processes, each with one timer
  Requests,     \* requests that run a routine now, by hand or webhook
  People,       \* requests of members that change a routine
  Limits,       \* values of the parameter maximum of dispatchDue
  MaxTime,      \* bound: the clock
  MaxFaults,    \* bound: failed statements and lost processes
  Scenes        \* which of them happen together

ASSUME BoundsAssumption == Limits \subseteq Nat \ {0} /\ {MaxTime, MaxFaults} \subseteq Nat
ASSUME ActorsAssumption == Schedulers \cap Requests = {}
ASSUME ScenesAssumption ==
  Scenes \subseteq [scheduled : SUBSET Names, acting : SUBSET (Schedulers \cup Requests),
                    people : SUBSET People, faults : 0..MaxFaults]

VARIABLES
  clock,
  routine,      \* the rows of routines
  dispatch,     \* the rows of routine_dispatches, by their unique pair
  made,         \* how many runs were created for an occurrence
  executed,     \* the runs an executor worked off
  work,         \* what a scheduler or a request is doing
  edit,         \* what a member's change has read and is to write
  claimed,      \* occurrences a scheduler claimed
  lost,         \* claimed or requested ones that a fault kept from their run
  undone,       \* those whose reservation was withdrawn
  abandoned,    \* those whose reservation nobody will link
  raced,        \* routines last written by a change that had read another status
  faults

vars == <<clock, routine, dispatch, made, executed, work, edit, claimed, lost, undone,
          abandoned, raced, faults>>

----------------------------------------------------------------------------
Never == 0                              \* a null next_run_at
Occurrences == Names \X (0..MaxTime)
Nothing == <<>>                         \* no item in hand
Free == [there |-> FALSE, run |-> 0]
At(step) == [step |-> step, now |-> 0, todo |-> {}, item |-> Nothing, run |-> 0]
NoEdit == [step |-> "idle", of |-> Nothing, seen |-> "active", asks |-> {}, next |-> Never]
Edited == [NoEdit EXCEPT !.step = "over"]
Dispatchers == Schedulers \cup Requests
Statuses == {"active", "paused", "archived"}

NextAfter(now) == now + 1

Fault == faults < MaxFaults /\ faults' = faults + 1

\* Those that are not part of the scene have come to their end.
InitScene(scene) ==
  /\ clock = 0
  /\ routine = [r \in Names |->
       IF r \in scene.scheduled
       THEN [status |-> "active", trigger |-> "schedule", next |-> NextAfter(0)]
       ELSE [status |-> "active", trigger |-> "webhook", next |-> Never]]
  /\ dispatch = [o \in Occurrences |-> Free]
  /\ made = [o \in Occurrences |-> 0]
  /\ executed = {}
  /\ work = [d \in Dispatchers |-> At(IF d \in scene.acting THEN "idle" ELSE "over")]
  /\ edit = [p \in People |-> IF p \in scene.people THEN NoEdit ELSE Edited]
  /\ claimed = {} /\ lost = {} /\ undone = {} /\ abandoned = {} /\ raced = {}
  /\ faults = MaxFaults - scene.faults

Init == \E scene \in Scenes : InitScene(scene)

Goto(d, step) == work' = [work EXCEPT ![d].step = step]

history == <<claimed, lost, undone, abandoned, raced, faults>>

Pass ==
  /\ clock < MaxTime /\ clock' = clock + 1
  /\ UNCHANGED <<routine, dispatch, made, executed, work, edit, history>>

----------------------------------------------------------------------------
(* A tick of the scheduler.  One is under way in a process at most.        *)

BeginTick(s) ==
  /\ work[s].step = "idle"
  /\ work' = [work EXCEPT ![s] = [At("claiming") EXCEPT !.now = clock]]
  /\ UNCHANGED <<clock, routine, dispatch, made, executed, edit, history>>

Due(now) == {r \in Names : /\ routine[r].status = "active" /\ routine[r].trigger = "schedule"
                           /\ routine[r].next # Never /\ routine[r].next <= now}

\* The first of them by next_run_at, up to the limit.
Batches(now, limit) ==
  {S \in SUBSET Due(now) :
     /\ Cardinality(S) <= limit
     /\ S # Due(now) => Cardinality(S) = limit
     /\ \A r \in S, q \in Due(now) \ S : routine[r].next <= routine[q].next}

Claim(s) ==
  /\ work[s].step = "claiming"
  /\ \E limit \in Limits : \E S \in Batches(work[s].now, limit) :
       LET items == {<<r, routine[r].next>> : r \in S} IN
       /\ routine' = [r \in Names |-> IF r \notin S THEN routine[r]
                        ELSE [routine[r] EXCEPT !.next = NextAfter(work[s].now)]]
       /\ work' = [work EXCEPT ![s] = [At("dispatching") EXCEPT !.todo = items]]
       /\ claimed' = claimed \cup items
  /\ UNCHANGED <<clock, dispatch, made, executed, edit, lost, undone, abandoned, raced, faults>>

EndTick(s) ==
  /\ work[s].step = "dispatching" /\ work[s].todo = {}
  /\ work' = [work EXCEPT ![s] = At("idle")]
  /\ UNCHANGED <<clock, routine, dispatch, made, executed, edit, history>>

----------------------------------------------------------------------------
(* A request that runs a routine now: it reads the row and dispatches it.  *)

Ask(q, r) ==
  /\ work[q].step = "idle"
  /\ work' = [work EXCEPT ![q] = [At("dispatching") EXCEPT !.todo = {<<r, clock>>}]]
  /\ UNCHANGED <<clock, routine, dispatch, made, executed, edit, history>>

RunNow(q, r) == routine[r].status # "archived" /\ Ask(q, r)

Webhook(q, r) == /\ routine[r].trigger = "webhook" /\ routine[r].status = "active"
                 /\ Ask(q, r)

EndRequest(q) ==
  /\ work[q].step = "dispatching" /\ work[q].todo = {}
  /\ work' = [work EXCEPT ![q] = At("over")]
  /\ UNCHANGED <<clock, routine, dispatch, made, executed, edit, history>>

----------------------------------------------------------------------------
(* dispatch, of the earliest that is left.                                 *)

IsNext(d, o) == o \in work[d].todo /\ \A p \in work[d].todo : o[2] <= p[2]

\* Slip: the insert does not look for the pair.
TakenNever(o) == FALSE
Taken(o) == dispatch[o].there

Reserve(d, o) ==
  /\ work[d].step = "dispatching" /\ IsNext(d, o) /\ ~Taken(o)
  /\ dispatch' = [dispatch EXCEPT ![o] = [there |-> TRUE, run |-> 0]]
  /\ work' = [work EXCEPT ![d] = [@ EXCEPT !.step = "creating", !.item = o]]
  /\ UNCHANGED <<clock, routine, made, executed, edit, history>>

\* Slip: an occurrence somebody else reserved ends the tick.
NothingLeft(d, o) == {}
LeftAfter(d, o) == work[d].todo \ {o}

Reserved(d, o) ==
  /\ work[d].step = "dispatching" /\ IsNext(d, o) /\ Taken(o)
  /\ work' = [work EXCEPT ![d] = [@ EXCEPT !.todo = LeftAfter(d, o)]]
  /\ UNCHANGED <<clock, routine, dispatch, made, executed, edit, history>>

CreateRun(d) ==
  LET o == work[d].item IN
  /\ work[d].step = "creating"
  /\ made' = [made EXCEPT ![o] = @ + 1]
  /\ work' = [work EXCEPT ![d] = [@ EXCEPT !.step = "linking", !.run = made[o] + 1]]
  /\ UNCHANGED <<clock, routine, dispatch, executed, edit, history>>

LinkRun(d) ==
  /\ work[d].step = "linking"
  /\ dispatch' = [dispatch EXCEPT ![work[d].item].run = work[d].run]
  /\ Goto(d, "announcing")
  /\ UNCHANGED <<clock, routine, made, executed, edit, history>>

\* last_run_at, the notification and the audit record.
Announce(d) ==
  /\ work[d].step = "announcing"
  /\ work' = [work EXCEPT ![d] = [At("dispatching") EXCEPT
                                    !.todo = LeftAfter(d, work[d].item)]]
  /\ UNCHANGED <<clock, routine, dispatch, made, executed, edit, history>>

Holding == {"creating", "linking", "announcing", "undoing"}

DispatchFails(d) ==
  /\ work[d].step \in {"creating", "linking", "announcing"}
  /\ Fault
  /\ Goto(d, "undoing")
  /\ UNCHANGED <<clock, routine, dispatch, made, executed, edit, claimed, lost, undone,
                 abandoned, raced>>

Withdrawn(o) == [dispatch EXCEPT ![o] = Free]

\* The caller of a request is told; a scheduler logs and waits for its next tick.
\* What was left of the batch is not dispatched.
GiveUp(d, rows) ==
  /\ work' = [work EXCEPT ![d] = At(IF d \in Schedulers THEN "idle" ELSE "over")]
  /\ lost' = lost \cup {o \in work[d].todo : rows[o].run = 0}

Undo(d) ==
  LET o == work[d].item IN
  /\ work[d].step = "undoing"
  /\ dispatch' = Withdrawn(o)
  /\ undone' = undone \cup {o}
  /\ GiveUp(d, Withdrawn(o))
  /\ UNCHANGED <<clock, routine, made, executed, edit, claimed, abandoned, raced, faults>>

\* The insert or the withdrawal fails, or the process dies wherever it is.
Breaks(d) ==
  /\ work[d].step \in {"claiming", "dispatching"} \cup Holding
  /\ Fault
  /\ GiveUp(d, dispatch)
  /\ abandoned' = IF work[d].step \in Holding THEN abandoned \cup {work[d].item} ELSE abandoned
  /\ UNCHANGED <<clock, routine, dispatch, made, executed, edit, claimed, undone, raced>>

----------------------------------------------------------------------------
(* An executor claims queued runs that a dispatch names (module TaskRuns). *)

Execute(o) ==
  /\ dispatch[o].run # 0 /\ <<o, dispatch[o].run>> \notin executed
  /\ executed' = executed \cup {<<o, dispatch[o].run>>}
  /\ UNCHANGED <<clock, routine, dispatch, made, work, edit, history>>

----------------------------------------------------------------------------
(* A member changes the status of a routine, or something else of it: the  *)
(* row is read, the next time computed, and both written later.            *)

Status(old, asks) == IF asks = {} THEN old ELSE CHOOSE s \in asks : TRUE

\* Slip: a routine that was off when it was read gets no next time.
OnWhenRead(seen, asks) == seen = "active"
OnAfter(seen, asks) == Status(seen, asks) = "active"

Read(p, r, asks) ==
  /\ edit[p].step = "idle"
  /\ edit' = [edit EXCEPT ![p] =
       [step |-> "writing", of |-> <<r>>, seen |-> routine[r].status, asks |-> asks,
        next |-> IF OnAfter(routine[r].status, asks) /\ routine[r].trigger = "schedule"
                 THEN NextAfter(clock) ELSE Never]]
  /\ UNCHANGED <<clock, routine, dispatch, made, executed, work, history>>

Write(p) ==
  LET r == edit[p].of[1] IN
  /\ edit[p].step = "writing"
  /\ routine' = [routine EXCEPT ![r] =
       [@ EXCEPT !.status = Status(routine[r].status, edit[p].asks),
                 !.next = edit[p].next]]
  /\ raced' = IF routine[r].status = edit[p].seen THEN raced \ {r} ELSE raced \cup {r}
  /\ edit' = [edit EXCEPT ![p] = Edited]
  /\ UNCHANGED <<clock, dispatch, made, executed, work, claimed, lost, undone, abandoned, faults>>

----------------------------------------------------------------------------
Dispatching(d) == \/ \E o \in Occurrences : Reserve(d, o) \/ Reserved(d, o)
                  \/ CreateRun(d) \/ LinkRun(d) \/ Announce(d) \/ Undo(d)

Ticking(s) == BeginTick(s) \/ Claim(s) \/ Dispatching(s) \/ EndTick(s)
Answering(q) == Dispatching(q) \/ EndRequest(q)

Next ==
  \/ Pass
  \/ \E s \in Schedulers : Ticking(s)
  \/ \E q \in Requests : \/ Answering(q)
                         \/ \E r \in Names : RunNow(q, r) \/ Webhook(q, r)
  \/ \E d \in Dispatchers : DispatchFails(d) \/ Breaks(d)
  \/ \E o \in Occurrences : Execute(o)
  \/ \E p \in People : \/ Write(p)
                       \/ \E r \in Names, asks \in {{}} \cup {{s} : s \in Statuses} : Read(p, r, asks)

Spec == Init /\ [][Next]_vars

(***************************************************************************)
(* The timer of a process goes on ticking, and a tick or a request that is *)
(* under way goes on; executors claim what is queued.  Nobody has to ask   *)
(* for anything, and the clock may stand still.                            *)
(***************************************************************************)
Fairness ==
  /\ \A s \in Schedulers : WF_vars(Ticking(s))
  /\ \A q \in Requests : WF_vars(Answering(q))
  /\ \A o \in Occurrences : WF_vars(Execute(o))

FairSpec == Spec /\ Fairness

----------------------------------------------------------------------------
(* Properties *)

\* Every row, tick and request keeps its shape.
TypeOK ==
  /\ clock \in 0..MaxTime
  /\ routine \in [Names -> [status : Statuses, trigger : {"schedule", "webhook"},
                            next : 0..(MaxTime + 1)]]
  /\ dispatch \in [Occurrences -> [there : BOOLEAN, run : Nat]]
  /\ made \in [Occurrences -> Nat]
  /\ executed \subseteq Occurrences \X Nat
  /\ work \in [Dispatchers -> [step : {"idle", "claiming", "dispatching", "over"} \cup Holding,
                               now : 0..MaxTime, todo : SUBSET Occurrences,
                               item : Occurrences \cup {Nothing}, run : Nat]]
  /\ edit \in [People -> [step : {"idle", "writing", "over"},
                          of : {<<r>> : r \in Names} \cup {Nothing}, seen : Statuses,
                          asks : SUBSET Statuses, next : 0..(MaxTime + 1)]]
  /\ claimed \cup lost \cup undone \cup abandoned \subseteq Occurrences
  /\ raced \subseteq Names
  /\ faults \in 0..MaxFaults

\* "Restarting this timer cannot duplicate a scheduled run" (scheduler.ts): however
\* ticks, requests and changes of the schedule overlap, one occurrence is worked
\* twice only after a reservation was withdrawn from under its run.
WorkedOnce ==
  \A e, f \in executed : e[1] = f[1] => e = f \/ e[1] \in undone

\* The run of a reservation is "Null only while the dispatcher owns the idempotency
\* reservation" (db/schema/work.ts), one dispatcher alone, unless a fault left it.
ReservedByOne ==
  \A o \in Occurrences :
    /\ dispatch[o].there /\ dispatch[o].run = 0
         => o \in abandoned \/ \E d \in Dispatchers : work[d].step \in Holding /\ work[d].item = o
    /\ \A d, e \in Dispatchers :
         /\ work[d].step \in Holding /\ work[d].item = o
         /\ work[e].step \in Holding /\ work[e].item = o
         => d = e

\* A routine that is on keeps a next time, so that it is due again some day.  Of two
\* changes that overlap the later may take it away: it writes the next time that
\* belonged to the status it had read.
OnIsScheduled ==
  \A r \in Names :
    routine[r].status = "active" /\ routine[r].trigger = "schedule"
      => routine[r].next # Never \/ r \in raced

\* What is due is worked unless a member changes the routine first: it is claimed by
\* one process or another and, once claimed, not due again; then only a fault in the
\* dispatch of its own batch loses it.
DueIsWorked ==
  \A r \in Names, t \in 1..MaxTime :
    LET o == <<r, t>>
        isDue == routine[r].status = "active" /\ routine[r].trigger = "schedule"
                   /\ routine[r].next = t
    IN  isDue /\ t <= clock
          ~> \/ o \notin claimed /\ ~isDue
             \/ o \in lost \cup undone \cup abandoned
             \/ \E e \in executed : e[1] = o

\* What of DueIsWorked holds at every moment: the claim moves the routine past an
\* occurrence, and from then on the batch of a dispatcher has it, or a dispatcher in hand,
\* or its run is linked for an executor to find; only a fault drops it (dispatchDue).
ClaimedIsInHand ==
  \A o \in claimed :
    \/ dispatch[o].run # 0
    \/ \E d \in Dispatchers :
         \/ work[d].step \in {"dispatching"} \cup Holding /\ o \in work[d].todo
         \/ work[d].step \in Holding /\ work[d].item = o
    \/ o \in lost \cup undone \cup abandoned
=============================================================================
