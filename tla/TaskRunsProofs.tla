--------------------------- MODULE TaskRunsProofs ---------------------------
(***************************************************************************)
(* Proofs about TaskRuns, for any set of runs and of processes, and in the *)
(* last sections about ApprovedRuns, where the calls of its attempts ask   *)
(* for approval.                                                           *)
(*                                                                         *)
(* A step of the composition is one of the executor, one of the approval   *)
(* service, which the store sees as a transition or not at all, or a tick  *)
(* of both (StepsOfBoth); what was proved of each half is kept by the      *)
(* steps of the other (Joined).                                            *)
(*                                                                         *)
(* Some sections on the executor say who is left to act: on a run that is  *)
(* under way, and to tell its source when it ended.                        *)
(***************************************************************************)
EXTENDS ApprovedRuns, TLAPS

\* The backoff of any attempt number is a number of ticks.
LEMMA RetryDelayType == \A n \in Nat : RetryDelay(n) \in Nat
<1> SUFFICES ASSUME NEW n \in Nat PROVE RetryDelay(n) \in Nat
  OBVIOUS
<1> DEFINE i == IF n < 1 THEN 1 ELSE IF n > 9 THEN 9 ELSE n
<1>1. i \in 1..9
  OBVIOUS
<1>2. \A j \in 1..9 : Backoff[j] \in Nat
  BY DEF Backoff
<1>3. Backoff[i] \in Nat
  BY <1>1, <1>2
<1> QED
  BY <1>3, TicksAssumption DEF RetryDelay

\* Settling a row that a process may settle gives a row.
LEMMA SettledType ==
  ASSUME NEW row \in Row, NEW ok \in BOOLEAN
  PROVE  Settled(row, ok) \in Row
<1>1. RetryDelay(row.attempt) \in Nat
  BY RetryDelayType DEF Row
<1> QED
  BY <1>1 DEF Row, Settled, CanRetry, Statuses

\* A status written from outside the executor gives a row.
LEMMA MovedType ==
  ASSUME NEW row \in Row, NEW s \in Statuses
  PROVE  Moved(row, s) \in Row
<1>1. <<s, row.attempt>> \in Statuses \X Nat
  BY DEF Row
<1>2. row.moved \cup {<<s, row.attempt>>} \in SUBSET (Statuses \X Nat)
  BY <1>1 DEF Row
<1> QED BY <1>2 DEF Row, Moved

\* So do the other changes of a row.
LEMMA RowType ==
  ASSUME NEW row \in Row
  PROVE  /\ \A m \in Nat :
              [row EXCEPT !.status = "queued", !.maxAttempts = m] \in Row
         /\ \A k \in Sources : [row EXCEPT !.source = k] \in Row
         /\ [row EXCEPT !.lease = Left(@), !.delay = Left(@)] \in Row
         /\ [row EXCEPT !.lease = LeaseTicks] \in Row
         /\ NextAttempt(row) \in Nat
         /\ \A w \in Workers : Claimed(row, w) \in Row
<1>1. \A m \in Nat : [row EXCEPT !.status = "queued", !.maxAttempts = m] \in Row
  BY DEF Row, Statuses
<1>2. \A k \in Sources : [row EXCEPT !.source = k] \in Row
  BY DEF Row
<1>3. [row EXCEPT !.lease = Left(@), !.delay = Left(@)] \in Row
  <2>1. \A n \in Nat : Left(n) \in Nat
    BY DEF Left
  <2>2. Left(row.lease) \in Nat /\ Left(row.delay) \in Nat
    BY <2>1 DEF Row
  <2> QED
    BY <2>2 DEF Row
<1>4. [row EXCEPT !.lease = LeaseTicks] \in Row
  BY TicksAssumption DEF Row
<1>5. NextAttempt(row) \in Nat
  BY DEF Row, NextAttempt
<1>6. \A w \in Workers : Claimed(row, w) \in Row
  BY <1>5, TicksAssumption DEF Row, Claimed, Statuses
<1> QED
  BY <1>1, <1>2, <1>3, <1>4, <1>5, <1>6

\* Going on to another phase keeps attempts attempts.
LEMMA BecomeType ==
  ASSUME exec \subseteq Attempt, NEW e \in exec, NEW p \in Phases, Become(e, p)
  PROVE  exec' \subseteq Attempt
<1>1. [e EXCEPT !.phase = p] \in Attempt
  BY DEF Attempt
<1> QED
  BY <1>1 DEF Become

LEMMA LeaveType ==
  ASSUME TypeOK, NEW e \in exec, Leave(e)
  PROVE  exec' \subseteq Attempt /\ active' \in [Workers -> [Runs -> Nat]]
BY DEF TypeOK, Leave, Attempt

LEMMA TransitionType ==
  ASSUME TypeOK, NEW r \in Runs, NEW s \in Statuses, Transition(r, s)
  PROVE  TypeOK'
<1>1. Moved(run[r], s) \in Row
  BY MovedType DEF TypeOK
<1> QED
  BY <1>1 DEF Transition, TypeOK

----------------------------------------------------------------------------
\* Every reachable state has the shape TypeOK describes.
LEMMA TypeStep == TypeOK /\ [Next]_vars => TypeOK'
<1> SUFFICES ASSUME TypeOK, [Next]_vars PROVE TypeOK'
  OBVIOUS
<1> USE DEF TypeOK
<1>1. ASSUME NEW r \in Runs, NEW asked \in AskedAttempts, Create(r, asked) PROVE TypeOK'
  <2>1. Clamp(asked) \in Nat
    BY AskedAssumption DEF Clamp
  <2>2. [run[r] EXCEPT !.status = "queued", !.maxAttempts = Clamp(asked)] \in Row
    BY <2>1, RowType
  <2>3. run' \in [Runs -> Row]
    BY <1>1, <2>2 DEF Create
  <2> QED
    BY <1>1, <2>3 DEF Create
<1>2. ASSUME NEW r \in Runs, NEW k \in Sources, Link(r, k) PROVE TypeOK'
  <2>1. [run[r] EXCEPT !.source = k] \in Row
    BY RowType
  <2> QED
    BY <1>2, <2>1 DEF Link
<1>3. ASSUME NEW r \in Runs, NEW s \in Patches, Transition(r, s) PROVE TypeOK'
  BY <1>3, TransitionType, PatchesAssumption
<1>4. CASE Tick
  <2>2. \A r \in Runs :
          [run[r] EXCEPT !.lease = Left(@), !.delay = Left(@)] \in Row
    BY RowType
  <2>3. run' \in [Runs -> Row]
    BY <1>4, <2>2 DEF Tick
  <2> QED
    BY <1>4, <2>3 DEF Tick
<1>5. ASSUME NEW w \in Workers, Recover(w) PROVE TypeOK'
  <2>1. \A r \in Runs : Settled(run[r], FALSE) \in Row
    BY SettledType
  <2>3. PICK batch \in Batches :
          /\ run' = [r \in Runs |-> IF r \in batch THEN Settled(run[r], FALSE) ELSE run[r]]
          /\ lost' = [lost EXCEPT ![w] = Exhausted(batch)]
    BY <1>5 DEF Recover
  <2>2. run' \in [Runs -> Row]
    BY <2>1, <2>3
  <2>4. Exhausted(batch) \subseteq Runs
    BY DEF Batches, Exhausted
  <2> QED
    BY <1>5, <2>2, <2>3, <2>4 DEF Recover
<1>6. ASSUME NEW w \in Workers, NEW r \in Runs, TellLost(w, r) PROVE TypeOK'
  BY <1>6 DEF TellLost
<1>7. ASSUME NEW w \in Workers, NEW r \in Runs, Claim(w, r) PROVE TypeOK'
  <2>1. NextAttempt(run[r]) \in Nat /\ Claimed(run[r], w) \in Row
    BY RowType
  <2>2. [worker |-> w, run |-> r, no |-> NextAttempt(run[r]),
         phase |-> "claimed", aborted |-> FALSE] \in Attempt
    BY <2>1 DEF Attempt, Phases
  <2>3. exec' \subseteq Attempt
    BY <1>7, <2>2 DEF Claim
  <2> QED
    BY <1>7, <2>1, <2>3 DEF Claim, TakeOldest
<1>8. ASSUME NEW w \in Workers, EndTick(w) \/ ClaimFails(w) PROVE TypeOK'
  <2>1. \A r \in Runs : Claimed(run[r], w) \in Row
    BY <1>8, RowType
  <2>2. run' \in [Runs -> Row]
    BY <1>8, <2>1 DEF EndTick, ClaimFails, TakeOldest
  <2> QED
    BY <1>8, <2>2 DEF EndTick, ClaimFails, Fault
<1>9. ASSUME NEW e \in exec, Launch(e) PROVE TypeOK'
  <2>1. exec' \subseteq Attempt
    BY <1>9, BecomeType DEF Launch, Phases
  <2>2. active' \in [Workers -> [Runs -> Nat]]
    BY <1>9 DEF Launch, Attempt
  <2> QED
    BY <1>9, <2>1, <2>2 DEF Launch
<1>10. ASSUME NEW e \in exec, Started(e) \/ Executed(e) PROVE TypeOK'
  <2>1. exec' \subseteq Attempt
    BY <1>10, BecomeType DEF Started, Executed, Phases
  <2> QED
    BY <1>10, <2>1 DEF Started, Executed
<1>11. ASSUME NEW e \in exec, SettleSuccess(e) \/ SettleFailure(e) \/ SettleFails(e)
       PROVE TypeOK'
  <2>1. e.run \in Runs
    BY DEF Attempt
  <2>2. \A ok \in BOOLEAN : Settled(run[e.run], ok) \in Row
    BY <2>1, SettledType
  <2>3. run' \in [Runs -> Row]
    BY <1>11, <2>1, <2>2 DEF SettleSuccess, SettleFailure, SettleFails
  <2>4. exec' \subseteq Attempt /\ active' \in [Workers -> [Runs -> Nat]]
    BY <1>11, BecomeType, LeaveType
    DEF SettleSuccess, SettleFailure, SettleFails, Phases
  <2>5. faults' \in Nat
    <3>1. CASE SettleSuccess(e) \/ SettleFailure(e)
      BY <3>1 DEF SettleSuccess, SettleFailure
    <3>2. CASE SettleFails(e)
      BY <3>2 DEF SettleFails, Fault
    <3> QED
      BY <1>11, <3>1, <3>2
  <2> QED
    BY <1>11, <2>3, <2>4, <2>5 DEF SettleSuccess, SettleFailure, SettleFails
<1>12. ASSUME NEW e \in exec, Tell(e) PROVE TypeOK'
  <2>1. e.run \in Runs /\ e.phase \in {"succeeded", "failed"}
    BY <1>12 DEF Tell, Attempt
  <2>2. told' \in [Runs -> Seq({"succeeded", "failed"})]
    BY <1>12, <2>1 DEF Tell
  <2> QED
    BY <1>12, <2>2, LeaveType DEF Tell
<1>13. ASSUME NEW e \in exec, Heartbeat(e) \/ BudgetSpent(e) PROVE TypeOK'
  <2>1. [e EXCEPT !.aborted = TRUE] \in Attempt
    BY DEF Attempt
  <2>2. e.run \in Runs /\ [run[e.run] EXCEPT !.lease = LeaseTicks] \in Row
    <3>1. e.run \in Runs
      BY DEF Attempt
    <3> QED
      BY <3>1, RowType
  <2> QED
    BY <1>13, <2>1, <2>2 DEF Heartbeat, BudgetSpent
<1>14. ASSUME NEW w \in MayCrash, Stop(w) PROVE TypeOK'
  <2>1. \A e \in exec : [e EXCEPT !.aborted = TRUE] \in Attempt
    BY DEF Attempt
  <2> QED
    BY <1>14, <2>1, MayCrashAssumption DEF Stop
<1>15. ASSUME NEW w \in MayCrash, Crash(w) PROVE TypeOK'
  BY <1>15, MayCrashAssumption DEF Crash
<1>16. CASE UNCHANGED vars
  BY <1>16 DEF vars
<1> QED
  BY <1>1, <1>2, <1>3, <1>4, <1>5, <1>6, <1>7, <1>8, <1>9, <1>10, <1>11, <1>12,
     <1>13, <1>14, <1>15, <1>16
  DEF Next, Progress

\* Type correctness: every variable keeps its shape in every behaviour of the
\* store and its executors.
THEOREM TypeCorrect == Spec => []TypeOK
<1>1. Init => TypeOK
  BY DEF Init, TypeOK, Row
<1> QED
  BY <1>1, TypeStep, PTL DEF Spec

----------------------------------------------------------------------------
(* What one step may do to one row.  The invariants of rows rest on this   *)
(* list alone, not on the actions.                                         *)

Inserted(r)   == /\ run[r].status = Absent
                 /\ \E m \in Nat \ {0} :
                      run'[r] = [run[r] EXCEPT !.status = "queued", !.maxAttempts = m]
Linked(r)     == /\ run[r].status # Absent
                 /\ \E k \in Sources : run'[r] = [run[r] EXCEPT !.source = k]
MovedBy(r)    == /\ run[r].status \in Statuses
                 /\ \E s \in Patches : /\ s \in Transitions[run[r].status]
                                       /\ run'[r] = Moved(run[r], s)
Aged(r)       == run'[r] = [run[r] EXCEPT !.lease = Left(@), !.delay = Left(@)]
SettledNow(r) == /\ run[r].status = "running" /\ run[r].leaseOwner # Nobody
                 /\ \E ok \in BOOLEAN : run'[r] = Settled(run[r], ok)
ClaimedNow(r) == /\ run[r].status = "queued"
                 /\ \E w \in Workers : /\ Claim(w, r) \/ ClaimFails(w)
                                       /\ run'[r] = Claimed(run[r], w)
Renewed(r)    == /\ run[r].status = "running" /\ run[r].leaseOwner # Nobody
                 /\ run'[r] = [run[r] EXCEPT !.lease = LeaseTicks]

OwnRowStep(r) == \/ run'[r] = run[r]
                 \/ Inserted(r) \/ Linked(r) \/ Aged(r)
                 \/ SettledNow(r) \/ ClaimedNow(r) \/ Renewed(r)

RowStep(r) == OwnRowStep(r) \/ MovedBy(r)

\* The steps other than a status written from outside.
Internal ==
  \/ \E r \in Runs : \/ \E asked \in AskedAttempts : Create(r, asked)
                     \/ \E k \in Sources : Link(r, k)
  \/ Tick
  \/ \E w \in Workers : \/ Recover(w) \/ EndTick(w) \/ ClaimFails(w)
                        \/ \E r \in Runs : TellLost(w, r) \/ Claim(w, r)
  \/ \E e \in exec : Progress(e) \/ SettleFails(e) \/ Heartbeat(e) \/ BudgetSpent(e)
  \/ \E w \in MayCrash : Stop(w) \/ Crash(w)

LEMMA StepKinds == Next <=> Internal \/ \E r \in Runs, s \in Patches : Transition(r, s)
BY DEF Next, Internal

\* What a recovery does, whichever rows it takes.
LEMMA RecoverEffect ==
  ASSUME TypeOK, NEW w \in Workers, Recover(w), NEW r \in Runs
  PROVE  \/ run'[r] = run[r] /\ r \notin lost'[w]
         \/ /\ Expired(run[r]) /\ run'[r] = Settled(run[r], FALSE)
            /\ r \in lost'[w] <=> ~CanRetry(run[r])
<1>1. PICK batch \in Batches :
        /\ run' = [q \in Runs |-> IF q \in batch THEN Settled(run[q], FALSE) ELSE run[q]]
        /\ lost' = [lost EXCEPT ![w] = Exhausted(batch)]
  BY DEF Recover
<1>2. \A q \in batch : q \in Runs /\ Expired(run[q])
  BY DEF Batches
<1>3. lost'[w] = Exhausted(batch)
  BY <1>1 DEF TypeOK
<1> QED BY <1>1, <1>2, <1>3 DEF Exhausted

LEMMA OwnRowSteps ==
  ASSUME TypeOK, Internal \/ UNCHANGED vars, NEW r \in Runs
  PROVE  OwnRowStep(r)
<1> USE DEF OwnRowStep
<1>0. run \in [Runs -> Row] /\ \A e \in exec : e.run \in Runs /\ e.worker \in Workers
  BY DEF TypeOK, Attempt
<1>1. ASSUME NEW q \in Runs, NEW asked \in AskedAttempts, Create(q, asked)
      PROVE OwnRowStep(r)
  <2>1. Clamp(asked) \in Nat \ {0}
    BY AskedAssumption DEF Clamp
  <2> QED
    BY <1>0, <1>1, <2>1 DEF Create, Inserted
<1>2. ASSUME NEW q \in Runs, NEW k \in Sources, Link(q, k) PROVE OwnRowStep(r)
  BY <1>0, <1>2 DEF Link, Linked
<1>4. CASE Tick
  BY <1>0, <1>4 DEF Tick, Aged
<1>5. ASSUME NEW w \in Workers, Recover(w) PROVE OwnRowStep(r)
  <2>1. CASE run'[r] = Settled(run[r], FALSE) /\ Expired(run[r])
    BY <2>1 DEF SettledNow, Expired
  <2> QED
    BY <1>5, <2>1, RecoverEffect
<1>6. ASSUME NEW w \in Workers, NEW q \in Runs, Claim(w, q) PROVE OwnRowStep(r)
  BY <1>0, <1>6 DEF Claim, TakeOldest, Due, ClaimedNow
<1>7. ASSUME NEW e \in exec, SettleSuccess(e) \/ SettleFailure(e) \/ SettleFails(e)
      PROVE OwnRowStep(r)
  <2>1. CASE run' = run
    BY <2>1
  <2>2. ASSUME NEW ok \in BOOLEAN, Owned(e),
               run' = [run EXCEPT ![e.run] = Settled(@, ok)]
        PROVE OwnRowStep(r)
    BY <1>0, <2>2, NobodyAssumption DEF SettledNow, Owned
  <2> QED
    BY <1>7, <2>1, <2>2 DEF SettleSuccess, SettleFailure, SettleFails
<1>8. ASSUME NEW e \in exec, Heartbeat(e) PROVE OwnRowStep(r)
  <2>1. CASE Owned(e)
    BY <1>0, <1>8, <2>1, NobodyAssumption DEF Heartbeat, Renewed, Owned
  <2>2. CASE ~Owned(e)
    BY <1>8, <2>2 DEF Heartbeat
  <2> QED
    BY <2>1, <2>2
<1>9. ASSUME NEW e \in exec, Launch(e) \/ Started(e) \/ Executed(e) \/ Tell(e)
                             \/ BudgetSpent(e)
      PROVE OwnRowStep(r)
  BY <1>9 DEF Launch, Started, Executed, Tell, BudgetSpent
<1>10. ASSUME NEW w \in Workers, EndTick(w) \/ (\E q \in Runs : TellLost(w, q))
       PROVE OwnRowStep(r)
  BY <1>10 DEF EndTick, TellLost
<1>13. ASSUME NEW w \in Workers, ClaimFails(w) PROVE OwnRowStep(r)
  BY <1>0, <1>13 DEF ClaimFails, TakeOldest, Due, ClaimedNow
<1>11. ASSUME NEW w \in MayCrash, Stop(w) \/ Crash(w) PROVE OwnRowStep(r)
  BY <1>11 DEF Stop, Crash
<1>12. CASE UNCHANGED vars
  BY <1>12 DEF vars
<1> QED
  BY <1>1, <1>2, <1>4, <1>5, <1>6, <1>7, <1>8, <1>9, <1>10, <1>11, <1>12, <1>13
  DEF Internal, Progress

LEMMA RowSteps ==
  ASSUME TypeOK, [Next]_vars, NEW r \in Runs
  PROVE  RowStep(r)
<1>1. ASSUME NEW q \in Runs, NEW s \in Patches, Transition(q, s)
      PROVE  MovedBy(r) \/ run'[r] = run[r]
  BY <1>1 DEF Transition, MovedBy, TypeOK
<1> QED BY <1>1, OwnRowSteps, StepKinds DEF RowStep, OwnRowStep

----------------------------------------------------------------------------
\* Leases: whatever writes a status, a queued or finished run is free.
THEOREM LeasesCoherent == Spec => []LeaseCoherent
<1>1. Init => LeaseCoherent
  BY DEF Init, LeaseCoherent
<1>2. TypeOK /\ LeaseCoherent /\ [Next]_vars => LeaseCoherent'
  <2> SUFFICES ASSUME TypeOK, LeaseCoherent, [Next]_vars, NEW r \in Runs
               PROVE  /\ run'[r].leaseOwner # Nobody
                           => run'[r].status \in {"running"} \cup Waiting
                      /\ run'[r].lease > 0 => run'[r].leaseOwner # Nobody
    BY DEF LeaseCoherent
  <2> DEFINE Free(row) == /\ row.leaseOwner # Nobody
                               => row.status \in {"running"} \cup Waiting
                          /\ row.lease > 0 => row.leaseOwner # Nobody
  <2>1. run[r] \in Row /\ Free(run[r])
    BY DEF TypeOK, LeaseCoherent
  <2>2. CASE Inserted(r) \/ Linked(r)
    BY <2>1, <2>2 DEF Inserted, Linked, Row, Absent, Waiting
  <2>3. CASE MovedBy(r)
    <3> PICK s \in Patches : run'[r] = Moved(run[r], s)
      BY <2>3 DEF MovedBy
    <3>1. s \in Statuses
      BY PatchesAssumption
    <3> QED
      BY <2>1, <3>1 DEF Moved, Row, Terminal, Statuses, Waiting
  <2>4. CASE Aged(r)
    BY <2>1, <2>4 DEF Aged, Left, Row
  <2>5. CASE SettledNow(r)
    BY <2>1, <2>5 DEF SettledNow, Settled, Row
  <2>6. CASE ClaimedNow(r)
    BY <2>1, <2>6, NobodyAssumption DEF ClaimedNow, Claimed, Row
  <2>7. CASE Renewed(r)
    BY <2>1, <2>7 DEF Renewed, Row
  <2> QED
    BY <2>1, <2>2, <2>3, <2>4, <2>5, <2>6, <2>7, RowSteps DEF RowStep, OwnRowStep
<1> QED
  BY <1>1, <1>2, TypeCorrect, PTL DEF Spec

----------------------------------------------------------------------------
\* The ceiling of attempts is inductive only together with the room a queued
\* run still has: a retry is scheduled below the ceiling, and what is queued at it or
\* above was moved back.
Asked(row, n) == n >= row.maxAttempts => <<"queued", n>> \in row.moved

Roomy(row) == /\ \A n \in Nat : n < row.attempt => Asked(row, n)
              /\ row.status = "queued" => Asked(row, row.attempt)
              /\ row.status = Absent => row.attempt = 0

RoomToRetry == \A r \in Runs : Roomy(run[r])

\* Only the attempt and the events of a row count, and a higher ceiling needs fewer.
LEMMA RoomyKept ==
  ASSUME NEW row \in Row, Roomy(row), NEW new \in Row,
         new.attempt = row.attempt, row.moved \subseteq new.moved,
         new.maxAttempts = row.maxAttempts,
         new.status = "queued" => row.status = "queued" \/ Asked(new, new.attempt),
         new.status # Absent
  PROVE  Roomy(new)
BY DEF Roomy, Asked, Row

\* The ceiling holds for whatever statuses members write, but for the starts that they asked
\* for: nothing in the claim compares the attempt with its ceiling, and neither settling nor
\* recovery queues a run that used its attempts up (store.ts, settleOn, claimAutomated).
THEOREM CeilingHeld == Spec => []AttemptsBounded
<1>1. Init => RoomToRetry
  BY DEF Init, RoomToRetry, Roomy, Absent
<1>2. TypeOK /\ TypeOK' /\ RoomToRetry /\ [Next]_vars => RoomToRetry'
  <2> SUFFICES ASSUME TypeOK, TypeOK', RoomToRetry, [Next]_vars, NEW r \in Runs
               PROVE  Roomy(run'[r])
    BY DEF RoomToRetry
  <2>1. run[r] \in Row /\ Roomy(run[r]) /\ run'[r] \in Row
    BY DEF TypeOK, RoomToRetry
  <2>2. CASE Inserted(r)
    <3> PICK m \in Nat \ {0} :
            run'[r] = [run[r] EXCEPT !.status = "queued", !.maxAttempts = m]
      BY <2>2 DEF Inserted
    <3>1. run[r].attempt = 0
      BY <2>1, <2>2 DEF Inserted, Roomy
    <3>2. /\ run'[r].status = "queued" /\ run'[r].maxAttempts = m
          /\ run'[r].attempt = 0
      BY <2>1, <3>1 DEF Row
    <3> QED
      BY <3>2 DEF Absent, Roomy, Asked
  <2>3. CASE Linked(r) \/ Aged(r) \/ Renewed(r)
    <3>1. /\ run'[r].attempt = run[r].attempt /\ run'[r].moved = run[r].moved
          /\ run'[r].maxAttempts = run[r].maxAttempts /\ run'[r].status = run[r].status
      BY <2>1, <2>3 DEF Linked, Aged, Renewed, Row
    <3> QED BY <2>1, <3>1 DEF Roomy, Asked
  <2>4. CASE MovedBy(r)
    <3> PICK s \in Patches : run'[r] = Moved(run[r], s)
      BY <2>4 DEF MovedBy
    <3>1. s \in Statuses
      BY PatchesAssumption
    <3>2. /\ run'[r].attempt = run[r].attempt /\ run'[r].maxAttempts = run[r].maxAttempts
          /\ run'[r].moved = run[r].moved \cup {<<s, run[r].attempt>>} /\ run'[r].status = s
      BY <2>1, <3>1 DEF Moved, Row
    <3>3. s = "queued" => Asked(run'[r], run'[r].attempt)
      BY <3>2 DEF Asked
    <3> QED
      BY <2>1, <3>1, <3>2, <3>3, RoomyKept DEF Statuses, Absent
  <2>5. CASE SettledNow(r)
    <3>1. /\ run'[r].attempt = run[r].attempt /\ run'[r].maxAttempts = run[r].maxAttempts
          /\ run'[r].moved = run[r].moved /\ run'[r].status # Absent
          /\ run'[r].status = "queued" => CanRetry(run[r])
      BY <2>1, <2>5 DEF SettledNow, Settled, Row, Absent
    <3>2. run'[r].status = "queued" => Asked(run'[r], run'[r].attempt)
      BY <2>1, <3>1 DEF Asked, CanRetry, Row
    <3> QED BY <2>1, <3>1, <3>2, RoomyKept
  <2>6. CASE ClaimedNow(r)
    <3>1. /\ run'[r].attempt = run[r].attempt + 1 /\ run[r].status = "queued"
          /\ run'[r].maxAttempts = run[r].maxAttempts
          /\ run'[r].moved = run[r].moved /\ run'[r].status = "running"
      BY <2>1, <2>6 DEF ClaimedNow, Claimed, NextAttempt, Row
    <3>2. \A n \in Nat : n < run'[r].attempt => n < run[r].attempt \/ n = run[r].attempt
      BY <2>1, <3>1 DEF Row
    <3> QED BY <2>1, <3>1, <3>2 DEF Roomy, Asked, Absent
  <2> QED
    BY <2>1, <2>2, <2>3, <2>4, <2>5, <2>6, RowSteps DEF RowStep, OwnRowStep
<1>3. TypeOK /\ RoomToRetry => AttemptsBounded
  <2> SUFFICES ASSUME TypeOK, RoomToRetry, NEW r \in Runs,
                      NEW n \in run[r].maxAttempts..(run[r].attempt - 1)
               PROVE  <<"queued", n>> \in run[r].moved
    BY DEF AttemptsBounded
  <2>1. run[r].maxAttempts \in Nat /\ run[r].attempt \in Nat
    BY DEF TypeOK, Row
  <2>2. n \in Nat /\ n < run[r].attempt /\ n >= run[r].maxAttempts
    BY <2>1
  <2> QED BY <2>2 DEF RoomToRetry, Roomy, Asked
<1> QED
  BY <1>1, <1>2, <1>3, TypeCorrect, PTL DEF Spec

----------------------------------------------------------------------------
(* What one step may do to the attempts in memory: a claim adds one, every *)
(* other step drops some and changes the phase or the flag of others.      *)

SameKey(e, f) == e.worker = f.worker /\ e.run = f.run /\ e.no = f.no

Carried == \E F \in [exec -> Attempt] :
             /\ \A e \in exec : SameKey(F[e], e)
             /\ exec' \subseteq {F[e] : e \in exec}

LEMMA CarriedSubset == ASSUME TypeOK, exec' \subseteq exec PROVE Carried
<1> DEFINE F == [x \in exec |-> x]
<1>1. F \in [exec -> Attempt] /\ \A x \in exec : SameKey(F[x], x)
  BY DEF TypeOK, SameKey
<1>2. exec' \subseteq {F[x] : x \in exec}
  OBVIOUS
<1> QED
  BY <1>1, <1>2 DEF Carried

LEMMA CarriedChange ==
  ASSUME TypeOK, NEW e \in exec, NEW f \in Attempt, SameKey(f, e),
         exec' = (exec \ {e}) \cup {f}
  PROVE  Carried
<1> DEFINE F == [x \in exec |-> IF x = e THEN f ELSE x]
<1>1. F \in [exec -> Attempt] /\ \A x \in exec : SameKey(F[x], x)
  BY DEF TypeOK, SameKey
<1>2. exec' \subseteq {F[x] : x \in exec}
  OBVIOUS
<1> QED
  BY <1>1, <1>2 DEF Carried

LEMMA CarriedBecome ==
  ASSUME TypeOK, NEW e \in exec, NEW p \in Phases, Become(e, p)
  PROVE  Carried
<1>1. [e EXCEPT !.phase = p] \in Attempt /\ SameKey([e EXCEPT !.phase = p], e)
  BY DEF TypeOK, Attempt, SameKey
<1> QED
  BY <1>1, CarriedChange DEF Become

LEMMA ExecSteps ==
  ASSUME TypeOK, [Next]_vars
  PROVE  Carried \/ \E w \in Workers, r \in Runs : Claim(w, r)
<1>1. ASSUME NEW e \in exec, Progress(e) \/ SettleFails(e) PROVE Carried
  <2>1. CASE \E p \in Phases : Become(e, p)
    BY <2>1, CarriedBecome
  <2>2. CASE Leave(e)
    BY <2>2, CarriedSubset DEF Leave
  <2> QED
    BY <1>1, <2>1, <2>2
    DEF Progress, Launch, Started, Executed, SettleSuccess, SettleFailure, Tell,
        SettleFails, Phases
<1>2. ASSUME NEW e \in exec, Heartbeat(e) \/ BudgetSpent(e) PROVE Carried
  <2>1. /\ [e EXCEPT !.aborted = TRUE] \in Attempt
        /\ SameKey([e EXCEPT !.aborted = TRUE], e)
    BY DEF TypeOK, Attempt, SameKey
  <2>2. CASE exec' = (exec \ {e}) \cup {[e EXCEPT !.aborted = TRUE]}
    BY <2>1, <2>2, CarriedChange
  <2>3. CASE exec' = exec
    BY <2>3, CarriedSubset
  <2> QED
    BY <1>2, <2>2, <2>3 DEF Heartbeat, BudgetSpent
<1>3. ASSUME NEW w \in MayCrash, Stop(w) PROVE Carried
  <2> DEFINE F == [x \in exec |-> IF x.worker = w /\ x.no = active[w][x.run]
                                  THEN [x EXCEPT !.aborted = TRUE] ELSE x]
  <2>1. \A x \in exec : /\ [x EXCEPT !.aborted = TRUE] \in Attempt
                        /\ SameKey([x EXCEPT !.aborted = TRUE], x)
    BY DEF TypeOK, Attempt, SameKey
  <2>2. F \in [exec -> Attempt] /\ \A x \in exec : SameKey(F[x], x)
    BY <2>1 DEF TypeOK, SameKey
  <2>3. exec' \subseteq {F[x] : x \in exec}
    BY <1>3 DEF Stop
  <2> QED
    BY <2>2, <2>3 DEF Carried
<1>4. ASSUME NEW w \in MayCrash, Crash(w) PROVE Carried
  BY <1>4, CarriedSubset DEF Crash
<1>5. ASSUME NEW r \in Runs,
             \/ \E asked \in AskedAttempts : Create(r, asked)
             \/ \E k \in Sources : Link(r, k)
             \/ \E s \in Patches : Transition(r, s)
      PROVE  Carried
  BY <1>5, CarriedSubset DEF Create, Link, Transition
<1>6. ASSUME NEW w \in Workers,
             \/ Recover(w) \/ EndTick(w) \/ ClaimFails(w)
             \/ \E r \in Runs : TellLost(w, r)
      PROVE  Carried
  BY <1>6, CarriedSubset DEF Recover, EndTick, ClaimFails, TellLost
<1>7. CASE Tick \/ UNCHANGED vars
  BY <1>7, CarriedSubset DEF Tick, vars
<1> QED
  BY <1>1, <1>2, <1>3, <1>4, <1>5, <1>6, <1>7 DEF Next

\* The attempt number of a row never falls, and while it stays the lease can
\* only stay with its holder or be given back.
LEMMA AttemptsGrow ==
  ASSUME TypeOK, [Next]_vars, NEW r \in Runs
  PROVE  /\ run'[r].attempt \in Nat
         /\ run'[r].attempt >= run[r].attempt
         /\ run'[r].attempt = run[r].attempt
              => run'[r].leaseOwner \in {run[r].leaseOwner, Nobody}
<1>1. run[r] \in Row
  BY DEF TypeOK
<1>2. CASE \/ Inserted(r) \/ Linked(r) \/ Aged(r) \/ Renewed(r)
           \/ MovedBy(r) \/ SettledNow(r)
  <2>1. CASE Inserted(r)
    BY <1>1, <2>1 DEF Inserted, Row
  <2>2. CASE Linked(r)
    BY <1>1, <2>2 DEF Linked, Row
  <2>3. CASE Aged(r)
    BY <1>1, <2>3 DEF Aged, Row
  <2>6. CASE Renewed(r)
    BY <1>1, <2>6 DEF Renewed, Row
  <2>4. CASE MovedBy(r)
    <3> PICK s \in Patches : run'[r] = Moved(run[r], s)
      BY <2>4 DEF MovedBy
    <3>1. /\ run'[r].attempt = run[r].attempt
          /\ run'[r].leaseOwner \in {run[r].leaseOwner, Nobody}
      BY <1>1 DEF Moved, Row
    <3> QED
      BY <1>1, <3>1 DEF Row
  <2>5. CASE SettledNow(r)
    <3> PICK ok \in BOOLEAN : run'[r] = Settled(run[r], ok)
      BY <2>5 DEF SettledNow
    <3>1. run'[r].attempt = run[r].attempt /\ run'[r].leaseOwner = Nobody
      BY <1>1 DEF Settled, Row
    <3> QED
      BY <1>1, <3>1 DEF Row
  <2> QED
    BY <1>2, <2>1, <2>2, <2>3, <2>4, <2>5, <2>6
<1>4. CASE ClaimedNow(r)
  BY <1>1, <1>4 DEF ClaimedNow, Claimed, NextAttempt, Row
<1>5. CASE run'[r] = run[r]
  BY <1>1, <1>5 DEF Row
<1> QED
  BY <1>2, <1>4, <1>5, RowSteps DEF RowStep, OwnRowStep

\* Uniqueness is inductive with the fact that no attempt is ahead of its row.
NoneAhead == \A e \in exec : e.no <= run[e.run].attempt

LEMMA NumbersKept == Spec => [](NoneAhead /\ OneExecution)
<1>1. Init => NoneAhead /\ OneExecution
  BY DEF Init, NoneAhead, OneExecution
<1>2. TypeOK /\ NoneAhead /\ OneExecution /\ [Next]_vars => NoneAhead' /\ OneExecution'
  <2> SUFFICES ASSUME TypeOK, NoneAhead, OneExecution, [Next]_vars
               PROVE  NoneAhead' /\ OneExecution'
    OBVIOUS
  <2>0. \A e \in exec : e.run \in Runs /\ e.no \in Nat /\ run[e.run].attempt \in Nat
    BY DEF TypeOK, Attempt, Row
  <2>1. CASE Carried
    <3> PICK F \in [exec -> Attempt] : /\ \A e \in exec : SameKey(F[e], e)
                                       /\ exec' \subseteq {F[e] : e \in exec}
      BY <2>1 DEF Carried
    <3>1. \A f \in exec' : \E e \in exec : f = F[e] /\ SameKey(f, e)
      OBVIOUS
    <3>2. NoneAhead'
      BY <2>0, <3>1, AttemptsGrow DEF NoneAhead, SameKey
    <3>3. ASSUME NEW f \in exec', NEW g \in exec', f.run = g.run, f.no = g.no
          PROVE  f = g
      BY <3>1, <3>3 DEF SameKey, OneExecution
    <3>4. ASSUME NEW f \in exec', run'[f.run].leaseOwner # Nobody,
                 f.no = run'[f.run].attempt
          PROVE  run'[f.run].leaseOwner = f.worker
      <4> PICK e \in exec : f = F[e] /\ SameKey(f, e)
        BY <3>1
      <4>1. run'[f.run].attempt = run[e.run].attempt
        <5>1. f.run = e.run /\ e.no = run'[e.run].attempt
          BY <3>4 DEF SameKey
        <5>2. /\ e.no <= run[e.run].attempt
              /\ run'[e.run].attempt \in Nat
              /\ run'[e.run].attempt >= run[e.run].attempt
          BY <2>0, AttemptsGrow DEF NoneAhead
        <5> QED
          BY <2>0, <5>1, <5>2
      <4>2. run'[f.run].leaseOwner = run[e.run].leaseOwner
        BY <2>0, <3>4, <4>1, AttemptsGrow DEF SameKey
      <4> QED
        BY <3>4, <4>1, <4>2 DEF SameKey, OneExecution
    <3> QED
      BY <3>2, <3>3, <3>4 DEF OneExecution
  <2>2. ASSUME NEW w \in Workers, NEW r \in Runs, Claim(w, r)
        PROVE  NoneAhead' /\ OneExecution'
    <3> DEFINE new == [worker |-> w, run |-> r, no |-> run[r].attempt + 1,
                       phase |-> "claimed", aborted |-> FALSE]
    <3>1. exec' = exec \cup {new}
      BY <2>2 DEF Claim, TakeOldest, NextAttempt
    <3>2. /\ run'[r].attempt = run[r].attempt + 1
          /\ run'[r].leaseOwner = w
          /\ \A q \in Runs \ {r} : run'[q] = run[q]
      BY <2>2 DEF Claim, TakeOldest, Claimed, NextAttempt, TypeOK, Row
    <3>3. \A e \in exec : e.run = r => e.no < run[r].attempt + 1
      BY <2>0 DEF NoneAhead
    <3>7. new.run = r /\ new.worker = w /\ new.no = run[r].attempt + 1
      OBVIOUS
    <3> HIDE DEF new
    <3>4. NoneAhead'
      <4>1. \A e \in exec : e.no <= run'[e.run].attempt
        BY <2>0, <3>2, <3>3 DEF NoneAhead
      <4>2. new.no <= run'[new.run].attempt
        <5>1. run[r].attempt \in Nat
          BY DEF TypeOK, Row
        <5> QED
          BY <3>2, <3>7, <5>1
      <4> QED
        BY <3>1, <4>1, <4>2 DEF NoneAhead
    <3>5. \A e, f \in exec' : e.run = f.run /\ e.no = f.no => e = f
      <4>1. \A e \in exec : ~(e.run = new.run /\ e.no = new.no)
        BY <2>0, <3>3, <3>7
      <4> QED
        BY <3>1, <4>1 DEF OneExecution
    <3>6. ASSUME NEW e \in exec', e.no = run'[e.run].attempt,
                 run'[e.run].leaseOwner # Nobody
          PROVE  run'[e.run].leaseOwner = e.worker
      <4>1. CASE e = new
        BY <3>2, <3>7, <4>1
      <4>2. CASE e \in exec
        BY <2>0, <3>2, <3>3, <3>6, <4>2 DEF OneExecution
      <4> QED
        BY <3>1, <4>1, <4>2
    <3> QED
      BY <3>4, <3>5, <3>6 DEF OneExecution
  <2> QED
    BY <2>1, <2>2, ExecSteps
<1> QED
  BY <1>1, <1>2, TypeCorrect, PTL DEF Spec

LEMMA NumbersBehind == Spec => []NoneAhead
BY NumbersKept, PTL

\* One attempt number is executed in one place, by the process the lease names.
THEOREM ExecutedOnce == Spec => []OneExecution
BY NumbersKept, PTL

----------------------------------------------------------------------------
(* TaskRuns implements RunLifecycle *)

StatusMap  == [r \in Runs |-> run[r].status]
AttemptMap == [r \in Runs |-> run[r].attempt]

\* The instance sees the same statuses and the same table.
LEMMA SameTable == /\ Life!Statuses = Statuses /\ Life!Absent = Absent
                   /\ Life!Transitions = Transitions
BY DEF Life!Statuses, Statuses, Life!Absent, Absent, Life!Transitions, Transitions,
       Life!Waiting, Waiting

\* A change of one row that keeps its attempt and moves its status along the
\* table is a move of the run, one that keeps both is a stutter.
LEMMA RowMoves ==
  ASSUME TypeOK, NEW r \in Runs, NEW row \in Row, run' = [run EXCEPT ![r] = row],
         row.attempt = run[r].attempt,
         \/ row.status = run[r].status
         \/ /\ run[r].status \in Statuses
            /\ row.status \in Transitions[run[r].status]
            /\ row.status \in Statuses
  PROVE  Life!Next \/ UNCHANGED Life!vars
<1>1. AttemptMap' = AttemptMap
  BY DEF AttemptMap, TypeOK
<1>2. StatusMap' = [StatusMap EXCEPT ![r] = row.status]
  BY DEF StatusMap, TypeOK
<1>3. CASE row.status = run[r].status
  <2>1. StatusMap' = StatusMap
    BY <1>2, <1>3 DEF StatusMap
  <2> QED
    BY <1>1, <2>1 DEF StatusMap, AttemptMap, Life!vars
<1>4. CASE row.status # run[r].status
  <2>1. Life!Move(r, row.status)
    BY <1>1, <1>2, <1>4, SameTable DEF Life!Move, StatusMap, AttemptMap
  <2>2. row.status \in Life!Statuses
    BY <1>4, SameTable
  <2> QED
    BY <2>1, <2>2 DEF Life!Next
<1> QED
  BY <1>3, <1>4

\* Whoever asks the store for a transition, it moves the run.
LEMMA LifeTransition ==
  ASSUME TypeOK, NEW r \in Runs, NEW s \in Statuses, Transition(r, s)
  PROVE  Life!Next \/ UNCHANGED Life!vars
<1> DEFINE row == Moved(run[r], s)
<1>0. run[r] \in Row
  BY DEF TypeOK
<1>4. row \in Row
  BY <1>0, MovedType
<1>1. row.attempt = run[r].attempt /\ row.status = s
  BY <1>0 DEF Moved, Row
<1>2. run' = [run EXCEPT ![r] = row]
  BY DEF Transition
<1>3. run[r].status \in Statuses /\ s \in Transitions[run[r].status]
  BY DEF Transition
<1> HIDE DEF row
<1> QED
  BY <1>1, <1>2, <1>3, <1>4, RowMoves

LEMMA LifeStep ==
  ASSUME TypeOK, [Next]_vars
  PROVE  Life!Next \/ UNCHANGED Life!vars
<1>0. run \in [Runs -> Row] /\ \A e \in exec : e.run \in Runs /\ e.worker \in Workers
  BY DEF TypeOK, Attempt
<1>1. ASSUME NEW r \in Runs, NEW asked \in AskedAttempts, Create(r, asked)
      PROVE Life!Next
  <2>1. /\ run'[r].status = "queued" /\ run'[r].attempt = run[r].attempt
        /\ \A q \in Runs \ {r} : run'[q] = run[q]
    BY <1>0, <1>1 DEF Create, Row
  <2>2. AttemptMap' = AttemptMap /\ StatusMap' = [StatusMap EXCEPT ![r] = "queued"]
    BY <2>1 DEF AttemptMap, StatusMap
  <2>3. Life!Create(r)
    BY <1>1, <2>2, SameTable DEF Life!Create, Create, AttemptMap, StatusMap
  <2> QED
    BY <2>3 DEF Life!Next
<1>2. ASSUME NEW r \in Runs, NEW k \in Sources, Link(r, k)
      PROVE Life!Next \/ UNCHANGED Life!vars
  <2> DEFINE row == [run[r] EXCEPT !.source = k]
  <2>0. run[r] \in Row /\ row \in Row
    BY <1>0, RowType
  <2>1. row.attempt = run[r].attempt /\ row.status = run[r].status
    BY <2>0 DEF Row
  <2>2. run' = [run EXCEPT ![r] = row]
    BY <1>2 DEF Link
  <2> HIDE DEF row
  <2> QED
    BY <2>0, <2>1, <2>2, RowMoves
<1>3. ASSUME NEW r \in Runs, NEW s \in Patches, Transition(r, s)
      PROVE Life!Next \/ UNCHANGED Life!vars
  BY <1>3, PatchesAssumption, LifeTransition
<1>4. CASE Tick
  <2>1. \A r \in Runs : /\ run'[r].status = run[r].status
                        /\ run'[r].attempt = run[r].attempt
    <3> SUFFICES ASSUME NEW r \in Runs
                 PROVE  run'[r].status = run[r].status /\ run'[r].attempt = run[r].attempt
      OBVIOUS
    <3>1. run[r] \in Row /\ run'[r] = [run[r] EXCEPT !.lease = Left(@), !.delay = Left(@)]
      BY <1>0, <1>4 DEF Tick
    <3> QED BY <3>1 DEF Row
  <2> QED
    BY <2>1 DEF Life!vars
<1>5. ASSUME NEW w \in Workers, Recover(w) PROVE Life!Next
  <2> PICK batch \in Batches :
        run' = [r \in Runs |-> IF r \in batch THEN Settled(run[r], FALSE) ELSE run[r]]
    BY <1>5 DEF Recover
  <2> DEFINE outcome == [r \in batch |-> IF CanRetry(run[r]) THEN "queued" ELSE "failed"]
  <2>1. batch \in SUBSET Runs /\ \A r \in batch : Expired(run[r])
    BY DEF Batches
  <2>2. \A r \in batch : /\ run[r].status = "running"
                         /\ run'[r].status = outcome[r]
                         /\ run'[r].attempt = run[r].attempt
    BY <1>0, <2>1 DEF Expired, Settled, Row
  <2>3. AttemptMap' = AttemptMap
    BY <2>1, <2>2 DEF AttemptMap
  <2>4. StatusMap' = [r \in Runs |-> IF r \in batch THEN outcome[r] ELSE StatusMap[r]]
    BY <2>1, <2>2 DEF StatusMap
  <2>5. outcome \in [batch -> {"queued", "failed"}]
    OBVIOUS
  <2>6. \A r \in batch : StatusMap[r] = "running"
    BY <2>1, <2>2 DEF StatusMap
  <2> HIDE DEF outcome
  <2>7. Life!GiveUp(batch)
    BY <2>3, <2>4, <2>5, <2>6 DEF Life!GiveUp, StatusMap, AttemptMap
  <2> QED
    BY <2>1, <2>7 DEF Life!Next
<1>6. ASSUME NEW w \in Workers, NEW r \in Runs, TakeOldest(w, r) PROVE Life!Next
  <2>1. /\ run[r].status = "queued" /\ run'[r].status = "running"
        /\ run'[r].attempt = run[r].attempt + 1
        /\ \A q \in Runs \ {r} : run'[q] = run[q]
    BY <1>0, <1>6 DEF TakeOldest, Due, Claimed, NextAttempt, Row
  <2>2. /\ StatusMap' = [StatusMap EXCEPT ![r] = "running"]
        /\ AttemptMap' = [AttemptMap EXCEPT ![r] = @ + 1]
    BY <2>1 DEF AttemptMap, StatusMap
  <2>3. Life!Start(r)
    BY <2>1, <2>2 DEF Life!Start, AttemptMap, StatusMap
  <2> QED
    BY <2>3 DEF Life!Next
<1>7. ASSUME NEW e \in exec, SettleSuccess(e) \/ SettleFailure(e) \/ SettleFails(e)
      PROVE Life!Next \/ UNCHANGED Life!vars
  <2>1. CASE run' = run
    BY <2>1 DEF Life!vars
  <2>2. ASSUME NEW ok \in BOOLEAN, Owned(e),
               run' = [run EXCEPT ![e.run] = Settled(@, ok)]
        PROVE Life!Next \/ UNCHANGED Life!vars
    <3> DEFINE row == Settled(run[e.run], ok)
    <3>1. row \in Row
      BY <1>0, SettledType
    <3>2. /\ row.attempt = run[e.run].attempt
          /\ row.status \in {"succeeded", "queued", "failed"}
      BY <1>0 DEF Settled, Row
    <3>3. run[e.run].status = "running" /\ e.run \in Runs
      BY <1>0, <2>2 DEF Owned
    <3>4. "running" \in Statuses /\ row.status \in Statuses \cap Transitions["running"]
      BY <3>2 DEF Statuses, Transitions, Waiting
    <3>5. run' = [run EXCEPT ![e.run] = row]
      BY <2>2
    <3> HIDE DEF row
    <3> QED
      BY <3>1, <3>2, <3>3, <3>4, <3>5, RowMoves
  <2> QED
    BY <1>7, <2>1, <2>2 DEF SettleSuccess, SettleFailure, SettleFails
<1>8. ASSUME NEW e \in exec, Heartbeat(e) PROVE Life!Next \/ UNCHANGED Life!vars
  <2> DEFINE row == [run[e.run] EXCEPT !.lease = LeaseTicks]
  <2>0. run[e.run] \in Row /\ row \in Row
    BY <1>0, RowType
  <2>1. row.attempt = run[e.run].attempt /\ row.status = run[e.run].status
    BY <2>0 DEF Row
  <2>2. run' = run \/ run' = [run EXCEPT ![e.run] = row]
    BY <1>8 DEF Heartbeat
  <2> HIDE DEF row
  <2>3. CASE run' = run
    BY <2>3 DEF Life!vars
  <2> QED
    BY <1>0, <2>0, <2>1, <2>2, <2>3, RowMoves
<1>9. CASE run' = run
  BY <1>9 DEF Life!vars
<1> QED
  BY <1>1, <1>2, <1>3, <1>4, <1>5, <1>6, <1>7, <1>8, <1>9
  DEF Next, Progress, Launch, Started, Executed, Tell, BudgetSpent, EndTick,
      Claim, ClaimFails, TellLost, Stop, Crash, vars

\* Refinement: the rows live the life RunLifecycle describes, so the status
\* table holds for the writes that never consult it.
THEOREM LifecycleFollowed == Spec => FollowsLifecycle
<1>1. Init => Life!Init
  BY SameTable DEF Init, Life!Init
<1>2. TypeOK /\ [Next]_vars => [Life!Next]_(Life!vars)
  BY LifeStep
<1> QED
  BY <1>1, <1>2, TypeCorrect, PTL DEF Spec, FollowsLifecycle, Life!Spec

----------------------------------------------------------------------------
(* Hooks.  The end of a run is reported by whoever wrote it: an attempt    *)
(* that is about to call its hook, or a process whose tick gave the run up. *)

Ended == {"succeeded", "failed"}

\* Nobody has heard, one attempt will tell, and what it will tell is the row.
AttemptTells ==
  /\ \A e \in exec : e.phase \in Ended => /\ run[e.run].status = e.phase
                                          /\ told[e.run] = <<>>
  /\ \A e, f \in exec : e.phase \in Ended /\ f.phase \in Ended /\ e.run = f.run
                          => e = f

\* Nobody has heard, one process will tell, and no attempt will.
TickTells ==
  \A w \in Workers : \A r \in lost[w] :
    /\ run[r].status = "failed" /\ told[r] = <<>>
    /\ \A e \in exec : e.run = r => e.phase \notin Ended
    /\ \A v \in Workers : r \in lost[v] => v = w

ToldTheRow == \A r \in Runs : told[r] # <<>> => /\ run[r].status \in Ended
                                                /\ told[r] = <<run[r].status>>

Reporting == AttemptTells /\ TickTells /\ ToldTheRow

\* A run that ended stays as it ended.
LEMMA EndedStays ==
  ASSUME TypeOK, [Next]_vars, NEW r \in Runs, run[r].status \in Ended
  PROVE  run'[r].status = run[r].status
<1>1. run[r] \in Row
  BY DEF TypeOK
<1>2. ~Inserted(r) /\ ~SettledNow(r) /\ ~ClaimedNow(r) /\ ~Renewed(r)
  BY DEF Inserted, SettledNow, ClaimedNow, Renewed, Ended, Absent
<1>3. ~MovedBy(r)
  BY DEF MovedBy, Ended, Transitions, Statuses, Waiting
<1>4. CASE Linked(r)
  BY <1>1, <1>4 DEF Linked, Row
<1>5. CASE Aged(r)
  BY <1>1, <1>5 DEF Aged, Row
<1> QED
  BY <1>2, <1>3, <1>4, <1>5, RowSteps DEF RowStep, OwnRowStep

\* Nor does the row change in what the end is told by.
LEMMA EndedRows ==
  ASSUME TypeOK, [Next]_vars, NEW r \in Runs, run[r].status \in Ended
  PROVE  run'[r].attempt = run[r].attempt /\ run'[r].moved = run[r].moved
<1>1. run[r] \in Row
  BY DEF TypeOK
<1>2. ~Inserted(r) /\ ~SettledNow(r) /\ ~ClaimedNow(r) /\ ~Renewed(r)
  BY DEF Inserted, SettledNow, ClaimedNow, Renewed, Ended, Absent
<1>3. ~MovedBy(r)
  BY DEF MovedBy, Ended, Transitions, Statuses, Waiting
<1>4. CASE Linked(r)
  BY <1>1, <1>4 DEF Linked, Row
<1>5. CASE Aged(r)
  BY <1>1, <1>5 DEF Aged, Row
<1> QED
  BY <1>2, <1>3, <1>4, <1>5, RowSteps DEF RowStep, OwnRowStep

\* The attempts that are about to tell are among those that were before.
NoNewTeller == \A f \in exec' : f.phase \in Ended =>
                 \E e \in exec : e.phase = f.phase /\ e.run = f.run /\ e.no = f.no

\* Attempts stay apart by number, so a step without a new teller, a new lost
\* run or a hook keeps what will be reported.
LEMMA QuietStep ==
  ASSUME TypeOK, OneExecution', Reporting, [Next]_vars, NoNewTeller, told' = told,
         \A w \in Workers : lost'[w] \subseteq lost[w]
  PROVE  Reporting'
<1>0. \A e \in exec : e.run \in Runs
  BY DEF TypeOK, Attempt
<1>1. ToldTheRow'
  BY EndedStays DEF Reporting, ToldTheRow
<1>2. ASSUME NEW f \in exec', f.phase \in Ended
      PROVE  run'[f.run].status = f.phase /\ told'[f.run] = <<>>
  BY <1>0, <1>2, EndedStays DEF Reporting, AttemptTells, NoNewTeller
<1>3. ASSUME NEW f \in exec', NEW g \in exec', f.phase \in Ended, g.phase \in Ended,
             f.run = g.run
      PROVE  f = g
  <2> PICK d \in exec : d.phase = f.phase /\ d.run = f.run /\ d.no = f.no
    BY <1>3 DEF NoNewTeller
  <2> PICK e \in exec : e.phase = g.phase /\ e.run = g.run /\ e.no = g.no
    BY <1>3 DEF NoNewTeller
  <2>1. d = e
    BY <1>3 DEF Reporting, AttemptTells
  <2> QED
    BY <1>3, <2>1 DEF OneExecution
<1>4. TickTells'
  <2> SUFFICES ASSUME NEW w \in Workers, NEW r \in lost'[w]
               PROVE  /\ run'[r].status = "failed" /\ told'[r] = <<>>
                      /\ \A f \in exec' : f.run = r => f.phase \notin Ended
                      /\ \A v \in Workers : r \in lost'[v] => v = w
    BY DEF TickTells
  <2>1. r \in lost[w] /\ r \in Runs
    BY DEF TypeOK
  <2>2. /\ run[r].status = "failed" /\ told[r] = <<>>
        /\ \A e \in exec : e.run = r => e.phase \notin Ended
        /\ \A v \in Workers : r \in lost[v] => v = w
    BY <2>1 DEF Reporting, TickTells
  <2>3. run'[r].status = "failed"
    BY <2>1, <2>2, EndedStays DEF Ended
  <2> QED
    BY <2>1, <2>2, <2>3 DEF NoNewTeller
<1> QED
  BY <1>1, <1>2, <1>3, <1>4 DEF Reporting, AttemptTells

LEMMA BecomeQuiet ==
  ASSUME TypeOK, NEW e \in exec, NEW p, p \notin Ended, Become(e, p)
  PROVE  NoNewTeller
<1>1. [e EXCEPT !.phase = p].phase = p
  BY DEF TypeOK, Attempt
<1> QED
  BY <1>1 DEF Become, NoNewTeller

LEMMA AbortQuiet ==
  ASSUME TypeOK, NEW e \in exec, exec' = (exec \ {e}) \cup {[e EXCEPT !.aborted = TRUE]}
  PROVE  NoNewTeller
<1> DEFINE f == [e EXCEPT !.aborted = TRUE]
<1>1. f.phase = e.phase /\ f.run = e.run /\ f.no = e.no
  BY DEF TypeOK, Attempt
<1>2. exec' = (exec \ {e}) \cup {f}
  OBVIOUS
<1> HIDE DEF f
<1> QED
  BY <1>1, <1>2 DEF NoNewTeller

\* A hook goes out only for a run nobody reported, and reports its row.
LEMMA ReportStep ==
  ASSUME TypeOK, OneExecution', Reporting, [Next]_vars
  PROVE  Reporting'
<1>0. /\ run \in [Runs -> Row]
      /\ \A e \in exec : e.run \in Runs /\ e.worker \in Workers /\ e.phase \in Phases
  BY DEF TypeOK, Attempt
<1>1. ASSUME NEW r \in Runs,
             \/ \E asked \in AskedAttempts : Create(r, asked)
             \/ \E k \in Sources : Link(r, k)
             \/ \E s \in Patches : Transition(r, s)
      PROVE  Reporting'
  <2>1. exec' = exec /\ told' = told /\ lost' = lost
    BY <1>1 DEF Create, Link, Transition
  <2>2. NoNewTeller
    BY <2>1 DEF NoNewTeller
  <2> QED
    BY <2>1, <2>2, QuietStep
<1>2. CASE Tick \/ UNCHANGED vars
  <2>1. exec' = exec /\ told' = told /\ lost' = lost
    BY <1>2 DEF Tick, vars
  <2>2. NoNewTeller
    BY <2>1 DEF NoNewTeller
  <2> QED
    BY <2>1, <2>2, QuietStep
<1>3. ASSUME NEW w \in Workers, Recover(w) PROVE Reporting'
  <2>1. exec' = exec /\ told' = told
    BY <1>3 DEF Recover
  <2>2. \A r \in Runs : run[r].status \in Ended => run'[r] = run[r]
    BY <1>3, RecoverEffect DEF Expired, Ended
  <2>3. \A r \in lost'[w] : /\ r \in Runs /\ run[r].status = "running"
                            /\ run'[r].status = "failed"
    <3> SUFFICES ASSUME NEW r \in lost'[w]
                 PROVE  /\ r \in Runs /\ run[r].status = "running"
                        /\ run'[r].status = "failed"
      OBVIOUS
    <3>0. r \in Runs
      BY <1>3 DEF Recover, Batches, Exhausted, TypeOK
    <3>1. Expired(run[r]) /\ ~CanRetry(run[r])
      BY <1>3, <3>0, RecoverEffect
    <3>2. run'[r] = Settled(run[r], FALSE)
      BY <1>3, <3>0, RecoverEffect
    <3> QED
      BY <1>0, <3>0, <3>1, <3>2 DEF Expired, Settled, Row
  <2>4. \A v \in Workers \ {w} : lost'[v] = lost[v]
    BY <1>3 DEF Recover, TypeOK
  <2>5. \A r \in lost'[w] : /\ told[r] = <<>>
                            /\ \A e \in exec : e.run = r => e.phase \notin Ended
                            /\ \A v \in Workers : r \notin lost[v]
    BY <2>3 DEF Reporting, AttemptTells, TickTells, ToldTheRow, Ended
  <2>6. AttemptTells'
    BY <1>0, <2>1, <2>2 DEF Reporting, AttemptTells
  <2>7. ToldTheRow'
    BY <2>1, <2>2 DEF Reporting, ToldTheRow
  <2>8. ASSUME NEW v \in Workers, NEW r \in lost'[v]
        PROVE  /\ run'[r].status = "failed" /\ told'[r] = <<>>
               /\ \A e \in exec' : e.run = r => e.phase \notin Ended
               /\ \A u \in Workers : r \in lost'[u] => u = v
    <3>1. CASE v = w
      BY <2>1, <2>3, <2>4, <2>5, <2>8, <3>1
    <3>2. CASE v # w
      <4>1. r \in lost[v] /\ r \in Runs
        BY <2>4, <2>8, <3>2 DEF TypeOK
      <4>2. r \notin lost'[w]
        BY <2>5, <4>1
      <4> QED
        BY <2>1, <2>2, <2>4, <4>1, <4>2 DEF Reporting, TickTells, Ended
    <3> QED
      BY <3>1, <3>2
  <2> QED
    BY <2>6, <2>7, <2>8 DEF Reporting, TickTells
<1>4. ASSUME NEW w \in Workers, NEW r \in Runs, TellLost(w, r) PROVE Reporting'
  <2>1. /\ run' = run /\ exec' = exec
        /\ lost' = [lost EXCEPT ![w] = @ \ {r}]
        /\ told' = [told EXCEPT ![r] = Append(@, "failed")] /\ r \in lost[w]
    BY <1>4 DEF TellLost
  <2>2. /\ run[r].status = "failed" /\ told[r] = <<>>
        /\ \A e \in exec : e.run = r => e.phase \notin Ended
        /\ \A v \in Workers : r \in lost[v] => v = w
    BY <2>1 DEF Reporting, TickTells
  <2>3. told'[r] = <<"failed">> /\ \A q \in Runs \ {r} : told'[q] = told[q]
    BY <2>1, <2>2 DEF TypeOK
  <2>4. ToldTheRow'
    BY <2>1, <2>2, <2>3 DEF Reporting, ToldTheRow, Ended
  <2>5. AttemptTells'
    BY <1>0, <2>1, <2>2, <2>3 DEF Reporting, AttemptTells
  <2>6. /\ r \notin lost'[w]
        /\ \A v \in Workers : lost'[v] \subseteq lost[v]
        /\ \A v \in Workers : lost[v] \subseteq Runs
    BY <2>1 DEF TypeOK
  <2>7. \A v \in Workers : r \notin lost'[v]
    BY <2>2, <2>6
  <2>8. TickTells'
    BY <2>1, <2>3, <2>6, <2>7 DEF Reporting, TickTells
  <2> QED
    BY <2>4, <2>5, <2>8 DEF Reporting
<1>5. ASSUME NEW w \in Workers, NEW r \in Runs, Claim(w, r) PROVE Reporting'
  <2>1. told' = told /\ lost' = lost
    BY <1>5 DEF Claim
  <2>2. NoNewTeller
    BY <1>5 DEF Claim, NoNewTeller, Ended
  <2> QED
    BY <2>1, <2>2, QuietStep
<1>6. ASSUME NEW w \in Workers, EndTick(w) \/ ClaimFails(w) PROVE Reporting'
  <2>1. exec' = exec /\ told' = told /\ lost' = lost
    BY <1>6 DEF EndTick, ClaimFails
  <2>2. NoNewTeller
    BY <2>1 DEF NoNewTeller
  <2> QED
    BY <2>1, <2>2, QuietStep
<1>7. ASSUME NEW e \in exec, Launch(e) \/ Started(e) \/ Executed(e) \/ SettleFails(e)
      PROVE Reporting'
  <2>1. told' = told /\ lost' = lost
    BY <1>7 DEF Launch, Started, Executed, SettleFails
  <2>2. CASE \E p \in Phases \ Ended : Become(e, p)
    <3>1. NoNewTeller
      BY <2>2, BecomeQuiet
    <3> QED
      BY <2>1, <3>1, QuietStep
  <2>3. CASE Leave(e)
    <3>1. NoNewTeller
      BY <2>3 DEF Leave, NoNewTeller
    <3> QED
      BY <2>1, <3>1, QuietStep
  <2> QED
    BY <1>7, <2>2, <2>3
    DEF Launch, Started, Executed, SettleFails, Phases, Ended
<1>8. ASSUME NEW e \in exec, Heartbeat(e) \/ BudgetSpent(e) PROVE Reporting'
  <2>1. told' = told /\ lost' = lost
    BY <1>8 DEF Heartbeat, BudgetSpent
  <2>2. NoNewTeller
    <3>1. CASE exec' = exec
      BY <3>1 DEF NoNewTeller
    <3>2. CASE exec' = (exec \ {e}) \cup {[e EXCEPT !.aborted = TRUE]}
      BY <3>2, AbortQuiet
    <3> QED
      BY <1>8, <3>1, <3>2 DEF Heartbeat, BudgetSpent
  <2> QED
    BY <2>1, <2>2, QuietStep
<1>9. ASSUME NEW e \in exec, SettleSuccess(e) \/ SettleFailure(e) PROVE Reporting'
  <2>1. told' = told /\ lost' = lost
    BY <1>9 DEF SettleSuccess, SettleFailure
  <2>2. CASE Leave(e)
    <3>1. NoNewTeller
      BY <2>2 DEF Leave, NoNewTeller
    <3> QED
      BY <2>1, <3>1, QuietStep
  <2>3. ASSUME NEW p \in Ended, Become(e, p), run[e.run].status = "running",
               run'[e.run].status = p, \A q \in Runs \ {e.run} : run'[q] = run[q]
        PROVE  Reporting'
    <3> DEFINE f == [e EXCEPT !.phase = p]
    <3>1. f.run = e.run /\ f.phase = p /\ exec' = (exec \ {e}) \cup {f}
      BY <2>3 DEF Become, TypeOK, Attempt
    <3> HIDE DEF f
    <3>2. /\ told[e.run] = <<>>
          /\ \A g \in exec : g.run = e.run => g.phase \notin Ended
          /\ \A w \in Workers : e.run \notin lost[w]
      BY <1>0, <2>3 DEF Reporting, AttemptTells, TickTells, ToldTheRow, Ended
    <3>3. AttemptTells'
      BY <1>0, <2>1, <2>3, <3>1, <3>2 DEF Reporting, AttemptTells
    <3>4. ToldTheRow'
      BY <1>0, <2>1, <2>3, <3>2 DEF Reporting, ToldTheRow
    <3>5. ASSUME NEW w \in Workers, NEW r \in lost[w]
          PROVE  r \in Runs \ {e.run}
      BY <3>2, <3>5 DEF TypeOK
    <3>6. TickTells'
      BY <2>1, <2>3, <3>1, <3>2, <3>5 DEF Reporting, TickTells
    <3> QED
      BY <3>3, <3>4, <3>6 DEF Reporting
  <2>4. CASE SettleSuccess(e) /\ Owned(e)
    <3>1. Become(e, "succeeded") /\ run' = [run EXCEPT ![e.run] = Settled(@, TRUE)]
      BY <2>4 DEF SettleSuccess
    <3>2. /\ run'[e.run].status = "succeeded"
          /\ \A q \in Runs \ {e.run} : run'[q] = run[q]
      BY <1>0, <3>1 DEF Settled, Row
    <3> QED
      BY <2>3, <2>4, <3>1, <3>2 DEF Owned, Ended
  <2>5. CASE SettleFailure(e) /\ Owned(e) /\ ~CanRetry(run[e.run])
    <3>1. Become(e, "failed") /\ run' = [run EXCEPT ![e.run] = Settled(@, FALSE)]
      BY <2>5 DEF SettleFailure
    <3>2. /\ run'[e.run].status = "failed"
          /\ \A q \in Runs \ {e.run} : run'[q] = run[q]
      BY <1>0, <2>5, <3>1 DEF Settled, Row
    <3> QED
      BY <2>3, <2>5, <3>1, <3>2 DEF Owned, Ended
  <2> QED
    BY <1>9, <2>2, <2>4, <2>5 DEF SettleSuccess, SettleFailure
<1>10. ASSUME NEW e \in exec, Tell(e) PROVE Reporting'
  <2>1. /\ run' = run /\ lost' = lost /\ exec' = exec \ {e} /\ e.phase \in Ended
        /\ told' = [told EXCEPT ![e.run] = Append(@, e.phase)]
    BY <1>10 DEF Tell, Leave, Ended
  <2>2. /\ run[e.run].status = e.phase /\ told[e.run] = <<>>
        /\ \A g \in exec \ {e} : g.run = e.run => g.phase \notin Ended
    BY <2>1 DEF Reporting, AttemptTells
  <2>3. /\ told'[e.run] = <<e.phase>>
        /\ \A q \in Runs \ {e.run} : told'[q] = told[q]
    BY <1>0, <2>1, <2>2 DEF TypeOK
  <2>4. \A w \in Workers : e.run \notin lost[w] /\ lost[w] \subseteq Runs
    BY <2>1 DEF Reporting, TickTells, TypeOK
  <2>5. ToldTheRow'
    BY <1>0, <2>1, <2>2, <2>3 DEF Reporting, ToldTheRow
  <2>6. AttemptTells'
    BY <1>0, <2>1, <2>2, <2>3 DEF Reporting, AttemptTells
  <2>7. TickTells'
    BY <2>1, <2>3, <2>4 DEF Reporting, TickTells
  <2> QED
    BY <2>5, <2>6, <2>7 DEF Reporting
<1>11. ASSUME NEW w \in MayCrash, Stop(w) PROVE Reporting'
  <2>1. told' = told /\ lost' = lost
    BY <1>11 DEF Stop
  <2>2. \A e \in exec : LET f == [e EXCEPT !.aborted = TRUE]
                        IN  f.phase = e.phase /\ f.run = e.run /\ f.no = e.no
    BY DEF TypeOK, Attempt
  <2>3. NoNewTeller
    BY <1>11, <2>2 DEF Stop, NoNewTeller
  <2> QED
    BY <2>1, <2>3, QuietStep
<1>12. ASSUME NEW w \in MayCrash, Crash(w) PROVE Reporting'
  <2>1. told' = told /\ exec' \subseteq exec
    BY <1>12 DEF Crash
  <2>2. \A v \in Workers : lost'[v] \subseteq lost[v]
    BY <1>12 DEF Crash, TypeOK
  <2>3. NoNewTeller
    BY <2>1 DEF NoNewTeller
  <2> QED
    BY <2>1, <2>2, <2>3, QuietStep
<1> QED
  BY <1>1, <1>2, <1>3, <1>4, <1>5, <1>6, <1>7, <1>8, <1>9, <1>10, <1>11, <1>12
  DEF Next, Progress

\* A source hears of the end of its run at most once, and hears what the row
\* says, whatever the order of recoveries, retries and late settlements.
THEOREM ReportedOnceAndTrue == Spec => []ToldOnceAndTrue
<1>1. Init => Reporting
  BY DEF Init, Reporting, AttemptTells, TickTells, ToldTheRow
<1>2. TypeOK /\ OneExecution' /\ Reporting /\ [Next]_vars => Reporting'
  BY ReportStep
<1>3. Reporting => ToldOnceAndTrue
  BY DEF Reporting, ToldTheRow, ToldOnceAndTrue
<1> QED
  BY <1>1, <1>2, <1>3, TypeCorrect, ExecutedOnce, PTL DEF Spec

----------------------------------------------------------------------------
(* Who is left to act: on a run that is under way, and to its source       *)

\* Only a move out of the queue by hand leaves a run under way without a lease: claims take
\* one, and a transition that does not end a run keeps it (store.ts, claimAutomated,
\* transitionOn, settleOn).
THEOREM LeftUnleasedByMove == Spec => UnleasedByMove
<1>1. ASSUME TypeOK, [Next]_vars, NEW r \in Runs, Unleased(r)', ~Unleased(r)
      PROVE  run[r].status = "queued" /\ Transition(r, "running")
  <2>0. run[r] \in Row /\ run \in [Runs -> Row]
    BY <1>1 DEF TypeOK
  <2>1. /\ run'[r].status \in {"running"} \cup Waiting /\ run'[r].leaseOwner = Nobody
        /\ ~(run[r].status \in {"running"} \cup Waiting /\ run[r].leaseOwner = Nobody)
    BY <1>1 DEF Unleased
  <2>2. ASSUME OwnRowStep(r) PROVE FALSE
    <3>1. ~Inserted(r)
      BY <2>0, <2>1 DEF Inserted, Row, Waiting
    <3>2. ~Linked(r)
      BY <2>0, <2>1 DEF Linked, Row
    <3>3. ~Aged(r) /\ ~Renewed(r) /\ run'[r] # run[r]
      BY <2>0, <2>1 DEF Aged, Renewed, Row
    <3>4. ~SettledNow(r)
      BY <2>0, <2>1 DEF SettledNow, Settled, Row, Waiting
    <3>5. ~ClaimedNow(r)
      BY <2>0, <2>1, NobodyAssumption DEF ClaimedNow, Claimed, Row
    <3> QED BY <2>2, <3>1, <3>2, <3>3, <3>4, <3>5 DEF OwnRowStep
  <2>3. PICK q \in Runs, s \in Patches : Transition(q, s)
    BY <1>1, <2>2, OwnRowSteps, StepKinds
  <2>4. q = r
    BY <2>0, <2>1, <2>3 DEF Transition
  <2>5. run'[r] = Moved(run[r], s) /\ run[r].status \in Statuses /\ s \in Transitions[run[r].status]
    BY <2>0, <2>3, <2>4 DEF Transition
  <2>6. run'[r].status = s /\ (run'[r].leaseOwner = run[r].leaseOwner \/ s \in Terminal \cup {"queued"})
    BY <2>0, <2>5 DEF Moved, Row
  <2>7. s \in {"running"} \cup Waiting /\ run[r].status \notin {"running"} \cup Waiting
    BY <2>1, <2>6 DEF Waiting, Terminal
  <2>8. run[r].status = "queued" /\ s = "running"
    BY <2>5, <2>7 DEF Transitions, Statuses, Waiting
  <2> QED BY <2>3, <2>4, <2>8
<1>2. TypeOK /\ [Next]_vars
        => [\A r \in Runs : Unleased(r)' /\ ~Unleased(r)
              => run[r].status = "queued" /\ Transition(r, "running")]_vars
  BY <1>1
<1>3. Spec => [][\A r \in Runs : Unleased(r)' /\ ~Unleased(r)
                   => run[r].status = "queued" /\ Transition(r, "running")]_vars
  BY <1>2, TypeCorrect, PTL DEF Spec
<1> QED BY <1>3 DEF UnleasedByMove

\* What may become of an attempt in memory: it stays the attempt it is, and what it is
\* about to tell; or it leaves in one of five ways.
LEMMA AttemptGoes ==
  ASSUME TypeOK, [Next]_vars, NEW e \in exec
  PROVE  \/ \E f \in exec' : SameKey(f, e) /\ (e.phase \in Ended => f.phase = e.phase)
         \/ Tell(e) \/ Crash(e.worker)
         \/ SettleFails(e) /\ faults' > 0
         \/ (SettleSuccess(e) \/ SettleFailure(e)) /\ ~Owned(e)
         \/ SettleFailure(e) /\ Owned(e)
<1> DEFINE Stays == \E f \in exec' : SameKey(f, e) /\ (e.phase \in Ended => f.phase = e.phase)
<1>0. e \in Attempt /\ faults \in Nat
  BY DEF TypeOK
<1>1. CASE e \in exec'
  BY <1>1 DEF SameKey
<1>2. ASSUME NEW p \in Phases, exec' = (exec \ {e}) \cup {[e EXCEPT !.phase = p]},
             e.phase \notin Ended
      PROVE  Stays
  <2>1. SameKey([e EXCEPT !.phase = p], e) /\ [e EXCEPT !.phase = p] \in exec'
    BY <1>0, <1>2 DEF SameKey, Attempt
  <2> QED BY <1>2, <2>1
<1>3. ASSUME exec' = (exec \ {e}) \cup {[e EXCEPT !.aborted = TRUE]}
      PROVE  Stays
  <2>1. /\ SameKey([e EXCEPT !.aborted = TRUE], e) /\ [e EXCEPT !.aborted = TRUE] \in exec'
        /\ [e EXCEPT !.aborted = TRUE].phase = e.phase
    BY <1>0, <1>3 DEF SameKey, Attempt
  <2> QED BY <2>1
<1>4. ASSUME NEW d \in exec, d # e, Progress(d) \/ SettleFails(d) \/ Heartbeat(d) \/ BudgetSpent(d)
      PROVE  e \in exec'
  BY <1>4 DEF Progress, Launch, Started, Executed, SettleSuccess, SettleFailure, Tell, SettleFails,
              Heartbeat, BudgetSpent, Become, Leave
<1>5. CASE Launch(e) \/ Started(e) \/ Executed(e)
  BY <1>2, <1>5 DEF Launch, Started, Executed, Become, Phases, Ended
<1>6. CASE SettleSuccess(e)
  BY <1>2, <1>6 DEF SettleSuccess, Become, Phases, Ended
<1>7. CASE SettleFailure(e)
  BY <1>7
<1>8. CASE SettleFails(e)
  <2>1. faults' > 0
    BY <1>0, <1>8 DEF SettleFails, Fault
  <2> QED BY <1>8, <2>1
<1>9. CASE Heartbeat(e) \/ BudgetSpent(e)
  BY <1>1, <1>3, <1>9 DEF Heartbeat, BudgetSpent
<1>10. ASSUME NEW w \in MayCrash, Stop(w) PROVE Stays
  <2>1. PICK f \in exec' : f = (IF e.worker = w /\ e.no = active[w][e.run]
                                THEN [e EXCEPT !.aborted = TRUE] ELSE e)
    BY <1>10 DEF Stop
  <2>2. SameKey(f, e) /\ f.phase = e.phase
    BY <1>0, <2>1 DEF SameKey, Attempt
  <2> QED BY <2>2
<1>11. ASSUME NEW w \in MayCrash, Crash(w) PROVE e \in exec' \/ Crash(e.worker)
  BY <1>11 DEF Crash
<1>12. ASSUME NEW r \in Runs,
              \/ \E asked \in AskedAttempts : Create(r, asked)
              \/ \E k \in Sources : Link(r, k)
              \/ \E s \in Patches : Transition(r, s)
       PROVE  e \in exec'
  BY <1>12 DEF Create, Link, Transition
<1>13. ASSUME NEW w \in Workers,
              \/ Recover(w) \/ EndTick(w) \/ ClaimFails(w)
              \/ \E r \in Runs : TellLost(w, r) \/ Claim(w, r)
       PROVE  e \in exec'
  BY <1>13 DEF Recover, EndTick, ClaimFails, TellLost, Claim
<1>14. ASSUME Tick \/ UNCHANGED vars PROVE e \in exec'
  BY <1>14 DEF Tick, vars
<1> QED
  BY <1>1, <1>4, <1>5, <1>6, <1>7, <1>8, <1>9, <1>10, <1>11, <1>12, <1>13, <1>14
  DEF Next, Progress

\* The bounds only grow, and a process that is gone stays so.
LEMMA GoneForGood ==
  ASSUME TypeOK, [Next]_vars
  PROVE  /\ faults > 0 => faults' > 0
         /\ \A w \in Workers : mode[w] = "dead" => mode'[w] = "dead"
<1>0. faults \in Nat /\ mode \in [Workers -> {"up", "stopping", "dead"}]
  BY DEF TypeOK
<1>1. faults' = faults \/ Fault
  BY DEF Next, Progress, vars, Create, Link, Transition, Tick, Recover, EndTick, ClaimFails,
         TellLost, Claim, Launch, Started, Executed, SettleSuccess, SettleFailure, Tell,
         SettleFails, Heartbeat, BudgetSpent, Stop, Crash
<1>2. mode' = mode \/ \E w \in MayCrash : Stop(w) \/ Crash(w)
  BY DEF Next, Progress, vars, Create, Link, Transition, Tick, Recover, EndTick, ClaimFails,
         TellLost, Claim, Launch, Started, Executed, SettleSuccess, SettleFailure, Tell,
         SettleFails, Heartbeat, BudgetSpent
<1>3. ASSUME NEW w \in MayCrash, Stop(w) \/ Crash(w), NEW v \in Workers, mode[v] = "dead"
      PROVE  mode'[v] = "dead"
  BY <1>0, <1>3, MayCrashAssumption DEF Stop, Crash
<1> QED BY <1>0, <1>1, <1>2, <1>3 DEF Fault

\* A row that waits was made to.
WaitersWereMade == \A r \in Runs : run[r].status \in Waiting => MadeToWait(run[r])

LEMMA WaitersWereMadeStep ==
  ASSUME TypeOK, WaitersWereMade, [Next]_vars
  PROVE  WaitersWereMade'
<1> SUFFICES ASSUME NEW r \in Runs, run'[r].status \in Waiting PROVE MadeToWait(run'[r])
  BY DEF WaitersWereMade
<1>0. run[r] \in Row /\ (run[r].status \in Waiting => MadeToWait(run[r]))
  BY DEF TypeOK, WaitersWereMade
<1>1. CASE Linked(r) \/ Aged(r) \/ Renewed(r)
  <2>1. /\ run'[r].status = run[r].status /\ run'[r].moved = run[r].moved
        /\ run'[r].attempt = run[r].attempt
    BY <1>0, <1>1 DEF Linked, Aged, Renewed, Row
  <2> QED BY <1>0, <2>1 DEF MadeToWait
<1>2. CASE MovedBy(r)
  <2>1. PICK s \in Patches : run'[r] = Moved(run[r], s)
    BY <1>2 DEF MovedBy
  <2>2. /\ run'[r].status = s /\ run'[r].attempt = run[r].attempt
        /\ <<s, run[r].attempt>> \in run'[r].moved
    BY <1>0, <2>1 DEF Moved, Row
  <2> QED BY <2>2 DEF MadeToWait
<1>3. ~SettledNow(r)
  BY <1>0 DEF SettledNow, Settled, Row, Waiting
<1>4. ~ClaimedNow(r) /\ ~Inserted(r)
  BY <1>0 DEF ClaimedNow, Claimed, Inserted, Row, Waiting
<1> QED BY <1>0, <1>1, <1>2, <1>3, <1>4, RowSteps DEF RowStep, OwnRowStep

LEMMA HolderStep ==
  ASSUME TypeOK, LeaseCoherent, WaitersWereMade, AttemptTells, HolderAtWork, [Next]_vars
  PROVE  HolderAtWork'
<1> SUFFICES ASSUME NEW r \in Runs, run'[r].leaseOwner # Nobody
             PROVE  \/ \E f \in exec' : /\ f.run = r /\ f.worker = run'[r].leaseOwner
                                        /\ f.no = run'[r].attempt
                    \/ MadeToWait(run'[r])
                    \/ faults' > 0 \/ mode'[run'[r].leaseOwner] = "dead"
  BY DEF HolderAtWork
<1>0. /\ run[r] \in Row /\ run \in [Runs -> Row] /\ faults \in Nat
      /\ run[r].leaseOwner \in Workers \cup {Nobody}
  BY DEF TypeOK, Row
<1>1. CASE ClaimedNow(r)
  <2>1. PICK w \in Workers : /\ Claim(w, r) \/ ClaimFails(w)
                             /\ run'[r] = Claimed(run[r], w)
    BY <1>1 DEF ClaimedNow
  <2>4. ClaimFails(w) => faults' > 0
    BY <1>0 DEF ClaimFails, Fault
  <2>2. run'[r].leaseOwner = w /\ run'[r].attempt = NextAttempt(run[r])
    BY <1>0, <2>1 DEF Claimed, Row
  <2>3. Claim(w, r) => \E f \in exec' : f.run = r /\ f.worker = w /\ f.no = NextAttempt(run[r])
    <3>1. [worker |-> w, run |-> r, no |-> NextAttempt(run[r]),
           phase |-> "claimed", aborted |-> FALSE] \in exec' \/ ~Claim(w, r)
      BY DEF Claim
    <3> QED BY <3>1
  <2> QED BY <2>1, <2>2, <2>3, <2>4
<1>2. ASSUME run'[r].leaseOwner = run[r].leaseOwner, run'[r].attempt = run[r].attempt,
             run[r].moved \subseteq run'[r].moved
      PROVE  \/ \E f \in exec' : /\ f.run = r /\ f.worker = run'[r].leaseOwner
                                 /\ f.no = run'[r].attempt
             \/ MadeToWait(run'[r])
             \/ faults' > 0 \/ mode'[run'[r].leaseOwner] = "dead"
  <2>1. CASE faults > 0 \/ mode[run[r].leaseOwner] = "dead"
    BY <1>0, <1>2, <2>1, GoneForGood
  <2>3. MadeToWait(run[r]) => MadeToWait(run'[r])
    BY <1>2 DEF MadeToWait
  <2>2. ASSUME NEW e \in exec, e.run = r, e.worker = run[r].leaseOwner, e.no = run[r].attempt
        PROVE  \/ \E f \in exec' : /\ f.run = r /\ f.worker = run'[r].leaseOwner
                                   /\ f.no = run'[r].attempt
               \/ MadeToWait(run'[r])
               \/ faults' > 0 \/ mode'[run'[r].leaseOwner] = "dead"
    <3> SUFFICES ASSUME run[r].status \notin Waiting
                 PROVE  \/ \E f \in exec' : /\ f.run = r /\ f.worker = run'[r].leaseOwner
                                            /\ f.no = run'[r].attempt
                        \/ faults' > 0 \/ mode'[run'[r].leaseOwner] = "dead"
      BY <2>3 DEF WaitersWereMade
    <3>1. run[r].status = "running"
      BY <1>2 DEF LeaseCoherent
    <3>2. Owned(e)
      BY <2>2, <3>1 DEF Owned
    <3>3. ~Tell(e)
      BY <2>2, <3>1 DEF Tell, AttemptTells, Ended
    <3>4. ~SettleFailure(e)
      <4>1. SettleFailure(e) => run'[r] = Settled(run[r], FALSE)
        BY <1>0, <2>2, <3>2 DEF SettleFailure
      <4>2. Settled(run[r], FALSE).leaseOwner = Nobody
        BY <1>0 DEF Settled, Row
      <4> QED BY <4>1, <4>2
    <3>5. Crash(e.worker) => mode'[run[r].leaseOwner] = "dead"
      BY <1>0, <1>2, <2>2 DEF Crash, TypeOK
    <3> QED BY <1>2, <2>2, <3>2, <3>3, <3>4, <3>5, AttemptGoes DEF SameKey
  <2> QED BY <1>2, <2>1, <2>2, <2>3 DEF HolderAtWork
<1>3. CASE Inserted(r) \/ Linked(r) \/ Aged(r) \/ Renewed(r) \/ run'[r] = run[r]
  BY <1>0, <1>2, <1>3 DEF Inserted, Linked, Aged, Renewed, Row
<1>4. CASE MovedBy(r)
  <2>1. PICK s \in Patches : run'[r] = Moved(run[r], s)
    BY <1>4 DEF MovedBy
  <2>2. /\ run'[r].leaseOwner = run[r].leaseOwner \/ run'[r].leaseOwner = Nobody
        /\ run'[r].attempt = run[r].attempt
        /\ run'[r].moved = run[r].moved \cup {<<s, run[r].attempt>>}
    BY <1>0, <2>1 DEF Moved, Row
  <2> QED BY <1>2, <2>2
<1>5. ~SettledNow(r)
  BY <1>0 DEF SettledNow, Settled, Row
<1> QED BY <1>1, <1>3, <1>4, <1>5, RowSteps DEF RowStep, OwnRowStep

\* The attempt that a leased row counts is in the memory of the process the row names, until
\* a call to the database fails or that process dies: neither an overtaken attempt of the
\* same run, nor a shutdown, nor a runtime budget, nor whatever status a member writes leaves
\* a lease behind that nobody holds (executor.ts, executeClaim and its finally).  The one
\* exception is an attempt that is made to wait: its next heartbeat gives it up, and the row
\* keeps its lease.
THEOREM LeasesAreWorked == Spec => []HolderAtWork
<1>1. Init => WaitersWereMade /\ HolderAtWork
  BY DEF Init, WaitersWereMade, HolderAtWork, Absent, Waiting
<1>2. TypeOK /\ LeaseCoherent /\ WaitersWereMade /\ AttemptTells /\ HolderAtWork /\ [Next]_vars
        => WaitersWereMade' /\ HolderAtWork'
  BY WaitersWereMadeStep, HolderStep
<1>3. Init => Reporting
  BY DEF Init, Reporting, AttemptTells, TickTells, ToldTheRow
<1>4. TypeOK /\ OneExecution' /\ Reporting /\ [Next]_vars => Reporting'
  BY ReportStep
<1>5. Reporting => AttemptTells
  BY DEF Reporting
<1> QED
  BY <1>1, <1>2, <1>3, <1>4, <1>5, TypeCorrect, LeasesCoherent, ExecutedOnce, PTL DEF Spec

\* A process that is gone has no attempts.
GoneWorkNone == \A e \in exec : mode[e.worker] # "dead"

LEMMA GoneWorkNoneStep ==
  ASSUME TypeOK, GoneWorkNone, [Next]_vars
  PROVE  GoneWorkNone'
<1>0. /\ mode \in [Workers -> {"up", "stopping", "dead"}]
      /\ \A e \in exec : e \in Attempt /\ e.worker \in Workers
  BY DEF TypeOK, Attempt
<1>1. ASSUME NEW w \in Workers, NEW r \in Runs, Claim(w, r) PROVE GoneWorkNone'
  <2>1. \A f \in exec' : f \in exec \/ f.worker = w
    BY <1>1 DEF Claim
  <2>2. mode' = mode /\ mode[w] = "up"
    BY <1>1 DEF Claim, TakeOldest, Room
  <2> QED BY <2>1, <2>2 DEF GoneWorkNone
<1>2. ASSUME NEW w \in MayCrash, Crash(w) PROVE GoneWorkNone'
  BY <1>0, <1>2, MayCrashAssumption DEF Crash, GoneWorkNone
<1>3. ASSUME Carried, mode' = mode \/ \E w \in MayCrash : Stop(w) PROVE GoneWorkNone'
  <2>1. PICK F \in [exec -> Attempt] : /\ \A e \in exec : SameKey(F[e], e)
                                       /\ exec' \subseteq {F[e] : e \in exec}
    BY <1>3 DEF Carried
  <2>2. \A f \in exec' : \E e \in exec : f.worker = e.worker
    BY <2>1 DEF SameKey
  <2>3. \A v \in Workers : mode[v] # "dead" => mode'[v] # "dead"
    BY <1>0, <1>3, MayCrashAssumption DEF Stop
  <2> QED BY <1>0, <2>2, <2>3 DEF GoneWorkNone
<1>4. mode' = mode \/ \E w \in MayCrash : Stop(w) \/ Crash(w)
  BY DEF Next, Progress, vars, Create, Link, Transition, Tick, Recover, EndTick, ClaimFails,
         TellLost, Claim, Launch, Started, Executed, SettleSuccess, SettleFailure, Tell,
         SettleFails, Heartbeat, BudgetSpent
<1> QED BY <1>1, <1>2, <1>3, <1>4, ExecSteps

\* An attempt whose lease ran out settles the run under a later number only where its own
\* process claimed that number and works it, or worked it until it was made to wait, as long
\* as no call to the database failed: of the promise of executor.ts ("an expired owner cannot
\* complete a run after a replacement has recovered it") this is what comparing the owner
\* alone keeps (store.ts, settleAutomated).
THEOREM StaleSettleForThemselves == Spec => StaleSettlesOwnOnly
<1>1. ASSUME TypeOK, NoneAhead, GoneWorkNone, HolderAtWork, NEW e \in exec,
             SettleSuccess(e) \/ SettleFailure(e), run' # run, faults = 0
      PROVE  \/ \E f \in exec : /\ f.run = e.run /\ f.worker = e.worker /\ f.no >= e.no
                                /\ f.no = run[e.run].attempt
             \/ MadeToWait(run[e.run])
  <2>1. e.run \in Runs /\ e.worker \in Workers /\ Owned(e) /\ e.no <= run[e.run].attempt
    BY <1>1 DEF SettleSuccess, SettleFailure, TypeOK, Attempt, NoneAhead
  <2>2. run[e.run].leaseOwner = e.worker /\ e.worker # Nobody /\ mode[e.worker] # "dead"
    BY <1>1, <2>1, NobodyAssumption DEF Owned, GoneWorkNone
  <2> QED BY <1>1, <2>1, <2>2 DEF HolderAtWork
<1>2. TypeOK /\ NoneAhead /\ GoneWorkNone /\ HolderAtWork /\ [Next]_vars
        => [\A e \in exec : (SettleSuccess(e) \/ SettleFailure(e)) /\ run' # run /\ faults = 0
              => \/ \E f \in exec : /\ f.run = e.run /\ f.worker = e.worker /\ f.no >= e.no
                                    /\ f.no = run[e.run].attempt
                 \/ MadeToWait(run[e.run])]_vars
  BY <1>1
<1>3. Init => GoneWorkNone
  BY DEF Init, GoneWorkNone
<1>4. TypeOK /\ GoneWorkNone /\ [Next]_vars => GoneWorkNone'
  BY GoneWorkNoneStep
<1>6. Spec => []HolderAtWork
  BY LeasesAreWorked
<1>5. Spec => [][\A e \in exec :
                   (SettleSuccess(e) \/ SettleFailure(e)) /\ run' # run /\ faults = 0
                     => \/ \E f \in exec :
                             /\ f.run = e.run /\ f.worker = e.worker /\ f.no >= e.no
                             /\ f.no = run[e.run].attempt
                        \/ MadeToWait(run[e.run])]_vars
  BY <1>2, <1>3, <1>4, <1>6, TypeCorrect, NumbersBehind, PTL DEF Spec
<1> QED BY <1>5 DEF StaleSettlesOwnOnly

\* A process that is not in a tick has no hook to call.
IdleOwesNone == \A w \in Workers : tick[w] = "idle" => lost[w] = {}

LEMMA IdleOwesNoneStep ==
  ASSUME TypeOK, IdleOwesNone, [Next]_vars
  PROVE  IdleOwesNone'
<1>0. tick \in [Workers -> {"idle", "claiming"}] /\ lost \in [Workers -> SUBSET Runs]
  BY DEF TypeOK
<1>1. ASSUME NEW w \in Workers, Recover(w) PROVE IdleOwesNone'
  BY <1>0, <1>1 DEF Recover, IdleOwesNone
<1>2. ASSUME NEW w \in Workers, EndTick(w) \/ ClaimFails(w) PROVE IdleOwesNone'
  BY <1>0, <1>2 DEF EndTick, ClaimFails, Claiming, IdleOwesNone
<1>3. ASSUME NEW w \in Workers, NEW r \in Runs, TellLost(w, r) PROVE IdleOwesNone'
  BY <1>0, <1>3 DEF TellLost, IdleOwesNone
<1>4. ASSUME NEW w \in MayCrash, Crash(w) PROVE IdleOwesNone'
  BY <1>0, <1>4, MayCrashAssumption DEF Crash, IdleOwesNone
<1>5. CASE UNCHANGED <<tick, lost>>
  BY <1>5 DEF IdleOwesNone
<1> QED
  BY <1>1, <1>2, <1>3, <1>4, <1>5
  DEF Next, Progress, vars, Create, Link, Transition, Tick, Claim, Launch, Started, Executed,
      SettleSuccess, SettleFailure, Tell, SettleFails, Heartbeat, BudgetSpent, Stop

\* Who ends a run.
LEMMA WhoEnds ==
  ASSUME TypeOK, [Next]_vars, NEW r \in Runs,
         run'[r].status \in Ended, run[r].status \notin Ended
  PROVE  \/ EndedByHand(r)'
         \/ \E w \in Workers : Recover(w) /\ Expired(run[r])
         \/ \E e \in exec : /\ e.run = r /\ Owned(e)
                            /\ SettleSuccess(e) \/ SettleFailure(e) \/ SettleFails(e)
<1>0. run[r] \in Row /\ run \in [Runs -> Row]
  BY DEF TypeOK
<1>1. ASSUME NEW q \in Runs,
             \/ \E asked \in AskedAttempts : Create(q, asked)
             \/ \E k \in Sources : Link(q, k)
      PROVE  FALSE
  <2>1. ASSUME NEW asked \in AskedAttempts, Create(q, asked) PROVE FALSE
    <3>1. run'[r] = run[r] \/ run'[r] = [run[r] EXCEPT !.status = "queued", !.maxAttempts = Clamp(asked)]
      BY <1>0, <2>1 DEF Create
    <3> QED BY <1>0, <3>1 DEF Row, Ended
  <2>2. ASSUME NEW k \in Sources, Link(q, k) PROVE FALSE
    <3>1. run'[r] = run[r] \/ run'[r] = [run[r] EXCEPT !.source = k]
      BY <1>0, <2>2 DEF Link
    <3> QED BY <1>0, <3>1 DEF Row
  <2> QED BY <1>1, <2>1, <2>2
<1>2. ASSUME NEW q \in Runs, NEW s \in Patches, Transition(q, s) PROVE EndedByHand(r)'
  <2>1. run'[r] = Moved(run[r], s)
    BY <1>0, <1>2 DEF Transition
  <2>2. /\ run'[r].status = s /\ run'[r].attempt = run[r].attempt
        /\ <<s, run[r].attempt>> \in run'[r].moved
    BY <1>0, <2>1 DEF Moved, Row
  <2> QED BY <2>2 DEF EndedByHand
<1>3. CASE Tick
  BY <1>0, <1>3 DEF Tick, Row
<1>4. ASSUME NEW w \in Workers, Recover(w) PROVE Expired(run[r])
  BY <1>4, RecoverEffect
<1>5. ASSUME NEW w \in Workers, NEW q \in Runs, TakeOldest(w, q) PROVE FALSE
  BY <1>0, <1>5 DEF TakeOldest, Claimed, Row, Ended
<1>6. ASSUME NEW e \in exec, Heartbeat(e) PROVE FALSE
  BY <1>0, <1>6 DEF Heartbeat, Row
<1>7. ASSUME NEW e \in exec, SettleSuccess(e) \/ SettleFailure(e) \/ SettleFails(e)
      PROVE  e.run = r /\ Owned(e)
  BY <1>0, <1>7 DEF SettleSuccess, SettleFailure, SettleFails
<1>8. run' # run
  OBVIOUS
<1>9. ASSUME NEW w \in Workers,
             \/ EndTick(w) \/ ClaimFails(w)
             \/ \E q \in Runs : TellLost(w, q) \/ Claim(w, q)
      PROVE  FALSE
  BY <1>5, <1>8, <1>9 DEF EndTick, Claim, ClaimFails, TellLost
<1>10. ASSUME NEW e \in exec,
              Launch(e) \/ Started(e) \/ Executed(e) \/ Tell(e) \/ BudgetSpent(e)
       PROVE  FALSE
  BY <1>8, <1>10 DEF Launch, Started, Executed, Tell, BudgetSpent
<1>11. ASSUME NEW w \in MayCrash, Stop(w) \/ Crash(w) PROVE FALSE
  BY <1>8, <1>11 DEF Stop, Crash
<1>12. ~UNCHANGED vars
  BY <1>8 DEF vars
<1> QED
  BY <1>1, <1>2, <1>3, <1>4, <1>6, <1>7, <1>9, <1>10, <1>11, <1>12 DEF Next, Progress

LEMMA TellerStep ==
  ASSUME TypeOK, IdleOwesNone, TellerLeft, [Next]_vars
  PROVE  TellerLeft'
<1> SUFFICES ASSUME NEW r \in Runs, run'[r].status \in Ended, told'[r] = <<>>,
                    ~EndedByHand(r)'
             PROVE  \/ \E f \in exec' : f.run = r /\ f.phase = run'[r].status
                    \/ \E w \in Workers : r \in lost'[w] \/ mode'[w] = "dead"
                    \/ faults' > 0
  BY DEF TellerLeft, Ended
<1>0. /\ run[r] \in Row /\ run \in [Runs -> Row] /\ lost \in [Workers -> SUBSET Runs]
      /\ told \in [Runs -> Seq({"succeeded", "failed"})] /\ faults \in Nat
      /\ \A e \in exec : e \in Attempt
  BY DEF TypeOK
<1>1. CASE run[r].status \notin Ended
  <2>1. ASSUME NEW w \in Workers, Recover(w), Expired(run[r])
        PROVE  r \in lost'[w]
    <3>1. run'[r] = Settled(run[r], FALSE)
      BY <1>1, <2>1, RecoverEffect
    <3>2. ~CanRetry(run[r])
      BY <1>0, <3>1 DEF Settled, Row, Ended
    <3> QED BY <1>1, <2>1, <3>2, RecoverEffect
  <2>2. ASSUME NEW e \in exec, e.run = r, Owned(e),
               SettleSuccess(e) \/ SettleFailure(e) \/ SettleFails(e)
        PROVE  (\E f \in exec' : f.run = r /\ f.phase = run'[r].status) \/ faults' > 0
    <3>1. CASE SettleSuccess(e)
      <4>1. run'[r] = Settled(run[r], TRUE) /\ [e EXCEPT !.phase = "succeeded"] \in exec'
        BY <1>0, <2>2, <3>1 DEF SettleSuccess, Become
      <4>2. run'[r].status = "succeeded"
        BY <1>0, <4>1 DEF Settled, Row
      <4>3. e \in Attempt
        BY <1>0
      <4>4. [e EXCEPT !.phase = "succeeded"].run = r
            /\ [e EXCEPT !.phase = "succeeded"].phase = "succeeded"
        BY <2>2, <4>3 DEF Attempt
      <4> QED BY <4>1, <4>2, <4>4
    <3>2. CASE SettleFailure(e)
      <4>1. run'[r] = Settled(run[r], FALSE)
        BY <1>0, <2>2, <3>2 DEF SettleFailure
      <4>2. ~CanRetry(run[r]) /\ run'[r].status = "failed"
        BY <1>0, <4>1 DEF Settled, Row, Ended
      <4>3. [e EXCEPT !.phase = "failed"] \in exec'
        BY <2>2, <3>2, <4>2 DEF SettleFailure, Become
      <4>4. e \in Attempt
        BY <1>0
      <4>5. [e EXCEPT !.phase = "failed"].run = r
            /\ [e EXCEPT !.phase = "failed"].phase = "failed"
        BY <2>2, <4>4 DEF Attempt
      <4> QED BY <4>2, <4>3, <4>5
    <3>3. CASE SettleFails(e)
      BY <1>0, <3>3 DEF SettleFails, Fault
    <3> QED BY <2>2, <3>1, <3>2, <3>3
  <2> QED BY <1>1, <2>1, <2>2, WhoEnds
<1>2. CASE run[r].status \in Ended
  <2>1. run'[r].status = run[r].status
    BY <1>2, EndedStays
  <2>7. ~EndedByHand(r)
    <3>1. run'[r].attempt = run[r].attempt /\ run[r].moved \subseteq run'[r].moved
      BY <1>0, <1>2, EndedRows
    <3> QED BY <2>1, <3>1 DEF EndedByHand
  <2>2. ASSUME NEW e \in exec, e.run = r, Tell(e) PROVE FALSE
    <3>1. told'[r] = Append(told[r], e.phase)
      BY <1>0, <2>2 DEF Tell
    <3> QED BY <1>0, <3>1
  <2>3. ASSUME NEW w \in Workers, TellLost(w, r) PROVE FALSE
    <3>1. told'[r] = Append(told[r], "failed")
      BY <1>0, <2>3 DEF TellLost
    <3> QED BY <1>0, <3>1
  <2>4. told[r] = <<>>
    <3>1. told' = told \/ (\E e \in exec : Tell(e)) \/ (\E w \in Workers, q \in Runs : TellLost(w, q))
      BY DEF Next, Progress, vars, Create, Link, Transition, Tick, Recover, EndTick, ClaimFails,
             Claim, Launch, Started, Executed, SettleSuccess, SettleFailure, SettleFails,
             Heartbeat, BudgetSpent, Stop, Crash
    <3>2. ASSUME NEW e \in exec, Tell(e) PROVE told[r] = <<>>
      <4>1. e.run # r
        BY <2>2, <3>2
      <4> QED BY <1>0, <3>2, <4>1 DEF Tell
    <3>3. ASSUME NEW w \in Workers, NEW q \in Runs, TellLost(w, q) PROVE told[r] = <<>>
      <4>1. q # r
        BY <2>3, <3>3
      <4> QED BY <1>0, <3>3, <4>1 DEF TellLost
    <3> QED BY <3>1, <3>2, <3>3
  <2>5. ASSUME NEW e \in exec, e.run = r, e.phase = run[r].status
        PROVE  \/ \E f \in exec' : f.run = r /\ f.phase = run'[r].status
               \/ \E w \in Workers : mode'[w] = "dead"
               \/ faults' > 0
    <3>1. ~SettleSuccess(e) /\ ~SettleFailure(e)
      BY <1>2, <2>5 DEF SettleSuccess, SettleFailure, Ended
    <3>2. Crash(e.worker) => mode'[e.worker] = "dead"
      BY <1>0 DEF Crash, TypeOK, Attempt
    <3>3. e.worker \in Workers
      BY <1>0 DEF Attempt
    <3> QED BY <1>2, <2>1, <2>2, <2>5, <3>1, <3>2, <3>3, AttemptGoes DEF SameKey
  <2>6. ASSUME NEW w \in Workers, r \in lost[w]
        PROVE  r \in lost'[w] \/ mode'[w] = "dead"
    <3>1. lost' = lost \/ \E v \in Workers : \/ Recover(v) \/ (\E q \in Runs : TellLost(v, q))
                                             \/ Crash(v)
      BY MayCrashAssumption
      DEF Next, Progress, vars, Create, Link, Transition, Tick, EndTick, ClaimFails, Claim,
          Launch, Started, Executed, SettleSuccess, SettleFailure, Tell, SettleFails,
          Heartbeat, BudgetSpent, Stop
    <3>2. ASSUME NEW v \in Workers, Recover(v) PROVE r \in lost'[w]
      BY <1>0, <2>6, <3>2 DEF Recover, IdleOwesNone
    <3>3. ASSUME NEW v \in Workers, NEW q \in Runs, TellLost(v, q) PROVE r \in lost'[w]
      <4>1. v # w \/ q # r
        BY <2>3, <3>3
      <4> QED BY <1>0, <2>6, <3>3, <4>1 DEF TellLost
    <3>4. ASSUME NEW v \in Workers, Crash(v) PROVE r \in lost'[w] \/ mode'[w] = "dead"
      BY <1>0, <2>6, <3>4 DEF Crash, TypeOK
    <3> QED BY <2>6, <3>1, <3>2, <3>3, <3>4
  <2> QED BY <1>2, <2>4, <2>5, <2>6, <2>7, GoneForGood DEF TellerLeft, Ended
<1> QED BY <1>1, <1>2

\* While the source of a run that ended was not told, the attempt that ended it or the tick
\* that gave it up is about to tell: only the death of a process or a failed call to the
\* database leaves it waiting (executor.ts, the hooks onSucceeded and onFailed).  An end
\* that a member wrote is reported by nobody.
THEOREM SourcesHaveTeller == Spec => []TellerLeft
<1>1. Init => IdleOwesNone /\ TellerLeft
  BY DEF Init, IdleOwesNone, TellerLeft, Absent
<1>2. TypeOK /\ IdleOwesNone /\ TellerLeft /\ [Next]_vars => IdleOwesNone' /\ TellerLeft'
  BY IdleOwesNoneStep, TellerStep DEF Ended
<1> QED BY <1>1, <1>2, TypeCorrect, PTL DEF Spec

----------------------------------------------------------------------------
(* The executor and human approval on the same rows: ApprovedRuns          *)

\* The lemmas about the requests and the callers, for the calls of the attempts.
AP == INSTANCE ApprovalsProofs WITH
        Asks  <- {[run |-> r, action |-> "write"] : r \in Runs},
        Moves <- {}

LEMMA ApprovalsAssumed == /\ AP!CallsAssumption /\ AP!MovesAssumption
                          /\ AP!LifetimesAssumption
BY NoRunAssumption, WaitsAssumption
DEF AP!CallsAssumption, AP!MovesAssumption, AP!LifetimesAssumption

\* What callers, people and time do to the requests in the composition.
Served ==
  \/ \E c \in Calls : A!Begin(c) \/ A!Progress(c) \/ A!Abort(c)
  \/ \E i \in A!Ids : \/ \E answer \in {"approved", "declined"} : A!Decide(i, answer)
                      \/ A!Expire(i) \/ A!GiveBack(i)
  \/ A!Tick

\* Both instances see the same steps.
LEMMA SameCalls ==
  ASSUME NEW c \in Calls
  PROVE  /\ A!Begin(c) <=> AP!Begin(c)
         /\ A!Abort(c) <=> AP!Abort(c)
         /\ A!Consume(c) <=> AP!Consume(c)
         /\ A!Resume(c) <=> AP!Resume(c)
         /\ A!Act(c) <=> AP!Act(c)
         /\ A!Select(c) <=> AP!Select(c)
         /\ A!Insert(c) <=> AP!Insert(c)
         /\ A!Suspend(c) <=> AP!Suspend(c)
         /\ A!PollApproved(c) <=> AP!PollApproved(c)
         /\ A!PollRefused(c) <=> AP!PollRefused(c)
<1> USE DEF A!Ids, AP!Ids, A!Goto, AP!Goto, A!Ask, AP!Ask, A!Await, AP!Await,
            A!RunOf, AP!RunOf, A!Matches, AP!Matches
<1>1. A!Begin(c) <=> AP!Begin(c)
  BY DEF A!Begin, AP!Begin
<1>2. A!Abort(c) <=> AP!Abort(c)
  BY DEF A!Abort, AP!Abort
<1>3. A!Consume(c) <=> AP!Consume(c)
  BY DEF A!Consume, AP!Consume, A!Live, AP!Live, A!Usable, AP!Usable
<1>4. A!Resume(c) <=> AP!Resume(c)
  BY DEF A!Resume, AP!Resume, A!MoveRun, AP!MoveRun, A!Statuses, AP!Statuses,
         A!Transitions, AP!Transitions, A!Waiting, AP!Waiting
<1>5. A!Act(c) <=> AP!Act(c)
  BY DEF A!Act, AP!Act
<1>6. A!Select(c) <=> AP!Select(c)
  BY DEF A!Select, AP!Select, A!Live, AP!Live, A!Pending, AP!Pending
<1>7. A!Insert(c) <=> AP!Insert(c)
  BY DEF A!Insert, AP!Insert
<1>8. A!Suspend(c) <=> AP!Suspend(c)
  BY DEF A!Suspend, AP!Suspend, A!MoveRun, AP!MoveRun, A!Statuses, AP!Statuses,
         A!Transitions, AP!Transitions, A!Waiting, AP!Waiting
<1>9. A!PollApproved(c) <=> AP!PollApproved(c)
  BY DEF A!PollApproved, AP!PollApproved
<1>10. A!PollRefused(c) <=> AP!PollRefused(c)
  BY DEF A!PollRefused, AP!PollRefused
<1> QED BY <1>1, <1>2, <1>3, <1>4, <1>5, <1>6, <1>7, <1>8, <1>9, <1>10

LEMMA SameRequests ==
  /\ A!Ids = AP!Ids
  /\ \A i : /\ \A answer : A!Decide(i, answer) <=> AP!Decide(i, answer)
            /\ A!Expire(i) <=> AP!Expire(i)
            /\ A!GiveBack(i) <=> AP!GiveBack(i)
  /\ A!Tick <=> AP!Tick
<1>1. A!Ids = AP!Ids
  BY DEF A!Ids, AP!Ids
<1>2. \A i, answer : A!Decide(i, answer) <=> AP!Decide(i, answer)
  BY DEF A!Decide, AP!Decide
<1>3. \A i : A!Expire(i) <=> AP!Expire(i)
  BY DEF A!Expire, AP!Expire, A!Lapsed, AP!Lapsed
<1>4. \A i : A!GiveBack(i) <=> AP!GiveBack(i)
  BY DEF A!GiveBack, AP!GiveBack, A!MoveRun, AP!MoveRun, A!Statuses, AP!Statuses,
         A!Transitions, AP!Transitions, A!Waiting, AP!Waiting
<1>5. A!Tick <=> AP!Tick
  BY DEF A!Tick, AP!Tick, A!Timed, AP!Timed, A!Left, AP!Left, A!Ids, AP!Ids
<1> QED BY <1>1, <1>2, <1>3, <1>4, <1>5

LEMMA ServedIsStep == Served => AP!Living /\ AP!Next
BY SameCalls, SameRequests DEF Served, AP!Living, AP!Next, A!Progress, AP!Progress

\* The attempts in memory carry the numbers that claims give.
Numbered == \A e \in exec : e.no \in 1..MaxClaims

LEMMA NumberedStep == TypeOK /\ Numbered /\ [Next]_vars => Numbered'
<1> SUFFICES ASSUME TypeOK, Numbered, [Next]_vars PROVE Numbered'
  OBVIOUS
<1>1. CASE Carried
  BY <1>1 DEF Carried, SameKey, Numbered
<1>2. ASSUME NEW w \in Workers, NEW r \in Runs, Claim(w, r) PROVE Numbered'
  <2>1. NextAttempt(run[r]) \in 1..MaxClaims
    BY <1>2, BoundsAssumption DEF Claim, TakeOldest, NextAttempt, TypeOK, Row
  <2> QED BY <1>2, <2>1 DEF Claim, Numbered
<1> QED BY <1>1, <1>2, ExecSteps

\* A step of the composition is a step of the executor, a step of the requests
\* that may move the status of rows, or one tick of the clock for both.
ExecutorMoves == /\ Internal /\ UNCHANGED <<avars, late>>
                 /\ runStatus' = [r \in Runs |-> run'[r].status]

ServiceMoves == /\ Served
                /\ run' = [r \in Runs |-> IF runStatus'[r] = runStatus[r] THEN run[r]
                                          ELSE Moved(run[r], runStatus'[r])]
                /\ late' = LateNow
                /\ UNCHANGED <<exec, active, mode, tick, lost, told, faults>>

BothTick == Tick /\ A!Tick /\ UNCHANGED late

LEMMA StepsOfBoth ==
  ASSUME TypeOK, Numbered, [CNext]_allvars
  PROVE  ExecutorMoves \/ ServiceMoves \/ BothTick \/ UNCHANGED allvars
<1> SUFFICES ASSUME CNext PROVE ExecutorMoves \/ ServiceMoves \/ BothTick
  OBVIOUS
<1>1. ASSUME NEW r \in Runs, NEW asked \in AskedAttempts, Executor(Create(r, asked))
      PROVE  ExecutorMoves
  BY <1>1 DEF Executor, ExecutorMoves, Internal
<1>2. ASSUME NEW r \in Runs, NEW k \in Sources, Executor(Link(r, k))
      PROVE  ExecutorMoves
  BY <1>2 DEF Executor, ExecutorMoves, Internal
<1>3. ASSUME NEW w \in Workers, Executor(Recover(w)) \/ Executor(EndTick(w))
      PROVE  ExecutorMoves
  BY <1>3 DEF Executor, ExecutorMoves, Internal
<1>4. ASSUME NEW w \in Workers, NEW r \in Runs,
             Executor(TellLost(w, r)) \/ Executor(Claim(w, r))
      PROVE  ExecutorMoves
  BY <1>4 DEF Executor, ExecutorMoves, Internal
<1>5. ASSUME NEW e \in exec, Go(e) \/ Executor(Heartbeat(e)) PROVE ExecutorMoves
  BY <1>5 DEF Go, EndAttempt, Executor, ExecutorMoves, Internal, Progress
<1>6. ASSUME NEW e \in exec, CallTool(e) PROVE ServiceMoves
  <2>1. CallOf(e) \in Calls
    BY DEF TypeOK, Numbered, Attempt, CallOf, Calls
  <2> QED BY <1>6, <2>1 DEF CallTool, Approval, ServiceMoves, Served
<1>7. ASSUME NEW c \in Calls, Approval(A!Progress(c)) \/ AbortCall(c) PROVE ServiceMoves
  BY <1>7 DEF AbortCall, Approval, ServiceMoves, Served
<1>8. ASSUME NEW i \in A!Ids, NEW answer \in {"approved", "declined"},
             Approval(A!Decide(i, answer))
      PROVE  ServiceMoves
  BY <1>8 DEF Approval, ServiceMoves, Served
<1>9. ASSUME NEW i \in A!Ids, Approval(A!Expire(i)) \/ Approval(A!GiveBack(i))
      PROVE  ServiceMoves
  BY <1>9 DEF Approval, ServiceMoves, Served
<1>10. CASE Clock
  BY <1>10 DEF Clock, BothTick, Executor, ExecutorMoves, Internal, Approval, ServiceMoves, Served
<1> QED
  BY <1>1, <1>2, <1>3, <1>4, <1>5, <1>6, <1>7, <1>8, <1>9, <1>10 DEF CNext

\* The status of a row moves along the table.
StatusMove(r, s) == /\ runStatus[r] \in Statuses
                    /\ s \in Transitions[runStatus[r]]
                    /\ runStatus' = [runStatus EXCEPT ![r] = s]

\* What entitles the approval service to end the wait of a run.
Answered(r) == \E i \in A!Ids : /\ req[i].ask.run = r
                               /\ \/ req[i].consumed
                                  \/ req[i].status \in {"declined", "expired"}

LEMMA MoveRunEffect ==
  ASSUME NEW r, NEW s, A!MoveRun(r, s)
  PROVE  UNCHANGED runStatus \/ (r \in Runs /\ StatusMove(r, s))
BY DEF A!MoveRun, StatusMove, A!Statuses, Statuses, A!Transitions, Transitions,
       A!Waiting, Waiting

\* The approval service makes a run wait, or lets it go on for an answer.
LEMMA ServedMoves ==
  ASSUME Served, AP!Guarded, AP!OwedAnswered
  PROVE  \/ UNCHANGED runStatus
         \/ \E r \in Runs : \/ StatusMove(r, "waiting_for_approval")
                            \/ StatusMove(r, "running") /\ Answered(r)
<1>1. ASSUME NEW c \in Calls, A!Suspend(c)
      PROVE  UNCHANGED runStatus \/ \E r \in Runs : StatusMove(r, "waiting_for_approval")
  BY <1>1, MoveRunEffect DEF A!Suspend
<1>2. ASSUME NEW c \in Calls, A!Resume(c)
      PROVE  UNCHANGED runStatus \/ \E r \in Runs : StatusMove(r, "running") /\ Answered(r)
  <2>1. UNCHANGED runStatus \/ (A!RunOf(c) \in Runs /\ StatusMove(A!RunOf(c), "running"))
    BY <1>2, MoveRunEffect DEF A!Resume
  <2>2. /\ call[c].id \in A!Ids /\ req[call[c].id].consumed
        /\ req[call[c].id].ask.run = A!RunOf(c)
    BY <1>2 DEF AP!Guarded, AP!PermittedWasApproved, AP!Permitted, AP!Matches, AP!Ids,
                A!Ids, A!Resume, A!RunOf
  <2> QED BY <2>1, <2>2 DEF Answered
<1>3. ASSUME NEW i \in A!Ids, A!GiveBack(i)
      PROVE  UNCHANGED runStatus \/ \E r \in Runs : StatusMove(r, "running") /\ Answered(r)
  <2>1. req[i].status \in {"declined", "expired"}
    BY <1>3 DEF A!GiveBack, AP!OwedAnswered
  <2>2. \/ UNCHANGED runStatus
        \/ req[i].ask.run \in Runs /\ StatusMove(req[i].ask.run, "running")
    BY <1>3, MoveRunEffect DEF A!GiveBack
  <2> QED BY <2>1, <2>2 DEF Answered
<1>4. ASSUME NEW c \in Calls,
             \/ A!Begin(c) \/ A!Abort(c) \/ A!Consume(c) \/ A!Act(c) \/ A!Select(c)
             \/ A!Insert(c) \/ A!PollApproved(c) \/ A!PollRefused(c)
      PROVE  UNCHANGED runStatus
  BY <1>4 DEF A!Begin, A!Abort, A!Consume, A!Act, A!Select, A!Insert, A!PollApproved,
              A!PollRefused
<1>5. ASSUME NEW i, NEW answer, A!Decide(i, answer) \/ A!Expire(i) \/ A!Tick
      PROVE  UNCHANGED runStatus
  BY <1>5 DEF A!Decide, A!Expire, A!Tick
<1> QED
  BY <1>1, <1>2, <1>3, <1>4, <1>5 DEF Served, A!Progress

\* The column status, as the approval service writes it, is that of the rows.
Mirrored == runStatus = [r \in Runs |-> run[r].status]

\* A move of the service is a transition of the store, or leaves the rows.
LEMMA ServiceIsTransition ==
  ASSUME TypeOK, Mirrored, ServiceMoves, AP!Guarded, AP!OwedAnswered
  PROVE  /\ Mirrored'
         /\ \/ UNCHANGED vars
            \/ \E r \in Runs, s \in {"running", "waiting_for_approval"} : Transition(r, s)
<1>1. CASE UNCHANGED runStatus
  <2>1. run' = run
    BY <1>1 DEF ServiceMoves, TypeOK
  <2> QED BY <1>1, <2>1 DEF ServiceMoves, Mirrored, vars
<1>2. ASSUME NEW r \in Runs, NEW s \in {"running", "waiting_for_approval"}, StatusMove(r, s)
      PROVE  Mirrored' /\ Transition(r, s)
  <2>1. /\ run[r] \in Row /\ runStatus[r] = run[r].status
        /\ runStatus'[r] = s /\ \A q \in Runs : q # r => runStatus'[q] = runStatus[q]
    BY <1>2 DEF StatusMove, Mirrored, TypeOK
  <2>2. s # run[r].status
    BY <1>2, <2>1 DEF StatusMove, Transitions, Statuses, Waiting
  <2>3. run' = [run EXCEPT ![r] = Moved(run[r], s)]
    BY <2>1, <2>2 DEF ServiceMoves, TypeOK
  <2>4. Moved(run[r], s).status = s
    BY <2>1 DEF Moved, Row
  <2>5. Mirrored'
    <3>1. \A q \in Runs : run'[q].status = runStatus'[q]
      BY <2>1, <2>3, <2>4 DEF Mirrored, TypeOK
    <3>2. runStatus' = [q \in Runs |-> runStatus'[q]]
      BY <1>2 DEF StatusMove, Mirrored
    <3> QED BY <3>1, <3>2 DEF Mirrored
  <2>6. Transition(r, s)
    BY <1>2, <2>1, <2>3 DEF StatusMove, Transition, ServiceMoves
  <2> QED BY <2>5, <2>6
<1> QED BY <1>1, <1>2, ServedMoves DEF ServiceMoves

\* What every step of the composition keeps.
Joined == /\ TypeOK /\ Numbered /\ Mirrored
          /\ AP!Guarded /\ AP!OwedAnswered /\ AP!Sound

LEMMA JoinedInit == CInit => Joined
<1> SUFFICES ASSUME CInit PROVE Joined
  OBVIOUS
<1>1. TypeOK /\ Numbered /\ Mirrored
  BY DEF CInit, Init, TypeOK, Row, Numbered, Mirrored
<1>2. AP!Shaped
  BY DEF CInit, AP!Shaped, AP!CallRecord, AP!Steps, Calls
<1>3. AP!Guarded /\ AP!OwedAnswered
  BY <1>2 DEF CInit, AP!Guarded, AP!Aimed, AP!PermittedWasApproved, AP!OneUse,
              AP!Permitted, AP!OwedAnswered
<1>4. AP!Ids = {} /\ \A c \in Calls : call[c].step = "idle"
  BY DEF CInit, AP!Ids
<1>5. AP!Sound
  BY <1>3, <1>4 DEF AP!Sound, AP!SpentApproved, AP!SuspendsOwn
<1> QED BY <1>1, <1>3, <1>5 DEF Joined

\* The requests and the callers keep what Approvals proves of them.
LEMMA RequestsGuarded ==
  ASSUME AP!Guarded, AP!OwedAnswered, AP!Sound, Served \/ UNCHANGED avars
  PROVE  AP!Guarded' /\ AP!OwedAnswered' /\ AP!Sound'
<1>1. CASE Served
  <2>1. AP!Guarded'
    BY <1>1, ServedIsStep, ApprovalsAssumed, AP!GuardedNext DEF AP!GuardedNext
  <2>2. AP!Shaped
    BY DEF AP!Guarded
  <2>3. AP!OwedAnswered'
    BY <1>1, <2>2, ServedIsStep, ApprovalsAssumed, AP!OwedNext DEF AP!OwedNext
  <2>4. AP!Sound'
    BY <1>1, ServedIsStep, ApprovalsAssumed, AP!SoundNext DEF AP!SoundNext
  <2> QED BY <2>1, <2>3, <2>4
<1>2. CASE UNCHANGED avars
  <2>1. AP!Guarded' /\ AP!OwedAnswered'
    BY <1>2 DEF avars, AP!Guarded, AP!Shaped, AP!Aimed, AP!PermittedWasApproved, AP!OneUse,
                AP!Permitted, AP!Matches, AP!Ids, AP!OwedAnswered
  <2>2. AP!Sound'
    BY <1>2, <2>1 DEF avars, AP!Sound, AP!SpentApproved, AP!SuspendsOwn, AP!Matches, AP!Ids
  <2> QED BY <2>1, <2>2
<1> QED BY <1>1, <1>2

\* Every step of the composition is a step of the store and its executors, in
\* which the approval service is one of those that write statuses from outside.
LEMMA CompositionStep ==
  ASSUME Joined, [CNext]_allvars
  PROVE  /\ Joined'
         /\ \/ Internal \/ UNCHANGED vars
            \/ \E r \in Runs, s \in {"running", "waiting_for_approval"} : Transition(r, s)
<1>0. TypeOK /\ Numbered /\ Mirrored /\ AP!Guarded /\ AP!OwedAnswered /\ AP!Sound
  BY DEF Joined
<1>1. CASE ExecutorMoves
  <2>1. [Next]_vars
    BY <1>1, StepKinds DEF ExecutorMoves
  <2>2. TypeOK' /\ Numbered'
    BY <1>0, <2>1, TypeStep, NumberedStep
  <2>3. Mirrored' /\ AP!Guarded' /\ AP!OwedAnswered' /\ AP!Sound'
    BY <1>0, <1>1, RequestsGuarded DEF ExecutorMoves, Mirrored
  <2> QED BY <1>1, <2>2, <2>3 DEF Joined, ExecutorMoves
<1>2. CASE ServiceMoves
  <2>1. /\ Mirrored'
        /\ \/ UNCHANGED vars
           \/ \E r \in Runs, s \in {"running", "waiting_for_approval"} : Transition(r, s)
    BY <1>0, <1>2, ServiceIsTransition
  <2>2. TypeOK'
    <3>1. ASSUME UNCHANGED vars PROVE TypeOK'
      BY <1>0, <3>1 DEF vars, TypeOK
    <3>2. "running" \in Statuses /\ "waiting_for_approval" \in Statuses
      BY DEF Statuses
    <3> QED BY <1>0, <2>1, <3>1, <3>2, TransitionType
  <2>3. Numbered'
    BY <1>0, <1>2 DEF ServiceMoves, Numbered
  <2>4. AP!Guarded' /\ AP!OwedAnswered' /\ AP!Sound'
    BY <1>0, <1>2, RequestsGuarded DEF ServiceMoves
  <2> QED BY <2>1, <2>2, <2>3, <2>4 DEF Joined
<1>3. CASE BothTick
  <2>1. Internal
    BY <1>3 DEF BothTick, Internal
  <2>2. TypeOK' /\ Numbered'
    BY <1>0, <2>1, StepKinds, TypeStep, NumberedStep
  <2>3. Mirrored'
    <3>1. \A r \in Runs : run'[r].status = run[r].status
      BY <1>0, <1>3 DEF BothTick, Tick, TypeOK, Row
    <3>2. UNCHANGED runStatus
      BY <1>3 DEF BothTick, A!Tick
    <3> QED BY <1>0, <3>1, <3>2 DEF Mirrored
  <2>4. AP!Guarded' /\ AP!OwedAnswered' /\ AP!Sound'
    BY <1>0, <1>3, RequestsGuarded DEF BothTick, Served
  <2> QED BY <2>1, <2>2, <2>3, <2>4 DEF Joined
<1>4. CASE UNCHANGED allvars
  <2>1. UNCHANGED vars /\ UNCHANGED avars /\ UNCHANGED runStatus
    BY <1>4 DEF allvars
  <2>2. TypeOK' /\ Numbered'
    BY <1>0, <2>1, TypeStep, NumberedStep
  <2>3. Mirrored' /\ AP!Guarded' /\ AP!OwedAnswered' /\ AP!Sound'
    BY <1>0, <2>1, RequestsGuarded DEF Mirrored, vars
  <2> QED BY <2>1, <2>2, <2>3 DEF Joined
<1> QED BY <1>0, <1>1, <1>2, <1>3, <1>4, StepsOfBoth

LEMMA AlwaysJoined == CSpec => []Joined
<1>1. Joined /\ [CNext]_allvars => Joined'
  BY CompositionStep
<1> QED BY <1>1, JoinedInit, PTL DEF CSpec

\* Whatever attempts overlap on a run, a call is let through only on its own
\* approved and spent request, and one approval lets one call through
\* (approvals/store.ts, authorize, called from inside the executor's process).
THEOREM ApprovedActsOnly == CSpec => []ActsOnApproval
<1>1. Joined => ActsOnApproval
  BY DEF Joined, AP!Guarded, ActsOnApproval, AP!PermittedWasApproved,
         A!PermittedWasApproved, AP!OneUse, A!OneUse, AP!Permitted, A!Permitted,
         AP!Matches, A!Matches, AP!Ids, A!Ids
<1> QED BY <1>1, AlwaysJoined, PTL

\* An executor has no business with a run that waits for approval: it is neither
\* claimed, nor recovered, nor settled (executor.ts and runs/store.ts, whose
\* statements ask for "queued" or "running").
LEMMA WaitingUntouched ==
  ASSUME TypeOK, Internal, NEW r \in Runs, run[r].status = "waiting_for_approval"
  PROVE  run'[r].status = "waiting_for_approval"
<1>1. run[r] \in Row /\ OwnRowStep(r)
  BY OwnRowSteps DEF TypeOK
<1> QED
  BY <1>1 DEF OwnRowStep, Inserted, Linked, Aged, SettledNow, ClaimedNow, Renewed, Row, Absent

\* Only an answer ends the wait of a run: approvals/store.ts moves it back to
\* running for a spent approval, a decline or an expiry, and no executor touches it.
THEOREM WaitsForAnswer == CSpec => OnlyAnswersResume
<1> DEFINE Kept(r) ==
      runStatus[r] = "waiting_for_approval" /\ runStatus'[r] # runStatus[r]
        => runStatus'[r] = "running" /\ Answered(r)
<1>1. ASSUME Joined, [CNext]_allvars, NEW r \in Runs PROVE Kept(r)
  <2>1. TypeOK /\ Numbered /\ Mirrored /\ AP!Guarded /\ AP!OwedAnswered
    BY <1>1 DEF Joined
  <2>2. CASE ExecutorMoves
    BY <2>1, <2>2, WaitingUntouched DEF ExecutorMoves, Mirrored
  <2>3. CASE ServiceMoves
    BY <2>1, <2>3, ServedMoves DEF ServiceMoves, StatusMove, Mirrored
  <2>4. CASE BothTick
    BY <2>4 DEF BothTick, A!Tick
  <2>5. CASE UNCHANGED allvars
    BY <2>5 DEF allvars
  <2> QED BY <1>1, <2>1, <2>2, <2>3, <2>4, <2>5, StepsOfBoth
<1>2. Joined /\ [CNext]_allvars =>
        [\A r \in Runs :
           runStatus[r] = "waiting_for_approval" /\ runStatus'[r] # runStatus[r]
             => /\ runStatus'[r] = "running"
                /\ \E i \in A!Ids : /\ req[i].ask.run = r
                                   /\ \/ req[i].consumed
                                      \/ req[i].status \in {"declined", "expired"}]_allvars
  BY <1>1 DEF Answered
<1> QED BY <1>2, AlwaysJoined, PTL DEF CSpec, OnlyAnswersResume

\* Beside the executor, the approval service is one more writer of statuses: the
\* composition behaves as TaskRuns does where those two statuses are written from
\* outside, so what is proved of TaskRuns holds of it (runs/store.ts,
\* transitionSystem, which both reach the row through).
THEOREM CompositionKeepsStore ==
  {"running", "waiting_for_approval"} \subseteq Patches => (CSpec => Spec)
<1> SUFFICES ASSUME {"running", "waiting_for_approval"} \subseteq Patches
             PROVE  CSpec => Spec
  OBVIOUS
<1>1. CInit => Init
  BY DEF CInit
<1>2. Joined /\ [CNext]_allvars => [Next]_vars
  BY CompositionStep, StepKinds
<1> QED BY <1>1, <1>2, AlwaysJoined, PTL DEF CSpec, Spec

\* The refinement of the store holds in the composition, where the approval service is the
\* second writer of statuses and members write none: with approvals in between, runs live
\* the life RunLifecycle describes.
THEOREM CompositionFollowsLifecycle == CSpec => FollowsLifecycle
<1>1. CInit => Life!Init
  BY SameTable DEF CInit, Init, Life!Init
<1>2. Joined /\ [CNext]_allvars => [Life!Next]_(Life!vars)
  <2> SUFFICES ASSUME Joined, [CNext]_allvars PROVE Life!Next \/ UNCHANGED Life!vars
    OBVIOUS
  <2>0. TypeOK
    BY DEF Joined
  <2>1. CASE Internal \/ UNCHANGED vars
    BY <2>0, <2>1, LifeStep, StepKinds
  <2>2. ASSUME NEW r \in Runs, NEW s \in {"running", "waiting_for_approval"}, Transition(r, s)
        PROVE  Life!Next \/ UNCHANGED Life!vars
    BY <2>0, <2>2, LifeTransition DEF Statuses
  <2> QED BY <2>1, <2>2, CompositionStep
<1> QED BY <1>1, <1>2, AlwaysJoined, PTL DEF CSpec, FollowsLifecycle, Life!Spec

----------------------------------------------------------------------------
(* What a run that waits for approval waits for *)

\* A request of the run that ends its wait.
Awaited(r) == \E i \in AP!Ids : req[i].ask.run = r /\ AP!EndsWait(i)

\* The invariant, over the requests as ApprovalsProofs sees them.
StillAwaited ==
  \A r \in Runs : runStatus[r] = "waiting_for_approval" => r \in late \/ Awaited(r)

\* What moves a run on, moves it out of its wait.
LEMMA MovedOn ==
  ASSUME Mirrored, NEW r \in Runs, runStatus[r] = "waiting_for_approval",
         A!MoveRun(r, "running")
  PROVE  runStatus'[r] = "running"
<1>1. "running" \in A!Transitions["waiting_for_approval"]
      /\ "waiting_for_approval" \in A!Statuses
  BY DEF A!Transitions, A!Statuses, A!Waiting
<1>2. DOMAIN runStatus = Runs
  BY DEF Mirrored
<1> QED BY <1>1, <1>2 DEF A!MoveRun

\* A run that waits on has something that ends its wait, as long as it had.
LEMMA WaitedOn ==
  ASSUME Mirrored, AP!Sound, Served, NEW r \in Runs, Awaited(r),
         runStatus[r] = "waiting_for_approval", runStatus'[r] = "waiting_for_approval"
  PROVE  Awaited(r)'
<1>1. PICK i \in AP!Ids : req[i].ask.run = r /\ AP!EndsWait(i)
  BY DEF Awaited
<1>2. AP!Living /\ AP!Next /\ AP!Guarded /\ AP!Shaped
  BY ServedIsStep DEF AP!Sound, AP!Guarded
<1>3. i \in AP!Ids' /\ req'[i].ask = req[i].ask
  <2>1. AP!RequestStep
    BY <1>2, ApprovalsAssumed, AP!RequestsKept DEF AP!RequestsKept
  <2> QED BY <1>1, <2>1 DEF AP!RequestStep
<1>4. \/ AP!EndsWait(i)'
      \/ AP!GiveBack(i)
      \/ \E c \in Calls : AP!Resume(c) /\ call[c].id = i
  BY <1>1, <1>2, ApprovalsAssumed, AP!EndsWaitNext DEF AP!EndsWaitNext
<1>5. ~AP!GiveBack(i)
  <2> SUFFICES ASSUME AP!GiveBack(i) PROVE FALSE
    OBVIOUS
  <2>1. A!MoveRun(r, "running")
    BY <1>1, SameRequests DEF A!GiveBack
  <2> QED BY <2>1, MovedOn
<1>6. ASSUME NEW c \in Calls, AP!Resume(c), call[c].id = i PROVE FALSE
  <2>1. A!Resume(c)
    BY <1>6, SameCalls
  <2>2. A!RunOf(c) = r
    BY <1>1, <1>2, <1>6, <2>1 DEF AP!Guarded, AP!PermittedWasApproved, AP!Permitted,
                                AP!Matches, A!Resume, A!RunOf
  <2>3. A!MoveRun(r, "running")
    BY <2>1, <2>2 DEF A!Resume
  <2> QED BY <2>3, MovedOn
<1> QED BY <1>1, <1>3, <1>4, <1>5, <1>6 DEF Awaited

\* Only a call that suspends it makes a run wait.
LEMMA SuspendedBy ==
  ASSUME Served, Mirrored, NEW r \in Runs, runStatus[r] # "waiting_for_approval",
         runStatus'[r] = "waiting_for_approval"
  PROVE  \E c \in Calls : A!Suspend(c) /\ call[c].ask.run = r
<1>0. ASSUME NEW q, NEW s, A!MoveRun(q, s) PROVE q = r /\ s = "waiting_for_approval"
  <2>1. q \in Runs /\ StatusMove(q, s)
    BY <1>0, MoveRunEffect
  <2>2. runStatus' = [runStatus EXCEPT ![q] = s] /\ DOMAIN runStatus = Runs
    BY <2>1 DEF StatusMove, Mirrored
  <2> QED BY <2>2
<1>1. ASSUME NEW q, A!MoveRun(q, "running") PROVE FALSE
  BY <1>0, <1>1
<1>2. ASSUME NEW c \in Calls, A!Suspend(c) PROVE call[c].ask.run = r
  BY <1>0, <1>2 DEF A!Suspend, A!RunOf
<1>3. ASSUME NEW c \in Calls,
             \/ A!Begin(c) \/ A!Abort(c) \/ A!Consume(c) \/ A!Act(c) \/ A!Select(c)
             \/ A!Insert(c) \/ A!PollApproved(c) \/ A!PollRefused(c)
      PROVE  FALSE
  BY <1>3 DEF A!Begin, A!Abort, A!Consume, A!Act, A!Select, A!Insert, A!PollApproved,
              A!PollRefused
<1>4. ASSUME NEW c \in Calls, A!Resume(c) PROVE FALSE
  BY <1>1, <1>4 DEF A!Resume
<1>5. ASSUME NEW i, NEW answer, A!Decide(i, answer) \/ A!Expire(i) \/ A!Tick PROVE FALSE
  BY <1>5 DEF A!Decide, A!Expire, A!Tick
<1>6. ASSUME NEW i, A!GiveBack(i) PROVE FALSE
  BY <1>1, <1>6 DEF A!GiveBack
<1> QED
  BY <1>2, <1>3, <1>4, <1>5, <1>6 DEF Served, A!Progress

\* A run whose call suspends it waits for the request the call inserted, or the
\* request has been answered already and the run is one of the exceptions.
LEMMA WaitsFromNow ==
  ASSUME Mirrored, AP!Sound, ServiceMoves, NEW r \in Runs,
         runStatus[r] # "waiting_for_approval", runStatus'[r] = "waiting_for_approval"
  PROVE  r \in late' \/ Awaited(r)'
<1>1. PICK c \in Calls : A!Suspend(c) /\ call[c].ask.run = r
  BY SuspendedBy DEF ServiceMoves
<1>2. /\ call[c].step = "suspend" /\ UNCHANGED req
      /\ AP!Await(c, call[c].id)
  BY <1>1, SameCalls DEF A!Suspend, AP!Suspend
<1>3. call'[c].step # "suspend"
  <2>1. AP!Shaped
    BY DEF AP!Sound, AP!Guarded
  <2> QED BY <1>2, <2>1, ApprovalsAssumed, AP!AwaitEffect DEF AP!AwaitEffect
<1>4. call[c].id \in AP!Ids /\ req[call[c].id].ask.run = r
  BY <1>1, <1>2 DEF AP!Sound, AP!Guarded, AP!Aimed, AP!SuspendsOwn, AP!Matches
<1>5. CASE req[call[c].id].status = "pending"
  BY <1>2, <1>4, <1>5 DEF Awaited, AP!EndsWait, AP!Ids
<1>6. CASE req[call[c].id].status # "pending"
  BY <1>1, <1>2, <1>3, <1>6 DEF ServiceMoves, LateNow, TooLate
<1> QED BY <1>5, <1>6

\* An executor makes no run wait for approval.
LEMMA NobodyElseWaits ==
  ASSUME TypeOK, Internal, NEW r \in Runs, run'[r].status = "waiting_for_approval"
  PROVE  run[r].status = "waiting_for_approval"
<1>1. run[r] \in Row /\ OwnRowStep(r)
  BY OwnRowSteps DEF TypeOK
<1>2. CASE run'[r] = run[r] \/ Linked(r) \/ Aged(r) \/ Renewed(r)
  BY <1>1, <1>2 DEF Linked, Aged, Renewed, Row
<1>3. ~Inserted(r)
  BY <1>1 DEF Inserted, Row
<1>4. ~SettledNow(r)
  BY <1>1 DEF SettledNow, Settled, Row
<1>5. ~ClaimedNow(r)
  BY <1>1 DEF ClaimedNow, Claimed, Row
<1> QED BY <1>1, <1>2, <1>3, <1>4, <1>5 DEF OwnRowStep

LEMMA AwaitedKept ==
  ASSUME UNCHANGED avars, NEW r, Awaited(r)
  PROVE  Awaited(r)'
BY DEF avars, Awaited, AP!EndsWait, AP!Ids

LEMMA AwaitedStep == Joined /\ StillAwaited /\ [CNext]_allvars => StillAwaited'
<1> SUFFICES ASSUME Joined, StillAwaited, [CNext]_allvars, NEW r \in Runs,
                    runStatus'[r] = "waiting_for_approval"
             PROVE  r \in late' \/ Awaited(r)'
  BY DEF StillAwaited
<1>0. TypeOK /\ Numbered /\ Mirrored /\ AP!Sound
  BY DEF Joined
<1>1. CASE ExecutorMoves
  <2>1. runStatus[r] = "waiting_for_approval"
    BY <1>0, <1>1, NobodyElseWaits DEF ExecutorMoves, Mirrored
  <2> QED BY <1>1, <2>1, AwaitedKept DEF ExecutorMoves, StillAwaited
<1>2. CASE ServiceMoves
  <2>1. CASE runStatus[r] # "waiting_for_approval"
    BY <1>0, <1>2, <2>1, WaitsFromNow
  <2>2. CASE runStatus[r] = "waiting_for_approval" /\ r \in late
    BY <1>2, <2>2 DEF ServiceMoves, LateNow
  <2>3. CASE runStatus[r] = "waiting_for_approval" /\ Awaited(r)
    BY <1>0, <1>2, <2>3, WaitedOn DEF ServiceMoves
  <2> QED BY <2>1, <2>2, <2>3 DEF StillAwaited
<1>3. CASE BothTick
  <2>1. Served /\ UNCHANGED <<runStatus, late>>
    BY <1>3 DEF BothTick, Served, A!Tick
  <2>2. ASSUME Awaited(r) PROVE Awaited(r)'
    BY <1>0, <2>1, <2>2, WaitedOn
  <2> QED BY <2>1, <2>2 DEF StillAwaited
<1>4. CASE UNCHANGED allvars
  BY <1>4, AwaitedKept DEF allvars, StillAwaited
<1> QED BY <1>0, <1>1, <1>2, <1>3, <1>4, StepsOfBoth

\* A run that waits for approval waits for a request that will end its wait: no
\* answer, expiry, retry or tick of the clock takes the last one away without
\* moving the run (approvals/store.ts, authorize, decide and expireIfNeeded).  The
\* runs that wait for nothing are those a call suspended after its request had
\* been answered.
THEOREM WaitersHaveRequests == CSpec => []WaitsForARequest
<1>1. CInit => StillAwaited
  BY DEF CInit, StillAwaited, Absent
<1>2. Joined /\ StillAwaited /\ [CNext]_allvars => StillAwaited'
  BY AwaitedStep
<1>3. StillAwaited => WaitsForARequest
  BY DEF StillAwaited, WaitsForARequest, Awaited, AP!EndsWait, AP!Ids, A!Ids
<1> QED BY <1>1, <1>2, <1>3, AlwaysJoined, PTL DEF CSpec

=============================================================================
