-------------------------- MODULE ApprovalsProofs --------------------------
(***************************************************************************)
(* Theorems of Approvals, for any runs, calls, asks, lifetimes and number  *)
(* of requests. What is said of requests and callers rests on their own    *)
(* shape (Shaped) and not on who moves the runs, so that it holds beside   *)
(* the executor as well.                                                   *)
(*                                                                         *)
(* The last section is about the requests that end the wait of a run       *)
(* (EndsWait): none ceases to before the run is moved on.                  *)
(***************************************************************************)
EXTENDS Approvals, TLAPS, SequenceTheorems

CallRecord == [ask : Asks, step : Steps, id : Nat, retried : BOOLEAN, left : Nat, stale : BOOLEAN]

\* The part of TypeOK that is about the variables of the approval service alone.
\* It holds whatever else happens to the statuses of the runs, also where they
\* are the rows of the executor.
Shaped ==
  /\ req \in Seq(Request)
  /\ call \in [Calls -> CallRecord]
  /\ owed \subseteq Nat

LEMMA UpdateType ==
  ASSUME NEW S, NEW s \in Seq(S), NEW i, NEW x \in S
  PROVE  [s EXCEPT ![i] = x] \in Seq(S)
<1> DEFINE t == [s EXCEPT ![i] = x]
<1>1. Len(s) \in Nat /\ DOMAIN s = 1..Len(s) /\ \A j \in 1..Len(s) : s[j] \in S
  OBVIOUS
<1>2. DOMAIN t = DOMAIN s /\ \A j \in DOMAIN s : t[j] \in S
  BY <1>1
<1>3. t = [j \in 1..Len(s) |-> t[j]]
  BY <1>1, <1>2
<1> HIDE DEF t
<1>4. t \in Seq(S)
  BY <1>1, <1>2, <1>3
<1> QED BY <1>4 DEF t

LEMMA UpdateOutside ==
  ASSUME NEW S, NEW s \in Seq(S), NEW i, i \notin 1..Len(s), NEW x
  PROVE  [s EXCEPT ![i] = x] = s
<1>1. s = [j \in 1..Len(s) |-> s[j]]
  OBVIOUS
<1>2. DOMAIN s = 1..Len(s)
  OBVIOUS
<1> QED BY ZenonT(20), <1>1, <1>2

LEMMA ConsumedType ==
  ASSUME NEW x \in Request
  PROVE  [x EXCEPT !.consumed = TRUE] \in Request
BY DEF Request

LEMMA AnsweredType ==
  ASSUME NEW x \in Request, NEW st \in {"approved", "declined", "expired"}
  PROVE  [x EXCEPT !.status = st] \in Request
BY DEF Request

LEMMA OlderType ==
  ASSUME NEW x \in Request
  PROVE  [x EXCEPT !.left = Left(@)] \in Request
<1>1. Left(x.left) \in Nat
  BY DEF Request, Left
<1> QED BY <1>1 DEF Request

LEMMA IdsAreIndices == Shaped => \A i \in Ids : req[i] \in Request
BY DEF Shaped, Ids

LEMMA ShapedInit == Init => Shaped
BY CallsAssumption DEF Init, Shaped, CallRecord, Steps

\* The new status of a run is one of the table's.
LEMMA MoveRunType ==
  ASSUME runStatus \in [Runs -> Statuses], NEW r, NEW s \in Statuses, MoveRun(r, s)
  PROVE  runStatus' \in [Runs -> Statuses]
BY DEF MoveRun

LEMMA AwaitType ==
  ASSUME Shaped, NEW c \in Calls, NEW i \in Nat, Await(c, i)
  PROVE  call' \in [Calls -> CallRecord]
<1> DEFINE step == IF call[c].retried \/ RunOf(c) = NoRun THEN "refused" ELSE "waiting"
           new  == [call[c] EXCEPT !.id = i, !.left = WaitTicks, !.step = step]
<1>1. step \in Steps
  BY DEF Steps
<1>2. call[c] \in CallRecord /\ call \in [Calls -> CallRecord]
  BY DEF Shaped, CallRecord
<1>3. new \in CallRecord
  BY <1>1, <1>2, LifetimesAssumption DEF CallRecord
<1>4. call' = [call EXCEPT ![c] = new]
  BY DEF Await
<1> QED
  BY <1>2, <1>3, <1>4

LEMMA GotoType ==
  ASSUME Shaped, NEW c \in Calls, NEW s \in Steps, Goto(c, s)
  PROVE  call' \in [Calls -> CallRecord]
BY DEF Shaped, Goto, CallRecord

LEMMA AskType ==
  ASSUME Shaped, NEW c \in Calls, NEW s \in Steps, NEW i \in Nat,
         NEW b \in BOOLEAN, Ask(c, s, i, b)
  PROVE  call' \in [Calls -> CallRecord]
BY DEF Shaped, Ask, CallRecord


\* What a step leaves of the tables and of the locals.
LEMMA ShapedNext == Shaped /\ [Next]_vars => Shaped'
<1> SUFFICES ASSUME Shaped, [Next]_vars PROVE Shaped'
  OBVIOUS
<1>1. ASSUME NEW c \in Calls, Begin(c) PROVE Shaped'
  <2>1. \A i \in Ids : i \in Nat
    BY DEF Shaped, Ids
  <2>2. call' \in [Calls -> CallRecord]
    BY <1>1, <2>1, AskType DEF Begin, Steps
  <2> QED BY <1>1, <2>2 DEF Begin, Shaped, CallRecord
<1>2. ASSUME NEW c \in Calls, Progress(c) PROVE Shaped'
  <2>0. call[c].id \in Nat
    BY DEF Shaped, CallRecord
  <2>1. CASE Consume(c)
    <3>1. call' \in [Calls -> CallRecord]
      BY <2>1, GotoType DEF Consume, Steps
    <3>2. req' \in Seq(Request)
      <4>1. CASE UNCHANGED req
        BY <4>1 DEF Shaped
      <4>2. CASE req' = [req EXCEPT ![call[c].id] = [@ EXCEPT !.consumed = TRUE]]
        <5>1. CASE call[c].id \in Ids
          <6>1. req[call[c].id] \in Request
            BY <5>1, IdsAreIndices
          <6>2. [req[call[c].id] EXCEPT !.consumed = TRUE] \in Request
            BY <6>1, ConsumedType
          <6> QED BY <4>2, <6>2, UpdateType DEF Shaped
        <5>2. CASE call[c].id \notin Ids
          <6>1. req \in Seq(Request) /\ call[c].id \notin 1..Len(req)
            BY <5>2 DEF Shaped, Ids
          <6>2. [req EXCEPT ![call[c].id] = [req[call[c].id] EXCEPT !.consumed = TRUE]] = req
            BY <6>1, UpdateOutside
          <6> QED BY <4>2, <6>1, <6>2
        <5> QED BY <5>1, <5>2
      <4> QED BY <2>1, <4>1, <4>2 DEF Consume
    <3> QED BY <2>1, <3>1, <3>2 DEF Consume, Shaped, CallRecord
  <2>2. CASE Resume(c)
    <3>1. call' \in [Calls -> CallRecord]
      BY <2>2, GotoType DEF Resume, Steps
    <3> QED BY <2>2, <3>1 DEF Resume, Shaped, CallRecord
  <2>3. CASE Act(c)
    <3>1. call' \in [Calls -> CallRecord]
      BY <2>3, GotoType DEF Act, Steps
    <3> QED BY <2>3, <3>1 DEF Act, Shaped, CallRecord
  <2>4. CASE Select(c)
    <3>1. \A live \in Live(Pending(c), c) : live \subseteq Nat
      BY DEF Live, Pending, Ids, Shaped
    <3>2. call' \in [Calls -> CallRecord]
      BY <2>4, <3>1, AwaitType, GotoType DEF Select, Steps
    <3> QED BY <2>4, <3>2 DEF Select, Shaped, CallRecord
  <2>5. CASE Insert(c)
    <3>0. \A left \in IF call[c].stale THEN 0..LifeTicks ELSE {LifeTicks} :
            left \in Nat
      BY LifetimesAssumption
    <3>1. PICK left \in Nat :
            req' = Append(req, [ask |-> call[c].ask, status |-> "pending",
                                consumed |-> FALSE, left |-> left])
      BY <2>5, <3>0 DEF Insert
    <3>2. [ask |-> call[c].ask, status |-> "pending", consumed |-> FALSE,
           left |-> left] \in Request
      BY DEF Request, Shaped, CallRecord
    <3>3. req' \in Seq(Request)
      BY <3>1, <3>2 DEF Shaped
    <3>4. call' \in [Calls -> CallRecord]
      <4>1. Len(req) + 1 \in Nat
        BY DEF Shaped
      <4>2. CASE Await(c, Len(req) + 1)
        BY <4>1, <4>2, AwaitType
      <4>3. CASE call' = [call EXCEPT ![c] = [@ EXCEPT !.step = "suspend",
                                                       !.id = Len(req) + 1]]
        BY <4>1, <4>3 DEF Shaped, CallRecord, Steps
      <4> QED BY <2>5, <4>2, <4>3 DEF Insert
    <3> QED BY <2>5, <3>3, <3>4 DEF Insert, Shaped, CallRecord
  <2>6. CASE Suspend(c)
    <3>1. call' \in [Calls -> CallRecord]
      BY <2>0, <2>6, AwaitType DEF Suspend
    <3> QED BY <2>6, <3>1 DEF Suspend, Shaped, CallRecord
  <2>7. CASE PollApproved(c)
    <3>1. call' \in [Calls -> CallRecord]
      BY <2>0, <2>7, AskType DEF PollApproved, Steps
    <3> QED BY <2>7, <3>1 DEF PollApproved, Shaped, CallRecord
  <2>8. CASE PollRefused(c)
    <3>1. call' \in [Calls -> CallRecord]
      BY <2>8, GotoType DEF PollRefused, Steps
    <3> QED BY <2>8, <3>1 DEF PollRefused, Shaped, CallRecord
  <2> QED BY <1>2, <2>1, <2>2, <2>3, <2>4, <2>5, <2>6, <2>7, <2>8 DEF Progress
<1>3. ASSUME NEW c \in Calls, Abort(c) PROVE Shaped'
  <2>1. call' \in [Calls -> CallRecord]
    BY <1>3, GotoType DEF Abort, Steps
  <2> QED BY <1>3, <2>1 DEF Abort, Shaped, CallRecord
<1>4. ASSUME NEW i \in Ids, NEW answer \in {"approved", "declined"}, Decide(i, answer)
      PROVE  Shaped'
  <2>1. req' \in Seq(Request)
    <3>1. [req[i] EXCEPT !.status = answer] \in Request
      BY IdsAreIndices, AnsweredType
    <3> QED BY <1>4, <3>1, UpdateType DEF Decide, Shaped
  <2>2. owed' \subseteq Nat
    BY <1>4 DEF Decide, Shaped, Ids
  <2> QED BY <1>4, <2>1, <2>2 DEF Decide, Shaped
<1>5. ASSUME NEW i \in Ids, Expire(i) PROVE Shaped'
  <2>1. req' \in Seq(Request)
    <3>1. [req[i] EXCEPT !.status = "expired"] \in Request
      BY IdsAreIndices, AnsweredType
    <3> QED BY <1>5, <3>1, UpdateType DEF Expire, Shaped
  <2>2. owed' \subseteq Nat
    BY <1>5 DEF Expire, Shaped, Ids
  <2> QED BY <1>5, <2>1, <2>2 DEF Expire, Shaped
<1>6. ASSUME NEW i \in Ids, GiveBack(i) PROVE Shaped'
  BY <1>6 DEF GiveBack, Shaped
<1>7. CASE Tick
  <2>1. \A n \in Nat : Left(n) \in Nat
    BY DEF Left
  <2>2. req' \in Seq(Request)
    <3>1. \A i \in Ids : [req[i] EXCEPT !.left = Left(@)] \in Request
      BY IdsAreIndices, OlderType
    <3>2. req' = [i \in 1..Len(req) |-> [req[i] EXCEPT !.left = Left(@)]]
      BY <1>7 DEF Tick, Ids
    <3>3. Len(req) \in Nat
      BY DEF Shaped
    <3> QED BY <3>1, <3>2, <3>3 DEF Ids
  <2>3. call' \in [Calls -> CallRecord]
    <3>1. ASSUME NEW c \in Calls PROVE call'[c] \in CallRecord
      <4>1. call[c] \in CallRecord
        BY DEF Shaped, CallRecord
      <4>2. Left(call[c].left) \in Nat
        BY <2>1, <4>1 DEF CallRecord
      <4> DEFINE b == call[c].step \in {"consume", "select", "insert"}
      <4>3. call'[c] = [call[c] EXCEPT !.left = Left(call[c].left), !.stale = b]
        BY <1>7 DEF Tick
      <4>4. b \in BOOLEAN
        OBVIOUS
      <4> HIDE DEF b
      <4> QED BY <4>1, <4>2, <4>3, <4>4 DEF CallRecord
    <3> QED BY <1>7, <3>1 DEF Tick
  <2> QED BY <1>7, <2>2, <2>3 DEF Tick, Shaped, CallRecord
<1>8. CASE Crash
  <2>1. call' \in [Calls -> CallRecord]
    BY <1>8 DEF Crash, Shaped, CallRecord, Steps
  <2> QED BY <1>8, <2>1 DEF Crash, Shaped, CallRecord
<1>9. ASSUME NEW r \in Runs, NEW s \in Moves, Elsewhere(r, s) PROVE Shaped'
  BY <1>9 DEF Elsewhere, Shaped
<1>10. CASE UNCHANGED vars
  BY <1>10 DEF vars, Shaped
<1> QED
  BY <1>1, <1>2, <1>3, <1>4, <1>5, <1>6, <1>7, <1>8, <1>9, <1>10 DEF Next

\* The statuses stay statuses: a move asks the table, or is one of Moves.
LEMMA StatusesNext ==
  runStatus \in [Runs -> Statuses] /\ [Next]_vars => runStatus' \in [Runs -> Statuses]
<1> SUFFICES ASSUME runStatus \in [Runs -> Statuses], [Next]_vars
             PROVE  runStatus' \in [Runs -> Statuses]
  OBVIOUS
<1> /\ "running" \in Statuses /\ "waiting_for_approval" \in Statuses
  BY DEF Statuses
<1>1. ASSUME NEW c \in Calls, Resume(c) \/ Suspend(c) PROVE runStatus' \in [Runs -> Statuses]
  BY <1>1, MoveRunType DEF Resume, Suspend
<1>2. ASSUME NEW i \in Ids, GiveBack(i) PROVE runStatus' \in [Runs -> Statuses]
  BY <1>2, MoveRunType DEF GiveBack
<1>3. ASSUME NEW r \in Runs, NEW s \in Moves, Elsewhere(r, s)
      PROVE  runStatus' \in [Runs -> Statuses]
  BY <1>3, MovesAssumption DEF Elsewhere
<1>4. ASSUME UNCHANGED runStatus PROVE runStatus' \in [Runs -> Statuses]
  BY <1>4
<1> QED
  BY <1>1, <1>2, <1>3, <1>4
  DEF Next, Progress, vars, Begin, Consume, Act, Select, Insert, PollApproved,
      PollRefused, Abort, Decide, Expire, Tick, Crash

LEMMA TypeInit == Init => TypeOK
BY ShapedInit DEF Init, TypeOK, Shaped, CallRecord, Statuses

LEMMA TypeNext == TypeOK /\ [Next]_vars => TypeOK'
<1>1. TypeOK <=> Shaped /\ runStatus \in [Runs -> Statuses]
  BY DEF TypeOK, Shaped, CallRecord
<1>2. TypeOK' <=> Shaped' /\ runStatus' \in [Runs -> Statuses]
  BY DEF TypeOK, Shaped, CallRecord
<1> QED BY <1>1, <1>2, ShapedNext, StatusesNext

LEMMA AlwaysShaped == Spec => []Shaped
BY ShapedInit, ShapedNext, PTL DEF Spec

\* The table of requests, the locals of the callers and the statuses keep their
\* shape, whoever interleaves with whom (approvals/store.ts, plugins/tools.ts).
THEOREM TypeCorrect == Spec => []TypeOK
BY TypeInit, TypeNext, PTL DEF Spec

----------------------------------------------------------------------------
(* Answers are final *)

\* What one statement does to the table, seen from one request: it stays, or it
\* is touched in one of three ways; new requests come at the end.
RequestStep ==
  /\ Ids \subseteq Ids'
  /\ \A i \in Ids :
       /\ req'[i].ask = req[i].ask
       /\ req[i].status # "pending" => req'[i].status = req[i].status
       /\ req[i].consumed => req'[i].consumed
       /\ req'[i].consumed # req[i].consumed
            => \E c \in Calls : call[c].id = i /\ call[c].step = "consume"

LEMMA RequestsKept == Shaped /\ [Next]_vars => RequestStep
<1> SUFFICES ASSUME Shaped, [Next]_vars PROVE RequestStep
  OBVIOUS
<1>0. ASSUME UNCHANGED req PROVE RequestStep
  BY <1>0 DEF RequestStep, Ids
<1>1. ASSUME NEW c \in Calls, Consume(c) PROVE RequestStep
  <2>1. CASE req' = [req EXCEPT ![call[c].id] = [@ EXCEPT !.consumed = TRUE]]
    <3>1. CASE call[c].id \in Ids
      <4>1. \A i \in Ids : req[i] \in Request
        BY IdsAreIndices
      <4>2. Ids' = Ids
        BY <2>1 DEF Shaped, Ids
      <4>3. /\ req'[call[c].id] = [req[call[c].id] EXCEPT !.consumed = TRUE]
            /\ \A i \in Ids : i # call[c].id => req'[i] = req[i]
        <5>1. DOMAIN req = Ids
          BY DEF Shaped, Ids
        <5> QED BY <2>1, <3>1, <5>1
      <4>4. call[c].step = "consume"
        BY <1>1 DEF Consume
      <4>5. /\ req'[call[c].id].ask = req[call[c].id].ask
            /\ req'[call[c].id].status = req[call[c].id].status
            /\ req'[call[c].id].consumed
        BY <3>1, <4>1, <4>3 DEF Request
      <4> QED BY <4>2, <4>3, <4>4, <4>5 DEF RequestStep
    <3>2. CASE call[c].id \notin Ids
      BY <1>0, <2>1, <3>2, UpdateOutside DEF Shaped, Ids
    <3> QED BY <3>1, <3>2
  <2> QED BY <1>0, <1>1, <2>1 DEF Consume
<1>2. ASSUME NEW c \in Calls, Insert(c) PROVE RequestStep
  <2>1. PICK x : req' = Append(req, x)
    BY <1>2 DEF Insert
  <2>2. Ids \subseteq Ids' /\ \A i \in Ids : req'[i] = req[i]
    BY <2>1 DEF Shaped, Ids
  <2> QED BY <2>2 DEF RequestStep
<1>3. ASSUME NEW i \in Ids, NEW st, req[i].status = "pending",
             req' = [req EXCEPT ![i] = [@ EXCEPT !.status = st]]
      PROVE  RequestStep
  <2>1. req[i] \in Request
    BY IdsAreIndices
  <2>2. Ids' = Ids
    BY <1>3 DEF Shaped, Ids
  <2>3. /\ req'[i] = [req[i] EXCEPT !.status = st]
        /\ \A j \in Ids : j # i => req'[j] = req[j]
    BY <1>3 DEF Shaped, Ids
  <2>4. /\ req'[i].ask = req[i].ask
        /\ req'[i].consumed = req[i].consumed
    BY <2>1, <2>3 DEF Request
  <2> QED BY <1>3, <2>2, <2>3, <2>4 DEF RequestStep
<1>4. CASE Tick
  <2>1. \A i \in Ids : req[i] \in Request
    BY IdsAreIndices
  <2>2. Ids' = Ids
    <3>1. Shaped'
      BY ShapedNext
    <3>2. /\ DOMAIN req' = 1..Len(req') /\ Len(req') \in Nat
          /\ Len(req) \in Nat
      BY <3>1 DEF Shaped
    <3>3. DOMAIN req' = 1..Len(req)
      BY <1>4 DEF Tick, Ids
    <3> QED BY <3>2, <3>3 DEF Ids
  <2>3. \A i \in Ids : req'[i] = [req[i] EXCEPT !.left = Left(@)]
    BY <1>4 DEF Tick
  <2>4. \A i \in Ids : /\ req'[i].ask = req[i].ask
                       /\ req'[i].consumed = req[i].consumed
                       /\ req'[i].status = req[i].status
    BY <2>1, <2>3 DEF Request
  <2> QED BY <2>2, <2>4 DEF RequestStep
<1>5. ASSUME NEW c \in Calls, Begin(c) \/ Resume(c) \/ Act(c) \/ Select(c)
             \/ Suspend(c) \/ PollApproved(c) \/ PollRefused(c) \/ Abort(c)
      PROVE  RequestStep
  BY <1>0, <1>5 DEF Begin, Resume, Act, Select, Suspend, PollApproved, PollRefused, Abort
<1>6. ASSUME NEW i \in Ids, NEW answer, Decide(i, answer) PROVE RequestStep
  BY <1>3, <1>6 DEF Decide
<1>7. ASSUME NEW i \in Ids, Expire(i) PROVE RequestStep
  BY <1>3, <1>7 DEF Expire, Lapsed
<1>8. ASSUME NEW i \in Ids, GiveBack(i) PROVE RequestStep
  BY <1>0, <1>8 DEF GiveBack
<1>9. CASE Crash
  BY <1>0, <1>9 DEF Crash
<1>10. ASSUME NEW r \in Runs, NEW s \in Moves, Elsewhere(r, s) PROVE RequestStep
  BY <1>0, <1>10 DEF Elsewhere
<1>11. CASE UNCHANGED vars
  BY <1>0, <1>11 DEF vars
<1> QED
  BY <1>1, <1>2, <1>4, <1>5, <1>6, <1>7, <1>8, <1>9, <1>10, <1>11 DEF Next, Progress

\* An answer is final and a spent approval stays spent, whatever decisions,
\* expiries, retries and crashes race for a request (approvals/store.ts, decide
\* and expireIfNeeded, both conditional on "pending").
THEOREM AnswersAreFinal == Spec => AnswersFinal
<1>1. Shaped /\ [Next]_vars =>
        [\A i \in Ids :
           /\ req[i].status # "pending" => req'[i].status = req[i].status
           /\ req[i].consumed => req'[i].consumed]_vars
  BY RequestsKept DEF RequestStep
<1> QED BY <1>1, AlwaysShaped, PTL DEF Spec, AnswersFinal

----------------------------------------------------------------------------
(* One approval, one call *)

\* A caller that names a request names one that exists.
Aimed ==
  \A c \in Calls :
    call[c].step \in {"consume", "suspend", "waiting", "resume", "act", "acted"}
      => call[c].id \in Ids

Guarded == Shaped /\ Aimed /\ PermittedWasApproved /\ OneUse

LEMMA GuardedInit == Init => Guarded
<1> SUFFICES ASSUME Init PROVE Guarded
  OBVIOUS
<1>1. \A c \in Calls : call[c].step = "idle"
  BY DEF Init
<1> QED BY <1>1, ShapedInit DEF Guarded, Aimed, PermittedWasApproved, OneUse, Permitted

\* What the three ways of moving a caller on leave in its locals.
LEMMA GotoEffect ==
  ASSUME Shaped, NEW c \in Calls, NEW s, Goto(c, s)
  PROVE  /\ call'[c].step = s /\ call'[c].id = call[c].id
         /\ call'[c].ask = call[c].ask
         /\ \A d \in Calls : d # c => call'[d] = call[d]
BY DEF Shaped, Goto

LEMMA AskEffect ==
  ASSUME Shaped, NEW c \in Calls, NEW s, NEW i, NEW b, Ask(c, s, i, b)
  PROVE  /\ call'[c].step = s /\ call'[c].id = i /\ call'[c].ask = call[c].ask
         /\ \A d \in Calls : d # c => call'[d] = call[d]
BY DEF Shaped, Ask

LEMMA AwaitEffect ==
  ASSUME Shaped, NEW c \in Calls, NEW i, Await(c, i)
  PROVE  /\ call'[c].step \in {"refused", "waiting"} /\ call'[c].id = i
         /\ call'[c].ask = call[c].ask
         /\ \A d \in Calls : d # c => call'[d] = call[d]
BY DEF Shaped, Await

\* Steps that let nobody through keep the promise to those who are through.
LEMMA NobodyNew ==
  ASSUME Guarded, RequestStep, Aimed',
         \A c \in Calls : /\ call'[c].ask = call[c].ask
                          /\ Permitted(c)' => Permitted(c) /\ call'[c].id = call[c].id
  PROVE  PermittedWasApproved' /\ OneUse'
<1>1. PermittedWasApproved'
  BY DEF Guarded, PermittedWasApproved, RequestStep, Matches
<1>2. OneUse'
  BY DEF Guarded, OneUse
<1> QED BY <1>1, <1>2

LEMMA GuardedNext == Guarded /\ [Next]_vars => Guarded'
<1> SUFFICES ASSUME Guarded, [Next]_vars PROVE Guarded'
  OBVIOUS
<1>0. Shaped /\ Shaped' /\ RequestStep /\ Aimed /\ Ids \subseteq Ids'
  BY ShapedNext, RequestsKept DEF Guarded, RequestStep
<1> DEFINE
      Aims(c) == call'[c].step \in {"consume", "suspend", "waiting", "resume", "act", "acted"}
                   => call'[c].id \in Ids'
      Meek(c) == /\ call'[c].ask = call[c].ask
                 /\ Permitted(c)' => Permitted(c) /\ call'[c].id = call[c].id
<1>1. ASSUME \A c \in Calls : Aims(c) /\ Meek(c) PROVE Guarded'
  <2>1. Aimed'
    BY <1>1 DEF Aimed
  <2> QED BY <1>0, <1>1, <2>1, NobodyNew DEF Guarded
\* Steps of one caller leave the other callers alone.
<1>2. ASSUME NEW c \in Calls, \A d \in Calls : d # c => call'[d] = call[d],
             Aims(c), Meek(c)
      PROVE  Guarded'
  <2>1. ASSUME NEW d \in Calls, d # c PROVE Aims(d) /\ Meek(d)
    BY <1>0, <1>2, <2>1 DEF Aimed, Permitted
  <2> QED BY <1>1, <1>2, <2>1
<1>3. ASSUME UNCHANGED call PROVE Guarded'
  <2>1. ASSUME NEW c \in Calls PROVE Aims(c) /\ Meek(c)
    BY <1>0, <1>3 DEF Aimed, Permitted
  <2> QED BY <1>1, <2>1
<1>4. ASSUME NEW c \in Calls, Begin(c) PROVE Guarded'
  <2>1. CASE Ask(c, "select", 0, FALSE)
    BY <1>0, <1>2, <2>1, AskEffect DEF Permitted
  <2>2. CASE \E i \in Ids : Ask(c, "consume", i, TRUE)
    <3>1. PICK i \in Ids : Ask(c, "consume", i, TRUE)
      BY <2>2
    <3>2. /\ call'[c].step = "consume" /\ call'[c].id = i
          /\ call'[c].ask = call[c].ask
          /\ \A d \in Calls : d # c => call'[d] = call[d]
      BY <1>0, <3>1, AskEffect
    <3> QED BY <1>0, <1>2, <3>2 DEF Permitted
  <2> QED BY <1>4, <2>1, <2>2 DEF Begin
<1>5. ASSUME NEW c \in Calls, Consume(c) PROVE Guarded'
  <2>1. PICK usable \in Live({i \in {call[c].id} : Usable(i, c)}, c) :
          \/ /\ call[c].id \in usable
             /\ req' = [req EXCEPT ![call[c].id] = [@ EXCEPT !.consumed = TRUE]]
             /\ Goto(c, "resume")
          \/ /\ call[c].id \notin usable
             /\ Goto(c, "select")
             /\ UNCHANGED req
    BY <1>5 DEF Consume
  <2>2. CASE Goto(c, "select")
    BY <1>0, <1>2, <2>2, GotoEffect DEF Permitted
  <2>3. CASE /\ call[c].id \in usable
             /\ req' = [req EXCEPT ![call[c].id] = [@ EXCEPT !.consumed = TRUE]]
             /\ Goto(c, "resume")
    <3>1. Usable(call[c].id, c)
      BY <2>1, <2>3 DEF Live
    <3>2. call[c].id \in Ids /\ call[c].id \in Ids' /\ call[c].step = "consume"
      BY <1>0, <1>5 DEF Aimed, Consume
    <3>3. /\ call'[c].step = "resume" /\ call'[c].id = call[c].id
          /\ call'[c].ask = call[c].ask
          /\ \A d \in Calls : d # c => call'[d] = call[d]
      BY <1>0, <2>3, GotoEffect
    <3>4. Aimed'
      BY <1>0, <3>2, <3>3 DEF Aimed
    <3>5. req'[call[c].id].consumed
      <4>1. req[call[c].id] \in Request /\ DOMAIN req = Ids
        BY <1>0, <3>2, IdsAreIndices DEF Shaped, Ids
      <4> QED BY <2>3, <3>2, <4>1 DEF Request
    <3>6. PermittedWasApproved'
      <4>1. ASSUME NEW d \in Calls, d # c, Permitted(d)'
            PROVE  /\ call'[d].id \in Ids' /\ Matches(call[d].id, d)'
                   /\ req'[call'[d].id].status = "approved"
                   /\ req'[call'[d].id].consumed
        BY <1>0, <3>3, <4>1 DEF Guarded, PermittedWasApproved, Permitted, RequestStep, Matches
      <4>2. /\ Matches(call[c].id, c)' /\ req'[call[c].id].status = "approved"
        BY <1>0, <3>1, <3>2, <3>3 DEF Usable, Matches, RequestStep
      <4> QED BY <3>2, <3>3, <3>5, <4>1, <4>2 DEF PermittedWasApproved, Matches
    <3>7. OneUse'
      <4>1. \A d \in Calls : Permitted(d) => call[d].id # call[c].id
        BY <3>1 DEF Guarded, PermittedWasApproved, Usable
      <4> QED BY <3>3, <4>1 DEF Guarded, OneUse, Permitted
    <3> QED BY <1>0, <3>4, <3>6, <3>7 DEF Guarded
  <2> QED BY <2>1, <2>2, <2>3
<1>6. ASSUME NEW c \in Calls, Resume(c) \/ Act(c) PROVE Guarded'
  <2>1. /\ call'[c].id = call[c].id /\ call'[c].ask = call[c].ask /\ Permitted(c) /\ call[c].id \in Ids
        /\ \A d \in Calls : d # c => call'[d] = call[d]
    BY <1>0, <1>6, GotoEffect DEF Resume, Act, Permitted, Aimed
  <2> QED BY <1>0, <1>2, <2>1
<1>7. ASSUME NEW c \in Calls, Select(c) PROVE Guarded'
  <2>1. CASE \E i \in Ids : Await(c, i)
    BY <1>0, <1>2, <2>1, AwaitEffect DEF Permitted
  <2>2. CASE Goto(c, "insert")
    BY <1>0, <1>2, <2>2, GotoEffect DEF Permitted
  <2>3. \A live \in Live(Pending(c), c) : live \subseteq Ids
    BY DEF Live, Pending
  <2> QED BY <1>7, <2>1, <2>2, <2>3 DEF Select
<1>8. ASSUME NEW c \in Calls, Insert(c) PROVE Guarded'
  <2>1. Len(req) + 1 \in Ids'
    BY <1>0, <1>8 DEF Insert, Ids, Shaped
  <2>2. CASE Await(c, Len(req) + 1)
    BY <1>0, <1>2, <2>1, <2>2, AwaitEffect DEF Permitted
  <2>3. CASE call' = [call EXCEPT ![c] = [@ EXCEPT !.step = "suspend",
                                                   !.id = Len(req) + 1]]
    <3>1. /\ call'[c].step = "suspend" /\ call'[c].id = Len(req) + 1
          /\ call'[c].ask = call[c].ask
          /\ \A d \in Calls : d # c => call'[d] = call[d]
      BY <1>0, <2>3 DEF Shaped
    <3> QED BY <1>2, <2>1, <3>1 DEF Permitted
  <2> QED BY <1>8, <2>2, <2>3 DEF Insert
<1>9. ASSUME NEW c \in Calls, Suspend(c) PROVE Guarded'
  <2>1. call[c].id \in Ids
    BY <1>0, <1>9 DEF Suspend, Aimed
  <2> QED BY <1>0, <1>2, <1>9, <2>1, AwaitEffect DEF Suspend, Permitted
<1>10. ASSUME NEW c \in Calls, PollApproved(c) PROVE Guarded'
  <2>1. call[c].id \in Ids
    BY <1>0, <1>10 DEF PollApproved, Aimed
  <2>2. /\ call'[c].step = "consume" /\ call'[c].id = call[c].id
        /\ call'[c].ask = call[c].ask
        /\ \A d \in Calls : d # c => call'[d] = call[d]
    BY <1>0, <1>10, AskEffect DEF PollApproved
  <2> QED BY <1>0, <1>2, <2>1, <2>2 DEF Permitted
<1>11. ASSUME NEW c \in Calls, PollRefused(c) \/ Abort(c) PROVE Guarded'
  BY <1>0, <1>2, <1>11, GotoEffect DEF PollRefused, Abort, Permitted
<1>12. CASE Tick
  <2>1. ASSUME NEW c \in Calls 
        PROVE  /\ call'[c].step = call[c].step /\ call'[c].id = call[c].id
               /\ call'[c].ask = call[c].ask
    BY <1>0, <1>12 DEF Tick, Shaped, CallRecord
  <2>2. ASSUME NEW c \in Calls PROVE Aims(c) /\ Meek(c)
    BY <1>0, <2>1 DEF Aimed, Permitted
  <2> QED BY <1>1, <2>2
<1>13. CASE Crash
  <2>1. ASSUME NEW c \in Calls
        PROVE  \/ call'[c] = call[c]
               \/ call'[c].step = "dead" /\ call'[c].ask = call[c].ask
    BY <1>0, <1>13 DEF Crash, Shaped, CallRecord
  <2>2. ASSUME NEW c \in Calls PROVE Aims(c) /\ Meek(c)
    BY <1>0, <2>1 DEF Aimed, Permitted
  <2> QED BY <1>1, <2>2
<1>14. ASSUME NEW i \in Ids, NEW answer, Decide(i, answer) \/ Expire(i) \/ GiveBack(i)
       PROVE  Guarded'
  BY <1>3, <1>14 DEF Decide, Expire, GiveBack
<1>15. ASSUME NEW r \in Runs, NEW s \in Moves, Elsewhere(r, s) PROVE Guarded'
  BY <1>3, <1>15 DEF Elsewhere
<1>16. CASE UNCHANGED vars
  BY <1>3, <1>16 DEF vars
<1> QED
  BY <1>4, <1>5, <1>6, <1>7, <1>8, <1>9, <1>10, <1>11, <1>12, <1>13, <1>14, <1>15,
     <1>16 DEF Next, Progress

LEMMA AlwaysGuarded == Spec => []Guarded
BY GuardedInit, GuardedNext, PTL DEF Spec

\* Whatever calls share requests, a call goes through only on an approved and
\* spent request for that very call (approvals/store.ts, authorize).
THEOREM OnlyApprovedAct == Spec => []PermittedWasApproved
<1>1. Guarded => PermittedWasApproved
  BY DEF Guarded
<1> QED BY <1>1, AlwaysGuarded, PTL

\* One approval never lets two calls through: authorize spends it in one
\* conditional update.
THEOREM ApprovalsUsedOnce == Spec => []OneUse
<1>1. Guarded => OneUse
  BY DEF Guarded
<1> QED BY <1>1, AlwaysGuarded, PTL

----------------------------------------------------------------------------
(* What is owed to runs *)

\* A run is owed the end of its wait only by a request that was declined or
\* lapsed: an approval leaves it to the call.
OwedAnswered == \A i \in owed : i \in Ids /\ req[i].status \in {"declined", "expired"}

LEMMA OwedInit == Init => OwedAnswered
BY DEF Init, OwedAnswered

LEMMA OwedNext == Shaped /\ OwedAnswered /\ [Next]_vars => OwedAnswered'
<1> SUFFICES ASSUME Shaped, OwedAnswered, [Next]_vars PROVE OwedAnswered'
  OBVIOUS
<1>1. RequestStep
  BY RequestsKept
\* What is answered stays answered.
<1>2. \A i \in owed : i \in Ids' /\ req'[i].status \in {"declined", "expired"}
  BY <1>1 DEF OwedAnswered, RequestStep
<1>3. ASSUME owed' \subseteq owed PROVE OwedAnswered'
  BY <1>2, <1>3 DEF OwedAnswered
<1>4. ASSUME NEW i \in Ids, NEW st \in {"declined", "expired"},
             req' = [req EXCEPT ![i] = [@ EXCEPT !.status = st]], owed' = owed \cup {i}
      PROVE  OwedAnswered'
  <2>1. i \in Ids' /\ req[i] \in Request /\ DOMAIN req = Ids
    BY <1>1, IdsAreIndices DEF RequestStep, Shaped, Ids
  <2>2. req'[i].status = st
    BY <1>4, <2>1 DEF Request
  <2> QED BY <1>2, <1>4, <2>1, <2>2 DEF OwedAnswered
<1>5. ASSUME NEW i \in Ids, NEW answer \in {"approved", "declined"}, Decide(i, answer)
      PROVE  OwedAnswered'
  BY <1>3, <1>4, <1>5 DEF Decide
<1>6. ASSUME NEW i \in Ids, Expire(i) PROVE OwedAnswered'
  BY <1>4, <1>6 DEF Expire
<1>7. ASSUME NEW i \in Ids, GiveBack(i) PROVE OwedAnswered'
  BY <1>3, <1>7 DEF GiveBack
<1>8. ASSUME NEW c \in Calls, Begin(c) \/ Progress(c) \/ Abort(c) PROVE OwedAnswered'
  BY <1>3, <1>8 DEF Begin, Progress, Abort, Consume, Resume, Act, Select, Insert,
                    Suspend, PollApproved, PollRefused
<1>9. CASE Tick \/ Crash
  BY <1>3, <1>9 DEF Tick, Crash
<1>10. ASSUME NEW r \in Runs, NEW s \in Moves, Elsewhere(r, s) PROVE OwedAnswered'
  BY <1>3, <1>10 DEF Elsewhere
<1>11. CASE UNCHANGED vars
  BY <1>3, <1>11 DEF vars
<1> QED BY <1>5, <1>6, <1>7, <1>8, <1>9, <1>10, <1>11 DEF Next

----------------------------------------------------------------------------
(* What ends the wait of a run *)

\* Only an approval is spent, and a call that will suspend its run has inserted
\* its own request.
SpentApproved == \A i \in Ids : req[i].consumed => req[i].status = "approved"
SuspendsOwn == \A c \in Calls : call[c].step = "suspend" => Matches(call[c].id, c)

Sound == Guarded /\ SpentApproved /\ SuspendsOwn

\* A statement of one caller leaves the other callers alone, and only the
\* insertion of a request leads to the suspension of the run.
LEMMA OneCaller ==
  ASSUME Shaped, NEW c \in Calls, Begin(c) \/ Progress(c) \/ Abort(c)
  PROVE  /\ \A d \in Calls : d # c => call'[d] = call[d]
         /\ call'[c].ask = call[c].ask
         /\ call[c].step = "resume" => Resume(c)
         /\ call'[c].step = "suspend" => Insert(c) /\ call'[c].id = Len(req) + 1
<1>1. CASE Begin(c)
  BY <1>1, AskEffect DEF Begin
<1>2. CASE Consume(c)
  BY <1>2, GotoEffect DEF Consume
<1>3. CASE Resume(c) \/ Act(c) \/ PollRefused(c) \/ Abort(c)
  BY <1>3, GotoEffect DEF Resume, Act, PollRefused, Abort
<1>4. CASE Select(c)
  <2>1. Goto(c, "insert") \/ \E i : Await(c, i)
    BY <1>4 DEF Select
  <2>2. call[c].step = "select"
    BY <1>4 DEF Select
  <2> QED BY <2>1, <2>2, GotoEffect, AwaitEffect
<1>5. CASE Insert(c)
  <2>1. CASE Await(c, Len(req) + 1)
    BY <1>5, <2>1, AwaitEffect DEF Insert
  <2>2. CASE call' = [call EXCEPT ![c] = [@ EXCEPT !.step = "suspend", !.id = Len(req) + 1]]
    <3>1. /\ call'[c].step = "suspend" /\ call'[c].id = Len(req) + 1
          /\ call'[c].ask = call[c].ask
          /\ \A d \in Calls : d # c => call'[d] = call[d]
      BY <2>2 DEF Shaped
    <3>2. call[c].step = "insert"
      BY <1>5 DEF Insert
    <3> QED BY <1>5, <3>1, <3>2
  <2> QED BY <1>5, <2>1, <2>2 DEF Insert
<1>6. CASE Suspend(c)
  BY <1>6, AwaitEffect DEF Suspend
<1>7. CASE PollApproved(c)
  BY <1>7, AskEffect DEF PollApproved
<1> QED BY <1>1, <1>2, <1>3, <1>4, <1>5, <1>6, <1>7 DEF Progress

LEMMA SoundInit == Init => Sound
<1> SUFFICES ASSUME Init PROVE Sound
  OBVIOUS
<1>1. Ids = {} /\ \A c \in Calls : call[c].step = "idle"
  BY DEF Init, Ids
<1> QED BY <1>1, GuardedInit DEF Sound, SpentApproved, SuspendsOwn

LEMMA SpentNext == Guarded /\ SpentApproved /\ [Next]_vars => SpentApproved'
<1> SUFFICES ASSUME Guarded, SpentApproved, [Next]_vars PROVE SpentApproved'
  OBVIOUS
<1>0. Shaped /\ Aimed /\ RequestStep /\ \A i \in Ids : req[i] \in Request
  BY RequestsKept, IdsAreIndices DEF Guarded
<1>1. ASSUME Ids' = Ids, \A i \in Ids : req'[i].consumed = req[i].consumed
      PROVE  SpentApproved'
  BY <1>0, <1>1 DEF SpentApproved, RequestStep
<1>2. ASSUME UNCHANGED req PROVE SpentApproved'
  BY <1>1, <1>2 DEF Ids
<1>3. ASSUME NEW c \in Calls, Consume(c) PROVE SpentApproved'
  <2>1. CASE UNCHANGED req
    BY <1>2, <2>1
  <2>2. CASE /\ Usable(call[c].id, c)
             /\ req' = [req EXCEPT ![call[c].id] = [@ EXCEPT !.consumed = TRUE]]
    <3>1. call[c].id \in Ids /\ DOMAIN req = Ids /\ req[call[c].id].status = "approved"
      BY <1>0, <1>3, <2>2 DEF Aimed, Consume, Usable, Shaped, Ids
    <3>2. Ids' = Ids
      BY <1>0, <2>2 DEF Shaped, Ids
    <3>3. ASSUME NEW i \in Ids, req'[i].consumed PROVE req'[i].status = "approved"
      <4>1. CASE i = call[c].id
        BY <1>0, <3>1, <4>1 DEF RequestStep
      <4>2. CASE i # call[c].id
        BY <2>2, <3>1, <3>3, <4>2 DEF SpentApproved
      <4> QED BY <4>1, <4>2
    <3> QED BY <3>2, <3>3 DEF SpentApproved
  <2>3. ASSUME NEW usable \in Live({i \in {call[c].id} : Usable(i, c)}, c),
               call[c].id \in usable
        PROVE  Usable(call[c].id, c)
    BY <2>3 DEF Live
  <2> QED BY <1>3, <2>1, <2>2, <2>3 DEF Consume
<1>4. ASSUME NEW c \in Calls, Insert(c) PROVE SpentApproved'
  <2>1. PICK x : req' = Append(req, x) /\ x.consumed = FALSE
    BY <1>4 DEF Insert
  <2>2. \A i \in Ids' : (i \in Ids /\ req'[i] = req[i]) \/ req'[i] = x
    BY <1>0, <2>1 DEF Shaped, Ids
  <2> QED BY <2>1, <2>2 DEF SpentApproved
<1>5. ASSUME NEW i \in Ids, NEW st,
             req' = [req EXCEPT ![i] = [@ EXCEPT !.status = st]]
      PROVE  SpentApproved'
  <2>1. Ids' = Ids /\ DOMAIN req = Ids
    BY <1>0, <1>5 DEF Shaped, Ids
  <2>2. \A j \in Ids : req'[j].consumed = req[j].consumed
    BY <1>0, <1>5, <2>1 DEF Request
  <2> QED BY <1>1, <2>1, <2>2
<1>6. CASE Tick
  <2>1. Ids' = Ids
    <3>1. Shaped'
      BY <1>0, ShapedNext
    <3>2. DOMAIN req' = 1..Len(req') /\ Len(req') \in Nat /\ Len(req) \in Nat
      BY <1>0, <3>1 DEF Shaped
    <3>3. DOMAIN req' = 1..Len(req)
      BY <1>6 DEF Tick, Ids
    <3> QED BY <3>2, <3>3 DEF Ids
  <2>2. \A i \in Ids : req'[i].consumed = req[i].consumed
    BY <1>0, <1>6 DEF Tick, Request
  <2> QED BY <1>1, <2>1, <2>2
<1>7. ASSUME NEW c \in Calls, Begin(c) \/ Resume(c) \/ Act(c) \/ Select(c)
             \/ Suspend(c) \/ PollApproved(c) \/ PollRefused(c) \/ Abort(c)
      PROVE  SpentApproved'
  BY <1>2, <1>7 DEF Begin, Resume, Act, Select, Suspend, PollApproved, PollRefused, Abort
<1>8. ASSUME NEW i \in Ids, NEW answer, Decide(i, answer) \/ Expire(i) \/ GiveBack(i)
      PROVE  SpentApproved'
  BY <1>2, <1>5, <1>8 DEF Decide, Expire, GiveBack
<1>9. ASSUME NEW r \in Runs, NEW s \in Moves, Elsewhere(r, s) PROVE SpentApproved'
  BY <1>2, <1>9 DEF Elsewhere, Crash
<1>10. CASE Crash
  BY <1>2, <1>10 DEF Crash
<1>11. CASE UNCHANGED vars
  BY <1>2, <1>11 DEF vars
<1> QED
  BY <1>3, <1>4, <1>6, <1>7, <1>8, <1>9, <1>10, <1>11 DEF Next, Progress

LEMMA SuspendsNext == Guarded /\ SuspendsOwn /\ [Next]_vars => SuspendsOwn'
<1> SUFFICES ASSUME Guarded, SuspendsOwn, [Next]_vars PROVE SuspendsOwn'
  OBVIOUS
<1>0. Shaped /\ Aimed /\ RequestStep
  BY RequestsKept DEF Guarded
\* The request of a call that stays where it was stays its own.
<1>1. ASSUME NEW d \in Calls, call'[d].ask = call[d].ask, call'[d].id = call[d].id,
             call'[d].step = call[d].step, call'[d].step = "suspend"
      PROVE  Matches(call[d].id, d)'
  <2>1. call[d].id \in Ids /\ req[call[d].id].ask = call[d].ask
    BY <1>0, <1>1 DEF SuspendsOwn, Aimed, Matches
  <2>2. req'[call[d].id].ask = call'[d].ask
    BY <1>0, <1>1, <2>1 DEF RequestStep
  <2> QED BY <1>1, <2>2 DEF Matches
<1>2. ASSUME NEW c \in Calls, Begin(c) \/ Progress(c) \/ Abort(c) PROVE SuspendsOwn'
  <2>1. /\ \A d \in Calls : d # c => call'[d] = call[d]
        /\ call'[c].ask = call[c].ask
        /\ call'[c].step = "suspend" => Insert(c) /\ call'[c].id = Len(req) + 1
    BY <1>0, <1>2, OneCaller
  <2>2. ASSUME NEW d \in Calls, d # c, call'[d].step = "suspend"
        PROVE  Matches(call[d].id, d)'
    BY <1>1, <2>1, <2>2
  <2>3. ASSUME call'[c].step = "suspend" PROVE Matches(call[c].id, c)'
    <3>1. PICK left : req' = Append(req, [ask |-> call[c].ask, status |-> "pending",
                                          consumed |-> FALSE, left |-> left])
      BY <2>1, <2>3 DEF Insert
    <3>2. req'[Len(req) + 1].ask = call[c].ask
      BY <1>0, <3>1 DEF Shaped
    <3> QED BY <2>1, <2>3, <3>2 DEF Matches
  <2> QED BY <2>2, <2>3 DEF SuspendsOwn
<1>3. CASE Tick
  <2>1. ASSUME NEW c \in Calls
        PROVE  /\ call'[c].step = call[c].step /\ call'[c].id = call[c].id
               /\ call'[c].ask = call[c].ask
    BY <1>0, <1>3 DEF Tick, Shaped, CallRecord
  <2> QED BY <1>1, <2>1 DEF SuspendsOwn
<1>4. CASE Crash
  <2>1. ASSUME NEW c \in Calls PROVE call'[c] = call[c] \/ call'[c].step = "dead"
    BY <1>0, <1>4 DEF Crash, Shaped, CallRecord
  <2> QED BY <1>1, <2>1 DEF SuspendsOwn
<1>5. ASSUME UNCHANGED call PROVE SuspendsOwn'
  BY <1>1, <1>5 DEF SuspendsOwn
<1>6. ASSUME NEW i \in Ids, NEW answer, Decide(i, answer) \/ Expire(i) \/ GiveBack(i)
      PROVE  SuspendsOwn'
  BY <1>5, <1>6 DEF Decide, Expire, GiveBack
<1>7. ASSUME NEW r \in Runs, NEW s \in Moves, Elsewhere(r, s) PROVE SuspendsOwn'
  BY <1>5, <1>7 DEF Elsewhere
<1>8. CASE UNCHANGED vars
  BY <1>5, <1>8 DEF vars
<1> QED BY <1>2, <1>3, <1>4, <1>6, <1>7, <1>8 DEF Next

LEMMA SoundNext == Sound /\ [Next]_vars => Sound'
BY GuardedNext, SpentNext, SuspendsNext DEF Sound

\* A request that will end the wait of its run: it is open, its answer is still
\* to be carried out, or it is approved and a call has yet to spend it or to move
\* the run on.
EndsWait(i) ==
  \/ req[i].status = "pending"
  \/ i \in owed
  \/ req[i].status = "approved" /\ ~req[i].consumed
  \/ \E c \in Calls : call[c].step = "resume" /\ call[c].id = i

\* What callers, people and time do while the process lives.
Living ==
  \/ \E c \in Calls : Begin(c) \/ Progress(c) \/ Abort(c)
  \/ \E i \in Ids : \/ \E answer \in {"approved", "declined"} : Decide(i, answer)
                    \/ Expire(i) \/ GiveBack(i)
  \/ Tick

\* Such a request remains one until the run is moved on.
LEMMA EndsWaitNext ==
  ASSUME Sound, Living, NEW i \in Ids, EndsWait(i)
  PROVE  \/ EndsWait(i)'
         \/ GiveBack(i)
         \/ \E c \in Calls : Resume(c) /\ call[c].id = i
<1>0. Shaped /\ Aimed /\ SpentApproved /\ \A j \in Ids : req[j] \in Request
  BY IdsAreIndices DEF Sound, Guarded
<1>1. [Next]_vars /\ RequestStep
  BY <1>0, RequestsKept DEF Living, Next
\* A caller at resume stays there until it moves the run.
<1>2. ASSUME NEW c \in Calls, Begin(c) \/ Progress(c) \/ Abort(c),
             NEW d \in Calls, call[d].step = "resume", call[d].id = i
      PROVE  \/ call'[d].step = "resume" /\ call'[d].id = i
             \/ Resume(d)
  BY <1>0, <1>2, OneCaller
<1>3. ASSUME NEW c \in Calls, Begin(c) \/ Progress(c) \/ Abort(c), owed' = owed,
             req'[i].status = req[i].status, req'[i].consumed = req[i].consumed
      PROVE  EndsWait(i)' \/ \E d \in Calls : Resume(d) /\ call[d].id = i
  BY <1>2, <1>3 DEF EndsWait
<1>4. ASSUME UNCHANGED call, \/ UNCHANGED <<req, owed>>
                             \/ /\ req'[i].status = req[i].status
                                /\ req'[i].consumed = req[i].consumed
                                /\ owed \subseteq owed'
      PROVE  EndsWait(i)'
  BY <1>4 DEF EndsWait
<1>5. ASSUME NEW c \in Calls, Consume(c)
      PROVE  EndsWait(i)' \/ \E d \in Calls : Resume(d) /\ call[d].id = i
  <2>1. CASE UNCHANGED req
    BY <1>3, <1>5, <2>1 DEF Progress, Consume
  <2>2. CASE /\ req' = [req EXCEPT ![call[c].id] = [@ EXCEPT !.consumed = TRUE]]
             /\ Goto(c, "resume")
    <3>1. call[c].id \in Ids /\ DOMAIN req = Ids
      BY <1>0, <1>5 DEF Aimed, Consume, Shaped, Ids
    <3>2. CASE i = call[c].id
      <4>1. call'[c].step = "resume" /\ call'[c].id = i
        BY <1>0, <2>2, <3>2, GotoEffect
      <4> QED BY <4>1 DEF EndsWait
    <3>3. CASE i # call[c].id
      <4>1. req'[i] = req[i]
        BY <2>2, <3>1, <3>3
      <4> QED BY <1>3, <1>5, <4>1 DEF Progress, Consume
    <3> QED BY <3>2, <3>3
  <2> QED BY <1>5, <2>1, <2>2 DEF Consume
<1>6. ASSUME NEW c \in Calls, Insert(c)
      PROVE  EndsWait(i)' \/ \E d \in Calls : Resume(d) /\ call[d].id = i
  <2>1. PICK x : req' = Append(req, x)
    BY <1>6 DEF Insert
  <2>2. req'[i] = req[i]
    BY <1>0, <2>1 DEF Shaped, Ids
  <2> QED BY <1>3, <1>6, <2>2 DEF Progress, Insert
<1>7. ASSUME NEW c \in Calls, Begin(c) \/ Resume(c) \/ Act(c) \/ Select(c)
             \/ Suspend(c) \/ PollApproved(c) \/ PollRefused(c) \/ Abort(c)
      PROVE  EndsWait(i)' \/ \E d \in Calls : Resume(d) /\ call[d].id = i
  <2>1. UNCHANGED <<req, owed>> /\ (Begin(c) \/ Progress(c) \/ Abort(c))
    BY <1>7 DEF Begin, Resume, Act, Select, Suspend, PollApproved, PollRefused, Abort,
                Progress
  <2> QED BY <1>3, <2>1
\* An answer leaves something that ends the wait.
<1>8. ASSUME NEW j \in Ids, NEW st,
             req' = [req EXCEPT ![j] = [@ EXCEPT !.status = st]], UNCHANGED call,
             owed \subseteq owed', req[j].status = "pending", st = "approved" \/ j \in owed'
      PROVE  EndsWait(i)'
  <2>1. DOMAIN req = Ids
    BY <1>0 DEF Shaped, Ids
  <2>2. CASE i # j
    BY <1>4, <1>8, <2>1, <2>2
  <2>3. CASE i = j
    <3>1. req'[i].status = st /\ req'[i].consumed = req[i].consumed
      BY <1>0, <1>8, <2>1, <2>3 DEF Request
    <3>2. ~req[i].consumed
      BY <1>0, <1>8, <2>3 DEF SpentApproved
    <3> QED BY <1>8, <2>3, <3>1, <3>2 DEF EndsWait
  <2> QED BY <2>2, <2>3
<1>9. ASSUME NEW j \in Ids, NEW answer \in {"approved", "declined"}, Decide(j, answer)
      PROVE  EndsWait(i)'
  BY <1>8, <1>9 DEF Decide
<1>10. ASSUME NEW j \in Ids, Expire(j) PROVE EndsWait(i)'
  BY <1>8, <1>10 DEF Expire, Lapsed
<1>11. ASSUME NEW j \in Ids, GiveBack(j) PROVE EndsWait(i)' \/ GiveBack(i)
  BY <1>11 DEF GiveBack, EndsWait
<1>12. CASE Tick
  <2>1. req'[i].status = req[i].status /\ req'[i].consumed = req[i].consumed
    BY <1>0, <1>12 DEF Tick, Request
  <2>2. ASSUME NEW c \in Calls PROVE call'[c].step = call[c].step /\ call'[c].id = call[c].id
    BY <1>0, <1>12 DEF Tick, Shaped, CallRecord
  <2>3. owed' = owed
    BY <1>12 DEF Tick
  <2> QED BY <2>1, <2>2, <2>3 DEF EndsWait
<1> QED
  BY <1>5, <1>6, <1>7, <1>9, <1>10, <1>11, <1>12 DEF Living, Progress

=============================================================================
