------------------------ MODULE ConnectorSyncsProofs ------------------------
(***************************************************************************)
(* The index keeps up with the cursor, and the lease of the connector and  *)
(* its open sync run are one, for any number of workers, documents,        *)
(* changes and claims, and whatever fails.                                 *)
(*                                                                         *)
(* Paged says what a batch holds of the changes between its two positions; *)
(* Behind, that the execution with the lease never begins beyond the       *)
(* cursor unless another has written: with them the documents stay ahead   *)
(* of the cursor across a write.                                           *)
(*                                                                         *)
(* The last section is about what keeps a worker from polling (Manned): an *)
(* execution of its own that is still at work.                             *)
(***************************************************************************)
EXTENDS ConnectorSyncs, TLAPS

Steps == {"none", "starting", "over"} \cup Executing
InstanceRecord == [status : {"pending", "running", "succeeded", "failed"}, due : BOOLEAN,
                   owner : Workers \cup {Nobody}, lapsed : BOOLEAN]
WorkerRecord == [mode : {"up", "stopping", "gone"}, polls : Nat,
                 active : Syncs \cup {None}, controller : Syncs \cup {None},
                 awaits : Syncs \cup {None}]
JobRecord(e) == [worker : Workers \cup {Nobody}, step : Steps,
                 from : 0..e, upto : 0..e, batch : [Docs -> 0..e],
                 missed : SUBSET (1..Len(Log))]
BudgetRecord == [polls : Nat, syncs : 0..MaxSyncs, changes : Nat,
                 asks : Nat, stops : Nat, faults : Nat]

\* What has begun has a worker.
Named == \A i \in Syncs : job[i].step # "none" => job[i].worker \in Workers

Typed == TypeOK /\ Named

\* The document of the change was there when the change, or a later one, was the last.
Held(k) == \E j \in k..end : Log[j] = Log[k] /\ j \notin Deletions

\* A batch has every change between its positions but those it missed, and of nothing
\* older than them.
Paged ==
  \A i \in Syncs : job[i].step = "persisting" =>
    /\ \A k \in 1..Len(Log) : job[i].from < k /\ k <= job[i].upto =>
          job[i].batch[Log[k]] >= k \/ (k \in job[i].missed /\ Held(k))
    /\ \A d \in Docs : job[i].batch[d] # 0 => job[i].batch[d] > job[i].from

\* Where nobody has written without the lease, who has it begins at the cursor.
Pending == {"discovering", "persisting"}
Behind ==
  ~overtaken /\ holder # None /\ job[holder].step \in Pending => job[holder].from <= cursor

Kept == Paged /\ Behind /\ ChangesKept

Inv == Typed /\ Kept /\ OpenRunHeld

----------------------------------------------------------------------------
(* Typing *)

LEMMA Shape ==
  TypeOK <=>
    /\ instance \in InstanceRecord
    /\ syncRun \in [Syncs -> {"none", "running", "succeeded", "failed"}]
    /\ end \in 0..Len(Log) /\ cursor \in 0..end /\ docs \in [Docs -> 0..end]
    /\ worker \in [Workers -> WorkerRecord]
    /\ job \in [Syncs -> JobRecord(end)]
    /\ budget \in BudgetRecord
    /\ holder \in Syncs \cup {None} /\ detached \subseteq Syncs /\ robbed \subseteq Syncs
    /\ overtaken \in BOOLEAN /\ undercut \in BOOLEAN /\ skipped \subseteq 1..Len(Log)
BY DEF TypeOK, InstanceRecord, WorkerRecord, JobRecord, BudgetRecord, Steps

LEMMA NextShape ==
  ASSUME instance' \in InstanceRecord,
         syncRun' \in [Syncs -> {"none", "running", "succeeded", "failed"}],
         end' \in 0..Len(Log), cursor' \in 0..end', docs' \in [Docs -> 0..end'],
         worker' \in [Workers -> WorkerRecord],
         job' \in [Syncs -> JobRecord(end')],
         budget' \in BudgetRecord,
         holder' \in Syncs \cup {None}, detached' \subseteq Syncs, robbed' \subseteq Syncs,
         overtaken' \in BOOLEAN, undercut' \in BOOLEAN, skipped' \subseteq 1..Len(Log)
  PROVE  TypeOK'
BY DEF TypeOK, InstanceRecord, WorkerRecord, JobRecord, BudgetRecord, Steps

At(w, step) == [Idle EXCEPT !.worker = w, !.step = step]

LEMMA LogTyped == /\ Len(Log) \in Nat
                  /\ \A k \in 1..Len(Log) : Log[k] \in Docs
BY LogAssumption

LEMMA Records ==
  ASSUME NEW e \in Nat
  PROVE  /\ Fresh \in WorkerRecord /\ [Fresh EXCEPT !.mode = "gone"] \in WorkerRecord
         /\ Idle \in JobRecord(e)
         /\ \A w \in Workers \cup {Nobody}, step \in Steps :
              At(w, step) \in JobRecord(e) /\ At(w, step).worker = w /\ At(w, step).step = step
         /\ \A status \in {"pending", "succeeded", "failed"}, due \in BOOLEAN :
              Row(status, due) \in InstanceRecord /\ Row(status, due).status = status
<1>1. 0 \in 0..e /\ NoBatch \in [Docs -> 0..e]
  BY DEF NoBatch
<1>2. Idle \in JobRecord(e)
  BY <1>1 DEF Idle, JobRecord, Steps
<1>3. \A w \in Workers \cup {Nobody}, step \in Steps :
        At(w, step) \in JobRecord(e) /\ At(w, step).worker = w /\ At(w, step).step = step
  BY <1>1 DEF At, Idle, JobRecord
<1>4. Fresh \in WorkerRecord /\ [Fresh EXCEPT !.mode = "gone"] \in WorkerRecord
  BY DEF Fresh, WorkerRecord
<1>5. \A status \in {"pending", "succeeded", "failed"}, due \in BOOLEAN :
        Row(status, due) \in InstanceRecord /\ Row(status, due).status = status
  BY DEF Row, InstanceRecord
<1>. QED
  BY <1>2, <1>3, <1>4, <1>5

\* A step spends from one part of the budget.
LEMMA Spending ==
  ASSUME TypeOK, NEW what \in {"syncs", "changes", "asks", "stops", "faults"}, Spend(what)
  PROVE  budget' \in BudgetRecord
<1>1. budget \in BudgetRecord /\ MaxSyncs \in Nat
  BY Shape, BoundsAssumption
<1>2. budget' = [budget EXCEPT ![what] = budget[what] - 1] /\ budget[what] > 0
  BY DEF Spend
<1>3. what = "syncs" => budget[what] - 1 \in 0..MaxSyncs
  BY <1>1, <1>2 DEF BudgetRecord
<1>4. budget[what] - 1 \in Nat
  BY <1>1, <1>2 DEF BudgetRecord
<1>. QED
  BY <1>1, <1>2, <1>3, <1>4 DEF BudgetRecord

\* An execution that turns to another step.
LEMMA Turning ==
  ASSUME TypeOK, NEW i \in Syncs, NEW j \in JobRecord(end), job' = [job EXCEPT ![i] = j]
  PROVE  /\ job' \in [Syncs -> JobRecord(end)]
         /\ job'[i] = j /\ \A k \in Syncs \ {i} : job'[k] = job[k]
BY Shape

LEMMA Going ==
  ASSUME Typed, NEW i \in Syncs, NEW step \in Steps, job[i].step # "none", Goto(i, step)
  PROVE  /\ job' \in [Syncs -> JobRecord(end)]
         /\ job'[i].step = step /\ job'[i].worker = job[i].worker
         /\ \A k \in Syncs \ {i} : job'[k] = job[k]
<1>1. job[i].worker \in Workers /\ end \in Nat
  BY Shape, LogTyped DEF Typed, Named
<1>. DEFINE j == At(job[i].worker, step)
<1>2. j \in JobRecord(end) /\ j.worker = job[i].worker /\ j.step = step
  BY <1>1, Records
<1>3. job' = [job EXCEPT ![i] = j]
  BY DEF Goto, At
<1>. HIDE DEF j
<1>. QED
  BY <1>2, <1>3, Turning DEF Typed

\* A worker whose record becomes another.
LEMMA Working ==
  ASSUME TypeOK, NEW w \in Workers, NEW r \in WorkerRecord, worker' = [worker EXCEPT ![w] = r]
  PROVE  worker' \in [Workers -> WorkerRecord]
BY Shape

LEMMA Ending ==
  ASSUME Typed, NEW i \in Syncs, job[i].step # "none", End(i)
  PROVE  /\ worker' \in [Workers -> WorkerRecord]
         /\ job' \in [Syncs -> JobRecord(end)]
         /\ job'[i].step = "over" /\ job'[i].worker = job[i].worker
         /\ \A k \in Syncs \ {i} : job'[k] = job[k]
<1>. DEFINE w == job[i].worker
            c == IF worker[w].controller = i THEN None ELSE worker[w].controller
            r == [worker[w] EXCEPT !.active = None, !.controller = c]
<1>1. w \in Workers /\ worker[w] \in WorkerRecord
  BY Shape DEF Typed, Named
<1>2. r \in WorkerRecord
  BY <1>1 DEF WorkerRecord
<1>3. worker' = [worker EXCEPT ![w] = r]
  BY DEF End
<1>4. worker' \in [Workers -> WorkerRecord]
  <2>. HIDE DEF r
  <2>. QED  BY <1>1, <1>2, <1>3, Working DEF Typed
<1>5. Goto(i, "over") /\ "over" \in Steps
  BY DEF End, Steps
<1>. QED
  BY <1>4, <1>5, Going

LEMMA TypedInit == Init => Typed
<1>. SUFFICES ASSUME NEW scene \in Scenes, InitScene(scene)
              PROVE  Typed
  BY DEF Init
<1>1. /\ scene.up \subseteq Workers /\ scene.reader \in Workers \cup {Nobody}
      /\ scene.end \in 0..Len(Log) /\ scene.budget \in BudgetRecord
      /\ scene.reader # Nobody => 1 \in Syncs
  BY ScenesAssumption, BoundsAssumption DEF BudgetRecord, Syncs
<1>2. end = scene.end /\ end \in Nat
  BY <1>1, LogTyped DEF InitScene
<1>3. instance \in InstanceRecord
  <2>1. CASE scene.reader = Nobody
    BY <2>1, Records, <1>2 DEF InitScene
  <2>2. CASE scene.reader # Nobody
    BY <2>2, <1>1 DEF InitScene, InstanceRecord, Row
  <2>. QED  BY <2>1, <2>2
<1>4. worker \in [Workers -> WorkerRecord]
  <2>1. \A v \in Workers : worker[v] = Fresh \/ worker[v] = [Fresh EXCEPT !.mode = "gone"]
                           \/ (v = scene.reader /\ worker[v] = [Fresh EXCEPT !.active = 1, !.controller = 1])
    BY DEF InitScene
  <2>2. \A v \in Workers : v = scene.reader => [Fresh EXCEPT !.active = 1, !.controller = 1] \in WorkerRecord
    BY <1>1, NobodyAssumption DEF Fresh, WorkerRecord
  <2>. HIDE DEF WorkerRecord
  <2>3. \A v \in Workers : worker[v] \in WorkerRecord
    BY <2>1, <2>2, <1>2, Records
  <2>. QED  BY <2>3 DEF InitScene
<1>5. \A i \in Syncs : job[i] \in JobRecord(end) /\ (job[i].step # "none" => job[i].worker \in Workers)
  <2>. SUFFICES ASSUME NEW i \in Syncs
                PROVE  job[i] \in JobRecord(end) /\ (job[i].step # "none" => job[i].worker \in Workers)
    OBVIOUS
  <2>1. CASE i = 1 /\ scene.reader # Nobody
    <3>1. job[i] = At(scene.reader, "discovering") /\ "discovering" \in Steps
      BY <2>1 DEF InitScene, Reading, At, Steps, Executing
    <3>. QED  BY <3>1, <1>1, <1>2, <2>1, Records
  <2>2. CASE ~(i = 1 /\ scene.reader # Nobody)
    <3>1. job[i] = Idle /\ Idle.step = "none"
      BY <2>2 DEF InitScene, Idle
    <3>. QED  BY <3>1, <1>2, Records
  <2>. QED  BY <2>1, <2>2
<1>6. job \in [Syncs -> JobRecord(end)]
  BY <1>5 DEF InitScene
<1>7. /\ syncRun \in [Syncs -> {"none", "running", "succeeded", "failed"}]
      /\ holder \in Syncs \cup {None} /\ detached \subseteq Syncs /\ robbed \subseteq Syncs
      /\ overtaken \in BOOLEAN /\ undercut \in BOOLEAN /\ skipped \subseteq 1..Len(Log)
  BY <1>1 DEF InitScene
<1>8. cursor \in 0..end /\ docs \in [Docs -> 0..end] /\ budget \in BudgetRecord
  BY <1>1, <1>2 DEF InitScene, NoBatch
<1>. QED
  BY <1>1, <1>2, <1>3, <1>4, <1>5, <1>6, <1>7, <1>8, Shape DEF Typed, Named

\* Whose execution is what it was, or goes on with its worker.
LEMMA StillNamed ==
  ASSUME Named, NEW i \in Syncs, job[i].step # "none", job'[i].worker = job[i].worker,
         \A k \in Syncs \ {i} : job'[k] = job[k]
  PROVE  Named'
BY DEF Named

LEMMA TypedLease ==
  ASSUME Typed, NEW w \in Workers, NEW i \in Syncs, NEW step \in {"starting", "over"},
         Lease(w, i, step), budget' \in BudgetRecord
  PROVE  Typed'
<1>1. end \in Nat /\ step \in Steps
  BY Shape, LogTyped DEF Typed, Steps
<1>2. /\ job' \in [Syncs -> JobRecord(end)] /\ job'[i] = At(w, step)
      /\ \A k \in Syncs \ {i} : job'[k] = job[k]
  <2>1. job' = [job EXCEPT ![i] = At(w, step)]
    BY DEF Lease, At
  <2>2. At(w, step) \in JobRecord(end)
    BY <1>1, Records
  <2>. QED  BY <2>1, <2>2, Turning DEF Typed
<1>3. Named'
  BY <1>1, <1>2, Records DEF Named, Typed
<1>4. instance' \in InstanceRecord
  BY Shape DEF Lease, Typed, InstanceRecord
<1>5. syncRun' \in [Syncs -> {"none", "running", "succeeded", "failed"}]
  BY Shape DEF Lease, Recovered, Typed
<1>6. worker' \in [Workers -> WorkerRecord]
  <2>1. worker[w] \in WorkerRecord /\ worker[w].polls > 0
    BY Shape DEF Typed, Lease
  <2>2. [worker[w] EXCEPT !.polls = @ - 1] \in WorkerRecord
    BY <2>1 DEF WorkerRecord
  <2>3. worker' = [worker EXCEPT ![w] = [worker[w] EXCEPT !.polls = @ - 1]]
    BY <2>1, Shape DEF Lease, Typed
  <2>. QED  BY <2>2, <2>3, Working DEF Typed
<1>. QED
  BY <1>2, <1>3, <1>4, <1>5, <1>6, Shape, NextShape DEF Lease, Typed, index

\* An answer to a poll, or a poll: the rest of the worker is as it was.
LEMMA TypedPolls ==
  ASSUME Typed, NEW w \in Workers, Poll(w) \/ ClaimNothing(w) \/ ClaimFails(w)
  PROVE  Typed'
<1>1. worker[w] \in WorkerRecord
  BY Shape DEF Typed
<1>2. PICK n \in Nat : worker' = [worker EXCEPT ![w] = [worker[w] EXCEPT !.polls = n]]
  <2>1. CASE Poll(w)
    <3>1. worker[w].polls + 1 \in Nat
      BY <1>1 DEF WorkerRecord
    <3>2. worker' = [worker EXCEPT ![w] = [worker[w] EXCEPT !.polls = worker[w].polls + 1]]
      BY <2>1, <1>1, Shape DEF Poll, Typed, WorkerRecord
    <3>. QED  BY <3>1, <3>2
  <2>2. CASE ClaimNothing(w) \/ ClaimFails(w)
    <3>1. worker[w].polls - 1 \in Nat
      BY <2>2, <1>1 DEF WorkerRecord, ClaimNothing, ClaimFails
    <3>2. worker' = [worker EXCEPT ![w] = [worker[w] EXCEPT !.polls = worker[w].polls - 1]]
      BY <2>2, <1>1, Shape DEF ClaimNothing, ClaimFails, Typed, WorkerRecord
    <3>. QED  BY <3>1, <3>2
  <2>. QED  BY <2>1, <2>2
<1>3. [worker[w] EXCEPT !.polls = n] \in WorkerRecord
  BY <1>1 DEF WorkerRecord
<1>4. worker' \in [Workers -> WorkerRecord]
  BY <1>2, <1>3, Working DEF Typed
<1>5. budget' \in BudgetRecord
  BY Spending, Shape DEF Poll, ClaimNothing, ClaimFails, Typed
<1>6. UNCHANGED <<instance, syncRun, index, job, history>>
  BY DEF Poll, ClaimNothing, ClaimFails
<1>. QED
  BY <1>4, <1>5, <1>6, Shape, NextShape DEF Typed, Named, index, history

LEMMA TypedBegin ==
  ASSUME Typed, NEW i \in Syncs, Begin(i)
  PROVE  Typed'
<1>. DEFINE w == job[i].worker
            r == [worker[w] EXCEPT !.active = i, !.controller = i]
<1>1. job[i].step # "none" /\ "reading" \in Steps
  BY DEF Begin, Steps, Executing
<1>2. /\ job' \in [Syncs -> JobRecord(end)] /\ job'[i].worker = w
      /\ \A k \in Syncs \ {i} : job'[k] = job[k]
  BY <1>1, Going DEF Begin
<1>3. w \in Workers /\ worker[w] \in WorkerRecord
  BY <1>1, Shape DEF Typed, Named
<1>4. r \in WorkerRecord
  BY <1>3 DEF WorkerRecord
<1>5. worker' = [worker EXCEPT ![w] = r]
  BY DEF Begin
<1>6. worker' \in [Workers -> WorkerRecord]
  <2>. HIDE DEF r
  <2>. QED  BY <1>3, <1>4, <1>5, Working DEF Typed
<1>7. Named'
  BY <1>1, <1>2, StillNamed DEF Typed
<1>. QED
  BY <1>2, <1>6, <1>7, Shape, NextShape DEF Begin, Typed, index, history

LEMMA TypedInstance ==
  ASSUME Typed, (\E i \in Syncs : Heartbeat(i)) \/ LeaseLapses \/ FallsDue \/ Configure
  PROVE  Typed'
<1>1. instance' \in InstanceRecord
  <2>1. \A i \in BOOLEAN : [instance EXCEPT !.lapsed = i] \in InstanceRecord
                           /\ [instance EXCEPT !.due = i] \in InstanceRecord
    BY Shape DEF Typed, InstanceRecord
  <2>2. Row("pending", TRUE) \in InstanceRecord
    BY DEF Row, InstanceRecord
  <2>. QED
    BY <2>1, <2>2 DEF Heartbeat, LeaseLapses, FallsDue, Configure
<1>2. budget' \in BudgetRecord
  BY Spending, Shape DEF Heartbeat, LeaseLapses, FallsDue, Configure, Typed
<1>3. holder' \in Syncs \cup {None} /\ detached' \subseteq Syncs /\ robbed' \subseteq Syncs
  BY Shape DEF Heartbeat, LeaseLapses, FallsDue, Configure, Typed, history
<1>4. UNCHANGED <<syncRun, index, worker, job, overtaken, undercut, skipped>>
  BY DEF Heartbeat, LeaseLapses, FallsDue, Configure, history
<1>. QED
  BY <1>1, <1>2, <1>3, <1>4, Shape, NextShape DEF Typed, Named, index

\* What an execution holds that has read a page.
LEMMA Discovered ==
  ASSUME Typed, NEW i \in Syncs, Discover(i)
  PROVE  /\ job' \in [Syncs -> JobRecord(end)]
         /\ \A k \in Syncs \ {i} : job'[k] = job[k]
         /\ job'[i].step = "persisting" /\ job'[i].worker = job[i].worker
         /\ job'[i].from = job[i].from /\ job'[i].upto \in job[i].from..end
         /\ \E passed \in SUBSET Docs :
              /\ \A d \in passed : There(d)
              /\ Page(job[i].from, job'[i].upto, passed, job'[i].batch)
              /\ job'[i].missed = {k \in (job[i].from + 1)..job'[i].upto : Log[k] \in passed}
<1>1. /\ job[i] \in JobRecord(end) /\ job \in [Syncs -> JobRecord(end)]
      /\ end \in Nat /\ end <= Len(Log) /\ job[i].from \in 0..end
  BY Shape, LogTyped DEF Typed, JobRecord
<1>2. PICK n \in job[i].from..end :
        \E passed \in SUBSET {d \in Listed(job[i].from, n) : There(d)}, batch \in [Docs -> 0..end] :
          /\ Page(job[i].from, n, passed, batch)
          /\ job' = [job EXCEPT ![i] = [job[i] EXCEPT
               !.step = "persisting", !.upto = n, !.batch = batch,
               !.missed = {k \in (job[i].from + 1)..n : Log[k] \in passed}]]
  BY <1>1 DEF Discover, NextToken
<1>3. PICK passed \in SUBSET {d \in Listed(job[i].from, n) : There(d)}, batch \in [Docs -> 0..end] :
        /\ Page(job[i].from, n, passed, batch)
        /\ job' = [job EXCEPT ![i] = [job[i] EXCEPT
             !.step = "persisting", !.upto = n, !.batch = batch,
             !.missed = {k \in (job[i].from + 1)..n : Log[k] \in passed}]]
  BY <1>2
<1>. DEFINE missed == {k \in (job[i].from + 1)..n : Log[k] \in passed}
            j == [job[i] EXCEPT !.step = "persisting", !.upto = n, !.batch = batch,
                                !.missed = missed]
<1>4. n \in 0..end /\ missed \subseteq 1..Len(Log)
  BY <1>1, LogTyped
<1>5. /\ j \in JobRecord(end) /\ j.step = "persisting" /\ j.worker = job[i].worker
      /\ j.from = job[i].from /\ j.upto = n /\ j.batch = batch /\ j.missed = missed
  <2>. HIDE DEF missed
  <2>. QED  BY <1>1, <1>4 DEF JobRecord, Steps, Executing
<1>6. job' = [job EXCEPT ![i] = j]
  BY <1>3
<1>7. /\ job' \in [Syncs -> JobRecord(end)] /\ job'[i] = j
      /\ \A k \in Syncs \ {i} : job'[k] = job[k]
  <2>. HIDE DEF j
  <2>. QED  BY <1>5, <1>6, Turning DEF Typed
<1>8. passed \in SUBSET Docs /\ \A d \in passed : There(d)
  BY <1>3 DEF Listed
<1>. HIDE DEF j
<1>. QED
  BY <1>3, <1>5, <1>7, <1>8

\* An execution turns to failing, or to the source.
LEMMA TypedTurn ==
  ASSUME Typed, NEW i \in Syncs, Abort(i) \/ Fails(i) \/ ReadCursor(i) \/ Discover(i)
  PROVE  Typed'
<1>1. job[i].step # "none" /\ job[i] \in JobRecord(end) /\ end \in Nat
  <2>1. job[i].step \in Executing
    BY DEF Abort, Fails, ReadCursor, Discover, Executing
  <2>. QED  BY <2>1, Shape, LogTyped DEF Executing, Typed
<1>2. /\ job' \in [Syncs -> JobRecord(end)] /\ job'[i].worker = job[i].worker
      /\ \A k \in Syncs \ {i} : job'[k] = job[k]
  <2>1. CASE Abort(i) \/ Fails(i)
    BY <2>1, <1>1, Going DEF Abort, Fails, Steps, Executing
  <2>2. CASE ReadCursor(i)
    <3>. DEFINE j == [job[i] EXCEPT !.step = "discovering", !.from = cursor]
    <3>1. j \in JobRecord(end) /\ j.worker = job[i].worker
      BY <1>1, Shape DEF JobRecord, Steps, Executing, Typed
    <3>2. job' = [job EXCEPT ![i] = j]
      BY <2>2 DEF ReadCursor
    <3>. HIDE DEF j
    <3>. QED  BY <3>1, <3>2, Turning DEF Typed
  <2>3. CASE Discover(i)
    BY <2>3, Discovered
  <2>. QED  BY <2>1, <2>2, <2>3
<1>3. budget' \in BudgetRecord
  BY Spending, Shape DEF Abort, Fails, ReadCursor, Discover, Typed
<1>4. Named'
  BY <1>1, <1>2, StillNamed DEF Typed
<1>5. UNCHANGED <<instance, syncRun, index, worker, history>>
  BY DEF Abort, Fails, ReadCursor, Discover
<1>. QED
  BY <1>2, <1>3, <1>4, <1>5, Shape, NextShape DEF Typed, index, history

LEMMA TypedPersist ==
  ASSUME Typed, NEW i \in Syncs, Persist(i)
  PROVE  Typed'
<1>1. job[i].step # "none" /\ job[i] \in JobRecord(end) /\ end \in Nat
  BY Shape, LogTyped DEF Persist, Typed
<1>2. /\ job' \in [Syncs -> JobRecord(end)] /\ job'[i].worker = job[i].worker
      /\ \A k \in Syncs \ {i} : job'[k] = job[k]
  BY <1>1, Going DEF Persist, Steps, Executing
<1>3. Named'
  BY <1>1, <1>2, StillNamed DEF Typed
<1>4. docs' \in [Docs -> 0..end] /\ cursor' \in 0..end
  BY <1>1, Shape DEF Persist, JobRecord, Typed
<1>5. skipped' \subseteq 1..Len(Log)
  BY <1>1, Shape DEF Persist, JobRecord, Typed
<1>. QED
  BY <1>2, <1>3, <1>4, <1>5, Shape, NextShape DEF Persist, Typed

LEMMA TypedSettle ==
  ASSUME Typed, NEW i \in Syncs, NEW outcome \in {"succeeded", "failed"}, Settle(i, outcome)
  PROVE  /\ instance' \in InstanceRecord
         /\ syncRun' \in [Syncs -> {"none", "running", "succeeded", "failed"}]
         /\ holder' \in Syncs \cup {None} /\ robbed' \subseteq Syncs
<1>1. 0 \in Nat
  OBVIOUS
<1>. QED
  BY <1>1, Records, Shape DEF Settle, Typed

LEMMA TypedEnd ==
  ASSUME Typed, NEW i \in Syncs, Finish(i) \/ FinishFailed(i) \/ Over(i) \/ FinishBreaks(i)
  PROVE  Typed'
<1>1. job[i].step # "none"
  BY DEF Finish, FinishFailed, Over, FinishBreaks
<1>2. /\ job' \in [Syncs -> JobRecord(end)] /\ job'[i].worker = job[i].worker
      /\ \A k \in Syncs \ {i} : job'[k] = job[k]
      /\ worker' \in [Workers -> WorkerRecord]
  <2>1. CASE Finish(i)
    BY <2>1, <1>1, Going, Shape DEF Finish, Steps, Executing, Typed
  <2>2. CASE FinishFailed(i) \/ Over(i) \/ FinishBreaks(i)
    BY <2>2, <1>1, Ending DEF FinishFailed, Over, FinishBreaks
  <2>. QED  BY <2>1, <2>2
<1>3. Named'
  BY <1>1, <1>2, StillNamed DEF Typed
<1>4. /\ instance' \in InstanceRecord
      /\ syncRun' \in [Syncs -> {"none", "running", "succeeded", "failed"}]
      /\ holder' \in Syncs \cup {None} /\ robbed' \subseteq Syncs
  BY TypedSettle, Shape DEF Finish, FinishFailed, Over, FinishBreaks, Typed, history
<1>5. budget' \in BudgetRecord
  BY Spending, Shape DEF Finish, FinishFailed, Over, FinishBreaks, Typed
<1>6. UNCHANGED <<index, detached, overtaken, undercut, skipped>>
  BY DEF Finish, FinishFailed, Over, FinishBreaks, history
<1>. QED
  BY <1>2, <1>3, <1>4, <1>5, <1>6, Shape, NextShape DEF Typed, index

LEMMA TypedProcess ==
  ASSUME Typed, NEW w \in Workers, Stop(w) \/ Exit(w) \/ Crash(w)
  PROVE  Typed'
<1>1. end \in Nat /\ worker[w] \in WorkerRecord
  BY Shape, LogTyped DEF Typed
<1>2. worker' \in [Workers -> WorkerRecord]
  <2>1. CASE Stop(w)
    <3>. DEFINE r == [worker[w] EXCEPT !.mode = "stopping", !.awaits = worker[w].active]
    <3>1. r \in WorkerRecord
      BY <1>1 DEF WorkerRecord
    <3>2. worker' = [worker EXCEPT ![w] = r]
      BY <2>1 DEF Stop
    <3>. HIDE DEF r
    <3>. QED  BY <3>1, <3>2, Working DEF Typed
  <2>2. CASE Exit(w) \/ Crash(w)
    BY <2>2, <1>1, Records, Working DEF Exit, Crash, Gone, Typed
  <2>. QED  BY <2>1, <2>2
<1>3. \A i \in Syncs : /\ job'[i] \in JobRecord(end)
                       /\ job'[i].step # "none" => job'[i].worker \in Workers
  <2>1. CASE Stop(w)
    BY <2>1, Shape DEF Stop, Typed, Named
  <2>2. CASE Gone(w)
    <3>. SUFFICES ASSUME NEW i \in Syncs
                  PROVE  /\ job'[i] \in JobRecord(end)
                         /\ job'[i].step # "none" => job'[i].worker \in Workers
      OBVIOUS
    <3>1. job'[i] = IF job[i].worker # w THEN job[i] ELSE At(w, "over")
      BY <2>2 DEF Gone, At
    <3>2. "over" \in Steps
      BY DEF Steps
    <3>. QED  BY <3>1, <3>2, <1>1, Records, Shape DEF Typed, Named
  <2>. QED  BY <2>1, <2>2 DEF Exit, Crash
<1>4. job' \in [Syncs -> JobRecord(end)]
  <2>1. job' = [i \in Syncs |-> job'[i]]
    BY Shape DEF Stop, Exit, Crash, Gone, Typed
  <2>. QED  BY <2>1, <1>3
<1>5. budget' \in BudgetRecord
  BY Spending, Shape DEF Stop, Exit, Crash, Typed
<1>6. UNCHANGED <<instance, syncRun, index, history>>
  BY DEF Stop, Exit, Crash, Gone
<1>. QED
  BY <1>2, <1>3, <1>4, <1>5, <1>6, Shape, NextShape DEF Typed, Named, index, history

LEMMA TypedChange ==
  ASSUME Typed, Change
  PROVE  Typed'
<1>1. end \in Nat /\ end' = end + 1 /\ end' \in 0..Len(Log)
  BY Shape, LogTyped DEF Typed, Change
<1>2. JobRecord(end) \subseteq JobRecord(end') /\ 0..end \subseteq 0..end'
  BY <1>1 DEF JobRecord
<1>3. job' \in [Syncs -> JobRecord(end')] /\ docs' \in [Docs -> 0..end'] /\ cursor' \in 0..end'
  BY <1>2, Shape DEF Typed, Change
<1>4. budget' \in BudgetRecord
  BY Spending DEF Typed, Change
<1>. QED
  BY <1>1, <1>3, <1>4, Shape, NextShape DEF Typed, Named, Change, history

LEMMA TypedNext ==
  ASSUME Typed, [Next]_vars
  PROVE  Typed'
<1>1. CASE UNCHANGED vars
  BY <1>1 DEF vars, index, Typed, TypeOK, Named
<1>2. ASSUME NEW w \in Workers, NEW i \in Syncs, Claim(w, i)
      PROVE  Typed'
  BY <1>2, TypedLease, Spending DEF Claim, Typed
<1>3. ASSUME NEW w \in Workers, NEW i \in Syncs, ClaimUnheard(w, i)
      PROVE  Typed'
  <2>1. budget' \in BudgetRecord
    <3>1. /\ budget \in BudgetRecord /\ budget.syncs > 0 /\ budget.faults > 0
          /\ budget' = [budget EXCEPT !.syncs = budget.syncs - 1, !.faults = budget.faults - 1]
      BY <1>3, Shape DEF ClaimUnheard, Lease, Typed
    <3>2. budget.syncs - 1 \in 0..MaxSyncs /\ budget.faults - 1 \in Nat
      BY <3>1, BoundsAssumption DEF BudgetRecord
    <3>. QED  BY <3>1, <3>2 DEF BudgetRecord
  <2>. QED  BY <1>3, <2>1, TypedLease DEF ClaimUnheard
<1>4. ASSUME NEW w \in Workers, Poll(w) \/ ClaimNothing(w) \/ ClaimFails(w)
      PROVE  Typed'
  BY <1>4, TypedPolls
<1>5. ASSUME NEW w \in Workers, Stop(w) \/ Exit(w) \/ Crash(w)
      PROVE  Typed'
  BY <1>5, TypedProcess
<1>6. ASSUME NEW i \in Syncs, Begin(i) \/ Abort(i) \/ Fails(i) \/ ReadCursor(i) \/ Discover(i) \/ Persist(i)
      PROVE  Typed'
  BY <1>6, TypedBegin, TypedTurn, TypedPersist
<1>7. ASSUME NEW i \in Syncs, Finish(i) \/ FinishFailed(i) \/ Over(i) \/ FinishBreaks(i)
      PROVE  Typed'
  BY <1>7, TypedEnd
<1>8. CASE (\E i \in Syncs : Heartbeat(i)) \/ LeaseLapses \/ FallsDue \/ Configure
  BY <1>8, TypedInstance
<1>9. CASE Change
  BY <1>9, TypedChange
<1>. QED
  BY <1>1, <1>2, <1>3, <1>4, <1>5, <1>6, <1>7, <1>8, <1>9 DEF Next, Answer, Step

----------------------------------------------------------------------------
(* What is kept of the source. *)

\* Nothing is written, and who turns to another step leaves what it has read.
LEMMA Quiet ==
  ASSUME Typed, Kept, UNCHANGED <<cursor, docs, overtaken, undercut, skipped>>,
         end' = end \/ end' = end + 1,
         \A i \in Syncs : job'[i] = job[i] \/ job'[i].step \notin Pending,
         holder' \in Syncs \cup {None},
         holder' = holder \/ holder' = None \/ job'[holder'].step \notin Pending,
         holder \in Syncs \cup {None}
  PROVE  Kept'
<1>0. end \in Nat /\ \A k \in 1..Len(Log) : k..end \subseteq k..end'
  BY Shape, LogTyped DEF Typed
<1>1. Paged'
  BY <1>0 DEF Kept, Paged, Held, Pending
<1>2. Behind'
  BY DEF Kept, Behind
<1>3. ChangesKept'
  BY <1>0 DEF Kept, ChangesKept, Covered, PassedOver
<1>. QED  BY <1>1, <1>2, <1>3 DEF Kept

LEMMA KeptInit == Init => Kept
<1>. SUFFICES ASSUME NEW scene \in Scenes, InitScene(scene)
              PROVE  Kept
  BY DEF Init
<1>1. \A i \in Syncs : job[i].step # "persisting"
  BY DEF InitScene, Reading, Idle
<1>2. holder # None => job[holder].from = 0
  <2>1. scene.reader # Nobody => 1 \in Syncs
    BY ScenesAssumption, BoundsAssumption DEF Syncs
  <2>2. holder # None => holder = 1 /\ scene.reader # Nobody
    BY DEF InitScene
  <2>3. scene.reader # Nobody => job[1] = Reading(scene.reader)
    BY <2>1 DEF InitScene
  <2>. QED  BY <2>2, <2>3 DEF Reading, Idle
<1>3. Covered
  BY LogTyped DEF InitScene, Covered, NoBatch
<1>. QED
  BY <1>1, <1>2, <1>3 DEF Kept, Paged, Behind, ChangesKept, InitScene

LEMMA KeptRead ==
  ASSUME Typed, Kept, NEW i \in Syncs, ReadCursor(i)
  PROVE  Kept'
<1>1. /\ job'[i].step = "discovering" /\ job'[i].from = cursor
      /\ \A k \in Syncs \ {i} : job'[k] = job[k]
      /\ cursor \in Nat
  BY Shape, LogTyped DEF ReadCursor, Typed, JobRecord
<1>2. UNCHANGED <<cursor, docs, end, holder, overtaken, undercut, skipped>>
  BY DEF ReadCursor, index, history
<1>3. Paged'
  BY <1>1, <1>2 DEF Kept, Paged, Held
<1>4. Behind'
  BY <1>1, <1>2, Shape DEF Kept, Behind, Typed
<1>5. ChangesKept'
  BY <1>2 DEF Kept, ChangesKept, Covered, PassedOver
<1>. QED  BY <1>3, <1>4, <1>5 DEF Kept

\* The documents of a page are of its changes or later, but for those passed over.
LEMMA PageHas ==
  ASSUME NEW e \in Nat, e = end, e <= Len(Log),
         NEW low \in 0..e, NEW high \in low..e, NEW batch \in [Docs -> 0..e],
         NEW passed \in SUBSET Docs, Page(low, high, passed, batch), \A d \in passed : There(d)
  PROVE  /\ \A k \in 1..Len(Log) : low < k /\ k <= high =>
              batch[Log[k]] >= k \/ (Log[k] \in passed /\ Held(k))
         /\ \A d \in Docs : batch[d] # 0 => batch[d] > low
<1>1. ASSUME NEW k \in 1..Len(Log), low < k, k <= high
      PROVE  batch[Log[k]] >= k \/ (Log[k] \in passed /\ Held(k))
  <2>1. Log[k] \in Docs /\ k \in (low + 1)..high /\ k \in 1..end
    BY <1>1, LogTyped
  <2>2. Log[k] \in Listed(low, high)
    BY <2>1 DEF Listed
  <2>3. CASE Log[k] \notin passed
    <3>1. Current(Log[k], batch[Log[k]])
      BY <2>1, <2>2, <2>3 DEF Page
    <3>. QED  BY <2>1, <3>1 DEF Current
  <2>4. CASE Log[k] \in passed
    <3>1. PICK j \in 1..end : Log[j] = Log[k] /\ Current(Log[k], j) /\ j \notin Deletions
      BY <2>4 DEF There
    <3>2. k <= j
      BY <2>1, <3>1 DEF Current
    <3>. QED  BY <2>1, <2>4, <3>1, <3>2 DEF Held
  <2>. QED  BY <2>3, <2>4
<1>2. ASSUME NEW d \in Docs, batch[d] # 0
      PROVE  batch[d] > low
  <2>1. d \in Listed(low, high) /\ Current(d, batch[d])
    BY <1>2 DEF Page
  <2>2. PICK k \in (low + 1)..high : Log[k] = d
    BY <2>1 DEF Listed
  <2>3. k \in 1..end /\ k > low
    BY <2>2
  <2>. QED  BY <2>1, <2>2, <2>3 DEF Current
<1>. QED  BY <1>1, <1>2

LEMMA KeptDiscover ==
  ASSUME Typed, Kept, NEW i \in Syncs, Discover(i)
  PROVE  Kept'
<1>1. end \in Nat /\ end <= Len(Log) /\ job[i] \in JobRecord(end) /\ job[i].from \in 0..end
  BY Shape, LogTyped DEF Typed, JobRecord
<1>. DEFINE from == job[i].from
            upto == job'[i].upto
            batch == job'[i].batch
<1>2. /\ job' \in [Syncs -> JobRecord(end)] /\ job'[i].from = from /\ upto \in from..end
      /\ \A k \in Syncs \ {i} : job'[k] = job[k]
  BY Discovered
<1>3. PICK passed \in SUBSET Docs :
        /\ \A d \in passed : There(d)
        /\ Page(from, upto, passed, batch)
        /\ job'[i].missed = {k \in (from + 1)..upto : Log[k] \in passed}
  BY Discovered
<1>4. batch \in [Docs -> 0..end]
  BY <1>2 DEF JobRecord
<1>5. /\ \A k \in 1..Len(Log) : from < k /\ k <= upto =>
           batch[Log[k]] >= k \/ (k \in job'[i].missed /\ Held(k))
      /\ \A d \in Docs : batch[d] # 0 => batch[d] > from
  <2>. HIDE DEF from, upto, batch
  <2>1. from \in 0..end /\ upto \in from..end
    BY <1>1, <1>2 DEF from
  <2>2. /\ \A k \in 1..Len(Log) : from < k /\ k <= upto =>
             batch[Log[k]] >= k \/ (Log[k] \in passed /\ Held(k))
        /\ \A d \in Docs : batch[d] # 0 => batch[d] > from
    BY <1>1, <1>3, <1>4, <2>1, PageHas
  <2>3. \A k \in 1..Len(Log) : from < k /\ k <= upto /\ Log[k] \in passed => k \in job'[i].missed
    BY <1>1, <1>3, <2>1, LogTyped
  <2>. QED  BY <2>2, <2>3
<1>6. UNCHANGED <<cursor, docs, end, holder, overtaken, undercut, skipped>>
  BY DEF Discover, index, history
<1>7. Paged'
  BY <1>2, <1>5, <1>6 DEF Kept, Paged, Held
<1>8. Behind'
  BY <1>2, <1>6, Shape DEF Kept, Behind, Pending, Discover, Typed
<1>9. ChangesKept'
  BY <1>6 DEF Kept, ChangesKept, Covered, PassedOver
<1>. QED  BY <1>7, <1>8, <1>9 DEF Kept

LEMMA KeptPersist ==
  ASSUME Typed, Kept, NEW i \in Syncs, Persist(i)
  PROVE  Kept'
<1>1. /\ job[i].step = "persisting" /\ job[i] \in JobRecord(end) /\ end \in Nat
      /\ cursor \in 0..end /\ docs \in [Docs -> 0..end] /\ holder \in Syncs \cup {None}
      /\ overtaken \in BOOLEAN /\ undercut \in BOOLEAN
  BY Shape, LogTyped DEF Persist, Typed
<1>2. /\ job[i].from \in Nat /\ job[i].upto \in Nat /\ job[i].batch \in [Docs -> 0..end]
      /\ cursor \in Nat /\ 0..end \subseteq Nat
  BY <1>1 DEF JobRecord
<1>3. /\ job'[i].step = "finishing"
      /\ \A k \in Syncs \ {i} : job'[k] = job[k]
  BY <1>1, Going DEF Persist, Steps, Executing
<1>4. Paged'
  BY <1>3 DEF Persist, Kept, Paged, Held
<1>5. holder # i => overtaken'
  BY DEF Persist
<1>6. Behind'
  BY <1>3, <1>5 DEF Behind, Pending, Persist
<1>7. ASSUME ~undercut'
      PROVE  Covered'
  <2>1. Covered /\ cursor >= job[i].from
    <3>1. ~undercut /\ ~(cursor < job[i].from)
      BY <1>7 DEF Persist
    <3>2. cursor >= job[i].from
      BY <3>1, <1>2
    <3>. QED  BY <3>1, <3>2 DEF Kept, ChangesKept
  <2>. SUFFICES ASSUME NEW k \in 1..Len(Log), k <= job[i].upto
                PROVE  docs'[Log[k]] >= k \/ PassedOver(k)'
    BY DEF Covered, Persist
  <2>2. /\ Log[k] \in Docs /\ k \in Nat /\ k > 0
        /\ job[i].batch[Log[k]] \in Nat /\ docs[Log[k]] \in Nat
        /\ docs'[Log[k]] = IF job[i].batch[Log[k]] = 0 THEN docs[Log[k]] ELSE job[i].batch[Log[k]]
    BY <1>1, <1>2, LogTyped DEF Persist
  <2>3. CASE job[i].from < k
    <3>1. job[i].batch[Log[k]] >= k \/ (k \in job[i].missed /\ Held(k))
      BY <2>3, <1>1 DEF Kept, Paged
    <3>2. k \in job[i].missed /\ Held(k) => PassedOver(k)'
      BY DEF Persist, Held, PassedOver
    <3>. QED  BY <2>2, <3>1, <3>2
  <2>4. CASE k <= job[i].from
    <3>1. docs[Log[k]] >= k \/ PassedOver(k)
      BY <2>1, <2>2, <2>4, <1>2 DEF Covered
    <3>3. PassedOver(k) => PassedOver(k)'
      BY DEF Persist, PassedOver
    <3>2. job[i].batch[Log[k]] # 0 => job[i].batch[Log[k]] > job[i].from
      BY <2>2, <1>1 DEF Kept, Paged
    <3>. QED  BY <2>2, <2>4, <3>1, <3>2, <3>3, <1>2
  <2>. QED  BY <2>2, <2>3, <2>4, <1>2
<1>8. ASSUME undercut'
      PROVE  overtaken'
  <2>1. CASE undercut
    BY <2>1 DEF Persist, Kept, ChangesKept
  <2>2. CASE cursor < job[i].from /\ holder = i /\ ~overtaken
    <3>1. holder # None
      BY <2>2 DEF Syncs, None
    <3>2. job[i].from <= cursor
      BY <2>2, <3>1, <1>1 DEF Kept, Behind, Pending
    <3>. QED  BY <2>2, <3>2, <1>2
  <2>. QED  BY <2>1, <2>2, <1>5, <1>8 DEF Persist
<1>. QED  BY <1>1, <1>4, <1>6, <1>7, <1>8 DEF Kept, ChangesKept

LEMMA KeptNext ==
  ASSUME Typed, Kept, [Next]_vars
  PROVE  Kept'
<1>. USE DEF index, history
<1>1. holder \in Syncs \cup {None}
  BY Shape DEF Typed
<1>2. CASE UNCHANGED vars
  BY <1>2, <1>1, Quiet DEF vars
<1>3. ASSUME NEW w \in Workers, NEW i \in Syncs, NEW step \in {"starting", "over"}, Lease(w, i, step)
      PROVE  Kept'
  <2>1. end \in Nat /\ step \in Steps
    BY Shape, LogTyped DEF Typed, Steps
  <2>2. job' = [job EXCEPT ![i] = At(w, step)] /\ At(w, step) \in JobRecord(end)
    BY <1>3, <2>1, Records DEF Lease, At
  <2>. DEFINE j == At(w, step)
  <2>5. j.step = step
    BY <2>1, Records
  <2>6. job' = [job EXCEPT ![i] = j] /\ j \in JobRecord(end)
    BY <2>2
  <2>. HIDE DEF j
  <2>3. job'[i].step = step /\ \A k \in Syncs \ {i} : job'[k] = job[k]
    BY <2>5, <2>6, Turning DEF Typed
  <2>4. step \notin Pending
    BY DEF Pending
  <2>. QED  BY <1>1, <1>3, <2>3, <2>4, Quiet DEF Lease
<1>4. ASSUME NEW w \in Workers, Poll(w) \/ ClaimNothing(w) \/ ClaimFails(w) \/ Stop(w)
      PROVE  Kept'
  BY <1>1, <1>4, Quiet DEF Poll, ClaimNothing, ClaimFails, Stop
<1>5. ASSUME NEW w \in Workers, Gone(w)
      PROVE  Kept'
  <2>1. \A i \in Syncs : job'[i] = job[i] \/ job'[i].step \notin Pending
    BY <1>5 DEF Gone, Idle, Pending
  <2>. QED  BY <1>1, <1>5, <2>1, Quiet DEF Gone
<1>6. ASSUME NEW i \in Syncs, Begin(i) \/ Abort(i) \/ Fails(i)
      PROVE  Kept'
  <2>1. job[i].step # "none"
    BY <1>6 DEF Begin, Abort, Fails, Executing
  <2>2. Goto(i, "reading") \/ Goto(i, "failing")
    BY <1>6 DEF Begin, Abort, Fails
  <2>3. /\ job'[i].step \notin Pending
        /\ \A k \in Syncs \ {i} : job'[k] = job[k]
    BY <2>1, <2>2, Going DEF Steps, Executing, Pending
  <2>4. UNCHANGED <<cursor, docs, end, overtaken, undercut, skipped, holder>>
    BY <1>6 DEF Begin, Abort, Fails
  <2>. QED  BY <1>1, <2>3, <2>4, Quiet
<1>7. ASSUME NEW i \in Syncs, Finish(i) \/ FinishFailed(i) \/ Over(i) \/ FinishBreaks(i)
      PROVE  Kept'
  <2>1. job[i].step # "none"
    BY <1>7 DEF Finish, FinishFailed, Over, FinishBreaks
  <2>2. Goto(i, "recording") \/ End(i)
    BY <1>7 DEF Finish, FinishFailed, Over, FinishBreaks
  <2>3. /\ job'[i].step \notin Pending
        /\ \A k \in Syncs \ {i} : job'[k] = job[k]
    BY <2>1, <2>2, Going, Ending DEF Steps, Executing, Pending
  <2>4. UNCHANGED <<cursor, docs, end, overtaken, undercut, skipped>> /\ (holder' = holder \/ holder' = None)
    BY <1>7 DEF Finish, FinishFailed, Over, FinishBreaks, Settle
  <2>. QED  BY <1>1, <2>3, <2>4, Quiet
<1>8. CASE (\E i \in Syncs : Heartbeat(i)) \/ LeaseLapses \/ FallsDue \/ Configure \/ Change
  BY <1>1, <1>8, Quiet DEF Heartbeat, LeaseLapses, FallsDue, Configure, Change
<1>9. ASSUME NEW i \in Syncs, ReadCursor(i) \/ Discover(i) \/ Persist(i)
      PROVE  Kept'
  BY <1>9, KeptRead, KeptDiscover, KeptPersist
<1>. QED
  BY <1>2, <1>3, <1>4, <1>5, <1>6, <1>7, <1>8, <1>9
     DEF Next, Answer, Step, Claim, ClaimUnheard, Exit, Crash

----------------------------------------------------------------------------
(* The lease and the open run. *)

LEMMA LeaseInit == Init => OpenRunHeld
<1>. SUFFICES ASSUME NEW scene \in Scenes, InitScene(scene)
              PROVE  OpenRunHeld
  BY DEF Init
<1>1. scene.reader # Nobody => 1 \in Syncs
  BY ScenesAssumption, BoundsAssumption DEF Syncs
<1>2. CASE scene.reader = Nobody
  BY <1>2 DEF InitScene, OpenRunHeld, Row
<1>3. CASE scene.reader # Nobody
  <2>1. /\ holder = 1 /\ 1 # None /\ syncRun[1] = "running" /\ job[1] = Reading(scene.reader)
        /\ \A i \in Syncs \ {1} : syncRun[i] = "none"
    BY <1>1, <1>3 DEF InitScene, None
  <2>2. instance.status = "running" /\ instance.owner = scene.reader
    BY <1>3 DEF InitScene, Row
  <2>3. job[1].worker = scene.reader
    BY <2>1 DEF Reading, Idle
  <2>. QED  BY <2>1, <2>2, <2>3 DEF OpenRunHeld
<1>. QED  BY <1>2, <1>3

\* The rows are what they were, and executions keep their workers.
LEMMA LeaseQuiet ==
  ASSUME Typed, OpenRunHeld, UNCHANGED <<syncRun, holder, detached, robbed>>,
         instance'.status = instance.status, instance'.owner = instance.owner,
         \A i \in Syncs : job'[i].worker = job[i].worker
  PROVE  OpenRunHeld'
BY Shape DEF OpenRunHeld, Typed

LEMMA LeaseClaim ==
  ASSUME Typed, OpenRunHeld, NEW w \in Workers, NEW i \in Syncs, NEW step \in {"starting", "over"},
         Lease(w, i, step)
  PROVE  OpenRunHeld'
<1>1. end \in Nat /\ step \in Steps /\ i # None
  BY Shape, LogTyped DEF Typed, Steps, Syncs, None
<1>2. job'[i].worker = w
  <2>. DEFINE j == At(w, step)
  <2>2. j \in JobRecord(end) /\ j.worker = w
    BY <1>1, Records
  <2>1. job' = [job EXCEPT ![i] = j]
    BY DEF Lease, At
  <2>. HIDE DEF j
  <2>. QED  BY <2>1, <2>2, Turning DEF Typed
<1>3. instance'.status = "running" /\ instance'.owner = w
  BY Shape DEF Lease, Typed, InstanceRecord
<1>4. syncRun'[i] = "running"
  BY DEF Lease, Recovered
<1>5. ASSUME NEW j \in Syncs, syncRun'[j] = "running", j # i
      PROVE  j \in detached \cup robbed
  <2>1. instance.status # "running" /\ syncRun[j] = "running"
    BY <1>5 DEF Lease, Recovered
  <2>2. holder = None /\ j # None
    BY <2>1 DEF OpenRunHeld, Syncs, None
  <2>. QED  BY <2>1, <2>2 DEF OpenRunHeld
<1>. QED
  BY <1>1, <1>2, <1>3, <1>4, <1>5 DEF OpenRunHeld, Lease

LEMMA LeaseSettle ==
  ASSUME Typed, OpenRunHeld, NEW i \in Syncs, NEW outcome \in {"succeeded", "failed"},
         Owned(i), Settle(i, outcome), UNCHANGED detached
  PROVE  OpenRunHeld'
<1>1. holder # None /\ holder \in Syncs /\ job[holder].worker = job[i].worker
  BY Shape DEF OpenRunHeld, Owned, Typed
<1>2. instance'.status = outcome /\ holder' = None
  BY DEF Settle, Row
<1>3. ASSUME NEW j \in Syncs, syncRun'[j] = "running"
      PROVE  j \in detached' \cup robbed'
  <2>1. j # i /\ syncRun[j] = "running"
    BY <1>3, Shape DEF Settle, Typed
  <2>2. CASE j = holder
    BY <1>1, <2>1, <2>2 DEF Settle
  <2>3. CASE j \in detached \cup robbed
    BY <2>3 DEF Settle
  <2>. QED  BY <2>1, <2>2, <2>3 DEF OpenRunHeld
<1>. QED
  BY <1>2, <1>3 DEF OpenRunHeld

LEMMA LeaseConfigure ==
  ASSUME Typed, OpenRunHeld, Configure
  PROVE  OpenRunHeld'
<1>1. instance'.status = "pending" /\ holder' = None /\ robbed' = robbed /\ syncRun' = syncRun
  BY DEF Configure, Row
<1>2. \A i \in Syncs : i # None
  BY DEF Syncs, None
<1>. QED
  BY <1>1, <1>2 DEF OpenRunHeld, Configure

LEMMA LeaseNext ==
  ASSUME Typed, OpenRunHeld, [Next]_vars
  PROVE  OpenRunHeld'
<1>. USE DEF index, history
<1>1. CASE UNCHANGED vars
  BY <1>1, LeaseQuiet DEF vars
<1>2. ASSUME NEW w \in Workers, NEW i \in Syncs, NEW step \in {"starting", "over"}, Lease(w, i, step)
      PROVE  OpenRunHeld'
  BY <1>2, LeaseClaim
<1>3. ASSUME NEW w \in Workers, Poll(w) \/ ClaimNothing(w) \/ ClaimFails(w) \/ Stop(w)
      PROVE  OpenRunHeld'
  BY <1>3, LeaseQuiet DEF Poll, ClaimNothing, ClaimFails, Stop
<1>4. ASSUME NEW w \in Workers, Gone(w)
      PROVE  OpenRunHeld'
  <2>1. \A i \in Syncs : job'[i].worker = job[i].worker
    BY <1>4 DEF Gone, Idle
  <2>. QED  BY <1>4, <2>1, LeaseQuiet DEF Gone
<1>5. ASSUME NEW i \in Syncs, \/ Begin(i) \/ Abort(i) \/ Fails(i) \/ Persist(i) \/ Over(i) \/ FinishBreaks(i)
      PROVE  OpenRunHeld'
  <2>1. job[i].step # "none"
    BY <1>5 DEF Begin, Abort, Fails, Executing, Persist, Over, FinishBreaks
  <2>2. \/ \E step \in {"reading", "failing", "finishing"} : Goto(i, step)
        \/ End(i)
    BY <1>5 DEF Begin, Abort, Fails, Persist, Over, FinishBreaks
  <2>3. \A k \in Syncs : job'[k].worker = job[k].worker
    BY <2>1, <2>2, Going, Ending DEF Steps, Executing
  <2>4. UNCHANGED <<instance, syncRun, holder, detached, robbed>>
    BY <1>5 DEF Begin, Abort, Fails, Persist, Over, FinishBreaks
  <2>. QED  BY <2>3, <2>4, LeaseQuiet
<1>6. ASSUME NEW i \in Syncs, ReadCursor(i) \/ Discover(i)
      PROVE  OpenRunHeld'
  <2>1. job[i] \in JobRecord(end) /\ job \in [Syncs -> JobRecord(end)]
    BY Shape DEF Typed
  <2>2. \A k \in Syncs : job'[k].worker = job[k].worker
    <3>1. CASE ReadCursor(i)
      BY <3>1, <2>1 DEF ReadCursor, JobRecord
    <3>2. CASE Discover(i)
      BY <3>2, Discovered
    <3>. QED  BY <1>6, <3>1, <3>2
  <2>. QED  BY <1>6, <2>2, LeaseQuiet DEF ReadCursor, Discover
<1>7. ASSUME NEW i \in Syncs, Finish(i) \/ FinishFailed(i)
      PROVE  OpenRunHeld'
  BY <1>7, LeaseSettle DEF Finish, FinishFailed
<1>8. CASE (\E i \in Syncs : Heartbeat(i)) \/ LeaseLapses \/ FallsDue \/ Change
  <2>1. instance'.status = instance.status /\ instance'.owner = instance.owner
    BY <1>8, Shape DEF Heartbeat, LeaseLapses, FallsDue, Change, Typed, InstanceRecord
  <2>. QED  BY <1>8, <2>1, LeaseQuiet DEF Heartbeat, LeaseLapses, FallsDue, Change
<1>9. CASE Configure
  BY <1>9, LeaseConfigure
<1>. QED
  BY <1>1, <1>2, <1>3, <1>4, <1>5, <1>6, <1>7, <1>8, <1>9
     DEF Next, Answer, Step, Claim, ClaimUnheard, Exit, Crash

----------------------------------------------------------------------------
(* Theorems *)

LEMMA Invariance == Spec => []Inv
<1>1. Init => Inv
  BY TypedInit, KeptInit, LeaseInit DEF Inv
<1>2. Inv /\ [Next]_vars => Inv'
  BY TypedNext, KeptNext, LeaseNext DEF Inv
<1>. QED
  BY <1>1, <1>2, PTL DEF Spec

\* Every row, process and execution keeps its shape, and neither the cursor nor a document
\* is ever ahead of the source (claim, execute, persistBatch, configureGoogleDrive).
THEOREM TypeCorrect == Spec => []TypeOK
<1>1. Inv => TypeOK
  BY DEF Inv, Typed
<1>. QED
  BY <1>1, Invariance, PTL

\* No change of the source is passed over but those whose document a page listed and did
\* not read, until a batch is written that begins beyond the cursor, and that takes a worker
\* that wrote after it had lost its lease (google-drive.ts changes and upsertFor;
\* persistBatch writes documents and cursor together and does not look at the lease).
THEOREM ChangesAreKept == Spec => []ChangesKept
<1>1. Inv => ChangesKept
  BY DEF Inv, Kept
<1>. QED
  BY <1>1, Invariance, PTL

\* An open sync run has the lease, or lost it to a configuration or to an execution of its
\* own worker (claim, finish, configureGoogleDrive).
THEOREM OpenRunsAreHeld == Spec => []OpenRunHeld
<1>1. Inv => OpenRunHeld
  BY DEF Inv
<1>. QED
  BY <1>1, Invariance, PTL

----------------------------------------------------------------------------
(* What keeps a worker from polling *)

\* A sync run that was not made has no execution.
Unmade == \A i \in Syncs : syncRun[i] = "none" => job[i] = Idle

Manned == Typed /\ Unmade /\ BusyIsAtWork

LEMMA MannedInit == Init => Manned
<1>. SUFFICES ASSUME NEW scene \in Scenes, InitScene(scene)
              PROVE  Unmade /\ BusyIsAtWork
  BY TypedInit DEF Init, Manned
<1>. DEFINE w == scene.reader
<1>1. /\ Unmade
      /\ \A i \in Syncs : job[i].step \in {"starting"} \cup Executing
                           => i = 1 /\ w # Nobody
  BY DEF InitScene, Unmade, Idle, Executing
<1>2. w # Nobody => w \in Workers /\ w \in scene.up /\ 1 \in Syncs
  BY ScenesAssumption, BoundsAssumption DEF Syncs
<1>3. w # Nobody => job[1].worker = w /\ job[1].step \in Executing
  BY <1>2 DEF InitScene, Reading, Idle, Executing
<1>4. \A v \in Workers :
        IF v = w THEN worker[v].active = 1 /\ worker[v].controller = 1 /\ worker[v].mode = "up"
        ELSE worker[v].active = None /\ worker[v].controller = None
  BY <1>2, NobodyAssumption DEF InitScene, Fresh
<1>5. \A i \in Syncs : i # None
  BY DEF Syncs, None
<1>. QED
  BY <1>1, <1>2, <1>3, <1>4, <1>5, NobodyAssumption DEF BusyIsAtWork

\* No worker takes anything up or lets go of it, and who executes goes on.
LEMMA MannedQuiet ==
  ASSUME Manned,
         \A w \in Workers : /\ worker'[w].active = worker[w].active
                            /\ worker'[w].controller = worker[w].controller
                            /\ worker'[w].mode = "gone" => worker[w].mode = "gone",
         \A k \in Syncs : \/ job'[k] = job[k]
                           \/ /\ job'[k].worker = job[k].worker
                              /\ job[k].step \in Executing /\ job'[k].step \in Executing
  PROVE  BusyIsAtWork'
<1>1. \A k \in Syncs : job[k].step \in {"starting"} \cup Executing => job[k].worker \in Workers
  BY DEF Manned, Typed, Named, Executing
<1>2. ASSUME NEW w \in Workers, NEW i \in Syncs, i \in {worker'[w].active, worker'[w].controller}
      PROVE  job'[i].worker = w /\ job'[i].step \in Executing
  BY <1>2 DEF Manned, BusyIsAtWork
<1>3. ASSUME NEW i \in Syncs, job'[i].step \in {"starting"} \cup Executing
      PROVE  worker'[job'[i].worker].mode # "gone"
  <2>1. job[i].step \in {"starting"} \cup Executing /\ job'[i].worker = job[i].worker
    BY <1>3
  <2>. QED  BY <1>1, <2>1 DEF Manned, BusyIsAtWork
<1>. QED  BY <1>2, <1>3 DEF BusyIsAtWork

LEMMA MannedLease ==
  ASSUME Manned, NEW w \in Workers, NEW i \in Syncs, NEW step \in {"starting", "over"},
         Lease(w, i, step)
  PROVE  Unmade' /\ BusyIsAtWork'
<1>. DEFINE j == At(w, step)
<1>1. end \in Nat /\ step \in Steps /\ TypeOK
  BY Shape, LogTyped DEF Manned, Typed, Steps
<1>2. j \in JobRecord(end) /\ j.worker = w /\ j.step = step
  BY <1>1, Records
<1>3. job' = [job EXCEPT ![i] = j]
  BY DEF Lease, At
<1>4. /\ job'[i].worker = w /\ job'[i].step = step
      /\ \A k \in Syncs \ {i} : job'[k] = job[k]
  <2>. HIDE DEF j
  <2>. QED  BY <1>1, <1>2, <1>3, Turning
<1>5. /\ \A v \in Workers : /\ worker'[v].active = worker[v].active
                             /\ worker'[v].controller = worker[v].controller
                             /\ worker'[v].mode = worker[v].mode
      /\ worker[w].mode # "gone"
  BY <1>1, Shape DEF Lease, WorkerRecord
<1>6. job[i].step \notin Executing
  BY DEF Lease, Manned, Unmade, Idle, Executing
<1>7. ASSUME NEW k \in Syncs, syncRun'[k] = "none" PROVE job'[k] = Idle
  BY <1>4, <1>7 DEF Lease, Recovered, Manned, Unmade
<1>8. ASSUME NEW v \in Workers, NEW k \in Syncs, k \in {worker'[v].active, worker'[v].controller}
      PROVE  job'[k].worker = v /\ job'[k].step \in Executing
  BY <1>4, <1>5, <1>6, <1>8 DEF Manned, BusyIsAtWork
<1>9. ASSUME NEW k \in Syncs, job'[k].step \in {"starting"} \cup Executing
      PROVE  worker'[job'[k].worker].mode # "gone"
  <2>1. CASE k = i
    BY <1>4, <1>5, <2>1
  <2>2. CASE k # i
    <3>1. job'[k] = job[k] /\ job[k].worker \in Workers
      BY <1>4, <1>9, <2>2 DEF Manned, Typed, Named, Executing
    <3>. QED  BY <1>5, <1>9, <3>1 DEF Manned, BusyIsAtWork
  <2>. QED  BY <2>1, <2>2
<1>. QED  BY <1>7, <1>8, <1>9 DEF Unmade, BusyIsAtWork

LEMMA MannedBegin ==
  ASSUME Manned, NEW i \in Syncs, Begin(i)
  PROVE  BusyIsAtWork'
<1>1. /\ job'[i].step = "reading" /\ job'[i].worker = job[i].worker
      /\ \A k \in Syncs \ {i} : job'[k] = job[k]
  BY Going DEF Manned, Begin, Steps, Executing
<1>2. job[i].worker \in Workers /\ worker[job[i].worker].mode # "gone"
  BY DEF Manned, Typed, Named, Begin, BusyIsAtWork
<1>3. worker[job[i].worker] \in WorkerRecord /\ worker \in [Workers -> WorkerRecord]
  BY <1>2, Shape DEF Manned, Typed
<1>4. /\ worker'[job[i].worker].active = i /\ worker'[job[i].worker].controller = i
      /\ worker'[job[i].worker].mode = worker[job[i].worker].mode
      /\ \A v \in Workers : v # job[i].worker => worker'[v] = worker[v]
  BY <1>2, <1>3 DEF Begin, WorkerRecord
<1>5. ASSUME NEW v \in Workers, NEW k \in Syncs, k \in {worker'[v].active, worker'[v].controller}
      PROVE  job'[k].worker = v /\ job'[k].step \in Executing
  <2>1. CASE v = job[i].worker
    BY <1>1, <1>4, <1>5, <2>1 DEF Executing
  <2>2. CASE v # job[i].worker
    <3>1. job[k].worker = v /\ job[k].step \in Executing
      BY <1>4, <1>5, <2>2 DEF Manned, BusyIsAtWork
    <3>. QED  BY <1>1, <2>2, <3>1
  <2>. QED  BY <2>1, <2>2
<1>6. ASSUME NEW k \in Syncs, job'[k].step \in {"starting"} \cup Executing
      PROVE  worker'[job'[k].worker].mode # "gone"
  <2>1. CASE k = i
    BY <1>1, <1>2, <1>4, <2>1
  <2>2. CASE k # i
    <3>1. job'[k] = job[k] /\ job[k].worker \in Workers
      BY <1>1, <1>6, <2>2 DEF Manned, Typed, Named, Executing
    <3>. QED  BY <1>4, <1>6, <1>2, <3>1 DEF Manned, BusyIsAtWork
  <2>. QED  BY <2>1, <2>2
<1>. QED  BY <1>5, <1>6 DEF BusyIsAtWork

LEMMA MannedEnd ==
  ASSUME Manned, NEW i \in Syncs, job[i].step # "none", End(i)
  PROVE  BusyIsAtWork'
<1>. DEFINE w == job[i].worker
<1>1. /\ job'[i].step = "over" /\ job'[i].worker = w
      /\ \A k \in Syncs \ {i} : job'[k] = job[k]
  BY Ending DEF Manned
<1>2. w \in Workers /\ worker[w] \in WorkerRecord /\ worker \in [Workers -> WorkerRecord]
  BY Shape DEF Manned, Typed, Named
<1>3. /\ worker'[w].active = None
      /\ worker'[w].controller = IF worker[w].controller = i THEN None ELSE worker[w].controller
      /\ worker'[w].mode = worker[w].mode
      /\ \A v \in Workers : v # w => worker'[v] = worker[v]
  BY <1>2 DEF End, WorkerRecord
<1>4. \A k \in Syncs : k # None
  BY DEF Syncs, None
<1>5. ASSUME NEW v \in Workers, NEW k \in Syncs, k \in {worker'[v].active, worker'[v].controller}
      PROVE  job'[k].worker = v /\ job'[k].step \in Executing
  <2>1. k \in {worker[v].active, worker[v].controller} /\ (v = w => k # i)
    BY <1>3, <1>4, <1>5
  <2>2. job[k].worker = v /\ job[k].step \in Executing
    BY <2>1 DEF Manned, BusyIsAtWork
  <2>3. k # i
    BY <2>1, <2>2
  <2>. QED  BY <1>1, <2>2, <2>3
<1>6. ASSUME NEW k \in Syncs, job'[k].step \in {"starting"} \cup Executing
      PROVE  worker'[job'[k].worker].mode # "gone"
  <2>1. k # i
    BY <1>1, <1>6 DEF Executing
  <2>2. job'[k] = job[k] /\ job[k].worker \in Workers
    BY <1>1, <1>6, <2>1 DEF Manned, Typed, Named, Executing
  <2>. QED  BY <1>3, <1>6, <2>2 DEF Manned, BusyIsAtWork
<1>. QED  BY <1>5, <1>6 DEF BusyIsAtWork

LEMMA MannedGone ==
  ASSUME Manned, NEW w \in Workers, Gone(w)
  PROVE  Unmade' /\ BusyIsAtWork'
<1>1. \A k \in Syncs : IF job[k].worker # w THEN job'[k] = job[k] ELSE job'[k].step = "over"
  BY DEF Gone, Idle
<1>2. /\ worker'[w].active = None /\ worker'[w].controller = None
      /\ \A v \in Workers : v # w => worker'[v] = worker[v]
  BY Shape DEF Manned, Typed, Gone, Fresh
<1>3. \A k \in Syncs : k # None
  BY DEF Syncs, None
<1>4. ASSUME NEW k \in Syncs, syncRun'[k] = "none" PROVE job'[k] = Idle
  <2>1. job[k] = Idle
    BY <1>4 DEF Gone, Manned, Unmade
  <2>2. job[k].worker # w
    BY <2>1, NobodyAssumption DEF Idle
  <2>. QED  BY <1>1, <2>1, <2>2
<1>5. ASSUME NEW v \in Workers, NEW k \in Syncs, k \in {worker'[v].active, worker'[v].controller}
      PROVE  job'[k].worker = v /\ job'[k].step \in Executing
  <2>1. v # w
    BY <1>2, <1>3, <1>5
  <2>. QED  BY <1>1, <1>2, <1>5, <2>1 DEF Manned, BusyIsAtWork
<1>6. ASSUME NEW k \in Syncs, job'[k].step \in {"starting"} \cup Executing
      PROVE  worker'[job'[k].worker].mode # "gone"
  <2>1. job'[k] = job[k] /\ job[k].worker # w
    BY <1>1, <1>6 DEF Executing
  <2>2. job[k].worker \in Workers
    BY <1>6, <2>1 DEF Manned, Typed, Named, Executing
  <2>. QED  BY <1>2, <1>6, <2>1, <2>2 DEF Manned, BusyIsAtWork
<1>. QED  BY <1>4, <1>5, <1>6 DEF Unmade, BusyIsAtWork

\* A sync run that is not made stays without an execution, where an execution that
\* began is the only one that moves.
LEMMA UnmadeQuiet ==
  ASSUME Unmade, NEW i \in Syncs, job[i].step # "none",
         \A k \in Syncs \ {i} : job'[k] = job[k] /\ syncRun'[k] = syncRun[k],
         syncRun'[i] = syncRun[i] \/ syncRun'[i] # "none"
  PROVE  Unmade'
<1>1. syncRun[i] # "none"
  BY DEF Unmade, Idle
<1>. QED  BY <1>1 DEF Unmade

LEMMA MannedNext == Manned /\ [Next]_vars => Manned'
<1>. SUFFICES ASSUME Manned, [Next]_vars PROVE Unmade' /\ BusyIsAtWork'
  BY TypedNext DEF Manned
<1>0. Typed /\ Unmade
  BY DEF Manned
<1>1. ASSUME UNCHANGED <<worker, job, syncRun>> PROVE Unmade' /\ BusyIsAtWork'
  <2>1. BusyIsAtWork'
    BY <1>1, MannedQuiet
  <2>. QED  BY <1>0, <1>1, <2>1 DEF Unmade
<1>2. ASSUME NEW w \in Workers, NEW i \in Syncs, NEW step \in {"starting", "over"}, Lease(w, i, step)
      PROVE  Unmade' /\ BusyIsAtWork'
  BY <1>2, MannedLease
<1>3. ASSUME NEW w \in Workers, Poll(w) \/ ClaimNothing(w) \/ ClaimFails(w) \/ Stop(w)
      PROVE  Unmade' /\ BusyIsAtWork'
  <2>1. UNCHANGED <<job, syncRun>>
    BY <1>3 DEF Poll, ClaimNothing, ClaimFails, Stop
  <2>2. worker \in [Workers -> WorkerRecord]
    BY <1>0, Shape DEF Typed
  <2>3. \A v \in Workers : /\ worker'[v].active = worker[v].active
                           /\ worker'[v].controller = worker[v].controller
                           /\ worker'[v].mode = "gone" => worker[v].mode = "gone"
    <3>1. CASE Poll(w)
      BY <2>2, <3>1 DEF Poll, WorkerRecord
    <3>2. CASE ClaimNothing(w) \/ ClaimFails(w)
      BY <2>2, <3>2 DEF ClaimNothing, ClaimFails, WorkerRecord
    <3>3. CASE Stop(w)
      BY <2>2, <3>3 DEF Stop, WorkerRecord
    <3>. QED  BY <1>3, <3>1, <3>2, <3>3
  <2>4. BusyIsAtWork'
    BY <2>1, <2>3, MannedQuiet
  <2>. QED  BY <1>0, <2>1, <2>4 DEF Unmade
<1>4. ASSUME NEW w \in Workers, Gone(w) PROVE Unmade' /\ BusyIsAtWork'
  BY <1>4, MannedGone
<1>5. ASSUME NEW i \in Syncs, Begin(i) PROVE Unmade' /\ BusyIsAtWork'
  <2>1. BusyIsAtWork'
    BY <1>5, MannedBegin
  <2>2. job[i].step # "none" /\ syncRun' = syncRun /\ \A k \in Syncs \ {i} : job'[k] = job[k]
    BY <1>0, <1>5, Going DEF Begin, Steps, Executing
  <2>. QED  BY <1>0, <2>1, <2>2, UnmadeQuiet
\* Those who end let go.
<1>6. ASSUME NEW i \in Syncs, Over(i) \/ FinishBreaks(i) \/ FinishFailed(i)
      PROVE  Unmade' /\ BusyIsAtWork'
  <2>1. job[i].step # "none" /\ End(i)
    BY <1>6 DEF Over, FinishBreaks, FinishFailed
  <2>2. BusyIsAtWork'
    BY <2>1, MannedEnd
  <2>3. \A k \in Syncs \ {i} : job'[k] = job[k]
    BY <1>0, <2>1, Ending
  <2>4. /\ \A k \in Syncs \ {i} : syncRun'[k] = syncRun[k]
        /\ syncRun'[i] = syncRun[i] \/ syncRun'[i] # "none"
    BY <1>0, <1>6, Shape DEF Over, FinishBreaks, FinishFailed, Settle, Typed, history
  <2>. QED  BY <1>0, <2>1, <2>2, <2>3, <2>4, UnmadeQuiet
\* Those who execute on.
<1>7. ASSUME NEW i \in Syncs, UNCHANGED worker,
             job[i].step \in Executing, job'[i].step \in Executing,
             job'[i].worker = job[i].worker,
             \A k \in Syncs \ {i} : job'[k] = job[k] /\ syncRun'[k] = syncRun[k],
             syncRun'[i] = syncRun[i] \/ syncRun'[i] # "none"
      PROVE  Unmade' /\ BusyIsAtWork'
  <2>1. job[i].step # "none"
    BY <1>7 DEF Executing
  <2>. QED  BY <1>0, <1>7, <2>1, UnmadeQuiet, MannedQuiet
<1>8. ASSUME NEW i \in Syncs, Abort(i) \/ Fails(i) \/ Persist(i)
      PROVE  Unmade' /\ BusyIsAtWork'
  <2>1. job[i].step \in Executing /\ UNCHANGED <<worker, syncRun>>
    BY <1>8 DEF Abort, Fails, Persist, Executing, history
  <2>2. \E step \in {"failing", "finishing"} : Goto(i, step)
    BY <1>8 DEF Abort, Fails, Persist
  <2>3. job[i].step # "none"
    BY <2>1 DEF Executing
  <2>4. /\ job'[i].step \in {"failing", "finishing"} /\ job'[i].worker = job[i].worker
        /\ \A k \in Syncs \ {i} : job'[k] = job[k]
    BY <1>0, <2>2, <2>3, Going DEF Steps, Executing
  <2>. QED  BY <1>7, <2>1, <2>4 DEF Executing
<1>9. ASSUME NEW i \in Syncs, ReadCursor(i) PROVE Unmade' /\ BusyIsAtWork'
  <2>1. job[i] \in JobRecord(end) /\ job \in [Syncs -> JobRecord(end)]
    BY <1>0, Shape DEF Typed
  <2>2. /\ job'[i].step = "discovering" /\ job'[i].worker = job[i].worker
        /\ \A k \in Syncs \ {i} : job'[k] = job[k]
    BY <1>9, <2>1 DEF ReadCursor, JobRecord
  <2>3. job[i].step \in Executing /\ UNCHANGED <<worker, syncRun>>
    BY <1>9 DEF ReadCursor, Executing
  <2>. QED  BY <1>7, <2>2, <2>3 DEF Executing
<1>10. ASSUME NEW i \in Syncs, Discover(i) PROVE Unmade' /\ BusyIsAtWork'
  <2>1. /\ job'[i].step = "persisting" /\ job'[i].worker = job[i].worker
        /\ \A k \in Syncs \ {i} : job'[k] = job[k]
    BY <1>0, <1>10, Discovered
  <2>2. job[i].step \in Executing /\ UNCHANGED <<worker, syncRun>>
    BY <1>10 DEF Discover, Executing
  <2>. QED  BY <1>7, <2>1, <2>2 DEF Executing
<1>11. ASSUME NEW i \in Syncs, Finish(i) PROVE Unmade' /\ BusyIsAtWork'
  <2>1. job[i].step \in Executing /\ job[i].step # "none" /\ UNCHANGED worker
    BY <1>11 DEF Finish, Executing
  <2>2. /\ job'[i].step = "recording" /\ job'[i].worker = job[i].worker
        /\ \A k \in Syncs \ {i} : job'[k] = job[k]
    BY <1>0, <1>11, <2>1, Going DEF Finish, Steps, Executing
  <2>3. syncRun'[i] = "succeeded" /\ \A k \in Syncs \ {i} : syncRun'[k] = syncRun[k]
    BY <1>0, <1>11, Shape DEF Finish, Settle, Typed
  <2>. QED  BY <1>7, <2>1, <2>2, <2>3 DEF Executing
<1>12. CASE (\E i \in Syncs : Heartbeat(i)) \/ LeaseLapses \/ FallsDue \/ Change \/ Configure
  BY <1>1, <1>12 DEF Heartbeat, LeaseLapses, FallsDue, Change, Configure
<1>13. CASE UNCHANGED vars
  BY <1>1, <1>13 DEF vars
<1>. QED
  BY <1>2, <1>3, <1>4, <1>5, <1>6, <1>8, <1>9, <1>10, <1>11, <1>12, <1>13
     DEF Next, Answer, Step, Claim, ClaimUnheard, Exit, Crash

\* A worker that does not poll is held up by an execution of its own that is still at
\* work, however its claims overlap, and nobody who is gone is at work: no restart leaves
\* the lease with an execution that nothing ends (runtime.ts tick, execute and stop).
THEOREM WorkersLetGo == Spec => []BusyIsAtWork
<1>1. Manned => BusyIsAtWork
  BY DEF Manned
<1>. QED
  BY <1>1, MannedInit, MannedNext, PTL DEF Spec
=============================================================================
