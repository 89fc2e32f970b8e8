------------------------- MODULE DelegationsProofs -------------------------
(***************************************************************************)
(* The end of a handoff is final but for one race, and every variable      *)
(* keeps its type, for any number of handoffs, members and stops, and      *)
(* whatever fails.                                                         *)
(*                                                                         *)
(* The write of a transition compares nothing, so the proof has to carry   *)
(* from the reading to the write that the move was allowed (Legal), and    *)
(* that a row is inserted once (Fresh), and that a stop cancels handoffs   *)
(* that exist (Known). That the attempts of a run stay under their ceiling *)
(* rests on what may be queued (Ceiling), on no claim of a run before its  *)
(* row is there (Young), and on the change under way being about a     *)
(* handoff (Held).                                                         *)
(*                                                                         *)
(* A stop reaches the whole tree because handoffs form one (Rooted) and    *)
(* what the walk has not seen hangs below what it is about to look at      *)
(* (Walked). The limits on children hold but for those counted at the same *)
(* time, since what a request counted stays true until a child is born     *)
(* (Counted).                                                              *)
(*                                                                         *)
(* The end of a handoff or of its run is passed on to the other: who has   *)
(* to do it is followed through changes, attempts and stops (ReportIsDue,  *)
(* EndIsPassedOn).                                                         *)
(***************************************************************************)
EXTENDS Delegations, TLAPS, FiniteSetTheorems

RowRecord == [status : Open \cup Ended \cup {Absent}, parent : Handoffs \cup {None},
              depth : 0..MaxDepth, stopped : BOOLEAN]

CreationRecord == [step : {"asking", "counting", "admitted", "queued", "over"},
                   parent : Handoffs \cup {None}, depth : 0..MaxDepth,
                   stopped : BOOLEAN, siblings : SUBSET Handoffs]

ChangeRecord == [step : {"idle", "writing", "entering", "finishing", "over"},
                 of : Handoffs \cup {None}, from : Open \cup Ended, to : Open \cup Ended]

StopRecord == [step : {"ready", "walking", "cancelling", "over"},
               frontier : SUBSET Handoffs, todo : SUBSET Handoffs,
               current : Handoffs \cup {None}, existing : SUBSET Handoffs]

Threads == People \cup Handoffs

\* The variables a status depends on keep their shape.
Typed == /\ row \in [Handoffs -> RowRecord]
         /\ creating \in [Handoffs -> CreationRecord]
         /\ change \in [Threads -> ChangeRecord]
         /\ stop \in [Stoppers -> StopRecord]

\* A request inserts its row once.
Fresh == \A h \in Handoffs : creating[h].step # "over" => row[h].status = Absent

\* What is about to be written was allowed by what was read.
Legal == \A t \in Threads :
           change[t].step = "writing" => /\ change[t].of \in Handoffs
                                         /\ row[change[t].of].status # Absent
                                         /\ Allowed(change[t].from, change[t].to)

\* A stop works on handoffs that exist.
Known == \A s \in Stoppers : \A h \in stop[s].todo : row[h].status # Absent

Inv == Typed /\ Fresh /\ Legal /\ Known

LEMMA Constants ==
  /\ Answered \in CreationRecord /\ Answered.step = "over"
  /\ Asking \in CreationRecord
  /\ NoChange \in ChangeRecord /\ NoChange.step # "writing"
  /\ AnsweredChange \in ChangeRecord /\ AnsweredChange.step # "writing"
<1>1. 0 \in 0..MaxDepth
  BY BoundsAssumption
<1>. QED
  BY <1>1 DEF Answered, Asking, CreationRecord, NoChange, AnsweredChange, ChangeRecord, Open

LEMMA InvInit == Init => Inv
<1>. SUFFICES ASSUME NEW scene \in Scenes, InitScene(scene)
              PROVE  Inv
  BY DEF Init
<1>1. row \in [Handoffs -> RowRecord] /\ \A h \in Handoffs : row[h].status = Absent
  <2>1. 0 \in 0..MaxDepth
    BY BoundsAssumption
  <2>. QED
    BY <2>1 DEF InitScene, RowRecord
<1>2. creating \in [Handoffs -> CreationRecord]
  BY Constants DEF InitScene
<1>3. /\ change \in [Threads -> ChangeRecord]
      /\ \A t \in Threads : change[t].step # "writing"
  BY Constants DEF InitScene, Threads
<1>4. stop \in [Stoppers -> StopRecord] /\ \A s \in Stoppers : stop[s].todo = {}
  BY DEF InitScene, StopRecord
<1>. QED
  BY <1>1, <1>2, <1>3, <1>4 DEF Inv, Typed, Fresh, Legal, Known

LEMMA InvStutter == Inv /\ UNCHANGED <<row, creating, change, stop>> => Inv'
BY DEF Inv, Typed, Fresh, Legal, Known

\* A request that creates a handoff goes on, its row not being there yet.
LEMMA InvAsk ==
  ASSUME Inv, NEW h \in Handoffs, NEW c \in CreationRecord,
         creating[h].step # "over",
         creating' = [creating EXCEPT ![h] = c], UNCHANGED <<row, change, stop>>
  PROVE  Inv'
BY DEF Inv, Typed, Fresh, Legal, Known

LEMMA InvInsert ==
  ASSUME Inv, NEW h \in Handoffs, InsertRow(h)
  PROVE  Inv'
<1>. DEFINE new == [status |-> "queued", parent |-> creating[h].parent,
                    depth |-> creating[h].depth, stopped |-> FALSE]
<1>1. new \in RowRecord
  BY DEF Inv, Typed, CreationRecord, RowRecord, Open
<1>2. /\ row' = [row EXCEPT ![h] = new]
      /\ creating' = [creating EXCEPT ![h] = Answered]
      /\ change' = change /\ stop' = stop
  BY DEF InsertRow
<1>4. new.status # Absent
  BY DEF Absent
<1>. HIDE DEF new
<1>. QED
  BY <1>1, <1>2, <1>4, Constants DEF Inv, Typed, Fresh, Legal, Known

\* A transition moves on; if it is about to write, what it read allows that.
LEMMA InvThread ==
  ASSUME Inv, NEW t \in Threads, NEW c \in ChangeRecord,
         c.step = "writing" => /\ c.of \in Handoffs
                               /\ row[c.of].status # Absent
                               /\ Allowed(c.from, c.to),
         change' = [change EXCEPT ![t] = c], UNCHANGED <<row, creating, stop>>
  PROVE  Inv'
BY DEF Inv, Typed, Fresh, Legal, Known

\* A handoff that exists is written; no transition starts to write.
LEMMA InvStatus ==
  ASSUME Inv, NEW h \in Handoffs, NEW r \in RowRecord,
         row[h].status # Absent, r.status # Absent,
         row' = [row EXCEPT ![h] = r], UNCHANGED creating,
         stop' \in [Stoppers -> StopRecord],
         \A s \in Stoppers : stop'[s].todo \subseteq stop[s].todo,
         change' \in [Threads -> ChangeRecord],
         \A t \in Threads : change'[t].step = "writing" => change'[t] = change[t]
  PROVE  Inv'
BY DEF Inv, Typed, Fresh, Legal, Known

LEMMA InvReading ==
  ASSUME Inv, NEW t \in Threads, NEW h \in Handoffs, NEW to \in Open \cup Ended,
         row[h].status # Absent, Allowed(row[h].status, to), Reading(t, h, to),
         UNCHANGED <<row, creating, stop>>
  PROVE  Inv'
<1>. DEFINE c == [step |-> "writing", of |-> h, from |-> row[h].status, to |-> to]
<1>1. c \in ChangeRecord
  BY DEF Inv, Typed, RowRecord, ChangeRecord
<1>. QED
  BY <1>1, InvThread DEF Reading

LEMMA InvDone ==
  ASSUME Inv, NEW t \in Threads, Done(t), UNCHANGED <<row, creating, stop>>
  PROVE  Inv'
<1>1. PICK c \in {NoChange, AnsweredChange} : change' = [change EXCEPT ![t] = c]
  BY DEF Done
<1>2. c \in ChangeRecord /\ c.step # "writing"
  BY Constants
<1>. QED
  BY <1>1, <1>2, InvThread

LEMMA InvStep ==
  ASSUME Inv, NEW t \in Threads, NEW s \in {"entering", "finishing"},
         change' = [change EXCEPT ![t].step = s], UNCHANGED <<row, creating, stop>>
  PROVE  Inv'
<1>. DEFINE c == [change[t] EXCEPT !.step = s]
<1>1. c \in ChangeRecord /\ c.step # "writing"
  BY DEF Inv, Typed, ChangeRecord
<1>2. change' = [change EXCEPT ![t] = c]
  OBVIOUS
<1>. HIDE DEF c
<1>. QED
  BY <1>1, <1>2, InvThread

LEMMA InvWrite ==
  ASSUME Inv, NEW t \in Threads, Write(t)
  PROVE  Inv'
<1>. DEFINE h == change[t].of
<1>. DEFINE r == [row[h] EXCEPT !.status = change[t].to]
<1>1. h \in Handoffs /\ row[h].status # Absent
  BY DEF Write, Inv, Legal
<1>2. row[h] \in RowRecord /\ change[t] \in ChangeRecord
  BY <1>1 DEF Inv, Typed
<1>3. r \in RowRecord /\ r.status # Absent
  BY <1>2 DEF RowRecord, ChangeRecord, Open, Ended, Absent
<1>4. /\ row' = [row EXCEPT ![h] = r] /\ creating' = creating
      /\ stop' = stop /\ stop \in [Stoppers -> StopRecord]
  BY DEF Write, Inv, Typed
<1>5. PICK s \in {"entering", "finishing"} : change' = [change EXCEPT ![t].step = s]
  BY DEF Write
<1>6. change' \in [Threads -> ChangeRecord]
  BY <1>5, <1>2 DEF Inv, Typed, ChangeRecord
<1>7. \A u \in Threads : change'[u].step = "writing" => change'[u] = change[u]
  BY <1>5, <1>2 DEF Inv, Typed, ChangeRecord
<1>. HIDE DEF h, r
<1>. QED
  BY <1>1, <1>3, <1>4, <1>6, <1>7, InvStatus

LEMMA InvCancel ==
  ASSUME Inv, NEW s \in Stoppers, NEW h \in Handoffs, CancelRow(s, h)
  PROVE  Inv'
<1>. DEFINE r == [row[h] EXCEPT !.status = "cancelled", !.stopped = TRUE]
<1>1. r \in RowRecord /\ r.status # Absent
  BY DEF Inv, Typed, RowRecord, Ended, Absent
<1>2. row' = [row EXCEPT ![h] = r] /\ creating' = creating /\ change' = change
  BY DEF CancelRow
<1>3. change' \in [Threads -> ChangeRecord] /\ row[h].status # Absent
  BY <1>2 DEF Inv, Typed, Known, CancelRow
<1>4. PICK q \in StopRecord : /\ stop' = [stop EXCEPT ![s] = q]
                              /\ q.todo \subseteq stop[s].todo
  <2>. DEFINE d == [stop[s] EXCEPT !.todo = stop[s].todo \ {h}, !.current = h]
  <2>1. d \in StopRecord /\ d.todo \subseteq stop[s].todo
    BY DEF Inv, Typed, StopRecord
  <2>2. stop' = [stop EXCEPT ![s] = d]
    BY DEF CancelRow
  <2>. HIDE DEF d
  <2>. QED
    BY <2>1, <2>2
<1>5. /\ stop' \in [Stoppers -> StopRecord]
      /\ \A u \in Stoppers : stop'[u].todo \subseteq stop[u].todo
  BY <1>4 DEF Inv, Typed
<1>. HIDE DEF r
<1>. QED
  BY <1>1, <1>2, <1>3, <1>5, InvStatus

\* A stop goes on; what it adds to its list exists.
LEMMA InvStop ==
  ASSUME Inv, NEW s \in Stoppers, NEW q \in StopRecord,
         \A h \in q.todo : row[h].status # Absent,
         stop' = [stop EXCEPT ![s] = q],
         UNCHANGED <<row, creating, change>>
  PROVE  Inv'
BY DEF Inv, Typed, Fresh, Legal, Known

LEMMA OpenExists == \A S : \A h \in OpenAmong(S) : row[h].status # Absent
BY DEF OpenAmong, Open, Absent

LEMMA InvStopping ==
  ASSUME Inv, NEW s \in Stoppers, Stopping(s) \/ StopFails(s)
  PROVE  Inv'
<1>1. CASE Walk(s)
  <2>1. /\ NextLevel(s) \in SUBSET Handoffs
        /\ OpenAmong(NextLevel(s)) \in SUBSET Handoffs
    BY DEF NextLevel, Children, OpenAmong
  <2>. DEFINE q(p) == [stop[s] EXCEPT !.step = p, !.frontier = NextLevel(s),
                                      !.todo = stop[s].todo \cup OpenAmong(NextLevel(s))]
  <2>2. PICK p \in {"walking", "cancelling"} : stop' = [stop EXCEPT ![s] = q(p)]
    <3>1. CASE NextLevel(s) = {}
      <4>1. stop' = [stop EXCEPT ![s] = q("cancelling")]
        BY <1>1, <3>1 DEF Walk
      <4>. HIDE DEF q
      <4>. QED
        BY <4>1
    <3>2. CASE NextLevel(s) # {}
      <4>3. stop' = [stop EXCEPT ![s] = q("walking")]
        BY <1>1, <3>2 DEF Walk
      <4>. HIDE DEF q
      <4>. QED
        BY <4>3
    <3>. QED
      BY <3>1, <3>2
  <2>3. q(p) \in StopRecord /\ q(p).todo = stop[s].todo \cup OpenAmong(NextLevel(s))
    BY <2>1 DEF Inv, Typed, StopRecord
  <2>4. \A h \in q(p).todo : row[h].status # Absent
    BY <2>3, OpenExists DEF Inv, Known
  <2>. HIDE DEF q
  <2>. QED
    BY <1>1, <2>2, <2>3, <2>4, InvStop DEF Walk
<1>2. CASE \E h \in Handoffs : CancelRow(s, h)
  BY <1>2, InvCancel
<1>3. CASE CancelRun(s) \/ EndStop(s) \/ StopFails(s)
  <2>1. PICK q \in StopRecord : stop' = [stop EXCEPT ![s] = q] /\ q.todo \subseteq stop[s].todo
    <3>1. stop[s] \in StopRecord
      BY DEF Inv, Typed
    <3>2. CASE CancelRun(s)
      <4>. DEFINE d == [stop[s] EXCEPT !.current = None]
      <4>1. d \in StopRecord /\ d.todo = stop[s].todo
        BY <3>1 DEF StopRecord
      <4>. QED
        BY <3>2, <4>1 DEF CancelRun
    <3>3. CASE EndStop(s)
      <4>. DEFINE d == [stop[s] EXCEPT !.step = "over"]
      <4>1. d \in StopRecord /\ d.todo = stop[s].todo
        BY <3>1 DEF StopRecord
      <4>. QED
        BY <3>3, <4>1 DEF EndStop
    <3>4. CASE StopFails(s)
      <4>. DEFINE d == [stop[s] EXCEPT !.step = "over", !.todo = {}, !.current = None]
      <4>1. d \in StopRecord /\ d.todo = {}
        BY <3>1 DEF StopRecord
      <4>. QED
        BY <3>4, <4>1 DEF StopFails
    <3>. QED
      BY <1>3, <3>2, <3>3, <3>4
  <2>2. UNCHANGED <<row, creating, change>>
    BY <1>3 DEF CancelRun, EndStop, StopFails
  <2>. QED
    BY <2>1, <2>2, InvStop DEF Inv, Known
<1>. QED
  BY <1>1, <1>2, <1>3 DEF Stopping

LEMMA InvBeginStop ==
  ASSUME Inv, NEW s \in Stoppers, NEW h \in Handoffs, BeginStop(s, h)
  PROVE  Inv'
<1>1. Tree(h) \in SUBSET Handoffs /\ OpenAmong({h}) \in SUBSET Handoffs
  BY DEF Tree, OpenAmong
<1>. DEFINE q == [step |-> "walking", frontier |-> {h}, todo |-> OpenAmong({h}),
                  current |-> None, existing |-> Tree(h)]
<1>2. q \in StopRecord /\ \A g \in q.todo : row[g].status # Absent
  BY <1>1, OpenExists DEF StopRecord
<1>. QED
  BY <1>2, InvStop DEF BeginStop

LEMMA InvCreation ==
  ASSUME Inv, NEW h \in Handoffs,
         \/ Creation(h) \/ AskRoot(h) \/ CreationFails(h)
         \/ \E p \in Handoffs : AskBelow(h, p)
  PROVE  Inv'
<1>. DEFINE c == creating[h]
<1>0. c \in CreationRecord
  BY DEF Inv, Typed
<1>1. CASE AskRoot(h)
  <2>1. [c EXCEPT !.step = "admitted"] \in CreationRecord
    BY <1>0 DEF CreationRecord
  <2>. QED
    BY <1>1, <2>1, InvAsk DEF AskRoot
<1>2. ASSUME NEW p \in Handoffs, AskBelow(h, p)
      PROVE  Inv'
  <2>1. row[p] \in RowRecord
    BY DEF Inv, Typed
  <2>2. CASE row[p].depth + 1 > MaxDepth
    BY <1>2, <2>2, InvAsk, Constants DEF AskBelow
  <2>3. CASE ~(row[p].depth + 1 > MaxDepth)
    <3>. DEFINE d == [c EXCEPT !.step = "counting", !.parent = p,
                               !.depth = row[p].depth + 1, !.stopped = row[p].stopped]
    <3>1. row[p].depth + 1 \in 0..MaxDepth /\ row[p].stopped \in BOOLEAN
      BY <2>1, <2>3, BoundsAssumption DEF RowRecord
    <3>2. d \in CreationRecord
      BY <1>0, <3>1 DEF CreationRecord
    <3>. QED
      BY <1>2, <2>3, <3>2, InvAsk DEF AskBelow
  <2>. QED
    BY <2>2, <2>3
<1>3. CASE Count(h)
  <2>1. [c EXCEPT !.step = "admitted", !.siblings = Children(c.parent)] \in CreationRecord
    BY <1>0 DEF CreationRecord, Children
  <2>2. PICK d \in CreationRecord : creating' = [creating EXCEPT ![h] = d]
    BY <1>3, <2>1, Constants DEF Count
  <2>. QED
    BY <1>3, <2>2, InvAsk DEF Count
<1>4. CASE CreateRun(h)
  <2>1. [c EXCEPT !.step = "queued"] \in CreationRecord
    BY <1>0 DEF CreationRecord
  <2>. QED
    BY <1>4, <2>1, InvAsk DEF CreateRun
<1>5. CASE InsertRow(h)
  BY <1>5, InvInsert
<1>6. CASE CreationFails(h)
  BY <1>6, InvAsk, Constants DEF CreationFails
<1>. QED
  BY <1>1, <1>2, <1>3, <1>4, <1>5, <1>6 DEF Creation

LEMMA InvChange ==
  ASSUME Inv, NEW t \in Threads, Change(t)
  PROVE  Inv'
<1>1. CASE Write(t)
  BY <1>1, InvWrite
<1>2. CASE Enter(t)
  BY <1>2, InvStep, InvDone DEF Enter
<1>3. CASE Finish(t)
  BY <1>3, InvDone DEF Finish
<1>. QED
  BY <1>1, <1>2, <1>3 DEF Change

LEMMA InvExecutor ==
  ASSUME Inv, NEW h \in Handoffs, Attempt(h) \/ HookFails(h) \/ ProcessDies(h)
  PROVE  Inv'
<1>0. h \in Threads
  BY DEF Threads
<1>1. CASE Hook(h)
  <2>1. Announced[exec[h]] \in Open \cup Ended
    BY <1>1 DEF Hook, Announced, Open, Ended
  <2>2. row[h].status # Absent
    BY <1>1 DEF Hook, Exists
  <2>. QED
    BY <1>0, <1>1, <2>1, <2>2, InvReading DEF Hook
<1>2. CASE HookFails(h) \/ ProcessDies(h)
  BY <1>0, <1>2, InvThread, Constants DEF HookFails, ProcessDies
<1>3. CASE Claim(h) \/ HookRefused(h) \/ Dropped(h) \/ \E ok \in BOOLEAN : Settle(h, ok)
  BY <1>3, InvStutter DEF Claim, HookRefused, Dropped, Settle
<1>. QED
  BY <1>1, <1>2, <1>3 DEF Attempt

LEMMA InvMember ==
  ASSUME Inv, NEW t \in People,
         \/ ChangeFails(t)
         \/ \E h \in Handoffs, to \in Open \cup Ended : Ask(t, h, to)
         \/ \E h \in Handoffs, s \in Statuses : MoveRun(t, h, s)
  PROVE  Inv'
<1>0. t \in Threads
  BY DEF Threads
<1>1. ASSUME NEW h \in Handoffs, NEW s \in Statuses, MoveRun(t, h, s) PROVE Inv'
  BY <1>0, <1>1, InvThread, Constants DEF MoveRun
<1>. QED
  BY <1>0, <1>1, InvDone, InvReading DEF ChangeFails, Ask, Exists

LEMMA InvNext == Inv /\ [Next]_vars => Inv'
<1>. SUFFICES ASSUME Inv, [Next]_vars PROVE Inv'
  OBVIOUS
<1>1. CASE UNCHANGED vars
  BY <1>1, InvStutter DEF vars
<1>2. CASE Next
  BY <1>2, InvCreation, InvExecutor, InvMember, InvChange, InvStopping, InvBeginStop
  DEF Next, Threads
<1>. QED
  BY <1>1, <1>2

\* The step property of EndUndoneByRaceOnly.
EndKept == \A h \in Handoffs : row[h].status \in Ended /\ row'[h].status # row[h].status
                                => h \in overtaken'

LEMMA EndNext == Inv /\ [Next]_vars => EndKept
<1>. SUFFICES ASSUME Inv, [Next]_vars PROVE EndKept
  OBVIOUS
<1>1. CASE UNCHANGED row
  BY <1>1 DEF EndKept
<1>2. ASSUME NEW h \in Handoffs, InsertRow(h)
      PROVE  EndKept
  <2>1. row[h].status = Absent
    BY <1>2 DEF InsertRow, Inv, Fresh
  <2>. QED
    BY <1>2, <2>1 DEF InsertRow, EndKept, Inv, Typed, Ended, Absent
<1>3. ASSUME NEW t \in Threads, Write(t)
      PROVE  EndKept
  <2>. DEFINE c == change[t]
  <2>1. c.of \in Handoffs /\ Allowed(c.from, c.to) /\ c \in ChangeRecord
    BY <1>3 DEF Write, Inv, Typed, Legal
  <2>2. /\ row' = [row EXCEPT ![c.of].status = c.to]
        /\ row[c.of].status # c.from => c.of \in overtaken'
    BY <1>3 DEF Write
  <2>3. c.from \in Ended => c.to = c.from
    BY <2>1 DEF Allowed, Moves, Open, Ended
  <2>. HIDE DEF c
  <2>. QED
    BY <2>1, <2>2, <2>3 DEF EndKept, Inv, Typed, RowRecord
<1>4. ASSUME NEW s \in Stoppers, NEW h \in Handoffs, CancelRow(s, h)
      PROVE  EndKept
  BY <1>4 DEF CancelRow, EndKept, Inv, Typed
<1>. QED
  BY <1>1, <1>2, <1>3, <1>4
  DEF Next, vars, Threads, Creation, Attempt, Change, Stopping, AskRoot, AskBelow, Count,
      CreateRun, CreationFails, Ask, Enter, Finish, ChangeFails, MoveRun, Claim, Hook,
      HookRefused, HookFails, Settle, Dropped, ProcessDies, BeginStop, Walk, CancelRun, EndStop,
      StopFails

\* An end is final but for one race, whatever overlaps and fails: a handoff that
\* ended changes its status only by a request that had read it before.
THEOREM EndsAreFinal == Spec => EndUndoneByRaceOnly
<1>1. Spec => []Inv
  BY InvInit, InvNext, PTL DEF Spec
<1>2. Inv /\ [Next]_vars
        => [\A h \in Handoffs : row[h].status \in Ended /\ row'[h].status # row[h].status
              => h \in overtaken']_vars
  BY EndNext DEF EndKept
<1>. QED
  BY <1>1, <1>2, PTL DEF Spec, EndUndoneByRaceOnly

----------------------------------------------------------------------------
(* The types of the run, the attempt and the history *)

RunRecord == [status : Statuses \cup {Absent}, leased : BOOLEAN, attempt : Nat]

Phases == {"away", "none", "starting", "working", "refused", "succeeded", "failed", "lost"}

RunTyped == run \in [Handoffs -> RunRecord]

Others == /\ exec \in [Handoffs -> Phases]
          /\ {crowded, overtaken, dragged, mishap} \subseteq SUBSET Handoffs
          /\ moved \in [Handoffs -> SUBSET Statuses]
          /\ faults \in 0..MaxFaults

\* A run r whose attempts are counted and, while it is queued, may be attempted.
Below(r) == /\ r.attempt <= MaxAttempts
            /\ r.status = "queued" => r.attempt < MaxAttempts

Ceiling == \A h \in Handoffs : "queued" \in moved[h] \/ Below(run[h])

\* Nothing attempts a run before the row of its handoff is there.
Young == \A h \in Handoffs : creating[h].step # "over" => run[h].attempt = 0

\* What a change drags along is the run of a handoff, and only an end finishes it.
Held == \A t \in Threads :
          /\ change[t].step \in {"entering", "finishing"} => change[t].of \in Handoffs
          /\ change[t].step = "finishing" => change[t].to \in Ended

Attempts == RunTyped /\ Ceiling /\ Young

Strong == Inv /\ Attempts /\ Held /\ Others

LEMMA StrongInit == Init => Strong
<1>. SUFFICES ASSUME NEW scene \in Scenes, InitScene(scene)
              PROVE  Strong
  BY DEF Init
<1>1. Inv
  BY InvInit DEF Init
<1>2. Attempts
  BY BoundsAssumption DEF InitScene, Attempts, RunTyped, Ceiling, Below, Young, RunRecord, Absent
<1>3. Held
  BY DEF InitScene, Held, Threads, NoChange, AnsweredChange
<1>4. Others
  <2>1. scene.faults \in 0..MaxFaults
    BY ScenesAssumption
  <2>2. MaxFaults - scene.faults \in 0..MaxFaults
    BY <2>1, BoundsAssumption
  <2>. QED
    BY <2>2 DEF InitScene, Others, Phases
<1>. QED
  BY <1>1, <1>2, <1>3, <1>4 DEF Strong

LEMMA AttemptsStutter == Attempts /\ UNCHANGED <<run, creating, moved>> => Attempts'
BY DEF Attempts, RunTyped, Ceiling, Young

\* A run changes, and if it is queued it may be attempted.
LEMMA AttemptsRun ==
  ASSUME Attempts, NEW h \in Handoffs, NEW r \in RunRecord,
         run' = [run EXCEPT ![h] = r], UNCHANGED <<creating, moved>>,
         "queued" \in moved[h] \/ Below(r),
         creating[h].step # "over" => r.attempt = 0
  PROVE  Attempts'
BY DEF Attempts, RunTyped, Ceiling, Young

\* A run is dragged along: it is never queued by that.
LEMMA AttemptsSent ==
  ASSUME Attempts, NEW h \in Handoffs, UNCHANGED <<creating, moved>>,
         NEW s \in {"running", "succeeded", "failed", "cancelled"}, run' = Sent(h, s)
  PROVE  Attempts'
<1>1. CASE s \notin Transitions[run[h].status]
  BY <1>1, AttemptsStutter DEF Sent
<1>2. CASE s \in Transitions[run[h].status]
  <2>. DEFINE kept == (run[h].leased /\ s \notin Terminal \cup {"queued"})
  <2>. DEFINE r == [run[h] EXCEPT !.status = s, !.leased = kept]
  <2>0. run[h] \in RunRecord /\ s \in Statuses /\ s # "queued"
    BY DEF Attempts, RunTyped, Statuses
  <2>1. kept \in BOOLEAN
    OBVIOUS
  <2>2. run' = [run EXCEPT ![h] = r]
    BY <1>2 DEF Sent
  <2>. HIDE DEF kept
  <2>3. r \in RunRecord /\ r.status = s /\ r.attempt = run[h].attempt
    BY <2>0, <2>1 DEF RunRecord
  <2>. HIDE DEF r
  <2>4. "queued" \in moved[h] \/ Below(r)
    BY <2>0, <2>3 DEF Attempts, Ceiling, Below
  <2>. QED
    BY <2>0, <2>2, <2>3, <2>4, AttemptsRun DEF Attempts, Young
<1>. QED
  BY <1>1, <1>2

\* A member writes a status into a run: what queues it again is on record.
LEMMA AttemptsMoved ==
  ASSUME Attempts, Others, NEW t \in People, NEW h \in Handoffs, NEW s \in Statuses,
         MoveRun(t, h, s)
  PROVE  Attempts' /\ moved' \in [Handoffs -> SUBSET Statuses]
<1>. DEFINE kept == (run[h].leased /\ s \notin Terminal \cup {"queued"})
<1>. DEFINE r == [run[h] EXCEPT !.status = s, !.leased = kept]
<1>1. run[h] \in RunRecord /\ kept \in BOOLEAN
  BY DEF Attempts, RunTyped
<1>2. run' = [run EXCEPT ![h] = r] /\ UNCHANGED creating
  BY DEF MoveRun, Sent
<1>. HIDE DEF kept
<1>3. r \in RunRecord /\ r.status = s /\ r.attempt = run[h].attempt
  BY <1>1 DEF RunRecord
<1>. HIDE DEF r
<1>4. /\ moved' = [moved EXCEPT ![h] = moved[h] \cup {s}]
      /\ moved' \in [Handoffs -> SUBSET Statuses]
  BY DEF MoveRun, Others
<1>5. "queued" \in moved'[h] \/ Below(r)
  BY <1>3, <1>4 DEF Attempts, Ceiling, Below, Others
<1>6. \A g \in Handoffs : g # h => moved'[g] = moved[g] /\ run'[g] = run[g]
  BY <1>2, <1>4 DEF Others, Attempts, RunTyped
<1>7. run'[h] = r
  BY <1>2 DEF Attempts, RunTyped
<1>8. RunTyped'
  BY <1>2, <1>3 DEF Attempts, RunTyped
<1>9. Ceiling'
  BY <1>5, <1>6, <1>7 DEF Attempts, Ceiling
<1>10. Young'
  BY <1>2, <1>3, <1>6, <1>7 DEF Attempts, Young
<1>. QED
  BY <1>4, <1>8, <1>9, <1>10 DEF Attempts

LEMMA AttemptsNext == Strong /\ [Next]_vars => Attempts'
<1>. SUFFICES ASSUME Strong, [Next]_vars PROVE Attempts'
  OBVIOUS
<1>0. Attempts
  BY DEF Strong
<1>1. CASE UNCHANGED vars
  BY <1>0, <1>1, AttemptsStutter DEF vars
<1>2. ASSUME NEW h \in Handoffs,
             \/ AskRoot(h) \/ Count(h) \/ InsertRow(h) \/ CreationFails(h)
             \/ \E p \in Handoffs : AskBelow(h, p)
      PROVE  Attempts'
  <2>1. creating[h].step # "over" /\ UNCHANGED <<run, moved>>
    BY <1>2 DEF AskRoot, Count, InsertRow, CreationFails, AskBelow
  <2>2. \A g \in Handoffs : creating'[g].step # "over" => creating[g].step # "over"
    BY <1>2, <2>1
    DEF Strong, Inv, Typed, AskRoot, Count, InsertRow, CreationFails, AskBelow
  <2>. QED
    BY <1>0, <2>1, <2>2 DEF Attempts, RunTyped, Ceiling, Young
<1>3. ASSUME NEW h \in Handoffs, CreateRun(h)
      PROVE  Attempts'
  <2>. DEFINE r == [run[h] EXCEPT !.status = "queued"]
  <2>1. run[h] \in RunRecord /\ run[h].attempt = 0 /\ creating[h].step # "over"
    BY <1>0, <1>3 DEF CreateRun, Attempts, RunTyped, Young
  <2>2. r \in RunRecord /\ r.attempt = 0
    BY <2>1 DEF RunRecord, Statuses
  <2>3. run' = [run EXCEPT ![h] = r] /\ UNCHANGED moved
    BY <1>3 DEF CreateRun
  <2>4. \A g \in Handoffs : creating'[g].step # "over" => creating[g].step # "over"
    BY <1>3 DEF CreateRun, Strong, Inv, Typed
  <2>. HIDE DEF r
  <2>. QED
    BY <1>0, <2>2, <2>3, <2>4, BoundsAssumption DEF Attempts, RunTyped, Ceiling, Below, Young
<1>4. ASSUME NEW h \in Handoffs, Claim(h)
      PROVE  Attempts'
  <2>. DEFINE r == [status |-> "running", leased |-> TRUE, attempt |-> run[h].attempt + 1]
  <2>1. run[h] \in RunRecord /\ ("queued" \in moved[h] \/ run[h].attempt < MaxAttempts)
    BY <1>0, <1>4 DEF Claim, Attempts, RunTyped, Ceiling, Below
  <2>2. r \in RunRecord /\ ("queued" \in moved[h] \/ Below(r))
    BY <2>1, BoundsAssumption DEF RunRecord, Statuses, Below
  <2>3. run' = [run EXCEPT ![h] = r] /\ UNCHANGED <<creating, moved>>
    BY <1>4 DEF Claim
  <2>4. creating[h].step = "over"
    BY <1>4 DEF Claim, Exists, Strong, Inv, Fresh
  <2>. QED
    BY <1>0, <2>2, <2>3, <2>4, AttemptsRun
<1>5. ASSUME NEW h \in Handoffs, NEW ok \in BOOLEAN, Settle(h, ok)
      PROVE  Attempts'
  <2>. DEFINE retry == (~ok /\ Retries(h))
  <2>. DEFINE s == IF ok THEN "succeeded" ELSE IF retry THEN "queued" ELSE "failed"
  <2>. DEFINE r == [run[h] EXCEPT !.leased = FALSE, !.status = s]
  <2>0. run[h] \in RunRecord
    BY <1>0 DEF Attempts, RunTyped
  <2>1. s \in Statuses /\ (s = "queued" => run[h].attempt < MaxAttempts)
    BY DEF Statuses, Retries
  <2>2. run' = [run EXCEPT ![h] = r] /\ UNCHANGED <<creating, moved>>
    BY <1>5 DEF Settle
  <2>. HIDE DEF s
  <2>3. r \in RunRecord /\ r.status = s /\ r.attempt = run[h].attempt
    BY <2>0, <2>1 DEF RunRecord
  <2>. HIDE DEF r
  <2>4. "queued" \in moved[h] \/ Below(r)
    BY <1>0, <2>1, <2>3 DEF Attempts, Ceiling, Below
  <2>. QED
    BY <1>0, <2>2, <2>3, <2>4, AttemptsRun DEF Attempts, Young
<1>6. ASSUME NEW t \in Threads, Enter(t)
      PROVE  Attempts'
  <2>1. change[t].of \in Handoffs /\ UNCHANGED <<creating, moved>>
    BY <1>6 DEF Enter, Strong, Held
  <2>2. run' = run \/ run' = Sent(change[t].of, "running")
    BY <1>6 DEF Enter
  <2>. QED
    BY <1>0, <2>1, <2>2, AttemptsSent, AttemptsStutter
<1>7. ASSUME NEW t \in Threads, Finish(t)
      PROVE  Attempts'
  <2>1. change[t].of \in Handoffs /\ change[t].to \in Ended
    BY <1>7 DEF Finish, Strong, Held
  <2>2. Outcome(change[t].to) \in {"succeeded", "failed", "cancelled"}
    BY <2>1 DEF Outcome, Ended
  <2>3. run' = Sent(change[t].of, Outcome(change[t].to)) /\ UNCHANGED <<creating, moved>>
    BY <1>7 DEF Finish
  <2>. QED
    BY <1>0, <2>1, <2>2, <2>3, AttemptsSent
<1>8. ASSUME NEW s \in Stoppers, CancelRun(s)
      PROVE  Attempts'
  <2>1. stop[s].current \in Handoffs
    BY <1>8 DEF CancelRun, Strong, Inv, Typed, StopRecord
  <2>. QED
    BY <1>0, <1>8, <2>1, AttemptsSent DEF CancelRun
<1>9. ASSUME UNCHANGED <<run, creating, moved>> PROVE Attempts'
  BY <1>0, <1>9, AttemptsStutter
<1>10. ASSUME NEW t \in People, NEW h \in Handoffs, NEW s \in Statuses, MoveRun(t, h, s)
       PROVE  Attempts'
  BY <1>0, <1>10, AttemptsMoved DEF Strong
<1>. QED
  BY <1>1, <1>2, <1>3, <1>4, <1>5, <1>6, <1>7, <1>8, <1>9, <1>10
  DEF Next, Threads, Creation, Attempt, Change, Stopping, Ask, Write, ChangeFails, Hook,
      HookRefused, HookFails, Dropped, ProcessDies, BeginStop, Walk, CancelRow, EndStop,
      StopFails

LEMMA HeldNext == Strong /\ [Next]_vars => Held'
<1>. SUFFICES ASSUME Strong, [Next]_vars PROVE Held'
  OBVIOUS
<1>0. Held /\ change \in [Threads -> ChangeRecord]
  BY DEF Strong, Inv, Typed
<1>1. ASSUME UNCHANGED change PROVE Held'
  BY <1>0, <1>1 DEF Held
<1>2. ASSUME NEW t \in Threads, NEW c \in ChangeRecord, change' = [change EXCEPT ![t] = c],
             c.step \in {"idle", "writing", "over"}
      PROVE  Held'
  BY <1>0, <1>2 DEF Held
<1>3. ASSUME NEW t \in Threads, Done(t) PROVE Held'
  BY <1>2, <1>3, Constants DEF Done, NoChange, AnsweredChange
<1>4. ASSUME NEW t \in Threads, NEW h \in Handoffs, NEW to \in Open \cup Ended,
             row[h].status # Absent, Reading(t, h, to)
      PROVE  Held'
  <2>. DEFINE c == [step |-> "writing", of |-> h, from |-> row[h].status, to |-> to]
  <2>1. c \in ChangeRecord
    BY <1>4 DEF Strong, Inv, Typed, RowRecord, ChangeRecord
  <2>. QED
    BY <1>2, <1>4, <2>1 DEF Reading
<1>5. ASSUME NEW t \in Threads, Write(t) PROVE Held'
  <2>1. change[t].of \in Handoffs /\ change[t] \in ChangeRecord
    BY <1>5, <1>0 DEF Write, Strong, Inv, Legal
  <2>2. change' = [change EXCEPT ![t].step = IF change[t].to = "cancelled" THEN "finishing"
                                             ELSE "entering"]
    BY <1>5 DEF Write
  <2>3. /\ change'[t].of = change[t].of /\ change'[t].to = change[t].to
        /\ change'[t].step = "finishing" => change[t].to = "cancelled"
        /\ \A u \in Threads : u # t => change'[u] = change[u]
    BY <2>2, <1>0
  <2>. QED
    BY <1>0, <2>1, <2>3 DEF Held, Ended
<1>6. ASSUME NEW t \in Threads, Enter(t) PROVE Held'
  <2>1. CASE change[t].to \in Ended
    <3>1. change' = [change EXCEPT ![t].step = "finishing"] /\ change[t].of \in Handoffs
      BY <1>6, <2>1, <1>0 DEF Enter, Held
    <3>2. /\ change'[t].of = change[t].of /\ change'[t].to = change[t].to
          /\ \A u \in Threads : u # t => change'[u] = change[u]
      BY <3>1, <1>0
    <3>. QED
      BY <1>0, <2>1, <3>1, <3>2 DEF Held
  <2>2. CASE change[t].to \notin Ended
    BY <1>3, <1>6, <2>2 DEF Enter
  <2>. QED
    BY <2>1, <2>2
<1>7. ASSUME NEW h \in Handoffs, Hook(h) PROVE Held'
  <2>1. Announced[exec[h]] \in Open \cup Ended /\ row[h].status # Absent /\ h \in Threads
    BY <1>7 DEF Hook, Announced, Open, Ended, Exists, Threads
  <2>. QED
    BY <1>4, <1>7, <2>1 DEF Hook
<1>8. ASSUME NEW h \in Handoffs, HookFails(h) \/ ProcessDies(h) PROVE Held'
  BY <1>2, <1>8, Constants DEF HookFails, ProcessDies, Threads, NoChange
<1>9. ASSUME NEW t \in People, NEW h \in Handoffs, NEW to \in Open \cup Ended, Ask(t, h, to)
      PROVE  Held'
  BY <1>4, <1>9 DEF Ask, Exists, Threads
<1>10. ASSUME NEW t \in Threads, Finish(t) \/ ChangeFails(t) PROVE Held'
  BY <1>3, <1>10 DEF Finish, ChangeFails
<1>11. ASSUME NEW t \in People, NEW h \in Handoffs, NEW s \in Statuses, MoveRun(t, h, s)
       PROVE  Held'
  BY <1>2, <1>11, Constants DEF MoveRun, Threads, AnsweredChange, NoChange
<1>. QED
  BY <1>1, <1>5, <1>6, <1>7, <1>8, <1>9, <1>10, <1>11
  DEF Next, vars, Threads, Creation, Attempt, Change, Stopping, AskRoot, AskBelow, Count,
      CreateRun, InsertRow, CreationFails, Claim, HookRefused, Settle, Dropped, BeginStop,
      Walk, CancelRow, CancelRun, EndStop, StopFails

LEMMA OthersNext == Strong /\ [Next]_vars => Others'
<1>. SUFFICES ASSUME Strong, [Next]_vars PROVE Others'
  OBVIOUS
<1>0. Others
  BY DEF Strong
<1>1. exec' \in [Handoffs -> Phases]
  <2>0. exec \in [Handoffs -> Phases]
    BY DEF Strong, Others
  <2>1. ASSUME NEW t \in Threads, Done(t) PROVE exec' \in [Handoffs -> Phases]
    BY <2>0, <2>1 DEF Done, Phases
  <2>2. ASSUME NEW h \in Handoffs,
               \/ Claim(h) \/ HookRefused(h) \/ HookFails(h) \/ Dropped(h) \/ ProcessDies(h)
               \/ \E ok \in BOOLEAN : Settle(h, ok)
        PROVE  exec' \in [Handoffs -> Phases]
    BY <2>0, <2>2
    DEF Claim, HookRefused, HookFails, Dropped, ProcessDies, Settle, Reported, Phases
  <2>. QED
    BY <2>0, <2>1, <2>2
    DEF Next, vars, Threads, Creation, Attempt, Change, Stopping, AskRoot, AskBelow, Count,
        CreateRun, InsertRow, CreationFails, Ask, Write, Enter, Finish, ChangeFails, MoveRun, Hook,
        BeginStop, Walk, CancelRow, CancelRun, EndStop, StopFails
<1>2. faults' \in 0..MaxFaults
  <2>1. Fault => faults' \in 0..MaxFaults
    BY <1>0, BoundsAssumption DEF Fault, Others
  <2>2. Fault \/ UNCHANGED faults
    BY DEF Next, vars, Threads, Creation, Attempt, Change, Stopping, AskRoot, AskBelow, Count,
           CreateRun, InsertRow, CreationFails, Ask, Write, Enter, Finish, ChangeFails, MoveRun, Claim,
           Hook, HookRefused, HookFails, Settle, Dropped, ProcessDies, BeginStop, Walk,
           CancelRow, CancelRun, EndStop, StopFails
  <2>. QED
    BY <1>0, <2>1, <2>2 DEF Others
<1>3. crowded' \subseteq Handoffs
  <2>1. ASSUME NEW h \in Handoffs, InsertRow(h) PROVE crowded' \subseteq Handoffs
    BY <1>0, <2>1 DEF InsertRow, Others
  <2>. QED
    BY <1>0, <2>1
    DEF Others, Next, vars, Threads, Creation, Attempt, Change, Stopping, AskRoot, AskBelow,
        Count, CreateRun, CreationFails, Ask, Write, Enter, Finish, ChangeFails, MoveRun, Claim,
        Hook, HookRefused, HookFails, Settle, Dropped, ProcessDies, BeginStop, Walk,
        CancelRow, CancelRun, EndStop, StopFails
<1>4. overtaken' \subseteq Handoffs
  <2>1. ASSUME NEW t \in Threads, Write(t) PROVE overtaken' \subseteq Handoffs
    BY <1>0, <2>1 DEF Write, Others, Strong, Inv, Legal
  <2>2. ASSUME NEW s \in Stoppers, NEW h \in Handoffs, CancelRow(s, h)
        PROVE  overtaken' \subseteq Handoffs
    BY <1>0, <2>2 DEF CancelRow, Others
  <2>. QED
    BY <1>0, <2>1, <2>2
    DEF Others, Next, vars, Threads, Creation, Attempt, Change, Stopping, AskRoot, AskBelow,
        Count, CreateRun, InsertRow, CreationFails, Ask, Enter, Finish, ChangeFails, MoveRun, Claim,
        Hook, HookRefused, HookFails, Settle, Dropped, ProcessDies, BeginStop, Walk,
        CancelRun, EndStop, StopFails
<1>5. mishap' \subseteq Handoffs
  <2>1. ASSUME NEW t \in Threads, ChangeFails(t) PROVE mishap' \subseteq Handoffs
    BY <1>0, <2>1 DEF ChangeFails, Others, Strong, Held
  <2>2. ASSUME NEW h \in Handoffs, HookFails(h) \/ ProcessDies(h)
        PROVE  mishap' \subseteq Handoffs
    BY <1>0, <2>2 DEF HookFails, ProcessDies, Others
  <2>3. ASSUME NEW s \in Stoppers, StopFails(s) PROVE mishap' \subseteq Handoffs
    BY <1>0, <2>3 DEF StopFails, Others, Strong, Inv, Typed, StopRecord
  <2>. QED
    BY <1>0, <2>1, <2>2, <2>3
    DEF Others, Next, vars, Threads, Creation, Attempt, Change, Stopping, AskRoot, AskBelow,
        Count, CreateRun, InsertRow, CreationFails, Ask, Write, Enter, Finish, MoveRun,
        Claim, Hook, HookRefused, Settle, Dropped, BeginStop, Walk, CancelRow, CancelRun,
        EndStop
<1>6. dragged' \subseteq Handoffs
  <2>1. ASSUME NEW t \in Threads, Enter(t) PROVE dragged' \subseteq Handoffs
    BY <1>0, <2>1 DEF Enter, Others, Strong, Held
  <2>. QED
    BY <1>0, <2>1
    DEF Others, Next, vars, Threads, Creation, Attempt, Change, Stopping, AskRoot, AskBelow,
        Count, CreateRun, InsertRow, CreationFails, Ask, Write, Finish, ChangeFails, MoveRun, Claim,
        Hook, HookRefused, HookFails, Settle, Dropped, ProcessDies, BeginStop, Walk,
        CancelRow, CancelRun, EndStop, StopFails
<1>7. moved' \in [Handoffs -> SUBSET Statuses]
  <2>1. ASSUME NEW t \in People, NEW h \in Handoffs, NEW s \in Statuses, MoveRun(t, h, s)
        PROVE  moved' \in [Handoffs -> SUBSET Statuses]
    BY <2>1, AttemptsMoved DEF Strong
  <2>. QED
    BY <1>0, <2>1
    DEF Others, Next, vars, Threads, Creation, Attempt, Change, Stopping, AskRoot, AskBelow,
        Count, CreateRun, InsertRow, CreationFails, Ask, Write, Enter, Finish, ChangeFails,
        Claim, Hook, HookRefused, HookFails, Settle, Dropped, ProcessDies, BeginStop, Walk,
        CancelRow, CancelRun, EndStop, StopFails
<1>. QED
  BY <1>1, <1>2, <1>3, <1>4, <1>5, <1>6, <1>7 DEF Others

LEMMA StrongNext == Strong /\ [Next]_vars => Strong'
BY InvNext, AttemptsNext, HeldNext, OthersNext DEF Strong

\* Every row, run and request keeps its shape, and no run is attempted more often
\* than its ceiling says unless a member queues it again, however members, stops,
\* retries and failures overlap.
THEOREM TypeCorrect == Spec => []TypeOK
<1>1. Strong => TypeOK
  BY DEF Strong, Inv, Typed, Attempts, RunTyped, Ceiling, Below, Others, TypeOK, RowRecord,
         RunRecord, CreationRecord, ChangeRecord, StopRecord, Threads, Phases
<1>. QED
  BY <1>1, StrongInit, StrongNext, PTL DEF Spec

----------------------------------------------------------------------------
(* What was below a handoff when it was stopped *)

\* A step that inserts no row leaves the tree as it is.
LEMMA TreeKept ==
  ASSUME Inv, [Next]_vars, \A h \in Handoffs : ~InsertRow(h)
  PROVE  /\ \A h \in Handoffs : row'[h].parent = row[h].parent /\ (Exists(h)' <=> Exists(h))
         /\ UNCHANGED crowded
<1>1. CASE UNCHANGED <<row, crowded>>
  BY <1>1 DEF Exists
<1>2. ASSUME NEW t \in Threads, Write(t)
      PROVE  \A h \in Handoffs : row'[h].parent = row[h].parent /\ (Exists(h)' <=> Exists(h))
  <2>1. PICK c \in ChangeRecord : /\ c.of \in Handoffs /\ row[c.of].status # Absent
                                 /\ row' = [row EXCEPT ![c.of].status = c.to]
    BY <1>2 DEF Write, Inv, Typed, Legal
  <2>2. c.to # Absent
    BY DEF ChangeRecord, Open, Ended, Absent
  <2>. QED
    BY <2>1, <2>2 DEF Inv, Typed, RowRecord, Exists
<1>3. ASSUME NEW s \in Stoppers, NEW h \in Handoffs, CancelRow(s, h)
      PROVE  \A g \in Handoffs : row'[g].parent = row[g].parent /\ (Exists(g)' <=> Exists(g))
  <2>1. row[h].status # Absent
    BY <1>3 DEF CancelRow, Inv, Known
  <2>. QED
    BY <1>3, <2>1 DEF CancelRow, Inv, Typed, RowRecord, Exists, Absent
<1>4. UNCHANGED crowded
  BY DEF Next, vars, Threads, Creation, Attempt, Change, Stopping, AskRoot, AskBelow, Count,
         CreateRun, CreationFails, Ask, Write, Enter, Finish, ChangeFails, MoveRun, Claim, Hook,
         HookRefused, HookFails, Settle, Dropped, ProcessDies, BeginStop, Walk, CancelRow,
         CancelRun, EndStop, StopFails
<1>. QED
  BY <1>1, <1>2, <1>3, <1>4
  DEF Next, vars, Threads, Creation, Attempt, Change, Stopping, AskRoot, AskBelow, Count,
      CreateRun, CreationFails, Ask, Enter, Finish, ChangeFails, MoveRun, Claim, Hook, HookRefused,
      HookFails, Settle, Dropped, ProcessDies, BeginStop, Walk, CancelRun, EndStop, StopFails

\* What a row once was, it stays, and nothing is struck from the history.
LEMMA RowsStay ==
  ASSUME Inv, [Next]_vars
  PROVE  /\ \A h \in Handoffs : Exists(h) => Exists(h)' /\ row'[h].parent = row[h].parent
         /\ crowded \subseteq crowded' /\ overtaken \subseteq overtaken'
         /\ mishap \subseteq mishap'
<1>1. CASE \E h \in Handoffs : InsertRow(h)
  <2>1. PICK h \in Handoffs : InsertRow(h)
    BY <1>1
  <2>2. row[h].status = Absent
    BY <2>1 DEF InsertRow, Inv, Fresh
  <2>. QED
    BY <2>1, <2>2 DEF InsertRow, Inv, Typed, Exists
<1>2. CASE \A h \in Handoffs : ~InsertRow(h)
  <2>1. overtaken \subseteq overtaken' /\ mishap \subseteq mishap'
    BY <1>2
    DEF Next, vars, Threads, Creation, Attempt, Change, Stopping, AskRoot, AskBelow, Count,
        CreateRun, CreationFails, Ask, Write, Enter, Finish, ChangeFails, MoveRun, Claim, Hook,
        HookRefused, HookFails, Settle, Dropped, ProcessDies, BeginStop, Walk, CancelRow,
        CancelRun, EndStop, StopFails
  <2>. QED
    BY <1>2, <2>1, TreeKept
<1>. QED
  BY <1>1, <1>2

\* Nor is anything that members wrote into a run.
LEMMA MovedStays ==
  ASSUME Strong, [Next]_vars, NEW h \in Handoffs
  PROVE  moved[h] \subseteq moved'[h] /\ (EndedByHand(h) => EndedByHand(h)')
<1>1. ASSUME NEW t \in People, NEW g \in Handoffs, NEW s \in Statuses, MoveRun(t, g, s)
      PROVE  moved[h] \subseteq moved'[h]
  BY <1>1 DEF MoveRun, Strong, Others
<1>2. moved[h] \subseteq moved'[h]
  BY <1>1
  DEF Next, vars, Threads, Creation, Attempt, Change, Stopping, AskRoot, AskBelow, Count,
      CreateRun, InsertRow, CreationFails, Ask, Write, Enter, Finish, ChangeFails, Claim, Hook,
      HookRefused, HookFails, Settle, Dropped, ProcessDies, BeginStop, Walk, CancelRow,
      CancelRun, EndStop, StopFails
<1>. QED
  BY <1>2 DEF EndedByHand

\* Handoffs form trees: parents are there before their children.
Rooted ==
  /\ \A h, p \in Handoffs : Exists(h) /\ row[h].parent = p => Exists(p)
  /\ \A h, p \in Handoffs :
       creating[h].step # "over" /\ creating[h].parent = p => Exists(p)
  /\ \A S \in SUBSET {h \in Handoffs : Exists(h)} :
       S # {} => \E g \in S : row[g].parent \notin S

\* A handoff a stop need not look at again.
Handled(s, h) == \/ row[h].status \in Ended
                 \/ h \in overtaken \cup mishap \cup stop[s].todo

\* The rest W of what was there lies below the level the walk has reached.
Rest(s, W) == /\ W # {} => stop[s].step = "walking"
              /\ \A h \in W : row[h].parent \in stop[s].frontier \cup W
              /\ \A h \in stop[s].existing \ W : Handled(s, h)

WalkedOf(s) ==
  /\ \A h \in stop[s].existing : Exists(h)
  /\ \E W \in SUBSET stop[s].existing : Rest(s, W)
  /\ stop[s].step = "over" => stop[s].todo = {}

Walked == \A s \in Stoppers : WalkedOf(s)

LEMMA WalkedInit == Init => Rooted /\ Walked
<1>. SUFFICES ASSUME NEW scene \in Scenes, InitScene(scene) PROVE Rooted /\ Walked
  BY DEF Init
<1>1. Rooted
  BY NamesAssumption DEF InitScene, Rooted, Exists, Asking, Answered
<1>2. \A s \in Stoppers : stop[s].existing = {} /\ stop[s].todo = {}
  BY DEF InitScene
<1>3. Walked
  BY <1>2 DEF Walked, WalkedOf, Rest
<1>. QED
  BY <1>1, <1>3

LEMMA RootedInsert ==
  ASSUME Inv, Rooted, NEW h \in Handoffs, InsertRow(h)
  PROVE  Rooted'
<1>1. PICK new \in RowRecord :
        /\ new.status = "queued" /\ new.parent = creating[h].parent
        /\ row' = [row EXCEPT ![h] = new]
  <2>. DEFINE new == [status |-> "queued", parent |-> creating[h].parent,
                      depth |-> creating[h].depth, stopped |-> FALSE]
  <2>1. new \in RowRecord
    BY DEF Inv, Typed, CreationRecord, RowRecord, Open
  <2>. QED
    BY <2>1 DEF InsertRow
<1>2. /\ row[h].status = Absent /\ creating[h].step # "over"
      /\ creating' = [creating EXCEPT ![h] = Answered]
  BY DEF InsertRow, Inv, Fresh
<1>3. /\ row'[h] = new /\ \A g \in Handoffs : g # h => row'[g] = row[g]
      /\ Exists(h)' /\ ~Exists(h) /\ \A g \in Handoffs : g # h => (Exists(g)' <=> Exists(g))
  BY <1>1, <1>2 DEF Inv, Typed, Exists, Absent
<1>4. new.parent # h /\ \A p \in Handoffs : new.parent = p => Exists(p)
  BY <1>1, <1>2, <1>3 DEF Rooted
<1>5. \A g \in Handoffs : Exists(g) => row[g].parent # h
  BY <1>3 DEF Rooted
<1>6. ASSUME NEW g \in Handoffs, NEW p \in Handoffs, Exists(g)', row'[g].parent = p
      PROVE  Exists(p)'
  <2>1. Exists(p)
    BY <1>3, <1>4, <1>6 DEF Rooted
  <2>. QED
    BY <1>3, <2>1
<1>7. ASSUME NEW g \in Handoffs, NEW p \in Handoffs,
             creating'[g].step # "over", creating'[g].parent = p
      PROVE  Exists(p)'
  <2>1. creating'[g] = creating[g]
    BY <1>2, <1>7 DEF Answered, Asking, Inv, Typed
  <2>2. Exists(p)
    BY <1>7, <2>1 DEF Rooted
  <2>. QED
    BY <1>3, <2>2
<1>8. ASSUME NEW S \in SUBSET {g \in Handoffs : Exists(g)'}, S # {}
      PROVE  \E g \in S : row'[g].parent \notin S
  <2>1. CASE S \ {h} = {}
    <3>1. S = {h} /\ new.parent # h
      BY <1>4, <1>8, <2>1, NamesAssumption
    <3>. QED
      BY <1>1, <1>3, <3>1
  <2>2. CASE S \ {h} # {}
    <3>1. PICK g \in S \ {h} : row[g].parent \notin S \ {h}
      <4>1. S \ {h} \in SUBSET {g \in Handoffs : Exists(g)}
        BY <1>3
      <4>. QED
        BY <2>2, <4>1 DEF Rooted
    <3>2. Exists(g) /\ g \in Handoffs /\ row'[g] = row[g] /\ row[g].parent # h
      BY <1>3, <1>5
    <3>. QED
      BY <3>1, <3>2
  <2>. QED
    BY <2>1, <2>2
<1>. QED
  BY <1>6, <1>7, <1>8 DEF Rooted

LEMMA RootedNext == Inv /\ Rooted /\ [Next]_vars => Rooted'
<1>. SUFFICES ASSUME Inv, Rooted, [Next]_vars PROVE Rooted'
  OBVIOUS
<1>1. CASE \E h \in Handoffs : InsertRow(h)
  BY <1>1, RootedInsert
<1>2. CASE \A h \in Handoffs : ~InsertRow(h)
  <2>1. \A h \in Handoffs : row'[h].parent = row[h].parent /\ (Exists(h)' <=> Exists(h))
    BY <1>2, TreeKept
  <2>2. ASSUME NEW h \in Handoffs, NEW p \in Handoffs, Exists(h)', row'[h].parent = p
        PROVE  Exists(p)'
    BY <2>1, <2>2 DEF Rooted, Exists
  <2>3. ASSUME NEW h \in Handoffs,
               creating'[h].step # "over", creating'[h].parent # creating[h].parent
        PROVE  \E p \in Handoffs : creating'[h].parent = p /\ Exists(p)
    <3>1. ASSUME NEW g \in Handoffs, NEW p \in Handoffs, AskBelow(g, p)
          PROVE  g = h /\ creating'[h].parent = p /\ Exists(p)
      BY <2>3, <3>1 DEF AskBelow, Answered, Asking, Inv, Typed, CreationRecord
    <3>2. ASSUME NEW g \in Handoffs, AskRoot(g) \/ CreateRun(g)
          PROVE  FALSE
      BY <2>3, <3>2 DEF AskRoot, CreateRun, Inv, Typed, CreationRecord
    <3>4. ASSUME NEW g \in Handoffs, CreationFails(g)
          PROVE  FALSE
      BY <2>3, <3>4, Constants DEF CreationFails, Inv, Typed
    <3>5. ASSUME NEW g \in Handoffs, Count(g)
          PROVE  FALSE
      <4>1. creating[g] \in CreationRecord
        BY DEF Inv, Typed
      <4>. DEFINE d == [creating[g] EXCEPT !.step = "admitted",
                                          !.siblings = Children(creating[g].parent)]
      <4>2. d.parent = creating[g].parent
        BY <4>1 DEF CreationRecord
      <4>3. creating' = [creating EXCEPT ![g] = d] \/ creating' = [creating EXCEPT ![g] = Answered]
        BY <3>5 DEF Count
      <4>. HIDE DEF d
      <4>4. PICK c : /\ creating' = [creating EXCEPT ![g] = c]
                     /\ c.step = "over" \/ c.parent = creating[g].parent
        BY <4>2, <4>3, Constants
      <4>. QED
        BY <2>3, <4>4 DEF Inv, Typed
    <3>3. ~UNCHANGED creating
      BY <2>3
    <3>. QED
      BY <1>2, <3>1, <3>2, <3>3, <3>4, <3>5
      DEF Next, vars, Threads, Creation, Attempt, Change, Stopping, Ask, Write, Enter, Finish,
          ChangeFails, MoveRun, Claim, Hook, HookRefused, HookFails, Settle, Dropped, ProcessDies,
          BeginStop, Walk, CancelRow, CancelRun, EndStop, StopFails
  <2>4. ASSUME NEW h \in Handoffs, NEW p \in Handoffs,
               creating'[h].step # "over", creating'[h].parent = p
        PROVE  Exists(p)'
    <3>1. creating[h].step # "over"
      BY <1>2, <2>4
      DEF Inv, Typed, Next, vars, Threads, Creation, Attempt, Change, Stopping,
          AskRoot, AskBelow, Count, CreateRun, CreationFails, Ask, Write, Enter, Finish,
          ChangeFails, MoveRun, Claim, Hook, HookRefused, HookFails, Settle, Dropped, ProcessDies,
          BeginStop, Walk, CancelRow, CancelRun, EndStop, StopFails
    <3>2. Exists(p)
      BY <2>3, <2>4, <3>1 DEF Rooted
    <3>. QED
      BY <2>1, <3>2
  <2>5. ASSUME NEW S \in SUBSET {h \in Handoffs : Exists(h)'}, S # {}
        PROVE  \E g \in S : row'[g].parent \notin S
    <3>1. S \in SUBSET {h \in Handoffs : Exists(h)}
      BY <2>1 DEF Exists
    <3>. QED
      BY <2>1, <2>5, <3>1 DEF Rooted
  <2>. QED
    BY <2>2, <2>4, <2>5 DEF Rooted
<1>. QED
  BY <1>1, <1>2

\* A stop that does not look at the next level loses nothing it had found.
LEMMA WalkedStays ==
  ASSUME Inv, [Next]_vars, NEW s \in Stoppers, WalkedOf(s),
         stop'[s].existing = stop[s].existing, stop'[s].frontier = stop[s].frontier,
         stop[s].step = "walking" => stop'[s].step = "walking",
         \A h \in stop[s].todo :
           h \in stop'[s].todo \cup mishap' \/ row'[h].status \in Ended,
         stop'[s].step = "over" => stop'[s].todo = {}
  PROVE  WalkedOf(s)'
<1>1. PICK W \in SUBSET stop[s].existing : Rest(s, W)
  BY DEF WalkedOf
<1>2. stop[s].existing \subseteq Handoffs
  BY DEF Inv, Typed, StopRecord
<1>3. \A h \in stop[s].existing : Exists(h)' /\ row'[h].parent = row[h].parent
  BY <1>2, RowsStay DEF WalkedOf
<1>4. \A h \in stop[s].existing : Handled(s, h) => Handled(s, h)'
  BY <1>2, RowsStay, EndNext DEF Handled, EndKept
<1>5. Rest(s, W)'
  BY <1>1, <1>3, <1>4 DEF Rest
<1>. QED
  BY <1>1, <1>3, <1>5 DEF WalkedOf

\* The next level is everything whose parent is on this one; when there is nothing
\* left of it, a set of handoffs all of whose parents it holds is empty.
LEMMA WalkedWalk ==
  ASSUME Inv, Rooted, NEW s \in Stoppers, WalkedOf(s), Walk(s)
  PROVE  WalkedOf(s)'
<1>a. PICK kids : kids = NextLevel(s)
  OBVIOUS
<1>0. stop \in [Stoppers -> StopRecord] /\ stop[s].existing \subseteq Handoffs
  BY DEF Inv, Typed, StopRecord
<1>1. /\ UNCHANGED <<row, overtaken, mishap>>
      /\ stop'[s].existing = stop[s].existing /\ stop'[s].frontier = kids
      /\ stop'[s].todo = stop[s].todo \cup OpenAmong(kids)
      /\ stop'[s].step = IF kids = {} THEN "cancelling" ELSE "walking"
  BY <1>a, <1>0 DEF Walk, StopRecord
<1>2. PICK W \in SUBSET stop[s].existing : Rest(s, W)
  BY DEF WalkedOf
<1>3. \A h \in W : h \in Handoffs /\ Exists(h)
  BY <1>0 DEF WalkedOf
<1>4. \A h \in W : row[h].parent \in stop[s].frontier => h \in kids
  BY <1>a, <1>3 DEF NextLevel, Children
<1>5. \A h \in W \ kids : row[h].parent \in W
  BY <1>2, <1>4 DEF Rest
<1>6. W \ kids # {} => kids # {}
  <2>. SUFFICES ASSUME kids = {}, W # {} PROVE FALSE
    OBVIOUS
  <2>1. W \in SUBSET {h \in Handoffs : Exists(h)}
    BY <1>3
  <2>2. PICK g \in W : row[g].parent \notin W
    BY <2>1 DEF Rooted
  <2>. QED
    BY <1>5, <2>2
<1>7. \A h \in stop[s].existing \ (W \ kids) : Handled(s, h)'
  <2>. SUFFICES ASSUME NEW h \in stop[s].existing, h \notin W \ kids
                PROVE  Handled(s, h)'
    OBVIOUS
  <2>1. CASE h \notin W
    BY <1>1, <1>2, <2>1 DEF Rest, Handled
  <2>2. CASE h \in kids
    <3>1. row[h].status \in Open \cup Ended
      BY <1>0 DEF WalkedOf, Exists, Inv, Typed, RowRecord
    <3>2. row[h].status \in Open => h \in OpenAmong(kids)
      BY <2>2 DEF OpenAmong
    <3>. QED
      BY <1>1, <3>1, <3>2 DEF Handled
  <2>. QED
    BY <2>1, <2>2
<1>8. Rest(s, W \ kids)'
  BY <1>1, <1>5, <1>6, <1>7 DEF Rest
<1>9. \A h \in stop[s].existing : Exists(h)'
  BY <1>1 DEF WalkedOf, Exists
<1>10. W \ kids \in SUBSET stop[s].existing
  BY <1>2
<1>. QED
  BY <1>1, <1>8, <1>9, <1>10 DEF WalkedOf

\* Whatever is below a handoff is a child of something below it.
LEMMA TreeRooted ==
  ASSUME NEW h \in Handoffs
  PROVE  /\ h \in Tree(h)
         /\ \A g \in Tree(h) : g # h => \E p \in Tree(h) : g \in Children(p)
<1>1. h \in Tree(h)
  BY DEF Tree
<1>2. \A p \in Tree(h) : Children(p) \subseteq Tree(h)
  BY DEF Tree, Children
<1>3. ASSUME NEW g \in Tree(h), g # h, \A p \in Tree(h) : g \notin Children(p)
      PROVE  FALSE
  <2>1. Tree(h) \ {g} \in SUBSET Handoffs
    BY DEF Tree
  <2>2. h \in Tree(h) \ {g} /\ \A p \in Tree(h) \ {g} : Children(p) \subseteq Tree(h) \ {g}
    BY <1>1, <1>2, <1>3
  <2>3. g \in Tree(h) \ {g}
    BY <2>1, <2>2 DEF Tree
  <2>. QED
    BY <2>3
<1>. QED
  BY <1>1, <1>3

LEMMA WalkedBegin ==
  ASSUME Inv, NEW s \in Stoppers, NEW h \in Handoffs, BeginStop(s, h)
  PROVE  WalkedOf(s)'
<1>a. PICK T : T = Tree(h)
  OBVIOUS
<1>. DEFINE q == [step |-> "walking", frontier |-> {h}, todo |-> OpenAmong({h}),
                  current |-> None, existing |-> T]
<1>1. /\ T \subseteq Handoffs /\ h \in T
      /\ \A g \in T : g # h => \E p \in T : g \in Children(p)
  BY <1>a, TreeRooted DEF Tree
<1>2. \A g \in T : g # h => row[g].parent \in T /\ Exists(g)
  BY <1>1 DEF Children
<1>3. stop' = [stop EXCEPT ![s] = q] /\ UNCHANGED <<row, overtaken, mishap>> /\ Exists(h)
  BY <1>a DEF BeginStop
<1>4. /\ stop'[s].step = "walking" /\ stop'[s].frontier = {h}
      /\ stop'[s].todo = OpenAmong({h}) /\ stop'[s].existing = T
  BY <1>3 DEF Inv, Typed
<1>5. row[h].status \in Ended \/ h \in OpenAmong({h})
  BY <1>3 DEF OpenAmong, Exists, Inv, Typed, RowRecord
<1>6. Rest(s, T \ {h})'
  <2>1. \A g \in T \ {h} : row'[g].parent \in {h} \cup (T \ {h})
    BY <1>2, <1>3
  <2>2. Handled(s, h)'
    BY <1>3, <1>4, <1>5 DEF Handled
  <2>. QED
    BY <1>4, <2>1, <2>2 DEF Rest
<1>7. \A g \in T : Exists(g)'
  BY <1>2, <1>3 DEF Exists
<1>8. T \ {h} \in SUBSET T
  OBVIOUS
<1>. QED
  BY <1>4, <1>6, <1>7, <1>8 DEF WalkedOf

LEMMA WalkedNext == Inv /\ Rooted /\ Walked /\ [Next]_vars => Walked'
<1>. SUFFICES ASSUME Inv, Rooted, [Next]_vars, NEW s \in Stoppers, WalkedOf(s)
              PROVE  WalkedOf(s)'
  BY DEF Walked
<1>0. stop \in [Stoppers -> StopRecord]
  BY DEF Inv, Typed
<1>1. CASE stop'[s] = stop[s]
  BY <1>1, WalkedStays DEF WalkedOf
<1>2. CASE Walk(s)
  BY <1>2, WalkedWalk
<1>3. CASE \E h \in Handoffs : BeginStop(s, h)
  BY <1>3, WalkedBegin
<1>4. ASSUME NEW h \in Handoffs, CancelRow(s, h)
      PROVE  WalkedOf(s)'
  <2>1. /\ stop'[s].existing = stop[s].existing /\ stop'[s].frontier = stop[s].frontier
        /\ stop[s].step = "cancelling" /\ stop'[s].step = stop[s].step
        /\ stop'[s].todo = stop[s].todo \ {h}
    BY <1>0, <1>4 DEF CancelRow, StopRecord
  <2>2. row'[h].status \in Ended
    BY <1>4 DEF CancelRow, Inv, Typed, RowRecord, Ended
  <2>. QED
    BY <2>1, <2>2, WalkedStays
<1>5. CASE CancelRun(s)
  <2>1. /\ stop'[s].existing = stop[s].existing /\ stop'[s].frontier = stop[s].frontier
        /\ stop'[s].step = stop[s].step /\ stop'[s].todo = stop[s].todo
    BY <1>0, <1>5 DEF CancelRun, StopRecord
  <2>. QED
    BY <2>1, WalkedStays DEF WalkedOf
<1>6. CASE EndStop(s)
  <2>1. /\ stop'[s].existing = stop[s].existing /\ stop'[s].frontier = stop[s].frontier
        /\ stop[s].step = "cancelling" /\ stop[s].todo = {} /\ stop'[s].todo = {}
    BY <1>0, <1>6 DEF EndStop, StopRecord
  <2>. QED
    BY <2>1, WalkedStays
<1>7. CASE StopFails(s)
  <2>1. /\ stop'[s].existing = stop[s].existing /\ stop'[s].frontier = stop[s].frontier
        /\ stop[s].step = "cancelling" /\ stop'[s].todo = {} /\ stop[s].todo \subseteq mishap'
    BY <1>0, <1>7 DEF StopFails, StopRecord
  <2>. QED
    BY <2>1, WalkedStays
<1>8. ASSUME NEW r \in Stoppers, r # s,
             \/ Stopping(r) \/ StopFails(r)
             \/ \E h \in Handoffs : BeginStop(r, h)
      PROVE  stop'[s] = stop[s]
  BY <1>0, <1>8 DEF Stopping, Walk, CancelRow, CancelRun, EndStop, StopFails, BeginStop
<1>9. \/ UNCHANGED stop
      \/ \E r \in Stoppers : \/ Stopping(r) \/ StopFails(r)
                             \/ \E h \in Handoffs : BeginStop(r, h)
  BY DEF Next, vars, Threads, Creation, Attempt, Change, AskRoot, AskBelow, Count, CreateRun,
         InsertRow, CreationFails, Ask, Write, Enter, Finish, ChangeFails, MoveRun, Claim, Hook,
         HookRefused, HookFails, Settle, Dropped, ProcessDies
<1>. QED
  BY <1>1, <1>2, <1>3, <1>4, <1>5, <1>6, <1>7, <1>8, <1>9 DEF Stopping

\* A stop that was answered ended everything that was below the handoff when it was
\* asked for, however many members, executors and stops work on the tree meanwhile,
\* but for what an outdated write or a fault put back.
THEOREM StopReachesAll == Spec => []TreeStopped
<1>1. Init => Inv /\ Rooted /\ Walked
  BY InvInit, WalkedInit
<1>2. Inv /\ Rooted /\ Walked /\ [Next]_vars => (Inv /\ Rooted /\ Walked)'
  BY InvNext, RootedNext, WalkedNext
<1>3. Walked => TreeStopped
  <2>. SUFFICES ASSUME NEW s \in Stoppers, WalkedOf(s), stop[s].step = "over",
                       NEW h \in stop[s].existing
                PROVE  row[h].status \in Ended \/ h \in overtaken \cup mishap
    BY DEF Walked, TreeStopped
  <2>1. PICK W \in SUBSET stop[s].existing : Rest(s, W)
    BY DEF WalkedOf
  <2>2. W = {} /\ stop[s].todo = {}
    BY <2>1 DEF Rest, WalkedOf
  <2>. QED
    BY <2>1, <2>2 DEF Rest, Handled
<1>. QED
  BY <1>1, <1>2, <1>3, PTL DEF Spec

----------------------------------------------------------------------------
(* The limits of a handoff *)

\* The children that count against what may work at a time.
Counting(p) == Active(p) \ (crowded \cup overtaken)

LimitsOf(p) == /\ IsFiniteSet(Children(p))
               /\ Cardinality(Children(p) \ crowded) <= MaxChildren
               /\ Cardinality(Counting(p)) <= MaxParallel

\* What a request has counted still holds unless a child was born since.
Counted(h, p) ==
  creating[h].step \in {"admitted", "queued"} /\ creating[h].parent = p =>
    /\ creating[h].siblings \subseteq Children(p)
    /\ creating[h].siblings = Children(p) => /\ Cardinality(Children(p)) < MaxChildren
                                           /\ Cardinality(Counting(p)) < MaxParallel

Limits == \A p \in Handoffs :
            LimitsOf(p) /\ \A h \in Handoffs : Counted(h, p)

\* A request that has not named a parent names none.
Rootless == \A h \in Handoffs : creating[h].step = "asking" => creating[h].parent = None

LEMMA LimitsInit == Init => Limits /\ Rootless
<1>. SUFFICES ASSUME NEW scene \in Scenes, InitScene(scene) PROVE Limits /\ Rootless
  BY DEF Init
<1>1. \A p \in Handoffs : Children(p) = {} /\ Counting(p) = {} /\ Children(p) \ crowded = {}
  BY DEF InitScene, Children, Exists, Counting, Active
<1>2. ASSUME NEW p \in Handoffs PROVE LimitsOf(p)
  <2>1. IsFiniteSet({}) /\ Cardinality({}) = 0
    BY FS_EmptySet
  <2>. QED
    BY <1>1, <2>1, BoundsAssumption DEF LimitsOf
<1>3. \A h \in Handoffs : creating[h].step \notin {"admitted", "queued"}
  BY DEF InitScene, Asking, Answered
<1>4. Rootless
  BY DEF InitScene, Rootless, Asking, Answered
<1>. QED
  BY <1>2, <1>3, <1>4 DEF Limits, Counted

\* A handoff counts again only when an outdated write reopened it.
LEMMA CountingKept ==
  ASSUME Inv, [Next]_vars, \A h \in Handoffs : ~InsertRow(h), NEW p \in Handoffs
  PROVE  /\ Children(p)' = Children(p) /\ (Children(p) \ crowded)' = Children(p) \ crowded
         /\ Counting(p)' \subseteq Counting(p)
<1>1. /\ \A h \in Handoffs : row'[h].parent = row[h].parent /\ (Exists(h)' <=> Exists(h))
      /\ UNCHANGED crowded
  BY TreeKept
<1>2. Children(p)' = Children(p)
  BY <1>1 DEF Children
<1>3. overtaken \subseteq overtaken'
  BY RowsStay
<1>4. ASSUME NEW h \in Handoffs, h \in Children(p), row'[h].status \in Open, h \notin overtaken'
      PROVE  row[h].status \in Open
  <2>1. row[h].status \in Open \cup Ended
    BY <1>4 DEF Children, Exists, Inv, Typed, RowRecord
  <2>2. row[h].status \in Ended => row'[h].status = row[h].status
    BY <1>4, EndNext DEF EndKept
  <2>. QED
    BY <1>4, <2>1, <2>2 DEF Open, Ended
<1>5. ASSUME NEW h \in Counting(p)' PROVE h \in Counting(p)
  <2>1. h \in Handoffs /\ h \in Children(p) /\ row'[h].status \in Open
        /\ h \notin crowded /\ h \notin overtaken'
    BY <1>1, <1>2, <1>5 DEF Counting, Active, Children
  <2>. QED
    BY <1>3, <1>4, <2>1 DEF Counting, Active
<1>. QED
  BY <1>1, <1>2, <1>5

\* Fewer that count, the limits hold as before.
LEMMA LimitsFewer ==
  ASSUME NEW p \in Handoffs, LimitsOf(p),
         Children(p)' = Children(p), (Children(p) \ crowded)' = Children(p) \ crowded,
         Counting(p)' \subseteq Counting(p)
  PROVE  /\ LimitsOf(p)'
         /\ Cardinality(Counting(p)) \in Nat /\ Cardinality(Counting(p)') \in Nat
         /\ Cardinality(Counting(p)') <= Cardinality(Counting(p))
<1>1. IsFiniteSet(Children(p)) /\ Counting(p) \in SUBSET Children(p)
  BY DEF LimitsOf, Counting, Active
<1>2. IsFiniteSet(Counting(p)) /\ Cardinality(Counting(p)) \in Nat
  BY <1>1, FS_Subset, FS_CardinalityType
<1>3. /\ Cardinality(Counting(p)') <= Cardinality(Counting(p))
      /\ Cardinality(Counting(p)') \in Nat
  BY <1>2, FS_Subset, FS_CardinalityType
<1>. QED
  BY <1>1, <1>2, <1>3, BoundsAssumption DEF LimitsOf

\* A child joins: those a request had not counted are left out of the limits.
LEMMA LimitsInsert ==
  ASSUME Inv, Limits, NEW h \in Handoffs, InsertRow(h)
  PROVE  Limits'
<1>1. PICK q \in Handoffs \cup {None} :
        /\ q = creating[h].parent
        /\ row' = [row EXCEPT ![h] = [status |-> "queued", parent |-> q,
                                      depth |-> creating[h].depth, stopped |-> FALSE]]
  BY DEF InsertRow, Inv, Typed, CreationRecord
<1>2. /\ row[h].status = Absent /\ creating[h].step = "queued"
      /\ creating' = [creating EXCEPT ![h] = Answered]
      /\ crowded' = (IF q # None /\ Children(q) # creating[h].siblings
                     THEN crowded \cup {h} ELSE crowded)
      /\ overtaken' = overtaken
  BY <1>1 DEF InsertRow, Inv, Fresh
<1>3. /\ row'[h].parent = q /\ row'[h].status \in Open /\ row'[h].status # Absent
      /\ \A g \in Handoffs : g # h => row'[g] = row[g]
  BY <1>1 DEF Inv, Typed, Open, Absent
<1>4. /\ \A g \in Handoffs : creating'[g].step # "over" => g # h /\ creating'[g] = creating[g]
      /\ Answered.step = "over"
  BY <1>2, Constants DEF Inv, Typed
<1>5. ASSUME NEW p \in Handoffs, p # q
      PROVE  LimitsOf(p)' /\ \A g \in Handoffs : Counted(g, p)'
  <2>1. Children(p)' = Children(p) /\ h \notin Children(p) /\ Children(p) \subseteq Handoffs
    BY <1>2, <1>3, <1>5 DEF Children, Exists
  <2>2. /\ (Children(p) \ crowded)' = Children(p) \ crowded
        /\ Counting(p)' = Counting(p)
    BY <1>2, <1>3, <2>1 DEF Counting, Active
  <2>3. LimitsOf(p)'
    BY <2>1, <2>2, LimitsFewer DEF Limits
  <2>4. ASSUME NEW g \in Handoffs PROVE Counted(g, p)'
    BY <1>4, <2>1, <2>2 DEF Counted, Limits
  <2>. QED
    BY <2>3, <2>4
<1>6. ASSUME q \in Handoffs
      PROVE  LimitsOf(q)' /\ \A g \in Handoffs : Counted(g, q)'
  <2>0. q # None /\ LimitsOf(q) /\ Counted(h, q)
    BY <1>6, NamesAssumption DEF Limits
  <2>1. /\ Children(q)' = Children(q) \cup {h} /\ h \notin Children(q)
        /\ Children(q) \subseteq Handoffs
    BY <1>2, <1>3 DEF Children, Exists
  <2>2. IsFiniteSet(Children(q)) /\ IsFiniteSet(Children(q)')
    BY <2>0, <2>1, FS_AddElement DEF LimitsOf
  <2>3. ASSUME Children(q) # creating[h].siblings PROVE LimitsOf(q)'
    <3>1. crowded' = crowded \cup {h}
      BY <1>2, <2>0, <2>3
    <3>2. (Children(q) \ crowded)' = Children(q) \ crowded
      BY <2>1, <3>1
    <3>3. Counting(q)' = Counting(q)
      BY <1>2, <1>3, <2>1, <3>1 DEF Counting, Active
    <3>4. /\ Cardinality((Children(q) \ crowded)') = Cardinality(Children(q) \ crowded)
          /\ Cardinality(Counting(q)') = Cardinality(Counting(q))
      BY <3>2, <3>3
    <3>. QED
      BY <2>0, <2>2, <3>4 DEF LimitsOf
  <2>4. ASSUME Children(q) = creating[h].siblings PROVE LimitsOf(q)'
    <3>1. crowded' = crowded
      BY <1>2, <2>4
    <3>2. Cardinality(Children(q)) < MaxChildren /\ Cardinality(Counting(q)) < MaxParallel
      BY <1>1, <1>2, <2>0, <2>4 DEF Counted
    <3>3. /\ (Children(q) \ crowded)' \in SUBSET (Children(q) \cup {h})
          /\ Counting(q)' \in SUBSET (Counting(q) \cup {h})
          /\ Counting(q) \in SUBSET Children(q)
      <4>1. (Children(q) \ crowded)' \in SUBSET (Children(q) \cup {h})
        BY <2>1
      <4>2. Counting(q) \in SUBSET Children(q)
        BY DEF Counting, Active
      <4>3. ASSUME NEW g \in Counting(q)', g # h PROVE g \in Counting(q)
        <5>1. g \in Children(q) /\ row'[g].status \in Open /\ g \notin crowded /\ g \notin overtaken
          BY <1>2, <2>1, <3>1, <4>3 DEF Counting, Active
        <5>2. row'[g] = row[g]
          BY <1>3, <2>1, <4>3, <5>1
        <5>. QED
          BY <5>1, <5>2 DEF Counting, Active
      <4>. QED
        BY <4>1, <4>2, <4>3
    <3>4. /\ Cardinality(Children(q) \cup {h}) = Cardinality(Children(q)) + 1
          /\ IsFiniteSet(Children(q) \cup {h}) /\ Cardinality(Children(q)) \in Nat
      BY <2>1, <2>2, FS_AddElement, FS_CardinalityType
    <3>5. /\ Cardinality(Counting(q) \cup {h}) <= Cardinality(Counting(q)) + 1
          /\ IsFiniteSet(Counting(q) \cup {h}) /\ Cardinality(Counting(q)) \in Nat
      <4>1. IsFiniteSet(Counting(q)) /\ Cardinality(Counting(q)) \in Nat
        BY <2>2, <3>3, FS_Subset, FS_CardinalityType
      <4>2. h \notin Counting(q)
        BY <2>1, <3>3
      <4>3. /\ Cardinality(Counting(q) \cup {h}) = Cardinality(Counting(q)) + 1
            /\ IsFiniteSet(Counting(q) \cup {h})
        BY <4>1, <4>2, FS_AddElement
      <4>. QED
        BY <4>1, <4>3
    <3>6. Cardinality((Children(q) \ crowded)') <= Cardinality(Children(q)) + 1
      <4>1. /\ Cardinality((Children(q) \ crowded)') <= Cardinality(Children(q) \cup {h})
            /\ IsFiniteSet((Children(q) \ crowded)')
        BY <3>3, <3>4, FS_Subset
      <4>. QED
        BY <3>4, <4>1
    <3>7. Cardinality(Counting(q)') <= Cardinality(Counting(q)) + 1
      <4>1. /\ Cardinality(Counting(q)') <= Cardinality(Counting(q) \cup {h})
            /\ Cardinality(Counting(q)') \in Nat
            /\ Cardinality(Counting(q) \cup {h}) \in Nat
        BY <3>3, <3>5, FS_Subset, FS_CardinalityType
      <4>. QED
        BY <3>5, <4>1
    <3>8. /\ Cardinality((Children(q) \ crowded)') \in Nat
          /\ Cardinality(Counting(q)') \in Nat
      BY <3>3, <3>4, <3>5, FS_Subset, FS_CardinalityType
    <3>9. /\ Cardinality((Children(q) \ crowded)') <= MaxChildren
          /\ Cardinality(Counting(q)') <= MaxParallel
      BY <3>2, <3>4, <3>5, <3>6, <3>7, <3>8, BoundsAssumption
    <3>. QED
      BY <2>2, <3>9 DEF LimitsOf
  <2>5. ASSUME NEW g \in Handoffs PROVE Counted(g, q)'
    <3>. SUFFICES ASSUME creating'[g].step \in {"admitted", "queued"}, creating'[g].parent = q
                  PROVE  /\ creating'[g].siblings \subseteq Children(q)'
                         /\ creating'[g].siblings # Children(q)'
      BY DEF Counted
    <3>1. creating'[g] = creating[g]
      BY <1>4
    <3>2. creating[g].siblings \subseteq Children(q)
      BY <1>6, <3>1 DEF Limits, Counted
    <3>. QED
      BY <2>1, <3>1, <3>2
  <2>6. LimitsOf(q)'
    BY <2>3, <2>4
  <2>. QED
    BY <2>5, <2>6
<1>. QED
  BY <1>5, <1>6 DEF Limits

LEMMA LimitsNext == Inv /\ Rootless /\ Limits /\ [Next]_vars => Limits'
<1>. SUFFICES ASSUME Inv, Rootless, Limits, [Next]_vars PROVE Limits'
  OBVIOUS
<1>1. CASE \E h \in Handoffs : InsertRow(h)
  BY <1>1, LimitsInsert
<1>2. ASSUME \A h \in Handoffs : ~InsertRow(h), NEW p \in Handoffs
      PROVE  LimitsOf(p)' /\ \A h \in Handoffs : Counted(h, p)'
  <2>1. /\ Children(p)' = Children(p) /\ (Children(p) \ crowded)' = Children(p) \ crowded
        /\ Counting(p)' \subseteq Counting(p)
    BY <1>2, CountingKept
  <2>2. /\ LimitsOf(p)'
        /\ Cardinality(Counting(p)) \in Nat /\ Cardinality(Counting(p)') \in Nat
        /\ Cardinality(Counting(p)') <= Cardinality(Counting(p))
    BY <2>1, LimitsFewer DEF Limits
  <2>3. ASSUME NEW h \in Handoffs, creating'[h].parent = p, creating'[h].siblings = creating[h].siblings,
               creating[h].step \in {"admitted", "queued"}, creating[h].parent = p
        PROVE  Counted(h, p)'
    <3>1. Counted(h, p)
      BY DEF Limits
    <3>. QED
      BY <2>1, <2>2, <2>3, <3>1, BoundsAssumption DEF Counted
  <2>4. ASSUME NEW h \in Handoffs, Count(h)
        PROVE  Counted(h, p)'
    <3>. DEFINE q == creating[h].parent
    <3>. DEFINE d == [creating[h] EXCEPT !.step = "admitted", !.siblings = Children(q)]
    <3>1. creating[h] \in CreationRecord /\ creating \in [Handoffs -> CreationRecord]
      BY DEF Inv, Typed
    <3>2. d.siblings = Children(q) /\ d.parent = q
      BY <3>1 DEF CreationRecord
    <3>3. \/ creating' = [creating EXCEPT ![h] = d] /\ Admits(creating[h])
          \/ creating' = [creating EXCEPT ![h] = Answered]
      BY <2>4 DEF Count
    <3>. HIDE DEF d
    <3>4. CASE creating' = [creating EXCEPT ![h] = Answered]
      BY <3>1, <3>4, Constants DEF Counted
    <3>5. CASE creating' = [creating EXCEPT ![h] = d] /\ Admits(creating[h])
      <4>. SUFFICES ASSUME q = p PROVE Counted(h, p)'
        BY <3>1, <3>2, <3>5 DEF Counted
      <4>1. creating'[h].siblings = Children(p)'
        BY <2>1, <3>1, <3>2, <3>5
      <4>2. Cardinality(Children(p)) < MaxChildren /\ Cardinality(Active(p)) < MaxParallel
        BY <3>5 DEF Admits
      <4>3. /\ Cardinality(Counting(p)) <= Cardinality(Active(p))
            /\ Cardinality(Active(p)) \in Nat
        <5>1. /\ IsFiniteSet(Children(p)) /\ Active(p) \in SUBSET Children(p)
              /\ Counting(p) \in SUBSET Active(p)
          BY DEF Limits, LimitsOf, Active, Counting
        <5>2. IsFiniteSet(Active(p)) /\ Cardinality(Active(p)) \in Nat
          BY <5>1, FS_Subset, FS_CardinalityType
        <5>. QED
          BY <5>1, <5>2, FS_Subset
      <4>4. Cardinality(Counting(p)') < MaxParallel
        BY <2>2, <4>2, <4>3, BoundsAssumption
      <4>. QED
        BY <2>1, <4>1, <4>2, <4>4 DEF Counted
    <3>. QED
      BY <3>3, <3>4, <3>5
  <2>5. ASSUME NEW h \in Handoffs, creating'[h].step \in {"admitted", "queued"},
               creating'[h].parent = p
        PROVE  \/ Count(h)
               \/ /\ creating[h].step \in {"admitted", "queued"} /\ creating[h].parent = p
                  /\ creating'[h].siblings = creating[h].siblings
    <3>1. creating \in [Handoffs -> CreationRecord] /\ p # None
      BY NamesAssumption DEF Inv, Typed
    <3>2. CASE UNCHANGED creating
      BY <2>5, <3>2
    <3>3. ASSUME NEW g \in Handoffs, AskRoot(g) \/ CreateRun(g)
          PROVE  /\ creating[h].step \in {"admitted", "queued"} /\ creating[h].parent = p
                 /\ creating'[h].siblings = creating[h].siblings
      BY <2>5, <3>1, <3>3 DEF AskRoot, CreateRun, CreationRecord, Rootless
    <3>4. ASSUME NEW g \in Handoffs, CreationFails(g)
          PROVE  /\ creating[h].step \in {"admitted", "queued"} /\ creating[h].parent = p
                 /\ creating'[h].siblings = creating[h].siblings
      BY <2>5, <3>1, <3>4, Constants DEF CreationFails
    <3>5. ASSUME NEW g \in Handoffs, NEW r \in Handoffs, AskBelow(g, r)
          PROVE  /\ creating[h].step \in {"admitted", "queued"} /\ creating[h].parent = p
                 /\ creating'[h].siblings = creating[h].siblings
      <4>1. g # h
        <5>1. CASE creating' = [creating EXCEPT ![g] = Answered]
          BY <2>5, <3>1, <5>1, Constants
        <5>2. CASE creating' # [creating EXCEPT ![g] = Answered]
          BY <2>5, <3>1, <3>5, <5>2 DEF AskBelow, CreationRecord
        <5>. QED
          BY <5>1, <5>2
      <4>2. creating'[h] = creating[h]
        BY <3>1, <3>5, <4>1 DEF AskBelow
      <4>. QED
        BY <2>5, <4>2
    <3>6. ASSUME NEW g \in Handoffs, g # h, Count(g)
          PROVE  creating'[h] = creating[h]
      BY <3>1, <3>6 DEF Count
    <3>. QED
      BY <1>2, <2>5, <3>2, <3>3, <3>4, <3>5, <3>6
      DEF Next, vars, Threads, Creation, Attempt, Change, Stopping, Ask, Write, Enter, Finish,
          ChangeFails, MoveRun, Claim, Hook, HookRefused, HookFails, Settle, Dropped, ProcessDies,
          BeginStop, Walk, CancelRow, CancelRun, EndStop, StopFails
  <2>6. ASSUME NEW h \in Handoffs PROVE Counted(h, p)'
    <3>. SUFFICES ASSUME creating'[h].step \in {"admitted", "queued"}, creating'[h].parent = p
                  PROVE  Counted(h, p)'
      BY DEF Counted
    <3>. QED
      BY <2>3, <2>4, <2>5
  <2>. QED
    BY <2>2, <2>6
<1>. QED
  BY <1>1, <1>2 DEF Limits

LEMMA RootlessNext == Inv /\ Rootless /\ [Next]_vars => Rootless'
<1>. SUFFICES ASSUME Inv, Rootless, [Next]_vars, NEW h \in Handoffs,
                     creating'[h].step = "asking"
              PROVE  creating'[h].parent = None
  BY DEF Rootless
<1>0. creating \in [Handoffs -> CreationRecord]
  BY DEF Inv, Typed
<1>1. ASSUME NEW g \in Handoffs, AskRoot(g) \/ CreateRun(g)
      PROVE  creating'[h] = creating[h]
  BY <1>0, <1>1 DEF AskRoot, CreateRun, CreationRecord
<1>2. ASSUME NEW g \in Handoffs, InsertRow(g) \/ CreationFails(g)
      PROVE  creating'[h] = creating[h]
  BY <1>0, <1>2, Constants DEF InsertRow, CreationFails
<1>3. ASSUME NEW g \in Handoffs, NEW p \in Handoffs, AskBelow(g, p)
      PROVE  creating'[h] = creating[h]
  <2>1. CASE creating' = [creating EXCEPT ![g] = Answered]
    BY <1>0, <2>1, Constants
  <2>2. CASE creating' # [creating EXCEPT ![g] = Answered]
    BY <1>0, <1>3, <2>2 DEF AskBelow, CreationRecord
  <2>. QED
    BY <2>1, <2>2
<1>4. ASSUME NEW g \in Handoffs, Count(g)
      PROVE  creating'[h] = creating[h]
  <2>1. CASE creating' = [creating EXCEPT ![g] = Answered]
    BY <1>0, <2>1, Constants
  <2>2. CASE creating' # [creating EXCEPT ![g] = Answered]
    BY <1>0, <1>4, <2>2 DEF Count, CreationRecord
  <2>. QED
    BY <2>1, <2>2
<1>5. creating'[h] = creating[h]
  BY <1>1, <1>2, <1>3, <1>4
  DEF Next, vars, Threads, Creation, Attempt, Change, Stopping, Ask, Write, Enter, Finish,
      ChangeFails, MoveRun, Claim, Hook, HookRefused, HookFails, Settle, Dropped, ProcessDies,
      BeginStop, Walk, CancelRow, CancelRun, EndStop, StopFails
<1>. QED
  BY <1>5 DEF Rootless

\* The children of a handoff, and those of them at work, stay within its limits
\* however requests, stops, ends and retries overlap, but for the children that were
\* counted at the same time and those an outdated write reopened.
THEOREM LimitsKept == Spec => []LimitsHeld
<1>1. Init => Inv /\ Rootless /\ Limits
  BY InvInit, LimitsInit
<1>2. Inv /\ Rootless /\ Limits /\ [Next]_vars => (Inv /\ Rootless /\ Limits)'
  BY InvNext, RootlessNext, LimitsNext
<1>3. Limits => LimitsHeld
  BY DEF Limits, LimitsOf, Counting, LimitsHeld
<1>. QED
  BY <1>1, <1>2, <1>3, PTL DEF Spec

----------------------------------------------------------------------------
(* The runs of handoffs implement RunLifecycle *)

\* The run of a handoff is made once, before its row.
Made == \A h \in Handoffs :
          /\ creating[h].step \in {"asking", "counting", "admitted"} => run[h].status = Absent
          /\ creating[h].step = "queued" \/ Exists(h) => run[h].status \in Statuses

\* What a change or a stop moves along is the run of a handoff that is there.
Moving == /\ \A t \in Threads : change[t].step \in {"writing", "entering", "finishing"}
                                  => change[t].of \in Handoffs /\ Exists(change[t].of)
          /\ \A s \in Stoppers : stop[s].current # None => Exists(stop[s].current)

\* What a change or a stop asks the store to make of a run.
Asked == {"running", "succeeded", "failed", "cancelled"}

\* The store moves a run that is there: for a change or a stop, or for a member who
\* writes the status into it.
SentBy(h, s) == /\ run' = Sent(h, s)
                /\ UNCHANGED <<row, creating>>
                /\ \/ Exists(h) /\ s \in Asked
                   \/ run[h].status \in Statuses /\ s \in moved'[h]

\* A step makes a run, claims it, settles it or asks the store to move it, or is
\* not about runs.
RunStep ==
  \/ UNCHANGED run
  \/ \E h \in Handoffs : \/ CreateRun(h) \/ Claim(h)
                         \/ \E ok \in BOOLEAN : Settle(h, ok)
                         \/ \E s \in Statuses : SentBy(h, s)

LEMMA RunSteps == Strong /\ Moving /\ [Next]_vars => RunStep
<1>. SUFFICES ASSUME Strong, Moving, [Next]_vars PROVE RunStep
  OBVIOUS
<1>1. ASSUME NEW t \in Threads, Enter(t) PROVE RunStep
  <2>1. change[t].of \in Handoffs /\ Exists(change[t].of) /\ UNCHANGED <<row, creating>>
    BY <1>1 DEF Enter, Moving
  <2>2. run' = run \/ run' = Sent(change[t].of, "running")
    BY <1>1 DEF Enter
  <2>. QED
    BY <2>1, <2>2 DEF RunStep, SentBy, Asked, Statuses
<1>2. ASSUME NEW t \in Threads, Finish(t) PROVE RunStep
  <2>1. /\ change[t].of \in Handoffs /\ Exists(change[t].of) /\ UNCHANGED <<row, creating>>
        /\ change[t].to \in Ended /\ run' = Sent(change[t].of, Outcome(change[t].to))
    BY <1>2 DEF Finish, Moving, Strong, Held
  <2>2. Outcome(change[t].to) \in Statuses \cap Asked
    BY <2>1 DEF Outcome, Ended, Statuses, Asked
  <2>. QED
    BY <2>1, <2>2 DEF RunStep, SentBy
<1>3. ASSUME NEW s \in Stoppers, CancelRun(s) PROVE RunStep
  <2>1. stop[s].current \in Handoffs /\ Exists(stop[s].current)
    BY <1>3 DEF CancelRun, Moving, Strong, Inv, Typed, StopRecord
  <2>. QED
    BY <1>3, <2>1 DEF CancelRun, RunStep, SentBy, Asked, Statuses
<1>4. ASSUME NEW h \in Handoffs, \/ CreateRun(h) \/ Claim(h)
                                 \/ \E ok \in BOOLEAN : Settle(h, ok)
      PROVE  RunStep
  BY <1>4 DEF RunStep
<1>5. CASE UNCHANGED run
  BY <1>5 DEF RunStep
<1>6. ASSUME NEW t \in People, NEW h \in Handoffs, NEW s \in Statuses, MoveRun(t, h, s)
      PROVE  RunStep
  <2>1. s \in moved'[h]
    BY <1>6 DEF MoveRun, Strong, Others
  <2>. QED
    BY <1>6, <2>1 DEF MoveRun, RunStep, SentBy
<1>. QED
  BY <1>1, <1>2, <1>3, <1>4, <1>5, <1>6
  DEF Next, vars, Threads, Creation, Attempt, Change, Stopping, AskRoot, AskBelow, Count,
      InsertRow, CreationFails, Ask, Write, ChangeFails, Hook, HookRefused, HookFails,
      Dropped, ProcessDies, BeginStop, Walk, CancelRow, EndStop, StopFails

\* What is written to a run that is there leaves a run.
LEMMA RunWritten ==
  ASSUME Strong, Made, NEW h \in Handoffs,
         \/ Claim(h) \/ \E ok \in BOOLEAN : Settle(h, ok)
         \/ \E s \in Statuses : SentBy(h, s)
  PROVE  /\ run[h].status \in Statuses /\ run'[h].status \in Statuses
         /\ \A g \in Handoffs : g # h => run'[g] = run[g]
         /\ UNCHANGED <<row, creating>>
<1>0. run \in [Handoffs -> RunRecord]
  BY DEF Strong, Attempts, RunTyped
<1>1. run[h].status \in Statuses
  BY DEF Made, Claim, Settle, SentBy, Statuses
<1>2. CASE Claim(h)
  BY <1>0, <1>1, <1>2 DEF Claim, Statuses
<1>3. ASSUME NEW ok \in BOOLEAN, Settle(h, ok)
      PROVE  /\ run'[h].status \in Statuses /\ \A g \in Handoffs : g # h => run'[g] = run[g]
             /\ UNCHANGED <<row, creating>>
  BY <1>0, <1>3 DEF Settle, Statuses, RunRecord
<1>4. ASSUME NEW s \in Statuses, run' = Sent(h, s)
      PROVE  run'[h].status \in Statuses /\ \A g \in Handoffs : g # h => run'[g] = run[g]
  BY <1>0, <1>1, <1>4 DEF Sent, Statuses, RunRecord
<1>. QED
  BY <1>1, <1>2, <1>3, <1>4 DEF SentBy

LEMMA MadeNext == Strong /\ Moving /\ Made /\ [Next]_vars => Made'
<1>. SUFFICES ASSUME Strong, Moving, Made, [Next]_vars PROVE Made'
  OBVIOUS
<1>0. /\ run \in [Handoffs -> RunRecord] /\ creating \in [Handoffs -> CreationRecord]
      /\ row \in [Handoffs -> RowRecord] /\ Inv
  BY DEF Strong, Attempts, RunTyped, Inv, Typed
<1>1. ASSUME NEW h \in Handoffs, CreateRun(h) PROVE Made'
  BY <1>0, <1>1 DEF CreateRun, Made, RunRecord, CreationRecord, Statuses, Exists
<1>2. ASSUME NEW h \in Handoffs,
             \/ Claim(h) \/ \E ok \in BOOLEAN : Settle(h, ok)
             \/ \E s \in Statuses : SentBy(h, s)
      PROVE  Made'
  BY <1>2, RunWritten DEF Made, Exists, Statuses, Absent
\* A request that goes on without writing its run has it, or does not need it yet.
<1>3. CASE UNCHANGED run
  <2>1. ASSUME NEW h \in Handoffs,
               \/ AskRoot(h) \/ Count(h) \/ CreationFails(h)
               \/ \E p \in Handoffs : AskBelow(h, p)
        PROVE  Made'
    <3>1. /\ UNCHANGED row /\ \A g \in Handoffs : g # h => creating'[g] = creating[g]
      BY <1>0, <2>1 DEF AskRoot, Count, CreationFails, AskBelow
    <3>2. creating'[h].step = "over" \/ (/\ creating'[h].step \in {"counting", "admitted"}
                                         /\ creating[h].step \in {"asking", "counting"})
      <4>1. creating[h] \in CreationRecord
        BY <1>0
      <4>2. ASSUME AskRoot(h) \/ CreationFails(h)
            PROVE  \/ creating'[h].step = "over"
                   \/ creating'[h].step = "admitted" /\ creating[h].step = "asking"
        <5>1. CASE AskRoot(h)
          BY <1>0, <4>1, <5>1 DEF AskRoot, CreationRecord
        <5>2. CASE CreationFails(h)
          BY <1>0, <5>2, Constants DEF CreationFails
        <5>. QED
          BY <4>2, <5>1, <5>2
      <4>3. ASSUME NEW p \in Handoffs, AskBelow(h, p)
            PROVE  \/ creating'[h].step = "over"
                   \/ creating'[h].step = "counting" /\ creating[h].step = "asking"
        BY <1>0, <4>1, <4>3, Constants DEF AskBelow, CreationRecord
      <4>4. ASSUME Count(h)
            PROVE  \/ creating'[h].step = "over"
                   \/ creating'[h].step = "admitted" /\ creating[h].step = "counting"
        BY <1>0, <4>1, <4>4, Constants DEF Count, CreationRecord
      <4>. QED
        BY <2>1, <4>2, <4>3, <4>4
    <3>. QED
      BY <1>3, <3>1, <3>2 DEF Made, Exists
  <2>2. ASSUME NEW h \in Handoffs, InsertRow(h) PROVE Made'
    BY <1>0, <1>3, <2>2, Constants DEF InsertRow, Made, Exists, RowRecord, CreationRecord
  <2>3. ASSUME UNCHANGED creating PROVE Made'
    <3>1. \A h \in Handoffs : ~InsertRow(h)
      BY <1>0, <2>3, Constants DEF InsertRow
    <3>. QED
      BY <1>0, <1>3, <2>3, <3>1, TreeKept DEF Made
  <2>4. CASE UNCHANGED vars
    BY <2>3, <2>4 DEF vars
  <2>. QED
    BY <1>1, <2>1, <2>2, <2>3, <2>4
    DEF Next, Threads, Creation, Attempt, Change, Stopping, Ask, Write, Enter, Finish,
        ChangeFails, MoveRun, Claim, Hook, HookRefused, HookFails, Settle, Dropped, ProcessDies,
        BeginStop, Walk, CancelRow, CancelRun, EndStop, StopFails
<1>. QED
  BY <1>1, <1>2, <1>3, RunSteps DEF RunStep

LEMMA MovingNext == Strong /\ Moving /\ [Next]_vars => Moving'
<1>. SUFFICES ASSUME Strong, Moving, [Next]_vars PROVE Moving'
  OBVIOUS
<1>0. /\ change \in [Threads -> ChangeRecord] /\ stop \in [Stoppers -> StopRecord]
      /\ Inv /\ None \notin Handoffs
  BY NamesAssumption DEF Strong, Inv, Typed
<1>1. \A h \in Handoffs : Exists(h) => row'[h].status # Absent
  BY <1>0, RowsStay DEF Exists
<1>2. \A t \in Threads : change'[t].step \in {"writing", "entering", "finishing"}
                           => change'[t].of \in Handoffs /\ row'[change'[t].of].status # Absent
  <2>. SUFFICES ASSUME NEW t \in Threads,
                       change'[t].step \in {"writing", "entering", "finishing"}
                PROVE  change'[t].of \in Handoffs /\ row'[change'[t].of].status # Absent
    OBVIOUS
  \* A change goes on with the handoff it has, or begins with one that is there.
  <2>1. \/ /\ change'[t].of = change[t].of
           /\ change[t].step \in {"writing", "entering", "finishing"}
        \/ \E h \in Handoffs : Exists(h) /\ change'[t].of = h
    <3>1. ASSUME NEW u \in Threads, NEW h \in Handoffs, NEW to, Reading(u, h, to), Exists(h)
          PROVE  \/ change'[t] = change[t]
                 \/ change'[t].of = h
      BY <1>0, <3>1 DEF Reading
    <3>2. ASSUME NEW u \in Threads, Done(u)
          PROVE  change'[t] = change[t]
      BY <1>0, <3>2 DEF Done, NoChange, AnsweredChange
    <3>3. ASSUME NEW u \in Threads, NEW st \in {"entering", "finishing"},
                 change[u].step \in {"writing", "entering"},
                 change' = [change EXCEPT ![u].step = st]
          PROVE  /\ change'[t].of = change[t].of
                 /\ change[t].step \in {"writing", "entering", "finishing"}
      BY <1>0, <3>3 DEF ChangeRecord
    <3>4. ASSUME NEW h \in Handoffs, change' = [change EXCEPT ![h] = NoChange]
          PROVE  change'[t] = change[t]
      BY <1>0, <3>4 DEF NoChange, Threads
    <3>5. ASSUME NEW u \in Threads, Write(u)
          PROVE  \E st \in {"entering", "finishing"} : change' = [change EXCEPT ![u].step = st]
      BY <3>5 DEF Write
    <3>6. ASSUME NEW u \in Threads, Enter(u)
          PROVE  change' = [change EXCEPT ![u].step = "finishing"] \/ Done(u)
      BY <3>6 DEF Enter
    <3>9. ASSUME NEW u \in Threads, change' = [change EXCEPT ![u] = AnsweredChange]
          PROVE  change'[t] = change[t]
      BY <1>0, <3>9 DEF NoChange, AnsweredChange
    <3>7. \/ UNCHANGED change
          \/ \E u \in Threads : \/ Write(u) \/ Enter(u) \/ Done(u)
                                \/ change' = [change EXCEPT ![u] = AnsweredChange]
                                \/ \E h \in Handoffs, to \in Open \cup Ended :
                                     Reading(u, h, to) /\ Exists(h)
          \/ \E h \in Handoffs : change' = [change EXCEPT ![h] = NoChange]
      <4>1. ASSUME NEW h \in Handoffs, Hook(h)
            PROVE  \E u \in Threads, to \in Open \cup Ended : Reading(u, h, to) /\ Exists(h)
        BY <4>1 DEF Hook, Announced, Open, Ended, Threads
      <4>. QED
        BY <4>1
        DEF Next, vars, Threads, Creation, Attempt, Change, Stopping, AskRoot, AskBelow, Count,
            CreateRun, InsertRow, CreationFails, Ask, Finish, ChangeFails, MoveRun, Claim, HookRefused,
            HookFails, Settle, Dropped, ProcessDies, BeginStop, Walk, CancelRow, CancelRun,
            EndStop, StopFails
    <3>8. ASSUME NEW u \in Threads, Write(u) \/ Enter(u)
          PROVE  \/ change'[t] = change[t]
                 \/ /\ change'[t].of = change[t].of
                    /\ change[t].step \in {"writing", "entering", "finishing"}
      <4>1. CASE Write(u)
        BY <3>3, <3>5, <4>1 DEF Write
      <4>2. CASE Enter(u)
        BY <3>2, <3>3, <3>6, <4>2 DEF Enter
      <4>. QED
        BY <3>8, <4>1, <4>2
    <3>. QED
      BY <3>1, <3>2, <3>4, <3>7, <3>8, <3>9
  <2>. QED
    BY <1>1, <2>1 DEF Moving
<1>3. \A s \in Stoppers : stop'[s].current # None => row'[stop'[s].current].status # Absent
  <2>. SUFFICES ASSUME NEW s \in Stoppers, stop'[s].current # None
                PROVE  row'[stop'[s].current].status # Absent
    OBVIOUS
  <2>1. \/ stop'[s].current = stop[s].current
        \/ \E h \in stop[s].todo : stop'[s].current = h
    <3>1. ASSUME NEW r \in Stoppers, NEW h \in Handoffs, CancelRow(r, h)
          PROVE  stop'[s].current = stop[s].current \/ (h \in stop[s].todo /\ stop'[s].current = h)
      BY <1>0, <3>1 DEF CancelRow, StopRecord
    <3>2. ASSUME NEW r \in Stoppers,
                 \/ Walk(r) \/ CancelRun(r) \/ EndStop(r) \/ StopFails(r)
                 \/ \E h \in Handoffs : BeginStop(r, h)
          PROVE  stop'[s].current = None \/ stop'[s].current = stop[s].current
      <4>1. CASE Walk(r)
        BY <1>0, <4>1 DEF Walk, StopRecord
      <4>2. CASE CancelRun(r)
        <5>1. stop' = [stop EXCEPT ![r].current = None]
          BY <4>2 DEF CancelRun
        <5>. QED
          BY <1>0, <5>1 DEF StopRecord
      <4>5. CASE StopFails(r)
        BY <1>0, <4>5 DEF StopFails, StopRecord
      <4>4. CASE EndStop(r)
        BY <1>0, <4>4 DEF EndStop, StopRecord
      <4>3. ASSUME NEW h \in Handoffs, BeginStop(r, h)
            PROVE  stop'[s].current = None \/ stop'[s].current = stop[s].current
        BY <1>0, <4>3 DEF BeginStop
      <4>. QED
        BY <3>2, <4>1, <4>2, <4>3, <4>4, <4>5
    <3>. QED
      BY <3>1, <3>2
      DEF Next, vars, Threads, Creation, Attempt, Change, Stopping, AskRoot, AskBelow, Count,
          CreateRun, InsertRow, CreationFails, Ask, Write, Enter, Finish, ChangeFails, MoveRun, Claim,
          Hook, HookRefused, HookFails, Settle, Dropped, ProcessDies
  <2>2. \A h \in stop[s].todo : h \in Handoffs /\ Exists(h)
    BY <1>0 DEF Inv, Known, StopRecord, Exists
  <2>3. stop[s].current \in Handoffs \cup {None}
    BY <1>0 DEF StopRecord
  <2>. QED
    BY <1>1, <2>1, <2>2, <2>3 DEF Moving
<1>. QED
  BY <1>2, <1>3 DEF Moving, Exists

LEMMA LifeInit == Init => Made /\ Moving /\ Life!Init
<1>. SUFFICES ASSUME NEW scene \in Scenes, InitScene(scene)
              PROVE  Made /\ Moving /\ Life!Init
  BY DEF Init
<1>1. Made
  BY DEF InitScene, Made, Exists, Asking, Answered
<1>2. Moving
  BY DEF InitScene, Moving, Threads, NoChange, AnsweredChange
<1>3. Life!Init
  BY DEF InitScene, Life!Init, Life!Absent, Absent
<1>. QED
  BY <1>1, <1>2, <1>3

\* The instance sees the same statuses and the same table.
LEMMA SameTable == /\ Life!Statuses = Statuses /\ Life!Absent = Absent
                   /\ Life!Transitions = Transitions
BY DEF Life!Statuses, Statuses, Life!Absent, Absent, Life!Transitions, Transitions,
       Life!Waiting, Waiting

\* A run that moves along the table, and is attempted no more, moves in its life.
LEMMA LifeMove ==
  ASSUME RunTyped, NEW h \in Handoffs, NEW s \in Statuses,
         run[h].status \in Statuses, s \in Transitions[run[h].status],
         run' = [run EXCEPT ![h] = [run[h] EXCEPT !.status = s, !.leased = run'[h].leased]]
  PROVE  Life!Next
<1> DEFINE st == [g \in Handoffs |-> run[g].status]
           no == [g \in Handoffs |-> run[g].attempt]
<1>1. st' = [st EXCEPT ![h] = s] /\ no' = no
  <2>. DEFINE r == [run[h] EXCEPT !.status = s, !.leased = run'[h].leased]
  <2>1. r.status = s /\ r.attempt = run[h].attempt
    BY DEF RunTyped, RunRecord
  <2>2. run' = [run EXCEPT ![h] = r]
    OBVIOUS
  <2>. HIDE DEF r
  <2>. QED
    BY <2>1, <2>2 DEF RunTyped
<1>2. Life!Move(h, s)
  BY <1>1, SameTable DEF Life!Move
<1>. QED
  BY <1>2, SameTable DEF Life!Next

LEMMA LifeNext == Strong /\ Moving /\ Made /\ [Next]_vars => [Life!Next]_(Life!vars)
<1>. SUFFICES ASSUME Strong, Moving, Made, [Next]_vars
              PROVE  Life!Next \/ UNCHANGED Life!vars
  OBVIOUS
<1> DEFINE st == [g \in Handoffs |-> run[g].status]
           no == [g \in Handoffs |-> run[g].attempt]
<1>0. run \in [Handoffs -> RunRecord] /\ RunTyped
  BY DEF Strong, Attempts, RunTyped
<1>1. ASSUME NEW h \in Handoffs, CreateRun(h) PROVE Life!Next
  <2>1. run[h].status = Absent
    BY <1>1 DEF CreateRun, Made
  <2>2. st' = [st EXCEPT ![h] = "queued"] /\ no' = no
    BY <1>0, <1>1 DEF CreateRun, RunRecord
  <2>3. Life!Create(h)
    BY <2>1, <2>2, SameTable DEF Life!Create
  <2>. QED
    BY <2>3 DEF Life!Next
<1>2. ASSUME NEW h \in Handoffs, Claim(h) PROVE Life!Next
  <2>1. /\ st' = [st EXCEPT ![h] = "running"] /\ no' = [no EXCEPT ![h] = @ + 1]
        /\ st[h] = "queued"
    BY <1>0, <1>2 DEF Claim
  <2>2. Life!Start(h)
    BY <2>1 DEF Life!Start
  <2>. QED
    BY <2>2 DEF Life!Next
<1>3. ASSUME NEW h \in Handoffs, NEW ok \in BOOLEAN, Settle(h, ok) PROVE Life!Next
  <2>. DEFINE s == IF ok THEN "succeeded" ELSE IF ~ok /\ Retries(h) THEN "queued" ELSE "failed"
  <2>1. s \in Statuses /\ s \in Transitions["running"] /\ run[h].status = "running"
    BY <1>3 DEF Settle, Statuses, Transitions, Waiting
  <2>2. run' = [run EXCEPT ![h] = [run[h] EXCEPT !.status = s, !.leased = FALSE]]
    BY <1>3 DEF Settle
  <2>. HIDE DEF s
  <2>3. run'[h].leased = FALSE
    BY <1>0, <2>2 DEF RunRecord
  <2>. QED
    BY <1>0, <2>1, <2>2, <2>3, LifeMove DEF Statuses
<1>4. ASSUME NEW h \in Handoffs, NEW s \in Statuses, SentBy(h, s)
      PROVE  Life!Next \/ UNCHANGED Life!vars
  <2>1. run[h].status \in Statuses /\ run' = Sent(h, s)
    BY <1>4 DEF Made, SentBy
  <2>2. CASE s \in Transitions[run[h].status]
    <3>. DEFINE kept == (run[h].leased /\ s \notin Terminal \cup {"queued"})
    <3>1. run' = [run EXCEPT ![h] = [run[h] EXCEPT !.status = s, !.leased = kept]]
      BY <2>1, <2>2 DEF Sent
    <3>. HIDE DEF kept
    <3>2. run'[h].leased = kept
      BY <1>0, <3>1 DEF RunRecord
    <3>. QED
      BY <1>0, <2>1, <2>2, <3>1, <3>2, LifeMove
  <2>3. CASE s \notin Transitions[run[h].status]
    BY <2>1, <2>3 DEF Sent, Life!vars
  <2>. QED
    BY <2>2, <2>3
<1>5. CASE UNCHANGED run
  BY <1>5 DEF Life!vars
<1>. QED
  BY <1>1, <1>2, <1>3, <1>4, <1>5, RunSteps DEF RunStep

\* Refinement: for any number of handoffs, members and stops, and whatever fails, the
\* run of a handoff lives the life RunLifecycle describes (delegations.ts writes it
\* through runs/store.ts alone, and makes it once).
THEOREM LifecycleFollowed == Spec => FollowsLifecycle
<1>1. Init => Strong /\ Moving /\ Made /\ Life!Init
  BY StrongInit, LifeInit
<1>2. Strong /\ Moving /\ Made /\ [Next]_vars => (Strong /\ Moving /\ Made)'
  BY StrongNext, MovingNext, MadeNext
<1>. QED
  BY <1>1, <1>2, LifeNext, PTL DEF Spec, FollowsLifecycle, Life!Spec

----------------------------------------------------------------------------
(* What a handoff and its run still owe each other                         *)

UnderWay == {"writing", "entering", "finishing"}
WrittenDown == {"entering", "finishing"}
Attempting == {"starting", "working", "refused", "lost"}

\* A hook that is under way makes the report of its attempt.
Announcing ==
  \A h \in Handoffs : change[h].step \in UnderWay =>
    exec[h] \in DOMAIN Announced /\ change[h].of = h /\ change[h].to = Announced[exec[h]]

\* An end that is passed on to the run is in the row.
EndWritten ==
  /\ \A t \in Threads : change[t].step \in WrittenDown /\ change[t].to \in Ended =>
       row[change[t].of].status \in Ended \/ change[t].of \in overtaken
  /\ \A s \in Stoppers : stop[s].current # None =>
       row[stop[s].current].status \in Ended \/ stop[s].current \in overtaken

\* An attempt that works has taken up its handoff.
TakenUp ==
  \A h \in Handoffs :
    exec[h] \in {"working", "succeeded"} \/ (exec[h] = "starting" /\ change[h].step = "entering")
      => row[h].status \in {"in_progress"} \cup Ended \/ h \in overtaken

\* A lease is an attempt's, unless a member wrote into the run that it goes on or waits:
\* the lease outlives that, and the attempt may not.
LeaseWorked ==
  \A h \in Handoffs : run[h].leased =>
    \/ run[h].status = "running" /\ exec[h] \in Attempting
    \/ ~(moved[h] \subseteq Terminal)

\* Nobody but a member ends a run that waits for its row.
RunWaits ==
  \A h \in Handoffs : creating[h].step # "over" =>
    ~run[h].leased /\ (run[h].status \in Terminal => EndedByHand(h))

Owing == Announcing /\ EndWritten /\ TakenUp /\ LeaseWorked /\ RunWaits

LEMMA AnnouncedBy ==
  /\ DOMAIN Announced = {"starting", "succeeded", "failed"}
  /\ Announced["starting"] = "in_progress" /\ Announced["succeeded"] = "completed"
  /\ Announced["failed"] = "failed"
BY DEF Announced

LEMMA OwingInit == Init => Owing /\ EndIsPassedOn /\ ReportIsDue
<1>. SUFFICES ASSUME NEW scene \in Scenes, InitScene(scene)
              PROVE  Owing /\ EndIsPassedOn /\ ReportIsDue
  BY DEF Init
<1>1. \A t \in Threads : change[t].step \notin UnderWay
  BY DEF InitScene, Threads, NoChange, AnsweredChange, UnderWay
<1>2. \A h \in Handoffs : /\ row[h].status = Absent /\ run[h].status = Absent /\ ~run[h].leased
                          /\ exec[h] \in {"none", "away"} /\ Absent \notin Terminal
  BY DEF InitScene, Absent, Terminal
<1>3. \A s \in Stoppers : stop[s].current = None
  BY DEF InitScene
<1>4. Handoffs \subseteq Threads /\ WrittenDown \subseteq UnderWay
  BY DEF Threads, WrittenDown, UnderWay
<1>5. Owing
  BY <1>1, <1>2, <1>3, <1>4
  DEF Owing, Announcing, EndWritten, TakenUp, LeaseWorked, RunWaits
<1>. QED
  BY <1>2, <1>5 DEF EndIsPassedOn, ReportIsDue, Exists, Ended, Open, Absent

\* What becomes of a handoff in a step: it moves along the table, or by a stale write.
LEMMA RowLife ==
  ASSUME Strong, [Next]_vars, NEW h \in Handoffs
  PROVE  \/ row'[h] = row[h]
         \/ InsertRow(h) /\ row[h].status = Absent /\ row'[h].status = "queued"
         \/ h \in overtaken'
         \/ /\ row[h].status \in Open \cup Ended /\ row'[h].status \in Open \cup Ended
            /\ Allowed(row[h].status, row'[h].status)
<1>0. /\ row \in [Handoffs -> RowRecord] /\ change \in [Threads -> ChangeRecord]
      /\ stop \in [Stoppers -> StopRecord] /\ Inv
  BY DEF Strong, Inv, Typed
<1>1. ASSUME NEW g \in Handoffs, InsertRow(g)
      PROVE  row'[h] = row[h] \/ (g = h /\ row[h].status = Absent /\ row'[h].status = "queued")
  BY <1>0, <1>1 DEF InsertRow, Inv, Fresh
<1>2. ASSUME NEW t \in Threads, Write(t)
      PROVE  \/ row'[h] = row[h] \/ h \in overtaken'
             \/ /\ row[h].status \in Open \cup Ended /\ row'[h].status \in Open \cup Ended
                /\ Allowed(row[h].status, row'[h].status)
  <2>1. /\ change[t] \in ChangeRecord /\ row[h] \in RowRecord
        /\ Allowed(change[t].from, change[t].to)
    BY <1>0, <1>2 DEF Write, Inv, Legal
  <2>2. /\ row' = [row EXCEPT ![change[t].of].status = change[t].to]
        /\ row[change[t].of].status # change[t].from => change[t].of \in overtaken'
    BY <1>2 DEF Write
  <2>3. CASE change[t].of # h
    BY <1>0, <2>2, <2>3
  <2>4. CASE change[t].of = h /\ row[h].status # change[t].from
    BY <2>2, <2>4
  <2>5. CASE change[t].of = h /\ row[h].status = change[t].from
    <3>1. row'[h].status = change[t].to
      BY <1>0, <2>1, <2>2, <2>5 DEF RowRecord
    <3>. QED
      BY <2>1, <2>5, <3>1 DEF ChangeRecord
  <2>. QED
    BY <2>3, <2>4, <2>5
<1>3. ASSUME NEW s \in Stoppers, NEW g \in Handoffs, CancelRow(s, g)
      PROVE  \/ row'[h] = row[h] \/ h \in overtaken'
             \/ /\ row[h].status \in Open \cup Ended /\ row'[h].status \in Open \cup Ended
                /\ Allowed(row[h].status, row'[h].status)
  <2>1. CASE g # h
    BY <1>0, <1>3, <2>1 DEF CancelRow
  <2>2. CASE g = h
    <3>1. row[h].status # Absent /\ row[h] \in RowRecord
      BY <1>0, <1>3, <2>2 DEF CancelRow, Inv, Known
    <3>2. /\ row' = [row EXCEPT ![h] = [@ EXCEPT !.status = "cancelled", !.stopped = TRUE]]
          /\ row[h].status \in Ended => h \in overtaken'
      BY <1>3, <2>2 DEF CancelRow
    <3>3. row'[h].status = "cancelled"
      BY <1>0, <3>1, <3>2 DEF RowRecord
    <3>4. row[h].status \in Open \/ h \in overtaken'
      BY <3>1, <3>2 DEF RowRecord
    <3>5. row[h].status \in Open => Allowed(row[h].status, "cancelled")
      BY DEF Allowed, Moves, Open, Ended
    <3>. QED
      BY <3>3, <3>4, <3>5 DEF Ended
  <2>. QED
    BY <2>1, <2>2
<1>. QED
  BY <1>1, <1>2, <1>3
  DEF Next, vars, Threads, Creation, Attempt, Change, Stopping, AskRoot, AskBelow, Count,
      CreateRun, CreationFails, Ask, Enter, Finish, ChangeFails, MoveRun, Claim, Hook, HookRefused,
      HookFails, Settle, Dropped, ProcessDies, BeginStop, Walk, CancelRun, EndStop, StopFails

\* A handoff that ended stays so, and one in progress ends, but for a stale write.
LEMMA EndedStays ==
  ASSUME Strong, [Next]_vars, NEW h \in Handoffs
  PROVE  /\ row[h].status \in Ended \/ h \in overtaken
              => row'[h].status \in Ended \/ h \in overtaken'
         /\ row[h].status \in {"in_progress"} \cup Ended \/ h \in overtaken
              => row'[h].status \in {"in_progress"} \cup Ended \/ h \in overtaken'
         /\ row'[h].status \in Ended /\ row[h].status \notin Ended /\ h \notin overtaken'
              => Exists(h)
<1>1. h \in overtaken => h \in overtaken'
  BY RowsStay DEF Strong
<1>2. ASSUME NEW a \in Open \cup Ended, NEW b \in Open \cup Ended, Allowed(a, b)
      PROVE  /\ a \in Ended => b = a
             /\ a = "in_progress" => b \in {"in_progress"} \cup Ended
  BY <1>2 DEF Allowed, Moves, Open, Ended
<1>3. Absent \notin Ended \cup {"in_progress"} /\ Absent \notin Open \cup Ended
      /\ "queued" \notin Ended
  BY DEF Absent, Ended, Open
<1>4. CASE row'[h] = row[h] \/ h \in overtaken'
  BY <1>1, <1>4
<1>5. CASE row[h].status = Absent /\ row'[h].status = "queued"
  BY <1>1, <1>3, <1>5
<1>6. CASE /\ row[h].status \in Open \cup Ended /\ row'[h].status \in Open \cup Ended
           /\ Allowed(row[h].status, row'[h].status)
  BY <1>1, <1>2, <1>3, <1>6 DEF Exists
<1>. QED
  BY <1>4, <1>5, <1>6, RowLife

\* Who moves the change of a thread.
LEMMA ThreadMoves ==
  ASSUME Strong, [Next]_vars, NEW t \in Threads
  PROVE  \/ change'[t] = change[t]
         \/ change'[t].step \in {"idle", "over"}
         \/ t \notin Handoffs /\ change'[t].step = "writing"
         \/ t \in Handoffs /\ Hook(t)
         \/ /\ Write(t) /\ change'[t].step \in WrittenDown
            /\ change'[t].of = change[t].of /\ change'[t].to = change[t].to
            /\ change'[t].step = "finishing" => change[t].to = "cancelled"
         \/ /\ Enter(t) /\ change[t].to \in Ended /\ change'[t].step = "finishing"
            /\ change'[t].of = change[t].of /\ change'[t].to = change[t].to
<1>0. change \in [Threads -> ChangeRecord] /\ Handoffs \subseteq Threads
      /\ People \subseteq Threads /\ People \cap Handoffs = {}
  BY NamesAssumption DEF Strong, Inv, Typed, Threads
<1>1. ASSUME NEW u \in Threads, Done(u)
      PROVE  change'[t] = change[t] \/ change'[t].step \in {"idle", "over"}
  BY <1>0, <1>1 DEF Done, NoChange, AnsweredChange
<1>2. ASSUME NEW h \in Handoffs, HookFails(h) \/ ProcessDies(h)
      PROVE  change'[t] = change[t] \/ change'[t].step \in {"idle", "over"}
  BY <1>0, <1>2 DEF HookFails, ProcessDies, NoChange
<1>3. ASSUME NEW u \in People, NEW h \in Handoffs, NEW to, Ask(u, h, to)
      PROVE  change'[t] = change[t] \/ (t \notin Handoffs /\ change'[t].step = "writing")
  BY <1>0, <1>3 DEF Ask, Reading
<1>4. ASSUME NEW h \in Handoffs, Hook(h)
      PROVE  change'[t] = change[t] \/ (t \in Handoffs /\ Hook(t))
  BY <1>0, <1>4 DEF Hook, Reading
<1>5. ASSUME NEW u \in Threads, Write(u)
      PROVE  \/ change'[t] = change[t]
             \/ /\ Write(t) /\ change'[t].step \in WrittenDown
                /\ change'[t].of = change[t].of /\ change'[t].to = change[t].to
                /\ change'[t].step = "finishing" => change[t].to = "cancelled"
  <2>1. change' = [change EXCEPT ![u].step = IF change[u].to = "cancelled" THEN "finishing"
                                             ELSE "entering"]
    BY <1>5 DEF Write
  <2>. QED
    BY <1>0, <1>5, <2>1 DEF ChangeRecord, WrittenDown
<1>6. ASSUME NEW u \in Threads, Enter(u)
      PROVE  \/ change'[t] = change[t]
             \/ change'[t].step \in {"idle", "over"}
             \/ /\ Enter(t) /\ change[t].to \in Ended /\ change'[t].step = "finishing"
                /\ change'[t].of = change[t].of /\ change'[t].to = change[t].to
  <2>1. CASE change[u].to \notin Ended
    BY <1>1, <1>6, <2>1 DEF Enter
  <2>2. CASE change[u].to \in Ended
    <3>1. change' = [change EXCEPT ![u].step = "finishing"]
      BY <1>6, <2>2 DEF Enter
    <3>. QED
      BY <1>0, <1>6, <2>2, <3>1 DEF ChangeRecord
  <2>. QED
    BY <2>1, <2>2
<1>7. ASSUME NEW u \in Threads, Finish(u) \/ ChangeFails(u)
      PROVE  change'[t] = change[t] \/ change'[t].step \in {"idle", "over"}
  BY <1>1, <1>7 DEF Finish, ChangeFails
<1>8. CASE UNCHANGED change
  BY <1>8
<1>9. ASSUME NEW u \in People, NEW h \in Handoffs, NEW s \in Statuses, MoveRun(u, h, s)
      PROVE  change'[t] = change[t] \/ change'[t].step \in {"idle", "over"}
  BY <1>0, <1>9 DEF MoveRun, NoChange, AnsweredChange
<1>. QED
  BY <1>2, <1>3, <1>4, <1>5, <1>6, <1>7, <1>8, <1>9
  DEF Next, vars, Threads, Creation, Attempt, Change, Stopping, AskRoot, AskBelow, Count,
      CreateRun, InsertRow, CreationFails, Claim, HookRefused, Settle, Dropped, BeginStop,
      Walk, CancelRow, CancelRun, EndStop, StopFails

\* Who moves an attempt.
LEMMA AttemptMoves ==
  ASSUME Strong, [Next]_vars, NEW h \in Handoffs
  PROVE  \/ exec'[h] = exec[h]
         \/ Claim(h) \/ HookRefused(h) \/ HookFails(h) \/ Dropped(h) \/ ProcessDies(h)
         \/ \E ok \in BOOLEAN : Settle(h, ok)
         \/ Finish(h) /\ Done(h)
         \/ Enter(h) /\ change[h].to \notin Ended /\ Done(h)
<1>0. exec \in [Handoffs -> Phases] /\ People \cap Handoffs = {}
  BY NamesAssumption DEF Strong, Others
<1>1. ASSUME NEW t \in Threads, Done(t) PROVE exec'[h] = exec[h] \/ t = h
  BY <1>0, <1>1 DEF Done
<1>2. ASSUME NEW t \in Threads, Enter(t) \/ Finish(t)
      PROVE  \/ exec'[h] = exec[h]
             \/ Finish(h) /\ Done(h)
             \/ Enter(h) /\ change[h].to \notin Ended /\ Done(h)
  <2>1. CASE Enter(t) /\ change[t].to \in Ended
    BY <2>1 DEF Enter
  <2>2. CASE Enter(t) /\ change[t].to \notin Ended
    BY <1>1, <2>2 DEF Enter
  <2>3. CASE Finish(t)
    BY <1>1, <2>3 DEF Finish
  <2>. QED
    BY <1>2, <2>1, <2>2, <2>3
<1>3. ASSUME NEW t \in People, ChangeFails(t) PROVE exec'[h] = exec[h]
  BY <1>0, <1>1, <1>3 DEF ChangeFails, Threads
<1>4. ASSUME NEW g \in Handoffs,
             \/ Claim(g) \/ HookRefused(g) \/ HookFails(g) \/ Dropped(g) \/ ProcessDies(g)
             \/ \E ok \in BOOLEAN : Settle(g, ok)
      PROVE  exec'[h] = exec[h] \/ g = h
  BY <1>0, <1>4 DEF Claim, HookRefused, HookFails, Dropped, ProcessDies, Settle
<1>5. CASE UNCHANGED exec
  BY <1>5
<1>. QED
  BY <1>2, <1>3, <1>4, <1>5
  DEF Next, vars, Threads, Creation, Attempt, Change, Stopping, AskRoot, AskBelow, Count,
      CreateRun, InsertRow, CreationFails, Ask, MoveRun, Write, Hook, BeginStop, Walk, CancelRow,
      CancelRun, EndStop, StopFails

\* What a stop is about to pass on to a run, it has just written.
LEMMA StopMoves ==
  ASSUME Strong, [Next]_vars, NEW s \in Stoppers
  PROVE  \/ stop'[s].current \in {stop[s].current, None}
         \/ \E h \in Handoffs : CancelRow(s, h) /\ stop'[s].current = h
                                /\ row'[h].status = "cancelled"
<1>0. stop \in [Stoppers -> StopRecord] /\ row \in [Handoffs -> RowRecord]
  BY DEF Strong, Inv, Typed
<1>1. ASSUME NEW r \in Stoppers, NEW h \in Handoffs, CancelRow(r, h)
      PROVE  \/ stop'[s].current = stop[s].current
             \/ CancelRow(s, h) /\ stop'[s].current = h /\ row'[h].status = "cancelled"
  BY <1>0, <1>1 DEF CancelRow, StopRecord, RowRecord
<1>2. ASSUME NEW r \in Stoppers, Walk(r) \/ EndStop(r)
      PROVE  stop'[s].current = stop[s].current
  <2>1. CASE Walk(r)
    BY <1>0, <2>1 DEF Walk, StopRecord
  <2>2. CASE EndStop(r)
    BY <1>0, <2>2 DEF EndStop, StopRecord
  <2>. QED
    BY <1>2, <2>1, <2>2
<1>3. ASSUME NEW r \in Stoppers, CancelRun(r) \/ StopFails(r) \/ \E h \in Handoffs : BeginStop(r, h)
      PROVE  stop'[s].current \in {stop[s].current, None}
  <2>1. CASE CancelRun(r)
    BY <1>0, <2>1 DEF CancelRun, StopRecord
  <2>2. CASE StopFails(r)
    BY <1>0, <2>2 DEF StopFails, StopRecord
  <2>3. ASSUME NEW h \in Handoffs, BeginStop(r, h)
        PROVE  stop'[s].current \in {stop[s].current, None}
    BY <1>0, <2>3 DEF BeginStop
  <2>. QED
    BY <1>3, <2>1, <2>2, <2>3
<1>4. CASE UNCHANGED stop
  BY <1>4
<1>. QED
  BY <1>1, <1>2, <1>3, <1>4
  DEF Next, vars, Threads, Creation, Attempt, Change, Stopping, AskRoot, AskBelow, Count,
      CreateRun, InsertRow, CreationFails, Ask, Write, Enter, Finish, ChangeFails, MoveRun, Claim,
      Hook, HookRefused, HookFails, Settle, Dropped, ProcessDies

LEMMA AnnouncingNext == Strong /\ Announcing /\ [Next]_vars => Announcing'
<1>. SUFFICES ASSUME Strong, Announcing, [Next]_vars, NEW h \in Handoffs,
                     change'[h].step \in UnderWay
              PROVE  /\ exec'[h] \in DOMAIN Announced /\ change'[h].of = h
                     /\ change'[h].to = Announced[exec'[h]]
  BY DEF Announcing
<1>0. /\ h \in Threads /\ change \in [Threads -> ChangeRecord]
      /\ NoChange.step = "idle" /\ Announced' = Announced
  BY DEF Strong, Inv, Typed, Threads, NoChange, Announced
<1>1. CASE change'[h] = change[h]
  <2>1. change[h].step \in UnderWay /\ exec[h] \in {"starting", "succeeded", "failed"}
    BY <1>1, AnnouncedBy DEF Announcing
  <2>2. ~Idle(h) /\ \A x : change' = [change EXCEPT ![h] = NoChange] => FALSE
    BY <1>0, <1>1, <2>1 DEF Idle, UnderWay
  <2>3. ~Claim(h) /\ ~Dropped(h) /\ ~HookRefused(h) /\ \A ok \in BOOLEAN : ~Settle(h, ok)
    BY <2>1, <2>2 DEF Claim, Dropped, HookRefused, Settle
  <2>4. ~HookFails(h) /\ ~ProcessDies(h) /\ ~Done(h)
    BY <2>2 DEF HookFails, ProcessDies, Done
  <2>5. exec'[h] = exec[h]
    BY <2>3, <2>4, AttemptMoves
  <2>. QED
    BY <1>1, <2>1, <2>5 DEF Announcing
<1>2. CASE Hook(h)
  BY <1>0, <1>2 DEF Hook, Reading
<1>3. CASE Write(h) /\ change'[h].of = change[h].of /\ change'[h].to = change[h].to
  BY <1>3 DEF Write, Announcing, UnderWay
<1>4. CASE Enter(h) /\ change[h].to \in Ended /\ change'[h].of = change[h].of
           /\ change'[h].to = change[h].to
  BY <1>4 DEF Enter, Announcing, UnderWay
<1>5. change'[h].step \notin {"idle", "over"}
  BY DEF UnderWay
<1>. QED
  BY <1>0, <1>1, <1>2, <1>3, <1>4, <1>5, ThreadMoves

LEMMA EndWrittenNext == Strong /\ Moving /\ EndWritten /\ [Next]_vars => EndWritten'
<1>. SUFFICES ASSUME Strong, Moving, EndWritten, [Next]_vars PROVE EndWritten'
  OBVIOUS
<1>0. /\ row \in [Handoffs -> RowRecord] /\ change \in [Threads -> ChangeRecord]
      /\ stop \in [Stoppers -> StopRecord] /\ Legal
  BY DEF Strong, Inv, Typed
<1>1. ASSUME NEW t \in Threads, change'[t].step \in WrittenDown, change'[t].to \in Ended
      PROVE  row'[change'[t].of].status \in Ended \/ change'[t].of \in overtaken'
  <2>1. ASSUME change'[t].of = change[t].of, change[t].step \in WrittenDown, change[t].to \in Ended
        PROVE  row'[change'[t].of].status \in Ended \/ change'[t].of \in overtaken'
    <3>1. change[t].of \in Handoffs
      BY <2>1 DEF Moving, WrittenDown
    <3>2. row[change[t].of].status \in Ended \/ change[t].of \in overtaken
      BY <2>1 DEF EndWritten
    <3>. QED
      BY <2>1, <3>1, <3>2, EndedStays
  <2>2. CASE change'[t] = change[t]
    BY <1>1, <2>1, <2>2
  <2>3. CASE Write(t) /\ change'[t].of = change[t].of /\ change'[t].to = change[t].to
    <3>1. /\ change[t].of \in Handoffs
          /\ row' = [row EXCEPT ![change[t].of].status = change[t].to]
      BY <1>0, <2>3 DEF Write, Legal
    <3>2. row'[change[t].of].status = change[t].to
      BY <1>0, <3>1 DEF RowRecord
    <3>. QED
      BY <1>1, <2>3, <3>2
  <2>4. CASE Enter(t) /\ change[t].to \in Ended /\ change'[t].of = change[t].of
    BY <2>1, <2>4 DEF Enter, WrittenDown
  <2>5. change'[t].step \notin {"idle", "over", "writing"}
    BY <1>1 DEF WrittenDown
  <2>6. CASE t \in Handoffs /\ Hook(t)
    BY <1>0, <2>5, <2>6 DEF Hook, Reading
  <2>. QED
    BY <2>2, <2>3, <2>4, <2>5, <2>6, ThreadMoves
<1>2. ASSUME NEW s \in Stoppers, stop'[s].current # None
      PROVE  row'[stop'[s].current].status \in Ended \/ stop'[s].current \in overtaken'
  <2>1. CASE stop'[s].current \in {stop[s].current, None}
    <3>1. stop[s].current \in Handoffs /\ stop'[s].current = stop[s].current
      BY <1>0, <1>2, <2>1 DEF StopRecord
    <3>2. row[stop[s].current].status \in Ended \/ stop[s].current \in overtaken
      BY <1>2, <3>1 DEF EndWritten
    <3>. QED
      BY <3>1, <3>2, EndedStays
  <2>2. CASE \E h \in Handoffs : stop'[s].current = h /\ row'[h].status = "cancelled"
    BY <2>2 DEF Ended
  <2>. QED
    BY <2>1, <2>2, StopMoves
<1>. QED
  BY <1>1, <1>2 DEF EndWritten

LEMMA TakenUpNext == Strong /\ Announcing /\ TakenUp /\ [Next]_vars => TakenUp'
<1>. SUFFICES ASSUME Strong, Announcing, TakenUp, [Next]_vars, NEW h \in Handoffs,
                     \/ exec'[h] \in {"working", "succeeded"}
                     \/ exec'[h] = "starting" /\ change'[h].step = "entering"
              PROVE  row'[h].status \in {"in_progress"} \cup Ended \/ h \in overtaken'
  BY DEF TakenUp
<1>0. /\ h \in Threads /\ exec \in [Handoffs -> Phases] /\ change \in [Threads -> ChangeRecord]
      /\ row \in [Handoffs -> RowRecord]
  BY DEF Strong, Others, Inv, Typed, Threads
<1>1. ASSUME \/ exec[h] \in {"working", "succeeded"}
             \/ exec[h] = "starting" /\ change[h].step = "entering"
      PROVE  row'[h].status \in {"in_progress"} \cup Ended \/ h \in overtaken'
  BY <1>1, EndedStays DEF TakenUp
<1>2. CASE exec'[h] = exec[h]
  <2>1. ASSUME exec[h] = "starting", change'[h].step = "entering", change[h].step # "entering"
        PROVE  row'[h].status \in {"in_progress"} \cup Ended
    <3>1. Write(h)
      BY <1>0, <2>1, ThreadMoves DEF Hook, Reading
    <3>2. change[h].of = h /\ change[h].to = "in_progress"
      BY <2>1, <3>1, AnnouncedBy DEF Write, Announcing, UnderWay
    <3>3. row' = [row EXCEPT ![h].status = "in_progress"]
      BY <3>1, <3>2 DEF Write
    <3>. QED
      BY <1>0, <3>3 DEF RowRecord
  <2>. QED
    BY <1>1, <1>2, <2>1
<1>3. CASE \E ok \in BOOLEAN : Settle(h, ok)
  <2>1. PICK ok \in BOOLEAN : Settle(h, ok)
    BY <1>3
  <2>2. exec'[h] = Reported(ok, ~ok /\ Retries(h))
    BY <1>0, <2>1 DEF Settle
  <2>3. ok
    BY <2>2 DEF Reported
  <2>. QED
    BY <1>1, <2>1, <2>3 DEF Settle
<1>4. CASE Claim(h)
  <2>1. exec'[h] = "starting" /\ exec[h] = "none" /\ change'[h] = change[h]
    BY <1>0, <1>4 DEF Claim
  <2>2. change[h].step \notin UnderWay
    BY <2>1, AnnouncedBy DEF Announcing
  <2>. QED
    BY <2>1, <2>2 DEF UnderWay
<1>5. CASE HookRefused(h) \/ HookFails(h) \/ Dropped(h) \/ ProcessDies(h)
  BY <1>0, <1>5 DEF HookRefused, HookFails, Dropped, ProcessDies
<1>6. CASE Done(h) /\ (Finish(h) \/ Enter(h))
  <2>1. exec[h] = "starting"
    BY <1>0, <1>6 DEF Done
  <2>2. change[h].to = "in_progress"
    BY <1>6, <2>1, AnnouncedBy DEF Announcing, Finish, Enter, UnderWay
  <2>3. change[h].step = "entering"
    BY <1>0, <1>6, <2>2 DEF Finish, Enter, Strong, Held, Ended
  <2>. QED
    BY <1>1, <2>1, <2>3
<1>. QED
  BY <1>2, <1>3, <1>4, <1>5, <1>6, AttemptMoves

\* A lease goes when its run leaves running, and comes with an attempt.
LEMMA LeaseWorkedNext ==
  Strong /\ Moving /\ Made /\ Announcing /\ LeaseWorked /\ [Next]_vars => LeaseWorked'
<1>. SUFFICES ASSUME Strong, Moving, Made, Announcing, LeaseWorked, [Next]_vars,
                     NEW h \in Handoffs, run'[h].leased, moved'[h] \subseteq Terminal
              PROVE  run'[h].status = "running" /\ exec'[h] \in Attempting
  BY DEF LeaseWorked, Terminal
<1>0. /\ run \in [Handoffs -> RunRecord] /\ exec \in [Handoffs -> Phases]
      /\ moved[h] \subseteq Terminal
  BY MovedStays DEF Strong, Attempts, RunTyped, Others
<1>1. CASE Claim(h)
  BY <1>0, <1>1 DEF Claim, Attempting
<1>2. CASE ~Claim(h)
  <2>1. run[h].leased /\ run'[h].status = "running"
    <3>1. CASE UNCHANGED run
      BY <1>0, <3>1 DEF LeaseWorked
    <3>2. ASSUME NEW g \in Handoffs, CreateRun(g)
          PROVE  run[h].leased /\ run'[h].status = "running"
      <4>1. run'[h].leased = run[h].leased
        BY <1>0, <3>2 DEF CreateRun, RunRecord
      <4>2. g # h
        <5>1. ASSUME g = h PROVE FALSE
          <6>1. run[h].status = "running"
            BY <1>0, <4>1 DEF LeaseWorked
          <6>2. run[h].status = Absent
            BY <3>2, <5>1 DEF CreateRun, Made
          <6>. QED
            BY <6>1, <6>2 DEF Absent
        <5>. QED BY <5>1
      <4>. QED
        BY <1>0, <3>2, <4>1, <4>2 DEF CreateRun, LeaseWorked
    <3>3. ASSUME NEW g \in Handoffs, Claim(g)
          PROVE  run[h].leased /\ run'[h].status = "running"
      BY <1>0, <1>2, <3>3 DEF Claim, LeaseWorked
    <3>4. ASSUME NEW g \in Handoffs, NEW ok \in BOOLEAN, Settle(g, ok)
          PROVE  run[h].leased /\ run'[h].status = "running"
      BY <1>0, <3>4 DEF Settle, LeaseWorked, RunRecord
    <3>5. ASSUME NEW g \in Handoffs, NEW s \in Statuses, SentBy(g, s)
          PROVE  run[h].leased /\ run'[h].status = "running"
      <4>1. CASE g # h \/ run' = run
        BY <1>0, <3>5, <4>1 DEF SentBy, Sent, LeaseWorked
      <4>2. CASE g = h /\ run' # run
        <5>1. /\ s \in Transitions[run[h].status]
              /\ run' = [run EXCEPT ![h] = [run[h] EXCEPT !.status = s,
                           !.leased = run[h].leased /\ s \notin Terminal \cup {"queued"}]]
          BY <3>5, <4>2 DEF SentBy, Sent
        <5>2. run[h] \in RunRecord
          BY <1>0
        <5>3. /\ run'[h].status = s
              /\ run'[h].leased = (run[h].leased /\ s \notin Terminal \cup {"queued"})
          BY <1>0, <5>1, <5>2 DEF RunRecord
        <5>. QED
          BY <3>5, <4>2, <5>3 DEF SentBy, Asked, Terminal
      <4>. QED BY <4>1, <4>2
    <3>. QED
      BY <3>1, <3>2, <3>3, <3>4, <3>5, RunSteps DEF RunStep
  <2>2. exec[h] \in Attempting /\ run[h].status = "running"
    BY <1>0, <2>1 DEF LeaseWorked
  <2>3. CASE exec'[h] = exec[h]
    BY <2>1, <2>2, <2>3
  <2>4. CASE HookRefused(h) \/ HookFails(h) \/ ProcessDies(h)
    BY <1>0, <2>2, <2>4 DEF HookRefused, HookFails, ProcessDies, Attempting, Announced
  <2>5. CASE Dropped(h)
    BY <2>1, <2>2, <2>5 DEF Dropped
  <2>6. ASSUME NEW ok \in BOOLEAN, Settle(h, ok) PROVE FALSE
    BY <1>0, <2>6 DEF Settle, RunRecord
  <2>7. CASE Done(h) /\ (Finish(h) \/ Enter(h))
    <3>1. exec[h] = "starting"
      BY <2>2, <2>7, AnnouncedBy DEF Announcing, Finish, Enter, UnderWay, Attempting
    <3>. QED
      BY <1>0, <2>1, <2>7, <3>1 DEF Done, Attempting
  <2>. QED
    BY <1>2, <2>1, <2>3, <2>4, <2>5, <2>6, <2>7, AttemptMoves
<1>. QED
  BY <1>1, <1>2

LEMMA RunWaitsNext == Strong /\ Moving /\ RunWaits /\ [Next]_vars => RunWaits'
<1>. SUFFICES ASSUME Strong, Moving, RunWaits, [Next]_vars, NEW h \in Handoffs,
                     creating'[h].step # "over"
              PROVE  ~run'[h].leased /\ (run'[h].status \in Terminal => EndedByHand(h)')
  BY DEF RunWaits
<1>0. /\ run \in [Handoffs -> RunRecord] /\ creating \in [Handoffs -> CreationRecord]
      /\ Fresh /\ (EndedByHand(h) => EndedByHand(h)')
  BY MovedStays DEF Strong, Attempts, RunTyped, Inv, Typed
<1>1. creating[h].step # "over"
  BY <1>0
  DEF Next, vars, Threads, Creation, Attempt, Change, Stopping, AskRoot, AskBelow, Count,
      CreateRun, InsertRow, CreationFails, Ask, Write, Enter, Finish, ChangeFails, MoveRun, Claim,
      Hook, HookRefused, HookFails, Settle, Dropped, ProcessDies, BeginStop, Walk, CancelRow,
      CancelRun, EndStop, StopFails
<1>2. ~Exists(h) /\ ~run[h].leased /\ (run[h].status \in Terminal => EndedByHand(h))
  BY <1>0, <1>1 DEF Fresh, Exists, RunWaits
<1>3. CASE run'[h] = run[h]
  BY <1>0, <1>2, <1>3
<1>4. CASE CreateRun(h)
  BY <1>0, <1>2, <1>4 DEF CreateRun, RunRecord, Terminal
<1>5. ASSUME NEW s \in Statuses, SentBy(h, s), run'[h] # run[h]
      PROVE  ~run'[h].leased /\ (run'[h].status \in Terminal => EndedByHand(h)')
  <2>1. s \in moved'[h]
    BY <1>2, <1>5 DEF SentBy
  <2>2. run' = [run EXCEPT ![h] = [run[h] EXCEPT !.status = s,
                  !.leased = run[h].leased /\ s \notin Terminal \cup {"queued"}]]
    BY <1>5 DEF SentBy, Sent
  <2>3. run'[h].status = s /\ ~run'[h].leased
    BY <1>0, <1>2, <2>2 DEF RunRecord
  <2>. QED
    BY <2>1, <2>3 DEF EndedByHand
<1>6. ASSUME NEW g \in Handoffs, g # h,
             \/ CreateRun(g) \/ Claim(g) \/ \E ok \in BOOLEAN : Settle(g, ok)
             \/ \E s \in Statuses : SentBy(g, s)
      PROVE  run'[h] = run[h]
  BY <1>0, <1>6 DEF CreateRun, Claim, Settle, SentBy, Sent
<1>7. ~Claim(h) /\ \A ok \in BOOLEAN : ~Settle(h, ok)
  BY <1>2 DEF Claim, Settle
<1>. QED
  BY <1>3, <1>4, <1>5, <1>6, <1>7, RunSteps DEF RunStep

\* What a run of a handoff does in a step, as far as its end goes.
LEMMA RunEnds ==
  ASSUME Strong, Moving, [Next]_vars, NEW h \in Handoffs,
         run'[h].status \in Terminal, run[h].status \notin Terminal
  PROVE  \/ \E ok \in BOOLEAN : Settle(h, ok)
         \/ \E t \in Threads : Finish(t) /\ change[t].of = h /\ change[t].to \in Ended
         \/ \E s \in Stoppers : CancelRun(s) /\ stop[s].current = h
         \/ EndedByHand(h)'
<1>0. run \in [Handoffs -> RunRecord] /\ "running" \notin Terminal /\ "queued" \notin Terminal
  BY DEF Strong, Attempts, RunTyped, Terminal
<1>1. ASSUME NEW g \in Handoffs, NEW s, run' = Sent(g, s)
      PROVE  g = h /\ s \in Terminal
  BY <1>0, <1>1 DEF Sent, RunRecord
<1>2. ASSUME NEW g \in Handoffs, CreateRun(g) \/ Claim(g) PROVE FALSE
  BY <1>0, <1>2 DEF CreateRun, Claim, RunRecord
<1>3. ASSUME NEW g \in Handoffs, NEW ok \in BOOLEAN, Settle(g, ok) PROVE g = h
  BY <1>0, <1>3 DEF Settle
<1>4. ASSUME NEW t \in Threads, Enter(t) PROVE FALSE
  BY <1>0, <1>1, <1>4 DEF Enter, Strong, Held
<1>5. ASSUME NEW t \in Threads, Finish(t) PROVE change[t].of = h /\ change[t].to \in Ended
  BY <1>1, <1>5 DEF Finish, Strong, Held
<1>6. ASSUME NEW s \in Stoppers, CancelRun(s) PROVE stop[s].current = h
  <2>1. stop[s].current \in Handoffs
    BY <1>6 DEF CancelRun, Strong, Inv, Typed, StopRecord
  <2>. QED
    BY <1>1, <1>6, <2>1 DEF CancelRun
<1>7. ASSUME NEW t \in People, NEW g \in Handoffs, NEW s \in Statuses, MoveRun(t, g, s)
      PROVE  EndedByHand(h)'
  <2>1. g = h /\ s \in Terminal
    BY <1>1, <1>7 DEF MoveRun
  <2>. QED
    BY <1>7, <2>1 DEF MoveRun, Strong, Others, EndedByHand
<1>. QED
  BY <1>2, <1>3, <1>4, <1>5, <1>6, <1>7
  DEF Next, vars, Threads, Creation, Attempt, Change, Stopping, AskRoot, AskBelow, Count,
      InsertRow, CreationFails, Ask, Write, ChangeFails, Hook, HookRefused, HookFails,
      Dropped, ProcessDies, BeginStop, Walk, CancelRow, EndStop, StopFails

LEMMA OwingNext == Strong /\ Moving /\ Made /\ Owing /\ [Next]_vars => Owing'
BY AnnouncingNext, EndWrittenNext, TakenUpNext, LeaseWorkedNext, RunWaitsNext DEF Owing

\* The report of an attempt that ended is given up only where the handoff is over, or by
\* a fault.
LEMMA ReportKept ==
  ASSUME Strong, Moving, Owing, [Next]_vars, NEW h \in Handoffs,
         exec[h] \in {"succeeded", "failed"}, exec'[h] \notin {"succeeded", "failed"}
  PROVE  \/ row'[h].status \in Ended \/ h \in overtaken' \cup mishap'
         \/ ~Exists(h)
<1>0. exec \in [Handoffs -> Phases] /\ row \in [Handoffs -> RowRecord] /\ h \in Threads
  BY DEF Strong, Others, Inv, Typed, Threads
<1>1. CASE HookRefused(h)
  <2>1. Exists(h) => ~Allowed(row[h].status, Announced[exec[h]]) /\ row[h].status \in Open \cup Ended
    BY <1>0, <1>1 DEF HookRefused, Exists, RowRecord
  <2>2. exec[h] = "failed" => Announced[exec[h]] = "failed"
    BY AnnouncedBy
  <2>3. exec[h] = "succeeded" => /\ Announced[exec[h]] = "completed"
                                 /\ row[h].status \in {"in_progress"} \cup Ended \/ h \in overtaken
    BY AnnouncedBy DEF Owing, TakenUp
  <2>4. Allowed("in_progress", "completed") /\ \A s \in Open : Allowed(s, "failed")
    BY DEF Allowed, Moves, Open, Ended
  <2>5. Exists(h) => row[h].status \in Ended \/ h \in overtaken
    BY <2>1, <2>2, <2>3, <2>4
  <2>. QED
    BY <2>5, EndedStays
<1>2. CASE HookFails(h) \/ ProcessDies(h)
  BY <1>2 DEF HookFails, ProcessDies
<1>3. CASE Claim(h) \/ Dropped(h) \/ \E ok \in BOOLEAN : Settle(h, ok)
  BY <1>3 DEF Claim, Dropped, Settle
<1>4. CASE Finish(h) \/ Enter(h)
  <2>1. /\ change[h].step \in UnderWay /\ change[h].step \in WrittenDown
    BY <1>4 DEF Finish, Enter, UnderWay, WrittenDown
  <2>2. change[h].of = h /\ change[h].to \in Ended
    BY <2>1, AnnouncedBy DEF Owing, Announcing, Ended
  <2>. QED
    BY <1>0, <2>1, <2>2, EndedStays DEF Owing, EndWritten
<1>. QED
  BY <1>1, <1>2, <1>3, <1>4, AttemptMoves

LEMMA ReportIsDueNext ==
  Strong /\ Moving /\ Made /\ Owing /\ ReportIsDue /\ [Next]_vars => ReportIsDue'
<1>. SUFFICES ASSUME Strong, Moving, Made, Owing, ReportIsDue, [Next]_vars, NEW h \in Handoffs,
                     Exists(h)', run'[h].status \in Terminal, row'[h].status \in Open,
                     h \notin overtaken' \cup mishap', ~EndedByHand(h)'
              PROVE  /\ exec'[h] \in {"succeeded", "failed"}
                     /\ Allowed(row'[h].status, Announced[exec'[h]])
  BY DEF ReportIsDue, Announced, Allowed, Moves, EndedByHand, Terminal
<1>0. /\ exec \in [Handoffs -> Phases] /\ row \in [Handoffs -> RowRecord] /\ h \in Threads
      /\ run \in [Handoffs -> RunRecord]
  BY DEF Strong, Others, Inv, Typed, Threads, Attempts, RunTyped
<1>1. row'[h].status \notin Ended /\ h \notin overtaken /\ ~EndedByHand(h)
  BY RowsStay, MovedStays DEF Strong, Open, Ended
<1>2. row[h].status \notin Ended
  BY <1>1, EndedStays
<1>3. exec'[h] \in {"succeeded", "failed"}
  <2>1. CASE run[h].status \in Terminal
    <3>1. Exists(h)
      <4>1. ASSUME InsertRow(h) PROVE FALSE
        BY <1>1, <2>1, <4>1 DEF InsertRow, Owing, RunWaits
      <4>2. row'[h].status # Absent
        BY DEF Exists
      <4>3. Absent \notin Open \cup Ended
        BY DEF Absent, Open, Ended
      <4>. QED
        BY <1>1, <4>1, <4>2, <4>3, RowLife DEF Exists
    <3>2. row[h].status \in Open
      BY <1>0, <1>2, <3>1 DEF Exists, RowRecord
    <3>3. h \notin mishap
      BY RowsStay DEF Strong
    <3>4. exec[h] \in {"succeeded", "failed"}
      BY <1>1, <2>1, <3>1, <3>2, <3>3 DEF ReportIsDue
    <3>. QED
      BY <1>1, <3>1, <3>4, ReportKept
  <2>2. CASE run[h].status \notin Terminal
    <3>1. ASSUME NEW ok \in BOOLEAN, Settle(h, ok) PROVE exec'[h] \in {"succeeded", "failed"}
      <4>1. exec'[h] = Reported(ok, ~ok /\ Retries(h))
        BY <1>0, <3>1 DEF Settle
      <4>2. ~(~ok /\ Retries(h))
        <5>1. ASSUME ~ok /\ Retries(h) PROVE FALSE
          <6>1. run' = [run EXCEPT ![h] = [@ EXCEPT !.leased = FALSE, !.status = "queued"]]
            BY <3>1, <5>1 DEF Settle
          <6>2. run'[h].status = "queued"
            BY <1>0, <6>1 DEF RunRecord
          <6>. QED
            BY <6>2 DEF Terminal
        <5>. QED BY <5>1
      <4>. QED
        BY <4>1, <4>2 DEF Reported
    <3>2. ASSUME NEW t \in Threads, Finish(t), change[t].of = h, change[t].to \in Ended PROVE FALSE
      <4>1. row[h].status \in Ended \/ h \in overtaken
        BY <3>2 DEF Finish, Owing, EndWritten, WrittenDown
      <4>. QED
        BY <1>1, <1>2, <4>1
    <3>3. ASSUME NEW s \in Stoppers, CancelRun(s), stop[s].current = h PROVE FALSE
      <4>1. row[h].status \in Ended \/ h \in overtaken
        BY <3>3 DEF CancelRun, Owing, EndWritten
      <4>. QED
        BY <1>1, <1>2, <4>1
    <3>. QED
      BY <2>2, <3>1, <3>2, <3>3, RunEnds
  <2>. QED
    BY <2>1, <2>2
<1>4. exec'[h] = "succeeded" => row'[h].status = "in_progress"
  <2>1. TakenUp'
    BY TakenUpNext DEF Owing
  <2>. QED
    BY <1>1, <2>1 DEF TakenUp
<1>5. Allowed("in_progress", "completed") /\ \A s \in Open : Allowed(s, "failed")
  BY DEF Allowed, Moves, Open, Ended
<1>. QED
  BY <1>3, <1>4, <1>5, AnnouncedBy

\* The safety half of HandoffHears: for any requests, stops and faults, an open handoff whose run
\* ended still has its report coming (index.ts, onSucceeded and onFailed), and the report will be
\* accepted, but for an outdated write, a report that a fault took, or an end that a member wrote
\* into the run (runs/routes.ts).
THEOREM ReportsAreComing == Spec => []ReportIsDue
<1>1. Spec => [](Strong /\ Moving /\ Made /\ Owing)
  <2>1. Init => Strong /\ Moving /\ Made /\ Owing
    BY StrongInit, LifeInit, OwingInit
  <2>2. Strong /\ Moving /\ Made /\ Owing /\ [Next]_vars => (Strong /\ Moving /\ Made /\ Owing)'
    BY StrongNext, MovingNext, MadeNext, OwingNext
  <2>. QED
    BY <2>1, <2>2, PTL DEF Spec
<1>. QED
  BY <1>1, OwingInit, ReportIsDueNext, PTL DEF Spec

\* Only a stop that cancels has a run to pass its end to.
Cancelling == \A s \in Stoppers : stop[s].current # None => stop[s].step = "cancelling"

LEMMA CancellingInit == Init => Cancelling
BY DEF Init, InitScene, Cancelling

LEMMA CancellingNext == Strong /\ Cancelling /\ [Next]_vars => Cancelling'
<1>. SUFFICES ASSUME Strong, Cancelling, [Next]_vars PROVE Cancelling'
  OBVIOUS
<1>0. stop \in [Stoppers -> StopRecord]
  BY DEF Strong, Inv, Typed
<1>1. ASSUME NEW s \in Stoppers, Walk(s) PROVE Cancelling'
  BY <1>0, <1>1 DEF Walk, Cancelling, StopRecord
<1>2. ASSUME NEW s \in Stoppers, NEW h \in Handoffs, CancelRow(s, h) PROVE Cancelling'
  BY <1>0, <1>2 DEF CancelRow, Cancelling, StopRecord
<1>3. ASSUME NEW s \in Stoppers, CancelRun(s) PROVE Cancelling'
  BY <1>0, <1>3 DEF CancelRun, Cancelling, StopRecord
<1>4. ASSUME NEW s \in Stoppers, EndStop(s) PROVE Cancelling'
  BY <1>0, <1>4 DEF EndStop, Cancelling, StopRecord
<1>5. ASSUME NEW s \in Stoppers, StopFails(s) PROVE Cancelling'
  BY <1>0, <1>5 DEF StopFails, Cancelling, StopRecord
<1>6. ASSUME NEW s \in Stoppers, NEW h \in Handoffs, BeginStop(s, h) PROVE Cancelling'
  BY <1>0, <1>6 DEF BeginStop, Cancelling
<1>7. CASE UNCHANGED stop
  BY <1>7 DEF Cancelling
<1>. QED
  BY <1>1, <1>2, <1>3, <1>4, <1>5, <1>6, <1>7
  DEF Next, vars, Threads, Creation, Attempt, Change, Stopping, AskRoot, AskBelow, Count,
      CreateRun, InsertRow, CreationFails, Ask, Write, Enter, Finish, ChangeFails, MoveRun, Claim,
      Hook, HookRefused, HookFails, Settle, Dropped, ProcessDies

\* Who ends a handoff.
LEMMA RowEnds ==
  ASSUME Strong, [Next]_vars, NEW h \in Handoffs,
         row'[h].status \in Ended, row[h].status \notin Ended
  PROVE  \/ \E t \in Threads : Write(t) /\ change[t].of = h /\ change[t].to \in Ended
         \/ \E s \in Stoppers : CancelRow(s, h)
<1>0. row \in [Handoffs -> RowRecord]
  BY DEF Strong, Inv, Typed
<1>1. ASSUME NEW g \in Handoffs, InsertRow(g) PROVE FALSE
  BY <1>0, <1>1 DEF InsertRow, Ended
<1>2. ASSUME NEW t \in Threads, Write(t) PROVE change[t].of = h /\ change[t].to \in Ended
  <2>1. row' = [row EXCEPT ![change[t].of].status = change[t].to]
    BY <1>2 DEF Write
  <2>. QED
    BY <1>0, <2>1 DEF RowRecord
<1>3. ASSUME NEW s \in Stoppers, NEW g \in Handoffs, CancelRow(s, g) PROVE g = h
  BY <1>0, <1>3 DEF CancelRow
<1>. QED
  BY <1>1, <1>2, <1>3
  DEF Next, vars, Threads, Creation, Attempt, Change, Stopping, AskRoot, AskBelow, Count,
      CreateRun, CreationFails, Ask, Enter, Finish, ChangeFails, MoveRun, Claim, Hook, HookRefused,
      HookFails, Settle, Dropped, ProcessDies, BeginStop, Walk, CancelRun, EndStop, StopFails

\* Who sets a run going; and a run that goes on going is not touched.
LEMMA RunStarts ==
  ASSUME Strong, Moving, [Next]_vars, NEW h \in Handoffs, run'[h].status = "running"
  PROVE  \/ run'[h] = run[h]
         \/ Claim(h)
         \/ \E t \in Threads : Enter(t) /\ change[t].of = h /\ run' # run
         \/ ~(moved'[h] \subseteq Terminal)
<1>0. run \in [Handoffs -> RunRecord]
  BY DEF Strong, Attempts, RunTyped
<1>1. ASSUME NEW g \in Handoffs, NEW s, s # "running", run' = Sent(g, s) PROVE run'[h] = run[h]
  BY <1>0, <1>1 DEF Sent, RunRecord
<1>2. ASSUME NEW g \in Handoffs, CreateRun(g) \/ (Claim(g) /\ g # h) PROVE run'[h] = run[h]
  BY <1>0, <1>2 DEF CreateRun, Claim, RunRecord
<1>3. ASSUME NEW g \in Handoffs, NEW ok \in BOOLEAN, Settle(g, ok) PROVE run'[h] = run[h]
  BY <1>0, <1>3 DEF Settle, RunRecord
<1>4. ASSUME NEW t \in Threads, Enter(t)
      PROVE  run'[h] = run[h] \/ (change[t].of = h /\ run' # run)
  <2>1. run' = run \/ run' = Sent(change[t].of, "running")
    BY <1>4 DEF Enter
  <2>. QED
    BY <1>0, <2>1 DEF Sent
<1>5. ASSUME NEW t \in Threads, Finish(t) PROVE run'[h] = run[h]
  <2>1. /\ change[t].of \in Handoffs /\ change[t].to \in Ended
        /\ run' = Sent(change[t].of, Outcome(change[t].to))
    BY <1>5 DEF Finish, Strong, Held
  <2>2. Outcome(change[t].to) # "running"
    BY <2>1 DEF Outcome, Ended
  <2>. QED
    BY <1>1, <2>1, <2>2
<1>6. ASSUME NEW s \in Stoppers, CancelRun(s) PROVE run'[h] = run[h]
  <2>1. stop[s].current \in Handoffs
    BY <1>6 DEF CancelRun, Strong, Inv, Typed, StopRecord
  <2>. QED
    BY <1>1, <1>6, <2>1 DEF CancelRun
<1>7. CASE UNCHANGED run
  BY <1>7
<1>8. ASSUME NEW t \in People, NEW g \in Handoffs, NEW s \in Statuses, MoveRun(t, g, s)
      PROVE  run'[h] = run[h] \/ ~(moved'[h] \subseteq Terminal)
  <2>1. CASE g = h /\ s = "running"
    BY <1>8, <2>1 DEF MoveRun, Strong, Others, Terminal
  <2>2. CASE g # h \/ s # "running"
    BY <1>0, <1>1, <1>8, <2>2 DEF MoveRun, Sent
  <2>. QED
    BY <2>1, <2>2
<1>. QED
  BY <1>2, <1>3, <1>4, <1>5, <1>6, <1>7, <1>8
  DEF Next, vars, Threads, Creation, Attempt, Change, Stopping, AskRoot, AskBelow, Count,
      InsertRow, CreationFails, Ask, Write, ChangeFails, Hook, HookRefused, HookFails,
      Dropped, ProcessDies, BeginStop, Walk, CancelRow, EndStop, StopFails

\* An end that somebody is passing on to a run that goes, is passed on, stays to be, or
\* falls to a fault.
LEMMA PassingOn ==
  ASSUME Strong, Moving, Owing, [Next]_vars, NEW h \in Handoffs, NEW t \in Threads,
         change[t].step \in WrittenDown, change[t].of = h, change[t].to \in Ended,
         run[h].status = "running", run'[h].status = "running", h \notin mishap'
  PROVE  change'[t].step \in WrittenDown /\ change'[t].of = h /\ change'[t].to \in Ended
<1>0. /\ change \in [Threads -> ChangeRecord] /\ run \in [Handoffs -> RunRecord]
      /\ Handoffs \subseteq Threads /\ People \cap Handoffs = {}
  BY NamesAssumption DEF Strong, Inv, Typed, Attempts, RunTyped, Threads
<1>1. CASE change'[t] = change[t]
  BY <1>1
<1>2. CASE Enter(t) /\ change'[t].step = "finishing" /\ change'[t].of = change[t].of
           /\ change'[t].to = change[t].to
  BY <1>2 DEF WrittenDown
<1>3. ~Write(t) /\ change[t].step # "idle"
  BY DEF Write, WrittenDown
<1>4. ~Finish(t)
  <2>1. ASSUME Finish(t) PROVE FALSE
    <3>1. Outcome(change[t].to) \in Terminal /\ Terminal \subseteq Transitions["running"]
      <4>1. Outcome(change[t].to) \in Terminal
        BY DEF Outcome, Ended, Terminal
      <4>2. \A s \in Terminal : s \in Transitions["running"]
        BY DEF Terminal, Transitions, Statuses, Waiting
      <4>. QED
        BY <4>1, <4>2
    <3>2. run' = Sent(h, Outcome(change[t].to))
      BY <2>1 DEF Finish
    <3>3. run'[h].status = Outcome(change[t].to)
      BY <1>0, <3>1, <3>2 DEF Sent, RunRecord
    <3>. QED
      BY <3>1, <3>3 DEF Terminal
  <2>. QED BY <2>1
<1>5. ~ChangeFails(t)
  BY DEF ChangeFails
<1>6. t \in Handoffs => ~HookFails(t) /\ ~ProcessDies(t)
  <2>1. ASSUME t \in Handoffs PROVE t = h /\ exec[h] \in {"succeeded", "failed"}
    BY <2>1, AnnouncedBy DEF Owing, Announcing, WrittenDown, UnderWay, Ended
  <2>2. ASSUME t \in Handoffs, HookFails(t) \/ ProcessDies(t) PROVE FALSE
    BY <2>1, <2>2 DEF HookFails, ProcessDies
  <2>. QED BY <2>2
<1>7. \/ change'[t] = change[t]
      \/ /\ Enter(t) /\ change'[t].step = "finishing"
         /\ change'[t].of = change[t].of /\ change'[t].to = change[t].to
  <2>1. ASSUME NEW u \in Threads, Done(u), u # t PROVE change'[t] = change[t]
    BY <1>0, <2>1 DEF Done
  <2>2. ASSUME NEW u \in Threads, Finish(u) \/ ChangeFails(u) PROVE change'[t] = change[t]
    BY <1>4, <1>5, <2>1, <2>2 DEF Finish, ChangeFails
  <2>3. ASSUME NEW g \in Handoffs, HookFails(g) \/ ProcessDies(g) PROVE change'[t] = change[t]
    BY <1>0, <1>6, <2>3 DEF HookFails, ProcessDies
  <2>4. ASSUME NEW u \in Threads, Enter(u)
        PROVE  \/ change'[t] = change[t]
               \/ /\ Enter(t) /\ change'[t].step = "finishing"
                  /\ change'[t].of = change[t].of /\ change'[t].to = change[t].to
    <3>1. CASE u = t
      <4>1. change' = [change EXCEPT ![t].step = "finishing"]
        BY <2>4, <3>1 DEF Enter
      <4>. QED
        BY <1>0, <2>4, <3>1, <4>1 DEF ChangeRecord
    <3>2. CASE u # t
      <4>1. change' = [change EXCEPT ![u].step = "finishing"] \/ Done(u)
        BY <2>4 DEF Enter
      <4>. QED
        BY <1>0, <2>1, <3>2, <4>1
    <3>. QED BY <3>1, <3>2
  <2>5. ASSUME NEW u \in Threads, Write(u) PROVE change'[t] = change[t]
    BY <1>0, <1>3, <2>5 DEF Write
  <2>6. ASSUME NEW u \in People, NEW g \in Handoffs, NEW to, Ask(u, g, to)
        PROVE  change'[t] = change[t]
    BY <1>0, <1>3, <2>6 DEF Ask, Reading, Idle
  <2>7. ASSUME NEW g \in Handoffs, Hook(g) PROVE change'[t] = change[t]
    BY <1>0, <1>3, <2>7 DEF Hook, Reading, Idle
  <2>8. CASE UNCHANGED change
    BY <2>8
  <2>9. ASSUME NEW u \in People, NEW g \in Handoffs, NEW s \in Statuses, MoveRun(u, g, s)
        PROVE  change'[t] = change[t]
    BY <1>0, <1>3, <2>9 DEF MoveRun, Idle
  <2>. QED
    BY <2>2, <2>3, <2>4, <2>5, <2>6, <2>7, <2>8, <2>9
    DEF Next, vars, Threads, Creation, Attempt, Change, Stopping, AskRoot, AskBelow, Count,
        CreateRun, InsertRow, CreationFails, Claim, HookRefused, Settle, Dropped, BeginStop,
        Walk, CancelRow, CancelRun, EndStop, StopFails
<1>. QED
  BY <1>1, <1>2, <1>7

\* The same for a stop.
LEMMA StoppingOn ==
  ASSUME Strong, Cancelling, [Next]_vars, NEW h \in Handoffs, NEW s \in Stoppers,
         stop[s].current = h,
         run[h].status = "running", run'[h].status = "running", h \notin mishap'
  PROVE  stop'[s].current = h
<1>0. /\ stop \in [Stoppers -> StopRecord] /\ run \in [Handoffs -> RunRecord]
      /\ h # None
  BY NamesAssumption DEF Strong, Inv, Typed, Attempts, RunTyped
<1>1. stop[s].step = "cancelling"
  BY <1>0 DEF Cancelling
<1>2. ~CancelRun(s)
  <2>1. ASSUME CancelRun(s) PROVE FALSE
    <3>1. run' = Sent(h, "cancelled") /\ "cancelled" \in Transitions["running"]
      BY <2>1 DEF CancelRun, Transitions, Statuses
    <3>2. run'[h].status = "cancelled"
      BY <1>0, <3>1 DEF Sent, RunRecord
    <3>. QED BY <3>2
  <2>. QED BY <2>1
<1>3. ~StopFails(s) /\ ~Walk(s) /\ ~EndStop(s)
      /\ \A g \in Handoffs : ~CancelRow(s, g) /\ ~BeginStop(s, g)
  BY <1>0, <1>1 DEF StopFails, Walk, EndStop, CancelRow, BeginStop
<1>4. stop'[s] = stop[s]
  <2>1. ASSUME NEW r \in Stoppers, r # s,
               \/ Walk(r) \/ EndStop(r) \/ CancelRun(r) \/ StopFails(r)
               \/ \E g \in Handoffs : CancelRow(r, g) \/ BeginStop(r, g)
        PROVE  stop'[s] = stop[s]
    BY <1>0, <2>1 DEF Walk, EndStop, CancelRun, StopFails, CancelRow, BeginStop
  <2>2. CASE UNCHANGED stop
    BY <2>2
  <2>. QED
    BY <1>2, <1>3, <2>1, <2>2
    DEF Next, vars, Threads, Creation, Attempt, Change, Stopping, AskRoot, AskBelow, Count,
        CreateRun, InsertRow, CreationFails, Ask, Write, Enter, Finish, ChangeFails, MoveRun, Claim,
        Hook, HookRefused, HookFails, Settle, Dropped, ProcessDies
<1>. QED
  BY <1>4

LEMMA EndIsPassedOnNext ==
  Strong /\ Moving /\ Made /\ Owing /\ Cancelling /\ EndIsPassedOn /\ [Next]_vars => EndIsPassedOn'
<1>. SUFFICES ASSUME Strong, Moving, Made, Owing, Cancelling, EndIsPassedOn, [Next]_vars,
                     NEW h \in Handoffs, row'[h].status \in Ended, run'[h].status = "running",
                     h \notin overtaken' \cup mishap' \cup dragged',
                     moved'[h] \subseteq Terminal
              PROVE  \/ run'[h].leased /\ exec'[h] \in {"starting", "working", "refused", "lost"}
                     \/ \E t \in People \cup Handoffs :
                          /\ change'[t].step \in {"entering", "finishing"}
                          /\ change'[t].of = h /\ change'[t].to \in Ended
                     \/ \E s \in Stoppers : stop'[s].current = h
  BY DEF EndIsPassedOn, Terminal
<1>0. /\ change \in [Threads -> ChangeRecord] /\ stop \in [Stoppers -> StopRecord]
      /\ run \in [Handoffs -> RunRecord] /\ LeaseWorked' /\ moved[h] \subseteq Terminal
  BY LeaseWorkedNext, MovedStays DEF Strong, Inv, Typed, Attempts, RunTyped, Owing
<1>1. CASE row[h].status \notin Ended
  <2>1. ASSUME NEW t \in Threads, Write(t), change[t].of = h, change[t].to \in Ended
        PROVE  /\ change'[t].step \in {"entering", "finishing"}
               /\ change'[t].of = h /\ change'[t].to \in Ended
    <3>1. change' = [change EXCEPT ![t].step = IF change[t].to = "cancelled" THEN "finishing"
                                               ELSE "entering"]
      BY <2>1 DEF Write
    <3>. QED
      BY <1>0, <2>1, <3>1 DEF ChangeRecord
  <2>2. ASSUME NEW s \in Stoppers, CancelRow(s, h) PROVE stop'[s].current = h
    BY <1>0, <2>2 DEF CancelRow, StopRecord
  <2>. QED
    BY <1>1, <2>1, <2>2, RowEnds DEF Threads
<1>2. CASE row[h].status \in Ended /\ Claim(h)
  BY <1>0, <1>2 DEF Claim, LeaseWorked, Attempting, RunRecord
<1>3. CASE row[h].status \in Ended /\ \E t \in Threads : Enter(t) /\ change[t].of = h /\ run' # run
  <2>1. PICK t \in Threads : Enter(t) /\ change[t].of = h /\ run' # run
    BY <1>3
  <2>2. change[t] \in ChangeRecord
    BY <1>0
  <2>3. change[t].to \in Ended
    BY <1>3, <2>1, <2>2 DEF Enter, ChangeRecord
  <2>4. change' = [change EXCEPT ![t].step = "finishing"]
    BY <2>1, <2>3 DEF Enter
  <2>5. change'[t].step = "finishing" /\ change'[t].of = h /\ change'[t].to \in Ended
    BY <1>0, <2>1, <2>2, <2>3, <2>4 DEF ChangeRecord
  <2>. QED
    BY <2>5 DEF Threads
<1>4. CASE row[h].status \in Ended /\ run'[h] = run[h]
  <2>1. h \notin overtaken \cup mishap \cup dragged /\ run[h].status = "running"
    <3>1. dragged \subseteq dragged'
      BY DEF Next, vars, Threads, Creation, Attempt, Change, Stopping, AskRoot, AskBelow, Count,
             CreateRun, InsertRow, CreationFails, Ask, Write, Enter, Finish, ChangeFails, MoveRun, Claim,
             Hook, HookRefused, HookFails, Settle, Dropped, ProcessDies, BeginStop, Walk,
             CancelRow, CancelRun, EndStop, StopFails
    <3>. QED
      BY <1>4, <3>1, RowsStay DEF Strong
  <2>2. CASE run[h].leased
    BY <1>0, <1>4, <2>2 DEF LeaseWorked, Attempting
  <2>3. CASE \E t \in Threads : /\ change[t].step \in {"entering", "finishing"}
                                /\ change[t].of = h /\ change[t].to \in Ended
    BY <2>1, <2>3, PassingOn DEF WrittenDown, Threads
  <2>4. CASE \E s \in Stoppers : stop[s].current = h
    BY <2>1, <2>4, StoppingOn
  <2>. QED
    BY <1>0, <1>4, <2>1, <2>2, <2>3, <2>4 DEF EndIsPassedOn, Threads
<1>. QED
  BY <1>1, <1>2, <1>3, <1>4, RunStarts

\* The safety half of RunsEnd: whoever ended a handoff and however many did, its run is not left
\* running without an attempt that works it or a request that is about to end it
\* (delegations.ts, transition and steer), but for an outdated write, a fault, a change that
\* moved the run after another had ended the handoff, or a member who wrote into the run that it
\* goes on or waits.
THEOREM EndsArePassedOn == Spec => []EndIsPassedOn
<1>1. Spec => [](Strong /\ Moving /\ Made /\ Owing /\ Cancelling)
  <2>1. Init => Strong /\ Moving /\ Made /\ Owing /\ Cancelling
    BY StrongInit, LifeInit, OwingInit, CancellingInit
  <2>2. Strong /\ Moving /\ Made /\ Owing /\ Cancelling /\ [Next]_vars
          => (Strong /\ Moving /\ Made /\ Owing /\ Cancelling)'
    BY StrongNext, MovingNext, MadeNext, OwingNext, CancellingNext
  <2>. QED
    BY <2>1, <2>2, PTL DEF Spec
<1>. QED
  BY <1>1, OwingInit, EndIsPassedOnNext, PTL DEF Spec
=============================================================================
