--------------------------- MODULE RoutinesProofs ---------------------------
(***************************************************************************)
(* An occurrence of a routine is worked once, a reservation without a run  *)
(* belongs to one dispatcher, and a routine that is on stays due, for any  *)
(* number of routines, processes, requests and changes, and whatever       *)
(* fails.                                                                  *)
(*                                                                         *)
(* The unique pair admits one dispatcher; that nobody else touches the row *)
(* until it lets go is what Held, Alone and Linked carry from step to      *)
(* step. First says that the run an executor worked off is the one that    *)
(* the row still names, or the row was withdrawn. Aware says that a change *)
(* that is about to leave a routine on has a next time for it.             *)
(*                                                                         *)
(* The last section follows an occurrence from the claim through the batch *)
(* and the hand of its dispatcher to the link of its run.                  *)
(***************************************************************************)
EXTENDS Routines, TLAPS

RoutineRecord == [status : Statuses, trigger : {"schedule", "webhook"},
                  next : 0..(MaxTime + 1)]
DispatchRecord == [there : BOOLEAN, run : Nat]
WorkRecord == [step : {"idle", "claiming", "dispatching", "over"} \cup Holding,
               now : 0..MaxTime, todo : SUBSET Occurrences,
               item : Occurrences \cup {Nothing}, run : Nat]
EditRecord == [step : {"idle", "writing", "over"},
               of : {<<r>> : r \in Names} \cup {Nothing}, seen : Statuses,
               asks : SUBSET Statuses, next : 0..(MaxTime + 1)]

Holds(d, o) == work[d].step \in Holding /\ work[d].item = o

\* What a dispatcher has in hand is reserved.
Held == \A d \in Dispatchers :
          work[d].step \in Holding => /\ work[d].item \in Occurrences
                                      /\ dispatch[work[d].item].there

\* Nobody else has it in hand.
Alone == \A d, e \in Dispatchers, o \in Occurrences : Holds(d, o) /\ Holds(e, o) => d = e

\* Its row names no run before the link, and one after it.
Linked == \A d \in Dispatchers :
            /\ work[d].step \in {"creating", "linking"} => dispatch[work[d].item].run = 0
            /\ work[d].step = "linking" => work[d].run # 0
            /\ work[d].step = "announcing" => dispatch[work[d].item].run # 0

\* A row that is not there names none either.
Empty == \A o \in Occurrences : ~dispatch[o].there => dispatch[o].run = 0

\* What was worked is what the row names, unless it was withdrawn.
First == \A e \in executed : /\ e[2] # 0
                             /\ dispatch[e[1]].run = e[2] \/ e[1] \in undone

\* A row without a run has a dispatcher, or lost it to a fault.
Owned == \A o \in Occurrences :
           dispatch[o].there /\ dispatch[o].run = 0
             => o \in abandoned \/ \E d \in Dispatchers : Holds(d, o)

Safe == Held /\ Alone /\ Linked /\ Empty /\ First /\ Owned

\* What is about to be written belongs to a routine.
Aimed == \A p \in People : edit[p].step = "writing" => edit[p].of[1] \in Names

Inv == TypeOK /\ Aimed /\ Safe

----------------------------------------------------------------------------
(* Typing *)

LEMMA RoutineTyped == TypeOK => routine \in [Names -> RoutineRecord]
BY DEF TypeOK, RoutineRecord

LEMMA WorkTyped == TypeOK => work \in [Dispatchers -> WorkRecord]
BY DEF TypeOK, WorkRecord

LEMMA Records ==
  /\ \A step \in {"idle", "claiming", "dispatching", "over"} :
       At(step) \in WorkRecord /\ At(step).step = step
  /\ NoEdit \in EditRecord /\ Edited \in EditRecord
  /\ Free \in DispatchRecord
<1>1. 0 \in 0..MaxTime /\ 0 \in 0..(MaxTime + 1)
  BY BoundsAssumption
<1>. QED
  BY <1>1 DEF At, WorkRecord, NoEdit, Edited, EditRecord, Free, DispatchRecord, Nothing,
              Never, Statuses

\* The step of a dispatcher, whatever else of its record changes.
LEMMA WorkStep ==
  ASSUME TypeOK, NEW d \in Dispatchers, NEW w \in WorkRecord,
         work' = [work EXCEPT ![d] = w]
  PROVE  work' \in [Dispatchers -> WorkRecord]
BY WorkTyped

LEMMA TypeInit == Init => TypeOK
<1>. SUFFICES ASSUME NEW scene \in Scenes, InitScene(scene)
              PROVE  TypeOK
  BY DEF Init
<1>1. MaxTime \in Nat /\ MaxFaults \in Nat
  BY BoundsAssumption
<1>2. scene.faults \in 0..MaxFaults
  BY ScenesAssumption
<1>3. NextAfter(0) \in 0..(MaxTime + 1)
  BY <1>1 DEF NextAfter
<1>4. routine \in [Names -> RoutineRecord]
  BY <1>1, <1>3 DEF InitScene, RoutineRecord, Statuses, Never
<1>5. work \in [Dispatchers -> WorkRecord]
  BY Records DEF InitScene
<1>6. edit \in [People -> EditRecord]
  BY Records DEF InitScene
<1>7. dispatch \in [Occurrences -> DispatchRecord]
  BY Records DEF InitScene
<1>8. clock \in 0..MaxTime /\ faults \in 0..MaxFaults
  BY <1>1, <1>2 DEF InitScene
<1>9. /\ made \in [Occurrences -> Nat] /\ executed \subseteq Occurrences \X Nat
      /\ claimed \cup lost \cup undone \cup abandoned \subseteq Occurrences
      /\ raced \subseteq Names
  BY DEF InitScene
<1>. QED
  BY <1>4, <1>5, <1>6, <1>7, <1>8, <1>9
     DEF TypeOK, RoutineRecord, WorkRecord, EditRecord, DispatchRecord

\* What a dispatcher turns to in each of its steps.
LEMMA WorkRecords ==
  ASSUME TypeOK, NEW d \in Dispatchers
  PROVE  /\ \A step \in {"idle", "claiming", "dispatching", "over"} \cup Holding :
              [work[d] EXCEPT !.step = step] \in WorkRecord
         /\ [At("claiming") EXCEPT !.now = clock] \in WorkRecord
         /\ \A items \in SUBSET Occurrences : [At("dispatching") EXCEPT !.todo = items] \in WorkRecord
         /\ \A o \in Occurrences : /\ [work[d] EXCEPT !.step = "creating", !.item = o] \in WorkRecord
                                   /\ [work[d] EXCEPT !.todo = LeftAfter(d, o)] \in WorkRecord
         /\ \A n \in Nat : [work[d] EXCEPT !.step = "linking", !.run = n] \in WorkRecord
<1>1. work[d] \in WorkRecord /\ clock \in 0..MaxTime
  BY WorkTyped DEF TypeOK
<1>2. 0 \in 0..MaxTime
  BY BoundsAssumption
<1>. QED
  BY <1>1, <1>2 DEF WorkRecord, At, Holding, LeftAfter, Nothing

LEMMA TypeTick ==
  ASSUME TypeOK, NEW s \in Schedulers, BeginTick(s) \/ Claim(s) \/ EndTick(s)
  PROVE  TypeOK'
<1>. s \in Dispatchers
  BY DEF Dispatchers
<1>1. CASE BeginTick(s)
  <2>1. work' \in [Dispatchers -> WorkRecord]
    BY <1>1, WorkTyped, WorkRecords DEF BeginTick
  <2>. QED
    BY <1>1, <2>1 DEF BeginTick, history, TypeOK, WorkRecord
<1>2. CASE Claim(s)
  <2>0. PICK limit \in Limits : \E S \in Batches(work[s].now, limit) :
          LET items == {<<r, routine[r].next>> : r \in S} IN
          /\ routine' = [r \in Names |-> IF r \notin S THEN routine[r]
                           ELSE [routine[r] EXCEPT !.next = NextAfter(work[s].now)]]
          /\ work' = [work EXCEPT ![s] = [At("dispatching") EXCEPT !.todo = items]]
          /\ claimed' = claimed \cup items
    BY <1>2 DEF Claim
  <2>1. PICK S \in Batches(work[s].now, limit) :
          LET items == {<<r, routine[r].next>> : r \in S} IN
          /\ routine' = [r \in Names |-> IF r \notin S THEN routine[r]
                           ELSE [routine[r] EXCEPT !.next = NextAfter(work[s].now)]]
          /\ work' = [work EXCEPT ![s] = [At("dispatching") EXCEPT !.todo = items]]
          /\ claimed' = claimed \cup items
    BY <2>0
  <2>. DEFINE items == {<<r, routine[r].next>> : r \in S}
  <2>2. work[s].now \in 0..MaxTime
    BY WorkTyped DEF WorkRecord
  <2>3. items \in SUBSET Occurrences
    <3>1. \A r \in S : r \in Names /\ routine[r].next <= work[s].now
      BY <2>1 DEF Batches, Due
    <3>2. \A r \in S : routine[r].next \in 0..MaxTime
      BY <2>2, <3>1, RoutineTyped, BoundsAssumption DEF RoutineRecord
    <3>. QED
      BY <3>1, <3>2 DEF Occurrences
  <2>4. routine' \in [Names -> RoutineRecord]
    <3>1. NextAfter(work[s].now) \in 0..(MaxTime + 1)
      BY <2>2, BoundsAssumption DEF NextAfter
    <3>2. \A r \in Names : routine[r] \in RoutineRecord
      BY RoutineTyped
    <3>3. \A r \in Names : [routine[r] EXCEPT !.next = NextAfter(work[s].now)] \in RoutineRecord
      BY <3>1, <3>2 DEF RoutineRecord
    <3>. QED
      BY <2>1, <3>2, <3>3
  <2>5. work' \in [Dispatchers -> WorkRecord]
    <3>1. [At("dispatching") EXCEPT !.todo = items] \in WorkRecord
      BY <2>3, WorkRecords
    <3>2. work' = [work EXCEPT ![s] = [At("dispatching") EXCEPT !.todo = items]]
      BY <2>1
    <3>. QED
      BY <3>1, <3>2, WorkTyped
  <2>6. claimed' \subseteq Occurrences
    BY <2>1, <2>3 DEF TypeOK
  <2>. QED
    BY <1>2, <2>4, <2>5, <2>6 DEF Claim, TypeOK, RoutineRecord, WorkRecord
<1>3. CASE EndTick(s)
  <2>1. work' \in [Dispatchers -> WorkRecord]
    BY <1>3, WorkTyped, Records DEF EndTick
  <2>. QED
    BY <1>3, <2>1 DEF EndTick, history, TypeOK, WorkRecord
<1>. QED
  BY <1>1, <1>2, <1>3

LEMMA TypeRequest ==
  ASSUME TypeOK, NEW q \in Requests, (\E r \in Names : Ask(q, r)) \/ EndRequest(q)
  PROVE  TypeOK'
<1>. q \in Dispatchers
  BY DEF Dispatchers
<1>1. work' \in [Dispatchers -> WorkRecord]
  <2>1. CASE \E r \in Names : Ask(q, r)
    <3>1. PICK r \in Names : Ask(q, r)
      BY <2>1
    <3>2. {<<r, clock>>} \in SUBSET Occurrences
      BY DEF TypeOK, Occurrences
    <3>3. [At("dispatching") EXCEPT !.todo = {<<r, clock>>}] \in WorkRecord
      BY <3>2, WorkRecords
    <3>. QED
      BY <3>1, <3>3, WorkTyped DEF Ask
  <2>2. CASE EndRequest(q)
    BY <2>2, WorkTyped, Records DEF EndRequest
  <2>. QED
    BY <2>1, <2>2
<1>. QED
  BY <1>1 DEF Ask, EndRequest, history, TypeOK, WorkRecord

LEMMA GotoTyped ==
  ASSUME TypeOK, NEW d \in Dispatchers, NEW step \in Holding, Goto(d, step)
  PROVE  work' \in [Dispatchers -> WorkRecord]
<1>1. work' = [work EXCEPT ![d] = [work[d] EXCEPT !.step = step]]
  BY DEF Goto
<1>2. [work[d] EXCEPT !.step = step] \in WorkRecord
  BY WorkRecords
<1>. QED
  BY <1>1, <1>2, WorkTyped

LEMMA GiveUpTyped ==
  ASSUME TypeOK, NEW d \in Dispatchers, NEW rows, GiveUp(d, rows)
  PROVE  work' \in [Dispatchers -> WorkRecord] /\ lost' \subseteq Occurrences
<1>1. PICK step \in {"idle", "over"} : work' = [work EXCEPT ![d] = At(step)]
  BY DEF GiveUp
<1>2. work[d].todo \subseteq Occurrences
  BY WorkTyped DEF WorkRecord
<1>. QED
  BY <1>1, <1>2, Records, WorkTyped DEF GiveUp, TypeOK

\* The item of a dispatcher, which is an occurrence while it holds one.
LEMMA TypeDispatch ==
  ASSUME TypeOK, NEW d \in Dispatchers, Dispatching(d),
         work[d].step \in Holding => work[d].item \in Occurrences
  PROVE  TypeOK'
<1>d. dispatch \in [Occurrences -> DispatchRecord]
  BY DEF TypeOK, DispatchRecord
<1>1. ASSUME NEW o \in Occurrences, Reserve(d, o)
      PROVE  TypeOK'
  <2>1. dispatch' \in [Occurrences -> DispatchRecord]
    BY <1>1, <1>d DEF Reserve, DispatchRecord
  <2>2. work' \in [Dispatchers -> WorkRecord]
    BY <1>1, WorkTyped, WorkRecords DEF Reserve
  <2>. QED
    BY <1>1, <2>1, <2>2 DEF Reserve, history, TypeOK, DispatchRecord, WorkRecord
<1>2. ASSUME NEW o \in Occurrences, Reserved(d, o)
      PROVE  TypeOK'
  <2>1. work' \in [Dispatchers -> WorkRecord]
    BY <1>2, WorkTyped, WorkRecords DEF Reserved
  <2>. QED
    BY <1>2, <2>1 DEF Reserved, history, TypeOK, WorkRecord
<1>3. CASE CreateRun(d)
  <2>1. work[d].item \in Occurrences
    BY <1>3 DEF CreateRun, Holding
  <2>2. made[work[d].item] + 1 \in Nat
    BY <2>1 DEF TypeOK
  <2>3. made' \in [Occurrences -> Nat]
    BY <1>3, <2>1, <2>2 DEF CreateRun, TypeOK
  <2>4. work' \in [Dispatchers -> WorkRecord]
    <3>1. work' = [work EXCEPT ![d] = [work[d] EXCEPT !.step = "linking",
                                                       !.run = made[work[d].item] + 1]]
      BY <1>3 DEF CreateRun
    <3>2. [work[d] EXCEPT !.step = "linking", !.run = made[work[d].item] + 1] \in WorkRecord
      BY <2>2, WorkRecords
    <3>. QED
      BY <3>1, <3>2, WorkTyped
  <2>. QED
    BY <1>3, <2>3, <2>4 DEF CreateRun, history, TypeOK, WorkRecord
<1>4. CASE LinkRun(d)
  <2>1. work[d].item \in Occurrences /\ work[d].run \in Nat
    BY <1>4, WorkTyped DEF LinkRun, Holding, WorkRecord
  <2>2. dispatch' \in [Occurrences -> DispatchRecord]
    BY <1>4, <1>d, <2>1 DEF LinkRun, DispatchRecord
  <2>3. work' \in [Dispatchers -> WorkRecord]
    BY <1>4, GotoTyped DEF LinkRun, Holding
  <2>. QED
    BY <1>4, <2>2, <2>3 DEF LinkRun, history, TypeOK, DispatchRecord, WorkRecord
<1>5. CASE Announce(d)
  <2>1. LeftAfter(d, work[d].item) \in SUBSET Occurrences
    BY WorkTyped DEF LeftAfter, WorkRecord
  <2>2. work' \in [Dispatchers -> WorkRecord]
    BY <1>5, <2>1, WorkTyped, WorkRecords DEF Announce
  <2>. QED
    BY <1>5, <2>2 DEF Announce, history, TypeOK, WorkRecord
<1>6. CASE Undo(d)
  <2>1. work[d].item \in Occurrences
    BY <1>6 DEF Undo, Holding
  <2>2. dispatch' \in [Occurrences -> DispatchRecord]
    BY <1>6, <1>d, Records DEF Undo, Withdrawn
  <2>3. work' \in [Dispatchers -> WorkRecord] /\ lost' \subseteq Occurrences
    BY <1>6, GiveUpTyped DEF Undo
  <2>. QED
    BY <1>6, <2>1, <2>2, <2>3 DEF Undo, TypeOK, DispatchRecord, WorkRecord
<1>. QED
  BY <1>1, <1>2, <1>3, <1>4, <1>5, <1>6 DEF Dispatching

LEMMA TypeFault ==
  ASSUME TypeOK, NEW d \in Dispatchers, DispatchFails(d) \/ Breaks(d),
         work[d].step \in Holding => work[d].item \in Occurrences
  PROVE  TypeOK'
<1>1. faults' \in 0..MaxFaults
  BY BoundsAssumption DEF DispatchFails, Breaks, Fault, TypeOK
<1>2. CASE DispatchFails(d)
  <2>1. work' \in [Dispatchers -> WorkRecord]
    BY <1>2, GotoTyped DEF DispatchFails, Holding
  <2>. QED
    BY <1>1, <1>2, <2>1 DEF DispatchFails, TypeOK, WorkRecord
<1>3. CASE Breaks(d)
  <2>1. work' \in [Dispatchers -> WorkRecord] /\ lost' \subseteq Occurrences
    BY <1>3, GiveUpTyped DEF Breaks
  <2>2. abandoned' \subseteq Occurrences
    BY <1>3 DEF Breaks, TypeOK
  <2>. QED
    BY <1>1, <1>3, <2>1, <2>2 DEF Breaks, TypeOK, WorkRecord
<1>. QED
  BY <1>2, <1>3

LEMMA TypeExecute ==
  ASSUME TypeOK, NEW o \in Occurrences, Execute(o)
  PROVE  TypeOK'
BY DEF Execute, history, TypeOK

LEMMA TypePass == TypeOK /\ Pass => TypeOK'
<1>. SUFFICES ASSUME TypeOK, Pass
              PROVE  TypeOK'
  OBVIOUS
<1>1. clock' \in 0..MaxTime
  BY BoundsAssumption DEF Pass, TypeOK
<1>. QED
  BY <1>1 DEF Pass, history, TypeOK

LEMMA TypeEdit ==
  ASSUME TypeOK, Aimed, NEW p \in People,
         Write(p) \/ \E r \in Names, asks \in {{}} \cup {{s} : s \in Statuses} : Read(p, r, asks)
  PROVE  TypeOK' /\ Aimed'
<1>e. edit \in [People -> EditRecord]
  BY DEF TypeOK, EditRecord
<1>1. CASE Write(p)
  <2>. DEFINE r == edit[p].of[1]
              new == [routine[r] EXCEPT !.status = Status(routine[r].status, edit[p].asks),
                                        !.next = edit[p].next]
  <2>1. edit' \in [People -> EditRecord]
    BY <1>1, <1>e, Records DEF Write
  <2>2. routine' = [routine EXCEPT ![r] = new]
    BY <1>1 DEF Write
  <2>3. r \in Names
    BY <1>1 DEF Write, Aimed
  <2>4. routine[r] \in RoutineRecord /\ edit[p] \in EditRecord
    BY <1>e, <2>3, RoutineTyped
  <2>5. new \in RoutineRecord
    <3>1. Status(routine[r].status, edit[p].asks) \in Statuses
      BY <2>4 DEF Status, RoutineRecord, EditRecord
    <3>. QED
      BY <2>4, <3>1 DEF RoutineRecord, EditRecord
  <2>6. routine' \in [Names -> RoutineRecord]
    <3>. HIDE DEF new
    <3>. QED
      BY <2>2, <2>3, <2>5, RoutineTyped
  <2>7. raced' \subseteq Names
    BY <1>1, <2>3 DEF Write, TypeOK
  <2>8. Aimed'
    BY <1>1, <1>e DEF Write, Aimed, Edited, NoEdit
  <2>. QED
    BY <1>1, <2>1, <2>6, <2>7, <2>8 DEF Write, TypeOK, RoutineRecord, EditRecord
<1>2. ASSUME NEW r \in Names, NEW asks \in {{}} \cup {{s} : s \in Statuses}, Read(p, r, asks)
      PROVE  TypeOK' /\ Aimed'
  <2>. DEFINE n == IF OnAfter(routine[r].status, asks) /\ routine[r].trigger = "schedule"
                   THEN NextAfter(clock) ELSE Never
              new == [step |-> "writing", of |-> <<r>>, seen |-> routine[r].status,
                      asks |-> asks, next |-> n]
  <2>1. n \in 0..(MaxTime + 1)
    BY BoundsAssumption DEF TypeOK, NextAfter, Never
  <2>2. routine[r].status \in Statuses
    BY RoutineTyped DEF RoutineRecord
  <2>3. new \in EditRecord
    <3>. HIDE DEF n
    <3>. QED
      BY <2>1, <2>2 DEF EditRecord
  <2>4. edit' = [edit EXCEPT ![p] = new]
    BY <1>2 DEF Read
  <2>5. edit' \in [People -> EditRecord]
    BY <1>e, <2>3, <2>4
  <2>6. Aimed'
    <3>1. new.step = "writing" /\ new.of[1] = r
      OBVIOUS
    <3>. HIDE DEF new
    <3>. QED
      BY <1>e, <2>4, <3>1 DEF Aimed
  <2>. QED
    BY <1>2, <2>5, <2>6 DEF Read, history, TypeOK, EditRecord
<1>. QED
  BY <1>1, <1>2

----------------------------------------------------------------------------
(* Safe *)

LEMMA SafeInit == Init => Safe /\ Aimed
<1>. SUFFICES ASSUME NEW scene \in Scenes, InitScene(scene)
              PROVE  Safe /\ Aimed
  BY DEF Init
<1>1. \A d \in Dispatchers : work[d].step \in {"idle", "over"}
  BY Records DEF InitScene
<1>2. \A o \in Occurrences : ~dispatch[o].there /\ dispatch[o].run = 0
  BY DEF InitScene, Free
<1>3. executed = {}
  BY DEF InitScene
<1>4. Aimed
  BY DEF InitScene, NoEdit, Edited, Aimed
<1>. QED
  BY <1>1, <1>2, <1>3, <1>4
     DEF Safe, Held, Alone, Linked, Empty, First, Owned, Holds, Holding

LEMMA SafeStutter == Safe /\ UNCHANGED <<dispatch, work, executed, undone, abandoned>> => Safe'
BY DEF Safe, Held, Alone, Linked, Empty, First, Owned, Holds

\* A dispatcher with nothing in hand does something else.
LEMMA SafeAway ==
  ASSUME TypeOK, Safe, NEW d \in Dispatchers, NEW w \in WorkRecord,
         work[d].step \notin Holding, w.step \notin Holding,
         work' = [work EXCEPT ![d] = w],
         UNCHANGED <<dispatch, executed, undone, abandoned>>
  PROVE  Safe'
<1>1. \A e \in Dispatchers : work'[e] = IF e = d THEN w ELSE work[e]
  BY WorkTyped
<1>2. \A e \in Dispatchers, o \in Occurrences : Holds(e, o)' <=> Holds(e, o)
  BY <1>1 DEF Holds
<1>3. Held' /\ Linked'
  BY <1>1 DEF Safe, Held, Linked, Holding
<1>. QED
  BY <1>2, <1>3 DEF Safe, Alone, Empty, First, Owned

\* One that lets go of its item, and leaves the row behind.
LEMMA SafeLeft ==
  ASSUME TypeOK, Safe, NEW d \in Dispatchers, NEW w \in WorkRecord,
         w.step \notin Holding,
         work' = [work EXCEPT ![d] = w],
         work[d].step \in Holding => \/ dispatch[work[d].item].run # 0
                                     \/ work[d].item \in abandoned',
         abandoned \subseteq abandoned',
         UNCHANGED <<dispatch, executed, undone>>
  PROVE  Safe'
<1>1. \A e \in Dispatchers : work'[e] = IF e = d THEN w ELSE work[e]
  BY WorkTyped
<1>2. \A e \in Dispatchers, o \in Occurrences : Holds(e, o)' <=> e # d /\ Holds(e, o)
  BY <1>1 DEF Holds
<1>3. Held' /\ Linked'
  BY <1>1 DEF Safe, Held, Linked, Holding
<1>4. ASSUME NEW o \in Occurrences, dispatch[o].there, dispatch[o].run = 0
      PROVE  o \in abandoned' \/ \E e \in Dispatchers : Holds(e, o)'
  <2>1. CASE Holds(d, o)
    BY <1>4, <2>1 DEF Holds
  <2>2. CASE ~Holds(d, o)
    BY <1>2, <1>4, <2>2 DEF Safe, Owned
  <2>. QED
    BY <2>1, <2>2
<1>5. Alone'
  BY <1>2 DEF Safe, Alone
<1>6. Owned'
  BY <1>4 DEF Owned
<1>. QED
  BY <1>3, <1>5, <1>6 DEF Safe, Empty, First

\* One that goes on with the item it has.
LEMMA SafeKept ==
  ASSUME TypeOK, Safe, NEW d \in Dispatchers, NEW w \in WorkRecord,
         work[d].step \in Holding, w.step \in Holding, w.item = work[d].item,
         w.step = "creating" => work[d].step = "creating",
         w.step = "linking" => work[d].step = "creating" /\ w.run # 0,
         w.step = "announcing" => work[d].step = "announcing",
         work' = [work EXCEPT ![d] = w],
         UNCHANGED <<dispatch, executed, undone, abandoned>>
  PROVE  Safe'
<1>1. \A e \in Dispatchers : work'[e] = IF e = d THEN w ELSE work[e]
  BY WorkTyped
<1>2. \A e \in Dispatchers, o \in Occurrences : Holds(e, o)' <=> Holds(e, o)
  BY <1>1 DEF Holds
<1>3. Held'
  BY <1>1 DEF Safe, Held
<1>4. Linked'
  BY <1>1 DEF Safe, Linked
<1>. QED
  BY <1>2, <1>3, <1>4 DEF Safe, Alone, Empty, First, Owned

LEMMA SafeReserve ==
  ASSUME TypeOK, Safe, NEW d \in Dispatchers, NEW o \in Occurrences, Reserve(d, o)
  PROVE  Safe'
<1>. DEFINE w == [work[d] EXCEPT !.step = "creating", !.item = o]
<1>1. w \in WorkRecord /\ w.step = "creating" /\ w.item = o
  BY WorkRecords, WorkTyped DEF WorkRecord
<1>2. /\ work' = [work EXCEPT ![d] = w]
      /\ dispatch' = [dispatch EXCEPT ![o] = [there |-> TRUE, run |-> 0]]
      /\ UNCHANGED <<executed, undone, abandoned>>
      /\ ~dispatch[o].there /\ work[d].step = "dispatching"
  BY DEF Reserve, Taken, history
<1>. HIDE DEF w
<1>3. \A e \in Dispatchers : work'[e] = IF e = d THEN w ELSE work[e]
  BY <1>1, <1>2, WorkTyped
<1>4. /\ dispatch'[o].there /\ dispatch'[o].run = 0 /\ dispatch[o].run = 0
      /\ \A p \in Occurrences : p # o => dispatch'[p] = dispatch[p]
  BY <1>2 DEF TypeOK, Safe, Empty
<1>5. \A e \in Dispatchers : ~Holds(e, o)
  BY <1>2 DEF Safe, Held, Holds
<1>6. \A e \in Dispatchers, p \in Occurrences :
        Holds(e, p)' <=> IF e = d THEN p = o ELSE Holds(e, p)
  BY <1>1, <1>3 DEF Holds, Holding
<1>7. Held'
  BY <1>1, <1>3, <1>4 DEF Safe, Held
<1>8. Alone'
  BY <1>5, <1>6 DEF Safe, Alone
<1>9. Linked'
  BY <1>1, <1>3, <1>4 DEF Safe, Held, Linked, Holding
<1>10. Empty'
  BY <1>4 DEF Safe, Empty
<1>11. First'
  <2>1. ASSUME NEW e \in executed
        PROVE  e[2] # 0 /\ (dispatch'[e[1]].run = e[2] \/ e[1] \in undone)
    <3>1. e[1] \in Occurrences
      BY DEF TypeOK
    <3>2. e[2] # 0 /\ (dispatch[e[1]].run = e[2] \/ e[1] \in undone)
      BY DEF Safe, First
    <3>. QED
      BY <1>4, <3>1, <3>2
  <2>. QED
    BY <1>2, <2>1 DEF First
<1>12. Owned'
  <2>1. \A p \in Occurrences : ~Holds(d, p)
    BY <1>2 DEF Holds, Holding
  <2>2. Holds(d, o)'
    BY <1>6
  <2>3. ASSUME NEW p \in Occurrences, p # o, dispatch'[p].there, dispatch'[p].run = 0
        PROVE  p \in abandoned \/ \E e \in Dispatchers : Holds(e, p)'
    BY <1>4, <1>6, <2>1, <2>3 DEF Safe, Owned
  <2>. QED
    BY <1>2, <2>2, <2>3 DEF Owned
<1>. QED
  BY <1>7, <1>8, <1>9, <1>10, <1>11, <1>12 DEF Safe

LEMMA SafeLink ==
  ASSUME TypeOK, Safe, NEW d \in Dispatchers, LinkRun(d)
  PROVE  Safe'
<1>. DEFINE o == work[d].item
            w == [work[d] EXCEPT !.step = "announcing"]
            n == work[d].run
<1>1. /\ w \in WorkRecord /\ w.step = "announcing" /\ w.item = o
      /\ o \in Occurrences /\ dispatch[o].there /\ dispatch[o].run = 0 /\ n # 0
      /\ Holds(d, o)
  <2>1. work[d].step = "linking"
    BY DEF LinkRun
  <2>2. w \in WorkRecord
    BY WorkRecords DEF Holding
  <2>3. w.step = "announcing" /\ w.item = o
    BY WorkTyped DEF WorkRecord
  <2>. QED
    BY <2>1, <2>2, <2>3 DEF Safe, Held, Linked, Holds, Holding
<1>2. /\ work' = [work EXCEPT ![d] = w]
      /\ dispatch' = [dispatch EXCEPT ![o].run = n]
      /\ UNCHANGED <<executed, undone, abandoned>>
  BY DEF LinkRun, Goto, history
<1>3. /\ dispatch'[o].there /\ dispatch'[o].run = n
      /\ \A p \in Occurrences : p # o => dispatch'[p] = dispatch[p]
  BY <1>1, <1>2 DEF TypeOK
<1>. HIDE DEF w, o, n
<1>4. \A e \in Dispatchers : work'[e] = IF e = d THEN w ELSE work[e]
  BY <1>1, <1>2, WorkTyped
<1>5. \A e \in Dispatchers, p \in Occurrences : Holds(e, p)' <=> Holds(e, p)
  BY <1>1, <1>4 DEF Holds, Holding
<1>6. Held'
  BY <1>1, <1>3, <1>4 DEF Safe, Held
<1>7. Linked'
  <2>1. ASSUME NEW e \in Dispatchers, e # d, work[e].step \in Holding
        PROVE  work[e].item \in Occurrences /\ work[e].item # o
    BY <1>1, <2>1 DEF Safe, Held, Alone, Holds, Holding
  <2>2. \A e \in Dispatchers : e # d /\ work[e].step \in Holding =>
          work'[e] = work[e] /\ dispatch'[work[e].item] = dispatch[work[e].item]
    BY <1>3, <1>4, <2>1
  <2>3. work'[d] = w /\ dispatch'[w.item].run # 0
    BY <1>1, <1>3, <1>4
  <2>. QED
    BY <1>1, <1>4, <2>2, <2>3 DEF Safe, Linked, Holding
<1>8. First'
  <2>1. ASSUME NEW e \in executed
        PROVE  e[2] # 0 /\ (dispatch'[e[1]].run = e[2] \/ e[1] \in undone)
    <3>1. e[1] \in Occurrences
      BY DEF TypeOK
    <3>2. e[2] # 0 /\ (dispatch[e[1]].run = e[2] \/ e[1] \in undone)
      BY DEF Safe, First
    <3>. QED
      BY <1>1, <1>3, <3>1, <3>2
  <2>. QED
    BY <1>2, <2>1 DEF First
<1>9. Alone' /\ Empty' /\ Owned'
  <2>1. Alone'
    BY <1>5 DEF Safe, Alone
  <2>2. Empty'
    BY <1>3 DEF Safe, Empty
  <2>3. Owned'
    BY <1>1, <1>2, <1>3, <1>5 DEF Safe, Owned
  <2>. QED
    BY <2>1, <2>2, <2>3
<1>. QED
  BY <1>6, <1>7, <1>8, <1>9 DEF Safe

LEMMA SafeUndo ==
  ASSUME TypeOK, Safe, NEW d \in Dispatchers, Undo(d)
  PROVE  Safe'
<1>. DEFINE o == work[d].item
<1>1. PICK step \in {"idle", "over"} : work' = [work EXCEPT ![d] = At(step)]
  BY DEF Undo, GiveUp
<1>2. /\ o \in Occurrences /\ Holds(d, o)
      /\ dispatch' = [dispatch EXCEPT ![o] = Free]
      /\ undone' = undone \cup {o}
      /\ UNCHANGED <<executed, abandoned>>
  BY DEF Undo, Withdrawn, Safe, Held, Holds, Holding
<1>. HIDE DEF o
<1>3. /\ ~dispatch'[o].there /\ dispatch'[o].run = 0
      /\ \A p \in Occurrences : p # o => dispatch'[p] = dispatch[p]
  BY <1>2 DEF TypeOK, Free
<1>4. \A e \in Dispatchers : work'[e] = IF e = d THEN At(step) ELSE work[e]
  BY <1>1, WorkTyped
<1>5. At(step).step \notin Holding
  BY Records DEF Holding
<1>6. \A e \in Dispatchers, p \in Occurrences : Holds(e, p)' <=> e # d /\ Holds(e, p)
  BY <1>4, <1>5 DEF Holds
<1>7. \A e \in Dispatchers : e # d => ~Holds(e, o)
  BY <1>2 DEF Safe, Alone
<1>8. Held' /\ Linked'
  <2>1. ASSUME NEW e \in Dispatchers, work'[e].step \in Holding
        PROVE  /\ work'[e] = work[e] /\ work[e].item \in Occurrences
               /\ dispatch'[work[e].item] = dispatch[work[e].item]
    <3>1. e # d /\ work'[e] = work[e]
      BY <1>4, <1>5, <2>1
    <3>2. work[e].item \in Occurrences /\ work[e].item # o
      BY <1>7, <2>1, <3>1 DEF Safe, Held, Holds
    <3>. QED
      BY <1>3, <3>1, <3>2
  <2>2. Held'
    BY <2>1 DEF Safe, Held
  <2>3. Linked'
    BY <2>1 DEF Safe, Linked, Holding
  <2>. QED
    BY <2>2, <2>3
<1>9. First'
  <2>1. ASSUME NEW e \in executed
        PROVE  e[2] # 0 /\ (dispatch'[e[1]].run = e[2] \/ e[1] \in undone')
    <3>1. e[1] \in Occurrences
      BY DEF TypeOK
    <3>2. e[2] # 0 /\ (dispatch[e[1]].run = e[2] \/ e[1] \in undone)
      BY DEF Safe, First
    <3>. QED
      BY <1>2, <1>3, <3>1, <3>2
  <2>. QED
    BY <1>2, <2>1 DEF First
<1>10. Alone' /\ Empty' /\ Owned'
  <2>1. Alone'
    BY <1>6 DEF Safe, Alone
  <2>2. Empty'
    BY <1>3 DEF Safe, Empty
  <2>3. ASSUME NEW p \in Occurrences, dispatch'[p].there, dispatch'[p].run = 0
        PROVE  p \in abandoned \/ \E e \in Dispatchers : Holds(e, p)'
    <3>1. p # o /\ dispatch[p].there /\ dispatch[p].run = 0
      BY <1>3, <2>3
    <3>2. ~Holds(d, p)
      BY <1>2, <3>1 DEF Holds
    <3>. QED
      BY <1>6, <3>1, <3>2 DEF Safe, Owned
  <2>4. Owned'
    BY <1>2, <2>3 DEF Owned
  <2>. QED
    BY <2>1, <2>2, <2>4
<1>. QED
  BY <1>8, <1>9, <1>10 DEF Safe

LEMMA SafeExecute ==
  ASSUME TypeOK, Safe, NEW o \in Occurrences, Execute(o)
  PROVE  Safe'
<1>1. /\ executed' = executed \cup {<<o, dispatch[o].run>>} /\ dispatch[o].run # 0
      /\ UNCHANGED <<dispatch, work, undone, abandoned>>
  BY DEF Execute, history
<1>2. First'
  BY <1>1 DEF Safe, First
<1>. QED
  BY <1>1, <1>2 DEF Safe, Held, Alone, Linked, Empty, Owned, Holds

----------------------------------------------------------------------------
LEMMA InvDispatch ==
  ASSUME Inv, NEW d \in Dispatchers, Dispatching(d)
  PROVE  Inv'
<1>1. TypeOK'
  BY TypeDispatch DEF Inv, Safe, Held
<1>2. Aimed'
  BY DEF Inv, Aimed, Dispatching, Reserve, Reserved, CreateRun, LinkRun, Announce, Undo
<1>3. ASSUME NEW o \in Occurrences, Reserve(d, o)
      PROVE  Safe'
  BY <1>3, SafeReserve DEF Inv
<1>4. ASSUME NEW o \in Occurrences, Reserved(d, o)
      PROVE  Safe'
  <2>. DEFINE w == [work[d] EXCEPT !.todo = LeftAfter(d, o)]
  <2>1. w \in WorkRecord /\ w.step = work[d].step
    BY WorkRecords, WorkTyped DEF Inv, WorkRecord
  <2>2. work' = [work EXCEPT ![d] = w] /\ UNCHANGED <<dispatch, executed, undone, abandoned>>
    BY <1>4 DEF Reserved, history
  <2>3. work[d].step \notin Holding
    BY <1>4 DEF Reserved, Holding
  <2>. HIDE DEF w
  <2>. QED
    BY <2>1, <2>2, <2>3, SafeAway DEF Inv
<1>5. ASSUME CreateRun(d)
      PROVE  Safe'
  <2>. DEFINE n == made[work[d].item] + 1
              w == [work[d] EXCEPT !.step = "linking", !.run = n]
  <2>1. work[d].step = "creating"
    BY <1>5 DEF CreateRun
  <2>2. made[work[d].item] \in Nat
    BY <2>1 DEF Inv, TypeOK, Safe, Held, Holding
  <2>3. n \in Nat /\ n # 0
    BY <2>2
  <2>4. work' = [work EXCEPT ![d] = w] /\ UNCHANGED <<dispatch, executed, undone, abandoned>>
    BY <1>5 DEF CreateRun, history
  <2>. HIDE DEF n
  <2>5. w \in WorkRecord
    BY <2>3, WorkRecords DEF Inv
  <2>6. w.step = "linking" /\ w.item = work[d].item /\ w.run = n
    BY WorkTyped DEF Inv, WorkRecord
  <2>. HIDE DEF w
  <2>7. work[d].step \in Holding /\ w.step \in Holding
    BY <2>1, <2>6 DEF Holding
  <2>. QED
    BY <2>1, <2>3, <2>4, <2>5, <2>6, <2>7, SafeKept DEF Inv
<1>6. ASSUME LinkRun(d)
      PROVE  Safe'
  BY <1>6, SafeLink DEF Inv
<1>7. ASSUME Announce(d)
      PROVE  Safe'
  <2>. DEFINE w == [At("dispatching") EXCEPT !.todo = LeftAfter(d, work[d].item)]
  <2>1. LeftAfter(d, work[d].item) \in SUBSET Occurrences
    BY WorkTyped DEF Inv, LeftAfter, WorkRecord
  <2>2. w \in WorkRecord
    BY <2>1, WorkRecords DEF Inv
  <2>3. w.step \notin Holding
    BY DEF At, Holding
  <2>4. work' = [work EXCEPT ![d] = w] /\ UNCHANGED <<dispatch, executed, undone, abandoned>>
    BY <1>7 DEF Announce, history
  <2>5. dispatch[work[d].item].run # 0
    BY <1>7 DEF Announce, Inv, Safe, Linked
  <2>. HIDE DEF w
  <2>. QED
    BY <2>2, <2>3, <2>4, <2>5, SafeLeft DEF Inv
<1>8. ASSUME Undo(d)
      PROVE  Safe'
  BY <1>8, SafeUndo DEF Inv
<1>. QED
  BY <1>1, <1>2, <1>3, <1>4, <1>5, <1>6, <1>7, <1>8 DEF Inv, Dispatching

LEMMA InvFault ==
  ASSUME Inv, NEW d \in Dispatchers, DispatchFails(d) \/ Breaks(d)
  PROVE  Inv'
<1>1. TypeOK'
  BY TypeFault DEF Inv, Safe, Held
<1>2. Aimed'
  BY DEF Inv, Aimed, DispatchFails, Breaks
<1>3. ASSUME DispatchFails(d)
      PROVE  Safe'
  <2>. DEFINE w == [work[d] EXCEPT !.step = "undoing"]
  <2>1. w \in WorkRecord
    BY WorkRecords DEF Inv, Holding
  <2>2. w.step = "undoing" /\ w.item = work[d].item
    BY WorkTyped DEF Inv, WorkRecord
  <2>3. work' = [work EXCEPT ![d] = w] /\ UNCHANGED <<dispatch, executed, undone, abandoned>>
    BY <1>3 DEF DispatchFails, Goto
  <2>. HIDE DEF w
  <2>4. work[d].step \in Holding /\ w.step \in Holding
    BY <1>3, <2>2 DEF DispatchFails, Holding
  <2>. QED
    BY <2>1, <2>2, <2>3, <2>4, SafeKept DEF Inv
<1>4. ASSUME Breaks(d)
      PROVE  Safe'
  <2>1. PICK step \in {"idle", "over"} : work' = [work EXCEPT ![d] = At(step)]
    BY <1>4 DEF Breaks, GiveUp
  <2>2. At(step) \in WorkRecord /\ At(step).step \notin Holding
    BY Records DEF Holding
  <2>3. /\ work[d].step \in Holding => work[d].item \in abandoned'
        /\ abandoned \subseteq abandoned'
        /\ UNCHANGED <<dispatch, executed, undone>>
    BY <1>4 DEF Breaks
  <2>. QED
    BY <2>1, <2>2, <2>3, SafeLeft DEF Inv
<1>. QED
  BY <1>1, <1>2, <1>3, <1>4 DEF Inv

\* The steps of a tick or a request outside a dispatch.
LEMMA InvAway ==
  ASSUME Inv, NEW d \in Dispatchers,
         \/ d \in Schedulers /\ (BeginTick(d) \/ Claim(d) \/ EndTick(d))
         \/ d \in Requests /\ (EndRequest(d) \/ \E r \in Names : Ask(d, r))
  PROVE  Inv'
<1>1. TypeOK'
  BY TypeTick, TypeRequest DEF Inv
<1>2. Aimed'
  BY DEF Inv, Aimed, BeginTick, Claim, EndTick, EndRequest, Ask
<1>3. work[d].step \notin Holding
  BY DEF BeginTick, Claim, EndTick, EndRequest, Ask, Holding
<1>4. UNCHANGED <<dispatch, executed, undone, abandoned>>
  BY DEF BeginTick, Claim, EndTick, EndRequest, Ask, history
<1>5. \E w : /\ w.step \notin Holding
             /\ work' = [work EXCEPT ![d] = w]
  <2>1. CASE BeginTick(d)
    BY <2>1 DEF BeginTick, At, Holding
  <2>2. CASE Claim(d)
    BY <2>2 DEF Claim, At, Holding
  <2>3. CASE EndTick(d)
    BY <2>3 DEF EndTick, At, Holding
  <2>4. CASE EndRequest(d)
    BY <2>4 DEF EndRequest, At, Holding
  <2>5. CASE \E r \in Names : Ask(d, r)
    BY <2>5 DEF Ask, At, Holding
  <2>. QED
    BY <2>1, <2>2, <2>3, <2>4, <2>5
<1>6. PICK w : w.step \notin Holding /\ work' = [work EXCEPT ![d] = w]
  BY <1>5
<1>7. w \in WorkRecord
  <2>1. work' \in [Dispatchers -> WorkRecord]
    BY <1>1 DEF TypeOK, WorkRecord
  <2>2. w = work'[d]
    BY <1>6, WorkTyped DEF Inv
  <2>. QED
    BY <2>1, <2>2
<1>8. Safe'
  BY <1>3, <1>4, <1>6, <1>7, SafeAway DEF Inv
<1>. QED
  BY <1>1, <1>2, <1>8 DEF Inv

LEMMA InvNext == Inv /\ [Next]_vars => Inv'
<1>. SUFFICES ASSUME Inv, [Next]_vars
              PROVE  Inv'
  OBVIOUS
<1>0. CASE UNCHANGED vars
  <2>1. TypeOK'
    BY <1>0 DEF Inv, vars, TypeOK
  <2>2. Safe' /\ Aimed'
    BY <1>0, SafeStutter DEF Inv, vars, Aimed
  <2>. QED
    BY <2>1, <2>2 DEF Inv
<1>1. CASE Pass
  <2>1. TypeOK'
    BY <1>1, TypePass DEF Inv
  <2>2. Safe' /\ Aimed'
    BY <1>1, SafeStutter DEF Inv, Pass, history, Aimed
  <2>. QED
    BY <2>1, <2>2 DEF Inv
<1>2. ASSUME NEW s \in Schedulers, Ticking(s)
      PROVE  Inv'
  BY <1>2, InvAway, InvDispatch DEF Ticking, Dispatchers
<1>3. ASSUME NEW q \in Requests,
             Answering(q) \/ \E r \in Names : RunNow(q, r) \/ Webhook(q, r)
      PROVE  Inv'
  <2>1. CASE Dispatching(q)
    BY <2>1, InvDispatch DEF Dispatchers
  <2>2. CASE EndRequest(q) \/ \E r \in Names : Ask(q, r)
    BY <2>2, InvAway DEF Dispatchers
  <2>. QED
    BY <1>3, <2>1, <2>2 DEF Answering, RunNow, Webhook
<1>4. ASSUME NEW d \in Dispatchers, DispatchFails(d) \/ Breaks(d)
      PROVE  Inv'
  BY <1>4, InvFault
<1>5. ASSUME NEW o \in Occurrences, Execute(o)
      PROVE  Inv'
  <2>1. TypeOK' /\ Safe'
    BY <1>5, TypeExecute, SafeExecute DEF Inv
  <2>2. Aimed'
    BY <1>5 DEF Inv, Aimed, Execute
  <2>. QED
    BY <2>1, <2>2 DEF Inv
<1>6. ASSUME NEW p \in People,
             \/ Write(p)
             \/ \E r \in Names, asks \in {{}} \cup {{s} : s \in Statuses} : Read(p, r, asks)
      PROVE  Inv'
  <2>1. TypeOK' /\ Aimed'
    BY <1>6, TypeEdit DEF Inv
  <2>2. UNCHANGED <<dispatch, work, executed, undone, abandoned>>
    BY <1>6 DEF Write, Read, history
  <2>. QED
    BY <2>1, <2>2, SafeStutter DEF Inv
<1>. QED
  BY <1>0, <1>1, <1>2, <1>3, <1>4, <1>5, <1>6 DEF Next

LEMMA Invariance == Spec => []Inv
<1>1. Init => Inv
  BY TypeInit, SafeInit DEF Inv
<1>. QED
  BY <1>1, InvNext, PTL DEF Spec

\* Every row, tick and request keeps its shape.
THEOREM TypeCorrect == Spec => []TypeOK
<1>1. Inv => TypeOK
  BY DEF Inv
<1>. QED
  BY <1>1, Invariance, PTL

\* The unique pair of routine and time, reserved before the run is created, keeps
\* an occurrence from being worked twice unless a failure withdrew its row.
THEOREM OccurrencesWorkedOnce == Spec => []WorkedOnce
<1>1. Inv => WorkedOnce
  <2>. SUFFICES ASSUME Inv, NEW e \in executed, NEW f \in executed, e[1] = f[1],
                       e[1] \notin undone
                PROVE  e = f
    BY DEF WorkedOnce
  <2>1. e[2] = f[2]
    BY DEF Inv, Safe, First
  <2>2. e \in Occurrences \X Nat /\ f \in Occurrences \X Nat
    BY DEF Inv, TypeOK
  <2>. QED
    BY <2>1, <2>2
<1>. QED
  BY <1>1, Invariance, PTL

\* A reservation without a run has one dispatcher, or lost it to a fault.
THEOREM ReservationsOwned == Spec => []ReservedByOne
<1>1. Inv => ReservedByOne
  BY DEF Inv, Safe, Owned, Alone, Holds, ReservedByOne
<1>. QED
  BY <1>1, Invariance, PTL
----------------------------------------------------------------------------
(* A routine that is on is due some day *)

\* What a change is about to write is on and scheduled only with a next time.
Aware ==
  \A p \in People :
    /\ edit[p].step = "writing" /\ routine[edit[p].of[1]].trigger = "schedule"
    /\ OnAfter(edit[p].seen, edit[p].asks)
    => edit[p].next # Never

Scheduled == OnIsScheduled /\ Aware

LEMMA LaterIsSome == \A now \in Nat : NextAfter(now) # Never
BY DEF NextAfter, Never

LEMMA EditTyped == TypeOK => edit \in [People -> EditRecord]
BY DEF TypeOK, EditRecord

LEMMA ScheduledInit == Init => Scheduled
<1>. SUFFICES ASSUME NEW scene \in Scenes, InitScene(scene)
              PROVE  Scheduled
  BY DEF Init
<1>1. OnIsScheduled
  BY LaterIsSome DEF InitScene, OnIsScheduled
<1>2. NoEdit.step # "writing" /\ Edited.step # "writing"
  BY DEF NoEdit, Edited
<1>3. \A p \in People : edit[p].step # "writing"
  BY <1>2 DEF InitScene
<1>. QED
  BY <1>1, <1>3 DEF Scheduled, Aware

\* The claim moves what it takes to a later time.
LEMMA ScheduledClaim ==
  ASSUME Inv, Scheduled, NEW s \in Schedulers, Claim(s)
  PROVE  Scheduled'
<1>1. PICK S : routine' = [r \in Names |->
                 IF r \notin S THEN routine[r]
                 ELSE [routine[r] EXCEPT !.next = NextAfter(work[s].now)]]
  BY DEF Claim
<1>2. work[s].now \in Nat
  BY WorkTyped, BoundsAssumption DEF Inv, WorkRecord, Dispatchers
<1>3. \A r \in Names : routine[r] \in RoutineRecord
  BY RoutineTyped DEF Inv
<1>4. ASSUME NEW r \in Names
      PROVE  /\ routine'[r].status = routine[r].status
             /\ routine'[r].trigger = routine[r].trigger
             /\ routine'[r].next # routine[r].next => routine'[r].next # Never
  BY <1>1, <1>2, <1>3, LaterIsSome DEF RoutineRecord
<1>5. UNCHANGED <<edit, raced>>
  BY DEF Claim
<1>6. OnIsScheduled'
  BY <1>4, <1>5 DEF Scheduled, OnIsScheduled
<1>7. Aware'
  BY <1>4, <1>5 DEF Inv, Aimed, Scheduled, Aware
<1>. QED
  BY <1>6, <1>7 DEF Scheduled

\* The change computes its next time for the status it will write over the one it read.
LEMMA ScheduledRead ==
  ASSUME Inv, Scheduled, NEW p \in People, NEW r \in Names, NEW asks, Read(p, r, asks)
  PROVE  Scheduled'
<1>. DEFINE e == [step |-> "writing", of |-> <<r>>, seen |-> routine[r].status,
                  asks |-> asks,
                  next |-> IF OnAfter(routine[r].status, asks) /\ routine[r].trigger = "schedule"
                           THEN NextAfter(clock) ELSE Never]
<1>1. UNCHANGED <<routine, raced>> /\ edit' = [edit EXCEPT ![p] = e]
  BY DEF Read, history
<1>2. clock \in Nat
  BY BoundsAssumption DEF Inv, TypeOK
<1>3. /\ e.of[1] = r /\ e.seen = routine[r].status /\ e.asks = asks
      /\ routine[r].trigger = "schedule" /\ OnAfter(e.seen, e.asks) => e.next # Never
  BY <1>2, LaterIsSome
<1>. HIDE DEF e
<1>4. \A q \in People : edit'[q] = IF q = p THEN e ELSE edit[q]
  BY <1>1, EditTyped DEF Inv
<1>5. Aware'
  BY <1>1, <1>3, <1>4 DEF Scheduled, Aware
<1>. QED
  BY <1>1, <1>5 DEF Scheduled, OnIsScheduled

LEMMA ScheduledWrite ==
  ASSUME Inv, Scheduled, NEW p \in People, Write(p)
  PROVE  Scheduled'
<1>. DEFINE r == edit[p].of[1]
            n == edit[p].next
            st == Status(routine[r].status, edit[p].asks)
            row == [routine[r] EXCEPT !.status = st, !.next = n]
<1>1. edit[p].step = "writing" /\ r \in Names
  BY DEF Write, Inv, Aimed
<1>2. /\ routine' = [routine EXCEPT ![r] = row]
      /\ raced' = IF routine[r].status = edit[p].seen THEN raced \ {r} ELSE raced \cup {r}
      /\ edit' = [edit EXCEPT ![p] = Edited]
  BY DEF Write
<1>3. routine[r] \in RoutineRecord
  BY <1>1, RoutineTyped DEF Inv
<1>4. row.status = st /\ row.next = n /\ row.trigger = routine[r].trigger
  BY <1>3 DEF RoutineRecord
<1>5. /\ row.status = "active" /\ row.trigger = "schedule" /\ routine[r].status = edit[p].seen
      => row.next # Never
  BY <1>1, <1>4 DEF Scheduled, Aware, OnAfter
<1>. HIDE DEF r, n, st, row
<1>6. \A q \in Names : routine'[q] = IF q = r THEN row ELSE routine[q]
  BY <1>2, RoutineTyped DEF Inv
<1>7. OnIsScheduled'
  <2>1. ASSUME NEW q \in Names, routine'[q].status = "active",
               routine'[q].trigger = "schedule"
        PROVE  routine'[q].next # Never \/ q \in raced'
    <3>1. CASE q = r
      BY <1>2, <1>5, <1>6, <2>1, <3>1
    <3>2. CASE q # r
      BY <1>2, <1>6, <2>1, <3>2 DEF Scheduled, OnIsScheduled
    <3>. QED
      BY <3>1, <3>2
  <2>. QED
    BY <2>1 DEF OnIsScheduled
<1>8. Aware'
  <2>1. \A q \in People : edit'[q] = IF q = p THEN Edited ELSE edit[q]
    BY <1>2, EditTyped DEF Inv
  <2>2. Edited.step # "writing"
    BY DEF Edited, NoEdit
  <2>3. \A q \in Names : routine'[q].trigger = routine[q].trigger
    BY <1>4, <1>6
  <2>. QED
    BY <2>1, <2>2, <2>3 DEF Scheduled, Aware, Inv, Aimed
<1>. QED
  BY <1>7, <1>8 DEF Scheduled

LEMMA ScheduledNext == Inv /\ Scheduled /\ [Next]_vars => Scheduled'
<1>. SUFFICES ASSUME Inv, Scheduled, [Next]_vars
              PROVE  Scheduled'
  OBVIOUS
<1>1. ASSUME UNCHANGED <<routine, edit, raced>>
      PROVE  Scheduled'
  BY <1>1 DEF Scheduled, OnIsScheduled, Aware
<1>2. ASSUME NEW d \in Dispatchers, Dispatching(d)
      PROVE  Scheduled'
  BY <1>1, <1>2 DEF Dispatching, Reserve, Reserved, CreateRun, LinkRun, Announce, Undo, history
<1>3. ASSUME NEW s \in Schedulers, Ticking(s)
      PROVE  Scheduled'
  <2>1. CASE BeginTick(s) \/ EndTick(s)
    BY <1>1, <2>1 DEF BeginTick, EndTick, history
  <2>. QED
    BY <1>2, <1>3, <2>1, ScheduledClaim DEF Ticking, Dispatchers
<1>4. ASSUME NEW q \in Requests,
             Answering(q) \/ \E r \in Names : RunNow(q, r) \/ Webhook(q, r)
      PROVE  Scheduled'
  <2>1. CASE EndRequest(q) \/ \E r \in Names : Ask(q, r)
    BY <1>1, <2>1 DEF EndRequest, Ask, history
  <2>. QED
    BY <1>2, <1>4, <2>1 DEF Answering, RunNow, Webhook, Dispatchers
<1>5. ASSUME NEW d \in Dispatchers, DispatchFails(d) \/ Breaks(d)
      PROVE  Scheduled'
  BY <1>1, <1>5 DEF DispatchFails, Breaks
<1>6. CASE Pass \/ (\E o \in Occurrences : Execute(o)) \/ UNCHANGED vars
  BY <1>1, <1>6 DEF Pass, Execute, history, vars
<1>. QED
  BY <1>3, <1>4, <1>5, <1>6, ScheduledRead, ScheduledWrite DEF Next

\* A routine that is on keeps a next time, unless the change that wrote it last had
\* read another status (routines.ts, update): claims move it on and never clear it.
THEOREM OnStaysScheduled == Spec => []OnIsScheduled
<1>1. Spec => []Scheduled
  BY ScheduledInit, ScheduledNext, Invariance, PTL DEF Spec
<1>2. Scheduled => OnIsScheduled
  BY DEF Scheduled
<1>. QED
  BY <1>1, <1>2, PTL
----------------------------------------------------------------------------
(* What was claimed is not dropped *)

Has(d, o) == \/ work[d].step \in {"dispatching"} \cup Holding /\ o \in work[d].todo
             \/ Holds(d, o)

Dropped(o) == o \in lost \cup undone \cup abandoned

\* A dispatcher may let go of what has its run, was lost to a fault, or is another's.
LEMMA HandOver ==
  ASSUME TypeOK, ClaimedIsInHand, NEW d \in Dispatchers, NEW w \in WorkRecord,
         work' = [work EXCEPT ![d] = w], UNCHANGED claimed,
         \A o \in Occurrences : Dropped(o) => Dropped(o)',
         \A o \in Occurrences : dispatch[o].run # 0 => dispatch'[o].run # 0 \/ Dropped(o)',
         \A o \in Occurrences : Has(d, o) =>
           \/ Has(d, o)' \/ dispatch'[o].run # 0 \/ Dropped(o)'
           \/ \E e \in Dispatchers \ {d} : Has(e, o)
  PROVE  ClaimedIsInHand'
<1>1. \A e \in Dispatchers \ {d} : work'[e] = work[e]
  BY WorkTyped
<1>2. \A e \in Dispatchers \ {d}, o \in Occurrences : Has(e, o) => Has(e, o)'
  BY <1>1 DEF Has, Holds
<1>3. ASSUME NEW o \in claimed
      PROVE  \/ dispatch'[o].run # 0
             \/ \E e \in Dispatchers : Has(e, o)'
             \/ Dropped(o)'
  <2>1. o \in Occurrences
    BY DEF TypeOK
  <2>2. dispatch[o].run # 0 \/ Dropped(o) \/ \E e \in Dispatchers : Has(e, o)
    BY DEF ClaimedIsInHand, Has, Holds, Dropped
  <2>. QED
    BY <1>2, <2>1, <2>2
<1>. QED
  BY <1>3 DEF ClaimedIsInHand, Has, Holds, Dropped

\* Nothing is taken from a dispatcher that has nothing, or that keeps what it has.
LEMMA HandKept ==
  ASSUME TypeOK, ClaimedIsInHand, NEW d \in Dispatchers, NEW w \in WorkRecord,
         work' = [work EXCEPT ![d] = w],
         UNCHANGED <<dispatch, claimed, lost, undone, abandoned>>,
         \/ work[d].step \in {"idle", "claiming", "over"}
         \/ work[d].step = "dispatching" /\ work[d].todo = {}
         \/ /\ work[d].step \in Holding /\ w.step \in Holding
            /\ w.todo = work[d].todo /\ w.item = work[d].item
  PROVE  ClaimedIsInHand'
<1>1. work'[d] = w
  BY WorkTyped
<1>2. \A o \in Occurrences : Has(d, o) => Has(d, o)'
  BY <1>1 DEF Has, Holds, Holding
<1>3. \A o \in Occurrences : Dropped(o) => Dropped(o)'
  BY DEF Dropped
<1>. QED
  BY <1>2, <1>3, HandOver

LEMMA HandClaim ==
  ASSUME Inv, ClaimedIsInHand, NEW s \in Schedulers, Claim(s)
  PROVE  ClaimedIsInHand'
<1>. s \in Dispatchers
  BY DEF Dispatchers
<1>1. PICK items : /\ work' = [work EXCEPT ![s] = [At("dispatching") EXCEPT !.todo = items]]
                   /\ claimed' = claimed \cup items
  BY DEF Claim
<1>2. /\ work[s].step = "claiming"
      /\ UNCHANGED <<dispatch, lost, undone, abandoned>>
  BY DEF Claim
<1>3. /\ work'[s] = [At("dispatching") EXCEPT !.todo = items]
      /\ \A e \in Dispatchers \ {s} : work'[e] = work[e]
  BY <1>1, WorkTyped DEF Inv
<1>4. work'[s].step = "dispatching" /\ work'[s].todo = items
  BY <1>3 DEF At
<1>5. \A e \in Dispatchers, o \in claimed : Has(e, o) => Has(e, o)'
  BY <1>2, <1>3 DEF Has, Holds, Holding
<1>6. ASSUME NEW o \in claimed'
      PROVE  \/ dispatch'[o].run # 0
             \/ \E e \in Dispatchers : Has(e, o)'
             \/ Dropped(o)'
  <2>1. CASE o \in claimed
    <3>1. dispatch[o].run # 0 \/ Dropped(o) \/ \E e \in Dispatchers : Has(e, o)
      BY <2>1 DEF ClaimedIsInHand, Has, Holds, Dropped
    <3>. QED
      BY <1>2, <1>5, <2>1, <3>1 DEF Dropped
  <2>2. CASE o \in items
    BY <1>4, <2>2 DEF Has
  <2>. QED
    BY <1>1, <1>6, <2>1, <2>2
<1>. QED
  BY <1>6 DEF ClaimedIsInHand, Has, Holds, Dropped

\* The steps of the dispatch of one occurrence.
LEMMA HandDispatch ==
  ASSUME Inv, ClaimedIsInHand, NEW d \in Dispatchers, Dispatching(d)
  PROVE  ClaimedIsInHand'
<1>0. TypeOK /\ Safe /\ work[d] \in WorkRecord
  BY WorkTyped DEF Inv
<1>1. ASSUME NEW o \in Occurrences, Reserve(d, o)
      PROVE  ClaimedIsInHand'
  <2>. DEFINE w == [work[d] EXCEPT !.step = "creating", !.item = o]
  <2>1. w \in WorkRecord /\ w.step = "creating" /\ w.item = o /\ w.todo = work[d].todo
    BY <1>0, WorkRecords DEF WorkRecord
  <2>2. /\ work' = [work EXCEPT ![d] = w] /\ work[d].step = "dispatching"
        /\ dispatch' = [dispatch EXCEPT ![o] = [there |-> TRUE, run |-> 0]]
        /\ ~dispatch[o].there /\ UNCHANGED <<claimed, lost, undone, abandoned>>
    BY <1>1 DEF Reserve, Taken, history
  <2>. HIDE DEF w
  <2>3. \A p \in Occurrences : Has(d, p) => Has(d, p)'
    BY <1>0, <2>1, <2>2, WorkTyped DEF Has, Holds, Holding
  <2>4. \A p \in Occurrences : dispatch[p].run # 0 => dispatch'[p].run # 0
    BY <1>0, <2>2 DEF TypeOK, Safe, Empty
  <2>5. \A p \in Occurrences : Dropped(p) => Dropped(p)'
    BY <2>2 DEF Dropped
  <2>. QED
    BY <1>0, <2>1, <2>2, <2>3, <2>4, <2>5, HandOver
<1>2. ASSUME NEW o \in Occurrences, Reserved(d, o)
      PROVE  ClaimedIsInHand'
  <2>. DEFINE w == [work[d] EXCEPT !.todo = LeftAfter(d, o)]
  <2>1. w \in WorkRecord /\ w.step = work[d].step /\ w.todo = work[d].todo \ {o}
    BY <1>0, WorkRecords DEF WorkRecord, LeftAfter
  <2>2. /\ work' = [work EXCEPT ![d] = w] /\ work[d].step = "dispatching"
        /\ dispatch[o].there /\ UNCHANGED <<dispatch, claimed, lost, undone, abandoned>>
    BY <1>2 DEF Reserved, Taken, history
  <2>. HIDE DEF w
  <2>3. \A p \in Occurrences : p # o /\ Has(d, p) => Has(d, p)'
    BY <1>0, <2>1, <2>2, WorkTyped DEF Has, Holds, Holding
  <2>4. dispatch[o].run # 0 \/ o \in abandoned \/ \E e \in Dispatchers \ {d} : Has(e, o)
    BY <1>0, <2>2 DEF Safe, Owned, Has, Holds, Holding
  <2>5. \A p \in Occurrences : Dropped(p) => Dropped(p)'
    BY <2>2 DEF Dropped
  <2>6. o \in abandoned => Dropped(o)'
    BY <2>2 DEF Dropped
  <2>. QED
    BY <1>0, <2>1, <2>2, <2>3, <2>4, <2>5, <2>6, HandOver
<1>3. CASE CreateRun(d)
  <2>1. /\ work[d].step = "creating" /\ UNCHANGED <<dispatch, claimed, lost, undone, abandoned>>
        /\ work[d].item \in Occurrences
    BY <1>0, <1>3 DEF CreateRun, history, Safe, Held, Holding
  <2>2. made[work[d].item] + 1 \in Nat
    BY <1>0, <2>1 DEF TypeOK
  <2>. DEFINE w == [work[d] EXCEPT !.step = "linking", !.run = made[work[d].item] + 1]
  <2>3. w \in WorkRecord /\ w.step = "linking" /\ w.todo = work[d].todo /\ w.item = work[d].item
    BY <1>0, <2>2, WorkRecords DEF WorkRecord
  <2>4. work' = [work EXCEPT ![d] = w]
    BY <1>3 DEF CreateRun
  <2>. HIDE DEF w
  <2>. QED
    BY <1>0, <2>1, <2>3, <2>4, HandKept DEF Holding
<1>4. CASE LinkRun(d)
  <2>. DEFINE w == [work[d] EXCEPT !.step = "announcing"]
  <2>1. /\ w \in WorkRecord /\ w.step = "announcing" /\ w.todo = work[d].todo
        /\ w.item = work[d].item
    BY <1>0, WorkRecords DEF WorkRecord, Holding
  <2>2. /\ work' = [work EXCEPT ![d] = w] /\ work[d].step = "linking"
        /\ dispatch' = [dispatch EXCEPT ![work[d].item].run = work[d].run]
        /\ UNCHANGED <<claimed, lost, undone, abandoned>>
    BY <1>4 DEF LinkRun, Goto, history
  <2>3. work[d].run # 0 /\ work[d].item \in Occurrences
    BY <1>0, <2>2 DEF Safe, Linked, Held, Holding
  <2>. HIDE DEF w
  <2>4. \A p \in Occurrences : Has(d, p) => Has(d, p)'
    BY <1>0, <2>1, <2>2, WorkTyped DEF Has, Holds, Holding
  <2>5. \A p \in Occurrences : dispatch[p].run # 0 => dispatch'[p].run # 0
    BY <1>0, <2>2, <2>3 DEF TypeOK
  <2>6. \A p \in Occurrences : Dropped(p) => Dropped(p)'
    BY <2>2 DEF Dropped
  <2>. QED
    BY <1>0, <2>1, <2>2, <2>4, <2>5, <2>6, HandOver
<1>5. CASE Announce(d)
  <2>1. /\ work[d].step = "announcing" /\ UNCHANGED <<dispatch, claimed, lost, undone, abandoned>>
        /\ work[d].item \in Occurrences /\ dispatch[work[d].item].run # 0
    BY <1>0, <1>5 DEF Announce, history, Safe, Held, Linked, Holding
  <2>. DEFINE w == [At("dispatching") EXCEPT !.todo = LeftAfter(d, work[d].item)]
  <2>2. LeftAfter(d, work[d].item) \in SUBSET Occurrences
    BY <1>0 DEF LeftAfter, WorkRecord
  <2>3. w \in WorkRecord
    BY <1>0, <2>2, WorkRecords
  <2>4. w.step = "dispatching" /\ w.todo = work[d].todo \ {work[d].item}
    BY DEF At, LeftAfter
  <2>5. work' = [work EXCEPT ![d] = w]
    BY <1>5 DEF Announce
  <2>. HIDE DEF w
  <2>6. \A p \in Occurrences : p # work[d].item /\ Has(d, p) => Has(d, p)'
    BY <1>0, <2>1, <2>4, <2>5, WorkTyped DEF Has, Holds, Holding
  <2>7. \A p \in Occurrences : Dropped(p) => Dropped(p)'
    BY <2>1 DEF Dropped
  <2>. QED
    BY <1>0, <2>1, <2>3, <2>5, <2>6, <2>7, HandOver
<1>6. CASE Undo(d)
  <2>. DEFINE w == At(IF d \in Schedulers THEN "idle" ELSE "over")
  <2>1. w \in WorkRecord
    BY Records
  <2>2. /\ work' = [work EXCEPT ![d] = w]
        /\ dispatch' = [dispatch EXCEPT ![work[d].item] = Free]
        /\ undone' = undone \cup {work[d].item}
        /\ lost' = lost \cup {o \in work[d].todo : dispatch'[o].run = 0}
        /\ UNCHANGED <<claimed, abandoned>>
    BY <1>6 DEF Undo, GiveUp, Withdrawn
  <2>. HIDE DEF w
  <2>3. \A p \in Occurrences : Has(d, p) => dispatch'[p].run # 0 \/ Dropped(p)'
    BY <2>2 DEF Has, Holds, Dropped
  <2>4. \A p \in Occurrences : dispatch[p].run # 0 => dispatch'[p].run # 0 \/ Dropped(p)'
    BY <1>0, <2>2 DEF TypeOK, Dropped
  <2>5. \A p \in Occurrences : Dropped(p) => Dropped(p)'
    BY <2>2 DEF Dropped
  <2>. QED
    BY <1>0, <2>1, <2>2, <2>3, <2>4, <2>5, HandOver
<1>. QED
  BY <1>1, <1>2, <1>3, <1>4, <1>5, <1>6 DEF Dispatching

LEMMA HandFault ==
  ASSUME Inv, ClaimedIsInHand, NEW d \in Dispatchers, DispatchFails(d) \/ Breaks(d)
  PROVE  ClaimedIsInHand'
<1>0. TypeOK /\ work[d] \in WorkRecord
  BY WorkTyped DEF Inv
<1>1. CASE DispatchFails(d)
  <2>. DEFINE w == [work[d] EXCEPT !.step = "undoing"]
  <2>1. /\ w \in WorkRecord /\ w.step = "undoing" /\ w.todo = work[d].todo
        /\ w.item = work[d].item
    BY <1>0, WorkRecords DEF WorkRecord, Holding
  <2>2. /\ work' = [work EXCEPT ![d] = w] /\ work[d].step \in {"creating", "linking", "announcing"}
        /\ UNCHANGED <<dispatch, claimed, lost, undone, abandoned>>
    BY <1>1 DEF DispatchFails, Goto
  <2>. HIDE DEF w
  <2>. QED
    BY <1>0, <2>1, <2>2, HandKept DEF Holding
<1>2. CASE Breaks(d)
  <2>. DEFINE w == At(IF d \in Schedulers THEN "idle" ELSE "over")
  <2>1. w \in WorkRecord
    BY Records
  <2>2. /\ work' = [work EXCEPT ![d] = w]
        /\ lost' = lost \cup {o \in work[d].todo : dispatch[o].run = 0}
        /\ abandoned' = IF work[d].step \in Holding THEN abandoned \cup {work[d].item} ELSE abandoned
        /\ UNCHANGED <<dispatch, claimed, undone>>
    BY <1>2 DEF Breaks, GiveUp
  <2>. HIDE DEF w
  <2>3. \A p \in Occurrences : Has(d, p) => dispatch'[p].run # 0 \/ Dropped(p)'
    BY <2>2 DEF Has, Holds, Dropped
  <2>4. \A p \in Occurrences : Dropped(p) => Dropped(p)'
    BY <2>2 DEF Dropped
  <2>. QED
    BY <1>0, <2>1, <2>2, <2>3, <2>4, HandOver
<1>. QED
  BY <1>1, <1>2

LEMMA HandNext == Inv /\ ClaimedIsInHand /\ [Next]_vars => ClaimedIsInHand'
<1>. SUFFICES ASSUME Inv, ClaimedIsInHand, [Next]_vars
              PROVE  ClaimedIsInHand'
  OBVIOUS
<1>0. TypeOK
  BY DEF Inv
<1>1. ASSUME UNCHANGED <<dispatch, work, claimed, lost, undone, abandoned>>
      PROVE  ClaimedIsInHand'
  BY <1>1 DEF ClaimedIsInHand
<1>2. ASSUME NEW s \in Schedulers, BeginTick(s) \/ EndTick(s)
      PROVE  ClaimedIsInHand'
  <2>1. PICK w \in WorkRecord :
          /\ work' = [work EXCEPT ![s] = w]
          /\ UNCHANGED <<dispatch, claimed, lost, undone, abandoned>>
          /\ work[s].step = "idle" \/ (work[s].step = "dispatching" /\ work[s].todo = {})
    BY <1>0, <1>2, Records, WorkRecords DEF BeginTick, EndTick, history, Dispatchers
  <2>. QED
    BY <1>0, <2>1, HandKept DEF Dispatchers
<1>3. ASSUME NEW q \in Requests, EndRequest(q) \/ \E r \in Names : Ask(q, r)
      PROVE  ClaimedIsInHand'
  <2>1. \A r \in Names : {<<r, clock>>} \in SUBSET Occurrences
    BY <1>0 DEF TypeOK, Occurrences
  <2>2. PICK w \in WorkRecord :
          /\ work' = [work EXCEPT ![q] = w]
          /\ UNCHANGED <<dispatch, claimed, lost, undone, abandoned>>
          /\ work[q].step = "idle" \/ (work[q].step = "dispatching" /\ work[q].todo = {})
    <3>1. CASE EndRequest(q)
      BY <3>1, Records DEF EndRequest, history
    <3>2. ASSUME NEW r \in Names, Ask(q, r)
          PROVE  \E w \in WorkRecord :
                   /\ work' = [work EXCEPT ![q] = w]
                   /\ UNCHANGED <<dispatch, claimed, lost, undone, abandoned>>
                   /\ work[q].step = "idle"
      BY <1>0, <2>1, <3>2, WorkRecords DEF Ask, history, Dispatchers
    <3>. QED
      BY <1>3, <3>1, <3>2
  <2>. QED
    BY <1>0, <2>2, HandKept DEF Dispatchers
<1>4. ASSUME NEW s \in Schedulers, Ticking(s)
      PROVE  ClaimedIsInHand'
  BY <1>2, <1>4, HandClaim, HandDispatch DEF Ticking, Dispatchers
<1>5. ASSUME NEW q \in Requests,
             Answering(q) \/ \E r \in Names : RunNow(q, r) \/ Webhook(q, r)
      PROVE  ClaimedIsInHand'
  BY <1>3, <1>5, HandDispatch DEF Answering, RunNow, Webhook, Dispatchers
<1>6. ASSUME NEW p \in People,
             \/ Write(p)
             \/ \E r \in Names, asks \in {{}} \cup {{s} : s \in Statuses} : Read(p, r, asks)
      PROVE  ClaimedIsInHand'
  BY <1>1, <1>6 DEF Write, Read, history
<1>7. CASE Pass \/ (\E o \in Occurrences : Execute(o)) \/ UNCHANGED vars
  BY <1>1, <1>7 DEF Pass, Execute, history, vars
<1>. QED
  BY <1>4, <1>5, <1>6, <1>7, HandFault DEF Next

\* The claim moves a routine past its occurrence for good (routines.ts, dispatchDue); whatever
\* ticks, requests and changes overlap, what was claimed stays in a batch, in hand or with
\* its run, and only a fault drops it: an occurrence that another dispatcher has reserved
\* is skipped because that one works it.
THEOREM ClaimsAreKept == Spec => []ClaimedIsInHand
<1>1. Init => ClaimedIsInHand
  BY DEF Init, InitScene, ClaimedIsInHand
<1>. QED
  BY <1>1, HandNext, Invariance, PTL DEF Spec
=============================================================================
