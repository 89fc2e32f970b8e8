-------------------------- MODULE ComputersProofs --------------------------
(***************************************************************************)
(* Proof that no more computers run than there are slots, for any Bots,    *)
(* callers, orders and faults. The invariant says what the capacity lock   *)
(* is for: an ensure that was admitted has the turn, and what it read of   *)
(* the capacity stays true until it has started its container, whatever is *)
(* stopped or reset meanwhile.                                             *)
(*                                                                         *)
(* What is remembered of a computer, and what its container is built on,   *)
(* follow the orders that overlap: an address is out of date only where an *)
(* order overtook the request that fetched it, a profile only where orders *)
(* overlap or one failed. The chain of the lock is served to its end.      *)
(*                                                                         *)
(* The last sections are about the browser inside a computer (Browser):    *)
(* the process knows the browsers it runs, what was admitted lands under   *)
(* the wheel it was admitted under, and a secret in its field.             *)
(***************************************************************************)
EXTENDS Computers, FiniteSetTheorems, TLAPS

Admitted == {"inspect", "volume", "create", "start", "settle"}

EnsureRecord == [step : Working \cup {"none", "answer", "refused", "error", "heard"},
                 bot : Bots, tries : 0..Attempts, addr : Nat, overtaken : BOOLEAN]
BoxRecord == [status : {"absent", "created", "running", "exited"}, addr : Nat, profile : Nat]
OrderRecord == [step : {"idle", "asked", "wiping", "done", "failed"},
                kind : {"stop", "reset"}, bot : Bots, gone : Nat]

Typed ==
  /\ ensuring \in [Callers -> EnsureRecord]
  /\ lock \in Seq(Callers)
  /\ box \in [Bots -> BoxRecord]
  /\ profile \in [Bots -> Nat] /\ wiped \in [Bots -> Nat] /\ starts \in Nat
  /\ order \in [Orders -> OrderRecord]

HasTurn == \A c \in Callers : ensuring[c].step \in Admitted => Turn(c)

Reserved ==
  \A c \in Callers :
    ensuring[c].step \in Admitted \ {"settle"} => HasCapacity(ensuring[c].bot)

Inv == Typed /\ HasTurn /\ Reserved /\ CapacityHeld

supervised == <<ensuring, lock, box, profile, wiped, starts, order>>

LEMMA RunningFinite == IsFiniteSet(Running) /\ Cardinality(Running) \in Nat
BY FS_Subset, FS_CardinalityType, LimitsAssumption DEF Running

LEMMA InvInit == Init => Inv
<1> SUFFICES ASSUME Init PROVE Inv
  OBVIOUS
<1>1. PICK scene \in Scenes : ensuring = [c \in Callers |->
        [step |-> "none", bot |-> scene.bot[c], tries |-> Attempts, addr |-> 0,
         overtaken |-> FALSE]]
  BY DEF Init
<1>2. \A c \in Callers : scene.bot[c] \in Bots
  BY ScenesAssumption
<1>7. order \in [Orders -> OrderRecord]
  BY ScenesAssumption DEF Init, OrderRecord
<1>8. ensuring \in [Callers -> EnsureRecord]
  BY <1>1, <1>2, LimitsAssumption DEF EnsureRecord
<1>9. box \in [Bots -> BoxRecord] /\ lock \in Seq(Callers)
  BY DEF Init, BoxRecord, NoBox
<1>3. Typed
  BY <1>7, <1>8, <1>9 DEF Init, Typed
<1>4. HasTurn /\ Reserved
  BY <1>1 DEF HasTurn, Reserved, Admitted
<1>5. Running = {}
  BY DEF Init, Running, NoBox
<1>6. CapacityHeld
  BY <1>5, FS_EmptySet, LimitsAssumption DEF CapacityHeld
<1> QED
  BY <1>3, <1>4, <1>6 DEF Inv

LEMMA InvStutter == Inv /\ UNCHANGED supervised => Inv'
BY DEF supervised, Inv, Typed, HasTurn, Reserved, Turn, HasCapacity, CapacityHeld, Running

\* The ensure that has the turn takes a step; nobody else is admitted meanwhile.
LEMMA InvTurn ==
  ASSUME Inv, NEW c \in Callers, Turn(c), NEW e \in EnsureRecord,
         ensuring' = [ensuring EXCEPT ![c] = e],
         lock' = IF e.step \in Working THEN lock ELSE Tail(lock),
         box' \in [Bots -> BoxRecord], profile' \in [Bots -> Nat], starts' \in Nat,
         UNCHANGED <<wiped, order>>, CapacityHeld',
         e.step \in Admitted \ {"settle"} => HasCapacity(e.bot)'
  PROVE  Inv'
<1>1. Typed'
  BY DEF Inv, Typed, Turn
<1>2. \A d \in Callers : d # c => ensuring'[d].step \notin Admitted
  BY DEF Inv, Typed, HasTurn, Turn
<1>3. ensuring'[c] = e
  BY DEF Inv, Typed
<1>4. HasTurn'
  BY <1>2, <1>3 DEF HasTurn, Turn, Admitted, Working
<1>5. Reserved'
  BY <1>2, <1>3 DEF Reserved
<1> QED
  BY <1>1, <1>4, <1>5 DEF Inv

\* As far as To goes.
LEMMA InvTo ==
  ASSUME Inv, NEW c \in Callers, Turn(c),
         NEW s \in Working \cup {"answer", "refused", "error"}, To(c, s),
         box' \in [Bots -> BoxRecord], profile' \in [Bots -> Nat], starts' \in Nat,
         UNCHANGED <<wiped, order>>, CapacityHeld',
         NEW b, b = ensuring[c].bot, s \in Admitted \ {"settle"} => HasCapacity(b)'
  PROVE  Inv'
<1>1. ensuring[c] \in EnsureRecord
  BY DEF Inv, Typed
<1>2. PICK e \in EnsureRecord : e = [ensuring[c] EXCEPT !.step = s]
  BY <1>1 DEF EnsureRecord
<1>3. ensuring' = [ensuring EXCEPT ![c] = e] /\ e.step = s /\ e.bot = b
  BY <1>1, <1>2 DEF To, EnsureRecord
<1>4. lock' = IF e.step \in Working THEN lock ELSE Tail(lock)
  BY <1>3 DEF To, Released
<1>5. e.step \in Admitted \ {"settle"} => HasCapacity(e.bot)'
  BY <1>3
<1> QED
  BY <1>2, <1>3, <1>4, <1>5, InvTurn

\* Ensures may hear, be told or be overtaken: what they hold stays.
LEMMA InvNotes ==
  ASSUME Inv, ensuring' \in [Callers -> EnsureRecord],
         lock' \in Seq(Callers), lock # <<>> => lock' # <<>> /\ Head(lock') = Head(lock),
         \A c \in Callers : /\ ensuring'[c].step \in Admitted =>
                                 ensuring'[c].step = ensuring[c].step
                            /\ ensuring'[c].bot = ensuring[c].bot,
         UNCHANGED <<box, profile, wiped, starts>>, order' \in [Orders -> OrderRecord]
  PROVE  Inv'
<1>1. Running' = Running
  BY DEF Running
<1>2. Typed'
  BY DEF Inv, Typed
<1>3. HasTurn'
  BY DEF Inv, HasTurn, Turn
<1>4. Reserved'
  BY <1>1 DEF Inv, Reserved, HasCapacity
<1> QED
  BY <1>1, <1>2, <1>3, <1>4 DEF Inv, CapacityHeld

\* A container that is stopped or removed leaves its slot, to an ensure of the same
\* Bot as to any other.
LEMMA InvRetire ==
  ASSUME Inv, NEW b \in Bots, NEW r \in BoxRecord, r.status # "running",
         box' = [box EXCEPT ![b] = r],
         UNCHANGED <<ensuring, lock, profile, wiped, starts>>,
         order' \in [Orders -> OrderRecord]
  PROVE  Inv'
<1>1. Running' = Running \ {b}
  BY DEF Inv, Typed, Running
<1>2. /\ Cardinality(Running') \in Nat
      /\ b \in Running => Cardinality(Running') < Cardinality(Running)
      /\ Cardinality(Running') <= Cardinality(Running)
  <2>1. CASE b \in Running
    <3>1. Cardinality(Running \ {b}) = Cardinality(Running) - 1
      BY <2>1, RunningFinite, FS_RemoveElement
    <3>2. Cardinality(Running) > 0
      BY <2>1, RunningFinite, FS_EmptySet
    <3> QED
      BY <1>1, <3>1, <3>2, RunningFinite
  <2>2. CASE b \notin Running
    <3>1. Running' = Running
      BY <1>1, <2>2
    <3> QED
      BY <2>2, <3>1, RunningFinite
  <2> QED
    BY <2>1, <2>2
<1>3. Typed'
  BY DEF Inv, Typed
<1>4. HasTurn'
  BY DEF Inv, HasTurn, Turn
<1>5. Cardinality(Running) \in Nat /\ Cardinality(Running) <= MaxRunning /\ MaxRunning \in Nat
  BY RunningFinite, LimitsAssumption DEF Inv, CapacityHeld
<1>6. ASSUME NEW c \in Callers, ensuring'[c].step \in Admitted \ {"settle"}
      PROVE  HasCapacity(ensuring[c].bot)'
  <2>1. HasCapacity(ensuring[c].bot)
    BY <1>6 DEF Inv, Reserved
  <2>2. CASE ensuring[c].bot = b
    BY <1>2, <1>5, <2>1, <2>2 DEF HasCapacity
  <2>3. CASE ensuring[c].bot # b
    BY <1>1, <1>2, <1>5, <2>1, <2>3 DEF HasCapacity
  <2> QED
    BY <2>2, <2>3
<1>7. Reserved'
  BY <1>6 DEF Reserved
<1> QED
  BY <1>2, <1>3, <1>4, <1>5, <1>7 DEF Inv, CapacityHeld

LEMMA InvStart ==
  ASSUME Inv, NEW c \in Callers, Start(c)
  PROVE  Inv'
<1>0. PICK b \in Bots : b = ensuring[c].bot
  BY DEF Inv, Typed, EnsureRecord
<1>1. Turn(c) /\ HasCapacity(b)
  BY <1>0 DEF Inv, Typed, EnsureRecord, HasTurn, Reserved, Start, Admitted
<1>2. CASE box[b].status = "running"
  <2>1. UNCHANGED <<box, starts, profile, wiped, order>> /\ To(c, "settle")
    BY <1>0, <1>2 DEF Start
  <2>2. Running' = Running
    BY <2>1 DEF Running
  <2> QED
    BY <1>0, <1>1, <2>1, <2>2, InvTo DEF Inv, Typed, CapacityHeld, Working
<1>3. CASE box[b].status # "running"
  <2>2. box[b] \in BoxRecord /\ starts \in Nat
    BY DEF Inv, Typed
  <2>10. PICK n \in Nat : n = starts + 1
    BY <2>2
  <2>11. [box[b] EXCEPT !.status = "running", !.addr = n] \in BoxRecord
    BY <2>2 DEF BoxRecord
  <2>4. [box[b] EXCEPT !.status = "running", !.addr = starts + 1] \in BoxRecord
    BY <2>10, <2>11
  <2>3. PICK r \in BoxRecord :
          r = [box[b] EXCEPT !.status = "running", !.addr = starts + 1]
    BY <2>4
  <2>8. r.status = "running"
    BY <2>2, <2>3 DEF BoxRecord
  <2>1. /\ starts' = starts + 1
        /\ box' = [box EXCEPT ![b] = r]
        /\ UNCHANGED <<profile, wiped, order>> /\ To(c, "settle")
    BY <1>0, <1>3, <2>3 DEF Start
  <2>9. b \notin Running /\ Running' = Running \cup {b}
    BY <1>3, <2>1, <2>8 DEF Inv, Typed, Running
  <2>5. Cardinality(Running') = Cardinality(Running) + 1
    BY <2>9, RunningFinite, FS_AddElement
  <2>6. CapacityHeld'
    BY <1>1, <2>9, <2>5, RunningFinite, LimitsAssumption DEF HasCapacity, CapacityHeld
  <2>7. box' \in [Bots -> BoxRecord] /\ starts' \in Nat /\ profile' \in [Bots -> Nat]
    BY <2>1, <2>2 DEF Inv, Typed
  <2> QED
    BY <1>0, <1>1, <2>1, <2>6, <2>7, InvTo DEF Working
<1> QED
  BY <1>2, <1>3

\* What a container is built on, or is created for it.
LEMMA VolumeType ==
  ASSUME profile \in [Bots -> Nat], wiped \in [Bots -> Nat], NEW b \in Bots
  PROVE  /\ Volume(b) \in Nat /\ Volume(b) > 0
         /\ profile[b] # 0 => Volume(b) = profile[b]
         /\ profile[b] = 0 => Volume(b) > wiped[b]
BY DEF Volume

LEMMA InvCreateVolume ==
  ASSUME Inv, NEW c \in Callers, CreateVolume(c)
  PROVE  Inv'
<1>0. PICK b \in Bots : b = ensuring[c].bot
  BY DEF Inv, Typed, EnsureRecord
<1>1. Turn(c) /\ HasCapacity(b)
  BY <1>0 DEF Inv, Typed, EnsureRecord, HasTurn, Reserved, CreateVolume, Admitted
<1>2. /\ profile' = [profile EXCEPT ![b] = Volume(b)]
      /\ To(c, "create") /\ UNCHANGED <<box, starts, wiped, order>>
  BY <1>0 DEF CreateVolume
<1>3. box' \in [Bots -> BoxRecord] /\ profile' \in [Bots -> Nat] /\ starts' \in Nat
  BY <1>2, VolumeType DEF Inv, Typed
<1>4. CapacityHeld' /\ HasCapacity(b)'
  BY <1>1, <1>2 DEF Inv, CapacityHeld, HasCapacity, Running
<1> QED
  BY <1>0, <1>1, <1>2, <1>3, <1>4, InvTo DEF Working

LEMMA InvCreate ==
  ASSUME Inv, NEW c \in Callers, Create(c)
  PROVE  Inv'
<1>0. PICK b \in Bots : b = ensuring[c].bot
  BY DEF Inv, Typed, EnsureRecord
<1>1. Turn(c) /\ HasCapacity(b)
  BY <1>0 DEF Inv, Typed, EnsureRecord, HasTurn, Reserved, Create, Admitted
<1>2. PICK volume \in Nat : volume = Volume(b)
  BY VolumeType DEF Inv, Typed
<1>3. /\ \/ UNCHANGED <<box, profile>>
         \/ /\ box[b].status = "absent"
            /\ box' = [box EXCEPT ![b] = [status |-> "created", addr |-> 0, profile |-> volume]]
            /\ profile' = [profile EXCEPT ![b] = volume]
      /\ To(c, "start") /\ UNCHANGED <<starts, wiped, order>>
  BY <1>0, <1>2 DEF Create
<1>7. [status |-> "created", addr |-> 0, profile |-> volume] \in BoxRecord
  BY DEF BoxRecord
<1>4. box' \in [Bots -> BoxRecord] /\ profile' \in [Bots -> Nat]
  BY <1>3, <1>7 DEF Inv, Typed
<1>5. Running' = Running
  <2>1. CASE UNCHANGED box
    BY <2>1 DEF Running
  <2>2. CASE box[b].status = "absent"
             /\ box' = [box EXCEPT ![b] = [status |-> "created", addr |-> 0, profile |-> volume]]
    BY <2>2 DEF Inv, Typed, Running
  <2> QED
    BY <1>3, <2>1, <2>2
<1>6. CapacityHeld' /\ HasCapacity(b)' /\ starts' \in Nat
  BY <1>1, <1>3, <1>5 DEF Inv, Typed, CapacityHeld, HasCapacity
<1> QED
  BY <1>0, <1>1, <1>3, <1>4, <1>6, InvTo DEF Working

\* The steps of an ensure that has the turn and leaves Docker as it is.
LEMMA InvReads ==
  ASSUME Inv, NEW c \in Callers,
         Admit(c) \/ Inspect(c) \/ StartGone(c) \/ Settle(c) \/ DockerFails(c)
  PROVE  Inv'
<1> USE DEF dockerVars
<1>0. PICK b \in Bots : b = ensuring[c].bot
  BY DEF Inv, Typed, EnsureRecord
<1>1. Running' = Running /\ UNCHANGED <<box, profile, wiped, starts, order>>
  BY DEF Running, Admit, Inspect, StartGone, Settle, DockerFails
<1>2. /\ box' \in [Bots -> BoxRecord] /\ profile' \in [Bots -> Nat] /\ starts' \in Nat
      /\ UNCHANGED <<wiped, order>> /\ CapacityHeld'
  BY <1>1 DEF Inv, Typed, CapacityHeld
<1>3. Turn(c)
  BY DEF Inv, HasTurn, Admit, Inspect, StartGone, Settle, DockerFails, Admitted, Working
<1>4. ensuring[c].step \in Admitted \ {"settle"} => HasCapacity(b)'
  BY <1>0, <1>1 DEF Inv, Reserved, HasCapacity
<1>5. CASE Admit(c)
  <2>1. PICK s \in {"inspect", "refused"} :
          To(c, s) /\ (s = "inspect" => HasCapacity(b))
    BY <1>0, <1>5 DEF Admit
  <2>2. s = "inspect" => HasCapacity(b)'
    BY <1>1, <2>1 DEF HasCapacity
  <2> QED
    BY <1>0, <1>2, <1>3, <2>1, <2>2, InvTo DEF Working, Admitted
<1>6. CASE Inspect(c)
  <2>1. PICK s \in {"volume", "settle", "start"} : To(c, s)
    BY <1>6 DEF Inspect
  <2>2. HasCapacity(b)'
    BY <1>4, <1>6 DEF Inspect, Admitted
  <2> QED
    BY <1>0, <1>2, <1>3, <2>1, <2>2, InvTo DEF Working
<1>7. CASE StartGone(c)
  <2>1. CASE ~(ensuring[c].tries > 1)
    BY <1>0, <1>2, <1>3, <1>7, <2>1, InvTo DEF StartGone, Admitted, Working
  <2>2. CASE ensuring[c].tries > 1
    <3>1. ensuring[c] \in EnsureRecord
      BY DEF Inv, Typed
    <3>5. ensuring[c].tries - 1 \in 0..Attempts
      BY <2>2, <3>1, LimitsAssumption DEF EnsureRecord
    <3>2. PICK e \in EnsureRecord :
            e = [ensuring[c] EXCEPT !.step = "inspect", !.tries = @ - 1]
      BY <3>1, <3>5 DEF EnsureRecord, Working
    <3>6. e.step = "inspect" /\ e.bot = b
      BY <1>0, <3>1, <3>2 DEF EnsureRecord
    <3>3. ensuring' = [ensuring EXCEPT ![c] = e] /\ lock' = lock
      BY <1>7, <2>2, <3>2 DEF StartGone
    <3>4. HasCapacity(e.bot)'
      BY <1>4, <1>7, <3>6 DEF StartGone, Admitted
    <3> QED
      BY <1>0, <1>2, <1>3, <3>6, <3>3, <3>4, InvTurn DEF Working
  <2> QED
    BY <2>1, <2>2
<1>8. CASE Settle(c)
  <2>1. PICK s \in {"answer", "refused"} :
          /\ ensuring' = [ensuring EXCEPT ![c].step = s,
                                          ![c].addr = box[ensuring[c].bot].addr]
          /\ lock' = Tail(lock)
    BY <1>8 DEF Settle, Released
  <2>2. ensuring[c] \in EnsureRecord /\ box[ensuring[c].bot].addr \in Nat
    BY DEF Inv, Typed, EnsureRecord, BoxRecord
  <2>5. PICK e \in EnsureRecord :
          e = [ensuring[c] EXCEPT !.step = s, !.addr = box[ensuring[c].bot].addr]
    BY <2>2 DEF EnsureRecord
  <2>3. e.step = s /\ e.step \notin Working
    BY <2>2, <2>5 DEF EnsureRecord, Working
  <2>4. ensuring' = [ensuring EXCEPT ![c] = e]
    BY <2>1, <2>5
  <2> QED
    BY <1>0, <1>2, <1>3, <2>1, <2>3, <2>4, InvTurn DEF Admitted
<1>9. CASE DockerFails(c)
  BY <1>0, <1>2, <1>3, <1>9, InvTo DEF DockerFails, Admitted
<1> QED
  BY <1>5, <1>6, <1>7, <1>8, <1>9

LEMMA InvServer ==
  ASSUME Inv, NEW c \in Callers, Locate(c) \/ Answered(c) \/ Failed(c) \/ TimesOut(c)
  PROVE  Inv'
<1> USE DEF dockerVars, supervisorVars
<1>1. CASE UNCHANGED supervisorVars
  BY <1>1, InvStutter DEF Locate, Answered, Failed, TimesOut, supervised
<1>2. ASSUME Locate(c), ~UNCHANGED supervisorVars
      PROVE  Inv'
  <2>1. /\ ensuring' = [ensuring EXCEPT ![c].step = "queued",
                                        ![c].overtaken = Ordered(caller[c].bot)]
        /\ lock' = Append(lock, c)
        /\ UNCHANGED <<box, profile, wiped, starts, order>>
    BY <1>2 DEF Locate
  <2> DEFINE e == [ensuring[c] EXCEPT !.step = "queued",
                                      !.overtaken = Ordered(caller[c].bot)]
  <2>2. ensuring[c] \in EnsureRecord
    BY DEF Inv, Typed
  <2>3. Ordered(caller[c].bot) \in BOOLEAN
    BY DEF Ordered
  <2>4. e \in EnsureRecord /\ e.step = "queued" /\ e.bot = ensuring[c].bot
    BY <2>2, <2>3 DEF EnsureRecord, Working
  <2>5. ensuring' = [ensuring EXCEPT ![c] = e]
    BY <2>1
  <2> HIDE DEF e
  <2>6. lock' \in Seq(Callers) /\ (lock # <<>> => lock' # <<>> /\ Head(lock') = Head(lock))
    BY <2>1 DEF Inv, Typed
  <2> QED
    BY <2>1, <2>4, <2>5, <2>6, InvNotes DEF Inv, Typed, Admitted
<1>3. ASSUME Answered(c) \/ Failed(c)
      PROVE  Inv'
  <2>1. /\ ensuring' = [ensuring EXCEPT ![c].step = "heard"]
        /\ UNCHANGED <<lock, box, profile, wiped, starts, order>>
    BY <1>3 DEF Answered, Failed
  <2> DEFINE e == [ensuring[c] EXCEPT !.step = "heard"]
  <2>2. ensuring[c] \in EnsureRecord
    BY DEF Inv, Typed
  <2>3. e \in EnsureRecord /\ e.step = "heard" /\ e.bot = ensuring[c].bot
    BY <2>2 DEF EnsureRecord
  <2>4. ensuring' = [ensuring EXCEPT ![c] = e]
    BY <2>1
  <2> HIDE DEF e
  <2> QED
    BY <2>1, <2>3, <2>4, InvNotes DEF Inv, Typed, Admitted
<1> QED
  BY <1>1, <1>2, <1>3 DEF TimesOut

\* What becomes of the orders.
LEMMA OrdersTyped ==
  ASSUME Inv, NEW o \in Orders,
         Invalidate(o) \/ Stop(o) \/ RemoveContainer(o) \/ RemoveVolume(o) \/ OrderFails(o)
  PROVE  order' \in [Orders -> OrderRecord]
<1>1. PICK s \in {"asked", "wiping", "done", "failed"}, n \in {order[o].gone, profile[order[o].bot]} :
        order' = [order EXCEPT ![o] = [@ EXCEPT !.step = s, !.gone = n]]
  <2>1. CASE RemoveContainer(o)
    BY <2>1 DEF RemoveContainer
  <2>2. CASE ~RemoveContainer(o)
    <3>1. PICK s \in {"asked", "done", "failed"} : order' = [order EXCEPT ![o].step = s]
      BY <2>2 DEF Invalidate, Stop, RemoveVolume, OrderFails
    <3>2. order[o] \in OrderRecord
      BY DEF Inv, Typed
    <3>3. [order[o] EXCEPT !.step = s] = [order[o] EXCEPT !.step = s, !.gone = order[o].gone]
      BY <3>2 DEF OrderRecord
    <3> QED
      BY <3>1, <3>3
  <2> QED
    BY <2>1, <2>2
<1>2. order[o] \in OrderRecord /\ n \in Nat
  BY DEF Inv, Typed, OrderRecord
<1>3. [order[o] EXCEPT !.step = s, !.gone = n] \in OrderRecord
  BY <1>2 DEF OrderRecord
<1> QED
  BY <1>1, <1>3 DEF Inv, Typed

LEMMA InvNext == Inv /\ [Next]_vars => Inv'
<1> SUFFICES ASSUME Inv, [Next]_vars PROVE Inv'
  OBVIOUS
<1> USE DEF dockerVars, supervisorVars, serverVars
<1>1. ASSUME NEW c \in Callers,
             Locate(c) \/ Hearing(c) \/ TimesOut(c) \/ Ensuring(c) \/ DockerFails(c)
      PROVE  Inv'
  BY <1>1, InvServer, InvReads, InvStart, InvCreateVolume, InvCreate DEF Hearing, Ensuring
<1>2. ASSUME NEW o \in Orders, Invalidate(o)
      PROVE  Inv'
  <2> DEFINE n == [c \in Callers |->
           IF ensuring[c].bot = order[o].bot /\ ensuring[c].step \in Working \cup {"answer"}
           THEN [ensuring[c] EXCEPT !.overtaken = TRUE] ELSE ensuring[c]]
  <2>1. ensuring' = n /\ UNCHANGED <<lock, box, profile, wiped, starts>>
    BY <1>2 DEF Invalidate
  <2>2. ASSUME NEW c \in Callers
        PROVE  /\ n[c] \in EnsureRecord
               /\ n[c].step = ensuring[c].step /\ n[c].bot = ensuring[c].bot
    BY DEF Inv, Typed, EnsureRecord
  <2>3. n \in [Callers -> EnsureRecord]
    BY <2>2
  <2> HIDE DEF n
  <2> QED
    BY <1>2, <2>1, <2>2, <2>3, InvNotes, OrdersTyped DEF Inv, Typed
<1>3. ASSUME NEW o \in Orders, Stop(o) \/ RemoveContainer(o)
      PROVE  Inv'
  <2> DEFINE b == order[o].bot
  <2>1. CASE UNCHANGED box
    <3>1. UNCHANGED <<ensuring, lock, profile, wiped, starts>>
      BY <1>3 DEF Stop, RemoveContainer
    <3> QED
      BY <1>3, <2>1, <3>1, OrdersTyped, InvNotes DEF Inv, Typed
  <2>2. CASE ~UNCHANGED box
    <3>2. b \in Bots
      BY DEF Inv, Typed, OrderRecord
    <3>4. box[b] \in BoxRecord
      BY <3>2 DEF Inv, Typed
    <3>5. NoBox \in BoxRecord /\ NoBox.status # "running"
      BY DEF BoxRecord, NoBox
    <3>6. PICK x \in BoxRecord : x = [box[b] EXCEPT !.status = "exited", !.addr = 0]
      BY <3>4 DEF BoxRecord
    <3>7. x.status # "running"
      BY <3>4, <3>6 DEF BoxRecord
    <3>1. PICK r \in {NoBox, x} : box' = [box EXCEPT ![b] = r]
      BY <1>3, <2>2, <3>6 DEF Stop, RemoveContainer
    <3>3. r \in BoxRecord /\ r.status # "running"
      BY <3>5, <3>7
    <3> QED
      BY <1>3, <3>1, <3>2, <3>3, InvRetire, OrdersTyped DEF Stop, RemoveContainer
  <2> QED
    BY <2>1, <2>2
<1>4. ASSUME NEW o \in Orders, RemoveVolume(o)
      PROVE  Inv'
  <2>1. UNCHANGED <<ensuring, lock, box, starts>>
    BY <1>4 DEF RemoveVolume
  <2>5. order[o].gone \in Nat /\ order[o].bot \in Bots
    BY DEF Inv, Typed, OrderRecord
  <2>2. profile' \in [Bots -> Nat] /\ wiped' \in [Bots -> Nat]
    BY <1>4, <2>5 DEF RemoveVolume, RemovedVolume, Inv, Typed
  <2>3. Typed'
    BY <1>4, <2>1, <2>2, OrdersTyped DEF Inv, Typed
  <2>4. Running' = Running
    BY <2>1 DEF Running
  <2> QED
    BY <2>1, <2>3, <2>4 DEF Inv, HasTurn, Turn, Reserved, HasCapacity, CapacityHeld
<1>5. ASSUME NEW o \in Orders, OrderFails(o)
      PROVE  Inv'
  <2>1. UNCHANGED <<ensuring, lock, box, profile, wiped, starts>>
    BY <1>5 DEF OrderFails
  <2> QED
    BY <1>5, <2>1, OrdersTyped, InvNotes DEF Inv, Typed
<1>6. ASSUME NEW b \in Bots, LeaseExpires(b)
      PROVE  Inv'
  BY <1>6, InvStutter DEF LeaseExpires, supervised
<1>7. CASE SupervisorRestarts
  <2>1. /\ lock' = <<>>
        /\ ensuring' = [c \in Callers |-> IF ensuring[c].step \in Working
                                          THEN [ensuring[c] EXCEPT !.step = "error"]
                                          ELSE ensuring[c]]
        /\ UNCHANGED <<box, profile, wiped, starts>>
        /\ order' = [o \in Orders |-> IF order[o].step = "wiping"
                                      THEN [order[o] EXCEPT !.step = "failed"] ELSE order[o]]
    BY <1>7 DEF SupervisorRestarts
  <2>2. \A c \in Callers : ensuring'[c].step \notin Admitted /\ ensuring'[c] \in EnsureRecord
    BY <2>1 DEF Inv, Typed, EnsureRecord, Admitted, Working
  <2>3. ensuring' \in [Callers -> EnsureRecord]
    BY <2>1, <2>2
  <2>6. \A o \in Orders : order'[o] \in OrderRecord
    BY <2>1 DEF Inv, Typed, OrderRecord
  <2>7. order' \in [Orders -> OrderRecord]
    BY <2>1, <2>6
  <2>4. Typed'
    BY <2>1, <2>3, <2>7 DEF Inv, Typed
  <2>5. Running' = Running
    BY <2>1 DEF Running
  <2> QED
    BY <2>2, <2>4, <2>5 DEF Inv, HasTurn, Reserved, CapacityHeld
<1>8. CASE UNCHANGED vars
  BY <1>8, InvStutter DEF vars, supervised
<1> QED
  BY <1>1, <1>2, <1>3, <1>4, <1>5, <1>6, <1>7, <1>8 DEF Next, Ordering

\* However ensures, stops, resets, failures and restarts interleave, no more than
\* COMPUTER_MAX_RUNNING computers run: one slot is not given twice.
THEOREM SlotsHeld == Spec => []CapacityHeld
<1>1. Inv /\ [Next]_vars => Inv'
  BY InvNext
<1>2. Inv => CapacityHeld
  BY DEF Inv
<1> QED
  BY <1>1, <1>2, InvInit, PTL DEF Spec

----------------------------------------------------------------------------
(* The other variables, and what is true of a container.                   *)

CallerRecord == [step : {"idle", "waiting", "answered", "failed"}, bot : Bots, on : Callers,
                 addr : Nat, floor : Nat, overtaken : BOOLEAN]
CachedRecord == [addr : Nat, overtaken : BOOLEAN]
Single == {s \in SUBSET Callers : Cardinality(s) <= 1}

ServerTyped ==
  /\ caller \in [Callers -> CallerRecord]
  /\ cached \in [Bots -> CachedRecord]
  /\ locating \in [Bots -> Single]
  /\ retired \in [Bots -> Nat] /\ faults \in 0..MaxFaults

\* A container has the address of its last start, and its profile while it is there.
Contained ==
  \A b \in Bots :
    /\ box[b].status = "running" => box[b].addr \in 1..starts
    /\ box[b].status # "absent" => box[b].profile = profile[b] /\ profile[b] > 0

Shape == Inv /\ ServerTyped /\ Contained

LEMMA ShapeIsType == Shape => TypeOK
BY DEF Shape, Inv, Typed, ServerTyped, Contained, TypeOK, CallerRecord, CachedRecord, Single,
       EnsureRecord, BoxRecord, OrderRecord

LEMMA Singles == {} \in Single /\ \A c \in Callers : {c} \in Single
<1>1. Cardinality({}) = 0 /\ \A c \in Callers : Cardinality({c}) = 1
  BY FS_EmptySet, FS_Singleton
<1> QED
  BY <1>1 DEF Single

LEMMA ShapeInit == Init => Shape
<1> SUFFICES ASSUME Init PROVE Shape
  OBVIOUS
<1>1. PICK scene \in Scenes : caller = [c \in Callers |->
        [step |-> "idle", bot |-> scene.bot[c], on |-> c, addr |-> 0, floor |-> 0,
         overtaken |-> FALSE]]
  BY DEF Init
<1>2. \A c \in Callers : scene.bot[c] \in Bots
  BY ScenesAssumption
<1>3. caller \in [Callers -> CallerRecord]
  BY <1>1, <1>2 DEF CallerRecord
<1>4. cached \in [Bots -> CachedRecord] /\ locating \in [Bots -> Single]
  BY Singles DEF Init, Nothing, CachedRecord
<1>5. ServerTyped
  BY <1>3, <1>4, LimitsAssumption DEF Init, ServerTyped
<1>6. Contained
  BY DEF Init, NoBox, Contained
<1> QED
  BY <1>5, <1>6, InvInit DEF Shape

\* What everybody who waits for a request hears keeps the records of the callers.
LEMMA TellTyped ==
  ASSUME Shape, NEW c \in Callers, NEW s \in {"answered", "failed"}, NEW a \in Nat, Tell(c, s, a)
  PROVE  caller' \in [Callers -> CallerRecord]
<1>1. ensuring[c].overtaken \in BOOLEAN
  BY DEF Shape, Inv, Typed, EnsureRecord
<1>2. ASSUME NEW w \in Callers, NEW over \in BOOLEAN
      PROVE  [caller[w] EXCEPT !.step = s, !.addr = a, !.overtaken = over] \in CallerRecord
  <2>1. caller[w] \in CallerRecord
    BY DEF Shape, ServerTyped
  <2> QED
    BY <2>1 DEF CallerRecord
<1>3. \A w \in Callers : caller'[w] \in CallerRecord
  BY <1>1, <1>2 DEF Tell, Shape, ServerTyped
<1> QED
  BY <1>3 DEF Tell

LEMMA ServerTypedNext == Shape /\ [Next]_vars => ServerTyped'
<1> SUFFICES ASSUME Shape, [Next]_vars PROVE ServerTyped'
  OBVIOUS
<1> USE DEF dockerVars, supervisorVars, serverVars
<1>a. \A c \in Callers : ensuring[c].bot \in Bots /\ ensuring[c].addr \in Nat
                         /\ ensuring[c].overtaken \in BOOLEAN
  BY DEF Shape, Inv, Typed, EnsureRecord
<1>b. \A o \in Orders : order[o].bot \in Bots
  BY DEF Shape, Inv, Typed, OrderRecord
<1>c. \A b \in Bots : box[b].addr \in Nat
  BY DEF Shape, Inv, Typed, BoxRecord
<1>d. Fault => faults' \in 0..MaxFaults
  BY LimitsAssumption DEF Fault, Shape, ServerTyped
<1>e. Nothing \in CachedRecord
  BY DEF Nothing, CachedRecord
<1>1. ASSUME NEW c \in Callers, Locate(c)
      PROVE  ServerTyped'
  <2> DEFINE b == caller[c].bot
  <2>1. caller[c] \in CallerRecord /\ b \in Bots
    BY DEF Shape, ServerTyped, CallerRecord
  <2>2. cached[b] \in CachedRecord /\ retired[b] \in Nat /\ locating[b] \subseteq Callers
    BY <2>1 DEF Shape, ServerTyped, Single
  <2>3. caller' \in [Callers -> CallerRecord]
    <3>1. CASE cached[b].addr # 0
      <4>1. [caller[c] EXCEPT !.step = "answered", !.addr = cached[b].addr,
                              !.floor = retired[b], !.overtaken = cached[b].overtaken] \in CallerRecord
        BY <2>1, <2>2 DEF CallerRecord, CachedRecord
      <4>2. caller' = [caller EXCEPT ![c] =
               [caller[c] EXCEPT !.step = "answered", !.addr = cached[b].addr,
                                 !.floor = retired[b], !.overtaken = cached[b].overtaken]]
        BY <1>1, <3>1 DEF Locate
      <4> QED
        BY <4>1, <4>2 DEF Shape, ServerTyped
    <3>2. CASE cached[b].addr = 0
      <4>1. PICK q \in Callers : caller' = [caller EXCEPT ![c] =
               [caller[c] EXCEPT !.step = "waiting", !.on = q, !.floor = retired[b]]]
        BY <1>1, <2>2, <3>2 DEF Locate
      <4>2. [caller[c] EXCEPT !.step = "waiting", !.on = q, !.floor = retired[b]] \in CallerRecord
        BY <2>1, <2>2 DEF CallerRecord
      <4> QED
        BY <4>1, <4>2 DEF Shape, ServerTyped
    <3> QED
      BY <3>1, <3>2
  <2>4. locating' \in [Bots -> Single]
    BY <1>1, Singles DEF Locate, Shape, ServerTyped
  <2> QED
    BY <1>1, <2>3, <2>4 DEF Locate, Shape, ServerTyped
<1>2. ASSUME NEW c \in Callers, Hearing(c) \/ TimesOut(c)
      PROVE  ServerTyped'
  <2>1. caller' \in [Callers -> CallerRecord]
    BY <1>2, <1>a, TellTyped DEF Hearing, Answered, Failed, TimesOut
  <2>2. locating' \in [Bots -> Single]
    BY <1>2, Singles DEF Hearing, Answered, Failed, TimesOut, Shape, ServerTyped
  <2>3. cached' \in [Bots -> CachedRecord]
    BY <1>2, <1>a DEF Hearing, Answered, Failed, TimesOut, Shape, ServerTyped, CachedRecord
  <2> QED
    BY <1>2, <1>d, <2>1, <2>2, <2>3 DEF Hearing, Answered, Failed, TimesOut, Shape, ServerTyped
<1>3. ASSUME NEW c \in Callers, Ensuring(c) \/ DockerFails(c)
      PROVE  ServerTyped'
  BY <1>3, <1>d DEF Ensuring, Admit, Inspect, CreateVolume, Create, StartGone, Start, Settle, DockerFails,
                    Shape, ServerTyped
<1>4. ASSUME NEW o \in Orders, Invalidate(o)
      PROVE  ServerTyped'
  BY <1>4, <1>b, <1>e, Singles DEF Invalidate, Forgotten, Shape, ServerTyped
<1>5. ASSUME NEW o \in Orders, Ordering(o) \/ OrderFails(o)
      PROVE  ServerTyped'
  <2>1. Retire(order[o].bot) => retired' \in [Bots -> Nat]
    BY <1>b, <1>c DEF Retire, Shape, ServerTyped
  <2> QED
    BY <1>5, <1>d, <2>1 DEF Ordering, Stop, RemoveContainer, RemoveVolume, OrderFails, Shape, ServerTyped
<1>6. ASSUME NEW b \in Bots, LeaseExpires(b)
      PROVE  ServerTyped'
  BY <1>6, <1>e DEF LeaseExpires, Shape, ServerTyped
<1>7. CASE SupervisorRestarts
  BY <1>7, <1>d DEF SupervisorRestarts, Shape, ServerTyped
<1>8. CASE UNCHANGED vars
  BY <1>8 DEF vars, Shape, ServerTyped
<1> QED
  BY <1>1, <1>2, <1>3, <1>4, <1>5, <1>6, <1>7, <1>8 DEF Next

LEMMA ContainedNext == Shape /\ [Next]_vars => Contained'
<1> SUFFICES ASSUME Shape, [Next]_vars PROVE Contained'
  OBVIOUS
<1> USE DEF dockerVars, supervisorVars, serverVars
<1>a. \A c \in Callers : ensuring[c].bot \in Bots
  BY DEF Shape, Inv, Typed, EnsureRecord
<1>b. \A o \in Orders : order[o].bot \in Bots
  BY DEF Shape, Inv, Typed, OrderRecord
<1>c. /\ box \in [Bots -> BoxRecord] /\ profile \in [Bots -> Nat]
      /\ wiped \in [Bots -> Nat] /\ starts \in Nat
  BY DEF Shape, Inv, Typed
<1>0. CASE UNCHANGED <<box, profile, starts>>
  BY <1>0 DEF Shape, Contained
<1>1. ASSUME NEW c \in Callers, Create(c), box[ensuring[c].bot].status = "absent"
      PROVE  Contained'
  <2> DEFINE b == ensuring[c].bot
             volume == Volume(b)
  <2>1. volume > 0
    BY <1>a, <1>c, VolumeType
  <2>2. /\ box' = [box EXCEPT ![b] = [status |-> "created", addr |-> 0, profile |-> volume]]
        /\ profile' = [profile EXCEPT ![b] = volume] /\ starts' = starts
    BY <1>1 DEF Create
  <2> HIDE DEF volume
  <2> QED
    BY <1>a, <1>c, <2>1, <2>2 DEF Shape, Contained
<1>5. ASSUME NEW c \in Callers, CreateVolume(c) PROVE Contained'
  <2>1. PICK b \in Bots : b = ensuring[c].bot
    BY <1>a
  <2>2. profile' = [profile EXCEPT ![b] = Volume(b)] /\ UNCHANGED <<box, starts>>
    BY <1>5, <2>1 DEF CreateVolume
  <2>3. box[b].status # "absent" => Volume(b) = profile[b]
    BY <1>c, VolumeType DEF Shape, Contained
  <2> QED
    BY <1>c, <2>2, <2>3, VolumeType DEF Shape, Contained
<1>2. ASSUME NEW c \in Callers, Start(c), box[ensuring[c].bot].status # "running"
      PROVE  Contained'
  <2> DEFINE b == ensuring[c].bot
  <2>1. /\ box' = [box EXCEPT ![b].status = "running", ![b].addr = starts + 1]
        /\ starts' = starts + 1 /\ profile' = profile /\ box[b].status # "absent"
    BY <1>2 DEF Start
  <2>2. b \in Bots /\ box[b] \in BoxRecord
    BY <1>a, <1>c
  <2>3. /\ box'[b].addr = starts + 1 /\ box'[b].profile = box[b].profile
        /\ \A d \in Bots : d # b => box'[d] = box[d]
    BY <1>c, <2>1, <2>2 DEF BoxRecord
  <2> QED
    BY <1>c, <2>1, <2>2, <2>3 DEF Shape, Contained
<1>3. ASSUME NEW o \in Orders, Stop(o) \/ RemoveContainer(o)
      PROVE  Contained'
  <2> DEFINE b == order[o].bot
  <2>1. b \in Bots /\ box[b] \in BoxRecord /\ UNCHANGED <<profile, starts>>
    BY <1>3, <1>b, <1>c DEF Stop, RemoveContainer
  <2>2. \/ UNCHANGED box
        \/ box' = [box EXCEPT ![b] = NoBox]
        \/ b \in Running /\ box' = [box EXCEPT ![b].status = "exited", ![b].addr = 0]
    BY <1>3 DEF Stop, RemoveContainer
  <2> QED
    BY <1>c, <2>1, <2>2 DEF Shape, Contained, NoBox, Running, BoxRecord
<1>4. ASSUME NEW o \in Orders, RemoveVolume(o)
      PROVE  Contained'
  BY <1>4, <1>b, <1>c DEF RemoveVolume, RemovedVolume, Shape, Contained
<1> QED
  BY <1>0, <1>1, <1>2, <1>3, <1>4, <1>5
     DEF Next, Locate, Hearing, Answered, Failed, TimesOut, Ensuring, Admit, Inspect, CreateVolume, Create, StartGone,
         Start, Settle, DockerFails, Invalidate, Ordering, OrderFails, LeaseExpires, SupervisorRestarts, vars

\* Whatever the server, the supervisor and Docker do, rows keep their shape, and neither a stop nor a
\* reset takes the profile from under a container that is there (RemoveVolume).
THEOREM TypeCorrect == Spec => []TypeOK
<1>1. Shape /\ [Next]_vars => Shape'
  BY ServerTypedNext, ContainedNext, InvNext DEF Shape
<1> QED
  BY <1>1, ShapeInit, ShapeIsType, PTL DEF Spec

----------------------------------------------------------------------------
(* The addresses that are handed out.                                      *)

\* What was not overtaken knows no stop or reset under way, and is younger than what
\* a finished one retired.
Young(addr, overtaken, b) == overtaken \/ (~Ordered(b) /\ addr > retired[b])

Boxes ==
  \A b \in Bots : retired[b] <= starts /\ (box[b].status = "running" => box[b].addr > retired[b])

Askers ==
  \A c \in Callers :
    /\ caller[c].bot = ensuring[c].bot
    /\ caller[c].step = "waiting" => ensuring[caller[c].on].bot = caller[c].bot
    /\ caller[c].floor <= retired[caller[c].bot]

Ensures ==
  \A c \in Callers :
    /\ ensuring[c].step \in Working => ensuring[c].overtaken \/ ~Ordered(ensuring[c].bot)
    /\ ensuring[c].step = "answer" => Young(ensuring[c].addr, ensuring[c].overtaken, ensuring[c].bot)

Leases ==
  \A b \in Bots :
    /\ \A q \in locating[b] : ensuring[q].bot = b
    /\ cached[b].addr # 0 => Young(cached[b].addr, cached[b].overtaken, b)

Fresh == Boxes /\ Askers /\ Ensures /\ Leases /\ StaleOnlyWhenOvertaken

LEMMA FreshInit == Init => Fresh
<1> SUFFICES ASSUME Init PROVE Fresh
  OBVIOUS
<1>1. PICK scene \in Scenes :
        /\ caller = [c \in Callers |->
            [step |-> "idle", bot |-> scene.bot[c], on |-> c, addr |-> 0, floor |-> 0,
             overtaken |-> FALSE]]
        /\ ensuring = [c \in Callers |->
            [step |-> "none", bot |-> scene.bot[c], tries |-> Attempts, addr |-> 0,
             overtaken |-> FALSE]]
  BY DEF Init
<1>2. \A c \in Callers : scene.bot[c] \in Bots
  BY ScenesAssumption
<1>3. Boxes /\ Leases
  BY DEF Init, Boxes, Leases, NoBox, Nothing
<1>4. ASSUME NEW c \in Callers
      PROVE  /\ caller[c].bot = ensuring[c].bot /\ caller[c].step = "idle"
             /\ caller[c].floor = 0 /\ retired[caller[c].bot] = 0 /\ ensuring[c].step = "none"
  <2>1. caller[c].bot \in Bots
    BY <1>1, <1>2
  <2> QED
    BY <1>1, <2>1 DEF Init
<1>5. Askers /\ Ensures /\ StaleOnlyWhenOvertaken
  BY <1>4 DEF Askers, Ensures, StaleOnlyWhenOvertaken, Working
<1> QED
  BY <1>3, <1>5 DEF Fresh

\* Types of what the records hold.
LEMMA Fields ==
  ASSUME Shape
  PROVE  /\ \A c \in Callers :
              /\ ensuring[c] \in EnsureRecord /\ ensuring[c].bot \in Bots
              /\ ensuring[c].addr \in Nat /\ ensuring[c].overtaken \in BOOLEAN
              /\ caller[c] \in CallerRecord /\ caller[c].bot \in Bots /\ caller[c].on \in Callers
              /\ caller[c].floor \in Nat /\ caller[c].addr \in Nat
         /\ \A b \in Bots : /\ retired[b] \in Nat /\ box[b] \in BoxRecord /\ box[b].addr \in Nat
                            /\ cached[b] \in CachedRecord /\ cached[b].addr \in Nat
                            /\ locating[b] \subseteq Callers
         /\ \A o \in Orders : order[o].bot \in Bots
         /\ starts \in Nat
BY DEF Shape, Inv, Typed, ServerTyped, EnsureRecord, CallerRecord, BoxRecord, CachedRecord,
       OrderRecord, Single

LEMMA FreshLocate ==
  ASSUME Shape, Fresh, NEW c \in Callers, Locate(c)
  PROVE  Fresh'
<1> USE DEF dockerVars, supervisorVars
<1> DEFINE b == caller[c].bot
<1>1. UNCHANGED <<cached, order, box, retired, starts>>
  BY DEF Locate
<1>2. b \in Bots /\ retired[b] \in Nat /\ ensuring[c].bot = b /\ locating[b] \subseteq Callers
  BY Fields DEF Fresh, Askers
<1>3. ensuring' = ensuring \/ ensuring' = [ensuring EXCEPT ![c].step = "queued",
                                                           ![c].overtaken = Ordered(b)]
  BY DEF Locate
<1>4. /\ \A d \in Callers : ensuring'[d].bot = ensuring[d].bot
      /\ \A d \in Callers : d # c => ensuring'[d] = ensuring[d]
      /\ \/ ensuring'[c] = ensuring[c]
         \/ (ensuring'[c].step = "queued" /\ (ensuring'[c].overtaken <=> Ordered(b)))
  <2>1. CASE ensuring' = ensuring
    BY <2>1
  <2>2. CASE ensuring' # ensuring
    <3> DEFINE over == Ordered(b)
    <3>1. ensuring' = [ensuring EXCEPT ![c] = [ensuring[c] EXCEPT !.step = "queued", !.overtaken = over]]
      BY <1>3, <2>2, Fields DEF Shape, Inv, Typed
    <3> HIDE DEF over
    <3>2. ensuring[c] \in EnsureRecord /\ ensuring \in [Callers -> EnsureRecord]
      BY DEF Shape, Inv, Typed
    <3>3. /\ \A d \in Callers : ensuring'[d].bot = ensuring[d].bot
          /\ \A d \in Callers : d # c => ensuring'[d] = ensuring[d]
          /\ ensuring'[c].step = "queued" /\ ensuring'[c].overtaken = over
      BY <3>1, <3>2 DEF EnsureRecord
    <3> QED
      BY <3>3 DEF over
  <2> QED
    BY <2>1, <2>2
<1>5. Boxes'
  BY <1>1 DEF Fresh, Boxes
<1>6. Ensures'
  <2>1. \A d \in Bots : Ordered(d)' <=> Ordered(d)
    BY <1>1 DEF Ordered
  <2>2. ASSUME NEW d \in Callers
        PROVE  /\ ensuring'[d].step \in Working => ensuring'[d].overtaken \/ ~Ordered(ensuring[d].bot)
               /\ ensuring'[d].step = "answer" => ensuring'[d] = ensuring[d]
    BY <1>2, <1>4 DEF Fresh, Ensures
  <2> QED
    BY <1>1, <1>4, <2>1, <2>2, Fields DEF Fresh, Ensures, Young
<1>7. \A q \in locating'[b] : q \in Callers /\ ensuring[q].bot = b
  <2>1. locating' = locating \/ locating' = [locating EXCEPT ![b] = {c}]
    BY DEF Locate
  <2>2. \A q \in locating[b] : q \in Callers /\ ensuring[q].bot = b
    BY <1>2 DEF Fresh, Leases
  <2>3. locating'[b] = locating[b] \/ locating'[b] = {c}
    BY <1>2, <2>1 DEF Shape, ServerTyped
  <2> QED
    BY <1>2, <2>2, <2>3
<1>8. \A d \in Bots : d # b => locating'[d] = locating[d]
  BY DEF Locate, Shape, ServerTyped
<1>9. Leases'
  <2>1. \A d \in Bots : \A q \in locating'[d] : ensuring'[q].bot = d
    BY <1>4, <1>7, <1>8, Fields DEF Fresh, Leases
  <2> QED
    BY <1>1, <2>1 DEF Fresh, Leases, Young, Ordered
<1>10. Askers' /\ StaleOnlyWhenOvertaken'
  <2>1. CASE cached[b].addr # 0
    <3>1. caller' = [caller EXCEPT ![c] =
             [caller[c] EXCEPT !.step = "answered", !.addr = cached[b].addr,
                               !.floor = retired[b], !.overtaken = cached[b].overtaken]]
      BY <2>1 DEF Locate
    <3>2. /\ caller'[c].step = "answered" /\ caller'[c].addr = cached[b].addr
          /\ caller'[c].floor = retired[b] /\ caller'[c].overtaken = cached[b].overtaken
          /\ caller'[c].bot = b
      BY <3>1, Fields DEF Shape, ServerTyped, CallerRecord
    <3>3. \A d \in Callers : d # c => caller'[d] = caller[d]
      BY <3>1 DEF Shape, ServerTyped
    <3>4. Young(cached[b].addr, cached[b].overtaken, b)
      BY <1>2, <2>1 DEF Fresh, Leases
    <3>5. caller'[c].addr <= caller'[c].floor => caller'[c].overtaken
      BY <1>2, <3>2, <3>4, Fields DEF Young
    <3>6. Askers'
      BY <1>1, <1>2, <1>4, <3>2, <3>3, Fields DEF Fresh, Askers
    <3> QED
      BY <3>3, <3>5, <3>6 DEF Fresh, StaleOnlyWhenOvertaken
  <2>2. CASE cached[b].addr = 0
    <3>1. PICK q \in Callers : /\ ensuring[q].bot = b
                               /\ caller' = [caller EXCEPT ![c] =
                                    [caller[c] EXCEPT !.step = "waiting", !.on = q,
                                                      !.floor = retired[b]]]
      BY <1>2, <2>2 DEF Locate, Fresh, Leases
    <3>2. /\ caller'[c].step = "waiting" /\ caller'[c].on = q
          /\ caller'[c].floor = retired[b] /\ caller'[c].bot = b
      BY <3>1, Fields DEF Shape, ServerTyped, CallerRecord
    <3>3. \A d \in Callers : d # c => caller'[d] = caller[d]
      BY <3>1 DEF Shape, ServerTyped
    <3>4. Askers'
      BY <1>1, <1>2, <1>4, <3>1, <3>2, <3>3, Fields DEF Fresh, Askers
    <3> QED
      BY <3>2, <3>3, <3>4 DEF Fresh, StaleOnlyWhenOvertaken
  <2> QED
    BY <2>1, <2>2
<1> QED
  BY <1>5, <1>6, <1>9, <1>10 DEF Fresh

\* Those who waited are told, and what they are told is as young as the answer.
LEMMA FreshTell ==
  ASSUME Shape, Fresh, NEW c \in Callers, NEW s \in {"answered", "failed"}, NEW a \in Nat,
         Tell(c, s, a), UNCHANGED <<retired, order>>,
         \A d \in Callers : ensuring'[d].bot = ensuring[d].bot,
         s = "answered" => Young(a, ensuring[c].overtaken, ensuring[c].bot)
  PROVE  Askers' /\ StaleOnlyWhenOvertaken'
<1>1. ASSUME NEW w \in Callers
      PROVE  \/ caller'[w] = caller[w]
             \/ /\ caller[w].step = "waiting" /\ caller[w].on = c
                /\ caller'[w].step = s /\ caller'[w].addr = a
                /\ caller'[w].overtaken = ensuring[c].overtaken
                /\ caller'[w].bot = caller[w].bot /\ caller'[w].floor = caller[w].floor
  BY Fields DEF Tell, CallerRecord
<1>2. Askers'
  BY <1>1, Fields DEF Fresh, Askers
<1>3. ASSUME NEW w \in Callers, caller'[w].step = "answered", caller'[w].addr <= caller'[w].floor
      PROVE  caller'[w].overtaken
  <2>1. CASE caller'[w] = caller[w]
    BY <1>3, <2>1 DEF Fresh, StaleOnlyWhenOvertaken
  <2>2. CASE caller'[w] # caller[w]
    <3>1. caller[w].bot = ensuring[c].bot /\ caller[w].floor <= retired[ensuring[c].bot]
      BY <1>1, <2>2 DEF Fresh, Askers
    <3>2. a <= caller[w].floor /\ s = "answered"
      BY <1>1, <1>3, <2>2
    <3>3. ~(a > retired[ensuring[c].bot])
      BY <3>1, <3>2, Fields
    <3> QED
      BY <1>1, <2>2, <3>2, <3>3 DEF Young
  <2> QED
    BY <2>1, <2>2
<1> QED
  BY <1>2, <1>3 DEF StaleOnlyWhenOvertaken

LEMMA FreshHearing ==
  ASSUME Shape, Fresh, NEW c \in Callers, Hearing(c) \/ TimesOut(c)
  PROVE  Fresh'
<1> USE DEF dockerVars, supervisorVars
<1> DEFINE b == ensuring[c].bot
<1>1. UNCHANGED <<order, box, retired, starts>>
  BY DEF Hearing, Answered, Failed, TimesOut
<1>2. ensuring' = ensuring \/ ensuring' = [ensuring EXCEPT ![c].step = "heard"]
  BY DEF Hearing, Answered, Failed, TimesOut
<1>3. \A d \in Callers : /\ ensuring'[d].bot = ensuring[d].bot
                         /\ ensuring'[d] = ensuring[d] \/ ensuring'[d].step = "heard"
  BY <1>2, Fields DEF Shape, Inv, Typed, EnsureRecord
<1>4. b \in Bots /\ locating' = [locating EXCEPT ![b] = {}]
  BY Fields DEF Hearing, Answered, Failed, TimesOut
<1>5. Boxes' /\ Ensures'
  BY <1>1, <1>3 DEF Fresh, Boxes, Ensures, Young, Ordered, Working
<1>6. /\ cached' = cached \/ (/\ cached' = [cached EXCEPT ![b] =
                                   [addr |-> ensuring[c].addr, overtaken |-> ensuring[c].overtaken]]
                              /\ ensuring[c].step = "answer")
  BY DEF Hearing, Answered, Failed, TimesOut
<1>7. ensuring[c].step = "answer" => Young(ensuring[c].addr, ensuring[c].overtaken, b)
  BY DEF Fresh, Ensures
<1>8. \A d \in Bots : cached'[d].addr # 0 => Young(cached'[d].addr, cached'[d].overtaken, d)
  BY <1>4, <1>6, <1>7 DEF Fresh, Leases, Shape, ServerTyped
<1>9. \A d \in Bots : \A q \in locating'[d] : ensuring'[q].bot = d
  BY <1>3, <1>4, Fields DEF Fresh, Leases, Shape, ServerTyped
<1>10. Leases'
  BY <1>1, <1>8, <1>9 DEF Leases, Young, Ordered
<1>11. Askers' /\ StaleOnlyWhenOvertaken'
  BY <1>1, <1>3, <1>7, Fields, FreshTell DEF Hearing, Answered, Failed, TimesOut
<1> QED
  BY <1>5, <1>10, <1>11 DEF Fresh

\* A step of an ensure: who is asked for, and whether it was overtaken, stays.
LEMMA FreshEnsuring ==
  ASSUME Shape, Fresh, NEW c \in Callers, Ensuring(c) \/ DockerFails(c)
  PROVE  Fresh'
<1> USE DEF dockerVars, supervisorVars, serverVars
<1> DEFINE b == ensuring[c].bot
<1>1. UNCHANGED <<caller, cached, locating, order, retired>>
  BY DEF Ensuring, Admit, Inspect, CreateVolume, Create, StartGone, Start, Settle, DockerFails
<1>2. b \in Bots /\ ensuring[c] \in EnsureRecord
  BY Fields
<1>3. /\ \A d \in Callers : d # c => ensuring'[d] = ensuring[d]
      /\ ensuring'[c].bot = b /\ ensuring'[c].overtaken = ensuring[c].overtaken
      /\ ensuring[c].step \in Working
      /\ ensuring'[c].step = "answer" =>
           box[b].status = "running" /\ ensuring'[c].addr = box[b].addr
  BY <1>2 DEF Ensuring, Admit, Inspect, CreateVolume, Create, StartGone, Start, Settle, DockerFails, To, Working,
              Shape, Inv, Typed, EnsureRecord
<1>4. /\ starts' >= starts
      /\ \A d \in Bots : box'[d].status = "running" =>
           (box'[d].addr = starts + 1 /\ starts' = starts + 1) \/ box'[d] = box[d]
  <2>1. CASE Create(c)
    BY <1>2, <2>1, Fields DEF Create, Shape, Inv, Typed
  <2>2. CASE Start(c)
    <3>1. CASE box[b].status = "running"
      BY <2>2, <3>1, Fields DEF Start
    <3>2. CASE box[b].status # "running"
      <4>1. /\ starts' = starts + 1
            /\ box' = [box EXCEPT ![b].status = "running", ![b].addr = starts + 1]
        BY <2>2, <3>2 DEF Start
      <4>2. box \in [Bots -> BoxRecord]
        BY DEF Shape, Inv, Typed
      <4>3. box'[b].addr = starts + 1 /\ \A d \in Bots : d # b => box'[d] = box[d]
        BY <1>2, <4>1, <4>2, Fields DEF BoxRecord
      <4>4. starts' >= starts
        BY <4>1, Fields
      <4> QED
        BY <1>2, <4>1, <4>3, <4>4
    <3> QED
      BY <3>1, <3>2
  <2>3. CASE ~Create(c) /\ ~Start(c)
    BY <2>3, Fields DEF Ensuring, Admit, Inspect, CreateVolume, StartGone, Settle, DockerFails
  <2> QED
    BY <2>1, <2>2, <2>3
<1>5. starts' \in Nat
  BY Fields DEF Ensuring, Admit, Inspect, CreateVolume, Create, StartGone, Start, Settle, DockerFails
<1>6. Boxes'
  BY <1>1, <1>4, <1>5, Fields DEF Fresh, Boxes
<1>7. Ensures'
  BY <1>1, <1>2, <1>3 DEF Fresh, Ensures, Boxes, Young, Ordered
<1>8. Askers' /\ Leases' /\ StaleOnlyWhenOvertaken'
  BY <1>1, <1>2, <1>3, Fields DEF Fresh, Askers, Leases, Young, Ordered, StaleOnlyWhenOvertaken
<1> QED
  BY <1>6, <1>7, <1>8 DEF Fresh

\* Whoever is still to answer, and the cache, learn of a stop or a reset before it begins.
LEMMA FreshInvalidate ==
  ASSUME Shape, Fresh, NEW o \in Orders, Invalidate(o)
  PROVE  Fresh'
<1> USE DEF dockerVars
<1> DEFINE b == order[o].bot
<1>1. /\ UNCHANGED <<caller, box, retired, starts>> /\ b \in Bots
      /\ cached' = [cached EXCEPT ![b] = Nothing] /\ locating' = [locating EXCEPT ![b] = {}]
      /\ order' = [order EXCEPT ![o].step = "asked"]
  BY Fields DEF Invalidate, Forgotten
<1>2. \A d \in Bots : d # b => (Ordered(d)' <=> Ordered(d))
  BY <1>1 DEF Ordered, Shape, Inv, Typed, OrderRecord
<1>3. ASSUME NEW c \in Callers
      PROVE  /\ ensuring'[c].bot = ensuring[c].bot /\ ensuring'[c].step = ensuring[c].step
             /\ ensuring'[c].addr = ensuring[c].addr
             /\ ensuring'[c].overtaken = ensuring[c].overtaken \/ ensuring'[c].overtaken = TRUE
             /\ ensuring[c].bot = b /\ ensuring[c].step \in Working \cup {"answer"}
                  => ensuring'[c].overtaken
  BY Fields DEF Invalidate, EnsureRecord
<1>4. Boxes' /\ StaleOnlyWhenOvertaken'
  BY <1>1 DEF Fresh, Boxes, StaleOnlyWhenOvertaken
<1>5. Askers'
  BY <1>1, <1>3, Fields DEF Fresh, Askers
<1>6. Ensures'
  BY <1>1, <1>2, <1>3, Fields DEF Fresh, Ensures, Young
<1>7. Leases'
  BY <1>1, <1>2, <1>3, Fields DEF Fresh, Leases, Young, Nothing, Shape, ServerTyped
<1> QED
  BY <1>4, <1>5, <1>6, <1>7 DEF Fresh

\* A stop or a reset retires an address only of a Bot it was ordered for.
LEMMA FreshOrdering ==
  ASSUME Shape, Fresh, NEW o \in Orders, Ordering(o) \/ OrderFails(o)
  PROVE  Fresh'
<1> USE DEF dockerVars, supervisorVars, serverVars
<1> DEFINE b == order[o].bot
<1>1. UNCHANGED <<caller, cached, locating, ensuring, starts>> /\ b \in Bots /\ Ordered(b)
  BY Fields DEF Ordering, Stop, RemoveContainer, RemoveVolume, OrderFails, Ordered
<1>2. \A d \in Bots : Ordered(d)' => Ordered(d)
  <2>1. \A p \in Orders : /\ order'[p].bot = order[p].bot
                          /\ p # o => order'[p] = order[p]
    BY DEF Ordering, Stop, RemoveContainer, RemoveVolume, OrderFails, Shape, Inv, Typed, OrderRecord
  <2>2. order[o].step \in {"asked", "wiping"}
    BY DEF Ordering, Stop, RemoveContainer, RemoveVolume, OrderFails
  <2> QED
    BY <2>1, <2>2 DEF Ordered
<1>3. /\ \A d \in Bots : d # b => retired'[d] = retired[d] /\ box'[d] = box[d]
      /\ retired'[b] = retired[b] \/ (box[b].status = "running" /\ retired'[b] = box[b].addr)
      /\ (box'[b] = box[b] /\ retired'[b] = retired[b]) \/ box'[b].status # "running"
  <2>1. CASE Stop(o)
    BY <1>1, <2>1, Fields DEF Stop, Retire, Running, Shape, ServerTyped, Inv, Typed, BoxRecord
  <2>2. CASE RemoveContainer(o)
    BY <1>1, <2>2, Fields DEF RemoveContainer, Retire, Running, NoBox, Shape, ServerTyped, Inv, Typed, BoxRecord
  <2>3. CASE RemoveVolume(o) \/ OrderFails(o)
    BY <2>3 DEF RemoveVolume, OrderFails
  <2> QED
    BY <2>1, <2>2, <2>3 DEF Ordering
<1>4. box[b].status = "running" => box[b].addr <= starts /\ box[b].addr > retired[b]
  BY <1>1, Fields DEF Shape, Contained, Fresh, Boxes
<1>5. retired'[b] \in Nat /\ retired[b] <= retired'[b] /\ retired'[b] <= starts
  BY <1>1, <1>3, <1>4, Fields DEF Fresh, Boxes
<1>6. Boxes'
  BY <1>1, <1>3, <1>4, <1>5, Fields DEF Fresh, Boxes
<1>7. \A d \in Bots : retired[d] <= retired'[d] /\ retired'[d] \in Nat
  BY <1>3, <1>5, Fields
<1>8. Askers' /\ StaleOnlyWhenOvertaken'
  BY <1>1, <1>7, Fields DEF Fresh, Askers, StaleOnlyWhenOvertaken
<1>9. \A d \in Bots : ~Ordered(d) => ~Ordered(d)' /\ retired'[d] = retired[d]
  BY <1>1, <1>2, <1>3
<1>10. Ensures' /\ Leases'
  BY <1>1, <1>9, Fields DEF Fresh, Ensures, Leases, Young
<1> QED
  BY <1>6, <1>8, <1>10 DEF Fresh

LEMMA FreshNext == Shape /\ Fresh /\ [Next]_vars => Fresh'
<1> SUFFICES ASSUME Shape, Fresh, [Next]_vars PROVE Fresh'
  OBVIOUS
<1> USE DEF dockerVars, supervisorVars, serverVars
<1>1. ASSUME NEW b \in Bots, LeaseExpires(b)
      PROVE  Fresh'
  BY <1>1 DEF LeaseExpires, Nothing, Fresh, Boxes, Askers, Ensures, Leases, Young, Ordered,
              StaleOnlyWhenOvertaken, Shape, ServerTyped
<1>2. CASE SupervisorRestarts
  <2>1. UNCHANGED <<caller, cached, locating, box, retired, starts>>
    BY <1>2 DEF SupervisorRestarts
  <2>2. \A d \in Bots : Ordered(d)' => Ordered(d)
    BY <1>2 DEF SupervisorRestarts, Ordered, Shape, Inv, Typed, OrderRecord
  <2>3. \A c \in Callers : /\ ensuring'[c].bot = ensuring[c].bot
                           /\ ensuring'[c] = ensuring[c] \/ ensuring'[c].step = "error"
    BY <1>2, Fields DEF SupervisorRestarts, EnsureRecord
  <2>4. Boxes' /\ StaleOnlyWhenOvertaken'
    BY <2>1 DEF Fresh, Boxes, StaleOnlyWhenOvertaken
  <2>5. Askers'
    BY <2>1, <2>3, Fields DEF Fresh, Askers
  <2>6. Ensures' /\ Leases'
    BY <2>1, <2>2, <2>3, Fields DEF Fresh, Ensures, Leases, Young, Working
  <2> QED
    BY <2>4, <2>5, <2>6 DEF Fresh
<1>3. CASE UNCHANGED vars
  BY <1>3 DEF vars, Fresh, Boxes, Askers, Ensures, Leases, Young, Ordered, StaleOnlyWhenOvertaken
<1> QED
  BY <1>1, <1>2, <1>3, FreshLocate, FreshHearing, FreshEnsuring, FreshInvalidate, FreshOrdering
     DEF Next

\* However stops and resets overlap the requests of the lease: an address that a computer had lost
\* before locate was called is handed out only by a request that overlapped the stop or the reset.
THEOREM OvertakenOnlyStale == Spec => []StaleOnlyWhenOvertaken
<1>1. Shape /\ Fresh /\ [Next]_vars => (Shape /\ Fresh)'
  BY FreshNext, ServerTypedNext, ContainedNext, InvNext DEF Shape
<1>2. Fresh => StaleOnlyWhenOvertaken
  BY DEF Fresh
<1> QED
  BY <1>1, <1>2, ShapeInit, FreshInit, PTL DEF Spec

----------------------------------------------------------------------------
(* What a container is built on *)

\* A profile without its container is new, or what a reset has left to remove, or failed to.
Leftover ==
  \A b \in Bots :
    box[b].status = "absent" /\ profile[b] # 0 /\ profile[b] <= wiped[b] =>
      \E o \in Orders : order[o].bot = b /\ order[o].step \in {"wiping", "failed"}

LEMMA LeftoverInit == Init => Leftover
BY DEF Init, Leftover

\* Orders that are neither begun nor ended by a step account for the same profiles.
LEMMA LeftoverStutter ==
  ASSUME Leftover,
         \A b \in Bots : box'[b].status = "absent" /\ profile'[b] # 0 /\ profile'[b] <= wiped[b] =>
                           box[b].status = "absent" /\ profile[b] # 0 /\ profile[b] <= wiped[b],
         UNCHANGED wiped,
         \A o \in Orders : /\ order'[o].bot = order[o].bot
                           /\ order[o].step \in {"wiping", "failed"}
                                => order'[o].step \in {"wiping", "failed"}
  PROVE  Leftover'
BY DEF Leftover

LEMMA LeftoverOrdering ==
  ASSUME Inv, Leftover, NEW o \in Orders, Invalidate(o) \/ Ordering(o) \/ OrderFails(o)
  PROVE  Leftover'
<1>0. /\ order \in [Orders -> OrderRecord] /\ box \in [Bots -> BoxRecord]
      /\ profile \in [Bots -> Nat] /\ wiped \in [Bots -> Nat]
  BY DEF Inv, Typed
<1>1. CASE Invalidate(o) \/ OrderFails(o)
  <2>1. /\ UNCHANGED <<box, profile, wiped>>
        /\ order' = [order EXCEPT ![o].step = "asked"] \/ order' = [order EXCEPT ![o].step = "failed"]
        /\ order' = [order EXCEPT ![o].step = "asked"] => order[o].step = "idle"
    BY <1>0, <1>1 DEF Invalidate, OrderFails, dockerVars, OrderRecord
  <2>2. \A p \in Orders : /\ order'[p].bot = order[p].bot
                          /\ order[p].step \in {"wiping", "failed"}
                               => order'[p].step \in {"wiping", "failed"}
    BY <1>0, <2>1 DEF OrderRecord
  <2>. QED
    BY <2>1, <2>2, LeftoverStutter
<1>2. CASE Stop(o)
  <2>1. \A p \in Orders : /\ order'[p].bot = order[p].bot
                          /\ order[p].step \in {"wiping", "failed"} => order'[p] = order[p]
    BY <1>0, <1>2 DEF Stop, OrderRecord
  <2>2. \A b \in Bots : box'[b].status = "absent" => box[b].status = "absent"
    BY <1>0, <1>2 DEF Stop, BoxRecord
  <2>3. UNCHANGED <<profile, wiped>>
    BY <1>2 DEF Stop
  <2>. QED
    BY <2>1, <2>2, <2>3, LeftoverStutter
<1>3. CASE RemoveContainer(o)
  <2>. DEFINE b == order[o].bot
  <2>1. /\ order[o].step = "asked" /\ b \in Bots
        /\ box' = [box EXCEPT ![b] = NoBox] /\ UNCHANGED <<profile, wiped>>
        /\ \A p \in Orders : p # o => order'[p] = order[p]
        /\ order'[o].bot = b
        /\ box[b].status # "absent" => order'[o].step = "wiping"
    BY <1>0, <1>3 DEF RemoveContainer, OrderRecord
  <2>2. \A a \in Bots : a # b => box'[a] = box[a]
    BY <1>0, <2>1
  <2>. HIDE DEF b
  <2>3. ASSUME NEW a \in Bots, box'[a].status = "absent", profile'[a] # 0, profile'[a] <= wiped'[a]
        PROVE  \E p \in Orders : order'[p].bot = a /\ order'[p].step \in {"wiping", "failed"}
    <3>1. CASE a = b /\ box[b].status # "absent"
      BY <2>1, <3>1
    <3>2. CASE a # b \/ box[b].status = "absent"
      <4>1. PICK p \in Orders : order[p].bot = a /\ order[p].step \in {"wiping", "failed"}
        BY <2>1, <2>2, <2>3, <3>2 DEF Leftover
      <4>. QED
        BY <2>1, <4>1
    <3>. QED
      BY <3>1, <3>2
  <2>. QED
    BY <2>3 DEF Leftover
<1>4. CASE RemoveVolume(o)
  <2>. DEFINE b == order[o].bot
  <2>1. /\ b \in Bots /\ UNCHANGED box
        /\ profile' = (IF box[b].status = "absent" THEN [profile EXCEPT ![b] = 0] ELSE profile)
        /\ \A p \in Orders : p # o => order'[p] = order[p]
        /\ \A a \in Bots : a # b => wiped'[a] = wiped[a]
    BY <1>0, <1>4 DEF RemoveVolume, RemovedVolume, OrderRecord
  <2>2. b = order[o].bot
    OBVIOUS
  <2>. HIDE DEF b
  <2>3. ASSUME NEW a \in Bots, box'[a].status = "absent", profile'[a] # 0, profile'[a] <= wiped'[a]
        PROVE  \E p \in Orders : order'[p].bot = a /\ order'[p].step \in {"wiping", "failed"}
    <3>1. a # b /\ profile'[a] = profile[a]
      BY <1>0, <2>1, <2>3
    <3>2. PICK p \in Orders : order[p].bot = a /\ order[p].step \in {"wiping", "failed"}
      BY <2>1, <2>3, <3>1 DEF Leftover
    <3>. QED
      BY <2>1, <2>2, <3>1, <3>2
  <2>. QED
    BY <2>3 DEF Leftover
<1>. QED
  BY <1>1, <1>2, <1>3, <1>4 DEF Ordering

LEMMA LeftoverNext == Inv /\ Leftover /\ [Next]_vars => Leftover'
<1>. SUFFICES ASSUME Inv, Leftover, [Next]_vars PROVE Leftover'
  OBVIOUS
<1>0. /\ order \in [Orders -> OrderRecord] /\ box \in [Bots -> BoxRecord]
      /\ profile \in [Bots -> Nat] /\ wiped \in [Bots -> Nat]
  BY DEF Inv, Typed
<1>1. CASE UNCHANGED <<box, profile, order, wiped>>
  BY <1>1, LeftoverStutter
<1>2. ASSUME NEW o \in Orders, Invalidate(o) \/ Ordering(o) \/ OrderFails(o)
      PROVE  Leftover'
  BY <1>2, LeftoverOrdering
<1>3. ASSUME NEW c \in Callers, Create(c) \/ Start(c)
      PROVE  Leftover'
  <2>1. \A b \in Bots : box'[b].status = "absent" => box[b].status = "absent"
    BY <1>0, <1>3 DEF Create, Start, BoxRecord
  <2>2. \A b \in Bots : box'[b].status = "absent" => profile'[b] = profile[b]
    <3>. DEFINE a == ensuring[c].bot
    <3>1. CASE Start(c)
      BY <3>1 DEF Start
    <3>2. CASE Create(c)
      <4>1. \A b \in Bots : b # a => profile'[b] = profile[b]
        BY <1>0, <3>2 DEF Create
      <4>2. a \in Bots /\ box'[a].status # "absent"
        BY <1>0, <3>2 DEF Create, Inv, Typed, EnsureRecord
      <4>3. PICK d \in Bots : d = a
        BY <4>2
      <4>. QED
        BY <4>1, <4>2, <4>3
    <3>. QED
      BY <1>3, <3>1, <3>2
  <2>3. UNCHANGED <<order, wiped>>
    BY <1>3 DEF Create, Start
  <2>. QED
    BY <2>1, <2>2, <2>3, LeftoverStutter
<1>5. ASSUME NEW c \in Callers, CreateVolume(c)
      PROVE  Leftover'
  <2>1. PICK a \in Bots : a = ensuring[c].bot
    BY DEF Inv, Typed, EnsureRecord
  <2>2. profile' = [profile EXCEPT ![a] = Volume(a)] /\ UNCHANGED <<box, order, wiped>>
    BY <1>5, <2>1 DEF CreateVolume
  <2>3. profile[a] = 0 => Volume(a) > wiped[a]
    BY <1>0, VolumeType
  <2>4. profile[a] # 0 => Volume(a) = profile[a]
    BY <1>0, VolumeType
  <2>5. \A b \in Bots : profile'[b] = profile[b] \/ profile'[b] > wiped[b]
    BY <1>0, <2>2, <2>3, <2>4
  <2>6. Volume(a) \in Nat
    BY <1>0, VolumeType
  <2>7. profile' \in [Bots -> Nat]
    BY <1>0, <2>2, <2>6
  <2>8. \A b \in Bots : profile'[b] <= wiped[b] => profile'[b] = profile[b]
    BY <1>0, <2>5, <2>7
  <2>. QED
    BY <2>2, <2>8, LeftoverStutter
<1>4. CASE SupervisorRestarts
  <2>1. UNCHANGED <<box, profile, wiped>>
    BY <1>4 DEF SupervisorRestarts, dockerVars
  <2>2. \A p \in Orders : /\ order'[p].bot = order[p].bot
                          /\ order[p].step \in {"wiping", "failed"}
                               => order'[p].step \in {"wiping", "failed"}
    BY <1>0, <1>4 DEF SupervisorRestarts, OrderRecord
  <2>. QED
    BY <2>1, <2>2, LeftoverStutter
<1>. QED
  BY <1>1, <1>2, <1>3, <1>4, <1>5
  DEF Next, vars, serverVars, supervisorVars, dockerVars, Locate, Hearing, Answered, Failed,
      TimesOut, Ensuring, Admit, Inspect, StartGone, Settle, DockerFails, LeaseExpires

\* The step property of BuiltClean.
CleanStep ==
  \A b \in Bots :
    box[b].status = "absent" /\ box'[b].status # "absent" /\ box'[b].profile <= wiped[b]
      => Ordered(b) \/ \E o \in Orders : order[o].bot = b /\ order[o].step = "failed"

LEMMA CleanNext == Inv /\ Leftover /\ [Next]_vars => CleanStep
<1>. SUFFICES ASSUME Inv, Leftover, [Next]_vars, NEW b \in Bots, box[b].status = "absent",
                     box'[b].status # "absent", box'[b].profile <= wiped[b]
              PROVE  Ordered(b) \/ \E o \in Orders : order[o].bot = b /\ order[o].step = "failed"
  BY DEF CleanStep
<1>0. /\ box \in [Bots -> BoxRecord] /\ profile \in [Bots -> Nat] /\ wiped \in [Bots -> Nat]
  BY DEF Inv, Typed
<1>1. PICK c \in Callers : Create(c)
  <2>1. ASSUME NEW c \in Callers, Start(c) PROVE FALSE
    BY <1>0, <2>1 DEF Start, BoxRecord
  <2>2. ASSUME NEW o \in Orders, Ordering(o) PROVE FALSE
    BY <1>0, <2>2 DEF Ordering, Stop, RemoveContainer, RemoveVolume, NoBox, Running, BoxRecord
  <2>3. ~UNCHANGED box
    OBVIOUS
  <2>. QED
    BY <2>1, <2>2, <2>3
    DEF Next, vars, serverVars, supervisorVars, dockerVars, Locate, Hearing, Answered, Failed,
        TimesOut, Ensuring, Admit, Inspect, CreateVolume, StartGone, Settle, DockerFails,
        LeaseExpires, Invalidate, OrderFails, SupervisorRestarts
<1>2. ensuring[c].bot = b
  BY <1>0, <1>1 DEF Create
<1>3. box'[b].profile = Volume(b)
  BY <1>0, <1>1, <1>2 DEF Create
<1>4. profile[b] # 0 /\ profile[b] <= wiped[b]
  BY <1>0, <1>3, VolumeType
<1>. QED
  BY <1>4 DEF Leftover, Ordered

\* The next request after a reset builds a clean computer: for any number of Bots,
\* callers and orders, a container is built on a profile that an answered reset meant
\* to remove only while another order is at work or after one failed.
THEOREM ResetsBuildClean == Spec => BuiltClean
<1>1. Spec => []Inv
  BY InvInit, InvNext, PTL DEF Spec
<1>2. Spec => []Leftover
  <2>1. Init => Inv /\ Leftover
    BY InvInit, LeftoverInit
  <2>2. Inv /\ Leftover /\ [Next]_vars => (Inv /\ Leftover)'
    BY InvNext, LeftoverNext
  <2>. QED
    BY <2>1, <2>2, PTL DEF Spec
<1>3. Inv /\ Leftover /\ [Next]_vars
        => [\A b \in Bots :
              box[b].status = "absent" /\ box'[b].status # "absent" /\ box'[b].profile <= wiped[b]
                => Ordered(b) \/ \E o \in Orders : order[o].bot = b /\ order[o].step = "failed"]_vars
  BY CleanNext DEF CleanStep
<1>. QED
  BY <1>1, <1>2, <1>3, PTL DEF Spec, BuiltClean

----------------------------------------------------------------------------
(* The chain of the ensures: whoever waits for a turn gets it.             *)

\* A caller asks once, and what it did not ask for the supervisor did not take up.
Unasked == \A c \in Callers : caller[c].step = "idle" => ensuring[c].step = "none"

LEMMA ChainInit == Init => ChainIsServed /\ Unasked
BY DEF Init, ChainIsServed, Unasked, Working

\* An ensure that comes in is the last of the chain.
LEMMA ChainGrows ==
  ASSUME Inv, ChainIsServed, NEW c \in Callers, ensuring[c].step \notin Working,
         ensuring'[c].step \in Working,
         \A d \in Callers \ {c} : ensuring'[d].step = ensuring[d].step,
         lock' = Append(lock, c)
  PROVE  ChainIsServed'
<1>1. lock \in Seq(Callers)
  BY DEF Inv, Typed
<1>2. /\ Len(lock') = Len(lock) + 1 /\ Len(lock) \in Nat /\ lock'[Len(lock) + 1] = c
      /\ \A i \in 1..Len(lock) : lock'[i] = lock[i] /\ lock[i] \in Callers
  BY <1>1
<1>3. \A i \in 1..Len(lock) : lock[i] # c
  BY DEF ChainIsServed
<1>4. ASSUME NEW d \in Callers
      PROVE  ensuring'[d].step \in Working <=> \E i \in 1..Len(lock') : lock'[i] = d
  <2>1. CASE d = c
    <3>1. Len(lock) + 1 \in 1..Len(lock')
      BY <1>2
    <3> QED BY <1>2, <2>1, <3>1
  <2>2. CASE d # c
    <3>1. ensuring'[d].step \in Working <=> \E i \in 1..Len(lock) : lock[i] = d
      BY <2>2 DEF ChainIsServed
    <3>2. ASSUME NEW i \in 1..Len(lock'), lock'[i] = d PROVE i \in 1..Len(lock)
      BY <1>2, <2>2, <3>2
    <3>3. \A i \in 1..Len(lock) : i \in 1..Len(lock')
      BY <1>2
    <3> QED BY <1>2, <3>1, <3>2, <3>3
  <2> QED BY <2>1, <2>2
<1>5. ASSUME NEW i \in 1..Len(lock'), NEW j \in 1..Len(lock'), lock'[i] = lock'[j] PROVE i = j
  <2>1. \A k \in 1..Len(lock') : k \in 1..Len(lock) \/ k = Len(lock) + 1
    BY <1>2
  <2> QED BY <1>2, <1>3, <1>5, <2>1 DEF ChainIsServed
<1> QED BY <1>4, <1>5 DEF ChainIsServed

\* Who has the turn and is over gives it to the next.
LEMMA ChainShrinks ==
  ASSUME Inv, ChainIsServed, NEW c \in Callers, Turn(c), ensuring'[c].step \notin Working,
         \A d \in Callers \ {c} : ensuring'[d].step = ensuring[d].step,
         lock' = Tail(lock)
  PROVE  ChainIsServed'
<1>1. lock \in Seq(Callers) /\ lock # <<>> /\ Head(lock) = c
  BY DEF Inv, Typed, Turn
<1>2. /\ Len(lock) \in Nat \ {0} /\ Len(lock') = Len(lock) - 1 /\ lock[1] = c
      /\ \A i \in 1..Len(lock') : lock'[i] = lock[i + 1]
  BY <1>1
<1>3. \A i \in 1..Len(lock') : i + 1 \in 1..Len(lock) /\ i + 1 # 1 /\ 1 \in 1..Len(lock)
  BY <1>2
<1>4. ASSUME NEW d \in Callers
      PROVE  ensuring'[d].step \in Working <=> \E i \in 1..Len(lock') : lock'[i] = d
  <2>1. CASE d = c
    <3>1. ASSUME NEW i \in 1..Len(lock'), lock'[i] = c PROVE FALSE
      BY <1>2, <1>3, <3>1 DEF ChainIsServed
    <3> QED BY <2>1, <3>1
  <2>2. CASE d # c
    <3>1. ensuring'[d].step \in Working <=> \E i \in 1..Len(lock) : lock[i] = d
      BY <2>2 DEF ChainIsServed
    <3>2. ASSUME NEW i \in 1..Len(lock), lock[i] = d
          PROVE  \E j \in 1..Len(lock') : lock'[j] = d
      <4>1. i # 1
        BY <1>2, <2>2, <3>2
      <4>2. PICK j \in 1..Len(lock') : j + 1 = i
        <5>1. i - 1 \in 1..Len(lock') /\ (i - 1) + 1 = i
          BY <1>2, <4>1
        <5> QED BY <5>1
      <4> QED BY <1>2, <3>2, <4>2
    <3> QED BY <1>2, <1>3, <3>1, <3>2
  <2> QED BY <2>1, <2>2
<1>5. ASSUME NEW i \in 1..Len(lock'), NEW j \in 1..Len(lock'), lock'[i] = lock'[j] PROVE i = j
  <2>1. i + 1 = j + 1
    BY <1>2, <1>3, <1>5 DEF ChainIsServed
  <2> QED BY <2>1
<1> QED BY <1>4, <1>5 DEF ChainIsServed

\* Whoever stays, or steps out of nothing into nothing, leaves the chain as it is.
LEMMA ChainStays ==
  ASSUME ChainIsServed, UNCHANGED lock,
         \A d \in Callers : ensuring'[d].step \in Working <=> ensuring[d].step \in Working
  PROVE  ChainIsServed'
BY DEF ChainIsServed

\* The steps of an ensure, and Docker failing it.
LEMMA ChainEnsuring ==
  ASSUME Inv, ChainIsServed, NEW c \in Callers, Ensuring(c) \/ DockerFails(c)
  PROVE  ChainIsServed'
<1>1. Turn(c) /\ ensuring[c].step \in Working
  BY DEF Inv, HasTurn, Ensuring, Admit, Inspect, CreateVolume, Create, StartGone, Start, Settle, DockerFails,
         Admitted, Working
<1>2. ensuring \in [Callers -> EnsureRecord]
  BY DEF Inv, Typed
<1>3. PICK s \in Working \cup {"answer", "refused", "error"} :
        /\ ensuring'[c].step = s
        /\ \A d \in Callers \ {c} : ensuring'[d].step = ensuring[d].step
        /\ lock' = IF s \in Working THEN lock ELSE Tail(lock)
  <2>1. ASSUME NEW s \in Working \cup {"answer", "refused", "error"}, To(c, s)
        PROVE  /\ ensuring'[c].step = s
               /\ \A d \in Callers \ {c} : ensuring'[d].step = ensuring[d].step
               /\ lock' = IF s \in Working THEN lock ELSE Tail(lock)
    BY <1>2, <2>1 DEF To, Released, EnsureRecord
  <2>2. CASE Admit(c) \/ Inspect(c)
    BY <2>1, <2>2 DEF Admit, Inspect, Working
  <2>3. CASE CreateVolume(c) \/ Create(c) \/ Start(c) \/ DockerFails(c)
    BY <2>1, <2>3 DEF CreateVolume, Create, Start, DockerFails, Working
  <2>4. CASE StartGone(c)
    <3>1. CASE ensuring[c].tries > 1
      BY <1>2, <2>4, <3>1 DEF StartGone, Working, EnsureRecord
    <3>2. CASE ~(ensuring[c].tries > 1)
      BY <2>1, <2>4, <3>2 DEF StartGone
    <3> QED BY <3>1, <3>2
  <2>5. CASE Settle(c)
    <3>1. PICK s \in {"answer", "refused"} :
            /\ ensuring' = [ensuring EXCEPT ![c].step = s,
                                            ![c].addr = box[ensuring[c].bot].addr]
            /\ lock' = Tail(lock)
      BY <2>5 DEF Settle, Released
    <3> QED BY <1>2, <3>1 DEF EnsureRecord, Working
  <2> QED BY <2>2, <2>3, <2>4, <2>5 DEF Ensuring
<1>4. CASE s \in Working
  <2>1. \A d \in Callers : ensuring'[d].step \in Working <=> ensuring[d].step \in Working
    BY <1>1, <1>3, <1>4
  <2> QED BY <1>3, <1>4, <2>1, ChainStays
<1>5. CASE s \notin Working
  BY <1>1, <1>3, <1>5, ChainShrinks
<1> QED BY <1>4, <1>5

LEMMA ChainNext == Shape /\ ChainIsServed /\ Unasked /\ [Next]_vars => ChainIsServed'
<1> SUFFICES ASSUME Shape, ChainIsServed, Unasked, [Next]_vars PROVE ChainIsServed'
  OBVIOUS
<1> USE DEF dockerVars, supervisorVars, serverVars
<1>0. Inv /\ ensuring \in [Callers -> EnsureRecord]
  BY DEF Shape, Inv, Typed
<1>1. CASE UNCHANGED <<ensuring, lock>>
  BY <1>1 DEF ChainIsServed
<1>2. ASSUME NEW c \in Callers, Locate(c), ~UNCHANGED <<ensuring, lock>> PROVE ChainIsServed'
  <2>1. /\ ensuring' = [ensuring EXCEPT ![c].step = "queued",
                                        ![c].overtaken = Ordered(caller[c].bot)]
        /\ lock' = Append(lock, c) /\ caller[c].step = "idle"
    BY <1>2 DEF Locate
  <2>2. /\ ensuring'[c].step = "queued"
        /\ \A d \in Callers \ {c} : ensuring'[d].step = ensuring[d].step
    BY <1>0, <2>1 DEF EnsureRecord
  <2>3. ensuring[c].step \notin Working /\ ensuring'[c].step \in Working
    BY <2>1, <2>2 DEF Unasked, Working
  <2> QED BY <1>0, <2>1, <2>2, <2>3, ChainGrows
<1>3. ASSUME NEW c \in Callers, Hearing(c) PROVE ChainIsServed'
  <2>1. /\ ensuring[c].step \notin Working /\ UNCHANGED lock
        /\ ensuring' = [ensuring EXCEPT ![c].step = "heard"]
    BY <1>3 DEF Hearing, Answered, Failed, Working
  <2>2. \A d \in Callers : ensuring'[d].step \in Working <=> ensuring[d].step \in Working
    BY <1>0, <2>1 DEF EnsureRecord, Working
  <2> QED BY <2>1, <2>2, ChainStays
<1>4. ASSUME NEW o \in Orders, Invalidate(o) PROVE ChainIsServed'
  <2>1. \A d \in Callers : ensuring'[d].step = ensuring[d].step
    BY <1>0, <1>4 DEF Invalidate, EnsureRecord
  <2> QED BY <1>4, <2>1, ChainStays DEF Invalidate
<1>5. CASE SupervisorRestarts
  <2>1. \A d \in Callers : ensuring'[d].step \notin Working
    BY <1>0, <1>5 DEF SupervisorRestarts, EnsureRecord, Working
  <2>2. 1..Len(lock') = {}
    BY <1>5 DEF SupervisorRestarts
  <2> QED BY <2>1, <2>2 DEF ChainIsServed
<1> QED
  BY <1>0, <1>1, <1>2, <1>3, <1>4, <1>5, ChainEnsuring
     DEF Next, TimesOut, Ordering, Stop, RemoveContainer, RemoveVolume, OrderFails, LeaseExpires, vars

LEMMA UnaskedNext == Shape /\ Unasked /\ [Next]_vars => Unasked'
<1> SUFFICES ASSUME Shape, Unasked, [Next]_vars, NEW d \in Callers, caller'[d].step = "idle"
             PROVE  ensuring'[d].step = "none"
  BY DEF Unasked
<1> USE DEF dockerVars, supervisorVars, serverVars
<1>0. ensuring \in [Callers -> EnsureRecord] /\ caller \in [Callers -> CallerRecord]
  BY DEF Shape, Inv, Typed, ServerTyped
<1>1. ASSUME caller[d].step = "idle", ensuring'[d].step = ensuring[d].step
      PROVE  ensuring'[d].step = "none"
  BY <1>1 DEF Unasked
<1>2. ASSUME NEW c \in Callers, Locate(c) PROVE ensuring'[d].step = "none"
  <2>1. caller'[c].step # "idle" /\ \A w \in Callers \ {c} : caller'[w] = caller[w]
    <3>1. caller[c] \in CallerRecord
      BY <1>0
    <3>2. CASE cached[caller[c].bot].addr # 0
      <4>1. PICK n, over : caller' = [caller EXCEPT ![c] =
               [@ EXCEPT !.step = "answered", !.addr = n, !.floor = retired[caller[c].bot],
                         !.overtaken = over]]
        BY <1>2, <3>2 DEF Locate
      <4> QED BY <1>0, <3>1, <4>1 DEF CallerRecord
    <3>3. CASE cached[caller[c].bot].addr = 0
      <4>1. PICK q : caller' = [caller EXCEPT ![c] =
               [@ EXCEPT !.step = "waiting", !.on = q, !.floor = retired[caller[c].bot]]]
        BY <1>2, <3>3 DEF Locate
      <4> QED BY <1>0, <3>1, <4>1 DEF CallerRecord
    <3> QED BY <3>2, <3>3
  <2>2. \A w \in Callers \ {c} : ensuring'[w] = ensuring[w]
    BY <1>0, <1>2 DEF Locate
  <2> QED BY <1>1, <2>1, <2>2
<1>3. ASSUME NEW c \in Callers, NEW s \in {"answered", "failed"}, NEW a, Tell(c, s, a)
      PROVE  caller[d].step = "idle"
  BY <1>0, <1>3 DEF Tell, CallerRecord
<1>4. ASSUME NEW c \in Callers, Hearing(c) \/ TimesOut(c) PROVE ensuring'[d].step = "none"
  <2>1. caller[d].step = "idle"
    BY <1>3, <1>4 DEF Hearing, Answered, Failed, TimesOut
  <2>2. ensuring[d].step = "none"
    BY <2>1 DEF Unasked
  <2>3. CASE Hearing(c)
    <3>1. ensuring' = [ensuring EXCEPT ![c].step = "heard"] /\ ensuring[c].step # "none"
      BY <2>3 DEF Hearing, Answered, Failed
    <3> QED BY <1>0, <2>2, <3>1
  <2> QED BY <1>4, <2>2, <2>3 DEF TimesOut
<1>5. ASSUME NEW c \in Callers, Ensuring(c) \/ DockerFails(c) PROVE ensuring'[d].step = "none"
  <2>1. caller[d].step = "idle" /\ ensuring[d].step = "none"
    BY <1>5 DEF Unasked, Ensuring, Admit, Inspect, CreateVolume, Create, StartGone, Start, Settle, DockerFails
  <2>2. ensuring[c].step # "none"
    BY <1>5 DEF Ensuring, Admit, Inspect, CreateVolume, Create, StartGone, Start, Settle, DockerFails, Working
  <2>3. ensuring'[d] = ensuring[d]
    BY <1>0, <1>5, <2>1, <2>2
       DEF Ensuring, Admit, Inspect, CreateVolume, Create, StartGone, Start, Settle, DockerFails, To
  <2> QED BY <2>1, <2>3
<1>6. ASSUME NEW o \in Orders, Invalidate(o) PROVE ensuring'[d].step = "none"
  BY <1>0, <1>1, <1>6 DEF Invalidate, EnsureRecord, Working
<1>7. CASE SupervisorRestarts
  BY <1>0, <1>1, <1>7 DEF SupervisorRestarts, EnsureRecord, Working, Unasked
<1>8. CASE UNCHANGED <<caller, ensuring>>
  BY <1>1, <1>8
<1> QED
  BY <1>2, <1>4, <1>5, <1>6, <1>7, <1>8
     DEF Next, Ordering, Stop, RemoveContainer, RemoveVolume, OrderFails, LeaseExpires, vars

\* withCapacityLock (supervisor/src/index.ts): the safety half of EnsuresEnd.  Each ensure that is
\* not over stands in the chain once and nobody else does, so the turn is never with an ensure that
\* has no step left, whatever throws and whenever the supervisor restarts.
THEOREM TurnsAreGivenBack == Spec => []ChainIsServed
<1>1. Spec => []Shape
  <2>1. Shape /\ [Next]_vars => Shape'
    BY ServerTypedNext, ContainedNext, InvNext DEF Shape
  <2> QED BY <2>1, ShapeInit, PTL DEF Spec
<1>2. Shape /\ ChainIsServed /\ Unasked /\ [Next]_vars => (ChainIsServed /\ Unasked)'
  BY ChainNext, UnaskedNext
<1> QED BY <1>1, <1>2, ChainInit, PTL DEF Spec

----------------------------------------------------------------------------
(* The browser of a computer: what the process of one container keeps of   *)
(* the browsers it launched, and who has the wheel (Browser)               *)

CONSTANTS Calls, MaxLaunches, MaxAsks, Budget
VARIABLES browser, live, starting, control, call, budget, refs, asked, sent, typed, moved, astray

Br == INSTANCE Browser

\* What the run of Browser checks, under the names it has there.
OneKnown == Br!OneKnown
SecretInItsField == Br!SecretInItsField
WheelRespected == Br!WheelRespected

\* What Browser assumes of its constants.
Bounded == /\ MaxLaunches \in Nat /\ MaxAsks \in Nat
           /\ Budget \in [Br!Kinds \cup {"takes", "faults"} -> Nat]

CallRecord == [kind : Br!Kinds, page : 0..MaxLaunches, secret : 0..MaxAsks,
               step : {"none", "reading", "clearing", "awaiting", "acting",
                       "closing", "deleting", "over"}]

Wheel == [holder : {"bot", "human"}, secret : 0..MaxAsks]

BrowserStates == {"none", "launching", "up", "broken", "closing", "exiting", "gone"}

BrowserTyped ==
  /\ Bounded
  /\ browser \in [Br!Launches -> BrowserStates] /\ live \in 0..MaxLaunches
  /\ starting \in 0..MaxLaunches /\ control \in Wheel
  /\ call \in [Calls -> CallRecord]
  /\ budget \in [Br!Kinds \cup {"takes", "faults"} -> Nat] /\ asked \in 0..MaxAsks
  /\ refs \in [Br!Launches -> SUBSET (1..MaxAsks)]
  /\ sent \in [Calls -> 0..MaxAsks] /\ typed \in [Calls -> 0..Br!Elsewhere]
  /\ moved \subseteq Calls /\ astray \subseteq {"overtaken", "leaked"}

LEMMA Assumed == BrowserTyped => MaxLaunches \in Nat /\ MaxAsks \in Nat
BY DEF BrowserTyped, Bounded

LEMMA TypedIsTypeOK == BrowserTyped => Br!TypeOK
BY DEF Br!TypeOK, BrowserTyped, CallRecord, Wheel, BrowserStates

LEMMA RecordTypes ==
  ASSUME MaxLaunches \in Nat, MaxAsks \in Nat
  PROVE  /\ Br!Idle \in CallRecord /\ Br!Released \in Wheel
         /\ \A r \in CallRecord : \A k \in Br!Kinds : [r EXCEPT !.kind = k] \in CallRecord
BY DEF Br!Idle, Br!Released, CallRecord, Wheel, Br!Kinds

LEMMA CallStepped ==
  ASSUME NEW r \in CallRecord,
         NEW st \in {"reading", "clearing", "awaiting", "acting", "closing", "deleting", "over"}
  PROVE  /\ [r EXCEPT !.step = st] \in CallRecord
         /\ [r EXCEPT !.step = st].step = st
         /\ [r EXCEPT !.step = st].page = r.page
         /\ [r EXCEPT !.step = st].kind = r.kind
         /\ [r EXCEPT !.step = st].secret = r.secret
BY DEF CallRecord

LEMMA CallSteppedOn ==
  ASSUME NEW r \in CallRecord, NEW p \in 0..MaxLaunches,
         NEW st \in {"reading", "clearing", "awaiting", "acting", "closing", "deleting", "over"}
  PROVE  /\ [r EXCEPT !.step = st, !.page = p] \in CallRecord
         /\ [r EXCEPT !.step = st, !.page = p].step = st
         /\ [r EXCEPT !.step = st, !.page = p].page = p
         /\ [r EXCEPT !.step = st, !.page = p].kind = r.kind
         /\ [r EXCEPT !.step = st, !.page = p].secret = r.secret
BY DEF CallRecord

\* What profiles.page does for a call: it goes on with the page, or waits for a
\* launch or a closing; only when nothing runs and nothing is launched, it launches.
Launching(k) ==
  /\ starting = 0 /\ live = 0 /\ browser[k] = "none"
  /\ starting' = k /\ browser' = [browser EXCEPT ![k] = "launching"]

LEMMA PageEffect ==
  ASSUME BrowserTyped, NEW c \in Calls, NEW r \in CallRecord, Br!Page(c, r)
  PROVE  \E st \in {"clearing", "awaiting", "acting"}, p \in 0..MaxLaunches :
           /\ call' = [call EXCEPT ![c] = [r EXCEPT !.step = st, !.page = p]]
           /\ st = "clearing" => p = live /\ live # 0 /\ browser[live] # "up"
           /\ p # 0
           /\ UNCHANGED <<browser, starting>> \/ \E k \in Br!Launches : Launching(k)
<1>1. CASE /\ Br!Joinable
           /\ call' = [call EXCEPT ![c] = [r EXCEPT !.step = "awaiting", !.page = starting]]
           /\ UNCHANGED <<browser, starting>>
  BY <1>1 DEF BrowserTyped, Br!Joinable
<1>2. CASE /\ ~Br!Joinable /\ live # 0
           /\ call' = [call EXCEPT ![c] =
                   [r EXCEPT !.step = IF browser[live] = "up" THEN "acting" ELSE "clearing",
                             !.page = live]]
           /\ UNCHANGED <<browser, starting>>
  BY <1>2 DEF BrowserTyped
<1>3. CASE /\ ~Br!Joinable /\ live = 0
           /\ \E k \in Br!Launches :
                Br!Begin(c, r, k) /\ browser' = [browser EXCEPT ![k] = "launching"]
  <2>1. PICK k \in Br!Launches : /\ Br!Begin(c, r, k)
                                 /\ browser' = [browser EXCEPT ![k] = "launching"]
    BY <1>3
  <2>2. Launching(k) /\ call' = [call EXCEPT ![c] = [r EXCEPT !.step = "awaiting", !.page = k]]
    BY <1>3, <2>1 DEF Br!Begin, Launching, Br!Joinable
  <2>3. k \in 0..MaxLaunches /\ k # 0
    BY Assumed DEF Br!Launches
  <2> QED BY <2>2, <2>3
<1> QED BY <1>1, <1>2, <1>3 DEF Br!Page

----------------------------------------------------------------------------
(* Types of the browser *)

LEMMA BudgetType ==
  ASSUME budget \in [Br!Kinds \cup {"takes", "faults"} -> Nat], NEW what, Br!Spend(what)
  PROVE  budget' \in [Br!Kinds \cup {"takes", "faults"} -> Nat]
<1>1. CASE what \in Br!Kinds \cup {"takes", "faults"}
  BY <1>1 DEF Br!Spend
<1>2. CASE what \notin Br!Kinds \cup {"takes", "faults"}
  BY <1>2 DEF Br!Spend
<1> QED BY <1>1, <1>2

LEMMA TurnedType ==
  ASSUME BrowserTyped, NEW to \in Wheel, Br!Turned(to)
  PROVE  control' \in Wheel /\ moved' \subseteq Calls
BY DEF BrowserTyped, Br!Turned

\* The one call that a step of its own moves on.
LEMMA OneCallType ==
  ASSUME BrowserTyped, NEW c \in Calls, NEW r \in CallRecord, call' = [call EXCEPT ![c] = r]
  PROVE  call' \in [Calls -> CallRecord]
BY DEF BrowserTyped

LEMMA PageType ==
  ASSUME BrowserTyped, NEW c \in Calls, NEW r \in CallRecord, Br!Page(c, r)
  PROVE  /\ call' \in [Calls -> CallRecord] /\ starting' \in 0..MaxLaunches
         /\ browser' \in [Br!Launches -> BrowserStates]
<1>1. PICK st \in {"clearing", "awaiting", "acting"}, p \in 0..MaxLaunches :
         /\ call' = [call EXCEPT ![c] = [r EXCEPT !.step = st, !.page = p]]
         /\ UNCHANGED <<browser, starting>> \/ \E k \in Br!Launches : Launching(k)
  BY PageEffect
<1>2. [r EXCEPT !.step = st, !.page = p] \in CallRecord
  BY CallSteppedOn
<1>3. call' \in [Calls -> CallRecord]
  BY <1>1, <1>2, OneCallType
<1>4. CASE UNCHANGED <<browser, starting>>
  BY <1>3, <1>4 DEF BrowserTyped
<1>5. ASSUME NEW k \in Br!Launches, Launching(k)
      PROVE  starting' \in 0..MaxLaunches /\ browser' \in [Br!Launches -> BrowserStates]
  <2>1. k \in 0..MaxLaunches
    BY Assumed DEF Br!Launches
  <2> QED BY <1>5, <2>1 DEF Launching, BrowserTyped, BrowserStates
<1> QED BY <1>1, <1>3, <1>4, <1>5

LEMMA SettleType ==
  ASSUME BrowserTyped, NEW k, NEW st \in {"acting", "over"}, Br!Settle(k, st)
  PROVE  call' \in [Calls -> CallRecord] /\ starting' \in 0..MaxLaunches
<1>1. \A c \in Calls : [call[c] EXCEPT !.step = st] \in CallRecord /\ call[c] \in CallRecord
  BY CallStepped DEF BrowserTyped
<1> QED BY <1>1, Assumed DEF Br!Settle

LEMMA BrowserTypeNext == BrowserTyped /\ [Br!Next]_(Br!vars) => BrowserTyped'
<1> SUFFICES ASSUME BrowserTyped, [Br!Next]_(Br!vars) PROVE BrowserTyped'
  OBVIOUS
<1>0. /\ \A c \in Calls : call[c] \in CallRecord
      /\ Br!Idle \in CallRecord /\ Br!Released \in Wheel /\ Br!Supplied \in Wheel
  BY RecordTypes, Assumed DEF BrowserTyped, Br!Supplied, Wheel
<1>01. \A c \in Calls : [call[c] EXCEPT !.step = "over"] \in CallRecord
  BY <1>0, Assumed, CallStepped
<1>1. ASSUME NEW k \in Br!Launches, Br!Launched(k) PROVE BrowserTyped'
  <2>1. call' \in [Calls -> CallRecord] /\ starting' \in 0..MaxLaunches
    BY <1>1, SettleType DEF Br!Launched
  <2>2. browser' \in [Br!Launches -> BrowserStates]
    BY <1>1 DEF Br!Launched, BrowserTyped, BrowserStates
  <2>3. live' \in 0..MaxLaunches
    BY <1>1, Assumed DEF Br!Launched, Br!Launches
  <2> QED BY <1>1, <2>1, <2>2, <2>3 DEF Br!Launched, BrowserTyped
<1>2. ASSUME NEW k \in Br!Launches, Br!LaunchFails(k) PROVE BrowserTyped'
  <2>1. call' \in [Calls -> CallRecord] /\ starting' \in 0..MaxLaunches
    BY <1>2, SettleType DEF Br!LaunchFails
  <2>2. browser' \in [Br!Launches -> BrowserStates] /\ astray' \subseteq {"overtaken", "leaked"}
    BY <1>2 DEF Br!LaunchFails, BrowserTyped, BrowserStates
  <2>3. control' \in Wheel
    BY <1>0, <1>2 DEF Br!LaunchFails, BrowserTyped
  <2>4. budget' \in [Br!Kinds \cup {"takes", "faults"} -> Nat]
    BY <1>2, BudgetType DEF Br!LaunchFails, BrowserTyped
  <2> QED BY <1>2, <2>1, <2>2, <2>3, <2>4 DEF Br!LaunchFails, BrowserTyped
<1>3. ASSUME NEW k \in Br!Launches, Br!Break(k) PROVE BrowserTyped'
  <2>1. browser' \in [Br!Launches -> BrowserStates]
    BY <1>3 DEF Br!Break, BrowserTyped, BrowserStates
  <2>2. budget' \in [Br!Kinds \cup {"takes", "faults"} -> Nat]
    BY <1>3, BudgetType DEF Br!Break, BrowserTyped
  <2> QED BY <1>3, <2>1, <2>2 DEF Br!Break, Br!Leave, BrowserTyped
<1>18. ASSUME NEW k \in Br!Launches, Br!Turn(k) \/ Br!Exited(k) PROVE BrowserTyped'
  <2>1. browser' \in [Br!Launches -> BrowserStates]
    BY <1>18 DEF Br!Turn, Br!Exited, BrowserTyped, BrowserStates
  <2>2. refs' \in [Br!Launches -> SUBSET (1..MaxAsks)]
    BY <1>18 DEF Br!Turn, Br!Exited, Br!Leave, BrowserTyped
  <2> QED BY <1>18, <2>1, <2>2 DEF Br!Turn, Br!Exited, BrowserTyped
<1>4. ASSUME NEW c \in Calls, Br!BotActs(c) PROVE BrowserTyped'
  <2>1. budget' \in [Br!Kinds \cup {"takes", "faults"} -> Nat]
    BY <1>4, BudgetType DEF Br!BotActs, BrowserTyped
  <2> QED BY <1>0, <1>4, <2>1, PageType DEF Br!BotActs, BrowserTyped
<1>5. ASSUME NEW c \in Calls, Br!HumanActs(c) PROVE BrowserTyped'
  <2>1. budget' \in [Br!Kinds \cup {"takes", "faults"} -> Nat]
    BY <1>5, BudgetType DEF Br!HumanActs, BrowserTyped
  <2>2. [Br!Idle EXCEPT !.kind = "human", !.step = "reading"] \in CallRecord
    BY <1>0 DEF CallRecord, Br!Kinds
  <2>3. call' \in [Calls -> CallRecord]
    BY <1>5, <2>2, OneCallType DEF Br!HumanActs
  <2> QED BY <1>5, <2>1, <2>3 DEF Br!HumanActs, BrowserTyped
<1>6. ASSUME NEW c \in Calls, Br!SupplySecret(c) PROVE BrowserTyped'
  <2>1. budget' \in [Br!Kinds \cup {"takes", "faults"} -> Nat]
    BY <1>6, BudgetType DEF Br!SupplySecret, BrowserTyped
  <2>2. control.secret \in 0..MaxAsks
    BY DEF BrowserTyped, Wheel
  <2>3. [Br!Idle EXCEPT !.kind = "secret", !.step = "reading", !.secret = control.secret]
          \in CallRecord
    BY <1>0, <2>2 DEF CallRecord, Br!Kinds
  <2>4. call' \in [Calls -> CallRecord]
    BY <1>6, <2>3, OneCallType DEF Br!SupplySecret
  <2>5. sent' \in [Calls -> 0..MaxAsks]
    BY <1>6, <2>2 DEF Br!SupplySecret, BrowserTyped
  <2> QED BY <1>6, <2>1, <2>4, <2>5 DEF Br!SupplySecret, BrowserTyped
<1>7. ASSUME NEW c \in Calls, Br!Read(c) PROVE BrowserTyped'
  <2>1. CASE Br!Page(c, call[c])
    BY <1>0, <1>7, <2>1, PageType DEF Br!Read, BrowserTyped
  <2>2. CASE call' = [call EXCEPT ![c].step = "over"] /\ UNCHANGED <<browser, starting>>
    <3>1. call' \in [Calls -> CallRecord]
      BY <1>01, <2>2, OneCallType
    <3> QED BY <1>7, <2>2, <3>1 DEF Br!Read, BrowserTyped
  <2> QED BY <1>7, <2>1, <2>2 DEF Br!Read
<1>8. ASSUME NEW c \in Calls, Br!Cleared(c) PROVE BrowserTyped'
  <2>1. PICK k \in Br!Launches :
          /\ Br!Begin(c, call[c], k)
          /\ browser' = [browser EXCEPT ![call[c].page] = IF browser[call[c].page] = "broken"
                                                     THEN "exiting" ELSE browser[call[c].page],
                                   ![k] = "launching"]
    BY <1>8 DEF Br!Cleared
  <2>2. k \in 0..MaxLaunches
    BY Assumed DEF Br!Launches
  <2>3. [call[c] EXCEPT !.step = "awaiting", !.page = k] \in CallRecord
    BY <1>0, <2>2, CallSteppedOn
  <2>4. call' \in [Calls -> CallRecord] /\ starting' \in 0..MaxLaunches
    BY <2>1, <2>2, <2>3, OneCallType DEF Br!Begin
  <2>5. browser' \in [Br!Launches -> BrowserStates]
    BY <2>1 DEF BrowserTyped, BrowserStates
  <2>6. live' \in 0..MaxLaunches /\ astray' \subseteq {"overtaken", "leaked"}
    BY <1>8, Assumed DEF Br!Cleared, BrowserTyped
  <2> QED BY <1>8, <2>4, <2>5, <2>6 DEF Br!Cleared, BrowserTyped
<1>9. ASSUME NEW c \in Calls, Br!Act(c) PROVE BrowserTyped'
  <2>1. call' \in [Calls -> CallRecord]
    BY <1>01, <1>9, OneCallType DEF Br!Act
  <2> QED BY <1>9, <2>1 DEF Br!Act, BrowserTyped
<1>10. ASSUME NEW c \in Calls, Br!Type(c) PROVE BrowserTyped'
  <2>1. call' \in [Calls -> CallRecord]
    BY <1>01, <1>10, OneCallType DEF Br!Type
  <2>2. typed' \in [Calls -> 0..Br!Elsewhere]
    <3>1. Br!Field(c) \in 0..Br!Elsewhere
      BY <1>0, Assumed DEF Br!Field, Br!Ref, Br!Elsewhere, CallRecord
    <3> QED BY <1>10, <3>1 DEF Br!Type, BrowserTyped
  <2>3. control' \in Wheel
    BY <1>0, <1>10 DEF Br!Type
  <2> QED BY <1>10, <2>1, <2>2, <2>3 DEF Br!Type, BrowserTyped
<1>11. ASSUME NEW c \in Calls, NEW kind \in {"stop", "reset"}, Br!Stop(c, kind) PROVE BrowserTyped'
  <2> DEFINE r == [Br!Idle EXCEPT !.kind = kind]
  <2>0. r \in CallRecord /\ live \in 0..MaxLaunches
    BY <1>0 DEF CallRecord, Br!Kinds, BrowserTyped
  <2>1. /\ [r EXCEPT !.step = "closing", !.page = live] \in CallRecord
        /\ [r EXCEPT !.step = "over"] \in CallRecord
        /\ [r EXCEPT !.step = "deleting"] \in CallRecord
    BY <2>0, CallStepped, CallSteppedOn
  <2>2. budget' \in [Br!Kinds \cup {"takes", "faults"} -> Nat]
    BY <1>11, BudgetType DEF Br!Stop, BrowserTyped
  <2>3. \/ call' = [call EXCEPT ![c] = [r EXCEPT !.step = "closing", !.page = live]]
        \/ call' = [call EXCEPT ![c] = [r EXCEPT !.step = "over"]]
        \/ call' = [call EXCEPT ![c] = [r EXCEPT !.step = "deleting"]]
    BY <1>11 DEF Br!Stop
  <2>4. call' \in [Calls -> CallRecord]
    BY <2>1, <2>3, OneCallType
  <2>5. control' \in Wheel /\ moved' \subseteq Calls
    <3>1. Br!Turned(Br!Released) \/ UNCHANGED <<control, moved>>
      BY <1>11 DEF Br!Stop
    <3> QED BY <1>0, <3>1, TurnedType DEF BrowserTyped
  <2>6. browser' \in [Br!Launches -> BrowserStates]
    BY <1>11 DEF Br!Stop, BrowserTyped, BrowserStates
  <2>7. live' \in 0..MaxLaunches
    BY <1>11, Assumed DEF Br!Stop
  <2>8. refs' \in [Br!Launches -> SUBSET (1..MaxAsks)]
    BY <1>11 DEF Br!Stop, Br!Leave, BrowserTyped
  <2> QED BY <1>11, <2>2, <2>4, <2>5, <2>6, <2>7, <2>8 DEF Br!Stop, BrowserTyped
<1>12. ASSUME NEW c \in Calls, Br!Closed(c) PROVE BrowserTyped'
  <2>1. [call[c] EXCEPT !.step = "deleting"] \in CallRecord
    BY <1>0, Assumed, CallStepped
  <2>2. call' \in [Calls -> CallRecord]
    BY <1>01, <1>12, <2>1, OneCallType DEF Br!Closed
  <2>3. control' \in Wheel /\ moved' \subseteq Calls
    BY <1>0, <1>12, TurnedType DEF Br!Closed, BrowserTyped
  <2>4. browser' \in [Br!Launches -> BrowserStates]
    BY <1>12 DEF Br!Closed, BrowserTyped, BrowserStates
  <2> QED BY <1>12, <2>2, <2>3, <2>4 DEF Br!Closed, BrowserTyped
<1>13. ASSUME NEW c \in Calls, Br!Deleted(c) PROVE BrowserTyped'
  <2>1. call' \in [Calls -> CallRecord]
    BY <1>01, <1>13, OneCallType DEF Br!Deleted
  <2>2. control' \in Wheel /\ moved' \subseteq Calls
    BY <1>0, <1>13, TurnedType DEF Br!Deleted
  <2> QED BY <1>13, <2>1, <2>2 DEF Br!Deleted, BrowserTyped
<1>14. CASE Br!Take
  <2>1. [holder |-> "human", secret |-> 0] \in Wheel
    BY Assumed DEF Wheel
  <2>2. control' \in Wheel /\ moved' \subseteq Calls
    BY <1>14, <2>1, TurnedType DEF Br!Take
  <2>3. budget' \in [Br!Kinds \cup {"takes", "faults"} -> Nat]
    BY <1>14, BudgetType DEF Br!Take, BrowserTyped
  <2> QED BY <1>14, <2>2, <2>3 DEF Br!Take, BrowserTyped
<1>15. CASE Br!Release
  <2>1. control' \in Wheel /\ moved' \subseteq Calls
    BY <1>0, <1>15, TurnedType DEF Br!Release
  <2> QED BY <1>15, <2>1 DEF Br!Release, BrowserTyped
<1>16. CASE Br!RequestSecret
  <2>1. Br!NextAsk \in 0..MaxAsks
    BY <1>16, Assumed DEF Br!RequestSecret, Br!NextAsk, BrowserTyped
  <2>2. [control EXCEPT !.secret = Br!NextAsk] \in Wheel
    BY <2>1 DEF Wheel, BrowserTyped
  <2>3. refs' \in [Br!Launches -> SUBSET (1..MaxAsks)]
    <3>1. Br!NextAsk \in 1..MaxAsks
      BY <1>16, Assumed DEF Br!RequestSecret, Br!NextAsk, BrowserTyped
    <3> QED BY <1>16, <3>1 DEF Br!RequestSecret, BrowserTyped
  <2> QED BY <1>16, <2>1, <2>2, <2>3 DEF Br!RequestSecret, BrowserTyped
<1>17. CASE UNCHANGED Br!vars
  BY <1>17 DEF Br!vars, BrowserTyped
<1> QED
  BY <1>1, <1>2, <1>3, <1>4, <1>5, <1>6, <1>7, <1>8, <1>9, <1>10, <1>11, <1>12, <1>13,
     <1>14, <1>15, <1>16, <1>17, <1>18 DEF Br!Next

LEMMA BrowserTypeInit == Bounded /\ Br!Init => BrowserTyped
<1> SUFFICES ASSUME Bounded, Br!Init PROVE BrowserTyped
  OBVIOUS
<1>1. Br!Idle \in CallRecord /\ Br!Released \in Wheel /\ 0 \in 0..Br!Elsewhere
  BY RecordTypes DEF Bounded, Br!Elsewhere
<1> QED BY <1>1 DEF Br!Init, Bounded, BrowserTyped, BrowserStates

\* Every map and call keeps its shape (profiles.ts, control.ts, index.ts).
THEOREM BrowserTypeCorrect == Bounded => (Br!Spec => []Br!TypeOK)
<1>1. Bounded /\ Br!Spec => []BrowserTyped
  BY BrowserTypeInit, BrowserTypeNext, PTL DEF Br!Spec
<1> QED BY <1>1, TypedIsTypeOK, PTL

----------------------------------------------------------------------------
(* The browsers that the process knows *)

Closing(k) == \E c \in Calls : call[c].step = "closing" /\ call[c].page = k

\* As long as the process has not lost hold of a browser: the launch in flight is
\* the one that is noted, what runs is in the map, what closes is waited for, and
\* no launch is in flight while a browser is in the map.
Holds ==
  /\ \A k \in Br!Launches : /\ browser[k] = "launching" <=> k = starting
                            /\ browser[k] = "up" => k = live
                            /\ browser[k] = "closing" => Closing(k)
  /\ live # 0 => browser[live] \in {"up", "broken"}
  /\ live = 0 \/ starting = 0
  /\ \A c \in Calls :
       /\ call[c].step = "clearing" => /\ call[c].page \in Br!Launches
                                       /\ browser[call[c].page] \in {"broken", "closing", "exiting", "gone"}
       /\ call[c].step = "closing" => /\ call[c].page \in Br!Launches
                                      /\ browser[call[c].page] \in {"closing", "gone"}

Known == astray = {} => Holds

\* The page of a call that waits for one or has it.
HasPage(c) == call[c].step \in {"awaiting", "acting"} => call[c].page # 0

\* A document with the field of a request is shown by a browser that is up.
RefsUp == astray = {} => \A k \in Br!Launches : refs[k] # {} => browser[k] = "up"

\* A value is sent for a request that was made, and typed once, by a call that is over: in the
\* field of that request if a document shows it, and then the request is not open.
Answering ==
  /\ control.secret <= asked
  /\ \A c \in Calls :
       /\ sent[c] <= asked /\ HasPage(c)
       /\ call[c].step = "none" => typed[c] = 0
       /\ call[c].kind = "secret" => call[c].secret = sent[c] /\ sent[c] # 0
       /\ typed[c] # 0 => /\ sent[c] # 0 /\ control.secret # sent[c]
                          /\ \/ typed[c] = sent[c]
                             \/ \A k \in Br!Launches : sent[c] \notin refs[k]
                             \/ astray # {}

\* Who was admitted and has not acted yet still has the wheel, or is marked.
Steering ==
  \A c \in Calls :
    call[c].step \in {"reading", "clearing", "awaiting", "acting"} /\ call[c].kind # "secret"
      => control.holder = Br!Holder(call[c].kind) \/ c \in moved

\* No call begins or stops to wait for a closing.
Unclosing == \A c \in Calls :
  /\ call'[c].step \in {"clearing", "closing"} => call'[c] = call[c]
  /\ call[c].step = "closing" => call'[c] = call[c]

LEMMA OneCallUnclosing ==
  ASSUME BrowserTyped, NEW c \in Calls, NEW r \in CallRecord, call' = [call EXCEPT ![c] = r],
         r.step \notin {"clearing", "closing"}, call[c].step # "closing"
  PROVE  Unclosing
BY DEF BrowserTyped, Unclosing

LEMMA SettleUnclosing ==
  ASSUME BrowserTyped, NEW k, NEW st \in {"acting", "over"}, Br!Settle(k, st)
  PROVE  Unclosing /\ starting' = 0
<1>1. \A c \in Calls : [call[c] EXCEPT !.step = st].step = st
  BY CallStepped DEF BrowserTyped
<1> QED BY <1>1 DEF Br!Settle, Unclosing

\* What such a step leaves when it leaves the browsers too.
LEMMA HoldsOn ==
  ASSUME Holds, Unclosing, UNCHANGED <<browser, live, starting>>
  PROVE  Holds'
<1>1. \A k \in Br!Launches : Closing(k) => Closing(k)'
  BY DEF Closing, Unclosing
<1> QED BY <1>1 DEF Holds, Unclosing

LEMMA PageHolds ==
  ASSUME BrowserTyped, Holds, NEW c \in Calls, NEW r \in CallRecord, Br!Page(c, r),
         call[c].step # "closing", UNCHANGED live
  PROVE  Holds'
<1>1. PICK st \in {"clearing", "awaiting", "acting"}, p \in 0..MaxLaunches :
         /\ call' = [call EXCEPT ![c] = [r EXCEPT !.step = st, !.page = p]]
         /\ st = "clearing" => p = live /\ live # 0 /\ browser[live] # "up"
         /\ UNCHANGED <<browser, starting>> \/ \E k \in Br!Launches : Launching(k)
  BY PageEffect
<1> DEFINE q == [r EXCEPT !.step = st, !.page = p]
<1>2. q \in CallRecord
  BY CallSteppedOn
<1>3. q.step = st /\ q.page = p
  BY DEF CallRecord
<1> HIDE DEF q
<1>4. call'[c] = q /\ \A d \in Calls : d # c => call'[d] = call[d]
  BY <1>1 DEF BrowserTyped, q
<1>5. \A k \in Br!Launches : Closing(k) => Closing(k)'
  BY <1>4 DEF Closing
<1>6. CASE UNCHANGED <<browser, starting>>
  <2>1. st = "clearing" => p \in Br!Launches /\ browser[p] = "broken"
    BY <1>1 DEF Holds, BrowserTyped, Br!Launches
  <2> QED BY <1>3, <1>4, <1>5, <1>6, <2>1 DEF Holds
<1>7. ASSUME NEW k \in Br!Launches, Launching(k) PROVE Holds'
  <2>1. /\ browser'[k] = "launching" /\ \A j \in Br!Launches : j # k => browser'[j] = browser[j]
        /\ live = 0 /\ live' = 0 /\ starting = 0 /\ starting' = k /\ browser[k] = "none"
    BY <1>7 DEF Launching, BrowserTyped
  <2>2. st # "clearing"
    BY <1>1, <2>1
  <2>3. 0 \notin Br!Launches
    BY Assumed DEF Br!Launches
  <2> QED BY <1>3, <1>4, <1>5, <2>1, <2>2, <2>3 DEF Holds
<1> QED BY <1>1, <1>6, <1>7

LEMMA KnownNext == BrowserTyped /\ Known /\ [Br!Next]_(Br!vars) => Known'
<1> SUFFICES ASSUME BrowserTyped, Known, [Br!Next]_(Br!vars), astray' = {} PROVE Holds'
  BY DEF Known
<1>0. astray = {} => Holds
  BY DEF Known
<1>01. 0 \notin Br!Launches /\ \A c \in Calls : call[c] \in CallRecord
  BY Assumed DEF Br!Launches, BrowserTyped
<1>1. ASSUME NEW k \in Br!Launches, Br!Launched(k) PROVE Holds'
  <2>1. Holds /\ Unclosing /\ starting' = 0 /\ live' = k
    BY <1>0, <1>1, SettleUnclosing DEF Br!Launched
  <2>2. /\ browser[k] = "launching" /\ browser'[k] = "up"
        /\ \A j \in Br!Launches : j # k => browser'[j] = browser[j]
    BY <1>1 DEF Br!Launched, BrowserTyped
  <2>3. starting = k /\ live = 0
    BY <1>01, <2>1, <2>2 DEF Holds
  <2>4. \A j \in Br!Launches : Closing(j) => Closing(j)'
    BY <2>1 DEF Closing, Unclosing
  <2>5. \A j \in Br!Launches : /\ browser'[j] = "launching" <=> j = starting'
                               /\ browser'[j] = "up" => j = live'
                               /\ browser'[j] = "closing" => Closing(j)'
    BY <1>01, <2>1, <2>2, <2>3, <2>4 DEF Holds
  <2>6. \A c \in Calls :
          /\ call'[c].step = "clearing" => /\ call'[c].page \in Br!Launches
                                           /\ browser'[call'[c].page] \in {"broken", "closing", "exiting", "gone"}
          /\ call'[c].step = "closing" => /\ call'[c].page \in Br!Launches
                                          /\ browser'[call'[c].page] \in {"closing", "gone"}
    BY <2>1, <2>2 DEF Holds, Unclosing
  <2> QED BY <2>1, <2>2, <2>5, <2>6 DEF Holds
<1>2. ASSUME NEW k \in Br!Launches, Br!LaunchFails(k) PROVE Holds'
  <2>1. astray = {} /\ browser' = [browser EXCEPT ![k] = "gone"]
    BY <1>2 DEF Br!LaunchFails
  <2>2. Holds /\ Unclosing /\ starting' = 0 /\ live' = live
    BY <1>0, <1>2, <2>1, SettleUnclosing DEF Br!LaunchFails
  <2>3. /\ browser[k] = "launching" /\ browser'[k] = "gone"
        /\ \A j \in Br!Launches : j # k => browser'[j] = browser[j]
    BY <1>2, <2>1 DEF Br!LaunchFails, BrowserTyped
  <2>4. starting = k /\ live = 0
    BY <1>01, <2>2, <2>3 DEF Holds
  <2>5. \A j \in Br!Launches : Closing(j) => Closing(j)'
    BY <2>2 DEF Closing, Unclosing
  <2>6. \A j \in Br!Launches : /\ browser'[j] = "launching" <=> j = starting'
                               /\ browser'[j] = "up" => j = live'
                               /\ browser'[j] = "closing" => Closing(j)'
    BY <1>01, <2>2, <2>3, <2>4, <2>5 DEF Holds
  <2>7. \A c \in Calls :
          /\ call'[c].step = "clearing" => /\ call'[c].page \in Br!Launches
                                           /\ browser'[call'[c].page] \in {"broken", "closing", "exiting", "gone"}
          /\ call'[c].step = "closing" => /\ call'[c].page \in Br!Launches
                                          /\ browser'[call'[c].page] \in {"closing", "gone"}
    BY <2>2, <2>3 DEF Holds, Unclosing
  <2> QED BY <2>2, <2>4, <2>6, <2>7 DEF Holds
<1>3. ASSUME NEW k \in Br!Launches, Br!Break(k) PROVE Holds'
  <2>1. Holds /\ UNCHANGED <<call, live, starting>>
    BY <1>0, <1>3 DEF Br!Break
  <2>2. /\ browser[k] = "up" /\ browser'[k] = "broken"
        /\ \A j \in Br!Launches : j # k => browser'[j] = browser[j]
    BY <1>3 DEF Br!Break, BrowserTyped
  <2>3. live = k
    BY <2>1, <2>2 DEF Holds
  <2>4. \A j \in Br!Launches : Closing(j) => Closing(j)'
    BY <2>1 DEF Closing
  <2>5. \A j \in Br!Launches : /\ browser'[j] = "launching" <=> j = starting'
                               /\ browser'[j] = "up" => j = live'
                               /\ browser'[j] = "closing" => Closing(j)'
    BY <2>1, <2>2, <2>4 DEF Holds
  <2> QED BY <2>1, <2>2, <2>3, <2>5 DEF Holds
<1>15. ASSUME NEW k \in Br!Launches, Br!Exited(k) PROVE Holds'
  <2>1. Holds /\ UNCHANGED <<call, live, starting>>
    BY <1>0, <1>15 DEF Br!Exited
  <2>2. /\ browser[k] = "exiting" /\ browser'[k] = "gone"
        /\ \A j \in Br!Launches : j # k => browser'[j] = browser[j]
    BY <1>15 DEF Br!Exited, BrowserTyped
  <2>3. \A j \in Br!Launches : Closing(j) => Closing(j)'
    BY <2>1 DEF Closing
  <2>4. \A j \in Br!Launches : /\ browser'[j] = "launching" <=> j = starting'
                               /\ browser'[j] = "up" => j = live'
                               /\ browser'[j] = "closing" => Closing(j)'
    BY <2>1, <2>2, <2>3 DEF Holds
  <2>5. live # 0 => browser'[live] \in {"up", "broken"}
    BY <2>1, <2>2 DEF Holds, BrowserTyped, Br!Launches
  <2>6. \A c \in Calls :
          /\ call'[c].step = "clearing" => /\ call'[c].page \in Br!Launches
                                           /\ browser'[call'[c].page] \in {"broken", "closing", "exiting", "gone"}
          /\ call'[c].step = "closing" => /\ call'[c].page \in Br!Launches
                                          /\ browser'[call'[c].page] \in {"closing", "gone"}
    BY <2>1, <2>2 DEF Holds
  <2> QED BY <2>1, <2>4, <2>5, <2>6 DEF Holds
<1>4. ASSUME NEW c \in Calls, Br!BotActs(c) PROVE Holds'
  BY <1>0, <1>4, PageHolds, Assumed, RecordTypes DEF Br!BotActs
<1>5. ASSUME NEW c \in Calls, Br!HumanActs(c) PROVE Holds'
  <2>1. PICK r \in CallRecord : r = [Br!Idle EXCEPT !.kind = "human", !.step = "reading"]
    BY Assumed, RecordTypes DEF CallRecord, Br!Kinds
  <2>2. r.step = "reading"
    BY <2>1 DEF Br!Idle
  <2> QED BY <1>0, <1>5, <2>1, <2>2, OneCallUnclosing, HoldsOn DEF Br!HumanActs
<1>6. ASSUME NEW c \in Calls, Br!SupplySecret(c) PROVE Holds'
  <2>1. PICK r \in CallRecord : r = [Br!Idle EXCEPT !.kind = "secret", !.step = "reading",
                                                 !.secret = control.secret]
    BY Assumed, RecordTypes DEF CallRecord, Br!Kinds, BrowserTyped, Wheel
  <2>2. r.step = "reading"
    BY <2>1 DEF Br!Idle
  <2> QED BY <1>0, <1>6, <2>1, <2>2, OneCallUnclosing, HoldsOn DEF Br!SupplySecret
<1>7. ASSUME NEW c \in Calls, call' = [call EXCEPT ![c] = [call[c] EXCEPT !.step = "over"]],
             call[c].step # "closing", UNCHANGED <<browser, live, starting, astray>>
      PROVE  Holds'
  BY <1>0, <1>01, <1>7, CallStepped, OneCallUnclosing, HoldsOn
<1>8. ASSUME NEW c \in Calls, Br!Read(c) PROVE Holds'
  <2>1. CASE Br!Page(c, call[c])
    BY <1>0, <1>01, <1>8, <2>1, PageHolds DEF Br!Read
  <2>2. CASE call' = [call EXCEPT ![c].step = "over"] /\ UNCHANGED <<browser, starting>>
    BY <1>7, <1>8, <2>2 DEF Br!Read
  <2> QED BY <1>8, <2>1, <2>2 DEF Br!Read
<1>9. ASSUME NEW c \in Calls, Br!Act(c) \/ Br!Type(c) PROVE Holds'
  BY <1>7, <1>9 DEF Br!Act, Br!Type
<1>10. ASSUME NEW c \in Calls, Br!Cleared(c) PROVE Holds'
  <2>1. astray = {} /\ live \in {0, call[c].page} /\ starting = 0
    BY <1>10 DEF Br!Cleared
  <2>2. Holds
    BY <1>0, <2>1
  <2>3. PICK k \in Br!Launches :
          /\ Br!Begin(c, call[c], k)
          /\ browser' = [browser EXCEPT ![call[c].page] = IF browser[call[c].page] = "broken"
                                                     THEN "exiting" ELSE browser[call[c].page],
                                   ![k] = "launching"]
    BY <1>10 DEF Br!Cleared
  <2>14. k \in 0..MaxLaunches
    BY Assumed DEF Br!Launches
  <2>4. [call[c] EXCEPT !.step = "awaiting", !.page = k].step = "awaiting"
    BY <1>01 DEF CallRecord
  <2>15. PICK q : q = [call[c] EXCEPT !.step = "awaiting", !.page = k]
    OBVIOUS
  <2>5. q.step = "awaiting"
    BY <2>4, <2>15
  <2>6. call'[c] = q /\ \A d \in Calls : d # c => call'[d] = call[d]
    BY <2>3, <2>15 DEF Br!Begin, BrowserTyped
  <2>7. /\ starting' = k /\ live' = 0 /\ browser[k] = "none"
    BY <1>10, <2>3 DEF Br!Begin, Br!Cleared
  <2>8. /\ call[c].page \in Br!Launches /\ call[c].step = "clearing"
        /\ browser[call[c].page] \in {"broken", "closing", "exiting", "gone"}
    BY <1>10, <2>2 DEF Holds, Br!Cleared
  <2>9. /\ browser'[k] = "launching"
        /\ browser'[call[c].page] = IF browser[call[c].page] = "broken" THEN "exiting"
                                     ELSE browser[call[c].page]
        /\ \A j \in Br!Launches : j \notin {k, call[c].page} => browser'[j] = browser[j]
    BY <2>3, <2>7, <2>8 DEF BrowserTyped
  <2>10. \A j \in Br!Launches : Closing(j) => Closing(j)'
    BY <2>6, <2>8 DEF Closing
  <2>11. \A j \in Br!Launches : browser[j] # "up" /\ browser[j] # "launching"
    BY <1>01, <2>1, <2>2, <2>8 DEF Holds
  <2>12. \A j \in Br!Launches : /\ browser'[j] = "launching" <=> j = starting'
                                /\ browser'[j] = "up" => j = live'
                                /\ browser'[j] = "closing" => Closing(j)'
    BY <2>2, <2>7, <2>9, <2>10, <2>11 DEF Holds
  <2>13. ASSUME NEW d \in Calls
         PROVE  /\ call'[d].step = "clearing" => /\ call'[d].page \in Br!Launches
                                                 /\ browser'[call'[d].page] \in {"broken", "closing", "exiting", "gone"}
                /\ call'[d].step = "closing" => /\ call'[d].page \in Br!Launches
                                                /\ browser'[call'[d].page] \in {"closing", "gone"}
    <3>1. CASE d = c
      BY <2>5, <2>6, <3>1
    <3>2. CASE d # c
      BY <2>2, <2>6, <2>7, <2>8, <2>9, <3>2 DEF Holds
    <3> QED BY <3>1, <3>2
  <2> QED BY <2>7, <2>12, <2>13 DEF Holds
<1>11. ASSUME NEW c \in Calls, NEW kind \in {"stop", "reset"}, Br!Stop(c, kind) PROVE Holds'
  <2>0. Holds /\ call[c].step = "none" /\ live' = 0 /\ starting' = starting
    BY <1>0, <1>11 DEF Br!Stop
  <2>1. PICK r \in CallRecord : r = [Br!Idle EXCEPT !.kind = kind]
    BY Assumed, RecordTypes DEF Br!Kinds
  <2>2. CASE live # 0
    <3>1. live \in Br!Launches /\ live \in 0..MaxLaunches
      BY <2>2 DEF BrowserTyped, Br!Launches
    <3>10. /\ [r EXCEPT !.step = "closing", !.page = live].step = "closing"
           /\ [r EXCEPT !.step = "closing", !.page = live].page = live
      BY DEF CallRecord
    <3>2. PICK q : q = [r EXCEPT !.step = "closing", !.page = live]
      OBVIOUS
    <3>3. q.step = "closing" /\ q.page = live
      BY <3>2, <3>10
    <3>4. call'[c] = q /\ \A d \in Calls : d # c => call'[d] = call[d]
      BY <1>11, <2>1, <2>2, <3>2 DEF Br!Stop, BrowserTyped
    <3>5. /\ browser'[live] = "closing" /\ browser[live] \in {"up", "broken"}
          /\ \A j \in Br!Launches : j # live => browser'[j] = browser[j]
      BY <1>11, <2>0, <2>2, <3>1 DEF Br!Stop, BrowserTyped, Holds
    <3>6. \A j \in Br!Launches : Closing(j) => Closing(j)'
      BY <2>0, <3>4 DEF Closing
    <3>8. \A j \in Br!Launches : /\ browser'[j] = "launching" <=> j = starting'
                                 /\ browser'[j] = "up" => j = live'
                                 /\ browser'[j] = "closing" => Closing(j)'
      <4>1. ASSUME NEW j \in Br!Launches, j # live
            PROVE  /\ browser'[j] = "launching" <=> j = starting'
                   /\ browser'[j] = "up" => j = live'
                   /\ browser'[j] = "closing" => Closing(j)'
        BY <2>0, <3>5, <3>6, <4>1 DEF Holds
      <4>2. ASSUME NEW j \in Br!Launches, j = live
            PROVE  /\ browser'[j] = "launching" <=> j = starting'
                   /\ browser'[j] = "up" => j = live'
                   /\ browser'[j] = "closing" => Closing(j)'
        <5>1. Closing(j)'
          BY <3>3, <3>4, <4>2 DEF Closing
        <5>2. browser'[j] = "closing" /\ starting = 0 /\ j # 0
          BY <2>0, <2>2, <3>5, <4>2 DEF Holds
        <5> QED BY <2>0, <5>1, <5>2
      <4> QED BY <4>1, <4>2
    <3>9. ASSUME NEW d \in Calls
          PROVE  /\ call'[d].step = "clearing" => /\ call'[d].page \in Br!Launches
                                                  /\ browser'[call'[d].page] \in {"broken", "closing", "exiting", "gone"}
                 /\ call'[d].step = "closing" => /\ call'[d].page \in Br!Launches
                                                 /\ browser'[call'[d].page] \in {"closing", "gone"}
      <4>1. CASE d = c
        BY <3>1, <3>3, <3>4, <3>5, <4>1
      <4>2. CASE d # c
        BY <2>0, <3>4, <3>5, <4>2 DEF Holds
      <4> QED BY <4>1, <4>2
    <3> QED BY <2>0, <3>8, <3>9 DEF Holds
  <2>3. CASE live = 0
    <3>1. PICK st \in {"over", "deleting"} : call' = [call EXCEPT ![c] = [r EXCEPT !.step = st]]
      BY <1>11, <2>1, <2>3 DEF Br!Stop
    <3>4. [r EXCEPT !.step = st] \in CallRecord /\ [r EXCEPT !.step = st].step = st
      BY DEF CallRecord
    <3>2. Unclosing
      BY <2>0, <3>1, <3>4, OneCallUnclosing
    <3>3. UNCHANGED <<browser, live, starting>>
      BY <1>11, <2>3 DEF Br!Stop
    <3> QED BY <2>0, <3>2, <3>3, HoldsOn
  <2> QED BY <2>2, <2>3
<1>12. ASSUME NEW c \in Calls, Br!Closed(c) PROVE Holds'
  <2>0. Holds /\ call[c].step = "closing" /\ live' = live /\ starting' = starting
    BY <1>0, <1>12 DEF Br!Closed
  <2>1. PICK st \in {"over", "deleting"} : call' = [call EXCEPT ![c] = [call[c] EXCEPT !.step = st]]
    BY <1>12 DEF Br!Closed
  <2>2. call'[c].step = st /\ \A d \in Calls : d # c => call'[d] = call[d]
    BY <1>01, <2>1, CallStepped DEF BrowserTyped
  <2>3. call[c].page \in Br!Launches /\ browser[call[c].page] \in {"closing", "gone"}
    BY <2>0 DEF Holds
  <2>4. /\ browser'[call[c].page] = "gone"
        /\ \A j \in Br!Launches : j # call[c].page => browser'[j] = browser[j]
    BY <1>12, <2>3 DEF Br!Closed, BrowserTyped
  <2>5. ASSUME NEW j \in Br!Launches, j # call[c].page, Closing(j) PROVE Closing(j)'
    BY <2>2, <2>5 DEF Closing
  <2>6. \A j \in Br!Launches : /\ browser'[j] = "launching" <=> j = starting'
                               /\ browser'[j] = "up" => j = live'
                               /\ browser'[j] = "closing" => Closing(j)'
    BY <2>0, <2>3, <2>4, <2>5 DEF Holds
  <2>7. live # 0 => browser'[live] \in {"up", "broken"}
    BY <2>0, <2>3, <2>4 DEF Holds, BrowserTyped, Br!Launches
  <2>8. ASSUME NEW d \in Calls
        PROVE  /\ call'[d].step = "clearing" => /\ call'[d].page \in Br!Launches
                                                /\ browser'[call'[d].page] \in {"broken", "closing", "exiting", "gone"}
               /\ call'[d].step = "closing" => /\ call'[d].page \in Br!Launches
                                               /\ browser'[call'[d].page] \in {"closing", "gone"}
    BY <2>0, <2>2, <2>4 DEF Holds
  <2> QED BY <2>0, <2>6, <2>7, <2>8 DEF Holds
<1>13. ASSUME NEW c \in Calls, Br!Deleted(c) PROVE Holds'
  BY <1>7, <1>13 DEF Br!Deleted
<1>14. CASE \/ Br!Take \/ Br!Release \/ Br!RequestSecret \/ UNCHANGED Br!vars
           \/ \E k \in Br!Launches : Br!Turn(k)
  <2>1. Holds /\ UNCHANGED <<call, browser, live, starting>>
    BY <1>0, <1>14 DEF Br!Take, Br!Release, Br!RequestSecret, Br!Turn, Br!vars
  <2> QED BY <2>1, HoldsOn DEF Unclosing
<1> QED
  BY <1>1, <1>2, <1>3, <1>4, <1>5, <1>6, <1>8, <1>9, <1>10, <1>11, <1>12, <1>13, <1>14,
     <1>15 DEF Br!Next

LEMMA KnownInit == Br!Init => Known
BY DEF Br!Init, Known, Holds, Br!Launches, Br!Idle

LEMMA AlwaysKnown == Bounded /\ Br!Spec => [](BrowserTyped /\ Known)
BY BrowserTypeInit, BrowserTypeNext, KnownInit, KnownNext, PTL DEF Br!Spec

\* One launch at a time: the process knows every browser it started on the profile,
\* however launches, crashes, stops and resets meet (profiles.ts, page and stop).
THEOREM EveryBrowserKnown == Bounded => (Br!Spec => []OneKnown)
<1>1. BrowserTyped /\ Known => OneKnown
  <2> SUFFICES ASSUME BrowserTyped, Holds, astray = {} PROVE OneKnown
    BY DEF Known, OneKnown, Br!OneKnown
  <2>1. ASSUME NEW k \in Br!Running
        PROVE  \/ k = (IF browser[k] = "launching" THEN starting ELSE live)
               \/ \E c \in Calls : call[c].step = "closing" /\ call[c].page = k
               \/ browser[k] = "exiting"
    BY DEF Br!Running, Holds, Closing
  <2> QED BY <2>1 DEF OneKnown, Br!OneKnown, Holds
<1> QED BY <1>1, AlwaysKnown, PTL

----------------------------------------------------------------------------
(* What one step may do to one call *)

UnderWay == {"reading", "clearing", "awaiting", "acting"}

\* A call that was admitted goes on, and keeps what it is and which field it is for.
GoesOn(c) == /\ call[c].step # "none" /\ call'[c].step # "none"
             /\ call'[c].kind = call[c].kind /\ call'[c].secret = call[c].secret
             /\ call'[c].step \in UnderWay => call[c].step \in UnderWay
             /\ HasPage(c) => HasPage(c)'
             /\ sent'[c] = sent[c]

\* A call comes in: it is admitted to the wheel, or remembers the request, or ends
\* the browser.
ComesIn(c) ==
  /\ call[c].step = "none" /\ call'[c].step # "none" /\ HasPage(c)'
  /\ \/ /\ call'[c].kind # "secret" /\ sent'[c] = sent[c]
        /\ \/ control.holder = Br!Holder(call'[c].kind) /\ UNCHANGED control
           \/ call'[c].step \notin UnderWay
     \/ /\ call'[c].kind = "secret" /\ call'[c].secret = control.secret
        /\ sent'[c] = control.secret /\ control.secret # 0

CallMove(c) == \/ call'[c] = call[c] /\ sent'[c] = sent[c]
               \/ GoesOn(c)
               \/ ComesIn(c)

\* A step of one call: the others stay.
LEMMA OneCallMoves ==
  ASSUME BrowserTyped, NEW c \in Calls, NEW r \in CallRecord, call' = [call EXCEPT ![c] = r]
  PROVE  call'[c] = r /\ \A d \in Calls : d # c => call'[d] = call[d]
BY DEF BrowserTyped

LEMMA StepsOn ==
  ASSUME BrowserTyped, NEW c \in Calls, NEW st \in {"over", "deleting"},
         call' = [call EXCEPT ![c] = [call[c] EXCEPT !.step = st]],
         call[c].step # "none", UNCHANGED sent
  PROVE  \A d \in Calls : CallMove(d)
<1>1. call[c] \in CallRecord
  BY DEF BrowserTyped
<1>2. /\ [call[c] EXCEPT !.step = st] \in CallRecord
      /\ [call[c] EXCEPT !.step = st].step = st
      /\ [call[c] EXCEPT !.step = st].kind = call[c].kind
      /\ [call[c] EXCEPT !.step = st].secret = call[c].secret
  BY <1>1 DEF CallRecord
<1>3. PICK r \in CallRecord : r = [call[c] EXCEPT !.step = st]
  BY <1>2
<1>4. r.step = st /\ r.kind = call[c].kind /\ r.secret = call[c].secret
  BY <1>2, <1>3
<1>5. call'[c] = r /\ \A d \in Calls : d # c => call'[d] = call[d]
  BY <1>3, OneCallMoves
<1> QED BY <1>4, <1>5 DEF CallMove, GoesOn, UnderWay, HasPage

\* A page is had for a call as it is, but for its step and its page.
LEMMA PageMoves ==
  ASSUME BrowserTyped, NEW c \in Calls, NEW r \in CallRecord, Br!Page(c, r)
  PROVE  /\ call'[c].kind = r.kind /\ call'[c].secret = r.secret
         /\ call'[c].step \in UnderWay /\ call'[c].page # 0
         /\ \A d \in Calls : d # c => call'[d] = call[d]
<1>1. PICK st \in {"clearing", "awaiting", "acting"}, p \in 0..MaxLaunches :
         /\ call' = [call EXCEPT ![c] = [r EXCEPT !.step = st, !.page = p]] /\ p # 0
         /\ UNCHANGED <<browser, starting>> \/ \E k \in Br!Launches : Launching(k)
  BY PageEffect
<1>2. /\ [r EXCEPT !.step = st, !.page = p].kind = r.kind
      /\ [r EXCEPT !.step = st, !.page = p].secret = r.secret
      /\ [r EXCEPT !.step = st, !.page = p].step = st
      /\ [r EXCEPT !.step = st, !.page = p].page = p
  BY DEF CallRecord
<1>3. PICK q : q = [r EXCEPT !.step = st, !.page = p]
  OBVIOUS
<1>4. call'[c] = q /\ \A d \in Calls : d # c => call'[d] = call[d]
  BY <1>1, <1>3 DEF BrowserTyped
<1>5. q.kind = r.kind /\ q.secret = r.secret /\ q.step = st /\ q.page # 0
  BY <1>1, <1>2, <1>3
<1> QED BY <1>4, <1>5 DEF UnderWay

LEMMA SettleMoves ==
  ASSUME BrowserTyped, NEW k, NEW st \in {"acting", "over"}, Br!Settle(k, st), UNCHANGED sent
  PROVE  \A d \in Calls : CallMove(d)
<1>1. ASSUME NEW d \in Calls PROVE CallMove(d)
  <2>1. call[d] \in CallRecord
    BY DEF BrowserTyped
  <2>2. CASE call'[d] = call[d]
    BY <2>2 DEF CallMove
  <2>3. CASE call[d].step = "awaiting" /\ call'[d] = [call[d] EXCEPT !.step = st]
    <3>1. /\ call'[d].step = st /\ call'[d].kind = call[d].kind
          /\ call'[d].secret = call[d].secret /\ call'[d].page = call[d].page
      BY <2>1, <2>3 DEF CallRecord
    <3> QED BY <2>3, <3>1 DEF CallMove, GoesOn, UnderWay, HasPage
  <2> QED BY <2>2, <2>3 DEF Br!Settle
<1> QED BY <1>1

LEMMA CallMoves == ASSUME BrowserTyped, [Br!Next]_(Br!vars) PROVE \A c \in Calls : CallMove(c)
<1>0. Br!Idle \in CallRecord /\ \A c \in Calls : call[c] \in CallRecord
  BY Assumed, RecordTypes DEF BrowserTyped
<1>1. ASSUME NEW k \in Br!Launches, Br!Launched(k) \/ Br!LaunchFails(k)
      PROVE  \A c \in Calls : CallMove(c)
  BY <1>1, SettleMoves DEF Br!Launched, Br!LaunchFails
<1>2. ASSUME UNCHANGED <<call, sent>> PROVE \A c \in Calls : CallMove(c)
  BY <1>2 DEF CallMove
<1>3. ASSUME NEW c \in Calls, Br!BotActs(c) PROVE \A d \in Calls : CallMove(d)
  <2>1. /\ call'[c].kind = "act" /\ call'[c].step \in UnderWay /\ HasPage(c)'
        /\ \A d \in Calls : d # c => call'[d] = call[d]
    <3>1. Br!Idle.kind = "act"
      BY DEF Br!Idle
    <3> QED BY <1>0, <1>3, <3>1, PageMoves DEF Br!BotActs, HasPage
  <2>2. control.holder = Br!Holder("act") /\ UNCHANGED <<sent, control>> /\ call[c].step = "none"
    BY <1>3 DEF Br!BotActs, Br!Admitted
  <2> QED BY <2>1, <2>2 DEF CallMove, ComesIn, UnderWay
<1>4. ASSUME NEW c \in Calls, Br!HumanActs(c) PROVE \A d \in Calls : CallMove(d)
  <2>1. PICK r : r = [Br!Idle EXCEPT !.kind = "human", !.step = "reading"]
    OBVIOUS
  <2>2. r.kind = "human" /\ r.step = "reading"
    BY <2>1 DEF Br!Idle
  <2>3. call'[c] = r /\ \A d \in Calls : d # c => call'[d] = call[d]
    BY <1>4, <2>1 DEF Br!HumanActs, BrowserTyped
  <2>4. control.holder = Br!Holder("human") /\ UNCHANGED <<sent, control>> /\ call[c].step = "none"
    BY <1>4 DEF Br!HumanActs, Br!Admitted
  <2> QED BY <2>2, <2>3, <2>4 DEF CallMove, ComesIn, HasPage
<1>5. ASSUME NEW c \in Calls, Br!SupplySecret(c) PROVE \A d \in Calls : CallMove(d)
  <2>1. PICK r : r = [Br!Idle EXCEPT !.kind = "secret", !.step = "reading",
                                    !.secret = control.secret]
    OBVIOUS
  <2>2. r.kind = "secret" /\ r.step = "reading" /\ r.secret = control.secret
    BY <2>1 DEF Br!Idle
  <2>3. call'[c] = r /\ \A d \in Calls : d # c => call'[d] = call[d]
    BY <1>5, <2>1 DEF Br!SupplySecret, BrowserTyped
  <2>4. /\ sent'[c] = control.secret /\ call[c].step = "none" /\ control.secret # 0
        /\ \A d \in Calls : d # c => sent'[d] = sent[d]
    BY <1>5 DEF Br!SupplySecret, BrowserTyped
  <2> QED BY <2>2, <2>3, <2>4 DEF CallMove, ComesIn, HasPage
<1>6. ASSUME NEW c \in Calls, Br!Read(c) PROVE \A d \in Calls : CallMove(d)
  <2>1. CASE Br!Page(c, call[c])
    <3>1. call[c].step = "reading" /\ UNCHANGED sent
      BY <1>6 DEF Br!Read
    <3>2. /\ call'[c].kind = call[c].kind /\ call'[c].secret = call[c].secret
          /\ call'[c].step \in UnderWay /\ HasPage(c)'
          /\ \A d \in Calls : d # c => call'[d] = call[d]
      BY <1>0, <2>1, PageMoves DEF HasPage
    <3> QED BY <3>1, <3>2 DEF CallMove, GoesOn, UnderWay
  <2>2. CASE call' = [call EXCEPT ![c].step = "over"] /\ UNCHANGED <<browser, starting>>
    BY <1>6, <2>2, StepsOn DEF Br!Read
  <2> QED BY <1>6, <2>1, <2>2 DEF Br!Read
<1>7. ASSUME NEW c \in Calls, Br!Cleared(c) PROVE \A d \in Calls : CallMove(d)
  <2>1. PICK k \in Br!Launches : Br!Begin(c, call[c], k)
    BY <1>7 DEF Br!Cleared
  <2>2. PICK q : q = [call[c] EXCEPT !.step = "awaiting", !.page = k]
    OBVIOUS
  <2>3. /\ q.step = "awaiting" /\ q.kind = call[c].kind /\ q.secret = call[c].secret
        /\ q.page = k /\ k # 0
    BY <1>0, <2>2, Assumed DEF CallRecord, Br!Launches
  <2>4. call'[c] = q /\ \A d \in Calls : d # c => call'[d] = call[d]
    BY <2>1, <2>2 DEF Br!Begin, BrowserTyped
  <2>5. call[c].step = "clearing" /\ UNCHANGED sent
    BY <1>7 DEF Br!Cleared
  <2> QED BY <2>3, <2>4, <2>5 DEF CallMove, GoesOn, UnderWay, HasPage
<1>8. ASSUME NEW c \in Calls, Br!Act(c) \/ Br!Type(c) \/ Br!Closed(c) \/ Br!Deleted(c)
      PROVE  \A d \in Calls : CallMove(d)
  BY <1>8, StepsOn DEF Br!Act, Br!Type, Br!Closed, Br!Deleted
<1>9. ASSUME NEW c \in Calls, NEW kind \in {"stop", "reset"}, Br!Stop(c, kind)
      PROVE  \A d \in Calls : CallMove(d)
  <2>1. PICK r \in CallRecord : r = [Br!Idle EXCEPT !.kind = kind]
    BY Assumed, RecordTypes DEF Br!Kinds
  <2>2. r.kind = kind
    BY <2>1 DEF Br!Idle
  <2>3. \/ call' = [call EXCEPT ![c] = [r EXCEPT !.step = "closing", !.page = live]]
        \/ call' = [call EXCEPT ![c] = [r EXCEPT !.step = "over"]]
        \/ call' = [call EXCEPT ![c] = [r EXCEPT !.step = "deleting"]]
    BY <1>9, <2>1 DEF Br!Stop
  <2>4. PICK q : /\ call' = [call EXCEPT ![c] = q]
                 /\ \/ q = [r EXCEPT !.step = "closing", !.page = live]
                    \/ q = [r EXCEPT !.step = "over"]
                    \/ q = [r EXCEPT !.step = "deleting"]
    BY <2>3
  <2>5. q.kind = kind /\ q.step \in {"closing", "over", "deleting"}
    BY <2>2, <2>4 DEF CallRecord
  <2>6. call'[c] = q /\ \A d \in Calls : d # c => call'[d] = call[d]
    BY <2>4 DEF BrowserTyped
  <2>7. call[c].step = "none" /\ UNCHANGED sent
    BY <1>9 DEF Br!Stop
  <2> QED BY <2>5, <2>6, <2>7 DEF CallMove, ComesIn, UnderWay, HasPage
<1>10. ASSUME NEW k \in Br!Launches, Br!Exited(k) \/ Br!Turn(k) \/ Br!Break(k)
       PROVE  \A c \in Calls : CallMove(c)
  BY <1>2, <1>10 DEF Br!Exited, Br!Turn, Br!Break
<1>11. CASE Br!Take \/ Br!Release \/ Br!RequestSecret \/ UNCHANGED Br!vars
  BY <1>2, <1>11 DEF Br!Take, Br!Release, Br!RequestSecret, Br!vars
<1> QED
  BY <1>1, <1>3, <1>4, <1>5, <1>6, <1>7, <1>8, <1>9, <1>10, <1>11 DEF Br!Next

----------------------------------------------------------------------------
(* Secrets and the wheel *)

\* What one step may do to the wheel and to the request that is open.
LEMMA WheelMoves ==
  ASSUME BrowserTyped, [Br!Next]_(Br!vars)
  PROVE  \/ control'.holder = control.holder /\ moved' = moved
         \/ moved' = {c \in Calls : call[c].step \notin {"none", "over"}}
<1>0. control \in Wheel /\ Br!Supplied.holder = control.holder
  BY DEF BrowserTyped, Wheel, Br!Supplied
<1>1. ASSUME NEW to, Br!Turned(to)
      PROVE  \/ control'.holder = control.holder /\ moved' = moved
             \/ moved' = {c \in Calls : call[c].step \notin {"none", "over"}}
  BY <1>1 DEF Br!Turned
<1>2. CASE Br!Take \/ Br!Release
  BY <1>1, <1>2 DEF Br!Take, Br!Release
<1>3. CASE Br!RequestSecret
  BY <1>0, <1>3 DEF Br!RequestSecret, Wheel
<1>4. ASSUME NEW k \in Br!Launches, Br!Launched(k) \/ Br!LaunchFails(k) \/ Br!Exited(k)
                                   \/ Br!Turn(k) \/ Br!Break(k)
      PROVE  control'.holder = control.holder /\ moved' = moved
  BY <1>0, <1>4 DEF Br!Launched, Br!LaunchFails, Br!Exited, Br!Turn, Br!Break
<1>5. ASSUME NEW c \in Calls, Br!BotActs(c) \/ Br!HumanActs(c) \/ Br!SupplySecret(c) \/ Br!Read(c)
                              \/ Br!Cleared(c) \/ Br!Act(c) \/ Br!Type(c)
      PROVE  control'.holder = control.holder /\ moved' = moved
  BY <1>0, <1>5 DEF Br!BotActs, Br!HumanActs, Br!SupplySecret, Br!Read, Br!Cleared, Br!Act, Br!Type
<1>6. ASSUME NEW c \in Calls,
             Br!Closed(c) \/ Br!Deleted(c) \/ \E kind \in {"stop", "reset"} : Br!Stop(c, kind)
      PROVE  \/ control'.holder = control.holder /\ moved' = moved
             \/ moved' = {d \in Calls : call[d].step \notin {"none", "over"}}
  <2>1. Br!Turned(Br!Released) \/ UNCHANGED <<control, moved>>
    BY <1>6 DEF Br!Closed, Br!Deleted, Br!Stop
  <2> QED BY <1>1, <2>1
<1>7. CASE UNCHANGED Br!vars
  BY <1>7 DEF Br!vars
<1> QED BY <1>2, <1>3, <1>4, <1>5, <1>6, <1>7 DEF Br!Next

LEMMA SteeringNext == BrowserTyped /\ Steering /\ [Br!Next]_(Br!vars) => Steering'
<1> SUFFICES ASSUME BrowserTyped, Steering, [Br!Next]_(Br!vars), NEW c \in Calls,
                    call'[c].step \in UnderWay, call'[c].kind # "secret"
             PROVE  control'.holder = Br!Holder(call'[c].kind) \/ c \in moved'
  BY DEF Steering, UnderWay
<1>1. CallMove(c)
  BY CallMoves
\* Who was under way before has the wheel or is marked; a mark stays until another
\* turn of the wheel marks all that are under way.
<1>2. CASE call[c].step \in UnderWay /\ call'[c].kind = call[c].kind
  <2>1. control.holder = Br!Holder(call[c].kind) \/ c \in moved
    BY <1>2 DEF Steering, UnderWay
  <2>2. call[c].step \notin {"none", "over"}
    BY <1>2 DEF UnderWay
  <2> QED BY <1>2, <2>1, <2>2, WheelMoves
<1>3. CASE ComesIn(c)
  BY <1>3 DEF ComesIn
<1> QED BY <1>1, <1>2, <1>3 DEF CallMove, GoesOn

LEMMA SteeringInit == Br!Init => Steering
BY DEF Br!Init, Steering, Br!Idle

\* A request that is made is a new one, whatever else happens to the open one.
LEMMA RequestMoves ==
  ASSUME BrowserTyped, [Br!Next]_(Br!vars)
  PROVE  \/ control'.secret \in {0, control.secret} /\ asked' = asked
         \/ control'.secret = asked + 1 /\ asked' = asked + 1
<1>0. control \in Wheel /\ Br!Supplied.secret = 0 /\ Br!Released.secret = 0
  BY DEF BrowserTyped, Wheel, Br!Supplied, Br!Released
<1>1. CASE Br!Take \/ Br!Release
  BY <1>0, <1>1 DEF Br!Take, Br!Release, Br!Turned
<1>2. CASE Br!RequestSecret
  BY <1>0, <1>2 DEF Br!RequestSecret, Br!NextAsk, Wheel
<1>3. ASSUME NEW k \in Br!Launches, Br!Launched(k) \/ Br!LaunchFails(k) \/ Br!Exited(k)
                                   \/ Br!Turn(k) \/ Br!Break(k)
      PROVE  control'.secret \in {0, control.secret} /\ asked' = asked
  BY <1>0, <1>3 DEF Br!Launched, Br!LaunchFails, Br!Exited, Br!Turn, Br!Break
<1>4. ASSUME NEW c \in Calls, Br!BotActs(c) \/ Br!HumanActs(c) \/ Br!SupplySecret(c) \/ Br!Read(c)
                              \/ Br!Cleared(c) \/ Br!Act(c) \/ Br!Type(c)
      PROVE  control'.secret \in {0, control.secret} /\ asked' = asked
  BY <1>0, <1>4 DEF Br!BotActs, Br!HumanActs, Br!SupplySecret, Br!Read, Br!Cleared, Br!Act, Br!Type
<1>5. ASSUME NEW c \in Calls,
             Br!Closed(c) \/ Br!Deleted(c) \/ \E kind \in {"stop", "reset"} : Br!Stop(c, kind)
      PROVE  control'.secret \in {0, control.secret} /\ asked' = asked
  <2>1. Br!Turned(Br!Released) \/ UNCHANGED control
    BY <1>5 DEF Br!Closed, Br!Deleted, Br!Stop
  <2>2. asked' = asked
    BY <1>5 DEF Br!Closed, Br!Deleted, Br!Stop
  <2> QED BY <1>0, <2>1, <2>2 DEF Br!Turned
<1>6. CASE UNCHANGED Br!vars
  BY <1>6 DEF Br!vars
<1> QED BY <1>1, <1>2, <1>3, <1>4, <1>5, <1>6 DEF Br!Next

\* Only a value that is typed is recorded as typed: in the field of its request, or elsewhere when
\* the page of the call shows it no more.
TypedNow(c) ==
  /\ call[c].kind = "secret" /\ call[c].step = "acting" /\ control'.secret = 0
  /\ UNCHANGED <<browser, live, refs, astray>> /\ browser[call[c].page] = "up"
  /\ typed'[c] = call[c].secret \/ call[c].secret \notin refs[call[c].page]

LEMMA TypingMoves ==
  ASSUME BrowserTyped, [Br!Next]_(Br!vars), NEW c \in Calls
  PROVE  \/ typed'[c] = typed[c]
         \/ TypedNow(c)
<1>1. ASSUME NEW d \in Calls, Br!Type(d)
      PROVE  \/ typed'[c] = typed[c]
             \/ TypedNow(c)
  <2>1. control'.secret = 0
    BY <1>1 DEF Br!Type, Br!Supplied, BrowserTyped, Wheel
  <2>2. CASE typed' = typed
    BY <2>2
  <2>3. CASE browser[call[d].page] = "up" /\ typed' = [typed EXCEPT ![d] = Br!Field(d)]
    <3>1. CASE c = d
      <4>1. typed'[c] = Br!Field(c)
        BY <2>3, <3>1 DEF BrowserTyped
      <4>2. typed'[c] = call[c].secret \/ call[c].secret \notin refs[call[c].page]
        BY <4>1 DEF Br!Field, Br!Ref
      <4> QED BY <1>1, <2>1, <2>3, <3>1, <4>2 DEF Br!Type, TypedNow
    <3>2. CASE c # d
      BY <2>3, <3>2 DEF BrowserTyped
    <3> QED BY <3>1, <3>2
  <2> QED BY <1>1, <2>2, <2>3 DEF Br!Type
<1>2. ASSUME NEW d \in Calls,
             \/ Br!BotActs(d) \/ Br!HumanActs(d) \/ Br!SupplySecret(d) \/ Br!Read(d)
             \/ Br!Cleared(d) \/ Br!Act(d) \/ Br!Closed(d) \/ Br!Deleted(d)
             \/ \E kind \in {"stop", "reset"} : Br!Stop(d, kind)
      PROVE  typed' = typed
  BY <1>2 DEF Br!BotActs, Br!HumanActs, Br!SupplySecret, Br!Read, Br!Cleared, Br!Act,
              Br!Closed, Br!Deleted, Br!Stop
<1>3. ASSUME NEW k \in Br!Launches, Br!Launched(k) \/ Br!LaunchFails(k) \/ Br!Exited(k)
                                   \/ Br!Turn(k) \/ Br!Break(k)
      PROVE  typed' = typed
  BY <1>3 DEF Br!Launched, Br!LaunchFails, Br!Exited, Br!Turn, Br!Break
<1>4. CASE Br!Take \/ Br!Release \/ Br!RequestSecret \/ UNCHANGED Br!vars
  BY <1>4 DEF Br!Take, Br!Release, Br!RequestSecret, Br!vars
<1> QED BY <1>1, <1>2, <1>3, <1>4 DEF Br!Next

\* What the documents show: the field of a request from when it was made, for as long as the browser
\* is up.  What was lost hold of once stays so.
LEMMA RefMoves ==
  ASSUME BrowserTyped, [Br!Next]_(Br!vars)
  PROVE  /\ \A k \in Br!Launches : \A r \in refs'[k] : r \in refs[k] \/ r = asked + 1
         /\ astray \subseteq astray'
<1>1. CASE Br!RequestSecret
  BY <1>1 DEF Br!RequestSecret, Br!NextAsk, BrowserTyped
<1>2. ASSUME NEW k \in Br!Launches, Br!Leave(k), UNCHANGED astray
      PROVE  /\ \A j \in Br!Launches : \A r \in refs'[j] : r \in refs[j]
             /\ astray \subseteq astray'
  BY <1>2 DEF Br!Leave, BrowserTyped
<1>3. ASSUME NEW k \in Br!Launches, Br!Launched(k) \/ Br!LaunchFails(k) \/ Br!Exited(k)
                                   \/ Br!Turn(k) \/ Br!Break(k)
      PROVE  /\ \A j \in Br!Launches : \A r \in refs'[j] : r \in refs[j]
             /\ astray \subseteq astray'
  BY <1>2, <1>3 DEF Br!Launched, Br!LaunchFails, Br!Exited, Br!Turn, Br!Break
<1>4. ASSUME NEW c \in Calls,
             \/ Br!BotActs(c) \/ Br!HumanActs(c) \/ Br!SupplySecret(c) \/ Br!Read(c)
             \/ Br!Cleared(c) \/ Br!Act(c) \/ Br!Type(c) \/ Br!Closed(c) \/ Br!Deleted(c)
      PROVE  UNCHANGED refs /\ astray \subseteq astray'
  BY <1>4 DEF Br!BotActs, Br!HumanActs, Br!SupplySecret, Br!Read, Br!Cleared, Br!Act, Br!Type,
              Br!Closed, Br!Deleted
<1>5. ASSUME NEW c \in Calls, NEW kind \in {"stop", "reset"}, Br!Stop(c, kind)
      PROVE  /\ \A j \in Br!Launches : \A r \in refs'[j] : r \in refs[j]
             /\ astray \subseteq astray'
  <2>1. live \in Br!Launches \/ live = 0
    BY Assumed DEF BrowserTyped, Br!Launches
  <2> QED BY <1>2, <1>5, <2>1 DEF Br!Stop
<1>6. CASE Br!Take \/ Br!Release \/ UNCHANGED Br!vars
  BY <1>6 DEF Br!Take, Br!Release, Br!vars
<1> QED BY <1>1, <1>3, <1>4, <1>5, <1>6 DEF Br!Next

LEMMA RefsUpNext == BrowserTyped /\ Known /\ RefsUp /\ [Br!Next]_(Br!vars) => RefsUp'
<1> SUFFICES ASSUME BrowserTyped, Known, RefsUp, [Br!Next]_(Br!vars), astray' = {},
                    NEW j \in Br!Launches, refs'[j] # {}
             PROVE  browser'[j] = "up"
  BY DEF RefsUp
<1>0. /\ astray = {} /\ Holds
      /\ \A k \in Br!Launches : refs[k] # {} => browser[k] = "up"
  BY RefMoves DEF Known, RefsUp
<1>1. ASSUME UNCHANGED refs, browser[j] = "up" => browser'[j] = "up"
      PROVE  browser'[j] = "up"
  BY <1>0, <1>1
<1>2. CASE Br!RequestSecret
  BY <1>0, <1>2 DEF Br!RequestSecret, BrowserTyped
<1>3. ASSUME NEW k \in Br!Launches, Br!Leave(k),
             browser' = browser \/ \E x \in BrowserStates : browser' = [browser EXCEPT ![k] = x]
      PROVE  browser'[j] = "up"
  <2>1. j # k /\ refs'[j] = refs[j]
    BY <1>3 DEF Br!Leave, BrowserTyped
  <2>2. browser'[j] = browser[j]
    BY <1>3, <2>1 DEF BrowserTyped
  <2> QED BY <1>0, <2>1, <2>2
<1>4. ASSUME NEW k \in Br!Launches, Br!Turn(k) \/ Br!Break(k) PROVE browser'[j] = "up"
  BY <1>3, <1>4 DEF Br!Turn, Br!Break, BrowserStates
<1>5. ASSUME NEW k \in Br!Launches, Br!Launched(k) \/ Br!LaunchFails(k) \/ Br!Exited(k)
      PROVE  browser'[j] = "up"
  <2>1. UNCHANGED refs /\ browser[k] # "up"
    BY <1>5 DEF Br!Launched, Br!LaunchFails, Br!Exited
  <2>2. \E x \in BrowserStates : browser' = [browser EXCEPT ![k] = x]
    BY <1>5 DEF Br!Launched, Br!LaunchFails, Br!Exited, BrowserStates
  <2>3. browser[j] = "up" => browser'[j] = "up"
    BY <2>1, <2>2 DEF BrowserTyped
  <2> QED BY <1>1, <2>1, <2>3
<1>6. ASSUME NEW c \in Calls, NEW r \in CallRecord, Br!Page(c, r), UNCHANGED refs
      PROVE  browser'[j] = "up"
  <2>1. UNCHANGED browser \/ \E k \in Br!Launches : Launching(k)
    BY <1>6, PageEffect
  <2>2. browser[j] = "up" => browser'[j] = "up"
    BY <2>1 DEF Launching, BrowserTyped
  <2> QED BY <1>1, <1>6, <2>2
<1>7. ASSUME NEW c \in Calls, Br!BotActs(c) \/ Br!Read(c) PROVE browser'[j] = "up"
  <2>1. UNCHANGED refs /\ (Br!Page(c, Br!Idle) \/ Br!Page(c, call[c]) \/ UNCHANGED browser)
    BY <1>7 DEF Br!BotActs, Br!Read
  <2>2. Br!Idle \in CallRecord /\ call[c] \in CallRecord
    BY Assumed, RecordTypes DEF BrowserTyped
  <2> QED BY <1>1, <1>6, <2>1, <2>2
<1>8. ASSUME NEW c \in Calls, Br!Cleared(c) PROVE browser'[j] = "up"
  <2>1. UNCHANGED refs
    BY <1>8 DEF Br!Cleared
  <2>2. PICK k \in Br!Launches :
          /\ Br!Begin(c, call[c], k)
          /\ browser' = [browser EXCEPT ![call[c].page] = IF browser[call[c].page] = "broken"
                                                     THEN "exiting" ELSE browser[call[c].page],
                                   ![k] = "launching"]
    BY <1>8 DEF Br!Cleared
  <2>3. browser[j] = "up" => browser'[j] = "up"
    BY <2>2 DEF Br!Begin, BrowserTyped
  <2> QED BY <1>1, <2>1, <2>3
<1>9. ASSUME NEW c \in Calls, NEW kind \in {"stop", "reset"}, Br!Stop(c, kind)
      PROVE  browser'[j] = "up"
  <2>1. CASE live # 0
    <3>1. live \in Br!Launches
      BY <2>1, Assumed DEF BrowserTyped, Br!Launches
    <3>2. Br!Leave(live) /\ \E x \in BrowserStates : browser' = [browser EXCEPT ![live] = x]
      BY <1>9, <2>1 DEF Br!Stop, BrowserStates
    <3> QED BY <1>3, <3>1, <3>2
  <2>2. CASE live = 0
    BY <1>1, <1>9, <2>2 DEF Br!Stop
  <2> QED BY <2>1, <2>2
<1>10. ASSUME NEW c \in Calls, Br!Closed(c) PROVE browser'[j] = "up"
  <2>1. browser[call[c].page] # "up" /\ UNCHANGED refs
    BY <1>0, <1>10 DEF Br!Closed, Holds
  <2>2. browser' = [browser EXCEPT ![call[c].page] = "gone"]
    BY <1>10 DEF Br!Closed
  <2>3. browser[j] = "up" => browser'[j] = "up"
    BY <2>1, <2>2 DEF BrowserTyped
  <2> QED BY <1>1, <2>1, <2>3
<1>11. ASSUME NEW c \in Calls,
              Br!HumanActs(c) \/ Br!SupplySecret(c) \/ Br!Act(c) \/ Br!Type(c) \/ Br!Deleted(c)
       PROVE  browser'[j] = "up"
  <2>1. UNCHANGED <<refs, browser>>
    BY <1>11 DEF Br!HumanActs, Br!SupplySecret, Br!Act, Br!Type, Br!Deleted
  <2> QED BY <1>1, <2>1
<1>12. CASE Br!Take \/ Br!Release \/ UNCHANGED Br!vars
  <2>1. UNCHANGED <<refs, browser>>
    BY <1>12 DEF Br!Take, Br!Release, Br!vars
  <2> QED BY <1>1, <2>1
<1> QED
  BY <1>2, <1>4, <1>5, <1>7, <1>8, <1>9, <1>10, <1>11, <1>12 DEF Br!Next

LEMMA AnsweringNext ==
  BrowserTyped /\ Known /\ RefsUp /\ Answering /\ [Br!Next]_(Br!vars) => Answering'
<1> SUFFICES ASSUME BrowserTyped, Known, RefsUp, Answering, [Br!Next]_(Br!vars) PROVE Answering'
  OBVIOUS
<1>0. /\ asked \in Nat /\ control.secret \in Nat /\ control.secret <= asked
      /\ \A c \in Calls : sent[c] \in Nat /\ sent[c] <= asked
  BY Assumed DEF BrowserTyped, Wheel, Answering
<1>1. \/ control'.secret \in {0, control.secret} /\ asked' = asked
      \/ control'.secret = asked + 1 /\ asked' = asked + 1
  BY RequestMoves
<1>2. control'.secret <= asked' /\ asked <= asked' /\ asked' \in Nat
  BY <1>0, <1>1
<1>3. ASSUME NEW c \in Calls
      PROVE  /\ sent'[c] <= asked' /\ HasPage(c)'
             /\ call'[c].step = "none" => typed'[c] = 0
             /\ call'[c].kind = "secret" => call'[c].secret = sent'[c] /\ sent'[c] # 0
             /\ typed'[c] # 0 => /\ sent'[c] # 0 /\ control'.secret # sent'[c]
                                 /\ \/ typed'[c] = sent'[c]
                                    \/ \A k \in Br!Launches : sent'[c] \notin refs'[k]
                                    \/ astray' # {}
  <2>1. /\ call[c].step = "none" => typed[c] = 0
        /\ call[c].kind = "secret" => call[c].secret = sent[c] /\ sent[c] # 0
        /\ typed[c] # 0 => /\ sent[c] # 0 /\ control.secret # sent[c]
                           /\ \/ typed[c] = sent[c]
                              \/ \A k \in Br!Launches : sent[c] \notin refs[k]
                              \/ astray # {}
        /\ HasPage(c)
    BY DEF Answering
  <2>2. CallMove(c)
    BY CallMoves
  <2>3. sent'[c] = sent[c] \/ sent'[c] = control.secret
    BY <2>2 DEF CallMove, GoesOn, ComesIn
  <2>4. sent'[c] <= asked' /\ HasPage(c)'
    <3>1. HasPage(c)'
      BY <2>1, <2>2 DEF CallMove, GoesOn, ComesIn, HasPage
    <3> QED BY <1>0, <1>2, <2>3, <3>1
  <2>5. call'[c].kind = "secret" => call'[c].secret = sent'[c] /\ sent'[c] # 0
    BY <2>1, <2>2 DEF CallMove, GoesOn, ComesIn
  <2>6. CASE typed'[c] = typed[c]
    <3>1. call'[c].step = "none" => typed'[c] = 0
      BY <2>1, <2>2, <2>6 DEF CallMove, GoesOn, ComesIn
    <3>2. ASSUME typed[c] # 0
          PROVE  /\ sent'[c] # 0 /\ control'.secret # sent'[c]
                 /\ \/ typed[c] = sent'[c]
                    \/ \A k \in Br!Launches : sent'[c] \notin refs'[k]
                    \/ astray' # {}
      <4>1. sent[c] # 0 /\ control.secret # sent[c] /\ call[c].step # "none"
        BY <2>1, <3>2
      <4>2. sent'[c] = sent[c]
        BY <2>2, <4>1 DEF CallMove, GoesOn, ComesIn
      <4>3. control'.secret # sent[c] /\ asked + 1 # sent[c]
        BY <1>0, <1>1, <4>1
      <4>4. \/ typed[c] = sent[c]
            \/ \A k \in Br!Launches : sent[c] \notin refs'[k]
            \/ astray' # {}
        BY <2>1, <3>2, <4>3, RefMoves
      <4> QED BY <4>1, <4>2, <4>3, <4>4
    <3> QED BY <2>4, <2>5, <2>6, <3>1, <3>2
  <2>7. CASE TypedNow(c)
    <3>1. call'[c].step # "none" /\ sent'[c] = sent[c]
      BY <2>2, <2>7 DEF CallMove, GoesOn, ComesIn, TypedNow
    <3>2. sent[c] = call[c].secret /\ sent[c] # 0 /\ control'.secret # sent[c]
      BY <2>1, <2>7 DEF TypedNow
    <3>3. ASSUME astray' = {}, sent[c] \notin refs[call[c].page], NEW k \in Br!Launches
          PROVE  sent[c] \notin refs'[k]
      <4>1. astray = {} /\ refs' = refs /\ browser[call[c].page] = "up"
        BY <2>7, <3>3 DEF TypedNow
      <4>2. call[c].page \in Br!Launches
        BY <2>1, <2>7, Assumed DEF TypedNow, HasPage, BrowserTyped, CallRecord, Br!Launches
      <4>3. sent[c] \in refs[k] => k = call[c].page
        BY <4>1, <4>2 DEF Known, Holds, RefsUp
      <4> QED BY <3>3, <4>1, <4>3
    <3>4. \/ typed'[c] = sent[c]
          \/ \A k \in Br!Launches : sent[c] \notin refs'[k]
          \/ astray' # {}
      BY <2>7, <3>2, <3>3 DEF TypedNow
    <3> QED BY <2>4, <2>5, <3>1, <3>2, <3>4
  <2> QED BY <2>6, <2>7, TypingMoves
<1> QED BY <1>2, <1>3 DEF Answering

LEMMA AnsweringInit == Br!Init => Answering /\ RefsUp
BY DEF Br!Init, Answering, RefsUp, HasPage, Br!Released, Br!Idle

\* A value is typed in the field its request named, however requests and the wheel change and
\* browsers come and go while it is on its way, unless the document with that field is shown no
\* more or the process lost hold of a browser; and it leaves no request open that it answered
\* (control.ts, pendingSecret and secretSupplied; index.ts, the handler of secrets, locateRef).
THEOREM SecretsInTheirFields == Bounded => (Br!Spec => []SecretInItsField)
<1>1. Answering => SecretInItsField
  BY DEF Answering, SecretInItsField, Br!SecretInItsField
<1>2. BrowserTyped /\ Known /\ RefsUp /\ Answering /\ [Br!Next]_(Br!vars)
        => (RefsUp /\ Answering)'
  BY RefsUpNext, AnsweringNext
<1>3. Bounded /\ Br!Spec => [](RefsUp /\ Answering)
  BY <1>2, AlwaysKnown, AnsweringInit, PTL DEF Br!Spec
<1> QED BY <1>1, <1>3, PTL

\* The Bot acts at the Bot's wheel and a person at hers, but for what was admitted
\* before the wheel changed hands (control.ts, assertBotMayAct and humanMayDrive).
THEOREM WheelIsRespected == Bounded => (Br!Spec => WheelRespected)
<1>1. Steering /\ [Br!Next]_(Br!vars) =>
        [\A c \in Calls :
           call[c].step = "acting" /\ call'[c].step = "over" /\ call[c].kind # "secret"
           => control.holder = Br!Holder(call[c].kind) \/ c \in moved]_(Br!vars)
  BY DEF Steering
<1>2. Bounded /\ Br!Spec => [](BrowserTyped /\ Steering)
  BY BrowserTypeInit, BrowserTypeNext, SteeringInit, SteeringNext, PTL DEF Br!Spec
<1> QED BY <1>1, <1>2, PTL DEF Br!Spec, WheelRespected, Br!WheelRespected
=============================================================================
