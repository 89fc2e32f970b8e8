----------------------------- MODULE Computers -----------------------------
(***************************************************************************)
(* One computer for each Bot: the supervisor that starts, stops and resets *)
(* containers (supervisor/src), and the address lease of the server that   *)
(* calls it (server/src/computer/lease.ts).                                *)
(*                                                                         *)
(* A locate that misses the cache asks the supervisor to ensure the        *)
(* computer; the request is named by the caller that made it, and other    *)
(* callers wait for it.  The supervisor talks to Docker call by call, so   *)
(* ensures, stops and resets of one computer interleave; only ensures take *)
(* the capacity lock.  Computers answer on a published port, a new one at  *)
(* every start; addresses are numbered by start.                           *)
(*                                                                         *)
(* Operators marked "Slip" are plausible mistakes in the operator that     *)
(* follows them; no action uses them, the runs show that each is noticed.  *)
(***************************************************************************)
EXTENDS Naturals, Sequences, FiniteSets

CONSTANTS
  Bots,
  Callers,     \* callers of locate
  Orders,      \* calls of stop and reset
  Scenes,      \* which Bot each caller and order is about, and what is ordered
  MaxRunning,  \* COMPUTER_MAX_RUNNING
  Attempts,    \* ATTEMPTS of ensure
  MaxFaults    \* bound: Docker failures, restarts and timeouts

ASSUME LimitsAssumption ==
  IsFiniteSet(Bots) /\ MaxRunning \in Nat \ {0} /\ Attempts \in Nat \ {0} /\ MaxFaults \in Nat
ASSUME ScenesAssumption ==
  /\ Callers \cap Orders = {}
  /\ Scenes \subseteq [bot : [Callers \cup Orders -> Bots],
                       kind : [Orders -> {"stop", "reset"}]]

VARIABLES
  caller,    \* caller[c]: a call of locate
  cached,    \* cached[b]: the map locations
  locating,  \* locating[b]: callers whose request is pending, one at most
  ensuring,  \* ensuring[c]: the ensure that c's request runs in the supervisor
  lock,      \* the promise chain of withCapacityLock
  order,     \* order[o]: a call of stop or reset
  box,       \* box[b]: the container
  profile,   \* profile[b]: the profile volume, numbered by creation; 0: none
  starts,    \* starts of containers so far
  retired,   \* retired[b]: the last address b lost by a stop or a reset
  wiped,     \* wiped[b]: the last profile a finished reset of b meant to remove
  faults

serverVars     == <<caller, cached, locating>>
supervisorVars == <<ensuring, lock>>
dockerVars     == <<box, profile, starts, retired>>
vars == <<serverVars, supervisorVars, dockerVars, order, wiped, faults>>

Nothing == [addr |-> 0, overtaken |-> FALSE]
NoBox   == [status |-> "absent", addr |-> 0, profile |-> 0]

Working == {"queued", "inspect", "volume", "create", "start", "settle"}

TypeOK ==
  /\ caller \in [Callers -> [step : {"idle", "waiting", "answered", "failed"},
                             bot : Bots, on : Callers, addr : Nat, floor : Nat,
                             overtaken : BOOLEAN]]
  /\ cached \in [Bots -> [addr : Nat, overtaken : BOOLEAN]]
  /\ locating \in [Bots -> {s \in SUBSET Callers : Cardinality(s) <= 1}]
  /\ ensuring \in [Callers -> [step : Working \cup {"none", "answer", "refused", "error", "heard"},
                               bot : Bots, tries : 0..Attempts, addr : Nat,
                               overtaken : BOOLEAN]]
  /\ lock \in Seq(Callers)
  /\ order \in [Orders -> [step : {"idle", "asked", "wiping", "done", "failed"},
                           kind : {"stop", "reset"}, bot : Bots, gone : Nat]]
  /\ box \in [Bots -> [status : {"absent", "created", "running", "exited"},
                       addr : Nat, profile : Nat]]
  /\ \A b \in Bots : box[b].status = "running" => box[b].addr \in 1..starts
  /\ \A b \in Bots : box[b].status # "absent" => box[b].profile = profile[b] /\ profile[b] > 0
  /\ profile \in [Bots -> Nat]
  /\ starts \in Nat
  /\ retired \in [Bots -> Nat] /\ wiped \in [Bots -> Nat]
  /\ faults \in 0..MaxFaults

Init ==
  /\ \E scene \in Scenes :
       /\ caller = [c \in Callers |->
            [step |-> "idle", bot |-> scene.bot[c], on |-> c, addr |-> 0, floor |-> 0,
             overtaken |-> FALSE]]
       /\ ensuring = [c \in Callers |->
            [step |-> "none", bot |-> scene.bot[c], tries |-> Attempts, addr |-> 0,
             overtaken |-> FALSE]]
       /\ order = [o \in Orders |->
            [step |-> "idle", kind |-> scene.kind[o], bot |-> scene.bot[o], gone |-> 0]]
  /\ cached = [b \in Bots |-> Nothing]
  /\ locating = [b \in Bots |-> {}]
  /\ lock = <<>>
  /\ box = [b \in Bots |-> NoBox]
  /\ profile = [b \in Bots |-> 0]
  /\ starts = 0
  /\ retired = [b \in Bots |-> 0] /\ wiped = [b \in Bots |-> 0]
  /\ faults = 0

Fault == faults < MaxFaults /\ faults' = faults + 1

----------------------------------------------------------------------------
(* The lease: createLeasedSupervisor.                                      *)

\* A stop or reset of b is on its way or at work.
Ordered(b) == \E o \in Orders : order[o].bot = b /\ order[o].step \in {"asked", "wiping"}

Locate(c) ==
  LET b == caller[c].bot
      asks(q) == caller' = [caller EXCEPT ![c] =
                   [@ EXCEPT !.step = "waiting", !.on = q, !.floor = retired[b]]]
  IN  /\ caller[c].step = "idle"
      /\ \/ /\ cached[b].addr # 0
            /\ caller' = [caller EXCEPT ![c] =
                 [@ EXCEPT !.step = "answered", !.addr = cached[b].addr,
                           !.floor = retired[b], !.overtaken = cached[b].overtaken]]
            /\ UNCHANGED <<locating, supervisorVars>>
         \/ /\ cached[b].addr = 0
            /\ \E q \in locating[b] : asks(q)
            /\ UNCHANGED <<locating, supervisorVars>>
         \/ /\ cached[b].addr = 0 /\ locating[b] = {}
            /\ asks(c)
            /\ locating' = [locating EXCEPT ![b] = {c}]
            /\ ensuring' = [ensuring EXCEPT ![c].step = "queued",
                                            ![c].overtaken = Ordered(b)]
            /\ lock' = Append(lock, c)
      /\ UNCHANGED <<cached, order, dockerVars, wiped, faults>>

\* Everybody who waits for the request of c.
Tell(c, step, addr) ==
  caller' = [w \in Callers |->
    IF caller[w].step = "waiting" /\ caller[w].on = c
    THEN [caller[w] EXCEPT !.step = step, !.addr = addr,
                           !.overtaken = ensuring[c].overtaken]
    ELSE caller[w]]

\* The answer of the supervisor.  Whatever request is pending by now is forgotten.
Answered(c) ==
  /\ ensuring[c].step = "answer"
  /\ LET b == ensuring[c].bot
     IN  /\ cached' = [cached EXCEPT ![b] =
              [addr |-> ensuring[c].addr, overtaken |-> ensuring[c].overtaken]]
         /\ locating' = [locating EXCEPT ![b] = {}]
  /\ Tell(c, "answered", ensuring[c].addr)
  /\ ensuring' = [ensuring EXCEPT ![c].step = "heard"]
  /\ UNCHANGED <<lock, order, dockerVars, wiped, faults>>

\* An error, a refusal, or an answer without an address.
Failed(c) ==
  /\ ensuring[c].step \in {"error", "refused"}
  /\ locating' = [locating EXCEPT ![ensuring[c].bot] = {}]
  /\ Tell(c, "failed", 0)
  /\ ensuring' = [ensuring EXCEPT ![c].step = "heard"]
  /\ UNCHANGED <<cached, lock, order, dockerVars, wiped, faults>>

\* The client gives up after timeoutMs; the supervisor goes on.
TimesOut(c) ==
  /\ \E w \in Callers : caller[w].step = "waiting" /\ caller[w].on = c
  /\ ensuring[c].step \in Working
  /\ Fault
  /\ locating' = [locating EXCEPT ![ensuring[c].bot] = {}]
  /\ Tell(c, "failed", 0)
  /\ UNCHANGED <<cached, supervisorVars, order, dockerVars, wiped>>

LeaseExpires(b) ==
  /\ cached[b].addr # 0
  /\ cached' = [cached EXCEPT ![b] = Nothing]
  /\ UNCHANGED <<caller, locating, supervisorVars, order, dockerVars, wiped, faults>>

\* Slip: only the pending request is forgotten.
PendingForgotten(b) == cached
Forgotten(b) == [cached EXCEPT ![b] = Nothing]

\* stop and reset: invalidate, then call the supervisor.
Invalidate(o) ==
  LET b == order[o].bot
  IN  /\ order[o].step = "idle"
      /\ order' = [order EXCEPT ![o].step = "asked"]
      /\ cached' = Forgotten(b)
      /\ locating' = [locating EXCEPT ![b] = {}]
      /\ ensuring' = [c \in Callers |->
           IF ensuring[c].bot = b /\ ensuring[c].step \in Working \cup {"answer"}
           THEN [ensuring[c] EXCEPT !.overtaken = TRUE] ELSE ensuring[c]]
      /\ UNCHANGED <<caller, lock, dockerVars, wiped, faults>>

----------------------------------------------------------------------------
(* The supervisor: ensure.                                                 *)

Running == {b \in Bots : box[b].status = "running"}

\* Slip: a slot is free when the last one is taken.
OneTooMany(b) == b \in Running \/ Cardinality(Running) <= MaxRunning
HasCapacity(b) == b \in Running \/ Cardinality(Running) < MaxRunning

Turn(c) == lock # <<>> /\ Head(lock) = c

\* Slip: an operation that throws never gives its turn away.
KeptByErrors(step) == IF step = "error" THEN lock ELSE Tail(lock)
Released(step) == Tail(lock)

\* Where the ensure of c goes next; when it is over, it gives its turn away.
To(c, step) ==
  /\ ensuring' = [ensuring EXCEPT ![c].step = step]
  /\ lock' = IF step \in Working THEN lock ELSE Released(step)

\* With the lock, the capacity is read, and the container before anything is done.
Admit(c) ==
  /\ ensuring[c].step = "queued" /\ Turn(c)
  /\ To(c, IF HasCapacity(ensuring[c].bot) THEN "inspect" ELSE "refused")
  /\ UNCHANGED <<serverVars, order, dockerVars, wiped, faults>>

Inspect(c) ==
  /\ ensuring[c].step = "inspect"
  /\ LET status == box[ensuring[c].bot].status
     IN  To(c, IF status = "absent" THEN "volume"
               ELSE IF status = "running" THEN "settle" ELSE "start")
  /\ UNCHANGED <<serverVars, order, dockerVars, wiped, faults>>

\* What another request created is as good.
Volume(b) == IF profile[b] = 0 THEN wiped[b] + 1 ELSE profile[b]

\* The volume of the profile; the one of the workspace outlives every reset.
CreateVolume(c) ==
  /\ ensuring[c].step = "volume"
  /\ profile' = [profile EXCEPT ![ensuring[c].bot] = Volume(ensuring[c].bot)]
  /\ To(c, "create")
  /\ UNCHANGED <<serverVars, order, box, starts, retired, wiped, faults>>

\* Docker creates a volume that a container names and that is gone again.
Create(c) ==
  LET b == ensuring[c].bot
  IN  /\ ensuring[c].step = "create"
      /\ IF box[b].status = "absent"
         THEN /\ box' = [box EXCEPT ![b] =
                   [status |-> "created", addr |-> 0, profile |-> Volume(b)]]
              /\ profile' = [profile EXCEPT ![b] = Volume(b)]
         ELSE UNCHANGED <<box, profile>>
      /\ To(c, "start")
      /\ UNCHANGED <<serverVars, order, starts, retired, wiped, faults>>

\* A container that is gone is built again while there are attempts left.
StartGone(c) ==
  /\ ensuring[c].step = "start"
  /\ box[ensuring[c].bot].status = "absent"
  /\ IF ensuring[c].tries > 1
     THEN /\ ensuring' = [ensuring EXCEPT ![c].step = "inspect", ![c].tries = @ - 1]
          /\ UNCHANGED lock
     ELSE To(c, "error")
  /\ UNCHANGED <<serverVars, order, dockerVars, wiped, faults>>

Start(c) ==
  LET b == ensuring[c].bot
  IN  /\ ensuring[c].step = "start"
      /\ box[b].status # "absent"
      /\ IF box[b].status = "running"
         THEN UNCHANGED <<box, starts>>
         ELSE /\ starts' = starts + 1
              /\ box' = [box EXCEPT ![b].status = "running", ![b].addr = starts + 1]
      /\ To(c, "settle")
      /\ UNCHANGED <<serverVars, order, profile, retired, wiped, faults>>

\* The second inspection.  What follows only waits, and changes nothing.
Settle(c) ==
  LET b == ensuring[c].bot
      step == IF box[b].status = "running" THEN "answer" ELSE "refused"
  IN  /\ ensuring[c].step = "settle"
      /\ ensuring' = [ensuring EXCEPT ![c].step = step, ![c].addr = box[b].addr]
      /\ lock' = Released(step)
      /\ UNCHANGED <<serverVars, order, dockerVars, wiped, faults>>

\* Docker cannot be reached.
DockerFails(c) ==
  /\ ensuring[c].step \in Working
  /\ ensuring[c].step = "queued" => Turn(c)
  /\ Fault
  /\ To(c, "error")
  /\ UNCHANGED <<serverVars, order, dockerVars, wiped>>

\* The chain is a variable of the process; calls in progress fail with it.
SupervisorRestarts ==
  /\ lock # <<>> \/ \E o \in Orders : order[o].step = "wiping"
  /\ Fault
  /\ lock' = <<>>
  /\ ensuring' = [c \in Callers |-> IF ensuring[c].step \in Working
                                    THEN [ensuring[c] EXCEPT !.step = "error"]
                                    ELSE ensuring[c]]
  /\ order' = [o \in Orders |-> IF order[o].step = "wiping"
                                THEN [order[o] EXCEPT !.step = "failed"] ELSE order[o]]
  /\ UNCHANGED <<serverVars, dockerVars, wiped>>

----------------------------------------------------------------------------
(* The supervisor: stop and reset.                                         *)

Retire(b) ==
  retired' = IF b \in Running THEN [retired EXCEPT ![b] = box[b].addr] ELSE retired

Stop(o) ==
  LET b == order[o].bot
  IN  /\ order[o].step = "asked" /\ order[o].kind = "stop"
      /\ Retire(b)
      /\ box' = IF b \in Running
                THEN [box EXCEPT ![b].status = "exited", ![b].addr = 0] ELSE box
      /\ order' = [order EXCEPT ![o].step = "done"]
      /\ UNCHANGED <<serverVars, supervisorVars, profile, starts, wiped, faults>>

RemoveContainer(o) ==
  LET b == order[o].bot
  IN  /\ order[o].step = "asked" /\ order[o].kind = "reset"
      /\ Retire(b)
      /\ box' = [box EXCEPT ![b] = NoBox]
      /\ order' = [order EXCEPT ![o].step = IF box[b].status = "absent" THEN "done" ELSE "wiping",
                                ![o].gone = profile[b]]
      /\ UNCHANGED <<serverVars, supervisorVars, profile, starts, wiped, faults>>

\* A volume some container uses cannot be removed, and that is accepted.
\* Slip: the volume stays.
KeptVolume(b) == profile
RemovedVolume(b) ==
  IF box[b].status = "absent" THEN [profile EXCEPT ![b] = 0] ELSE profile

RemoveVolume(o) ==
  LET b == order[o].bot
  IN  /\ order[o].step = "wiping"
      /\ profile' = RemovedVolume(b)
      /\ wiped' = [wiped EXCEPT ![b] = IF order[o].gone > @ THEN order[o].gone ELSE @]
      /\ order' = [order EXCEPT ![o].step = "done"]
      /\ UNCHANGED <<serverVars, supervisorVars, box, starts, retired, faults>>

\* Docker cannot be reached: the order is answered with an error.
OrderFails(o) ==
  /\ order[o].step \in {"asked", "wiping"}
  /\ Fault
  /\ order' = [order EXCEPT ![o].step = "failed"]
  /\ UNCHANGED <<serverVars, supervisorVars, dockerVars, wiped>>

----------------------------------------------------------------------------
Ensuring(c) ==
  Admit(c) \/ Inspect(c) \/ CreateVolume(c) \/ Create(c) \/ StartGone(c) \/ Start(c) \/ Settle(c)
Hearing(c) == Answered(c) \/ Failed(c)
Ordering(o) == Stop(o) \/ RemoveContainer(o) \/ RemoveVolume(o)

Next ==
  \/ \E c \in Callers :
       Locate(c) \/ Hearing(c) \/ TimesOut(c) \/ Ensuring(c) \/ DockerFails(c)
  \/ \E o \in Orders : Invalidate(o) \/ Ordering(o) \/ OrderFails(o)
  \/ \E b \in Bots : LeaseExpires(b)
  \/ SupervisorRestarts

Spec == Init /\ [][Next]_vars

Fairness ==
  /\ \A c \in Callers : WF_vars(Ensuring(c)) /\ WF_vars(Hearing(c))
  /\ \A o \in Orders : WF_vars(Ordering(o))

FairSpec == Spec /\ Fairness

----------------------------------------------------------------------------
(* Properties.                                                             *)

\* "two simultaneous requests cannot both take the last slot"
\* (supervisor/src/index.ts:59): whatever ensures, stops, resets, failures and
\* restarts do meanwhile, no more computers run than COMPUTER_MAX_RUNNING.
CapacityHeld == Cardinality(Running) <= MaxRunning

\* "Stop and reset invalidate the lease immediately" (docs/architecture.md:85), as
\* far as it goes: an address the computer lost before locate was called is handed
\* out only when the request that fetched it overlapped the stop or the reset.
StaleOnlyWhenOvertaken ==
  \A c \in Callers :
    caller[c].step = "answered" /\ caller[c].addr <= caller[c].floor => caller[c].overtaken

\* "Throw this Bot's computer away so the next request builds a clean one"
\* (supervisor/src/docker.ts:366): a container built on a profile that an answered
\* reset meant to remove is built while another order is at work, or after one failed.
BuiltClean ==
  [][\A b \in Bots :
       box[b].status = "absent" /\ box'[b].status # "absent" /\ box'[b].profile <= wiped[b]
         => Ordered(b) \/ \E o \in Orders : order[o].bot = b /\ order[o].step = "failed"]_vars

\* An operation of the chain that throws does not keep the next from its turn
\* (withCapacityLock): every ensure the supervisor took up ends, and every caller of
\* locate hears of it.
EnsuresEnd ==
  \A c \in Callers :
    /\ ensuring[c].step = "queued" ~> ensuring[c].step \in {"answer", "refused", "error", "heard"}
    /\ caller[c].step = "waiting" ~> caller[c].step \in {"answered", "failed"}

\* withCapacityLock hangs every ensure on the one before it: the chain holds each ensure
\* that is not over exactly once, and no ensure that is, so whoever has the turn has a
\* step to take and whoever waits comes up; errors and restarts included.
ChainIsServed ==
  /\ \A c \in Callers : ensuring[c].step \in Working <=> \E i \in 1..Len(lock) : lock[i] = c
  /\ \A i, j \in 1..Len(lock) : lock[i] = lock[j] => i = j
=============================================================================
