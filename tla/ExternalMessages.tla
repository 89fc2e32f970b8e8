-------------------------- MODULE ExternalMessages --------------------------
(***************************************************************************)
(* Messages that cross a channel bridge (server/src/autonomy/channels.ts): *)
(* the receipt that makes an inbound message one task run however often    *)
(* its provider sends it, and the outbox that delivers the reply.          *)
(*                                                                         *)
(* Neither is one transaction: the handler of a request inserts the        *)
(* receipt, creates the run, links them and, when a step throws, deletes   *)
(* the receipt again; the executor's hook completes the receipt and then   *)
(* inserts the reply.  A request inserts at most one receipt and creates   *)
(* at most one run, so both are named by the request.  How a run executes  *)
(* is module TaskRuns; here it starts, ends, and its source is told, un-   *)
(* less its status is written from outside the executor.                   *)
(*                                                                         *)
(* A mishap is what the code cannot prevent: a statement that throws, a    *)
(* process that dies, an answer of the provider that is lost, a worker     *)
(* that stalls past its lease.                                             *)
(*                                                                         *)
(* Operators marked "Slip" are plausible mistakes in the operator that     *)
(* follows them; no action uses them, the runs show that each is noticed.  *)
(***************************************************************************)
EXTENDS Naturals, SequencesExt

CONSTANTS
  Requests,     \* HTTP requests of the provider
  Messages,     \* what the provider names with externalMessageId
  Workers,      \* delivery workers, one in each server process
  MaxAttempts,  \* column max_attempts
  MaxMishaps    \* bound: mishaps

ASSUME BoundsAssumption == MaxAttempts \in Nat \ {0} /\ MaxMishaps \in Nat

VARIABLES
  about,    \* about[q]: the message request q carries
  request,  \* request[q]: where the handler of q stands
  receipt,  \* receipt[q]: the inbound row q inserted
  run,      \* run[q]: the run q created, until its source has been told; "aside"
            \* while no attempt is at it, "closed" when it ended outside the executor
  outbox,   \* outbound rows by createdAt, each named by its inbound row
  reply,    \* reply[q]: the columns of that outbound row
  seen,     \* seen[q]: times the external conversation received the reply
  worker,   \* worker[w]: the claim worker w holds
  active,   \* the connection is active, not paused
  mishaps

vars == <<about, request, receipt, run, outbox, reply, seen, worker, active, mishaps>>

inboundVars  == <<request, receipt>>
outboundVars == <<outbox, reply, seen, worker>>

Answers == {"accepted", "duplicate", "refused", "dead"}

Absent == [status |-> "absent", linked |-> FALSE]
Idle   == [step |-> "idle"]
Claim  == [step : {"delivering", "accepted", "refused"},
           reply : Requests, attempt : Nat \ {0}]

NewReply == [status |-> "pending", attempt |-> 0, leased |-> FALSE, due |-> TRUE]

Outbound == ToSet(outbox)

TypeOK ==
  /\ about \in [Requests -> Messages]
  /\ request \in [Requests -> Answers \cup
                    {"coming", "active", "inserted", "created", "linked", "undo"}]
  /\ receipt \in [Requests -> [status : {"absent", "accepted", "completed", "failed"},
                               linked : BOOLEAN]]
  /\ run \in [Requests -> {"none", "queued", "running", "succeeded", "replying",
                           "failed", "over", "aside", "closed"}]
  /\ IsInjective(outbox) /\ Outbound \subseteq Requests
  /\ reply \in [Requests -> [status : {"pending", "sending", "delivered", "failed"},
                             attempt : Nat, leased : BOOLEAN, due : BOOLEAN]]
  /\ seen \in [Requests -> Nat]
  /\ worker \in [Workers -> {Idle} \cup Claim]
  /\ active \in BOOLEAN
  /\ mishaps \in 0..MaxMishaps

Mishap == mishaps < MaxMishaps /\ mishaps' = mishaps + 1

Init ==
  /\ about \in [Requests -> Messages]
  /\ request = [q \in Requests |-> "coming"]
  /\ receipt = [q \in Requests |-> Absent]
  /\ run = [q \in Requests |-> "none"]
  /\ outbox = <<>>
  /\ reply = [q \in Requests |-> NewReply]
  /\ seen = [q \in Requests |-> 0]
  /\ worker = [w \in Workers |-> Idle]
  /\ active = TRUE
  /\ mishaps = 0

----------------------------------------------------------------------------
(* ingestHttp.                                                             *)

Go(q, s) == request' = [request EXCEPT ![q] = s]

\* The connection is looked up once, before anything is written.
Receive(q) ==
  /\ request[q] = "coming"
  /\ Go(q, IF active THEN "active" ELSE "refused")
  /\ UNCHANGED <<about, receipt, run, outboundVars, active, mishaps>>

\* The unique index on connection, direction and provider id.
\* Slip: receipts that are settled no longer count.
TakenWhileOpen(m) == \E q \in Requests : about[q] = m /\ receipt[q].status = "accepted"
Taken(m) == \E q \in Requests : about[q] = m /\ receipt[q].status # "absent"

InsertReceipt(q) ==
  /\ request[q] = "active"
  /\ IF Taken(about[q])
     THEN Go(q, "duplicate") /\ UNCHANGED receipt
     ELSE /\ Go(q, "inserted")
          /\ receipt' = [receipt EXCEPT ![q].status = "accepted"]
  /\ UNCHANGED <<about, run, outboundVars, active, mishaps>>

CreateRun(q) ==
  /\ request[q] = "inserted"
  /\ Go(q, "created")
  /\ run' = [run EXCEPT ![q] = "queued"]
  /\ UNCHANGED <<about, receipt, outboundVars, active, mishaps>>

\* From here on the executor can find the run through its source.
\* Slip: the update matches no row.
LinkedNowhere(q) == receipt
Linked(q) == [receipt EXCEPT ![q].linked = TRUE]

LinkRun(q) ==
  /\ request[q] = "created"
  /\ Go(q, "linked")
  /\ receipt' = Linked(q)
  /\ UNCHANGED <<about, run, outboundVars, active, mishaps>>

Answer(q) ==
  /\ request[q] = "linked"
  /\ Go(q, "accepted")
  /\ UNCHANGED <<about, receipt, run, outboundVars, active, mishaps>>

\* A statement of the try block throws.
HandlerFails(q) ==
  /\ request[q] \in {"inserted", "created", "linked"}
  /\ Mishap
  /\ Go(q, "undo")
  /\ UNCHANGED <<about, receipt, run, outboundVars, active>>

\* The catch block.  The run, if there is one, stays.
Undo(q) ==
  /\ request[q] = "undo"
  /\ receipt' = [receipt EXCEPT ![q] = Absent]
  /\ Go(q, "refused")
  /\ UNCHANGED <<about, run, outboundVars, active, mishaps>>

HandlerDies(q) ==
  /\ request[q] \notin Answers \cup {"coming"}
  /\ Mishap
  /\ Go(q, "dead")
  /\ UNCHANGED <<about, receipt, run, outboundVars, active>>

----------------------------------------------------------------------------
(* The executor and its hooks, onSucceeded and onFailed of index.ts.       *)

Start(q) ==
  /\ run[q] = "queued" /\ receipt[q].linked
  /\ run' = [run EXCEPT ![q] = "running"]
  /\ UNCHANGED <<about, inboundVars, outboundVars, active, mishaps>>

EndRun(q) ==
  /\ run[q] = "running"
  /\ \E end \in {"succeeded", "failed"} : run' = [run EXCEPT ![q] = end]
  /\ UNCHANGED <<about, inboundVars, outboundVars, active, mishaps>>

\* completeInbound: it throws when the receipt was deleted.
Complete(q) ==
  /\ run[q] = "succeeded"
  /\ IF receipt[q].status = "absent"
     THEN run' = [run EXCEPT ![q] = "over"] /\ UNCHANGED receipt
     ELSE /\ run' = [run EXCEPT ![q] = "replying"]
          /\ receipt' = [receipt EXCEPT ![q].status = "completed"]
  /\ UNCHANGED <<about, request, outboundVars, active, mishaps>>

InsertReply(q) ==
  /\ run[q] = "replying"
  /\ run' = [run EXCEPT ![q] = "over"]
  /\ outbox' = Append(outbox, q)
  /\ UNCHANGED <<about, inboundVars, reply, seen, worker, active, mishaps>>

FailInbound(q) ==
  /\ run[q] = "failed"
  /\ run' = [run EXCEPT ![q] = "over"]
  /\ receipt' = IF receipt[q].status = "absent" THEN receipt
                ELSE [receipt EXCEPT ![q].status = "failed"]
  /\ UNCHANGED <<about, request, outboundVars, active, mishaps>>

\* The process dies, or a statement of the hook throws: the hook is not retried.
HookFails(q) ==
  /\ run[q] \in {"succeeded", "replying", "failed"}
  /\ Mishap
  /\ run' = [run EXCEPT ![q] = "over"]
  /\ UNCHANGED <<about, inboundVars, outboundVars, active>>

\* transitionOn: the status is written by a member's PATCH, or by an approval that the
\* attempt asks for and somebody answers. A run that is set to wait or out of the queue
\* is no attempt's, once its attempt has noticed; no hook follows a status written here.
MoveRun(q) ==
  /\ \/ /\ run[q] \in {"queued", "running"}
        /\ run' = [run EXCEPT ![q] = "aside"]
     \/ /\ run[q] = "aside"
        /\ run' = [run EXCEPT ![q] = "queued"]
     \/ /\ run[q] \in {"queued", "running", "aside"}
        /\ run' = [run EXCEPT ![q] = "closed"]
  /\ UNCHANGED <<about, inboundVars, outboundVars, active, mishaps>>

\* The process dies that executes the run, or its claim is lost on the way to it: the
\* row stays "running", for recoverExpiredAutomated reads no run of a message.
ExecutorDies(q) ==
  /\ run[q] = "running"
  /\ Mishap
  /\ run' = [run EXCEPT ![q] = "aside"]
  /\ UNCHANGED <<about, inboundVars, outboundVars, active>>

----------------------------------------------------------------------------
(* The delivery workers.                                                   *)

\* Slip: whatever is being sent may be sent by somebody else as well.
SendingToo(q) == reply[q].status \in {"pending", "sending"} /\ reply[q].due
\* Slip: an expired lease is nobody's business.
PendingOnly(q) == reply[q].status = "pending" /\ reply[q].due
Claimable(q) ==
  /\ \/ reply[q].status = "pending"
     \/ reply[q].status = "sending" /\ ~reply[q].leased
  /\ reply[q].due

\* claimDelivery: the oldest row, whatever its attempt.
ClaimDelivery(w) ==
  /\ worker[w] = Idle /\ active
  /\ \E i \in 1..Len(outbox) :
       LET q == outbox[i] attempt == reply[q].attempt + 1
       IN  /\ Claimable(q)
           /\ \A j \in 1..(i - 1) : ~Claimable(outbox[j])
           /\ reply' = [reply EXCEPT ![q].status = "sending", ![q].attempt = attempt,
                                     ![q].leased = TRUE]
           /\ worker' = [worker EXCEPT
                ![w] = [step |-> "delivering", reply |-> q, attempt |-> attempt]]
  /\ UNCHANGED <<about, inboundVars, run, outbox, seen, active, mishaps>>

\* deliver: the provider takes the message or the call throws, and it may throw
\* after the provider took the message.
Deliver(w) ==
  /\ worker[w].step = "delivering"
  /\ \E step \in {"accepted", "refused"}, taken \in BOOLEAN :
       /\ step = "accepted" => taken
       /\ IF step = "refused" /\ taken THEN Mishap ELSE UNCHANGED mishaps
       /\ worker' = [worker EXCEPT ![w].step = step]
       /\ seen' = IF taken THEN [seen EXCEPT ![worker[w].reply] = @ + 1] ELSE seen
  /\ UNCHANGED <<about, inboundVars, run, outbox, reply, active>>

\* The columns settleDelivery writes.
\* Slip: the last attempt is not made.
OneShort(row, claim) ==
  IF claim.step = "accepted" THEN [row EXCEPT !.status = "delivered", !.leased = FALSE]
  ELSE IF claim.attempt + 1 < MaxAttempts
       THEN [row EXCEPT !.status = "pending", !.leased = FALSE, !.due = FALSE]
       ELSE [row EXCEPT !.status = "failed", !.leased = FALSE]
Settled(row, claim) ==
  IF claim.step = "accepted" THEN [row EXCEPT !.status = "delivered", !.leased = FALSE]
  ELSE IF claim.attempt < MaxAttempts
       THEN [row EXCEPT !.status = "pending", !.leased = FALSE, !.due = FALSE]
       ELSE [row EXCEPT !.status = "failed", !.leased = FALSE]

\* The rows the update of settleDelivery matches: whoever claimed them.
Settleable(q) == reply[q].status = "sending"

SettleDelivery(w) ==
  /\ worker[w].step \in {"accepted", "refused"}
  /\ LET q == worker[w].reply
     IN  reply' = IF Settleable(q) THEN [reply EXCEPT ![q] = Settled(@, worker[w])]
                  ELSE reply
  /\ worker' = [worker EXCEPT ![w] = Idle]
  /\ UNCHANGED <<about, inboundVars, run, outbox, seen, active, mishaps>>

\* The update throws: a success is settled again, as a failure; a failure ends
\* the tick and leaves the row to its lease.
SettleFails(w) ==
  /\ worker[w].step \in {"accepted", "refused"}
  /\ Mishap
  /\ worker' = IF worker[w].step = "accepted"
               THEN [worker EXCEPT ![w].step = "refused"]
               ELSE [worker EXCEPT ![w] = Idle]
  /\ UNCHANGED <<about, inboundVars, run, outbox, reply, seen, active>>

\* The process dies and is started again: it has forgotten its claim.
WorkerDies(w) ==
  /\ worker[w] # Idle
  /\ Mishap
  /\ worker' = [worker EXCEPT ![w] = Idle]
  /\ UNCHANGED <<about, inboundVars, run, outbox, reply, seen, active>>

----------------------------------------------------------------------------
(* Time, and the owner of the connection.                                  *)

\* Some worker is still at the claim the lease was given for.
Held(q) == \E w \in Workers : worker[w] # Idle /\ worker[w].reply = q
                              /\ worker[w].attempt = reply[q].attempt

LeaseExpires(q) ==
  /\ reply[q].leased
  /\ IF Held(q) THEN Mishap ELSE UNCHANGED mishaps
  /\ reply' = [reply EXCEPT ![q].leased = FALSE]
  /\ UNCHANGED <<about, inboundVars, run, outbox, seen, worker, active>>

DelayEnds(q) ==
  /\ ~reply[q].due
  /\ reply' = [reply EXCEPT ![q].due = TRUE]
  /\ UNCHANGED <<about, inboundVars, run, outbox, seen, worker, active, mishaps>>

PauseOrResume ==
  /\ active' = ~active
  /\ UNCHANGED <<about, inboundVars, run, outboundVars, mishaps>>

----------------------------------------------------------------------------
Handling(q) ==
  InsertReceipt(q) \/ CreateRun(q) \/ LinkRun(q) \/ Answer(q) \/ Undo(q)
Executing(q) == Start(q) \/ EndRun(q) \/ Complete(q) \/ InsertReply(q) \/ FailInbound(q)
Delivering(w) == ClaimDelivery(w) \/ Deliver(w) \/ SettleDelivery(w)

Next ==
  \/ \E q \in Requests :
       \/ Receive(q) \/ Handling(q) \/ HandlerFails(q) \/ HandlerDies(q)
       \/ Executing(q) \/ HookFails(q) \/ MoveRun(q) \/ ExecutorDies(q)
       \/ LeaseExpires(q) \/ DelayEnds(q)
  \/ \E w \in Workers : Delivering(w) \/ SettleFails(w) \/ WorkerDies(w)
  \/ PauseOrResume

Spec == Init /\ [][Next]_vars

Fairness ==
  /\ \A q \in Requests :
       /\ WF_vars(Handling(q))
       /\ WF_vars(Executing(q))
       /\ WF_vars(LeaseExpires(q) /\ ~Held(q))
       /\ WF_vars(DelayEnds(q))
  /\ \A w \in Workers : WF_vars(Delivering(w))

FairSpec == Spec /\ Fairness

----------------------------------------------------------------------------
(* Properties.                                                             *)

\* "external provider requests are [...] deduplicated before they create a task
\* run" (docs/architecture.md:213): however the requests for one message interleave,
\* at most one of them is answered as accepted and new, and two of them have a run only
\* when the receipt of one was withdrawn and its provider told so.
HasRun(q) == run[q] # "none"
Deduplicated ==
  \A q, r \in Requests : q # r /\ about[q] = about[r] =>
    /\ ~(request[q] = "accepted" /\ request[r] = "accepted")
    /\ HasRun(q) /\ HasRun(r) => "refused" \in {request[q], request[r]}

\* The conversation receives a reply twice only when something went wrong in
\* between, once for each mishap: a claim excludes every other worker.  Deliveries stop
\* at max_attempts, which the claim does not look at: only a lease that expired takes a
\* reply past it.
RepeatedByMishapOnly ==
  \A q \in Requests : /\ seen[q] <= 1 + mishaps
                      /\ reply[q].attempt <= MaxAttempts + mishaps

\* A reply marked delivered reached the provider; one marked failed used up its
\* attempts, and reached nobody unless a mishap hid the success.
StatusIsTrue ==
  \A q \in Requests :
    /\ reply[q].status = "delivered" => seen[q] > 0
    /\ reply[q].status = "failed" =>
         reply[q].attempt >= MaxAttempts /\ (seen[q] > 0 => mishaps > 0)

\* A worker that was overtaken never reopens or rewrites a settled reply.
SettledStays ==
  [][\A q \in Requests : reply[q].status \in {"delivered", "failed"} =>
       reply'[q].status = reply[q].status]_vars

\* "leased, bounded, retried, and recovered after an expired worker lease"
\* (docs/architecture.md:215): every reply is delivered or given up, through any
\* number of deaths and stalls, unless its connection is paused.
DeliveriesEnd ==
  \A q \in Requests :
    q \in Outbound ~> reply[q].status \in {"delivered", "failed"} \/ ~active

\* A provider told that its message was taken can count on it: without a mishap, some
\* run of that message ends in a reply or in a failed receipt, and does so again after
\* every time a status written from outside took it from its attempt; one that was ended
\* that way (runs/routes.ts, PATCH) is the exception, whose provider hears nothing.
MessageAnswered ==
  \A q \in Requests :
    request[q] \in {"accepted", "duplicate"} ~>
      \/ mishaps > 0
      \/ \E r \in Requests :
           /\ about[r] = about[q]
           /\ receipt[r].status = "failed" \/ r \in Outbound \/ run[r] \in {"aside", "closed"}

\* What of DeliveriesEnd holds at every moment: a reply without an end waits for one
\* thing at most, the date of its retry or the lease of its last attempt, and may be
\* claimed as soon as that is over (claimDelivery, settleDelivery).
WaitsForOneThing ==
  \A q \in Outbound :
    \/ Claimable(q)
    \/ reply[q].status = "sending" /\ reply[q].leased /\ reply[q].due
    \/ reply[q].status = "pending" /\ ~reply[q].leased /\ ~reply[q].due
    \/ reply[q].status \in {"delivered", "failed"} /\ ~reply[q].leased

\* What of MessageAnswered holds at every moment, as long as nothing goes wrong: a message
\* whose provider was told that it was taken has a receipt; an open receipt has its handler
\* at work or a run that the executor finds through it, or that a status written from
\* outside took from the executor; a completed one has its reply queued or about to be.
AnswerIsDue ==
  mishaps = 0 => \A q \in Requests :
    /\ request[q] \in {"accepted", "duplicate"} => Taken(about[q])
    /\ receipt[q].status = "accepted" =>
         \/ request[q] \in {"inserted", "created"}
         \/ receipt[q].linked /\ run[q] \in {"queued", "running", "succeeded", "failed",
                                             "aside", "closed"}
    /\ receipt[q].status = "completed" => run[q] = "replying" \/ q \in Outbound
=============================================================================
