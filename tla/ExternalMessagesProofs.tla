----------------------- MODULE ExternalMessagesProofs -----------------------
(***************************************************************************)
(* Proof that messages are deduplicated and replies keep their end, for    *)
(* any requests, messages, workers and mishaps. The invariant ties a       *)
(* receipt to the handler that wrote it: while the handler is at work or   *)
(* was successful the receipt is there, there is one receipt to a message, *)
(* and a run exists only when its receipt is there or its request was      *)
(* refused. On the way out, a reply is in the outbox once because its run  *)
(* is over by then (OutboxOver), and what is recorded of it is true        *)
(* because, as long as there was no mishap, a claim is the only one and    *)
(* the row still shows it (Calm). How often a reply arrives is a budget:   *)
(* what has arrived, what may still arrive and what may still be claimed   *)
(* are paid for by the first attempt and the mishaps (Budget).             *)
(*                                                                         *)
(* The last section says who has to act next on a message and on a reply.  *)
(***************************************************************************)
EXTENDS ExternalMessages, TLAPS, FiniteSetTheorems

Steps == Answers \cup {"coming", "active", "inserted", "created", "linked", "undo"}
Holding == {"inserted", "created", "linked", "undo", "accepted"}
Present(q) == receipt[q].status # "absent"

Receipts ==
  /\ about \in [Requests -> Messages]
  /\ request \in [Requests -> Steps]
  /\ receipt \in [Requests -> [status : {"absent", "accepted", "completed", "failed"},
                               linked : BOOLEAN]]
  /\ run \in [Requests -> {"none", "queued", "running", "succeeded", "replying",
                           "failed", "over", "aside", "closed"}]

OneReceipt ==
  \A q, r \in Requests :
    about[q] = about[r] /\ Present(q) /\ Present(r) => q = r

HandlerHolds == \A q \in Requests : request[q] \in Holding => Present(q)

LinkedLate ==
  \A q \in Requests :
    /\ receipt[q].linked =>
         Present(q) /\ request[q] \notin {"coming", "active", "inserted", "created"}
    /\ request[q] \in {"coming", "active"} => ~HasRun(q)
    /\ HasRun(q) => Present(q) \/ request[q] = "refused"

Inv == Receipts /\ OneReceipt /\ HandlerHolds /\ LinkedLate

inbound == <<about, request, receipt, run>>

LEMMA InvInit == Init => Inv
BY DEF Init, Inv, Receipts, OneReceipt, HandlerHolds, LinkedLate, Steps, Holding, Present,
       Absent, HasRun, Answers

LEMMA InvStutter == Inv /\ UNCHANGED inbound => Inv'
BY DEF inbound, Inv, Receipts, OneReceipt, HandlerHolds, LinkedLate, Present, HasRun

\* A handler's step that writes neither receipts nor runs.
LEMMA InvGo ==
  ASSUME Inv, NEW q \in Requests, NEW s \in Steps, Go(q, s),
         UNCHANGED <<about, receipt, run>>,
         s \in Holding => Present(q),
         s \in {"coming", "active", "inserted", "created"} => ~receipt[q].linked,
         s \in {"coming", "active"} => ~HasRun(q),
         Present(q) \/ ~HasRun(q) \/ s = "refused"
  PROVE  Inv'
BY DEF Go, Inv, Receipts, OneReceipt, HandlerHolds, LinkedLate, Present, HasRun

LEMMA InvInsert ==
  ASSUME Inv, NEW q \in Requests, InsertReceipt(q)
  PROVE  Inv'
<1>1. CASE Taken(about[q])
  <2>1. Go(q, "duplicate") /\ UNCHANGED <<about, receipt, run>>
    BY <1>1 DEF InsertReceipt
  <2>2. ~HasRun(q)
    BY DEF Inv, LinkedLate, InsertReceipt
  <2> QED
    BY <2>1, <2>2, InvGo DEF Steps, Answers, Holding
<1>2. CASE ~Taken(about[q])
  <2>1. /\ request' = [request EXCEPT ![q] = "inserted"]
        /\ receipt' = [receipt EXCEPT ![q].status = "accepted"]
        /\ UNCHANGED <<about, run>>
    BY <1>2 DEF InsertReceipt, Go
  <2>2. \A r \in Requests : about[r] = about[q] => ~Present(r)
    BY <1>2 DEF Taken, Present
  <2>3. ~receipt[q].linked /\ ~HasRun(q)
    BY DEF Inv, LinkedLate, InsertReceipt
  <2>4. /\ receipt'[q].status = "accepted" /\ receipt'[q].linked = receipt[q].linked
        /\ \A r \in Requests : r # q => receipt'[r] = receipt[r]
    BY <2>1 DEF Inv, Receipts
  <2>5. Receipts'
    BY <2>1 DEF Inv, Receipts, Steps
  <2>6. OneReceipt'
    BY <2>1, <2>2, <2>4 DEF Inv, OneReceipt, Present
  <2>7. HandlerHolds'
    BY <2>1, <2>4 DEF Inv, Receipts, HandlerHolds, Present
  <2>8. LinkedLate'
    BY <2>1, <2>3, <2>4 DEF Inv, Receipts, LinkedLate, Present, HasRun
  <2> QED
    BY <2>5, <2>6, <2>7, <2>8 DEF Inv
<1> QED
  BY <1>1, <1>2

LEMMA InvLink ==
  ASSUME Inv, NEW q \in Requests, LinkRun(q)
  PROVE  Inv'
<1>1. /\ request[q] = "created"
      /\ request' = [request EXCEPT ![q] = "linked"]
      /\ receipt' = [receipt EXCEPT ![q].linked = TRUE]
      /\ UNCHANGED <<about, run>>
  BY DEF LinkRun, Linked, Go
<1>2. Present(q)
  BY <1>1 DEF Inv, HandlerHolds, Holding
<1>3. /\ \A r \in Requests : receipt'[r].status = receipt[r].status
      /\ \A r \in Requests : r # q => receipt'[r] = receipt[r]
  BY <1>1 DEF Inv, Receipts
<1>4. Receipts'
  BY <1>1 DEF Inv, Receipts, Steps
<1>5. OneReceipt'
  BY <1>1, <1>3 DEF Inv, OneReceipt, Present
<1>6. HandlerHolds'
  BY <1>1, <1>2, <1>3 DEF Inv, Receipts, HandlerHolds, Present
<1>7. LinkedLate'
  BY <1>1, <1>2, <1>3 DEF Inv, Receipts, LinkedLate, Present, HasRun
<1> QED
  BY <1>4, <1>5, <1>6, <1>7 DEF Inv

LEMMA InvUndo ==
  ASSUME Inv, NEW q \in Requests, Undo(q)
  PROVE  Inv'
<1>1. /\ request' = [request EXCEPT ![q] = "refused"]
      /\ receipt' = [receipt EXCEPT ![q] = Absent]
      /\ UNCHANGED <<about, run>>
  BY DEF Undo, Go
<1>2. \A r \in Requests : r # q => receipt'[r] = receipt[r] /\ request'[r] = request[r]
  BY <1>1 DEF Inv, Receipts
<1>3. receipt'[q] = Absent /\ request'[q] = "refused"
  BY <1>1 DEF Inv, Receipts
<1>4. Receipts'
  BY <1>1 DEF Inv, Receipts, Steps, Answers, Absent
<1>5. OneReceipt'
  BY <1>1, <1>2, <1>3 DEF Inv, OneReceipt, Present, Absent
<1>6. HandlerHolds'
  BY <1>2, <1>3 DEF Inv, HandlerHolds, Present, Holding
<1>7. LinkedLate'
  BY <1>1, <1>2, <1>3 DEF Inv, LinkedLate, Present, HasRun, Absent
<1> QED
  BY <1>4, <1>5, <1>6, <1>7 DEF Inv

LEMMA InvCreate ==
  ASSUME Inv, NEW q \in Requests, CreateRun(q)
  PROVE  Inv'
<1>1. /\ request[q] = "inserted"
      /\ request' = [request EXCEPT ![q] = "created"]
      /\ run' = [run EXCEPT ![q] = "queued"]
      /\ UNCHANGED <<about, receipt>>
  BY DEF CreateRun, Go
<1>2. Present(q) /\ ~receipt[q].linked
  BY <1>1 DEF Inv, HandlerHolds, LinkedLate, Holding
<1>3. /\ Receipts' /\ OneReceipt'
      /\ \A r \in Requests : r # q => (HasRun(r)' <=> HasRun(r))
  BY <1>1 DEF Inv, Receipts, OneReceipt, Steps, Present, HasRun
<1>4. HandlerHolds'
  BY <1>1, <1>2 DEF Inv, Receipts, HandlerHolds, Present
<1>5. LinkedLate'
  BY <1>1, <1>2, <1>3 DEF Inv, Receipts, LinkedLate, Present
<1> QED
  BY <1>3, <1>4, <1>5 DEF Inv

\* The executor, and who writes a status beside it, moves a run that exists, and writes
\* to receipts that are there.
LEMMA InvRun ==
  ASSUME Inv, NEW q \in Requests,
         HasRun(q),
         NEW s \in {"queued", "running", "succeeded", "replying", "failed", "over", "aside",
                 "closed"},
         run' = [run EXCEPT ![q] = s],
         \/ UNCHANGED receipt
         \/ /\ Present(q)
            /\ \E t \in {"completed", "failed"} : receipt' = [receipt EXCEPT ![q].status = t],
         UNCHANGED <<about, request>>
  PROVE  Inv'
<1>1. /\ \A r \in Requests : Present(r)' <=> Present(r)
      /\ \A r \in Requests : receipt'[r].linked = receipt[r].linked
      /\ Receipts'
  BY DEF Inv, Receipts, Present
<1>2. \A r \in Requests : r # q => (HasRun(r)' <=> HasRun(r))
  BY DEF Inv, Receipts, HasRun
<1>3. OneReceipt' /\ HandlerHolds'
  BY <1>1 DEF Inv, OneReceipt, HandlerHolds
<1>4. request[q] \notin {"coming", "active"} /\ (Present(q) \/ request[q] = "refused")
  BY DEF Inv, LinkedLate
<1>5. LinkedLate'
  BY <1>1, <1>2, <1>4 DEF Inv, LinkedLate
<1> QED
  BY <1>1, <1>3, <1>5 DEF Inv

LEMMA InvNext == Inv /\ [Next]_vars => Inv'
<1> SUFFICES ASSUME Inv, [Next]_vars PROVE Inv'
  OBVIOUS
<1> USE DEF outboundVars, inboundVars
<1>1. ASSUME NEW q \in Requests, Receive(q) \/ Answer(q) \/ HandlerFails(q) \/ HandlerDies(q)
      PROVE  Inv'
  <2>1. CASE Receive(q)
    <3>1. PICK s \in {"active", "refused"} : Go(q, s)
      BY <2>1 DEF Receive
    <3>2. ~receipt[q].linked /\ ~HasRun(q)
      BY <2>1 DEF Receive, Inv, LinkedLate
    <3> QED
      BY <2>1, <3>1, <3>2, InvGo DEF Receive, Steps, Answers, Holding
  <2>2. CASE Answer(q)
    BY <2>2, InvGo DEF Answer, Steps, Answers, Holding, Inv, HandlerHolds
  <2>3. CASE HandlerFails(q)
    BY <2>3, InvGo DEF HandlerFails, Steps, Answers, Holding, Inv, HandlerHolds
  <2>4. CASE HandlerDies(q)
    <3>1. Present(q) \/ ~HasRun(q)
      BY <2>4 DEF HandlerDies, Inv, LinkedLate, Answers
    <3> QED
      BY <2>4, <3>1, InvGo DEF HandlerDies, Steps, Answers, Holding
  <2> QED
    BY <1>1, <2>1, <2>2, <2>3, <2>4
<1>2. ASSUME NEW q \in Requests,
             InsertReceipt(q) \/ CreateRun(q) \/ LinkRun(q) \/ Undo(q)
      PROVE  Inv'
  BY <1>2, InvInsert, InvCreate, InvLink, InvUndo
<1>3. ASSUME NEW q \in Requests,
             Executing(q) \/ HookFails(q) \/ MoveRun(q) \/ ExecutorDies(q)
      PROVE  Inv'
  <2>1. CASE Start(q)
    BY <2>1, InvRun DEF Start, HasRun
  <2>2. CASE EndRun(q)
    BY <2>2, InvRun DEF EndRun, HasRun
  <2>3. CASE Complete(q)
    BY <2>3, InvRun DEF Complete, HasRun, Present
  <2>4. CASE InsertReply(q)
    BY <2>4, InvRun DEF InsertReply, HasRun
  <2>5. CASE FailInbound(q)
    BY <2>5, InvRun DEF FailInbound, HasRun, Present
  <2>6. CASE HookFails(q)
    BY <2>6, InvRun DEF HookFails, HasRun
  <2>7. CASE MoveRun(q)
    BY <2>7, InvRun DEF MoveRun, HasRun
  <2>8. CASE ExecutorDies(q)
    BY <2>8, InvRun DEF ExecutorDies, HasRun
  <2> QED
    BY <1>3, <2>1, <2>2, <2>3, <2>4, <2>5, <2>6, <2>7, <2>8 DEF Executing
<1>4. ASSUME NEW q \in Requests, LeaseExpires(q) \/ DelayEnds(q)
      PROVE  Inv'
  BY <1>4, InvStutter DEF LeaseExpires, DelayEnds, inbound
<1>5. ASSUME NEW w \in Workers, Delivering(w) \/ SettleFails(w) \/ WorkerDies(w)
      PROVE  Inv'
  BY <1>5, InvStutter DEF Delivering, ClaimDelivery, Deliver, SettleDelivery, SettleFails,
                          WorkerDies, inbound
<1>6. CASE PauseOrResume \/ UNCHANGED vars
  BY <1>6, InvStutter DEF PauseOrResume, vars, inbound
<1> QED
  BY <1>1, <1>2, <1>3, <1>4, <1>5, <1>6 DEF Next, Handling

LEMMA InvDeduplicates == Inv => Deduplicated
BY DEF Inv, OneReceipt, HandlerHolds, LinkedLate, Deduplicated, Holding

\* However many requests carry a message and whatever fails, one of them at most is
\* answered as accepted and new, and the runs of two execute only when the receipt
\* of one was withdrawn and its provider told so.
THEOREM MessagesDeduplicated == Spec => []Deduplicated
<1>1. Inv /\ [Next]_vars => Inv'
  BY InvNext
<1> QED
  BY <1>1, InvInit, InvDeduplicates, PTL DEF Spec

----------------------------------------------------------------------------
(* The outbox *)

ReplyRecord == [status : {"pending", "sending", "delivered", "failed"},
                attempt : Nat, leased : BOOLEAN, due : BOOLEAN]

Replies == /\ reply \in [Requests -> ReplyRecord]
           /\ seen \in [Requests -> Nat]
           /\ worker \in [Workers -> {Idle} \cup Claim]
           /\ mishaps \in 0..MaxMishaps

Rest == /\ active \in BOOLEAN
        /\ outbox \in Seq(Requests) /\ IsInjective(outbox)

\* A reply is queued by the last step of its run.
OutboxOver == \A i \in 1..Len(outbox) : run[outbox[i]] = "over"

\* A request creates its run once.
NotYet == \A q \in Requests :
            request[q] \in {"coming", "active", "inserted"} => run[q] = "none"

Out == Inv /\ Replies /\ Rest /\ OutboxOver /\ NotYet

LEMMA OutInit == Init => Out
<1>. SUFFICES ASSUME Init PROVE Out
  OBVIOUS
<1>1. NewReply \in ReplyRecord
  BY DEF NewReply, ReplyRecord
<1>2. Replies
  BY <1>1, BoundsAssumption DEF Init, Replies
<1>3. Rest /\ OutboxOver /\ NotYet
  BY DEF Init, Rest, OutboxOver, NotYet, IsInjective
<1>. QED
  BY <1>2, <1>3, InvInit DEF Out

LEMMA RepliesStutter == Replies /\ UNCHANGED <<reply, seen, worker, mishaps>> => Replies'
BY DEF Replies

LEMMA MishapTyped ==
  ASSUME Replies, Mishap \/ UNCHANGED mishaps
  PROVE  mishaps' \in 0..MaxMishaps
BY BoundsAssumption DEF Mishap, Replies

\* A worker at work holds a claim.
LEMMA ClaimHeld ==
  ASSUME Replies, NEW w \in Workers,
         worker[w].step \in {"delivering", "accepted", "refused"} \/ worker[w] # Idle
  PROVE  /\ worker[w] \in Claim /\ worker[w].reply \in Requests
         /\ worker[w].attempt \in Nat \ {0}
<1>1. worker[w] \in {Idle} \cup Claim /\ Idle.step = "idle"
  BY DEF Replies, Idle
<1>2. worker[w] \in Claim
  BY <1>1
<1>. QED
  BY <1>2 DEF Claim

LEMMA SettledTyped ==
  ASSUME NEW row \in ReplyRecord, NEW claim \in Claim
  PROVE  /\ Settled(row, claim) \in ReplyRecord
         /\ Settled(row, claim).attempt = row.attempt
BY BoundsAssumption DEF Settled, ReplyRecord, Claim

LEMMA ClaimDeliveryDone ==
  ASSUME Out, NEW w \in Workers, ClaimDelivery(w)
  PROVE  \E q \in Requests, a \in Nat \ {0} :
           /\ Claimable(q) /\ a = reply[q].attempt + 1
           /\ reply' = [reply EXCEPT ![q] = [reply[q] EXCEPT !.status = "sending",
                                               !.attempt = a, !.leased = TRUE]]
           /\ worker' = [worker EXCEPT
                ![w] = [step |-> "delivering", reply |-> q, attempt |-> a]]
<1>1. PICK i \in 1..Len(outbox) :
        LET q == outbox[i] attempt == reply[q].attempt + 1
        IN  /\ Claimable(q)
            /\ reply' = [reply EXCEPT ![q].status = "sending", ![q].attempt = attempt,
                                      ![q].leased = TRUE]
            /\ worker' = [worker EXCEPT
                 ![w] = [step |-> "delivering", reply |-> q, attempt |-> attempt]]
  BY DEF ClaimDelivery
<1>. DEFINE q == outbox[i]
<1>2. q \in Requests
  BY <1>1 DEF Out, Rest
<1>3. reply[q] \in ReplyRecord
  BY <1>2 DEF Out, Replies
<1>4. reply[q].attempt + 1 \in Nat \ {0}
  BY <1>3 DEF ReplyRecord
<1>5. reply' = [reply EXCEPT ![q] = [reply[q] EXCEPT !.status = "sending",
                                       !.attempt = reply[q].attempt + 1, !.leased = TRUE]]
  BY <1>1, <1>2, <1>3 DEF Out, Replies
<1>. QED
  BY <1>1, <1>2, <1>4, <1>5

LEMMA RepliesWorker ==
  ASSUME Out, NEW w \in Workers, Delivering(w) \/ SettleFails(w) \/ WorkerDies(w)
  PROVE  Replies'
<1>0. Replies
  BY DEF Out
<1>1. CASE ClaimDelivery(w)
  <2>1. PICK q \in Requests : \E a \in Nat \ {0} :
           /\ reply' = [reply EXCEPT ![q] = [reply[q] EXCEPT !.status = "sending",
                                               !.attempt = a, !.leased = TRUE]]
           /\ worker' = [worker EXCEPT
                ![w] = [step |-> "delivering", reply |-> q, attempt |-> a]]
    BY <1>1, ClaimDeliveryDone
  <2>2. PICK a \in Nat \ {0} :
           /\ reply' = [reply EXCEPT ![q] = [reply[q] EXCEPT !.status = "sending",
                                               !.attempt = a, !.leased = TRUE]]
           /\ worker' = [worker EXCEPT
                ![w] = [step |-> "delivering", reply |-> q, attempt |-> a]]
    BY <2>1
  <2>3. [step |-> "delivering", reply |-> q, attempt |-> a] \in Claim
    BY DEF Claim
  <2>4. [reply[q] EXCEPT !.status = "sending", !.attempt = a, !.leased = TRUE] \in ReplyRecord
    BY <1>0 DEF Replies, ReplyRecord
  <2>. QED
    BY <1>0, <1>1, <2>2, <2>3, <2>4 DEF Replies, ClaimDelivery
<1>2. CASE Deliver(w)
  <2>1. PICK step \in {"accepted", "refused"}, taken \in BOOLEAN :
          /\ IF step = "refused" /\ taken THEN Mishap ELSE UNCHANGED mishaps
          /\ worker' = [worker EXCEPT ![w].step = step]
          /\ seen' = IF taken THEN [seen EXCEPT ![worker[w].reply] = @ + 1] ELSE seen
    BY <1>2 DEF Deliver
  <2>2. worker[w] \in Claim /\ worker[w].reply \in Requests
    BY <1>0, <1>2, ClaimHeld DEF Deliver
  <2>3. worker' \in [Workers -> {Idle} \cup Claim]
    BY <1>0, <2>1, <2>2 DEF Replies, Claim
  <2>4. seen' \in [Requests -> Nat]
    BY <1>0, <2>1, <2>2 DEF Replies
  <2>5. mishaps' \in 0..MaxMishaps
    BY <1>0, <2>1, MishapTyped
  <2>. QED
    BY <1>0, <1>2, <2>3, <2>4, <2>5 DEF Replies, Deliver
<1>3. CASE SettleDelivery(w)
  <2>1. worker[w] \in Claim /\ worker[w].reply \in Requests
    BY <1>0, <1>3, ClaimHeld DEF SettleDelivery
  <2>. DEFINE q == worker[w].reply
  <2>2. Settled(reply[q], worker[w]) \in ReplyRecord
    BY <1>0, <2>1, SettledTyped DEF Replies
  <2>3. reply' \in [Requests -> ReplyRecord]
    BY <1>0, <1>3, <2>1, <2>2 DEF SettleDelivery, Replies
  <2>4. worker' \in [Workers -> {Idle} \cup Claim]
    BY <1>0, <1>3 DEF SettleDelivery, Replies
  <2>. QED
    BY <1>0, <1>3, <2>3, <2>4 DEF Replies, SettleDelivery
<1>4. CASE SettleFails(w)
  <2>1. worker[w] \in Claim
    BY <1>0, <1>4, ClaimHeld DEF SettleFails
  <2>2. worker' \in [Workers -> {Idle} \cup Claim]
    BY <1>0, <1>4, <2>1 DEF SettleFails, Replies, Claim
  <2>. QED
    BY <1>0, <1>4, <2>2, MishapTyped DEF Replies, SettleFails
<1>5. CASE WorkerDies(w)
  <2>1. worker' \in [Workers -> {Idle} \cup Claim]
    BY <1>0, <1>5 DEF WorkerDies, Replies
  <2>. QED
    BY <1>0, <1>5, <2>1, MishapTyped DEF Replies, WorkerDies
<1>. QED
  BY <1>1, <1>2, <1>3, <1>4, <1>5 DEF Delivering

LEMMA RepliesNext == Out /\ [Next]_vars => Replies'
<1>. SUFFICES ASSUME Out, [Next]_vars PROVE Replies'
  OBVIOUS
<1>. USE DEF outboundVars, inboundVars
<1>0. Replies
  BY DEF Out
<1>1. ASSUME NEW q \in Requests, LeaseExpires(q) \/ DelayEnds(q)
      PROVE  Replies'
  <2>1. reply[q] \in ReplyRecord
    BY <1>0 DEF Replies
  <2>4. PICK r \in {[reply[q] EXCEPT !.leased = FALSE], [reply[q] EXCEPT !.due = TRUE]} :
          reply' = [reply EXCEPT ![q] = r]
    BY <1>1 DEF LeaseExpires, DelayEnds
  <2>5. r \in ReplyRecord
    BY <2>1, <2>4 DEF ReplyRecord
  <2>6. reply' \in [Requests -> ReplyRecord]
    BY <1>0, <2>4, <2>5 DEF Replies
  <2>3. mishaps' \in 0..MaxMishaps
    BY <1>0, <1>1, MishapTyped DEF LeaseExpires, DelayEnds
  <2>. QED
    BY <1>0, <1>1, <2>3, <2>6 DEF Replies, LeaseExpires, DelayEnds
<1>2. ASSUME NEW w \in Workers, Delivering(w) \/ SettleFails(w) \/ WorkerDies(w)
      PROVE  Replies'
  BY <1>2, RepliesWorker
<1>3. ASSUME UNCHANGED <<reply, seen, worker>>, Mishap \/ UNCHANGED mishaps
      PROVE  Replies'
  BY <1>0, <1>3, MishapTyped DEF Replies
<1>4. ASSUME NEW q \in Requests,
             Receive(q) \/ Handling(q) \/ HandlerFails(q) \/ HandlerDies(q)
      PROVE  Replies'
  BY <1>3, <1>4 DEF Receive, Handling, InsertReceipt, CreateRun, LinkRun, Answer, Undo,
                    HandlerFails, HandlerDies
<1>5. ASSUME NEW q \in Requests,
             Executing(q) \/ HookFails(q) \/ MoveRun(q) \/ ExecutorDies(q)
      PROVE  Replies'
  BY <1>3, <1>5 DEF Executing, Start, EndRun, Complete, InsertReply, FailInbound,
                    HookFails, MoveRun, ExecutorDies
<1>6. CASE PauseOrResume \/ UNCHANGED vars
  BY <1>3, <1>6 DEF PauseOrResume, vars
<1>. QED
  BY <1>1, <1>2, <1>4, <1>5, <1>6 DEF Next

\* A run that is over stays so, a run that is replying was not.
LEMMA OverStays ==
  ASSUME Out, [Next]_vars, NEW q \in Requests, run[q] = "over"
  PROVE  run'[q] = "over"
<1>. USE DEF outboundVars, inboundVars
<1>1. ASSUME NEW r \in Requests, CreateRun(r) PROVE run'[q] = "over"
  <2>1. r # q
    BY <1>1 DEF CreateRun, Out, NotYet
  <2>. QED
    BY <1>1, <2>1 DEF CreateRun, Out, Inv, Receipts
<1>2. ASSUME NEW r \in Requests,
             Executing(r) \/ HookFails(r) \/ MoveRun(r) \/ ExecutorDies(r)
      PROVE  run'[q] = "over"
  BY <1>2 DEF Executing, Start, EndRun, Complete, InsertReply, FailInbound,
              HookFails, MoveRun, ExecutorDies,
              Out, Inv, Receipts
<1>. QED
  BY <1>1, <1>2
  DEF Next, vars, Receive, Handling, InsertReceipt, LinkRun, Answer, Undo, HandlerFails,
      HandlerDies, LeaseExpires, DelayEnds, Delivering, ClaimDelivery, Deliver,
      SettleDelivery, SettleFails, WorkerDies, PauseOrResume

LEMMA RestNext == Out /\ [Next]_vars => Rest' /\ OutboxOver'
<1>. SUFFICES ASSUME Out, [Next]_vars PROVE Rest' /\ OutboxOver'
  OBVIOUS
<1>. USE DEF outboundVars, inboundVars
<1>0. Rest /\ OutboxOver
  BY DEF Out
<1>1. ASSUME NEW q \in Requests, InsertReply(q) PROVE Rest' /\ OutboxOver'
  <2>1. run[q] = "replying" /\ outbox' = Append(outbox, q) /\ active' = active
    BY <1>1 DEF InsertReply
  <2>2. \A i \in 1..Len(outbox) : outbox[i] \in Requests /\ outbox[i] # q
    BY <1>0, <2>1 DEF Rest, OutboxOver
  <2>3. /\ outbox' \in Seq(Requests) /\ Len(outbox') = Len(outbox) + 1
        /\ \A i \in 1..Len(outbox) : outbox'[i] = outbox[i]
        /\ outbox'[Len(outbox) + 1] = q /\ Len(outbox) \in Nat
    BY <1>0, <2>1 DEF Rest
  <2>4. IsInjective(outbox')
    BY <1>0, <2>2, <2>3 DEF Rest, IsInjective
  <2>5. run'[q] = "over"
    BY <1>1 DEF InsertReply, Out, Inv, Receipts
  <2>6. \A i \in 1..Len(outbox) : run'[outbox[i]] = "over"
    BY <1>0, <2>2, OverStays DEF OutboxOver
  <2>. QED
    BY <1>0, <2>1, <2>3, <2>4, <2>5, <2>6 DEF Rest, OutboxOver
<1>2. ASSUME UNCHANGED outbox, active' \in BOOLEAN PROVE Rest' /\ OutboxOver'
  <2>1. \A i \in 1..Len(outbox) : outbox[i] \in Requests
    BY <1>0 DEF Rest
  <2>2. OutboxOver'
    BY <1>0, <1>2, <2>1, OverStays DEF OutboxOver
  <2>. QED
    BY <1>0, <1>2, <2>2 DEF Rest
<1>3. (\A q \in Requests : ~InsertReply(q)) => UNCHANGED outbox
  BY DEF Next, vars, Receive, Handling, InsertReceipt, CreateRun, LinkRun, Answer, Undo,
         HandlerFails, HandlerDies, Executing, Start, EndRun, Complete, FailInbound,
         HookFails, MoveRun, ExecutorDies,
         LeaseExpires, DelayEnds, Delivering, ClaimDelivery, Deliver,
         SettleDelivery, SettleFails, WorkerDies, PauseOrResume
<1>4. active' \in BOOLEAN
  BY <1>0 DEF Rest, Next, vars, Receive, Handling, InsertReceipt, CreateRun, LinkRun, Answer,
         Undo, HandlerFails, HandlerDies, Executing, Start, EndRun, Complete, InsertReply,
         FailInbound,
         HookFails, MoveRun, ExecutorDies, LeaseExpires, DelayEnds, Delivering, ClaimDelivery, Deliver,
         SettleDelivery, SettleFails, WorkerDies, PauseOrResume
<1>. QED
  BY <1>1, <1>2, <1>3, <1>4

LEMMA NotYetNext == Out /\ [Next]_vars => NotYet'
<1>. SUFFICES ASSUME Out, [Next]_vars PROVE NotYet'
  OBVIOUS
<1>. USE DEF outboundVars, inboundVars
<1>0. /\ NotYet
      /\ request \in [Requests -> Steps]
      /\ run \in [Requests -> {"none", "queued", "running", "succeeded", "replying",
                               "failed", "over", "aside", "closed"}]
  BY DEF Out, Inv, Receipts
<1>1. ASSUME NEW q \in Requests, NEW s \in Steps, Go(q, s), UNCHANGED run,
             s \in {"coming", "active", "inserted"} => run[q] = "none"
      PROVE  NotYet'
  BY <1>0, <1>1 DEF Go, NotYet
<1>2. ASSUME NEW q \in Requests,
             Receive(q) \/ Handling(q) \/ HandlerFails(q) \/ HandlerDies(q)
      PROVE  NotYet'
  <2>1. CASE CreateRun(q)
    BY <1>0, <2>1 DEF CreateRun, Go, NotYet
  <2>2. CASE Receive(q)
    BY <1>0, <1>1, <2>2 DEF Receive, Steps, Answers, NotYet
  <2>3. CASE InsertReceipt(q)
    BY <1>0, <1>1, <2>3 DEF InsertReceipt, Steps, Answers, NotYet
  <2>4. CASE LinkRun(q) \/ Answer(q) \/ Undo(q) \/ HandlerFails(q) \/ HandlerDies(q)
    BY <1>1, <2>4 DEF LinkRun, Answer, Undo, HandlerFails, HandlerDies, Steps, Answers
  <2>. QED
    BY <1>2, <2>1, <2>2, <2>3, <2>4 DEF Handling
<1>3. ASSUME NEW q \in Requests,
             Executing(q) \/ HookFails(q) \/ MoveRun(q) \/ ExecutorDies(q)
      PROVE  NotYet'
  <2>1. run[q] # "none" /\ UNCHANGED request /\ \E s : run' = [run EXCEPT ![q] = s]
    BY <1>3 DEF Executing, Start, EndRun, Complete, InsertReply, FailInbound,
                HookFails, MoveRun, ExecutorDies
  <2>. QED
    BY <1>0, <2>1 DEF NotYet
<1>4. ASSUME UNCHANGED <<request, run>> PROVE NotYet'
  BY <1>0, <1>4 DEF NotYet
<1>. QED
  BY <1>2, <1>3, <1>4
  DEF Next, vars, LeaseExpires, DelayEnds, Delivering, ClaimDelivery, Deliver,
      SettleDelivery, SettleFails, WorkerDies, PauseOrResume

LEMMA OutNext == Out /\ [Next]_vars => Out'
BY InvNext, RepliesNext, RestNext, NotYetNext DEF Out

\* Every request, receipt, run, claim and reply keeps its shape, and the reply of a
\* run is queued once.
THEOREM TypeCorrect == Spec => []TypeOK
<1>1. Out => TypeOK
  <2>. SUFFICES ASSUME Out PROVE TypeOK
    OBVIOUS
  <2>1. Outbound \subseteq Requests
    BY DEF Out, Rest, Outbound, ToSet
  <2>. QED
    BY <2>1 DEF Out, Inv, Receipts, Replies, Rest, TypeOK, Steps, ReplyRecord
<1>. QED
  BY <1>1, OutInit, OutNext, PTL DEF Spec

\* The step property of SettledStays.
EndKept == \A q \in Requests : reply[q].status \in {"delivered", "failed"} =>
                                 reply'[q].status = reply[q].status

LEMMA EndNext == Out /\ [Next]_vars => EndKept
<1>. SUFFICES ASSUME Out, [Next]_vars PROVE EndKept
  OBVIOUS
<1>. USE DEF outboundVars, inboundVars
<1>0. Replies
  BY DEF Out
<1>1. ASSUME NEW q \in Requests, LeaseExpires(q) \/ DelayEnds(q) PROVE EndKept
  BY <1>0, <1>1 DEF LeaseExpires, DelayEnds, Replies, ReplyRecord, EndKept
<1>2. ASSUME NEW w \in Workers, ClaimDelivery(w) PROVE EndKept
  <2>1. PICK q \in Requests : Claimable(q) /\ \E r : reply' = [reply EXCEPT ![q] = r]
    BY <1>2, ClaimDeliveryDone
  <2>. QED
    BY <1>0, <2>1 DEF Claimable, Replies, EndKept
<1>3. ASSUME NEW w \in Workers, SettleDelivery(w) PROVE EndKept
  BY <1>0, <1>3 DEF SettleDelivery, Settleable, Replies, EndKept
<1>4. ASSUME UNCHANGED reply PROVE EndKept
  BY <1>4 DEF EndKept
<1>. QED
  BY <1>1, <1>2, <1>3, <1>4
  DEF Next, vars, Receive, Handling, InsertReceipt, CreateRun, LinkRun, Answer, Undo,
      HandlerFails, HandlerDies, Executing, Start, EndRun, Complete, InsertReply, FailInbound,

      HookFails, MoveRun, ExecutorDies, Delivering, Deliver, SettleFails, WorkerDies, PauseOrResume

\* Whatever workers stall and are overtaken, a reply that was delivered or given up
\* is never claimed or written again.
THEOREM EndsStay == Spec => SettledStays
<1>1. Out /\ [Next]_vars
        => [\A q \in Requests : reply[q].status \in {"delivered", "failed"} =>
              reply'[q].status = reply[q].status]_vars
  BY EndNext DEF EndKept
<1>. QED
  BY <1>1, OutInit, OutNext, PTL DEF Spec, SettledStays

----------------------------------------------------------------------------
(* What is recorded of a reply *)

Busy(w) == worker[w] # Idle

\* A claim is as old as its row or older, and success is only claimed of a reply
\* that arrived.
Backed ==
  /\ \A w \in Workers : Busy(w) => worker[w].attempt <= reply[worker[w].reply].attempt
  /\ \A w \in Workers : worker[w].step = "accepted" => seen[worker[w].reply] > 0
  /\ \A q \in Requests : reply[q].status = "delivered" => seen[q] > 0
  /\ \A q \in Requests : reply[q].status = "failed" => reply[q].attempt >= MaxAttempts

\* As long as nothing went wrong, a claim is the only one and its row shows it,
\* and what arrived is recorded or about to be.
Shown(w) == /\ reply[worker[w].reply].status = "sending"
            /\ reply[worker[w].reply].leased
            /\ reply[worker[w].reply].attempt = worker[w].attempt

Recorded(q) == \/ reply[q].status = "delivered"
               \/ \E w \in Workers : worker[w].step = "accepted" /\ worker[w].reply = q

Calm ==
  /\ \A w \in Workers : Busy(w) => Shown(w)
  /\ \A w, v \in Workers : Busy(w) /\ Busy(v) /\ worker[w].reply = worker[v].reply => w = v
  /\ \A q \in Requests : seen[q] > 0 => Recorded(q)

Truth == Out /\ Backed /\ (mishaps = 0 => Calm)

LEMMA TruthInit == Init => Truth
<1>. SUFFICES ASSUME Init PROVE Truth
  OBVIOUS
<1>1. /\ \A w \in Workers : worker[w] = Idle /\ worker[w].step = "idle"
      /\ \A q \in Requests : reply[q].status = "pending" /\ seen[q] = 0
  BY DEF Init, Idle, NewReply
<1>. QED
  BY <1>1, OutInit DEF Truth, Backed, Calm, Busy

LEMMA TruthStatus == Truth => StatusIsTrue
<1>. SUFFICES ASSUME Truth, NEW q \in Requests
              PROVE  /\ reply[q].status = "delivered" => seen[q] > 0
                     /\ reply[q].status = "failed" =>
                          reply[q].attempt >= MaxAttempts /\ (seen[q] > 0 => mishaps > 0)
  BY DEF StatusIsTrue
<1>1. ASSUME reply[q].status = "failed", seen[q] > 0, mishaps = 0
      PROVE  FALSE
  <2>1. PICK w \in Workers : worker[w].step = "accepted" /\ worker[w].reply = q
    BY <1>1 DEF Truth, Calm, Recorded
  <2>2. Busy(w)
    BY <2>1 DEF Busy, Idle
  <2>. QED
    BY <1>1, <2>1, <2>2 DEF Truth, Calm, Shown
<1>2. mishaps \in Nat
  BY BoundsAssumption DEF Truth, Out, Replies
<1>. QED
  BY <1>1, <1>2 DEF Truth, Backed

\* Rows, claims and arrivals are left alone.
LEMMA TruthStutter ==
  ASSUME Truth, UNCHANGED <<reply, seen, worker>>, mishaps' = 0 => mishaps = 0
  PROVE  Backed' /\ (mishaps' = 0 => Calm')
BY DEF Truth, Backed, Calm, Busy, Shown, Recorded

LEMMA NoMishap == ASSUME Out, Mishap PROVE mishaps' # 0
BY BoundsAssumption DEF Out, Replies, Mishap

LEMMA TruthClaim ==
  ASSUME Truth, NEW w \in Workers, ClaimDelivery(w)
  PROVE  Backed' /\ (mishaps' = 0 => Calm')
<1>1. PICK q \in Requests : \E a \in Nat \ {0} :
         /\ Claimable(q) /\ a = reply[q].attempt + 1
         /\ reply' = [reply EXCEPT ![q] = [reply[q] EXCEPT !.status = "sending",
                                             !.attempt = a, !.leased = TRUE]]
         /\ worker' = [worker EXCEPT
              ![w] = [step |-> "delivering", reply |-> q, attempt |-> a]]
  BY ClaimDeliveryDone DEF Truth
<1>2. PICK a \in Nat \ {0} :
         /\ Claimable(q) /\ a = reply[q].attempt + 1
         /\ reply' = [reply EXCEPT ![q] = [reply[q] EXCEPT !.status = "sending",
                                             !.attempt = a, !.leased = TRUE]]
         /\ worker' = [worker EXCEPT
              ![w] = [step |-> "delivering", reply |-> q, attempt |-> a]]
  BY <1>1
<1>3. /\ reply \in [Requests -> ReplyRecord] /\ worker \in [Workers -> {Idle} \cup Claim]
      /\ seen \in [Requests -> Nat]
  BY DEF Truth, Out, Replies
<1>4. /\ reply'[q].status = "sending" /\ reply'[q].attempt = a /\ reply'[q].leased
      /\ \A r \in Requests : r # q => reply'[r] = reply[r]
      /\ worker'[w].step = "delivering" /\ worker'[w].reply = q /\ worker'[w].attempt = a
      /\ \A v \in Workers : v # w => worker'[v] = worker[v]
      /\ UNCHANGED <<seen, mishaps>> /\ worker[w] = Idle /\ worker[w].step = "idle"
  BY <1>2, <1>3 DEF ClaimDelivery, ReplyRecord, Idle
<1>5. reply[q].attempt \in Nat /\ a = reply[q].attempt + 1 /\ Claimable(q)
  BY <1>2, <1>3 DEF ReplyRecord
<1>6. \A v \in Workers : Busy(v) => /\ worker[v].reply \in Requests
                                    /\ worker[v].attempt \in Nat
  BY <1>3, ClaimHeld DEF Busy, Truth, Out
<1>7. Backed'
  BY <1>4, <1>5, <1>6 DEF Truth, Backed, Busy, Idle
<1>8. ASSUME mishaps' = 0 PROVE Calm'
  <2>1. Calm
    BY <1>4, <1>8 DEF Truth
  <2>2. \A v \in Workers : Busy(v) => worker[v].reply # q
    BY <1>5, <2>1 DEF Calm, Shown, Claimable
  <2>3. seen[q] = 0
    <3>1. ~Recorded(q)
      BY <1>5, <2>2 DEF Recorded, Claimable, Busy, Idle
    <3>. QED
      BY <1>3, <2>1, <3>1 DEF Calm
  <2>4. \A v \in Workers : Busy(v)' => Shown(v)'
    BY <1>4, <1>6, <2>1, <2>2 DEF Calm, Busy, Shown
  <2>5. \A u, v \in Workers : Busy(u)' /\ Busy(v)' /\ worker'[u].reply = worker'[v].reply => u = v
    BY <1>4, <2>1, <2>2 DEF Calm, Busy
  <2>6. \A r \in Requests : seen'[r] > 0 => Recorded(r)'
    BY <1>4, <2>1, <2>3 DEF Calm, Recorded
  <2>. QED
    BY <2>4, <2>5, <2>6 DEF Calm
<1>. QED
  BY <1>7, <1>8

LEMMA TruthDeliver ==
  ASSUME Truth, NEW w \in Workers, Deliver(w)
  PROVE  Backed' /\ (mishaps' = 0 => Calm')
<1>. DEFINE q == worker[w].reply
<1>1. PICK step \in {"accepted", "refused"}, taken \in BOOLEAN :
        /\ step = "accepted" => taken
        /\ IF step = "refused" /\ taken THEN Mishap ELSE UNCHANGED mishaps
        /\ worker' = [worker EXCEPT ![w].step = step]
        /\ seen' = IF taken THEN [seen EXCEPT ![q] = @ + 1] ELSE seen
  BY DEF Deliver
<1>2. worker[w] \in Claim /\ q \in Requests /\ worker[w].attempt \in Nat
  BY ClaimHeld DEF Deliver, Truth, Out
<1>3. /\ worker \in [Workers -> {Idle} \cup Claim] /\ seen \in [Requests -> Nat]
      /\ reply' = reply /\ worker[w].step = "delivering"
  BY DEF Truth, Out, Replies, Deliver
<1>4. /\ worker'[w].step = step /\ worker'[w].reply = q
      /\ worker'[w].attempt = worker[w].attempt
      /\ \A v \in Workers : v # w => worker'[v] = worker[v]
  BY <1>1, <1>2, <1>3 DEF Claim
<1>5. /\ \A r \in Requests : seen'[r] \in Nat /\ seen'[r] >= seen[r]
      /\ \A r \in Requests : r # q => seen'[r] = seen[r]
      /\ step = "accepted" => seen'[q] > 0
      /\ ~taken => seen' = seen
  BY <1>1, <1>2, <1>3
<1>6. \A v \in Workers : Busy(v) => worker[v].reply \in Requests
  BY ClaimHeld DEF Busy, Truth, Out
<1>7. \A v \in Workers : worker[v].step = "accepted" => Busy(v)
  BY DEF Busy, Idle
<1>8. Busy(w) /\ (Busy(w)')
  BY <1>1, <1>3, <1>4 DEF Busy, Idle
<1>9. \A v \in Workers : worker[v].step = "accepted" => v # w
  BY <1>3
<1>10. /\ \A v \in Workers : (Busy(v)') <=> Busy(v)
       /\ \A v \in Workers : worker'[v].reply = worker[v].reply
       /\ \A v \in Workers : worker'[v].attempt = worker[v].attempt
  BY <1>4, <1>8 DEF Busy
<1>11. Backed'
  <2>1. \A v \in Workers : Busy(v)' => worker'[v].attempt <= reply'[worker'[v].reply].attempt
    BY <1>3, <1>10 DEF Truth, Backed
  <2>2. ASSUME NEW v \in Workers, worker'[v].step = "accepted"
        PROVE  seen'[worker'[v].reply] > 0
    <3>1. CASE v = w
      BY <1>4, <1>5, <2>2, <3>1
    <3>2. CASE v # w
      <4>1. worker'[v] = worker[v] /\ worker[v].reply \in Requests
        BY <1>4, <1>6, <1>7, <2>2, <3>2
      <4>. QED
        BY <1>3, <1>5, <2>2, <4>1 DEF Truth, Backed
    <3>. QED
      BY <3>1, <3>2
  <2>3. \A r \in Requests : reply'[r].status = "delivered" => seen'[r] > 0
    BY <1>3, <1>5 DEF Truth, Backed
  <2>4. \A r \in Requests : reply'[r].status = "failed" => reply'[r].attempt >= MaxAttempts
    BY <1>3 DEF Truth, Backed
  <2>. QED
    BY <2>1, <2>2, <2>3, <2>4 DEF Backed
<1>12. ASSUME mishaps' = 0 PROVE Calm'
  <2>1. UNCHANGED mishaps /\ (step = "accepted" \/ ~taken)
    BY <1>1, <1>12, NoMishap DEF Truth
  <2>2. Calm
    BY <1>12, <2>1 DEF Truth
  <2>3. \A r \in Requests : seen'[r] > 0 => Recorded(r)'
    <3>. SUFFICES ASSUME NEW r \in Requests, seen'[r] > 0 PROVE Recorded(r)'
      OBVIOUS
    <3>1. CASE r = q /\ step = "accepted"
      BY <1>4, <3>1 DEF Recorded
    <3>2. CASE ~(r = q /\ step = "accepted")
      <4>1. Recorded(r)
        BY <1>5, <2>1, <2>2, <3>2 DEF Calm
      <4>. QED
        BY <1>3, <1>4, <1>9, <4>1 DEF Recorded
    <3>. QED
      BY <3>1, <3>2
  <2>4. \A v \in Workers : Busy(v)' => Shown(v)'
    BY <1>3, <1>10, <2>2 DEF Calm, Shown
  <2>5. \A u, v \in Workers : Busy(u)' /\ Busy(v)' /\ worker'[u].reply = worker'[v].reply => u = v
    BY <1>10, <2>2 DEF Calm
  <2>. QED
    BY <2>3, <2>4, <2>5 DEF Calm
<1>. QED
  BY <1>11, <1>12

LEMMA TruthSettle ==
  ASSUME Truth, NEW w \in Workers, SettleDelivery(w)
  PROVE  Backed' /\ (mishaps' = 0 => Calm')
<1>. DEFINE q == worker[w].reply
<1>. DEFINE row == Settled(reply[q], worker[w])
<1>1. /\ worker[w] \in Claim /\ q \in Requests /\ worker[w].attempt \in Nat
      /\ worker[w].step \in {"accepted", "refused"}
  BY ClaimHeld DEF SettleDelivery, Truth, Out
<1>2. /\ reply \in [Requests -> ReplyRecord] /\ worker \in [Workers -> {Idle} \cup Claim]
      /\ seen \in [Requests -> Nat]
  BY DEF Truth, Out, Replies
<1>3. /\ reply' = IF reply[q].status = "sending" THEN [reply EXCEPT ![q] = row] ELSE reply
      /\ worker' = [worker EXCEPT ![w] = Idle] /\ UNCHANGED <<seen, mishaps>>
  BY DEF SettleDelivery, Settleable
<1>4. /\ row.attempt = reply[q].attempt
      /\ row.status = "delivered" <=> worker[w].step = "accepted"
      /\ row.status = "failed" => worker[w].attempt >= MaxAttempts
  BY <1>1, <1>2, BoundsAssumption DEF Settled, ReplyRecord
<1>5. Busy(w) /\ Idle.step = "idle" /\ reply[q].attempt \in Nat
  BY <1>1, <1>2 DEF Busy, Idle, ReplyRecord
<1>. HIDE DEF row
<1>6. /\ \A r \in Requests : reply'[r].attempt = reply[r].attempt
      /\ \A r \in Requests : r # q => reply'[r] = reply[r]
      /\ reply'[q] = (IF reply[q].status = "sending" THEN row ELSE reply[q])
      /\ \A v \in Workers : v # w => worker'[v] = worker[v]
      /\ worker'[w] = Idle
  BY <1>1, <1>2, <1>3, <1>4
<1>7. \A v \in Workers : Busy(v) => /\ worker[v].reply \in Requests
                                    /\ worker[v].attempt \in Nat
  BY ClaimHeld DEF Busy, Truth, Out
<1>8. \A v \in Workers : /\ (Busy(v)') => v # w /\ Busy(v) /\ worker'[v] = worker[v]
                         /\ worker'[v].step = "accepted" => v # w /\ worker'[v] = worker[v]
  BY <1>5, <1>6 DEF Busy
<1>9. Backed'
  <2>1. worker[w].attempt <= reply[q].attempt
    BY <1>5 DEF Truth, Backed
  <2>2. \A v \in Workers : Busy(v)' => worker'[v].attempt <= reply'[worker'[v].reply].attempt
    BY <1>6, <1>7, <1>8 DEF Truth, Backed
  <2>3. \A v \in Workers : worker'[v].step = "accepted" => seen'[worker'[v].reply] > 0
    BY <1>3, <1>8 DEF Truth, Backed
  <2>4. \A r \in Requests : reply'[r].status = "delivered" => seen'[r] > 0
    BY <1>1, <1>3, <1>4, <1>6 DEF Truth, Backed
  <2>5. \A r \in Requests : reply'[r].status = "failed" => reply'[r].attempt >= MaxAttempts
    BY <1>1, <1>4, <1>5, <1>6, <2>1, BoundsAssumption DEF Truth, Backed
  <2>. QED
    BY <2>2, <2>3, <2>4, <2>5 DEF Backed
<1>10. ASSUME mishaps' = 0 PROVE Calm'
  <2>1. Calm
    BY <1>3, <1>10 DEF Truth
  <2>2. reply[q].status = "sending"
    BY <1>5, <2>1 DEF Calm, Shown
  <2>3. \A v \in Workers : Busy(v)' => worker[v].reply # q
    BY <1>5, <1>8, <2>1 DEF Calm
  <2>4. \A v \in Workers : Busy(v)' => Shown(v)'
    BY <1>6, <1>7, <1>8, <2>1, <2>3 DEF Calm, Shown
  <2>5. \A u, v \in Workers : Busy(u)' /\ Busy(v)' /\ worker'[u].reply = worker'[v].reply => u = v
    BY <1>8, <2>1 DEF Calm
  <2>6. \A r \in Requests : seen'[r] > 0 => Recorded(r)'
    <3>. SUFFICES ASSUME NEW r \in Requests, seen'[r] > 0 PROVE Recorded(r)'
      OBVIOUS
    <3>1. Recorded(r)
      BY <1>3, <2>1 DEF Calm
    <3>2. CASE r # q
      BY <1>6, <3>1, <3>2 DEF Recorded
    <3>3. CASE r = q
      <4>1. PICK v \in Workers : worker[v].step = "accepted" /\ worker[v].reply = q
        BY <2>2, <3>1, <3>3 DEF Recorded
      <4>2. v = w
        BY <1>5, <2>1, <4>1 DEF Calm, Busy
      <4>. QED
        BY <1>4, <1>6, <2>2, <3>3, <4>1, <4>2 DEF Recorded
    <3>. QED
      BY <3>2, <3>3
  <2>. QED
    BY <2>4, <2>5, <2>6 DEF Calm
<1>. QED
  BY <1>9, <1>10

LEMMA TruthFails ==
  ASSUME Truth, NEW w \in Workers, SettleFails(w) \/ WorkerDies(w)
  PROVE  Backed' /\ (mishaps' = 0 => Calm')
<1>1. /\ worker \in [Workers -> {Idle} \cup Claim] /\ UNCHANGED <<reply, seen>>
      /\ mishaps' # 0
  BY NoMishap DEF Truth, Out, Replies, SettleFails, WorkerDies
<1>2. \A v \in Workers :
        \/ worker'[v] = worker[v]
        \/ worker'[v] = Idle
        \/ /\ worker[v] \in Claim /\ worker'[v].step = "refused"
           /\ worker'[v].reply = worker[v].reply /\ worker'[v].attempt = worker[v].attempt
           /\ Busy(v)
  <2>1. CASE SettleFails(w) /\ worker[w].step = "accepted"
    <3>1. worker[w] \in Claim /\ Busy(w)
      BY <2>1, ClaimHeld DEF Truth, Out, Busy, Idle
    <3>. QED
      BY <1>1, <2>1, <3>1 DEF SettleFails, Claim
  <2>2. CASE WorkerDies(w) \/ (SettleFails(w) /\ worker[w].step # "accepted")
    BY <1>1, <2>2 DEF SettleFails, WorkerDies
  <2>. QED
    BY <2>1, <2>2
<1>3. Backed'
  BY <1>1, <1>2 DEF Truth, Backed, Busy, Idle
<1>. QED
  BY <1>1, <1>3

LEMMA TruthTime ==
  ASSUME Truth, NEW q \in Requests, LeaseExpires(q) \/ DelayEnds(q)
  PROVE  Backed' /\ (mishaps' = 0 => Calm')
<1>1. /\ reply \in [Requests -> ReplyRecord] /\ UNCHANGED <<seen, worker>>
  BY DEF Truth, Out, Replies, LeaseExpires, DelayEnds
<1>2. \A v \in Workers : Busy(v) => worker[v].reply \in Requests
  BY ClaimHeld DEF Busy, Truth, Out
<1>3. /\ \A r \in Requests : /\ reply'[r].status = reply[r].status
                             /\ reply'[r].attempt = reply[r].attempt
                             /\ r # q => reply'[r] = reply[r]
      /\ DelayEnds(q) => reply'[q].leased = reply[q].leased
  BY <1>1 DEF LeaseExpires, DelayEnds, ReplyRecord
<1>4. Backed'
  BY <1>1, <1>2, <1>3 DEF Truth, Backed, Busy
<1>5. ASSUME mishaps' = 0 PROVE Calm'
  <2>1. /\ mishaps = 0
        /\ LeaseExpires(q) => ~Held(q)
    BY <1>5, NoMishap DEF LeaseExpires, DelayEnds, Truth
  <2>2. Calm
    BY <2>1 DEF Truth
  <2>3. \A v \in Workers : Busy(v) => reply'[worker[v].reply].leased
    BY <1>2, <1>3, <2>1, <2>2 DEF Calm, Shown, Held, Busy
  <2>4. \A v \in Workers : Busy(v)' => Shown(v)'
    BY <1>1, <1>2, <1>3, <2>2, <2>3 DEF Calm, Shown, Busy
  <2>5. \A r \in Requests : seen'[r] > 0 => Recorded(r)'
    BY <1>1, <1>3, <2>2 DEF Calm, Recorded
  <2>. QED
    BY <1>1, <2>2, <2>4, <2>5 DEF Calm, Busy
<1>. QED
  BY <1>4, <1>5

LEMMA TruthNext == Truth /\ [Next]_vars => Truth'
<1>. SUFFICES ASSUME Truth, [Next]_vars PROVE Backed' /\ (mishaps' = 0 => Calm')
  BY OutNext DEF Truth
<1>. USE DEF outboundVars, inboundVars
<1>1. ASSUME NEW q \in Requests, LeaseExpires(q) \/ DelayEnds(q)
      PROVE  Backed' /\ (mishaps' = 0 => Calm')
  BY <1>1, TruthTime
<1>2. ASSUME NEW w \in Workers, Delivering(w) \/ SettleFails(w) \/ WorkerDies(w)
      PROVE  Backed' /\ (mishaps' = 0 => Calm')
  BY <1>2, TruthClaim, TruthDeliver, TruthSettle, TruthFails DEF Delivering
<1>3. ASSUME UNCHANGED <<reply, seen, worker>>, Mishap \/ UNCHANGED mishaps
      PROVE  Backed' /\ (mishaps' = 0 => Calm')
  BY <1>3, TruthStutter, NoMishap DEF Truth
<1>4. ASSUME NEW q \in Requests,
             Receive(q) \/ Handling(q) \/ HandlerFails(q) \/ HandlerDies(q)
      PROVE  Backed' /\ (mishaps' = 0 => Calm')
  BY <1>3, <1>4 DEF Receive, Handling, InsertReceipt, CreateRun, LinkRun, Answer, Undo,
                    HandlerFails, HandlerDies
<1>5. ASSUME NEW q \in Requests,
             Executing(q) \/ HookFails(q) \/ MoveRun(q) \/ ExecutorDies(q)
      PROVE  Backed' /\ (mishaps' = 0 => Calm')
  BY <1>3, <1>5 DEF Executing, Start, EndRun, Complete, InsertReply, FailInbound,
                    HookFails, MoveRun, ExecutorDies
<1>6. CASE PauseOrResume \/ UNCHANGED vars
  BY <1>3, <1>6 DEF PauseOrResume, vars
<1>. QED
  BY <1>1, <1>2, <1>4, <1>5, <1>6 DEF Next

\* The outbox tells the truth: a reply marked delivered arrived, one marked failed
\* used up its attempts and arrived only if some answer, process or lease was lost.
THEOREM StatusTrue == Spec => []StatusIsTrue
BY TruthInit, TruthNext, TruthStatus, PTL DEF Spec
----------------------------------------------------------------------------
(* How often a reply is sent *)

\* The claims that may still reach the provider, or be put back and claimed again.
Trying(q) == {w \in Workers : /\ worker[w].step \in {"delivering", "refused"}
                              /\ worker[w].reply = q}

\* Those of them whose refusal puts the reply back.
Young(q) == {w \in Trying(q) : worker[w].attempt < MaxAttempts}

\* A worker may claim the row without a mishap, now or when its lease lapses.
Open(q) == IF \/ reply[q].status = "pending"
              \/ reply[q].status = "sending" /\ ~(reply[q].leased /\ Held(q))
           THEN 1 ELSE 0

\* Each mishap pays for one more arrival, and for one more attempt past the last.
BudgetOf(q) ==
  /\ IsFiniteSet(Trying(q))
  /\ seen[q] + Cardinality(Trying(q)) + Open(q) <= 1 + mishaps
  /\ reply[q].attempt >= MaxAttempts
       => reply[q].attempt + Cardinality(Young(q)) + Open(q) <= MaxAttempts + mishaps

Budget == \A q \in Requests : BudgetOf(q)

LEMMA Numbers ==
  ASSUME Out, NEW q \in Requests
  PROVE  /\ seen[q] \in Nat /\ reply[q].attempt \in Nat /\ Open(q) \in {0, 1}
         /\ mishaps \in Nat /\ MaxAttempts \in Nat \ {0}
BY BoundsAssumption DEF Out, Replies, ReplyRecord, Open

\* How many claims there are to a reply, and how many after one is gone.
LEMMA Counted ==
  ASSUME NEW q, IsFiniteSet(Trying(q))
  PROVE  /\ IsFiniteSet(Young(q)) /\ Cardinality(Trying(q)) \in Nat
         /\ Cardinality(Young(q)) \in Nat /\ Cardinality(Young(q)) <= Cardinality(Trying(q))
<1>1. Young(q) \in SUBSET Trying(q)
  BY DEF Young
<1>. QED
  BY <1>1, FS_Subset, FS_CardinalityType

\* The claims to a reply are those of the other workers, and perhaps that of w.
LEMMA OneGone ==
  ASSUME NEW q, NEW w \in Workers, IsFiniteSet(Trying(q)),
         \A v \in Workers : v # w => worker'[v] = worker[v],
         w \notin Trying(q)'
  PROVE  /\ IsFiniteSet(Trying(q)')
         /\ Cardinality(Trying(q)') = Cardinality(Trying(q)) - (IF w \in Trying(q) THEN 1 ELSE 0)
         /\ Cardinality(Young(q)') = Cardinality(Young(q)) - (IF w \in Young(q) THEN 1 ELSE 0)
<1>1. Trying(q)' = Trying(q) \ {w} /\ Young(q)' = Young(q) \ {w}
  BY DEF Trying, Young
<1>2. IsFiniteSet(Young(q)) /\ Cardinality(Trying(q)) \in Nat /\ Cardinality(Young(q)) \in Nat
  BY Counted
<1>3. /\ IsFiniteSet(Trying(q) \ {w})
      /\ Cardinality(Trying(q) \ {w})
           = IF w \in Trying(q) THEN Cardinality(Trying(q)) - 1 ELSE Cardinality(Trying(q))
  BY FS_RemoveElement
<1>4. Cardinality(Young(q) \ {w})
        = IF w \in Young(q) THEN Cardinality(Young(q)) - 1 ELSE Cardinality(Young(q))
  BY <1>2, FS_RemoveElement
<1>. QED
  BY <1>1, <1>2, <1>3, <1>4

LEMMA OneMore ==
  ASSUME NEW q, NEW w \in Workers, IsFiniteSet(Trying(q)),
         \A v \in Workers : v # w => worker'[v] = worker[v],
         w \in Trying(q)', w \notin Trying(q)
  PROVE  /\ IsFiniteSet(Trying(q)')
         /\ Cardinality(Trying(q)') = Cardinality(Trying(q)) + 1
         /\ Cardinality(Young(q)') = Cardinality(Young(q)) + (IF w \in Young(q)' THEN 1 ELSE 0)
<1>1. Trying(q)' = Trying(q) \cup {w} /\ w \notin Young(q)
  BY DEF Trying, Young
<1>2. Young(q)' = IF w \in Young(q)' THEN Young(q) \cup {w} ELSE Young(q)
  BY DEF Trying, Young
<1>3. IsFiniteSet(Young(q)) /\ Cardinality(Trying(q)) \in Nat /\ Cardinality(Young(q)) \in Nat
  BY Counted
<1>4. /\ IsFiniteSet(Trying(q) \cup {w})
      /\ Cardinality(Trying(q) \cup {w}) = Cardinality(Trying(q)) + 1
  BY FS_AddElement
<1>5. Cardinality(Young(q) \cup {w}) = Cardinality(Young(q)) + 1
  BY <1>1, <1>3, FS_AddElement
<1>6. CASE w \in Young(q)'
  <2>1. Cardinality(Young(q)') = Cardinality(Young(q)) + 1
    BY <1>2, <1>5, <1>6
  <2>. QED
    BY <1>1, <1>4, <1>6, <2>1
<1>7. CASE w \notin Young(q)'
  <2>1. Cardinality(Young(q)') = Cardinality(Young(q))
    BY <1>2, <1>7
  <2>. QED
    BY <1>1, <1>3, <1>4, <1>7, <2>1
<1>. QED
  BY <1>6, <1>7

\* What a step that claims nothing may add, a mishap has paid for.
LEMMA Paid ==
  ASSUME Out, Out', NEW q \in Requests, BudgetOf(q), NEW paid \in Nat,
         mishaps' = mishaps + paid, reply'[q].attempt = reply[q].attempt,
         IsFiniteSet(Trying(q)'),
         seen'[q] + Cardinality(Trying(q)') + Open(q)'
           <= seen[q] + Cardinality(Trying(q)) + Open(q) + paid,
         Cardinality(Young(q)') + Open(q)' <= Cardinality(Young(q)) + Open(q) + paid
  PROVE  BudgetOf(q)'
<1>1. /\ seen[q] \in Nat /\ reply[q].attempt \in Nat /\ Open(q) \in Nat
      /\ mishaps \in Nat /\ MaxAttempts \in Nat
      /\ Cardinality(Trying(q)) \in Nat /\ Cardinality(Young(q)) \in Nat
  BY Numbers, Counted DEF BudgetOf
<1>2. /\ seen'[q] \in Nat /\ Open(q)' \in Nat
      /\ Cardinality(Trying(q)') \in Nat /\ Cardinality(Young(q)') \in Nat
  <2>1. Cardinality(Trying(q)') \in Nat /\ IsFiniteSet(Young(q)')
    <3>1. Young(q)' \in SUBSET (Trying(q)')
      BY DEF Young
    <3>. QED
      BY <3>1, FS_Subset, FS_CardinalityType
  <2>2. seen'[q] \in Nat
    BY DEF Out, Replies
  <2>. QED
    BY <2>1, <2>2, FS_CardinalityType DEF Open
<1>3. seen'[q] + Cardinality(Trying(q)') + Open(q)' <= 1 + mishaps'
  BY <1>1, <1>2 DEF BudgetOf
<1>4. reply'[q].attempt >= MaxAttempts
        => reply'[q].attempt + Cardinality(Young(q)') + Open(q)' <= MaxAttempts + mishaps'
  BY <1>1, <1>2 DEF BudgetOf
<1>. QED
  BY <1>3, <1>4 DEF BudgetOf

LEMMA MishapCounts ==
  ASSUME Out, Mishap \/ UNCHANGED mishaps
  PROVE  /\ Mishap => mishaps' = mishaps + 1
         /\ \E paid \in Nat : mishaps' = mishaps + paid
<1>1. mishaps \in Nat
  BY BoundsAssumption DEF Out, Replies
<1>. QED
  BY <1>1 DEF Mishap

\* A step that has nothing to do with a reply.
LEMMA BudgetElsewhere ==
  ASSUME Out, Out', NEW q \in Requests, BudgetOf(q),
         reply'[q] = reply[q], seen'[q] = seen[q], Mishap \/ UNCHANGED mishaps,
         \A v \in Workers : \/ worker'[v] = worker[v]
                            \/ /\ worker[v] = Idle \/ worker[v].reply # q
                               /\ worker'[v] = Idle \/ worker'[v].reply # q
  PROVE  BudgetOf(q)'
<1>1. Trying(q)' = Trying(q) /\ Young(q)' = Young(q)
  BY DEF Trying, Young, Idle
<1>2. Held(q)' <=> Held(q)
  BY DEF Held
<1>3. Open(q)' = Open(q)
  BY <1>2 DEF Open
<1>4. PICK paid \in Nat : mishaps' = mishaps + paid
  BY MishapCounts
<1>5. IsFiniteSet(Trying(q)') /\ reply'[q].attempt = reply[q].attempt
  BY <1>1 DEF BudgetOf
<1>6. seen[q] \in Nat /\ Cardinality(Trying(q)) \in Nat /\ Cardinality(Young(q)) \in Nat
      /\ Open(q) \in Nat
  BY Numbers, Counted DEF BudgetOf
<1>. QED
  BY <1>1, <1>3, <1>4, <1>5, <1>6, Paid

LEMMA BudgetClaim ==
  ASSUME Out, Out', Budget, NEW w \in Workers, ClaimDelivery(w)
  PROVE  Budget'
<1>1. PICK q \in Requests, a \in Nat \ {0} :
         /\ Claimable(q) /\ a = reply[q].attempt + 1
         /\ reply' = [reply EXCEPT ![q] = [reply[q] EXCEPT !.status = "sending",
                                             !.attempt = a, !.leased = TRUE]]
         /\ worker' = [worker EXCEPT
              ![w] = [step |-> "delivering", reply |-> q, attempt |-> a]]
  BY ClaimDeliveryDone
<1>2. /\ reply \in [Requests -> ReplyRecord] /\ worker \in [Workers -> {Idle} \cup Claim]
      /\ UNCHANGED <<seen, mishaps>> /\ worker[w] = Idle
  BY DEF Out, Replies, ClaimDelivery
<1>3. /\ reply'[q].status = "sending" /\ reply'[q].attempt = a /\ reply'[q].leased
      /\ \A r \in Requests : r # q => reply'[r] = reply[r]
      /\ worker'[w].step = "delivering" /\ worker'[w].reply = q /\ worker'[w].attempt = a
      /\ \A v \in Workers : v # w => worker'[v] = worker[v]
      /\ worker'[w] # Idle
  BY <1>1, <1>2 DEF ReplyRecord, Idle
<1>4. ASSUME NEW r \in Requests, r # q
      PROVE  BudgetOf(r)'
  BY <1>2, <1>3, <1>4, BudgetElsewhere DEF Budget
<1>5. BudgetOf(q)'
  <2>1. Open(q) = 1
    BY <1>1 DEF Open, Claimable
  <2>2. Open(q)' = 0
    BY <1>3 DEF Open, Held
  <2>3. w \in Trying(q)' /\ w \notin Trying(q)
    BY <1>2, <1>3 DEF Trying, Idle
  <2>4. /\ IsFiniteSet(Trying(q)')
        /\ Cardinality(Trying(q)') = Cardinality(Trying(q)) + 1
        /\ Cardinality(Young(q)') = Cardinality(Young(q)) + (IF w \in Young(q)' THEN 1 ELSE 0)
    BY <1>3, <2>3, OneMore DEF Budget, BudgetOf
  <2>5. /\ seen[q] \in Nat /\ reply[q].attempt \in Nat /\ mishaps \in Nat /\ MaxAttempts \in Nat
        /\ Cardinality(Trying(q)) \in Nat /\ Cardinality(Young(q)) \in Nat
        /\ Cardinality(Young(q)) <= Cardinality(Trying(q))
    BY Numbers, Counted DEF Budget, BudgetOf
  <2>6. seen'[q] + Cardinality(Trying(q)') + Open(q)' <= 1 + mishaps'
    BY <1>2, <2>1, <2>2, <2>4, <2>5 DEF Budget, BudgetOf
  <2>7. ASSUME reply'[q].attempt >= MaxAttempts
        PROVE  reply'[q].attempt + Cardinality(Young(q)') + Open(q)' <= MaxAttempts + mishaps'
    <3>1. w \notin Young(q)' /\ reply'[q].attempt = reply[q].attempt + 1
      BY <1>1, <1>3, <2>5, <2>7 DEF Young
    <3>2. Cardinality(Young(q)') = Cardinality(Young(q))
      BY <2>4, <2>5, <3>1
    <3>3. seen[q] + Cardinality(Trying(q)) + 1 <= 1 + mishaps
      BY <2>1 DEF Budget, BudgetOf
    <3>4. reply[q].attempt >= MaxAttempts
            => reply[q].attempt + Cardinality(Young(q)) + 1 <= MaxAttempts + mishaps
      BY <2>1 DEF Budget, BudgetOf
    <3>. QED
      BY <1>2, <2>2, <2>5, <2>7, <3>1, <3>2, <3>3, <3>4
  <2>. QED
    BY <2>4, <2>6, <2>7 DEF BudgetOf
<1>. QED
  BY <1>4, <1>5 DEF Budget

LEMMA BudgetDeliver ==
  ASSUME Out, Out', Budget, NEW w \in Workers, Deliver(w)
  PROVE  Budget'
<1>0. PICK q \in Requests : q = worker[w].reply
  BY ClaimHeld DEF Deliver, Out
<1>1. PICK step \in {"accepted", "refused"}, taken \in BOOLEAN :
        /\ step = "accepted" => taken
        /\ IF step = "refused" /\ taken THEN Mishap ELSE UNCHANGED mishaps
        /\ worker' = [worker EXCEPT ![w].step = step]
        /\ seen' = IF taken THEN [seen EXCEPT ![q] = @ + 1] ELSE seen
  BY <1>0 DEF Deliver
<1>2. worker[w] \in Claim /\ worker[w].attempt \in Nat
  BY ClaimHeld DEF Deliver, Out
<1>3. /\ worker \in [Workers -> {Idle} \cup Claim] /\ seen \in [Requests -> Nat]
      /\ reply' = reply /\ worker[w].step = "delivering"
  BY DEF Out, Replies, Deliver
<1>4. /\ worker'[w].step = step /\ worker'[w].reply = q
      /\ worker'[w].attempt = worker[w].attempt
      /\ \A v \in Workers : v # w => worker'[v] = worker[v]
      /\ worker[w] # Idle /\ worker'[w] # Idle
  BY <1>0, <1>1, <1>2, <1>3 DEF Claim, Idle
<1>5. /\ \A r \in Requests : r # q => seen'[r] = seen[r]
      /\ seen'[q] = IF taken THEN seen[q] + 1 ELSE seen[q]
  BY <1>1, <1>3
<1>6. ASSUME NEW r \in Requests, r # q
      PROVE  BudgetOf(r)'
  BY <1>0, <1>1, <1>3, <1>4, <1>5, <1>6, BudgetElsewhere DEF Budget
<1>7. Held(q)' <=> Held(q)
  BY <1>0, <1>3, <1>4 DEF Held
<1>8. Open(q)' = Open(q)
  BY <1>3, <1>7 DEF Open
<1>9. /\ seen[q] \in Nat /\ Open(q) \in Nat /\ IsFiniteSet(Trying(q)) /\ BudgetOf(q)
      /\ Cardinality(Trying(q)) \in Nat /\ Cardinality(Young(q)) \in Nat
  BY Numbers, Counted DEF Budget, BudgetOf
<1>10. w \in Trying(q)
  BY <1>0, <1>3 DEF Trying
<1>11. CASE step = "accepted"
  <2>1. w \notin Trying(q)' /\ UNCHANGED mishaps /\ seen'[q] = seen[q] + 1
    BY <1>1, <1>4, <1>5, <1>11 DEF Trying
  <2>2. /\ IsFiniteSet(Trying(q)')
        /\ Cardinality(Trying(q)') = Cardinality(Trying(q)) - 1
        /\ Cardinality(Young(q)') = Cardinality(Young(q)) - (IF w \in Young(q) THEN 1 ELSE 0)
    BY <1>4, <1>9, <1>10, <2>1, OneGone
  <2>3. /\ Cardinality(Young(q)') <= Cardinality(Young(q)) /\ Cardinality(Young(q)') \in Int
    BY <1>9, <2>2
  <2>4. mishaps \in Nat
    BY <1>2, Numbers
  <2>5. /\ mishaps' = mishaps + 0
        /\ seen'[q] + Cardinality(Trying(q)') + Open(q)'
             <= seen[q] + Cardinality(Trying(q)) + Open(q) + 0
        /\ Cardinality(Young(q)') + Open(q)' <= Cardinality(Young(q)) + Open(q) + 0
    BY <1>8, <1>9, <1>10, <2>1, <2>2, <2>3, <2>4
  <2>6. BudgetOf(q)'
    BY <1>3, <1>9, <2>2, <2>5, Paid
  <2>. QED
    BY <1>6, <2>6 DEF Budget
<1>12. CASE step = "refused"
  <2>1. Trying(q)' = Trying(q) /\ Young(q)' = Young(q)
    <3>1. \A v \in Workers : v \in Trying(q)' <=> v \in Trying(q)
      BY <1>4, <1>10, <1>12 DEF Trying
    <3>2. Trying(q)' = Trying(q)
      BY <3>1 DEF Trying
    <3>3. \A v \in Workers : worker'[v].attempt = worker[v].attempt
      BY <1>4
    <3>. QED
      BY <3>2, <3>3 DEF Young, Trying
  <2>2. mishaps \in Nat /\ mishaps' = IF taken THEN mishaps + 1 ELSE mishaps
    BY <1>1, <1>2, <1>12, Numbers, MishapCounts
  <2>3. PICK paid \in Nat : paid = IF taken THEN 1 ELSE 0
    OBVIOUS
  <2>4. mishaps' = mishaps + paid /\ seen'[q] = seen[q] + paid
    BY <1>5, <1>9, <2>2, <2>3
  <2>5. BudgetOf(q)'
    BY <1>2, <1>3, <1>8, <1>9, <2>1, <2>4, Paid
  <2>. QED
    BY <1>6, <2>5 DEF Budget
<1>. QED
  BY <1>11, <1>12

LEMMA BudgetSettle ==
  ASSUME Out, Out', Budget, NEW w \in Workers, SettleDelivery(w)
  PROVE  Budget'
<1>a. PICK q \in Requests, step \in {"accepted", "refused"}, no \in Nat :
        q = worker[w].reply /\ step = worker[w].step /\ no = worker[w].attempt
  <2>1. worker[w].step \in {"accepted", "refused"} /\ Replies
    BY DEF SettleDelivery, Out
  <2>. QED
    BY <2>1, ClaimHeld
<1>b. PICK row : row = Settled(reply[q], worker[w])
  OBVIOUS
<1>0. /\ q = worker[w].reply /\ row = Settled(reply[q], worker[w])
      /\ step = worker[w].step /\ no = worker[w].attempt
  BY <1>a, <1>b
<1>1. worker[w] \in Claim /\ worker[w] # Idle
  BY <1>0, ClaimHeld DEF SettleDelivery, Out, Idle
<1>2. /\ reply \in [Requests -> ReplyRecord] /\ worker \in [Workers -> {Idle} \cup Claim]
  BY DEF Out, Replies
<1>3. /\ reply' = IF reply[q].status = "sending" THEN [reply EXCEPT ![q] = row] ELSE reply
      /\ worker' = [worker EXCEPT ![w] = Idle] /\ UNCHANGED <<seen, mishaps>>
  BY <1>0 DEF SettleDelivery, Settleable
<1>4. /\ row.attempt = reply[q].attempt
      /\ step = "accepted" => row.status = "delivered"
      /\ step = "refused" /\ no < MaxAttempts => row.status = "pending"
      /\ step = "refused" /\ ~(no < MaxAttempts) => row.status = "failed"
  BY <1>0, <1>2 DEF Settled, ReplyRecord
<1>5. /\ \A r \in Requests : r # q => reply'[r] = reply[r]
      /\ reply'[q] = (IF reply[q].status = "sending" THEN row ELSE reply[q])
      /\ \A v \in Workers : v # w => worker'[v] = worker[v]
      /\ worker'[w] = Idle
  BY <1>1, <1>2, <1>3
<1>6. ASSUME NEW r \in Requests, r # q
      PROVE  BudgetOf(r)'
  BY <1>0, <1>3, <1>5, <1>6, BudgetElsewhere DEF Budget
<1>7. /\ w \in Trying(q) <=> step = "refused"
      /\ w \in Young(q) <=> step = "refused" /\ no < MaxAttempts
      /\ w \notin Trying(q)'
  BY <1>0, <1>5 DEF Trying, Young, Idle
<1>8. /\ IsFiniteSet(Trying(q)) /\ BudgetOf(q)
      /\ seen[q] \in Nat /\ Open(q) \in {0, 1} /\ mishaps \in Nat
      /\ Cardinality(Trying(q)) \in Nat /\ Cardinality(Young(q)) \in Nat
  BY Numbers, Counted DEF Budget, BudgetOf
<1>9. /\ IsFiniteSet(Trying(q)')
      /\ Cardinality(Trying(q)') = Cardinality(Trying(q)) - (IF w \in Trying(q) THEN 1 ELSE 0)
      /\ Cardinality(Young(q)') = Cardinality(Young(q)) - (IF w \in Young(q) THEN 1 ELSE 0)
  BY <1>5, <1>7, <1>8, OneGone
<1>10. reply'[q].attempt = reply[q].attempt
  BY <1>4, <1>5
<1>11. Open(q)' <= Open(q) + (IF step = "refused" /\ no < MaxAttempts THEN 1 ELSE 0)
  <2>1. CASE reply[q].status # "sending"
    <3>1. Open(q)' = Open(q)
      BY <1>5, <2>1 DEF Open
    <3>. QED
      BY <1>8, <3>1
  <2>2. CASE reply[q].status = "sending"
    <3>1. reply'[q].status = row.status
      BY <1>5, <2>2
    <3>2. CASE step = "refused" /\ no < MaxAttempts
      <4>1. Open(q)' \in {0, 1}
        BY DEF Open
      <4>. QED
        BY <1>8, <3>2, <4>1
    <3>3. CASE ~(step = "refused" /\ no < MaxAttempts)
      <4>1. Open(q)' = 0
        BY <1>4, <3>1, <3>3 DEF Open
      <4>. QED
        BY <1>8, <3>3, <4>1
    <3>. QED
      BY <3>2, <3>3
  <2>. QED
    BY <2>1, <2>2
<1>12. Open(q)' \in Nat
  BY DEF Open
<1>13. /\ mishaps' = mishaps + 0
       /\ seen'[q] + Cardinality(Trying(q)') + Open(q)'
            <= seen[q] + Cardinality(Trying(q)) + Open(q) + 0
       /\ Cardinality(Young(q)') + Open(q)' <= Cardinality(Young(q)) + Open(q) + 0
  <2>1. CASE step = "refused" /\ no < MaxAttempts
    BY <1>3, <1>7, <1>8, <1>9, <1>11, <1>12, <2>1
  <2>2. CASE ~(step = "refused" /\ no < MaxAttempts)
    <3>1. Open(q)' <= Open(q)
      BY <1>8, <1>11, <2>2
    <3>2. Cardinality(Young(q)') = Cardinality(Young(q))
      BY <1>7, <1>8, <1>9, <2>2
    <3>3. Cardinality(Trying(q)') <= Cardinality(Trying(q)) /\ Cardinality(Trying(q)') \in Int
      BY <1>8, <1>9
    <3>. QED
      BY <1>3, <1>8, <1>12, <3>1, <3>2, <3>3
  <2>. QED
    BY <2>1, <2>2
<1>14. BudgetOf(q)'
  BY <1>8, <1>9, <1>10, <1>13, Paid
<1>. QED
  BY <1>6, <1>14 DEF Budget

LEMMA BudgetFails ==
  ASSUME Out, Out', Budget, NEW w \in Workers, SettleFails(w) \/ WorkerDies(w)
  PROVE  Budget'
<1>1. /\ worker[w] # Idle /\ worker[w] \in Claim /\ worker[w].reply \in Requests
      /\ Mishap /\ UNCHANGED <<reply, seen>>
      /\ worker \in [Workers -> {Idle} \cup Claim]
  <2>1. Replies /\ (worker[w].step \in {"accepted", "refused"} \/ worker[w] # Idle)
    BY DEF SettleFails, WorkerDies, Out
  <2>2. worker[w] \in Claim /\ worker[w].reply \in Requests
    BY <2>1, ClaimHeld
  <2>3. worker[w] # Idle
    BY <2>2 DEF Claim, Idle
  <2>. QED
    BY <2>1, <2>2, <2>3 DEF SettleFails, WorkerDies, Replies
<1>2. PICK q \in Requests : q = worker[w].reply
  BY <1>1
<1>3. \A v \in Workers : v # w => worker'[v] = worker[v]
  BY <1>1 DEF SettleFails, WorkerDies
<1>4. /\ mishaps' = mishaps + 1
      /\ IsFiniteSet(Trying(q)) /\ BudgetOf(q)
      /\ seen[q] \in Nat /\ Open(q) \in {0, 1} /\ Open(q)' \in {0, 1} /\ mishaps \in Nat
      /\ Cardinality(Trying(q)) \in Nat /\ Cardinality(Young(q)) \in Nat
  BY <1>1, MishapCounts, Numbers, Counted DEF Budget, BudgetOf, Open
<1>5. CASE worker' = [worker EXCEPT ![w] = Idle]
  <2>1. worker'[w] = Idle /\ w \notin Trying(q)'
    BY <1>1, <1>5 DEF Trying, Idle
  <2>2. /\ IsFiniteSet(Trying(q)')
        /\ Cardinality(Trying(q)') = Cardinality(Trying(q)) - (IF w \in Trying(q) THEN 1 ELSE 0)
        /\ Cardinality(Young(q)') = Cardinality(Young(q)) - (IF w \in Young(q) THEN 1 ELSE 0)
    BY <1>3, <1>4, <2>1, OneGone
  <2>3. /\ Cardinality(Trying(q)') <= Cardinality(Trying(q)) /\ Cardinality(Trying(q)') \in Int
        /\ Cardinality(Young(q)') <= Cardinality(Young(q)) /\ Cardinality(Young(q)') \in Int
    BY <1>4, <2>2
  <2>4. /\ seen'[q] + Cardinality(Trying(q)') + Open(q)'
             <= seen[q] + Cardinality(Trying(q)) + Open(q) + 1
        /\ Cardinality(Young(q)') + Open(q)' <= Cardinality(Young(q)) + Open(q) + 1
    BY <1>1, <1>4, <2>3
  <2>5. BudgetOf(q)'
    BY <1>1, <1>4, <2>2, <2>4, Paid
  <2>6. ASSUME NEW r \in Requests, r # q
        PROVE  BudgetOf(r)'
    BY <1>1, <1>2, <1>3, <2>1, <2>6, BudgetElsewhere DEF Budget
  <2>. QED
    BY <2>5, <2>6 DEF Budget
<1>6. CASE worker[w].step = "accepted" /\ worker' = [worker EXCEPT ![w].step = "refused"]
  <2>1. /\ worker'[w].step = "refused" /\ worker'[w].reply = q
        /\ worker'[w].attempt = worker[w].attempt /\ worker'[w] # Idle
    BY <1>1, <1>2, <1>6 DEF Claim, Idle
  <2>2. w \in Trying(q)' /\ w \notin Trying(q)
    BY <1>6, <2>1 DEF Trying
  <2>3. /\ IsFiniteSet(Trying(q)')
        /\ Cardinality(Trying(q)') = Cardinality(Trying(q)) + 1
        /\ Cardinality(Young(q)') = Cardinality(Young(q)) + (IF w \in Young(q)' THEN 1 ELSE 0)
    BY <1>3, <1>4, <2>2, OneMore
  <2>4. Held(q)' <=> Held(q)
    BY <1>1, <1>2, <1>3, <2>1 DEF Held
  <2>5. Open(q)' = Open(q)
    BY <1>1, <2>4 DEF Open
  <2>6. Cardinality(Young(q)') <= Cardinality(Young(q)) + 1 /\ Cardinality(Young(q)') \in Int
    BY <1>4, <2>3
  <2>7. /\ seen'[q] + Cardinality(Trying(q)') + Open(q)'
             <= seen[q] + Cardinality(Trying(q)) + Open(q) + 1
        /\ Cardinality(Young(q)') + Open(q)' <= Cardinality(Young(q)) + Open(q) + 1
    BY <1>1, <1>4, <2>3, <2>5, <2>6
  <2>8. BudgetOf(q)'
    BY <1>1, <1>4, <2>3, <2>7, Paid
  <2>9. ASSUME NEW r \in Requests, r # q
        PROVE  BudgetOf(r)'
    BY <1>1, <1>2, <1>3, <2>1, <2>9, BudgetElsewhere DEF Budget
  <2>. QED
    BY <2>8, <2>9 DEF Budget
<1>. QED
  BY <1>5, <1>6 DEF SettleFails, WorkerDies

\* A lease that lapses under its holder is a mishap; any other frees the row only for
\* those who may have it already.
LEMMA BudgetTime ==
  ASSUME Out, Out', Budget, NEW q \in Requests, LeaseExpires(q) \/ DelayEnds(q)
  PROVE  Budget'
<1>1. /\ reply \in [Requests -> ReplyRecord] /\ UNCHANGED <<seen, worker>>
      /\ Mishap \/ UNCHANGED mishaps
  BY DEF Out, Replies, LeaseExpires, DelayEnds
<1>2. /\ \A r \in Requests : r # q => reply'[r] = reply[r]
      /\ reply'[q].status = reply[q].status /\ reply'[q].attempt = reply[q].attempt
      /\ DelayEnds(q) => reply'[q].leased = reply[q].leased
  BY <1>1 DEF LeaseExpires, DelayEnds, ReplyRecord
<1>3. ASSUME NEW r \in Requests, r # q
      PROVE  BudgetOf(r)'
  BY <1>1, <1>2, <1>3, BudgetElsewhere DEF Budget
<1>4. Trying(q)' = Trying(q) /\ Young(q)' = Young(q) /\ (Held(q)' <=> Held(q))
  BY <1>1, <1>2 DEF Trying, Young, Held
<1>5. /\ seen[q] \in Nat /\ Open(q) \in {0, 1} /\ Open(q)' \in {0, 1} /\ mishaps \in Nat
      /\ IsFiniteSet(Trying(q)) /\ BudgetOf(q)
      /\ Cardinality(Trying(q)) \in Nat /\ Cardinality(Young(q)) \in Nat
  BY Numbers, Counted DEF Budget, BudgetOf, Open
<1>6. \E paid \in Nat : mishaps' = mishaps + paid /\ Open(q)' <= Open(q) + paid
  <2>1. CASE Mishap
    <3>1. mishaps' = mishaps + 1
      BY <2>1, MishapCounts
    <3>. QED
      BY <1>5, <3>1
  <2>2. CASE UNCHANGED mishaps
    <3>1. LeaseExpires(q) => ~Held(q)
      <4>1. ~Mishap
        BY <1>5, <2>2 DEF Mishap
      <4>. QED
        BY <4>1 DEF LeaseExpires
    <3>2. Open(q)' = Open(q)
      BY <1>2, <1>4, <3>1 DEF Open
    <3>3. mishaps' = mishaps + 0 /\ Open(q)' <= Open(q) + 0
      BY <1>5, <2>2, <3>2
    <3>. QED
      BY <3>3
  <2>. QED
    BY <1>1, <2>1, <2>2
<1>7. BudgetOf(q)'
  BY <1>1, <1>2, <1>4, <1>5, <1>6, Paid
<1>. QED
  BY <1>3, <1>7 DEF Budget

LEMMA BudgetInit == Init => Budget
<1>. SUFFICES ASSUME Init, NEW q \in Requests PROVE BudgetOf(q)
  BY DEF Budget
<1>1. Trying(q) = {} /\ Young(q) = {}
  BY DEF Init, Trying, Young, Idle
<1>2. /\ IsFiniteSet(Trying(q)) /\ Cardinality(Trying(q)) = 0 /\ Cardinality(Young(q)) = 0
  BY <1>1, FS_EmptySet
<1>3. seen[q] = 0 /\ mishaps = 0 /\ reply[q].attempt = 0 /\ Open(q) = 1
  BY DEF Init, NewReply, Open
<1>. QED
  BY <1>2, <1>3, BoundsAssumption DEF BudgetOf

LEMMA BudgetNext == Out /\ Budget /\ [Next]_vars => Budget'
<1>. SUFFICES ASSUME Out, Budget, [Next]_vars, Out' PROVE Budget'
  BY OutNext
<1>. USE DEF outboundVars, inboundVars
<1>1. ASSUME NEW q \in Requests, LeaseExpires(q) \/ DelayEnds(q)
      PROVE  Budget'
  BY <1>1, BudgetTime
<1>2. ASSUME NEW w \in Workers, Delivering(w) \/ SettleFails(w) \/ WorkerDies(w)
      PROVE  Budget'
  BY <1>2, BudgetClaim, BudgetDeliver, BudgetSettle, BudgetFails DEF Delivering
<1>3. ASSUME UNCHANGED <<reply, seen, worker>>, Mishap \/ UNCHANGED mishaps
      PROVE  Budget'
  BY <1>3, BudgetElsewhere DEF Budget
<1>4. ASSUME NEW q \in Requests,
             Receive(q) \/ Handling(q) \/ HandlerFails(q) \/ HandlerDies(q)
      PROVE  Budget'
  BY <1>3, <1>4 DEF Receive, Handling, InsertReceipt, CreateRun, LinkRun, Answer, Undo,
                    HandlerFails, HandlerDies
<1>5. ASSUME NEW q \in Requests,
             Executing(q) \/ HookFails(q) \/ MoveRun(q) \/ ExecutorDies(q)
      PROVE  Budget'
  BY <1>3, <1>5 DEF Executing, Start, EndRun, Complete, InsertReply, FailInbound,
                    HookFails, MoveRun, ExecutorDies
<1>6. CASE PauseOrResume \/ UNCHANGED vars
  BY <1>3, <1>6 DEF PauseOrResume, vars
<1>. QED
  BY <1>1, <1>2, <1>4, <1>5, <1>6 DEF Next

LEMMA BudgetBounds == Out /\ Budget => RepeatedByMishapOnly
<1>. SUFFICES ASSUME Out, Budget, NEW q \in Requests
              PROVE  seen[q] <= 1 + mishaps /\ reply[q].attempt <= MaxAttempts + mishaps
  BY DEF RepeatedByMishapOnly
<1>1. /\ BudgetOf(q) /\ seen[q] \in Nat /\ reply[q].attempt \in Nat /\ Open(q) \in {0, 1}
      /\ mishaps \in Nat /\ MaxAttempts \in Nat
      /\ Cardinality(Trying(q)) \in Nat /\ Cardinality(Young(q)) \in Nat
  BY Numbers, Counted DEF Budget, BudgetOf
<1>. QED
  BY <1>1 DEF BudgetOf

\* Whoever delivers and whatever fails, the conversation receives a reply at most once
\* more than there were mishaps, and a reply is tried past max_attempts, which the claim
\* does not look at, at most once for each of them.
THEOREM RepeatedOnlyByMishap == Spec => []RepeatedByMishapOnly
<1>1. Init => Out /\ Budget
  BY OutInit, BudgetInit
<1>2. Out /\ Budget /\ [Next]_vars => (Out /\ Budget)'
  BY OutNext, BudgetNext
<1>. QED
  BY <1>1, <1>2, BudgetBounds, PTL DEF Spec
----------------------------------------------------------------------------
(* Answers and deliveries that are due *)

\* A lease goes with an attempt under way, a date with one still to come.
OneWait(row) == /\ row.leased => row.status = "sending"
                /\ ~row.due => row.status = "pending"
Waits == \A q \in Requests : OneWait(reply[q])

LEMMA WaitsNext == Out /\ Waits /\ [Next]_vars => Waits'
<1>. SUFFICES ASSUME Out, Waits, [Next]_vars PROVE Waits'
  OBVIOUS
<1>0. reply \in [Requests -> ReplyRecord]
  BY DEF Out, Replies
<1>1. ASSUME NEW q \in Requests, NEW row, OneWait(row), reply' = [reply EXCEPT ![q] = row]
      PROVE  Waits'
  BY <1>0, <1>1 DEF Waits
<1>2. ASSUME NEW q \in Requests, LeaseExpires(q) \/ DelayEnds(q) PROVE Waits'
  <2>1. /\ reply[q] \in ReplyRecord /\ OneWait(reply[q])
        /\ \/ reply' = [reply EXCEPT ![q] = [reply[q] EXCEPT !.leased = FALSE]]
           \/ reply' = [reply EXCEPT ![q] = [reply[q] EXCEPT !.due = TRUE]]
    BY <1>0, <1>2 DEF LeaseExpires, DelayEnds, Waits
  <2>2. /\ OneWait([reply[q] EXCEPT !.leased = FALSE])
        /\ OneWait([reply[q] EXCEPT !.due = TRUE])
    BY <2>1 DEF OneWait, ReplyRecord
  <2>. QED
    BY <1>1, <2>1, <2>2
<1>3. ASSUME NEW w \in Workers, ClaimDelivery(w) PROVE Waits'
  <2>1. PICK q \in Requests, a \in Nat \ {0} :
          /\ Claimable(q)
          /\ reply' = [reply EXCEPT ![q] = [reply[q] EXCEPT !.status = "sending",
                                              !.attempt = a, !.leased = TRUE]]
    BY <1>3, ClaimDeliveryDone
  <2>2. reply[q] \in ReplyRecord /\ reply[q].due
    BY <1>0, <2>1 DEF Claimable
  <2>3. OneWait([reply[q] EXCEPT !.status = "sending", !.attempt = a, !.leased = TRUE])
    BY <2>2 DEF OneWait, ReplyRecord
  <2>. QED
    BY <1>1, <2>1, <2>3
<1>4. ASSUME NEW w \in Workers, SettleDelivery(w) PROVE Waits'
  <2>1. worker[w].reply \in Requests
    BY <1>4, ClaimHeld DEF SettleDelivery, Out
  <2>2. PICK q \in Requests : /\ q = worker[w].reply
                              /\ \/ UNCHANGED reply
                                 \/ /\ Settleable(q)
                                    /\ reply' = [reply EXCEPT ![q] = Settled(reply[q], worker[w])]
    BY <1>4, <2>1 DEF SettleDelivery
  <2>3. Settleable(q) => OneWait(Settled(reply[q], worker[w]))
    <3>1. /\ reply[q] \in ReplyRecord
          /\ Settleable(q) => reply[q].status = "sending" /\ reply[q].due
      BY <1>0 DEF Settleable, Waits, OneWait
    <3>. QED
      BY <3>1 DEF Settled, OneWait, ReplyRecord
  <2>. QED
    BY <1>1, <2>2, <2>3 DEF Waits
<1>5. ASSUME UNCHANGED reply PROVE Waits'
  BY <1>5 DEF Waits
<1>. QED
  BY <1>2, <1>3, <1>4, <1>5
  DEF Next, vars, outboundVars, Receive, Handling, InsertReceipt, CreateRun, LinkRun, Answer,
      Undo, HandlerFails, HandlerDies, Executing, Start, EndRun, Complete, InsertReply,
      FailInbound,
      HookFails, MoveRun, ExecutorDies, Delivering, Deliver, SettleFails, WorkerDies, PauseOrResume

\* Whatever fails, stalls or is settled by another, a reply without an end is one date or
\* one lease away from being claimed again: no interleaving of claims, deaths and late
\* settlements leaves it waiting for what never comes.
THEOREM DeliveriesGoOn == Spec => []WaitsForOneThing
<1>1. Init => Waits
  BY DEF Init, Waits, OneWait, NewReply
<1>2. Out /\ Waits => WaitsForOneThing
  <2>. SUFFICES ASSUME Out, Waits, NEW q \in Outbound
                PROVE  \/ Claimable(q)
                       \/ reply[q].status = "sending" /\ reply[q].leased /\ reply[q].due
                       \/ reply[q].status = "pending" /\ ~reply[q].leased /\ ~reply[q].due
                       \/ reply[q].status \in {"delivered", "failed"} /\ ~reply[q].leased
    BY DEF WaitsForOneThing
  <2>1. q \in Requests
    BY DEF Out, Rest, Outbound, ToSet
  <2>2. reply[q] \in ReplyRecord /\ OneWait(reply[q])
    BY <2>1 DEF Out, Replies, Waits
  <2>. QED
    BY <2>2 DEF OneWait, Claimable, ReplyRecord
<1>. QED
  BY <1>1, <1>2, WaitsNext, OutInit, OutNext, PTL DEF Spec

\* As long as nothing went wrong every handler and every run is where its receipt says.
OwedTo(q) ==
  /\ request[q] \notin {"undo", "dead"}
  /\ request[q] = "created" => run[q] \in {"queued", "aside", "closed"}
  /\ request[q] = "duplicate" => Taken(about[q])
  /\ receipt[q].status = "accepted" =>
       \/ request[q] \in {"inserted", "created"}
       \/ receipt[q].linked /\ run[q] \in {"queued", "running", "succeeded", "failed",
                                           "aside", "closed"}
  /\ receipt[q].status = "completed" => run[q] = "replying" \/ q \in Outbound
Owed == \A q \in Requests : OwedTo(q)

LEMMA Appended ==
  ASSUME Out, NEW q \in Requests, outbox' = Append(outbox, q)
  PROVE  Outbound' = Outbound \cup {q}
<1>1. outbox \in Seq(Requests)
  BY DEF Out, Rest
<1>2. /\ Len(outbox') = Len(outbox) + 1 /\ Len(outbox) \in Nat
      /\ \A i \in 1..Len(outbox) : outbox'[i] = outbox[i]
      /\ outbox'[Len(outbox) + 1] = q
  BY <1>1
<1>3. Outbound' = {outbox'[i] : i \in 1..Len(outbox')}
  BY DEF Outbound, ToSet
<1>. QED
  BY <1>2, <1>3 DEF Outbound, ToSet

LEMMA NoMishapBefore ==
  ASSUME Out, [Next]_vars, mishaps' = 0
  PROVE  mishaps = 0
<1>0. mishaps \in Nat
  BY BoundsAssumption DEF Out, Replies
<1>1. mishaps' = mishaps \/ mishaps' = mishaps + 1
  BY DEF Next, vars, outboundVars, Mishap, Receive, Handling, InsertReceipt, CreateRun, LinkRun,
         Answer, Undo, HandlerFails, HandlerDies, Executing, Start, EndRun, Complete, InsertReply,
         FailInbound,
         HookFails, MoveRun, ExecutorDies, LeaseExpires, DelayEnds, Delivering, ClaimDelivery, Deliver,
         SettleDelivery, SettleFails, WorkerDies, PauseOrResume
<1>. QED
  BY <1>0, <1>1

\* A step of one request or run: what the others are owed stays, for no receipt goes.
LEMMA OwedOne ==
  ASSUME Out, Owed, NEW q \in Requests,
         NEW a \in Steps, request' = [request EXCEPT ![q] = a],
         NEW c, receipt' = [receipt EXCEPT ![q] = c],
         Present(q) => c.status # "absent",
         NEW b, run' = [run EXCEPT ![q] = b],
         UNCHANGED about, Outbound \subseteq Outbound',
         a = "duplicate" => Taken(about[q]),
         (\A m : Taken(m) => Taken(m)') => OwedTo(q)'
  PROVE  Owed'
<1>0. /\ request \in [Requests -> Steps]
      /\ receipt \in [Requests -> [status : {"absent", "accepted", "completed", "failed"},
                                   linked : BOOLEAN]]
      /\ run \in [Requests -> {"none", "queued", "running", "succeeded", "replying",
                               "failed", "over", "aside", "closed"}]
  BY DEF Out, Inv, Receipts
<1>1. \A r \in Requests : r # q => /\ request'[r] = request[r]
                                   /\ receipt'[r] = receipt[r] /\ run'[r] = run[r]
  BY <1>0
<1>2. \A r \in Requests : receipt[r].status # "absent" => receipt'[r].status # "absent"
  BY <1>0, <1>1 DEF Present
<1>3. \A m : Taken(m) => Taken(m)'
  BY <1>2 DEF Taken
<1>4. ASSUME NEW r \in Requests, r # q PROVE OwedTo(r)'
  BY <1>1, <1>3, <1>4 DEF Owed, OwedTo
<1>. QED
  BY <1>3, <1>4 DEF Owed

LEMMA OwedHandler ==
  ASSUME Out, Owed, NEW q \in Requests, Receive(q) \/ Handling(q)
  PROVE  Owed'
<1>0. /\ request \in [Requests -> Steps]
      /\ receipt \in [Requests -> [status : {"absent", "accepted", "completed", "failed"},
                                   linked : BOOLEAN]]
      /\ run \in [Requests -> {"none", "queued", "running", "succeeded", "replying",
                               "failed", "over", "aside", "closed"}]
      /\ OwedTo(q)
  BY DEF Out, Inv, Receipts, Owed
<1>1. UNCHANGED <<about, outbox>> /\ UNCHANGED Outbound
  BY DEF Receive, Handling, InsertReceipt, CreateRun, LinkRun, Answer, Undo, outboundVars,
         Outbound
<1>2. UNCHANGED receipt => receipt' = [receipt EXCEPT ![q] = receipt[q]]
  BY <1>0
<1>3. UNCHANGED run => run' = [run EXCEPT ![q] = run[q]]
  BY <1>0
<1>4. CASE Receive(q)
  <2>1. PICK a \in {"active", "refused"} : request' = [request EXCEPT ![q] = a]
    BY <1>4 DEF Receive, Go
  <2>2. request[q] = "coming" /\ UNCHANGED <<receipt, run>>
    BY <1>4 DEF Receive
  <2>3. OwedTo(q)'
    BY <1>0, <1>1, <2>1, <2>2 DEF OwedTo
  <2>. QED
    BY <1>1, <1>2, <1>3, <2>1, <2>2, <2>3, OwedOne DEF Steps, Answers, Present
<1>5. CASE InsertReceipt(q)
  <2>1. CASE Taken(about[q])
    <3>1. request' = [request EXCEPT ![q] = "duplicate"] /\ UNCHANGED <<receipt, run>>
      BY <1>5, <2>1 DEF InsertReceipt, Go
    <3>2. request[q] = "active"
      BY <1>5 DEF InsertReceipt
    <3>3. (\A m : Taken(m) => Taken(m)') => OwedTo(q)'
      BY <1>0, <1>1, <2>1, <3>1, <3>2 DEF OwedTo
    <3>. QED
      BY <1>1, <1>2, <1>3, <2>1, <3>1, <3>3, OwedOne DEF Steps, Answers, Present
  <2>2. CASE ~Taken(about[q])
    <3>1. /\ request' = [request EXCEPT ![q] = "inserted"] /\ UNCHANGED run
          /\ receipt' = [receipt EXCEPT ![q] = [receipt[q] EXCEPT !.status = "accepted"]]
      BY <1>5, <2>2 DEF InsertReceipt, Go
    <3>2. [receipt[q] EXCEPT !.status = "accepted"].status = "accepted" /\ "inserted" \in Steps
      BY <1>0 DEF Steps
    <3>3. OwedTo(q)'
      BY <1>0, <1>1, <3>1 DEF OwedTo
    <3>. QED
      BY <1>1, <1>3, <3>1, <3>2, <3>3, OwedOne
  <2>. QED
    BY <2>1, <2>2
<1>6. CASE CreateRun(q)
  <2>1. /\ request[q] = "inserted" /\ request' = [request EXCEPT ![q] = "created"]
        /\ UNCHANGED receipt /\ run' = [run EXCEPT ![q] = "queued"]
    BY <1>6 DEF CreateRun, Go
  <2>2. run[q] = "none"
    BY <2>1 DEF Out, NotYet
  <2>3. OwedTo(q)'
    BY <1>0, <1>1, <2>1, <2>2 DEF OwedTo
  <2>4. "created" \in Steps /\ (Present(q) => receipt[q].status # "absent")
    BY DEF Steps, Present
  <2>. QED
    BY <1>1, <1>2, <2>1, <2>3, <2>4, OwedOne
<1>7. CASE LinkRun(q)
  <2>1. /\ request[q] = "created" /\ request' = [request EXCEPT ![q] = "linked"]
        /\ receipt' = [receipt EXCEPT ![q] = [receipt[q] EXCEPT !.linked = TRUE]]
        /\ UNCHANGED run
    BY <1>7 DEF LinkRun, Linked, Go
  <2>2. "linked" \in Steps /\ (Present(q) => [receipt[q] EXCEPT !.linked = TRUE].status # "absent")
    BY <1>0 DEF Steps, Present
  <2>3. OwedTo(q)'
    BY <1>0, <1>1, <2>1 DEF OwedTo
  <2>. QED
    BY <1>1, <1>3, <2>1, <2>2, <2>3, OwedOne
<1>8. CASE Answer(q)
  <2>1. /\ request[q] = "linked" /\ request' = [request EXCEPT ![q] = "accepted"]
        /\ UNCHANGED <<receipt, run>>
    BY <1>8 DEF Answer, Go
  <2>2. OwedTo(q)'
    BY <1>0, <1>1, <2>1 DEF OwedTo
  <2>3. "accepted" \in Steps /\ (Present(q) => receipt[q].status # "absent")
    BY DEF Steps, Answers, Present
  <2>4. /\ receipt' = [receipt EXCEPT ![q] = receipt[q]] /\ run' = [run EXCEPT ![q] = run[q]]
        /\ UNCHANGED about /\ Outbound \subseteq Outbound'
    BY <1>1, <1>2, <1>3, <2>1
  <2>5. request' = [request EXCEPT ![q] = "accepted"]
    BY <2>1
  <2>. QED
    BY <2>2, <2>3, <2>4, <2>5, OwedOne
<1>9. ~Undo(q)
  BY <1>0 DEF Undo, OwedTo
<1>. QED
  BY <1>4, <1>5, <1>6, <1>7, <1>8, <1>9 DEF Handling

LEMMA OwedRun ==
  ASSUME Out, Owed, NEW q \in Requests, Executing(q) \/ MoveRun(q)
  PROVE  Owed'
<1>0. /\ request \in [Requests -> Steps]
      /\ receipt \in [Requests -> [status : {"absent", "accepted", "completed", "failed"},
                                   linked : BOOLEAN]]
      /\ run \in [Requests -> {"none", "queued", "running", "succeeded", "replying",
                               "failed", "over", "aside", "closed"}]
      /\ OwedTo(q)
  BY DEF Out, Inv, Receipts, Owed
<1>1. /\ UNCHANGED <<about, request>> /\ request' = [request EXCEPT ![q] = request[q]]
      /\ request[q] \in Steps
      /\ request[q] = "duplicate" => Taken(about[q])
  BY <1>0 DEF Executing, Start, EndRun, Complete, InsertReply, FailInbound, MoveRun,
              inboundVars, OwedTo
<1>2. UNCHANGED receipt => receipt' = [receipt EXCEPT ![q] = receipt[q]]
  BY <1>0
<1>3. CASE Start(q)
  <2>1. /\ run[q] = "queued" /\ receipt[q].linked /\ run' = [run EXCEPT ![q] = "running"]
        /\ UNCHANGED <<receipt, outbox>>
    BY <1>3 DEF Start, inboundVars, outboundVars
  <2>2. request[q] # "created" /\ UNCHANGED Outbound
    BY <2>1 DEF Out, Inv, LinkedLate, Outbound
  <2>3. (\A m : Taken(m) => Taken(m)') => OwedTo(q)'
    BY <1>0, <1>1, <2>1, <2>2 DEF OwedTo
  <2>. QED
    BY <1>1, <1>2, <2>1, <2>2, <2>3, OwedOne DEF Present
<1>4. CASE EndRun(q)
  <2>1. PICK b \in {"succeeded", "failed"} : run' = [run EXCEPT ![q] = b]
    BY <1>4 DEF EndRun
  <2>2. run[q] = "running" /\ UNCHANGED <<receipt, outbox>> /\ UNCHANGED Outbound
    BY <1>4 DEF EndRun, inboundVars, outboundVars, Outbound
  <2>3. (\A m : Taken(m) => Taken(m)') => OwedTo(q)'
    BY <1>0, <1>1, <2>1, <2>2 DEF OwedTo
  <2>. QED
    BY <1>1, <1>2, <2>1, <2>2, <2>3, OwedOne DEF Present
<1>5. CASE Complete(q)
  <2>1. run[q] = "succeeded" /\ UNCHANGED outbox /\ UNCHANGED Outbound
    BY <1>5 DEF Complete, outboundVars, Outbound
  <2>2. CASE receipt[q].status = "absent"
    <3>1. run' = [run EXCEPT ![q] = "over"] /\ UNCHANGED receipt
      BY <1>5, <2>2 DEF Complete
    <3>2. (\A m : Taken(m) => Taken(m)') => OwedTo(q)'
      BY <1>0, <1>1, <2>1, <2>2, <3>1 DEF OwedTo
    <3>. QED
      BY <1>1, <1>2, <2>1, <3>1, <3>2, OwedOne DEF Present
  <2>3. CASE receipt[q].status # "absent"
    <3>1. /\ run' = [run EXCEPT ![q] = "replying"]
          /\ receipt' = [receipt EXCEPT ![q] = [receipt[q] EXCEPT !.status = "completed"]]
      BY <1>5, <2>3 DEF Complete
    <3>2. /\ [receipt[q] EXCEPT !.status = "completed"].status = "completed"
          /\ (\A m : Taken(m) => Taken(m)') => OwedTo(q)'
      BY <1>0, <1>1, <2>1, <3>1 DEF OwedTo
    <3>. QED
      BY <1>1, <2>1, <3>1, <3>2, OwedOne DEF Present
  <2>. QED
    BY <2>2, <2>3
<1>6. CASE InsertReply(q)
  <2>1. /\ run[q] = "replying" /\ run' = [run EXCEPT ![q] = "over"]
        /\ outbox' = Append(outbox, q) /\ UNCHANGED receipt
    BY <1>6 DEF InsertReply, inboundVars
  <2>2. Outbound' = Outbound \cup {q}
    BY <2>1, Appended
  <2>3. (\A m : Taken(m) => Taken(m)') => OwedTo(q)'
    BY <1>0, <1>1, <2>1, <2>2 DEF OwedTo
  <2>. QED
    BY <1>1, <1>2, <2>1, <2>2, <2>3, OwedOne DEF Present
<1>7. CASE FailInbound(q)
  <2>1. /\ run[q] = "failed" /\ run' = [run EXCEPT ![q] = "over"]
        /\ UNCHANGED outbox /\ UNCHANGED Outbound
    BY <1>7 DEF FailInbound, outboundVars, Outbound
  <2>2. CASE receipt[q].status = "absent"
    <3>1. UNCHANGED receipt
      BY <1>7, <2>2 DEF FailInbound
    <3>2. (\A m : Taken(m) => Taken(m)') => OwedTo(q)'
      BY <1>0, <1>1, <2>1, <2>2, <3>1 DEF OwedTo
    <3>. QED
      BY <1>1, <1>2, <2>1, <3>1, <3>2, OwedOne DEF Present
  <2>3. CASE receipt[q].status # "absent"
    <3>1. receipt' = [receipt EXCEPT ![q] = [receipt[q] EXCEPT !.status = "failed"]]
      BY <1>7, <2>3 DEF FailInbound
    <3>2. /\ [receipt[q] EXCEPT !.status = "failed"].status = "failed"
          /\ (\A m : Taken(m) => Taken(m)') => OwedTo(q)'
      BY <1>0, <1>1, <2>1, <3>1 DEF OwedTo
    <3>. QED
      BY <1>1, <2>1, <3>1, <3>2, OwedOne DEF Present
  <2>. QED
    BY <2>2, <2>3
<1>8. CASE MoveRun(q)
  <2>1. PICK b \in {"queued", "aside", "closed"} : run' = [run EXCEPT ![q] = b]
    BY <1>8 DEF MoveRun
  <2>2. /\ run[q] \in {"queued", "running", "aside"}
        /\ b = "queued" => run[q] = "aside"
        /\ UNCHANGED <<receipt, outbox>> /\ UNCHANGED Outbound
    BY <1>0, <1>8, <2>1 DEF MoveRun, inboundVars, outboundVars, Outbound
  <2>3. (\A m : Taken(m) => Taken(m)') => OwedTo(q)'
    BY <1>0, <1>1, <2>1, <2>2 DEF OwedTo
  <2>. QED
    BY <1>1, <1>2, <2>1, <2>2, <2>3, OwedOne DEF Present
<1>. QED
  BY <1>3, <1>4, <1>5, <1>6, <1>7, <1>8 DEF Executing

LEMMA OwedNext ==
  ASSUME Out, mishaps = 0 => Owed, [Next]_vars, mishaps' = 0
  PROVE  Owed'
<1>1. mishaps = 0 /\ Owed
  BY NoMishapBefore
<1>2. ~Mishap
  BY <1>1 DEF Mishap
<1>3. ASSUME NEW q \in Requests, Receive(q) \/ Handling(q) PROVE Owed'
  BY <1>1, <1>3, OwedHandler
<1>4. ASSUME NEW q \in Requests, Executing(q) \/ MoveRun(q) PROVE Owed'
  BY <1>1, <1>4, OwedRun
<1>5. ASSUME UNCHANGED <<about, request, receipt, run, outbox>> PROVE Owed'
  BY <1>1, <1>5 DEF Owed, OwedTo, Taken, Outbound
<1>. QED
  BY <1>2, <1>3, <1>4, <1>5
  DEF Next, vars, inboundVars, outboundVars, HandlerFails, HandlerDies,
      HookFails, MoveRun, ExecutorDies, LeaseExpires,
      DelayEnds, Delivering, ClaimDelivery, Deliver, SettleDelivery, SettleFails, WorkerDies,
      PauseOrResume

\* As long as nothing goes wrong, a provider that was told that its message was taken is
\* not forgotten: the receipt of that message is there, and it is with a handler, with a run
\* that its source can be told of, or with its reply.
THEOREM AnswersAreDue == Spec => []AnswerIsDue
<1>1. Init => Owed
  BY DEF Init, Owed, OwedTo, Absent
<1>2. Out /\ (mishaps = 0 => Owed) => AnswerIsDue
  <2>. SUFFICES ASSUME Out, mishaps = 0, Owed, NEW q \in Requests
                PROVE  /\ request[q] \in {"accepted", "duplicate"} => Taken(about[q])
                       /\ OwedTo(q)
    BY DEF AnswerIsDue, OwedTo
  <2>1. request[q] = "accepted" => Present(q)
    BY DEF Out, Inv, HandlerHolds, Holding
  <2>. QED
    BY <2>1 DEF Owed, OwedTo, Taken, Present
<1>3. Out /\ (mishaps = 0 => Owed) /\ [Next]_vars => (mishaps = 0 => Owed)'
  BY OwedNext
<1>. QED
  BY <1>1, <1>2, <1>3, OutInit, OutNext, PTL DEF Spec
=============================================================================
