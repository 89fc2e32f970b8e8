------------------------------ MODULE Composer ------------------------------
(***************************************************************************)
(* One conversation in one tab: the composer that sends a message or parks *)
(* it (app/src/components/channels/composer/composer.tsx and queue.ts),    *)
(* the view that keeps what is parked and drains it when the turn is over  *)
(* (conversation-view.tsx), and the channel that runs turns, those of a    *)
(* button and of the first message among them (channel-chat.tsx).          *)
(*                                                                         *)
(* A step is what the page does between two awaits.  What a handler reads  *)
(* of the state of a component is what the last render showed; a ref is    *)
(* read as it is.  An event of the person is rendered before anything else *)
(* happens, what a promise or an effect sets is rendered some time later.  *)
(* Messages are numbered as they are sent, parked or not.                  *)
(*                                                                         *)
(* The last variable records history and guards no step of the code.       *)
(* Operators marked "Slip" are plausible mistakes in the operator that     *)
(* follows them; no action uses them, the runs show that each is noticed.  *)
(***************************************************************************)
EXTENDS Naturals, Sequences, FiniteSets, SequencesExt

CONSTANTS
  MaxSends,     \* bound on messages
  MaxButtons,   \* bound on turns begun by a button
  MaxFailures   \* bound on runs that fail

ASSUME BoundsAssumption == MaxSends \in Nat /\ MaxButtons \in Nat /\ MaxFailures \in Nat

VARIABLES
  box,          \* whether words are in the composer
  sends,        \* how many messages were sent
  queue,        \* the messages that are parked
  sending,      \* whether the composer waits for its own send
  running,      \* whether a turn of this view is under way
  turns,        \* the turns, in the order they began
  wire,         \* agent.isRunning
  active,       \* whether the coworker of the channel still exists
  first,        \* the first message of a new channel, until it is said
  shown,        \* what the last render showed
  owed,         \* whether that render has an effect to run
  due,          \* whether an event of the person is to be rendered
  said,         \* the messages in the history of the agent
  taken,        \* the messages that were taken back
  buttons, failures,  \* what is left of the bounds
  unseen        \* turns that began while another was under way that the view was not shown

vars == <<box, sends, queue, sending, running, turns, wire, active, first,
          shown, owed, due, said, taken, buttons, failures, unseen>>

----------------------------------------------------------------------------
Ids == 1..MaxSends
Turn == [by : {"composer", "drain", "button", "first"},
         step : {"preparing", "running", "over"}, words : Seq(Ids)]

Open == {t \in DOMAIN turns : turns[t].step # "over"}
OnWire == {t \in Open : turns[t].step = "running"}

Pending == wire \/ Open # {}
InFlight == Pending \/ running

Screen == [inFlight |-> InFlight, sending |-> sending, disabled |-> ~active]

\* A channel that was just created has its first message stashed; a run may be going on in
\* the thread that is joined.
Init ==
  /\ first \in {0, 1} /\ first <= MaxSends /\ sends = first
  /\ wire \in BOOLEAN
  /\ box = FALSE /\ queue = <<>> /\ sending = FALSE /\ running = FALSE
  /\ turns = <<>> /\ active = TRUE
  /\ shown = Screen /\ owed = FALSE /\ due = FALSE
  /\ said = <<>> /\ taken = {}
  /\ buttons = MaxButtons /\ failures = MaxFailures
  /\ unseen = {}

----------------------------------------------------------------------------
(* reduceQueue. *)

\* Slip: what is sent at once does not take along what waits.
TogetherAlone(q, m) == <<m>>
Together(q, m) == Append(q, m)

Drained(q) == <<>>

----------------------------------------------------------------------------
(* The person. *)

Write ==
  /\ ~due /\ ~box /\ sends < MaxSends
  /\ box' = TRUE /\ due' = TRUE
  /\ UNCHANGED <<sends, queue, sending, running, turns, wire, active, first, shown, owed,
                 said, taken, buttons, failures, unseen>>

\* Slip: only the composer's own send holds a message back.
BusySending == shown.sending
Busy == shown.inFlight \/ shown.sending

\* say: a turn is counted from here on, whoever asks for it.
Begin(by, step, words) ==
  turns' = Append(turns, [by |-> by, step |-> step, words |-> words])

\* Something is under way, or the first message waits, and the view shows nothing of it.
Unseen == IF ~shown.inFlight /\ (InFlight \/ first # 0) THEN {Len(turns) + 1} ELSE {}

\* submitDraft parks what is sent during a turn.
Park ==
  /\ ~due /\ box /\ ~shown.disabled /\ sends < MaxSends
  /\ Busy
  /\ box' = FALSE /\ due' = TRUE
  /\ sends' = sends + 1 /\ queue' = Append(queue, sends + 1)
  /\ UNCHANGED <<sending, running, turns, wire, active, first, shown, owed,
                 said, taken, buttons, failures, unseen>>

\* What is sent otherwise goes at once, and takes along what still waits.
Send ==
  /\ ~due /\ box /\ ~shown.disabled /\ sends < MaxSends
  /\ ~Busy /\ ~sending
  /\ box' = FALSE /\ due' = TRUE
  /\ sends' = sends + 1 /\ queue' = Drained(queue)
  /\ sending' = TRUE /\ running' = TRUE
  /\ Begin("composer", "preparing", Together(queue, sends + 1))
  /\ unseen' = unseen \cup Unseen
  /\ UNCHANGED <<wire, active, first, shown, owed, said, taken, buttons, failures>>

\* A parked message is taken back: the one entry of the queue with that number.
TakeBack(m) ==
  /\ ~due /\ \E i \in DOMAIN queue : queue[i] = m /\ queue' = RemoveAt(queue, i)
  /\ taken' = taken \cup {m} /\ due' = TRUE
  /\ UNCHANGED <<box, sends, sending, running, turns, wire, active, first, shown, owed,
                 said, buttons, failures, unseen>>

Press == ~due /\ buttons > 0 /\ buttons' = buttons - 1 /\ due' = TRUE

\* askFromComponent: a button in the transcript speaks.  Its words are not the person's.
Ask ==
  /\ Press
  /\ Begin("button", "preparing", <<>>)
  /\ UNCHANGED <<box, sends, queue, sending, running, wire, active, first, shown, owed,
                 said, taken, failures, unseen>>

\* retryLatest: the latest exchange again, without waiting for anything.  The thread may
\* hold messages from before this page.
Retry ==
  /\ Press
  /\ Begin("button", "running", <<>>)
  /\ wire' = TRUE
  /\ UNCHANGED <<box, sends, queue, sending, running, active, first, shown, owed,
                 said, taken, failures, unseen>>

----------------------------------------------------------------------------
(* The page. *)

\* Slip: the effect watches the send of the composer.
NoticedBySend == Screen.sending # shown.sending \/ Screen.disabled # shown.disabled
\* The effect of the view watches the turn, whoever began it, and whether it may speak.
Noticed == Screen.inFlight # shown.inFlight \/ Screen.disabled # shown.disabled

\* A render.
Commit ==
  /\ ~owed /\ (due \/ shown # Screen)
  /\ shown' = Screen /\ due' = FALSE
  /\ owed' = Noticed
  /\ UNCHANGED <<box, sends, queue, sending, running, turns, wire, active, first,
                 said, taken, buttons, failures, unseen>>

\* Slip: the effect does not ask whether a turn is under way.
DrainableAlways == ~shown.disabled /\ queue # <<>>
Drainable == ~shown.disabled /\ ~shown.inFlight /\ queue # <<>>

\* The effect: everything that waits goes as one turn.
Drain ==
  /\ owed /\ Drainable
  /\ owed' = FALSE
  /\ queue' = Drained(queue) /\ running' = TRUE
  /\ Begin("drain", "preparing", queue)
  /\ unseen' = unseen \cup Unseen
  /\ UNCHANGED <<box, sends, sending, wire, active, first, shown, due,
                 said, taken, buttons, failures>>

DrainNothing ==
  /\ owed /\ ~Drainable
  /\ owed' = FALSE
  /\ UNCHANGED <<box, sends, queue, sending, running, turns, wire, active, first, shown, due,
                 said, taken, buttons, failures, unseen>>

\* The first message is said when the thread is joined, or when joining takes too long.
SayFirst ==
  /\ ~due /\ first # 0
  /\ first' = 0
  /\ Begin("first", "preparing", <<first>>)
  /\ UNCHANGED <<box, sends, queue, sending, running, wire, active, shown, owed, due,
                 said, taken, buttons, failures, unseen>>

\* deliver: the runtime is ready, or it took too long; the words are added and the run begins.
Deliver(t) ==
  /\ ~due /\ turns[t].step = "preparing"
  /\ turns' = [turns EXCEPT ![t].step = "running"]
  /\ said' = said \o turns[t].words
  /\ wire' = TRUE
  /\ UNCHANGED <<box, sends, queue, sending, running, active, first, shown, owed, due,
                 taken, buttons, failures, unseen>>

\* The run is over, stopped or not, and with it the turn and what waited for it: the view
\* and the composer hear of it in the same tick.
Over(t, restored) ==
  /\ ~due /\ turns[t].step = "running"
  /\ turns' = [turns EXCEPT ![t].step = "over"]
  /\ wire' = (wire /\ OnWire # {t})
  /\ running' = (running /\ turns[t].by \notin {"composer", "drain"})
  /\ sending' = (sending /\ turns[t].by # "composer")
  /\ box' = (box \/ restored)
  /\ UNCHANGED <<sends, queue, active, first, shown, owed, due, said, taken, buttons, unseen>>

RunEnds(t) == Over(t, FALSE) /\ UNCHANGED failures

\* A send that fails puts its words back into the composer, over what is there.
RunFails(t) ==
  /\ failures > 0 /\ failures' = failures - 1
  /\ Over(t, turns[t].by = "composer")

\* A turn that uses tools of the browser is several runs with gaps between them.
Gap ==
  /\ ~due /\ OnWire # {}
  /\ wire' = ~wire
  /\ UNCHANGED <<box, sends, queue, sending, running, turns, active, first, shown, owed, due,
                 said, taken, buttons, failures, unseen>>

\* The run that was joined is over.
JoinedEnds ==
  /\ ~due /\ wire /\ OnWire = {}
  /\ wire' = FALSE
  /\ UNCHANGED <<box, sends, queue, sending, running, turns, active, first, shown, owed, due,
                 said, taken, buttons, failures, unseen>>

\* The coworker is deleted.
Delete ==
  /\ ~due /\ active
  /\ active' = FALSE
  /\ UNCHANGED <<box, sends, queue, sending, running, turns, wire, first, shown, owed, due,
                 said, taken, buttons, failures, unseen>>

----------------------------------------------------------------------------
Render == Commit \/ Drain \/ DrainNothing

Next ==
  \/ Write \/ Park \/ Send \/ Ask \/ Retry \/ \E m \in Ids : TakeBack(m)
  \/ Render \/ SayFirst \/ Gap \/ JoinedEnds \/ Delete
  \/ \E t \in DOMAIN turns : Deliver(t) \/ RunEnds(t) \/ RunFails(t)

Spec == Init /\ [][Next]_vars

\* The page renders and runs its effects, promises settle, and a run ends: a Bot that falls
\* silent is ended by the stall guard.  The person need not do anything.
Fairness ==
  /\ WF_vars(Render) /\ WF_vars(SayFirst) /\ WF_vars(JoinedEnds)
  /\ WF_vars(\E t \in DOMAIN turns : Deliver(t) \/ RunEnds(t))

FairSpec == Spec /\ Fairness

----------------------------------------------------------------------------
(* What the conversation should keep to. *)

\* The variables keep their shape, and no more turns begin than there is something to say.
TypeOK ==
  /\ box \in BOOLEAN /\ sending \in BOOLEAN /\ running \in BOOLEAN /\ wire \in BOOLEAN
  /\ active \in BOOLEAN /\ owed \in BOOLEAN /\ due \in BOOLEAN
  /\ sends \in 0..MaxSends /\ first \in {0, 1}
  /\ queue \in Seq(Ids) /\ said \in Seq(Ids) /\ taken \subseteq Ids
  /\ turns \in Seq(Turn) /\ Len(turns) <= MaxSends + MaxButtons
  /\ shown \in [inFlight : BOOLEAN, sending : BOOLEAN, disabled : BOOLEAN]
  /\ buttons \in 0..MaxButtons /\ failures \in 0..MaxFailures
  /\ unseen \subseteq DOMAIN turns

Times(m, q) == Cardinality({i \in DOMAIN q : q[i] = m})
InHand(m) == {t \in Open : turns[t].step = "preparing" /\ m \in Range(turns[t].words)}
Said(m) == IF m = first \/ m \in taken THEN 1 ELSE 0

\* None is lost and none said twice, whatever ends while messages are parked, joined, taken
\* back or drained: each waits in one place, or was said once, or was taken back (reduceQueue,
\* and the ref through which every change of the queue goes).
SaidOnce ==
  \A m \in 1..sends : Times(m, queue) + Times(m, said) + Cardinality(InHand(m)) + Said(m) = 1

\* A correction waits: a turn of the composer or the drain begins when no other is under
\* way, and what was typed is said in that order, except by a turn that began while the view
\* did not show the other, or while the first message waited unshown.
InTurn ==
  /\ \A t, u \in Open : t < u /\ turns[u].by \in {"composer", "drain"} => u \in unseen
  /\ unseen = {} => \A i, j \in DOMAIN said : i < j => said[i] < said[j]

\* What is parked leaves the queue, however the turn ends that it waits for, unless the
\* coworker is deleted: the end of every turn that can be waited for is noticed.
ParkedGoesOn == \A m \in Ids : m \in Range(queue) ~> m \notin Range(queue) \/ ~active

\* What of it holds at every moment, and the comment of the effect rests on ("a queue that
\* grew here without a turn to wait for would be a queue that never drains"): while a
\* message is parked the effect is about to run, or the view was shown a turn; and that
\* turn is still under way, or its end is yet to be shown.
ParkedIsWatched ==
  queue # <<>> /\ active =>
    owed \/ (shown.inFlight /\ (Screen.inFlight => wire \/ Open # {}))

\* The composer waits for its own send exactly while one turn of it is open, and a view
\* that says it works has a turn of its own: neither is left waiting for a turn that is
\* over (the finally of the send, and of start in conversation-view.tsx).
WaitsForItsTurn ==
  /\ \A t, u \in Open : turns[t].by = "composer" /\ turns[u].by = "composer" => t = u
  /\ sending <=> \E t \in Open : turns[t].by = "composer"
  /\ running => \E t \in Open : turns[t].by \in {"composer", "drain"}
=============================================================================
