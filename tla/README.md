# OpenBot, specified and verified

TLA+ models of the parts of OpenBot that keep durable state and are written to by
several actors at once, the TLC runs that check them on small instances, and TLAPS
proofs of what matters most for every value of the constants. Paths below are relative
to the repository.

1. [The system](#1-the-system)
2. [What is modelled, and how it corresponds to the code](#2-what-is-modelled-and-how-it-corresponds-to-the-code)
3. [The runs](#3-the-runs)
4. [Fairness](#4-fairness)
5. [What is proved](#5-what-is-proved)
6. [What the models show of the code](#6-what-the-models-show-of-the-code)
7. [What is not modelled](#7-what-is-not-modelled)
8. [Plan](#8-plan)

To reproduce: `tlc -config X.cfg M` for each row of the table of runs, `tlapm M.tla` for
each module whose name ends in `Proofs`.

## 1. The system

OpenBot is a server (Bun, Hono, PostgreSQL) around conversations with agents, and three
satellites: a *supervisor* that runs one container per Bot, the program *inside* that
container (`agent-computer`), and a *connector worker* that synchronises documents. Work
that outlives a conversation is a *task run*: a row of `task_runs` which a background
executor claims, executes and settles. Almost everything below either creates a run,
moves one, or waits for one.

| Component | State it keeps | Operations | Talks to |
|---|---|---|---|
| Task run store, `server/src/runs/store.ts` | rows `task_runs`: status, attempt, ceiling, lease (owner, expiry), retry time | create, transition, claimAutomated, heartbeatAutomated, settleAutomated, recoverExpiredAutomated | everything that creates or moves work |
| Automated executor, `runs/executor.ts` | per process: map of active runs with their abort handles, timers | tick (recover, claim, launch), heartbeat, runtime budget, stop | the store; hooks `onStarted`, `onSucceeded`, `onFailed` of `server/src/index.ts` |
| Approvals, `approvals/store.ts`, with its caller in `plugins/tools.ts` | rows `approval_requests`: status, expiry, consumed | authorize, poll, decide, expire | moves the run that waits |
| External channels, `autonomy/channels.ts` | `external_messages`: receipts (inbound) and the outbox of replies (outbound) | receive, complete, fail; claim, deliver, settle a reply | creates runs; told by the hooks; an external provider |
| Delegations, `work/delegations.ts` | rows `delegations`: status, parent, depth, stop mark | create, transition, stop a tree, attempt hooks | own one run each |
| Routines, `work/routines.ts`, `work/scheduler.ts` | rows `routines`: status, trigger, next time; `routine_dispatches`: one per routine and time | change, claim what is due, dispatch, run now | create runs |
| Computer lease, `server/src/computer/lease.ts` | cached address and pending request per Bot | locate, stop, reset | the supervisor over HTTP |
| Supervisor, `supervisor/src/` | nothing of its own but a promise chain; the state is Docker's | ensure (under the capacity lock), stop, reset | Docker |
| Computer browser and control, `agent-computer/src/` (`profiles.ts`, `control.ts`, `index.ts`) | the browsers that run and that are being launched, who holds the wheel, the secret asked for | launch, stop, reset; take, release; act, type a secret | the server, the person's screen |
| Turn watchdog and stall guard, `server/src/channels/` | a map of watched streams, a clock for each, one timer | watch, pump, sweep, stop | the stream of the Bot, whoever reads it |
| Connector worker, `worker/src/`, with `server/src/connectors.ts` | row `connector_instances` with its lease, `sync_runs`, `connector_cursors`, documents | configure; claim, heartbeat, sync in batches, finish | the server's database, Google Drive |
| Conversation page, `app/src/components/channels/` (`channel-chat.tsx`, `conversation-view.tsx`, `composer/`) | messages parked during a turn, turns under way, what the last render showed | send, park, take back, drain; buttons, the first message | the runtime of the agents |

The remaining components (profiles, knowledge, credentials, gallery, configuration and so
on) are listed in `PROJECT.json` with the reason why they are left out.

### What is hard in it

* **Statements, not transactions.** Only the store of runs locks rows. `authorize`,
  the creation and transition of a handoff, the receipt of a message and the hooks that
  end a run are series of statements; another request, or a crash, fits between any two.
* **Leases.** Runs, replies and sync jobs are leased to a process for a while. A
  process that is slow, not dead, is overtaken and comes back to write.
* **Two rows that should agree.** A handoff and its run, a receipt and its run, a
  request for approval and its run, a cached address and a container.
* **Retries and ceilings**, counted in one statement and compared in another.
* **Stale views.** A handler of the page reads what the last render showed; a caller keeps
  the page of a browser that was closed; a pump waits on a stream that was given up.
* **Overlap.** Stops and resets do not take the lock that ensures take; requests for
  one computer share a pending promise; an attempt may outlive its lease beside its
  successor, in the same process and under the same key.

### What makes each component correct

* Runs: one owner at a time; an attempt number is executed in one place; no more
  attempts than the ceiling; the source hears of the end once, and what the row says;
  every automated run ends.
* Approvals: a call goes through only on its own approval; an approval lets one call
  through; answers are final; nobody waits for ever.
* External channels: one run per message; replies reach the conversation and repeat
  only when something went wrong; a status says what happened.
* Computers: no more than the allowed number runs; after a stop nobody is sent to the old
  address; after a reset nobody gets the old profile; the lock is always given back.
* Delegations: depth and breadth limits; a stop ends the whole tree; ends are final; a
  handoff and its run end together.
* Routines: an occurrence is worked once and none is lost; what is on stays due.
* Connectors: no change of the source that could be read is passed over; an open sync has the
  lease; none is stranded.
* Browser: one browser of a profile; what is done on the page was admitted under the wheel of
  the moment; a secret lands in the field it was asked for, or nowhere.
* Streams: ended once, by the pump or the stall, for the silence of the Bot alone; silence is
  ended.
* Page: no message lost or said twice; a correction waits for the turn and is then said.

The hazards behind these, at the line where each bites, are in `PROJECT.json`.

## 2. What is modelled, and how it corresponds to the code

| Module | Models | Extends or composes |
|---|---|---|
| `RunStatus` | the statuses of a run and the table of allowed transitions | |
| `RunLifecycle` | the promise: what may happen to the status and attempt of a run | `RunStatus` |
| `TaskRuns` | store and executors | `RunStatus`; implements `RunLifecycle` |
| `Approvals` | the approval service and the calls that wait | `RunStatus` |
| `ApprovedRuns` | executor and approvals together | extends `TaskRuns`, instantiates `Approvals` |
| `ExternalMessages` | receipt, run, reply of a message | |
| `Computers` | lease, supervisor and containers | |
| `Delegations` | handoffs, their runs, stops | `RunStatus` |
| `Routines` | routines, schedulers, dispatches | |
| `ConnectorSyncs` | a connector, its workers and its source | |
| `StallGuard` | the streams of the Bots and their watch | |
| `Browser` | the browser of a Bot, its wheel and its secrets | |
| `Composer` | a conversation in one tab | |
| `MC*` | instances for TLC | the module they are named after |
| `*Proofs` | theorems and proofs | the module they are named after, `TLAPS`; `TaskRunsProofs` also `ApprovedRuns`, with `ApprovalsProofs` instantiated; `ComputersProofs` also instantiates `Browser`, and `StallGuardProofs` `Composer` |

Common conventions. Variables are the columns and the in-memory state that decides something; an
action is one database statement or transaction, one call to an outside party, or one piece of a
handler between two awaits. Time is what is left of a lease, a delay or a lifetime, counted in
ticks. Variables such as `told`, `overtaken`, `crowded`, `mishap`, `seen`, `lost`, `raced`,
`faults` and those that a module's header names record history: they are not in the code and no
guard of a program step reads them, except that a fault needs `faults` (or `mishaps`) below its
bound. Operators marked *Slip* are plausible mistakes in the operator that follows; no action
uses them. Put in its place, each makes a property fail, which is how the properties are known
to say something about the code.

**TaskRuns.** `run[r]` is the row (with `source`, the kind of automated source that owns it, and
`moved`, the statuses that `transition` wrote and the attempts it wrote them under), `exec` the
attempts in memory with their phase, `active[w]` the executor's map from run to attempt,
`mode[w]` and `tick[w]` the process and where its tick is, `lost[w]` the runs a recovery gave up
and has not reported, `told[r]` what the hooks reported. `Create` and `Link` are `create` and
the insertion by the source; `Transition` is `transition`; `Recover` (which takes `RecoverBatch`
lapsed runs, 20 in the code), `TellLost`, `Claim`, `EndTick`, `ClaimFails` (before the claim
commits, or after, when only its answer is lost) are one tick; `Launch`, `Started`, `Executed`,
`SettleSuccess`, `SettleFailure`, `SettleFails`, `Tell` the course of an attempt; `Heartbeat`
and `BudgetSpent` its timers; `Stop` and `Crash` end a process. What an agent does while it
executes is its outcome, success or failure. `Patches` are the statuses that a member's `PATCH
/runs/:id` may write. The column `moved` is history, and names the exceptions the route makes to
what the executor alone would keep.

**Approvals.** `req` is the table in the order of creation, `call[c]` the locals of a
caller with the statement it is at, `owed` the requests whose answer is stored and whose
run is not moved yet. `Begin`/`Consume`/`Select`/`Insert`/`Suspend` are the statements
of `authorize`, `PollApproved`/`PollRefused`/`Abort` the polling loop, `Resume`/`Act` the
second pass, `Decide`/`Expire` followed by `GiveBack` the answers. A call compares
lifetimes with one reading of the clock, taken as it begins: `stale` says the clock has
overtaken it. `Elsewhere` is everybody else who moves the run.

**ApprovedRuns.** A call belongs to an attempt. Every step is one of the two modules
with the other's variables unchanged, except that a moved status is carried over to the
row as `transitionOn` does it, and the clock is common. `CallTool` and `EndAttempt` tie
the call to the attempt; `AbortCall` lets it outlive one. History: `late`, the runs that a call
suspended after its request had been answered.

**ExternalMessages.** Requests are named; a request inserts at most one receipt and creates at
most one run and one reply, which therefore carry its name. `InsertReceipt`, `CreateRun`,
`LinkRun`, `Answer`, `HandlerFails`, `Undo`, `HandlerDies` are the inbound handler; `Start`,
`EndRun`, `Complete`, `InsertReply`, `FailInbound`, `HookFails` the run and the hooks; `MoveRun`
what others than the executor do to that run (a member's PATCH, an approval), with "aside" for a
run no attempt is at and "closed" for one they ended, of which no hook tells; `ExecutorDies`
leaves it running with nobody; `ClaimDelivery`, `Deliver`, `SettleDelivery`, `SettleFails`,
`WorkerDies`, `LeaseExpires`, `DelayEnds` the outbox; `PauseOrResume` the switch of the
connection.

**Computers.** Addresses are numbered by start. `Locate`, `Tell`, `Answered`, `Failed`,
`TimesOut`, `LeaseExpires`, `Invalidate` are the server's lease; `Admit`, `Inspect`,
`CreateVolume`, `Create`, `StartGone`, `Start`, `Settle`, `DockerFails`,
`SupervisorRestarts` an ensure, one Docker call each, with `lock` the chain of promises;
`Stop`, `RemoveContainer`, `RemoveVolume`, `OrderFails` the orders, whose inspection is one
step with the call that follows. Of the two volumes of a computer the profile is modelled;
the workspace outlives every reset. Modelled as deployed with published ports and a
limit `COMPUTER_MAX_RUNNING`.

**Delegations.** `creating[h]` is the request that creates `h`, `change[t]` a transition
requested by a member or by a hook of the executor, with the status it has read, `exec[h]`
the attempt of its run, `stop[s]` the walk. `MoveRun` is a member's PATCH of the run itself,
which no hook and so no handoff hears of. A handoff's attempt is one at a time; what
the store does with several is `TaskRuns`. History: `crowded`, `overtaken`, `mishap`, and
`dragged`, the handoffs whose run a change moved after another one had ended them, `moved`,
the statuses that were written into the run itself.

**Routines.** `routine` and `dispatch` are the two tables, the second by its unique pair
of routine and time; `made` counts the runs created for a pair, which name them. `work[d]`
is what a scheduler or a request is doing: `BeginTick`, `Claim` (the transaction of
`dispatchDue`), `EndTick`; `RunNow`, `Webhook`, `EndRequest`; and one after the other
`Reserve` or `Reserved`, `CreateRun`, `LinkRun`, `Announce`, with `DispatchFails` and
`Undo` for the catch and `Breaks` for what nothing catches. `edit[p]` is a member's change
between its `Read` and its `Write`. Time is in minutes and the schedule is "every
minute". `SKIP LOCKED` needs no step of its own between claims, since a row that another
claim holds is moved on when that claim commits. `Execute` stands for the executor.

**ConnectorSyncs.** The source is a log of changes, the cursor a position in it, and the content
of a document the position of the change that made it. A worker is one life of a process, since
its name is drawn at start. `Poll`, `Claim` (with the recovery of a lapsed lease and of its open
`sync_runs`), `ClaimUnheard`, `ClaimNothing`, `ClaimFails` are one tick; `Begin`, `ReadCursor`,
`Discover`, `Persist`, `Finish`, `FinishFailed`, `Over` one execution, each statement a step of
its own. `Discover` reads one page: of the changes it lists a part may be left out of the batch
while the token moves on, because the download failed or was too large, the text was empty or
the document is outside the roots. `Deletions` are the changes that remove a document, for which
nothing is read. `Heartbeat` and `Abort` its timer and signal; `Stop`, `Gone`, `Exit`, `Crash`
the end of a process. `Configure` is the administrator, `Change` and `FallsDue` the world.
History: `holder`, `detached`, `robbed` (which execution a lease was for and how it lost it),
`overtaken`, `undercut`, `skipped` (changes a written batch had listed and left out).

**StallGuard.** `streams` is the map of the guard, `watched` that of the watchdog, `sweeper`
the one timer; `pump`, `upstream`, `relay` and `reader` are the two ends of each stream.
`Open`, `PassOn`, `Chunk`, `ChunkRefused`, `Taken`, `BotEnds`, `Cancelled` are the pump,
`Sweep` a firing of the timer with all it finds silent, `Record` the audit that follows.
History: `waited`, `endings`.

**Browser.** Browsers are numbered by launch; `live` and `starting` are the two maps of
`profiles.ts`, `control` the state of `control.ts`, and `call[c]` a request with what it waits
for. `BotActs`, `HumanActs`, `SupplySecret` are admitted and then wait for the page (`Page`,
joining a launch or beginning one), and only then `Act` or `Type`. A secret is typed at the
element its request named as the page shows it then: `refs[k]` are the requests whose field is
on the document browser `k` shows, `Field` resolves a request against it, and lands `Elsewhere`
on a later document that uses the number again. `Turn` is a document that is left; `Launched`,
`LaunchFails`, `Break`, `Exited` are the browser, where a half-dead one that `Page` closes may
still be exiting while the next is launched; `Take`, `Release`, `RequestSecret` the wheel;
`Stop`, `Closed`, `Deleted` the two orders; `asked` numbers the requests. History: `sent`,
`typed`, `moved`, `astray`.

**Composer.** Messages are numbered as they are sent. `box`, `queue`, `sending`, `running`
and `turns` are the state of the three components, the queue being a ref that is read as it
is; `shown` is what the last render showed, `due` and `owed` a render and an effect that are
outstanding. An event of the person (`Write`, `Park`, `Send`, `TakeBack`, `Ask`, `Retry`) is
rendered before anything else happens; what a promise or an effect sets is rendered by a
later `Commit`, and `Drain` follows with what that render showed. `SayFirst`, `Deliver`,
`RunEnds`, `RunFails` are the course of a turn, with the microtasks at its end in one step;
`Gap` is the pause between two runs of one turn. History: `unseen`, the turns begun while
another was under way that the last render did not show.

**Abstract specification.** `RunLifecycle` says what a run may do whoever moves it: it is
created queued, starts only from the queue with the next attempt number, moves along the
table, and a crowd of lost runs goes back to the queue or fails at once. `TaskRuns`
implements it with `status` and `attempt` mapped to the columns; so do the runs of
`Delegations`, and `TaskRuns` with the approval service beside it.

## 3. The runs

All runs set `CHECK_DEADLOCK FALSE`: these systems may come to rest, when every run,
request and order is done and nobody asks for anything.

| Run | Instance | Question |
|---|---|---|
| `task_runs` | 1 run of a handoff or of an external message, 2 processes with 2 slots, attempts asked 0 and 2, up to 2 claims, lease and delay of one tick, 1 failed call, one process may die or stop; members may write `queued` and `failed` | are attempt numbers, ceiling and hooks coherent, is `RunLifecycle` implemented, does a run of a routine or delegation end and its source hear of it? |
| `approvals` | 2 calls, inside and outside a run, up to 4 requests, lifetimes of one tick | is a call let through on its own approval alone, once, and does it end? |
| `approved_runs` | 1 run of up to 2 attempts, 1 process, up to 2 requests | do executor and approvals leave each other's runs alone? |
| `run_approved_stranded` (violation) | the same with up to 4 requests | a call "waits on its validated durable task and retries once" |
| `external_messages` | 2 requests, for one message, whose run may be moved by hand, 2 delivery workers, 2 delivery attempts, 2 mishaps | deduplication, replies, statuses, ends |
| `computers` | 2 callers and 2 orders on one computer, or on two that want one slot; 2 attempts; 1 failure | capacity, stale addresses and profiles, the lock |
| `delegations` | 8 scenes of up to 3 handoffs, 1 or 2 members who change handoffs or their runs, a stop, an executor and a fault; depth 2, 2 children, 1 at a time, 2 attempts | limits, stops, ends, agreement of handoff and run |
| `routines` | 6 scenes of up to 2 routines, 2 schedulers, a request, 2 changes and a fault; batches of 1 or 2, clock up to minute 2 | is an occurrence worked once, is what is due worked? |
| `connector_syncs` | 4 scenes of up to 2 lives of a worker, 2 documents, 3 changes with 2 deletions, 3 claims, a configuration, a shutdown and a fault, which is also what a document that cannot be read costs | is every change of the source written before the cursor passes it, is a connector ever stranded? |
| `stall_guard` | 2 streams, one of protocol buffers, a limit of 2 ticks | do pump and stall end a stream once, and only and always for silence? |
| `browser` | 3 calls at once, 3 launches, 2 requests for a secret, documents that are left, the wheel taken twice, 2 faults | is a browser lost sight of, does an action or a secret land where it was not meant to? |
| `composer` | 3 messages, a button, a failing run, with or without a first message and a run that was joined | is a message lost, doubled, said in the middle of a turn, or parked for ever? |

**Why the bounds are enough.** Every guard of the store looks at one row and one lease, so two
processes and one run show every interference of a claim, a recovery and a settlement; a second
run would only compete for slots, and it is two attempts of one run in one process that the
second slot is for. A run that asks for no attempts gets a ceiling of one, so two claims take it
past that once a member has queued it again; a ceiling of two lets one attempt be retried. A
routine is told and recovered as a handoff is, and an external message is the source that is not
recovered. Of the statuses a member may write, "queued" is the one that adds an attempt and
"failed" an end nobody reports. One tick separates "not yet" from "expired"; longer leases add
only repetitions of the first. Two calls suffice for an approval taken by the wrong one, and
four requests for both to have asked again after a first lapsed. A third request for a message
meets the same row as the second; two mishaps allow a failure that is hidden by another. Two
orders are the least that overlap each other and an ensure, and one slot for two Bots is the
least that is fought over. In `Delegations` a scene (`Scenes`) chooses which requests, which
executed runs and how many faults happen together, because all of them at once are beyond what
TLC can enumerate with liveness; the scenes pair every two kinds of actor with each other, two
members on one handoff, and a third generation only where depth matters. `Routines` is cut into
scenes in the same way: two routines are the least batch that can be broken in the middle, two
processes the least that claim at once, two minutes the least in which a routine is due again.
`ConnectorSyncs` too: the scenes are the two executions of one process, a crash, a shutdown, and
a writer that is overtaken twice, which takes three claims. Two streams are the least that share
a timer, and two ticks tell "silent for less" from "silent for long enough". In `Browser` three
calls let one launch while two join or order a stop, and two requests let one be replaced after
its value was sent, with a third number for a field nobody named. In `Composer` three messages
are the least of which two are parked and joined while the third is sent. `SYMMETRY` is used in
`browser` alone, over the calls, where no liveness is checked.

**What the properties say.** Each is stated in a comment above its definition.
Some name the exception under which the code does not keep the stronger statement:
`RepeatedByMishapOnly`, `StaleOnlyWhenOvertaken`, `BuiltClean`, `LimitsHeld`,
`TreeStopped`, `EndUndoneByRaceOnly`, `RunsEnd`, `WorkedOnce`,
`OnIsScheduled`, `DueIsWorked`, `NotStranded`, `OneKnown` and `WheelRespected`
hold up to an overlap or a fault that their history variable records, and show
that nothing else breaks the rule. So do:

* `AttemptsBounded`: an attempt beyond the ceiling follows a PATCH of the one before to `queued`;
* `RecoverableFinishes`: of routines and handoffs, but for a run that somebody moved by hand
  (a run that waits, or that was moved out of the queue without a lease, may stay there);
* `SourceHears`: but for an end that a member wrote, a dead process and a failed call;
* `HandoffHears`: but for an end that a member wrote, a fault, and writes of transitions that
  were out of date; `RunsEnd` also for statuses a member wrote that let the run go on or wait;
* `MessageAnswered`: but for a mishap, and a run that somebody else than the executor set aside
  or ended;
* `ChangesKept`: but for the changes a page listed and did not read, and for a batch that begins
  beyond the cursor after a writer had lost its lease;
* `SecretInItsField`: but for a document that shows the field no more, and a browser
  the process lost hold of;
* `InTurn`: but for a turn that began while the view had not been shown the one under way. That
  a turn which was shown is waited for rests on the guards of sending and draining: without
  either of them TLC finds the property violated.

**What no run lists.** The type invariants of the ten components, `LeaseCoherent`,
`OneUse`, `WatchAgrees`, `SettledStays`, `ReservedByOne` and `FollowsLifecycle` of
`Delegations` are proved (section 5), which says more than a run would. So are the statements of
what holds at every moment of a liveness property: that whoever has to act next is there.
`HolderAtWork`, `TellerLeft` and `UnleasedByMove` (runs), `WaitsForARequest` (runs and
approvals), `ReportIsDue` and `EndIsPassedOn` (handoffs), `ChainIsServed` (the capacity lock),
`WaitsForOneThing` and `AnswerIsDue` (messages), `ClaimedIsInHand` (routines), `BusyIsAtWork`
(connectors), `WaitsForItsTurn` and `ParkedIsWatched` (the page). TLC finds no counterexample to
any of them when it is added to the configuration of its module (`MCApprovedRunsSafety.cfg` for
`WaitsForARequest`).

Statements the code does not keep stand beside the properties, under the sentence of the
repository they come from: `StaleNeverSettles`, `AutomatedFinishes`, `AcceptedGoesOn`,
`DeletedWhenClosed`; section 6 says how TLC refutes each when it is added to the configuration
of its module. `StaleSettlesOwnOnly` is what is kept of the first, and is proved.

## 4. Fairness

Weak fairness is given to what a live process does by itself: its interval timer, an
answered statement, a promise that settles, a runtime budget that ends an attempt, and
time. Concretely:

* `TaskRuns`, `ApprovedRuns`: ticks, recovery, hooks and the progress of attempts weakly;
  `Claim` strongly, because two processes contend for the same row and `SKIP LOCKED`
  favours neither. None for heartbeats, members, `Stop` and `Crash`: an attempt may lose
  its lease and nobody has to answer. A process that is down has no fairness that matters
  since its actions are disabled.
* `Approvals`: the callers and time. A caller polls until its own patience ends.
* `ExternalMessages`: handlers, executions and workers that have not died, delays, and
  the expiry of a lease only where nobody holds it any more. Resuming a
  paused connection is nobody's duty.
* `Computers`: a Docker call that is made answers or fails; an order goes on. Ensures
  get their turn in the order of the chain.
* `Delegations`: requests under way, the attempt of a run, and the stop. Members need
  not ask for anything.
* `ConnectorSyncs`: the polls and statements of a process that lives, and the lapse of a
  lease that nobody renews. The source need not change and nobody need configure anything.
* `StallGuard`: the timer and the clock. Neither the Bot nor the reader owes anything, which
  is the point: what ends a silent stream is the guard.
* `Composer`: renders and effects, the first message, and the end of a run, since the stall
  guard ends the silent ones. Nothing of the person.
* `Browser` checks safety only and has no fairness.
* `Routines`: the interval timer, and so every tick, a request under way, and the executors
  that claim queued runs. The clock may stand still and members need not do anything.

## 5. What is proved

For every value of the constants (any number of runs, processes, calls, requests,
handoffs, any bounds), from the assumptions named in each module:

| Theorem | Says |
|---|---|
| `TaskRunsProofs!TypeCorrect` | `TypeOK` |
| `TaskRunsProofs!LeasesCoherent` | a lease is held only on a run that is under way |
| `TaskRunsProofs!CeilingHeld` | `AttemptsBounded`: an attempt beyond the ceiling starts only where somebody put the one before back into the queue by hand |
| `TaskRunsProofs!ExecutedOnce` | an attempt number is executed in one place, by the owner of the lease |
| `TaskRunsProofs!ReportedOnceAndTrue` | the source is told at most once and what the row says |
| `TaskRunsProofs!LifecycleFollowed` | `TaskRuns` implements `RunLifecycle` |
| `TaskRunsProofs!LeftUnleasedByMove` | a run comes to be under way without a lease only by a move out of the queue by hand |
| `TaskRunsProofs!LeasesAreWorked` | a lease is held by an attempt in the memory of the process it names, until that dies or a database call fails, but for a run that was made to wait under that attempt |
| `TaskRunsProofs!SourcesHaveTeller` | while the source of an ended run was not told, somebody is about to tell it, but for a dead process, a failed call and an end that a member wrote |
| `TaskRunsProofs!StaleSettleForThemselves` | an attempt that was overtaken settles the row only for a later attempt that its own process works, or worked until it was made to wait |
| `TaskRunsProofs!ApprovedActsOnly` | with executor and approvals together, calls act on their own approval, each approval once |
| `TaskRunsProofs!WaitsForAnswer` | a run that waits for approval goes on by an answer or a lapse alone |
| `TaskRunsProofs!WaitersHaveRequests` | a run that waits for approval has a request that will end its wait, unless it was suspended after its answer |
| `TaskRunsProofs!CompositionKeepsStore` | executor and approvals together implement `TaskRuns`, where `Patches` holds what an approval writes |
| `TaskRunsProofs!CompositionFollowsLifecycle` | they implement `RunLifecycle`; in this composition the approval service is the only other writer of statuses, and members write none |
| `ApprovalsProofs!TypeCorrect` | `TypeOK` |
| `ApprovalsProofs!OnlyApprovedAct`, `ApprovalsUsedOnce` | calls go through on their own approval, each approval once |
| `ApprovalsProofs!AnswersAreFinal` | no answer is undone |
| `ExternalMessagesProofs!TypeCorrect` | `TypeOK` |
| `ExternalMessagesProofs!MessagesDeduplicated` | one request of a message is answered as new |
| `ExternalMessagesProofs!EndsStay` | a reply that was settled is never claimed or written again |
| `ExternalMessagesProofs!StatusTrue` | a reply marked delivered arrived; one marked failed used up its attempts, and arrived only after a mishap |
| `ExternalMessagesProofs!RepeatedOnlyByMishap` | a reply arrives again, or is tried past its ceiling, at most once for each mishap |
| `ExternalMessagesProofs!DeliveriesGoOn` | a reply without an end may be claimed, or waits for its retry date or its lease alone |
| `ExternalMessagesProofs!AnswersAreDue` | until something goes wrong, a message that was taken has a handler at work, a run that goes on or was taken from the executor by hand, or a reply that is queued or about to be |
| `ComputersProofs!TypeCorrect` | `TypeOK` |
| `ComputersProofs!SlotsHeld` | no more computers run than allowed |
| `ComputersProofs!OvertakenOnlyStale` | a stale address is remembered only if the order overtook the request that learned it |
| `ComputersProofs!ResetsBuildClean` | a container is built on a profile that a reset meant to remove only beside another order or after one failed |
| `ComputersProofs!TurnsAreGivenBack` | the chain of the capacity lock holds every ensure that is not over once, and none that is |
| `ComputersProofs!BrowserTypeCorrect` | `Browser!TypeOK` |
| `ComputersProofs!EveryBrowserKnown` | the process knows every browser it runs, but for the race and the failing guard that its history names |
| `ComputersProofs!SecretsInTheirFields` | a value is typed in the field that its own request named, unless the document shows it no more or a browser was lost hold of, and answers no request that is open |
| `ComputersProofs!WheelIsRespected` | what acts was admitted under the wheel of the moment, or the wheel was taken since |
| `DelegationsProofs!TypeCorrect` | `TypeOK`, with attempts within the ceiling unless a member queued the run again by hand |
| `DelegationsProofs!EndsAreFinal` | an end is undone by the stale write of a transition only |
| `DelegationsProofs!StopReachesAll` | an answered stop ended the whole tree, but for stale writes and faults |
| `DelegationsProofs!LimitsKept` | children stay within the limits but for those counted at the same time |
| `DelegationsProofs!ReportsAreComing` | an open handoff whose run ended will be told by its last attempt, and accept it, but for stale writes, faults and an end a member wrote into the run |
| `DelegationsProofs!EndsArePassedOn` | the run of an ended handoff that is running is an attempt's, or about to be ended, but for stale writes, faults, late changes and what members wrote into the run |
| `DelegationsProofs!LifecycleFollowed` | the runs of handoffs implement `RunLifecycle` |
| `RoutinesProofs!TypeCorrect` | `TypeOK` |
| `RoutinesProofs!OccurrencesWorkedOnce` | an occurrence is worked once unless its reservation was withdrawn |
| `RoutinesProofs!ReservationsOwned` | a reservation without a run has one dispatcher, or a fault left it |
| `RoutinesProofs!ClaimsAreKept` | an occurrence that was claimed is in a batch, in a dispatcher's hand or linked to its run, but for faults and withdrawals |
| `RoutinesProofs!OnStaysScheduled` | a routine that is on has a next time unless two changes overlapped |
| `ConnectorSyncsProofs!TypeCorrect` | `TypeOK` |
| `ConnectorSyncsProofs!ChangesAreKept` | no change is passed over, but those a page listed and did not read, until a batch is written that begins beyond the cursor, by a writer that had lost its lease |
| `ConnectorSyncsProofs!OpenRunsAreHeld` | an open sync has the lease, or lost it to a configuration or to its own process |
| `ConnectorSyncsProofs!WorkersLetGo` | a worker that does not poll has an execution of its own at work, and nobody who is gone has one |
| `StallGuardProofs!TypeCorrect` | `TypeOK` |
| `StallGuardProofs!StreamsEndOnce` | of pump and stall one ends each stream, once |
| `StallGuardProofs!WatchesAgree` | guard and watchdog keep the same streams, and the timer is set while there is one |
| `StallGuardProofs!OnlySilenceIsEnded` | a turn is given up only when its Bot was waited for that long |
| `StallGuardProofs!ComposerTypeCorrect` | `Composer!TypeOK` |
| `StallGuardProofs!EachMessageOnce` | a message is in one place, or was said once, or was taken back |
| `StallGuardProofs!CorrectionsWait` | turns of composer and queue begin alone and messages are said in order, but for turns begun while the view did not show the one under way |
| `StallGuardProofs!NoTurnWaitedForInVain` | `Composer!WaitsForItsTurn`: composer and view wait only for a turn of theirs that is open |
| `StallGuardProofs!QueueIsWatched` | `Composer!ParkedIsWatched`: while a message is parked, an effect, a render or a turn is still to come that looks at the queue |

`Bounded`, in the theorems about `Browser`, and `Limits`, in those about `Composer`, are the
assumptions those modules make of their constants (that the bounds are numbers), which an
instance has to be given as a hypothesis.

The inductive invariants, and why the properties need them:

* *Attempts.* `AttemptsBounded` alone is not inductive: `Claim` counts without comparing.
  `RoomToRetry` adds that a queued run has an attempt left, unless its attempt was put back by
  hand, which every other way back into the queue must keep: creation, a retry after a failure,
  a recovery.
* *One execution.* Attempt numbers must not run ahead of the row (`NoneAhead`), so that a
  claim's number is new; then two equal numbers are one attempt. A step carries over
  the attempts it does not touch (`Carried`), which is shown once and used for each action.
* *Reports.* `Reporting` says who may still tell: an attempt whose settlement succeeded
  (`AttemptTells`), or a tick that recovered the run (`TickTells`), at most one of them,
  never after a report, and what it will tell is what the row says (`ToldTheRow`).
* *Refinement.* `RowSteps` shows which columns each action writes and maps it to a step of
  `RunLifecycle` or a stutter; several runs lost at once are one `GiveUp`.
* *Approvals.* `Guarded` is the type invariant, that callers name requests that exist
  (`Aimed`), and the two properties. The update that consumes is conditional on
  "not consumed" and moves one caller on, so two callers cannot hold one request.
* *Messages.* The unique index makes receipts of one message exclusive (`OneReceipt`); the
  handler's request holds its receipt while it works (`HandlerHolds`); a run executes only
  after its receipt was linked and a withdrawn receipt is refused (`LinkedLate`).
* *Capacity.* An ensure past its admission has the turn (`HasTurn`) and its computer either
  runs already or has room (`Reserved`): stops only make room, so what was counted stays true.
* *Handoffs.* The write of a transition compares nothing; the invariant carries from the
  reading to the write that the move was allowed (`Legal`), a row is inserted once
  (`Fresh`), and a stop works on rows that exist (`Known`).
* *Occurrences.* What a dispatcher has in hand is reserved (`Held`) and nobody else has it
  (`Alone`); its row names no run before the link and one after it (`Linked`), so a row
  changes the run it names only by being withdrawn, and the runs worked for an occurrence
  are the one it names (`First`).

* *Replies.* Two workers may hold one reply when a lease ran out, so the invariant counts
  attempts: a holder's attempt is at most the row's (`Backed`), and without a mishap there is
  one holder and what arrived is recorded or about to be (`Calm`).
* *Stale addresses.* A remembered address that is not the computer's belongs to a request
  that an order overtook; the invariant follows the address from the box through the answer
  to the cache.
* *Ceilings of handoffs.* As for runs: a queued run has an attempt left (`Ceiling`), for
  retries and changes of the handoff alike, unless it was queued by hand; a run that was not
  made has none (`Young`).
* *Changes.* What an execution has in hand reaches from its start to its token and holds what
  the log says (the batch covers its stretch, but for what it missed); a writer that has the
  lease starts at the cursor, so what it writes joins what is there. Losing the lease is what
  breaks the second half.
* *Arrivals.* A refused reply is put back and claimed again, so what may still arrive has to be
  counted with what has: `Budget` adds the workers that hold the reply (`Trying`) and the claim
  that is open (`Open`) to what was seen, and pays for the sum with the first attempt and the
  mishaps. At the ceiling a claim is open only where a mishap paid for it.
* *Stops.* The walk reads a level at a time while rows are inserted and moved. `Walked`: what
  existed when the stop began and was not handled yet hangs below the level the walk is about
  to read; it is none when a level has no children, since handoffs are a forest (`Rooted`).
* *Limits of children.* Between its count and its insertion a request knows the children it
  counted; if they are the same at the insertion there was room (`Counted`), and if not the new
  row is one of the crowd. Nothing but a stale write makes an ended child work again.
* *Profiles.* A profile without a container is a new one, made for a container that is to come, or
  one that an order is about to remove or failed to (`Leftover`).
* *Routines that are on.* A change that read "active", or asks for it, has computed a next time
  (`Aware`); if the status it writes over is not the one it read, the routine is `raced`.
* *The composition.* Rows mirror the statuses of the service (`Mirrored`); a step of it is
  of the executor, of the service, or a tick (`StepsOfBoth`), the service moves a run by a
  transition of the store, and only a request that was answered or lapsed is owed one
  (`OwedAnswered`). What `Approvals` promises rests on the shape of its own variables
  (`Shaped`) and is therefore kept where the runs are someone else's.
* *Lives of runs.* That a run of a handoff is made once (`Made`) and that changes and stops move
  what exists (`Moving`) map each step to one of `RunLifecycle`.
* *Browsers.* `Holds`, as long as nothing went astray: the launch in flight is the noted one,
  what is up is in the map, what closes is waited for. `Answering` compares the numbers of
  requests and says of each value where it landed, which rests on a browser that is not up
  showing no field (`RefsUp`); `Steering` follows a call from its admission to its act.
* *Messages of the page.* Queue, history, what was taken back, the first message and the turns
  that are being prepared part the messages that were sent (`Parted`), and no place has one twice
  (`Distinct`); the lemmas on sequences (`AppendedAmong`, `JoinedAmong`, `RemovedAmong`, `Once`)
  say what an append, a join and a removal do to that. For the order, what was said precedes
  what is being prepared, and that what is parked (`Sequenced`).
* *Who acts next.* These invariants name the step that is owed, so each has to say of every row
  who is responsible for it. `HolderAtWork` needs that attempts do not run ahead of the row
  (`NoneAhead`) and that a process that is gone works none (`GoneWorkNone`); `TellerLeft` that a
  process between two ticks has no recovered run left to report (`IdleOwesNone`).
  `WaitsForARequest` needs that only approvals are spent and that a call suspends its run over a
  request of its own (`Sound`); then every answer leaves something that ends the wait
  (`EndsWaitNext`). `EndIsPassedOn` follows the attempt and the changes of a handoff together.
  `ClaimedIsInHand` follows an occurrence from the batch into the hand (`HandOver`) and out of
  it (`HandNext`). `BusyIsAtWork` needs that a sync run that was not made has no execution
  (`Unmade`), so that a claim disturbs none.
* *Streams.* Whoever removes the stream from the map ends it; the pump looks before it
  closes. The maps agree because every way out removes from both in one step.

Model-checked only is liveness: `RecoverableFinishes`, `SourceHears`, `CallsEnd`,
`DeliveriesEnd`, `MessageAnswered`, `EnsuresEnd`, `RunsEnd`, `HandoffHears`, `DueIsWorked`,
`NotStranded`, `SilenceIsEnded` and `ParkedGoesOn`, since fairness and `ENABLED` are beyond TLAPS.
What of them holds at every moment is proved: `HolderAtWork` of the first, `TellerLeft` of the
second, `WaitsForOneThing`, `AnswerIsDue`, `ChainIsServed`, `EndIsPassedOn`, `ReportIsDue`,
`ClaimedIsInHand`, `BusyIsAtWork`, `WatchAgrees` and `ParkedIsWatched` of the others in their
order, `CallsEnd` aside, whose callers count down their own patience.
Every invariant and action property of the runs has a theorem. The theorems about `TaskRuns` hold
for every set `Patches` of statuses members write, the run for `{"queued", "failed"}`. No
theorem but those of the composition restricts who writes.

## 6. What the models show of the code

One run ends in a counterexample, against a sentence of the repository that `PROJECT.json`
quotes. `run_approved_stranded`: the heartbeat of a waiting run reports it lost and aborts the
attempt; an approval that comes later has no caller left and the run waits for ever.

Four more sentences are not kept, and TLC shows it when the property is added to a
configuration:

* `StaleNeverSettles` (`runs/executor.ts:36-37`, "an expired owner cannot complete a run after
  a replacement has recovered it"), in `MCTaskRuns.cfg`: `settleAutomated` compares the
  process and not the attempt (`runs/store.ts:755`). A process whose attempt 1 lost its lease
  and which re-claimed the run itself lets attempt 1 settle attempt 2. What is kept is
  `StaleSettlesOwnOnly`: it takes the same process, which works attempt 2 as well, or
  worked it until it was made to wait.
* `AutomatedFinishes` (`docs/architecture.md:193-194`), in `MCTaskRuns.cfg`: recovery reads
  routines and delegations (`runs/store.ts:784`), claims include external messages
  (`runs/store.ts:677-681`). A process that dies leaves such a run `running` for ever.
* `AcceptedGoesOn` (`docs/architecture.md:190-194`), in `MCDelegations.cfg`: accepting a queued
  handoff moves its run to `running` without a lease (`work/delegations.ts:508`), which nobody
  claims or recovers; no failure is needed.
* `DeletedWhenClosed` (`agent-computer/src/profiles.ts:217-218`), in `MCBrowser.cfg`: a reset
  during a cold launch, or a call for the page during the two seconds of a close, deletes the
  profile under a running browser.

Met while modelling, part of the models and without a run of their own:

* a late decline or expiry moves a run that was recovered into the queue to `running`, without
  a lease, so that nobody claims or recovers it;
* a PATCH of a running run to `queued`, the one way back by hand that the table allows, lets
  attempts exceed the ceiling, which no claim compares;
* a PATCH of a run that ends it calls no hook (`runs/routes.ts:102-121`): the handoff of the run
  stays open, the receipt of its message stays accepted without an answer, and no source is told;
* the run of an external message whose process dies stays running, and its receipt accepted;
* a crash or an error between settling a run and its hook leaves the source untold;
* with two slots or more a process can execute more attempts than slots, since the map
  of active attempts is keyed by run;
* a crash between a receipt and its run leaves a receipt that answers every repetition of
  the message as a duplicate; a run may execute though its request was answered with an error;
* a reply can be claimed past `max_attempts` once a lease expired;
* a `locate` under way during a stop or reset caches the old address afterwards;
* a reset that overlaps an ensure keeps the old profile (Docker's 409 is accepted), and a
  failed reset that is retried answers that there was nothing and keeps the profile too;
* a transition that read a handoff before a stop reopens it after; its run may be cancelled
  all the same, so that handoff and run disagree;
* of two members who change a handoff, one accepts it and the other ends it; if the run of the
  handoff goes back to the queue in between, the late `syncTaskRun` of the first moves it to
  `running` without a lease (`work/delegations.ts:501-520`), below a handoff that has ended;
* a call whose request is declined, or lapses, between its insertion and the move of the run
  suspends the run all the same (`approvals/store.ts`, `authorize`): the run waits for an
  answer that was given already, until a later call of the run asks again;
* requests that overlap exceed the limits on children; and since a stop marks open
  handoffs only, children can be created below one that had ended;
* a dispatch that throws ends its tick: the occurrences behind it in the batch have
  been moved on already and are never due again, as after a crash;
* a crash between a reservation and its link leaves a row without a run for ever, which
  the schema reserves for "while the dispatcher owns" it;
* a notification or an audit record that fails after the link withdraws the reservation of a
  run an executor may be working;
* a document whose download fails or is too large gives no text and no error
  (`worker/src/google-drive.ts:294-298`), is left out of the batch and passed by the cursor: the
  index keeps its old content until the document changes again;
* a configuration under a sync leaves its `sync_runs` row `running` for ever, and keeps the
  cursor of the old roots for the new ones; a worker that lost its lease may move the cursor
  back, and a change is lost only when three syncs overlap; the fetch from the source has no
  time limit of its own and its heartbeat renews the lease as long as it hangs;
* when the relayed stream cannot be written the Bot's stream is not cancelled; a reader that
  stops for good without leaving is never ended (`turn-watchdog.ts:168-171` says so); after
  `stop()` a new stream sets the timer again;
* a secret is typed at the element the number stands for when it is typed
  (`agent-computer/src/index.ts:816-826`): nothing compares the snapshot that the request named,
  so on a document that was shown since, a number that was used again is another field;
* a half-dead browser is closed without the wait a stop gives it (`profiles.ts:162`), so it may
  be exiting beside the one that is launched on its profile;
* two calls that wait on one half-dead browser launch two (`profiles.ts:146-147` means to
  launch one), and a failing network guard leaves one running unseen; an action that was
  admitted before a person took the wheel lands after (`control.ts:4-7`); an answered secret
  clears whichever request is open, also when typing it failed (`control.ts:143-144`); the
  release at the end of a stop may take the wheel from a person who took it meanwhile;
* a first message is not counted as a turn while its channel joins: a message typed in that
  second and a half is sent at once, may be said before it, and runs beside it. A message sent
  between the start of a drained turn and the render that shows it begins a second turn, which
  `conversation-view.tsx` means to prevent;
* a send is restored into the composer "if the send fails before becoming a message"
  (`composer.tsx:343`): the code restores it however late the run fails, when it is in the history
  already, and over what was typed since;
* of two changes of a routine that overlap, the later writes the next time that belonged to
  the status it had read: the routine may be on and never due.

## 7. What is not modelled

* *Content*: prompts, outcomes, formats, audit entries, instructions of a handoff,
  the provider's payloads. Their effect on control (an error, a refusal) is a
  nondeterministic outcome.
* *Access checks and configuration*: who may call an operation. Every request that is
  modelled is one that passed them.
* *Pure functions*: scoring and routing, names, limits, signatures, address checks.
* *Outside programs*: the agent runtime, the session library, the browser, Docker and
  PostgreSQL beyond what the code relies on: a transaction is atomic, a row lock
  excludes, a unique index refuses, a Docker call succeeds, fails or reports a conflict.
* *Within the modelled components*: artifacts, steps and listings of runs; endpoints, pairing
  and signatures of channels; messages and reviews of handoffs; container addresses on a private
  network (the published port is modelled) and a supervisor without a limit; formats of
  schedules, tokens of webhooks, preflight and a change of trigger of routines, and an update
  that holds a row just when a claim skips it; a queued handoff that is rewritten after its
  status was read (`work/delegations.ts:308`); with more than one slot, the executor's count of
  a run that was claimed twice by its own process (`runs/executor.ts:171`) beyond the map it is
  modelled as; the first crawl of a connector's roots, the choice among connectors, permissions;
  closing every browser at the end of the computer's process, plain requests for help,
  observation and files; attachments, chips and stored drafts of the composer, and what is
  parked when the page is left, which is lost by design.
* *The web application, and services of one statement each*: pages, listings, projects,
  memory, notifications, learning, continuity, the gallery. They render, or write one row that no
  other operation races for, and make up most of the source.

## 8. Plan

Done, in the order of importance: the runs and their executor, first because all work is
a run; approvals, then the two together; messages, computers, handoffs, routines; connectors,
the stall guard, the browser and the conversation page.

Next:

1. Compositions: `Delegations` with the attempts of `TaskRuns` in place of its own, as a
   refinement; `ExternalMessages` with the recovery of runs; `Computers` over `Browser`, since
   a stop of the container and a stop of the browser meet.
2. An abstract specification of a lease (held by one, lost by time, writes of the overtaken
   refused) that runs, replies and syncs are shown to implement, up to the exceptions above.
3. The first crawl of `ConnectorSyncs`, and `Composer` across a reload with its stored draft.

Proofs to come: the abstract lease of point 2 and its refinements; that `Delegations` with one
attempt at a time is what `TaskRuns` does to the run of a handoff, beyond `RunLifecycle`.
