------------------------------- MODULE Browser -------------------------------
(***************************************************************************)
(* The browser of one Bot and its wheel, in the process of its computer:   *)
(* the maps of the browsers that run and that are being launched           *)
(* (agent-computer/src/profiles.ts), who holds the wheel and which secret  *)
(* is asked for (control.ts), and the handlers that use both (index.ts).   *)
(*                                                                         *)
(* A step is what a handler does between two awaits.  The browsers are     *)
(* numbered as they are launched; 0 is none.  A browser that was stopped   *)
(* is taken to have exited when the settling time is over.  Requests for a *)
(* secret are numbered too, each standing for the field that its ref named *)
(* on the document of the page when it was made.                           *)
(*                                                                         *)
(* The last five variables record history and guard no step of the code.   *)
(* Operators marked "Slip" are plausible mistakes in the operator that     *)
(* follows them; no action uses them, the runs show that each is noticed.  *)
(***************************************************************************)
EXTENDS Naturals, FiniteSets

CONSTANTS
  Calls,          \* calls that reach the computer
  MaxLaunches,    \* bound on the launches of browsers
  MaxAsks,        \* bound on the requests for a secret
  Budget          \* bounds on calls of each kind, on takes of the wheel, and on faults

Kinds == {"act", "human", "secret", "stop", "reset"}
ASSUME MaxLaunchesAssumption == MaxLaunches \in Nat
ASSUME MaxAsksAssumption == MaxAsks \in Nat
ASSUME BudgetAssumption == Budget \in [Kinds \cup {"takes", "faults"} -> Nat]

VARIABLES
  browser,      \* each browser of the profile
  live,         \* the map of the browsers that run
  starting,     \* the map of the launches in flight
  control,      \* who holds the wheel, and the secret asked for
  call,         \* what each call waits for
  budget,       \* what is left of the bounds
  refs,         \* the requests whose fields are on the document each browser shows
  asked,        \* the requests for a secret so far
  sent,         \* the request that was open when a value was sent
  typed,        \* the request in whose field the value landed, or Elsewhere
  moved,        \* calls since whose admission the wheel changed hands
  astray        \* how the process lost hold of a browser, if it did

vars == <<browser, live, starting, control, call, budget,
          refs, asked, sent, typed, moved, astray>>

Launches == 1..MaxLaunches
Idle == [kind |-> "act", step |-> "none", page |-> 0, secret |-> 0]
Released == [holder |-> "bot", secret |-> 0]
Elsewhere == MaxAsks + 1          \* a field that no request named

Init ==
  /\ browser = [k \in Launches |-> "none"]
  /\ live = 0 /\ starting = 0
  /\ control = Released
  /\ call = [c \in Calls |-> Idle]
  /\ budget = Budget
  /\ refs = [k \in Launches |-> {}]
  /\ asked = 0
  /\ sent = [c \in Calls |-> 0] /\ typed = [c \in Calls |-> 0]
  /\ moved = {} /\ astray = {}

\* secretSupplied: whichever request is open is closed.
Supplied == [control EXCEPT !.secret = 0]

Holder(kind) == IF kind = "act" THEN "bot" ELSE "human"
Running == {k \in Launches : browser[k] \in {"launching", "up", "closing", "exiting"}}
Spend(what) == budget[what] > 0 /\ budget' = [budget EXCEPT ![what] = @ - 1]

----------------------------------------------------------------------------
(* profiles.page: the page of the Bot, for a call that was admitted as r. *)

\* Slip: a launch in flight is not waited for.
JoinableNever == FALSE
Joinable == starting # 0

Begin(c, r, k) ==
  /\ k \in Launches /\ browser[k] = "none" /\ \A j \in 1..(k - 1) : browser[j] # "none"
  /\ starting' = k
  /\ call' = [call EXCEPT ![c] = [r EXCEPT !.step = "awaiting", !.page = k]]

Page(c, r) ==
  \/ /\ Joinable
     /\ call' = [call EXCEPT ![c] = [r EXCEPT !.step = "awaiting", !.page = starting]]
     /\ UNCHANGED <<browser, starting>>
  \/ /\ ~Joinable /\ live # 0
     /\ call' = [call EXCEPT ![c] =
                   [r EXCEPT !.step = IF browser[live] = "up" THEN "acting" ELSE "clearing",
                             !.page = live]]
     /\ UNCHANGED <<browser, starting>>
  \/ /\ ~Joinable /\ live = 0
     /\ \E k \in Launches : Begin(c, r, k) /\ browser' = [browser EXCEPT ![k] = "launching"]

\* The half-dead browser is told to close and not waited for: whatever the map holds by now
\* is dropped, and one is launched.
Cleared(c) ==
  /\ call[c].step = "clearing"
  /\ \E k \in Launches :
       /\ Begin(c, call[c], k)
       /\ browser' = [browser EXCEPT ![call[c].page] = IF @ = "broken" THEN "exiting" ELSE @,
                                      ![k] = "launching"]
  /\ live' = 0
  /\ astray' = IF live \in {0, call[c].page} /\ starting = 0 THEN astray
               ELSE astray \cup {"overtaken"}
  /\ UNCHANGED <<control, budget, refs, asked, sent, typed, moved>>

\* The launch is over for all that wait for it; the entry of a launch is cleared whoever's it is.
Settle(k, step) ==
  /\ starting' = 0
  /\ call' = [c \in Calls |-> IF call[c].step = "awaiting" /\ call[c].page = k
                              THEN [call[c] EXCEPT !.step = step] ELSE call[c]]

Launched(k) ==
  /\ browser[k] = "launching"
  /\ browser' = [browser EXCEPT ![k] = "up"]
  /\ live' = k
  /\ Settle(k, "acting")
  /\ UNCHANGED <<control, budget, refs, asked, sent, typed, moved, astray>>

\* It fails: before a browser is there, or after, when nothing is put in front of its network.
\* A value that waited for it is given up, and with it the request.
LaunchFails(k) ==
  /\ browser[k] = "launching" /\ Spend("faults")
  /\ \/ browser' = [browser EXCEPT ![k] = "gone"] /\ astray' = astray
     \/ browser' = [browser EXCEPT ![k] = "up"] /\ astray' = astray \cup {"leaked"}
  /\ Settle(k, "over")
  /\ control' = IF \E c \in Calls : call[c] # call'[c] /\ call[c].kind = "secret"
                THEN Supplied ELSE control
  /\ UNCHANGED <<live, refs, asked, sent, typed, moved>>

Exited(k) ==
  /\ browser[k] = "exiting"
  /\ browser' = [browser EXCEPT ![k] = "gone"]
  /\ UNCHANGED <<live, starting, control, call, budget, refs, asked, sent, typed, moved, astray>>

Leave(k) == refs' = [refs EXCEPT ![k] = {}]

\* The page shows another document: somebody acted on it, or it went there by itself.
Turn(k) ==
  /\ browser[k] = "up" /\ refs[k] # {}
  /\ Leave(k)
  /\ UNCHANGED <<browser, live, starting, control, call, budget, asked, sent, typed, moved, astray>>

\* A browser goes away, or its page does.
Break(k) ==
  /\ browser[k] = "up" /\ Spend("faults")
  /\ browser' = [browser EXCEPT ![k] = "broken"]
  /\ Leave(k)
  /\ UNCHANGED <<live, starting, control, call, asked, sent, typed, moved, astray>>

----------------------------------------------------------------------------
(* The wheel. *)

\* The calls under way are marked when the wheel passes to another.
Turned(to) ==
  /\ control' = to
  /\ moved' = IF to.holder = control.holder THEN moved
              ELSE {c \in Calls : call[c].step \notin {"none", "over"}}

Take ==
  /\ Spend("takes")
  /\ Turned([holder |-> "human", secret |-> 0])
  /\ UNCHANGED <<browser, live, starting, call, refs, asked, sent, typed, astray>>

Release ==
  /\ Turned(Released)
  /\ UNCHANGED <<browser, live, starting, call, budget, refs, asked, sent, typed, astray>>

NextAsk == asked + 1

\* A new request takes the place of one that is open.  Its ref names a field of the page, if
\* the process has one.
RequestSecret ==
  /\ asked < MaxAsks
  /\ asked' = NextAsk
  /\ control' = [control EXCEPT !.secret = NextAsk]
  /\ refs' = [k \in Launches |-> IF k = live /\ browser[k] = "up" THEN refs[k] \cup {NextAsk}
                                 ELSE refs[k]]
  /\ UNCHANGED <<browser, live, starting, call, budget, sent, typed, moved, astray>>

----------------------------------------------------------------------------
(* What acts on the page: the Bot, a person at the wheel, a secret. *)

\* Slip: whoever calls may act.
AdmittedAlways(kind) == TRUE
\* assertBotMayAct and humanMayDrive, asked once.
Admitted(kind) == control.holder = Holder(kind)

\* The Bot's body was read before: it asks, and has the page, in one step.
BotActs(c) ==
  /\ call[c].step = "none" /\ Spend("act") /\ Admitted("act")
  /\ Page(c, Idle)
  /\ UNCHANGED <<live, control, refs, asked, sent, typed, moved, astray>>

\* A person's is read after.
HumanActs(c) ==
  /\ call[c].step = "none" /\ Spend("human") /\ Admitted("human")
  /\ call' = [call EXCEPT ![c] = [Idle EXCEPT !.kind = "human", !.step = "reading"]]
  /\ UNCHANGED <<browser, live, starting, control, refs, asked, sent, typed, moved, astray>>

\* The request is remembered, then the value is read.
SupplySecret(c) ==
  /\ call[c].step = "none" /\ Spend("secret") /\ control.secret # 0
  /\ call' = [call EXCEPT ![c] = [Idle EXCEPT !.kind = "secret", !.step = "reading",
                                              !.secret = control.secret]]
  /\ sent' = [sent EXCEPT ![c] = control.secret]
  /\ UNCHANGED <<browser, live, starting, control, refs, asked, typed, moved, astray>>

\* A body that is refused ends the call; nothing else is changed.
Read(c) ==
  /\ call[c].step = "reading"
  /\ \/ Page(c, call[c])
     \/ /\ call' = [call EXCEPT ![c].step = "over"]
        /\ UNCHANGED <<browser, starting>>
  /\ UNCHANGED <<live, control, budget, refs, asked, sent, typed, moved, astray>>

Act(c) ==
  /\ call[c].step = "acting" /\ call[c].kind # "secret"
  /\ call' = [call EXCEPT ![c].step = "over"]
  /\ UNCHANGED <<browser, live, starting, control, budget, refs, asked, sent, typed, moved, astray>>

\* Slip: the ref of the request that is open now.
RefOfPending(c) == control.secret
Ref(c) == call[c].secret

\* locateRef, given no snapshot to compare: the ref is resolved now, on whatever document the
\* page shows.  On another than it was taken from it may be the ref of any field.
Field(c) == IF Ref(c) \in refs[call[c].page] THEN Ref(c) ELSE Elsewhere

\* The value lands in the field found, or none is and it is given up; either way the request
\* that is open is closed.
Type(c) ==
  /\ call[c].step = "acting" /\ call[c].kind = "secret"
  /\ call' = [call EXCEPT ![c].step = "over"]
  /\ \/ browser[call[c].page] = "up" /\ typed' = [typed EXCEPT ![c] = Field(c)]
     \/ typed' = typed
  /\ control' = Supplied
  /\ UNCHANGED <<browser, live, starting, budget, refs, asked, sent, moved, astray>>

----------------------------------------------------------------------------
(* stop and reset. *)

\* A browser that runs is told to close; one that is being launched is not known yet.
Stop(c, kind) ==
  /\ call[c].step = "none" /\ Spend(kind)
  /\ live' = 0
  /\ LET r == [Idle EXCEPT !.kind = kind] IN
     IF live # 0
     THEN /\ browser' = [browser EXCEPT ![live] = "closing"]
          /\ call' = [call EXCEPT ![c] = [r EXCEPT !.step = "closing", !.page = live]]
          /\ Leave(live)
          /\ UNCHANGED <<control, moved>>
     ELSE /\ UNCHANGED <<browser, refs>>
          /\ IF kind = "stop"
             THEN Turned(Released) /\ call' = [call EXCEPT ![c] = [r EXCEPT !.step = "over"]]
             ELSE /\ call' = [call EXCEPT ![c] = [r EXCEPT !.step = "deleting"]]
                  /\ UNCHANGED <<control, moved>>
  /\ UNCHANGED <<starting, asked, sent, typed, astray>>

\* The browser has had its time to exit.
Closed(c) ==
  /\ call[c].step = "closing"
  /\ browser' = [browser EXCEPT ![call[c].page] = "gone"]
  /\ IF call[c].kind = "stop"
     THEN Turned(Released) /\ call' = [call EXCEPT ![c].step = "over"]
     ELSE call' = [call EXCEPT ![c].step = "deleting"] /\ UNCHANGED <<control, moved>>
  /\ UNCHANGED <<live, starting, budget, refs, asked, sent, typed, astray>>

\* The directory of the profile is gone.
Deleted(c) ==
  /\ call[c].step = "deleting"
  /\ call' = [call EXCEPT ![c].step = "over"]
  /\ Turned(Released)
  /\ UNCHANGED <<browser, live, starting, budget, refs, asked, sent, typed, astray>>

----------------------------------------------------------------------------
Next ==
  \/ \E k \in Launches : Launched(k) \/ LaunchFails(k) \/ Exited(k) \/ Turn(k) \/ Break(k)
  \/ \E c \in Calls :
       \/ BotActs(c) \/ HumanActs(c) \/ SupplySecret(c) \/ Read(c)
       \/ Cleared(c) \/ Act(c) \/ Type(c)
       \/ \E kind \in {"stop", "reset"} : Stop(c, kind)
       \/ Closed(c) \/ Deleted(c)
  \/ Take \/ Release \/ RequestSecret

Spec == Init /\ [][Next]_vars

----------------------------------------------------------------------------
(* Properties *)

\* Every map and call keeps its shape.
TypeOK ==
  /\ browser \in [Launches -> {"none", "launching", "up", "broken", "closing", "exiting", "gone"}]
  /\ live \in 0..MaxLaunches /\ starting \in 0..MaxLaunches
  /\ control \in [holder : {"bot", "human"}, secret : 0..MaxAsks]
  /\ call \in [Calls -> [kind : Kinds, page : 0..MaxLaunches, secret : 0..MaxAsks,
                         step : {"none", "reading", "clearing", "awaiting", "acting",
                                 "closing", "deleting", "over"}]]
  /\ budget \in [Kinds \cup {"takes", "faults"} -> Nat] /\ asked \in 0..MaxAsks
  /\ refs \in [Launches -> SUBSET (1..MaxAsks)]
  /\ sent \in [Calls -> 0..MaxAsks] /\ typed \in [Calls -> 0..Elsewhere]
  /\ moved \subseteq Calls /\ astray \subseteq {"overtaken", "leaked"}

\* "One launch at a time per Bot" (page): the process knows every browser it started on the
\* profile: it is the one in the map, or the one being launched while none is in the map, or
\* a call is giving it its time to exit, or it was half-dead and is given none.  Two events
\* alone make one stray: a call that waited for a half-dead browser to close goes on after
\* another replaced that one, or the guard of the network cannot be put in place.
OneKnown ==
  astray = {} =>
    /\ \A k \in Running : \/ k = (IF browser[k] = "launching" THEN starting ELSE live)
                          \/ \E c \in Calls : call[c].step = "closing" /\ call[c].page = k
                          \/ browser[k] = "exiting"
    /\ starting # 0 /\ live # 0 => browser[live] # "up"

\* What acts on the page is the Bot at the Bot's wheel and a person at hers.  The wheel is
\* asked for once, before the page is waited for: only what was admitted before it
\* changed hands may still land (assertBotMayAct, humanMayDrive).
WheelRespected ==
  [][\A c \in Calls :
       call[c].step = "acting" /\ call'[c].step = "over" /\ call[c].kind # "secret"
       => control.holder = Holder(call[c].kind) \/ c \in moved]_vars

\* A value is typed in the field that its request named, whatever else was asked for while
\* the value waited for a body, a browser or a launch, unless the document with that field is
\* shown no more or the process lost hold of a browser; and the request is open no more
\* (pendingSecret, locateRef with no snapshot to compare, secretSupplied).
SecretInItsField ==
  \A c \in Calls : typed[c] # 0 =>
    /\ control.secret # sent[c]
    /\ \/ typed[c] = sent[c]
       \/ \A k \in Launches : sent[c] \notin refs[k]
       \/ astray # {}

----------------------------------------------------------------------------
(* What the sources of the program say of it, and the code does not keep *)

\* The directory of a profile is deleted after the browser is closed, and never from
\* under one that runs: what the comment of reset says.
DeletedWhenClosed ==
  [][\A c \in Calls : call[c].step = "deleting" /\ call'[c].step = "over" => Running = {}]_vars
=============================================================================
