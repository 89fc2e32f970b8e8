----------------------------- MODULE StallGuard -----------------------------
(***************************************************************************)
(* The watch on the streams of the Bots: the map of the guard and its pump *)
(* for each stream (server/src/channels/stall-guard.ts), the watchdog that *)
(* counts their silence (turn-watchdog.ts), and the timer that sweeps it.  *)
(*                                                                         *)
(* A step is what the process does between two awaits.  Time is in ticks,  *)
(* and what is counted of it stops at the limit.  The Bot, whoever reads   *)
(* the relayed stream, and the clock do as they like.                      *)
(*                                                                         *)
(* The last two variables record history and guard no step of the code.    *)
(* Operators marked "Slip" are plausible mistakes in the operator that     *)
(* follows them; no action uses them, the runs show that each is noticed.  *)
(***************************************************************************)
EXTENDS Naturals

CONSTANTS
  Streams,      \* requests to Bots
  Protobuf,     \* those that are answered in protocol buffers
  Stall         \* stallMs, in ticks: this much silence ends a turn

ASSUME ProtobufAssumption == Protobuf \subseteq Streams
ASSUME StallAssumption == Stall \in Nat \ {0}

VARIABLES
  streams,      \* the map of the guard
  watched,      \* the map of the watchdog
  sweeper,      \* whether the timer is set
  pump,         \* what the pump of each stream waits for
  upstream,     \* the body of the Bot's answer
  relay,        \* what waits in the relayed stream, and how it ended
  reader,       \* whether anybody reads it
  stopped,      \* whether the server has told the guard to stop
  audit,        \* the row of a stall
  waited,       \* how long the pump has waited for the Bot
  endings       \* how often the relayed stream was closed or aborted

vars == <<streams, watched, sweeper, pump, upstream, relay, reader, stopped, audit, waited, endings>>

----------------------------------------------------------------------------
Watch == [on : BOOLEAN, silent : 0..Stall, paused : BOOLEAN]
Unwatched == [on |-> FALSE, silent |-> 0, paused |-> FALSE]
Opened == [Unwatched EXCEPT !.on = TRUE]
Flowing == [holds |-> "nothing", ended |-> "no"]

Init ==
  /\ streams = {} /\ watched = [s \in Streams |-> Unwatched] /\ sweeper = FALSE
  /\ pump = [s \in Streams |-> "none"]
  /\ upstream = [s \in Streams |-> "live"]
  /\ relay = [s \in Streams |-> Flowing]
  /\ reader = [s \in Streams |-> "there"]
  /\ stopped = FALSE
  /\ audit = [s \in Streams |-> "none"]
  /\ waited = [s \in Streams |-> 0]
  /\ endings = [s \in Streams |-> 0]

Watching == {s \in Streams : watched[s].on}

----------------------------------------------------------------------------
(* watch: an answer comes back. *)

\* A stream: it is recorded, its clock starts, the timer is set, its pump reads.
Open(s) ==
  /\ pump[s] = "none"
  /\ streams' = streams \cup {s}
  /\ watched' = [watched EXCEPT ![s] = Opened]
  /\ sweeper' = TRUE
  /\ pump' = [pump EXCEPT ![s] = "reading"]
  /\ UNCHANGED <<upstream, relay, reader, stopped, audit, waited, endings>>

\* A refusal, or no body: it is passed on as it is.
PassOn(s) ==
  /\ pump[s] = "none"
  /\ pump' = [pump EXCEPT ![s] = "unwatched"]
  /\ UNCHANGED <<streams, watched, sweeper, upstream, relay, reader, stopped, audit, waited, endings>>

----------------------------------------------------------------------------
(* pump: one stream. *)

\* Slip: whoever asks has it.
ReleasableAlways(s) == TRUE
\* release: only the first to ask has the stream.
Releasable(s) == s \in streams

\* The pump is done with the stream and ends the relayed one, unless it was ended before.
Finish(s, how, holds) ==
  /\ pump' = [pump EXCEPT ![s] = "over"]
  /\ streams' = streams \ {s}
  /\ IF Releasable(s)
     THEN /\ watched' = [watched EXCEPT ![s] = Unwatched]
          /\ relay' = [relay EXCEPT ![s] = [holds |-> holds, ended |-> how]]
          /\ endings' = [endings EXCEPT ![s] = @ + 1]
     ELSE UNCHANGED <<watched, relay, endings>>

\* A chunk: the clock stops while whoever reads is waited for.
Chunk(s) ==
  /\ pump[s] = "reading" /\ upstream[s] = "live" /\ reader[s] = "there"
  /\ watched' = [watched EXCEPT ![s].silent = 0, ![s].paused = watched[s].on]
  /\ relay' = [relay EXCEPT ![s].holds = "chunk"]
  /\ pump' = [pump EXCEPT ![s] = "writing"]
  /\ waited' = [waited EXCEPT ![s] = 0]
  /\ UNCHANGED <<streams, sweeper, upstream, reader, stopped, audit, endings>>

\* A chunk that nobody reads: the write fails, and the Bot is left talking.
ChunkRefused(s) ==
  /\ pump[s] = "reading" /\ upstream[s] = "live" /\ reader[s] = "gone"
  /\ Finish(s, "aborted", "nothing")
  /\ UNCHANGED <<sweeper, upstream, reader, stopped, audit, waited>>

\* Slips: the silence goes on from the last chunk; the clock stays stopped.
ResumedFromChunk(w) == [w EXCEPT !.paused = FALSE]
ResumedPaused(w) == [w EXCEPT !.silent = 0]
\* resume: the clock starts again from now.
Resumed(w) == [w EXCEPT !.paused = FALSE, !.silent = 0]

Taken(s) ==
  /\ pump[s] = "writing" /\ relay[s].holds = "chunk"
  /\ relay' = [relay EXCEPT ![s].holds = "nothing"]
  /\ watched' = [watched EXCEPT ![s] = Resumed(watched[s])]
  /\ pump' = [pump EXCEPT ![s] = "reading"]
  /\ UNCHANGED <<streams, sweeper, upstream, reader, stopped, audit, waited, endings>>

\* The Bot ends its answer, its connection breaks, or somebody aborts the request.
BotEnds(s) ==
  /\ pump[s] = "reading" /\ upstream[s] = "live"
  /\ \/ upstream' = [upstream EXCEPT ![s] = "done"] /\ Finish(s, "closed", "nothing")
     \/ upstream' = [upstream EXCEPT ![s] = "broken"] /\ Finish(s, "aborted", "nothing")
  /\ UNCHANGED <<sweeper, reader, stopped, audit, waited>>

\* The read that the stall cancelled comes back.
Cancelled(s) ==
  /\ pump[s] = "reading" /\ upstream[s] = "cancelled"
  /\ Finish(s, "closed", "nothing")
  /\ UNCHANGED <<sweeper, upstream, reader, stopped, audit, waited>>

----------------------------------------------------------------------------
(* Whoever reads the relayed stream. *)

\* It goes away: a write under way fails, a read goes on until the Bot says something.
Leave(s) ==
  /\ reader[s] = "there" /\ pump[s] \in {"reading", "writing"}
  /\ reader' = [reader EXCEPT ![s] = "gone"]
  /\ IF pump[s] = "writing" THEN Finish(s, "aborted", "nothing")
     ELSE /\ relay' = [relay EXCEPT ![s].holds = "nothing"]
          /\ UNCHANGED <<streams, watched, pump, endings>>
  /\ UNCHANGED <<sweeper, upstream, stopped, audit, waited>>

Hear(s) ==
  /\ reader[s] = "there" /\ relay[s].holds = "sentence"
  /\ relay' = [relay EXCEPT ![s].holds = "heard"]
  /\ UNCHANGED <<streams, watched, sweeper, pump, upstream, reader, stopped, audit, waited, endings>>

----------------------------------------------------------------------------
(* The timer: sweep, and giveUp of each stream it finds. *)

Silent(s) == watched[s].on /\ ~watched[s].paused /\ watched[s].silent = Stall

\* The timer is kept while anything is left to watch.
KeptOn(found) == Watching \ found # {}

\* The sentence is never put into protocol buffers, and nobody hears it who has gone.
Sentence(s) == IF s \in Protobuf \/ reader[s] = "gone" THEN "nothing" ELSE "sentence"

Sweep ==
  /\ sweeper
  /\ LET found == {s \in Streams : Silent(s)}
         given == {s \in found : Releasable(s)}
     IN
     /\ watched' = [s \in Streams |-> IF s \in found THEN Unwatched ELSE watched[s]]
     /\ sweeper' = KeptOn(found)
     /\ streams' = streams \ given
     /\ upstream' = [s \in Streams |-> IF s \in given THEN "cancelled" ELSE upstream[s]]
     /\ relay' = [s \in Streams |-> IF s \in given THEN [holds |-> Sentence(s), ended |-> "closed"]
                                    ELSE relay[s]]
     /\ endings' = [s \in Streams |-> IF s \in given THEN endings[s] + 1 ELSE endings[s]]
     /\ audit' = [s \in Streams |-> IF s \in given THEN "asked" ELSE audit[s]]
  /\ UNCHANGED <<pump, reader, stopped, waited>>

\* The row comes after the turn was ended, and may be lost.
Record(s) ==
  /\ audit[s] = "asked"
  /\ \E outcome \in {"written", "lost"} : audit' = [audit EXCEPT ![s] = outcome]
  /\ UNCHANGED <<streams, watched, sweeper, pump, upstream, relay, reader, stopped, waited, endings>>

\* The server shuts down.
Stop ==
  /\ ~stopped
  /\ stopped' = TRUE /\ sweeper' = FALSE
  /\ UNCHANGED <<streams, watched, pump, upstream, relay, reader, audit, waited, endings>>

Later(n) == IF n < Stall THEN n + 1 ELSE n
Tick ==
  /\ watched' = [s \in Streams |-> IF watched[s].on
                                   THEN [watched[s] EXCEPT !.silent = Later(watched[s].silent)]
                                   ELSE watched[s]]
  /\ waited' = [s \in Streams |-> IF pump[s] = "reading" THEN Later(waited[s]) ELSE waited[s]]
  /\ UNCHANGED <<streams, sweeper, pump, upstream, relay, reader, stopped, audit, endings>>

----------------------------------------------------------------------------
Next ==
  \/ \E s \in Streams :
       \/ Open(s) \/ PassOn(s)
       \/ Chunk(s) \/ ChunkRefused(s) \/ Taken(s) \/ BotEnds(s) \/ Cancelled(s)
       \/ Leave(s) \/ Hear(s) \/ Record(s)
  \/ Sweep \/ Stop \/ Tick

Spec == Init /\ [][Next]_vars

(***************************************************************************)
(* Time passes, the timer goes off, a read that was cancelled comes back,  *)
(* and who reads on hears.  Nothing is asked of the Bot: it may be silent  *)
(* for ever; nor that a chunk is taken, nor that a row is written.         *)
(***************************************************************************)
Fairness ==
  /\ WF_vars(Tick) /\ WF_vars(Sweep)
  /\ \A s \in Streams : WF_vars(Cancelled(s))

FairSpec == Spec /\ Fairness

----------------------------------------------------------------------------
(* Properties *)

\* Every map and stream keeps its shape.
TypeOK ==
  /\ streams \subseteq Streams /\ watched \in [Streams -> Watch]
  /\ sweeper \in BOOLEAN /\ stopped \in BOOLEAN
  /\ pump \in [Streams -> {"none", "unwatched", "reading", "writing", "over"}]
  /\ upstream \in [Streams -> {"live", "done", "broken", "cancelled"}]
  /\ relay \in [Streams -> [holds : {"nothing", "chunk", "sentence", "heard"},
                            ended : {"no", "closed", "aborted"}]]
  /\ reader \in [Streams -> {"there", "gone"}]
  /\ audit \in [Streams -> {"none", "asked", "written", "lost"}]
  /\ waited \in [Streams -> 0..Stall] /\ endings \in [Streams -> Nat]

\* Of the pump and the stall one ends a stream, once, whoever comes first (release), and
\* the sentence of a stall is the last of a stream that was closed by it: never of one
\* that its Bot ended, and never among protocol buffers.
EndedOnce ==
  \A s \in Streams :
    /\ endings[s] = IF relay[s].ended = "no" THEN 0 ELSE 1
    /\ pump[s] = "over" => endings[s] = 1
    /\ relay[s].holds \in {"sentence", "heard"} =>
         upstream[s] = "cancelled" /\ relay[s].ended = "closed" /\ s \notin Protobuf

\* The guard and the watchdog keep the same streams, those that have not ended, and while
\* there is one the timer is set (arm, disarm, release), unless the server is stopping.
WatchAgrees ==
  /\ streams = Watching
  /\ \A s \in Streams : s \in streams <=> pump[s] \in {"reading", "writing"} /\ relay[s].ended = "no"
  /\ streams # {} => sweeper \/ stopped

\* A turn is given up only when its Bot, and nobody else, has been waited for as long as
\* the limit: neither while whoever reads is slow, nor within the limit of a chunk or of
\* its being taken (pause, resume).
OnlySilenceEnds ==
  [][\A s \in Streams : audit[s] = "none" /\ audit'[s] # "none"
       => pump[s] = "reading" /\ waited[s] = Stall]_vars

\* A Bot that stops talking does not hold its turn for ever: the pump that waits for it
\* hears something, or the turn is ended, however streams come and go meanwhile.
SilenceIsEnded ==
  \A s \in Streams : pump[s] = "reading" ~> pump[s] # "reading" \/ stopped
=============================================================================
