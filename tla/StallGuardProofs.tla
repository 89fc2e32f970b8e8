-------------------------- MODULE StallGuardProofs --------------------------
(***************************************************************************)
(* Of the pump and the stall one ends a stream, once, and only for the     *)
(* silence of its Bot, for any number of streams and any limit.            *)
(*                                                                         *)
(* A stream is in one of five phases, and each phase says where it is      *)
(* kept, how its clock stands and how the relayed stream ended. Every step *)
(* moves a stream from a phase to a phase.                                 *)
(*                                                                         *)
(* The last sections are about the other end of those streams, the page of *)
(* a conversation (Composer): what a queue does to the messages in it,     *)
(* where each message is, in which order turns begin and messages are      *)
(* said, and what is waited for.                                           *)
(***************************************************************************)
EXTENDS StallGuard, Sequences, FiniteSetTheorems, TLAPS

\* Not opened: no answer yet, or one that is passed on.
Apart(s) ==
  /\ pump[s] \in {"none", "unwatched"} /\ s \notin streams /\ ~watched[s].on
  /\ relay[s] = Flowing /\ endings[s] = 0 /\ audit[s] = "none"
  /\ upstream[s] = "live" /\ waited[s] = 0

\* The Bot is waited for, and the silence counted is how long.
Listening(s) ==
  /\ pump[s] = "reading" /\ s \in streams
  /\ watched[s].on /\ ~watched[s].paused /\ waited[s] = watched[s].silent
  /\ upstream[s] = "live" /\ relay[s] = Flowing /\ endings[s] = 0 /\ audit[s] = "none"

\* Whoever reads is waited for, and the clock stands.
Handing(s) ==
  /\ pump[s] = "writing" /\ s \in streams
  /\ watched[s].on /\ watched[s].paused
  /\ upstream[s] = "live" /\ relay[s] = [holds |-> "chunk", ended |-> "no"]
  /\ endings[s] = 0 /\ audit[s] = "none" /\ waited[s] = 0

\* Given up on, and the cancelled read has not come back.
GivenUp(s) ==
  /\ pump[s] = "reading" /\ s \notin streams /\ ~watched[s].on
  /\ upstream[s] = "cancelled" /\ relay[s].ended = "closed" /\ endings[s] = 1
  /\ relay[s].holds \in {"nothing", "sentence", "heard"}
  /\ relay[s].holds # "nothing" => s \notin Protobuf
  /\ audit[s] # "none"

Gone(s) ==
  /\ pump[s] = "over" /\ s \notin streams /\ ~watched[s].on
  /\ relay[s].ended # "no" /\ endings[s] = 1
  /\ relay[s].holds \in {"nothing", "sentence", "heard"}
  /\ relay[s].holds # "nothing" =>
       upstream[s] = "cancelled" /\ relay[s].ended = "closed" /\ s \notin Protobuf

Phase(s) == Apart(s) \/ Listening(s) \/ Handing(s) \/ GivenUp(s) \/ Gone(s)

Set == streams # {} => sweeper \/ stopped

Inv == TypeOK /\ Set /\ \A s \in Streams : Phase(s)

----------------------------------------------------------------------------
(* Typing *)

LEMMA LaterTyped == \A n \in 0..Stall : Later(n) \in 0..Stall
BY StallAssumption DEF Later

LEMMA Records ==
  /\ 0 \in 0..Stall /\ Unwatched \in Watch /\ Opened \in Watch
  /\ \A w \in Watch : /\ Resumed(w) \in Watch
                      /\ \A b \in BOOLEAN : [w EXCEPT !.silent = 0, !.paused = b] \in Watch
<1>1. 0 \in 0..Stall
  BY StallAssumption
<1>. QED
  BY <1>1 DEF Watch, Unwatched, Opened, Resumed

LEMMA TypeInit == Init => TypeOK
<1>1. Flowing \in [holds : {"nothing", "chunk", "sentence", "heard"}, ended : {"no", "closed", "aborted"}]
  BY DEF Flowing
<1>2. ASSUME Init
      PROVE  /\ watched \in [Streams -> Watch] /\ waited \in [Streams -> 0..Stall]
             /\ relay \in [Streams -> [holds : {"nothing", "chunk", "sentence", "heard"},
                                       ended : {"no", "closed", "aborted"}]]
  BY <1>1, <1>2, Records DEF Init
<1>3. ASSUME Init
      PROVE  /\ streams \subseteq Streams /\ endings \in [Streams -> Nat]
             /\ pump \in [Streams -> {"none", "unwatched", "reading", "writing", "over"}]
             /\ upstream \in [Streams -> {"live", "done", "broken", "cancelled"}]
             /\ reader \in [Streams -> {"there", "gone"}]
             /\ audit \in [Streams -> {"none", "asked", "written", "lost"}]
  BY <1>3 DEF Init
<1>4. Init => sweeper \in BOOLEAN /\ stopped \in BOOLEAN
  BY DEF Init
<1>. QED
  BY <1>2, <1>3, <1>4 DEF TypeOK

LEMMA TypeFinish ==
  ASSUME TypeOK, NEW s \in Streams, NEW how \in {"closed", "aborted"},
         Finish(s, how, "nothing")
  PROVE  /\ streams' \subseteq Streams /\ watched' \in [Streams -> Watch]
         /\ pump' \in [Streams -> {"none", "unwatched", "reading", "writing", "over"}]
         /\ relay' \in [Streams -> [holds : {"nothing", "chunk", "sentence", "heard"},
                                    ended : {"no", "closed", "aborted"}]]
         /\ endings' \in [Streams -> Nat]
<1>1. endings' \in [Streams -> Nat]
  <2>1. endings \in [Streams -> Nat]
    BY DEF TypeOK
  <2>2. endings' = [endings EXCEPT ![s] = endings[s] + 1] \/ endings' = endings
    BY DEF Finish
  <2>3. endings[s] + 1 \in Nat
    BY <2>1
  <2>. QED  BY <2>1, <2>2, <2>3
<1>2. watched' \in [Streams -> Watch]
  BY Records DEF TypeOK, Finish
<1>3. pump' \in [Streams -> {"none", "unwatched", "reading", "writing", "over"}]
  BY DEF TypeOK, Finish
<1>4. streams' \subseteq Streams
  BY DEF TypeOK, Finish
<1>5. relay' \in [Streams -> [holds : {"nothing", "chunk", "sentence", "heard"},
                              ended : {"no", "closed", "aborted"}]]
  BY DEF TypeOK, Finish
<1>. QED
  BY <1>1, <1>2, <1>3, <1>4, <1>5

LEMMA TypeNext ==
  ASSUME TypeOK, [Next]_vars
  PROVE  TypeOK'
<1>. USE DEF TypeOK
<1>1. CASE UNCHANGED vars
  BY <1>1 DEF vars
<1>2. ASSUME NEW s \in Streams, Open(s) \/ PassOn(s)
      PROVE  TypeOK'
  BY <1>2, Records DEF Open, PassOn
<1>3. ASSUME NEW s \in Streams, Chunk(s)
      PROVE  TypeOK'
  <2>1. watched' \in [Streams -> Watch]
    <3>1. watched[s] \in Watch /\ watched[s].on \in BOOLEAN
      BY DEF Watch
    <3>2. [watched[s] EXCEPT !.silent = 0, !.paused = watched[s].on] \in Watch
      BY <3>1, Records
    <3>3. watched' = [watched EXCEPT ![s] = [watched[s] EXCEPT !.silent = 0, !.paused = watched[s].on]]
      BY <1>3 DEF Chunk
    <3>. QED  BY <3>2, <3>3
  <2>2. waited' \in [Streams -> 0..Stall]
    BY <1>3, StallAssumption DEF Chunk
  <2>3. relay' \in [Streams -> [holds : {"nothing", "chunk", "sentence", "heard"},
                                ended : {"no", "closed", "aborted"}]]
    BY <1>3 DEF Chunk
  <2>. QED  BY <1>3, <2>1, <2>2, <2>3 DEF Chunk
<1>4. ASSUME NEW s \in Streams, Taken(s)
      PROVE  TypeOK'
  <2>1. watched' \in [Streams -> Watch]
    BY <1>4, Records DEF Taken
  <2>2. relay' \in [Streams -> [holds : {"nothing", "chunk", "sentence", "heard"},
                                ended : {"no", "closed", "aborted"}]]
    BY <1>4 DEF Taken
  <2>. QED  BY <1>4, <2>1, <2>2 DEF Taken
<1>5. ASSUME NEW s \in Streams, ChunkRefused(s) \/ BotEnds(s) \/ Cancelled(s)
      PROVE  TypeOK'
  BY <1>5, TypeFinish DEF ChunkRefused, BotEnds, Cancelled
<1>6. ASSUME NEW s \in Streams, Leave(s)
      PROVE  TypeOK'
  <2>1. /\ streams' \subseteq Streams /\ watched' \in [Streams -> Watch]
        /\ pump' \in [Streams -> {"none", "unwatched", "reading", "writing", "over"}]
        /\ relay' \in [Streams -> [holds : {"nothing", "chunk", "sentence", "heard"},
                                   ended : {"no", "closed", "aborted"}]]
        /\ endings' \in [Streams -> Nat]
    BY <1>6, TypeFinish DEF Leave
  <2>. QED  BY <1>6, <2>1 DEF Leave
<1>7. ASSUME NEW s \in Streams, Hear(s) \/ Record(s)
      PROVE  TypeOK'
  <2>1. CASE Hear(s)
    <3>1. relay' \in [Streams -> [holds : {"nothing", "chunk", "sentence", "heard"},
                                  ended : {"no", "closed", "aborted"}]]
      BY <2>1 DEF Hear
    <3>. QED  BY <2>1, <3>1 DEF Hear
  <2>2. CASE Record(s)
    <3>1. audit' \in [Streams -> {"none", "asked", "written", "lost"}]
      BY <2>2 DEF Record
    <3>. QED  BY <2>2, <3>1 DEF Record
  <2>. QED  BY <1>7, <2>1, <2>2
<1>8. CASE Sweep
  <2>1. watched' \in [Streams -> Watch]
    BY <1>8, Records DEF Sweep
  <2>2. /\ sweeper' \in BOOLEAN /\ streams' \subseteq Streams
    BY <1>8 DEF Sweep, KeptOn
  <2>3. /\ upstream' \in [Streams -> {"live", "done", "broken", "cancelled"}]
        /\ audit' \in [Streams -> {"none", "asked", "written", "lost"}]
    BY <1>8 DEF Sweep
  <2>4. \A s \in Streams : [holds |-> Sentence(s), ended |-> "closed"]
            \in [holds : {"nothing", "chunk", "sentence", "heard"},
                 ended : {"no", "closed", "aborted"}]
    BY DEF Sentence
  <2>5. relay' \in [Streams -> [holds : {"nothing", "chunk", "sentence", "heard"},
                                ended : {"no", "closed", "aborted"}]]
    BY <1>8, <2>4 DEF Sweep
  <2>6. endings' \in [Streams -> Nat]
    BY <1>8 DEF Sweep
  <2>. QED  BY <1>8, <2>1, <2>2, <2>3, <2>5, <2>6 DEF Sweep
<1>9. CASE Stop
  BY <1>9 DEF Stop
<1>10. CASE Tick
  <2>1. \A w \in Watch : [w EXCEPT !.silent = Later(w.silent)] \in Watch
    BY LaterTyped DEF Watch
  <2>2. watched' \in [Streams -> Watch]
    BY <1>10, <2>1 DEF Tick
  <2>3. waited' \in [Streams -> 0..Stall]
    BY <1>10, LaterTyped DEF Tick
  <2>. QED  BY <1>10, <2>2, <2>3 DEF Tick
<1>. QED
  BY <1>1, <1>2, <1>3, <1>4, <1>5, <1>6, <1>7, <1>8, <1>9, <1>10 DEF Next

----------------------------------------------------------------------------
(* Phases *)

\* Nothing that a phase speaks of changes for a stream.
Same(t) ==
  /\ pump'[t] = pump[t] /\ (t \in streams' <=> t \in streams) /\ watched'[t] = watched[t]
  /\ upstream'[t] = upstream[t] /\ relay'[t] = relay[t] /\ endings'[t] = endings[t]
  /\ waited'[t] = waited[t] /\ audit'[t] = audit[t]

LEMMA PhaseKept ==
  ASSUME NEW t \in Streams, Phase(t), Same(t)
  PROVE  Phase(t)'
BY DEF Phase, Apart, Listening, Handing, GivenUp, Gone, Same

\* A pump that is done with a stream that nobody ended, or that the stall has.
LEMMA PhaseFinish ==
  ASSUME TypeOK, NEW s \in Streams, NEW how \in {"closed", "aborted"},
         Listening(s) \/ Handing(s) \/ GivenUp(s),
         Finish(s, how, "nothing"), Listening(s) \/ Handing(s) \/ upstream'[s] = upstream[s]
  PROVE  Gone(s)'
<1>1. CASE Listening(s) \/ Handing(s)
  BY <1>1 DEF TypeOK, Listening, Handing, Finish, Releasable, Gone, Unwatched
<1>2. CASE GivenUp(s)
  BY <1>2 DEF TypeOK, GivenUp, Finish, Releasable, Gone, Listening, Handing
<1>. QED  BY <1>1, <1>2

LEMMA FinishOthers ==
  ASSUME TypeOK, NEW s \in Streams, NEW how, Finish(s, how, "nothing"), NEW t \in Streams \ {s}
  PROVE  /\ pump'[t] = pump[t] /\ (t \in streams' <=> t \in streams) /\ watched'[t] = watched[t]
         /\ relay'[t] = relay[t] /\ endings'[t] = endings[t]
BY DEF TypeOK, Finish

\* What the pump of a stream may be in when it waits.
LEMMA Waiting ==
  ASSUME NEW s \in Streams, Phase(s)
  PROVE  /\ pump[s] = "reading" /\ upstream[s] = "live" => Listening(s)
         /\ pump[s] = "reading" /\ upstream[s] = "cancelled" => GivenUp(s)
         /\ pump[s] = "reading" => Listening(s) \/ GivenUp(s)
         /\ pump[s] = "writing" => Handing(s)
         /\ watched[s].on => Listening(s) \/ Handing(s)
         /\ pump[s] = "none" => Apart(s)
BY DEF Phase, Apart, Listening, Handing, GivenUp, Gone

LEMMA PhaseNext ==
  ASSUME Inv, [Next]_vars, NEW t \in Streams
  PROVE  Phase(t)'
<1>0. TypeOK /\ Phase(t)
  BY DEF Inv
<1>1. CASE UNCHANGED vars
  BY <1>0, <1>1, PhaseKept DEF vars, Same
<1>2. ASSUME NEW s \in Streams, Open(s)
      PROVE  Phase(t)'
  <2>1. CASE t = s
    <3>1. Apart(s)
      BY <1>2, <1>0, <2>1, Waiting DEF Open
    <3>2. Listening(s)'
      BY <1>0, <1>2, <3>1, StallAssumption
         DEF TypeOK, Open, Apart, Opened, Unwatched, Listening
    <3>. QED  BY <2>1, <3>2 DEF Phase
  <2>2. CASE t # s
    BY <1>0, <1>2, <2>2, PhaseKept DEF TypeOK, Open, Same
  <2>. QED  BY <2>1, <2>2
<1>3. ASSUME NEW s \in Streams, PassOn(s)
      PROVE  Phase(t)'
  <2>1. CASE t = s
    <3>1. Apart(s)
      BY <1>3, <1>0, <2>1, Waiting DEF PassOn
    <3>2. Apart(s)'
      BY <1>0, <1>3, <3>1 DEF TypeOK, PassOn, Apart
    <3>. QED  BY <2>1, <3>2 DEF Phase
  <2>2. CASE t # s
    BY <1>0, <1>3, <2>2, PhaseKept DEF TypeOK, PassOn, Same
  <2>. QED  BY <2>1, <2>2
<1>4. ASSUME NEW s \in Streams, Chunk(s)
      PROVE  Phase(t)'
  <2>1. CASE t = s
    <3>1. Listening(s)
      BY <1>4, <1>0, <2>1, Waiting DEF Chunk
    <3>2. watched'[s].on /\ watched'[s].paused
      BY <1>0, <1>4, <3>1 DEF TypeOK, Chunk, Listening, Watch
    <3>3. relay'[s] = [holds |-> "chunk", ended |-> "no"]
      BY <1>0, <1>4, <3>1 DEF TypeOK, Chunk, Listening, Flowing
    <3>4. Handing(s)'
      BY <1>0, <1>4, <3>1, <3>2, <3>3 DEF TypeOK, Chunk, Listening, Handing
    <3>. QED  BY <2>1, <3>4 DEF Phase
  <2>2. CASE t # s
    BY <1>0, <1>4, <2>2, PhaseKept DEF TypeOK, Chunk, Same
  <2>. QED  BY <2>1, <2>2
<1>5. ASSUME NEW s \in Streams, Taken(s)
      PROVE  Phase(t)'
  <2>1. CASE t = s
    <3>1. Handing(s)
      BY <1>5, <1>0, <2>1, Waiting DEF Taken
    <3>2. watched'[s].on /\ ~watched'[s].paused /\ watched'[s].silent = 0
      BY <1>0, <1>5, <3>1 DEF TypeOK, Taken, Handing, Resumed, Watch
    <3>3. relay'[s] = Flowing
      BY <1>0, <1>5, <3>1 DEF TypeOK, Taken, Handing, Flowing
    <3>4. waited[s] = 0
      BY <3>1 DEF Handing
    <3>5. Listening(s)'
      BY <1>0, <1>5, <3>1, <3>2, <3>3, <3>4 DEF TypeOK, Taken, Listening, Handing
    <3>. QED  BY <2>1, <3>5 DEF Phase
  <2>2. CASE t # s
    BY <1>0, <1>5, <2>2, PhaseKept DEF TypeOK, Taken, Same
  <2>. QED  BY <2>1, <2>2
<1>6. ASSUME NEW s \in Streams, ChunkRefused(s) \/ BotEnds(s) \/ Cancelled(s)
      PROVE  Phase(t)'
  <2>1. PICK how \in {"closed", "aborted"} : Finish(s, how, "nothing")
    BY <1>6 DEF ChunkRefused, BotEnds, Cancelled
  <2>2. CASE t = s
    <3>1. Listening(s) \/ (GivenUp(s) /\ upstream'[s] = upstream[s])
      BY <1>6, <1>0, <2>2, Waiting DEF ChunkRefused, BotEnds, Cancelled
    <3>2. Gone(s)'
      BY <1>0, <2>1, <3>1, PhaseFinish
    <3>. QED  BY <2>2, <3>2 DEF Phase
  <2>3. CASE t # s
    <3>1. upstream'[t] = upstream[t] /\ waited'[t] = waited[t] /\ audit'[t] = audit[t]
      BY <1>0, <1>6, <2>3 DEF TypeOK, ChunkRefused, BotEnds, Cancelled
    <3>. QED  BY <1>0, <2>1, <2>3, <3>1, FinishOthers, PhaseKept DEF Same
  <2>. QED  BY <2>2, <2>3
<1>7. ASSUME NEW s \in Streams, Leave(s)
      PROVE  Phase(t)'
  <2>1. UNCHANGED <<upstream, waited, audit>>
    BY <1>7 DEF Leave
  <2>2. CASE pump[s] = "writing"
    <3>1. Finish(s, "aborted", "nothing")
      BY <1>7, <2>2 DEF Leave
    <3>2. CASE t = s
      <4>1. Handing(s)
        BY <1>0, <2>2, <3>2, Waiting
      <4>2. Gone(s)'
        BY <1>0, <2>1, <3>1, <4>1, PhaseFinish
      <4>. QED  BY <3>2, <4>2 DEF Phase
    <3>3. CASE t # s
      BY <1>0, <2>1, <3>1, <3>3, FinishOthers, PhaseKept DEF Same
    <3>. QED  BY <3>2, <3>3
  <2>3. CASE pump[s] # "writing"
    <3>1. /\ pump[s] = "reading" /\ relay' = [relay EXCEPT ![s].holds = "nothing"]
          /\ UNCHANGED <<streams, watched, pump, endings>>
      BY <1>7, <2>3 DEF Leave
    <3>2. CASE t = s /\ Listening(s)
      <4>1. relay'[s] = Flowing
        BY <1>0, <3>1, <3>2 DEF TypeOK, Listening, Flowing
      <4>2. Listening(s)'
        BY <2>1, <3>1, <3>2, <4>1 DEF Listening
      <4>. QED  BY <3>2, <4>2 DEF Phase
    <3>3. CASE t = s /\ GivenUp(s)
      <4>1. relay'[s].holds = "nothing" /\ relay'[s].ended = "closed"
        BY <1>0, <3>1, <3>3 DEF TypeOK, GivenUp
      <4>2. GivenUp(s)'
        BY <2>1, <3>1, <3>3, <4>1 DEF GivenUp
      <4>. QED  BY <3>3, <4>2 DEF Phase
    <3>4. CASE t # s
      BY <1>0, <2>1, <3>1, <3>4, PhaseKept DEF TypeOK, Same
    <3>. QED  BY <1>0, <3>1, <3>2, <3>3, <3>4, Waiting
  <2>. QED  BY <2>2, <2>3
<1>8. ASSUME NEW s \in Streams, Hear(s)
      PROVE  Phase(t)'
  <2>1. CASE t = s
    <3>1. /\ relay'[s].holds = "heard" /\ relay'[s].ended = relay[s].ended
          /\ relay[s].holds = "sentence"
      BY <1>0, <1>8 DEF TypeOK, Hear
    <3>2. GivenUp(s) \/ Gone(s)
      BY <1>0, <2>1, <3>1 DEF Phase, Apart, Listening, Handing, Flowing
    <3>3. GivenUp(s)' \/ Gone(s)'
      BY <1>8, <3>1, <3>2 DEF Hear, GivenUp, Gone
    <3>. QED  BY <2>1, <3>3 DEF Phase
  <2>2. CASE t # s
    BY <1>0, <1>8, <2>2, PhaseKept DEF TypeOK, Hear, Same
  <2>. QED  BY <2>1, <2>2
<1>9. ASSUME NEW s \in Streams, Record(s)
      PROVE  Phase(t)'
  <2>1. UNCHANGED <<streams, watched, pump, upstream, relay, waited, endings>>
    BY <1>9 DEF Record
  <2>2. /\ audit'[t] = "none" => audit[t] = "none"
        /\ audit[t] = "none" => audit'[t] = "none"
    BY <1>0, <1>9 DEF TypeOK, Record
  <2>. QED  BY <1>0, <2>1, <2>2 DEF Phase, Apart, Listening, Handing, GivenUp, Gone
<1>10. CASE Sweep
  <2>. DEFINE found == {s \in Streams : Silent(s)}
              given == {s \in found : Releasable(s)}
  <2>1. CASE t \in found
    <3>1. Listening(t) /\ t \in given
      BY <1>0, <2>1, Waiting DEF Silent, Listening, Handing, Releasable
    <3>2. /\ relay'[t] = [holds |-> Sentence(t), ended |-> "closed"]
          /\ watched'[t] = Unwatched /\ upstream'[t] = "cancelled" /\ audit'[t] = "asked"
          /\ endings'[t] = endings[t] + 1 /\ t \notin streams' /\ pump' = pump
      BY <1>10, <2>1, <3>1 DEF Sweep
    <3>3. Sentence(t) \in {"nothing", "sentence"} /\ (Sentence(t) # "nothing" => t \notin Protobuf)
      BY DEF Sentence
    <3>4. GivenUp(t)'
      BY <3>1, <3>2, <3>3 DEF GivenUp, Listening, Unwatched
    <3>. QED  BY <3>4 DEF Phase
  <2>2. CASE t \notin found
    BY <1>0, <1>10, <2>2, PhaseKept DEF TypeOK, Sweep, Same
  <2>. QED  BY <2>1, <2>2
<1>11. CASE Stop
  BY <1>0, <1>11, PhaseKept DEF Stop, Same
<1>12. CASE Tick
  <2>1. UNCHANGED <<streams, pump, upstream, relay, audit, endings>>
    BY <1>12 DEF Tick
  <2>2. /\ watched'[t].on = watched[t].on /\ watched'[t].paused = watched[t].paused
        /\ watched[t].on => watched'[t].silent = Later(watched[t].silent)
        /\ waited'[t] = IF pump[t] = "reading" THEN Later(waited[t]) ELSE waited[t]
    BY <1>0, <1>12 DEF TypeOK, Tick, Watch
  <2>3. CASE Apart(t)
    BY <2>1, <2>2, <2>3 DEF Apart, Phase
  <2>4. CASE Listening(t)
    BY <2>1, <2>2, <2>4 DEF Listening, Phase
  <2>5. CASE Handing(t)
    BY <2>1, <2>2, <2>5 DEF Handing, Phase
  <2>6. CASE GivenUp(t)
    BY <2>1, <2>2, <2>6 DEF GivenUp, Phase
  <2>7. CASE Gone(t)
    BY <2>1, <2>2, <2>7 DEF Gone, Phase
  <2>. QED  BY <1>0, <2>3, <2>4, <2>5, <2>6, <2>7 DEF Phase
<1>. QED
  BY <1>1, <1>2, <1>3, <1>4, <1>5, <1>6, <1>7, <1>8, <1>9, <1>10, <1>11, <1>12 DEF Next

----------------------------------------------------------------------------
(* The timer. *)

LEMMA SetNext ==
  ASSUME Inv, [Next]_vars
  PROVE  Set'
<1>0. TypeOK /\ Set /\ \A s \in Streams : Phase(s)
  BY DEF Inv
<1>1. CASE UNCHANGED <<sweeper, stopped>> /\ streams' \subseteq streams
  BY <1>0, <1>1 DEF Set
<1>2. CASE \E s \in Streams : Open(s)
  BY <1>2 DEF Open, Set
<1>3. CASE Stop
  BY <1>3 DEF Stop, Set
<1>4. CASE Sweep
  <2>. DEFINE found == {s \in Streams : Silent(s)}
  <2>1. ASSUME streams' # {}, ~stopped
        PROVE  sweeper'
    <3>1. PICK s \in Streams : s \in streams'
      BY <1>0, <1>4, <2>1 DEF Sweep, TypeOK
    <3>2. s \in streams /\ s \notin found
      BY <1>4, <3>1 DEF Sweep, Releasable
    <3>3. watched[s].on
      BY <1>0, <3>1, <3>2 DEF Phase, Apart, Listening, Handing, GivenUp, Gone
    <3>. QED  BY <1>4, <3>1, <3>2, <3>3 DEF Sweep, KeptOn, Watching
  <2>. QED  BY <2>1, <1>4 DEF Sweep, Set
<1>5. ASSUME NEW s \in Streams,
             \/ PassOn(s) \/ Chunk(s) \/ ChunkRefused(s) \/ Taken(s) \/ BotEnds(s) \/ Cancelled(s)
             \/ Leave(s) \/ Hear(s) \/ Record(s)
      PROVE  Set'
  <2>1. UNCHANGED <<sweeper, stopped>> /\ streams' \subseteq streams
    BY <1>5 DEF PassOn, Chunk, ChunkRefused, Taken, BotEnds, Cancelled, Leave, Hear, Record, Finish
  <2>. QED  BY <2>1, <1>1
<1>6. CASE Tick \/ UNCHANGED vars
  <2>1. UNCHANGED <<sweeper, stopped>> /\ streams' \subseteq streams
    BY <1>6 DEF Tick, vars
  <2>. QED  BY <2>1, <1>1
<1>. QED
  BY <1>2, <1>3, <1>4, <1>5, <1>6 DEF Next

----------------------------------------------------------------------------
(* Theorems *)

LEMMA Invariance == Spec => []Inv
<1>1. Init => Inv
  <2>1. ASSUME Init, NEW s \in Streams
        PROVE  Apart(s)
    BY <2>1 DEF Init, Apart, Unwatched
  <2>2. Init => Set
    BY DEF Init, Set
  <2>. QED  BY <2>1, <2>2, TypeInit DEF Inv, Phase
<1>2. Inv /\ [Next]_vars => Inv'
  <2>. SUFFICES ASSUME Inv, [Next]_vars
                PROVE  Inv'
    OBVIOUS
  <2>1. \A s \in Streams : Phase(s)'
    BY PhaseNext
  <2>2. TypeOK' /\ Set'
    BY TypeNext, SetNext DEF Inv
  <2>. QED  BY <2>1, <2>2 DEF Inv
<1>. QED
  BY <1>1, <1>2, PTL DEF Spec

\* Every map and stream keeps its shape (createStallGuard, TurnWatchdog).
THEOREM TypeCorrect == Spec => []TypeOK
<1>1. Inv => TypeOK
  BY DEF Inv
<1>. QED
  BY <1>1, Invariance, PTL

\* Of the pump and the stall one ends a stream, once, and the sentence is the last of a
\* stream that the stall closed (release, giveUp, pump).
THEOREM StreamsEndOnce == Spec => []EndedOnce
<1>1. Inv => EndedOnce
  <2>. SUFFICES ASSUME Inv, NEW s \in Streams
                PROVE  /\ endings[s] = IF relay[s].ended = "no" THEN 0 ELSE 1
                       /\ pump[s] = "over" => endings[s] = 1
                       /\ relay[s].holds \in {"sentence", "heard"} =>
                            upstream[s] = "cancelled" /\ relay[s].ended = "closed" /\ s \notin Protobuf
    BY DEF EndedOnce
  <2>. QED
    BY DEF Inv, Phase, Apart, Listening, Handing, GivenUp, Gone, Flowing
<1>. QED
  BY <1>1, Invariance, PTL

\* The guard and the watchdog keep the same streams, and while there is one the timer is
\* set, unless the server is stopping (arm, disarm, release).
THEOREM WatchesAgree == Spec => []WatchAgrees
<1>1. Inv => WatchAgrees
  <2>. SUFFICES ASSUME Inv
                PROVE  WatchAgrees
    OBVIOUS
  <2>1. \A s \in Streams : /\ s \in streams <=> watched[s].on
                           /\ s \in streams <=> pump[s] \in {"reading", "writing"} /\ relay[s].ended = "no"
    <3>. SUFFICES ASSUME NEW s \in Streams
                  PROVE  /\ s \in streams <=> watched[s].on
                         /\ s \in streams <=> pump[s] \in {"reading", "writing"} /\ relay[s].ended = "no"
      OBVIOUS
    <3>1. Phase(s)
      BY DEF Inv
    <3>2. CASE Apart(s)
      BY <3>2 DEF Apart
    <3>3. CASE Listening(s)
      BY <3>3 DEF Listening, Flowing
    <3>4. CASE Handing(s)
      BY <3>4 DEF Handing
    <3>5. CASE GivenUp(s)
      BY <3>5 DEF GivenUp
    <3>6. CASE Gone(s)
      BY <3>6 DEF Gone
    <3>. QED  BY <3>1, <3>2, <3>3, <3>4, <3>5, <3>6 DEF Phase
  <2>2. streams \subseteq Streams /\ Set
    BY DEF Inv, TypeOK
  <2>. QED  BY <2>1, <2>2 DEF WatchAgrees, Watching, Set
<1>. QED
  BY <1>1, Invariance, PTL

\* A turn is given up only when its Bot has been waited for as long as the limit (pause,
\* resume, sweep).
THEOREM OnlySilenceIsEnded == Spec => OnlySilenceEnds
<1>1. ASSUME Inv, [Next]_vars
      PROVE  [\A s \in Streams : audit[s] = "none" /\ audit'[s] # "none"
               => pump[s] = "reading" /\ waited[s] = Stall]_vars
  <2>. SUFFICES ASSUME NEW s \in Streams, audit[s] = "none", audit'[s] # "none"
                PROVE  pump[s] = "reading" /\ waited[s] = Stall
    OBVIOUS
  <2>1. CASE Sweep
    <3>1. Silent(s)
      BY <2>1 DEF Sweep
    <3>3. Phase(s) /\ watched[s].on /\ ~watched[s].paused
      BY <1>1, <3>1 DEF Inv, Silent
    <3>2. Listening(s)
      BY <3>3, Waiting DEF Handing
    <3>. QED  BY <3>1, <3>2 DEF Silent, Listening
  <2>2. CASE \E t \in Streams : Record(t)
    BY <1>1, <2>2 DEF Record, Inv, TypeOK
  <2>3. CASE UNCHANGED audit
    BY <2>3
  <2>4. ASSUME NEW t \in Streams,
               \/ Open(t) \/ PassOn(t) \/ Chunk(t) \/ ChunkRefused(t) \/ Taken(t) \/ BotEnds(t)
               \/ Cancelled(t) \/ Leave(t) \/ Hear(t)
        PROVE  UNCHANGED audit
    BY <2>4 DEF Open, PassOn, Chunk, ChunkRefused, Taken, BotEnds, Cancelled, Leave, Hear
  <2>5. CASE Stop \/ Tick \/ UNCHANGED vars
    BY <2>5, <2>3 DEF Stop, Tick, vars
  <2>6. UNCHANGED audit => FALSE
    OBVIOUS
  <2>. QED
    BY <2>1, <2>2, <2>4, <2>5, <2>6, <1>1 DEF Next
<1>2. Spec => [][\A s \in Streams : audit[s] = "none" /\ audit'[s] # "none"
                   => pump[s] = "reading" /\ waited[s] = Stall]_vars
  BY <1>1, Invariance, PTL DEF Spec
<1>. QED
  BY <1>2 DEF OnlySilenceEnds

----------------------------------------------------------------------------
(* The conversation in front of the streams: what one tab parks, sends and *)
(* says while turns begin and end (Composer)                               *)

CONSTANTS MaxSends, MaxButtons, MaxFailures
VARIABLES box, sends, queue, sending, running, turns, wire, active, first, shown, owed, due,
          said, taken, buttons, failures, unseen

Co == INSTANCE Composer

\* What the run of Composer checks, under the names it has there.
SaidOnce == Co!SaidOnce
InTurn == Co!InTurn

(* Sequences of messages *)

Among(q) == {q[i] : i \in DOMAIN q}
Distinct(q) == \A i, j \in DOMAIN q : q[i] = q[j] => i = j
Rising(q) == \A i, j \in DOMAIN q : i < j => q[i] < q[j]
Under(A, B) == \A a \in A, b \in B : a < b

LEMMA NoneAmong == Among(<<>>) = {} /\ Distinct(<<>>) /\ Rising(<<>>)
BY DEF Among, Distinct, Rising

LEMMA OneAmong == \A m : Among(<<m>>) = {m} /\ Distinct(<<m>>) /\ Rising(<<m>>)
BY DEF Among, Distinct, Rising

LEMMA AppendedAmong ==
  ASSUME NEW S, NEW q \in Seq(S), NEW m \in S
  PROVE  /\ Append(q, m) \in Seq(S) /\ Len(Append(q, m)) = Len(q) + 1
         /\ Among(Append(q, m)) = Among(q) \cup {m}
         /\ Distinct(q) /\ m \notin Among(q) => Distinct(Append(q, m))
         /\ Rising(q) /\ Under(Among(q), {m}) => Rising(Append(q, m))
<1>1. /\ Append(q, m) \in Seq(S) /\ Len(Append(q, m)) = Len(q) + 1
      /\ DOMAIN q = 1..Len(q) /\ DOMAIN Append(q, m) = 1..(Len(q) + 1) /\ Len(q) \in Nat
      /\ \A i \in 1..Len(q) : Append(q, m)[i] = q[i]
      /\ Append(q, m)[Len(q) + 1] = m
  OBVIOUS
<1> DEFINE r == Append(q, m)
<1> HIDE DEF r
<1>2. /\ DOMAIN r = DOMAIN q \cup {Len(q) + 1} /\ Len(q) + 1 \notin DOMAIN q
      /\ \A i \in DOMAIN q : r[i] = q[i] /\ i < Len(q) + 1 /\ i \in Nat
      /\ r[Len(q) + 1] = m
  BY <1>1 DEF r
<1>3. Among(r) = Among(q) \cup {m}
  BY <1>2 DEF Among
<1>4. Distinct(q) /\ m \notin Among(q) => Distinct(r)
  BY <1>2 DEF Distinct, Among
<1>5. ASSUME Rising(q), Under(Among(q), {m}), NEW i \in DOMAIN r, NEW j \in DOMAIN r, i < j
      PROVE  r[i] < r[j]
  <2>1. i \in DOMAIN q
    BY <1>1, <1>2, <1>5
  <2>2. CASE j \in DOMAIN q
    BY <1>2, <1>5, <2>1, <2>2 DEF Rising
  <2>3. CASE j = Len(q) + 1
    BY <1>2, <1>5, <2>1, <2>3 DEF Under, Among
  <2> QED BY <1>2, <2>2, <2>3
<1>6. Rising(q) /\ Under(Among(q), {m}) => Rising(r)
  BY <1>5 DEF Rising
<1> QED BY <1>1, <1>3, <1>4, <1>6 DEF r

LEMMA Joined ==
  ASSUME NEW S, NEW p \in Seq(S), NEW q \in Seq(S)
  PROVE  /\ p \o q \in Seq(S) /\ Len(p \o q) = Len(p) + Len(q)
         /\ \A i \in 1..Len(p) : (p \o q)[i] = p[i]
         /\ \A i \in 1..Len(q) : (p \o q)[Len(p) + i] = q[i]
OBVIOUS

LEMMA JoinedAmong ==
  ASSUME NEW S, NEW p \in Seq(S), NEW q \in Seq(S)
  PROVE  /\ p \o q \in Seq(S)
         /\ Among(p \o q) = Among(p) \cup Among(q)
         /\ Distinct(p) /\ Distinct(q) /\ Among(p) \cap Among(q) = {} => Distinct(p \o q)
         /\ Rising(p) /\ Rising(q) /\ Under(Among(p), Among(q)) => Rising(p \o q)
<1> DEFINE r == p \o q  n == Len(p)
<1>1. /\ r \in Seq(S) /\ n \in Nat /\ Len(q) \in Nat /\ DOMAIN r = 1..(n + Len(q))
      /\ DOMAIN p = 1..n /\ DOMAIN q = 1..Len(q)
      /\ \A i \in DOMAIN p : r[i] = p[i]
      /\ \A i \in DOMAIN q : r[n + i] = q[i]
  OBVIOUS
<1> HIDE DEF r, n
<1>2. /\ \A i \in DOMAIN p : i \in DOMAIN r
      /\ \A i \in DOMAIN q : n + i \in DOMAIN r
  BY <1>1
<1>3. ASSUME NEW i \in DOMAIN r
      PROVE  \/ i \in DOMAIN p /\ r[i] = p[i]
             \/ i > n /\ i - n \in DOMAIN q /\ r[i] = q[i - n]
  <2>0. i \in 1..(n + Len(q))
    BY <1>1
  <2>1. CASE i <= n
    <3>1. i \in DOMAIN p
      BY <1>1, <2>0, <2>1
    <3> QED BY <1>1, <3>1
  <2>2. CASE i > n
    <3>1. i - n \in DOMAIN q /\ n + (i - n) = i
      BY <1>1, <2>2
    <3> QED BY <1>1, <2>2, <3>1
  <2> QED BY <1>1, <2>1, <2>2
<1>4. Among(r) = Among(p) \cup Among(q)
  <2>1. ASSUME NEW i \in DOMAIN r PROVE r[i] \in Among(p) \cup Among(q)
    BY <1>3 DEF Among
  <2>2. \A i \in DOMAIN p : p[i] \in Among(r)
    BY <1>1, <1>2 DEF Among
  <2>3. \A i \in DOMAIN q : q[i] \in Among(r)
    BY <1>1, <1>2 DEF Among
  <2> QED BY <2>1, <2>2, <2>3 DEF Among
<1>5. ASSUME Distinct(p), Distinct(q), Among(p) \cap Among(q) = {},
             NEW i \in DOMAIN r, NEW j \in DOMAIN r, r[i] = r[j]
      PROVE  i = j
  <2>1. CASE i \in DOMAIN p /\ r[i] = p[i] /\ j \in DOMAIN p /\ r[j] = p[j]
    BY <1>5, <2>1 DEF Distinct
  <2>2. CASE i - n \in DOMAIN q /\ r[i] = q[i - n] /\ j - n \in DOMAIN q /\ r[j] = q[j - n]
    <3>1. i - n = j - n
      BY <1>5, <2>2 DEF Distinct
    <3>2. i \in Nat /\ j \in Nat
      BY <1>1
    <3> QED BY <1>1, <3>1, <3>2
  <2>3. CASE \/ r[i] \in Among(p) /\ r[j] \in Among(q)
             \/ r[i] \in Among(q) /\ r[j] \in Among(p)
    BY <1>5, <2>3
  <2> QED BY <1>3, <2>1, <2>2, <2>3 DEF Among
<1>6. ASSUME Rising(p), Rising(q), Under(Among(p), Among(q)),
             NEW i \in DOMAIN r, NEW j \in DOMAIN r, i < j
      PROVE  r[i] < r[j]
  <2>0. i \in Nat /\ j \in Nat
    BY <1>1
  <2>1. CASE j \in DOMAIN p
    <3>1. i \in DOMAIN p
      BY <1>1, <1>6, <2>0, <2>1
    <3> QED BY <1>1, <1>6, <2>1, <3>1 DEF Rising
  <2>2. CASE i \in DOMAIN p /\ j \notin DOMAIN p
    <3>1. r[i] \in Among(p) /\ r[j] \in Among(q)
      BY <1>1, <1>3, <2>2 DEF Among
    <3> QED BY <1>6, <3>1 DEF Under
  <2>3. CASE i \notin DOMAIN p /\ j \notin DOMAIN p
    <3>1. i - n \in DOMAIN q /\ r[i] = q[i - n] /\ j - n \in DOMAIN q /\ r[j] = q[j - n]
      BY <1>3, <2>3
    <3>2. i - n < j - n
      BY <1>1, <1>6, <2>0
    <3> QED BY <1>6, <3>1, <3>2 DEF Rising
  <2>4. CASE i \notin DOMAIN p /\ j \in DOMAIN p
    BY <1>1, <1>6, <2>0, <2>4
  <2> QED BY <2>1, <2>2, <2>3, <2>4
<1> QED BY <1>1, <1>4, <1>5, <1>6 DEF r, Distinct, Rising

LEMMA RemovedAmong ==
  ASSUME NEW S, NEW q \in Seq(S), NEW i \in DOMAIN q
  PROVE  /\ Co!RemoveAt(q, i) \in Seq(S) /\ Len(Co!RemoveAt(q, i)) <= Len(q)
         /\ Distinct(q) => /\ Among(Co!RemoveAt(q, i)) = Among(q) \ {q[i]}
                           /\ Distinct(Co!RemoveAt(q, i))
         /\ Rising(q) => Rising(Co!RemoveAt(q, i))
<1> DEFINE r == Co!RemoveAt(q, i)
<1>0. i \in 1..Len(q) /\ Len(q) \in Nat /\ DOMAIN q = 1..Len(q)
  OBVIOUS
<1>1. /\ r \in Seq(S) /\ Len(r) = Len(q) - 1
      /\ \A j \in 1..(Len(q) - 1) : r[j] = IF j < i THEN q[j] ELSE q[j + 1]
  <2> DEFINE a == SubSeq(q, 1, i - 1)  b == SubSeq(q, i + 1, Len(q))
  <2>1. /\ a \in Seq(S) /\ Len(a) = i - 1 /\ DOMAIN a = 1..(i - 1)
        /\ \A j \in 1..(i - 1) : a[j] = q[j]
    BY <1>0
  <2>2. /\ b \in Seq(S) /\ Len(b) = Len(q) - i /\ DOMAIN b = 1..(Len(q) - i)
        /\ \A j \in 1..(Len(q) - i) : b[j] = q[j + i]
    BY <1>0
  <2>3. r = a \o b
    BY DEF Co!RemoveAt
  <2> HIDE DEF a, b, r
  <2>4. /\ r \in Seq(S) /\ Len(r) = Len(q) - 1
        /\ \A j \in 1..(i - 1) : r[j] = a[j]
        /\ \A j \in 1..(Len(q) - i) : r[(i - 1) + j] = b[j]
    <3>1. /\ r \in Seq(S) /\ Len(r) = Len(a) + Len(b)
          /\ \A j \in 1..Len(a) : r[j] = a[j]
          /\ \A j \in 1..Len(b) : r[Len(a) + j] = b[j]
      <4>1. a \in Seq(S) /\ b \in Seq(S)
        BY <2>1, <2>2
      <4>2. /\ a \o b \in Seq(S) /\ Len(a \o b) = Len(a) + Len(b)
            /\ \A j \in 1..Len(a) : (a \o b)[j] = a[j]
            /\ \A j \in 1..Len(b) : (a \o b)[Len(a) + j] = b[j]
        BY <4>1, Joined
      <4> QED BY <2>3, <4>2
    <3> QED BY <1>0, <2>1, <2>2, <3>1
  <2>5. ASSUME NEW j \in 1..(Len(q) - 1)
        PROVE  r[j] = IF j < i THEN q[j] ELSE q[j + 1]
    <3>1. CASE j < i
      <4>1. j \in 1..(i - 1)
        BY <1>0, <3>1
      <4> QED BY <2>1, <2>4, <3>1, <4>1
    <3>2. CASE j >= i
      <4> DEFINE k == j - (i - 1)
      <4>1. k \in 1..(Len(q) - i) /\ (i - 1) + k = j /\ k + i = j + 1
        BY <1>0, <3>2
      <4>2. r[j] = b[k] /\ b[k] = q[j + 1]
        BY <2>2, <2>4, <4>1
      <4> QED BY <1>0, <3>2, <4>2
    <3> QED BY <1>0, <3>1, <3>2
  <2> QED BY <2>4, <2>5
<1>2. DOMAIN r = 1..(Len(q) - 1)
  BY <1>1
<1> HIDE DEF r
<1>3. ASSUME NEW j \in DOMAIN r
      PROVE  /\ j < i => j \in DOMAIN q /\ r[j] = q[j]
             /\ j >= i => j + 1 \in DOMAIN q /\ r[j] = q[j + 1]
  BY <1>0, <1>1, <1>2
<1>4. ASSUME NEW j \in DOMAIN q, j # i
      PROVE  \E k \in DOMAIN r : r[k] = q[j]
  <2>1. CASE j < i
    <3>1. j \in DOMAIN r
      BY <1>0, <1>2, <2>1
    <3> QED BY <1>3, <2>1, <3>1
  <2>2. CASE j > i
    <3>1. j - 1 \in DOMAIN r /\ j - 1 >= i /\ (j - 1) + 1 = j
      BY <1>0, <1>2, <2>2
    <3> QED BY <1>3, <3>1
  <2> QED BY <1>0, <1>4, <2>1, <2>2
<1>5. ASSUME Distinct(q) PROVE Among(r) = Among(q) \ {q[i]}
  <2>1. ASSUME NEW j \in DOMAIN r PROVE r[j] \in Among(q) /\ r[j] # q[i]
    <3>1. CASE j < i
      <4>1. j \in DOMAIN q /\ r[j] = q[j] /\ j # i
        BY <1>0, <1>3, <3>1
      <4> QED BY <1>5, <4>1 DEF Among, Distinct
    <3>2. CASE j >= i
      <4>1. j + 1 \in DOMAIN q /\ r[j] = q[j + 1] /\ j + 1 # i
        BY <1>0, <1>2, <1>3, <3>2
      <4> QED BY <1>5, <4>1 DEF Among, Distinct
    <3> QED BY <1>0, <1>2, <3>1, <3>2
  <2> QED BY <1>4, <2>1 DEF Among
<1>6. ASSUME Distinct(q), NEW j \in DOMAIN r, NEW k \in DOMAIN r, r[j] = r[k] PROVE j = k
  <2>1. PICK a \in DOMAIN q : r[j] = q[a] /\ a = (IF j < i THEN j ELSE j + 1)
    BY <1>0, <1>2, <1>3
  <2>2. PICK b \in DOMAIN q : r[k] = q[b] /\ b = (IF k < i THEN k ELSE k + 1)
    BY <1>0, <1>2, <1>3
  <2>3. a = b
    BY <1>6, <2>1, <2>2 DEF Distinct
  <2> QED BY <1>0, <1>2, <2>1, <2>2, <2>3
<1>7. ASSUME Rising(q), NEW j \in DOMAIN r, NEW k \in DOMAIN r, j < k PROVE r[j] < r[k]
  <2>1. PICK a \in DOMAIN q : r[j] = q[a] /\ a = (IF j < i THEN j ELSE j + 1)
    BY <1>0, <1>2, <1>3
  <2>2. PICK b \in DOMAIN q : r[k] = q[b] /\ b = (IF k < i THEN k ELSE k + 1)
    BY <1>0, <1>2, <1>3
  <2>3. a < b
    BY <1>0, <1>2, <1>7, <2>1, <2>2
  <2> QED BY <1>7, <2>1, <2>2, <2>3 DEF Rising
<1> QED BY <1>0, <1>1, <1>5, <1>6, <1>7 DEF r, Distinct, Rising

LEMMA Counting == \A A : Co!Cardinality(A) = Cardinality(A)
BY DEF Co!Cardinality, Cardinality

LEMMA Once ==
  ASSUME NEW S, NEW q \in Seq(S), NEW m, Distinct(q)
  PROVE  Co!Times(m, q) = IF m \in Among(q) THEN 1 ELSE 0
<1> DEFINE A == {i \in DOMAIN q : q[i] = m}
<1>1. CASE m \in Among(q)
  <2>1. PICK i \in DOMAIN q : q[i] = m
    BY <1>1 DEF Among
  <2>2. A = {i}
    BY <2>1 DEF Distinct
  <2> QED BY <1>1, <2>2, FS_Singleton, Counting DEF Co!Times
<1>2. CASE m \notin Among(q)
  <2>1. A = {}
    BY <1>2 DEF Among
  <2> QED BY <1>2, <2>1, FS_EmptySet, Counting DEF Co!Times
<1> QED BY <1>1, <1>2
----------------------------------------------------------------------------
(* Types of the conversation *)

\* What Composer assumes of its constants.
Limits == MaxSends \in Nat /\ MaxButtons \in Nat /\ MaxFailures \in Nat

\* Every turn stands for a press of a button or a message that was sent, and what
\* waits may still become one.
Counted == Len(turns) + buttons + Len(queue) + first <= MaxButtons + sends

ComposerTyped ==
  /\ Limits
  /\ box \in BOOLEAN /\ sending \in BOOLEAN /\ running \in BOOLEAN /\ wire \in BOOLEAN
  /\ active \in BOOLEAN /\ owed \in BOOLEAN /\ due \in BOOLEAN
  /\ sends \in 0..MaxSends /\ first \in {0, 1} /\ first <= sends
  /\ queue \in Seq(Co!Ids) /\ said \in Seq(Co!Ids) /\ taken \subseteq Co!Ids
  /\ turns \in Seq(Co!Turn)
  /\ shown \in [inFlight : BOOLEAN, sending : BOOLEAN, disabled : BOOLEAN]
  /\ buttons \in 0..MaxButtons /\ failures \in 0..MaxFailures
  /\ unseen \subseteq DOMAIN turns
  /\ Counted

Makers == {"composer", "drain", "button", "first"}
Steps == {"preparing", "running", "over"}

LEMMA Begun ==
  ASSUME turns \in Seq(Co!Turn), NEW by \in Makers, NEW st \in Steps, NEW w \in Seq(Co!Ids),
         Co!Begin(by, st, w)
  PROVE  /\ turns' \in Seq(Co!Turn) /\ Len(turns') = Len(turns) + 1
         /\ DOMAIN turns = 1..Len(turns) /\ Len(turns) \in Nat
         /\ DOMAIN turns' = DOMAIN turns \cup {Len(turns) + 1}
         /\ Len(turns) + 1 \notin DOMAIN turns
         /\ \A t \in DOMAIN turns : turns'[t] = turns[t]
         /\ turns'[Len(turns) + 1].by = by
         /\ turns'[Len(turns) + 1].step = st
         /\ turns'[Len(turns) + 1].words = w
<1> DEFINE r == [by |-> by, step |-> st, words |-> w]
<1>1. r \in Co!Turn /\ r.by = by /\ r.step = st /\ r.words = w
  BY DEF Co!Turn, Makers, Steps
<1>2. turns' = Append(turns, r)
  BY DEF Co!Begin
<1> HIDE DEF r
<1> QED BY <1>1, <1>2

LEMMA Moved ==
  ASSUME turns \in Seq(Co!Turn), NEW t \in DOMAIN turns, NEW st \in Steps,
         turns' = [turns EXCEPT ![t].step = st]
  PROVE  /\ turns' \in Seq(Co!Turn) /\ Len(turns') = Len(turns) /\ DOMAIN turns' = DOMAIN turns
         /\ \A u \in DOMAIN turns : u # t => turns'[u] = turns[u]
         /\ turns'[t].by = turns[t].by /\ turns'[t].words = turns[t].words
         /\ turns'[t].step = st
<1> DEFINE r == [turns[t] EXCEPT !.step = st]
<1>1. turns[t] \in Co!Turn
  OBVIOUS
<1>2. /\ r \in Co!Turn /\ r.by = turns[t].by /\ r.words = turns[t].words /\ r.step = st
  BY <1>1 DEF Co!Turn, Steps
<1>3. turns' = [turns EXCEPT ![t] = r]
  OBVIOUS
<1> HIDE DEF r
<1> QED BY <1>2, <1>3

LEMMA ScreenType ==
  ComposerTyped => Co!Screen \in [inFlight : BOOLEAN, sending : BOOLEAN, disabled : BOOLEAN]
BY DEF ComposerTyped, Co!Screen, Co!InFlight, Co!Pending

LEMMA ComposerTypeInit == Limits /\ Co!Init => ComposerTyped
<1> SUFFICES ASSUME Limits, Co!Init PROVE ComposerTyped
  OBVIOUS
<1>1. /\ first \in {0, 1} /\ sends = first /\ sends \in 0..MaxSends /\ wire \in BOOLEAN
      /\ first <= sends
      /\ MaxButtons \in 0..MaxButtons /\ MaxFailures \in 0..MaxFailures
  BY DEF Limits, Co!Init
<1>2. shown \in [inFlight : BOOLEAN, sending : BOOLEAN, disabled : BOOLEAN]
  BY <1>1 DEF Co!Init, Co!Screen, Co!InFlight, Co!Pending
<1>3. Counted
  <2>1. Len(turns) = 0 /\ Len(queue) = 0 /\ buttons = MaxButtons /\ sends = first
    BY DEF Co!Init
  <2> QED BY <1>1, <2>1 DEF Counted, Limits
<1>4. /\ <<>> \in Seq(Co!Ids) /\ <<>> \in Seq(Co!Turn) /\ DOMAIN turns = {}
  BY DEF Co!Init
<1> QED BY <1>1, <1>2, <1>3, <1>4 DEF Co!Init, ComposerTyped, Limits

LEMMA ComposerTypeNext == ComposerTyped /\ [Co!Next]_(Co!vars) => ComposerTyped'
<1> SUFFICES ASSUME ComposerTyped, [Co!Next]_(Co!vars) PROVE ComposerTyped'
  OBVIOUS
<1>0. /\ MaxSends \in Nat /\ MaxButtons \in Nat /\ MaxFailures \in Nat
      /\ sends \in Nat /\ sends <= MaxSends /\ first \in {0, 1}
      /\ buttons \in Nat /\ Len(queue) \in Nat /\ Len(turns) \in Nat /\ first <= sends
      /\ Len(turns) + buttons + Len(queue) + first <= MaxButtons + sends
      /\ turns \in Seq(Co!Turn) /\ queue \in Seq(Co!Ids) /\ unseen \subseteq DOMAIN turns
  BY DEF ComposerTyped, Limits, Counted
<1>01. sends < MaxSends => sends + 1 \in Co!Ids
  BY <1>0 DEF Co!Ids
<1>1. CASE Co!Write
  BY <1>1 DEF Co!Write, ComposerTyped, Counted
<1>2. CASE Co!Park
  <2>1. queue' \in Seq(Co!Ids) /\ Len(queue') = Len(queue) + 1
    BY <1>0, <1>01, <1>2, AppendedAmong DEF Co!Park
  <2>2. sends' \in 0..MaxSends /\ sends' = sends + 1 /\ first' <= sends'
    BY <1>0, <1>2 DEF Co!Park
  <2>3. Counted'
    BY <1>0, <1>2, <2>1, <2>2 DEF Co!Park, Counted
  <2> QED BY <1>2, <2>1, <2>2, <2>3 DEF Co!Park, ComposerTyped
<1>3. CASE Co!Send
  <2>1. /\ Append(queue, sends + 1) \in Seq(Co!Ids) /\ sends' = sends + 1 /\ sends' \in 0..MaxSends
        /\ first' <= sends'
    BY <1>0, <1>01, <1>3, AppendedAmong DEF Co!Send
  <2>2. Co!Begin("composer", "preparing", Append(queue, sends + 1))
    BY <1>3 DEF Co!Send, Co!Together
  <2>3. /\ turns' \in Seq(Co!Turn) /\ Len(turns') = Len(turns) + 1
        /\ DOMAIN turns' = DOMAIN turns \cup {Len(turns) + 1}
    BY <1>0, <2>1, <2>2, Begun DEF Makers, Steps
  <2>4. unseen' \subseteq DOMAIN turns'
    BY <1>0, <1>3, <2>3 DEF Co!Send, Co!Unseen
  <2>5. queue' = <<>> /\ queue' \in Seq(Co!Ids) /\ Len(queue') = 0
    BY <1>3 DEF Co!Send, Co!Drained
  <2>6. Counted'
    BY <1>0, <1>3, <2>1, <2>3, <2>5 DEF Co!Send, Counted
  <2> QED BY <1>3, <2>1, <2>3, <2>4, <2>5, <2>6 DEF Co!Send, ComposerTyped
<1>4. ASSUME NEW m \in Co!Ids, Co!TakeBack(m) PROVE ComposerTyped'
  <2>1. PICK i \in DOMAIN queue : queue' = Co!RemoveAt(queue, i)
    BY <1>4 DEF Co!TakeBack
  <2>2. queue' \in Seq(Co!Ids) /\ Len(queue') <= Len(queue) /\ Len(queue') \in Nat
    BY <1>0, <2>1, RemovedAmong
  <2>3. Counted'
    BY <1>0, <1>4, <2>2 DEF Co!TakeBack, Counted
  <2> QED BY <1>4, <2>2, <2>3 DEF Co!TakeBack, ComposerTyped
<1>5. CASE Co!Ask \/ Co!Retry
  <2>1. PICK st \in Steps : Co!Begin("button", st, <<>>)
    BY <1>5 DEF Co!Ask, Co!Retry, Steps
  <2>2. /\ turns' \in Seq(Co!Turn) /\ Len(turns') = Len(turns) + 1
        /\ DOMAIN turns' = DOMAIN turns \cup {Len(turns) + 1}
    <3>1. <<>> \in Seq(Co!Ids)
      OBVIOUS
    <3> QED BY <1>0, <2>1, <3>1, Begun DEF Makers
  <2>3. buttons' = buttons - 1 /\ buttons' \in 0..MaxButtons /\ due' = TRUE
    BY <1>0, <1>5 DEF Co!Ask, Co!Retry, Co!Press, ComposerTyped
  <2>4. Counted'
    BY <1>0, <1>5, <2>2, <2>3 DEF Co!Ask, Co!Retry, Counted
  <2>5. wire' \in BOOLEAN
    BY <1>5 DEF Co!Ask, Co!Retry, ComposerTyped
  <2> QED BY <1>5, <2>2, <2>3, <2>4, <2>5 DEF Co!Ask, Co!Retry, ComposerTyped
<1>6. CASE Co!Commit
  <2>1. owed' \in BOOLEAN
    BY <1>6 DEF Co!Commit, Co!Noticed
  <2> QED BY <1>6, <2>1, ScreenType DEF Co!Commit, ComposerTyped, Counted
<1>7. CASE Co!Drain
  <2>0. Co!Begin("drain", "preparing", queue)
    BY <1>7 DEF Co!Drain
  <2>1. /\ turns' \in Seq(Co!Turn) /\ Len(turns') = Len(turns) + 1
        /\ DOMAIN turns' = DOMAIN turns \cup {Len(turns) + 1}
    BY <1>0, <2>0, Begun DEF Makers, Steps
  <2>2. unseen' \subseteq DOMAIN turns'
    BY <1>0, <1>7, <2>1 DEF Co!Drain, Co!Unseen
  <2>3. queue' = <<>> /\ queue' \in Seq(Co!Ids) /\ Len(queue') = 0 /\ queue # <<>>
    BY <1>7 DEF Co!Drain, Co!Drained, Co!Drainable
  <2>4. Len(queue) >= 1
    BY <1>0, <2>3
  <2>5. Counted'
    BY <1>0, <1>7, <2>1, <2>3, <2>4 DEF Co!Drain, Counted
  <2> QED BY <1>7, <2>1, <2>2, <2>3, <2>5 DEF Co!Drain, ComposerTyped
<1>8. CASE Co!DrainNothing
  BY <1>8 DEF Co!DrainNothing, ComposerTyped, Counted
<1>9. CASE Co!SayFirst
  <2>1. <<first>> \in Seq(Co!Ids) /\ first = 1
    <3>1. first = 1 /\ sends >= 1
      BY <1>0, <1>9 DEF Co!SayFirst
    <3>2. first \in Co!Ids
      BY <1>0, <3>1 DEF Co!Ids
    <3> QED BY <3>1, <3>2
  <2>2. Co!Begin("first", "preparing", <<first>>)
    BY <1>9 DEF Co!SayFirst
  <2>3. /\ turns' \in Seq(Co!Turn) /\ Len(turns') = Len(turns) + 1
        /\ DOMAIN turns' = DOMAIN turns \cup {Len(turns) + 1}
    BY <1>0, <2>1, <2>2, Begun DEF Makers, Steps
  <2>4. Counted'
    BY <1>0, <1>9, <2>1, <2>3 DEF Co!SayFirst, Counted
  <2> QED BY <1>9, <2>3, <2>4 DEF Co!SayFirst, ComposerTyped
<1>10. ASSUME NEW t \in DOMAIN turns, Co!Deliver(t) PROVE ComposerTyped'
  <2>1. turns' \in Seq(Co!Turn) /\ Len(turns') = Len(turns) /\ DOMAIN turns' = DOMAIN turns
    BY <1>0, <1>10, Moved DEF Co!Deliver, Steps
  <2>2. turns[t].words \in Seq(Co!Ids)
    <3>1. turns[t] \in Co!Turn
      BY <1>0
    <3> QED BY <3>1 DEF Co!Turn
  <2>3. said' \in Seq(Co!Ids)
    BY <1>10, <2>2, JoinedAmong DEF Co!Deliver, ComposerTyped
  <2> QED BY <1>10, <2>1, <2>3 DEF Co!Deliver, ComposerTyped, Counted
<1>11. ASSUME NEW t \in DOMAIN turns, Co!RunEnds(t) \/ Co!RunFails(t) PROVE ComposerTyped'
  <2>1. PICK restored \in BOOLEAN : Co!Over(t, restored)
    BY <1>11 DEF Co!RunEnds, Co!RunFails
  <2>2. turns' \in Seq(Co!Turn) /\ Len(turns') = Len(turns) /\ DOMAIN turns' = DOMAIN turns
    BY <1>0, <2>1, Moved DEF Co!Over, Steps
  <2>3. /\ wire' \in BOOLEAN /\ running' \in BOOLEAN /\ sending' \in BOOLEAN
        /\ box' \in BOOLEAN
    BY <2>1 DEF Co!Over
  <2>4. failures' \in 0..MaxFailures
    <3>1. failures' = failures \/ (failures > 0 /\ failures' = failures - 1)
      BY <1>11 DEF Co!RunEnds, Co!RunFails
    <3>2. failures \in 0..MaxFailures
      BY DEF ComposerTyped
    <3> QED BY <1>0, <3>1, <3>2
  <2> QED BY <2>1, <2>2, <2>3, <2>4 DEF Co!Over, ComposerTyped, Counted
<1>12. CASE Co!Gap
  BY <1>12 DEF Co!Gap, ComposerTyped, Counted
<1>13. CASE Co!JoinedEnds
  BY <1>13 DEF Co!JoinedEnds, ComposerTyped, Counted
<1>14. CASE Co!Delete
  BY <1>14 DEF Co!Delete, ComposerTyped, Counted
<1>15. CASE UNCHANGED Co!vars
  BY <1>15 DEF Co!vars, ComposerTyped, Counted
<1> QED
  BY <1>1, <1>2, <1>3, <1>4, <1>5, <1>6, <1>7, <1>8, <1>9, <1>10, <1>11, <1>12, <1>13,
     <1>14, <1>15 DEF Co!Next, Co!Render

\* The conversation keeps its shape, and no more turns begin than there is something
\* to say (composer.tsx, conversation-view.tsx, channel-chat.tsx).
THEOREM ComposerTypeCorrect == Limits => (Co!Spec => []Co!TypeOK)
<1>1. ComposerTyped => Co!TypeOK
  <2> SUFFICES ASSUME ComposerTyped PROVE Co!TypeOK
    OBVIOUS
  <2>1. Len(turns) <= MaxSends + MaxButtons
    <3>1. /\ Len(turns) \in Nat /\ buttons \in Nat /\ Len(queue) \in Nat /\ first \in Nat
          /\ sends \in Nat /\ sends <= MaxSends /\ MaxSends \in Nat /\ MaxButtons \in Nat
          /\ Len(turns) + buttons + Len(queue) + first <= MaxButtons + sends
      BY DEF ComposerTyped, Limits, Counted
    <3> QED BY <3>1
  <2> QED BY <2>1 DEF ComposerTyped, Co!TypeOK
<1>2. Limits /\ Co!Spec => []ComposerTyped
  BY ComposerTypeInit, ComposerTypeNext, PTL DEF Co!Spec
<1> QED BY <1>1, <1>2, PTL

----------------------------------------------------------------------------
(* Where each message is *)

Preparing == {t \in DOMAIN turns : turns[t].step = "preparing"}
Words(t) == Among(turns[t].words)
Hands == [t \in Preparing |-> Words(t)]
First == IF first = 0 THEN {} ELSE {first}

\* The messages up to n are parted among the queue Q, the history S, those taken back
\* T, the first message F and what each turn holds that is being prepared.
Parted(n, Q, S, T, F, H) ==
  /\ \A m \in Co!Ids : m \in 1..n <=> \/ m \in Q \/ m \in S \/ m \in T \/ m \in F
                                      \/ \E t \in DOMAIN H : m \in H[t]
  /\ Q \cap S = {} /\ Q \cap T = {} /\ Q \cap F = {}
  /\ S \cap T = {} /\ S \cap F = {} /\ T \cap F = {}
  /\ \A t \in DOMAIN H : H[t] \cap (Q \cup S \cup T \cup F) = {}
  /\ \A t, u \in DOMAIN H : t # u => H[t] \cap H[u] = {}

Placed ==
  /\ Distinct(queue) /\ Distinct(said) /\ \A t \in Preparing : Distinct(turns[t].words)
  /\ Parted(sends, Among(queue), Among(said), taken, First, Hands)

LEMMA OneMore ==
  ASSUME NEW n \in Nat, n + 1 \in Co!Ids, NEW Q, NEW S, NEW T, NEW F, NEW H,
         Parted(n, Q, S, T, F, H)
  PROVE  Parted(n + 1, Q \cup {n + 1}, S, T, F, H) /\ n + 1 \notin Q
<1>1. n + 1 \notin 1..n
  OBVIOUS
<1>2. /\ n + 1 \notin Q /\ n + 1 \notin S /\ n + 1 \notin T /\ n + 1 \notin F
      /\ \A t \in DOMAIN H : n + 1 \notin H[t]
  BY <1>1 DEF Parted
<1>3. \A m \in Co!Ids : m \in 1..(n + 1) <=> m \in 1..n \/ m = n + 1
  BY DEF Co!Ids
<1> QED BY <1>2, <1>3 DEF Parted

LEMMA GivenBack ==
  ASSUME NEW n, NEW Q, NEW S, NEW T, NEW F, NEW H, Parted(n, Q, S, T, F, H), NEW m \in Q
  PROVE  Parted(n, Q \ {m}, S, T \cup {m}, F, H)
BY DEF Parted

\* A turn takes over what waited in the queue, or the first message.
LEMMA QueueHanded ==
  ASSUME NEW n, NEW Q, NEW S, NEW T, NEW F, NEW H, Parted(n, Q, S, T, F, H),
         NEW G, NEW t, t \notin DOMAIN H, DOMAIN G = DOMAIN H \cup {t}, G[t] = Q,
         \A u \in DOMAIN H : G[u] = H[u]
  PROVE  Parted(n, {}, S, T, F, G)
BY DEF Parted

LEMMA FirstHanded ==
  ASSUME NEW n, NEW Q, NEW S, NEW T, NEW F, NEW H, Parted(n, Q, S, T, F, H),
         NEW G, NEW t, t \notin DOMAIN H, DOMAIN G = DOMAIN H \cup {t}, G[t] = F,
         \A u \in DOMAIN H : G[u] = H[u]
  PROVE  Parted(n, Q, S, T, {}, G)
BY DEF Parted

LEMMA NothingHanded ==
  ASSUME NEW n, NEW Q, NEW S, NEW T, NEW F, NEW H, Parted(n, Q, S, T, F, H),
         NEW G, NEW t, t \notin DOMAIN H, DOMAIN G = DOMAIN H \cup {t}, G[t] = {},
         \A u \in DOMAIN H : G[u] = H[u]
  PROVE  Parted(n, Q, S, T, F, G)
BY DEF Parted

LEMMA HandedOn ==
  ASSUME NEW n, NEW Q, NEW S, NEW T, NEW F, NEW H, Parted(n, Q, S, T, F, H),
         NEW G, NEW t \in DOMAIN H, DOMAIN G = DOMAIN H \ {t},
         \A u \in DOMAIN G : G[u] = H[u]
  PROVE  Parted(n, Q, S \cup H[t], T, F, G)
BY DEF Parted

\* What a step does to the turns that are being prepared.
LEMMA BegunHands ==
  ASSUME turns \in Seq(Co!Turn), NEW by \in Makers, NEW st \in Steps, NEW w \in Seq(Co!Ids),
         Co!Begin(by, st, w)
  PROVE  /\ st = "preparing" =>
              /\ Preparing' = Preparing \cup {Len(turns) + 1}
              /\ DOMAIN Hands' = DOMAIN Hands \cup {Len(turns) + 1}
              /\ Len(turns) + 1 \notin DOMAIN Hands /\ Hands'[Len(turns) + 1] = Among(w)
         /\ st # "preparing" => Preparing' = Preparing /\ DOMAIN Hands' = DOMAIN Hands
         /\ \A t \in DOMAIN Hands : Hands'[t] = Hands[t]
<1>0. PICK n : n = Len(turns) + 1
  OBVIOUS
<1>1. /\ DOMAIN turns' = DOMAIN turns \cup {n} /\ n \notin DOMAIN turns
      /\ \A t \in DOMAIN turns : turns'[t] = turns[t]
      /\ turns'[n].step = st /\ turns'[n].words = w
  BY <1>0, Begun
<1>2. st = "preparing" => Preparing' = Preparing \cup {n}
  BY <1>1 DEF Preparing
<1>3. st # "preparing" => Preparing' = Preparing
  BY <1>1 DEF Preparing
<1>4. Preparing \subseteq DOMAIN turns
  BY DEF Preparing
<1>5. /\ DOMAIN Hands = Preparing /\ \A t \in Preparing : Hands[t] = Words(t)
      /\ DOMAIN Hands' = Preparing' /\ \A t \in Preparing' : Hands'[t] = Words(t)'
  BY DEF Hands
<1>6. \A t \in DOMAIN turns : Words(t)' = Words(t)
  BY <1>1 DEF Words
<1>7. Words(n)' = Among(w)
  BY <1>1 DEF Words
<1> QED BY <1>0, <1>1, <1>2, <1>3, <1>4, <1>5, <1>6, <1>7

LEMMA MovedHands ==
  ASSUME turns \in Seq(Co!Turn), NEW t \in DOMAIN turns, NEW st \in {"running", "over"},
         turns' = [turns EXCEPT ![t].step = st]
  PROVE  /\ Preparing' = Preparing \ {t} /\ DOMAIN Hands' = DOMAIN Hands \ {t}
         /\ \A u \in DOMAIN Hands' : Hands'[u] = Hands[u]
<1>1. /\ DOMAIN turns' = DOMAIN turns
      /\ \A u \in DOMAIN turns : u # t => turns'[u] = turns[u]
      /\ turns'[t].words = turns[t].words /\ turns'[t].step = st
  BY Moved DEF Steps
<1>2. Preparing' = Preparing \ {t}
  BY <1>1 DEF Preparing
<1>3. /\ DOMAIN Hands = Preparing /\ \A u \in Preparing : Hands[u] = Words(u)
      /\ DOMAIN Hands' = Preparing' /\ \A u \in Preparing' : Hands'[u] = Words(u)'
  BY DEF Hands
<1>4. \A u \in DOMAIN turns : u # t => Words(u)' = Words(u)
  BY <1>1 DEF Words
<1> QED BY <1>1, <1>2, <1>3, <1>4 DEF Preparing

\* What a step does to messages and turns, if it does anything to them.
Talk == <<sends, queue, turns, first, said, taken, unseen>>

LEMMA TalkSteps ==
  ASSUME [Co!Next]_(Co!vars)
  PROVE  \/ UNCHANGED Talk \/ Co!Park \/ Co!Send \/ \E m \in Co!Ids : Co!TakeBack(m)
         \/ Co!Ask \/ Co!Retry \/ Co!Drain \/ Co!SayFirst
         \/ \E t \in DOMAIN turns : Co!Deliver(t)
         \/ \E t \in DOMAIN turns, restored \in BOOLEAN : Co!Over(t, restored)
<1>1. CASE \/ Co!Write \/ Co!Commit \/ Co!DrainNothing \/ Co!Gap \/ Co!JoinedEnds \/ Co!Delete
           \/ UNCHANGED Co!vars
  BY <1>1 DEF Talk, Co!Write, Co!Commit, Co!DrainNothing, Co!Gap, Co!JoinedEnds, Co!Delete, Co!vars
<1>2. ASSUME NEW t \in DOMAIN turns, Co!RunEnds(t) \/ Co!RunFails(t)
      PROVE  \E restored \in BOOLEAN : Co!Over(t, restored)
  BY <1>2 DEF Co!RunEnds, Co!RunFails
<1> QED BY <1>1, <1>2 DEF Co!Next, Co!Render

LEMMA SameTalk ==
  ASSUME UNCHANGED Talk
  PROVE  /\ UNCHANGED <<sends, queue, turns, first, said, taken, unseen>>
         /\ Preparing' = Preparing /\ Hands' = Hands /\ First' = First /\ Co!Open' = Co!Open
<1>1. UNCHANGED <<sends, queue, turns, first, said, taken, unseen>>
  BY DEF Talk
<1> QED BY <1>1 DEF Preparing, Hands, Words, First, Co!Open

LEMMA PlacedInit == Limits /\ Co!Init => Placed
<1> SUFFICES ASSUME Limits, Co!Init PROVE Placed
  OBVIOUS
<1>1. /\ queue = <<>> /\ said = <<>> /\ taken = {} /\ turns = <<>> /\ first \in {0, 1}
      /\ sends = first
  BY DEF Co!Init
<1>2. Preparing = {} /\ DOMAIN Hands = {}
  BY <1>1 DEF Preparing, Hands
<1>3. \A m \in Co!Ids : m \in 1..sends <=> m \in First
  BY <1>1 DEF First, Co!Ids, Limits
<1>4. Parted(sends, {}, {}, {}, First, Hands)
  BY <1>2, <1>3 DEF Parted
<1> QED BY <1>1, <1>2, <1>4, NoneAmong DEF Placed

LEMMA PlacedNext == ComposerTyped /\ Placed /\ [Co!Next]_(Co!vars) => Placed'
<1> SUFFICES ASSUME ComposerTyped, Placed, [Co!Next]_(Co!vars) PROVE Placed'
  OBVIOUS
<1>0. /\ MaxSends \in Nat /\ sends \in Nat /\ turns \in Seq(Co!Turn)
      /\ queue \in Seq(Co!Ids) /\ said \in Seq(Co!Ids) /\ first \in {0, 1}
      /\ Distinct(queue) /\ Distinct(said) /\ \A t \in Preparing : Distinct(turns[t].words)
      /\ Parted(sends, Among(queue), Among(said), taken, First, Hands)
  BY DEF ComposerTyped, Limits, Placed
<1>01. Preparing = DOMAIN Hands /\ \A t \in Preparing : Hands[t] = Among(turns[t].words)
  BY DEF Hands, Words
<1>02. \A t \in DOMAIN turns : turns[t].words \in Seq(Co!Ids)
  <2>1. \A t \in DOMAIN turns : turns[t] \in Co!Turn
    BY <1>0
  <2> QED BY <2>1 DEF Co!Turn
\* The turns that are being prepared are those of before, and one more.
<1>b. ASSUME NEW by \in Makers, NEW w \in Seq(Co!Ids), Distinct(w), Co!Begin(by, "preparing", w)
      PROVE  /\ \A t \in Preparing' : Distinct(turns'[t].words)
             /\ \E t : /\ t \notin DOMAIN Hands /\ DOMAIN Hands' = DOMAIN Hands \cup {t}
                       /\ Hands'[t] = Among(w) /\ \A u \in DOMAIN Hands : Hands'[u] = Hands[u]
  <2>1. /\ Preparing' = Preparing \cup {Len(turns) + 1}
        /\ DOMAIN Hands' = DOMAIN Hands \cup {Len(turns) + 1}
        /\ Len(turns) + 1 \notin DOMAIN Hands /\ Hands'[Len(turns) + 1] = Among(w)
        /\ \A t \in DOMAIN Hands : Hands'[t] = Hands[t]
    BY <1>0, <1>b, BegunHands DEF Steps
  <2>2. /\ \A t \in DOMAIN turns : turns'[t] = turns[t]
        /\ turns'[Len(turns) + 1].words = w
    BY <1>0, <1>b, Begun DEF Steps
  <2>3. Preparing \subseteq DOMAIN turns
    BY DEF Preparing
  <2> QED BY <1>0, <1>b, <2>1, <2>2, <2>3
<1>1. CASE UNCHANGED Talk
  BY <1>0, <1>1, SameTalk DEF Placed
<1>2. CASE Co!Park
  <2>1. /\ sends + 1 \in Co!Ids /\ sends' = sends + 1 /\ queue' = Append(queue, sends + 1)
        /\ UNCHANGED <<turns, first, said, taken>>
    BY <1>0, <1>2 DEF Co!Park, Co!Ids
  <2>2. /\ Parted(sends + 1, Among(queue) \cup {sends + 1}, Among(said), taken, First, Hands)
        /\ sends + 1 \notin Among(queue)
    BY <1>0, <2>1, OneMore
  <2>3. Among(queue') = Among(queue) \cup {sends + 1} /\ Distinct(queue')
    BY <1>0, <2>1, <2>2, AppendedAmong
  <2>4. Preparing' = Preparing /\ Hands' = Hands /\ First' = First
    BY <2>1 DEF Preparing, Hands, Words, First
  <2> QED BY <1>0, <2>1, <2>2, <2>3, <2>4 DEF Placed
<1>3. CASE Co!Send
  <2>1. /\ sends + 1 \in Co!Ids /\ sends' = sends + 1 /\ queue' = <<>>
        /\ UNCHANGED <<first, said, taken>>
        /\ Co!Begin("composer", "preparing", Append(queue, sends + 1))
    BY <1>0, <1>3 DEF Co!Send, Co!Ids, Co!Drained, Co!Together
  <2>2. /\ Parted(sends + 1, Among(queue) \cup {sends + 1}, Among(said), taken, First, Hands)
        /\ sends + 1 \notin Among(queue)
    BY <1>0, <2>1, OneMore
  <2>3. /\ Append(queue, sends + 1) \in Seq(Co!Ids) /\ Distinct(Append(queue, sends + 1))
        /\ Among(Append(queue, sends + 1)) = Among(queue) \cup {sends + 1}
    BY <1>0, <2>1, <2>2, AppendedAmong
  <2>4. /\ \A t \in Preparing' : Distinct(turns'[t].words)
        /\ \E t : /\ t \notin DOMAIN Hands /\ DOMAIN Hands' = DOMAIN Hands \cup {t}
                  /\ Hands'[t] = Among(queue) \cup {sends + 1}
                  /\ \A u \in DOMAIN Hands : Hands'[u] = Hands[u]
    BY <1>b, <2>1, <2>3 DEF Makers
  <2>5. Parted(sends + 1, {}, Among(said), taken, First, Hands')
    BY <2>2, <2>4, QueueHanded
  <2>6. First' = First
    BY <2>1 DEF First
  <2> QED BY <1>0, <2>1, <2>4, <2>5, <2>6, NoneAmong DEF Placed
<1>4. ASSUME NEW m \in Co!Ids, Co!TakeBack(m) PROVE Placed'
  <2>1. PICK i \in DOMAIN queue : queue[i] = m /\ queue' = Co!RemoveAt(queue, i)
    BY <1>4 DEF Co!TakeBack
  <2>2. taken' = taken \cup {m} /\ UNCHANGED <<sends, turns, first, said>>
    BY <1>4 DEF Co!TakeBack
  <2>3. m \in Among(queue) /\ Among(queue') = Among(queue) \ {m} /\ Distinct(queue')
    <3>1. m \in Among(queue)
      BY <2>1 DEF Among
    <3> QED BY <1>0, <2>1, <3>1, RemovedAmong
  <2>4. Parted(sends, Among(queue) \ {m}, Among(said), taken \cup {m}, First, Hands)
    BY <1>0, <2>3, GivenBack
  <2>5. Preparing' = Preparing /\ Hands' = Hands /\ First' = First
    BY <2>2 DEF Preparing, Hands, Words, First
  <2> QED BY <1>0, <2>2, <2>3, <2>4, <2>5 DEF Placed
<1>5. CASE Co!Ask
  <2>1. Co!Begin("button", "preparing", <<>>) /\ UNCHANGED <<sends, queue, first, said, taken>>
    BY <1>5 DEF Co!Ask
  <2>2. <<>> \in Seq(Co!Ids)
    OBVIOUS
  <2>3. /\ \A t \in Preparing' : Distinct(turns'[t].words)
        /\ \E t : /\ t \notin DOMAIN Hands /\ DOMAIN Hands' = DOMAIN Hands \cup {t}
                  /\ Hands'[t] = {} /\ \A u \in DOMAIN Hands : Hands'[u] = Hands[u]
    BY <1>b, <2>1, <2>2, NoneAmong DEF Makers
  <2>4. Parted(sends, Among(queue), Among(said), taken, First, Hands')
    BY <1>0, <2>3, NothingHanded
  <2>5. First' = First
    BY <2>1 DEF First
  <2> QED BY <1>0, <2>1, <2>3, <2>4, <2>5 DEF Placed
<1>6. CASE Co!Retry
  <2>1. Co!Begin("button", "running", <<>>) /\ UNCHANGED <<sends, queue, first, said, taken>>
    BY <1>6 DEF Co!Retry
  <2>2. <<>> \in Seq(Co!Ids)
    OBVIOUS
  <2>3. /\ Preparing' = Preparing /\ DOMAIN Hands' = DOMAIN Hands
        /\ \A t \in DOMAIN Hands : Hands'[t] = Hands[t]
    BY <1>0, <2>1, <2>2, BegunHands DEF Makers, Steps
  <2>4. \A t \in DOMAIN turns : turns'[t] = turns[t]
    BY <1>0, <2>1, <2>2, Begun DEF Makers, Steps
  <2>5. Preparing \subseteq DOMAIN turns
    BY DEF Preparing
  <2>6. Parted(sends, Among(queue), Among(said), taken, First, Hands')
    BY <1>0, <2>3 DEF Parted
  <2>7. First' = First
    BY <2>1 DEF First
  <2>8. \A t \in Preparing' : Distinct(turns'[t].words)
    BY <1>0, <2>3, <2>4, <2>5
  <2> QED BY <1>0, <2>1, <2>6, <2>7, <2>8 DEF Placed
<1>7. CASE Co!Drain
  <2>1. /\ Co!Begin("drain", "preparing", queue) /\ queue' = <<>>
        /\ UNCHANGED <<sends, first, said, taken>>
    BY <1>7 DEF Co!Drain, Co!Drained
  <2>2. /\ \A t \in Preparing' : Distinct(turns'[t].words)
        /\ \E t : /\ t \notin DOMAIN Hands /\ DOMAIN Hands' = DOMAIN Hands \cup {t}
                  /\ Hands'[t] = Among(queue) /\ \A u \in DOMAIN Hands : Hands'[u] = Hands[u]
    BY <1>0, <1>b, <2>1 DEF Makers
  <2>3. Parted(sends, {}, Among(said), taken, First, Hands')
    BY <1>0, <2>2, QueueHanded
  <2>4. First' = First
    BY <2>1 DEF First
  <2> QED BY <1>0, <2>1, <2>2, <2>3, <2>4, NoneAmong DEF Placed
<1>8. CASE Co!SayFirst
  <2>1. /\ Co!Begin("first", "preparing", <<first>>) /\ first # 0 /\ first' = 0
        /\ UNCHANGED <<sends, queue, said, taken>>
    BY <1>8 DEF Co!SayFirst
  <2>2. First = {first} /\ First' = {} /\ Among(<<first>>) = {first} /\ Distinct(<<first>>)
    BY <2>1, OneAmong DEF First
  <2>3. <<first>> \in Seq(Co!Ids)
    <3>1. first \in Co!Ids
      BY <1>0, <2>1 DEF Co!Ids, ComposerTyped
    <3> QED BY <3>1
  <2>4. /\ \A t \in Preparing' : Distinct(turns'[t].words)
        /\ \E t : /\ t \notin DOMAIN Hands /\ DOMAIN Hands' = DOMAIN Hands \cup {t}
                  /\ Hands'[t] = First /\ \A u \in DOMAIN Hands : Hands'[u] = Hands[u]
    BY <1>b, <2>1, <2>2, <2>3 DEF Makers
  <2>5. Parted(sends, Among(queue), Among(said), taken, {}, Hands')
    BY <1>0, <2>4, FirstHanded
  <2> QED BY <1>0, <2>1, <2>2, <2>4, <2>5 DEF Placed
<1>9. ASSUME NEW t \in DOMAIN turns, Co!Deliver(t) PROVE Placed'
  <2>1. /\ turns' = [turns EXCEPT ![t].step = "running"] /\ said' = said \o turns[t].words
        /\ turns[t].step = "preparing" /\ UNCHANGED <<sends, queue, first, taken>>
    BY <1>9 DEF Co!Deliver
  <2>2. /\ Preparing' = Preparing \ {t} /\ DOMAIN Hands' = DOMAIN Hands \ {t}
        /\ \A u \in DOMAIN Hands' : Hands'[u] = Hands[u]
    BY <1>0, <2>1, MovedHands
  <2>3. t \in Preparing
    BY <2>1 DEF Preparing
  <2>4. Among(said) \cap Among(turns[t].words) = {}
    BY <1>0, <1>01, <2>3 DEF Parted
  <2>5. Among(said') = Among(said) \cup Hands[t] /\ Distinct(said')
    BY <1>0, <1>01, <1>02, <2>1, <2>3, <2>4, JoinedAmong
  <2>6. Parted(sends, Among(queue), Among(said) \cup Hands[t], taken, First, Hands')
    BY <1>0, <1>01, <2>2, <2>3, HandedOn
  <2>7. \A u \in DOMAIN turns : u # t => turns'[u] = turns[u]
    BY <1>0, <2>1, Moved DEF Steps
  <2>8. \A u \in Preparing' : Distinct(turns'[u].words)
    BY <1>0, <2>2, <2>7 DEF Preparing
  <2>9. First' = First
    BY <2>1 DEF First
  <2> QED BY <1>0, <2>1, <2>5, <2>6, <2>8, <2>9 DEF Placed
<1>10. ASSUME NEW t \in DOMAIN turns, NEW restored \in BOOLEAN, Co!Over(t, restored)
       PROVE  Placed'
  <2>1. /\ turns' = [turns EXCEPT ![t].step = "over"] /\ turns[t].step = "running"
        /\ UNCHANGED <<sends, queue, first, said, taken>>
    BY <1>10 DEF Co!Over
  <2>2. t \notin Preparing
    BY <2>1 DEF Preparing
  <2>3. /\ Preparing' = Preparing \ {t} /\ DOMAIN Hands' = DOMAIN Hands \ {t}
        /\ \A u \in DOMAIN Hands' : Hands'[u] = Hands[u]
    BY <1>0, <2>1, MovedHands
  <2>4. Parted(sends, Among(queue), Among(said), taken, First, Hands')
    BY <1>0, <1>01, <2>2, <2>3 DEF Parted
  <2>5. \A u \in DOMAIN turns : u # t => turns'[u] = turns[u]
    BY <1>0, <2>1, Moved DEF Steps
  <2>6. \A u \in Preparing' : Distinct(turns'[u].words)
    BY <1>0, <2>3, <2>5 DEF Preparing
  <2>7. First' = First
    BY <2>1 DEF First
  <2> QED BY <1>0, <2>1, <2>4, <2>6, <2>7 DEF Placed
<1> QED BY <1>1, <1>2, <1>3, <1>4, <1>5, <1>6, <1>7, <1>8, <1>9, <1>10, TalkSteps

LEMMA AlwaysPlaced == Limits /\ Co!Spec => [](ComposerTyped /\ Placed)
BY ComposerTypeInit, ComposerTypeNext, PlacedInit, PlacedNext, PTL DEF Co!Spec

LEMMA PlacedOnce == ComposerTyped /\ Placed => SaidOnce
<1> SUFFICES ASSUME ComposerTyped, Placed, NEW m \in 1..sends
             PROVE  Co!Times(m, queue) + Co!Times(m, said) + Cardinality(Co!InHand(m))
                      + Co!Said(m) = 1
  BY Counting DEF SaidOnce, Co!SaidOnce
<1>1. /\ queue \in Seq(Co!Ids) /\ said \in Seq(Co!Ids) /\ Distinct(queue) /\ Distinct(said)
      /\ Parted(sends, Among(queue), Among(said), taken, First, Hands)
      /\ m \in Co!Ids /\ m # 0
  BY DEF ComposerTyped, Placed, Limits, Co!Ids
<1>2. /\ Co!Times(m, queue) = IF m \in Among(queue) THEN 1 ELSE 0
      /\ Co!Times(m, said) = IF m \in Among(said) THEN 1 ELSE 0
  BY <1>1, Once
<1>3. Co!InHand(m) = {t \in DOMAIN Hands : m \in Hands[t]}
  BY DEF Co!InHand, Co!Open, Hands, Preparing, Words, Among, Co!Range
<1>4. (m = first) <=> m \in First
  BY <1>1 DEF First
<1>5. CASE \E t \in DOMAIN Hands : m \in Hands[t]
  <2>1. PICK t \in DOMAIN Hands : m \in Hands[t]
    BY <1>5
  <2>2. Co!InHand(m) = {t}
    BY <1>1, <1>3, <2>1 DEF Parted
  <2>3. m \notin Among(queue) /\ m \notin Among(said) /\ m \notin taken /\ m \notin First
    BY <1>1, <2>1 DEF Parted
  <2>4. Cardinality(Co!InHand(m)) = 1
    BY <2>2, FS_Singleton
  <2> QED BY <1>2, <1>4, <2>3, <2>4 DEF Co!Said
<1>6. CASE ~\E t \in DOMAIN Hands : m \in Hands[t]
  <2>1. Co!InHand(m) = {}
    BY <1>3, <1>6
  <2>2. Cardinality(Co!InHand(m)) = 0
    BY <2>1, FS_EmptySet
  <2>3. m \in Among(queue) \/ m \in Among(said) \/ m \in taken \/ m \in First
    BY <1>1, <1>6 DEF Parted
  <2>4. /\ m \in Among(queue) => m \notin Among(said) /\ m \notin taken /\ m \notin First
        /\ m \in Among(said) => m \notin taken /\ m \notin First
    BY <1>1 DEF Parted
  <2> QED BY <1>2, <1>4, <2>2, <2>3, <2>4 DEF Co!Said
<1> QED BY <1>5, <1>6

\* None is lost and none said twice, however many messages are parked, joined, taken back
\* and drained, and whatever turns end meanwhile (queue.ts, reduceQueue; conversation-view.tsx,
\* apply and start; channel-chat.tsx, deliver).
THEOREM EachMessageOnce == Limits => (Co!Spec => []SaidOnce)
BY AlwaysPlaced, PlacedOnce, PTL

----------------------------------------------------------------------------
(* Turns and the order of what is said *)

\* A turn of the composer or of the drain that began beside another is one that the view
\* could not know of.
Corrected == \A t, u \in Co!Open : t < u /\ turns[u].by \in {"composer", "drain"} => u \in unseen

LEMMA CorrectedInit == Co!Init => Corrected
BY DEF Co!Init, Corrected, Co!Open

LEMMA CorrectedNext == ComposerTyped /\ Corrected /\ [Co!Next]_(Co!vars) => Corrected'
<1> SUFFICES ASSUME ComposerTyped, Corrected, [Co!Next]_(Co!vars) PROVE Corrected'
  OBVIOUS
<1>0. turns \in Seq(Co!Turn) /\ queue \in Seq(Co!Ids) /\ Co!Open \subseteq DOMAIN turns
  BY DEF ComposerTyped, Co!Open
\* The last turn began alone, or is known to have begun unseen, or is no turn of these.
<1>b. ASSUME NEW by \in Makers, NEW st \in Steps, NEW w \in Seq(Co!Ids), Co!Begin(by, st, w),
             unseen \subseteq unseen',
             by \in {"composer", "drain"} => Co!Open = {} \/ Len(turns) + 1 \in unseen'
      PROVE  Corrected'
  <2>1. /\ DOMAIN turns = 1..Len(turns) /\ Len(turns) \in Nat
        /\ DOMAIN turns' = DOMAIN turns \cup {Len(turns) + 1}
        /\ \A t \in DOMAIN turns : turns'[t] = turns[t]
        /\ turns'[Len(turns) + 1].by = by
    BY <1>0, <1>b, Begun
  <2>2. Co!Open' \subseteq Co!Open \cup {Len(turns) + 1}
    BY <2>1 DEF Co!Open
  <2>3. ASSUME NEW t \in Co!Open', NEW u \in Co!Open', t < u,
               turns'[u].by \in {"composer", "drain"}
        PROVE  u \in unseen'
    <3>1. CASE u = Len(turns) + 1
      <4>1. t \in Co!Open
        BY <2>1, <2>2, <2>3, <3>1
      <4> QED BY <1>b, <2>1, <2>3, <3>1, <4>1
    <3>2. CASE u \in Co!Open
      <4>1. t \in Co!Open
        <5>1. u \in 1..Len(turns)
          BY <1>0, <2>1, <3>2
        <5> QED BY <2>1, <2>2, <2>3, <5>1
      <4>2. turns[u].by \in {"composer", "drain"}
        BY <1>0, <2>1, <2>3, <3>2
      <4> QED BY <1>b, <2>3, <3>2, <4>1, <4>2 DEF Corrected
    <3> QED BY <2>2, <3>1, <3>2
  <2> QED BY <2>3 DEF Corrected
<1>m. ASSUME NEW t \in DOMAIN turns, NEW st \in Steps, turns' = [turns EXCEPT ![t].step = st],
             turns[t].step # "over", unseen' = unseen
      PROVE  Corrected'
  <2>1. /\ DOMAIN turns' = DOMAIN turns /\ turns'[t].by = turns[t].by
        /\ \A u \in DOMAIN turns : u # t => turns'[u] = turns[u]
    BY <1>0, <1>m, Moved
  <2>2. Co!Open' \subseteq Co!Open
    BY <1>m, <2>1 DEF Co!Open
  <2>3. \A u \in DOMAIN turns : turns'[u].by = turns[u].by
    BY <2>1
  <2> QED BY <1>0, <1>m, <2>2, <2>3 DEF Corrected
\* What is under way is unknown only to a view that shows nothing: Busy and Drainable refuse the rest.
<1>u. ~shown.inFlight /\ Co!Unseen = {} => Co!Open = {}
  BY DEF Co!Unseen, Co!InFlight, Co!Pending
<1>v. Co!Unseen = {} \/ Len(turns) + 1 \in Co!Unseen
  BY DEF Co!Unseen
<1>1. CASE UNCHANGED Talk
  BY <1>1, SameTalk DEF Corrected
<1>2. CASE Co!Park \/ \E m \in Co!Ids : Co!TakeBack(m)
  <2>1. UNCHANGED <<turns, unseen>>
    BY <1>2 DEF Co!Park, Co!TakeBack
  <2> QED BY <2>1 DEF Corrected, Co!Open
<1>3. CASE Co!Send
  <2>1. sends + 1 \in Co!Ids /\ unseen' = unseen \cup Co!Unseen /\ ~shown.inFlight
    BY <1>3 DEF Co!Send, Co!Busy, Co!Ids, ComposerTyped, Limits
  <2>2. Append(queue, sends + 1) \in Seq(Co!Ids)
    BY <1>0, <2>1
  <2>3. Co!Begin("composer", "preparing", Append(queue, sends + 1))
    BY <1>3 DEF Co!Send, Co!Together
  <2> QED BY <1>b, <1>u, <1>v, <2>1, <2>2, <2>3 DEF Makers, Steps
<1>4. CASE Co!Ask \/ Co!Retry
  <2>1. /\ Co!Begin("button", "preparing", <<>>) \/ Co!Begin("button", "running", <<>>)
        /\ unseen' = unseen
    BY <1>4 DEF Co!Ask, Co!Retry
  <2>2. <<>> \in Seq(Co!Ids)
    OBVIOUS
  <2> QED BY <1>b, <2>1, <2>2 DEF Makers, Steps
<1>5. CASE Co!Drain
  <2>1. /\ Co!Begin("drain", "preparing", queue) /\ unseen' = unseen \cup Co!Unseen
        /\ ~shown.inFlight
    BY <1>5 DEF Co!Drain, Co!Drainable
  <2> QED BY <1>0, <1>b, <1>u, <1>v, <2>1 DEF Makers, Steps
<1>6. CASE Co!SayFirst
  <2>1. Co!Begin("first", "preparing", <<first>>) /\ unseen' = unseen
    BY <1>6 DEF Co!SayFirst
  <2>2. <<first>> \in Seq(Co!Ids)
    <3>1. first \in Co!Ids
      BY <1>6 DEF Co!Ids, ComposerTyped, Limits, Co!SayFirst
    <3> QED BY <3>1
  <2> QED BY <1>b, <2>1, <2>2 DEF Makers, Steps
<1>7. ASSUME NEW t \in DOMAIN turns,
             Co!Deliver(t) \/ \E restored \in BOOLEAN : Co!Over(t, restored)
      PROVE  Corrected'
  <2>1. /\ \E st \in Steps : turns' = [turns EXCEPT ![t].step = st]
        /\ turns[t].step # "over" /\ unseen' = unseen
    BY <1>7 DEF Co!Deliver, Co!Over, Steps
  <2> QED BY <1>m, <2>1
<1> QED BY <1>1, <1>2, <1>3, <1>4, <1>5, <1>6, <1>7, TalkSteps

\* As long as no turn began unseen: while the first message waits nothing else was said; of
\* the turns that are being prepared one at most has words; and what was said comes before
\* those words, and those before what waits.
Sequenced == unseen = {} =>
  /\ first # 0 => said = <<>> /\ \A t \in DOMAIN turns : turns[t].words = <<>>
  /\ \A t, u \in Preparing : turns[t].words # <<>> /\ turns[u].words # <<>> => t = u
  /\ Rising(said) /\ Rising(queue) /\ Under(Among(said), Among(queue))
  /\ \A t \in Preparing : /\ Rising(turns[t].words) /\ Under(Words(t), Among(queue))
                          /\ Under(Among(said), Words(t))

LEMMA SequencedInit == Co!Init => Sequenced
<1> SUFFICES ASSUME Co!Init PROVE Sequenced
  OBVIOUS
<1>1. queue = <<>> /\ said = <<>> /\ turns = <<>>
  BY DEF Co!Init
<1>2. Preparing = {}
  BY <1>1 DEF Preparing
<1> QED BY <1>1, <1>2, NoneAmong DEF Sequenced, Under

LEMMA SequencedNext ==
  ComposerTyped /\ Placed /\ Sequenced /\ [Co!Next]_(Co!vars) => Sequenced'
<1> SUFFICES ASSUME ComposerTyped, Placed, Sequenced, [Co!Next]_(Co!vars), unseen' = {}
             PROVE  Sequenced'
  BY DEF Sequenced
<1>0. /\ MaxSends \in Nat /\ sends \in Nat /\ turns \in Seq(Co!Turn) /\ first \in {0, 1}
      /\ queue \in Seq(Co!Ids) /\ said \in Seq(Co!Ids) /\ Preparing \subseteq DOMAIN turns
      /\ Preparing \subseteq Co!Open
  BY DEF ComposerTyped, Limits, Preparing, Co!Open
<1>00. unseen = {}
  BY TalkSteps DEF Talk, Co!Park, Co!Send, Co!TakeBack, Co!Ask, Co!Retry, Co!Drain, Co!SayFirst,
                   Co!Deliver, Co!Over
<1>01. /\ first # 0 => said = <<>> /\ \A t \in DOMAIN turns : turns[t].words = <<>>
       /\ \A t, u \in Preparing : turns[t].words # <<>> /\ turns[u].words # <<>> => t = u
       /\ Rising(said) /\ Rising(queue) /\ Under(Among(said), Among(queue))
       /\ \A t \in Preparing : /\ Rising(turns[t].words) /\ Under(Words(t), Among(queue))
                               /\ Under(Among(said), Words(t))
  BY <1>00 DEF Sequenced
<1>02. \A t \in DOMAIN turns : turns[t].words \in Seq(Co!Ids)
  <2>1. \A t \in DOMAIN turns : turns[t] \in Co!Turn
    BY <1>0
  <2> QED BY <2>1 DEF Co!Turn
\* No message has a number beyond those that were sent.
<1>03. /\ Under(Among(queue), {sends + 1}) /\ Under(Among(said), {sends + 1})
       /\ \A t \in Preparing : Under(Words(t), {sends + 1})
  <2>1. /\ Among(queue) \subseteq Co!Ids /\ Among(said) \subseteq Co!Ids
        /\ \A t \in Preparing : Words(t) \subseteq Co!Ids
    <3>1. \A q \in Seq(Co!Ids) : Among(q) \subseteq Co!Ids
      BY DEF Among
    <3> QED BY <1>0, <1>02, <3>1 DEF Words
  <2>2. /\ Among(queue) \subseteq 1..sends /\ Among(said) \subseteq 1..sends
        /\ \A t \in Preparing : Words(t) \subseteq 1..sends
    BY <2>1 DEF Placed, Parted, Hands
  <2>3. \A m \in 1..sends : m < sends + 1
    BY <1>0
  <2> QED BY <2>2, <2>3 DEF Under
<1>1. CASE UNCHANGED Talk
  <2>1. UNCHANGED <<queue, turns, first, said>> /\ Preparing' = Preparing
    BY <1>1, SameTalk
  <2> QED BY <1>01, <2>1 DEF Sequenced, Words
<1>2. CASE Co!Park
  <2>1. /\ sends + 1 \in Co!Ids /\ queue' = Append(queue, sends + 1)
        /\ UNCHANGED <<turns, first, said>>
    BY <1>0, <1>2 DEF Co!Park, Co!Ids
  <2>2. Among(queue') = Among(queue) \cup {sends + 1} /\ Rising(queue')
    BY <1>0, <1>01, <1>03, <2>1, AppendedAmong
  <2>3. Preparing' = Preparing /\ \A t : Words(t)' = Words(t)
    BY <2>1 DEF Preparing, Words
  <2>4. /\ Under(Among(said), Among(queue'))
        /\ \A t \in Preparing : Under(Words(t), Among(queue'))
    BY <1>01, <1>03, <2>2 DEF Under
  <2> QED BY <1>01, <2>1, <2>2, <2>3, <2>4 DEF Sequenced
\* A turn with words begins when no other is under way.
<1>b. ASSUME NEW by \in Makers, NEW w \in Seq(Co!Ids), Co!Begin(by, "preparing", w),
             Co!Open = {}, Rising(w), Under(Among(said), Among(w)),
             first' = 0, queue' = <<>>, said' = said
      PROVE  Sequenced'
  <2>1. Preparing' = {Len(turns) + 1} /\ turns'[Len(turns) + 1].words = w
    BY <1>0, <1>b, Begun, BegunHands DEF Steps
  <2>2. \A t \in Preparing' : turns'[t].words = w /\ Words(t)' = Among(w)
    BY <2>1 DEF Words
  <2>3. Under(Among(said), {}) /\ Under(Among(w), {})
    BY DEF Under
  <2>4. Among(queue') = {} /\ Rising(queue')
    BY <1>b, NoneAmong
  <2>5. \A t, u \in Preparing' : t = u
    BY <2>1
  <2> QED BY <1>01, <1>b, <2>2, <2>3, <2>4, <2>5 DEF Sequenced
<1>u. ~shown.inFlight /\ Co!Unseen = {} => Co!Open = {} /\ first = 0
  BY DEF Co!Unseen, Co!InFlight, Co!Pending
<1>3. CASE Co!Send
  <2>1. /\ sends + 1 \in Co!Ids /\ Co!Unseen = {} /\ queue' = <<>> /\ UNCHANGED <<said, first>>
        /\ Co!Begin("composer", "preparing", Append(queue, sends + 1)) /\ ~shown.inFlight
    BY <1>0, <1>3 DEF Co!Send, Co!Busy, Co!Ids, Co!Together, Co!Drained
  <2>2. /\ Append(queue, sends + 1) \in Seq(Co!Ids) /\ Rising(Append(queue, sends + 1))
        /\ Among(Append(queue, sends + 1)) = Among(queue) \cup {sends + 1}
    BY <1>0, <1>01, <1>03, <2>1, AppendedAmong
  <2>3. Under(Among(said), Among(Append(queue, sends + 1)))
    BY <1>01, <1>03, <2>2 DEF Under
  <2> QED BY <1>b, <1>u, <2>1, <2>2, <2>3 DEF Makers
<1>4. CASE Co!Drain
  <2>1. /\ Co!Unseen = {} /\ queue' = <<>> /\ UNCHANGED <<said, first>>
        /\ Co!Begin("drain", "preparing", queue) /\ ~shown.inFlight
    BY <1>4 DEF Co!Drain, Co!Drainable, Co!Drained
  <2> QED BY <1>0, <1>01, <1>b, <1>u, <2>1 DEF Makers
<1>5. ASSUME NEW m \in Co!Ids, Co!TakeBack(m) PROVE Sequenced'
  <2>1. PICK i \in DOMAIN queue : queue' = Co!RemoveAt(queue, i)
    BY <1>5 DEF Co!TakeBack
  <2>2. UNCHANGED <<turns, first, said>>
    BY <1>5 DEF Co!TakeBack
  <2>3. Among(queue') \subseteq Among(queue) /\ Rising(queue')
    BY <1>0, <1>01, <2>1, RemovedAmong DEF Placed
  <2>4. Preparing' = Preparing /\ \A t : Words(t)' = Words(t)
    BY <2>2 DEF Preparing, Words
  <2>5. /\ Under(Among(said), Among(queue'))
        /\ \A t \in Preparing : Under(Words(t), Among(queue'))
    BY <1>01, <2>3 DEF Under
  <2> QED BY <1>01, <2>2, <2>3, <2>4, <2>5 DEF Sequenced
<1>6. CASE Co!Ask \/ Co!Retry
  <2>1. PICK st \in Steps : Co!Begin("button", st, <<>>) /\ UNCHANGED <<queue, first, said>>
    BY <1>6 DEF Co!Ask, Co!Retry, Steps
  <2>2. <<>> \in Seq(Co!Ids)
    OBVIOUS
  <2>3. PICK n : n = Len(turns) + 1
    OBVIOUS
  <2>4. /\ DOMAIN turns' = DOMAIN turns \cup {n} /\ n \notin DOMAIN turns
        /\ \A t \in DOMAIN turns : turns'[t] = turns[t]
        /\ turns'[n].words = <<>> /\ Preparing' \subseteq Preparing \cup {n}
    BY <1>0, <2>1, <2>2, <2>3, Begun, BegunHands DEF Makers
  <2>5. Words(n)' = {} /\ \A t \in Preparing : Words(t)' = Words(t)
    BY <1>0, <2>4, NoneAmong DEF Words
  <2>6. Under({}, Among(queue)) /\ Under(Among(said), {})
    BY DEF Under
  <2>7. \A t \in DOMAIN turns' : \/ turns'[t].words = <<>>
                                 \/ t \in DOMAIN turns /\ turns'[t] = turns[t]
    <3> TAKE t \in DOMAIN turns'
    <3>1. CASE t = n
      BY <2>4, <3>1
    <3>2. CASE t \in DOMAIN turns
      BY <2>4, <3>2
    <3> QED BY <2>4, <3>1, <3>2
  <2>8. \A t \in Preparing' : /\ Rising(turns'[t].words) /\ Under(Words(t)', Among(queue'))
                              /\ Under(Among(said'), Words(t)')
    <3> TAKE t \in Preparing'
    <3>1. CASE t = n
      BY <2>1, <2>4, <2>5, <2>6, <3>1, NoneAmong
    <3>2. CASE t \in Preparing
      BY <1>0, <1>01, <2>1, <2>4, <2>5, <3>2
    <3> QED BY <2>4, <3>1, <3>2
  <2>9. \A t, u \in Preparing' : turns'[t].words # <<>> /\ turns'[u].words # <<>> => t = u
    BY <1>0, <1>01, <2>4
  <2> QED BY <1>01, <2>1, <2>7, <2>8, <2>9 DEF Sequenced
<1>7. CASE Co!SayFirst
  <2>1. /\ Co!Begin("first", "preparing", <<first>>) /\ first # 0 /\ first' = 0
        /\ UNCHANGED <<queue, said>>
    BY <1>7 DEF Co!SayFirst
  <2>2. <<first>> \in Seq(Co!Ids)
    <3>1. first \in Co!Ids
      BY <1>0, <2>1 DEF Co!Ids, ComposerTyped
    <3> QED BY <3>1
  <2>3. PICK n : n = Len(turns) + 1
    OBVIOUS
  <2>4. /\ DOMAIN turns' = DOMAIN turns \cup {n} /\ n \notin DOMAIN turns
        /\ \A t \in DOMAIN turns : turns'[t] = turns[t]
        /\ turns'[n].words = <<first>> /\ Preparing' = Preparing \cup {n}
    BY <1>0, <2>1, <2>2, <2>3, Begun, BegunHands DEF Makers, Steps
  <2>5. said = <<>> /\ \A t \in Preparing : turns'[t].words = <<>>
    BY <1>0, <1>01, <2>1, <2>4
  <2>6. Words(n)' = {first} /\ \A t \in Preparing : Words(t)' = {}
    BY <2>4, <2>5, NoneAmong, OneAmong DEF Words
  <2>7. Under({first}, Among(queue))
    <3>1. \A m \in Among(queue) : m \in Co!Ids
      BY <1>0 DEF Among
    <3>2. first \notin Among(queue)
      BY <2>1 DEF Placed, Parted, First
    <3>3. \A m \in Among(queue) : m # first /\ m \in Nat /\ m >= 1
      BY <1>0, <3>1, <3>2 DEF Co!Ids
    <3>4. first = 1
      BY <1>0, <2>1
    <3>5. \A m \in Among(queue) : first < m
      BY <3>3, <3>4
    <3> QED BY <3>5 DEF Under
  <2>8. Under({}, Among(queue)) /\ \A A : Under({}, A)
    BY DEF Under
  <2>9. \A t \in Preparing' : /\ Rising(turns'[t].words) /\ Under(Words(t)', Among(queue'))
                              /\ Under(Among(said'), Words(t)')
    <3> TAKE t \in Preparing'
    <3>1. CASE t = n
      <4>1. Rising(turns'[t].words)
        BY <2>4, <3>1, OneAmong
      <4>2. Words(t)' = {first}
        BY <2>6, <3>1
      <4>3. Among(said') = {} /\ queue' = queue
        BY <2>1, <2>5, NoneAmong
      <4> QED BY <2>7, <2>8, <4>1, <4>2, <4>3
    <3>2. CASE t \in Preparing
      BY <2>1, <2>5, <2>6, <2>8, <3>2, NoneAmong
    <3> QED BY <2>4, <3>1, <3>2
  <2>10. \A t, u \in Preparing' : turns'[t].words # <<>> /\ turns'[u].words # <<>> => t = u
    BY <2>4, <2>5
  <2> QED BY <1>01, <2>1, <2>9, <2>10 DEF Sequenced
<1>8. ASSUME NEW t \in DOMAIN turns, Co!Deliver(t) PROVE Sequenced'
  <2>1. /\ turns' = [turns EXCEPT ![t].step = "running"] /\ said' = said \o turns[t].words
        /\ t \in Preparing /\ UNCHANGED <<queue, first>>
    BY <1>8 DEF Co!Deliver, Preparing
  <2>2. Preparing' = Preparing \ {t}
    BY <1>0, <2>1, MovedHands
  <2>3. DOMAIN turns' = DOMAIN turns /\ \A u \in DOMAIN turns : turns'[u].words = turns[u].words
    BY <1>0, <2>1, Moved DEF Steps
  <2>4. \A u \in DOMAIN turns : Words(u)' = Words(u)
    BY <2>3 DEF Words
  <2>5. Among(said') = Among(said) \cup Words(t) /\ Rising(said')
    BY <1>0, <1>01, <1>02, <2>1, JoinedAmong DEF Words
  <2>6. Under(Among(said'), Among(queue))
    BY <1>01, <2>1, <2>5 DEF Under
  <2>7. ASSUME NEW u \in Preparing' PROVE Under(Among(said'), Words(u))
    <3>1. CASE turns[t].words = <<>>
      <4>1. Words(t) = {}
        BY <3>1, NoneAmong DEF Words
      <4> QED BY <1>01, <2>2, <2>5, <4>1 DEF Under
    <3>2. CASE turns[t].words # <<>>
      <4>1. turns[u].words = <<>>
        BY <1>01, <2>1, <2>2, <3>2
      <4>2. Words(u) = {}
        BY <4>1, NoneAmong DEF Words
      <4> QED BY <4>2 DEF Under
    <3> QED BY <3>1, <3>2
  <2>8. ASSUME first # 0 PROVE said' = <<>>
    BY <1>01, <2>1, <2>8
  <2>9. \A u \in Preparing' : /\ Rising(turns'[u].words) /\ Under(Words(u)', Among(queue'))
                              /\ Under(Among(said'), Words(u)')
    BY <1>0, <1>01, <2>1, <2>2, <2>3, <2>4, <2>7
  <2>10. /\ first' # 0 => said' = <<>> /\ \A u \in DOMAIN turns' : turns'[u].words = <<>>
         /\ \A s, u \in Preparing' : turns'[s].words # <<>> /\ turns'[u].words # <<>> => s = u
    BY <1>0, <1>01, <2>1, <2>2, <2>3, <2>8
  <2> QED BY <1>01, <2>1, <2>5, <2>6, <2>9, <2>10 DEF Sequenced
<1>9. ASSUME NEW t \in DOMAIN turns, NEW restored \in BOOLEAN, Co!Over(t, restored)
      PROVE  Sequenced'
  <2>1. /\ turns' = [turns EXCEPT ![t].step = "over"] /\ t \notin Preparing
        /\ UNCHANGED <<queue, first, said>>
    BY <1>9 DEF Co!Over, Preparing
  <2>2. Preparing' = Preparing
    <3>1. Preparing' = Preparing \ {t}
      BY <1>0, <2>1, MovedHands
    <3> QED BY <2>1, <3>1
  <2>3. DOMAIN turns' = DOMAIN turns /\ \A u \in DOMAIN turns : turns'[u].words = turns[u].words
    BY <1>0, <2>1, Moved DEF Steps
  <2>4. \A u \in DOMAIN turns : Words(u)' = Words(u)
    BY <2>3 DEF Words
  <2>5. \A u \in Preparing' : /\ Rising(turns'[u].words) /\ Under(Words(u)', Among(queue'))
                              /\ Under(Among(said'), Words(u)')
    BY <1>0, <1>01, <2>1, <2>2, <2>3, <2>4
  <2>6. /\ first' # 0 => said' = <<>> /\ \A u \in DOMAIN turns' : turns'[u].words = <<>>
        /\ \A s, u \in Preparing' : turns'[s].words # <<>> /\ turns'[u].words # <<>> => s = u
    BY <1>0, <1>01, <2>1, <2>2, <2>3
  <2> QED BY <1>01, <2>1, <2>5, <2>6 DEF Sequenced
<1> QED BY <1>1, <1>2, <1>3, <1>4, <1>5, <1>6, <1>7, <1>8, <1>9, TalkSteps

\* A correction waits: a turn of the composer or the drain begins alone, and what was typed
\* is said in that order, unless a turn began while another was under way that the view did not show
\* (composer.tsx, submitDraft; conversation-view.tsx, the drain; channel-chat.tsx, say).
THEOREM CorrectionsWait == Limits => (Co!Spec => []InTurn)
<1>1. ComposerTyped /\ Corrected /\ Sequenced => InTurn
  BY DEF Corrected, Sequenced, Rising, InTurn, Co!InTurn
<1>2. Limits /\ Co!Spec => [](ComposerTyped /\ Placed /\ Corrected /\ Sequenced)
  BY ComposerTypeInit, ComposerTypeNext, PlacedInit, PlacedNext, CorrectedInit, CorrectedNext,
     SequencedInit, SequencedNext, PTL DEF Co!Spec
<1> QED BY <1>1, <1>2, PTL

----------------------------------------------------------------------------
(* What is waited for, and what drains the queue *)

LEMMA OpenBegun ==
  ASSUME turns \in Seq(Co!Turn), NEW by \in Makers, NEW st \in {"preparing", "running"},
         NEW w \in Seq(Co!Ids), Co!Begin(by, st, w)
  PROVE  \E n : /\ n \notin Co!Open /\ Co!Open' = Co!Open \cup {n} /\ turns'[n].by = by
                /\ \A t \in Co!Open : turns'[t].by = turns[t].by
<1>1. /\ DOMAIN turns' = DOMAIN turns \cup {Len(turns) + 1}
      /\ Len(turns) + 1 \notin DOMAIN turns
      /\ \A t \in DOMAIN turns : turns'[t] = turns[t]
      /\ turns'[Len(turns) + 1].by = by /\ turns'[Len(turns) + 1].step = st
  BY Begun DEF Steps
<1>2. PICK n : n = Len(turns) + 1
  OBVIOUS
<1>3. n \notin Co!Open /\ Co!Open' = Co!Open \cup {n}
  BY <1>1, <1>2 DEF Co!Open
<1>4. \A t \in Co!Open : turns'[t].by = turns[t].by
  BY <1>1 DEF Co!Open
<1> QED BY <1>1, <1>2, <1>3, <1>4

LEMMA OpenMoved ==
  ASSUME turns \in Seq(Co!Turn), NEW t \in Co!Open, NEW st \in Steps,
         turns' = [turns EXCEPT ![t].step = st]
  PROVE  /\ Co!Open' = IF st = "over" THEN Co!Open \ {t} ELSE Co!Open
         /\ \A u \in Co!Open : turns'[u].by = turns[u].by
<1>0. t \in DOMAIN turns /\ turns[t].step # "over"
  BY DEF Co!Open
<1>1. /\ DOMAIN turns' = DOMAIN turns /\ turns'[t].by = turns[t].by /\ turns'[t].step = st
      /\ \A u \in DOMAIN turns : u # t => turns'[u] = turns[u]
  BY <1>0, Moved
<1>2. Co!Open' = IF st = "over" THEN Co!Open \ {t} ELSE Co!Open
  BY <1>0, <1>1 DEF Co!Open
<1>3. \A u \in Co!Open : turns'[u].by = turns[u].by
  BY <1>1 DEF Co!Open
<1> QED BY <1>2, <1>3

LEMMA WaitsInit == Co!Init => Co!WaitsForItsTurn
BY DEF Co!Init, Co!WaitsForItsTurn, Co!Open

LEMMA WaitsNext ==
  ComposerTyped /\ Co!WaitsForItsTurn /\ [Co!Next]_(Co!vars) => Co!WaitsForItsTurn'
<1> SUFFICES ASSUME ComposerTyped, Co!WaitsForItsTurn, [Co!Next]_(Co!vars)
             PROVE  Co!WaitsForItsTurn'
  OBVIOUS
<1>0. /\ turns \in Seq(Co!Turn) /\ queue \in Seq(Co!Ids) /\ sending \in BOOLEAN
      /\ running \in BOOLEAN /\ MaxSends \in Nat /\ sends \in Nat /\ first \in {0, 1}
      /\ first <= sends /\ sends <= MaxSends
  BY DEF ComposerTyped, Limits
<1>01. /\ \A t, u \in Co!Open : turns[t].by = "composer" /\ turns[u].by = "composer" => t = u
       /\ sending <=> \E t \in Co!Open : turns[t].by = "composer"
       /\ running => \E t \in Co!Open : turns[t].by \in {"composer", "drain"}
  BY DEF Co!WaitsForItsTurn
<1>02. <<>> \in Seq(Co!Ids)
  OBVIOUS
<1>1. CASE UNCHANGED <<turns, sending, running>>
  <2>1. Co!Open' = Co!Open /\ turns' = turns /\ sending' = sending /\ running' = running
    BY <1>1 DEF Co!Open
  <2> QED BY <1>01, <2>1 DEF Co!WaitsForItsTurn
<1>2. CASE Co!Send
  <2>1. /\ sends + 1 \in Co!Ids /\ ~sending /\ sending' = TRUE /\ running' = TRUE
        /\ Co!Begin("composer", "preparing", Append(queue, sends + 1))
    BY <1>0, <1>2 DEF Co!Send, Co!Together, Co!Ids
  <2>2. Append(queue, sends + 1) \in Seq(Co!Ids)
    BY <1>0, <2>1
  <2>3. PICK n : /\ n \notin Co!Open /\ Co!Open' = Co!Open \cup {n}
                 /\ turns'[n].by = "composer"
                 /\ \A t \in Co!Open : turns'[t].by = turns[t].by
    BY <1>0, <2>1, <2>2, OpenBegun DEF Makers
  <2> QED BY <1>01, <2>1, <2>3 DEF Co!WaitsForItsTurn
<1>3. CASE Co!Drain
  <2>1. /\ sending' = sending /\ running' = TRUE /\ Co!Begin("drain", "preparing", queue)
    BY <1>3 DEF Co!Drain
  <2>2. PICK n : /\ n \notin Co!Open /\ Co!Open' = Co!Open \cup {n} /\ turns'[n].by = "drain"
                 /\ \A t \in Co!Open : turns'[t].by = turns[t].by
    BY <1>0, <2>1, OpenBegun DEF Makers
  <2> QED BY <1>01, <2>1, <2>2 DEF Co!WaitsForItsTurn
<1>4. CASE Co!Ask \/ Co!Retry \/ Co!SayFirst
  <2>1. sending' = sending /\ running' = running
    BY <1>4 DEF Co!Ask, Co!Retry, Co!SayFirst
  <2>2. PICK by \in {"button", "first"}, st \in {"preparing", "running"}, w \in Seq(Co!Ids) :
          Co!Begin(by, st, w)
    <3>1. CASE Co!Ask \/ Co!Retry
      BY <1>02, <3>1 DEF Co!Ask, Co!Retry
    <3>2. CASE Co!SayFirst
      <4>1. first \in Co!Ids
        BY <1>0, <3>2 DEF Co!SayFirst, Co!Ids
      <4>2. <<first>> \in Seq(Co!Ids)
        BY <4>1
      <4> QED BY <3>2, <4>2 DEF Co!SayFirst
    <3> QED BY <1>4, <3>1, <3>2
  <2>3. PICK n : /\ n \notin Co!Open /\ Co!Open' = Co!Open \cup {n} /\ turns'[n].by = by
                 /\ \A t \in Co!Open : turns'[t].by = turns[t].by
    BY <1>0, <2>2, OpenBegun DEF Makers
  <2> QED BY <1>01, <2>1, <2>2, <2>3 DEF Co!WaitsForItsTurn
<1>5. ASSUME NEW t \in DOMAIN turns, Co!Deliver(t) PROVE Co!WaitsForItsTurn'
  <2>1. /\ t \in Co!Open /\ turns' = [turns EXCEPT ![t].step = "running"]
        /\ sending' = sending /\ running' = running
    BY <1>5 DEF Co!Deliver, Co!Open
  <2>2. Co!Open' = Co!Open /\ \A u \in Co!Open : turns'[u].by = turns[u].by
    BY <1>0, <2>1, OpenMoved DEF Steps
  <2> QED BY <1>01, <2>1, <2>2 DEF Co!WaitsForItsTurn
<1>6. ASSUME NEW t \in DOMAIN turns, NEW restored \in BOOLEAN, Co!Over(t, restored)
      PROVE  Co!WaitsForItsTurn'
  <2>1. /\ t \in Co!Open /\ turns' = [turns EXCEPT ![t].step = "over"]
        /\ running' = (running /\ turns[t].by \notin {"composer", "drain"})
        /\ sending' = (sending /\ turns[t].by # "composer")
    BY <1>6 DEF Co!Over, Co!Open
  <2>2. Co!Open' = Co!Open \ {t} /\ \A u \in Co!Open : turns'[u].by = turns[u].by
    BY <1>0, <2>1, OpenMoved DEF Steps
  <2>3. running' => \E u \in Co!Open' : turns'[u].by \in {"composer", "drain"}
    BY <1>01, <2>1, <2>2
  <2>4. sending' <=> \E u \in Co!Open' : turns'[u].by = "composer"
    BY <1>01, <2>1, <2>2
  <2> QED BY <1>01, <2>2, <2>3, <2>4 DEF Co!WaitsForItsTurn
<1>7. CASE \/ Co!Write \/ Co!Park \/ \E m \in Co!Ids : Co!TakeBack(m)
           \/ Co!Commit \/ Co!DrainNothing \/ Co!Gap \/ Co!JoinedEnds \/ Co!Delete
           \/ UNCHANGED Co!vars
  <2>1. UNCHANGED <<turns, sending, running>>
    BY <1>7 DEF Co!Write, Co!Park, Co!TakeBack, Co!Commit, Co!DrainNothing, Co!Gap,
                Co!JoinedEnds, Co!Delete, Co!vars
  <2> QED BY <1>1, <2>1
<1>8. ASSUME NEW t \in DOMAIN turns, Co!RunEnds(t) \/ Co!RunFails(t)
      PROVE  \E restored \in BOOLEAN : Co!Over(t, restored)
  BY <1>8 DEF Co!RunEnds, Co!RunFails
<1> QED BY <1>2, <1>3, <1>4, <1>5, <1>6, <1>7, <1>8 DEF Co!Next, Co!Render

\* The composer waits for its own send exactly while one turn of it is open, and the view
\* works only while a turn of its own is: whatever turns begin and end, nobody is left waiting
\* for one that is over (composer.tsx, the send and its finally; conversation-view.tsx, start).
THEOREM NoTurnWaitedForInVain == Limits => (Co!Spec => []Co!WaitsForItsTurn)
BY ComposerTypeInit, ComposerTypeNext, WaitsInit, WaitsNext, PTL DEF Co!Spec

\* What the last render showed: a send of the composer as a turn, and the end of the coworker
\* only once it was deleted; and what waits was parked during a turn that the view was shown.
Watched ==
  /\ shown.sending => shown.inFlight
  /\ shown.disabled => ~active
  /\ queue # <<>> /\ active => owed \/ shown.inFlight

LEMMA ScreenShows ==
  Co!WaitsForItsTurn =>
    /\ Co!Screen.sending => Co!Screen.inFlight
    /\ Co!Screen.inFlight <=> wire \/ Co!Open # {}
    /\ Co!Screen.disabled <=> ~active
BY DEF Co!WaitsForItsTurn, Co!Screen, Co!InFlight, Co!Pending

LEMMA WatchedInit == Co!Init => Watched
<1> SUFFICES ASSUME Co!Init PROVE Watched
  OBVIOUS
<1>1. shown = Co!Screen /\ queue = <<>> /\ sending = FALSE
  BY DEF Co!Init
<1>2. shown.sending = FALSE
  BY <1>1 DEF Co!Screen
<1> QED BY <1>1, <1>2, WaitsInit, ScreenShows DEF Watched

LEMMA WatchedNext ==
  ComposerTyped /\ Co!WaitsForItsTurn /\ Watched /\ [Co!Next]_(Co!vars) => Watched'
<1> SUFFICES ASSUME ComposerTyped, Co!WaitsForItsTurn, Watched, [Co!Next]_(Co!vars)
             PROVE  Watched'
  OBVIOUS
<1>0. /\ shown.inFlight \in BOOLEAN /\ shown.sending \in BOOLEAN /\ shown.disabled \in BOOLEAN
      /\ active \in BOOLEAN /\ owed \in BOOLEAN
  BY DEF ComposerTyped
<1>1. CASE Co!Park
  <2>1. (shown.inFlight \/ shown.sending) /\ UNCHANGED <<shown, active, owed>>
    BY <1>1 DEF Co!Park, Co!Busy
  <2> QED BY <1>0, <2>1 DEF Watched
<1>2. CASE Co!Send \/ Co!Drain
  <2>1. queue' = <<>> /\ UNCHANGED <<shown, active>>
    BY <1>2 DEF Co!Send, Co!Drain, Co!Drained
  <2> QED BY <2>1 DEF Watched
<1>3. ASSUME NEW m \in Co!Ids, Co!TakeBack(m) PROVE Watched'
  <2>1. queue # <<>> /\ UNCHANGED <<shown, active, owed>>
    BY <1>3 DEF Co!TakeBack
  <2> QED BY <2>1 DEF Watched
<1>4. CASE Co!Commit
  <2>1. /\ ~owed /\ shown' = Co!Screen /\ UNCHANGED <<queue, active>>
        /\ owed' = (Co!Screen.inFlight # shown.inFlight \/ Co!Screen.disabled # shown.disabled)
    BY <1>4 DEF Co!Commit, Co!Noticed
  <2>2. queue # <<>> /\ active => owed' \/ shown'.inFlight
    BY <1>0, <2>1 DEF Watched
  <2> QED BY <2>1, <2>2, ScreenShows DEF Watched
<1>5. CASE Co!DrainNothing
  <2>1. /\ shown.disabled \/ shown.inFlight \/ queue = <<>>
        /\ UNCHANGED <<shown, queue, active>>
    BY <1>5 DEF Co!DrainNothing, Co!Drainable
  <2> QED BY <1>0, <2>1 DEF Watched
<1>6. CASE Co!Delete
  <2>1. active' = FALSE /\ shown' = shown
    BY <1>6 DEF Co!Delete
  <2> QED BY <2>1 DEF Watched
<1>7. CASE \/ Co!Write \/ Co!Ask \/ Co!Retry \/ Co!SayFirst \/ Co!Gap \/ Co!JoinedEnds
           \/ \E t \in DOMAIN turns : Co!Deliver(t) \/ Co!RunEnds(t) \/ Co!RunFails(t)
           \/ UNCHANGED Co!vars
  <2>1. UNCHANGED <<queue, shown, active, owed>>
    BY <1>7 DEF Co!Write, Co!Ask, Co!Retry, Co!SayFirst, Co!Gap, Co!JoinedEnds, Co!Deliver,
                Co!RunEnds, Co!RunFails, Co!Over, Co!vars
  <2> QED BY <2>1 DEF Watched
<1> QED BY <1>1, <1>2, <1>3, <1>4, <1>5, <1>6, <1>7 DEF Co!Next, Co!Render

\* Nothing is parked without a turn to wait for: while the queue holds a message the effect
\* that drains it is about to run, or the view was shown a turn that is still under way or
\* whose end it is yet to be shown, unless the coworker was deleted (conversation-view.tsx,
\* the effect on inFlight, which does not watch the queue).
THEOREM QueueIsWatched == Limits => (Co!Spec => []Co!ParkedIsWatched)
<1>1. Co!WaitsForItsTurn /\ Watched => Co!ParkedIsWatched
  BY ScreenShows DEF Watched, Co!ParkedIsWatched
<1>2. Limits /\ Co!Spec => [](ComposerTyped /\ Co!WaitsForItsTurn /\ Watched)
  BY ComposerTypeInit, ComposerTypeNext, WaitsInit, WaitsNext, WatchedInit, WatchedNext, PTL
     DEF Co!Spec
<1> QED BY <1>1, <1>2, PTL
=============================================================================
