----------------------------- MODULE MCTaskRuns -----------------------------
(***************************************************************************)
(* Instances of TaskRuns for TLC.                                          *)
(***************************************************************************)
EXTENDS TaskRuns

CONSTANTS w1, w2

OneRun   == 1..1
Pair     == {w1, w2}
Crashing == {w1}

\* Of the statuses a PATCH may ask for: the one that lets a run start beyond its ceiling,
\* and an end that no executor writes.
ByHand == {"queued", "failed"}
=============================================================================
