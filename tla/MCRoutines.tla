---------------------------- MODULE MCRoutines ----------------------------
(***************************************************************************)
(* Instance of Routines: two routines, on a schedule or a webhook, two     *)
(* processes, a request and two changes.                                   *)
(***************************************************************************)
EXTENDS Routines

CONSTANTS s1, s2, q1, p1, p2

Scene(scheduled, acting, people, n) ==
  [scheduled |-> scheduled, acting |-> acting, people |-> people, faults |-> n]

\* A batch of two under a fault; two processes and a change; a webhook beside a
\* schedule; changes that overlap; a request that meets a schedule.
MCScenes == {Scene({1, 2}, {s1}, {}, 1),
             Scene({1, 2}, {s1, s2}, {}, 0),
             Scene({1}, {s1, s2}, {p1}, 0),
             Scene({1}, {s1, q1}, {}, 1),
             Scene({1}, {s1}, {p1}, 1),
             Scene({1}, {s1}, {p1, p2}, 0)}
=============================================================================
