-------------------------- MODULE MCConnectorSyncs --------------------------
(***************************************************************************)
(* Instance of ConnectorSyncs: two workers, two documents, three claims.   *)
(***************************************************************************)
EXTENDS ConnectorSyncs

CONSTANTS w1, w2, d1, d2

Scene(up, reading, syncs, begun, polls, changes, asks, stops, faults) ==
  [up |-> up, reader |-> reading, end |-> begun,
   budget |-> [polls |-> polls, syncs |-> syncs, changes |-> changes, asks |-> asks,
               stops |-> stops, faults |-> faults]]

\* One document is deleted and comes back, another is deleted.
MCLog == <<d1, d1, d2>>
MCDeletions == {1, 3}
MCBudgets == [polls : 0..2, syncs : 0..MaxSyncs, changes : 0..3, asks : 0..2,
              stops : 0..2, faults : 0..3]

\* The claims of one life overlap under a new configuration; a process crashes, or an
\* answer is lost, and another takes over; a process is told to stop; and a worker that
\* lost its lease writes late, under the sync after next.
MCScenes == {
  Scene({w1}, Nobody, 2, 0, 2, 0, 1, 0, 0),
  Scene({w1, w2}, Nobody, 2, 3, 1, 0, 0, 0, 1),
  Scene({w1, w2}, Nobody, 2, 0, 1, 0, 0, 1, 0),
  Scene({w1, w2}, w1, 2, 1, 1, 1, 1, 0, 0) }
=============================================================================
