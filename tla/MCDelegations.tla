--------------------------- MODULE MCDelegations ---------------------------
(***************************************************************************)
(* Instance of Delegations: three handoffs, two members and a stop.        *)
(***************************************************************************)
EXTENDS Delegations

CONSTANTS h1, h2, h3, alice, bob, stopper

Three == {h1, h2, h3}
Alice == {alice}
Members == {alice, bob}
AStop == {stopper}

Scene(asked, executed, people, stoppers, n) ==
  [handoffs |-> asked, executed |-> executed, people |-> people,
   stoppers |-> stoppers, faults |-> n]

\* A tree of three that is changed or stopped; one handoff whose run is executed
\* under a member, a stop and a fault, or under two members; two, one of them
\* executed, under either.
Together == {Scene(Three, {}, {}, AStop, 0),
             Scene(Three, {}, Alice, {}, 0),
             Scene(Three, {h2}, {}, {}, 0),
             Scene({h1, h2}, {}, Alice, AStop, 1),
             Scene({h1}, {h1}, Alice, AStop, 1),
             Scene({h1}, {h1}, Members, {}, 0),
             Scene({h1, h2}, {h2}, {}, AStop, 0),
             Scene({h1, h2}, {h2}, Alice, {}, 0)}
=============================================================================
