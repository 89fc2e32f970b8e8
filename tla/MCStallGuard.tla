---------------------------- MODULE MCStallGuard ----------------------------
(***************************************************************************)
(* Instance of StallGuard: two streams, one of protocol buffers, and a     *)
(* limit of two ticks.                                                     *)
(***************************************************************************)
EXTENDS StallGuard

CONSTANTS s1, s2
=============================================================================
