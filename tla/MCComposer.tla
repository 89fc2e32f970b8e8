----------------------------- MODULE MCComposer -----------------------------
(***************************************************************************)
(* Instance of Composer: three messages, one turn of a button, one failure.*)
(***************************************************************************)
EXTENDS Composer
=============================================================================
