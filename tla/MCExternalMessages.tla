------------------------- MODULE MCExternalMessages -------------------------
(***************************************************************************)
(* Instance of ExternalMessages: two requests for one message, or for two. *)
(***************************************************************************)
EXTENDS ExternalMessages

OneMessage == {1}
=============================================================================
