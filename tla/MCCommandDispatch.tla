------------------------- MODULE MCCommandDispatch -------------------------
(***************************************************************************)
(* Two pods, two commands and their removal, one fault anywhere, and       *)
(* enough edits and timer rounds for a conflict in any GET-PATCH window of *)
(* a dispatch.                                                             *)
(***************************************************************************)
EXTENDS CommandDispatch
=============================================================================
