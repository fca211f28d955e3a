----------------------------- MODULE MCMakefiles -----------------------------
(***************************************************************************)
(* Instance of Makefiles: one developer.                                   *)
(***************************************************************************)
EXTENDS Makefiles
=============================================================================
