-------------------------- MODULE MCAdminDispatcher --------------------------
(***************************************************************************)
(* AdminDispatcher for TLC: an admin and a participant, model values.      *)
(***************************************************************************)
EXTENDS AdminDispatcher
=============================================================================
