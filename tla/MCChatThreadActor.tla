-------------------------- MODULE MCChatThreadActor --------------------------
(***************************************************************************)
(* ChatThreadActor for TLC.  The one stopper is a model value: a reap task *)
(* or Assistant.shutdown, which do the same to the actor.  What two of     *)
(* them may do to one actor is covered by the proofs.                      *)
(***************************************************************************)
EXTENDS ChatThreadActor
=============================================================================
