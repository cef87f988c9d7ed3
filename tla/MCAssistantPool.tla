--------------------------- MODULE MCAssistantPool ---------------------------
(***************************************************************************)
(* AssistantPool for TLC: one or two senders of private messages and the   *)
(* public thread, as model values.                                         *)
(***************************************************************************)
EXTENDS AssistantPool
=============================================================================
