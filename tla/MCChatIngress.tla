----------------------------- MODULE MCChatIngress -----------------------------
(***************************************************************************)
(* ChatIngress for TLC.                                                    *)
(***************************************************************************)
EXTENDS ChatIngress, TLC

\* The ids of the platform are only compared with each other.
UserSymmetry == Permutations(Users)
=============================================================================
