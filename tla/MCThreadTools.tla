---------------------------- MODULE MCThreadTools ----------------------------
(***************************************************************************)
(* ThreadTools for TLC: four profiles.                                     *)
(***************************************************************************)
EXTENDS ThreadTools

CONSTANT weekly

Flags(vault, past, references, web) ==
    [allow_personal_vault |-> vault, past_meetings |-> past,
     public_references |-> references, web_search |-> web]

\* Bound to a series with and without references; the default profile, of no
\* series; one that no meeting may have.
MeetingProfiles ==
    {[knowledge |-> Flags(FALSE, TRUE, TRUE, TRUE), series |-> weekly, references |-> TRUE],
     [knowledge |-> Flags(FALSE, TRUE, TRUE, FALSE), series |-> weekly, references |-> FALSE],
     [knowledge |-> Flags(FALSE, TRUE, FALSE, TRUE), series |-> Whole, references |-> FALSE],
     [knowledge |-> Flags(TRUE, TRUE, TRUE, TRUE), series |-> weekly, references |-> TRUE]}
=============================================================================
