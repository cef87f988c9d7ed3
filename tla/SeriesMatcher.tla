----------------------------- MODULE SeriesMatcher -----------------------------
(***************************************************************************)
(* Binding a meeting to a recurring series (series.py): path 1 looks the   *)
(* recurring id up; path 2 scores the host's series by the overlap of      *)
(* their participants with the attendees and asks the owner to ratify the  *)
(* best one.  A caller uses path 1 for a meeting with a recurring id, and  *)
(* path 2 and ratify() for the others; what is bound decides the profile.  *)
(*                                                                         *)
(* Each await is a point where the step ends: the search of the vault, the *)
(* prompt, the reply.  The vault returns any list of notes.                *)
(*                                                                         *)
(* Abstracted: a time stamp is the sequence of its parts (a date, a time), *)
(* each a rank, and empty if the note has none; results that are not       *)
(* mappings are gone; the wording of prompt and reply.                     *)
(***************************************************************************)
EXTENDS Naturals, Sequences, FiniteSets

CONSTANTS
    Persons,    \* canonical persona ids
    Stamps,     \* what last_updated can be, to the part; <<>> for a note without
    MaxNotes    \* bound on the notes a search returns

ASSUME SeriesAssumption ==
    /\ IsFiniteSet(Persons)
    /\ Stamps \subseteq Seq(Nat)
    /\ MaxNotes \in Nat

\* A Meeting Series/ note; named tells whether its series_id is usable.
Notes == [typical : SUBSET Persons, updated : Stamps, named : BOOLEAN]
NoNote == 0

VARIABLES
    recurring,  \* the meeting has a recurring id
    attendees,  \* their canonical ids
    transport,  \* the admin transport: "none", "sends", or "replies" too
    notes,      \* what the search returned
    pc,         \* where the caller is
    offer,      \* the note of the SeriesMatch, or NoNote
    reply,      \* what the owner answered to the prompt, "none" before that
    bound       \* the result: "default", "explicit", "implicit" or "new"

setup == <<recurring, attendees, transport>>
vars == <<setup, notes, pc, offer, reply, bound>>

Replies == {"yes", "no", "new-series", "other"}

TypeOK ==
    /\ recurring \in BOOLEAN
    /\ attendees \in SUBSET Persons
    /\ transport \in {"none", "sends", "replies"}
    /\ notes \in Seq(Notes) /\ Len(notes) <= MaxNotes
    /\ pc \in {"search", "prompt", "wait", "done", "raised"}
    /\ offer \in {NoNote} \cup DOMAIN notes
    /\ reply \in Replies \cup {"none"}
    /\ bound \in {"default", "explicit", "implicit", "new"}

Init ==
    /\ recurring \in BOOLEAN
    /\ attendees \in SUBSET Persons
    /\ transport \in {"none", "sends", "replies"}
    /\ notes = <<>>
    /\ pc = "search"
    /\ offer = NoNote
    /\ reply = "none"
    /\ bound = "default"

-----------------------------------------------------------------------------
(* Scoring.                                                                *)

Common(S) == Cardinality(attendees \cap S)
Union(S)  == Cardinality(attendees \cup S)

\* Mutant: the overlap is counted over the note's participants alone.
ClearsOwnHalf(S) == 2 * Common(S) >= Cardinality(S)

\* Jaccard overlap of at least PATH_2_JACCARD_THRESHOLD
Clears(S) == 2 * Common(S) >= Union(S)

Scored(found) == {i \in DOMAIN found : found[i].typical # {} /\ Clears(found[i].typical)}

\* S overlaps more than T; the ratios are compared as fractions.
Overlaps(S, T) == Common(S) * Union(T) > Common(T) * Union(S)

\* At the first part in which they differ, s is the larger one.
Later(s, t) ==
    \E k \in DOMAIN s \cap DOMAIN t :
        s[k] > t[k] /\ \A l \in 1 .. k - 1 : s[l] = t[l]

\* s says the same as t as far as it goes, and goes less far.
Coarser(s, t) == Len(s) < Len(t) /\ \A k \in DOMAIN s : s[k] = t[k]

\* Mutant: the stamps are sorted upwards.
EarlierStamp(s, t) == Later(t, s) \/ Coarser(s, t)

\* The order of the keys of _negate_iso, strings whose characters are inverted: later
\* stamps first, but a stamp before all that it is a prefix of, and the empty one
\* before every other.
StampBefore(s, t) == Later(s, t) \/ Coarser(s, t)

\* A part with a character beyond Latin-1, whose inverse chr() does not take.
Foreign == 0
Sortable(found) ==
    \A i \in Scored(found) : \A k \in DOMAIN found[i].updated : found[i].updated[k] # Foreign

\* The sort is stable: on equal keys the order of the results decides.
Before(found, i, j) ==
    LET S == found[i].typical
        T == found[j].typical
        s == found[i].updated
        t == found[j].updated IN
    \/ Overlaps(S, T)
    \/ ~ Overlaps(T, S) /\ StampBefore(s, t)
    \/ ~ Overlaps(T, S) /\ s = t /\ i < j

Best(found) ==
    {i \in Scored(found) : \A j \in Scored(found) \ {i} : Before(found, i, j)}

-----------------------------------------------------------------------------
(* The awaits.                                                             *)

End(how) == pc' = "done" /\ bound' = how

\* match_path_1: the first note, if its series_id is usable.
MatchPath1(found) ==
    /\ pc = "search" /\ recurring
    /\ notes' = found
    /\ \/ \E i \in DOMAIN found :
             /\ i = 1 /\ found[i].named
             /\ offer' = i
             /\ End("explicit")
       \/ /\ \A i \in DOMAIN found : i = 1 => ~ found[i].named
          /\ End("default")
          /\ UNCHANGED offer
    /\ UNCHANGED <<setup, reply>>

\* match_path_2: the best candidate, unless it has no usable series_id, and
\* the beginning of ratify(): without a transport nobody is asked.  One candidate
\* whose stamp has no key makes the sort raise.
MatchPath2(found) ==
    /\ pc = "search" /\ ~ recurring
    /\ notes' = found
    /\ \/ Sortable(found) /\ \E i \in Best(found) :
             /\ found[i].named
             /\ offer' = i
             /\ \/ transport = "none" /\ End("default")
                \/ transport # "none" /\ pc' = "prompt" /\ UNCHANGED bound
       \/ /\ Sortable(found) /\ \A i \in Best(found) : ~ found[i].named
          /\ End("default")
          /\ UNCHANGED offer
       \/ /\ ~ Sortable(found)
          /\ pc' = "raised"
          /\ UNCHANGED <<offer, bound>>
    /\ UNCHANGED <<setup, reply>>

\* BrainMCPError leaves the matcher.
SearchFails ==
    /\ pc = "search"
    /\ pc' = "raised"
    /\ UNCHANGED <<setup, notes, offer, reply, bound>>

\* The prompt is sent; a transport without await_admin_reply ends it there.
PromptSent ==
    /\ pc = "prompt"
    /\ \/ transport = "replies" /\ pc' = "wait" /\ UNCHANGED bound
       \/ transport = "sends" /\ End("default")
    /\ UNCHANGED <<setup, notes, offer, reply>>

PromptFails ==
    /\ pc = "prompt"
    /\ End("default")
    /\ UNCHANGED <<setup, notes, offer, reply>>

\* Mutants: the reply itself is the result; what is not understood is consent.
ResultOfReply(r) == r
ResultUnlessNo(r) ==
    CASE r = "no" -> "default" [] r = "new-series" -> "new" [] OTHER -> "implicit"

\* _parse_ratification_reply
Result(r) == CASE r = "yes" -> "implicit" [] r = "new-series" -> "new" [] OTHER -> "default"

Answered(r) ==
    /\ pc = "wait"
    /\ reply' = r
    /\ End(Result(r))
    /\ UNCHANGED <<setup, notes, offer>>

\* Mutant: the wait has no budget of its own.
TimeoutNever == FALSE /\ UNCHANGED vars

\* The budget is spent, or the transport raised.
Timeout ==
    /\ pc = "wait"
    /\ End("default")
    /\ UNCHANGED <<setup, notes, offer, reply>>

Search(found) == MatchPath1(found) \/ MatchPath2(found)
Prompt == PromptSent \/ PromptFails
Results == UNION {[1 .. n -> Notes] : n \in 0 .. MaxNotes}

Next ==
    \/ pc = "search" /\ \E found \in Results : Search(found)
    \/ SearchFails
    \/ Prompt
    \/ \E r \in Replies : Answered(r)
    \/ Timeout

Spec == Init /\ [][Next]_vars

\* wait_for has a timeout; the transport returns or raises when it sends.  Nobody
\* has to answer.
FairSpec == Spec /\ WF_vars(Prompt) /\ WF_vars(Timeout)

-----------------------------------------------------------------------------
(* Properties.                                                             *)

\* The candidate put to the owner: half of attendees and participants together
\* are common to both, no other note overlaps more, and none that overlaps as much
\* is later in a part that both stamps have.  ("Most recent wins": what does not
\* follow is that a dated note wins over an undated one, or that of two stamps which
\* agree as far as both go the one with a time does; the code prefers the shorter.)
OfferIsBest ==
    ~ recurring /\ offer # NoNote =>
        LET S == notes[offer].typical IN
        /\ S # {} /\ 2 * Common(S) >= Union(S)
        /\ \A j \in DOMAIN notes :
              LET T == notes[j].typical IN
              T # {} =>
                /\ Common(T) * Union(S) <= Common(S) * Union(T)
                /\ Common(T) * Union(S) = Common(S) * Union(T)
                      => ~ Later(notes[j].updated, notes[offer].updated)

\* A guess is never applied unless the owner consented: a meeting without a
\* recurring id gets another profile than the default one only by "yes" or
\* "new-series" to an offer that was made; one with a recurring id only by the first
\* note found.  No failure, timeout or odd reply on the way binds anything.
NoBindingWithoutConsent ==
    bound # "default" =>
        /\ offer # NoNote /\ notes[offer].named
        /\ ~ recurring => reply \in {"yes", "new-series"}
        /\ recurring => offer = 1

\* A meeting is never kept waiting for its owner: ratification comes to a result
\* even if nobody ever answers the prompt.
RatificationEnds == pc \in {"prompt", "wait"} ~> pc = "done"
=============================================================================
