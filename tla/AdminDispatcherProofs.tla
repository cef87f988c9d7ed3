------------------------- MODULE AdminDispatcherProofs -------------------------
(***************************************************************************)
(* Proofs about AdminDispatcher for every set of persons and admins, any   *)
(* number of commands and any number of sessions.                          *)
(*                                                                         *)
(* All handlers have one shape (CommandShape): they leave the profile as   *)
(* it is or extend it by one explained entry, and they answer at once or   *)
(* send the profile they have just made.  The invariants follow from the   *)
(* shape and from what the Brain may do with a request.                    *)
(***************************************************************************)
EXTENDS AdminDispatcher, TLAPS

\* Command c has an entry in history h.
Recorded(h, c) == \E i \in DOMAIN h : h[i].ts = c

\* A profile that adds one entry for the next command.
ExtendsBy(new, mutation) ==
    /\ mutation \in Mutations
    /\ mutation.ts = asked + 1
    /\ mutation.session = session
    /\ new \in Profiles
    /\ new.history = Append(profile.history, mutation)
    /\ Explains(profile) => Explains(new)
Extended(new) == \E mutation \in Mutations : ExtendsBy(new, mutation)

\* What a handler makes of the status and of the request of its command.
Answers(outcome) ==
    /\ status' = [status EXCEPT ![asked + 1] = outcome]
    /\ UNCHANGED writeVars
Sends ==
    /\ Extended(profile')
    /\ status' = [status EXCEPT ![asked + 1] = "writing"]
    /\ content' = [content EXCEPT ![asked + 1] = profile']
    /\ request' = [request EXCEPT ![asked + 1] = "sent"]
    /\ overlapped' = (overlapped \/ \E c \in Commands : request[c] = "sent")

-----------------------------------------------------------------------------
(* Histories.                                                              *)

IsEditOf(m, x) == m.action \in Edits /\ m.target = x

LEMMA AppendParts ==
    ASSUME NEW h \in Seq(Mutations), NEW m \in Mutations
    PROVE  /\ Append(h, m) \in Seq(Mutations)
           /\ Len(h) \in Nat /\ DOMAIN h = 1 .. Len(h)
           /\ DOMAIN Append(h, m) = 1 .. (Len(h) + 1)
           /\ \A i \in 1 .. Len(h) : Append(h, m)[i] = h[i]
           /\ Append(h, m)[Len(h) + 1] = m
  OBVIOUS

\* An entry decides for whom it edits, and for nobody else.
LEMMA LastEditOfAppend ==
    ASSUME NEW h \in Seq(Mutations), NEW m \in Mutations, NEW x, NEW action \in Edits
    PROVE  /\ IsEditOf(m, x) =>
                (LastEdit(Append(h, m), x, action) <=> m.action = action)
           /\ ~ IsEditOf(m, x) =>
                (LastEdit(Append(h, m), x, action) <=> LastEdit(h, x, action))
           /\ NeverEdited(Append(h, m), x) <=> NeverEdited(h, x) /\ ~ IsEditOf(m, x)
<1> DEFINE g == Append(h, m)
           n == Len(h)
<1>1. /\ n \in Nat /\ DOMAIN h = 1 .. n
      /\ DOMAIN g = 1 .. (n + 1)
      /\ \A i \in 1 .. n : g[i] = h[i]
      /\ g[n + 1] = m
  BY AppendParts
<1> HIDE DEF g, n
<1>2. NeverEdited(g, x) <=> NeverEdited(h, x) /\ ~ IsEditOf(m, x)
  BY <1>1 DEF NeverEdited, IsEditOf
<1>3. ASSUME IsEditOf(m, x) PROVE LastEdit(g, x, action) <=> m.action = action
  <2>1. ASSUME LastEdit(g, x, action) PROVE m.action = action
    <3>1. PICK i \in DOMAIN g :
             /\ g[i].action = action /\ g[i].target = x
             /\ \A j \in DOMAIN g : j > i => ~ (g[j].action \in Edits /\ g[j].target = x)
      BY <2>1 DEF LastEdit
    <3>2. i = n + 1
      BY <1>1, <1>3, <3>1 DEF IsEditOf
    <3>3. QED
      BY <1>1, <3>1, <3>2
  <2>2. ASSUME m.action = action PROVE LastEdit(g, x, action)
    BY <1>1, <1>3, <2>2 DEF LastEdit, IsEditOf
  <2>3. QED
    BY <2>1, <2>2
<1>4. ASSUME ~ IsEditOf(m, x) PROVE LastEdit(g, x, action) <=> LastEdit(h, x, action)
  <2>1. ASSUME LastEdit(g, x, action) PROVE LastEdit(h, x, action)
    <3>1. PICK i \in DOMAIN g :
             /\ g[i].action = action /\ g[i].target = x
             /\ \A j \in DOMAIN g : j > i => ~ (g[j].action \in Edits /\ g[j].target = x)
      BY <2>1 DEF LastEdit
    <3>2. i \in DOMAIN h
      BY <1>1, <1>4, <3>1 DEF IsEditOf
    <3>3. QED
      BY <1>1, <3>1, <3>2 DEF LastEdit
  <2>2. ASSUME LastEdit(h, x, action) PROVE LastEdit(g, x, action)
    <3>1. PICK i \in DOMAIN h :
             /\ h[i].action = action /\ h[i].target = x
             /\ \A j \in DOMAIN h : j > i => ~ (h[j].action \in Edits /\ h[j].target = x)
      BY <2>2 DEF LastEdit
    <3>2. \A j \in DOMAIN g : j > i => ~ (g[j].action \in Edits /\ g[j].target = x)
      BY <1>1, <1>4, <3>1 DEF IsEditOf
    <3>3. QED
      BY <1>1, <3>1, <3>2 DEF LastEdit
  <2>3. QED
    BY <2>1, <2>2
<1>5. QED
  BY <1>2, <1>3, <1>4 DEF g

LEMMA AllowlistOfAppend ==
    ASSUME NEW h \in Seq(Mutations), NEW m \in Mutations
    PROVE  /\ m.action = "allowlist_add" /\ m.target \in Persons =>
                AllowlistOf(Append(h, m)) = AllowlistOf(h) \cup {m.target}
           /\ m.action = "allowlist_remove" =>
                AllowlistOf(Append(h, m)) = AllowlistOf(h) \ {m.target}
           /\ m.action \notin Edits => AllowlistOf(Append(h, m)) = AllowlistOf(h)
<1>1. \A x : /\ IsEditOf(m, x) =>
                  (LastEdit(Append(h, m), x, "allowlist_add") <=> m.action = "allowlist_add")
             /\ ~ IsEditOf(m, x) =>
                  (LastEdit(Append(h, m), x, "allowlist_add")
                     <=> LastEdit(h, x, "allowlist_add"))
             /\ NeverEdited(Append(h, m), x) <=> NeverEdited(h, x) /\ ~ IsEditOf(m, x)
  BY LastEditOfAppend DEF Edits
<1>2. QED
  BY <1>1 DEF AllowlistOf, IsEditOf, Edits

-----------------------------------------------------------------------------
(* Handlers.                                                               *)

\* An edit of the allowlist that fits its entry extends the profile.
LEMMA EditedExtends ==
    ASSUME TypeOK, asked < MaxCommands, NEW cmd \in Parsed, NEW by \in Admins,
           NEW action, NEW allow \in SUBSET Persons,
           Mutation(cmd, action, by) \in Mutations,
           \/ /\ action = "allowlist_add" /\ cmd.target \in Persons
              /\ allow = profile.allow \cup {cmd.target}
           \/ action = "allowlist_remove" /\ allow = profile.allow \ {cmd.target}
           \/ action \notin Edits /\ allow = profile.allow
    PROVE  Extended(Edited(allow, Mutation(cmd, action, by)))
<1> DEFINE m == Mutation(cmd, action, by)
           new == Edited(allow, m)
           h == profile.history
<1>1. h \in Seq(Mutations) /\ profile.allow \in SUBSET Persons
  BY DEF TypeOK, Profiles
<1>2. /\ m \in Mutations /\ m.ts = asked + 1 /\ m.session = session
      /\ m.action = action /\ m.target = cmd.target /\ m.by \in Admins
  BY DEF Mutation
<1>3. new.allow = allow /\ new.history = Append(h, m)
  BY DEF Edited
<1>4. new \in Profiles
  BY <1>1, <1>2, AppendParts DEF Edited, Profiles
<1>5. ASSUME Explains(profile) PROVE Explains(new)
  <2>1. /\ profile.allow = AllowlistOf(h)
        /\ \A i \in DOMAIN h : h[i].by \in Admins
    BY <1>5 DEF Explains
  <2>2. allow = AllowlistOf(Append(h, m))
    BY <1>1, <1>2, <2>1, AllowlistOfAppend
  <2>3. \A i \in DOMAIN Append(h, m) : Append(h, m)[i].by \in Admins
    BY <1>1, <1>2, <2>1, AppendParts
  <2>4. QED
    BY <1>3, <2>2, <2>3 DEF Explains
<1>6. ExtendsBy(new, m)
  BY <1>2, <1>3, <1>4, <1>5 DEF ExtendsBy
<1>7. QED
  BY <1>2, <1>6 DEF Extended

\* The types of the commands and of their entries.
LEMMA ParsedTypes ==
    ASSUME NEW cmd \in Parsed
    PROVE  /\ cmd \in AdminCommand
           /\ cmd.verb \in Edits => cmd.target \in Persons
           /\ cmd.verb = "mode" => cmd.target \in Tiers
           /\ cmd.verb \in {"mute", "unmute"} => cmd.target = None
           /\ cmd.scope \in Scopes
  BY DEF Parsed, AdminCommand, Edits, Verbs, Scopes

LEMMA NextIsCommand ==
    ASSUME TypeOK, asked < MaxCommands
    PROVE  asked \in Nat /\ asked + 1 \in Commands /\ asked + 1 \in 0 .. MaxCommands
  BY AdminAssumption DEF TypeOK, Commands

LEMMA MutationType ==
    ASSUME TypeOK, asked < MaxCommands, NEW cmd \in Parsed, NEW by \in Admins,
           NEW action \in Edits \cup {"mode_change", "mute", "unmute"}
    PROVE  Mutation(cmd, action, by) \in Mutations
<1>1. cmd.target \in Persons \cup Tiers \cup {None} /\ cmd.scope \in Scopes
  BY ParsedTypes DEF AdminCommand
<1>2. asked + 1 \in Commands /\ by \in Persons /\ session \in Sessions
  BY NextIsCommand, AdminAssumption DEF TypeOK
<1>3. QED
  BY <1>1, <1>2 DEF Mutation, Mutations

\* Nothing of a profile survives a command but by the shape above.
LEMMA CommandShape ==
    ASSUME TypeOK, NEW cmd \in Parsed, NEW by \in Persons, OnCommand(cmd, by)
    PROVE  /\ asked < MaxCommands /\ asked' = asked + 1
           /\ command' = [command EXCEPT ![asked + 1] = cmd]
           /\ UNCHANGED <<session, writable, vault>>
           /\ muted' \in BOOLEAN /\ tier' \in Tiers \cup {None}
           /\ profile' = profile \/ Extended(profile')
           /\ \/ \E outcome \in {"ok", "denied", "failed"} : Answers(outcome)
              \/ Sends
<1>1. /\ asked < MaxCommands /\ asked' = asked + 1
      /\ command' = [command EXCEPT ![asked + 1] = cmd]
      /\ UNCHANGED <<session, writable, vault>>
  BY DEF OnCommand, AllowlistAdd, AllowlistRemove, EditAllowlist, Persist, Mode, Mute,
         Show, Deny, Dispatch
<1>2. muted \in BOOLEAN /\ tier \in Tiers \cup {None} /\ profile.allow \in SUBSET Persons
  BY DEF TypeOK, Profiles
<1>3. ASSUME NEW allow \in SUBSET Persons, by \in Admins,
             EditAllowlist(cmd, by, allow), cmd.verb \in Edits,
             \/ cmd.verb = "allowlist_add" /\ allow = profile.allow \cup {cmd.target}
             \/ cmd.verb = "allowlist_remove" /\ allow = profile.allow \ {cmd.target}
      PROVE  /\ UNCHANGED flagVars
             /\ Extended(profile')
             /\ Sends \/ \E outcome \in {"ok", "failed"} : Answers(outcome)
  <2>1. Mutation(cmd, cmd.verb, by) \in Mutations
    BY <1>1, <1>3, MutationType
  <2>2. Extended(Edited(allow, Mutation(cmd, cmd.verb, by)))
    <3>1. cmd.target \in Persons
      BY <1>3, ParsedTypes
    <3>2. QED
      BY <1>1, <1>3, <2>1, <3>1, EditedExtends
  <2>3. profile' = Edited(allow, Mutation(cmd, cmd.verb, by)) /\ UNCHANGED flagVars
    BY <1>3 DEF EditAllowlist
  <2>4. Persist(cmd, profile') \/ (Dispatch(cmd, "ok") /\ UNCHANGED writeVars)
    BY <1>3, <2>3 DEF EditAllowlist
  <2>5. QED
    BY <2>2, <2>3, <2>4 DEF Persist, Rendered, Dispatch, Answers, Sends
<1>4. CASE AllowlistAdd(cmd, by)
  <2>1. cmd.target \in Persons /\ profile.allow \cup {cmd.target} \in SUBSET Persons
    BY <1>2, <1>4, ParsedTypes DEF AllowlistAdd, Edits
  <2>2. QED
    BY <1>1, <1>2, <1>3, <1>4, <2>1 DEF AllowlistAdd, flagVars, Edits
<1>5. CASE AllowlistRemove(cmd, by)
  <2>1. profile.allow \ {cmd.target} \in SUBSET Persons
    BY <1>2
  <2>2. CASE EditAllowlist(cmd, by, profile.allow \ {cmd.target})
    BY <1>1, <1>2, <1>3, <1>5, <2>1, <2>2 DEF AllowlistRemove, flagVars, Edits
  <2>3. CASE Dispatch(cmd, "ok") /\ UNCHANGED <<profile, flagVars, writeVars>>
    BY <1>1, <1>2, <2>3 DEF Dispatch, Answers, flagVars
  <2>4. QED
    BY <1>5, <2>2, <2>3 DEF AllowlistRemove
<1>6. CASE Mode(cmd, by)
  <2>1. by \in Admins /\ cmd.target \in Tiers /\ "mode_change" \notin Edits
    BY <1>6, ParsedTypes DEF Mode, Edits
  <2>2. Extended(Edited(profile.allow, Mutation(cmd, "mode_change", by)))
    BY <1>1, <1>2, <2>1, MutationType, EditedExtends
  <2>3. QED
    BY <1>1, <1>2, <1>6, <2>1, <2>2 DEF Mode, Dispatch, Answers
<1>7. CASE Mute(cmd, by)
  <2>1. /\ by \in Admins /\ MuteAction(cmd) \in {"mute", "unmute"}
        /\ MuteAction(cmd) \notin Edits
    BY <1>7 DEF Mute, MuteAction, Edits
  <2>2. Extended(Edited(profile.allow, Mutation(cmd, MuteAction(cmd), by)))
    BY <1>1, <1>2, <2>1, MutationType, EditedExtends
  <2>3. QED
    BY <1>1, <1>2, <1>7, <2>1, <2>2 DEF Mute, Dispatch, Answers
<1>8. CASE Show(cmd, by) \/ Deny(cmd, by)
  BY <1>1, <1>2, <1>8 DEF Show, Deny, Dispatch, Answers, flagVars
<1>9. QED
  BY <1>4, <1>5, <1>6, <1>7, <1>8 DEF OnCommand

-----------------------------------------------------------------------------
(* Type correctness.                                                       *)

LEMMA TypeInit == Init => TypeOK
<1> SUFFICES ASSUME Init PROVE TypeOK
  OBVIOUS
<1>1. vault \in Profiles
  BY AdminAssumption DEF Init, Profiles
<1>2. NoCommand \in AdminCommand
  BY DEF NoCommand, AdminCommand, Verbs, Scopes
<1>3. session \in Sessions /\ asked \in 0 .. MaxCommands
  BY AdminAssumption DEF Init, Sessions
<1>4. QED
  BY <1>1, <1>2, <1>3 DEF Init, TypeOK

LEMMA TypeNext == TypeOK /\ [Next]_vars => TypeOK'
<1> SUFFICES ASSUME TypeOK, [Next]_vars PROVE TypeOK'
  OBVIOUS
<1>1. ASSUME NEW cmd \in Parsed, NEW by \in Persons, OnCommand(cmd, by) PROVE TypeOK'
  <2>1. asked + 1 \in Commands /\ asked' \in 0 .. MaxCommands
    BY <1>1, CommandShape, NextIsCommand
  <2>2. command' \in [Commands -> AdminCommand]
    BY <1>1, <2>1, CommandShape, ParsedTypes DEF TypeOK
  <2>3. profile' \in Profiles
    BY <1>1, CommandShape DEF Extended, ExtendsBy, TypeOK
  <2>4. /\ status' \in [Commands -> {"none", "writing", "ok", "denied", "failed", "gone"}]
        /\ content' \in [Commands -> Profiles]
        /\ request' \in [Commands -> {"none", "sent", "applied", "lost"}]
        /\ overlapped' \in BOOLEAN
    <3>1. CASE \E outcome \in {"ok", "denied", "failed"} : Answers(outcome)
      BY <2>1, <3>1 DEF Answers, writeVars, TypeOK
    <3>2. CASE Sends
      BY <2>1, <2>3, <3>2 DEF Sends, TypeOK
    <3>3. QED
      BY <1>1, <3>1, <3>2, CommandShape
  <2>5. QED
    BY <1>1, <2>1, <2>2, <2>3, <2>4, CommandShape DEF TypeOK
<1>2. ASSUME NEW c \in Commands, Brain(c) PROVE TypeOK'
  <2>1. CASE Apply(c)
    BY <1>2, <2>1 DEF Apply, SetRequest, flagVars, TypeOK
  <2>2. CASE Lose(c)
    BY <1>2, <2>2 DEF Lose, SetRequest, flagVars, TypeOK
  <2>3. CASE WriteReturns(c)
    BY <1>2, <2>3 DEF WriteReturns, SetStatus, flagVars, writeVars, TypeOK
  <2>4. CASE WriteFails(c)
    BY <1>2, <2>4 DEF WriteFails, SetStatus, flagVars, writeVars, TypeOK
  <2>5. QED
    BY <1>2, <2>1, <2>2, <2>3, <2>4 DEF Brain
<1>3. CASE NextSession
  <2>1. session' \in Sessions
    BY <1>3, AdminAssumption DEF NextSession, Sessions, TypeOK
  <2>2. QED
    BY <1>3, <2>1 DEF NextSession, writeVars, TypeOK
<1>4. CASE UNCHANGED vars
  BY <1>4 DEF vars, flagVars, writeVars, TypeOK
<1>5. QED
  BY <1>1, <1>2, <1>3, <1>4 DEF Next

\* Type correctness of the dispatcher with its vault note, for any number of
\* persons, commands and sessions.
THEOREM AdminTypeOK == Spec => []TypeOK
  BY TypeInit, TypeNext, PTL DEF Spec

-----------------------------------------------------------------------------
(* The audit trail.                                                        *)

LEMMA AuditInit == Init => AuditExplains
<1> SUFFICES ASSUME Init PROVE AuditExplains
  OBVIOUS
<1>1. vault.allow = Listed /\ vault.history = <<>>
  BY DEF Init
<1>2. AllowlistOf(<<>>) = Listed
  BY AdminAssumption DEF AllowlistOf, LastEdit, NeverEdited
<1>3. Explains(vault)
  BY <1>1, <1>2 DEF Explains
<1>4. QED
  BY <1>3 DEF Init, AuditExplains

LEMMA AuditNext == TypeOK /\ AuditExplains /\ [Next]_vars => AuditExplains'
<1> SUFFICES ASSUME TypeOK, AuditExplains, [Next]_vars PROVE AuditExplains'
  OBVIOUS
<1>1. ASSUME NEW cmd \in Parsed, NEW by \in Persons, OnCommand(cmd, by)
      PROVE  AuditExplains'
  <2>1. Explains(profile') /\ Explains(vault')
    BY <1>1, CommandShape DEF Extended, ExtendsBy, AuditExplains
  <2>2. ASSUME NEW c \in Commands, request'[c] = "sent" PROVE Explains(content'[c])
    <3>1. CASE UNCHANGED writeVars
      BY <2>2, <3>1 DEF writeVars, AuditExplains
    <3>2. CASE Sends
      <4>1. CASE c = asked + 1
        BY <2>1, <3>2, <4>1 DEF Sends, TypeOK
      <4>2. CASE c # asked + 1
        BY <2>2, <3>2, <4>2 DEF Sends, TypeOK, AuditExplains
      <4>3. QED
        BY <4>1, <4>2
    <3>3. QED
      BY <1>1, <3>1, <3>2, CommandShape DEF Answers
  <2>3. QED
    BY <2>1, <2>2 DEF AuditExplains, Explains, AllowlistOf, LastEdit, NeverEdited
<1>2. ASSUME NEW c \in Commands, Brain(c) PROVE AuditExplains'
  <2>1. UNCHANGED <<profile, content>>
    BY <1>2 DEF Brain, Apply, Lose, WriteReturns, WriteFails, writeVars
  <2>2. \A d \in Commands : request'[d] = "sent" => request[d] = "sent"
    BY <1>2 DEF Brain, Apply, Lose, WriteReturns, WriteFails, SetRequest, writeVars, TypeOK
  <2>3. vault' = vault \/ (request[c] = "sent" /\ vault' = content[c])
    BY <1>2 DEF Brain, Apply, Lose, WriteReturns, WriteFails
  <2>4. Explains(profile') /\ Explains(vault')
    BY <2>1, <2>3 DEF AuditExplains
  <2>5. \A d \in Commands : request'[d] = "sent" => Explains(content'[d])
    BY <2>1, <2>2 DEF AuditExplains
  <2>6. QED
    BY <2>4, <2>5 DEF AuditExplains, Explains, AllowlistOf, LastEdit, NeverEdited
<1>3. CASE NextSession
  BY <1>3 DEF NextSession, writeVars, AuditExplains, Explains, AllowlistOf, LastEdit,
              NeverEdited
<1>4. CASE UNCHANGED vars
  BY <1>4 DEF vars, writeVars, AuditExplains, Explains, AllowlistOf, LastEdit, NeverEdited
<1>5. QED
  BY <1>1, <1>2, <1>3, <1>4 DEF Next

\* Wherever a copy of the profile is (admin.py's holder, the vault note, a write
\* under way), its allowlist is what its own audit trail tells of it.
THEOREM AdminAuditExplains == Spec => []AuditExplains
  BY TypeInit, TypeNext, AuditInit, AuditNext, PTL DEF Spec

-----------------------------------------------------------------------------
(* Durability.                                                             *)

\* Answered as done, or not yet answered.
Stands(c) == status[c] \in {"ok", "writing"}

\* Requests are those of the commands given, and carry their entry.
RequestInv ==
    \A c \in Commands :
        /\ c > asked => status[c] = "none" /\ request[c] = "none"
        /\ status[c] = "ok" => request[c] \in {"none", "applied"}
        /\ request[c] = "sent" => Recorded(content[c].history, c)

\* While writes do not overlap, what stands is wherever it has to be: in memory,
\* in the note once it is written, and in the write that will replace the note.
SerialInv ==
    /\ \A c, d \in Commands : request[c] = "sent" /\ request[d] = "sent" => c = d
    /\ \A c \in Commands :
          Stands(c) /\ request[c] # "none" => Recorded(profile.history, c)
    /\ \A c \in Commands :
          Stands(c) /\ request[c] = "applied" => Recorded(vault.history, c)
    /\ \A c, d \in Commands :
          request[c] = "sent" /\ Stands(d) /\ request[d] = "applied"
            => Recorded(content[c].history, d)

DurableInv == RequestInv /\ (~ overlapped => SerialInv)

\* Entries stay, and the next command's is among them.
LEMMA ExtendedRecords ==
    ASSUME TypeOK, NEW new, Extended(new)
    PROVE  /\ \A c : Recorded(profile.history, c) => Recorded(new.history, c)
           /\ Recorded(new.history, asked + 1)
<1>1. PICK m \in Mutations : ExtendsBy(new, m)
  BY DEF Extended
<1>2. profile.history \in Seq(Mutations)
  BY DEF TypeOK, Profiles
<1>3. QED
  BY <1>1, <1>2, AppendParts DEF ExtendsBy, Recorded

LEMMA DurableCommand ==
    ASSUME TypeOK, DurableInv, NEW cmd \in Parsed, NEW by \in Persons, OnCommand(cmd, by)
    PROVE  DurableInv'
<1> DEFINE n == asked + 1
<1>1. /\ asked \in Nat /\ n \in Commands /\ asked' = n
      /\ UNCHANGED vault
      /\ profile' = profile \/ Extended(profile')
  BY CommandShape, NextIsCommand
<1>2. status[n] = "none" /\ request[n] = "none"
  BY <1>1 DEF DurableInv, RequestInv
<1>3. \A c : Recorded(profile.history, c) => Recorded(profile'.history, c)
  BY <1>1, ExtendedRecords
<1>4. \A c \in Commands : c > asked' => c > asked /\ c # n
  BY <1>1 DEF Commands
<1>5. CASE \E outcome \in {"ok", "denied", "failed"} : Answers(outcome)
  <2>1. /\ UNCHANGED <<content, request, overlapped>>
        /\ \A c \in Commands : c # n => status'[c] = status[c]
    BY <1>1, <1>5 DEF Answers, writeVars, TypeOK
  <2>2. RequestInv'
    BY <1>2, <1>4, <2>1 DEF DurableInv, RequestInv, Recorded
  <2>3. ASSUME ~ overlapped' PROVE SerialInv'
    <3>1. SerialInv
      BY <2>1, <2>3 DEF DurableInv
    <3>2. \A c \in Commands : Stands(c)' /\ request[c] # "none" => Stands(c)
      BY <1>2, <2>1 DEF Stands
    <3>3. \A c \in Commands :
             (Stands(c) /\ request[c] # "none")' => Recorded(profile.history, c)'
      BY <1>3, <2>1, <3>1, <3>2 DEF SerialInv, Recorded
    <3>4. QED
      BY <1>1, <2>1, <3>1, <3>2, <3>3 DEF SerialInv, Recorded
  <2>4. QED
    BY <2>2, <2>3 DEF DurableInv
<1>6. CASE Sends
  <2>1. /\ Extended(profile')
        /\ status'[n] = "writing" /\ content'[n] = profile' /\ request'[n] = "sent"
        /\ \A c \in Commands : c # n =>
              status'[c] = status[c] /\ content'[c] = content[c] /\ request'[c] = request[c]
        /\ ~ overlapped' => ~ overlapped /\ \A c \in Commands : request[c] # "sent"
    BY <1>1, <1>6 DEF Sends, TypeOK
  <2>2. Recorded(profile'.history, n)
    BY <2>1, ExtendedRecords
  <2>3. RequestInv'
    BY <1>2, <1>4, <2>1, <2>2 DEF DurableInv, RequestInv, Recorded
  <2>4. ASSUME ~ overlapped' PROVE SerialInv'
    <3>1. SerialInv /\ \A c \in Commands : request[c] # "sent"
      BY <2>1, <2>4 DEF DurableInv
    <3>2. \A c \in Commands : c # n /\ Stands(c)' => Stands(c)
      BY <2>1 DEF Stands
    <3>3. \A c \in Commands :
             (Stands(c) /\ request[c] # "none")' => Recorded(profile.history, c)'
      BY <1>3, <2>1, <2>2, <3>1, <3>2 DEF SerialInv, Recorded
    <3>4. \A c \in Commands : request'[c] = "sent" => c = n
      BY <2>1, <3>1
    <3>5. \A c \in Commands :
             (Stands(c) /\ request[c] = "applied")' => Recorded(vault.history, c)'
      BY <1>1, <2>1, <3>1, <3>2 DEF SerialInv, Recorded
    <3>6. \A d \in Commands :
             (Stands(d) /\ request[d] = "applied")' => Recorded(content'[n].history, d)
      BY <2>1, <3>3 DEF Recorded
    <3>7. QED
      BY <3>3, <3>4, <3>5, <3>6 DEF SerialInv, Recorded
  <2>5. QED
    BY <2>3, <2>4 DEF DurableInv
<1>7. QED
  BY <1>5, <1>6, CommandShape

LEMMA DurableBrain ==
    ASSUME TypeOK, DurableInv, NEW c \in Commands, Brain(c)
    PROVE  DurableInv'
<1>1. UNCHANGED <<asked, profile, content, overlapped>>
  BY DEF Brain, Apply, Lose, WriteReturns, WriteFails, writeVars
<1>2. CASE Apply(c)
  <2>1. /\ request[c] = "sent" /\ request'[c] = "applied" /\ vault' = content[c]
        /\ \A d \in Commands : d # c => request'[d] = request[d]
        /\ UNCHANGED status
    BY <1>2 DEF Apply, SetRequest, TypeOK
  <2>2. RequestInv'
    BY <1>1, <2>1 DEF DurableInv, RequestInv, Recorded
  <2>3. ASSUME ~ overlapped' PROVE SerialInv'
    <3>1. SerialInv /\ Recorded(content[c].history, c)
      BY <1>1, <2>1, <2>3 DEF DurableInv, RequestInv
    <3>2. \A d \in Commands : request'[d] # "sent"
      BY <2>1, <3>1 DEF SerialInv
    <3>3. \A d \in Commands :
             (Stands(d) /\ request[d] # "none")' => Recorded(profile.history, d)'
      BY <1>1, <2>1, <3>1 DEF SerialInv, Stands, Recorded
    <3>4. \A d \in Commands :
             (Stands(d) /\ request[d] = "applied")' => Recorded(vault.history, d)'
      BY <2>1, <3>1 DEF SerialInv, Stands, Recorded
    <3>5. QED
      BY <3>2, <3>3, <3>4 DEF SerialInv
  <2>4. QED
    BY <2>2, <2>3 DEF DurableInv
<1>3. CASE Lose(c)
  <2>1. /\ request[c] = "sent" /\ request'[c] = "lost"
        /\ \A d \in Commands : d # c => request'[d] = request[d]
        /\ UNCHANGED <<status, vault>>
    BY <1>3 DEF Lose, SetRequest, TypeOK
  <2>2. RequestInv'
    BY <1>1, <2>1 DEF DurableInv, RequestInv, Recorded
  <2>3. SerialInv => SerialInv'
    BY <1>1, <2>1 DEF SerialInv, Stands, Recorded
  <2>4. QED
    BY <1>1, <2>2, <2>3 DEF DurableInv
<1>4. CASE WriteReturns(c) \/ WriteFails(c)
  <2>1. /\ UNCHANGED <<request, vault>>
        /\ \A d \in Commands : d # c => status'[d] = status[d]
        /\ status[c] = "writing"
        /\ status'[c] = "failed" \/ (status'[c] = "ok" /\ request[c] = "applied")
    BY <1>4 DEF WriteReturns, WriteFails, SetStatus, writeVars, TypeOK
  <2>2. RequestInv'
    BY <1>1, <2>1 DEF DurableInv, RequestInv, Recorded
  <2>3. \A d \in Commands : Stands(d)' => Stands(d)
    BY <2>1 DEF Stands
  <2>4. SerialInv => SerialInv'
    BY <1>1, <2>1, <2>3 DEF SerialInv, Recorded
  <2>5. QED
    BY <1>1, <2>2, <2>4 DEF DurableInv
<1>5. QED
  BY <1>2, <1>3, <1>4 DEF Brain

LEMMA DurableNextSession ==
    ASSUME TypeOK, DurableInv, NextSession
    PROVE  DurableInv'
<1>1. /\ UNCHANGED <<asked, vault, content, request, overlapped>>
      /\ profile' = vault
      /\ \A c \in Commands :
            status'[c] = IF status[c] = "writing" THEN "gone" ELSE status[c]
  BY DEF NextSession, writeVars
<1>2. RequestInv'
  BY <1>1 DEF DurableInv, RequestInv, Recorded
<1>3. ASSUME SerialInv PROVE SerialInv'
  <2>1. \A c \in Commands : Stands(c)' => Stands(c) /\ status[c] = "ok"
    BY <1>1 DEF Stands
  <2>2. \A c \in Commands : Stands(c)' /\ request[c] # "none" => request[c] = "applied"
    BY <2>1 DEF DurableInv, RequestInv
  <2>3. QED
    BY <1>1, <1>3, <2>1, <2>2 DEF SerialInv, Recorded
<1>4. QED
  BY <1>1, <1>2, <1>3 DEF DurableInv

LEMMA DurableInit == Init => DurableInv
  BY DEF Init, DurableInv, RequestInv, SerialInv, Stands

LEMMA DurableNext == TypeOK /\ DurableInv /\ [Next]_vars => DurableInv'
<1> SUFFICES ASSUME TypeOK, DurableInv, [Next]_vars PROVE DurableInv'
  OBVIOUS
<1>1. CASE UNCHANGED vars
  BY <1>1 DEF vars, writeVars, DurableInv, RequestInv, SerialInv, Stands, Recorded
<1>2. QED
  BY <1>1, DurableCommand, DurableBrain, DurableNextSession DEF Next

\* The entry of an allowlist edit names what its command asks.
Fits(given, e) == given[e.ts].verb \in Edits =>
                     e.action = given[e.ts].verb /\ e.target = given[e.ts].target

Truthful(p) == \A i \in DOMAIN p.history : p.history[i].ts <= asked /\ Fits(command, p.history[i])

TruthInv ==
    /\ Truthful(profile)
    /\ Truthful(vault)
    /\ \A c \in Commands : request[c] = "sent" => Truthful(content[c])
    /\ \A c \in Commands : request[c] # "none" =>
          command[c].verb \in Edits /\ command[c].target \in Persons

\* What a handler adds to the history, and whose handler sends a request.
LEMMA EntryShape ==
    ASSUME TypeOK, NEW cmd \in Parsed, NEW by \in Persons, OnCommand(cmd, by)
    PROVE  /\ \/ profile' = profile
              \/ \E m \in Mutations :
                    /\ profile'.history = Append(profile.history, m)
                    /\ m.ts = asked + 1
                    /\ cmd.verb \in Edits => m.action = cmd.verb /\ m.target = cmd.target
           /\ cmd.verb \notin Edits => UNCHANGED writeVars
<1>1. asked < MaxCommands
  BY CommandShape
<1>2. ASSUME by \in Admins, NEW action \in Edits \cup {"mode_change", "mute", "unmute"},
             NEW allow, profile' = Edited(allow, Mutation(cmd, action, by)),
             cmd.verb \in Edits => action = cmd.verb
      PROVE  \E m \in Mutations :
                /\ profile'.history = Append(profile.history, m)
                /\ m.ts = asked + 1
                /\ cmd.verb \in Edits => m.action = cmd.verb /\ m.target = cmd.target
  <2>1. Mutation(cmd, action, by) \in Mutations
    BY <1>1, <1>2, MutationType
  <2>2. /\ profile'.history = Append(profile.history, Mutation(cmd, action, by))
        /\ Mutation(cmd, action, by).ts = asked + 1
        /\ Mutation(cmd, action, by).action = action
        /\ Mutation(cmd, action, by).target = cmd.target
    BY <1>2 DEF Edited, Mutation
  <2> QED BY <1>2, <2>1, <2>2
<1>3. CASE AllowlistAdd(cmd, by) \/ AllowlistRemove(cmd, by)
  <2>1. by \in Admins /\ cmd.verb \in Edits
    BY <1>3 DEF AllowlistAdd, AllowlistRemove, Edits
  <2>2. \/ profile' = profile
        \/ \E allow : profile' = Edited(allow, Mutation(cmd, cmd.verb, by))
    BY <1>3 DEF AllowlistAdd, AllowlistRemove, EditAllowlist
  <2> QED BY <1>2, <2>1, <2>2
<1>4. CASE Mode(cmd, by)
  <2>1. by \in Admins /\ cmd.verb \notin Edits /\ UNCHANGED writeVars
    BY <1>4 DEF Mode, Edits
  <2>2. profile' = Edited(profile.allow, Mutation(cmd, "mode_change", by))
    BY <1>4 DEF Mode
  <2> QED BY <1>2, <2>1, <2>2
<1>5. CASE Mute(cmd, by)
  <2>1. by \in Admins /\ cmd.verb \notin Edits /\ UNCHANGED writeVars
    BY <1>5 DEF Mute, Edits
  <2>2. /\ profile' = Edited(profile.allow, Mutation(cmd, MuteAction(cmd), by))
        /\ MuteAction(cmd) \in {"mute", "unmute"}
    BY <1>5 DEF Mute, MuteAction
  <2> QED BY <1>2, <2>1, <2>2
<1>6. CASE Show(cmd, by) \/ Deny(cmd, by)
  BY <1>6 DEF Show, Deny
<1> QED BY <1>3, <1>4, <1>5, <1>6 DEF OnCommand

\* The entries of the commands given keep naming what those ask.
LEMMA TruthfulStays ==
    ASSUME TypeOK, asked < MaxCommands, NEW cmd,
           asked' = asked + 1, command' = [command EXCEPT ![asked + 1] = cmd],
           NEW p \in Profiles, Truthful(p)
    PROVE  \A i \in DOMAIN p.history :
              p.history[i].ts <= asked' /\ Fits(command', p.history[i])
<1> SUFFICES ASSUME NEW i \in DOMAIN p.history
             PROVE  p.history[i].ts <= asked' /\ Fits(command', p.history[i])
  OBVIOUS
<1> DEFINE e == p.history[i]
<1>1. e.ts \in Commands /\ e.ts <= asked /\ Fits(command, e)
  <2>1. e \in Mutations
    BY DEF Profiles
  <2> QED BY <2>1 DEF Mutations, Truthful
<1>2. e.ts \in Nat /\ asked \in Nat /\ asked + 1 \in Commands
  BY <1>1, NextIsCommand DEF Commands
<1>3. e.ts <= asked + 1 /\ e.ts # asked + 1
  BY <1>1, <1>2
<1>4. command'[e.ts] = command[e.ts]
  BY <1>1, <1>3 DEF TypeOK
<1> HIDE DEF e
<1>5. Fits(command', e)
  BY <1>1, <1>4 DEF Fits, e
<1> QED BY <1>3, <1>5 DEF e

LEMMA TruthCommand ==
    ASSUME TypeOK, DurableInv, TruthInv, NEW cmd \in Parsed, NEW by \in Persons, OnCommand(cmd, by)
    PROVE  TruthInv'
<1> DEFINE n == asked + 1
<1>1. /\ asked < MaxCommands /\ asked' = n /\ n \in Commands /\ asked \in Nat
      /\ command' = [command EXCEPT ![n] = cmd] /\ UNCHANGED vault
  BY CommandShape, NextIsCommand
<1>2. \A p \in Profiles : Truthful(p) =>
         \A i \in DOMAIN p.history : p.history[i].ts <= asked' /\ Fits(command', p.history[i])
  BY <1>1, TruthfulStays
<1>3. Truthful(vault)'
  BY <1>1, <1>2 DEF TruthInv, Truthful, Fits, TypeOK
<1>4. Truthful(profile)'
  <2>1. CASE profile' = profile
    BY <1>2, <2>1 DEF TruthInv, Truthful, Fits, TypeOK
  <2>2. ASSUME NEW m \in Mutations, profile'.history = Append(profile.history, m),
               m.ts = n, cmd.verb \in Edits => m.action = cmd.verb /\ m.target = cmd.target
        PROVE  Truthful(profile)'
    <3>1. profile.history \in Seq(Mutations)
      BY DEF TypeOK, Profiles
    <3>2. \A i \in DOMAIN profile.history :
             profile.history[i].ts <= asked' /\ Fits(command', profile.history[i])
      <4>1. profile \in Profiles /\ Truthful(profile)
        BY DEF TruthInv, TypeOK
      <4> QED BY <1>2, <4>1
    <3>3. m.ts <= asked' /\ Fits(command', m)
      BY <1>1, <2>2 DEF Fits, TypeOK
    <3>4. \A i \in DOMAIN profile'.history :
             \/ i \in DOMAIN profile.history /\ profile'.history[i] = profile.history[i]
             \/ profile'.history[i] = m
      BY <2>2, <3>1, AppendParts
    <3> QED BY <3>2, <3>3, <3>4 DEF Truthful, Fits
  <2> QED BY <2>1, <2>2, EntryShape
<1>5. ASSUME NEW c \in Commands PROVE /\ request'[c] = "sent" => Truthful(content[c])'
                                      /\ request'[c] # "none" =>
                                            /\ command'[c].verb \in Edits
                                            /\ command'[c].target \in Persons
  <2>1. CASE UNCHANGED writeVars
    <3>1. request'[c] = request[c] /\ content'[c] = content[c]
      BY <2>1 DEF writeVars
    <3>2. ASSUME request[c] = "sent" PROVE Truthful(content[c])'
      <4>1. content[c] \in Profiles /\ Truthful(content[c])
        BY <3>2 DEF TruthInv, TypeOK
      <4> QED BY <1>2, <3>1, <4>1 DEF Truthful, Fits
    <3>3. ASSUME request[c] # "none"
          PROVE  command'[c].verb \in Edits /\ command'[c].target \in Persons
      <4>1. command[c].verb \in Edits /\ command[c].target \in Persons
        BY <3>3 DEF TruthInv
      <4>2. c # n
        BY <1>1, <3>3 DEF DurableInv, RequestInv
      <4> QED BY <1>1, <4>1, <4>2 DEF TypeOK
    <3> QED BY <3>1, <3>2, <3>3
  <2>2. CASE Sends /\ cmd.verb \in Edits
    <3>1. CASE c = n
      <4>1. cmd.target \in Persons
        BY <2>2, ParsedTypes
      <4> QED BY <1>1, <1>4, <2>2, <3>1, <4>1 DEF Sends, Truthful, Fits, TypeOK
    <3>2. CASE c # n
      <4>1. request'[c] = request[c] /\ content'[c] = content[c] /\ command'[c] = command[c]
        BY <1>1, <2>2, <3>2 DEF Sends, TypeOK
      <4>2. ASSUME request[c] = "sent" PROVE Truthful(content[c])'
        <5>1. content[c] \in Profiles /\ Truthful(content[c])
          BY <4>2 DEF TruthInv, TypeOK
        <5> QED BY <1>2, <4>1, <5>1 DEF Truthful, Fits
      <4> QED BY <4>1, <4>2 DEF TruthInv
    <3> QED BY <3>1, <3>2
  <2> QED BY <2>1, <2>2, CommandShape, EntryShape DEF Answers
<1> QED BY <1>3, <1>4, <1>5 DEF TruthInv

LEMMA TruthInit == Init => TruthInv
  BY DEF Init, TruthInv, Truthful, Profiles

LEMMA TruthNext == TypeOK /\ DurableInv /\ TruthInv /\ [Next]_vars => TruthInv'
<1> SUFFICES ASSUME TypeOK, DurableInv, TruthInv, [Next]_vars PROVE TruthInv'
  OBVIOUS
<1>1. ASSUME NEW c \in Commands, Brain(c) PROVE TruthInv'
  <2>1. UNCHANGED <<asked, command, profile, content>>
    BY <1>1 DEF Brain, Apply, Lose, WriteReturns, WriteFails, writeVars
  <2>2. \A d \in Commands : /\ request'[d] = "sent" => request[d] = "sent"
                            /\ request'[d] # "none" => request[d] # "none"
    BY <1>1 DEF Brain, Apply, Lose, WriteReturns, WriteFails, SetRequest, writeVars, TypeOK
  <2>3. vault' = vault \/ (request[c] = "sent" /\ vault' = content[c])
    BY <1>1 DEF Brain, Apply, Lose, WriteReturns, WriteFails
  <2>4. Truthful(vault)'
    BY <2>1, <2>3 DEF TruthInv, Truthful, Fits
  <2> QED BY <2>1, <2>2, <2>4 DEF TruthInv, Truthful, Fits
<1>2. CASE NextSession
  BY <1>2 DEF NextSession, writeVars, TruthInv, Truthful, Fits
<1>3. CASE UNCHANGED vars
  BY <1>3 DEF vars, writeVars, TruthInv, Truthful, Fits
<1> QED BY <1>1, <1>2, <1>3, TruthCommand DEF Next

\* In a profile that its trail explains, the last edit of a person decides whether
\* the person is listed.
LEMMA LastEditDecides ==
    ASSUME NEW p \in Profiles, Explains(p), NEW i \in DOMAIN p.history,
           NEW x \in Persons, IsEditOf(p.history[i], x), ~ EditedAfter(p.history, x, i)
    PROVE  (x \in p.allow) <=> (p.history[i].action = "allowlist_add")
<1> DEFINE h == p.history
<1>1. h \in Seq(Mutations) /\ DOMAIN h \subseteq Nat /\ i \in Nat
  BY DEF Profiles
<1>2. \A j \in DOMAIN h : j > i => ~ IsEditOf(h[j], x)
  BY DEF EditedAfter, IsEditOf
<1>3. x \in p.allow <=> LastEdit(h, x, "allowlist_add")
  <2>1. ~ NeverEdited(h, x)
    BY DEF NeverEdited, IsEditOf
  <2> QED BY <2>1 DEF Explains, AllowlistOf
<1>4. ASSUME h[i].action = "allowlist_add" PROVE LastEdit(h, x, "allowlist_add")
  BY <1>2, <1>4 DEF LastEdit, IsEditOf
<1>5. ASSUME LastEdit(h, x, "allowlist_add") PROVE h[i].action = "allowlist_add"
  <2>1. PICK k \in DOMAIN h :
             /\ h[k].action = "allowlist_add" /\ h[k].target = x
             /\ \A j \in DOMAIN h : j > k => ~ (h[j].action \in Edits /\ h[j].target = x)
    BY <1>5 DEF LastEdit
  <2>2. IsEditOf(h[k], x)
    BY <2>1 DEF IsEditOf, Edits
  <2>3. ~ (k > i) /\ ~ (i > k) /\ k \in Nat
    BY <1>1, <1>2, <2>1, <2>2 DEF IsEditOf
  <2>4. k = i
    BY <1>1, <2>3
  <2> QED BY <2>1, <2>4
<1> QED BY <1>3, <1>4, <1>5

\* A persistent change that was answered as done stays in the vault note through
\* any later commands, failures and sessions, while writes do not overlap, and the
\* person is listed there as it asked until the person is edited again.
THEOREM AdminAnsweredIsDurable == Spec => []AnsweredIsDurable
<1>1. TypeOK /\ AuditExplains /\ DurableInv /\ TruthInv => AnsweredIsDurable
  <2> SUFFICES ASSUME TypeOK, AuditExplains, DurableInv, TruthInv, ~ overlapped,
                      NEW c \in Commands, status[c] = "ok", request[c] = "applied"
               PROVE  \E i \in DOMAIN vault.history :
                         /\ vault.history[i].ts = c
                         /\ \/ EditedAfter(vault.history, command[c].target, i)
                            \/ (command[c].target \in vault.allow)
                                 <=> (command[c].verb = "allowlist_add")
    BY DEF AnsweredIsDurable
  <2>1. PICK i \in DOMAIN vault.history : vault.history[i].ts = c
    BY DEF DurableInv, SerialInv, Stands, Recorded
  <2>2. command[c].verb \in Edits /\ vault.history[i].action = command[c].verb
        /\ vault.history[i].target = command[c].target
    BY <2>1 DEF TruthInv, Truthful, Fits
  <2>3. command[c].target \in Persons
    BY DEF TruthInv
  <2> QED BY <2>1, <2>2, <2>3, LastEditDecides DEF AuditExplains, IsEditOf, TypeOK
<1>2. QED
  BY <1>1, TypeInit, TypeNext, AuditInit, AuditNext, DurableInit, DurableNext, TruthInit,
     TruthNext, PTL DEF Spec

-----------------------------------------------------------------------------
(* The session state.                                                      *)

\* No entry is of a session to come.
Past(h) == \A i \in DOMAIN h : h[i].session \in Nat /\ h[i].session <= session
PastInv ==
    /\ Past(profile.history)
    /\ Past(vault.history)
    /\ \A c \in Commands : request[c] = "sent" => Past(content[c].history)

\* LastOfSession, for any history.
LastIn(h, s, S, i) ==
    /\ h[i].session = s /\ h[i].action \in S
    /\ \A j \in DOMAIN h : j > i => ~ (h[j].session = s /\ h[j].action \in S)

\* History g is h and one more entry.
Longer(h, g, n, m) ==
    /\ n \in Nat /\ DOMAIN h = 1 .. n /\ DOMAIN g = 1 .. (n + 1)
    /\ \A j \in 1 .. n : g[j] = h[j]
    /\ g[n + 1] = m

LEMMA LastInLonger ==
    ASSUME NEW h, NEW n, NEW g, NEW m, Longer(h, g, n, m),
           NEW s, m.session = s, NEW S, NEW i \in DOMAIN g
    PROVE  /\ m.action \in S => (LastIn(g, s, S, i) <=> i = n + 1)
           /\ m.action \notin S =>
                (LastIn(g, s, S, i) <=> i \in DOMAIN h /\ LastIn(h, s, S, i))
<1> USE DEF Longer
<1>1. ASSUME m.action \in S PROVE LastIn(g, s, S, i) <=> i = n + 1
  BY <1>1 DEF LastIn
<1>2. ASSUME m.action \notin S
      PROVE  LastIn(g, s, S, i) <=> i \in DOMAIN h /\ LastIn(h, s, S, i)
  <2>1. CASE i = n + 1
    BY <1>2, <2>1 DEF LastIn
  <2>2. CASE i # n + 1
    <3>1. i \in DOMAIN h /\ g[i] = h[i]
      BY <2>2
    <3>2. (\A j \in DOMAIN g : j > i => ~ (g[j].session = s /\ g[j].action \in S))
            <=> (\A j \in DOMAIN h : j > i => ~ (h[j].session = s /\ h[j].action \in S))
      BY <1>2, <3>1
    <3>3. QED
      BY <3>1, <3>2 DEF LastIn
  <2>3. QED
    BY <2>1, <2>2
<1>3. QED
  BY <1>1, <1>2

\* Which entry goes with which change of the session state.
LEMMA FlagShape ==
    ASSUME TypeOK, NEW cmd \in Parsed, NEW by \in Persons, OnCommand(cmd, by)
    PROVE  \/ UNCHANGED <<profile, muted, tier>>
           \/ \E m \in Mutations :
                 /\ m.session = session /\ profile'.history = Append(profile.history, m)
                 /\ \/ m.action \in Edits /\ UNCHANGED <<muted, tier>>
                    \/ m.action = "mode_change" /\ tier' = m.target /\ UNCHANGED muted
                    \/ /\ m.action \in {"mute", "unmute"}
                       /\ muted' = (m.action = "mute") /\ UNCHANGED tier
<1>1. asked < MaxCommands
  BY CommandShape
<1>2. ASSUME NEW allow, by \in Admins, cmd.verb \in Edits, EditAllowlist(cmd, by, allow)
      PROVE  /\ UNCHANGED <<muted, tier>>
             /\ \E m \in Mutations :
                   /\ m.session = session /\ profile'.history = Append(profile.history, m)
                   /\ m.action \in Edits
  <2>1. Mutation(cmd, cmd.verb, by) \in Mutations
    BY <1>1, <1>2, MutationType
  <2>2. QED
    BY <1>2, <2>1 DEF EditAllowlist, Edited, Mutation, flagVars
<1>3. CASE AllowlistAdd(cmd, by)
  BY <1>2, <1>3 DEF AllowlistAdd, Edits
<1>4. CASE AllowlistRemove(cmd, by)
  BY <1>2, <1>4 DEF AllowlistRemove, Edits, flagVars
<1>5. CASE Mode(cmd, by)
  <2>1. Mutation(cmd, "mode_change", by) \in Mutations
    BY <1>1, <1>5, MutationType DEF Mode
  <2>2. QED
    BY <1>5, <2>1 DEF Mode, Edited, Mutation
<1>6. CASE Mute(cmd, by)
  <2>1. Mutation(cmd, MuteAction(cmd), by) \in Mutations
    BY <1>1, <1>6, MutationType DEF Mute, MuteAction
  <2>2. QED
    BY <1>6, <2>1 DEF Mute, MuteAction, Edited, Mutation
<1>7. CASE Show(cmd, by) \/ Deny(cmd, by)
  BY <1>7 DEF Show, Deny, flagVars
<1>8. QED
  BY <1>3, <1>4, <1>5, <1>6, <1>7 DEF OnCommand

LEMMA PastNext == TypeOK /\ PastInv /\ [Next]_vars => PastInv'
<1> SUFFICES ASSUME TypeOK, PastInv, [Next]_vars PROVE PastInv'
  OBVIOUS
<1>0. session \in Nat
  BY DEF TypeOK, Sessions
<1>1. ASSUME NEW cmd \in Parsed, NEW by \in Persons, OnCommand(cmd, by) PROVE PastInv'
  <2>1. UNCHANGED <<session, vault>>
    BY <1>1, CommandShape
  <2>2. Past(profile'.history)
    <3>1. CASE profile' = profile
      BY <3>1 DEF PastInv
    <3>2. CASE Extended(profile')
      <4>1. PICK m \in Mutations : ExtendsBy(profile', m)
        BY <3>2 DEF Extended
      <4>2. profile.history \in Seq(Mutations)
        BY DEF TypeOK, Profiles
      <4>3. QED
        BY <1>0, <4>1, <4>2, AppendParts DEF ExtendsBy, PastInv, Past
    <3>3. QED
      BY <1>1, <3>1, <3>2, CommandShape
  <2>3. ASSUME NEW c \in Commands, request'[c] = "sent" PROVE Past(content'[c].history)
    <3>1. CASE UNCHANGED writeVars
      BY <2>3, <3>1 DEF writeVars, PastInv
    <3>2. CASE Sends
      BY <2>2, <2>3, <3>2 DEF Sends, TypeOK, PastInv
    <3>3. QED
      BY <1>1, <3>1, <3>2, CommandShape DEF Answers
  <2>4. QED
    BY <2>1, <2>2, <2>3 DEF PastInv, Past
<1>2. ASSUME NEW c \in Commands, Brain(c) PROVE PastInv'
  <2>1. UNCHANGED <<session, profile, content>>
    BY <1>2 DEF Brain, Apply, Lose, WriteReturns, WriteFails, writeVars
  <2>2. \A d \in Commands : request'[d] = "sent" => request[d] = "sent"
    BY <1>2 DEF Brain, Apply, Lose, WriteReturns, WriteFails, SetRequest, writeVars, TypeOK
  <2>3. vault' = vault \/ (request[c] = "sent" /\ vault' = content[c])
    BY <1>2 DEF Brain, Apply, Lose, WriteReturns, WriteFails
  <2>4. QED
    BY <2>1, <2>2, <2>3 DEF PastInv, Past
<1>3. CASE NextSession
  <2>1. session' = session + 1 /\ profile' = vault /\ UNCHANGED <<vault, content, request>>
    BY <1>3 DEF NextSession, writeVars
  <2>2. QED
    BY <1>0, <2>1 DEF PastInv, Past
<1>4. CASE UNCHANGED vars
  BY <1>4 DEF vars, writeVars, PastInv, Past
<1>5. QED
  BY <1>1, <1>2, <1>3, <1>4 DEF Next

LEMMA SessionStateNext ==
    TypeOK /\ PastInv /\ SessionStateExplained /\ [Next]_vars => SessionStateExplained'
<1> SUFFICES ASSUME TypeOK, PastInv, SessionStateExplained, [Next]_vars
             PROVE  SessionStateExplained'
  OBVIOUS
<1>1. ASSUME NEW cmd \in Parsed, NEW by \in Persons, OnCommand(cmd, by)
      PROVE  SessionStateExplained'
  <2>1. UNCHANGED session
    BY <1>1, CommandShape
  <2>2. CASE UNCHANGED <<profile, muted, tier>>
    BY <2>1, <2>2 DEF SessionStateExplained, LastOfSession
  <2>3. ASSUME NEW m \in Mutations,
               m.session = session, profile'.history = Append(profile.history, m),
               \/ m.action \in Edits /\ UNCHANGED <<muted, tier>>
               \/ m.action = "mode_change" /\ tier' = m.target /\ UNCHANGED muted
               \/ /\ m.action \in {"mute", "unmute"}
                  /\ muted' = (m.action = "mute") /\ UNCHANGED tier
        PROVE  SessionStateExplained'
    <3> DEFINE h == profile.history
               g == profile'.history
               n == Len(h)
    <3>1. /\ h \in Seq(Mutations)
          /\ n \in Nat /\ DOMAIN h = 1 .. n /\ DOMAIN g = 1 .. (n + 1)
          /\ \A i \in DOMAIN h : g[i] = h[i]
          /\ g[n + 1] = m
      BY <2>3, AppendParts DEF TypeOK, Profiles
    <3>2. \A S, i : LastOfSession(S, i) <=> LastIn(h, session, S, i)
      BY DEF LastOfSession, LastIn
    <3>3. \A S, i : LastOfSession(S, i)' <=> LastIn(g, session, S, i)
      BY <2>1 DEF LastOfSession, LastIn
    <3>4. \A S : \A i \in DOMAIN g :
             /\ m.action \in S => (LastIn(g, session, S, i) <=> i = n + 1)
             /\ m.action \notin S =>
                  (LastIn(g, session, S, i) <=> i \in DOMAIN h /\ LastIn(h, session, S, i))
      <4>1. m.session = session
        BY <2>3
      <4> HIDE DEF h, g, n
      <4>2. Longer(h, g, n, m)
        BY <3>1 DEF Longer
      <4>3. ASSUME NEW S, NEW i \in DOMAIN g
            PROVE  /\ m.action \in S => (LastIn(g, session, S, i) <=> i = n + 1)
                   /\ m.action \notin S =>
                        (LastIn(g, session, S, i)
                           <=> i \in DOMAIN h /\ LastIn(h, session, S, i))
        BY <4>1, <4>2, LastInLonger
      <4>4. QED
        BY <4>3
    <3> HIDE DEF h, g, n
    <3>5. /\ muted <=> \E i \in DOMAIN h :
                LastIn(h, session, {"mute", "unmute"}, i) /\ h[i].action = "mute"
          /\ \A i \in DOMAIN h :
                LastIn(h, session, {"mode_change"}, i) => tier = h[i].target
          /\ (\A i \in DOMAIN h : ~ LastIn(h, session, {"mode_change"}, i)) => tier = None
      BY <3>2 DEF SessionStateExplained, h
    <3>6. muted' <=> \E i \in DOMAIN g :
                LastIn(g, session, {"mute", "unmute"}, i) /\ g[i].action = "mute"
      <4>1. CASE m.action \in {"mute", "unmute"}
        <5>1. \A i \in DOMAIN g : LastIn(g, session, {"mute", "unmute"}, i) <=> i = n + 1
          BY <3>4, <4>1
        <5>2. muted' = (m.action = "mute")
          BY <2>3, <4>1 DEF Edits
        <5>3. n + 1 \in DOMAIN g /\ g[n + 1].action = m.action
          BY <3>1
        <5>4. QED
          BY <5>1, <5>2, <5>3
      <4>2. CASE m.action \notin {"mute", "unmute"}
        <5>1. \A i \in DOMAIN g :
                 LastIn(g, session, {"mute", "unmute"}, i)
                   <=> i \in DOMAIN h /\ LastIn(h, session, {"mute", "unmute"}, i)
          BY <3>4, <4>2
        <5>2. muted' = muted
          BY <2>3, <4>2
        <5>3. QED
          BY <3>1, <3>5, <5>1, <5>2
      <4>3. QED
        BY <4>1, <4>2
    <3>7. /\ \A i \in DOMAIN g :
                LastIn(g, session, {"mode_change"}, i) => tier' = g[i].target
          /\ (\A i \in DOMAIN g : ~ LastIn(g, session, {"mode_change"}, i)) => tier' = None
      <4>1. CASE m.action = "mode_change"
        <5>1. \A i \in DOMAIN g : LastIn(g, session, {"mode_change"}, i) <=> i = n + 1
          BY <3>4, <4>1
        <5>2. tier' = m.target
          BY <2>3, <4>1 DEF Edits
        <5>3. QED
          BY <3>1, <5>1, <5>2
      <4>2. CASE m.action # "mode_change"
        <5>1. \A i \in DOMAIN g :
                 LastIn(g, session, {"mode_change"}, i)
                   <=> i \in DOMAIN h /\ LastIn(h, session, {"mode_change"}, i)
          BY <3>4, <4>2
        <5>2. tier' = tier
          BY <2>3, <4>2
        <5>3. QED
          BY <3>1, <3>5, <5>1, <5>2
      <4>3. QED
        BY <4>1, <4>2
    <3>8. QED
      BY <3>3, <3>6, <3>7 DEF SessionStateExplained, g
  <2>4. QED
    BY <1>1, <2>2, <2>3, FlagShape
<1>2. ASSUME NEW c \in Commands, Brain(c) PROVE SessionStateExplained'
  <2>1. UNCHANGED <<session, profile, muted, tier>>
    BY <1>2 DEF Brain, Apply, Lose, WriteReturns, WriteFails, flagVars
  <2>2. QED
    BY <2>1 DEF SessionStateExplained, LastOfSession
<1>3. CASE NextSession
  <2>1. /\ session \in Nat /\ session' = session + 1 /\ profile' = vault
        /\ muted' = FALSE /\ tier' = None
    BY <1>3 DEF NextSession, TypeOK, Sessions
  <2>2. \A i \in DOMAIN profile'.history : profile'.history[i].session # session'
    BY <2>1 DEF PastInv, Past
  <2>3. QED
    BY <2>1, <2>2 DEF SessionStateExplained, LastOfSession
<1>4. CASE UNCHANGED vars
  BY <1>4 DEF vars, flagVars, SessionStateExplained, LastOfSession
<1>5. QED
  BY <1>1, <1>2, <1>3, <1>4 DEF Next

\* session_state and the audit trail agree in every session, although only the
\* trail survives it.
THEOREM AdminSessionStateExplained == Spec => []SessionStateExplained
<1>1. Init => PastInv /\ SessionStateExplained
  <2> SUFFICES ASSUME Init PROVE PastInv /\ SessionStateExplained
    OBVIOUS
  <2>1. profile.history = <<>> /\ vault.history = <<>> /\ muted = FALSE /\ tier = None
    BY DEF Init
  <2>2. \A c \in Commands : request[c] # "sent"
    BY DEF Init
  <2>3. QED
    BY <2>1, <2>2 DEF PastInv, Past, SessionStateExplained, LastOfSession
<1>2. QED
  BY <1>1, TypeInit, TypeNext, PastNext, SessionStateNext, PTL DEF Spec
=============================================================================
