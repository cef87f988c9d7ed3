---------------------------- MODULE AdminDispatcher ----------------------------
(***************************************************************************)
(* Admin commands on the profile of a meeting (admin.py): who may give     *)
(* them, what they change in memory, and the write of the whole profile to *)
(* its vault note that a persistent one awaits.                            *)
(*                                                                         *)
(* A handler runs without suspending up to that write, so each verb is one *)
(* step.  The profile in memory has changed by then.  The note is rendered *)
(* before the request is sent; the Brain applies it at some later time, or *)
(* never, and the handler may give up before either is known.  Commands    *)
(* may be given while others await their write.                            *)
(*                                                                         *)
(* A session is one meeting on the same note: the next one loads the       *)
(* profile from the vault (profile.py) and starts with fresh session state.*)
(*                                                                         *)
(* Abstracted: the allowlist is a set (the code's tuple has no duplicates  *)
(* that survive an edit); the time stamp of a mutation is the number of    *)
(* its command; the rest of the profile does not change and is left out.   *)
(***************************************************************************)
EXTENDS Naturals, Sequences

CONSTANTS
    Persons,        \* canonical persona ids
    Admins,         \* profile.admins
    Listed,         \* profile.dm_allowlist in the note of the first session
    Tiers,          \* "interactive", "research"
    None,           \* Python's None
    MaxCommands,    \* bound on the commands given
    MaxSessions     \* bound on the sessions

ASSUME AdminAssumption ==
    /\ Admins \subseteq Persons
    /\ Listed \subseteq Persons
    /\ None \notin Persons \cup Tiers
    /\ MaxCommands \in Nat
    /\ MaxSessions \in Nat \ {0}

Commands == 1 .. MaxCommands
Sessions == 1 .. MaxSessions

VARIABLES
    session,    \* the number of the session (session_id)
    profile,    \* profile_holder.profile
    muted,      \* session_state["muted"]
    tier,       \* session_state["tier_override"]
    writable,   \* a Brain client and a vault path exist, and the note renders
    vault,      \* the profile in the vault note
    asked,      \* how many commands have been dispatched
    command,    \* what each of them asks
    status,     \* where its dispatch() is
    content,    \* the profile its request writes
    request,    \* what became of its request at the Brain
    overlapped  \* some request was sent while another was under way

flagVars  == <<muted, tier>>
writeVars == <<content, request, overlapped>>
vars == <<session, profile, flagVars, writable, vault, asked, command, status, writeVars>>

Scopes == {"session", "persistent"}
Edits  == {"allowlist_add", "allowlist_remove"}
Verbs  == Edits \cup {"mode", "mute", "unmute", "show"}
Mutations ==
    [ts : Commands, action : Edits \cup {"mode_change", "mute", "unmute"},
     target : Persons \cup Tiers \cup {None}, by : Persons,
     session : Sessions, scope : Scopes]
Profiles == [allow : SUBSET Persons, history : Seq(Mutations)]
AdminCommand == [verb : Verbs, target : Persons \cup Tiers \cup {None}, scope : Scopes]
NoCommand == [verb |-> "show", target |-> None, scope |-> "session"]

TypeOK ==
    /\ session \in Sessions
    /\ profile \in Profiles
    /\ muted \in BOOLEAN
    /\ tier \in Tiers \cup {None}
    /\ writable \in BOOLEAN
    /\ vault \in Profiles
    /\ asked \in 0 .. MaxCommands
    /\ command \in [Commands -> AdminCommand]
    /\ status \in [Commands -> {"none", "writing", "ok", "denied", "failed", "gone"}]
    /\ content \in [Commands -> Profiles]
    /\ request \in [Commands -> {"none", "sent", "applied", "lost"}]
    /\ overlapped \in BOOLEAN

Init ==
    /\ session = 1
    /\ vault = [allow |-> Listed, history |-> <<>>]
    /\ profile = vault
    /\ muted = FALSE
    /\ tier = None
    /\ writable \in BOOLEAN
    /\ asked = 0
    /\ command = [c \in Commands |-> NoCommand]
    /\ status = [c \in Commands |-> "none"]
    /\ content = [c \in Commands |-> vault]
    /\ request = [c \in Commands |-> "none"]
    /\ overlapped = FALSE

-----------------------------------------------------------------------------
(* Dispatching a command.                                                  *)

\* A command arrives and dispatch() answers it at once, or awaits its write.
Dispatch(cmd, outcome) ==
    /\ asked < MaxCommands
    /\ asked' = asked + 1
    /\ command' = [command EXCEPT ![asked + 1] = cmd]
    /\ status' = [status EXCEPT ![asked + 1] = outcome]
    /\ UNCHANGED <<session, writable, vault>>

\* Mutant: the action recorded is the verb.
MutationVerb(cmd, action, by) ==
    [ts |-> asked + 1, action |-> cmd.verb, target |-> cmd.target, by |-> by,
     session |-> session, scope |-> cmd.scope]

Mutation(cmd, action, by) ==
    [ts |-> asked + 1, action |-> action, target |-> cmd.target, by |-> by,
     session |-> session, scope |-> cmd.scope]

\* Mutant: the mutation is added to the history found in the note.
EditedNote(allow, mutation) ==
    [allow |-> allow, history |-> Append(vault.history, mutation)]

Edited(allow, mutation) ==
    [allow |-> allow, history |-> Append(profile.history, mutation)]

\* Mutant: the allowlist that is written is the one from before the command.
RenderedOldList(new) == [allow |-> profile.allow, history |-> new.history]

Rendered(new) == new

\* _persist_profile: without a client, a path or a note that renders it raises,
\* and nothing undoes the change in memory; otherwise the request is sent.
Persist(cmd, new) ==
    \/ /\ ~ writable
       /\ Dispatch(cmd, "failed")
       /\ UNCHANGED writeVars
    \/ /\ writable
       /\ Dispatch(cmd, "writing")
       /\ content' = [content EXCEPT ![asked + 1] = Rendered(new)]
       /\ request' = [request EXCEPT ![asked + 1] = "sent"]
       /\ overlapped' = (overlapped \/ \E c \in Commands : request[c] = "sent")

\* What add and remove have in common once the new allowlist is known.
EditAllowlist(cmd, by, allow) ==
    LET new == Edited(allow, Mutation(cmd, cmd.verb, by)) IN
    /\ profile' = new
    /\ \/ /\ cmd.scope = "persistent"
          /\ Persist(cmd, new)
       \/ /\ cmd.scope = "session"
          /\ Dispatch(cmd, "ok")
          /\ UNCHANGED writeVars
    /\ UNCHANGED flagVars

\* Adding who is listed already changes the history alone.
AllowlistAdd(cmd, by) ==
    /\ cmd.verb = "allowlist_add" /\ by \in Admins
    /\ EditAllowlist(cmd, by, profile.allow \cup {cmd.target})

\* Removing who is not listed is answered and changes nothing.
AllowlistRemove(cmd, by) ==
    /\ cmd.verb = "allowlist_remove" /\ by \in Admins
    /\ \/ /\ cmd.target \in profile.allow
          /\ EditAllowlist(cmd, by, profile.allow \ {cmd.target})
       \/ /\ cmd.target \notin profile.allow
          /\ Dispatch(cmd, "ok")
          /\ UNCHANGED <<profile, flagVars, writeVars>>

Mode(cmd, by) ==
    /\ cmd.verb = "mode" /\ by \in Admins
    /\ tier' = cmd.target
    /\ profile' = Edited(profile.allow, Mutation(cmd, "mode_change", by))
    /\ Dispatch(cmd, "ok")
    /\ UNCHANGED <<muted, writeVars>>

\* Mutant: both verbs are logged as mute.
MuteActionBoth(cmd) == "mute"
MuteAction(cmd) == cmd.verb

Mute(cmd, by) ==
    /\ cmd.verb \in {"mute", "unmute"} /\ by \in Admins
    /\ muted' = (cmd.verb = "mute")
    /\ profile' = Edited(profile.allow, Mutation(cmd, MuteAction(cmd), by))
    /\ Dispatch(cmd, "ok")
    /\ UNCHANGED <<tier, writeVars>>

\* allowlist show, help and status read and answer.
Show(cmd, by) ==
    /\ cmd.verb = "show" /\ by \in Admins
    /\ Dispatch(cmd, "ok")
    /\ UNCHANGED <<profile, flagVars, writeVars>>

\* AdminAuthorizationDenied
Deny(cmd, by) ==
    /\ by \notin Admins
    /\ Dispatch(cmd, "denied")
    /\ UNCHANGED <<profile, flagVars, writeVars>>

\* What parse_admin_command returns: only allowlist edits may be persistent.
Parsed ==
    [verb : Edits, target : Persons, scope : Scopes]
    \cup [verb : {"mode"}, target : Tiers, scope : {"session"}]
    \cup [verb : {"mute", "unmute", "show"}, target : {None}, scope : {"session"}]

OnCommand(cmd, by) ==
    \/ AllowlistAdd(cmd, by)
    \/ AllowlistRemove(cmd, by)
    \/ Mode(cmd, by)
    \/ Mute(cmd, by)
    \/ Show(cmd, by)
    \/ Deny(cmd, by)

-----------------------------------------------------------------------------
(* The Brain and the handlers that await it.                               *)

SetRequest(c, to) == request' = [request EXCEPT ![c] = to]
SetStatus(c, to)  == status' = [status EXCEPT ![c] = to]

\* The note is overwritten, whether or not the handler still waits.
Apply(c) ==
    /\ request[c] = "sent"
    /\ SetRequest(c, "applied")
    /\ vault' = content[c]
    /\ UNCHANGED <<session, profile, flagVars, writable, asked, command, status, content,
                   overlapped>>

Lose(c) ==
    /\ request[c] = "sent"
    /\ SetRequest(c, "lost")
    /\ UNCHANGED <<session, profile, flagVars, writable, vault, asked, command, status,
                   content, overlapped>>

WriteReturns(c) ==
    /\ status[c] = "writing" /\ request[c] = "applied"
    /\ SetStatus(c, "ok")
    /\ UNCHANGED <<session, profile, flagVars, writable, vault, asked, command, writeVars>>

\* BrainMCPError: an error status or a timeout says nothing of the request.
WriteFails(c) ==
    /\ status[c] = "writing"
    /\ SetStatus(c, "failed")
    /\ UNCHANGED <<session, profile, flagVars, writable, vault, asked, command, writeVars>>

\* The meeting ends, or the process does; the next one loads the note.
NextSession ==
    /\ session < MaxSessions
    /\ session' = session + 1
    /\ profile' = vault
    /\ muted' = FALSE
    /\ tier' = None
    /\ status' = [c \in Commands |-> IF status[c] = "writing" THEN "gone" ELSE status[c]]
    /\ UNCHANGED <<writable, vault, asked, command, writeVars>>

Brain(c) == Apply(c) \/ Lose(c) \/ WriteReturns(c) \/ WriteFails(c)

Next ==
    \/ \E cmd \in Parsed, by \in Persons : OnCommand(cmd, by)
    \/ \E c \in Commands : Brain(c)
    \/ NextSession

Spec == Init /\ [][Next]_vars

-----------------------------------------------------------------------------
(* Properties.                                                             *)

\* The last edit of x in history h is an action of that kind.
LastEdit(h, x, action) ==
    \E i \in DOMAIN h :
        /\ h[i].action = action /\ h[i].target = x
        /\ \A j \in DOMAIN h : j > i => ~ (h[j].action \in Edits /\ h[j].target = x)

NeverEdited(h, x) == \A i \in DOMAIN h : ~ (h[i].action \in Edits /\ h[i].target = x)

\* The allowlist that a history makes of the first one.
AllowlistOf(h) ==
    {x \in Persons : \/ LastEdit(h, x, "allowlist_add")
                     \/ x \in Listed /\ NeverEdited(h, x)}

Explains(p) ==
    /\ p.allow = AllowlistOf(p.history)
    /\ \A i \in DOMAIN p.history : p.history[i].by \in Admins

\* The audit trail is complete wherever the profile is: the allowlist in memory,
\* in the vault note and in every write under way is the first one changed by
\* the mutations recorded next to it, all by admins, through failed writes,
\* writes that overtake each other, and sessions that end in between.
AuditExplains ==
    /\ Explains(profile)
    /\ Explains(vault)
    /\ \A c \in Commands : request[c] = "sent" => Explains(content[c])

\* Some entry of history h after the i-th edits x.
EditedAfter(h, x, i) ==
    \E j \in DOMAIN h : j > i /\ h[j].action \in Edits /\ h[j].target = x

\* A persistent change that was answered as done is in the vault note from then
\* on, recorded with its command, in all later sessions, and until a later edit of
\* the same person it decides whether the note lists the person: as long as no
\* write was ever sent while another was under way (nothing in the code orders
\* them).
AnsweredIsDurable ==
    ~ overlapped =>
        \A c \in Commands : status[c] = "ok" /\ request[c] = "applied" =>
            \E i \in DOMAIN vault.history :
                /\ vault.history[i].ts = c
                /\ \/ EditedAfter(vault.history, command[c].target, i)
                   \/ (command[c].target \in vault.allow) <=> (command[c].verb = "allowlist_add")

\* The last entry of this session among the actions of kind S, if there is one.
LastOfSession(S, i) ==
    /\ profile.history[i].session = session /\ profile.history[i].action \in S
    /\ \A j \in DOMAIN profile.history :
          j > i => ~ (profile.history[j].session = session /\ profile.history[j].action \in S)

\* The session state is the one the audit trail tells of this session: muted if
\* its last mute or unmute says so, the tier that its last mode_change named.
SessionStateExplained ==
    /\ muted <=> \E i \in DOMAIN profile.history :
          LastOfSession({"mute", "unmute"}, i) /\ profile.history[i].action = "mute"
    /\ \A i \in DOMAIN profile.history :
          LastOfSession({"mode_change"}, i) => tier = profile.history[i].target
    /\ (\A i \in DOMAIN profile.history : ~ LastOfSession({"mode_change"}, i)) => tier = None

-----------------------------------------------------------------------------
(* What the documentation says and the code does not do.                   *)

\* "allowlist remove <id> persistent": the removal is written back.  When it is
\* answered as done the note does not list the person, even if no two writes
\* ever overlapped.
PersistentRemoveSticks ==
    [][\A c \in Commands :
          /\ status[c] # "ok" /\ status'[c] = "ok"
          /\ command'[c].verb = "allowlist_remove" /\ command'[c].scope = "persistent"
          /\ ~ overlapped'
          => command'[c].target \notin vault'.allow]_vars
=============================================================================
