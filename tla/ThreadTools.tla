------------------------------ MODULE ThreadTools ------------------------------
(***************************************************************************)
(* What a thread gives to cortex, and what cortex reaches through it: the  *)
(* boot self-test and the spawn of an actor (assistant.py) with the tools  *)
(* of ToolResolver, the system prompt that the renderer of the actor       *)
(* makes at each dispatch, and the tool calls of the model from            *)
(* dispatch_tool_call (tools/base.py) through the tools to the requests of *)
(* BrainMCPClient and back.                                                *)
(*                                                                         *)
(* A call suspends in the request to the Brain alone.  Any number may be   *)
(* open, of several threads at once.  The owner's conversation runs        *)
(* outside of src/ with the other tool set: it has calls and no prompt.    *)
(*                                                                         *)
(* Abstracted: queues, drains and timers (AssistantPool, ChatThreadActor); *)
(* arguments are usable or not and may name a scope; a scope is a series,  *)
(* the profile's references, the light mode, or the whole of a service; an *)
(* answer has something to show, or nothing, or is an error.               *)
(***************************************************************************)
EXTENDS Naturals, ToolResolver

CONSTANTS
    Persons,        \* canonical persona ids
    Public,         \* the thread of public mentions
    Owner,          \* the owner's conversation on the other transport
    Displays,       \* display names of the platform
    Series,         \* series ids
    Whole,          \* no filter: the whole vault, or the whole service
    Profiles,       \* the profiles a meeting may have
    Calls,          \* how many tool calls may be open
    Nothing,        \* no message, no actor, no dispatch
    MaxMessages     \* bound on the messages of a meeting

Threads == Persons \cup {Public}
Scopes == Series \cup {"references", "lightweight", Whole}

ASSUME ThreadsAssumption ==
    /\ Public \notin Persons /\ Owner \notin Threads
    /\ Whole \notin Series \cup {"references", "lightweight"}
    /\ Profiles \subseteq [knowledge : Knowledge, series : Series \cup {Whole},
                           references : BOOLEAN]
    /\ MaxMessages \in Nat

ToolNames == Transcript \cup OwnerOnly
             \cup {"search_past_meetings", "search_public_references", "web_search"}

\* What is left of a message, and of a request for a tool.
Messages == [private : BOOLEAN, sender : Persons, display : Displays]
Arguments == [usable : BOOLEAN, scope : Series \cup {Whole}]
Requests == [endpoint : {"nx_vault_search", "nx_references_search", "deep_research",
                         "nx_read_note", "nx_calendar_read", "nx_email_search", "vault_ask"},
             scope : Scopes]

\* An actor as far as it matters here, what a dispatch gives to cortex, and a call.
Actors == [tools : SUBSET ToolNames, renderer : Messages \cup {Nothing}]
Dispatches == [message : Messages \cup {Nothing}, shows : Messages \cup {Nothing},
               names : SUBSET ToolNames, tools : SUBSET ToolNames]
CallStates == [stage : {"free", "posted", "done"}, by : Threads \cup {Owner, Nothing},
               tool : ToolNames \cup {"unknown", "none"}, request : Requests \cup {Nothing},
               result : {"matches", "empty", "error", "none"}]

ASSUME NothingAssumption ==
    Nothing \notin Threads \cup {Owner} \cup Messages \cup Requests \cup Actors \cup Dispatches

VARIABLES
    profile, brain, \* the profile of the meeting, and whether there is a Brain
    toolNames,      \* in_meeting_tool_names, empty until start()
    messages,       \* how many messages have come
    written,        \* who has written under which name
    dropped,        \* a message was lost because the resolver raised
    actor,          \* per thread: its tools, and the event its renderer closed over
    waiting,        \* per thread: a message on the queue
    cortex,         \* per conversation: what cortex was given
    call            \* the tool calls

setup == <<profile, brain>>
intake == <<toolNames, messages, written, dropped>>
vars == <<setup, intake, actor, waiting, cortex, call>>

Free == [stage |-> "free", by |-> Nothing, tool |-> "none",
         request |-> Nothing, result |-> "none"]

TypeOK ==
    /\ profile \in Profiles /\ brain \in BOOLEAN
    /\ toolNames \in SUBSET ToolNames
    /\ messages \in 0 .. MaxMessages
    /\ written \subseteq Persons \X Displays
    /\ dropped \in BOOLEAN
    /\ actor \in [Threads -> Actors \cup {Nothing}]
    /\ waiting \in [Threads -> Messages \cup {Nothing}]
    /\ cortex \in [Threads \cup {Owner} -> Dispatches \cup {Nothing}]
    /\ call \in [Calls -> CallStates]

Init ==
    /\ profile \in Profiles
    /\ brain \in BOOLEAN
    /\ toolNames = {}
    /\ messages = 0
    /\ written = {}
    /\ dropped = FALSE
    /\ actor = [t \in Threads |-> Nothing]
    /\ waiting = [t \in Threads |-> Nothing]
    /\ cortex = [t \in Threads \cup {Owner} |-> Nothing]
    /\ call = [c \in Calls |-> Free]

-----------------------------------------------------------------------------
(* Boot, messages and dispatches.                                          *)

InMeeting == ToolSet("in-meeting-dm", profile.knowledge, brain)

\* Mutant: a profile that breaks the invariants is let through.
StartLenient == toolNames' = InMeeting

\* start() takes down the names for the prompts, unless the self-test raises.
Start == BootPasses(profile.knowledge, brain) /\ toolNames' = InMeeting

Boot ==
    /\ Start
    /\ UNCHANGED <<setup, messages, written, dropped, actor, waiting, cortex, call>>

\* Mutant: one private thread for the meeting.
KeyOfMeeting(m) == IF m.private THEN CHOOSE p \in Persons : TRUE ELSE Public
Key(m) == IF m.private THEN m.sender ELSE Public

\* The renderer of a private thread closes over the event that spawned it; that
\* of public mentions knows no sender.
Renderer(m) == IF m.private THEN m ELSE Nothing

\* _get_or_spawn_actor and the enqueue after it.  The tools are resolved for a new
\* actor; if that raises the handler ends and the message is gone.
Receive(m) ==
    LET t == Key(m) IN
    /\ messages < MaxMessages /\ messages' = messages + 1
    /\ written' = written \cup {<<m.sender, m.display>>}
    /\ waiting[t] = Nothing
    /\ \/ /\ actor[t] # Nothing
          /\ waiting' = [waiting EXCEPT ![t] = m]
          /\ UNCHANGED <<actor, dropped>>
       \/ /\ actor[t] = Nothing /\ Resolves("in-meeting-dm", profile.knowledge, brain)
          /\ actor' = [actor EXCEPT ![t] = [tools |-> InMeeting, renderer |-> Renderer(m)]]
          /\ waiting' = [waiting EXCEPT ![t] = m]
          /\ UNCHANGED dropped
       \/ /\ actor[t] = Nothing /\ ~ Resolves("in-meeting-dm", profile.knowledge, brain)
          /\ dropped' = TRUE
          /\ UNCHANGED <<actor, waiting>>
    /\ UNCHANGED <<setup, toolNames, cortex, call>>

\* An actor with nothing to do is reaped; what else may happen is AssistantPool's.
Reap(t) ==
    /\ actor[t] # Nothing /\ waiting[t] = Nothing /\ cortex[t] = Nothing
    /\ actor' = [actor EXCEPT ![t] = Nothing]
    /\ UNCHANGED <<setup, intake, waiting, cortex, call>>

\* Mutant: the prompt lists the tools of the owner's transport.
PromptOfOwner(t) ==
    [shows |-> actor[t].renderer,
     names |-> ToolSet("tg-owner", profile.knowledge, brain)]

\* The prompt is rendered at each dispatch, with the names as they are then.
Prompt(t) == [shows |-> actor[t].renderer, names |-> toolNames]

DispatchStarts(t) ==
    /\ waiting[t] # Nothing /\ cortex[t] = Nothing
    /\ cortex' = [cortex EXCEPT ![t] =
          [message |-> waiting[t], shows |-> Prompt(t).shows, names |-> Prompt(t).names,
           tools |-> actor[t].tools]]
    /\ waiting' = [waiting EXCEPT ![t] = Nothing]
    /\ UNCHANGED <<setup, intake, actor, call>>

\* A consumer hands the owner's tools to a conversation of its own.
OwnerAsks ==
    /\ cortex[Owner] = Nothing
    /\ cortex' = [cortex EXCEPT ![Owner] =
          [message |-> Nothing, shows |-> Nothing, names |-> {},
           tools |-> ToolSet("tg-owner", profile.knowledge, brain)]]
    /\ UNCHANGED <<setup, intake, actor, waiting, call>>

Posted(t) == {c \in Calls : call[c].by = t /\ call[c].stage = "posted"}

\* Mutant: the handler of a call catches its cancellation too.
ForgetAnswered(t) ==
    call' = [c \in Calls |-> IF call[c].by # t THEN call[c]
                             ELSE IF call[c].stage = "posted"
                             THEN [call[c] EXCEPT !.stage = "done", !.result = "error"]
                             ELSE Free]
Forget(t) == call' = [c \in Calls |-> IF call[c].by = t THEN Free ELSE call[c]]

\* Cortex answers or fails, when all calls it made are answered.
DispatchReturns(t) ==
    /\ cortex[t] # Nothing /\ Posted(t) = {}
    /\ cortex' = [cortex EXCEPT ![t] = Nothing]
    /\ Forget(t)
    /\ UNCHANGED <<setup, intake, actor, waiting>>

\* CancelledError passes the handlers of the calls: no results.
DispatchCancelled(t) ==
    /\ cortex[t] # Nothing
    /\ cortex' = [cortex EXCEPT ![t] = Nothing]
    /\ Forget(t)
    /\ UNCHANGED <<setup, intake, actor, waiting>>

-----------------------------------------------------------------------------
(* Tool calls.                                                             *)

\* Mutant: names are looked up among all tools there are.
RegisteredAnywhere(t, tool) == tool \in ToolNames
Registered(t, tool) == tool \in cortex[t].tools

\* Without the argument it needs a tool raises ValueError.
Usable(tool, args) == args.usable \/ tool = "nx_calendar_read"

\* Answered without the Brain: from the transcript, or because the profile has
\* no references to search.
Local(tool) ==
    \/ tool \in Transcript
    \/ tool = "search_public_references" /\ ~ profile.references

Asks(endpoint, scope) == [endpoint |-> endpoint, scope |-> scope]

\* A series that the model names replaces the one of the profile.
SeriesId(scope) == IF scope # Whole THEN scope ELSE profile.series

\* What the curated tools ask the Brain: paths and modes that the model names are
\* ignored.
CuratedRequest(tool, scope) ==
    CASE tool = "search_past_meetings" -> Asks("nx_vault_search", SeriesId(scope))
      [] tool = "search_public_references" -> Asks("nx_references_search", "references")
      [] tool = "web_search" -> Asks("deep_research", "lightweight")

\* What the owner's tools ask: no filter.
OwnerRequest(tool) ==
    Asks(CASE tool = "search_vault" -> "nx_vault_search"
           [] tool = "search_references" -> "nx_references_search"
           [] tool = "read_note" -> "nx_read_note"
           [] OTHER -> tool, Whole)

Request(tool, scope) ==
    IF tool \in OwnerOnly THEN OwnerRequest(tool) ELSE CuratedRequest(tool, scope)

\* The conversations that cortex is at.
Conversing == {t \in Threads \cup {Owner} : cortex[t] # Nothing}

Opens(c, t, tool, stage, request, result) ==
    /\ call[c] = Free
    /\ call' = [call EXCEPT ![c] =
          [stage |-> stage, by |-> t, tool |-> tool, request |-> request, result |-> result]]
    /\ UNCHANGED <<setup, intake, actor, waiting, cortex>>

\* dispatch_tool_call: a name that is not in the registry, arguments that the tool
\* refuses.
Refused(c, t, tool, args) ==
    /\ ~ Registered(t, tool) \/ ~ Usable(tool, args)
    /\ Opens(c, t, tool, "done", Nothing, "error")

\* The source of a transcript may raise.
LocalResults(tool) ==
    IF tool \in Transcript THEN {"matches", "empty", "error"} ELSE {"empty"}

AnsweredLocally(c, t, tool, args) ==
    /\ Registered(t, tool) /\ Usable(tool, args) /\ Local(tool)
    /\ \E result \in LocalResults(tool) : Opens(c, t, tool, "done", Nothing, result)

Post(c, t, tool, args) ==
    /\ Registered(t, tool) /\ Usable(tool, args) /\ ~ Local(tool)
    /\ Opens(c, t, tool, "posted", Request(tool, args.scope), "none")

\* The list in the Brain's object: with entries, empty or missing, of something
\* that is no entry, or not to be iterated over.
Bodies == {"entries", "empty", "foreign", "unlistable"}

\* Mutant: the Brain's object is the answer.
ReshapedAsIs(tool, body) == body

\* Entries that are no objects are skipped; read_note reads no list.
Reshaped(tool, body) ==
    IF body = "unlistable" /\ tool # "read_note" THEN "error"
    ELSE IF body = "entries" THEN "matches" ELSE "empty"

Answer(c, result) ==
    /\ call[c].stage = "posted"
    /\ call' = [call EXCEPT ![c].stage = "done", ![c].result = result]
    /\ UNCHANGED <<setup, intake, actor, waiting, cortex>>

BrainAnswers(c, body) == Answer(c, Reshaped(call[c].tool, body))

\* Mutant: the request has no timeout.
BrainFailsNever(c) == FALSE /\ UNCHANGED vars

\* A transport error or the timeout, a status of 400 or more, no JSON object: the
\* exception becomes the result.
BrainFails(c) == Answer(c, "error")

CallStep(c) ==
    \/ \E t \in Conversing, tool \in ToolNames \cup {"unknown"}, args \in Arguments :
          \/ Refused(c, t, tool, args)
          \/ AnsweredLocally(c, t, tool, args)
          \/ Post(c, t, tool, args)
    \/ \E body \in Bodies : BrainAnswers(c, body)
    \/ BrainFails(c)

Next ==
    \/ Boot
    \/ \E m \in Messages : Receive(m)
    \/ \E t \in Threads : Reap(t) \/ DispatchStarts(t)
    \/ OwnerAsks
    \/ \E t \in Threads \cup {Owner} : DispatchReturns(t) \/ DispatchCancelled(t)
    \/ \E c \in Calls : CallStep(c)

Spec == Init /\ [][Next]_vars

\* httpx gives up after timeout_s.
FairSpec == Spec /\ \A c \in Calls : WF_vars(BrainFails(c))

-----------------------------------------------------------------------------
(* Properties.                                                             *)

\* Whatever names and arguments the model makes up, a meeting's thread reaches the
\* Brain only through the three curated endpoints, and each only if the profile
\* switches it on: for the profile's references if it has any, for light research,
\* and for past meetings.  A vault search without a filter needs a profile of no
\* series.  Which series a search is for, this does not say: SearchStaysInSeries.
MeetingAsksWhatIsSwitchedOn ==
    \A c \in Calls : call[c].by \in Threads /\ call[c].request # Nothing =>
        LET r == call[c].request
            k == profile.knowledge IN
        /\ brain
        /\ \/ r = Asks("nx_references_search", "references")
                 /\ k.public_references /\ profile.references
           \/ r = Asks("deep_research", "lightweight") /\ k.web_search
           \/ r.endpoint = "nx_vault_search" /\ k.past_meetings
                 /\ (r.scope = Whole => profile.series = Whole)

\* What tools/past_meetings.py says of its scope, and the code does not do: a search
\* of a meeting is for the series of the meeting, and never of the whole vault.  A
\* series that the model names is taken as it is, and a profile without a series
\* searches without a filter.
SearchStaysInSeries ==
    \A c \in Calls :
        call[c].by \in Threads /\ call[c].request # Nothing
        /\ call[c].request.endpoint = "nx_vault_search"
            => call[c].request.scope = profile.series /\ profile.series # Whole

\* The prompt of a private message speaks of its sender, under a name the sender
\* has written under, though the renderer is as old as the actor; the prompt of a
\* public mention speaks of nobody.
PromptIsOfItsSender ==
    \A t \in Threads : cortex[t] # Nothing =>
        LET d == cortex[t] IN
        IF d.message.private
        THEN d.shows # Nothing /\ d.shows.sender = d.message.sender
             /\ <<d.message.sender, d.shows.display>> \in written
        ELSE d.shows = Nothing

\* The prompt names no tool that cortex was not given: all that it was given, or
\* none before the boot.
PromptListsTools ==
    \A t \in Threads : cortex[t] # Nothing => cortex[t].names \in {{}, cortex[t].tools}

\* The self-test covers the spawns: once start() has returned, no message was or
\* will be lost because the resolver raises.
NoLossAfterBoot == toolNames # {} => ~ dropped

\* A dispatch that ends, and one that is cancelled, leaves no tool call behind
\* whose answer could reach another conversation.
CallsBelongToDispatch ==
    \A c \in Calls : call[c] # Free => call[c].by # Nothing /\ cortex[call[c].by] # Nothing

\* No call waits for the Brain for ever.
ToolCallsEnd == \A c \in Calls : call[c].stage = "posted" ~> call[c].stage # "posted"
=============================================================================
