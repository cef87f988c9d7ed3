--------------------------- MODULE ThreadToolsProofs ---------------------------
(***************************************************************************)
(* Proofs about ThreadTools, for every set of persons, profiles and series *)
(* and any number of open tool calls.  What an actor is spawned with, what *)
(* waits for it and what cortex was given agree (ThreadInv); a call is the *)
(* running dispatch's, and asks what its tool asks (CallInv).              *)
(***************************************************************************)
EXTENDS ThreadTools

USE ThreadsAssumption, NothingAssumption

\* A renderer of thread t that spawned with one of the messages written so far.
RendererOf(t, r, w) ==
    IF t = Public THEN r = Nothing
    ELSE r \in Messages /\ r.private /\ r.sender = t /\ <<r.sender, r.display>> \in w

BootInv ==
    /\ toolNames \in {{}, InMeeting}
    /\ toolNames # {} => BootPasses(profile.knowledge, brain)
    /\ dropped => ~ Resolves("in-meeting-dm", profile.knowledge, brain)

ThreadInv ==
    \A t \in Threads :
        /\ actor[t] # Nothing => actor[t].tools = InMeeting /\ RendererOf(t, actor[t].renderer, written)
        /\ waiting[t] # Nothing => actor[t] # Nothing /\ Key(waiting[t]) = t
        /\ cortex[t] # Nothing =>
              /\ cortex[t].message # Nothing /\ Key(cortex[t].message) = t
              /\ cortex[t].tools = InMeeting
              /\ cortex[t].names \in {{}, InMeeting}
              /\ RendererOf(t, cortex[t].shows, written)

CallInv ==
    \A c \in Calls : call[c] # Free =>
        /\ call[c].by \in Threads \cup {Owner}
        /\ cortex[call[c].by] # Nothing
        /\ call[c].by \in Threads /\ call[c].request # Nothing =>
              /\ call[c].tool \in InMeeting /\ ~ Local(call[c].tool)
              /\ \E scope \in Series \cup {Whole} : call[c].request = Request(call[c].tool, scope)
        /\ call[c].by \in Threads /\ call[c].tool \notin InMeeting =>
              call[c].stage = "done" /\ call[c].result = "error"

ToolsInv == TypeOK /\ BootInv /\ ThreadInv /\ CallInv

-----------------------------------------------------------------------------
(* The tools and what they ask.                                            *)

LEMMA Sets ==
    /\ \A k, b : InMeetingTools(k, b) \subseteq ToolNames /\ OwnerTools(k, b) \subseteq ToolNames
    /\ \A k, b : InMeetingTools(k, b) # {}
    /\ InMeeting \in SUBSET ToolNames /\ InMeeting # {}
    /\ ToolSet("tg-owner", profile.knowledge, brain) \in SUBSET ToolNames
<1>1. \A k : Switched(k) \subseteq {"search_past_meetings", "search_public_references", "web_search"}
  BY DEF Switched
<1>2. "search_meeting_transcript" \in Transcript
  BY DEF Transcript
<1>3. \A k, b : InMeetingTools(k, b) \subseteq ToolNames /\ OwnerTools(k, b) \subseteq ToolNames
  BY <1>1 DEF InMeetingTools, OwnerTools, ToolNames
<1>4. \A k, b : InMeetingTools(k, b) # {}
  BY <1>2 DEF InMeetingTools
<1>5. /\ InMeeting = InMeetingTools(profile.knowledge, brain)
      /\ ToolSet("tg-owner", profile.knowledge, brain) = OwnerTools(profile.knowledge, brain)
  BY DEF InMeeting, ToolSet
<1> QED BY <1>3, <1>4, <1>5

\* What each tool that needs the Brain asks is a request.
LEMMA RequestType ==
    ASSUME NEW tool \in ToolNames, tool \notin Transcript,
           NEW scope \in Series \cup {Whole}, profile \in Profiles
    PROVE  Request(tool, scope) \in Requests
<1>1. profile.series \in Series \cup {Whole}
  OBVIOUS
<1>2. tool \in {"search_past_meetings", "search_public_references", "web_search",
                "search_vault", "read_note", "search_references", "nx_calendar_read",
                "nx_email_search", "vault_ask"}
  BY DEF ToolNames, OwnerOnly
<1> QED BY <1>1, <1>2 DEF Request, CuratedRequest, OwnerRequest, SeriesId, Asks, Requests, Scopes, OwnerOnly

\* In a meeting the tools that ask the Brain are those that the profile switches
\* on, and an unfiltered search needs a profile of no series.
LEMMA RequestIsSwitchedOn ==
    ASSUME NEW tool \in InMeeting, ~ Local(tool), NEW scope \in Series \cup {Whole},
           profile \in Profiles, brain \in BOOLEAN
    PROVE  LET r == Request(tool, scope)
               k == profile.knowledge IN
           /\ brain
           /\ \/ r = Asks("nx_references_search", "references")
                    /\ k.public_references /\ profile.references
              \/ r = Asks("deep_research", "lightweight") /\ k.web_search
              \/ r.endpoint = "nx_vault_search" /\ k.past_meetings
                    /\ (r.scope = Whole => profile.series = Whole)
<1>1. brain /\ tool \in Switched(profile.knowledge)
  BY DEF InMeeting, ToolSet, InMeetingTools, Local
<1>2. CASE tool = "search_past_meetings" /\ profile.knowledge.past_meetings
  <2>1. profile.series \in Series \cup {Whole}
    OBVIOUS
  <2> QED BY <1>1, <1>2, <2>1 DEF Request, CuratedRequest, SeriesId, Asks, OwnerOnly
<1>3. CASE tool = "search_public_references" /\ profile.knowledge.public_references
  <2>1. profile.references
    BY <1>3 DEF Local
  <2> QED BY <1>1, <1>3, <2>1 DEF Request, CuratedRequest, OwnerOnly
<1>4. CASE tool = "web_search" /\ profile.knowledge.web_search
  BY <1>1, <1>4 DEF Request, CuratedRequest, OwnerOnly
<1> QED BY <1>1, <1>2, <1>3, <1>4 DEF Switched

LEMMA MessageKey ==
    ASSUME NEW m \in Messages
    PROVE  /\ Key(m) \in Threads
           /\ m.sender \in Persons /\ m.display \in Displays /\ m.private \in BOOLEAN
           /\ m # Nothing
           /\ m.private <=> Key(m) # Public
           /\ m.private => Key(m) = m.sender
BY DEF Messages, Key, Threads

-----------------------------------------------------------------------------
(* The steps.                                                              *)

LEMMA ToolsInit == Init => ToolsInv
<1> SUFFICES ASSUME Init PROVE ToolsInv
  OBVIOUS
<1>1. Free \in CallStates
  BY DEF Free, CallStates
<1>2. TypeOK
  <2>1. profile \in Profiles /\ brain \in BOOLEAN /\ toolNames \in SUBSET ToolNames
        /\ written \subseteq Persons \X Displays /\ dropped \in BOOLEAN
    BY Zenon DEF Init
  <2>4. messages \in 0 .. MaxMessages
    BY DEF Init
  <2>2. actor \in [Threads -> Actors \cup {Nothing}]
        /\ waiting \in [Threads -> Messages \cup {Nothing}]
        /\ cortex \in [Threads \cup {Owner} -> Dispatches \cup {Nothing}]
    BY DEF Init
  <2>3. call \in [Calls -> CallStates]
    BY <1>1 DEF Init
  <2> QED BY <2>1, <2>2, <2>3, <2>4 DEF TypeOK
<1>3. BootInv
  BY DEF Init, BootInv
<1>4. ThreadInv /\ CallInv
  BY DEF Init, ThreadInv, CallInv
<1> QED BY <1>2, <1>3, <1>4 DEF ToolsInv

\* A step of the threads leaves the calls alone, and keeps what they belong to.
LEMMA CallsQuiet ==
    ASSUME ToolsInv, UNCHANGED <<setup, call>>,
           \A t \in Threads \cup {Owner} : cortex[t] # Nothing => cortex'[t] # Nothing
    PROVE  CallInv'
<1>1. UNCHANGED <<profile, brain, call>>
  BY DEF setup
<1>2. InMeeting' = InMeeting
  BY <1>1 DEF InMeeting
<1>3. \A tool, scope : Local(tool)' = Local(tool) /\ Request(tool, scope)' = Request(tool, scope)
  BY <1>1 DEF Local, Request, CuratedRequest, OwnerRequest, SeriesId
<1> QED BY <1>1, <1>2, <1>3 DEF ToolsInv, CallInv

\* More messages written keep what a renderer shows.
LEMMA RenderersStay ==
    ASSUME ToolsInv, UNCHANGED setup, written \subseteq written'
    PROVE  /\ InMeeting' = InMeeting
           /\ \A t, r : RendererOf(t, r, written) => RendererOf(t, r, written')
BY DEF setup, InMeeting, RendererOf

LEMMA BootKeepsInv == ToolsInv /\ Boot => ToolsInv'
<1> SUFFICES ASSUME ToolsInv, Boot PROVE ToolsInv'
  OBVIOUS
<1>1. UNCHANGED <<profile, brain, messages, written, dropped, actor, waiting, cortex, call>>
  BY DEF Boot, setup
<1>2. toolNames' = InMeeting /\ BootPasses(profile.knowledge, brain)
  BY DEF Boot, Start
<1>3. InMeeting' = InMeeting
  BY <1>1 DEF InMeeting
<1>4. TypeOK'
  BY <1>1, <1>2, Sets DEF ToolsInv, TypeOK
<1>5. BootInv'
  BY <1>1, <1>2, <1>3 DEF ToolsInv, BootInv
<1>6. ThreadInv'
  BY <1>1, <1>3 DEF ToolsInv, ThreadInv, RendererOf
<1>7. CallInv'
  BY <1>1, CallsQuiet DEF setup
<1> QED BY <1>4, <1>5, <1>6, <1>7 DEF ToolsInv

LEMMA ReceiveKeepsInv ==
    ASSUME ToolsInv, NEW m \in Messages, Receive(m)
    PROVE  ToolsInv'
<1> DEFINE t == Key(m)
           spawned == [tools |-> InMeeting, renderer |-> Renderer(m)]
<1>1. /\ UNCHANGED <<profile, brain, toolNames, cortex, call>>
      /\ messages' = messages + 1 /\ messages < MaxMessages
      /\ written' = written \cup {<<m.sender, m.display>>}
      /\ \/ actor[t] # Nothing /\ UNCHANGED actor /\ UNCHANGED dropped
               /\ waiting' = [waiting EXCEPT ![t] = m]
         \/ actor[t] = Nothing /\ Resolves("in-meeting-dm", profile.knowledge, brain)
               /\ actor' = [actor EXCEPT ![t] = spawned] /\ UNCHANGED dropped
               /\ waiting' = [waiting EXCEPT ![t] = m]
         \/ ~ Resolves("in-meeting-dm", profile.knowledge, brain)
               /\ dropped' = TRUE /\ UNCHANGED <<actor, waiting>>
  BY DEF Receive, setup
<1>2. /\ t \in Threads /\ m.sender \in Persons /\ m.display \in Displays /\ m # Nothing
      /\ (m.private <=> t # Public) /\ (m.private => t = m.sender)
  BY MessageKey
<1>3. InMeeting' = InMeeting /\ \A u, r : RendererOf(u, r, written) => RendererOf(u, r, written')
  BY <1>1, RenderersStay DEF setup
<1>4. Renderer(m) \in Messages \cup {Nothing} /\ RendererOf(t, Renderer(m), written')
  BY <1>1, <1>2 DEF Renderer, RendererOf
<1>5. spawned \in Actors /\ spawned # Nothing
  BY <1>4, Sets DEF Actors
<1> HIDE DEF t, spawned
<1>6. TypeOK'
  <2>0. messages \in 0 .. MaxMessages /\ written \subseteq Persons \X Displays
        /\ dropped \in BOOLEAN
    BY DEF ToolsInv, TypeOK
  <2>1. messages' \in 0 .. MaxMessages /\ written' \subseteq Persons \X Displays
        /\ dropped' \in BOOLEAN
    <3>1. messages' \in 0 .. MaxMessages
      BY <1>1, <2>0
    <3>2. written' \subseteq Persons \X Displays
      BY <1>1, <1>2, <2>0
    <3>3. dropped' \in BOOLEAN
      BY <1>1, <2>0
    <3> QED BY <3>1, <3>2, <3>3
  <2>2. actor' \in [Threads -> Actors \cup {Nothing}]
        /\ waiting' \in [Threads -> Messages \cup {Nothing}]
    BY <1>1, <1>5 DEF ToolsInv, TypeOK
  <2> QED BY <1>1, <2>1, <2>2 DEF ToolsInv, TypeOK
<1>7. BootInv'
  <2>1. Resolves("in-meeting-dm", profile.knowledge, brain)' = Resolves("in-meeting-dm", profile.knowledge, brain)
        /\ BootPasses(profile.knowledge, brain)' = BootPasses(profile.knowledge, brain)
    BY <1>1
  <2> QED BY <1>1, <1>3, <2>1 DEF ToolsInv, BootInv
<1>8. ThreadInv'
  <2> SUFFICES ASSUME NEW u \in Threads
               PROVE  /\ actor'[u] # Nothing => actor'[u].tools = InMeeting
                                               /\ RendererOf(u, actor'[u].renderer, written')
                      /\ waiting'[u] # Nothing => actor'[u] # Nothing /\ Key(waiting'[u]) = u
    BY <1>1, <1>3 DEF ToolsInv, ThreadInv
  <2>1. /\ actor[u] # Nothing => actor[u].tools = InMeeting /\ RendererOf(u, actor[u].renderer, written')
        /\ waiting[u] # Nothing => actor[u] # Nothing /\ Key(waiting[u]) = u
    BY <1>3 DEF ToolsInv, ThreadInv
  <2>2. actor \in [Threads -> Actors \cup {Nothing}] /\ waiting \in [Threads -> Messages \cup {Nothing}]
    BY DEF ToolsInv, TypeOK
  <2>3. CASE u # t
    BY <1>1, <2>1, <2>2, <2>3
  <2>4. CASE u = t
    <3>1. spawned.tools = InMeeting /\ spawned.renderer = Renderer(m) /\ Key(m) = t
      BY DEF spawned, t
    <3> QED BY <1>1, <1>2, <1>4, <1>5, <2>1, <2>2, <2>4, <3>1
  <2> QED BY <2>3, <2>4
<1>9. CallInv'
  BY <1>1, CallsQuiet DEF setup
<1> QED BY <1>6, <1>7, <1>8, <1>9 DEF ToolsInv

LEMMA ReapKeepsInv ==
    ASSUME ToolsInv, NEW t \in Threads, Reap(t)
    PROVE  ToolsInv'
<1>1. /\ UNCHANGED <<profile, brain, toolNames, messages, written, dropped, waiting, cortex, call>>
      /\ actor' = [actor EXCEPT ![t] = Nothing] /\ waiting[t] = Nothing
  BY DEF Reap, setup, intake
<1>2. InMeeting' = InMeeting /\ \A u, r : RendererOf(u, r, written) => RendererOf(u, r, written')
  BY <1>1, RenderersStay DEF setup
<1>3. actor \in [Threads -> Actors \cup {Nothing}]
  BY DEF ToolsInv, TypeOK
<1>4. TypeOK' /\ BootInv'
  BY <1>1, <1>2, <1>3 DEF ToolsInv, TypeOK, BootInv
<1>5. ThreadInv'
  BY <1>1, <1>2, <1>3 DEF ToolsInv, ThreadInv
<1>6. CallInv'
  BY <1>1, CallsQuiet DEF setup
<1> QED BY <1>4, <1>5, <1>6 DEF ToolsInv

LEMMA DispatchStartsKeepsInv ==
    ASSUME ToolsInv, NEW t \in Threads, DispatchStarts(t)
    PROVE  ToolsInv'
<1> DEFINE d == [message |-> waiting[t], shows |-> actor[t].renderer, names |-> toolNames,
                 tools |-> actor[t].tools]
<1>1. /\ UNCHANGED <<profile, brain, toolNames, messages, written, dropped, actor, call>>
      /\ cortex' = [cortex EXCEPT ![t] = d] /\ waiting' = [waiting EXCEPT ![t] = Nothing]
      /\ waiting[t] # Nothing /\ cortex[t] = Nothing
  BY DEF DispatchStarts, Prompt, setup, intake
<1>2. InMeeting' = InMeeting /\ \A u, r : RendererOf(u, r, written) => RendererOf(u, r, written')
  BY <1>1, RenderersStay DEF setup
<1>3. /\ actor \in [Threads -> Actors \cup {Nothing}] /\ waiting \in [Threads -> Messages \cup {Nothing}]
      /\ cortex \in [Threads \cup {Owner} -> Dispatches \cup {Nothing}]
      /\ toolNames \in SUBSET ToolNames
  BY DEF ToolsInv, TypeOK
<1>4. /\ actor[t] # Nothing /\ Key(waiting[t]) = t
      /\ actor[t].tools = InMeeting /\ RendererOf(t, actor[t].renderer, written)
      /\ toolNames \in {{}, InMeeting}
  BY <1>1 DEF ToolsInv, ThreadInv, BootInv
<1>5. d \in Dispatches /\ d # Nothing
  <2>1. actor[t] \in Actors /\ waiting[t] \in Messages
    BY <1>1, <1>3, <1>4
  <2>2. d \in Dispatches
    BY <1>3, <2>1 DEF Actors, Dispatches
  <2> HIDE DEF d
  <2> QED BY <2>2
<1>6. /\ d.message = waiting[t] /\ d.shows = actor[t].renderer /\ d.names = toolNames
      /\ d.tools = actor[t].tools
  OBVIOUS
<1> HIDE DEF d
<1>7. TypeOK' /\ BootInv'
  BY <1>1, <1>2, <1>3, <1>5 DEF ToolsInv, TypeOK, BootInv
<1>8. ThreadInv'
  <2> SUFFICES ASSUME NEW u \in Threads
               PROVE  /\ waiting'[u] # Nothing => waiting[u] # Nothing /\ waiting'[u] = waiting[u]
                      /\ cortex'[u] # Nothing =>
                            /\ cortex'[u].message # Nothing /\ Key(cortex'[u].message) = u
                            /\ cortex'[u].tools = InMeeting
                            /\ cortex'[u].names \in {{}, InMeeting}
                            /\ RendererOf(u, cortex'[u].shows, written)
    BY <1>1, <1>2 DEF ToolsInv, ThreadInv
  <2>1. CASE u = t
    BY <1>1, <1>3, <1>4, <1>6, <2>1
  <2>2. CASE u # t
    BY <1>1, <1>3, <2>2 DEF ToolsInv, ThreadInv
  <2> QED BY <2>1, <2>2
<1>9. CallInv'
  <2>1. \A u \in Threads \cup {Owner} : cortex[u] # Nothing => cortex'[u] # Nothing
    BY <1>1, <1>3, <1>5
  <2> QED BY <1>1, <2>1, CallsQuiet DEF setup
<1> QED BY <1>7, <1>8, <1>9 DEF ToolsInv

LEMMA OwnerAsksKeepsInv == ToolsInv /\ OwnerAsks => ToolsInv'
<1> SUFFICES ASSUME ToolsInv, OwnerAsks PROVE ToolsInv'
  OBVIOUS
<1> DEFINE d == [message |-> Nothing, shows |-> Nothing, names |-> {},
                 tools |-> ToolSet("tg-owner", profile.knowledge, brain)]
<1>1. /\ UNCHANGED <<profile, brain, toolNames, messages, written, dropped, actor, waiting, call>>
      /\ cortex' = [cortex EXCEPT ![Owner] = d]
  BY DEF OwnerAsks, setup, intake
<1>2. d \in Dispatches
  BY Sets DEF Dispatches
<1> HIDE DEF d
<1>3. cortex \in [Threads \cup {Owner} -> Dispatches \cup {Nothing}]
  BY DEF ToolsInv, TypeOK
<1>4. d # Nothing /\ \A t \in Threads : cortex'[t] = cortex[t]
  BY <1>1, <1>2, <1>3
<1>5. InMeeting' = InMeeting /\ \A u, r : RendererOf(u, r, written) => RendererOf(u, r, written')
  BY <1>1, RenderersStay DEF setup
<1>6. TypeOK' /\ BootInv'
  BY <1>1, <1>2, <1>3, <1>5 DEF ToolsInv, TypeOK, BootInv
<1>7. ThreadInv'
  BY <1>1, <1>4, <1>5 DEF ToolsInv, ThreadInv
<1>8. CallInv'
  BY <1>1, <1>3, <1>4, CallsQuiet DEF setup
<1> QED BY <1>6, <1>7, <1>8 DEF ToolsInv

LEMMA DispatchEndsKeepsInv ==
    ASSUME ToolsInv, NEW t \in Threads \cup {Owner}, DispatchReturns(t) \/ DispatchCancelled(t)
    PROVE  ToolsInv'
<1>1. /\ UNCHANGED <<profile, brain, toolNames, messages, written, dropped, actor, waiting>>
      /\ cortex' = [cortex EXCEPT ![t] = Nothing]
      /\ call' = [c \in Calls |-> IF call[c].by = t THEN Free ELSE call[c]]
  BY DEF DispatchReturns, DispatchCancelled, Forget, setup, intake
<1>2. InMeeting' = InMeeting /\ \A u, r : RendererOf(u, r, written) => RendererOf(u, r, written')
  BY <1>1, RenderersStay DEF setup
<1>3. /\ cortex \in [Threads \cup {Owner} -> Dispatches \cup {Nothing}]
      /\ call \in [Calls -> CallStates]
  BY DEF ToolsInv, TypeOK
<1>4. TypeOK' /\ BootInv'
  <2>1. Free \in CallStates
    BY DEF Free, CallStates
  <2> QED BY <1>1, <1>2, <1>3, <2>1 DEF ToolsInv, TypeOK, BootInv
<1>5. ThreadInv'
  <2>1. \A u \in Threads : cortex'[u] # Nothing => cortex'[u] = cortex[u]
    BY <1>1, <1>3
  <2> QED BY <1>1, <1>2, <2>1 DEF ToolsInv, ThreadInv
<1>6. CallInv'
  <2>1. \A tool, scope : Local(tool)' = Local(tool) /\ Request(tool, scope)' = Request(tool, scope)
    BY <1>1 DEF Local, Request, CuratedRequest, OwnerRequest, SeriesId
  <2>2. Free' = Free
    BY DEF Free
  <2>3. ASSUME NEW c \in Calls, call'[c] # Free
        PROVE  call'[c] = call[c] /\ call[c].by # t
    BY <1>1, <2>3
  <2>4. ASSUME NEW c \in Calls, call'[c] # Free
        PROVE  cortex'[call[c].by] # Nothing
    BY <1>1, <1>3, <2>3, <2>4 DEF ToolsInv, CallInv
  <2> QED BY <1>2, <2>1, <2>2, <2>3, <2>4 DEF ToolsInv, CallInv
<1> QED BY <1>4, <1>5, <1>6 DEF ToolsInv

\* A step of one call.
LEMMA CallKeepsInv ==
    ASSUME ToolsInv, NEW c \in Calls,
           UNCHANGED <<setup, intake, actor, waiting, cortex>>,
           NEW r \in CallStates, call' = [call EXCEPT ![c] = r],
           r.by \in Threads \cup {Owner}, cortex[r.by] # Nothing,
           r.by \in Threads /\ r.request # Nothing =>
              /\ r.tool \in InMeeting /\ ~ Local(r.tool)
              /\ \E scope \in Series \cup {Whole} : r.request = Request(r.tool, scope),
           r.by \in Threads /\ r.tool \notin InMeeting => r.stage = "done" /\ r.result = "error"
    PROVE  ToolsInv'
<1>1. UNCHANGED <<profile, brain, toolNames, messages, written, dropped, actor, waiting, cortex>>
  BY DEF setup, intake
<1>2. InMeeting' = InMeeting /\ \A u, s : RendererOf(u, s, written) => RendererOf(u, s, written')
  BY <1>1, RenderersStay DEF setup
<1>3. call \in [Calls -> CallStates]
  BY DEF ToolsInv, TypeOK
<1>4. TypeOK' /\ BootInv' /\ ThreadInv'
  BY <1>1, <1>2, <1>3 DEF ToolsInv, TypeOK, BootInv, ThreadInv
<1>5. CallInv'
  <2>1. \A tool, scope : Local(tool)' = Local(tool) /\ Request(tool, scope)' = Request(tool, scope)
    BY <1>1 DEF Local, Request, CuratedRequest, OwnerRequest, SeriesId
  <2>2. Free' = Free
    BY DEF Free
  <2>3. \A e \in Calls : call'[e] = IF e = c THEN r ELSE call[e]
    BY <1>3
  <2> QED BY <1>1, <1>2, <2>1, <2>2, <2>3 DEF ToolsInv, CallInv
<1> QED BY <1>4, <1>5 DEF ToolsInv

LEMMA OpensKeepsInv ==
    ASSUME ToolsInv, NEW c \in Calls, NEW t \in Conversing,
           NEW tool \in ToolNames \cup {"unknown"}, NEW args \in Arguments,
           \/ Refused(c, t, tool, args)
           \/ AnsweredLocally(c, t, tool, args)
           \/ Post(c, t, tool, args)
    PROVE  ToolsInv'
<1>1. t \in Threads \cup {Owner} /\ cortex[t] # Nothing
  BY DEF Conversing
<1>2. ASSUME NEW stage \in {"posted", "done"}, NEW request \in Requests \cup {Nothing},
             NEW result \in {"matches", "empty", "error", "none"},
             Opens(c, t, tool, stage, request, result),
             t \in Threads /\ request # Nothing =>
                /\ tool \in InMeeting /\ ~ Local(tool)
                /\ \E scope \in Series \cup {Whole} : request = Request(tool, scope),
             t \in Threads /\ tool \notin InMeeting => stage = "done" /\ result = "error"
      PROVE  ToolsInv'
  <2> DEFINE r == [stage |-> stage, by |-> t, tool |-> tool, request |-> request, result |-> result]
  <2>1. /\ r \in CallStates /\ call' = [call EXCEPT ![c] = r]
        /\ UNCHANGED <<setup, intake, actor, waiting, cortex>>
    BY <1>1, <1>2 DEF Opens, CallStates
  <2>2. r.by = t /\ r.request = request /\ r.tool = tool /\ r.stage = stage /\ r.result = result
    OBVIOUS
  <2> HIDE DEF r
  <2> QED BY <1>1, <1>2, <2>1, <2>2, CallKeepsInv
<1>3. CASE Refused(c, t, tool, args)
  BY <1>2, <1>3 DEF Refused
<1>4. CASE AnsweredLocally(c, t, tool, args)
  <2>1. tool \in cortex[t].tools
    BY <1>4 DEF AnsweredLocally, Registered
  <2>2. t \in Threads => tool \in InMeeting
    BY <1>1, <2>1 DEF ToolsInv, ThreadInv
  <2>3. PICK result \in LocalResults(tool) : Opens(c, t, tool, "done", Nothing, result)
    BY <1>4 DEF AnsweredLocally
  <2>4. result \in {"matches", "empty", "error", "none"}
    BY DEF LocalResults
  <2> QED BY <1>2, <2>2, <2>3, <2>4
<1>5. CASE Post(c, t, tool, args)
  <2>1. tool \in cortex[t].tools /\ ~ Local(tool) /\ args.scope \in Series \cup {Whole}
        /\ Opens(c, t, tool, "posted", Request(tool, args.scope), "none")
    BY <1>5 DEF Post, Registered, Arguments
  <2>2. tool \in ToolNames /\ tool \notin Transcript /\ profile \in Profiles
    <3>1. cortex[t] \in Dispatches
      BY <1>1 DEF ToolsInv, TypeOK
    <3> QED BY <2>1, <3>1 DEF Dispatches, Local, ToolsInv, TypeOK
  <2>3. Request(tool, args.scope) \in Requests
    BY <2>1, <2>2, RequestType
  <2>4. t \in Threads => tool \in InMeeting
    BY <1>1, <2>1 DEF ToolsInv, ThreadInv
  <2> QED BY <1>2, <2>1, <2>3, <2>4
<1> QED BY <1>3, <1>4, <1>5

LEMMA AnswerKeepsInv ==
    ASSUME ToolsInv, NEW c \in Calls, NEW result \in {"matches", "empty", "error"},
           Answer(c, result)
    PROVE  ToolsInv'
<1> DEFINE r == [call[c] EXCEPT !.stage = "done", !.result = result]
<1>1. call[c] \in CallStates /\ call \in [Calls -> CallStates]
  BY DEF ToolsInv, TypeOK
<1>2. call[c].stage = "posted" /\ UNCHANGED <<setup, intake, actor, waiting, cortex>>
      /\ call' = [call EXCEPT ![c] = r]
  BY <1>1 DEF Answer
<1>3. r \in CallStates /\ r.by = call[c].by /\ r.request = call[c].request /\ r.tool = call[c].tool
  BY <1>1 DEF CallStates
<1>4. call[c] # Free
  BY <1>2 DEF Free
<1> HIDE DEF r
<1> QED BY <1>2, <1>3, <1>4, CallKeepsInv DEF ToolsInv, CallInv

LEMMA ToolsStep == ToolsInv /\ [Next]_vars => ToolsInv'
<1> SUFFICES ASSUME ToolsInv, [Next]_vars PROVE ToolsInv'
  OBVIOUS
<1>1. CASE Boot
  BY <1>1, BootKeepsInv
<1>2. ASSUME NEW m \in Messages, Receive(m) PROVE ToolsInv'
  BY <1>2, ReceiveKeepsInv
<1>3. ASSUME NEW t \in Threads, Reap(t) \/ DispatchStarts(t) PROVE ToolsInv'
  BY <1>3, ReapKeepsInv, DispatchStartsKeepsInv
<1>4. CASE OwnerAsks
  BY <1>4, OwnerAsksKeepsInv
<1>5. ASSUME NEW t \in Threads \cup {Owner}, DispatchReturns(t) \/ DispatchCancelled(t)
      PROVE  ToolsInv'
  BY <1>5, DispatchEndsKeepsInv
<1>6. ASSUME NEW c \in Calls, CallStep(c) PROVE ToolsInv'
  <2>1. ASSUME NEW body \in Bodies, BrainAnswers(c, body) PROVE ToolsInv'
    <3>1. Reshaped(call[c].tool, body) \in {"matches", "empty", "error"}
      BY DEF Reshaped
    <3> QED BY <2>1, <3>1, AnswerKeepsInv DEF BrainAnswers
  <2>2. CASE BrainFails(c)
    BY <2>2, AnswerKeepsInv DEF BrainFails
  <2> QED BY <1>6, <2>1, <2>2, OpensKeepsInv DEF CallStep
<1>7. CASE UNCHANGED vars
  <2>1. UNCHANGED <<profile, brain, toolNames, messages, written, dropped, actor, waiting, cortex, call>>
    BY <1>7 DEF vars, setup, intake
  <2>2. InMeeting' = InMeeting /\ \A u, r : RendererOf(u, r, written) => RendererOf(u, r, written')
    BY <2>1, RenderersStay DEF setup
  <2>3. TypeOK' /\ BootInv' /\ ThreadInv'
    BY <2>1, <2>2 DEF ToolsInv, TypeOK, BootInv, ThreadInv
  <2>4. CallInv'
    BY <2>1, CallsQuiet DEF setup
  <2> QED BY <2>3, <2>4 DEF ToolsInv
<1> QED BY <1>1, <1>2, <1>3, <1>4, <1>5, <1>6, <1>7 DEF Next

LEMMA ToolsInvariant == Spec => []ToolsInv
BY ToolsInit, ToolsStep, PTL DEF Spec

-----------------------------------------------------------------------------
(* The theorems.                                                           *)

\* Type correctness for every set of persons, profiles, series and open calls.
THEOREM ToolsTypeOK == Spec => []TypeOK
<1>1. ToolsInv => TypeOK
  BY DEF ToolsInv
<1> QED BY <1>1, ToolsInvariant, PTL

\* Whatever the model calls with whatever arguments, in however many threads, a
\* meeting reaches the Brain only through the curated endpoints that its profile
\* switches on, and searches without a filter only if the profile is of no series.
THEOREM ToolsMeetingAsksWhatIsSwitchedOn == Spec => []MeetingAsksWhatIsSwitchedOn
<1>1. ToolsInv => MeetingAsksWhatIsSwitchedOn
  <2> SUFFICES ASSUME ToolsInv, NEW c \in Calls, call[c].by \in Threads, call[c].request # Nothing
               PROVE  LET r == call[c].request
                          k == profile.knowledge IN
                      /\ brain
                      /\ \/ r = Asks("nx_references_search", "references")
                               /\ k.public_references /\ profile.references
                         \/ r = Asks("deep_research", "lightweight") /\ k.web_search
                         \/ r.endpoint = "nx_vault_search" /\ k.past_meetings
                               /\ (r.scope = Whole => profile.series = Whole)
    BY DEF MeetingAsksWhatIsSwitchedOn
  <2>1. call[c] # Free
    BY DEF Free
  <2>2. /\ call[c].tool \in InMeeting /\ ~ Local(call[c].tool)
        /\ \E scope \in Series \cup {Whole} : call[c].request = Request(call[c].tool, scope)
        /\ profile \in Profiles /\ brain \in BOOLEAN
    BY <2>1 DEF ToolsInv, CallInv, TypeOK
  <2> QED BY <2>2, RequestIsSwitchedOn
<1> QED BY <1>1, ToolsInvariant, PTL

\* No reap, respawn or delay makes a prompt speak of somebody else.
THEOREM ToolsPromptIsOfItsSender == Spec => []PromptIsOfItsSender
<1>1. ToolsInv => PromptIsOfItsSender
  <2> SUFFICES ASSUME ToolsInv, NEW t \in Threads, cortex[t] # Nothing
               PROVE  IF cortex[t].message.private
                      THEN /\ cortex[t].shows # Nothing
                           /\ cortex[t].shows.sender = cortex[t].message.sender
                           /\ <<cortex[t].message.sender, cortex[t].shows.display>> \in written
                      ELSE cortex[t].shows = Nothing
    BY DEF PromptIsOfItsSender
  <2>1. cortex[t].message # Nothing /\ Key(cortex[t].message) = t /\ RendererOf(t, cortex[t].shows, written)
    BY DEF ToolsInv, ThreadInv
  <2>2. cortex[t].message \in Messages
    BY <2>1 DEF ToolsInv, TypeOK, Dispatches
  <2> QED BY <2>1, <2>2, MessageKey DEF RendererOf
<1> QED BY <1>1, ToolsInvariant, PTL

\* The names in a prompt are those of the tools that go with it, whenever start()
\* was called, or not at all.
THEOREM ToolsPromptListsTools == Spec => []PromptListsTools
<1>1. ToolsInv => PromptListsTools
  BY DEF ToolsInv, ThreadInv, PromptListsTools
<1> QED BY <1>1, ToolsInvariant, PTL

\* A profile that passed the self-test loses no message at a spawn.
THEOREM ToolsNoLossAfterBoot == Spec => []NoLossAfterBoot
<1>1. ToolsInv => NoLossAfterBoot
  <2> SUFFICES ASSUME ToolsInv, toolNames # {}, dropped PROVE FALSE
    BY DEF NoLossAfterBoot, ToolsInv, TypeOK
  <2>1. /\ BootPasses(profile.knowledge, brain)
        /\ ~ Resolves("in-meeting-dm", profile.knowledge, brain)
    BY DEF ToolsInv, BootInv
  <2> QED BY <2>1 DEF BootPasses, ThreadKinds
<1> QED BY <1>1, ToolsInvariant, PTL

\* Tool calls end with their dispatch, for any number of calls and conversations.
THEOREM ToolsCallsBelongToDispatch == Spec => []CallsBelongToDispatch
<1>1. ToolsInv => CallsBelongToDispatch
  BY DEF ToolsInv, CallInv, CallsBelongToDispatch
<1> QED BY <1>1, ToolsInvariant, PTL

\* Of the calls that the model makes in a meeting, only those of the meeting's own
\* tools are more than refused: never one of a tool that is blocked or the owner's,
\* whatever the profile says and whatever name the model makes up.
OnlyCuratedAnswered ==
    \A c \in Calls :
        LET tool == call[c].tool IN
        /\ call[c].by \in Threads
        /\ call[c].stage = "posted" \/ call[c].result \in {"matches", "empty"}
        => tool \in InMeeting /\ tool \notin Blocked /\ tool \notin OwnerOnly

\* The resolver's curation (ToolResolver) and the registry lookup of each call
\* together hold the boundary while actors come and go.
THEOREM ToolsOnlyCuratedAnswered == Spec => []OnlyCuratedAnswered
<1>1. ToolsInv => OnlyCuratedAnswered
  <2> SUFFICES ASSUME ToolsInv, NEW c \in Calls, call[c].by \in Threads,
                      call[c].stage = "posted" \/ call[c].result \in {"matches", "empty"}
               PROVE  /\ call[c].tool \in InMeeting
                      /\ call[c].tool \notin Blocked /\ call[c].tool \notin OwnerOnly
    BY DEF OnlyCuratedAnswered
  <2>1. call[c] # Free
    BY DEF Free
  <2>2. call[c].tool \in InMeeting
    BY <2>1 DEF ToolsInv, CallInv
  <2>3. profile.knowledge \in Knowledge /\ brain \in BOOLEAN
    BY DEF ToolsInv, TypeOK
  <2>4. InMeeting = InMeetingTools(profile.knowledge, brain)
    BY DEF InMeeting, ToolSet
  <2> QED BY <2>2, <2>3, <2>4, InMeetingToolsAreCurated DEF Safe
<1> QED BY <1>1, ToolsInvariant, PTL
=============================================================================
