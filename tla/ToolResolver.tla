----------------------------- MODULE ToolResolver -----------------------------
(***************************************************************************)
(* Which tools a transport gets (tools/resolver.py), the list of names it  *)
(* must not get in a meeting (privacy/invariants.py), and the self-test of *)
(* both at boot (Assistant.start).  All of it is without state: the        *)
(* theorems at the end hold for every profile, with and without a Brain.   *)
(*                                                                         *)
(* Abstracted: a tool is its name; of a profile the flags that are read;   *)
(* the installed cortex has the interface for tools that start() probes.   *)
(***************************************************************************)
EXTENDS TLAPS

Blocked == {
    "search_vault", "read_note", "nx_vault_multi_read", "nx_vault_multi_search",
    "nx_vault_query", "nx_vault_write", "vault_ask", "search_email", "read_email",
    "nx_calendar_read", "nx_calendar_write", "create_calendar_event",
    "nx_contacts_read", "nx_contacts_search", "nx_contacts_add", "nx_contacts_update",
    "nx_db_query", "deep_research", "nx_context_gather", "download_media",
    "instagram_ingest", "x_status", "x_sync_bookmarks", "youtube_playlists",
    "youtube_sync_playlist", "search_whatsapp", "bible_lookup", "strongs_lookup",
    "create_note", "create_reminder", "create_ticket", "flush_note_queue", "ingest_url",
    "share_note", "update_note", "update_ticket", "list_tickets", "brain_chat"}

ThreadKinds == {"in-meeting-dm", "tg-owner"}

\* The flags of profile.knowledge.
Knowledge ==
    [allow_personal_vault : BOOLEAN, past_meetings : BOOLEAN,
     public_references : BOOLEAN, web_search : BOOLEAN]

Transcript == {"search_meeting_transcript", "read_meeting_transcript_window"}

\* The tools that need the Brain and a flag of the profile.
Switched(k) ==
    {t \in {"search_past_meetings", "search_public_references", "web_search"} :
        \/ t = "search_past_meetings" /\ k.past_meetings
        \/ t = "search_public_references" /\ k.public_references
        \/ t = "web_search" /\ k.web_search}

OwnerOnly == {"search_vault", "read_note", "search_references", "nx_calendar_read",
              "nx_email_search", "vault_ask"}

\* _resolve_in_meeting_dm_tools and _resolve_tg_owner_tools
InMeetingTools(k, brain) == Transcript \cup IF brain THEN Switched(k) ELSE {}
OwnerTools(k, brain) ==
    Transcript \cup IF brain THEN Switched(k) \cup OwnerOnly ELSE {}

\* assert_in_meeting_tools_safe does not raise.
Safe(names) == names \cap Blocked = {}

\* resolve_tool_set returns, and what.
Resolves(kind, k, brain) ==
    kind = "in-meeting-dm" =>
        ~ k.allow_personal_vault /\ Safe(InMeetingTools(k, brain))
ToolSet(kind, k, brain) ==
    IF kind = "in-meeting-dm" THEN InMeetingTools(k, brain) ELSE OwnerTools(k, brain)

\* Assistant.start does not raise.
BootPasses(k, brain) ==
    /\ \A kind \in ThreadKinds : Resolves(kind, k, brain)
    /\ Safe(ToolSet("in-meeting-dm", k, brain))
    /\ ~ k.allow_personal_vault

-----------------------------------------------------------------------------

\* No flag of a profile brings a blocked tool, or one that is only the owner's,
\* into a meeting; and the owner has whatever the meeting has.
THEOREM InMeetingToolsAreCurated ==
    ASSUME NEW k \in Knowledge, NEW brain \in BOOLEAN
    PROVE  /\ Safe(InMeetingTools(k, brain))
           /\ InMeetingTools(k, brain) \cap OwnerOnly = {}
           /\ InMeetingTools(k, brain) \subseteq OwnerTools(k, brain)
<1>1. InMeetingTools(k, brain) \subseteq
        {"search_meeting_transcript", "read_meeting_transcript_window",
         "search_past_meetings", "search_public_references", "web_search"}
  BY DEF InMeetingTools, Transcript, Switched
<1>2. Safe(InMeetingTools(k, brain))
  BY <1>1 DEF Safe, Blocked
<1>3. InMeetingTools(k, brain) \cap OwnerOnly = {}
  BY <1>1 DEF OwnerOnly
<1>4. InMeetingTools(k, brain) \subseteq OwnerTools(k, brain)
  BY DEF InMeetingTools, OwnerTools
<1>5. QED
  BY <1>2, <1>3, <1>4

\* The self-test at boot rejects a profile for one reason only, and once it has
\* passed the spawn of an actor with the same profile does not raise in the
\* resolver, with or without Brain.
THEOREM BootCoversSpawn ==
    ASSUME NEW k \in Knowledge, NEW brain \in BOOLEAN, NEW later \in BOOLEAN
    PROVE  /\ BootPasses(k, brain) <=> ~ k.allow_personal_vault
           /\ BootPasses(k, brain) => Resolves("in-meeting-dm", k, later)
<1>1. Safe(InMeetingTools(k, brain)) /\ Safe(InMeetingTools(k, later))
  BY InMeetingToolsAreCurated
<1>2. QED
  BY <1>1 DEF BootPasses, Resolves, ToolSet, ThreadKinds

\* The list of blocked names is no second barrier for two of the owner's tools:
\* were the resolver to hand them to a meeting, the check would not raise.
THEOREM BackstopIsPartial ==
    OwnerOnly \ Blocked = {"search_references", "nx_email_search"}
<1>1. "search_references" \notin Blocked /\ "nx_email_search" \notin Blocked
  BY DEF Blocked
<1>2. {"search_vault", "read_note", "nx_calendar_read", "vault_ask"} \subseteq Blocked
  BY DEF Blocked
<1>3. QED
  BY <1>1, <1>2 DEF OwnerOnly
=============================================================================
