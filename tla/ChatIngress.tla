------------------------------ MODULE ChatIngress ------------------------------
(***************************************************************************)
(* From a chat message to what the session is told to send (assistant.py,  *)
(* public_mentions.py): the allowlist tiers and the rejection of admin     *)
(* grammar for private messages, the gates and the rate limit of public    *)
(* mentions, the choice of the thread that answers, and the send path that *)
(* thread uses.                                                            *)
(*                                                                         *)
(* The handlers do not suspend before they have enqueued the message, so   *)
(* each is one step.  ChatThreadActor and AssistantPool have the detail of *)
(* a thread: here it takes a message, may send a filler, and ends it with  *)
(* an answer, the fallback or nothing.  No thread is reaped.               *)
(*                                                                         *)
(* Assumed: the adapter hands private events to on_private_chat and public *)
(* ones to on_public_mention.  The key is taken from event.is_private, and *)
(* the handler's gates do not compare it.                                  *)
(*                                                                         *)
(* Abstracted: messages without a visibility tag raise before anything     *)
(* else; a disabled gate is an empty MayMention; texts are not modelled,   *)
(* save whether one is admin grammar; time passes in units of a clock.     *)
(***************************************************************************)
EXTENDS Integers, Sequences, FiniteSets

CONSTANTS
    Persons,        \* canonical persona ids
    Users,          \* the platform's ids of participants
    None,           \* Python's None: a sender who is not resolved
    Public,         \* "public", the second half of the public thread's key
    Listed,         \* profile.dm_allowlist
    Confidences,    \* what resolution may report, None included
    MinConfidence,  \* profile.dm_min_confidence
    MayMention,     \* who passes the enabled and allowlist gates of mentions
    Window,         \* profile.public_mention_rate_limit_per_meeting_s
    QueueDepth,     \* AssistantConfig.per_thread_queue_depth
    MaxMessages,    \* bound on the messages that are let in
    MaxTime         \* bound on the clock

\* Everyone in the meeting, as opposed to one of its users.
PublicChat == "everyone"

ASSUME IngressAssumption ==
    /\ None \notin Persons \cup Nat
    /\ PublicChat \notin Users
    /\ Listed \subseteq Persons
    /\ MayMention \subseteq Persons \cup {None}
    /\ Confidences \ {None} \subseteq Nat
    /\ {MinConfidence, Window, QueueDepth, MaxMessages, MaxTime} \subseteq Nat

Ids  == 1 .. MaxMessages
Keys == Persons \cup {Public}
Senders == Persons \cup {None}
Messages == [id : Ids, private : BOOLEAN, sender : Senders, user : Users]
\* A person's private turns, or the turns of public mentions.
Sources == Persons \cup {"mentions"}
Nothing == [id |-> 0]

VARIABLES
    now,        \* the clock
    lastReply,  \* _last_reply_at of the meeting, None before the first mention
    letIn,      \* how many messages passed their gates
    queue,      \* the queue of a thread
    serving,    \* what its worker is at
    convo,      \* whose turns are in its history
    sent        \* what the session was told to send, and to whom

vars == <<now, lastReply, letIn, queue, serving, convo, sent>>

Sends == [kind : {"stock", "busy", "filler", "answer"}, for : Messages,
          to : Users \cup {PublicChat}]

TypeOK ==
    /\ now \in 0 .. MaxTime
    /\ lastReply \in (0 .. MaxTime) \cup {None}
    /\ letIn \in 0 .. MaxMessages
    /\ queue \in [Keys -> Seq(Messages)]
    /\ \A k \in Keys : Len(queue[k]) <= QueueDepth
    /\ serving \in [Keys -> Messages \cup {Nothing}]
    /\ convo \in [Keys -> SUBSET Sources]
    /\ sent \subseteq Sends

Init ==
    /\ now = 0
    /\ lastReply = None
    /\ letIn = 0
    /\ queue = [k \in Keys |-> <<>>]
    /\ serving = [k \in Keys |-> Nothing]
    /\ convo = [k \in Keys |-> {}]
    /\ sent = {}

-----------------------------------------------------------------------------
(* Gates.                                                                  *)

\* Tiers T1 (listed), T2 (resolved with confidence); the rest, T3, is denied.
IsAllowed(sender, confidence) ==
    \/ sender \in Listed
    \/ sender # None /\ confidence # None /\ confidence >= MinConfidence

\* PublicMentionHandler.evaluate
MentionAllowed(sender) ==
    /\ sender \in MayMention
    /\ lastReply # None => now - lastReply >= Window

-----------------------------------------------------------------------------
(* Threads.                                                                *)

\* Mutants: a sender who is not listed shares the thread of mentions; all private
\* messages share one thread.
KeyListedOnly(m) == IF m.private /\ m.sender \in Listed THEN m.sender ELSE Public
KeyOfAll(m) == IF m.private THEN CHOOSE p \in Persons : TRUE ELSE Public

\* The key of the actor, less the meeting's id.
Key(m) == IF m.private THEN m.sender ELSE Public

\* The send path is chosen by the thread: public for the key of public mentions.
\* A private thread addresses the sender of the message it answers.
Recipient(k, m) == IF k = Public THEN PublicChat ELSE m.user

\* Mutant: the queue has no limit.
AcceptsAlways(k) == TRUE
Accepts(k) == Len(queue[k]) < QueueDepth

Enqueue(m) == queue' = [queue EXCEPT ![Key(m)] = Append(@, m)]

Message(private, sender, user) ==
    [id |-> letIn + 1, private |-> private, sender |-> sender, user |-> user]

LetIn == letIn < MaxMessages /\ letIn' = letIn + 1

\* What the handler itself sends goes to the sender.
Reply(kind, m) == sent' = sent \cup {[kind |-> kind, for |-> m, to |-> m.user]}

\* Admin grammar is answered, and never reaches a thread.
OnPrivateChat(sender, confidence, user, admin) ==
    LET m == Message(TRUE, sender, user) IN
    /\ IsAllowed(sender, confidence)
    /\ LetIn
    /\ \/ admin /\ Reply("stock", m) /\ UNCHANGED queue
       \/ ~ admin /\ Accepts(Key(m)) /\ Enqueue(m) /\ UNCHANGED sent
       \/ ~ admin /\ ~ Accepts(Key(m)) /\ Reply("busy", m) /\ UNCHANGED queue
    /\ UNCHANGED <<now, lastReply, serving, convo>>

\* Mutant: only the first mention sets the stamp.
RecordReplyOnce == lastReply' = IF lastReply = None THEN now ELSE lastReply
RecordReply == lastReply' = now

\* A mention that a full queue refuses leaves the window open.
OnPublicMention(sender, user) ==
    LET m == Message(FALSE, sender, user) IN
    /\ MentionAllowed(sender)
    /\ LetIn
    /\ \/ Accepts(Public) /\ Enqueue(m) /\ RecordReply
       \/ ~ Accepts(Public) /\ UNCHANGED <<queue, lastReply>>
    /\ UNCHANGED <<now, serving, convo, sent>>

-----------------------------------------------------------------------------
(* The worker of thread k.                                                 *)

Take(k) ==
    /\ serving[k] = Nothing /\ queue[k] # <<>>
    /\ serving' = [serving EXCEPT ![k] = Head(queue[k])]
    /\ queue' = [queue EXCEPT ![k] = Tail(@)]
    /\ UNCHANGED <<now, lastReply, letIn, convo, sent>>

Says(k, kind) ==
    [kind |-> kind, for |-> serving[k], to |-> Recipient(k, serving[k])]

\* The holding message, once, to the recipient of the answer.
Filler(k) ==
    /\ serving[k] # Nothing
    /\ Says(k, "filler") \notin sent
    /\ sent' = sent \cup {Says(k, "filler")}
    /\ UNCHANGED <<now, lastReply, letIn, queue, serving, convo>>

Source(m) == IF m.private THEN m.sender ELSE "mentions"

\* Cortex answers, and the two turns are kept, or fails; the answer or the
\* fallback is sent, or cannot be.
Finish(k) ==
    /\ serving[k] # Nothing
    /\ \/ convo' = [convo EXCEPT ![k] = @ \cup {Source(serving[k])}]
       \/ UNCHANGED convo
    /\ \/ sent' = sent \cup {Says(k, "answer")}
       \/ UNCHANGED sent
    /\ serving' = [serving EXCEPT ![k] = Nothing]
    /\ UNCHANGED <<now, lastReply, letIn, queue>>

Worker(k) == Take(k) \/ Filler(k) \/ Finish(k)

Tick ==
    /\ now < MaxTime
    /\ now' = now + 1
    /\ UNCHANGED <<lastReply, letIn, queue, serving, convo, sent>>

Next ==
    \/ \E sender \in Senders, confidence \in Confidences, user \in Users, admin \in BOOLEAN :
          OnPrivateChat(sender, confidence, user, admin)
    \/ \E sender \in Senders, user \in Users : OnPublicMention(sender, user)
    \/ \E k \in Keys : Worker(k)
    \/ Tick

Spec == Init /\ [][Next]_vars

-----------------------------------------------------------------------------
(* Properties.                                                             *)

\* Separated send paths: what is sent because of a private message goes to its
\* sender alone, and what a public mention brings about goes to the public chat.
RepliesStayOnTheirPath ==
    \A s \in sent : s.to = IF s.for.private THEN s.for.user ELSE PublicChat

\* Memory isolation: the history a thread hands to cortex holds the private turns
\* of one person, or the turns of public mentions, and never both.
ThreadsDoNotMix == \A k \in Keys : Cardinality(convo[k]) <= 1

PublicPosts == {s \in sent : s.to = PublicChat}

\* The rate limit bounds what the public chat sees since the meeting began: at
\* most two posts, a filler and an answer, for each window that has begun,
\* however late the answers are.
PublicPostsBounded ==
    (Cardinality(PublicPosts) - 2) * Window <= 2 * now
=============================================================================
