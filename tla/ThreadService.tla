---------------------------- MODULE ThreadService ----------------------------
(***************************************************************************)
(* What one conversation thread of the assistant promises its sender, with *)
(* no word of tasks, timers or cancellation: accepted messages wait in a   *)
(* bounded FIFO, are served one at a time in the order they were accepted, *)
(* are nudged ("one moment") at most once, and are settled by at most one  *)
(* answer.  A message may be settled without an answer: the send can fail, *)
(* and a shutdown abandons what is in flight.                              *)
(*                                                                         *)
(* ChatThreadActor implements this specification.                          *)
(***************************************************************************)
EXTENDS Naturals, Sequences

CONSTANT QueueDepth     \* AssistantConfig.per_thread_queue_depth

\* A message is named by its place in the order of acceptance.
Events == Nat \ {0}

AnswerKinds  == {"reply", "fallback"}
MessageKinds == AnswerKinds \cup {"filler"}
Message      == [event : Events, kind : MessageKinds]

VARIABLES accepted,     \* how many messages were accepted so far
          taken,        \* how many of them left the queue
          serving,      \* the message being served, 0 if none
          out           \* what the sender received, in order

vars == <<accepted, taken, serving, out>>

TypeOK ==
    /\ accepted \in Nat
    /\ taken \in 0 .. accepted
    /\ serving \in 0 .. taken
    /\ out \in Seq(Message)

\* A thread exists from its first message on.
Init ==
    /\ accepted = 1
    /\ taken = 0
    /\ serving = 0
    /\ out = <<>>

Received(e, kinds) == \E i \in 1 .. Len(out) : out[i].event = e /\ out[i].kind \in kinds

Accept ==
    /\ accepted - taken < QueueDepth
    /\ accepted' = accepted + 1
    /\ UNCHANGED <<taken, serving, out>>

TakeNext ==
    /\ taken < accepted
    /\ taken' = taken + 1
    /\ serving' = taken + 1
    /\ UNCHANGED accepted

Rest == serving' = 0 /\ UNCHANGED <<accepted, taken>>

Take == serving = 0 /\ TakeNext /\ UNCHANGED out

\* A shutdown may abandon the message with its "one moment".
Nudge ==
    /\ serving # 0
    /\ ~ Received(serving, {"filler"})
    /\ out' = Append(out, [event |-> serving, kind |-> "filler"])
    /\ serving' \in {serving, 0}
    /\ UNCHANGED <<accepted, taken>>

\* The message is answered or given up, and the next one is taken at once if
\* there is one.
Settle ==
    /\ serving # 0
    /\ \/ UNCHANGED out
       \/ \E k \in AnswerKinds : out' = Append(out, [event |-> serving, kind |-> k])
    /\ TakeNext \/ Rest

Next == Accept \/ Take \/ Nudge \/ Settle

Spec == Init /\ [][Next]_vars

-----------------------------------------------------------------------------

\* The sender reads answers in the order the messages were accepted: no message
\* of a later event precedes one of an earlier event.
InOrder == \A i, j \in 1 .. Len(out) : i < j => out[i].event <= out[j].event

\* No message is ever answered twice, and nothing (no late "one moment") follows
\* an answer to the same message.
AnswerIsLast ==
    \A i, j \in 1 .. Len(out) :
        i < j /\ out[i].kind \in AnswerKinds => out[j].event # out[i].event

\* A message gets at most one "one moment".
NudgedOnce ==
    \A i, j \in 1 .. Len(out) :
        i < j /\ out[i] = out[j] => out[i].kind # "filler"
=============================================================================
