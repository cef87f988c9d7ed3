--------------------------- MODULE ChatIngressProofs ---------------------------
(***************************************************************************)
(* Proofs about ChatIngress for every set of persons and users, every      *)
(* bound and every rate limit.                                             *)
(*                                                                         *)
(* What a thread may serve is what its key says (Fits): that is the whole  *)
(* inductive argument.  The paths and the memories then follow, provided   *)
(* that no person has the name of the public thread.                       *)
(***************************************************************************)
EXTENDS ChatIngress, FiniteSetTheorems, TLAPS

\* Message m belongs in thread k.
Fits(k, m) ==
    /\ m.private => m.sender \in Persons
    /\ k = Key(m)

RoutedInv ==
    \A k \in Keys :
        /\ \A i \in DOMAIN queue[k] : Fits(k, queue[k][i])
        /\ serving[k] # Nothing => Fits(k, serving[k])

IngressInv == TypeOK /\ RoutedInv

-----------------------------------------------------------------------------
(* Helpers.                                                                *)

\* A message that is let in has an id within the bound.
LEMMA MessageType ==
    ASSUME TypeOK, letIn < MaxMessages,
           NEW private \in BOOLEAN, NEW sender \in Senders, NEW user \in Users
    PROVE  /\ Message(private, sender, user) \in Messages
           /\ letIn + 1 \in 0 .. MaxMessages
  BY IngressAssumption DEF TypeOK, Message, Messages, Ids

\* The private messages that pass the gate are those of persons.
LEMMA AllowedIsPerson ==
    ASSUME NEW sender \in Senders, NEW confidence, IsAllowed(sender, confidence)
    PROVE  sender \in Persons
  BY IngressAssumption DEF IsAllowed, Senders

\* A message enters the thread it fits.
LEMMA EnqueueKeepsInv ==
    ASSUME IngressInv, NEW m \in Messages, m.private => m.sender \in Persons,
           Accepts(Key(m)), Enqueue(m), UNCHANGED serving
    PROVE  /\ queue' \in [Keys -> Seq(Messages)]
           /\ \A k \in Keys : Len(queue'[k]) <= QueueDepth
           /\ RoutedInv'
<1>1. Key(m) \in Keys
  BY DEF Key, Keys
<1>2. \A k \in Keys : queue[k] \in Seq(Messages) /\ Len(queue[k]) <= QueueDepth
  BY DEF IngressInv, TypeOK
<1>3. queue' = [queue EXCEPT ![Key(m)] = Append(queue[Key(m)], m)]
  BY DEF Enqueue
<1>4. \A k \in Keys : k # Key(m) => queue'[k] = queue[k]
  BY <1>3 DEF IngressInv, TypeOK
<1>5. queue'[Key(m)] = Append(queue[Key(m)], m)
  BY <1>1, <1>3 DEF IngressInv, TypeOK
<1>6. queue' \in [Keys -> Seq(Messages)]
  BY <1>1, <1>2, <1>3 DEF IngressInv, TypeOK
<1>7. Len(queue'[Key(m)]) = Len(queue[Key(m)]) + 1
  BY <1>1, <1>2, <1>5
<1>8. QueueDepth \in Nat
  BY IngressAssumption
<1>9. Len(queue'[Key(m)]) <= QueueDepth
  <2>1. Len(queue[Key(m)]) \in Nat /\ Len(queue[Key(m)]) < QueueDepth
    BY <1>1, <1>2 DEF Accepts
  <2>2. QED
    BY <1>7, <1>8, <2>1
<1>10. \A k \in Keys : Len(queue'[k]) <= QueueDepth
  BY <1>2, <1>4, <1>9
<1>11. ASSUME NEW i \in DOMAIN queue'[Key(m)]
       PROVE  Fits(Key(m), queue'[Key(m)][i])
  <2>1. CASE i = Len(queue[Key(m)]) + 1
    <3>1. queue'[Key(m)][i] = m
      BY <1>1, <1>2, <1>5, <2>1
    <3>2. QED
      BY <3>1 DEF Fits
  <2>2. CASE i # Len(queue[Key(m)]) + 1
    <3>1. i \in DOMAIN queue[Key(m)] /\ queue'[Key(m)][i] = queue[Key(m)][i]
      BY <1>1, <1>2, <1>5, <2>2
    <3>2. QED
      BY <1>1, <3>1 DEF IngressInv, RoutedInv
  <2>3. QED
    BY <2>1, <2>2
<1>12. RoutedInv'
  BY <1>1, <1>4, <1>11 DEF IngressInv, RoutedInv, Fits, Key
<1>13. QED
  BY <1>6, <1>10, <1>12

\* What a worker says is something that may be sent.
LEMMA SaysType ==
    ASSUME IngressInv, NEW k \in Keys, serving[k] # Nothing,
           NEW kind \in {"filler", "answer"}
    PROVE  Says(k, kind) \in Sends
<1>1. serving[k] \in Messages
  BY DEF IngressInv, TypeOK
<1>2. Recipient(k, serving[k]) \in Users \cup {PublicChat}
  BY <1>1 DEF Recipient, Messages
<1>3. QED
  BY <1>1, <1>2 DEF Says, Sends

-----------------------------------------------------------------------------
(* The invariant.                                                          *)

LEMMA IngressInvInit == Init => IngressInv
<1> SUFFICES ASSUME Init PROVE IngressInv
  OBVIOUS
<1>1. TypeOK
  <2>1. MaxTime \in Nat /\ MaxMessages \in Nat /\ QueueDepth \in Nat
    BY IngressAssumption
  <2>2. now \in 0 .. MaxTime /\ letIn \in 0 .. MaxMessages
    BY <2>1 DEF Init
  <2>3. <<>> \in Seq(Messages) /\ Len(<<>>) <= QueueDepth
    BY <2>1
  <2>4. queue \in [Keys -> Seq(Messages)] /\ \A k \in Keys : Len(queue[k]) <= QueueDepth
    BY <2>3 DEF Init
  <2>5. serving \in [Keys -> Messages \cup {Nothing}] /\ convo \in [Keys -> SUBSET Sources]
    BY DEF Init
  <2>6. QED
    BY <2>2, <2>4, <2>5 DEF Init, TypeOK
<1>2. RoutedInv
  BY DEF Init, RoutedInv
<1>3. QED
  BY <1>1, <1>2 DEF IngressInv

LEMMA PrivateChatKeepsInv ==
    ASSUME IngressInv, NEW sender \in Senders, NEW confidence \in Confidences,
           NEW user \in Users, NEW admin \in BOOLEAN,
           OnPrivateChat(sender, confidence, user, admin)
    PROVE  IngressInv'
<1> DEFINE m == Message(TRUE, sender, user)
<1>1. m \in Messages /\ letIn' \in 0 .. MaxMessages
  BY MessageType DEF IngressInv, OnPrivateChat, LetIn
<1>2. m.private /\ m.sender = sender /\ m.user = user
  BY DEF Message
<1>3. sender \in Persons
  BY AllowedIsPerson DEF OnPrivateChat
<1>4. UNCHANGED <<now, lastReply, serving, convo>>
  BY DEF OnPrivateChat
<1>5. CASE UNCHANGED queue /\ (Reply("stock", m) \/ Reply("busy", m))
  <2>1. PICK kind \in {"stock", "busy"} : Reply(kind, m)
    BY <1>5
  <2>2. [kind |-> kind, for |-> m, to |-> m.user] \in Sends
    BY <1>1, <1>2 DEF Sends
  <2>3. sent' \subseteq Sends
    BY <2>1, <2>2 DEF Reply, IngressInv, TypeOK
  <2>4. TypeOK'
    BY <1>1, <1>4, <1>5, <2>3 DEF IngressInv, TypeOK
  <2>5. RoutedInv'
    BY <1>4, <1>5 DEF IngressInv, RoutedInv, Fits, Key
  <2>6. QED
    BY <2>4, <2>5 DEF IngressInv
<1>6. CASE Accepts(Key(m)) /\ Enqueue(m) /\ UNCHANGED sent
  <2>1. /\ queue' \in [Keys -> Seq(Messages)]
        /\ \A k \in Keys : Len(queue'[k]) <= QueueDepth
        /\ RoutedInv'
    BY <1>1, <1>2, <1>3, <1>4, <1>6, EnqueueKeepsInv
  <2>2. TypeOK'
    BY <1>1, <1>4, <1>6, <2>1 DEF IngressInv, TypeOK
  <2>3. QED
    BY <2>1, <2>2 DEF IngressInv
<1>7. QED
  BY <1>5, <1>6 DEF OnPrivateChat

LEMMA PublicMentionKeepsInv ==
    ASSUME IngressInv, NEW sender \in Senders, NEW user \in Users,
           OnPublicMention(sender, user)
    PROVE  IngressInv'
<1> DEFINE m == Message(FALSE, sender, user)
<1>1. m \in Messages /\ letIn' \in 0 .. MaxMessages
  BY MessageType DEF IngressInv, OnPublicMention, LetIn
<1>2. ~ m.private /\ Key(m) = Public
  BY DEF Message, Key
<1>3. UNCHANGED <<now, serving, convo, sent>>
  BY DEF OnPublicMention
<1>4. lastReply' \in (0 .. MaxTime) \cup {None}
  BY DEF OnPublicMention, RecordReply, IngressInv, TypeOK
<1>5. CASE UNCHANGED queue
  <2>1. TypeOK'
    BY <1>1, <1>3, <1>4, <1>5 DEF IngressInv, TypeOK
  <2>2. RoutedInv'
    BY <1>3, <1>5 DEF IngressInv, RoutedInv, Fits, Key
  <2>3. QED
    BY <2>1, <2>2 DEF IngressInv
<1>6. CASE Accepts(Key(m)) /\ Enqueue(m)
  <2>1. /\ queue' \in [Keys -> Seq(Messages)]
        /\ \A k \in Keys : Len(queue'[k]) <= QueueDepth
        /\ RoutedInv'
    BY <1>1, <1>2, <1>3, <1>6, EnqueueKeepsInv
  <2>2. TypeOK'
    BY <1>1, <1>3, <1>4, <2>1 DEF IngressInv, TypeOK
  <2>3. QED
    BY <2>1, <2>2 DEF IngressInv
<1>7. QED
  BY <1>2, <1>5, <1>6 DEF OnPublicMention

LEMMA TakeKeepsInv ==
    ASSUME IngressInv, NEW k \in Keys, Take(k)
    PROVE  IngressInv'
<1>1. /\ queue[k] \in Seq(Messages) /\ queue[k] # <<>>
      /\ Len(queue[k]) <= QueueDepth /\ QueueDepth \in Nat
  BY IngressAssumption DEF IngressInv, TypeOK, Take
<1>2. /\ Head(queue[k]) = queue[k][1] /\ 1 \in DOMAIN queue[k]
      /\ Head(queue[k]) \in Messages
      /\ Tail(queue[k]) \in Seq(Messages) /\ Len(Tail(queue[k])) <= QueueDepth
      /\ \A i \in DOMAIN Tail(queue[k]) :
            i + 1 \in DOMAIN queue[k] /\ Tail(queue[k])[i] = queue[k][i + 1]
  BY <1>1
<1>3. /\ queue' = [queue EXCEPT ![k] = Tail(queue[k])]
      /\ serving' = [serving EXCEPT ![k] = Head(queue[k])]
      /\ UNCHANGED <<now, lastReply, letIn, convo, sent>>
  BY DEF Take
<1>4. TypeOK'
  BY <1>2, <1>3 DEF IngressInv, TypeOK
<1>5. ASSUME NEW j \in Keys
      PROVE  /\ \A i \in DOMAIN queue'[j] : Fits(j, queue'[j][i])
             /\ serving'[j] # Nothing => Fits(j, serving'[j])
  <2>1. CASE j = k
    <3>1. queue'[j] = Tail(queue[k]) /\ serving'[j] = queue[k][1]
      BY <1>2, <1>3, <2>1 DEF IngressInv, TypeOK
    <3>2. \A i \in DOMAIN queue[k] : Fits(k, queue[k][i])
      BY DEF IngressInv, RoutedInv
    <3>3. QED
      BY <1>2, <2>1, <3>1, <3>2
  <2>2. CASE j # k
    <3>1. queue'[j] = queue[j] /\ serving'[j] = serving[j]
      BY <1>3, <2>2 DEF IngressInv, TypeOK
    <3>2. QED
      BY <3>1 DEF IngressInv, RoutedInv
  <2>3. QED
    BY <2>1, <2>2
<1>6. RoutedInv'
  BY <1>5 DEF RoutedInv, Fits, Key
<1>7. QED
  BY <1>4, <1>6 DEF IngressInv

LEMMA FillerKeepsInv ==
    ASSUME IngressInv, NEW k \in Keys, Filler(k)
    PROVE  IngressInv'
<1>1. sent' \subseteq Sends
  BY SaysType DEF Filler, IngressInv, TypeOK
<1>2. TypeOK'
  BY <1>1 DEF Filler, IngressInv, TypeOK
<1>3. RoutedInv'
  BY DEF Filler, IngressInv, RoutedInv, Fits, Key
<1>4. QED
  BY <1>2, <1>3 DEF IngressInv

LEMMA FinishKeepsInv ==
    ASSUME IngressInv, NEW k \in Keys, Finish(k)
    PROVE  IngressInv'
<1>1. serving[k] # Nothing /\ serving[k] \in Messages
  BY DEF Finish, IngressInv, TypeOK
<1>2. sent' \subseteq Sends
  BY <1>1, SaysType DEF Finish, IngressInv, TypeOK
<1>3. Source(serving[k]) \in Sources
  BY <1>1 DEF Source, Sources, IngressInv, RoutedInv, Fits
<1>4. convo' \in [Keys -> SUBSET Sources]
  BY <1>3 DEF Finish, IngressInv, TypeOK
<1>5. /\ serving' = [serving EXCEPT ![k] = Nothing]
      /\ UNCHANGED <<now, lastReply, letIn, queue>>
  BY DEF Finish
<1>6. TypeOK'
  BY <1>2, <1>4, <1>5 DEF IngressInv, TypeOK
<1>7. RoutedInv'
  BY <1>5 DEF IngressInv, TypeOK, RoutedInv, Fits, Key
<1>8. QED
  BY <1>6, <1>7 DEF IngressInv

LEMMA IngressInvNext == IngressInv /\ [Next]_vars => IngressInv'
<1> SUFFICES ASSUME IngressInv, [Next]_vars PROVE IngressInv'
  OBVIOUS
<1>1. CASE \E sender \in Senders, confidence \in Confidences, user \in Users,
              admin \in BOOLEAN : OnPrivateChat(sender, confidence, user, admin)
  BY <1>1, PrivateChatKeepsInv
<1>2. CASE \E sender \in Senders, user \in Users : OnPublicMention(sender, user)
  BY <1>2, PublicMentionKeepsInv
<1>3. CASE \E k \in Keys : Worker(k)
  BY <1>3, TakeKeepsInv, FillerKeepsInv, FinishKeepsInv DEF Worker
<1>4. CASE Tick
  <2>1. now' \in 0 .. MaxTime
    BY <1>4, IngressAssumption DEF Tick, IngressInv, TypeOK
  <2>2. TypeOK'
    BY <1>4, <2>1 DEF Tick, IngressInv, TypeOK
  <2>3. RoutedInv'
    BY <1>4 DEF Tick, IngressInv, RoutedInv, Fits, Key
  <2>4. QED
    BY <2>2, <2>3 DEF IngressInv
<1>5. CASE UNCHANGED vars
  BY <1>5 DEF vars, IngressInv, TypeOK, RoutedInv, Fits, Key
<1>6. QED
  BY <1>1, <1>2, <1>3, <1>4, <1>5 DEF Next

THEOREM IngressInvariant == Spec => []IngressInv
  BY IngressInvInit, IngressInvNext, PTL DEF Spec

-----------------------------------------------------------------------------
(* The theorems.                                                           *)

\* Type correctness of assistant.py's ingress, the bound of the queues included.
THEOREM IngressTypeOK == Spec => []TypeOK
  BY IngressInvariant, PTL DEF IngressInv

\* The send paths (actor.py, _send_reply) are separated for every meeting in
\* which nobody is called "public".
THEOREM IngressRepliesStayOnTheirPath ==
    ASSUME Public \notin Persons
    PROVE  Spec => []RepliesStayOnTheirPath
<1>1. Init => RepliesStayOnTheirPath
  BY DEF Init, RepliesStayOnTheirPath
<1>2. ASSUME NEW k \in Keys, IngressInv, serving[k] # Nothing, NEW kind
      PROVE  LET s == Says(k, kind) IN
             s.to = IF s.for.private THEN s.for.user ELSE PublicChat
  <2>1. Fits(k, serving[k])
    BY <1>2 DEF IngressInv, RoutedInv
  <2>2. k = Public <=> ~ serving[k].private
    BY <2>1 DEF Fits, Key
  <2>3. QED
    BY <2>2 DEF Says, Recipient
<1>3. ASSUME RepliesStayOnTheirPath, IngressInv, [Next]_vars
      PROVE  RepliesStayOnTheirPath'
  <2>1. CASE \E sender \in Senders, confidence \in Confidences, user \in Users,
                admin \in BOOLEAN : OnPrivateChat(sender, confidence, user, admin)
    <3>1. PICK sender \in Senders, confidence \in Confidences, user \in Users,
               admin \in BOOLEAN : OnPrivateChat(sender, confidence, user, admin)
      BY <2>1
    <3>2. \/ UNCHANGED sent
          \/ \E kind \in {"stock", "busy"} : Reply(kind, Message(TRUE, sender, user))
      BY <3>1 DEF OnPrivateChat
    <3>3. QED
      BY <1>3, <3>2 DEF Reply, Message, RepliesStayOnTheirPath
  <2>2. CASE \E k \in Keys : Worker(k)
    <3>1. PICK k \in Keys : Worker(k)
      BY <2>2
    <3>2. \/ UNCHANGED sent
          \/ /\ serving[k] # Nothing
             /\ \E kind \in {"filler", "answer"} : sent' = sent \cup {Says(k, kind)}
      BY <3>1 DEF Worker, Take, Filler, Finish
    <3>3. QED
      BY <1>2, <1>3, <3>2 DEF RepliesStayOnTheirPath
  <2>3. CASE UNCHANGED sent
    BY <1>3, <2>3 DEF RepliesStayOnTheirPath
  <2>4. QED
    BY <1>3, <2>1, <2>2, <2>3 DEF Next, OnPublicMention, Tick, vars
<1>4. QED
  BY <1>1, <1>3, IngressInvariant, PTL DEF Spec

\* The history that thread k hands to cortex, under the same condition.
OwnTurns(k) == convo[k] \subseteq {IF k = Public THEN "mentions" ELSE k}

\* Memories of a meeting do not mix, whoever writes, in whatever order, and
\* whichever dispatches fail.
THEOREM IngressThreadsDoNotMix ==
    ASSUME Public \notin Persons
    PROVE  Spec => []ThreadsDoNotMix
<1> DEFINE AllOwn == \A k \in Keys : OwnTurns(k)
<1>1. Init => AllOwn
  BY DEF Init, OwnTurns
<1>2. ASSUME AllOwn, IngressInv, [Next]_vars
      PROVE  AllOwn'
  <2>1. CASE \E k \in Keys : Finish(k)
    <3>1. PICK k \in Keys : Finish(k)
      BY <2>1
    <3>2. serving[k] # Nothing /\ Fits(k, serving[k])
      BY <1>2, <3>1 DEF Finish, IngressInv, RoutedInv
    <3>3. Source(serving[k]) = IF k = Public THEN "mentions" ELSE k
      BY <3>2 DEF Fits, Key, Source
    <3>4. \A j \in Keys :
             \/ convo'[j] = convo[j]
             \/ j = k /\ convo'[j] = convo[j] \cup {Source(serving[k])}
      BY <1>2, <3>1 DEF Finish, IngressInv, TypeOK
    <3>5. QED
      BY <1>2, <3>3, <3>4 DEF OwnTurns
  <2>2. CASE UNCHANGED convo
    BY <1>2, <2>2 DEF OwnTurns
  <2>3. QED
    BY <1>2, <2>1, <2>2 DEF Next, OnPrivateChat, OnPublicMention, Worker, Take, Filler,
                            Tick, vars
<1>3. AllOwn => ThreadsDoNotMix
  <2> SUFFICES ASSUME AllOwn, NEW k \in Keys PROVE Cardinality(convo[k]) <= 1
    BY DEF ThreadsDoNotMix
  <2>1. PICK x : convo[k] \subseteq {x}
    BY DEF OwnTurns
  <2>2. IsFiniteSet({x}) /\ Cardinality({x}) = 1
    BY FS_Singleton
  <2>3. QED
    BY <2>1, <2>2, FS_Subset
<1>4. QED
  <2> HIDE DEF AllOwn
  <2> QED
    BY <1>1, <1>2, <1>3, IngressInvariant, PTL DEF Spec

-----------------------------------------------------------------------------
(* The rate limit.                                                         *)

\* The messages that a post in the public chat is for, or may yet be for.
Mentions ==
    {queue[Public][i] : i \in DOMAIN queue[Public]}
    \cup ({serving[Public]} \ {Nothing})
    \cup {s.for : s \in PublicPosts}

\* The first mention is free, and each further one cost a window.
RateInv ==
    /\ IsFiniteSet(Mentions)
    /\ \A s \in PublicPosts : s.kind \in {"filler", "answer"}
    /\ lastReply = None => Mentions = {}
    /\ lastReply # None =>
          lastReply <= now /\ (Cardinality(Mentions) - 1) * Window <= lastReply

LEMMA Monotone ==
    ASSUME NEW a \in Int, NEW b \in Int, NEW w \in Nat, a <= b
    PROVE  a * w <= b * w
  OBVIOUS

LEMMA OneMore ==
    ASSUME NEW a \in Int, NEW w \in Nat
    PROVE  a * w = (a - 1) * w + w
  OBVIOUS

LEMMA AtMostOneMore ==
    ASSUME NEW S, IsFiniteSet(S), NEW x
    PROVE  /\ IsFiniteSet(S \cup {x})
           /\ Cardinality(S \cup {x}) \in Nat
           /\ Cardinality(S \cup {x}) <= Cardinality(S) + 1
<1>1. IsFiniteSet(S \cup {x}) /\ Cardinality(S) \in Nat
  BY FS_AddElement, FS_CardinalityType
<1>2. Cardinality(S \cup {x}) = IF x \in S THEN Cardinality(S) ELSE Cardinality(S) + 1
  BY FS_AddElement
<1>3. QED
  BY <1>1, <1>2

\* Two posts for each mention, and no other.
LEMMA TwoPostsEach ==
    ASSUME TypeOK, RateInv
    PROVE  /\ Cardinality(Mentions) \in Nat
           /\ Cardinality(PublicPosts) \in Nat
           /\ Cardinality(PublicPosts) <= 2 * Cardinality(Mentions)
<1> DEFINE Kinds == {"filler", "answer"}
           f == [s \in PublicPosts |-> <<s.kind, s.for>>]
<1>1. Cardinality(Mentions) \in Nat
  BY FS_CardinalityType DEF RateInv
<1>2. IsFiniteSet(Kinds) /\ Cardinality(Kinds) = 2
  <2>1. IsFiniteSet({"filler"}) /\ Cardinality({"filler"}) = 1
    BY FS_Singleton
  <2>2. Kinds = {"filler"} \cup {"answer"} /\ "answer" \notin {"filler"}
    OBVIOUS
  <2>3. QED
    BY <2>1, <2>2, FS_AddElement
<1>3. /\ IsFiniteSet(Kinds \X Mentions)
      /\ Cardinality(Kinds \X Mentions) = 2 * Cardinality(Mentions)
  BY <1>2, FS_Product DEF RateInv
<1>4. f \in Injection(PublicPosts, Kinds \X Mentions)
  <2>1. f \in [PublicPosts -> Kinds \X Mentions]
    BY DEF RateInv, Mentions
  <2>2. ASSUME NEW s \in PublicPosts, NEW t \in PublicPosts, f[s] = f[t]
        PROVE  s = t
    <3>1. s \in Sends /\ t \in Sends /\ s.to = t.to
      BY DEF PublicPosts, TypeOK
    <3>2. s.kind = t.kind /\ s.for = t.for
      BY <2>2
    <3>3. QED
      BY <3>1, <3>2 DEF Sends
  <2>3. QED
    BY <2>1, <2>2 DEF Injection, IsInjective
<1>5. /\ IsFiniteSet(PublicPosts)
      /\ Cardinality(PublicPosts) <= Cardinality(Kinds \X Mentions)
  BY <1>3, <1>4, FS_Injection
<1>6. QED
  BY <1>1, <1>3, <1>5, FS_CardinalityType

\* A step that records no reply adds no mention.
LEMMA NoNewMention ==
    ASSUME TypeOK, RateInv, Mentions' \subseteq Mentions,
           UNCHANGED lastReply, now' \in Nat, now <= now',
           \A s \in PublicPosts' : s.kind \in {"filler", "answer"}
    PROVE  RateInv'
<1>1. IsFiniteSet(Mentions) /\ IsFiniteSet(Mentions')
  BY FS_Subset DEF RateInv
<1>2. /\ Cardinality(Mentions') <= Cardinality(Mentions)
      /\ Cardinality(Mentions) \in Nat /\ Cardinality(Mentions') \in Nat
  BY <1>1, FS_Subset, FS_CardinalityType
<1>3. Window \in Nat
  BY IngressAssumption
<1>4. (Cardinality(Mentions') - 1) * Window <= (Cardinality(Mentions) - 1) * Window
  BY <1>2, <1>3, Monotone
<1>5. CASE lastReply = None
  BY <1>1, <1>5 DEF RateInv
<1>6. CASE lastReply # None
  <2>1. lastReply \in Nat /\ now \in Nat
    BY <1>6 DEF TypeOK
  <2>2. lastReply <= now /\ (Cardinality(Mentions) - 1) * Window <= lastReply
    BY <1>6 DEF RateInv
  <2>3. lastReply <= now' /\ (Cardinality(Mentions') - 1) * Window <= lastReply
    BY <1>2, <1>3, <1>4, <2>1, <2>2
  <2>4. QED
    BY <1>1, <1>6, <2>3 DEF RateInv
<1>7. QED
  BY <1>5, <1>6

LEMMA MentionKeepsRate ==
    ASSUME Public \notin Persons, IngressInv, RateInv,
           NEW sender \in Senders, NEW user \in Users, OnPublicMention(sender, user)
    PROVE  RateInv'
<1> DEFINE m == Message(FALSE, sender, user)
<1>1. now \in Nat /\ UNCHANGED <<now, serving, sent>> /\ Public \in Keys
  BY DEF OnPublicMention, IngressInv, TypeOK, Keys
<1>2. PublicPosts' = PublicPosts
  BY <1>1 DEF PublicPosts
<1>3. CASE UNCHANGED <<queue, lastReply>>
  <2>1. Mentions' = Mentions
    BY <1>1, <1>2, <1>3 DEF Mentions
  <2>2. QED
    BY <1>1, <1>2, <1>3, <2>1 DEF RateInv
<1>4. CASE Enqueue(m) /\ RecordReply
  <2>1. queue[Public] \in Seq(Messages)
    BY <1>1 DEF IngressInv, TypeOK
  <2>2. queue'[Public] = Append(queue[Public], m)
    BY <1>1, <1>4 DEF Enqueue, Key, Message, IngressInv, TypeOK
  <2>3. {queue'[Public][i] : i \in DOMAIN queue'[Public]}
          = {queue[Public][i] : i \in DOMAIN queue[Public]} \cup {m}
    <3>1. m \in Messages
      BY MessageType DEF IngressInv, OnPublicMention, LetIn
    <3>2. /\ DOMAIN queue'[Public] = (DOMAIN queue[Public]) \cup {Len(queue[Public]) + 1}
          /\ \A i \in DOMAIN queue[Public] : queue'[Public][i] = queue[Public][i]
          /\ queue'[Public][Len(queue[Public]) + 1] = m
      <4> HIDE DEF m
      <4> QED
        BY <2>1, <2>2, <3>1
    <3>3. QED
      BY <3>2
  <2>4. Mentions' = Mentions \cup {m}
    BY <1>1, <1>2, <2>3 DEF Mentions
  <2>5. IsFiniteSet(Mentions) /\ Cardinality(Mentions) \in Nat
    BY FS_CardinalityType DEF RateInv
  <2>6. /\ IsFiniteSet(Mentions')
        /\ Cardinality(Mentions') \in Nat
        /\ Cardinality(Mentions') <= Cardinality(Mentions) + 1
    BY <2>4, <2>5, AtMostOneMore
  <2>7. Window \in Nat /\ None \notin Nat
    BY IngressAssumption
  <2>8. lastReply' = now /\ lastReply' # None
    BY <1>1, <1>4, <2>7 DEF RecordReply
  <2>9. (Cardinality(Mentions') - 1) * Window <= Cardinality(Mentions) * Window
    BY <2>5, <2>6, <2>7, Monotone
  <2>10. Cardinality(Mentions) * Window <= now
    <3>1. CASE lastReply = None
      <4>1. Cardinality(Mentions) = 0
        BY <3>1, FS_EmptySet DEF RateInv
      <4>2. QED
        BY <1>1, <2>7, <4>1
    <3>2. CASE lastReply # None
      <4>1. lastReply \in Nat /\ now - lastReply >= Window
        BY <3>2 DEF OnPublicMention, MentionAllowed, IngressInv, TypeOK
      <4>2. (Cardinality(Mentions) - 1) * Window <= lastReply
        BY <3>2 DEF RateInv
      <4>3. Cardinality(Mentions) * Window = (Cardinality(Mentions) - 1) * Window + Window
        BY <2>5, <2>7, OneMore
      <4>4. (Cardinality(Mentions) - 1) * Window \in Int
        BY <2>5, <2>7
      <4>5. QED
        BY <1>1, <2>7, <4>1, <4>2, <4>3, <4>4
    <3>3. QED
      BY <3>1, <3>2
  <2>11. (Cardinality(Mentions') - 1) * Window <= now
    <3>1. /\ (Cardinality(Mentions') - 1) * Window \in Int
          /\ Cardinality(Mentions) * Window \in Int
      BY <2>5, <2>6, <2>7
    <3>2. QED
      BY <1>1, <2>9, <2>10, <3>1
  <2>12. QED
    BY <1>1, <1>2, <2>6, <2>8, <2>11 DEF RateInv
<1>5. QED
  BY <1>3, <1>4 DEF OnPublicMention

LEMMA WorkerKeepsRate ==
    ASSUME Public \notin Persons, IngressInv, RateInv, NEW k \in Keys, Worker(k)
    PROVE  RateInv'
<1>1. now \in Nat /\ UNCHANGED <<now, lastReply>> /\ Public \in Keys
  BY DEF Worker, Take, Filler, Finish, IngressInv, TypeOK, Keys
<1>2. queue[Public] \in Seq(Messages)
  BY <1>1 DEF IngressInv, TypeOK
<1>3. CASE Take(k)
  <2>1. PublicPosts' = PublicPosts
    BY <1>3 DEF Take, PublicPosts
  <2>2. CASE k = Public
    <3>1. /\ queue[Public] # <<>>
          /\ queue'[Public] = Tail(queue[Public]) /\ serving'[Public] = Head(queue[Public])
      BY <1>1, <1>3, <2>2 DEF Take, IngressInv, TypeOK
    <3>2. /\ Head(queue[Public]) = queue[Public][1] /\ 1 \in DOMAIN queue[Public]
          /\ \A i \in DOMAIN Tail(queue[Public]) :
                i + 1 \in DOMAIN queue[Public] /\ Tail(queue[Public])[i] = queue[Public][i + 1]
      BY <1>2, <3>1
    <3>3. Mentions' \subseteq Mentions
      BY <2>1, <3>1, <3>2 DEF Mentions
    <3>4. QED
      BY <1>1, <2>1, <3>3, NoNewMention DEF IngressInv, RateInv
  <2>3. CASE k # Public
    <3>1. queue'[Public] = queue[Public] /\ serving'[Public] = serving[Public]
      BY <1>1, <1>3, <2>3 DEF Take, IngressInv, TypeOK
    <3>2. Mentions' = Mentions
      BY <2>1, <3>1 DEF Mentions
    <3>3. QED
      BY <1>1, <2>1, <3>2, NoNewMention DEF IngressInv, RateInv
  <2>4. QED
    BY <2>2, <2>3
<1>4. CASE Filler(k) \/ Finish(k)
  <2>1. UNCHANGED queue /\ serving[k] # Nothing /\ serving[k] \in Messages
    BY <1>4 DEF Filler, Finish, IngressInv, TypeOK
  <2>2. \/ UNCHANGED sent
        \/ \E kind \in {"filler", "answer"} : sent' = sent \cup {Says(k, kind)}
    BY <1>4 DEF Filler, Finish
  <2>3. \A kind : Says(k, kind).to = PublicChat => k = Public
    BY <2>1, IngressAssumption DEF Says, Recipient, Messages
  <2>4. ASSUME NEW s \in PublicPosts'
        PROVE  /\ s.kind \in {"filler", "answer"}
               /\ \/ s \in PublicPosts
                  \/ s.for = serving[Public] /\ serving[Public] # Nothing
    <3>1. CASE s \in PublicPosts
      BY <3>1 DEF RateInv
    <3>2. CASE s \notin PublicPosts
      <4>1. PICK kind \in {"filler", "answer"} : s = Says(k, kind)
        BY <2>2, <3>2 DEF PublicPosts
      <4>2. k = Public
        BY <2>3, <4>1 DEF PublicPosts
      <4>3. QED
        BY <2>1, <4>1, <4>2 DEF Says
    <3>3. QED
      BY <3>1, <3>2
  <2>5. serving'[Public] = serving[Public] \/ serving'[Public] = Nothing
    BY <1>1, <1>4 DEF Filler, Finish, IngressInv, TypeOK
  <2>6. Mentions' \subseteq Mentions
    BY <2>1, <2>4, <2>5 DEF Mentions
  <2>7. QED
    BY <1>1, <2>4, <2>6, NoNewMention DEF IngressInv
<1>5. QED
  BY <1>3, <1>4 DEF Worker

LEMMA PrivateKeepsRate ==
    ASSUME Public \notin Persons, IngressInv, RateInv,
           NEW sender \in Senders, NEW confidence \in Confidences, NEW user \in Users,
           NEW admin \in BOOLEAN, OnPrivateChat(sender, confidence, user, admin)
    PROVE  RateInv'
<1> DEFINE m == Message(TRUE, sender, user)
<1>1. now \in Nat /\ UNCHANGED <<now, lastReply, serving>> /\ Public \in Keys
  BY DEF OnPrivateChat, IngressInv, TypeOK, Keys
<1>2. Key(m) # Public
  BY AllowedIsPerson DEF OnPrivateChat, Key, Message
<1>3. queue'[Public] = queue[Public]
  BY <1>1, <1>2 DEF OnPrivateChat, Enqueue, IngressInv, TypeOK
<1>4. PublicPosts' = PublicPosts
  BY IngressAssumption DEF OnPrivateChat, Reply, Message, PublicPosts
<1>5. Mentions' = Mentions
  BY <1>1, <1>3, <1>4 DEF Mentions
<1>6. QED
  BY <1>1, <1>4, <1>5, NoNewMention DEF IngressInv, RateInv

\* What the public chat sees is bounded by the time since the meeting began,
\* however late the posts and however many messages arrive (public_mentions.py
\* with Assistant.on_public_mention).
THEOREM IngressPublicPostsBounded ==
    ASSUME Public \notin Persons
    PROVE  Spec => []PublicPostsBounded
<1>1. Init => RateInv
  <2> SUFFICES ASSUME Init PROVE RateInv
    OBVIOUS
  <2>1. Public \in Keys
    BY DEF Keys
  <2>2. PublicPosts = {} /\ Mentions = {}
    BY <2>1 DEF Init, PublicPosts, Mentions
  <2>3. QED
    BY <2>2, FS_EmptySet DEF Init, RateInv
<1>2. ASSUME RateInv, IngressInv, [Next]_vars
      PROVE  RateInv'
  <2>1. CASE \E sender \in Senders, confidence \in Confidences, user \in Users,
                admin \in BOOLEAN : OnPrivateChat(sender, confidence, user, admin)
    BY <1>2, <2>1, PrivateKeepsRate
  <2>2. CASE \E sender \in Senders, user \in Users : OnPublicMention(sender, user)
    BY <1>2, <2>2, MentionKeepsRate
  <2>3. CASE \E k \in Keys : Worker(k)
    BY <1>2, <2>3, WorkerKeepsRate
  <2>4. CASE Tick \/ UNCHANGED vars
    <3>1. UNCHANGED <<lastReply, queue, serving, sent>>
      BY <2>4 DEF Tick, vars
    <3>2. now \in Nat /\ now' \in Nat /\ now <= now'
      BY <1>2, <2>4 DEF Tick, vars, IngressInv, TypeOK
    <3>3. PublicPosts' = PublicPosts /\ Mentions' = Mentions
      BY <3>1 DEF PublicPosts, Mentions
    <3>4. QED
      BY <1>2, <3>1, <3>2, <3>3, NoNewMention DEF IngressInv, RateInv
  <2>5. QED
    BY <1>2, <2>1, <2>2, <2>3, <2>4 DEF Next
<1>3. ASSUME RateInv, IngressInv
      PROVE  PublicPostsBounded
  <2>1. /\ Cardinality(Mentions) \in Nat /\ Cardinality(PublicPosts) \in Nat
        /\ Cardinality(PublicPosts) <= 2 * Cardinality(Mentions)
    BY <1>3, TwoPostsEach DEF IngressInv
  <2>2. Window \in Nat /\ now \in Nat
    BY <1>3, IngressAssumption DEF IngressInv, TypeOK
  <2>3. (Cardinality(Mentions) - 1) * Window <= now
    <3>1. CASE lastReply = None
      <4>1. Cardinality(Mentions) = 0
        BY <1>3, <3>1, FS_EmptySet DEF RateInv
      <4>2. QED
        BY <2>2, <4>1
    <3>2. CASE lastReply # None
      <4>1. lastReply \in Nat
        BY <1>3, <3>2 DEF IngressInv, TypeOK
      <4>2. lastReply <= now /\ (Cardinality(Mentions) - 1) * Window <= lastReply
        BY <1>3, <3>2 DEF RateInv
      <4>3. (Cardinality(Mentions) - 1) * Window \in Int
        BY <2>1, <2>2
      <4>4. QED
        BY <2>2, <4>1, <4>2, <4>3
    <3>3. QED
      BY <3>1, <3>2
  <2>4. (Cardinality(PublicPosts) - 2) * Window
          <= (2 * (Cardinality(Mentions) - 1)) * Window
    BY <2>1, <2>2, Monotone
  <2>5. (2 * (Cardinality(Mentions) - 1)) * Window = 2 * ((Cardinality(Mentions) - 1) * Window)
    BY <2>1, <2>2
  <2>6. QED
    BY <2>1, <2>2, <2>3, <2>4, <2>5 DEF PublicPostsBounded
<1>4. QED
  BY <1>1, <1>2, <1>3, IngressInvariant, PTL DEF Spec
=============================================================================
