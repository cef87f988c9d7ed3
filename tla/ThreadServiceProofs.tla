------------------------- MODULE ThreadServiceProofs -------------------------
(***************************************************************************)
(* The promises of ThreadService, proved for every queue depth and every   *)
(* number of messages.                                                     *)
(***************************************************************************)
EXTENDS ThreadService, TLAPS

\* What has been sent is about messages already taken, and what has been sent
\* about the message being served, the last one taken, is no answer yet.
Progress ==
    /\ \A i \in 1 .. Len(out) : out[i].event <= taken
    /\ serving # 0 =>
          /\ serving = taken
          /\ \A i \in 1 .. Len(out) : out[i].event = serving => out[i].kind = "filler"

ServiceInv == TypeOK /\ Progress /\ InOrder /\ AnswerIsLast /\ NudgedOnce

\* Appending keeps what was there and adds its element at the end.
LEMMA AppendFacts ==
    ASSUME NEW S, NEW s \in Seq(S), NEW x \in S
    PROVE  /\ Append(s, x) \in Seq(S)
           /\ Len(Append(s, x)) = Len(s) + 1
           /\ \A i \in 1 .. Len(s) : Append(s, x)[i] = s[i]
           /\ Append(s, x)[Len(s) + 1] = x
BY SMT

\* A message about the one being served keeps the order and follows no answer to
\* it, and no equal "one moment" if it is one.
LEMMA SendPreserves ==
    ASSUME ServiceInv, serving # 0, NEW k \in MessageKinds,
           out' = Append(out, [event |-> serving, kind |-> k]),
           k = "filler" => ~ Received(serving, {"filler"})
    PROVE  /\ out' \in Seq(Message)
           /\ InOrder' /\ AnswerIsLast' /\ NudgedOnce'
           /\ \A i \in 1 .. Len(out') : out'[i].event <= taken
           /\ k = "filler" => \A i \in 1 .. Len(out') :
                                 out'[i].event = serving => out'[i].kind = "filler"
<1> DEFINE m == [event |-> serving, kind |-> k]
<1>1. m \in Message /\ m.event = serving /\ m.kind = k
  BY DEF ServiceInv, TypeOK, Message, Events
<1>2. /\ out' \in Seq(Message)
      /\ Len(out') = Len(out) + 1
      /\ \A i \in 1 .. Len(out) : out'[i] = out[i]
      /\ out'[Len(out) + 1] = m
  BY <1>1, AppendFacts DEF ServiceInv, TypeOK
<1>3. \A i \in 1 .. Len(out) : out[i] \in Message
  BY DEF ServiceInv, TypeOK
<1>4. Len(out) \in Nat /\ \A i \in 1 .. Len(out') : i \in 1 .. Len(out) \/ i = Len(out) + 1
  BY <1>2 DEF ServiceInv, TypeOK
<1>5. \A i \in 1 .. Len(out) : out[i].event <= serving
  BY DEF ServiceInv, Progress
<1> HIDE DEF m
<1>6. InOrder'
  BY <1>1, <1>2, <1>3, <1>4, <1>5 DEF InOrder, ServiceInv, Message, Events
<1>7. AnswerIsLast'
  <2>1. \A i \in 1 .. Len(out) : out[i].kind \in AnswerKinds => out[i].event # serving
    BY DEF ServiceInv, Progress, AnswerKinds
  <2> QED BY <1>1, <1>2, <1>4, <2>1 DEF AnswerIsLast, ServiceInv
<1>8. NudgedOnce'
  <2>1. k = "filler" => \A i \in 1 .. Len(out) : out[i] # m
    BY <1>1 DEF Received
  <2> QED BY <1>1, <1>2, <1>4, <2>1 DEF NudgedOnce, ServiceInv
<1>9. \A i \in 1 .. Len(out') : out'[i].event <= taken
  BY <1>1, <1>2, <1>4, <1>5 DEF ServiceInv, TypeOK, Progress
<1>10. k = "filler" => \A i \in 1 .. Len(out') :
                          out'[i].event = serving => out'[i].kind = "filler"
  BY <1>1, <1>2, <1>4 DEF ServiceInv, Progress
<1> QED BY <1>2, <1>6, <1>7, <1>8, <1>9, <1>10

\* The invariant holds at first and every step keeps it.
LEMMA ServiceInvInit == Init => ServiceInv
BY DEF Init, ServiceInv, TypeOK, Progress, InOrder, AnswerIsLast, NudgedOnce

LEMMA ServiceInvStep == ServiceInv /\ [Next]_vars => ServiceInv'
<1> SUFFICES ASSUME ServiceInv, [Next]_vars PROVE ServiceInv'
  OBVIOUS
<1>0. \A i \in 1 .. Len(out) : out[i].event \in Nat /\ out[i].event <= taken
  <2>1. \A i \in 1 .. Len(out) : out[i] \in Message
    BY DEF ServiceInv, TypeOK
  <2> QED BY <2>1 DEF ServiceInv, Progress, Message, Events
<1>1. CASE Accept
  BY <1>1 DEF Accept, ServiceInv, TypeOK, Progress, InOrder, AnswerIsLast, NudgedOnce
<1>2. CASE Take
  <2>1. \A i \in 1 .. Len(out) : out[i].event # taken + 1
    BY <1>0 DEF ServiceInv, TypeOK
  <2>2. \A i \in 1 .. Len(out) : out[i].event <= taken + 1
    BY <1>0 DEF ServiceInv, TypeOK
  <2>3. UNCHANGED out /\ taken < accepted /\ taken' = taken + 1 /\ serving' = taken + 1
        /\ UNCHANGED accepted
    BY <1>2 DEF Take, TakeNext
  <2>4. TypeOK' BY <2>3 DEF ServiceInv, TypeOK
  <2>5. Progress' BY <2>1, <2>2, <2>3 DEF Progress
  <2> QED BY <2>3, <2>4, <2>5 DEF ServiceInv, InOrder, AnswerIsLast, NudgedOnce
<1>3. CASE Nudge
  <2>1. serving # 0 /\ out' = Append(out, [event |-> serving, kind |-> "filler"])
        /\ ~ Received(serving, {"filler"})
        /\ serving' \in {serving, 0} /\ UNCHANGED <<accepted, taken>>
    BY <1>3 DEF Nudge
  <2>2. "filler" \in MessageKinds BY DEF MessageKinds
  <2>3. /\ out' \in Seq(Message)
        /\ InOrder' /\ AnswerIsLast' /\ NudgedOnce'
        /\ \A i \in 1 .. Len(out') : out'[i].event <= taken
        /\ \A i \in 1 .. Len(out') : out'[i].event = serving => out'[i].kind = "filler"
    BY <2>1, <2>2, SendPreserves
  <2>4. TypeOK' BY <2>1, <2>3 DEF ServiceInv, TypeOK
  <2>5. Progress' BY <2>1, <2>3 DEF ServiceInv, Progress
  <2> QED BY <2>3, <2>4, <2>5 DEF ServiceInv
<1>4. CASE Settle
  <2>1. serving # 0 /\ serving = taken /\ (TakeNext \/ Rest)
    BY <1>4 DEF Settle, ServiceInv, Progress
  <2>2. /\ out' \in Seq(Message)
        /\ InOrder' /\ AnswerIsLast' /\ NudgedOnce'
        /\ \A i \in 1 .. Len(out') : out'[i].event <= taken
    <3>1. CASE UNCHANGED out
      BY <3>1 DEF ServiceInv, TypeOK, Progress, InOrder, AnswerIsLast, NudgedOnce
    <3>2. ASSUME NEW k \in AnswerKinds, out' = Append(out, [event |-> serving, kind |-> k])
          PROVE  /\ out' \in Seq(Message)
                 /\ InOrder' /\ AnswerIsLast' /\ NudgedOnce'
                 /\ \A i \in 1 .. Len(out') : out'[i].event <= taken
      <4>1. k \in MessageKinds /\ k # "filler" BY DEF AnswerKinds, MessageKinds
      <4> QED BY <2>1, <3>2, <4>1, SendPreserves
    <3> QED BY <1>4, <3>1, <3>2 DEF Settle
  <2>3. \A i \in 1 .. Len(out') : out'[i].event \in Nat
    <3>1. \A i \in 1 .. Len(out') : out'[i] \in Message
      BY <2>2
    <3> QED BY <3>1 DEF Message, Events
  <2>4. TypeOK' BY <2>1, <2>2 DEF ServiceInv, TypeOK, TakeNext, Rest
  <2>5. Progress'
    <3>1. CASE TakeNext
      <4>1. \A i \in 1 .. Len(out') : out'[i].event <= taken' /\ out'[i].event # serving'
        <5>1. taken \in Nat /\ taken' = taken + 1 /\ serving' = taken + 1
          BY <3>1 DEF TakeNext, ServiceInv, TypeOK
        <5>2. TAKE i \in 1 .. Len(out')
        <5>3. out'[i].event \in Nat /\ out'[i].event <= taken
          BY <2>2, <2>3
        <5> QED BY <5>1, <5>3
      <4>2. serving' = taken'
        BY <3>1 DEF TakeNext
      <4> QED BY <4>1, <4>2 DEF Progress
    <3>2. CASE Rest
      BY <2>2, <3>2 DEF Progress, Rest
    <3> QED BY <2>1, <3>1, <3>2
  <2> QED BY <2>2, <2>4, <2>5 DEF ServiceInv
<1>5. CASE UNCHANGED vars
  BY <1>5 DEF vars, ServiceInv, TypeOK, Progress, InOrder, AnswerIsLast, NudgedOnce
<1> QED BY <1>1, <1>2, <1>3, <1>4, <1>5 DEF Next

\* For every depth and every number of messages: answers come in the order the
\* messages were accepted, none is given twice or followed by anything about the
\* same message, and "one moment" is said at most once.
THEOREM ServicePromises == Spec => [](TypeOK /\ InOrder /\ AnswerIsLast /\ NudgedOnce)
<1>1. ServiceInv => TypeOK /\ InOrder /\ AnswerIsLast /\ NudgedOnce
  BY DEF ServiceInv
<1> QED BY ServiceInvInit, ServiceInvStep, <1>1, PTL DEF Spec
=============================================================================
