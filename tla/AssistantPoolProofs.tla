------------------------ MODULE AssistantPoolProofs ------------------------
(***************************************************************************)
(* AssistantPool proved for any number of senders, actors, messages, slots *)
(* and reaps: type correctness, the conservation of the semaphore's slots, *)
(* the bookkeeping of the pool and its timers, that no worker is stray,    *)
(* and that every actor of the pool is a ThreadWorker.                     *)
(***************************************************************************)
EXTENDS AssistantPool, FiniteSetTheorems, TLAPS

-----------------------------------------------------------------------------
(* Preliminaries.                                                          *)

LEMMA Bounds ==
    /\ QueueDepth \in Nat \ {0} /\ Slots \in Nat \ {0} /\ MaxActors \in Nat \ {0}
    /\ MaxMessages \in Nat \ {0} /\ MaxReaps \in Nat \ {0}
    /\ NoActor \notin Actors /\ Actors \subseteq Nat
    /\ NoThread \notin Threads
BY BoundsAssumption, NamesAssumption DEF Actors, NoActor, Threads

\* What the tuples of variables stand for when they are left unchanged.
LEMMA Groups ==
    /\ (UNCHANGED timerVars) <=> (timers' = timers /\ orphans' = orphans
                                /\ reapsDue' = reapsDue)
    /\ (UNCHANGED actorVars) <=> (owner' = owner /\ accepted' = accepted /\ queue' = queue
                                /\ idle' = idle /\ worker' = worker /\ cancel' = cancel)
    /\ (UNCHANGED closeVars) <=> (closing' = closing /\ todo' = todo /\ known' = known)
BY DEF timerVars, actorVars, closeVars

LEMMA ActorsFinite == IsFiniteSet(Actors)
BY Bounds, FS_Interval DEF Actors

\* The snapshot of shutdown has a first actor as long as it has one: the set of
\* the actors up to it is minimal among such sets.
LEMMA FirstIn ==
    ASSUME NEW S \in SUBSET Actors, S # {}
    PROVE  First(S) \in S
<1> DEFINE Upto(a) == {b \in S : b <= a}
           Ups == {Upto(a) : a \in S}
           R == StrictSubsetOrdering(S)
<1>1. IsFiniteSet(S)
  BY ActorsFinite, FS_Subset
<1>2. IsWellFoundedOn(R, FiniteSubsetsOf(S))
  BY <1>1, FS_StrictSubsetOrderingWellFounded
<1>3. Ups \subseteq FiniteSubsetsOf(S) /\ Ups # {}
  <2>1. FiniteSubsetsOf(S) = SUBSET S
    BY <1>1, FS_FiniteSubsetsOfFinite
  <2>2. \A a \in S : Upto(a) \in SUBSET S
    OBVIOUS
  <2> HIDE DEF Upto
  <2> QED BY <2>1, <2>2
<1>4. \E x \in Ups : \A y \in Ups : ~ (<<y, x>> \in R)
  <2> HIDE DEF Ups, R
  <2> QED BY <1>2, <1>3, WFMin
<1>5. PICK a \in S : \A y \in Ups : ~ (<<y, Upto(a)>> \in R)
  BY <1>4
<1>6. \A b \in S : a <= b
  <2> SUFFICES ASSUME NEW b \in S, ~ (a <= b) PROVE FALSE
    OBVIOUS
  <2>1. a \in Nat /\ b \in Nat /\ S \subseteq Nat
    BY Bounds
  <2>2. Upto(b) \subseteq Upto(a) /\ a \in Upto(a) /\ a \notin Upto(b)
    <3>1. (\A c \in S : c <= b => c <= a) /\ a <= a
      BY <2>1
    <3>2. a \in Upto(a) /\ a \notin Upto(b)
      BY <3>1
    <3>3. Upto(b) \subseteq Upto(a)
      BY <3>1
    <3> QED BY <3>2, <3>3
  <2>3. <<Upto(b), Upto(a)>> \in R
    <3>1. \A x, y \in SUBSET S : x \subseteq y /\ x # y => <<x, y>> \in R
      BY DEF StrictSubsetOrdering
    <3>2. Upto(b) \in SUBSET S /\ Upto(a) \in SUBSET S /\ Upto(b) # Upto(a)
      BY <2>2
    <3> HIDE DEF Upto, R
    <3> QED BY <2>2, <3>1, <3>2
  <2> QED BY <1>5, <2>3
<1> QED BY <1>6 DEF First

-----------------------------------------------------------------------------
(* Type correctness and the slots of the semaphore.                        *)

\* The actors whose worker holds a slot.
Calling == {a \in Actors : worker[a] = "call"}

LEMMA CallingType ==
    /\ IsFiniteSet(Calling) /\ Cardinality(Calling) \in Nat
    /\ Calling # {} => Cardinality(Calling) # 0
<1>1. Calling \in SUBSET Actors
  BY DEF Calling
<1>2. IsFiniteSet(Calling)
  BY <1>1, ActorsFinite, FS_Subset
<1> QED BY <1>2, FS_CardinalityType, FS_EmptySet

LEMMA SlotsFree == SlotsConserved <=> slots + Cardinality(Calling) = Slots
BY DEF SlotsConserved, Calling

LEMMA SlotsFreeNext == SlotsConserved' <=> slots' + Cardinality(Calling') = Slots
BY DEF SlotsConserved, Calling

SlotsInv == TypeOK /\ SlotsConserved

\* An actor that is not spawned yet has no worker, no reap task and nothing to be
\* told of.
FreshInv ==
    \A a \in Actors : owner[a] = NoThread =>
        worker[a] = "none" /\ reap[a] = "none" /\ cancel[a] = FALSE

\* A step of worker a that neither begins nor ends a call.
LEMMA SlotsQuiet ==
    ASSUME SlotsInv, slots' = slots,
           \A a \in Actors : worker'[a] = "call" <=> worker[a] = "call"
    PROVE  SlotsConserved'
<1>1. Calling' = Calling
  BY DEF Calling
<1> QED BY <1>1, SlotsFree, SlotsFreeNext DEF SlotsInv

LEMMA SlotsTaken ==
    ASSUME SlotsInv, NEW a \in Actors, worker[a] # "call", slots' = slots - 1,
           worker' = [worker EXCEPT ![a] = "call"]
    PROVE  SlotsConserved'
<1>1. Calling' = Calling \cup {a}
  BY DEF Calling, SlotsInv, TypeOK
<1>2. Cardinality(Calling') = Cardinality(Calling) + 1
  BY <1>1, CallingType, FS_AddElement DEF Calling
<1>3. slots \in Nat /\ Slots \in Nat
  BY Bounds DEF SlotsInv, TypeOK
<1> QED BY <1>2, <1>3, CallingType, SlotsFree, SlotsFreeNext DEF SlotsInv

LEMMA SlotsGiven ==
    ASSUME SlotsInv, NEW a \in Actors, worker[a] = "call", slots' = slots + 1,
           NEW x, x # "call", worker' = [worker EXCEPT ![a] = x]
    PROVE  SlotsConserved' /\ slots' \in 0 .. Slots
<1>1. Calling' = Calling \ {a} /\ a \in Calling
  BY DEF Calling, SlotsInv, TypeOK
<1>2. Cardinality(Calling') = Cardinality(Calling) - 1
  BY <1>1, CallingType, FS_RemoveElement
<1>3. slots \in Nat /\ Slots \in Nat /\ Cardinality(Calling) \in Nat \ {0}
  BY <1>1, Bounds, CallingType DEF SlotsInv, TypeOK
<1> QED BY <1>2, <1>3, SlotsFree, SlotsFreeNext DEF SlotsInv

LEMMA CancelledType ==
    ASSUME TypeOK, NEW a
    PROVE  Cancelled(a) \in [Actors -> BOOLEAN] /\ AfterDrain(a) \in StopStages
BY DEF TypeOK, Cancelled, AfterDrain, StopStages

LEMMA RoundType ==
    ASSUME TypeOK, NEW S \in SUBSET Actors, ShutdownRound(S)
    PROVE  /\ todo' = S /\ closing' \in StopStages
           /\ actors' \in [Threads -> Actors \cup {NoActor}]
           /\ cancel' \in [Actors -> BOOLEAN]
           /\ closing' \in {"draining", "stopping"} => S # {}
BY CancelledType DEF TypeOK, ShutdownRound, StopStages

LEMMA TypeInit == Init => SlotsInv
<1> SUFFICES ASSUME Init PROVE SlotsInv
  OBVIOUS
<1>1. TypeOK
  BY Bounds DEF Init, TypeOK, StopStages
<1>2. Calling = {}
  BY DEF Init, Calling
<1> QED BY <1>1, <1>2, SlotsFree, FS_EmptySet, Bounds DEF Init, SlotsInv

\* Messages and the participants' comings and goings.
LEMMA TypeRouting ==
    ASSUME SlotsInv, FreshInv,
           \/ \E t \in Threads : OnMessage(t)
           \/ \E p \in Persons : \/ OnParticipantLeft(p) \/ OnParticipantJoined(p)
                                 \/ FireTimer(p)
    PROVE  SlotsInv'
<1> USE Groups, Bounds
<1>1. ASSUME NEW t \in Threads, OnMessage(t), Reuse(t) PROVE SlotsInv'
  <2>1. actors[t] \in Actors
    BY <1>1 DEF Reuse, SlotsInv, TypeOK
  <2>2. /\ queue' \in [Actors -> 0 .. QueueDepth] /\ accepted' \in 0 .. MaxMessages
        /\ idle' \in [Actors -> BOOLEAN]
    BY <1>1, <2>1 DEF Reuse, Accepts, SlotsInv, TypeOK
  <2>3. timers' \in [Threads -> {"none", "armed", "fired"}]
    BY <1>1 DEF Reuse, SlotsInv, TypeOK
  <2>4. /\ UNCHANGED <<actors, orphans, reapsDue, owner, worker, cancel, reap, slots,
                       closing, todo, known>>
        /\ away' \subseteq Persons
    BY <1>1 DEF Reuse, OnMessage, SlotsInv, TypeOK
  <2>5. TypeOK'
    BY <2>2, <2>3, <2>4 DEF SlotsInv, TypeOK
  <2> QED BY <2>4, <2>5, SlotsQuiet DEF SlotsInv
<1>2. ASSUME NEW t \in Threads, OnMessage(t), Spawn(t) PROVE SlotsInv'
  <2>1. PICK a \in Actors :
             /\ owner[a] = NoThread
             /\ owner' = [owner EXCEPT ![a] = t]
             /\ actors' = [actors EXCEPT ![t] = a]
             /\ worker' = [worker EXCEPT ![a] = "get"]
             /\ queue' = [queue EXCEPT ![a] = 1]
             /\ accepted' = accepted + 1
    BY <1>2 DEF Spawn
  <2>2. /\ UNCHANGED <<timers, orphans, reapsDue, idle, cancel, reap, slots, closing,
                       todo, known>>
        /\ away' \subseteq Persons
    BY <1>2 DEF Spawn, OnMessage, SlotsInv, TypeOK
  <2>3. accepted' \in 0 .. MaxMessages
    BY <1>2, <2>1 DEF Spawn, SlotsInv, TypeOK
  <2>4. TypeOK'
    BY <2>1, <2>2, <2>3 DEF SlotsInv, TypeOK, Alive
  <2>5. \A b \in Actors : worker'[b] = "call" <=> worker[b] = "call"
    BY <2>1 DEF FreshInv, SlotsInv, TypeOK
  <2> QED BY <2>2, <2>4, <2>5, SlotsQuiet DEF SlotsInv
<1>3. ASSUME NEW p \in Persons,
             OnParticipantLeft(p) \/ OnParticipantJoined(p) \/ FireTimer(p)
      PROVE  SlotsInv'
  <2> p \in Threads
    BY DEF Threads
  <2>1. CASE OnParticipantLeft(p)
    <3>1. /\ idle' \in [Actors -> BOOLEAN] /\ away' \subseteq Persons
          /\ timers' \in [Threads -> {"none", "armed", "fired"}]
      <4>1. away' \subseteq Persons
        BY <2>1 DEF OnParticipantLeft, SlotsInv, TypeOK
      <4>2. CASE actors[p] # NoActor
        BY <2>1, <4>1, <4>2 DEF OnParticipantLeft, SlotsInv, TypeOK
      <4>3. CASE UNCHANGED <<idle, timers>>
        BY <4>1, <4>3 DEF SlotsInv, TypeOK
      <4> QED BY <2>1, <4>2, <4>3 DEF OnParticipantLeft
    <3>2. UNCHANGED <<actors, orphans, reapsDue, owner, accepted, queue, worker, cancel, reap,
                      slots, closing, todo, known>>
      BY <2>1 DEF OnParticipantLeft
    <3>3. TypeOK'
      BY <3>1, <3>2 DEF SlotsInv, TypeOK
    <3> QED BY <3>2, <3>3, SlotsQuiet DEF SlotsInv
  <2>2. CASE OnParticipantJoined(p)
    <3>1. TypeOK'
      BY <2>2 DEF OnParticipantJoined, SlotsInv, TypeOK
    <3> QED BY <2>2, <3>1, SlotsQuiet DEF OnParticipantJoined, SlotsInv
  <2>3. CASE FireTimer(p)
    <3>1. /\ orphans' \in [Threads -> Nat] /\ reapsDue' \in [Threads -> Nat]
          /\ timers' \in [Threads -> {"none", "armed", "fired"}]
      <4>1. CASE orphans[p] > 0 /\ orphans' = [orphans EXCEPT ![p] = @ - 1] /\ UNCHANGED timers
        BY <2>3, <4>1 DEF FireTimer, SlotsInv, TypeOK
      <4>2. CASE timers' = [timers EXCEPT ![p] = "fired"] /\ UNCHANGED orphans
        BY <2>3, <4>2 DEF FireTimer, SlotsInv, TypeOK
      <4> QED BY <2>3, <4>1, <4>2 DEF FireTimer
    <3>2. UNCHANGED <<away, actors, owner, accepted, queue, idle, worker, cancel, reap,
                      slots, closing, todo, known>>
      BY <2>3 DEF FireTimer
    <3>3. TypeOK'
      BY <3>1, <3>2 DEF SlotsInv, TypeOK
    <3> QED BY <3>2, <3>3, SlotsQuiet DEF SlotsInv
  <2> QED BY <1>3, <2>1, <2>2, <2>3
<1> QED BY <1>1, <1>2, <1>3 DEF OnMessage

\* Draining and shutting down.
LEMMA TypeStopping ==
    ASSUME SlotsInv,
           \/ \E p \in Persons : RunReap(p)
           \/ \E a \in Actors : Reaper(a)
           \/ Closer
    PROVE  SlotsInv'
<1> USE Groups, Bounds
<1>1. ASSUME NEW p \in Persons, RunReap(p) PROVE SlotsInv'
  <2>1. p \in Threads
    BY DEF Threads
  <2>2. /\ reapsDue' \in [Threads -> Nat] /\ orphans' \in [Threads -> Nat]
        /\ timers' \in [Threads -> {"none", "armed", "fired"}]
        /\ actors' \in [Threads -> Actors \cup {NoActor}]
    BY <1>1, <2>1 DEF RunReap, PopActor, PopTimer, SlotsInv, TypeOK
  <2>3. reap' \in [Actors -> StopStages] /\ cancel' \in [Actors -> BOOLEAN]
    BY <1>1, CancelledType DEF RunReap, SlotsInv, TypeOK, StopStages
  <2>4. UNCHANGED <<away, owner, accepted, queue, idle, worker, slots, closing, todo, known>>
    BY <1>1 DEF RunReap
  <2>5. TypeOK'
    BY <2>2, <2>3, <2>4 DEF SlotsInv, TypeOK
  <2> QED BY <2>4, <2>5, SlotsQuiet DEF SlotsInv
<1>2. ASSUME NEW a \in Actors, Reaper(a) PROVE SlotsInv'
  <2>1. reap' \in [Actors -> StopStages] /\ cancel' \in [Actors -> BOOLEAN]
    BY <1>2, CancelledType DEF Reaper, EndReapDrain, EndReap, SlotsInv, TypeOK, StopStages
  <2>2. UNCHANGED <<away, actors, timers, orphans, reapsDue, owner, accepted, queue, idle,
                    worker, slots, closing, todo, known>>
    BY <1>2 DEF Reaper, EndReapDrain, EndReap
  <2>3. TypeOK'
    BY <2>1, <2>2 DEF SlotsInv, TypeOK
  <2> QED BY <2>2, <2>3, SlotsQuiet DEF SlotsInv
<1>3. CASE Closer
  <2>1. /\ UNCHANGED <<away, orphans, reapsDue, owner, accepted, queue, idle, worker, reap,
                       slots>>
        /\ timers' \in [Threads -> {"none", "armed", "fired"}]
    BY <1>3 DEF Closer, Shutdown, EndShutdownDrain, NextActor, SlotsInv, TypeOK
  <2>2. /\ actors' \in [Threads -> Actors \cup {NoActor}] /\ closing' \in StopStages
        /\ cancel' \in [Actors -> BOOLEAN] /\ todo' \in SUBSET Actors /\ known' \subseteq Actors
    <3>1. CASE Shutdown
      <4>1. {actors[t] : t \in Threads} \ {NoActor} \in SUBSET Actors
        BY DEF SlotsInv, TypeOK
      <4> QED BY <3>1, <4>1, RoundType DEF Shutdown, SlotsInv
    <3>2. CASE NextActor
      <4>1. todo \ {First(todo)} \in SUBSET Actors
        BY DEF SlotsInv, TypeOK
      <4> QED BY <3>2, <4>1, RoundType DEF NextActor, SlotsInv, TypeOK
    <3>3. CASE EndShutdownDrain
      BY <3>3, CancelledType DEF EndShutdownDrain, SlotsInv, TypeOK, StopStages
    <3> QED BY <1>3, <3>1, <3>2, <3>3 DEF Closer
  <2>3. TypeOK'
    BY <2>1, <2>2 DEF SlotsInv, TypeOK
  <2> QED BY <2>1, <2>3, SlotsQuiet DEF SlotsInv
<1> QED BY <1>1, <1>2, <1>3

\* The workers: calls that begin take a slot, calls that end give it back.
LEMMA TypeWorker ==
    ASSUME SlotsInv, NEW a \in Actors, Worker(a)
    PROVE  SlotsInv'
<1> USE Groups, Bounds
<1>1. /\ UNCHANGED <<away, actors, timers, orphans, reapsDue, owner, accepted, reap, closing,
                     todo, known>>
      /\ idle' \in [Actors -> BOOLEAN] /\ cancel' \in [Actors -> BOOLEAN]
      /\ worker' \in [Actors -> Alive \cup {"none", "dead"}]
      /\ queue' \in [Actors -> 0 .. QueueDepth]
  <2>1. CASE Take(a) \/ Finish(a)
    <3>1. \/ TakeNext(a)
          \/ /\ UNCHANGED queue /\ idle' = [idle EXCEPT ![a] = TRUE]
             /\ worker' = [worker EXCEPT ![a] = "get"]
      BY <2>1 DEF Take, Finish
    <3>2. /\ idle' \in [Actors -> BOOLEAN] /\ queue' \in [Actors -> 0 .. QueueDepth]
          /\ worker' \in [Actors -> Alive \cup {"none", "dead"}]
      <4>1. CASE TakeNext(a)
        <5>1. queue[a] - 1 \in 0 .. QueueDepth
          BY <4>1 DEF TakeNext, SlotsInv, TypeOK
        <5> QED BY <4>1, <5>1 DEF TakeNext, SlotsInv, TypeOK, Alive
      <4>2. CASE /\ UNCHANGED queue /\ idle' = [idle EXCEPT ![a] = TRUE]
                 /\ worker' = [worker EXCEPT ![a] = "get"]
        BY <4>2 DEF SlotsInv, TypeOK, Alive
      <4> QED BY <3>1, <4>1, <4>2
    <3> QED BY <2>1, <3>2 DEF Take, Finish, SlotsInv, TypeOK
  <2>2. CASE Acquire(a) \/ FailEarly(a) \/ Release(a) \/ Crash(a)
    BY <2>2 DEF Acquire, FailEarly, Release, Crash, SlotsInv, TypeOK, Alive
  <2>3. CASE EndCancelled(a) \/ IgnoreCancel(a)
    BY <2>3 DEF EndCancelled, IgnoreCancel, SlotsInv, TypeOK
  <2> QED BY <2>1, <2>2, <2>3 DEF Worker
<1>2. slots' \in 0 .. Slots => TypeOK'
  BY <1>1 DEF SlotsInv, TypeOK
<1>3. slots \in 0 .. Slots
  BY DEF SlotsInv, TypeOK
<1>4. CASE Take(a) \/ FailEarly(a) \/ Finish(a) \/ Crash(a) \/ IgnoreCancel(a)
  <2>1. slots' = slots /\ \A b \in Actors : worker'[b] = "call" <=> worker[b] = "call"
    BY <1>4 DEF Take, TakeNext, FailEarly, Finish, Crash, IgnoreCancel, SlotsInv, TypeOK
  <2> QED BY <1>2, <1>3, <2>1, SlotsQuiet DEF SlotsInv
<1>5. CASE Acquire(a)
  <2>1. slots' \in 0 .. Slots
    BY <1>3, <1>5 DEF Acquire
  <2> QED BY <1>2, <1>5, <2>1, SlotsTaken DEF Acquire, SlotsInv
<1>6. CASE Release(a)
  BY <1>2, <1>6, SlotsGiven DEF Release, SlotsInv
<1>7. CASE EndCancelled(a)
  <2>1. CASE worker[a] = "call"
    BY <1>2, <1>7, <2>1, SlotsGiven DEF EndCancelled, SlotsAfterCancel, SlotsInv
  <2>2. CASE worker[a] # "call"
    <3>1. slots' = slots /\ \A b \in Actors : worker'[b] = "call" <=> worker[b] = "call"
      BY <1>7, <2>2 DEF EndCancelled, SlotsAfterCancel, SlotsInv, TypeOK
    <3> QED BY <1>2, <1>3, <3>1, SlotsQuiet DEF SlotsInv
  <2> QED BY <2>1, <2>2
<1> QED BY <1>4, <1>5, <1>6, <1>7 DEF Worker

LEMMA TypeStep == SlotsInv /\ FreshInv /\ [Next]_vars => SlotsInv'
<1> SUFFICES ASSUME SlotsInv, FreshInv, [Next]_vars PROVE SlotsInv'
  OBVIOUS
<1>1. CASE UNCHANGED vars
  BY <1>1, Groups, SlotsQuiet DEF vars, SlotsInv, TypeOK
<1> QED BY <1>1, TypeRouting, TypeStopping, TypeWorker DEF Next

-----------------------------------------------------------------------------
(* The pool, the timers and the workers agree.                             *)

\* What shutdown still has to stop was spawned, and is not nothing.
TodoInv ==
    /\ closing \in {"draining", "stopping"} => todo # {}
    /\ \A a \in todo : owner[a] # NoThread

\* PoolConsistent but for the cancellations.
Routed ==
    \A t \in Threads : actors[t] # NoActor =>
        owner[actors[t]] = t /\ reap[actors[t]] = "none"

OwnInv == FreshInv /\ TodoInv /\ Routed /\ TimersMatchActors /\ NoStrayWorker

PoolInv == SlotsInv /\ OwnInv

\* The first actor that shutdown still has to stop was spawned.
LEMMA FirstSpawned ==
    ASSUME PoolInv, closing \in {"draining", "stopping"}
    PROVE  First(todo) \in todo /\ First(todo) \in Actors /\ owner[First(todo)] # NoThread
BY FirstIn DEF PoolInv, SlotsInv, TypeOK, OwnInv, TodoInv

\* A step that moves no actor, no worker and no timer.
LEMMA OwnQuiet ==
    ASSUME PoolInv,
           UNCHANGED <<actors, owner, reap, closing, todo>>,
           \A p \in Persons : timers'[p] # "none" => timers[p] # "none" \/ actors[p] # NoActor,
           \A a \in Actors : /\ worker[a] = "none" => worker'[a] = "none"
                             /\ worker'[a] \in Alive => worker[a] \in Alive
                             /\ cancel'[a] # FALSE => owner[a] # NoThread \/ cancel[a] # FALSE
    PROVE  OwnInv'
BY DEF PoolInv, OwnInv, FreshInv, TodoInv, Routed, TimersMatchActors, NoStrayWorker

LEMMA OwnRouting ==
    ASSUME PoolInv,
           \/ \E t \in Threads : OnMessage(t)
           \/ \E p \in Persons : \/ OnParticipantLeft(p) \/ OnParticipantJoined(p)
                                 \/ FireTimer(p)
    PROVE  OwnInv'
<1> USE Groups, Bounds
<1>0. Persons \subseteq Threads /\ timers \in [Threads -> {"none", "armed", "fired"}]
  BY DEF Threads, PoolInv, SlotsInv, TypeOK
<1>1. ASSUME NEW t \in Threads, OnMessage(t), Reuse(t) PROVE OwnInv'
  <2>1. UNCHANGED <<actors, owner, reap, closing, todo, worker, cancel>>
    BY <1>1 DEF Reuse, OnMessage
  <2>2. \A p \in Persons : timers'[p] # "none" => timers[p] # "none"
    BY <1>0, <1>1 DEF Reuse
  <2> QED BY <2>1, <2>2, OwnQuiet
<1>2. ASSUME NEW t \in Threads, OnMessage(t), Spawn(t) PROVE OwnInv'
  <2>1. PICK a \in Actors :
             /\ owner[a] = NoThread
             /\ owner' = [owner EXCEPT ![a] = t]
             /\ actors' = [actors EXCEPT ![t] = a]
             /\ worker' = [worker EXCEPT ![a] = "get"]
    BY <1>2 DEF Spawn
  <2>2. UNCHANGED <<timers, cancel, reap, closing, todo, known>> /\ actors[t] = NoActor
    BY <1>2 DEF Spawn, OnMessage
  <2>3. /\ actors'[t] = a /\ \A u \in Threads : u # t => actors'[u] = actors[u]
        /\ owner'[a] = t /\ worker'[a] = "get"
        /\ \A b \in Actors : b # a => owner'[b] = owner[b] /\ worker'[b] = worker[b]
    BY <2>1 DEF PoolInv, SlotsInv, TypeOK
  <2>4. \A u \in Threads : actors[u] # NoActor => actors[u] \in Actors /\ actors[u] # a
    BY <2>1 DEF PoolInv, SlotsInv, TypeOK, OwnInv, Routed
  <2>5. FreshInv'
    BY <2>2, <2>3 DEF PoolInv, OwnInv, FreshInv
  <2>6. TodoInv'
    <3>1. \A b \in todo : b \in Actors /\ owner[b] # NoThread
      BY DEF PoolInv, SlotsInv, TypeOK, OwnInv, TodoInv
    <3> QED BY <2>2, <2>3, <3>1 DEF PoolInv, OwnInv, TodoInv
  <2>7. Routed'
    <3>1. reap[a] = "none"
      BY <2>1 DEF PoolInv, OwnInv, FreshInv
    <3> SUFFICES ASSUME NEW u \in Threads, actors'[u] # NoActor
                 PROVE  owner'[actors'[u]] = u /\ reap[actors'[u]] = "none"
      BY <2>2 DEF Routed
    <3>2. CASE u = t
      BY <2>3, <3>1, <3>2
    <3>3. CASE u # t
      <4>1. actors[u] \in Actors /\ actors[u] # a /\ actors'[u] = actors[u]
        BY <2>3, <2>4, <3>3
      <4>2. owner[actors[u]] = u /\ reap[actors[u]] = "none"
        BY <4>1 DEF PoolInv, OwnInv, Routed
      <4> QED BY <2>3, <4>1, <4>2
    <3> QED BY <3>2, <3>3
  <2>8. TimersMatchActors'
    BY <1>0, <2>2, <2>3 DEF PoolInv, OwnInv, TimersMatchActors
  <2>9. NoStrayWorker'
    <3> SUFFICES ASSUME NEW b \in Actors, worker'[b] \in Alive, closing' = "none"
                 PROVE  actors'[owner'[b]] = b \/ reap'[b] \in {"draining", "stopping"}
      BY DEF NoStrayWorker
    <3>1. CASE b = a
      BY <2>3, <3>1
    <3>2. CASE b # a
      <4>1. actors[owner[b]] = b \/ reap[b] \in {"draining", "stopping"}
        BY <2>2, <2>3, <3>2 DEF PoolInv, OwnInv, NoStrayWorker
      <4>2. owner[b] \in Threads
        BY <2>3, <3>2 DEF PoolInv, SlotsInv, TypeOK, OwnInv, FreshInv, Alive
      <4> QED BY <2>2, <2>3, <3>2, <4>1, <4>2
    <3> QED BY <3>1, <3>2
  <2> QED BY <2>5, <2>6, <2>7, <2>8, <2>9 DEF OwnInv
<1>3. ASSUME NEW p \in Persons,
             OnParticipantLeft(p) \/ OnParticipantJoined(p) \/ FireTimer(p)
      PROVE  OwnInv'
  <2>1. UNCHANGED <<actors, owner, reap, closing, todo, worker, cancel>>
    BY <1>3 DEF OnParticipantLeft, OnParticipantJoined, FireTimer
  <2>2. \A q \in Persons : timers'[q] # "none" => timers[q] # "none" \/ actors[q] # NoActor
    BY <1>0, <1>3 DEF OnParticipantLeft, OnParticipantJoined, FireTimer
  <2> QED BY <2>1, <2>2, OwnQuiet
<1> QED BY <1>1, <1>2, <1>3 DEF OnMessage

LEMMA OwnWorker ==
    ASSUME PoolInv, NEW a \in Actors, Worker(a)
    PROVE  OwnInv'
<1> USE Groups
<1>1. UNCHANGED <<actors, owner, reap, closing, todo, timers>>
  BY DEF Worker, Take, Acquire, FailEarly, Release, Finish, Crash, EndCancelled, IgnoreCancel
<1>2. worker[a] \in Alive \/ cancel[a]
  BY DEF Worker, Take, Acquire, FailEarly, Release, Finish, Crash, EndCancelled,
         IgnoreCancel, Alive
<1>3. owner[a] # NoThread
  BY <1>2 DEF PoolInv, OwnInv, FreshInv, Alive
<1>4. /\ \A b \in Actors : b # a => worker'[b] = worker[b] /\ cancel'[b] = cancel[b]
      /\ worker'[a] \in Alive => worker[a] \in Alive
      /\ worker'[a] # "none" 
  BY <1>2 DEF Worker, Take, TakeNext, Acquire, FailEarly, Release, Finish, Crash, EndCancelled,
              IgnoreCancel, Alive, PoolInv, SlotsInv, TypeOK
<1>5. OwnInv'
  BY <1>1, <1>3, <1>4
     DEF PoolInv, OwnInv, FreshInv, TodoInv, Routed, TimersMatchActors, NoStrayWorker
<1> QED BY <1>5

LEMMA OwnReaping ==
    ASSUME PoolInv, \/ \E p \in Persons : RunReap(p)
                    \/ \E a \in Actors : Reaper(a)
    PROVE  OwnInv'
<1> USE Groups, Bounds
<1>1. ASSUME NEW p \in Persons, RunReap(p) PROVE OwnInv'
  <2> DEFINE a == actors[p]
  <2>1. /\ UNCHANGED <<owner, worker, closing, todo, known>> /\ p \in Threads
        /\ actors'[p] = NoActor /\ timers'[p] = "none"
        /\ \A u \in Threads : u # p => actors'[u] = actors[u] /\ timers'[u] = timers[u]
    BY <1>1 DEF RunReap, PopActor, PopTimer, Threads, PoolInv, SlotsInv, TypeOK
  <2>2. TimersMatchActors'
    BY <2>1 DEF PoolInv, OwnInv, TimersMatchActors, Threads
  <2>3. CASE a = NoActor
    <3>1. UNCHANGED <<reap, cancel>> /\ actors' = actors
      BY <1>1, <2>3 DEF RunReap, PopActor, PoolInv, SlotsInv, TypeOK
    <3> QED BY <2>1, <2>2, <3>1
            DEF PoolInv, OwnInv, FreshInv, TodoInv, Routed, NoStrayWorker
  <2>4. CASE a # NoActor
    <3>1. a \in Actors /\ owner[a] = p
      BY <2>1, <2>4 DEF PoolInv, SlotsInv, TypeOK, OwnInv, Routed
    <3>2. /\ worker[a] # "dead" => reap'[a] \in {"draining", "stopping"}
          /\ \A b \in Actors : b # a => reap'[b] = reap[b] /\ cancel'[b] = cancel[b]
      BY <1>1, <2>4, <3>1 DEF RunReap, AfterDrain, Cancelled, PoolInv, SlotsInv, TypeOK
    <3>3. FreshInv'
      <4>1. owner[a] # NoThread
        BY <2>1, <3>1
      <4> HIDE DEF a
      <4> QED BY <2>1, <3>2, <4>1 DEF PoolInv, OwnInv, FreshInv
    <3>4. TodoInv'
      BY <2>1 DEF PoolInv, OwnInv, TodoInv
    <3>5. Routed'
      <4> SUFFICES ASSUME NEW u \in Threads, actors'[u] # NoActor
                   PROVE  owner[actors'[u]] = u /\ reap'[actors'[u]] = "none"
        BY <2>1 DEF Routed
      <4>1. u # p /\ actors'[u] = actors[u] /\ actors[u] \in Actors
        BY <2>1 DEF PoolInv, SlotsInv, TypeOK
      <4>2. owner[actors[u]] = u /\ reap[actors[u]] = "none"
        BY <4>1 DEF PoolInv, OwnInv, Routed
      <4> QED BY <3>1, <3>2, <4>1, <4>2
    <3>6. NoStrayWorker'
      <4> SUFFICES ASSUME NEW b \in Actors, worker[b] \in Alive, closing = "none"
                   PROVE  actors'[owner[b]] = b \/ reap'[b] \in {"draining", "stopping"}
        BY <2>1 DEF NoStrayWorker
      <4>1. CASE b = a
        BY <3>2, <4>1 DEF Alive
      <4>2. CASE b # a
        <5>1. actors[owner[b]] = b \/ reap[b] \in {"draining", "stopping"}
          BY DEF PoolInv, OwnInv, NoStrayWorker
        <5>2. owner[b] \in Threads
          BY DEF PoolInv, SlotsInv, TypeOK, OwnInv, FreshInv, Alive
        <5> QED BY <2>1, <3>2, <4>2, <5>1, <5>2
      <4> QED BY <4>1, <4>2
    <3> QED BY <2>2, <3>3, <3>4, <3>5, <3>6 DEF OwnInv
  <2> QED BY <2>3, <2>4
<1>2. ASSUME NEW a \in Actors, Reaper(a) PROVE OwnInv'
  <2>1. /\ UNCHANGED <<actors, owner, timers, worker, closing, todo, known>>
        /\ reap[a] # "none"
    BY <1>2 DEF Reaper, EndReapDrain, EndReap
  <2>2. /\ worker[a] # "dead" => reap'[a] \in {"draining", "stopping"}
        /\ \A b \in Actors : b # a => reap'[b] = reap[b] /\ cancel'[b] = cancel[b]
    BY <1>2 DEF Reaper, EndReapDrain, EndReap, AfterDrain, Cancelled, PoolInv, SlotsInv, TypeOK
  <2>3. owner[a] # NoThread
    BY <2>1 DEF PoolInv, OwnInv, FreshInv
  <2>4. FreshInv' /\ TodoInv' /\ TimersMatchActors'
    BY <2>1, <2>2, <2>3 DEF PoolInv, OwnInv, FreshInv, TodoInv, TimersMatchActors
  <2>5. Routed'
    <3>1. \A u \in Threads : actors[u] # NoActor => actors[u] \in Actors /\ actors[u] # a
      BY <2>1 DEF PoolInv, SlotsInv, TypeOK, OwnInv, Routed
    <3> QED BY <2>1, <2>2, <3>1 DEF PoolInv, OwnInv, Routed
  <2>6. NoStrayWorker'
    BY <2>1, <2>2 DEF PoolInv, OwnInv, NoStrayWorker, Alive
  <2> QED BY <2>4, <2>5, <2>6 DEF OwnInv
<1> QED BY <1>1, <1>2

LEMMA OwnClosing == PoolInv /\ Closer => OwnInv'
<1> SUFFICES ASSUME PoolInv, Closer PROVE OwnInv'
  OBVIOUS
<1> USE Groups, Bounds
<1>1. ASSUME NEW S \in SUBSET Actors, ShutdownRound(S), \A a \in S : owner[a] # NoThread,
             UNCHANGED <<owner, worker, reap>>
      PROVE  OwnInv'
  <2>1. todo' = S /\ (closing' \in {"draining", "stopping"} => S # {}) /\ closing' # "none"
    BY <1>1, RoundType DEF PoolInv, SlotsInv, ShutdownRound
  <2>2. \A a \in Actors : owner[a] = NoThread => cancel'[a] = cancel[a]
    BY <1>1, FirstIn DEF ShutdownRound, Cancelled, PoolInv, SlotsInv, TypeOK
  <2>3. actors' = actors \/ actors' = [t \in Threads |-> NoActor]
    BY <1>1 DEF ShutdownRound
  <2>4. FreshInv' /\ TodoInv'
    BY <1>1, <2>1, <2>2 DEF PoolInv, OwnInv, FreshInv, TodoInv
  <2>5. Routed'
    BY <1>1, <2>3 DEF PoolInv, OwnInv, Routed
  <2> QED BY <2>1, <2>4, <2>5 DEF OwnInv, TimersMatchActors, NoStrayWorker
<1>2. CASE Shutdown
  <2> DEFINE S == {actors[t] : t \in Threads} \ {NoActor}
  <2>1. S \in SUBSET Actors
    BY DEF PoolInv, SlotsInv, TypeOK
  <2>2. \A a \in S : owner[a] # NoThread
    BY DEF PoolInv, OwnInv, Routed
  <2>3. ShutdownRound(S) /\ UNCHANGED <<owner, worker, reap>>
    BY <1>2 DEF Shutdown
  <2> HIDE DEF S
  <2> QED BY <1>1, <2>1, <2>2, <2>3
<1>3. CASE NextActor
  <2> DEFINE S == todo \ {First(todo)}
  <2>1. S \in SUBSET Actors /\ \A a \in S : owner[a] # NoThread
    BY DEF PoolInv, SlotsInv, TypeOK, OwnInv, TodoInv
  <2>2. ShutdownRound(S) /\ UNCHANGED <<owner, worker, reap>>
    BY <1>3 DEF NextActor
  <2> HIDE DEF S
  <2> QED BY <1>1, <2>1, <2>2
<1>4. CASE EndShutdownDrain
  <2>1. /\ UNCHANGED <<actors, owner, timers, worker, reap, todo>>
        /\ closing = "draining" /\ closing' = "stopping"
    BY <1>4 DEF EndShutdownDrain
  <2>2. \A a \in Actors : owner[a] = NoThread => cancel'[a] = cancel[a]
    BY <1>4, <2>1, FirstSpawned DEF EndShutdownDrain, Cancelled, PoolInv, SlotsInv, TypeOK
  <2> QED BY <2>1, <2>2
          DEF PoolInv, OwnInv, FreshInv, TodoInv, Routed, TimersMatchActors,
              NoStrayWorker
<1> QED BY <1>2, <1>3, <1>4 DEF Closer

LEMMA PoolStep == PoolInv /\ [Next]_vars => PoolInv'
<1> SUFFICES ASSUME PoolInv, [Next]_vars PROVE OwnInv'
  BY TypeStep DEF PoolInv, OwnInv
<1>1. CASE UNCHANGED vars
  BY <1>1, Groups, OwnQuiet DEF vars
<1> QED BY <1>1, OwnRouting, OwnReaping, OwnWorker, OwnClosing DEF Next

LEMMA PoolInit == Init => PoolInv
<1> SUFFICES ASSUME Init PROVE OwnInv
  BY TypeInit DEF PoolInv
<1> QED
  BY Bounds DEF Init, OwnInv, FreshInv, TodoInv, Routed, TimersMatchActors,
                NoStrayWorker, Alive, Threads

LEMMA PoolInvariant == Spec => []PoolInv
BY PoolInit, PoolStep, PTL DEF Spec

\* Every variable keeps its type.
THEOREM PoolTypeOK == Spec => []TypeOK
<1>1. PoolInv => TypeOK
  BY DEF PoolInv, SlotsInv
<1> QED BY <1>1, PoolInvariant, PTL

\* No slot of the global semaphore is ever lost or given back twice.
THEOREM PoolSlotsConserved == Spec => []SlotsConserved
<1>1. PoolInv => SlotsConserved
  BY DEF PoolInv, SlotsInv
<1> QED BY <1>1, PoolInvariant, PTL

\* Before shutdown only a reap task tells a worker to end.
ToldInv == \A a \in Actors : cancel[a] /\ closing = "none" => reap[a] # "none"

LEMMA ToldStep == PoolInv /\ ToldInv /\ [Next]_vars => ToldInv'
<1> SUFFICES ASSUME PoolInv, ToldInv, [Next]_vars,
                    NEW a \in Actors, cancel'[a], closing' = "none"
             PROVE  reap'[a] # "none"
  BY DEF ToldInv
<1> USE Groups
<1>1. cancel \in [Actors -> BOOLEAN] /\ reap \in [Actors -> StopStages]
  BY DEF PoolInv, SlotsInv, TypeOK
<1>2. ASSUME UNCHANGED <<cancel, reap, closing>> PROVE reap'[a] # "none"
  BY <1>2 DEF ToldInv
<1>3. ASSUME NEW t \in Threads, OnMessage(t) PROVE UNCHANGED <<cancel, reap, closing>>
  BY <1>3 DEF OnMessage
<1>4. ASSUME NEW p \in Persons,
             OnParticipantLeft(p) \/ OnParticipantJoined(p) \/ FireTimer(p)
      PROVE  UNCHANGED <<cancel, reap, closing>>
  BY <1>4 DEF OnParticipantLeft, OnParticipantJoined, FireTimer
<1>5. ASSUME NEW p \in Persons, RunReap(p) PROVE reap'[a] # "none"
  <2>1. closing = "none"
    BY <1>5 DEF RunReap
  <2>2. CASE UNCHANGED <<reap, cancel>>
    BY <2>1, <2>2 DEF ToldInv
  <2>3. CASE actors[p] # NoActor /\ reap' # reap
    <3>1. CASE a = actors[p]
      BY <1>1, <1>5, <2>3, <3>1 DEF RunReap, AfterDrain
    <3>2. CASE a # actors[p]
      BY <1>1, <1>5, <2>1, <3>2 DEF RunReap, Cancelled, ToldInv
    <3> QED BY <3>1, <3>2
  <2>4. CASE actors[p] # NoActor /\ reap' = reap
    <3>1. actors[p] \in Actors /\ reap[actors[p]] = "none"
      BY <2>4 DEF PoolInv, SlotsInv, TypeOK, OwnInv, Routed, Threads
    <3> QED BY <1>1, <1>5, <2>4, <3>1 DEF RunReap, AfterDrain
  <2> QED BY <1>5, <2>2, <2>3, <2>4 DEF RunReap
<1>6. ASSUME NEW b \in Actors, Worker(b) PROVE reap'[a] # "none"
  <2>1. UNCHANGED <<reap, closing>> /\ (cancel' = cancel \/ cancel' = [cancel EXCEPT ![b] = FALSE])
    BY <1>6 DEF Worker, Take, Acquire, FailEarly, Release, Finish, Crash, EndCancelled,
                IgnoreCancel
  <2> QED BY <1>1, <2>1 DEF ToldInv
<1>7. ASSUME NEW b \in Actors, Reaper(b) PROVE reap'[a] # "none"
  BY <1>1, <1>7 DEF Reaper, EndReapDrain, EndReap, AfterDrain, Cancelled, ToldInv
<1>8. ASSUME Closer PROVE FALSE
  BY <1>8 DEF Closer, Shutdown, EndShutdownDrain, NextActor, ShutdownRound
<1>9. CASE UNCHANGED vars
  BY <1>2, <1>9 DEF vars, actorVars
<1> QED BY <1>2, <1>3, <1>4, <1>5, <1>6, <1>7, <1>8, <1>9 DEF Next

\* No message is routed to an actor that a reap task is ending, nor, until shutdown
\* begins, to one whose worker has been told to end.
THEOREM PoolIsConsistent == Spec => []PoolConsistent
<1>1. Init => ToldInv
  BY DEF Init, ToldInv
<1>2. PoolInv /\ ToldInv => PoolConsistent
  <2> SUFFICES ASSUME PoolInv, ToldInv, NEW t \in Threads, actors[t] # NoActor
               PROVE  /\ owner[actors[t]] = t /\ reap[actors[t]] = "none"
                      /\ cancel[actors[t]] => closing # "none"
    BY DEF PoolConsistent
  <2> QED BY DEF PoolInv, SlotsInv, TypeOK, OwnInv, Routed, ToldInv
<1> QED BY <1>1, <1>2, ToldStep, PoolInvariant, PTL DEF Spec

\* No reap timer outlives the actor it was armed for in the pool's books.
THEOREM PoolTimersMatchActors == Spec => []TimersMatchActors
<1>1. PoolInv => TimersMatchActors
  BY DEF PoolInv, OwnInv
<1> QED BY <1>1, PoolInvariant, PTL

\* Until shutdown begins, every running worker is reachable or being ended.
THEOREM PoolNoStrayWorker == Spec => []NoStrayWorker
<1>1. PoolInv => NoStrayWorker
  BY DEF PoolInv, OwnInv
<1> QED BY <1>1, PoolInvariant, PTL
-----------------------------------------------------------------------------
(* Every actor of the pool is a ThreadWorker.                              *)

LEMMA WorkerInit == Init => \A a \in Actors : Thread(a)!Init
BY DEF Init, Spawned, Stage, Thread!Init
\* An actor the step does not touch.
LEMMA Untouched ==
    ASSUME NEW a \in Actors, owner'[a] = owner[a], queue'[a] = queue[a], idle'[a] = idle[a],
           worker'[a] = worker[a], cancel'[a] = cancel[a]
    PROVE  UNCHANGED Thread(a)!vars
BY DEF Spawned, Stage, Thread!vars

\* An actor that only has its idle marker set or cleared.
LEMMA Marked ==
    ASSUME NEW a \in Actors, owner'[a] = owner[a], queue'[a] = queue[a],
           idle'[a] \in BOOLEAN, worker'[a] = worker[a], cancel'[a] = cancel[a]
    PROVE  Thread(a)!Next
<1>1. Thread(a)!Mark
  BY DEF Spawned, Stage, Thread!Mark
<1> QED BY <1>1 DEF Thread!Next

\* A drained actor is told to end, unless its worker has.
LEMMA Stopped ==
    ASSUME PoolInv, NEW a \in Actors, owner[a] # NoThread, owner'[a] = owner[a],
           queue'[a] = queue[a], idle'[a] = idle[a], worker'[a] = worker[a],
           cancel'[a] = (worker[a] # "dead")
    PROVE  [Thread(a)!Next]_(Thread(a)!vars)
<1>1. cancel[a] \in BOOLEAN /\ worker[a] \in Alive \cup {"none", "dead"}
  BY DEF PoolInv, SlotsInv, TypeOK
<1>2. CASE worker[a] = "dead"
  <2>1. Stage(a) = "dead" /\ Stage(a)' = "dead" /\ cancel'[a] = FALSE
    BY <1>2 DEF Stage, Spawned
  <2>2. CASE cancel[a] = FALSE
    BY <1>2, <2>1, <2>2, Untouched
  <2>3. CASE cancel[a] = TRUE
    <3>1. Thread(a)!EndCancelled
      BY <2>1, <2>3 DEF Thread!EndCancelled, Spawned
    <3> QED BY <3>1 DEF Thread!Next
  <2> QED BY <1>1, <2>2, <2>3
<1>3. CASE worker[a] # "dead"
  <2>1. Stage(a) # "dead" /\ Stage(a)' = Stage(a) /\ cancel'[a] = TRUE
    BY <1>3 DEF Stage, Spawned
  <2>2. Thread(a)!Cancel
    BY <2>1 DEF Thread!Cancel, Spawned
  <2> QED BY <2>2 DEF Thread!Next
<1> QED BY <1>2, <1>3

\* One round of shutdown touches no actor but the first of those it has left.
LEMMA RoundWorks ==
    ASSUME PoolInv, NEW S \in SUBSET Actors, \A b \in S : owner[b] # NoThread,
           ShutdownRound(S), UNCHANGED <<owner, queue, idle, worker>>,
           NEW a \in Actors
    PROVE  [Thread(a)!Next]_(Thread(a)!vars)
<1>1. CASE cancel' = cancel
  BY <1>1, Untouched
<1>2. CASE S # {} /\ cancel' = Cancelled(First(S))
  <2>1. First(S) \in S
    BY <1>2, FirstIn
  <2>2. CASE a = First(S)
    BY <1>2, <2>1, <2>2, Stopped DEF Cancelled, PoolInv, SlotsInv, TypeOK
  <2>3. CASE a # First(S)
    BY <1>2, <2>3, Untouched DEF Cancelled, PoolInv, SlotsInv, TypeOK
  <2> QED BY <2>2, <2>3
<1> QED BY <1>1, <1>2 DEF ShutdownRound

\* What the worker of a spawned actor does is what a ThreadWorker does.
LEMMA WorkerWorks ==
    ASSUME PoolInv, NEW a \in Actors, Worker(a)
    PROVE  [Thread(a)!Next]_(Thread(a)!vars)
<1>1. worker[a] \in Alive \/ cancel[a]
  BY DEF Worker, Take, Acquire, FailEarly, Release, Finish, Crash, EndCancelled,
         IgnoreCancel, Alive
<1>2. owner[a] # NoThread
  BY <1>1 DEF PoolInv, OwnInv, FreshInv, Alive
<1>3. owner' = owner
  BY Groups DEF Worker, Take, Acquire, FailEarly, Release, Finish, Crash, EndCancelled,
                IgnoreCancel
<1>4. /\ Spawned(a) /\ Spawned(a)' /\ queue[a] \in Nat
      /\ Stage(a) = (IF worker[a] \in {"slot", "call"} THEN "busy" ELSE worker[a])
      /\ Stage(a)' = (IF worker'[a] \in {"slot", "call"} THEN "busy" ELSE worker'[a])
  BY <1>2, <1>3 DEF Spawned, Stage, PoolInv, SlotsInv, TypeOK
<1>5. ASSUME TakeNext(a) PROVE Thread(a)!Serve
  <2>1. worker'[a] = "slot" /\ queue'[a] = queue[a] - 1 /\ idle'[a] = FALSE /\ queue[a] > 0
    BY <1>5 DEF TakeNext, PoolInv, SlotsInv, TypeOK
  <2> QED BY <1>4, <2>1 DEF Thread!Serve
<1>6. CASE Take(a)
  <2>1. Thread(a)!Take
    BY <1>4, <1>5, <1>6 DEF Take, Thread!Take
  <2> QED BY <2>1 DEF Thread!Next
<1>7. CASE Acquire(a)
  <2>1. worker[a] = "slot" /\ worker'[a] = "call" /\ UNCHANGED <<queue, idle, cancel>>
    BY <1>7 DEF Acquire, PoolInv, SlotsInv, TypeOK
  <2> QED BY <1>4, <2>1 DEF Thread!vars
<1>8. CASE FailEarly(a) \/ Release(a)
  <2>1. /\ worker[a] \in {"slot", "call"} /\ worker'[a] = "send"
        /\ UNCHANGED <<queue, idle, cancel>>
    BY <1>8 DEF FailEarly, Release, PoolInv, SlotsInv, TypeOK
  <2>2. Thread(a)!CallEnds
    BY <1>4, <2>1 DEF Thread!CallEnds
  <2> QED BY <2>2 DEF Thread!Next
<1>9. CASE Finish(a)
  <2>1. Thread(a)!Finish
    <3>1. CASE TakeNext(a)
      BY <1>4, <1>5, <1>9, <3>1 DEF Finish, Thread!Finish
    <3>2. CASE ~ TakeNext(a)
      <4>1. /\ worker[a] = "send" /\ ~ cancel[a] /\ queue[a] = 0 /\ UNCHANGED <<queue, cancel>>
            /\ worker'[a] = "get" /\ idle'[a] = TRUE
        BY <1>9, <3>2 DEF Finish, PoolInv, SlotsInv, TypeOK
      <4> QED BY <1>4, <4>1 DEF Thread!Finish
    <3> QED BY <3>1, <3>2
  <2> QED BY <2>1 DEF Thread!Next
<1>10. CASE Crash(a)
  <2>1. worker[a] = "send" /\ worker'[a] = "dead" /\ UNCHANGED <<queue, idle, cancel>>
        /\ ~ cancel[a]
    BY <1>10 DEF Crash, PoolInv, SlotsInv, TypeOK
  <2>2. Thread(a)!Crash
    BY <1>4, <2>1 DEF Thread!Crash
  <2> QED BY <2>2 DEF Thread!Next
<1>11. CASE EndCancelled(a)
  <2>1. cancel[a] /\ cancel'[a] = FALSE /\ worker'[a] = "dead" /\ UNCHANGED <<queue, idle>>
    BY <1>11 DEF EndCancelled, PoolInv, SlotsInv, TypeOK
  <2>2. Thread(a)!EndCancelled
    BY <1>4, <2>1 DEF Thread!EndCancelled
  <2> QED BY <2>2 DEF Thread!Next
<1>12. CASE IgnoreCancel(a)
  <2>1. worker[a] = "send" /\ cancel[a] /\ cancel'[a] = FALSE /\ UNCHANGED <<queue, idle, worker>>
    BY <1>12 DEF IgnoreCancel, PoolInv, SlotsInv, TypeOK
  <2>2. Thread(a)!Ignore
    BY <1>4, <2>1 DEF Thread!Ignore
  <2> QED BY <2>2 DEF Thread!Next
<1> QED BY <1>6, <1>7, <1>8, <1>9, <1>10, <1>11, <1>12 DEF Worker

LEMMA RoutingWorks ==
    ASSUME PoolInv, NEW t \in Threads, OnMessage(t), NEW a \in Actors
    PROVE  [Thread(a)!Next]_(Thread(a)!vars)
<1> USE Groups, Bounds
<1>1. cancel' = cancel
  BY DEF OnMessage
<1>2. CASE Reuse(t)
  <2>1. /\ actors[t] \in Actors /\ owner[actors[t]] = t /\ UNCHANGED <<owner, worker>>
        /\ idle' = [idle EXCEPT ![actors[t]] = FALSE]
        /\ \/ queue' = [queue EXCEPT ![actors[t]] = @ + 1] /\ queue[actors[t]] < QueueDepth
           \/ queue' = queue /\ ~ (queue[actors[t]] < QueueDepth)
    BY <1>2 DEF Reuse, Accepts, PoolInv, SlotsInv, TypeOK, OwnInv, Routed
  <2>2. CASE a = actors[t]
    <3>1. /\ Spawned(a) /\ Spawned(a)' /\ Stage(a)' = Stage(a) /\ idle'[a] = FALSE
      BY <2>1, <2>2 DEF Spawned, Stage, PoolInv, SlotsInv, TypeOK
    <3>2. \/ queue[a] < QueueDepth /\ queue'[a] = queue[a] + 1
          \/ queue[a] >= QueueDepth /\ queue'[a] = queue[a]
      BY <2>1, <2>2 DEF PoolInv, SlotsInv, TypeOK
    <3>3. Thread(a)!Offer
      BY <1>1, <3>1, <3>2 DEF Thread!Offer
    <3> QED BY <3>3 DEF Thread!Next
  <2>3. CASE a # actors[t]
    <3>1. queue'[a] = queue[a] /\ idle'[a] = idle[a]
      BY <2>1, <2>3 DEF PoolInv, SlotsInv, TypeOK
    <3> QED BY <1>1, <2>1, <3>1, Untouched
  <2> QED BY <2>2, <2>3
<1>3. CASE Spawn(t)
  <2>1. PICK b \in Actors :
             /\ owner[b] = NoThread
             /\ owner' = [owner EXCEPT ![b] = t]
             /\ worker' = [worker EXCEPT ![b] = "get"]
             /\ queue' = [queue EXCEPT ![b] = 1]
    BY <1>3 DEF Spawn
  <2>2. idle' = idle
    BY <1>3 DEF Spawn
  <2>3. CASE a = b
    <3>1. owner'[a] = t /\ worker'[a] = "get" /\ queue'[a] = 1 /\ worker[a] = "none"
      BY <2>1, <2>3 DEF PoolInv, SlotsInv, TypeOK, OwnInv, FreshInv
    <3> QED BY <1>1, <2>1, <2>2, <2>3, <3>1 DEF Spawned, Stage, Thread!vars
  <2>4. CASE a # b
    BY <1>1, <2>1, <2>2, <2>4, Untouched DEF PoolInv, SlotsInv, TypeOK
  <2> QED BY <2>3, <2>4
<1> QED BY <1>2, <1>3 DEF OnMessage

LEMMA ThreadsStep ==
    ASSUME PoolInv, [Next]_vars, NEW a \in Actors
    PROVE  [Thread(a)!Next]_(Thread(a)!vars)
<1> USE Groups, Bounds
<1>1. ASSUME NEW p \in Persons,
             OnParticipantLeft(p) \/ OnParticipantJoined(p) \/ FireTimer(p)
      PROVE  [Thread(a)!Next]_(Thread(a)!vars)
  <2>1. UNCHANGED <<owner, queue, worker, cancel>>
    BY <1>1 DEF OnParticipantLeft, OnParticipantJoined, FireTimer
  <2>2. idle'[a] \in BOOLEAN
    BY <1>1 DEF OnParticipantLeft, OnParticipantJoined, FireTimer, PoolInv, SlotsInv, TypeOK
  <2> QED BY <2>1, <2>2, Marked
<1>2. ASSUME NEW p \in Persons, RunReap(p)
      PROVE  [Thread(a)!Next]_(Thread(a)!vars)
  <2>1. UNCHANGED <<owner, queue, idle, worker>>
    BY <1>2 DEF RunReap
  <2>2. cancel' = cancel \/ (actors[p] # NoActor /\ cancel' = Cancelled(actors[p]))
    BY <1>2 DEF RunReap
  <2>3. CASE a = actors[p] /\ cancel' = Cancelled(actors[p])
    <3>1. owner[a] # NoThread
      BY <2>3 DEF PoolInv, OwnInv, Routed, Threads
    <3>2. cancel'[a] = (worker[a] # "dead")
      BY <2>3 DEF Cancelled, PoolInv, SlotsInv, TypeOK
    <3> QED BY <2>1, <3>1, <3>2, Stopped
  <2>4. CASE ~ (a = actors[p] /\ cancel' = Cancelled(actors[p]))
    <3>1. cancel'[a] = cancel[a]
      BY <2>2, <2>4 DEF Cancelled, PoolInv, SlotsInv, TypeOK
    <3> QED BY <2>1, <3>1, Untouched
  <2> QED BY <2>3, <2>4
<1>3. ASSUME NEW b \in Actors, Worker(b)
      PROVE  [Thread(a)!Next]_(Thread(a)!vars)
  <2>1. CASE a = b
    BY <1>3, <2>1, WorkerWorks
  <2>2. CASE a # b
    <3>1. /\ owner' = owner /\ queue'[a] = queue[a] /\ idle'[a] = idle[a]
          /\ worker'[a] = worker[a] /\ cancel'[a] = cancel[a]
      BY <1>3, <2>2 DEF Worker, Take, TakeNext, Acquire, FailEarly, Release, Finish, Crash,
                        EndCancelled,
                        IgnoreCancel, PoolInv, SlotsInv, TypeOK
    <3> QED BY <3>1, Untouched
  <2> QED BY <2>1, <2>2
<1>4. ASSUME NEW b \in Actors, Reaper(b)
      PROVE  [Thread(a)!Next]_(Thread(a)!vars)
  <2>1. UNCHANGED <<owner, queue, idle, worker>> /\ owner[b] # NoThread
    BY <1>4 DEF Reaper, EndReapDrain, EndReap, PoolInv, OwnInv, FreshInv
  <2>2. cancel' = cancel \/ cancel' = Cancelled(b)
    BY <1>4 DEF Reaper, EndReapDrain, EndReap
  <2>3. CASE a = b /\ cancel' = Cancelled(b)
    <3>1. cancel'[a] = (worker[a] # "dead")
      BY <2>3 DEF Cancelled, PoolInv, SlotsInv, TypeOK
    <3> QED BY <2>1, <2>3, <3>1, Stopped
  <2>4. CASE ~ (a = b /\ cancel' = Cancelled(b))
    <3>1. cancel'[a] = cancel[a]
      BY <2>2, <2>4 DEF Cancelled, PoolInv, SlotsInv, TypeOK
    <3> QED BY <2>1, <3>1, Untouched
  <2> QED BY <2>3, <2>4
<1>5. CASE Shutdown
  <2> DEFINE S == {actors[t] : t \in Threads} \ {NoActor}
  <2>1. S \in SUBSET Actors
    BY DEF PoolInv, SlotsInv, TypeOK
  <2>2. \A b \in S : owner[b] # NoThread
    BY DEF PoolInv, OwnInv, Routed
  <2>3. ShutdownRound(S) /\ UNCHANGED <<owner, queue, idle, worker>>
    BY <1>5 DEF Shutdown
  <2> HIDE DEF S
  <2> QED BY <2>1, <2>2, <2>3, RoundWorks
<1>6. CASE NextActor
  <2> DEFINE S == todo \ {First(todo)}
  <2>1. S \in SUBSET Actors /\ \A b \in S : owner[b] # NoThread
    BY DEF PoolInv, SlotsInv, TypeOK, OwnInv, TodoInv
  <2>2. ShutdownRound(S) /\ UNCHANGED <<owner, queue, idle, worker>>
    BY <1>6 DEF NextActor
  <2> HIDE DEF S
  <2> QED BY <2>1, <2>2, RoundWorks
<1>7. CASE EndShutdownDrain
  <2>1. /\ UNCHANGED <<owner, queue, idle, worker>> /\ closing = "draining"
        /\ cancel' = Cancelled(First(todo))
    BY <1>7 DEF EndShutdownDrain
  <2>2. owner[First(todo)] # NoThread /\ First(todo) \in Actors
    BY <2>1, FirstSpawned
  <2>3. CASE a = First(todo)
    <3>1. cancel'[a] = (worker[a] # "dead")
      BY <2>1, <2>3 DEF Cancelled, PoolInv, SlotsInv, TypeOK
    <3> QED BY <2>1, <2>2, <2>3, <3>1, Stopped
  <2>4. CASE a # First(todo)
    BY <2>1, <2>4, Untouched DEF Cancelled, PoolInv, SlotsInv, TypeOK
  <2> QED BY <2>3, <2>4
<1>8. CASE UNCHANGED vars
  BY <1>8, Untouched DEF vars
<1> QED
  BY <1>1, <1>2, <1>3, <1>4, <1>5, <1>6, <1>7, <1>8, RoutingWorks DEF Next, Closer

\* The pool never does to an actor what the code of one actor does not allow.
THEOREM PoolActorsAreWorkers == Spec => ActorsAreWorkers
<1>1. PoolInv /\ [Next]_vars => \A a \in Actors : [Thread(a)!Next]_(Thread(a)!vars)
  BY ThreadsStep
<1> QED BY <1>1, WorkerInit, PoolInvariant, PTL DEF Spec, ActorsAreWorkers
-----------------------------------------------------------------------------
(* The reaps of senders who are away.                                      *)

LEMMA DueStep == PoolInv /\ AbsentHaveReapDue /\ [Next]_vars => AbsentHaveReapDue'
<1> SUFFICES ASSUME PoolInv, AbsentHaveReapDue, [Next]_vars,
                    NEW p \in away', actors'[p] # NoActor, closing' = "none"
             PROVE  timers'[p] = "armed" \/ reapsDue'[p] > 0
  BY DEF AbsentHaveReapDue
<1> USE Groups
<1>0. p \in Persons
  BY PoolStep DEF PoolInv, SlotsInv, TypeOK
<1>1. /\ Persons \subseteq Threads /\ p \in Threads /\ reapsDue \in [Threads -> Nat]
      /\ timers \in [Threads -> {"none", "armed", "fired"}]
      /\ actors \in [Threads -> Actors \cup {NoActor}]
      /\ cancel \in [Actors -> BOOLEAN]
  BY <1>0 DEF Threads, PoolInv, SlotsInv, TypeOK
<1>2. ASSUME p \in away, actors[p] # NoActor, closing = "none"
      PROVE  timers[p] = "armed" \/ reapsDue[p] > 0
  BY <1>2 DEF AbsentHaveReapDue
<1>3. ASSUME NEW t \in Threads, OnMessage(t) PROVE timers'[p] = "armed" \/ reapsDue'[p] > 0
  <2>1. t # p /\ p \in away /\ UNCHANGED <<reapsDue, closing>>
    BY <1>3 DEF OnMessage, Reuse, Spawn
  <2>2. actors'[p] = actors[p] /\ timers'[p] = timers[p]
    BY <1>1, <1>3, <2>1 DEF OnMessage, Reuse, Spawn
  <2> QED BY <1>2, <2>1, <2>2
<1>4. ASSUME NEW q \in Persons, OnParticipantLeft(q)
      PROVE  timers'[p] = "armed" \/ reapsDue'[p] > 0
  <2>1. UNCHANGED <<actors, reapsDue, closing>>
    BY <1>4 DEF OnParticipantLeft
  <2>2. CASE q = p
    BY <1>1, <1>4, <2>1, <2>2 DEF OnParticipantLeft
  <2>3. CASE q # p
    <3>1. p \in away /\ timers'[p] = timers[p]
      BY <1>1, <1>4, <2>3 DEF OnParticipantLeft
    <3> QED BY <1>2, <2>1, <3>1
  <2> QED BY <2>2, <2>3
<1>5. ASSUME NEW q \in Persons, OnParticipantJoined(q)
      PROVE  timers'[p] = "armed" \/ reapsDue'[p] > 0
  <2>1. q # p /\ p \in away /\ UNCHANGED <<actors, reapsDue, closing>>
    BY <1>5 DEF OnParticipantJoined
  <2>2. timers'[p] = timers[p]
    BY <1>1, <1>5, <2>1 DEF OnParticipantJoined
  <2> QED BY <1>2, <2>1, <2>2
<1>6. ASSUME NEW q \in Persons, FireTimer(q)
      PROVE  timers'[p] = "armed" \/ reapsDue'[p] > 0
  <2>1. UNCHANGED <<away, actors, closing>> /\ reapsDue' = [reapsDue EXCEPT ![q] = @ + 1]
        /\ (timers' = timers \/ timers' = [timers EXCEPT ![q] = "fired"])
    BY <1>6 DEF FireTimer
  <2>2. CASE q = p
    BY <1>1, <2>1, <2>2
  <2>3. CASE q # p
    BY <1>1, <1>2, <2>1, <2>3
  <2> QED BY <2>2, <2>3
<1>7. ASSUME NEW q \in Persons, RunReap(q)
      PROVE  timers'[p] = "armed" \/ reapsDue'[p] > 0
  <2>1. q # p
    BY <1>1, <1>7 DEF RunReap, PopActor
  <2>2. /\ UNCHANGED <<away, closing>> /\ actors'[p] = actors[p]
        /\ timers'[p] = timers[p] /\ reapsDue'[p] = reapsDue[p]
    BY <1>1, <1>7, <2>1 DEF RunReap, PopActor, PopTimer
  <2> QED BY <1>2, <2>2
<1>8. ASSUME NEW a \in Actors, Worker(a) \/ Reaper(a)
      PROVE  timers'[p] = "armed" \/ reapsDue'[p] > 0
  <2>1. UNCHANGED <<away, actors, timers, reapsDue, closing>>
    BY <1>8 DEF Worker, Take, Acquire, FailEarly, Release, Finish, Crash, EndCancelled,
                IgnoreCancel,
                Reaper, EndReapDrain, EndReap
  <2> QED BY <1>2, <2>1
<1>9. ASSUME Closer PROVE FALSE
  BY <1>9 DEF Closer, Shutdown, EndShutdownDrain, NextActor, ShutdownRound
<1>10. CASE UNCHANGED vars
  BY <1>2, <1>10 DEF vars
<1> QED BY <1>3, <1>4, <1>5, <1>6, <1>7, <1>8, <1>9, <1>10 DEF Next

\* Until shutdown begins, the actor of a sender who is away has a reap coming: what
\* is left to scheduling is only that timers fire and tasks run.
THEOREM PoolAbsentHaveReapDue == Spec => []AbsentHaveReapDue
<1>1. Init => AbsentHaveReapDue
  BY DEF Init, AbsentHaveReapDue, Threads
<1> QED BY <1>1, DueStep, PoolInvariant, PTL DEF Spec

\* What a reap task may see of an actor it has taken.
LEMMA ReapedStep ==
    ASSUME PoolInv, [Next]_vars, NEW a \in Actors, reap[a] # "none"
    PROVE  reap'[a] # "none" /\ queue'[a] <= queue[a] /\ \A t \in Threads : actors'[t] # a
<1> USE Groups
<1>1. /\ owner[a] # NoThread /\ \A t \in Threads : actors[t] # a
      /\ actors \in [Threads -> Actors \cup {NoActor}]
      /\ queue \in [Actors -> 0 .. QueueDepth] /\ reap \in [Actors -> StopStages]
      /\ queue[a] \in Nat /\ Persons \subseteq Threads
  BY Bounds DEF PoolInv, SlotsInv, TypeOK, OwnInv, Routed, FreshInv, Threads, NoActor
<1>2. a # NoActor
  BY Bounds
<1>3. ASSUME NEW t \in Threads, OnMessage(t)
      PROVE  reap'[a] # "none" /\ queue'[a] <= queue[a] /\ \A u \in Threads : actors'[u] # a
  <2>1. reap' = reap
    BY <1>3 DEF OnMessage
  <2>2. CASE Reuse(t)
    BY <1>1, <2>1, <2>2 DEF Reuse
  <2>3. CASE Spawn(t)
    <3>1. PICK b \in Actors : /\ owner[b] = NoThread
                              /\ actors' = [actors EXCEPT ![t] = b]
                              /\ queue' = [queue EXCEPT ![b] = 1]
      BY <2>3 DEF Spawn
    <3>2. b # a
      BY <1>1, <3>1
    <3> QED BY <1>1, <2>1, <3>1, <3>2
  <2> QED BY <1>3, <2>2, <2>3 DEF OnMessage
<1>4. ASSUME NEW p \in Persons,
             OnParticipantLeft(p) \/ OnParticipantJoined(p) \/ FireTimer(p)
      PROVE  UNCHANGED <<actors, queue, reap>>
  BY <1>4 DEF OnParticipantLeft, OnParticipantJoined, FireTimer
<1>5. ASSUME NEW p \in Persons, RunReap(p)
      PROVE  reap'[a] # "none" /\ queue'[a] <= queue[a] /\ \A u \in Threads : actors'[u] # a
  <2>1. queue' = queue /\ actors' = [actors EXCEPT ![p] = NoActor] /\ actors[p] # a
    BY <1>1, <1>5 DEF RunReap, PopActor
  <2>2. reap'[a] = reap[a]
    BY <1>1, <1>5, <2>1 DEF RunReap
  <2> QED BY <1>1, <1>2, <2>1, <2>2
<1>6. ASSUME NEW b \in Actors, Worker(b)
      PROVE  UNCHANGED <<actors, reap>> /\ queue'[a] <= queue[a]
  <2>1. UNCHANGED <<actors, reap>>
    BY <1>6 DEF Worker, Take, Acquire, FailEarly, Release, Finish, Crash, EndCancelled,
                IgnoreCancel
  <2>2. queue' = queue \/ queue' = [queue EXCEPT ![b] = @ - 1]
    BY <1>6 DEF Worker, Take, TakeNext, Acquire, FailEarly, Release, Finish, Crash,
                EndCancelled,
                IgnoreCancel
  <2> QED BY <1>1, <2>1, <2>2
<1>7. ASSUME NEW b \in Actors, Reaper(b)
      PROVE  UNCHANGED <<actors, queue>> /\ reap'[a] # "none"
  BY <1>1, <1>7 DEF Reaper, EndReapDrain, EndReap, AfterDrain
<1>8. CASE Closer
  <2>1. UNCHANGED <<queue, reap>>
    BY <1>8 DEF Closer, Shutdown, EndShutdownDrain, NextActor
  <2>2. actors' = actors \/ actors' = [t \in Threads |-> NoActor]
    BY <1>8 DEF Closer, Shutdown, EndShutdownDrain, NextActor, ShutdownRound
  <2> QED BY <1>1, <1>2, <2>1, <2>2
<1>9. CASE UNCHANGED vars
  BY <1>1, <1>9 DEF vars
<1> QED BY <1>1, <1>3, <1>4, <1>5, <1>6, <1>7, <1>8, <1>9 DEF Next

\* No message reaches an actor that a reap task has taken, and none gets out of the
\* hands of its reap task.
THEOREM PoolReapedGetNoMore == Spec => ReapedGetNoMore
<1>1. PoolInv /\ [Next]_vars => [\A a \in Actors : reap[a] # "none" =>
                                    /\ reap'[a] # "none"
                                    /\ queue'[a] <= queue[a]
                                    /\ \A t \in Threads : actors'[t] # a]_vars
  BY ReapedStep
<1> QED BY <1>1, PoolInvariant, PTL DEF Spec, ReapedGetNoMore
-----------------------------------------------------------------------------
(* Where what the documentation says does hold.                            *)

\* OneWorkerPerThread fails only by a reap: as long as shutdown has not begun, of
\* two workers of a thread that both run, one is in the hands of a reap task.
OverlapOnlyInReaps ==
    \A a, b \in Actors :
        /\ worker[a] \in Alive /\ worker[b] \in Alive
        /\ owner[a] = owner[b] /\ a # b /\ closing = "none"
        => \E c \in {a, b} : reap[c] \in {"draining", "stopping"}

\* A thread has two workers only while a reap task ends one of them.
THEOREM PoolOverlapsOnlyInReaps == Spec => []OverlapOnlyInReaps
<1>1. PoolInv => OverlapOnlyInReaps
  BY DEF PoolInv, OwnInv, NoStrayWorker, OverlapOnlyInReaps
<1> QED BY <1>1, PoolInvariant, PTL

\* What shutdown knows of was spawned, and what runs of it is still to be ended.
KnownInv ==
    closing # "none" => \A a \in known :
        /\ owner[a] # NoThread
        /\ worker[a] \in Alive => a \in todo \/ reap[a] \in {"draining", "stopping"}

LEMMA KnownStep == PoolInv /\ KnownInv /\ [Next]_vars => KnownInv'
<1> SUFFICES ASSUME PoolInv, KnownInv, [Next]_vars, closing' # "none",
                    NEW a \in known'
             PROVE  /\ owner'[a] # NoThread
                    /\ worker'[a] \in Alive => a \in todo' \/ reap'[a] \in {"draining", "stopping"}
  BY DEF KnownInv
<1> DEFINE Held == /\ owner'[a] # NoThread
                   /\ worker'[a] \in Alive =>
                         a \in todo' \/ reap'[a] \in {"draining", "stopping"}
<1> USE Groups
<1>1. /\ owner \in [Actors -> Threads \cup {NoThread}] /\ known \subseteq Actors
      /\ worker \in [Actors -> Alive \cup {"none", "dead"}] /\ reap \in [Actors -> StopStages]
      /\ todo \in SUBSET Actors
  BY DEF PoolInv, SlotsInv, TypeOK
<1>2. ASSUME UNCHANGED <<owner, closing, todo, known>>,
             \A b \in Actors : worker'[b] \in Alive =>
                /\ worker[b] \in Alive
                /\ reap[b] \in {"draining", "stopping"} =>
                      reap'[b] \in {"draining", "stopping"}
      PROVE  Held
  <2>1. a \in known /\ a \in Actors /\ closing # "none"
    BY <1>1, <1>2
  <2>2. /\ owner[a] # NoThread
        /\ worker[a] \in Alive => a \in todo \/ reap[a] \in {"draining", "stopping"}
    BY <2>1 DEF KnownInv
  <2>3. owner'[a] # NoThread /\ todo' = todo
    BY <1>2, <2>2
  <2>4. ASSUME worker'[a] \in Alive
        PROVE  a \in todo' \/ reap'[a] \in {"draining", "stopping"}
    BY <1>2, <2>1, <2>2, <2>3, <2>4
  <2> QED BY <2>3, <2>4
<1>3. ASSUME NEW t \in Threads, OnMessage(t), Reuse(t) PROVE Held
  BY <1>2, <1>3 DEF OnMessage, Reuse
<1>4. ASSUME NEW t \in Threads, OnMessage(t), Spawn(t) PROVE Held
  <2>1. PICK b \in Actors : /\ owner[b] = NoThread
                            /\ owner' = [owner EXCEPT ![b] = t]
                            /\ worker' = [worker EXCEPT ![b] = "get"]
    BY <1>4 DEF Spawn
  <2>2. UNCHANGED <<closing, todo, known, reap>>
    BY <1>4 DEF OnMessage
  <2>3. a # b
    BY <2>1, <2>2 DEF KnownInv
  <2> QED BY <1>1, <2>1, <2>2, <2>3 DEF KnownInv
<1>5. ASSUME NEW p \in Persons,
             OnParticipantLeft(p) \/ OnParticipantJoined(p) \/ FireTimer(p)
      PROVE  Held
  BY <1>2, <1>5 DEF OnParticipantLeft, OnParticipantJoined, FireTimer
<1>6. ASSUME NEW p \in Persons, RunReap(p) PROVE Held
  <2>1. UNCHANGED <<owner, worker, closing, todo, known>>
    BY <1>6 DEF RunReap
  <2>2. \A b \in Actors : reap[b] # "none" => reap'[b] = reap[b]
    <3>1. ASSUME actors[p] # NoActor PROVE actors[p] \in Actors /\ reap[actors[p]] = "none"
      BY <3>1 DEF PoolInv, SlotsInv, TypeOK, OwnInv, Routed, Threads
    <3> QED BY <1>1, <1>6, <3>1 DEF RunReap
  <2> QED BY <1>2, <2>1, <2>2
<1>7. ASSUME NEW b \in Actors, Worker(b) PROVE Held
  <2>1. UNCHANGED <<owner, closing, todo, known, reap>>
    BY <1>7 DEF Worker, Take, Acquire, FailEarly, Release, Finish, Crash, EndCancelled,
                IgnoreCancel
  <2>2. worker[b] \in Alive \/ worker' = worker \/ worker' = [worker EXCEPT ![b] = "dead"]
    BY <1>7 DEF Worker, Take, Acquire, FailEarly, Release, Finish, Crash, EndCancelled,
                IgnoreCancel, Alive
  <2>3. \A c \in Actors : c # b => worker'[c] = worker[c]
    BY <1>1, <1>7 DEF Worker, Take, TakeNext, Acquire, FailEarly, Release, Finish, Crash,
                      EndCancelled, IgnoreCancel
  <2>4. \A c \in Actors : worker'[c] \in Alive => worker[c] \in Alive
    BY <1>1, <2>2, <2>3 DEF Alive
  <2> QED BY <1>2, <2>1, <2>4
<1>8. ASSUME NEW b \in Actors, Reaper(b) PROVE Held
  <2>1. UNCHANGED <<owner, worker, closing, todo, known>>
    BY <1>8 DEF Reaper, EndReapDrain, EndReap
  <2>2. \A c \in Actors : worker[c] \in Alive /\ reap[c] \in {"draining", "stopping"} =>
           reap'[c] \in {"draining", "stopping"}
    BY <1>1, <1>8 DEF Reaper, EndReapDrain, EndReap, AfterDrain, Alive
  <2> QED BY <1>2, <2>1, <2>2
<1>9. CASE Shutdown
  <2> DEFINE S == {actors[t] : t \in Threads} \ {NoActor}
  <2>1. /\ closing = "none" /\ UNCHANGED <<owner, worker, reap>> /\ ShutdownRound(S)
        /\ known' = {b \in Actors : owner[b] # NoThread}
    BY <1>9 DEF Shutdown
  <2>2. todo' = S /\ a \in Actors /\ owner[a] \in Threads
    BY <1>1, <2>1 DEF ShutdownRound
  <2>3. ASSUME worker[a] \in Alive PROVE a \in S \/ reap[a] \in {"draining", "stopping"}
    <3>1. actors[owner[a]] = a \/ reap[a] \in {"draining", "stopping"}
      BY <2>1, <2>2, <2>3 DEF PoolInv, OwnInv, NoStrayWorker
    <3> QED BY <2>2, <3>1, Bounds
  <2> HIDE DEF S
  <2> QED BY <2>1, <2>2, <2>3
<1>10. CASE NextActor
  <2>1. /\ UNCHANGED <<owner, worker, reap, known>> /\ closing = "stopping"
        /\ worker[First(todo)] = "dead" /\ todo' = todo \ {First(todo)}
    BY <1>10 DEF NextActor, ShutdownRound
  <2> QED BY <2>1 DEF KnownInv, Alive
<1>11. CASE EndShutdownDrain
  BY <1>11 DEF EndShutdownDrain, KnownInv
<1>12. CASE UNCHANGED vars
  BY <1>2, <1>12 DEF vars, actorVars
<1> QED BY <1>3, <1>4, <1>5, <1>6, <1>7, <1>8, <1>9, <1>10, <1>11, <1>12
        DEF Next, Closer, OnMessage

\* The workers that a shutdown misses are those spawned after it took its snapshot,
\* whatever messages, leaves, timers and reap tasks go on meanwhile.
THEOREM PoolShutdownMissesOnlyNewcomers == Spec => []ShutdownMissesOnlyNewcomers
<1>1. Init => KnownInv
  BY DEF Init, KnownInv
<1>2. KnownInv => ShutdownMissesOnlyNewcomers
  BY DEF KnownInv, ShutdownMissesOnlyNewcomers
<1> QED BY <1>1, <1>2, KnownStep, PoolInvariant, PTL DEF Spec

\* What AbsentAreReaped and ShutdownReturns except, Ignored, comes only from a worker
\* that swallows a cancellation: else whoever awaits the end of a worker, a reap task
\* or shutdown, awaits one that is dead or has been told to end.
AwaitedEnd(a) == cancel[a] \/ worker[a] = "dead"

EndingInv ==
    /\ \A a \in Actors : reap[a] = "stopping" => AwaitedEnd(a)
    /\ closing = "stopping" => AwaitedEnd(First(todo))

Swallows == \E a \in Actors : IgnoreCancel(a)

LEMMA AwaitedStep ==
    ASSUME PoolInv, [Next]_vars, [~ Swallows]_vars, NEW a \in Actors, AwaitedEnd(a),
           owner[a] # NoThread
    PROVE  cancel'[a] \/ worker'[a] = "dead"
<1> USE Groups
<1>1. cancel \in [Actors -> BOOLEAN] /\ worker \in [Actors -> Alive \cup {"none", "dead"}]
  BY DEF PoolInv, SlotsInv, TypeOK
<1>2. ASSUME worker'[a] = worker[a],
             cancel' = cancel \/ \E b \in Actors : cancel' = Cancelled(b)
      PROVE  cancel'[a] \/ worker'[a] = "dead"
  BY <1>1, <1>2 DEF Cancelled, AwaitedEnd
<1>3. ASSUME NEW t \in Threads, OnMessage(t) PROVE worker'[a] = worker[a] /\ cancel' = cancel
  BY <1>1, <1>3 DEF OnMessage, Reuse, Spawn
<1>4. ASSUME NEW p \in Persons,
             OnParticipantLeft(p) \/ OnParticipantJoined(p) \/ FireTimer(p)
      PROVE  worker' = worker /\ cancel' = cancel
  BY <1>4 DEF OnParticipantLeft, OnParticipantJoined, FireTimer
<1>5. ASSUME NEW p \in Persons, RunReap(p)
      PROVE  worker' = worker /\ (cancel' = cancel \/ \E b \in Actors : cancel' = Cancelled(b))
  <2>1. actors[p] \in Actors \cup {NoActor}
    BY DEF PoolInv, SlotsInv, TypeOK, Threads
  <2> QED BY <1>5, <2>1 DEF RunReap
<1>6. ASSUME NEW b \in Actors, Worker(b) PROVE cancel'[a] \/ worker'[a] = "dead"
  <2>1. CASE a = b
    <3>1. ~ IgnoreCancel(a)
      BY DEF Swallows, IgnoreCancel, vars, actorVars, PoolInv, SlotsInv, TypeOK
    <3>2. CASE FailEarly(a) \/ Release(a)
      BY <1>1, <3>2 DEF FailEarly, Release, AwaitedEnd
    <3>3. CASE EndCancelled(a) \/ Crash(a)
      BY <1>1, <3>3 DEF EndCancelled, Crash
    <3>4. CASE Take(a) \/ Acquire(a) \/ Finish(a)
      BY <3>4 DEF Take, Acquire, Finish, AwaitedEnd
    <3> QED BY <1>6, <2>1, <3>1, <3>2, <3>3, <3>4 DEF Worker
  <2>2. CASE a # b
    BY <1>1, <1>6, <2>2 DEF Worker, Take, TakeNext, Acquire, FailEarly, Release, Finish, Crash,
                            EndCancelled, IgnoreCancel, AwaitedEnd
  <2> QED BY <2>1, <2>2
<1>7. ASSUME NEW b \in Actors, Reaper(b)
      PROVE  worker' = worker /\ (cancel' = cancel \/ cancel' = Cancelled(b))
  BY <1>7 DEF Reaper, EndReapDrain, EndReap
<1>8. CASE Closer
  <2>1. worker' = worker
    BY <1>8 DEF Closer, Shutdown, EndShutdownDrain, NextActor
  <2>2. ASSUME NEW S \in SUBSET Actors, ShutdownRound(S)
        PROVE  cancel' = cancel \/ \E b \in Actors : cancel' = Cancelled(b)
    BY <2>2, FirstIn DEF ShutdownRound
  <2>3. {actors[t] : t \in Threads} \ {NoActor} \in SUBSET Actors
    BY DEF PoolInv, SlotsInv, TypeOK
  <2>4. todo \ {First(todo)} \in SUBSET Actors
    BY DEF PoolInv, SlotsInv, TypeOK
  <2>5. EndShutdownDrain => cancel' = Cancelled(First(todo)) /\ First(todo) \in Actors
    BY FirstSpawned DEF EndShutdownDrain
  <2>6. cancel' = cancel \/ \E b \in Actors : cancel' = Cancelled(b)
    BY <1>8, <2>2, <2>3, <2>4, <2>5 DEF Closer, Shutdown, NextActor
  <2> QED BY <1>2, <2>1, <2>6
<1>9. CASE UNCHANGED vars
  BY <1>2, <1>9 DEF vars, actorVars
<1> QED BY <1>2, <1>3, <1>4, <1>5, <1>6, <1>7, <1>8, <1>9 DEF Next

LEMMA EndingStep ==
    PoolInv /\ EndingInv /\ [Next]_vars /\ [~ Swallows]_vars => EndingInv'
<1> SUFFICES ASSUME PoolInv, EndingInv, [Next]_vars, [~ Swallows]_vars PROVE EndingInv'
  OBVIOUS
<1> USE Groups
<1>1. /\ cancel \in [Actors -> BOOLEAN] /\ worker \in [Actors -> Alive \cup {"none", "dead"}]
      /\ reap \in [Actors -> StopStages] /\ todo \in SUBSET Actors
  BY DEF PoolInv, SlotsInv, TypeOK
<1>2. ASSUME NEW a \in Actors, reap'[a] = "stopping" PROVE AwaitedEnd(a)'
  <2>1. CASE reap[a] = "stopping"
    <3>1. owner[a] # NoThread
      BY <2>1 DEF PoolInv, OwnInv, FreshInv
    <3> QED BY <2>1, <3>1, AwaitedStep DEF EndingInv, AwaitedEnd
  <2>2. CASE reap[a] # "stopping"
    <3>1. ASSUME NEW b, reap' = [reap EXCEPT ![b] = AfterDrain(b)], cancel' = Cancelled(b),
                 worker' = worker
          PROVE  AwaitedEnd(a)'
      <4>1. a = b
        BY <1>1, <1>2, <2>2, <3>1
      <4>2. worker[a] # "dead" => cancel'[a]
        BY <1>1, <3>1, <4>1 DEF Cancelled
      <4> QED BY <3>1, <4>2 DEF AwaitedEnd
    <3>2. ASSUME NEW p \in Persons, RunReap(p)
          PROVE  /\ worker' = worker
                 /\ \/ reap' = reap
                    \/ \E b : /\ reap' = [reap EXCEPT ![b] = AfterDrain(b)]
                              /\ cancel' = Cancelled(b)
      <4>1. reap' # [reap EXCEPT ![actors[p]] = "draining"]
        BY <1>1, <1>2, <2>2
      <4> QED BY <3>2, <4>1 DEF RunReap
    <3>3. ASSUME NEW b \in Actors, Reaper(b)
          PROVE  /\ worker' = worker
                 /\ reap' = [reap EXCEPT ![b] = AfterDrain(b)] /\ cancel' = Cancelled(b)
      <4>1. ~ EndReap(b)
        BY <1>1, <1>2, <2>2 DEF EndReap
      <4> QED BY <3>3, <4>1 DEF Reaper, EndReapDrain
    <3>4. ASSUME NEW b \in Actors, Worker(b) PROVE reap' = reap
      BY <3>4 DEF Worker, Take, Acquire, FailEarly, Release, Finish, Crash, EndCancelled,
                  IgnoreCancel
    <3>5. ASSUME NEW t \in Threads, OnMessage(t) PROVE reap' = reap
      BY <3>5 DEF OnMessage
    <3>6. ASSUME NEW p \in Persons,
                 OnParticipantLeft(p) \/ OnParticipantJoined(p) \/ FireTimer(p)
          PROVE  reap' = reap
      BY <3>6 DEF OnParticipantLeft, OnParticipantJoined, FireTimer
    <3>7. Closer => reap' = reap
      BY DEF Closer, Shutdown, EndShutdownDrain, NextActor
    <3>8. UNCHANGED vars => reap' = reap
      BY DEF vars
    <3> QED BY <1>2, <2>2, <3>1, <3>2, <3>3, <3>4, <3>5, <3>6, <3>7, <3>8 DEF Next
  <2> QED BY <2>1, <2>2
<1>3. ASSUME closing' = "stopping" PROVE AwaitedEnd(First(todo))'
  <2>1. CASE closing = "stopping" /\ UNCHANGED todo
    <3>1. First(todo) \in Actors /\ owner[First(todo)] # NoThread
      BY <2>1, FirstSpawned
    <3>2. cancel'[First(todo)] \/ worker'[First(todo)] = "dead"
      BY <2>1, <3>1, AwaitedStep DEF EndingInv
    <3> QED BY <2>1, <3>2 DEF AwaitedEnd, First
  <2>2. ASSUME NEW S \in SUBSET Actors, ShutdownRound(S), worker' = worker
        PROVE  AwaitedEnd(First(todo))'
    <3>1. S # {} /\ todo' = S /\ cancel' = Cancelled(First(S))
      BY <1>3, <2>2 DEF ShutdownRound
    <3>2. First(S) \in Actors
      BY <3>1, FirstIn
    <3>3. worker[First(S)] # "dead" => cancel'[First(S)]
      BY <1>1, <3>1, <3>2 DEF Cancelled
    <3> QED BY <2>2, <3>1, <3>3 DEF AwaitedEnd, First
  <2>3. Shutdown => AwaitedEnd(First(todo))'
    <3>1. {actors[t] : t \in Threads} \ {NoActor} \in SUBSET Actors
      BY DEF PoolInv, SlotsInv, TypeOK
    <3> QED BY <2>2, <3>1 DEF Shutdown
  <2>4. NextActor => AwaitedEnd(First(todo))'
    <3>1. todo \ {First(todo)} \in SUBSET Actors
      BY <1>1
    <3> QED BY <2>2, <3>1 DEF NextActor
  <2>5. EndShutdownDrain => AwaitedEnd(First(todo))'
    <3> SUFFICES ASSUME EndShutdownDrain PROVE AwaitedEnd(First(todo))'
      OBVIOUS
    <3>1. /\ UNCHANGED <<worker, todo>> /\ cancel' = Cancelled(First(todo))
          /\ First(todo) \in Actors
      BY FirstSpawned DEF EndShutdownDrain
    <3>2. worker[First(todo)] # "dead" => cancel'[First(todo)]
      BY <1>1, <3>1 DEF Cancelled
    <3> QED BY <3>1, <3>2 DEF AwaitedEnd, First
  <2>6. Closer \/ UNCHANGED <<closing, todo, known>>
    <3>1. ASSUME NEW t \in Threads, OnMessage(t) PROVE UNCHANGED <<closing, todo, known>>
      BY <3>1 DEF OnMessage
    <3>2. ASSUME NEW p \in Persons,
                 \/ OnParticipantLeft(p) \/ OnParticipantJoined(p)
                 \/ FireTimer(p) \/ RunReap(p)
          PROVE  UNCHANGED <<closing, todo, known>>
      BY <3>2 DEF OnParticipantLeft, OnParticipantJoined, FireTimer, RunReap
    <3>3. ASSUME NEW b \in Actors, Worker(b) \/ Reaper(b) PROVE UNCHANGED <<closing, todo, known>>
      BY <3>3 DEF Worker, Take, Acquire, FailEarly, Release, Finish, Crash, EndCancelled,
                  IgnoreCancel,
                  Reaper, EndReapDrain, EndReap
    <3>4. UNCHANGED vars => UNCHANGED <<closing, todo, known>>
      BY DEF vars
    <3> QED BY <3>1, <3>2, <3>3, <3>4 DEF Next
  <2> QED BY <1>3, <2>1, <2>3, <2>4, <2>5, <2>6 DEF Closer
<1> QED BY <1>2, <1>3 DEF EndingInv

\* Unless a worker swallows its cancellation, none that is awaited ignores it: the
\* exception that the two liveness properties make is that one step of the code.
THEOREM PoolAwaitsOnlyTheEnding == Spec /\ [][~ Swallows]_vars => [](EndingInv /\ ~ Ignored)
<1>1. Init => EndingInv
  BY DEF Init, EndingInv
<1>2. EndingInv => ~ Ignored
  BY DEF EndingInv, AwaitedEnd, Ignored
<1> QED BY <1>1, <1>2, EndingStep, PoolInvariant, PTL DEF Spec

\* A worker that waits for a slot can have one, or waits for a call in progress, which
\* ends by itself: the workers never wait for one another in a circle.
WaitsEndInCalls ==
    \A a \in Actors : worker[a] = "slot" => slots > 0 \/ \E b \in Actors : worker[b] = "call"

\* The semaphore cannot block all the workers of the meeting.
THEOREM PoolWaitsEndInCalls == Spec => []WaitsEndInCalls
<1>1. PoolInv => WaitsEndInCalls
  <2> SUFFICES ASSUME PoolInv, slots = 0 PROVE \E b \in Actors : worker[b] = "call"
    BY DEF WaitsEndInCalls, PoolInv, SlotsInv, TypeOK
  <2>1. Calling # {}
    BY SlotsFree, FS_EmptySet, Bounds DEF PoolInv, SlotsInv
  <2> QED BY <2>1 DEF Calling
<1> QED BY <1>1, PoolInvariant, PTL
=============================================================================
