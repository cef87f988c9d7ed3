# Verification of the Lattice meeting assistant

TLA+ specifications, TLC model-checking runs and TLAPS proofs for the meeting assistant in
`src/lattice_meeting_assistant/`: the process that answers private chat messages and public
mentions in a meeting, one conversation thread per sender, through cortex (the LLM registry).

All of it is asyncio on one event loop. Nothing runs in parallel, so every hazard is of one kind:
a task suspends at an `await`, others change what it read before, and it resumes, or is cancelled
there. The modules follow that: **a step is what one task runs between two suspension points**, and
a program counter names the `await` a task is suspended on.

Contents: 1 Components, 2 Modules and code, 3 Runs, 4 Fairness and deadlock, 5 Proofs,
6 Findings, 7 What is assumed, 8 What is not modelled, 9 Plan.

## 1. Components

Line numbers are of files in `src/lattice_meeting_assistant/`.

| Component | State | Operations | Talks to |
|---|---|---|---|
| **Chat thread actor** `actor.py` | bounded queue, worker task, per event a dispatch task and a holding-message timer, history, idle marker, stopping flag | `enqueue`, `mark_idle`, `cancel_idle`, `drain`, `shutdown`; `_worker_loop`, `_dispatch_with_holding_message`, `_dispatch_one`, `_compact_history` | cortex (call), the session (sends), the pool (called by it) |
| **Actor pool and participant lifecycle** `assistant.py` | `_actors`, `_reap_timers`, reap tasks, global semaphore | `_get_or_spawn_actor`, `on_participant_left/joined`, `_reap_actor`, `_cortex_call_with_semaphore`, `shutdown`, `start` | actors, event loop timers, cortex |
| **Chat ingress and public mention gate** `assistant.py`, `public_mentions.py` | `_last_reply_at`, the time stamp of the last accepted mention | `on_private_chat`, `on_public_mention`, `_is_allowed`, `evaluate`, `record_reply` | pool, session |
| **Admin dispatcher** `admin.py` | the profile holder, session state (mute, tier override), the audit trail inside the profile | `parse_admin_command`, `dispatch` with eight verbs, `_persist_profile` | profile, Brain (vault note) |
| **Profile** `profile.py` | the vault note | load, render, replace fields | Brain |
| **Series matching** `series.py` | none between calls | `match_path_1`, `match_path_2`, `ratify` | Brain search, admin transport |
| **Tool resolution** `tools/resolver.py`, `registry.py`, `base.py` | none | `resolve_tool_set` | profile |
| **Privacy invariants** `privacy/*.py` | none | blocked names, boot self-test, admin-grammar check, visibility check, log redaction | resolver, ingress |
| **Brain client** `brain_client.py` | an HTTP client | `nx_vault_write`, `nx_vault_search` and the calls of the tools | the vault |
| **Tools** `tools/*.py` | none | `dispatch_tool_call`, nine `invoke`s | Brain, transcript source, cortex (called by it) |
| **Prompts** `prompts.py` | none | two renderers | actors, through the closure each was spawned with |
| **Types, config, exceptions** | none | data | – |

How they meet: a chat message passes the **ingress** gates, the **pool** finds or spawns the
**actor** of its thread and enqueues it, the actor's worker calls cortex inside the pool's semaphore
and sends what comes back. A participant who leaves arms a timer; when it fires, a reap task pops
the actor from the pool, drains it and cancels its worker. `Assistant.shutdown` does the same to
every actor. **Admin** commands change the profile that gates and tools read, and write it to the
vault note; **series matching** decides which profile a meeting starts with. At a spawn the pool gives the
actor the **tools** the resolver allows and a **prompt** renderer; cortex, inside a dispatch, calls the
tools back through `dispatch_tool_call`, and most of them post to the **Brain**.

### What is hard in each, and what makes it correct

- **Actor.** The race of a dispatch task with a timer task, both cancelled and awaited from a worker
  that can itself be cancelled at any of its awaits, under handlers that suppress `CancelledError`;
  sends that fail inside exception handlers; an idle marker with two meanings. Correct means: FIFO,
  one event at a time, at most one "one moment" and one answer for each, nothing after the answer
  (`ImplementsService`); no task outlives its event (`NoOrphanTasks`), and an event that is over is not
  touched again (`OverIsOver`); the worker is never at an await that cannot end (`AwaitsEnd`); no message
  disappears without an answer or a failed fallback (`NoSilentLoss`); the history given to cortex is whole exchanges in
  order (`HistoryWellFormed`); every message is served (`EventuallyServed`); a cancellation ends the
  worker (`CancelHonoured`).
- **Pool.** Messages, leaves, rejoins, timers, reap tasks and shutdown in any order, where a reap and
  a shutdown suspend half-way. Correct means: the pool routes to the actor of the thread and never
  to one that is being reaped (`PoolConsistent`); no timer without its actor (`TimersMatchActors`);
  cortex slots are never lost (`SlotsConserved`); no worker is out of everybody's reach
  (`NoStrayWorker`); what a reap has taken gets nothing more (`ReapedGetNoMore`); who left and stays silent has a
  reap coming (`AbsentHaveReapDue`) and is reaped (`AbsentAreReaped`); shutdown ends (`ShutdownReturns`), and
  misses no worker but those spawned after it began (`ShutdownMissesOnlyNewcomers`).
- **Ingress.** The send path is chosen by the name of a thread, and the rate limit is stamped when a
  mention is accepted while its posts come later. Correct means: `RepliesStayOnTheirPath`,
  `ThreadsDoNotMix`, `PublicPostsBounded`.
- **Admin.** The profile in memory changes before the write is known to have worked; writes are
  whole-note, unordered, and may be applied after their handler gave up or the session ended. Correct
  means: the audit trail explains every copy of the allowlist (`AuditExplains`), what was answered as
  written stays written and decides who is listed until the next edit of that person (`AnsweredIsDurable`), session state and trail agree (`SessionStateExplained`).
- **Series.** A sort with a hand-made descending key, an owner who may never answer. Correct means:
  `OfferIsBest`, `NoBindingWithoutConsent`, `RatificationEnds`.
- **Tools and prompts.** A curated list, a list of blocked names and a boot self-test that have to agree;
  tools resolved at a spawn and names taken down at the boot; a renderer as old as its actor; names and
  arguments that a model makes up; requests that suspend inside a dispatch that may be cancelled. Correct
  means: the theorems of `ToolResolver`, and `MeetingAsksWhatIsSwitchedOn`, `PromptIsOfItsSender`,
  `PromptListsTools`, `NoLossAfterBoot`, `CallsBelongToDispatch`, `ToolCallsEnd`.

`PROJECT.json` lists 34 hazards with their lines and the properties that watch them.

## 2. Modules and code

| Module | Models | Proofs |
|---|---|---|
| `ThreadService` | what a thread promises its sender, without tasks or cancellation | `ThreadServiceProofs` |
| `ThreadWorker` | one actor as the pool relies on it | in the two below |
| `ChatThreadActor` | one actor, in full; implements `ThreadService` and `ThreadWorker` | `ChatThreadActorProofs` |
| `AssistantPool` | the pool; each of its actors is a `ThreadWorker` | `AssistantPoolProofs` |
| `ChatIngress` | gates, thread keys, send paths, rate limit | `ChatIngressProofs` |
| `AdminDispatcher` | commands, profile, vault note, writes, sessions | `AdminDispatcherProofs` |
| `SeriesMatcher` | both matching paths and ratification | `SeriesMatcherProofs` |
| `ToolResolver` | resolvers, blocked names, self-test, as operators | in the module |
| `ThreadTools` | boot, spawn, prompts, tool calls and their requests; uses `ToolResolver` | `ThreadToolsProofs` |
| `MC*` | the same for TLC, with symmetry sets where sound | – |

Operators whose comment starts with "Mutant" are plausible bugs in the definition that follows them.
No specification uses them: they exist to show that each property would fail if the code had the bug.

### ChatThreadActor (`actor.py`)

State: `queue`, `idle` (`_idle_since is not None`), `stopping`, `hasWorker`, `history` are the
fields of the same names. `wpc` is the await of `_worker_loop` and `_dispatch_with_holding_message`
the worker is suspended on:

| `wpc` | where |
|---|---|
| `created`, `get` | before the first run; `await self._queue.get()` |
| `race` | `asyncio.wait({dispatch_task, timer_task}, FIRST_COMPLETED)` |
| `timerWait` | awaiting the timer it cancelled, inside `suppress(CancelledError)` |
| `filler` | sending the holding message |
| `await` | `return await dispatch_task` |
| `reply`, `fallbackCU`, `fallback` | the send of the answer, of the fallback in `except CortexUnavailable`, of that in `except Exception` |
| `cleanupD`, `cleanupT` | the `except BaseException` block, awaiting the cancelled dispatch, timer |
| `cancelled`, `crashed` | the task ended with `CancelledError`, with another exception |

`cancel` is a `Task.cancel()` not yet delivered: `CancelledError` is raised at the await the worker
is on, the next time it runs (`CancelledWaiting`, `CancelledSending`, `CancelledRacing`), except
where the code suppresses it (`TimerStopped`, `CleanedDispatch`, `CleanedTimer`). `raising` is the
exception that the cleanup re-raises. `dispatch[e]` and `timer[e]` are the states of the two tasks of
event `e`; both survive the worker's local variables, which is how a leak would show. `spc[s]` is a
caller that drains and then shuts the actor down (a reap task, or `Assistant.shutdown`). `sent` and
`lost` record what reached the sender. Names and order of the actions follow the code: `Receive`,
`MarkIdle`, `CancelIdle` (calls of the pool); `Wake`, `RaceWon`, `RaceTimedOut`, `FillerSent`,
`FillerFails`, `Awaited`, `AnswerSent`, `ReplyFails`, `FallbackFails`, `FallbackCrashes` (worker);
`DispatchStarts/Returns/Raises/Cancelled`, `TimerEnds` (its two tasks); `DrainWaits/Returns/TimesOut`,
`ShutdownReturns` (callers). `AnswerSent` and its kin contain `LoopTop`: after a send the worker takes
the next event without suspending if there is one, and sets the idle marker only if there is none.

`ThreadService` has four variables; the refinement maps `taken` to `accepted - Len(queue)`, `serving`
to `current`, `out` to `sent`. Everything about tasks, timers and cancellation maps to stuttering.

### AssistantPool (`assistant.py`)

State: `actors` is `_actors`, `timers` is `_reap_timers` (armed, or fired and not yet popped),
`reapsDue` the reap tasks created and not yet run, `slots` the semaphore, `closing`/`todo` the
progress of `shutdown` through its snapshot. `orphans` counts armed timers whose handle was dropped:
`_reap_actor` pops whatever handle is there, which may be that of a newer timer. Per actor: `owner`,
`queue` (a count), `idle`, `worker`, `cancel`, and `reap`, how far the reap task that popped it is.
`Reuse` and `Spawn` are the two branches of `_get_or_spawn_actor` with the `enqueue` that follows; `RunReap` is `_reap_actor` up to its
first suspension, with the pop of actor and timer that precedes the drain; `ShutdownRound` is one turn
of the shutdown loop, including the `_actors.clear()` of the last. `FailEarly` is a dispatch that raises before it
gets to the semaphore (no registry, or a prompt renderer that raises).

Two variables are history, read by properties only: `away` holds the senders who left and were neither announced
nor heard of since, `known` the actors that existed when shutdown began. No handler asks who is in the meeting:
a message of a sender who left is taken as any other, and cancels the reap timer (`Reuse`, `assistant.py:470-478`).

### ThreadWorker, between actor and pool

The pool models an actor more coarsely than `ChatThreadActor` does. `ThreadWorker` is that coarse actor, of
four variables: how many events wait, the idle marker, what the worker waits for (an event, cortex, the
session; or how it ended) and whether a cancellation is on its way. Two refinements tie the modules:
`ImplementsWorker` (of `ChatThreadActor`, with race, timers and cleanup mapped to `busy`) and
`ActorsAreWorkers` (of `AssistantPool`, for each actor it spawns). So what the pool's properties assume of
an actor is what the actor's code does, the suppressed cancellations included: `IgnoreCancel` is a worker
that swallows its cancellation while it awaits the timer it cancelled, and goes on. `AbsentAreReaped` and
`ShutdownReturns` hold unless that happens to the worker that shutdown is waiting for (`Ignored`), which is
the actor's finding `ShutdownEnds` seen from the pool; a reap task that waits so blocks nobody else.

### ChatIngress (`assistant.py`, `public_mentions.py`)

`OnPrivateChat` is `on_private_chat` (tiers, admin grammar, enqueue or "busy"), `OnPublicMention` is
`on_public_mention` (gates, window, enqueue, stamp). `Key` and `Recipient` are the
two places where a thread's name decides: `(meeting, sender)` or `(meeting, "public")`, and
`key[1] == "public"`. A thread's worker is reduced to `Take`, `Filler`, `Finish`. `now` is a clock
because the rate limit compares times. Canonical ids are not kept apart from the string `"public"`
anywhere in the code, so `Persons` may contain `Public`. The run excludes it, the theorems carry
`Public \notin Persons` as a hypothesis, and section 6 says what happens without it.

### AdminDispatcher (`admin.py`, `profile.py`, `brain_client.py`)

`profile` is `profile_holder.profile`, `muted`/`tier` the session state, `vault` the note. Each verb is
one action since handlers do not suspend before the write; `Persist` is `_persist_profile` up to its
await (no client, no path, or a note that does not render: memory stays changed, the answer is a
failure). `Apply`, `Lose`, `WriteReturns`, `WriteFails` are the Brain and the waiting handler,
independent of each other: a request may be applied after the handler gave up. `NextSession` is the
end of the meeting or process; the next one loads the note. `overlapped` is a history variable.

### SeriesMatcher (`series.py`) and ToolResolver (`tools/resolver.py`, `privacy/invariants.py`)

`SeriesMatcher` scores candidates with exact fractions (`2 * common >= union` for a Jaccard overlap of
at least 0.5), sorts by overlap, then by `_negate_iso` of the stamp, then by position. A stamp is a sequence of
parts, since what the inverted string makes of two stamps depends on where they first differ: the later part
comes first (`Later`), but a stamp comes before all it is a prefix of (`Coarser`), `2026-05-11` before
`2026-05-11T10:00:00Z` and a missing one before every other. A stamp with a character beyond Latin-1 has no key,
and the sort raises (`Sortable`). `pc` is the await of the caller. `ToolResolver` has no state: two resolvers and
the self-test as operators over the four profile flags that are read.

### ThreadTools (`assistant.py`, `prompts.py`, `tools/*.py`, `brain_client.py`)

State: `profile` and `brain` are what the Assistant was constructed with, `toolNames` is
`in_meeting_tool_names`. `actor[t]` is the tools and the closed-over event of the actor of thread `t`,
`waiting[t]` a message on its queue, `cortex[t]` what `_dispatch` handed to cortex: the message, whom and
which tools the prompt speaks of, the tools themselves. `call[c]` is a tool call, suspended only in the
request to the Brain (`posted`). `written` (who has written under which name) and `dropped` (a message was
lost because the resolver raised at a spawn) are history variables.

`Boot` is `start()`, at any time or never; `Receive` the lookup or spawn with the enqueue; `Reap` the end of
an actor with nothing to do; `DispatchStarts` renders the prompt and calls cortex. `OwnerAsks` is a consumer
that hands the owner's tools to a conversation of its own, so that calls with both tool sets run side by
side. `Refused`, `AnsweredLocally`, `Post` are the three ways a call can go up to its first suspension:
unknown name or unusable argument; transcript, or no references to search; a request (`Request`, with the
scope that the profile and the arguments make). `BrainAnswers` reshapes the body; `BrainFails` is every
exception of `_post`. `DispatchCancelled` takes the calls of the dispatch with it, since
`except Exception` does not catch `CancelledError`.

## 3. Runs

Every property of a passing run is broken by at least one mutant of the code's definitions under the
run's own bounds.

| Run (cfg) | Bounds | Checks |
|---|---|---|
| `actor` (`Actor.cfg`) | queue of 2, 3 events, one stopper | type, `NoOrphanTasks`, `AwaitsEnd`, `HistoryWellFormed`, `NoSilentLoss`, action property `OverIsOver`, refinements `ImplementsService`, `ImplementsWorker`, liveness `EventuallyServed`, `CancelHonoured` (232,682 states) |
| `pool` (`Pool.cfg`) | one person and the public thread, queue of 1, 1 slot, 2 actors, 3 messages, 2 reaps due at once | type, `PoolConsistent`, `TimersMatchActors`, `SlotsConserved`, `NoStrayWorker`, `ShutdownMissesOnlyNewcomers`, `AbsentHaveReapDue`, action property `ReapedGetNoMore`, refinement `ActorsAreWorkers`, liveness `AbsentAreReaped`, `ShutdownReturns` (252,995 states) |
| `ingress` (`Ingress.cfg`) | 2 persons, 2 users (symmetric), window of 2, queue of 1, 3 messages, clock to 3 | type, `RepliesStayOnTheirPath`, `ThreadsDoNotMix`, `PublicPostsBounded` (1,095,146 states) |
| `admin` (`Admin.cfg`) | 1 admin, 1 participant, 1 tier, 3 commands, 2 sessions | type, `AuditExplains`, `AnsweredIsDurable`, `SessionStateExplained` (571,103 states) |
| `series` (`Series.cfg`) | 3 persons, 6 stamps (none, two of one part, two of two parts, one that cannot be sorted), every list of at most 2 notes | type, `OfferIsBest`, `NoBindingWithoutConsent`, liveness `RatificationEnds` (571,405 states) |
| `tools` (`Tools.cfg`) | 2 persons, 2 display names, 2 series, 4 profiles with and without a Brain, 2 messages, 1 open call | type, `MeetingAsksWhatIsSwitchedOn`, `PromptIsOfItsSender`, `PromptListsTools`, `NoLossAfterBoot`, `CallsBelongToDispatch`, liveness `ToolCallsEnd` (371,601 states) |
| `actor_drain_settles` | queue of 1, 2 events | **violated:** `DrainSettles` |
| `actor_shutdown_ends` | queue of 1, 1 event, fairness | **violated:** `ShutdownEnds` |
| `actor_worker_runs` | queue of 1, 2 events | **violated:** `WorkerRunsUntilCancelled` |
| `pool_one_worker` | as `pool`, 3 actors, 1 reap due | **violated:** `OneWorkerPerThread` |
| `admin_remove_sticks` | as `admin` | **violated:** `PersistentRemoveSticks` |
| `tools_scope` | as `tools` | **violated:** `SearchStaysInSeries` |

Why the bounds are enough:

- *Actor.* Three events and a queue of two give a full queue that refuses, an event in flight with
  others waiting, an event taken at the loop top and one that wakes a waiting worker, and a history of
  up to six turns, so that compaction cuts at an odd half. The worker only ever holds one event, so
  more events repeat these cases. One stopper: what two do to one actor (a reap task and a shutdown) is
  covered by the safety proofs, which hold for any set of stoppers.
- *Pool.* Two actors let a thread respawn while its first actor drains, or two threads compete for one
  slot; two reaps due at once cover a timer replaced after it fired, and the orphan. `MaxReaps` bounds
  how many leaves may pile up before their reap tasks run; the loop runs these at once, so larger
  numbers need a grace of zero.
- *Ingress.* A window of two in a clock of three has the refused, the late and the next accepted
  mention; three messages let a mention, a private message and a second mention interleave.
- *Admin.* Three commands are the least for session edit, persistent edit, and one that depends on both;
  two sessions for what survives.
- *Series.* The choice among candidates is pairwise, and three persons give all orders of overlap. The stamps
  have each of the ways two can differ: in the first part, in the second, by a prefix, by being empty.
- *Tools.* Two messages are the least for a renderer that is older than its message, or a respawn. The
  four profiles are: a series with and without references, no series, and one the self-test refuses. Calls
  share nothing but the dispatch they end with, so that one open call shows what each may do; several at
  once are covered by the theorems.

What the bounds do not show is said by the theorems, where there are some (section 5).

## 4. Fairness and deadlock

Safety is checked of `Spec` (or `FairSpec`, which has the same safety). Liveness is checked of
`FairSpec`:

- the event loop runs every task that is ready: WF on the worker, dispatch and timer tasks, reap tasks;
- cortex and the session return or raise, and cortex honours a cancellation: the same WF;
- a drain that has begun polls until it returns or times out: WF on a stopper *once it has begun*.
  Nothing forces anybody to shut an actor down, to leave or to write;
- an armed `call_later` fires: WF on `FireTimer`;
- `asyncio.Semaphore` serves its waiters first come, first served: SF on `Acquire`, since a slot may be
  taken and freed for ever by others;
- `asyncio.wait_for` in `ratify` has a timeout: WF on `Timeout`. There is none on `Answered`;
- `httpx.AsyncClient` has a timeout (30 s by default): WF on `BrainFails`. There is none on `BrainAnswers`,
  on a dispatch that ends or on anything else of `ThreadTools`.

There is no fairness in `ChatIngress` and `AdminDispatcher`, which have no liveness property: the Brain
may never answer.

Every cfg switches the deadlock check off because each system may really stop: an actor with nothing to
do waits in `queue.get()`, a meeting ends, a matcher returns, and the bounds exhaust the input. "Everyone
waits for everyone" is instead the subject of `ShutdownReturns`, `ShutdownEnds`, `EventuallyServed`,
`RatificationEnds` and `ToolCallsEnd`.

## 5. Proofs

TLAPS checks these for every value of the constants that satisfies the modules' assumptions, which
are: positive bounds, `None` distinct from what it stands next to, `Listed` and `Admins` sets of
persons. The bounds of the models remain as constants in the theorems, so they hold for each size.

**Service** (`ServicePromises`). `ServiceInv` adds `Progress` to the promises: what was sent is about
messages already taken, and what was sent about the one being served is no answer yet. Without it
`InOrder` is not inductive.

**Actor.** Each invariant rests on the ones before it:

| Theorem | Inductive invariant | Why it is needed |
|---|---|---|
| `ActorTypeOK` | `TypeInv` = `TypeOK` and `CurrentInv` (the worker has an event exactly at the awaits inside one) | `dispatch[current]` is only typed for an event |
| `ActorImplementsService` | `FlowInv` = `TypeInv`, `FIFOInv` (the queue holds the accepted events that follow the last one taken, which is the current one), `SentInv` (nothing was sent about the current event before its filler) | the guard of `Nudge`, and that `Take` maps to the next ordinal |
| `ActorNoOrphanTasks` | `TaskInv` (a live dispatch or timer belongs to the current event, and only at the awaits where the worker may still use or cancel it) | every path out of an event must find both tasks dead |
| `ActorNoSilentLoss` | `LossInv` = `FlowInv`, `CancelInv` (the worker is only cancelled by a shutdown) and the property | an event cut short is a shutdown's doing |
| `ActorHistoryWellFormed` | `HistInv` (also: all turns are of events taken, and earlier than any dispatch that has not returned), with `FlowInv` and `TaskInv` | appending keeps order; compaction keeps a suffix (`CompactSuffix`) |
| `ActorAwaitsEnd` | `WorkerInv` (`TypeInv`, `TaskInv`, `RaisingInv`) and the property | what a cancelled task may still be is a matter of who cancelled it, and at which await |
| `ActorOverIsOver` | `FlowInv` and `TaskInv` | a step can touch the tasks of an event, or send for it, only while it is current |

They hold for any number of stoppers. The refinements are proved step by step: an action of the actor is
`Accept`, `Take`, `Nudge` or `Settle` of the service or leaves its variables alone. `ActorKeepsItsPromises` puts
the refinement to use: the promises proved of the service (`ServicePromises`) hold of what the session delivers.

`ActorImplementsWorker` is proved in the same way, from `TypeInv`, `TaskInv` and `RaisingInv` (an exception is
held exactly during the cleanup it started): every step of the actor is one of `ThreadWorker` or leaves its
four variables alone.

**Pool.** `PoolInv` is `SlotsInv` and `OwnInv`. `SlotsInv` is the type invariant with `SlotsConserved`, which
are proved together since a slot is only a number because the callers that hold one are counted (finite
cardinalities; `SlotsTaken` and `SlotsGiven` are the two steps that move one). `OwnInv` is `FreshInv` (an
actor not spawned yet has no worker and no reap task), `TodoInv` (shutdown's list holds spawned actors), and
`PoolConsistent`, `TimersMatchActors`, `NoStrayWorker`, which need each other: a pop is only safe because the
actor is the pool's, and nobody is out of reach because a popped actor is in a reap task's hands. From it
follow `PoolTypeOK`, `PoolSlotsConserved`, `PoolIsConsistent`, `PoolTimersMatchActors`, `PoolNoStrayWorker`,
and, step by step, `PoolActorsAreWorkers` and `PoolReapedGetNoMore`. `PoolAbsentHaveReapDue` is inductive by itself,
given the types: what drops a timer or uses up a reap task (a rejoin, a message, the reap itself) ends the
sender's absence or takes the actor away in the same step. `PoolShutdownMissesOnlyNewcomers` is by `KnownInv`: who
was known, runs and is not in shutdown's list is in a reap task's hands, and shutdown takes an actor off its list
only when its worker has ended. `PoolWaitsEndInCalls` follows
from `SlotsInv` by counting: with no slot free somebody holds one, and only calls hold slots.

**Ingress.** `IngressInv` is `TypeOK` and `RoutedInv`: every message waiting or served is in the thread
of its key, and a private one has a person as its sender. From it, with `Public \notin Persons`:
`IngressRepliesStayOnTheirPath`, `IngressThreadsDoNotMix` (a history holds exactly the source of its key),
and `IngressPublicPostsBounded` by `RateInv`: the mentions that the public chat has seen or may yet see
number at most one more than the windows that ended by the last stamp, and each accounts for two posts.

**Admin.** `CommandShape` states once what any command does to profile, status and request; the proofs
split on it rather than on eight verbs. `AdminAuditExplains` is inductive with `TypeOK`;
`LastEditOfAppend` and `AllowlistOfAppend` say what one more entry does to the allowlist a history makes.
`AdminAnsweredIsDurable` needs `DurableInv`: at most one request is under way while writes do not overlap,
and what stands is in memory, in the note and in the write that will replace the note; and `TruthInv`: an entry
of any copy of the trail, the note's included, was made by the command of its time stamp and says what that
command asks. With `AuditExplains`, which ties the list to the last edit of each person (`LastEditDecides`), the
entry then decides whether the note lists the person.
`AdminSessionStateExplained` needs `PastInv`: no copy of the profile has an entry of a session to come.

**Series.** `SortOrder` shows that `Before`, the order of the sort, is strict and total on the candidates:
fractions are compared by cross products (`AtLeastTransitive`, `OverlapOrder`), stamps by the inverted
string (`StampCases`, `StampTransitive`, `StampOrder`; `LeastIndex` finds the first part that differs), ties by
position. Hence `SortHasOneFirst`: a finite set of candidates has exactly one
first. `SeriesInv` adds to the properties what the caller's position implies (`StageInv`: an offer is out only
in `prompt` and `wait`, nothing is bound before `done`). It gives `SeriesTypeOK`, `SeriesOfferIsBest`,
`SeriesNoBindingWithoutConsent`, for any finite set of persons and any bound of notes.

**Resolver.** `InMeetingToolsAreCurated`, `BootCoversSpawn` and `BackstopIsPartial` hold for all profiles,
with and without a Brain.

**Tools.** `ToolsInv` is `TypeOK`, `BootInv` (the names taken down are those the resolver gives, and the
self-test passed; a message was only lost if the resolver raises), `ThreadInv` (the actor of a thread, what
waits for it and what cortex was given agree: tools, key, and a renderer that shows a message its sender has
written) and `CallInv` (a call belongs to a running dispatch; one of a meeting uses a tool of the meeting and
asks what that tool asks). `CallInv` needs `ThreadInv` (a call's tool is one that cortex was given, and that
was the resolver's), and both are needed for `MeetingAsksWhatIsSwitchedOn`. All six safety properties are theorems, for
any number of persons, profiles, series and open calls. `CallInv` and `InMeetingToolsAreCurated` together give
`ToolsOnlyCuratedAnswered`: no call of a meeting reaches the Brain, or is answered otherwise than with an error,
for a tool that is not curated, is blocked or is the owner's.

**Where the promises of section 6 do hold.** A finding says that a promise of the documentation can be broken.
These theorems say by what alone, so that each is both the limit of the damage and the condition a repair has to
establish. Their hypotheses exclude one step of the code and restrict nothing else; the last row has none, and says
what holds anyway:

| Finding | Theorem | Holds unless |
|---|---|---|
| `DrainSettles` | `ActorDrainSettlesUnlessLeft` | a leave sets the marker while an event is in flight |
| `ShutdownEnds` | `ActorShutdownEndsUnlessSuppressed`: who awaits the worker awaits one that has ended or is about to raise (`EndingInv`) | a cancellation is suppressed at the timer that was cancelled, or in a cleanup that an error began (`SuppressesCancel`) |
| `WorkerRunsUntilCancelled` | `ActorWorkerRunsUnlessCrashed` | the fallback of `except CortexUnavailable` cannot be sent |
| `OneWorkerPerThread` | `PoolOverlapsOnlyInReaps` | one of the two workers is in the hands of a reap task (or shutdown has begun) |
| `PersistentRemoveSticks` | `AdminAnsweredIsDurable` | the removal was a no-op in memory and never sent, the person was edited later, or writes overlapped |
| `SearchStaysInSeries` | `ToolsMeetingAsksWhatIsSwitchedOn`: past meetings are searched only if the profile switches that on, and without a filter only if it is of no series | – (the model's choice of a series is not limited by anything) |

`ActorDrainSettlesUnlessLeft` rests on `RestInv` (then the idle marker is set only between
events), `ActorShutdownEndsUnlessSuppressed` on `RaisingInv`,
`ActorWorkerRunsUnlessCrashed` on `EndedInv` with `CancelInv`.

Every invariant, action property and refinement that a passing run checks is a theorem. Only model-checked: the
liveness properties (`EventuallyServed`, `CancelHonoured`, `AbsentAreReaped`, `ShutdownReturns`,
`RatificationEnds`, `ToolCallsEnd`), since liveness and `ENABLED` are out of the prover's reach. Of four of them
the safety half is proved, and what is left to TLC is that fair steps are taken: `AwaitsEnd` for
`EventuallyServed` (no await of the worker is a dead end), `EndingInv` of the actor for `CancelHonoured`,
`AbsentHaveReapDue` for `AbsentAreReaped` (the reap is armed or due), and for `ShutdownReturns`
`PoolAwaitsOnlyTheEnding` (its exception, `Ignored`, comes from a swallowed cancellation alone) with
`PoolWaitsEndInCalls` (the workers do not wait for one another in a circle).

## 6. Findings

Six runs end in a violation. Each states what a docstring, the design spec or a test says (`spec:n` is line n of
`docs/specs/2026-05-11-lattice-meeting-assistant-v0.1-design-spec.md`):

1. `DrainSettles`: `drain()` takes the idle marker for a settled worker, but a leave sets it too; with an
   event in flight the drain returns at once and its caller cancels the worker, so the reply is lost.
2. `ShutdownEnds`: a cancellation that reaches the worker while it awaits the timer it cancelled is
   suppressed with the timer's own; the worker goes on and `await self._worker` never returns.
3. `WorkerRunsUntilCancelled`: the fallback of `except CortexUnavailable` is sent outside of any `try`;
   when that send raises the worker ends and the actor keeps accepting messages nobody reads.
4. `OneWorkerPerThread`: a reap pops the actor before draining it; a message meanwhile spawns a second.
5. `PersistentRemoveSticks`: a persistent removal after a session-scoped one of the same person is
   answered as done and written nowhere.
6. `SearchStaysInSeries`: `past_meetings.py:9-10` says that a meeting "must NOT search the full personal vault",
   and lines 16-18 that the model may override the series "only to a series in the same scope". A profile of no
   series, such as a default profile taken after a failed match or ratification, searches the vault without a
   filter (lines 114-123; the resolver registers the tool all the same), and any series may be named (105-106).

Also visible in the models, or met while reading, without a run of its own:

- With a canonical id `"public"` the private thread is the public one, and its answers go to everyone: the
  key's second half alone chooses the send path (`assistant.py:464`, `actor.py:337`; `privacy/invariants.py:201-204`
  says they cannot collide, of a key function nobody calls). Adding `Public` to `Persons` in `Ingress.cfg`
  shows it as a violation of `RepliesStayOnTheirPath`.
- An actor spawned while `Assistant.shutdown` drains its snapshot (`assistant.py:741`) is dropped from the pool by
  the last line (755) with its worker running and nothing left to cancel it; the docstring says "Drain every actor
  in the pool, then cancel its worker" (719), the design spec "cancel all workers" (spec:986).
  `ShutdownMissesOnlyNewcomers` is the limit of it.
- A message that arrives after its sender left is taken for a rejoin ("the sender rejoined",
  `assistant.py:471`): it cancels the reap timer, and nothing arms one again, so the actor stays until
  shutdown, against the lifecycle table (spec:983). `AbsentHaveReapDue` and `AbsentAreReaped` speak of senders not
  heard of since they left.
- `start()` need not have succeeded for messages to be routed: with a refused profile every first message of
  a thread then raises at the spawn and is lost (`dropped`), and before it prompts list no tools.
- A body from the Brain without the expected list, or with entries that are no objects, reads as "nothing
  found" (`Reshaped`); one whose list is null is an error.
- `config.py` says of `allow_personal_vault` that "The resolver overrides this to False unconditionally"; the
  resolver raises.
- A drain may time out although the worker is idle (a rejoin clears the marker). It costs time only.
- A filler that cannot be sent cancels the dispatch, and the sender gets the fallback though cortex was
  about to answer (`FillerFails`; `actor.py:349-350`: "send a filler stall message to the user AND continue awaiting").
- During shutdown a message may be enqueued for an actor whose worker has already ended.
- An orphaned reap timer may reap the actor of a sender who is back; the history is lost, no message.
- The rate limit counts accepted mentions. Two answers can follow each other at once when the first is
  late; what holds is two posts (filler, answer) per window begun (`CHANGELOG.md:25`: 1 reply / 30 s).
- Session-scoped allowlist edits outlive their session when a later persistent edit writes the whole
  profile (`admin.py:11`). Mute and tier override are recorded but no chat handler reads them
  (`admin.py:194-195`).
- On a tie of the overlap an undated series wins over every dated one (`series.py:186-188`: "absent
  `last_updated` sorts last"; also 215-216), and a stamp wins over a more precise one that begins with it. A
  candidate whose stamp has a character beyond Latin-1 makes the search raise (`series.py:377`). A best
  candidate without a `series_id` ends the search (`series.py:222` says skip).
- Two tools of the owner are missing from the blocked names (`BackstopIsPartial`); the resolver does not
  need the list.
- `AssistantConfig` has knobs nothing reads: `per_sender_rate_min_interval_ms`, `max_response_tokens`,
  `deep_tier_message_flag`, `remember_across_meetings`, `transcript_hot_window_seconds`,
  `enable_transcript_search_tool`, `allow_mapped_dm`, `allow_anonymous_dm`. `ChatThreadActor._stopping` is written, never read.

## 7. What is assumed

- *Sends.* A send that raises delivered nothing; one that is cancelled may or may not have delivered.
- *The handlers' own replies* (stock and "busy") are sent; if such a send raises, the handler ends and no
  state changes.
- *Cortex.* A cancelled call ends. It answers or raises otherwise.
- *Time* is left out but in the ingress: a timer may fire and a drain may time out whenever it is
  pending. Two orders the loop guarantees are kept: ready callbacks run in the order scheduled, so a
  timer does not end before its dispatch task first runs, and a worker just created runs before a drain
  times out.
- *Compaction.* No caller of the package injects a compactor, so the default (drop the older half) is
  modelled; whether a history is over its cap is a free choice.
- *Tool calls.* The package hands tools to cortex and leaves the loop to it; `dispatch_tool_call` with
  `build_registry` over the same tools is what the docstrings ask of the consumer, and what is modelled.
  Cortex answers when its calls are answered. The names and arguments of calls are arbitrary.
- *HTTP.* The client's timeout ends a request. httpx counts it per connect and per read, so a Brain that
  keeps sending single bytes is assumed away.
- *The Brain* applies a write whole, at some later time, or never. Its answer says nothing about other
  writes.
- *Callers.* The package contains no caller of `SeriesMatcher` and `AdminDispatcher`; their docstrings
  and tests say who calls them, and the modules take their public methods as called one after another
  (series) or while others still wait (admin).
- *The platform* delivers nothing after `Assistant.shutdown` has returned. Before, it may deliver a person's
  messages, leaves and joins in any order, messages after a leave included.
- *The adapter* hands private events to `on_private_chat` and mentions to `on_public_mention`. The thread's key is
  taken from `event.is_private`, not from the handler, so an event with the wrong tag would reach the public thread
  without the rate limit; `ChatIngress` has no such event.

## 8. What is not modelled

- The wording of prompts and replies, log redaction, note format and HTTP: text work without state. The
  prompts' placeholders (transcript window, voice, history) are always empty in this version.
- Durations in the pool, so not the total time of a shutdown (each drain gets at least 0.1 s, which with many
  actors exceeds the documented total; listed as a hazard).
- What no code of the package calls: in the actor `seed_history` (test hook), `is_idle_for`, a second `start`;
  the wrap-up consumers, which are registered and never called; `thread_memory_key`,
  `assert_separated_send_paths`, `assert_not_admin_in_meeting`, `log_chat_event`; `build_tool_spec`.
- The transcript buffer, which belongs to the adapter: its tools are answered with matches, without, or with an error if the source raises.
- `mute` and tier overrides beyond the dispatcher: no code that handles a chat reads them.
- Types, configuration and exceptions: data; the modules' constants name the fields they stand for.

## 9. Plan

Done, in order of importance: the actor and its service with proofs; the pool with proofs; ingress and admin
dispatcher with proofs; series matching with proofs; the resolver; the actor of the pool as a specification
that both the actor and the pool refine; tools, prompts and boot with proofs. What would come next:

1. *Pool and ingress in one*, so that the gates' rate limit meets reaps and respawns: today they share the
   thread key and `ThreadWorker` only on paper.
2. *A clock for shutdown*, to state what its total time is bounded by.
3. *The profile's note* with partial or foreign contents at load, once a caller of `load_profile_from_yaml`
   exists that decides what to do with a refusal.
