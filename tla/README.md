# DreamWeaver: a formal model

TLA+ modules that model the stateful core of DreamWeaver, TLC configurations that
check them on small instances, and TLAPS proofs of their safety properties for
every value of the constants. Paths below are relative to the repository's root;
`api/` stands for `api/src/`, `infra/` is `api/infrastructure/`.

1. [The system](#1-the-system)
2. [Modules and the code they model](#2-modules-and-the-code-they-model)
3. [Runs, bounds and what they show](#3-runs-bounds-and-what-they-show)
4. [Fairness](#4-fairness)
5. [What is proved, and how](#5-what-is-proved-and-how)
6. [Where code and documents disagree](#6-where-code-and-documents-disagree)
7. [Abstractions](#7-abstractions)
8. [Not modelled](#8-not-modelled)
9. [Plan](#9-plan)

## 1. The system

DreamWeaver tells bedtime stories. A Hono API (Node), of which several instances
may run, talks to Gemini, keeps live sessions in Redis and everything else in
Supabase. During a live session a WebSocket carries the child's audio to Gemini
Live and back, through the Node relay or a Cloudflare worker; on the way a
sentinel listens for the signs of sleep. Domain events join the instances: each
publishes to its own subscribers and to a Postgres table whose Realtime feed
reaches the others. A conductor agent suggests themes in turns of the conversation and
in new stories, and learns from the child's answers and from sleep cues. Stories are streamed
from Gemini, checked, stored and told in beats; storing them unlocks companions. Every call of
the model passes a gateway with a circuit breaker whose counters the instances share.

| Component | State it keeps | Operations | Talks to | What is hard |
|---|---|---|---|---|
| Session store, Redis (`infra/adapters/RedisSessionState.ts`) | session key, lookup key and index of a user, each with an expiry; a history of 10 states | `get`, `set`, `patch`, `rollback`, `delete` | all instances share it; used by live routes and conductor | key resolved in one round trip, used in another; delete is a pipeline; two expiries |
| Session store, memory (`InMemorySessionState.ts`) | a map of objects | the same | tests, single instance | objects are handed out by reference |
| Live tool calls (`routes/live.ts`, `routes/demo.ts`, `ToolExecutionRouter.ts`) | 200 processed call ids in the session | `init`, `tool` | session store; memory, images, share links through the tools | read, check, write and run are four steps of requests that race |
| Event bus, Supabase (`infra/events/SupabaseEventBus.ts`) | processed ids, queue, timer, per instance | `publish`, flush, Realtime handler | `domain_events`, all subscribers | own rows come back, before the INSERT's answer or after it; trimming; batches that fail; answers that get lost; a queue that grows during an INSERT |
| Event bus, memory (`InMemoryEventBus.ts`) | handler sets | `publish`, `subscribe` | subscribers | nothing |
| Sleep sentinel (`api/domain/agents/SleepSentinelAgent.ts`) | confidence, silence, last cue, current session | chunk, interruption, `monitor` | live sessions, event bus | one sentinel for all sessions; state set after an awaited publish |
| Live relay, Node (`GeminiLiveRelay.ts`, `GeminiLiveSession.ts`) | two sockets, early audio, the current session | setup, audio, close, error, sleep cue | client, Gemini, sentinel, event bus | orders of two sockets; a second setup; leaving early |
| Live relay, worker (`ws-worker/src/index.ts`) | two sockets, queue of early frames, `geminiOpen`, `isClosing` | upgrade, frame, close, error of either socket | page, Gemini, API | the queue holds the setup message; closes that bypass `safeClose`; codes that `close()` refuses |
| Tickets and upgrade (`api/index.ts`, ticket stores) | one-time tickets | issue, consume, upgrade | live routes, relays | consumed before the upgrade has succeeded |
| Bedtime conductor (`BedtimeConductorAgent.ts`, `ActiveGoal.ts`) | theme suggested last, counters, start and phase in the session; outcomes and preferences in memory | turn, sleep cue, new story (beats and goals: see 7) | session store, event bus, memory, gateway | the session is read, awaited upon and written back whole, on every instance; a failed read looks like a new session; retries |
| Consolidation and moments (`SessionConsolidator.ts`) | none | on cues and last beats | event bus, memory | one summary per instance and cue |
| Gemini gateway (`GeminiAIGateway.ts`, `RedisCacheAdapter.ts`) | open flag, failure count, tokens, cost, answered stories, in a cache | check, record success, record failure, around every model call | cache, Gemini; used by conductor, stories, safety check | check before and record after the call; get and set on a shared cache; `INCR` and `EXPIRE` apart |
| Story generation (`GenerateStoryUseCase.ts`, `SafetyGuardian.ts`, story repository) | the stories | generate | gateway, safety, event bus, unlocks | chunks published before the safety check; fallback after half a stream; failures between storing and telling |
| Companion unlocks (`CheckUnlockUseCase.ts`) | unlocked and blocked companions | check, before and after each story | stories, Supabase, moderation | three reads and some upserts that race with other stories |
| Share links, rate limit | rows, counters | view, count | Supabase, Redis | a read before a write |
| Agent memory, voices, feedback, digest, speech, storage | rows, files | requests | external services | little |
| Web frontend (`src/src`; the hook `useGeminiLive.ts`) | the current socket, `isConnected` | connect, disconnect, leave the page | API, sockets | a second connect while the first awaits; leaving in the middle of one |

What makes each of the core components correct:

- **Session store**: a session is a stack of versions whatever calls race on it;
  a call never brings a deleted or expired session back under a key that no
  lookup and no index name; the lookup never leads nowhere.
- **Tool calls**: a call id runs its tool once; a retry of an executed call is
  refused; a call changes only the caller's session. None of the three holds
  without exceptions, and the properties name the exceptions exactly.
- **Event bus**: an event reaches the subscribers of every instance, once; what
  is lost is lost for a reason that the properties list.
- **Sentinel**: a child that just spoke is not asleep; cues keep the cooldown and
  name a session with its own user.
- **Conductor**: a suggestion is credited or blamed once; the counters the quality gate
  divides are backed by outcomes in memory; a preference is of a suggestion over another
  that was turned down; what is in a session is not lost to a stale copy without a reason.
- **Relay, Node**: a session listens while it is up and no longer; what a client says early
  is sent later (it is not, see 6); the end of either socket is the end of the other.
- **Page and worker**: Gemini hears the setup first; a page that is left leaves no socket behind;
  one end of a relay does not outlive the other.
- **Gateway**: the budget is overrun by the calls under way and no more; a breaker that has
  closed is not opened again by a single failure; a call ends.
- **Stories and companions**: what listeners hear comes in order, the answer last; companions that
  are due are unlocked whatever runs at the same time, and reported as new once.

`PROJECT.json` lists the hazards of this code, each at its line, with the properties
that cover it or the reason why none does.

## 2. Modules and the code they model

| Module | Models | State and steps |
|---|---|---|
| `SessionVersions` | what `SessionStatePort` promises: a stack of versions per key | `Push` (set, patch), `Pop` (rollback), `Drop` (delete, expiry) |
| `SessionStore` | `RedisSessionState` | One `Client` is one call in flight. `Set` is one Lua script; `Patch` and `Rollback` are scripts after a `Resolve`; `DelKey`, `DelLookup`, `DelIndex` are the commands of the pipeline; `Fail` ends a call anywhere; `Tick` advances the expiries. The legacy key of a session is a key with no user |
| `InMemorySession` | `InMemorySessionState` | Objects have an identity: `Get` hands out the stored one, `Assign` changes its fields in place, `Set` is given it |
| `LiveToolCalls` | `POST /live/init`, `POST /live/tool`, the demo twins, the conductor's turn as far as it writes the session | One `Request` is one in flight: `ToolCall` (get, ownership and duplicate checks), `Record` (patch), `Execute` (tool); `Turn`, `Create`, `StoreTurn` for the conductor, whose get finds no session when Redis fails; `End` is a crash or an error anywhere; keys and lookups expire |
| `EventBus` | `SupabaseEventBus` on every instance, the table and the feed | `Publish`, `Flush` (timer), `Execute` (Postgres stores or refuses what was sent, and the rows are in the feeds), `Answer` (the await ends: with an answer, an error or a lost answer), `Outage` (it ends with an error before Postgres has worked on the rows, which are gone or come later), `Deliver` (Realtime), `Miss`, `Crash` |
| `SleepSentinel` | `SleepSentinelAgent` | `Monitor` attaches a session; `Quiet`, `Noisy` are chunks; a cue is in `publishing` until `Returned`; `Interruption`; `Tick` |
| `LiveRelay` | one `handleConnection` with the `GeminiLiveSession`s it starts | `Setup`, `SetupFails`, `Audio`, `Started`, `StartFailed`, `BridgeOpens`, `BridgeCloses`, `SleepCue`, `ClientError`, `ClientCloses`; a bridge is a session with Gemini |
| `Conductor` | `BedtimeConductorAgent` on one session, with `QualityGate`, `AtomOfThoughtEngine.transition` and the retries of `ResilienceEngine` | One `Handler` is a turn, a cue, a story or a tool call in flight: `Begin` (get), `Create` (set of a new state), `JudgeTurn`, `JudgeCue`, `IgnoreCue` (what the answer or the cue means), `Store`, `Start`, `Think` (model call), `Get` (the second read), `Suggest`, `SuggestUnconfirmed`, `Fail`, `End`; `BeginTool` and `Patch` are `POST /live/tool`, `InitSession` and `Expire` the rest of the world |
| `Gateway` | `GeminiAIGateway` on the keys of `RedisCacheAdapter` | One `Call` is one in flight on some instance: `Begin`, `LookUp`, `CheckOpen`, `CheckCost`, `CheckTokens`, `OpenCircuit`, `Answer` or `Fault` (Gemini), then `recordSuccess` command by command (`Forgive`, `Bump`, `ReadTokens` ... `WriteCost`), `Parse`, `StoreStory`, or `recordFailure` (`Count`, `Expire`). Each command may fail or lose its answer (`GetFails`, `Break`, the disjuncts); `Crash`; `Tick`, `UsageExpires`, `StoryExpires` are the expiries |
| `StoryPromise` | what the use case promises client and listeners | `Chunk`, `Shelve`, `Event`, `Tell`, `GiveUp` |
| `Stories` | `GenerateStoryUseCase`, `CheckUnlockUseCase`, `SafetyGuardian` as far as it decides, the repositories with `withRetry` | One `Story` is one execution: `Begin`, the check of companions (`CountStories`, `ListUnlocked`, `ListBlocked`, `Unlock`, `EndCheck`), `Chunk`, `StreamEnds` or `StreamBreaks` and `Generate`, `CheckContent`, `Save`, the check again, `PublishEvent`, `Answer`; `Fail` anywhere; `Block` is a moderator |
| `LiveConnection` | `useGeminiLive` and the worker's `handleLiveWebSocket`, with the ticket between them | One `Attempt` is one call of `connect` and the worker's relay for it. Page: `Connect`, `InitFails`, `InitDone`, `Opens`, `Disconnect`, `Closes`, `Breaks`, `Speak`. Worker: `Accept`, `HandleFrame`, `UpstreamOpens`, `UpstreamEnds`, `AnswerFails`, `ServerHears` |
| `MC...` | | the sets that a `.cfg` cannot write, and symmetry. `MCLiveApi` and `MCLiveTransport` hold two modules each, side by side (see 3) |
| `...Proofs` | | theorems about the module of that name; `LiveSessionProofs` holds those about `SleepSentinel` and about `LiveConnection`. The four modules of a live session name what every module has apart, so that two can be extended at once: `SentinelInit`, `RelayInit`, `ConnectionInit`, and plain `Init` in `LiveToolCalls` |

The variables that follow the code's names hold what the code holds; the others are
history, named as such in the declarations: `halfDeleted`, `unindexed`
(`SessionStore`), `executed`, `repeated`, `overlapped`, `forgotten`, `seen`
(`LiveToolCalls`), `handled`, `again`, `trimmed`, `lost`, `missed`, `crashed`
(`EventBus`), `cues`, `last`, `rest`, `resumed` (`SleepSentinel`), `heard`, `sent`,
`toldCues`, `early` (`LiveRelay`), `offered`, `again`, `disputed`, `behind` (`Conductor`), `spent`, `blurred`,
`slipped` (`Gateway`), `rank`, `earlier` (`Stories`), `first`, `gap`, `stuck`, `astray` (`LiveConnection`).
In `Conductor`, `judged`, `rejected` and `preferred` are the agent's memory. No guard reads them except where a bound says so; `Think` reads `offered` to make each suggestion an occasion of its own.

Definitions preceded by `\* Mutation:` are the changed forms of the definition below
them. Each is a plausible slip in the code and makes one property fail; no
specification uses them. `PROJECT.json` pairs them with the properties.

How the models meet: `LiveToolCalls` uses the session store as its callers see it,
each call being one step, where `SessionStore` shows what the steps inside a call may
do. `SessionStore` implements `SessionVersions` (`V == INSTANCE SessionVersions WITH versions
<- versions`) and `Stories` implements `StoryPromise` (`P == INSTANCE StoryPromise WITH end <-
Outcome`, where `Outcome` maps the places of an execution to open, told or failed). Cues that `SleepSentinel` publishes are the `Unfit` events of
`EventBus` and the `SleepCue` action of `LiveRelay`. The beats that `Stories` publishes are `Unfit` too.
`LiveConnection` composes the page with the worker; `LiveRelay` is the Node server's relay for the
same page. A call in `Stories`, `Conductor` and `SafetyGuardian` that fails is one that `Gateway` refused
or counted.

## 3. Runs, bounds and what they show

| Run | Instance | Distinct states | Shows |
|---|---|---|---|
| `session_store` | 2 users, 1 session id, 2 calls in flight, 2 data, history 1, expiry 2 ticks, rollback by up to 2 | 950,599 | `ImplementsVersions`, `BornReachable`, `LookupBacked`, `IndexCovers` |
| `event_bus` | 2 instances, 2 events and a cue, batches of 2, 2 ids kept, trim 1, 1 failure | 691,360 | `HandledOnce`, `YoungestKept`, `LossExplained`, `ReachesAll` |
| `live_api` | tool calls: 2 users, 1 session id, 2 requests, 3 call ids, 2 remembered, history of one call; sentinel: 2 sessions and users, up to 3 quiet chunks counted (4 in `rest`), 4 instants, 2 cues | 2,467,714 | `RetryRefused`, `DuplicateExplained`, `RecordsAtHome`, `Survives`; `RestAfterWaking`, `CooldownBetweenLoneCues`, `CueNamesAPair` |
| `live_transport` | relay: 3 bridges, 3 setups, 4 chunks, 2 kept, 2 cues; page and worker: 2 attempts, 2 frames kept, 1 further frame | 813,330 | `ListensWhileUp`, `LeaksExplained`, `EndsWithSession`; `SetupFirst`, `LeftExplained`, `EndsTogether` |
| `conductor` | 2 handlers, 2 suggestions, 2 attempts, 2 turns counted, critical rate 50% | 3,795,849 | `JudgedOnce`, `InterventionsBacked`, `PreferenceBacked`, `LossesExplained` |
| `gateway` | 2 calls at a time, 3 in all, opens after 2 failures, budget of 1 answer, 3 tokens, expiry 2 ticks | 369,974 | `OverrunBounded`, `FreshStart`, `CallsEnd` |
| `stories` | 2 stories, 2 companions due after 1 and 2 stories, 1 beat, 1 chunk | 1,227,405 | `ImplementsPromise`, `DueAreUnlocked`, `NoDoubleReport` |
| `event_persistence` | as `event_bus`, no failure | | `EveryEventPersisted` is violated |
| `sentinel_flood` | as the sentinel of `live_api`, 3 cues | | `NoFlood` is violated |
| `early_audio` | as the relay of `live_transport` | | `EarlyAudioFlushed` is violated |
| `sleep_phase` | as `conductor` | | `SleepCueLeavesAsleep` is violated |
| `inmemory_history` | 1 caller, 2 data, 4 objects | | `PreviousStateKept` is violated |

Each run checks its modules' type invariants too. `live_api` and `live_transport` hold two modules
each that share no variable: one of them moves while the other is in its initial state, so that
each has the behaviours it has alone, and the products of their states, which would show nothing, are not
visited. No step to which a module's fairness refers is enabled in its initial state, so the
one at rest owes nothing and the fairness of the one that moves is its own.

Why the bounds are enough for the interesting cases:

- *session_store*. Two users may own one session id; two calls in flight with sets at
  any moment give every order of a patch, a rollback and a delete with each other. A
  history of 1 trims on the second write. Expiry 2 lets the session key be renewed
  while the lookup is not. Sessions share nothing but a user's index, whose elements
  do not interact, so one id is enough.
- *live_api*, tool calls. A list of 2 with 3 ids forgets; two requests overlap in every phase; a
  user may take over the other's session id. The history is kept of one call
  (`Watched`), and by symmetry it may be any; the proofs are for all of them.
- *event_bus*. Three events fill a batch and leave one for the timer; two ids kept with
  three events trim; one failure may hit any step. The rows of an INSERT may reach either
  instance before its answer, after it, or after an error. A cue may be made by both instances
  with the same id, as two sentinels can in one millisecond.
- *live_api*, sentinel. The numbers are the code's in steps of 0.05 (`Full` 20, `Threshold` 17,
  `Reset` 16, `Loud` 1, `Moving` 2, `Wake` 6). Gains of 0.05 in place of 0.01 to 0.054
  make a cue reachable in a few chunks; the thresholds of 10 and 20 chunks become 1 and
  2. The proofs are for any levels and gains.
- *live_transport*, relay. Three bridges are two that are replaced and one that lives; four chunks
  overflow a buffer of two.
- *conductor*. Two handlers give every overlap of a turn, a cue, a story and a tool call with
  each other and with a story's own retries; init and expiry happen at any moment. Two
  suggestions are one turned down and one that is preferred, or one overtaken by another. With the
  code's 70% a preference needs four turns, with 50% two (a "yes" or silence and a "no");
  two attempts retry once and then fall back. The proofs are for any rate, any number of
  attempts, handlers and suggestions.
- *gateway*. Two calls give every interleaving of two checks, two successes, two failures or one of
  each on the keys; a third begins when the breaker has closed again. The budget of one answer is
  reached by the first, overrun by the second. Two failures open the breaker, so that the first one sets
  the expiry and the second the flag; two ticks let either end before the other. The proofs are
  for any number of calls and any limits.
- *stories*. Two executions overlap at every read and write, or follow one another; one companion
  is due after the first story, the other needs both, so that a count may be stale when it is used. Chunks and
  beats are interchangeable: one of each gives their order with storing and telling. The proofs are for
  any number of stories, companions, beats and chunks.
- *live_transport*, page and worker. The second connect comes while the first awaits its init, while its socket is
  connecting, or after it has ended. The queue of two holds the two frames of `onopen` exactly, and the
  one further frame overflows it. The safety proofs are for any number of attempts, any length of the
  queue and any number of frames; only `EndsTogether` rests on the two attempts.

Deadlock is checked in `session_store`, `live_api` and `conductor`. The others may stop: a bus
without events, a relay that is closed, a gateway after its calls,
stories that are told, a page that is left.

## 4. Fairness

`EventBus` (`FairSpec`): weak fairness of `Flush` of an instance (a `setTimeout` fires),
of Postgres working on an `INSERT` it was sent (`Execute`), of the await of one ending (`Answer`:
supabase-js resolves, with an answer or an error) and of the delivery of a row that is on its
way. Publishing, outages, missed rows and crashes are
never forced.

`LiveRelay` (`RelayFairness`): weak fairness of the end of a start that is awaited, of a
connection attempt, which succeeds or fails, of the answer to a close, which `ws` times
out, and of `close` after an error or a close on the client's socket. Nobody has to
close a session that is open or a connection that works.

`Gateway` (`FairSpec`): weak fairness of a call's commands on the cache, each of which the
client answers or rejects, and of the end of a call to Gemini that races the timer. The timeout of a
stream is looked at when a chunk comes (`GeminiAIGateway.ts:349`), so a stream that is waited for is
given no fairness, and `CallsEnd` excepts it. That Gemini answers is never assumed.

`LiveConnection` (`ConnectionFairness`): weak fairness of what browser and worker runtimes deliver: the answer
to a handshake (`Opens`, `Refused`), frames that were sent (`HandleFrame`), a close to both of its
ends (`Closes`, `ServerHears`). Nobody has to disconnect, and Gemini has to do nothing.

The other modules state safety only and assume no fairness.

## 5. What is proved, and how

All theorems are of the form `Spec => []P` or `Spec => [][A]_vars` (and one refinement), for
any constants that satisfy the named assumptions of the module: any number of users,
sessions, requests, instances, events and upstream sessions, any limits.

**`SessionStoreProofs`**. Inductive invariant: `TypeOK`, `HistoryBounded`, `LookupBacked`,
`IndexCovers` and `DeletedIsGone`. The last one says what a delete under way has done to
its key; without it the end of a delete could remove from the index a session that is
there and not in `unindexed`. Theorems: `TypeCorrect`, `HistoryAlwaysBounded`,
`LookupAlwaysBacked`, `IndexAlwaysCovers`, `NewSessionsReachable` (only a set, which also
writes lookup and index, makes a key) and `StoreImplementsVersions`, the refinement: a step
of the store pushes, pops, drops or stutters.

**`LiveToolCallsProofs`**. `RetryRefused` and `DuplicateExplained` are not inductive: they
need to know where an id can be when it is not in the list. The invariant adds
`SeenCovers` (a user with a state has been seen), `SnapshotsOld` (what a request carries is
still in the session or was forgotten since), `PastRemembered` (a call past its record is
remembered, unless forgotten), `NoneBehind` (while a call is remembered no request is about to
record it again) and `RunsOnce` (a call that has run is not about to run, and at most one
request is about to run it), all of them for the calls whose history is kept and whose
session id is not shared. Theorems: `TypeCorrect`,
`RetriesRefused`, `DuplicatesExplained`, `RecordsStayHome` and `IdsSurvive`. The last one needs an
invariant of its own, `Trimmed`: neither a session nor a request carries more ids than the
slice leaves, so that a write of the list a request has read drops the head of a full
list and nothing else (`RecordedKeeps`).

**`EventBusProofs`**. Invariant: `TypeOK`, `HandledOnce`, `Remembered` (what was handled or
waits is processed or trimmed) and `Waiting` (what a publish will hand on after its INSERT
has not been handed on yet, nor does another INSERT wait for it, trimmed ids aside). `Waiting` is where the
race is: the feed may bring the row while its INSERT is awaited, and `Deliver` must find it processed. Theorems: `TypeCorrect`, `EventsHandledOnce`,
`TrimsTheOldest`, `LossesExplained`, `NothingStranded`.

**`LiveSessionProofs`**, the sentinel. Invariant: `SentinelTypeOK`, `LoneCue` (if the last cue was
published alone, the publishes in flight are its own, and when none is left `lastCueAt` is
its time) and `Attaching` (the live pair is one that was opened). `RestAfterWaking` needs `Rested`: the silence
that is counted is not longer than the rest, so that a chunk adds no more than the next
term of `MostGain`, because the gain grows with the silence (`GainGrows`). `MostGain` is a recursive
function; that there is a function with its equations is proved by induction over an
explicit set (`SetInduction`, `RunningSum`), and `MostGainAdds` is the equation the steps use. Theorems:
`TypeCorrect` (the confidence stays between 0 and 1), `LoneCuesCooled`, `CuesNamePairs`, `RestsAfterWaking`.

**`LiveSessionProofs`**, page and worker. Invariant: `ConnectionTypeOK`, `Flow` (a socket to Gemini that
is open has an empty queue before it; as long as Gemini has heard nothing and no frame was given up, the setup is at the head of
the queue, or of the wire, or the page's socket has not opened) and `Held` (a socket of the page that is up is the one
`wsRef` holds or is astray). `SetupFirst` alone is not inductive: it says nothing of the queue the next
frame comes from. Theorems: `ConnectionTypeCorrect`, `SetupAlwaysFirst`, `LeftAlwaysExplained`, `NothingLeftOver`.

**`LiveRelayProofs`**. Invariant: `RelayTypeOK`, `Starts` (the sessions being started are
connecting, each is there once, and a client that is gone has none), `ListensWhileUp`, `LeaksExplained`.
Theorems: `TypeCorrect`, `SessionsListenWhileUp`, `EveryLeakExplained`, `NeverCatchesUp`, `EndsAlwaysPassedOn`.
`NeverCatchesUp` is the other side of the run `early_audio`: TLC shows one buffered chunk that is dropped, the
theorem that no buffered chunk is ever sent.

**`ConductorProofs`**. `Known` says what a handler carries at which place and that all of it has
been offered, judged or rejected. On top of it stand four invariants, each for a
question of its own. `Counted`: not only the session but every copy that may be written back
is `Sound` against the memory, and `SoundStays`, because the memory only grows. `Once`: a suggestion that
is not disputed is with one handler at a time, and after its verdict in no copy, in the
session only until that handler has stored; before it is stored for the first time it is
with one handler and nowhere else. `PreferenceBacked` is inductive with `Known`. `Copies`: a copy that is not behind
is the session, or goes on from it. Theorems: `TypeCorrect`, `SuggestionsJudgedOnce`,
`InterventionsAlwaysBacked`, `PhasesFollowStart`, `PreferencesBacked`, `LossesAlwaysExplained`.
All properties of the run are proved. `PhasesFollowStart` says why `sleep_phase` is violated: no write,
of whatever copy, brings a session into a phase that a cue leads to sleep from.

**`GatewayProofs`**. Invariant: `TypeOK`, `SpendAccounted`, `Bounded`, `Expiring` and `FreshStart`.
`SpendAccounted` is the ledger: the recorded cost and the calls in the middle of `recordSuccess` make up
what was spent, unless `blurred`. `OverrunBounded` is not inductive: `Bounded` adds to what was spent the calls that the
cost has let pass and Gemini has not answered, and counts places of calls (`CountMoves`). `Expiring` says that a
counter without an expiry has a call about to set it, which `FreshStart` needs. Theorems: `TypeCorrect`, `SpendAlwaysAccounted`,
`OverrunAlwaysBounded`, `StartsAlwaysFresh`, `CallsRunDown`.

**`StoriesProofs`**. `ShelfFits` says what is on the shelf at which place of an execution; `ReadsHold` that what
a check has read as unlocked or blocked still is; `DueGranted` that a story's rank is at most the shelf and, after its
second count, at most what it counted, so that what it is due is unlocked when the check has
ended; `ReportsApart` where an earlier story's news are in each step of a later one's two checks. Theorems:
`TypeCorrect`, `DueAlwaysUnlocked`, `NeverReportedTwice` and `KeepsPromise`, the refinement of `StoryPromise`.

Proved, and in no run: `HistoryBounded` and `SpendAccounted`, which `ImplementsVersions` and `OverrunBounded`
need and the runs check; `NoCatchUp` and `PhaseFollowsStart`, which explain two violations.

Model-checked only: the four liveness properties `ReachesAll`, `EndsWithSession`, `CallsEnd` and `EndsTogether`
(fairness and ENABLED are beyond the prover). Of each the safety half is proved, for any
constants: that nothing comes to rest where no fair step would take it on, or, for calls, that they
cannot go round.

| Liveness property | Safety half, proved | What it says |
|---|---|---|
| `ReachesAll` | `NoneStranded` (`NothingStranded`) | an event that a subscriber still lacks is in a queue with a timer, in an INSERT that was sent, in the feed, or held by a publish that awaits an answer; the invariant is `Covered` |
| `EndsTogether` | `NoneLeftOver` (`NothingLeftOver`) | when one end of a relay has gone, a close or a handshake's answer is due at the other, or the relay is `stuck`; the invariant is `Ending`. An end stays gone, so that "in the end, if one has gone, both have" (`<>[]`) says that each end is followed by the other |
| `EndsWithSession` | `EndsPassedOn` (`EndsAlwaysPassedOn`) | the client's socket of a session that has ended is not open any more; for a failed start there is none, it is one step |
| `CallsEnd` | `RunsDown` (`CallsRunDown`) | a call takes at most fifteen steps, each to a place nearer to its end |

That the steps that are due are enabled, and that fairness then takes them, is what TLC adds on the
runs' instances. Every invariant and every action property that a run checks is proved. `InMemorySession`
has no proofs: its one property is refuted.

## 6. Where code and documents disagree

Each is shown by a run with a counterexample.

- `EveryEventPersisted`. `docs/23-solution-architecture-spec.md:38` has domain events persisted
  in Postgres. The id column is a UUID; sleep cues and story beats have ids that are not,
  so their INSERT is refused and takes the whole batch with it
  (`infra/events/SupabaseEventBus.ts:88`). No outage is needed.
- `NoFlood`. The reset after a cue is there "to avoid flooding events"
  (`SleepSentinelAgent.ts:163`), but it comes after an awaited publish that the audio
  handler does not await: chunks that arrive meanwhile publish more cues.
- `PreviousStateKept`. `SessionStatePort.ts:31` asks for the previous state in the history;
  the in-memory store hands out its object, so a caller that changes it and sets it gets
  its own new values there. The Redis store keeps the port's word (`ImplementsVersions`).

- `EarlyAudioFlushed`. "Buffer early audio if client sends it before setup" and "Flush buffered
  audio" (`GeminiLiveRelay.ts:35`, `:168`): the flush runs when the session's socket has
  only been created, and `sendAudio` drops what it is given until the socket is open
  (`GeminiLiveSession.ts:71`). The buffer is emptied and nothing of it is sent.
- `SleepCueLeavesAsleep`. "Session state should be updated to SLEEP_DETECTED", says
  `BedtimeConductorAgent.sleep.test.ts:76` and expects `ASLEEP`. The test stores a session in
  `STORYTELLING`, which no code enters, for nothing signals `STORY_START`. A session that a
  story has started is in `ONBOARDING` and stays there when a cue is credited.

What the models show besides, without a run of its own:

- "Client disconnected. Closing session." (`GeminiLiveRelay.ts:256`): a session whose socket is
  still connecting, or that a second setup has replaced, is not closed by `disconnect()`
  (`GeminiLiveSession.ts:104`) and stays until Gemini ends it. `LeaksExplained` says that these two
  are the only ones.
- A session that is only patched outlives its lookup and cannot be found (`LookupBacked` holds
  in one direction only).
- The audio of one child may raise a cue that names another session of the same process
  (`CueNamesAPair` is about pairs only).
- "Number of consecutive failures before circuit opens" (`GeminiAIGateway.ts:61`): an answer that is
  charged deletes the count before it is parsed (`:158`, `:292`), so answers that are all malformed
  never open the circuit.
- The budget "per session" (`docs/18-env-reference.md:47`) is one for all calls of all instances, since
  its keys name no session; each success adds one token more than it used (`INCR`, `:161`).
- "All content generated ... passes through the SafetyGuardian"
  (`docs/30-voice-cloning-architecture.md:105`): chunks are published before the check, and the title of
  a story that was generated again is never checked. A text that is all inside `<thinking>` is kept
  as it is: sanitized it is empty, and `GenerateStoryUseCase.ts:242` then takes the raw one (`raw` in `Body`).
- A page that disconnects closes its socket without a code. The worker is told 1005, passes it
  to `close()`, which throws, and drops the error (`ws-worker/src/index.ts:126`): the socket to Gemini
  stays until Gemini ends it. If Gemini ends with 1005 or 1006 the page stays connected to a relay that
  drops its frames. This is `stuck` in `EndsTogether`.
- Companions that an execution which failed later has unlocked in its second check are there in
  the first check of the next one, and are reported as new by neither.
- `StoryRequestPage.tsx:69-90` asks for each story twice, for the stream and for the result: two
  stories are stored, and thresholds are reached with half the requests.

## 7. Abstractions

- A session's state is a value of `Data`, or the list of call ids alone. Merging a patch into a
  state gives any state. Dates that come back from JSON as strings are left out.
- Session ids contain no `:`. `delete` splits the key it resolved at `:` and takes four parts
  for the key of a user; an id with a colon would make it skip the index.
- Upstash's REST client and ioredis send the same commands; both give up after an error.
- In `LiveToolCalls` a call of the store is one step. Its inner interleavings
  are the subject of `SessionStore`. A `get` that fails answers null: a tool call is then refused (403)
  and changes nothing, a turn makes a new state and sets it over the session (`Turn`).
- The legacy key that `get`, `patch`, `rollback` and `delete` fall back to when there is no lookup
  (`RedisSessionState.ts:183`) may be there in `SessionStore` from an earlier release; nothing makes
  one, for `set` writes users' keys only. `LiveToolCalls` begins with no session and leaves it out.
- In `Conductor` too, a call of the store is one step; `set` and `patch` are one Lua script
  each. A suggestion is an occasion, not a string: `PreferenceBacked` does not say that the two
  themes differ, and the code may enter a theme as preferred to itself when the model
  suggests again what the child has turned down.
- The two outcomes of a cue are entered in one step: it is the second handler that
  matters to `JudgedOnce`. Outcomes that the client reports (`LogInteractionUseCase`) are not verdicts on a
  stored suggestion and are left out.
- Goals and beats are left out: `setGoal` has no caller outside the tests, so there is no active
  goal, and `handleStoryBeat` returns after its read. A copy that is no longer written is
  dropped from the model (`state` is `Fresh` at `think`), though the code keeps its phase for
  the prompt.
- A model call that is too slow for the gate, or whose plan is to fall back at once, is a handler that ends (`End`).
- The tools are one effect that happens or not. The audit log of tool calls is left out.
- In `Gateway` an answer costs one unit and one token. `generateAgentThought` and
  `generateStructured` are the same kind of call. The estimate of the cost and the hash of the prompt are left out:
  one prompt has one cached story.
- In `Stories` one user asks; stories of several users share nothing. A text is plain, has
  `<thinking>` in it or around it, is blank, or matches a pattern. The conductor's session, the prompt and
  speech change nothing of the story's state and are left out; their errors are `Fail`.
- In `LiveConnection` a frame is the setup, the first content, or any other. Whether a frame is refused
  for size or rate is open. The answers of Gemini matter only when relaying one fails. The microphone
  is left out: samples are the `more` frames. In the code it may stay on when the page is left while
  `getUserMedia` is awaited (`useGeminiLive.ts:267`).
- A ticket is issued once per `connect` and presented by one handshake, so that its single use
  is not at stake in the model; that the worker asks for it before the handshake is answered, and that
  it may be refused, is.
- Of a Realtime feed: order is kept, rows may be missed, none is invented or repeated. The rows of
  an INSERT enter the feeds of all instances at once, and reach each of them at any time after.
- The subscriptions of an instance are one subscriber; that handlers throw is caught and
  logged in the code, and changes nothing.
- Root mean square, variance and spectrum of a chunk are its class (quiet, loud, moving)
  and an open verdict on breathing.
- In the relay, text and tool frames pass through and are left out. A start that is awaited
  ends before any socket is read again: the awaits in it are of resolved promises.

## 8. Not modelled

- Goals and beats of the conductor: no caller sets a goal.
- Consolidation and moments: each handling of a cue asks the model for a summary and inserts it. How often a cue is
  published and handled is the subject of `SleepSentinel` and `EventBus`; nothing else is at stake.
- Share links (one counter that is read and then raised, see the hazards) and the rate limit (a fixed window in one key).
- The upgrade of the Node server: the ticket is consumed before the handshake, so that one that
  fails afterwards needs a new init, which the page makes with every `connect`.
- The in-memory event bus and cache, agent memory, voices, feedback, moderation beyond `block`, the digest, speech,
  storage and prompts: requests to services, or state without interleavings worth a model.
- `useDemoGeminiLive.ts` and `routes/demo.ts` repeat the live hook and routes; where `demo.ts` writes
  the session it is part of `LiveToolCalls`. The rest of the frontend is presentation.

## 9. Plan

Done, in the order of what matters most to a session: store, tool calls, bus, sentinel, Node relay,
conductor, gateway, stories and companions, page and worker. What is left, in this order:

1. The tool calls on the steps of `SessionStore` instead of on calls that are one step.
2. Share links and consolidation.
