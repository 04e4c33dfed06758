# A verification of the Open WebUI backend (open-connect)

This directory holds TLA+ models of the stateful core of the repository, the TLC
runs that check them on small instances, and machine-checked TLAPS proofs of the
properties that matter most. Paths are relative to the repository root;
`backend/open_webui` is shortened to `ow`. `PROJECT.json` maps every definition to
the lines it models.

1. [The system and its inventory](#1-the-system-and-its-inventory)
2. [The modules](#2-the-modules)
3. [The runs](#3-the-runs)
4. [Fairness](#4-fairness)
5. [The proofs](#5-the-proofs)
6. [Where the code and its comments disagree](#6-where-the-code-and-its-comments-disagree)
7. [What is not modelled](#7-what-is-not-modelled)
8. [Plan](#8-plan)
9. [How to run it](#9-how-to-run-it)

## 1. The system and its inventory

A FastAPI and Socket.IO backend serves a Svelte frontend. It runs as one process, or
as several ("instances") that share a SQL database, Redis and a vector store. Inside a
process everything is one asyncio event loop: a coroutine runs alone from one `await`
to the next. So every race of this code sits at an `await`, or between two processes,
and this is how the models cut handlers into actions: **an action ends where the code
awaits, and a Redis pipeline or a database transaction is one action**. Some Redis
calls (the lock, the pools) are synchronous: nothing of the same process runs during
them, but another process may run before and after. The vector store is called in
threads, so that any request may run during a call.

| Component | State it keeps | Operations | Interacts with | Hard behaviour | What makes it correct | Module |
|---|---|---|---|---|---|---|
| **Task registry** `ow/tasks.py`, used by `ow/main.py` | `tasks`, `item_tasks` in memory; in Redis a hash `tasks` and a set per chat | `create_task`, `cleanup_task` (called by the task's `finally` block and by its done callback), `stop_task`, `stop_item_tasks`, `has_active_tasks`, the pub/sub listener | `chat_completion` creates one task per model and `process_chat` is the task; stop commands travel between instances over pub/sub | a task ends before its creator has saved or named it; SCARD then DELETE; lost commands; a cancellation in the middle of the clean-up; crash | a running task can be found and stopped; nothing finished stays registered; the browser's "active" light goes out | `TaskRegistry` |
| **Distributed lock and cleanups** `RedisLock` in `ow/socket/utils.py`, two loops in `ow/socket/main.py` | one Redis key with an expiry, per loop | `aquire_lock`, `renew_lock`, `release_lock`; acquire with retries, renew, pass, sleep | all instances | expiry during a stall, renewal without an owner check, two-step release, restart after a crash | one cleaner at a time; the cleanup comes back after a restart; it goes on | `CleanupLock` |
| **Collaborative documents** `YdocManager` in `ow/socket/utils.py`, `ydoc:*` handlers in `ow/socket/main.py` | per document a Redis list of updates and a set of users; per session a reverse index; the Socket.IO room | join, state, update (with compaction), leave, disconnect, clear | sessions, notes, the task registry (debounced save) | several handlers of one session at once; compaction races with edits; the last leaver races with the next joiner | no edit is lost; whoever joins misses none; a document nobody uses is freed | `YdocDocument` |
| **Session and usage pools** `ow/socket/main.py` | `SESSION_POOL`: session → user, `last_seen_at`; `USAGE_POOL`: model → sessions; both `RedisDict`s | connect, user-join, heartbeat, usage event, disconnect, the two passes | documents, rooms, cleanup locks | awaits between authentication or the access check and the write; a pass acts on an old read; whole-value read-modify-write from several processes; disconnect skips its work for a reaped session | a live session is listed; a closed one leaves nothing behind | `SessionPool` |
| **Shared model list** `RedisDict.set` in `ow/socket/utils.py` | a Redis hash and a per-process signature of the last write | set, clear | `get_all_models` of every process | the signature is stale when another process has written since | readers never miss a model that stays; when all agree the hash is right | `ModelList` |
| **Automations and scheduler** `ow/models/automations.py`, `ow/utils/automations.py`, `ow/routers/automations.py`, the tools of `ow/tools/builtin.py` | rows with `is_active`, `next_run_at`; runs | claim due rows, run, create, update, toggle, delete, run now | database locks, chat pipeline | two workers and one row (locked on PostgreSQL only); edits that straddle an occurrence; crash after the claim; a clock that is put back; errors while a run is recorded | each occurrence is claimed once, in order; inactive rules do not run; what is due is claimed; every run is recorded | `AutomationSchedule`, `AutomationClaim` |
| **Calendar alerts** `ow/models/calendar.py`, `ow/utils/automations.py` | events with `meta.alerted_at` | find upcoming, alert, mark, edit, delete | scheduler | two instances read before either marks; `meta` merged in Python; one round alerts all events and awaits their webhooks; a round that fails; grace window against poll period | no event goes unalerted | `CalendarAlert` |
| **Chat store and history tree** `ow/models/chats.py`, `ow/models/chat_messages.py`, `ow/routers/chats.py` | a JSON document per chat: messages, `parentId`, `childrenIds`, `currentId`; a table that mirrors it | upsert, delete, merge with the browser's copy | generation tasks, the browser's own saves | whole-document read-modify-write; document and rows written apart | no message is lost; the history is a tree and `currentId` is in it | `ChatHistory`, `ChatStore` |
| **Streamed responses** `ow/utils/middleware.py`, `ow/utils/misc.py` | the output so far, tool calls to run, the stored message | stream, run tools, ask again, run code, cancel, continue | model providers, tools, the chat store | cancellation at any await; two streaming formats; continuing what was cut | no call runs twice; results are kept; a provider gets calls and results in pairs | `ChatStream` |
| **Knowledge files and vector collections** `ow/routers/knowledge.py`, `ow/routers/files.py`, `ow/routers/retrieval.py` | file rows (content, hash, status), links, one vector collection per file and one per knowledge base | upload, add, batch add, update, content update, remove, delete, reset, reindex | SQL and the vector store | two stores without a transaction; deletion by hash; faults between steps | searches find the present content, and find it during an update | `KnowledgeIndex` |
| **OAuth sessions** `ow/utils/oauth.py`, `ow/models/oauth_sessions.py` | a token row per session | get token, refresh, login with pruning, logout | the identity provider | two requests refresh one rotating token; logins that prune at once; errors of the database that the model methods swallow | a valid session is not dropped for nothing; a deleted one stays out | `OAuthSession` |
| **Knowledge directories** (and folders) `ow/models/knowledge.py`, `ow/models/folders.py` | `parent_id` of each row | create, move, delete, move a file | access checks walk the trees | check of a cycle, then act; no check for folders | the relation stays a forest | `DirectoryTree` |
| **Rate limiter** `ow/utils/rate_limit.py` | counters per bucket, Redis or memory | `is_limited` | sign-in routes | bucket boundaries; interrupted round trips | at most the limit in any window | `RateLimiter` |
| xstack secret broker and registry `xstack/services` | maps of secrets, groups, bindings | create, update, rotate, delete | none | partial failure, two-sided references | references of both sides agree | – |
| Plain CRUD models (notes, channels, groups, grants, prompts, tools, file rows) | SQL rows | create, read, update, delete | routers | none beyond the database's | – | – |
| Filters, retrieval, model providers | – | transformation of requests and responses | outside services | – | – | – |
| Frontend `src/` | – | events | Socket.IO | – | – | – |

`PROJECT.json` lists under "hazards" what is hard to test in each component, at its
line, with the properties that cover it.

## 2. The modules

### TaskRegistry (`TaskRegistry`, `MCTaskRegistry`, `TaskRegistryProof`)

The registry in its Redis mode, with the two callers that make it hard.

| State | Code |
|---|---|
| `taskPc`, `cancel` | the `asyncio.Task`: running its body, in its `finally` block ("cleaning"), ended, or lost with its process; `cancel()` requested and not yet thrown |
| `registered` | `tasks[id]`; `item_tasks` holds the same ids |
| `named` | `metadata['task_id']` is assigned, which is what the `finally` block reads |
| `requestPc`, `current` | the fan-out loop of `chat_completion` and the `create_task` call it awaits |
| `hash`, `itemSet` | the Redis hash of tasks and the set of each chat |
| `job[caller][task]` | the clean-up in progress, for the three callers `"chat"` (the `finally` block), `"callback"` (the done callback) and `"stop"` (`stop_task`) |
| `stopPlan`, `stopItem`, `inbox`, `listening` | tasks a stop handler has listed; what its HGET returned; commands delivered; live listeners |
| `told` | the last `chat:active` event the browser got |
| `up`, `faults` | live processes; faults so far |

*Actions.* `CreateTask`, `SaveTask`, `NameTask`, `ReportActive` are the loop of
`chat_completion` cut at its awaits. `FinishBody`, `AbortCleanup`, `CheckActive`,
`ReportInactive` are `process_chat`: the body ends by itself or by a cancellation,
and the `finally` block deregisters, asks `has_active_tasks` and reports. `Drop`,
`Count`, `DeleteSet`, `Forget` are `cleanup_task` and `redis_cleanup_task`, shared by
the three callers: HDEL with SREM in one pipeline, then SCARD, then DELETE, then the
dictionaries (which `stop_task` leaves alone). `StopItem`, `StopListed`,
`LookupItem`, `PublishStop`, `HandleStop` are the stop path. `SaveFails`,
`CleanupFails`, `ListenerDies`, `Crash` are the faults: an exception of a Redis call,
the end of the listener (nothing restarts it), and the death of a process.

*Abstractions.* What the model answers is left out; a task's body just ends. A stop
command is broadcast and ignored by every instance that does not have the task, so
only the delivery to the task's home is kept. The route that stops one task takes an
id from `list_tasks`.

### CleanupLock (`CleanupLock`, `CleanupLockProof`)

`RedisLock` and the control of the two loops that run under it. They are the same
code up to constants, which become the parameters of the module:

| | `Timeout` | `Period` | `Attempts` | retry delay |
|---|---|---|---|---|
| usage pool | 60 s | 3 s | 3 | 30 to 60 s |
| session pool | 60 s | 120 s | 1 | – |

Time passes in `Tick`s and is kept as countdowns (`ttl` of the key, `timer` of each
sleep, `budget` until a process must have taken its next step), so that the state
space is finite without a bound on time. `MaxStall` is how long a step may be
delayed by a busy event loop or a slow Redis.

*Actions.* `Boot`, `Acquire` (SET NX EX), `AcquireFails`, `WakeToRetry`, `Skip`,
`Renew` (SET XX EX, whoever holds the key; a failing renewal ends the loop),
`CleanPass`, `PassRaises` (a KeyError because another process deleted the entry first:
the `finally` block releases), `WakeToRenew`, `ReleaseRead` and `ReleaseDelete` (the
two round trips of `release_lock`), `Die`. The code draws the retry delay once and the
model for each attempt, which allows more. `deadAtBoot` is a history variable for one
property.

### YdocDocument (`YdocDocument`, `MCYdocDocument`, `Documents`, `YdocDocumentProof`)

One document, with every Redis call of every handler as an action. Applying Yjs
updates is commutative and idempotent, so a copy of the document is the *set* of the
edits applied to it, and an entry of the Redis list is a set too: one edit, or a
snapshot of several. This is all that "lost" and "converged" can tell apart.

| State | Code |
|---|---|
| `list`, `users`, `index` | `{doc}:updates`, `{doc}:users`, the reverse index of each session |
| `room`, `pool`, `closed` | the Socket.IO room, `SESSION_POOL`, closed sockets |
| `has` | each browser's copy |
| `joinPc`, `updatePc`, `exitPc` | the handlers: a join per session, an update per edit, a leave and a disconnect per session |
| `seen` | what the LRANGE of a compaction returned |

*Actions.* `JoinUsers`, `JoinIndex`, `JoinRoom`, `JoinRead`; `SendState`; `Edit`,
`Push`, `Length`, `ReadRange`, `Replace`, `Broadcast`; `LeaveUsers`, `LeaveIndex`,
`LeaveRoom`, `LeaveExists`; `Disconnect`, `DropUser`, `DropIndex`; and for both exits
`CountUsers`, `ClearList`, `ClearUsers`. `Compacted` is the squash of the oldest half
as the code computes it (`len // 2`).

*Abstractions.* One document (documents share nothing but sessions). Sessions join
once. Access checks pass. `Present` are sessions that are in the document when the
behaviour starts.

### KnowledgeIndex (`KnowledgeIndex`, `Documents`, `KnowledgeIndexProof`)

The files of one knowledge base and its vector collection. No transaction spans SQL
and the vector store, so every call on either is a step. A content stands for a text,
its hash and its chunks: the code never tells them apart except through the hash.

| State | Code |
|---|---|
| `row` | `file.data` and `file.hash`: content, hash, status |
| `linked` | `knowledge_file` |
| `own` | the collection `file-{id}` |
| `index` | the collection of the knowledge base: whose chunk, which request wrote it, text, hash |
| `req` | the requests: kind, file, text read so far, where they are |

*Actions.* One that begins each kind of request (`Upload`, `Add`, `Batch`, `Readd`,
`UpdateContent`, `Remove`, `Delete`, `Reset`, `Reindex`; "attach" is an upload linked
on the way, "discard" a removal that deletes the file, "retry" the add of a file that is
linked and whose last update failed, which the route does not refuse; "empty" is an update
of the content with `''`, which counts as no content at `ow/routers/retrieval.py:1837`, so
that `Read` takes the text of the stored file again), and the steps they share:
`Read` to `WriteHash` are `process_file` and `save_docs_to_vector_db`, with its
look-up by hash (`Check`); `ListBases`, `ReadOlds`, `Sweep` are the re-adding of an
updated content, which deletes the old entries by identifier after the new ones are
there; `Clear`, `Unlink`, `DropFile`, `DropHash`, `DiscardOwn`, `DeleteRow` take a file
away. A step that may fail does what the code's `except` does then, and `Die` ends a
request anywhere.

### AutomationSchedule and AutomationClaim (`MCAutomationClaim`, `AutomationClaimProof`)

`AutomationSchedule` is what `claim_due` promises: a schedule waits for one occurrence;
claims take occurrences of active automations, each later than the last, and move them
on; an edit starts a schedule afresh, and so does a claim whose next occurrence was
computed while the user's clock showed an hour for the second time. `AutomationClaim` is
how the code does it: `row` is the table, `pc` and `batch` the workers between select and
commit (the rows stay locked in between if `SkipLocked`), `running` the tasks, `editPc`,
`edit`, `loaded` the edits. An ORM update writes only the columns whose value differs from
what was loaded, which is what makes two edits or an edit and a claim collide or not.

A rule gives, for each moment at which it is asked, the set of its occurrences *on the
clock on the wall*: a rule with a DTSTART gives the same set always, one without counts from
the moment. `next_run_ns` takes the local time (`Wall`), finds the next occurrence on that
clock, and makes a moment of it (`Instant`) with `fold = 0`. A member of `Zones` is a clock
that is put forward or back at most once. When it has been put back, a time that it shows for the
second time (`Again`) becomes the moment at which it showed it first, which is in the past.

*Actions:* the steps of a claim and its failures (`Claiming`), of an edit (`Editing`),
`Create`, `RunNow`, `Crash`, `Restart`, `Tick`, and the three ends of a run: it is recorded
(`EndRun`); an error after the commit of `_record_run` reaches the `except` clause, which
records it once more (`EndRunTwice`); or no record can be written (`EndRunUnwritten`).
`ClaimDropped` is an error between the commit of a claim and the start of its runs.
`claimed`, `issued`, `lost`, `unwritten`, `doubled` and `wiped` are history.

### CalendarAlert (`CalendarAlert`, `Services`, `ServicesProof`)

One event is followed, in discrete time. A worker scans, alerts, loads, marks and sleeps
(`Step`); an edit loads the row and writes it later (`EditLoad`, `EditWrite`); both merge into
the `meta` they have loaded. The other events of a round come one after the other, each
with its webhook, before and after this one. They touch it in two ways only: by the time
that the round takes, at most `MaxRound`, which may go by before the alert or after it; and
by an exception that ends the round (`RoundFails`), which is also what a failing
configuration or query does to the scan. `failed` remembers which instances had a round that
failed after the event's start. `Mortal` workers may die and start again.

### ChatHistory and ChatStore (`MCChatStore`, `ChatStoreProof`)

`ChatHistory` has the tree operations as operators: `DeleteMessage` (children go with the
message, grandchildren move up, the last leaf is selected) and `MergeHistory` (the union,
the incoming message wins, `childrenIds` recomputed from the parents). `ChatStore` runs
them over `doc`, the JSON column that is read and written whole, and `rows`, the table
beside it. A job is a list of operations, each cut into its database steps (`Step`);
jobs begin as `Send`, `Answer`, `Fail`, `SaveTab` or `DeleteFromTab`, the last two with
the browser's possibly old copy `tab`. `RowFails`, `DocFails` and `Abort` are the faults.
The rows still to be written after a document are a set (`todo`), since the code takes
them from a dictionary or from a set of missing parents; the model allows every order.

### ChatStream

One streamed response: `output` of the current stream, `prior` of what came before,
the tool calls yet to be run, the message `row` in the database, and what was last
sent to the provider. `StreamText`, `StreamCall`, `StreamItem`, `EndStream`,
`EndStreamWithCode`, `StreamRaises` are the events of the two formats; `BeginTurn`,
`RunTool`, `Record`, `AskAgain`, `AskFails`, `LeaveLoop` the tool loop; `RunCode`,
`AskCode` the code interpreter; `Finish`, `Cancel`, `Continue` the ends.

### SessionPool, OAuthSession, ModelList, DirectoryTree, RateLimiter (`Services`, `SessionsProof`, `ServicesProof`)

- `SessionPool`: a pool entry is its age; the pools, what each process does between two
  calls of a `RedisDict` (`busy`), and the sessions' sockets. Reaping and cleaning may
  happen in any process at any time, which covers whatever `CleanupLock` lets happen. A
  document is opened in two steps (`BeginOpen`, `OpenDocument`), since the handler awaits the
  note and the access to it between the look at the pool and `add_user`; `stray` are the
  sessions that closed in between, as `late` are those that closed while they joined.
- `OAuthSession`: each model method is a transaction. `Get`, then the provider's
  answer, then `Store` or `DropSession`; logins list, prune and create; a logout lists
  and deletes. `rotates` is the provider's habit. The model methods swallow the errors of the
  database: `StoreFails` leaves the row with its old token, `DropFails` leaves the row, and a
  login may list nothing or delete less than it listed and still creates its session.
  `spoilt` are the sessions a refresh of which ended halfway, by an error or a death;
  `unpruned` counts the rows that logins should have deleted and did not.
- `ModelList`: HKEYS, HSET, HDEL and the signature of `RedisDict.set`, three processes;
  an error makes a process use its own dictionary from then on.
- `DirectoryTree`: the walk that looks for a cycle and the update are separate
  transactions (SQLite; foreign keys are not enforced, as nothing switches them on).
- `RateLimiter`: INCR, EXPIRE and MGET as round trips for one key, with real buckets
  and expiries.

### Services and Documents (`MCServices`, `MCDocuments`)

Components that share no state need not be interleaved, and to interleave them would
only multiply the states. `Services` and `Documents` instantiate several components side
by side; a variable `part` says which one a behaviour exercises, and the others do not
move. Every state of a component is reached as it would be in a run of its own. Both are
parametric: every bound and every set is a constant with its assumption, the theorems
are about them, and `MCServices` and `MCDocuments` only add the values for TLC.

## 3. The runs

| Run | Instance | What it shows |
|---|---|---|
| `TaskRegistry` | two instances, one task each for the same chat, one stop, one fault; the instances are symmetric | `RunningIsRegistered`: nobody removes a running task from the dictionary it is cancelled through. `UnlistedOnlyIfCancelled`: a running task that Redis no longer lists is being cancelled. `ItemSetInHash`: the per-chat set never keeps an id that the hash lost, although `stop_task` skips the SREM when HGET finds nothing. |
| `TaskRegistryLive` | one task, two stops, fairness | `StopEndsTask` and `EndedIsForgotten`. |
| `TaskRegistryQuiet` | a request with two models, no stop | violated: see section 6. |
| `UsageCleanup` | 3 processes, timeout 6, period 1, delays 3, 4, 6, stall 1, fairness | `AtMostOneCleaner`; `DeletesOwnLock`: the two round trips of a release never delete another's lock; `KeepsCleaning`: a process that sleeps after a pass makes another one, or dies. |
| `SessionCleanupEnds` | the session pool's constants, scaled by 30 s | violated: see section 6. |
| `Documents` | part "note": 2 sessions of which one is there from the start, 4 edits, threshold 4, one update handler at a time, both may leave, one may drop. Part "knowledge": 2 files of which one is linked, 2 contents, 3 requests of all thirteen kinds, the first two of which may overlap, one fault | `EditsAreKept`, `RoomIsUpToDate`, `ClosedMemberIsNoUser`, `ListStaysShort` through compactions and clearings with every Redis call interleaved. `UsableWhileUpdated`: updating a content never makes a file unsearchable, whatever fails. `IndexIsCurrent`: requests that do not overlap leave the vectors of exactly the linked files, with their present content, if none is a batch, a retry or an empty update. |
| `YdocCompactionLoss` | 1 session, 6 edits, threshold 5, two handlers at a time | violated: see section 6. |
| `AutomationClaim` | 1 automation, 2 workers, 1 edit, 1 run by hand, one crash or error, a rule with the occurrences {2, 3} and one that says "in two ticks", a clock that has been put back by two, horizon 3, row locks, fairness | `ClaimsFollowSchedule`: the implementation of `AutomationSchedule`. `ClaimsAreCurrent`: what is committed was computed from the row as it still is. `RunsAccounted`: every run claimed or asked for is about to start, under way, recorded, died with its process or was dropped with its claim, and a row too few or too many takes an error of its own. `DueIsClaimed`. |
| `ChatStore` | an exchange and one more turn, 2 symmetric jobs, one load, save, deletion and fault | `CurrentIsMessage`, however jobs overlap; `TreeWhenCalm` and `RowsMatchWhenCalm`, for those that do not. |
| `ChatSaveLoss` | the same, a save, no deletion or fault | violated: see section 6. |
| `Services` | eight components, see below | fourteen properties and the types, see below. |
| `ChatStreamLoss` | one call, Chat Completions | violated: see section 6. |

The parts of `Services`:

| Part | Instance | Properties |
|---|---|---|
| calendar | 2 workers, one mortal, poll 2, jitter 1, grace 5, stall 1, a round of up to 1, event at 1, horizon 8, one edit | `NotMissed`: while there is an instance that stays up and has no failing round after the event's start, the event is alerted by the end of its grace window and the round that begins then. |
| sessions | 2 processes with a session each, reap after 2 ticks, beats every tick, one document user at a time, one usage, one crash | `LiveIsKnown`: no reaper removes a session that sends heartbeats, on whatever old value it acts. `ClosedIsForgotten`: a closed socket leaves no entry, unless it closed while joining, and no document user, unless it closed while opening a document, or its disconnect raised. |
| oauth | 2 requests, 2 logins, limit 1, 3 sessions, rotating or not, one fault (a death, a failing store, a row that is not deleted) | `SessionsStayBounded`, with one more for each row that an error kept; `RefusedOnlyInRace`: a refusal has a race, a death or a failed store to blame; and `LoggedOutStaysOut`: a refresh under way does not bring a deleted session back. |
| models | 3 processes; lists {}, {n1, n2}, {n1, n3} | `CommonStays`: a model in every list never leaves the hash. `AgreedIsStored`: when all signatures agree, the hash is what they say, so that the writes they suppress are not missing. |
| directories | 3 directories, one move, deletion and file move at a time | `NoCycle`. |
| limiter | 2 processes, 2 attempts in 4 s, buckets of 2 s, 5 attempts until second 6, checks of up to 2 s | `WindowIsLimited`, for a window that begins anywhere, with one more attempt for the other process at the end of a bucket. |
| stream | 2 tool calls, 2 items a stream, loop limit 2, one code retry, one continuation, both formats, real-time saves or not | `RequestsArePaired`, `RunsOnce`, `KeptUnlessCut`. |
| lock | 2 processes slower than their lock: stall 7, timeout 6 | `SkipsOnlyForTheLiving`: the retries outlast the lock of a process that was dead when the new one started, even when locks run out and renewals fail. |

*The bounds, and why they are enough.*

- Every race of the task registry is between two parties: creator and task, `finally`
  block and done callback, stop and clean-up, two tasks of a chat. Two tasks give
  all of them, and two homes give the pub/sub path. `MaxStops` counts stop requests
  and not their steps: one `StopItem` stops both tasks, and `TaskRegistryLive` has two
  for the repeated stop. `MaxFaults = 1` puts one fault anywhere in any
  behaviour; the proof has no such bound.
- Three processes of the lock are a holder, a waiter, and one that arrives while the
  lock changes hands. The constants keep the order of the real ones: period + 2 stalls
  < timeout, delays between timeout/2 and timeout.
- Threshold 4 in place of 500, with `Compacted` taking `len // 2`; four edits by two
  authors give each order of push and broadcast against a join, and a compaction
  whose result grows again. `YdocCompactionLoss` has an odd list. `Threshold` must exceed
  `MaxInFlight + 2` (an assumption), or compaction would not shorten the list.
- Two files and two contents are what a duplicate and a change need; three requests
  are a content update, what undoes it, and one after both.
- Two workers and one row are what a double claim needs; the second occurrence shows
  that the first claim moved the row on by one and not by more. The clock that has been
  put back by two shows 1 and 2 for the second time, so a claim in the repeated hour and one
  after it both happen; `MaxAgain` bounds the claims that leave their row due, of which the
  code makes one at every poll of that hour. The proof has no such bound and every zone.
- In `ChatStore` a message with a child and a grandchild exists as soon as the turn is
  sent, so a deletion meets re-attachment.
- The calendar's horizon is past start + grace + round, and its constants meet the
  condition of the theorem with equality: with a round one tick
  longer, and the horizon with it, TLC refutes
  `NotMissed`; the limiter's window closes
  and the first bucket's key expires within its time, under checks that are as long as a
  bucket: there the plain limit is exceeded and the bound of the property is met exactly.
- Symmetry is used where the symmetric values appear in no property by name and no
  liveness property is checked: instances (with their tasks), jobs, requests, logins.

The system may really stop (all tasks done, all processes dead, all edits made), so
no run checks for deadlock; "nothing hangs" is what the liveness properties say.

## 4. Fairness

The event loop runs every coroutine that is ready and Redis and the database answer:
so each step of a handler that is under way is weakly fair where liveness is claimed.
Not fair are what comes from outside (an edit, a stop, a boot, a disconnect) and
faults. A model provider need not answer: `FinishBody` is fair only once a cancellation
is pending, which asyncio then throws at the next await. Liveness of the registry is
claimed without faults, because the code retries nothing: a Redis error in a done
callback leaves the entry for good. In `CleanupLock` `Tick` and the awake processes are
fair, `Die` and `PassRaises` are not. In `AutomationClaim` `Tick` and each worker's
claiming are weakly fair, and so is `Restart`, since the deployment restarts a dead
process. Claiming includes the rest of the round, which awaits the webhooks of the calendar's
alerts: they must answer, since `AIOHTTP_CLIENT_TIMEOUT` is unset by default and then there is
no limit (`ow/env.py:562`). A claim that fails is rolled back and the loop goes on, which is why
`DueIsClaimed` holds despite faults (there are finitely many).

The other modules have no liveness property: either the code promises none that is
not immediate from its handlers' ends, or (calendar) the promise has a deadline and is
the invariant `NotMissed`, with `MaxStall` in the place of fairness.

## 5. The proofs

| Theorem | States | Assumes |
|---|---|---|
| `TaskRegistryProof!TypeCorrect` | `Spec => []TypeOK` | `TaskConstants` |
| `TaskRegistryProof!UnlistedIsCancelled` | `Spec => []UnlistedOnlyIfCancelled` | `TaskConstants` |
| `TaskRegistryProof!SetsWithinHash` | `Spec => []ItemSetInHash` | `TaskConstants` |
| `TaskRegistryProof!RunningCanBeCancelled` | `Spec => []RunningIsRegistered` | `TaskConstants` |
| `CleanupLockProof!MutualExclusion` | `Spec => []AtMostOneCleaner` | `LockConstants`, `Timely` |
| `CleanupLockProof!ReleaseIsSafe` | `Spec => []DeletesOwnLock` | `LockConstants`, `Timely` |
| `YdocDocumentProof!TypeCorrect` | `Spec => []TypeOK` | `YdocConstants` |
| `YdocDocumentProof!JoiningLosesNothing` | `Spec /\ [][CompactionIsCurrent]_vars => []RoomIsUpToDate` | `YdocConstants` |
| `YdocDocumentProof!OpenDocumentsAreKept` | `Spec /\ [][CompactionIsCurrent]_vars => []EditsAreKept` | `YdocConstants` |
| `YdocDocumentProof!ClosedMembersAreDropped` | `Spec => []ClosedMemberIsNoUser` | `YdocConstants` |
| `YdocDocumentProof!CompactionBoundsList` | `Spec => []ListStaysShort` | `YdocConstants` |
| `AutomationClaimProof!ClaimsImplementSchedule` | `Spec => ClaimsFollowSchedule`, the refinement of `AutomationSchedule` | `ClaimConstants`, `NoRowConstants`, `SkipLocked` |
| `AutomationClaimProof!CommitsAreCurrent` | `Spec => ClaimsAreCurrent` | the same |
| `AutomationClaimProof!RunsAreAccounted` | `Spec => []RunsAccounted` | `ClaimConstants`, `NoRowConstants` |
| `AutomationClaimProof!ClaimsAreTyped` | `Spec => []TypeOK` | the same |
| `KnowledgeIndexProof!FilesStaySearchable` | `DocumentsSpec => []UsableWhileUpdated` | `KnowledgeAssumption` |
| `KnowledgeIndexProof!IndexStaysCurrent` | `DocumentsSpec => []IndexIsCurrent` | `KnowledgeAssumption`, `OneOfEachText` |
| `KnowledgeIndexProof!DocumentsAreTyped` | `DocumentsSpec => []DocumentsTypeOK` | `KnowledgeAssumption`, `YdocConstants` |
| `ChatStoreProof!SelectionExists` | `Spec => []CurrentIsMessage` | `StoreAssumption` |
| `ChatStoreProof!StoreTypeCorrect` | `Spec => []TypeOK` | `StoreAssumption` |
| `ChatStoreProof!RowsFollowTheChat` | `Spec => []RowsMatchWhenCalm` | `StoreAssumption` |
| `ChatStoreProof!ChatIsATree` | `Spec => []TreeWhenCalm` | `StoreAssumption`, `OldTreeAssumption` |
| `SessionsProof!LiveSessionsAreKnown` | `Spec => []LiveIsKnown` | `PoolAssumption` |
| `SessionsProof!ClosedSessionsAreForgotten` | `Spec => []ClosedIsForgotten` | `PoolAssumption` |
| `SessionsProof!RefusedOnlyWhenRaced` | `Spec => []RefusedOnlyInRace` | `OAuthAssumption` |
| `SessionsProof!SessionsAreBounded` | `Spec => []SessionsStayBounded` | `OAuthAssumption` |
| `SessionsProof!DeletedSessionsStayOut` | `Spec => LoggedOutStaysOut` | `OAuthAssumption` |
| `SessionsProof!TypesAreKept` | `Spec => []TypeOK`, of all the components of `Services` | the assumptions of `Services` |
| `ServicesProof!CommonModelsStay` | `Spec => CommonStays` | `ModelAssumption` |
| `ServicesProof!AgreedListIsStored` | `Spec => []AgreedIsStored` | `ModelAssumption` |
| `ServicesProof!NoDirectoryBelowItself` | `Spec => []NoCycle` | `TreeAssumption`, `OneMover` |
| `ServicesProof!EventsAreNotMissed` | `Spec => []NotMissed` | `CalendarAssumption`, `Moves = FALSE`, `MaxRound + (Poll + Jitter + AlertStall) <= Grace` |
| `ServicesProof!DeadLocksRunOut` | `Spec => SkipsOnlyForTheLiving` | `LockAssumption`; `(Attempts - 1) * least >= Timeout` for a `least` that no retry delay is below |
| `ServicesProof!LimitIsKept` | `Spec => []WindowIsLimited` | `LimiterAssumption`, `ShortChecks` |
| `ServicesProof!CallsRunOnce` | `Spec => []RunsOnce` | `StreamAssumption` |
| `ServicesProof!ResultsAreKept` | `Spec => []KeptUnlessCut` | `StreamAssumption` |
| `ServicesProof!PairsAreSent` | `Spec => []RequestsArePaired` | `StreamAssumption` |

They hold for every number of instances, chats, tasks, processes, sessions, edits,
automations, workers, files, requests, messages, model lists and directories, and for any
number of stops and faults. The assumptions named in the last column are typing (what is
a number, which sets are finite, that "none" is no member) and a few inequalities that
the code's constants meet: a heartbeat is not rarer than the reaper, a login keeps one
session, a lock lives a second, the window of sign-ins is three whole buckets. What stands in a theorem as a hypothesis is different:
`SkipLocked`, `CompactionIsCurrent`, `OneMover`, `Timely`, `ShortChecks` and `Moves = FALSE` are
conditions under which the property holds and which the code does not always meet, as the
paragraphs below say. `OneOfEachText` is about the start only: no two files that are listed
when the behaviour begins have one text, which the look-up by hash sees to for every file
that is added, except by a batch. The other two inequalities are met by the constants:
two delays of at least half the lock's life come before the last of three attempts
(`ow/socket/main.py`), and the grace window is the poll period and 5 s and the jitter at most
2 s, which leaves 3 s for the alerts of a round and a stall together
(`ow/utils/automations.py:570`). The last is a condition on the outside too: a round awaits
the webhook of every event it alerts, and a webhook may take as long as it likes (section 6).

*TaskRegistry.* None of the three properties is inductive. `UnlistedOnlyIfCancelled`
needs to know who may delete a hash field of a running task: not the `finally` block
nor the done callback, which exist only after the body (`JobShape`), so it is
`stop_task`, which has published before (`StopIsPublished`). It also needs that Redis
and the stop handlers know only ids that have been saved (`KnownIsSaved`), or a late
HSET could come after the HDEL. `ItemSetInHash` needs `StopItemShape`: a handler whose
HGET found nothing works on an id that the hash has lost, and by `KnownIsSaved` no
save brings it back. `IInv` is the conjunction, in three groups (program counters,
Redis, stop commands), with one lemma per action. It was model-checked on small
instances before it was proved.

*CleanupLock.* That who cleans holds the lock is not inductive, because time runs:
`LockInv` adds, for each place in the loop, how much of the key's life is left
against the time the process may take to its next step (`ttl > budget` before a
renewal, more just after one). `Timely`, `Period + 2 * MaxStall < Timeout` and
`3 * MaxStall < Timeout`, is what makes it so. The usage pool meets it for stalls
under 20 s, the session pool (120 s against 60 s) for none.

*YdocDocument.* The order of the awaits is the argument: enter the room, then read;
store, then broadcast. `RoomInv` adds that an author has its own edits. `KeptInv` adds
that a session that stays is among the users, hence that nobody is clearing. What is
left is the compaction: `CompactedContent` proves that squashing keeps the content,
and `CompactionIsCurrent` says that what is written back is the list that was read.
This last is a *hypothesis*, not a fact about the code: `YdocCompactionLoss` shows that
two overlapping handlers break it. The theorems thus say that the missing transaction
around LRANGE, DELETE and RPUSH is all that is missing. The other two need no hypothesis.
`MemberInv` follows a session through its two exits: whoever leaves is off the users
before the index forgets the document, so a disconnect that does not find it there has
nothing to remove. `LengthInv` charges every entry above the threshold to a handler that
has pushed and not yet compacted (`Working`); a compaction writes back half of what it
has read, and `Threshold > MaxInFlight + 2` makes this less than the threshold however
old the reading is.

*AutomationClaim.* `ClaimInv` says that a row a worker has selected is still what it has
read (`Held`), that no two workers have selected the same row (`Apart`), and that an
automation waits for an occurrence after the last one claimed (`Forward`). The row locks
are used twice: a select takes no locked row, and no edit writes one. Each action is
then a step of `AutomationSchedule` or a stutter, and the one that matters is the commit,
which takes the occurrences of its whole batch at once. That the next occurrence is a
later one (`AfterIsLater`) holds except while the clock shows an hour for the second time,
which `batch` remembers as `again` until the commit: a schedule starts afresh there. The lemma
needs a least element of a set of moments, `FirstMoment`,
which comes from the well-foundedness of strict inclusion on finite subsets. Without
`SkipLocked` the statement is false (section 6). Only the safety part of the schedule is
refined; that what is due is claimed is the liveness property `DueIsClaimed`.

*AutomationClaim, the runs.* `RunsAccounted` counts, so its invariant does too:
the number of runs under way is a cardinality of a set of workers and tasks, and each
action moves one run from one account to another (`Balanced`). A run that ends with no row
or with two is one of the accounts, and `Blamed` ties each to an error of its own, so that
no other interleaving makes one. It needs neither row locks nor `ClaimInv`.

*KnowledgeIndex.* An update adds its entries and then sweeps those it has seen before it
added. `Lasting` says that each file has an entry which no update that has added will
sweep; it is the one that was added last, and to see that a sweep cannot take it `Fresh`
says that nobody has read the entries of a request that has not written any, and
`Paths` says where a request may be. Two overlapping updates may leave too much, never
nothing. Faults matter: an update whose insertion fails ends before it sweeps.

*KnowledgeIndex, one request at a time.* That the collection shows exactly the present
contents is true only between requests, so `CalmInv` has a part for rest and one for each
place of the one request under way. `Tidy` holds throughout: a file's row, its own
collection and its link fit together, and no text is in the collection for two files.
(Batches, retries and empty updates break these two, and are excluded; section 6.)
`AllShown` holds at rest, and of every other file during a request. `Stage` says what the
request has done: its file's old entries are there and it works on the file's own
collection (`OwnStage`), it is about to compare and insert (`BaseStage`), it has inserted
and the old entries are among those it will sweep (`DoneStage`), or it is taking the file
away (`LeaveStage`, `WholeStage`). A deletion by hash is harmless because the text belongs
to one file (`Sole`). The invariant was checked exhaustively for four requests and by
simulation for fourteen before it was proved, and that was needed: with four requests,
one more than the run has, TLC refuted the property as it then was by the retry of
section 6, which is now a kind of its own.

*ChatStore.* `HistInv` says that every history in the system is one (`Hist`: each message
has its place in the dictionary once, and the selected one exists): the stored one, the
browser's, the one a job has computed and not yet
written, and the one a save carries. This is what makes the order of the writers
irrelevant. Under it lies one lemma for each operator of `ChatHistory` (`RepairKeeps`,
`UpsertKeeps`, `MergeKeeps`, `DeleteKeeps`), and under those what a sublist, a join and a
walk to the last leaf keep (`SublistIs`, `FlattenIs`, `LeafIsKnown`) and that a
non-empty finite set of messages has a newest one (`Newest`). `RowsInv` is about one job
at a time: `Progress` says for each of its places what the difference between document
and rows is, the message whose row is written first, or the rows still to be written
(`todo`) and to be removed (`gone`).

*ChatStore, the tree.* That parents and lists agree holds between requests only: a turn
writes the user's message before its parent lists it, and the link to the replies before
they exist. `TreeInv` therefore looks at the document together with the operations still
to be done on it. `Balanced` says that for every two messages the one is listed, or will
be, exactly if the other names it as its parent, or will; `AllPlaced` that each of these
operations meets what it needs (a new message is written once, as a whole, after its
parent; a message that exists keeps its parent and loses nothing from its list). An
operation that is done moves from one side of `Balanced` to the other (`ReadyNext`), and
when nothing is left to do `Balanced` is the tree. A merge and a deletion come alone and
are proved to give a tree by themselves: a merge since the lists are recomputed
(`MergeIsTree`), a deletion by a lemma about two functions, parents and children, of
which the grandchildren's parents and the parent's list change (`Rewired`). `Grown` says
that every message is younger than its parent, also in the browser's old copy; so there
are no cycles, the deleted message is not its own grandchild, and a tree that is not
empty has a root, which is how the deletion finds something to select (`SelectedIs`).
The invariant was model-checked on several chats, with two turns, before it was proved.
`OldTreeAssumption` asks the same of the chat at the beginning.

*SessionPool.* A reaper deletes on what it has read, so `Minds` says what a process
holds in its hands: a heartbeat or a use of a session that is still connected to it, or
the deletion of one that is closed or lost. `Entered` bounds the age of the entry of an
open socket by the heartbeat period, and has a session join before it opens documents.
`Forgets` is the other half: a disconnect that is past the pool has removed the entry unless
the session is known to have closed while it joined (`late`), and whoever opens a document
after its socket has closed is known for that (`stray`).

*OAuthSession.* `Tokens` says that a token about to be stored is the provider's latest,
`Behind` that a row is behind the provider only while a request is about to write or
drop it, or after one was cut off there (`spoilt`), `Races` that of two requests at one
session both know. A refusal then has a race, a death or a failed write to blame. For the
bound, logins that have listed and not yet deleted are put in the order of their lists
(`Paced`): each keeps at most the limit less one of what it has seen, and what it has not
seen was created by logins before it. A row that an error keeps from being listed or deleted
raises the bound by one (`unpruned`), and so does no other step.

*ModelList.* What a process removes is the difference of the keys it has read and its own
list, so none of it is in every list (`RemovesStale`); additions come first and never
remove. For `AgreedIsStored` the invariant is about disagreement: whatever in the hash
differs from a list that everybody has signed is still about to be added or removed by a
process that has not signed (`Repairable`).

*DirectoryTree.* `WalksKnow` says what the walk has learned: the directories it has seen
are closed under parents but for the one it is about to visit, and the one to be moved is
not among them. Creations and deletions between the walk and the update keep it, because
a new row has no child and a deleted one ends a path. A second mover breaks it, and the
result with it: `OneMover` is a hypothesis that the code does not enforce.

*CalendarAlert.* An instance owes the alert (`Owed`) if the event is on and has not been
edited since its start, nobody has alerted it, and no round of this instance has failed since
then. `Prompt` bounds how much time the instance may take to the end of its sleep or its round.
If it owes the alert after the start, then it sleeps and its next scan comes within the grace
window; or it has found the event, and the alert comes within the round; or it is in the
rest of a round that scanned before the start, and the pause after it (`Pause`) still ends
within the window. The last is where the round's length enters the condition. `Marked` says
that who marks the event has alerted, so that the others cannot hide the event from it;
`Unmoved` that no form holds another start. The invariant is one for each instance that stays
up, and `AlertsInv` their conjunction, since which of them will not have failed is known at the
end only. The event's start must not change: a moved event keeps its mark (section 6), hence
`Moves = FALSE`.

*CleanupLock, a dead holder.* `Waited` adds up: what is left of a dead process's lock plus
what the new one has waited is at most the lock's life. Each retry waits at least
`least`, so the last attempt comes after the end.

*RateLimiter.* The bound holds for a window that begins at any second, while the code
counts whole buckets, sums them in a later round trip than it counts in, and loses a
bucket when its key expires. For each `t`, `LimiterInv` says that the window from `t` is
in one of two phases. Either every attempt since `t` that has passed or is still inside
`is_limited` is in a counter from the bucket of `t` on (`CountIsKept`), and for each
attempt that has passed there is room for those inside that began in an earlier bucket
and will not see it (`RoomIsLeft`); or the window has ended and what has passed and what
is inside together are below the bound (`IsOver`). The second phase begins when Redis
drops a counter of the window. A bucket's key lives at least until the window from the
bucket's last second is over, so it can end under a check of the window only if the
check outlasts the window, and, for a check no longer than a bucket, only if it is the
key of the bucket of `t` and EXPIRE came before `t`. Then an attempt before `t` is in
that counter too (`Early`), so one less of the window has passed: hence "one more for
every *other* process". TLC reaches that bound: with checks as long as a bucket the
plain limit is violated. `ShortChecks` is needed: with checks that take longer TLC
refutes the bound. Nothing in the code limits how long a check waits for Redis.

*ChatStream.* Its theorems are about lists, of items and of calls, so they first need what
the operators keep of a list. `Sublist` takes the elements of a list that are in a set, one
index after the other; `UpTo` is an induction over the indices in the form the provers can
use, with a set of numbers in place of a predicate, and comes from the well-foundedness of
strict inclusion. `SublistIs` then says what a sublist holds and that it repeats nothing.
`RunInv` says that each list of calls that waits has calls without repetition that have
not been run (`Waiting`, `InTurn`), and where the results of those that have are. It rests on
the difference of the two formats: Chat Completions puts calls beside the text, so that
outside a turn every call in an output has its result (`AllAnswered`) and
nothing is found "unhandled"; the Responses API replaces the output with the items of the
stream under way, whose calls are all new (`Fresh`). A cancellation while tools run breaks
both, and is the exception that `RunsOnce` names. `KeptInv` follows the results through
the places where they are (`Held`): the stored message before and after, the output, and
the earlier output while the model is asked again. `Codeless` is needed because the
code interpreter streams into the output, and the completion of the Responses API, which
replaces it, must not meet that.

*ChatStream, the requests.* Pairing has two halves. The first is about the state: in every
list of items a result comes after its calls (`Ordered`). `OrderInv` keeps this for the
output, what came before it and the stored message, although lists are joined, cut and
replaced: a call that is new has no result anywhere (`Known`), the streams bring no results,
and a turn adds to the output only calls that it lacks, which have no results there either.
The second half is about the two functions. `Tidy` says of the conversion, after each item,
that the calls still pending have no result so far, so every assistant message comes before
the tool messages of its calls (`InOrder`); `SublistOrder` says that a sublist keeps the
order of what it takes, and with it `ReconciledPaired` shows that reconciliation, which
looks at sets of identifiers only, leaves each call a partner on the right side. Without
`Ordered` it would not: the sets match, and the provider would refuse the order.

*Services, the types.* `TypesAreKept` joins the invariants of the components, and is in
`SessionsProof`, which extends `ServicesProof`. Most ranges come with them; some need more:
`Answers`, that what has passed and what is inside `is_limited` together were attempts, so
no count exceeds them, and that no key outlives `Never`; `StreamCounts`, with `Known`, that
only calls the model has made are recorded; `CalendarType`, that an edit about to be written
has loaded a row and a worker about to mark has read its minutes; `LockCounts`. `TreeType`
is proved anew, because `TreeInv` needs a single mover and types do not. The bounds of the
models (`MaxEdits`, `MaxTokens` and so on) are part of the ranges and only TLC's.

*Model-checked only:*

- the liveness properties `StopEndsTask`, `EndedIsForgotten`, `KeepsCleaning` and
  `DueIsClaimed` (out of the prover's reach), and the refutations.

Every other property of a passing run is stated by a theorem of the table.

## 6. Where the code and its comments disagree

Each of these is a run that TLC refutes, and an entry of "findings".

- **`TaskRegistryQuiet`.** `ow/main.py:1576`, "Deregister this task, then emit
  chat:active=false if no others remain". The id is named only after `create_task`
  returned, and `chat:active=true` is emitted after the loop; a task that ends first
  emits nothing, or emits too early, and the browser is left with an active chat.
- **`SessionCleanupEnds`.** `ow/socket/main.py:168`, "Reap orphaned SESSION_POOL
  entries that missed heartbeats". The loop renews a 60 s lock every 120 s, so its
  second renewal fails and a lone process's cleanup is over for good after one pass. (The 60 s
  are the default of `WEBSOCKET_REDIS_LOCK_TIMEOUT`, `ow/env.py:461`.)
- **`YdocCompactionLoss`.** `ow/socket/utils.py:181`, "squash oldest half into one
  snapshot". An edit pushed between LRANGE and the transaction is deleted.
- **`ChatSaveLoss`.** `CHANGELOG.md:235`, "Saving a chat no longer drops messages. Chat
  updates are now merged". The merge is with a document read earlier: messages stored in
  between are overwritten.
- **`ChatStreamLoss`.** `CHANGELOG.md:886`, "preserving output during model
  re-invocations". When the handler is cancelled while the model answers to the result of
  a tool, only the new stream is stored; the call and its result are gone.

Known from the models and from reading for them, without a run of their own:

*Tasks and documents.*
- `ow/tasks.py:63`, "Remove the set key entirely if no tasks remain for this item": SCARD
  and DELETE are two round trips, and the SADD of a second task in between is deleted
  with the set. That task runs, is in the hash, and is unknown to `has_active_tasks`
  and `stop_item_tasks`.
- The done callback can clean up before `redis_save_task`; the entry then stays in
  Redis for good. So do the entries of a crashed instance.
- Without a session that stays, the last leaver can read an empty users set, a new
  session can join, and the leaver then deletes the document of a user who is in it.
  `EditsAreKept` is about documents that one session keeps open.
- A socket that closes between the two SADDs of `add_user` leaves a dead session among
  the users. `ClosedMemberIsNoUser` is about sessions whose join was over.
- So does one that closes while `ydoc:document:join` awaits the note and the access to it
  (`ow/socket/main.py:550-582`), between the look at `SESSION_POOL` and `add_user`: its
  disconnect finds no document to leave, and the handler then adds it for good
  (`ClosedIsForgotten` excepts these sessions, `stray`).

*Automations and calendar.*
- Without row locks (any database but PostgreSQL) two workers claim the same occurrence.
- In the hour that a clock shows twice, `next_run_ns` (`ow/utils/automations.py:101-110`)
  compares with the local time and then takes its answer for the first showing. What it
  returns is in the past, the row stays due, and the automation is claimed and run at every
  poll until the hour is over. `ClaimsFollowSchedule` says that nothing else does this.
- `_record_run` may raise: after its commit, and the `except` clause records a success as an
  error too (`ow/utils/automations.py:531`, `:543`); or in that clause, and the run ends without
  a row. `RunsAccounted` counts both.
- "Grace window covers one poll cycle + jitter so "At time of event" alerts
  (alert_minutes=0) are not missed" (`ow/utils/automations.py:568`): the loop also waits for
  the webhooks of the events it alerts, one by one and by default without a timeout. A slow one
  before or in the round, or an exception that ends the round (a failing `Config.get`, query or
  `emit`), and the next scan may be past the window. One webhook that does not answer stops
  the claiming of automations in its process as well.
- Two workers that both read an event before either marks it alert twice. An event
  that is moved keeps its `alerted_at` and is not alerted again.
- A deleted automation's run history can outlive it when a run ends late.

*Chats and responses.*
- The document of a chat is merged and written whole, so any two writers can lose each
  other's change (the same gap is at `ow/models/chats.py:670`).
- The earlier output is also lost when the follow-up stream fails, since the final save
  writes the new stream only. With real-time saves only text deltas of Chat Completions
  cause a save. A Responses API completion overwrites the output of a continued
  response, whose earlier output a follow-up request then has twice.
- Tool calls that a code-interpreter follow-up streams are never run; an empty one runs
  the same code again, up to `MAX_RETRIES`.

*Knowledge.*
- A batch add looks for no duplicate and stores no hash. Removing a copy that was added
  so deletes the original's vectors by hash, although the original stays linked and
  "completed" (`IndexIsCurrent` excludes batches for this reason).
- Nothing keeps a file that is linked from being added again (`ow/routers/knowledge.py:1364`).
  When its last content update failed, say because the new content was a duplicate, and
  the other file has gone since, the add inserts the new content and clears nothing, unlike
  `/file/update`: the file is "completed" and both its contents are searchable
  (`IndexIsCurrent` excludes retries for this reason).
- An upload with a knowledge base is linked before it is processed (the comment says it
  "Mirrors POST /knowledge/{id}/file/add", which links after): a duplicate stays linked
  without vectors, and is marked failed.
- An add that has read the file before a content update writes the old content back.
  Two overlapping updates can leave both contents in the base.
- A content update with `''` is taken for one without a content
  (`ow/routers/retrieval.py:1837`), and the original file is extracted again. That path does not clear `file-{id}`, whose old chunks stay, and
  when the bases are processed again these are what they get: the row is "completed" with
  the text of the file, and searches find the text before the update (`IndexIsCurrent`
  excludes empty updates for this reason).
- A failing deletion of `file-{id}` is swallowed and the save then returns without
  inserting, so that a "completed" update keeps the old chunks.

*Others.*
- Two concurrent moves of directories pass their checks on the old tree and together
  close a cycle; folders of chats are moved without any check. Directories below a
  deleted one become orphans, as SQLite does not enforce the foreign key.
- Lists without a common model, and an empty list, empty the shared model hash for a
  moment. While processes differ, a suppressed write leaves another's list in place.
- A refresh of a rotating token that loses a race deletes the session that has just been
  renewed.
- `update_session_by_id` returns `None` for an error of the database
  (`ow/models/oauth_sessions.py:294`). If the provider has rotated the token by then, the row
  keeps the old one, the next refresh is refused, and the session is deleted.
- A login that cannot list or delete the old sessions (`ow/models/oauth_sessions.py:257`, `:305`)
  goes on and creates one more.
- "Max allowed events in the window" (`ow/utils/rate_limit.py:26`): a key that expires while
  several checks sum lets one more pass for each process but one, and more if a check
  takes longer than a bucket (`WindowIsLimited` states the bound, `ShortChecks` the condition).
- `Config.repair_flattened_dict_configs` (`ow/models/config.py`) changes the value it has
  loaded in place.

## 7. What is not modelled

- The mode without Redis (plain dictionaries in `tasks.py`, `YdocManager`, the pools and
  the limiter).
- The note that `document_save_handler` saves and its debounce by `stop_item_tasks` and
  `create_task`.
- Awareness messages (no state on the server), access checks (assumed to pass),
  logging, the contents of messages.
- What a cleanup pass does to the pools is in `SessionPool`; `CleanupLock` keeps its one
  effect on control, the KeyError.
- The folders of chats (a `parent_id` set without a check), the configuration store,
  incremental synchronisation and deletion of knowledge bases, external knowledge bases.
- Reading of query results, filters, and calls of outside services: data transformation
  without state of its own.
- Plain CRUD on single rows, about which the database leaves nothing to say.
- `xstack`: sequential maps that nothing in the chat backend uses.
- The frontend, which the models take as the source of events.

Simplifications inside the modelled components, none of which a property depends on except
where it says so:

- `YdocDocument.JoinUsers`: the look at `SESSION_POOL` is merged with the SADD. The gap between
  them is `BeginOpen` and `OpenDocument` of `SessionPool`.
- `YdocDocument.Length`: an exception after the RPUSH (`ow/socket/main.py:768`) is caught, and
  the compaction and the broadcast are skipped. Redis answers in this model; if it does not,
  the other sessions get the edit when they join again or ask for the state.
- `CleanupLock.Renew`: an error or a cancellation in `renew_lock` or in the sleep reaches the
  `finally` release too (`ow/socket/main.py:173-187`, `205-231`). Only an exception of the pass
  does in the model; the release is the same.
- `ChatStore.Read`: the repair of a history on reading is a SELECT and an UPDATE of the whole
  document, one step in the model. Like every other writer of the document it may overwrite
  a change made in between (section 6).
- `ChatStream.StreamItem` and `EndStream`: the deltas of the Responses API are merged at their
  output index, and the output is replaced on `response.completed` only, not when a response is
  incomplete or fails. The model differs for a continued stream only.
- `RateLimiter.Increment`: the number of the bucket is taken together with the INCR.
- `RateLimiter.Stop`: after a Redis error the code goes on with the limiter in memory, which may
  allow what Redis would not.
- `OAuthSession`: a logout that is cut off and a login whose row cannot be created have no action
  of their own: the deletions that are left, or the creation, are never done.

Most of the repository's lines are of the last kinds: user interface, integrations,
configuration, CRUD. The models follow the state that several actors change.

## 8. Plan

Models still worth adding: **NoteSave** over `TaskRegistry` and `YdocDocument` (which
body of a note is saved last); the in-memory task registry, whose `stop_item_tasks`
iterates over a live list; the configuration store's repair of flattened keys.

## 9. How to run it

    tlc -workers 2 -config TaskRegistry.cfg MCTaskRegistry
    tlc -workers 2 -config Services.cfg MCServices
    tlapm TaskRegistryProof.tla
    tlapm ChatStoreProof.tla

`PROJECT.json` names the module and the configuration of each run, the mutants that
show that each property can fail, and the theorems.
