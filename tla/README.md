# Verification of the Hestia media manager (PlexMigrate)

Hestia is one Python process: a FastAPI server that captures the watch state of Plex, Jellyfin and Emby servers
into snapshot files and restores, transfers or mirrors it, with a React frontend. This directory holds TLA+ models of
the parts of it in which threads, requests, files and failures interleave, their TLC runs, and TLAPS proofs.

## 1. Inventory

| Part | Where | State it keeps | Operations | Module |
|---|---|---|---|---|
| Job queue | `server/jobs.py` 98-722 | `_pending`, `_inbox`, `_current`, `_history`, one `JobRecord` per job | submit, worker loop, `request_stop` | `JobQueue`, `JobLedger`, `JobQueueLedger` |
| Stop mechanism | `server/runtime_patches.py`, `services/dashboard.py`, `services/state.py` | `state._active_stop_event`, `rec._stop_event`, the engines' own events | register, unregister, signal soft or hard | `JobStop` |
| Pre-Replace belt | `server/jobs.py` 4215-4387 | a snapshot of the destination | capture, or refuse the Replace | `JobStop`, `FanOut` |
| Fan-out coordinator, shared payload list | `services/fan_out/coordinator.py`, `services/state.py` | `FanOutResult`, `_active_result`, `state._snapshot_payloads` | one source, a pool of destination threads | `FanOut` |
| Scheduler | `server/schedules.py`, `server/persistence.py` | `schedules.json` | tick, start, API edits, cascades | `Scheduler` |
| Sync worker | `services/mirror_sync/sync_worker.py`, `server/sync_db.py` | subscriptions | read a pair, compute a target, write, run now | `SyncWorker` |
| Server mirror | `services/mirror_sync/server_mirror.py`, `writethrough.py` | mirror rows, watermarks, claims | probe, full and delta sync, write-through | `ServerMirror` |
| Snapshot store | `server/snapshot_*.py`, `server/routers/snapshots.py` | `.db` files, rows, sidecars | capture, register, prune, delete, reap, recover | `SnapshotStore` |
| Accounts and sessions | `server/auth_db.py`, `server/auth_router.py` | accounts, refresh tokens, View Mode, elevation | login, refresh, logout, roles, deletion | `AuthSessions` |
| Restore engine (Plex) | `services/restore/plex_native`, `mixed_media.py` | what a run has read and written | library tasks, phases, rows, the Replace sweep | `RestoreEngine` |
| Direct transfer | `services/direct_transfer/engine.py` | a library in memory, a temporary file | direct attempt, fallback, sweep | `DirectTransfer` |
| Adapter capture and restore | `services/snapshot/adapter`, `services/restore/adapter`, `mixed_media.py` | a payload in memory or from a file | capture owner and users, preflight, replay, sweep | `AdapterTransfer` |
| Playlist batches | `services/playlist_copy`, `server/jobs.py` 2362-2500 | per-item events, slots per source | run items in a pool, cancel one | `PlaylistBatch` |
| Identity | `server/media_db/identity.py`, `managed_users.py`, `services/identity` | links between accounts, PINs | link, unlink, sweep, propagate, resolve | `IdentityMap` |
| Server registry | `server/server_registry.py`, `server/persistence.py` | `servers.json` | add, update, remove, test, retry | `ServerRegistry` |
| Caches | `services/playlist_copy/adapter/cache_*.py`, `server/playlist_cache_db.py`, `server/collection_cache_db.py`, `services/collection_cache` | rows and markers per user, members and times per collection | read, refresh, clear, walk, warm up | `PlaylistCache`, `CollectionCache` |
| Media database, library walk | `server/media_db`, `server/library_walk.py` | titles, rating keys, watched state, lists, walks | ingest a capture, walk, prune, look up | `MediaDb` |
| Plex snapshot engine, HTTP clients, resolvers, smart playlists, settings, logs, live updates, frontend | see PROJECT.json | tables and files | storage, requests, display | none (section 6) |

How they interact: HTTP handlers and the scheduler submit jobs; the one worker runs the engines; engines append to
process-wide lists and poll process-wide events; the coordinator runs engines side by side; the registry rewrites
schedules in its cascades; a capture goes to the snapshot store and through the mirror's write-through; a restore
asks the identity links which account of the destination a history belongs to; the sync worker runs the playlist
copy of the batches.

What is hard here:

- **Interleaving.** HTTP threads, the worker, keyboard threads (one per Plex engine run), pools, grace timers, the
  scheduler, the sync worker and mirror walkers share globals, files and rows; some decisions are taken under a lock and acted
  on after it is released, or after a slow request to a media server. Caches are read in several statements and replaced in several.
- **Failure of one step of several.** A destination of a fan-out, one request of a write, one file operation of a
  deletion, a call between the removals and the adds of a playlist.
- **Stopping.** A job that is asked to stop may be between two engines or two jobs, or in front of a sweep.
- **Crashes.** Between firing a schedule and saving that it fired; between a file and its row; between two files.
- **Repetition.** A refresh sent twice, a job run again, a transfer that falls back after it has written half.

What makes each part correct is what its runs check (section 4). The hazards, each at its line and with the
properties aimed at it, are in PROJECT.json.

## 2. Plan

| Order | Module | State |
|---|---|---|
| 1 | `JobQueue`, `JobLedger` (what it promises), `JobQueueLedger` (the refinement) | checked, proved |
| 2 | `JobStop`: extends `JobQueue` with the engines and the signal | checked, proved |
| 3 | `FanOut` | checked, proved |
| 4 | `Scheduler` | checked, proved |
| 5 | `SyncWorker`, `SnapshotStore`, `AuthSessions` | checked, proved |
| 6 | `DirectTransfer`, `IdentityMap` | checked, proved |
| 7 | `RestoreEngine` | checked, proved |
| 8 | `PlaylistBatch`, `ServerMirror` | checked, proved |
| 9 | `ServerRegistry` | checked, proved |
| 10 | `PlaylistCache`, `CollectionCache` | checked, proved |
| 11 | `AdapterTransfer` | checked, proved |
| 12 | `MediaDb` | checked, proved |
| next | models: playlist subscriptions, the building of a snapshot file from its payloads | |

## 3. What the modules model

**JobQueue** is `server/jobs.py` 185-722. Each variable is the attribute of the same name; `submitPc`, `workerPc`
and `stopPc` say where each thread is. A critical section of `JobQueue._lock` is one step. The exception is
`request_stop`: it looks at the running record and then overwrites its state, and the worker writes the terminal
state without the lock, so `ClearQueue` and `MarkStopping` are two steps with the lock held in between
and `ReadState`, `ReadError` and `WriteState` are three. `Workers` holds more than one thread, so that a race in
`_ensure_worker` could start two. `recorded` is a history variable: what was appended to the capped history.
**JobLedger** is the promise: a job waits, runs by itself, ends once; a stop ends every waiting job.
**JobQueueLedger** maps the queue to it: a job waits while listed, runs from its claim to its append to the history.

**JobStop** refines the one step `EngineReturns` of JobQueue into engine runs. `Plan[j]` is the sequence of engines
a job runs, the first of two being the belt's snapshot engine. Each Plex engine run owns the event `<<j, phase>>`,
which its keyboard thread registers on `state._active_stop_event` (`Register`) and later clears, whoever's it is
by then (`Unregister`). Adapter engines poll `rec._stop_event`; the direct engine polls what happens to be
registered when it starts. Users and items are one counter per engine run.

**FanOut** is the worker thread running fan-outs and snapshots in a row: `run_fan_out_direct`,
`run_fan_out_restore` and `_run_direct_via_adapter` per destination, `_capture_pre_replace_snapshot` step by step
(each read or write of a process-wide global is its own step), the registry `_active_result` and its timer, which
recognises a result by `id()`, hence `Addresses`. A payload is `<<job, destination, library>>`.

**Scheduler** is the file `schedules.json`, the tick with its private copy of the rows, the API's POST, PUT and
DELETE, the cascades of renaming and removing a server, `Scheduler.start`, and a process that can stop between any
two steps. Time is counted in firing times. `fireable` stands for the conditions under which a due row is fired
rather than rolled forward.

**SyncWorker** is one watch-count subscription. `cycle["worker"]` and `cycle["runnow"]` are two reconciles that may
overlap; reading a pair and each request of a write (an unscrobble, then scrobbles) are separate steps, each of which
may fail, with plays of the user in between. `_compute_target` is the operator `ComputeTarget`. How items and users are
paired is an input.

**ServerMirror** is one mirrored server. A walker goes through `Probe`, `Claim`, `Walk`, `Apply`, `Stamp` and
`Release`; the server edits its items between any two of them. `building` is `_BUILD_EVENTS`. `excused` names sections that a
failed walk, a write-through, or an invalidation under a sync that runs or a delta already decided has spoilt, until their next full sync.

**SnapshotStore** is a capture (file, then row), the retention sweep, the six steps of a deletion, sidecars from
`Render` to the reaper's `ReapClear`, restores in the queue, and the recovery at start (`Boot`). Threads have no common
lock. A name has the resolution of a minute; `SameMinute` says whether two captures may share one. `fate` is a history
variable: captured, and what a deletion did to the file.

**AuthSessions** handles each request as the separate statements it is; only `rotate_refresh_token` is one step
(`Rotate`), as it is one transaction. A browser's tabs share a cookie and an answer may be lost. `burned` is a history
variable: the logins whose sessions were all revoked. The first-boot setup, permission grants, bcrypt and JWT are left out.

**RestoreEngine** is `run_restore`: prefetch, one task per library, in it the owner's phases and then the managed
users', each row one read and its writes, each container its removals and adds call by call, and Replace's sweep.
Any call may fail; a Stop may come anywhere; the whole job may be run again. `cached` is the scan cache, which holds
the owner's view of the items also for managed users: `ByPath` says which items are resolved through it.
A container has a shelf: a collection its section, a playlist its media type, which is that of its first members; a phase finds the playlists of its
library's type, the owner's among those of the prefetch, a dict that keeps one per title (`Fetched`, any one of them). What is restored is not the payload
but `Payload`: a playlist of several media families is dropped, split or reduced as its user's strategy says (`Emitted`; a family dominates from three
fifths, the default threshold), while the titles the sweep spares are those of the payload (`ListTitles`). A listing that fails ends the owner's
task or the rest of the user's (`LoseListing`); a Stop ends the owner's task before his ratings, not after (`Halts`), and no managed user's phases.

**DirectTransfer** is `run_direct_transfer` over libraries and users, with `lookup.py`'s choice of the destination library
(`Route`), the fallback through a temporary file, and the sweep. One kind of data of one user is one step; its calls are those of RestoreEngine.

**AdapterTransfer** is what runs when a side is Jellyfin or Emby: `run_snapshot_adapter` and `restore_payload_adapter`, joined by the payload.
`payload[n][block]` has the rows of library n at its top and per user; `ReadLists` is the one reading of the lists of the whole
server; a user's history in a library is one step that may end whole, raised or cut short by a Stop (`Readings`). `Resolve` is the chain
of the destination's accounts, `Blocked` the preflight's verdict. Each row written is a step whose calls may fail (`WriteWatch`, `WriteRating`, `WriteList`).

**PlaylistBatch** is a batch job, its pool and the slots per source (which outlive it), the per-item events, a Stop
forwarded to them, and `copy_playlist` with each of its checkpoints, beside a sync subscription's merge of the same title.

**IdentityMap** is the table `user_identity_map` and the PINs. Each statement under the lock of media.db is one step, so a
link, an unlink, a sync's sweep, a PIN's propagation and a server's rename interleave. `Resolve` is the chain of a
restore: link, account, name.

**ServerRegistry** is `servers.json` and the schedules that name a server. A request
reads under `_REG_LOCK`, talks to the server without it, and writes under it. A rename or removal writes two files; the process may die in between,
and either write may fail: a schedule rename that fails is passed over. The scheduler's tick holds a copy of `schedules.json` and writes all of it back. What
the code itself leaves at odds is `loose`, by the step that does it and not by its outcome: `ScheduleKeepsServer` says nothing of a schedule that was posted
between the two writes, whose rename or removal failed or was torn, or of which the tick wrote an older copy, until it is posted again.

**PlaylistCache** is one server's cached playlists: requests that read the marker, then the rows, and the refreshes of a user, a
server and the daemon, which list the server and then delete rows, delete markers, write rows one by one and mark. Every
statement is one step. A row is under the backend's id of its user or what the caller passed, and is found by the uuid of the
identity row, if there is one. A marker carries, as history, the list it stands for and whether its refresh was alone and complete.

**CollectionCache** is the walk of a snapshot or a warm-up over a library's collections: the list with its times, a lookup of two
statements, the fetch, and the transaction, whose parts other threads see, since they share its connection. A time that is a
datetime reads as 0, as it does in the code.

**MediaDb** is `media.db`: `items`, `server_items`, and, as far as the properties need them, the watched state (`watch`) and the lists. A capture of a
server runs one thread per library (fetch, decide, upsert title, record its key, the list, the plays), each statement under `_DB_LOCK` a step; a walk
stamps the keys it meets; a prune is one transaction that the foreign keys may roll back. A section or a title of a walk
may fail and is passed over. `known`, `since` and `met` are history: the film last recorded under a key, since when the server has what it has
there, and when the last walk began that recorded what it met under it. `FilmOf` says which film a GUID stands for.

## 4. The runs

| Run | Instance | Shows |
|---|---|---|
| `jobqueue` | 2 jobs, 2 stoppers, 2 would-be workers, history of 1 | one job at a time, none lost or run after being cleared, a stop not overwritten; it implements `JobLedger` with its fairness |
| `jobstop` | a Replace with its belt (2 items per engine) and an adapter job, 1 stopper | a stop through the record's own flag halts the job, and a run it cut short is not recorded as completed |
| `fanout` | 2 jobs in a row of 5 kinds, 2 destinations, 1 library, 2 addresses | a job that returns reached every destination; serial belts are their own; every destination ends |
| `scheduler` | 2 schedules, 3 points in time, 2 API writes, 1 crash, 1 raising submission | nothing fires twice, nothing is caught up on, what is due is handled |
| `sync` | 1 pair of Plex counts, 7 settings, 2 plays, 1 fault, 1 edit, 1 run now, 1 crash (4 events in all) | `max` never lowers a count, and the pair settles where its policy says |
| `mirror` | mirror: 1 section, 2 items, an operator's walker and a warmer, 2 seconds, 2 events, 1 failed walk; playlists: 2 users, 2 playlists, 2 threads, 2 calls, 1 edit, 1 fault; collections: 1 collection, 2 walkers, 3 walks, 1 edit or clearing, 1 fault | the watermark hides no edit; claims are given back; a cached list is one listing of the server; cached members are as new as the walk |
| `playlist` | 2 items of every kind over 1 slot and 2 workers, 1 sync merge, 1 failed call | slots are never lost, a cancel leaves no list or a whole one, the batch ends |
| `registry` | 2 Plex servers and an Emby one, 2 names, URLs and tokens, 1 schedule, 5 requests, 2 at a time and a tick | removed rows stay away, names stay distinct, a schedule keeps its server |
| `stores` | sessions: 2 accounts, 2 browsers, 2 handlers, 3 tokens, 4 requests; snapshots: 2 captures, retention 1, 2 events; media database: 2 servers with a title each, 3 sets of GUIDs of 2 films, 2 captures and 1 walk or 1 and 2, 1 change, 1 prune, 1 tick | one live token per login, a revocation is final; a capture survives what is not its deletion, deleted ones stay away, a restart finds what has no row; the cache never answers with another film, a prune spares what a recent walk has recorded |
| `restore_family` | restore: 2 users, 4 items in 2 video libraries and one of music, 41 jobs, 1 fault, 2 runs; transfer: 2 libraries, 2 users, 7 jobs, 3 faults; adapter: 2 users, 3 destination accounts, 3 items in 2 libraries, 13 jobs, 1 fault, 1 Stop; identity: 4 accounts on 3 servers, 2 threads, 3 operations | section 1's hazards of the four parts that decide what a destination ends up with |
| `stop_next_job` | 2 Plex jobs | **violated:** a late stop signal ends the next job early, which is recorded as completed |
| `schedule_target` | as `registry` | **violated:** a schedule for an Emby server fires against the Plex server of the same name |

`MCRestoreFamily`, `MCServerMirror` and `MCStores` check four, three and three independent modules in one run: the variable `part` says whose
behaviour it is, and the other modules stay in an initial state. `RestoreSweeps` states what the sweeps of both restore engines promise. They extend their modules, whose names are disjoint, and check the
modules' own properties, which hold of the initial states. No
step mixes the parts, so each part's behaviours are exactly those of its module.

What the properties of the three composed runs say:

- *Restore.* `MergeOnlyAdds`: no step of a Merge lowers, clears or deletes. `ReplaceEndsEqual`: a Replace that ends with no fault and no Stop
  leaves the destination equal to the snapshot, for what it covers; of playlists, those that keep their title and are of their library's media type
  (`Typed`). `RerunChangesNothing`: except under `sum`, and when every playlist is `Typed`: one whose type is not its library's is
  looked for on the wrong shelf and created once more, a finding.
  `SweepsSpareRestored`: also after a Stop or a failed call, and for the sweep of the adapter restore too, but for the pieces of a
  split playlist (`PieceTitles`), which the sweep of either engine deletes: findings.
- *Transfer.* `FallbackCompletes`: an interrupted library is made up for, and its temporary file stays
  when, and only when, its import raised. Left out: kinds that only a per-library choice asks for when the library falls back, and a Replace
  of two libraries into one, where the second makes the destination's collections its own (no document promises otherwise).
- *Adapters.* `AdapterLands`: after an undisturbed run to Jellyfin or Emby an account that one source account goes to shows
  its plays and ratings and, from a file, its unmixed playlists; one that none goes to is as it was. Accounts that two go to, and all of a Plex destination, where every user is
  written to the owner, are left out: findings. `TornHistoryNeverLands`: what was read in part is never written.
- *Identity.* `PinStaysInFamily`: under any interleaving no PIN goes to a stranger. `RestoreFindsFamily`: without unlinks and overlaps no
  history does, although the restore follows one link only.
- *Caches.* `ServedIsOneListing`: whichever handle a user is asked by, and wherever a refresh crashed. Refreshes of one user that overlap or lose
  a write are left out: the code does mix them, which is a finding. `HitIsCurrent`: whatever is edited between the list, the fetch and the
  write; left out are times that are datetimes and members cut short by a failed fetch, findings too.
- *Snapshots and sessions.* As in the table; `RecoveryFindsAll` is about the step that ends a start-up.
- *Media database.* `CacheNeverMisleads`: a key or a list entry leads to the film recorded there, or to nothing. `VouchedHistoryStays`: of the
  history a prune may take, what a walk within the age limit has met and recorded is spared, whatever else failed in that walk (a failing tick is swallowed: a finding); a film under two keys is vouched for by the key the cache has.

Both violated properties state what a comment of the code says; the quotes are in PROJECT.json under `findings`.
So are the disagreements without a run of their own: those that were met while a module was written, and were
confirmed by TLC or by reading. The modules contain the steps behind them (a belt of a parallel fan-out, the tick's whole-file write, the
two-statement count of roots, the scan cache by path and others); the properties of the passing runs are stated so that they hold beside them, and say so.

*Why the bounds are enough.* Two jobs give every order of "this job" and "another one": claim against clear, a late
signal against the next registration. Two stoppers give a stop inside another's gap. A history of one makes
the cap bite with the second job. Two items in an engine run distinguish a started, a partial and a complete run.
Two destinations are all a shared global needs; two jobs in a row show what one leaves to the next. Three firing times
let a schedule fire, roll and become due again around a crash. Two handlers give every overlap of a refresh with a
revocation, and three tokens a rotation after a rotation. Two captures under a retention of one make every second one delete the first. One slot for two copies makes one wait.
Three servers and four accounts are the least with a chain of links and a namesake. Five requests are an addition, a rename,
a removal and a slow test or connect around them. What is proved holds for any number.

*Symmetry* is used in `registry`, `stores` and `restore_family`, over sets whose members the specification does not tell apart, and in
no run with a liveness property.

*Deadlock* is checked in `jobqueue` and `jobstop` (a stop request is always possible) and `playlist`. In the others the
bounds on requests, time and faults end every behaviour.

*Fairness.* `JobQueue`: threads are scheduled, and an engine run comes back because its HTTP calls have timeouts; nobody has to
submit or stop. `FanOut`: the same for pool threads; timers fire; the next job need not come. `Scheduler`:
its thread wakes after every sleep, and a stopped process is started again; time and the API owe nothing. `SyncWorker`: the worker's loop
and a cycle under way go on, and intervals elapse; nobody has to play or edit. `PlaylistBatch` and `ServerMirror`: the batch's
threads and the walkers go on, since every call has a timeout. The other modules promise nothing that needs fairness.

## 5. The proofs

All for arbitrary constants, each by an inductive invariant.

- `JobQueue_proofs`: `TypeOK`, `SingleWriter`, `EndsOnce`, `QueuedIsListed` (which `ImplementsLedger` subsumes in the run), `ClearedNeverRuns`. None is inductive alone.
  The invariant follows a record along its way: new, listed, in the inbox, pulled, executed, recorded. A record before its claim is
  `Waiting` (never started; queued, or cleared by a stop), sits in one place only, and is not in the history
  unless cleared; the worker's record is the current one and not yet recorded. That a clearing stop and the claiming
  worker cannot both record a job then follows from where the record is.
- The ledger (in the same module): the safety half of the refinement, `Spec => Ledger!Init /\ [][Ledger!Next]_(Ledger!vars)`.
  Listing is `Submit`, the claim is `Start`, `_record_history` is `Finish`, the clearing step of a stop is
  `CancelWaiting`; every other step leaves the ledger as it is. It rests on the invariant above: only then does a claim
  take a job that waits while nothing runs.
- `JobStop` (in the same module): every step of `JobStop` is a step of `JobQueue` or leaves its variables alone, so the queue's invariant
  holds with real engines that are stopped at any point. On top of it `StopInv`: the types of the engines,
  `Flags` (a running job whose own event is set is already marked, so whatever its engine returns, the worker will record a
  cancellation) and `Work` (how far each engine run is). It gives `RecordFlagCancels` and `RecordFlagHalts`.
- `Scheduler_proofs`: `TypeOK`, `FiredOnce`, `NoCatchUp`, `TickLeavesNothingDue`. The file and the tick's copy stay ahead of
  everything fired or missed, except for the row just fired and not yet saved; a stop at that point leaves the file behind, which the
  refresh in `Scheduler.start` repairs before anything ticks. For the last one, what is due in the file during an unchanged tick
  is still ahead of it in the copy.
- `ServerRegistry_proofs`: `NamesStayDistinct`, `RemovedStaysRemoved`, `ScheduleKeepsServer`. The invariant is `Typed`, `Locked` (a request in the middle
  of a cascade holds the lock, alone, and its row is still registered), `PendingFree` (the name a rename is
  about to save is taken by no other row) and `Sourced` (a schedule bears the name its server has, or will have once the rename
  under way is done). The names must be distinct for a schedule's name to resolve at all, so the three are proved together.
- `Stores_proofs`, the sessions: `OneLivePerLogin`, `RevocationIsFinal`. A family is numbered by the first token of its login, so tokens and families
  are ordered by creation (`Ordered`) and a family has one user (`OneUser`). Whatever a request does, its effect on the tokens is one of
  five: none, a login, a rotation, the death of some, or the burning of a user's logins together with the revocation of their tokens; each keeps the
  invariant, and `SessionsInductive` finds the effect of every step.
- `FanOut_proofs`: `ReturnedMeansEverywhere`, `SerialBeltIsOwn`, and that the registry of the running fan-out is the coordinator's (`RegistryIsCurrent`).
  The invariant ties the coordinator's place to its pool (`Paced`: a destination has a thread only while its job is being run), the verdicts to
  the threads that have ended (`Outcomes`), and, in a serial job, the globals of the belt to the one destination that is at work (`Serial`).
- `Workers_proofs`, the batches: `SlotsAccounted`, `EarlyCancelHolds`, `NoPartialList`. `SetUp` says which items have their event and state before the pool takes
  them, `EarlyStays` that a cancelled item that has not begun cannot begin, `Whole` what a copy has written at each of its checkpoints.
- `Stores_proofs`, the snapshot store: `CaptureSurvives`, `DeletedStaysDeleted`, `RecoveryFindsAll`. A file's name is its rank in time, so
  a name is used once; each thread's place says which of file, row and sidecars are there (`Fit`, `Deleting`), and a name that some step
  holds is known to the history. This needs `SameMinute = FALSE`, a hypothesis of the theorems: with two captures in a minute the second overwrites the first (a finding).
- `Stores_proofs`, the media database: `CacheNeverMisleads`, `VouchedHistoryStays`. What a thread holds between its fetch and its statement leads to
  the film it read (`CacheInv`), under the assumption of the module that all GUIDs of one title are of one film; for a prune, the keys that a walk has still to meet
  and the time it began bound what may look stale (`WalkInv`).
- `Caches_proofs`, the mirror: `WatermarkCovers`. A sync is followed from the reading of the section to its stamp: what a delta has still to read is what
  was saved since its start (`Behind`), what a walk has collected is what was there at its listing (`Reading`), and the time it will stamp is no later (`Stampable`);
  the margin must be positive. The first attempt failed on a walker that computes a delta's start, an invalidation, and then the claim: the code does lose items there, a finding, and
  the model now excuses such a section.
- `Caches_proofs`, the playlists: `ServedIsOneListing`. The keys that one user's list may be under are *mates*, found and cleared together. A sound marker vouches
  for the rows of its mates, except between the two deletions of a refresh (`Vouches`); nothing vouches for rows being written (`Unmarked`); a
  refresh that is alone has written what it no longer has to do (`Filled`, `Alone`). Each step is a turn that leaves the rows alone (`QuietTurn`), the
  begin of a refresh, which makes those of the same user unsound (`BeginRefresh`), or a turn on its own user's rows (`WriterTurn`).
- `Caches_proofs`, the collections: `HitIsCurrent`. A row's members are at least as new as its time, and what a walk holds is as new as its list.
- `Workers_proofs`, the sync worker: `MaxKeepsPlays`. Under `max` the target is at least either reading, so only scrobbles are sent to Plex, whatever the
  counts have become since (`RequestsRaise`); what is left after a request, sent or failed, is a part of the list (`LeftRaises`).
- `RestoreFamily_proofs`, the restore engine: `MergeOnlyAdds`, `ReplaceEndsEqual`, `RerunChangesNothing` and its half of `SweepsSpareRestored`. `RestoreInv` says
  where every task, phase, call and container is: what a phase has left are rows of its own (`LeftInv`), the containers it found are of its kind and user
  (`FoundInv`), what is at hand belongs to its phase (`HandInv`), ids are given once (`BoxInv`), and the sweep runs after the tasks only (`SweepInv`). For the Merge, what is about to be
  written must still be unset when it is written, although it was read some steps before: `HandFits` says so of the row at hand, `Untouched` of what the scan cache
  says of the rows to come. The hypothesis `Apart` excludes what breaks this: two handles that are one destination user, two rows for one item, and items known by
  their path in a managed user's rows (a finding). For the sweep, `SpareInv`: a playlist written to has a title of the payload or of a piece (`EmittedFrom`), one listed for deletion has none of the payload; its
  hypothesis `Named` (handles are the users' names) excludes the finding about the sweep.
  `ReplaceEndsEqual`: while nothing was stopped or failed, every row of a phase is still to come, or at hand, or done (`ToCome`, `Making`, `Made`), with
  what the call at hand will do to the count, position or members counted in (`ViewsTo`, `OffsetTo`, `MembersTo`). `TasksInv` says that every task of the job
  runs all its phases, `WatchInv`, `RateInv` and `BoxesInv` that the rows of each kind fit, `HandsInv` that members are found and containers are those of
  the rows, `SweepDoneInv` that the playlists without a source title are listed for deletion or gone. Nothing undoes a row because no two rows are for one
  item or one container (`Apart`, `RowOfBox`). `Complete` says what a job is: rows of users and libraries there are, a container in the payload
  once (`services/snapshot/plex_native/snapshotter.py` 810-818), home users among the selected ones (`engine.py` 780-789), and a sweep only when
  playlists are restored (`engine.py` 1299-1303). Playlists of several media families, and those not of their library's type, are outside `Typed` and so outside these
  invariants, but they are in the hypotheses: what they become may not share a title with another row. All jobs of `MCRestoreFamily` satisfy the three hypotheses.
  `RerunChangesNothing`: at the end of a first run that nothing disturbed, every row has landed and, after a Replace, the purge and the sweep have left nothing
  that no row is for (`PurgedInv`, `SweepDoneInv`). From there `QuietInv` says of each phase of the second run that it finds its rows done: what is at hand writes
  nothing, no container is created, nothing is left to purge or to sweep. That a title leads to the container that was written needs `SoleInv`
  (a row has one container at most, and a create is only at hand when it has none), and with it the hypothesis `Sole`: of two playlists of one user
  with one title a run updates either, so the second run may write to the other one; and a playlist of the owner that has a row's title
  and another type may take its place in the prefetch, so that the row's own is not found (a finding). The run's containers satisfy it.
- `RestoreFamily_proofs`, the transfer by adapters: `TornHistoryNeverLands`. What is in memory is followed library by library: while nothing was
  stopped or refused, every finished library holds at its top and per user all rows of the histories that were read (`CaptureAt`, `Whole`), and a reading
  that ends early halts the capture before the replay. The rows are an arbitrary set; nothing is assumed of the readings.
  The other half of `SweepsSpareRestored`: what is about to be written is called after a row of the payload (`LeftToWrite`), so a playlist that the
  run made is too, or is a half of a mixed one; the ids it gets are the last (`MadeInv`), and what a sweep has listed for deletion
  has no name of the payload (`LeftToSweep`). It holds of every payload, account and list, also after a Stop or a refused call.
  `AdapterLands`: as long as nothing disturbed the run, the payload is known exactly, block by block: `ReadInv` says so of each library of a capture, `Filled` of
  all that a replay reads, from memory or from a file. Every call that is derived from it writes a row of an account that feeds the
  account it goes to (`TasksRight`), and every row of such an account has its call (`RowIsTask`, `ListIsTask`); this is where the two resolvers and the
  owner's second block meet. `LandInv` then counts the calls: those whose turn has come have left what they were to leave or are still to be made (`CallsMade`), and an
  account shows nothing but what it had or what a feeder has (`Shows`). A call made twice leaves the same; a list that was created has a name of the payload, so
  the sweep spares it (`LeftToSweep`). Nothing is assumed of who has which account.
- `RestoreFamily_proofs`, the direct transfer: `FallbackCompletes`. For the library at hand, `PayloadInv` says that what was read is what the source has,
  `WrittenInv` that the destination covers it for the owner's phases that have passed and the users that are done; `DoneInv` says so of the libraries
  before. A fallback begins the library anew, so only `DoneInv` has to survive it, and a Merge never lowers (`MergedCovers`). `SweepKeeps` shows that the sweep
  removes no title of the source; `FileInv` ties a temporary file to the import that has it.
- `FanOut_proofs`, the identity links: `PinStaysInFamily`. A family is what no union of unlinked pairs separates, over all links there ever were, so it only
  grows; whatever a thread has read of a class (`SpreadTasks`, `FillTasks`) stays inside it when tables change under it.
- `FanOut_proofs`, the destination of a restore: `RestoreFindsFamily`. The restore follows one link, so the links must be transitive: with what the
  fan-out at hand still owes, they are, at every step (`Transitive`), because joining two classes owes all their pairs (`ClassesMerge`). It also needs
  that every name in a link is the one its account bears now (`RowsCurrent`). Both hold until something is unlinked or two operations overlap (`torn`).
- Facts about sequences (in `JobQueue_proofs`): what appending, removing and concatenating do to the elements and to the absence of duplicates.

Assumptions: the sentinels are not members of the sets they extend, the history cap and the bounds of
`Scheduler` are natural numbers (so each behaviour has finitely many requests, stops and faults, but any number of them); the items of a
mirror are finitely many and its margin is positive (5 seconds in the code); a server has at least one user; counts of views are natural
numbers, and accounts and names of servers are numbered from one, finitely many accounts; every item belongs to a library of the run; what an adapter's
destination has before a transfer is numbered from one, as are the containers of a Plex one, its and the source's counts are natural numbers, the names that the model gives to "no account" and to the
rows at the top are no account's, and the strategy for mixed playlists is one of the three that `server/models.py` admits.

Only model-checked: every liveness property (`StopMidRunCancels`, `DueIsHandled`, `EveryDestinationEnds`, `Settles`, `ClaimsEnd`, `BatchEnds`) and the
fairness half of the refinement: the prover has no rule for fairness and `ENABLED`. Every invariant and every action property that a passing run checks is proved.

## 6. Not modelled

- *Inside modelled parts.* A failing save or read of `schedules.json` in the scheduler itself, and a `servers.json` that cannot be read. PATCH `/resolutions`, which writes back a row it read
  outside the lock (see `findings`). A stop during a restore fan-out. Playlist subscriptions of the sync worker. Drift events of the mirror.
  The age limits of the caches. A prefetch of the owner's playlists that raises (the restore ends before it writes), smart playlists. Display names, tombstones and captured tokens of accounts. The files and per-server settings a removal of a server sweeps.
- *Plex snapshot engine, HTTP clients, resolvers.* What is read from a server and how is a matter of its API; their control is in `JobStop` and
  `FanOut`, and their outcomes are inputs of `SyncWorker`, `RestoreEngine`, `AdapterTransfer` and `PlaylistBatch`.
- *Settings, logs, live updates, frontend.* Storage and display, one atomic statement or file at a time.

PROJECT.json gives the reason for each component.
