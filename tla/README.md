# Cyber Atlas: a TLA+ verification development

Cyber Atlas collects indicators of compromise (IOCs) and STIX objects from threat feeds, stores them in PostgreSQL, and
serves them through a FastAPI application. Collection runs in Celery workers on a Redis broker, started by Celery beat or
by an administrator. This directory models the parts of that system whose correctness depends on the order of things:
sessions that share tables, transactions that fail half-way, tasks that are delivered twice, caches and counters.

## Inventory

| Component | State | Operations | Interacts with | What makes it correct |
|---|---|---|---|---|
| IOC store (`app/crud/iocs.py`, `app/models/ioc.py`, `app/routes/search.py`) | the `iocs` table; one transaction per session | bulk and single creation, update, refresh of `last_seen`, delete, cleanup; reads | every collector, the API, the cleaner, through PostgreSQL | one row per (type, value, source); counts that say what was committed; a reader sees whole batches; every job ends |
| Feed collectors (`app/tasks/collectors.py`) | none between runs; the batches of one run | fetch with retries and fallbacks, convert, save in batches of 500 | external feeds, the IOC store, the STIX store | a failing feed or batch costs only itself; what is reported was stored |
| Celery dispatch (`app/tasks/celery_app.py`, `scheduler.py`) | broker queues, unacknowledged deliveries, coroutines left suspended in a process | beat, delay, deliver, acknowledge after the run, redeliver, time limits | collectors, cleaner, synchronisations | what was sent is run; faults repeat a run at most once each |
| Feed control (`app/routes/feeds.py`) | `feed_status` in the API process | pull, status, fallback without a broker | Celery dispatch | the status says what happened |
| Accounts (`app/crud/users.py`, `app/routes/auth.py`) | `users`, `api_keys`; tokens held by clients | login, refresh, logout, password change, keys, administration | every route | lock-out after five failures; a deactivated user gets nowhere; unique emails |
| STIX collection (`app/crud/stix.py`, `connector_manager.py`, `app/connectors/`) | `stix_objects`, `stix_relationships` | convert, save a bundle, collect from several sources | collectors, routes | one row per id; references resolve; one source's failure costs only itself |
| MITRE synchronisation (`app/services/mitre.py`) | the five ATT&CK tables and two link tables | fetch three bundles, upsert in one transaction | beat, `/api/mitre/sync` | a failing URL does not cost the others |
| KEV cache (`app/routes/kev.py`) | one cached feed and its time, a lock | get, fetch, fall back to stale data | the connection pool, through authentication | one fetch at a time; answers no staler than the TTL while the feed answers |
| Middleware (`app/middleware/`) | counters in Redis (library) | rate limits, size limits, headers | every request | stateless |
| Read routes (`dashboard.py`, `stats.py`, `entities.py`, ...) | none of their own; a pooled connection and its transaction | queries, requests to services, fallbacks | the tables, the pool, the KEV cache | a failed read costs its own page; "not found" is true |
| Browser frontend (`frontend_static/js/`) | the page; a debounce timer | suggestions, charts, login | the API | the suggestions shown belong to the text typed |
| Support code (`config.py`, `logging.py`, `seed_db.py`, `scripts/`) | none | start-up, logging, one-shot scripts | | |

What is hard here: statements of different sessions interleave at READ COMMITTED between any two `await`s; exception
handlers carry on inside transactions that have already been rolled back; `get_db` rolls back on *every* exception, also
on the ones routes raise to answer 401 or 404; tasks are delivered at least once; several pieces of state are read, then
written later from what was read.

## Modules

| Module | Component | Built on |
|---|---|---|
| `IocStore`, `IocCatalog` | IOC store; what it promises to readers | `IocStore` implements `IocCatalog` |
| `Accounts` | accounts and authentication | |
| `FeedDispatch`, `TaskQueue` | Celery dispatch, `POST /api/feeds/pull`; what a task queue promises | `FeedDispatch` implements `TaskQueue` |
| `FeedRun` | one run of a collector: what `FeedDispatch` counts as one run, and whose batches are jobs of `IocStore` | |
| `StixStore` | STIX connectors and `save_stix_bundle` | |
| `MitreSync` | MITRE synchronisation | |
| `Requests` | read routes, connection pool, KEV cache | |
| `IocStoreProofs`, `IocCatalogProofs`, `AccountsProofs`, `FeedDispatchProofs`, `FeedRunProofs`, `StixStoreProofs`, `MitreSyncProofs`, `RequestsProofs` | theorems | the modules they name |
| `MC...` | instances for TLC: one for each model, with several configurations | |

`FeedDispatch`, `FeedRun` and `IocStore` divide one pipeline at its natural seams: the dispatcher sees of a collection only that it
runs and ends; the run sees of the store only that a batch is committed or fails; the store sees of a run only its batches.

Every safety invariant and every safety action property of a passing run is stated by a theorem. What is left to TLC alone is liveness.

All models treat faults alike: an action that a failure takes instead of success, at every point where the code can meet it,
bounded by `MaxFaults` (in `FeedRun` by the run itself, since each failure ends or shortens it). Errors that follow from the data (a value the server refuses, a record that does not convert)
are inputs and not counted as faults. Two faults are easily forgotten, and every model with transactions has the first, every model of code that workers run the second:

- *A COMMIT whose answer is lost* (`CommitUnanswered`): the server has carried it out, the client gets an exception or is gone. The rows are there and the
  code goes on as if they were not.
- *A coroutine left suspended* (`Suspend`; `Stop` in `MitreSync`): Celery raises the soft time limit in the worker's main thread. While the event loop waits, that is in
  `run_until_complete` and not in the coroutine, so the task ends and the coroutine stays where it is, its transaction and row locks with it, until a later task of the
  process runs the loop (`Resume`). No later task need come, so `Resume` has no fairness. Liveness is stated for what it leaves: everything ends, *if* nothing
  stays suspended for ever. In the models this is the premise `<>[](...)` of `Termination` and `Reports`. Only tasks of the
  worker have a soft limit; in the API process nothing suspends a request.

A third one has no place in a model of the API: `requests.get` in `mitre.py` has no timeout and blocks the event loop of its process. `MitreSync` has it (`Stop`), for any of
its syncs. A hang in the API process, started by `POST /api/mitre/sync`, would stop every other request of that process
for as long; `Accounts` and `Requests` leave it out, so their liveness holds for a process in which no such download hangs.

## IocStore

A *session* is one `AsyncSession` doing one job; a job is a bulk ingestion (a collector's run of several batches, or
`POST /iocs/bulk` with one), a single `POST`, a `PUT`, a `DELETE`, or the daily cleaner. One SQL statement is one action,
because the code awaits each one and any other session may run in between.

| Model | Code |
|---|---|
| `table`, `nextId` | the committed `iocs` rows and the id sequence. A row keeps its (type, value, source) as `key`, and `last_seen` as `seen`; the other columns decide nothing the properties speak of |
| `own[s]`, `View(s)` | the uncommitted writes of a session and what its statements read |
| `Holders`, `BlockedBy`, `Deadlocked` | row locks, held until the transaction ends, and the server's deadlock detector |
| `tx[s]` | `active`; `aborted`: an error in a plain statement, after which the server refuses statements and turns COMMIT into ROLLBACK *without an error*; `deactive`: an error in a flush or a lost connection, after which SQLAlchemy refuses statements and the commit |
| `pc[s]`, `batch[s]`, `later[s]`, `found[s]`, `stamp[s]`, `sweep[s]` | the position in the coroutine and its local variables |
| `tally[s]`, `stats[s]` | the counters of `create_iocs_bulk`, and those of `_run_collection` summed over committed batches (or the reply) |
| `effect[s]` | history: rows the job's commits really added or removed |
| `CheckFails` ... `Touch` | `check_ioc_exists`, `create_ioc`, `update_ioc_last_seen` inside the loop of `create_iocs_bulk` |
| `Raise` | the `except Exception` of `create_iocs_bulk` (count, go on), or the end of any other job |
| `Fetch`, `Update`, `Delete` | `update_ioc`, `delete_ioc` and their routes |
| `CountOld`, `Scan`, `Sweep` | `cleanup_old_iocs`: the SELECT count, and the DELETE, which takes a snapshot, waits for each row and tests it again |
| `FlushFails`, `DeadlockVictim`, `StatementRefused`, `CommitRefused` | the errors |
| `Publish`, `Commit`, `CommitUnanswered` | what a COMMIT does at the server; what the code does when it is told so, and when it is not |
| `ConnectionLost`, `Kill`, `idle`, `Suspend`, `Resume` | faults, at most `MaxFaults` of them, and the coroutines that the soft time limit leaves suspended |

PostgreSQL and SQLAlchemy are modelled from how the code uses them: READ COMMITTED visibility, row locks, the deadlock
detector, `autoflush=False`, `expire_on_commit=False`.

`IocCatalog` is the promise to readers. Each session has its job, in parts: the batches of an ingestion, one part for any other. A part is settled once, in order, and either it
changes the table or nothing of it is ever seen (`GiveUp`). A batch that is seen is seen *whole*: `Ingest` adds only rows whose keys are in the batch, refreshes `last_seen` only to a past time, and
every key of the batch is then one the table has or once had (`known`). "Once had", because an item whose row is found and is deleted by another session before it is read again counts as
skipped and is not inserted. A multi-batch job is seen batch by batch, as `_run_collection` commits it. The others are one edit of the row the request names, one delete of it, or
one expiry of rows that are stale *as they are at that moment*. The cleaner need not take all of those: rows that came after its DELETE began stay.
`CatalogSpec` says that `IocStore` implements it, with `table`, `known`, `clock` and `job` as they are and `settled` counted from the batches left. A batch half of which is
committed is not a step of `IocCatalog`: the mutant of the run, a handler that rolls back and goes on with the same batch, is refuted by it.

### Runs

All are of `MCIocStore`, which gives the jobs. Two keys, two or three sessions.

| Run | Shows |
|---|---|
| `ioc_shared` | two families of workloads. An ingestion of two batches, a second writer of the same keys in the opposite order (one refusing duplicates, one with an over-long row, one posting an old row) and a cleaner, editor or deleter; and two ingestions that share no key, one with a value the server refuses, beside a cleaner or deleter. Two rows stored, ids for two more, so that the sequence runs out; one fault. `TypeOK`, `CreatedCountHonest`, `ItemsAccounted`, `NoDuplicatesUnlessShared`, `Termination` and `CatalogSpec` hold |
| `ioc_twice` | expected violation of `NoDuplicates`: the same feed twice at once |
| `ioc_nul` | expected violation of `CreatedCountHonest`: a value holding a NUL character aborts the transaction, the rest of the batch is refused item by item, COMMIT silently rolls back, and the reply still counts the rows created before it |

Bounds: two keys are enough for crossed lock orders and for a foreign item in a batch; four ids let a key be inserted
twice and the sequence end; the clock only separates stale from fresh (0 to 1, retention 0); one fault per behaviour, at
any step, which may be the lost answer of a COMMIT or a suspension. A third session beyond the two that race covers the cleaner or an editor.

`CreatedCountHonest` holds in `ioc_shared`. It says that an ingestion reports as created what its commits added, with one exception that it names: an ingestion that failed or died may have added, beyond
that, exactly the items it had counted of the batch whose COMMIT was carried out and not answered. A failed flush makes the commit fail too, which keeps the whole batch out of the
counts, and the refused value comes first there, before anything is counted. In `ioc_nul` a row is counted first, and the
commit does not fail. `NoDuplicatesUnlessShared` is `NoDuplicates` for workloads in which no two jobs ingest one key, as with the
collectors of different feeds; `ioc_twice` shows why it says no more.

Fairness (`FairSpec`): each session that is not suspended keeps executing statements it can execute: the event loop runs every ready coroutine
and the server resolves deadlocks. Nothing is assumed of the clock, of faults, of when jobs start or of when a suspended coroutine goes on: `Termination` has the
premise that none stays suspended with its locks.

### Proofs

`IocStoreProofs`, for any sessions, jobs, numbers of rows and faults:

- `TypeCorrect`: `Spec => []TypeOK`. Not inductive alone: that an ingestion inside a batch still has an item (`Flow`) is needed for the
  types of the batches after an item is taken off.
- `NoDuplicatesHolds`: under `DistinctStart` (a table that starts without duplicates), `Spec => []NoDuplicatesUnlessShared`. The invariant speaks of what *each
  session sees*: no view has two rows with one key (`ViewUnique`), a session about to insert sees no row with its key
  (`InsertFree`). For a foreign commit to keep these, locks exclude double writes (`RowLocks`), ids not yet handed out are free
  (`FreshIds`), and a session adds only keys of its own job and never changes the key of an existing row (`OwnKeys`,
  `BatchKeys`). `StatementSteps` first reduces the actions to five kinds of change (`Step`), so that each invariant is proved once
  per kind and not once per action.

`IocCatalogProofs`: `ImplementsCatalog`: `Spec => CatalogSpec`. `OwnKind` says what a session of each kind may have
written: an ingestion, rows with keys of the batch at hand; the cleaner, rows that are still stale, because it holds their locks. `Whole` is what makes a batch whole: while the transaction is active, the key of every item of
the batch that has been dealt with is `Secured`, that is written by the session or once held by the table; once an error has undone the transaction, either nothing was written or the commit will be refused.
The items dealt with are those of `Left`, from `ItemsAccountedHolds`, and `Recorded` says that `known` has every key of the table.

Also in `IocStoreProofs`, what an ingestion has counted:

- `ItemsAccountedHolds`: `Spec => []ItemsAccounted`. The invariant, `Account`: what a running ingestion has left of its batch is a
  suffix of it (`Left`), and the numbers it has counted add up to the items before that suffix. Every step of an ingestion is one of the few
  changes to its books that `Ledger` lists, and counts the item it deals with once.
- `OwnCountIsHonest` (for each session) and its corollary `CreatedCountIsHonest`: the count is right of a session in whose batches
  nothing comes before an item the server refuses, but other such items (`NulsFirst`). The invariant, `Honest`: while the
  transaction is active, what it has counted as created is the number of rows it has written where there was none (`Added`), and
  once the server has undone it, nothing had been counted before. A lost answer to a COMMIT ends the session with exactly these rows added (`LosesAnswer`). That other sessions cannot change `Added` follows from the row
  locks. The condition cannot be dropped: run `ioc_nul` shows what happens without it, and every job of `ioc_shared` meets it.

Model-checked only: `Termination`, which needs fairness.

## Accounts

A *session* is one HTTP request with the transaction `get_db` gives it, or the start-up of the API, which creates the default
administrator. The dependency `get_current_user` and the route share that transaction. The model is written like `IocStore`: one
statement is one action, locks are held to the end. It differs in how requests end: `Reject` is an `HTTPException`, and
`get_db` rolls back on it as on any other exception; `Commit` is the route's or `get_db`'s commit.

| Model | Code |
|---|---|
| `users`, `keys` | the committed rows of `users` and `api_keys`; an email is a mailbox and whether it is in lower case; a password is compared as it is |
| `issued` | the tokens signed so far: user, type, expiry. A client presents any of them |
| `req[s]`, `token[s]` | what the client sends |
| `me[s]`, `seen[s]`, `used[s]` | the user and the `usage_count` as the request read them; SQLAlchemy writes only what the code changed, from these values |
| `ownUsers[s]`, `ownKeys[s]` | uncommitted writes, and so the row locks |
| `Begin`, `Who` | decoding a token, `get_current_user`, the refresh route, and the checks of the admin, password and deactivation routes (`Admissible`) |
| `Key`, `Owner`, `Bump` | the three statements of `validate_api_key` |
| `Lookup`, `Mark`, `Raise`, `Enter` | `authenticate_user` and the 401 of the login routes |
| `ChangePassword`, `Mint`, `Pick`, `Revoke`, `Unique`, `Insert`, `InsertFails`, `Target`, `Deactivate` | the other routes of `app/routes/auth.py` with their functions in `app/crud/users.py` |
| `Commit`, `CommitUnanswered` | the commit, and one that is carried out and not answered: the client gets an error, the rows are changed |
| `DeadlockVictim`, `Crash` | the server's detector; faults, at most `MaxFaults` |
| `barred`, `fails`, `uses`, `secret` | history, for the properties |

A failed login makes `Mark` write the counter and the lock, and `Raise` roll both back. So the branch of `CanLogin` that finds an
account locked is never taken by an account that was not locked to begin with: that is the finding of `accounts_lockout`.

### Runs

Both are of `MCAccounts`: two administrators, three keys, room for two more users and one more key. The requests come from lists,
and every request of one list meets every one of the others.

| Run | Shows |
|---|---|
| `accounts_mixed` | login, refresh, password change, logout and deactivation of one user: `PasswordCurrent` and `SwitchedOffStays`, which a login that wrote back the row it read would break. Two creations of one address in two spellings and the start-up: `EmailsUnique`. Two administrators switch each other off: the system may be left without one, but (`LastAdminByStaleActor`) only by a request whose own administrator was switched off while it ran. An expiring key, a revoked key and a switched off user: `BarredStayOut`. Two keys of one owner revoke each other, each request holding the lock of its own key: `Termination` rests on the deadlock detector. `UsageNotInflated`: refused requests are not counted. One fault |
| `accounts_lockout` | expected violation of `LockoutEffective` |

Bounds: the races are between two requests on one row, and the third is the bystander or the second administrator; the clock (at most 2)
separates before and after an expiry; `MaxFailed` is 2 instead of 5, the lifetimes 1 instead of days; the id sequences have room for what
the run creates.
Fairness as in `IocStore`: a statement that can run does run; requests need not arrive and time need not pass.

### Proofs

`AccountsProofs`, for any requests, accounts, keys, tokens and bounds (`StartAssumption` says that the stored addresses are in
lower case and distinct at the start, as `create_user` leaves them):

- `TypeCorrect`: `Spec => []TypeOK`. A statement writes a row it found earlier (`Reached`), and what tokens and keys refer to is there
  (`Known`), because rows never go.
- `SwitchedOffStaysHolds`: `Spec => SwitchedOffStays`. The invariant: a row has one writer (`Locks`), and a writer of a row that is off has it off
  too (`StaysOff`). It holds because each `UPDATE` starts from the row as it is when the lock is obtained and leaves `is_active`
  alone or clears it.
- `EmailsUniqueHolds`: `Spec => []EmailsUnique`. The invariant is about what *each pair of sessions* sees (`Distinct`): whoever commits first,
  no two users get one address. An `INSERT` keeps it by the unique index for committed rows and by waiting for the other
  inserter for the rest; `WrittenOnce` excludes a second row of the same request.

`StatementSteps` reduces all actions to five kinds of change, as in `IocStoreProofs`.

- `BarredStayOutHolds`: `Spec => []BarredStayOut`. The invariant, `BarredAt`: what bars a request when it arrives still bars it when it
  reaches the statement that asks. It rests on the two before (a row that is off stays off; one address has one user) and on keys keeping
  owner and expiry (`KeysKept`) while the clock only grows.
- `UsageIsNotInflated`: `Spec => []UsageNotInflated`. The invariant bounds what a session has read of a key's use by the uses
  admitted, and what it has written by one more, if it is the one being admitted.
- `PasswordIsCurrent`: `Spec => []PasswordCurrent`, and `LastAdminFallsToStaleActor`: `Spec => LastAdminByStaleActor`, both by `RowInv`: a
  row that is written is the row as it is, but for what the request asks (`Written`), and a request is only at
  statements of its kind, a deactivation one made by an administrator other than its target (`Serves`): who switches off the
  last active administrator is another one, so he must have been switched off himself meanwhile.

Model-checked only: `Termination`, which needs fairness.

## FeedDispatch

From a request or beat to the end of a run. Messages are numbered in the order sent; a worker of several processes takes
them from the broker (Redis, external: modelled from the settings in `celery_app.py`), and the API process runs collectors itself when the
broker fails.

| Model | Code |
|---|---|
| `sent`, `queue` | the messages sent: `collect_all_feeds` with its sources, one collector, or another scheduled task; those in the broker |
| `reserved`, `Take` | messages taken and not started: `worker_prefetch_multiplier` 1, counting what runs, since `task_acks_late` keeps it unacknowledged |
| `token`, `Ready`, `Refill` | the `rate_limit` of `collect_all_feeds`; a task that waits for a token is overtaken |
| `proc`, `StartTask`, `Delay`, `Return` | the pool; the loop of `.delay()` over the sources, in which an error costs one source; the end of a run, which acknowledges |
| `SoftLimit`, `loop`, `Resume` | the soft time limit raised while the event loop waits: the task ends, the coroutine of `_run_collection` stays in the process's loop (the tasks share what `asyncio.get_event_loop()` returns) and goes on with the next task of that process |
| `Recycle` | `worker_max_tasks_per_child` |
| `HardLimit`, `ProcessLost`, `WorkerLost`, `VisibilityTimeout` | the faults of processes and broker: acknowledged by the hard limit, redelivered by the others (`task_reject_on_worker_lost`; the Redis transport's visibility timeout, an hour like `task_time_limit`) |
| `PullFeeds`, `PullFallsBack`, `RunCollectorsSync`, `ApiRestarts` | `pull_feeds`, its fallback in a background thread, and its loss with the process |
| `asked`, `served`, `refused` | history: how often each source was asked for, run to its end, given up |

`TaskQueue` is the abstract specification: what is sent is started and ended, never ended before it started, never un-ended.
Its `Spec` is `Safety` (the steps) with fairness. `QueueSpec` maps `sent` to `Len(sent)` and keeps `started` and `ended`: each message
sent is eventually started and ended.

Run `feed_dispatch`: two sources, two processes, one pull that names a source twice (the route's validation accepts that), one beat,
one fault of any kind beside the broker's failure of a pull. `AskedIsServed` (every source asked for is served as often, or its run is left suspended, or it was
given up in a way the dispatcher knows of), `RepeatsBounded` (each fault repeats at most what was asked for once more),
`QueueSpec`. The bounds give every order of two tasks of each kind over two processes, and a fault at each point of them; `MaxSent`
is more than these bounds can send, so that the guard of `Send` that it stands in never fails.

Fairness: the worker takes and starts messages, the hard time limit ends what does not end, the token comes back with time. None for
requests, beat, faults, and none for `Resume`, because a process that gets no further task never resumes a coroutine.

### Proofs

`FeedDispatchProofs`, for any pool, sources, requests and bounds:

- `TypeCorrect`: `Spec => []TypeOK`. The invariant `Typed` adds `Held`: what is in the broker, reserved or running has been sent,
  and what runs or is suspended has been started.
- `IsTaskQueue`: `Spec => Queue!Safety`, the step-by-step half of `QueueSpec`. A redelivered message may start again, but `started` and
  `ended` only grow, and what ends had started (`Held`). The fairness half stays with TLC.
- `RepeatsStayBounded`: `Spec => []RepeatsBounded`. `RepeatsBounded` compares the runs made of a source with `asked * (1 + faults)` and is not
  inductive: it says nothing of the runs still to come. `Balanced` adds them, by the weight of every place where a source can wait:
  broker, reserved, the list a process is working through, suspended coroutines, the background thread of the API. A step moves weight from one place
  to another, or from a place to `served` or `refused`; only a fault adds some, namely the list of one message that is delivered again.
  That this is at most `asked` is `Listed`: all `collect_all_feeds` messages together name a source no more often than it was asked for, any other
  message names it at most once, and a process works on no more than its message names.

The first part of the module counts occurrences in families of sequences (`Weight`, `Mentions`): how the count changes when a list
is appended, taken off, shortened or moved. All other lemmas use these instead of cardinalities.

## FeedRun

One run of one collector against a provider that holds some records, for all six feeds; what differs is their `setting`
and the cases of `Raise`, `Drops` and `Breaks`.

| Model | Code |
|---|---|
| `setting.sizes`, `choice` | the requests a feed falls back to: MalwareBazaar from a limited to an unlimited one, ThreatFox from many days to fewer, OTX to smaller pages, AbuseIPDB to smaller limits |
| `CollectStix` | the STIX collection at the start of three collectors, whose errors are logged; the test of the API key |
| `attempt`, `RetryLater`, `RetriesExhausted`, `RequestFails`, `Answered`, `AnsweredNo` | `fetch_url` and its retry decorator; `query_status` |
| `Raise` | the `except` of each collector around its request |
| `page`, `Parse`, `HasNext` | the pages of OTX and `otx_max_pages` |
| `Class`, `Drops`, `Breaks`, `ParseFails` | which records a collector's own tests drop, which make `IOCCreate` raise and so cost the run, and which pass both and are refused by the server ("nul") |
| `iocs`, `saved` | the records converted and stored, each by its position in the offer; `InBatch` is the first `BATCH_SIZE` of those not yet saved |
| `SaveBatch`, `SaveFails`, `Report` | `_run_collection` from the batches on; what a batch does to the table is `IocStore` |
| `Stored` | what is committed of a batch: nothing, without an error, if the server has refused a value of it, and the run goes on with the next batch (`create_iocs_bulk` counts the items as errors and its COMMIT rolls back; `ioc_nul`) |
| `told`, `left`, `Suspend`, `Resume` | the soft time limit has struck, at most once: an exception wherever the code is, or in the loop, which leaves the run suspended |

Run `feed_run`: every feed, offers of up to five records with at most one that is not good at any position, batches of two, the
fallbacks and pages at sizes that make each of them differ. `NoSilentLoss`: a run that logs no error and no warning has saved
all it set out to get. `GapsHaveReasons`: a good record is missing before a saved one only for one of three reasons: the soft limit struck; OTX answered the first
page in a smaller size and the second one was asked for in the full size again; or a value that the server refuses stood near enough to be in the same batch (`NearNul`), and
undid the batch. `RequestBudget`. `Reports`: a run that does not stay suspended reports.

Bounds: five records are three pages of two and three batches of two, the last one not full, so a fallback on any page and a failure
in any batch occur. Nothing else grows with the number of records.

Fairness: requests end, at worst by their timeouts, and statements do, while a task runs the loop. Nothing resumes a run that was left, hence the premise of `Reports`.

### Proofs

`FeedRunProofs`, for offers, pages, batches, fallbacks and retries of any size:

- `TypeCorrect`: `Spec => []TypeOK`, with `Paged`: only OTX, and only with its first page size, has a second page.
- `RequestsBounded`: `Spec => []RequestBudget`, by `Spent`: the requests made are at most `MaxAttempts` for each choice and page already used, and the
  attempts of the present one.
- `LossIsLogged`: `Spec => []NoSilentLoss`, and `GapsExplained`: `Spec => []GapsHaveReasons`. Both follow from `Gathered` (while the first page
  came in full size, a run has every good record of the pages before the present one, and each good record that is neither saved nor still to save was in a batch lost to a refused value, `Lost`) and
  `Silent` (a run without a warning never fell back, and has all it wanted when it begins to save). The arithmetic of pages is in
  lemmas about `iocs` and `Before`, and `BatchNearNul` shows that a batch with a refused value has no good record farther from it than `NearNul` allows; the steps of the run are sorted by what they do (`Asks`, `Settles`, `FallsBack`) first.

## StixStore

One session per connector run; the bundle is collected first and then saved by one `save_stix_bundle` and one commit.

| Model | Code |
|---|---|
| `table` | `stix_objects` and the reference of relationships; `by` is history |
| `holding`, `Answer`, `Requests` | what the provider holds, and the items each request of a connector gets |
| `bundle`, `added` | the objects collected, and those to insert: sets, ordered by the place `at` that each object has in the bundle |
| `cache`, `Convert` | `malware_cache`, and the conversion to objects; only malware has an id that others can have too |
| `FetchFails` | `except` per connector: URLhaus and the current ThreatFox collection fail, OTX stops and keeps what it has, the history skips the chunk |
| `Select` | the look-up of `save_stix_object`: change in memory or add |
| `CommitBegins`, `Write`, `Conflict`, `Publish`, `Commit` | the flush, external (SQLAlchemy's unit of work: UPDATEs by primary key, then INSERTs in the order added) and the server's primary key and locks |
| `ConnectionLost`, `CommitUnanswered`, `idle`, `Suspend`, `Resume` | faults: the connection or the process goes, a COMMIT is carried out and not answered, the soft limit leaves the coroutine |

Run `stix_mixed`: three collections that share two malware in opposite orders; a record that does not convert; one malware in two
spellings; nothing or one malware stored before; one fault. `RefsResolve`: ids are unique and references resolve, but for a history
that skipped a chunk: its names stay in the cache, so later chunks refer to malware that is never saved. `NewCountHonest`,
`ConflictNeedsNewcomer` (a whole bundle is lost to a conflict only for these two reasons), `Termination` by the deadlock detector, unless a collection stays suspended.

Run `stix_history`: expected violation of `HistoryReachesBack`: each chunk of a long history asks for days counted back from now, so
the older ones are never asked for.

Bounds: two malware are needed for opposite orders; a span of 2 for the 90 days of one ThreatFox request makes two chunks; three sessions
are two that conflict and one that does not.
Fairness: requests (the clients of the connectors have timeouts) and statements end; nothing resumes a collection that was left.

### Proofs

`StixStoreProofs`, for any sessions, collections, malware and stored rows. One inductive invariant, `IInv`, has all that is needed:

- `TypeCorrect`: `Spec => []TypeOK`.
- `ReferencesResolve`: `Spec => []RefsResolve`. Rows have distinct ids because no two open sessions have written one id (`Apart`) and
  what a flush has inserted is not stored (`Pending`); a reference in a bundle points into the bundle or to a row, and so does every name the cache
  of malware remembers, unless a chunk was skipped (`Closed`). Rows are never deleted, so that this survives the commits of others.
- The rows of a session are those of a bundle that was committed (`Saved`: the outcome is "ok" or "unanswered"), and no other outcome leaves any.
- `NewCountIsHonest`: `Spec => []NewCountHonest`. `Counted`: a session counts as new exactly the objects it adds, which are none that a row had
  before the collections began.
- `ConflictsExplained`: `Spec => []ConflictNeedsNewcomer`. What is added was not stored when it was looked up, so a conflict is either with a row
  of another session (`Rows`, `Over`) or inside the bundle itself.

## MitreSync

| Model | Code |
|---|---|
| `Sync` | the worker's daily task and one for each `POST /api/mitre/sync` |
| `Releases`, `release`, `Publish` | what MITRE publishes, and that it may change between two requests |
| `Plan`, `Ask`, `todo` | `ingest_bundle`: the kinds in their order, links after the techniques; the statements left to run, a set ordered by kind and position |
| `Upsert`, `FindTactic`, `Link` | `INSERT ... ON CONFLICT DO UPDATE`; the first tactic of a short name, of whichever domain; `ON CONFLICT DO NOTHING` |
| `held`, `joined`, `Locks` | row locks, and the key-share lock a link takes on its tactic, held to the end of the one transaction |
| `Odd`, `Refused`, `Abort`, `Fails` | an exception in Python; one of the server, after which all statements fail; `continue`, and the `pass` after a link's error |
| `Commit`, `CommitUnanswered` | the commit of `run_mitre_sync`, which turns an aborted transaction into a rollback without an error; one that is carried out and not answered |
| `ConnectionLost`, `Kill`, `Stop`, `Resume`, `idle` | faults. A sync stops where it is if a download hangs (`requests.get` has no timeout) or if the soft limit leaves it suspended, and keeps its row locks |

Run `mitre_sync`: two syncs, two domains that share a group and name a tactic alike, a second release in another order, an object that raises and one
the server refuses, a catalogue that is empty or has rows, two faults. `SavedWhole`: a sync whose transaction survived has saved all
it fetched, with the links. `DeadlockNeedsGap`: two syncs of the same release meet at the first row and wait, so a deadlock takes a missed bundle or a release
in between. `Termination`: every sync ends, unless one hangs or stays suspended, for whose locks the other may wait as long.

Run `mitre_refused`: expected violation of `OneFailureOneBundle`, which is what the comment at `mitre.py:68` says.

Bounds: two of the three URLs, since what matters is one before and one after the failure; seven keys have each kind that takes part in a reference.
Fairness: a sync that has not stopped goes on: its statements end, and its downloads but for one that hangs, which is `Stop`. Nothing is assumed of `Resume`: the provider need not
answer, and no later task need run the loop.

### Proofs

`MitreSyncProofs`, for any syncs, releases and stored catalogue:

- `TypeCorrect`: `Spec => []TypeOK`. That both ends of a link are rows needs `Grounded`: while a transaction is not aborted, the tactic a link
  was given is stored or written, and its technique is one or the other or comes first in `todo`.
- `WholeBundlesSaved`: `Spec => []SavedWhole`. `Carried`: each statement of a bundle that was fetched and not given up is either
  still to be run or has had its effect on what the transaction holds; at the commit nothing is left to be run, so the effects are the bundle (`Kept`). Rows
  and links only grow (`Grows`), so that a later sync takes nothing away.
- `DeadlocksNeedGap`: `Spec => []DeadlockNeedsGap`. The invariant, `LockInv`: a sync that has written anything holds the row that
  opens the first bundle with objects (`After`), and one that does not is still at that row's statement (`Before`). With one release, and
  nothing missed, that row is the same for all, so one sync holds locks and waits for nobody (`NoCycle`).

## Requests

One HTTP request for a page, from the pool's connection to the answer. A page is a sequence of groups of alternatives: a group is tried until one
alternative finds something. `Try` marks reads whose failure the code passes over, `One` those that raise if two rows match, `Handled` gives a page's `except` branch, `Found` a 404 or `found: False`.

| Model | Code |
|---|---|
| `Pages` | the routes of `dashboard.py`, `stats.py`, `entities.py`, `search.py`, `mitre.py`, `kev.py`, one entry each, made of one operator per function they call |
| `Connect`, `PoolTimeout`, `Close` | `get_db` and the pool: one connection per request until it is answered, also while it waits for a service |
| `aborted`, `ReadRefused` | the transaction that all statements of a request share, fallbacks included |
| `ReadOk`, `ReadFails`, `Move`, `Raise` | one statement or one request to a service, and what its failure does |
| `Fill` | a collection or sync commits rows meanwhile |
| `cache`, `queue`, `KevEnter`, `KevLookAgain`, `KevFetched`, `KevFails` | `_get_kev_data`: the time read before the lock, the second look, the stale data when the fetch fails |
| `Data`, `Truthy`, `Listed`, `KevMalformed`, `Serve` | the document that came: a list of vulnerabilities, an empty object, `null`, or any other shape. Any of them is kept, an empty one is not taken for fresh (`data` is tested for truth), and one of another shape raises in the conversion of every request it is given to |
| `HashSources`, `"unset"` | the hash look-up asks the services that have a key; with none, which is the default, it answers 503 |

Run `requests`: three requests, two connections, a time to live of 2, two failures of any kind anywhere; each page at least once, the hash look-up with each set of keys, the KEV
list also three times. `OwnFailureOnly`: behind an error or a page of zeros is a failed read of the request itself, or a pool in which no connection came free, but for three cases
that the property names, in which the code answers nobody: the hash look-up without any key (503), a technique whose id two rows have (`scalar_one_or_none` raises; the column has no unique constraint), and a KEV document of
an odd shape, which is given out until its time to live has passed. `NotFoundHonest`: what is answered "not found" was in none of the page's alternatives when the request began, but for one
that failed when it was asked. `KevFreshEnough`, `KevFetchedOnce` (the second look under the lock works although
it uses the time from before), `EveryoneAnswered`.

Bounds: three requests are the holder of the lock, one who waits for it and one who waits for a connection; three time steps let the cache
expire once while they wait (time passes only while a KEV request is open, and tables fill only while another page is: neither looks at the other); two failures are one in a page and one in its fallback.
Fairness: statements end, services answer or time out, the pool's timeout passes. Failures and time are not assumed. What the fairness takes for granted is an event
loop that nothing blocks (see the faults above for the one call that could).

Abstractions: users of tokens, not API keys (`Accounts` has these); no connection lost; no GeoIP database, so that the country pages take
their longest way; one API process; statements that follow each other on the same tables are one read.

### Proofs

`RequestsProofs`, for any requests, connections, tables, time to live and bounds, and for the `Pages` as they are:

- `TypeCorrect`: `Spec => []TypeOK`. `Queued` says that the requests at the lock are in its queue once each; `Placed` that a request stands at a read its
  page has.
- `FailsOnlyOnItsOwn`: `Spec => []OwnFailureOnly`, by `Blame`: a connection whose transaction an error has aborted is held by the request the error
  happened to, since the connection is given back clean. Nothing is assumed of keys, ids or the feed: `Excuse` lists the reasons that the property admits, and `OddReads`, by going through all `Pages`, that only
  the three pages it names read what can raise without a failure.
- `NotFoundIsHonest`: `Spec => []NotFoundHonest`, by `Honest`: what a request has passed over in the first group was not
  there when it began or failed when it was asked; `MustShape` says of which shape the first groups of the pages are that answer "not found".
- `KevIsFresh`: `Spec => []KevFreshEnough` and `KevIsFetchedOnce`: `Spec => KevFetchedOnce`, by `KevLocked`: data is never younger than the time stored
  with it, and the one who fetches found the cache stale *by the time it came*, which is what the second look under the lock ensures.

## Not modelled

Out of the models, with the reason:

- `feed_status` in `feeds.py`: set by `pull_feeds` and never updated by any task; only the status page shows it. `test_feed_source`: imports a
  function that does not exist, so for a known source it can only fail.
- `update_user`: no route calls it. The listings of users and keys: reads of one statement. The breach proxy: passes one request on. Health checks and
  static pages: no state. `logout` stores nothing: in `Accounts` it is a request that ends with its authentication, and its token goes on working, although
  the route's docstring speaks of a blacklist.
- Middleware: counters of a library in Redis, and checks of one request at a time.
- The browser frontend, with one race of its own: suggestions for an earlier prefix that arrive late.
- Configuration, logging, seeding and scripts, but for the start-up's default administrator, which `Accounts` has.
- What answers contain: aggregation in SQL, formatting, paging, the text of indicators. Password hashing and token signing have abstract
  results.

Out of the provers' reach, and so model-checked only: liveness (each `Termination`, `AskedIsServed`, `Reports`, `EveryoneAnswered`, the
fairness half of `QueueSpec`), since it needs ENABLED.
