# System Factories in TLA+

System Factories is a collection of small systems (a job scheduler, click
aggregation, a write-ahead log, a waiting queue, lock and lease experiments, and
several benchmarks), each a project of its own. This directory models the projects
whose difficulty is concurrency, failure or ordering: TLA+ modules translated from
the code, TLC configurations that check them on small instances, and TLAPS proofs.

Run a check with `tlc -config <run>.cfg <MC module>.tla`, a proof with
`tlapm <module>.tla`. `PROJECT.json` lists the runs, the source lines of every
definition, the hazards of the code and the theorems.

## 1. Inventory

| project | state | operations | what is hard |
|---|---|---|---|
| job-scheduler | DynamoDB rows (jobs, executions), two Redis sorted sets (due, processing), what each worker holds in memory | create a job; scheduler scan and enqueue; worker loop: reclaim, recover, pop, claim, heartbeat, finish, retry, chain | every step is a separate request; workers crash, stall and race; the scheduler queues an execution twice; conditional updates look at the status only |
| projectL ads click aggregation | SQLite tables: seen impressions, raw clicks, derived counts, stream cursor | click (in one transaction), `run_once` in background tasks and workers (three transactions), rebuild | two processors with the same cursor; a cursor set back; rebuild beside the stream |
| database-write-path-cpp | heap rows, primary and view-count index, row locks, WAL file, transaction ids | insert, increment, title update, demo call, recovery, reopening | threads between read and write of a row; the end of the process between any two records; ids that start again |
| virtual-waiting-queue | queue, positions, admissions, settings | join, admit a batch, leave, configure, expire | three structures kept in step; joins read before they write; a batch popped before it is marked |
| sqlite-concurrency-state-machine | a drivers table and SQLite's write lock; leases in memory, in SQLite or in Redis, and their timers | claim a driver in three ways; acquire, release, expire | a row read in one statement and written in another; clocks read before locks; timers that end with their process |
| youtube-topk-videos | Kafka offsets, window counters, rankings, native hourly counts | poll, aggregate, apply, commit; load both architectures, rank, query | offsets and counts committed apart, polls cut short, rankings that are copies, hours on the boundary of a window |
| dropbox-like-system | the folder, the agent's queue and rows; temporary files, objects, metadata | scan, watch, process a path; upload in several steps | a file that changes between any two looks at it, two writes per upload, a shared temporary name, ends of the agent and the servers |
| dynamodb-like, postgres-like | rows of likes and a counter beside them | like, unlike: two requests, or a transaction of two statements | the second request lost or repeated; waits on equal keys and rows |
| url-shortener | codes and URLs, both unique; failures | insert with retry, one URL or a batch at a time | collisions inside a batch and between programs; a row dropped for another reason than a collision; a batch that raises for what is left after the retries |
| connection-pooling, postgis-location | timings | load generation | measurements, no protocol of their own |

The projects share no code and do not call each other; each is modelled alone.
Inside the scheduler the API, scheduler and worker processes interact only through
the table and the two sorted sets; inside the ads service requests, background
tasks and workers interact only through the database.

What makes each modelled project correct:

* **job-scheduler**: statuses only move forward as the lifecycle says and finished
  rows stay finished; one worker at a time runs an execution; no more runs than
  `max_attempts`; nothing claimed is lost; every stored execution finishes; a
  recurring job is one unbroken chain of executions.
* **ads**: no click below the cursor is missing, none is counted twice, the
  pipeline computes the counts it stands for, the stream reaches its end.
* **write path**: index and heap agree, no increment is lost, recovery finds exactly
  what was committed.
* **waiting queue**: the position shown is the rank, the store is a sorted set, nobody
  who was told to wait disappears.
* **driver race**: the transaction and the conditional update give a free driver to at
  most one worker, for good; the version shows what the unsafe claim does.
* **leases**: one owner at a time on a shared backend, a lease that nobody releases ends.
* **likes and URLs**: counters are the rows, apart from the requests that were lost or
  repeated; each URL gets a code for good, or is given up only after all of its codes refused it.
* **top-k**: counters follow the committed offsets, rankings follow the counters, the
  precomputed and the native architecture answer alike.
* **dropbox**: a file id names one content for ever; a row of the agent names a file of
  the server with its hash; what has not changed is not sent again, what stays is sent.

## 2. Modules

| module | models | notes |
|---|---|---|
| `JobModels` | `models.py`: statuses, queue members, attempt stamps | pure definitions |
| `ExecutionStore` | `storage.py`: rows and conditional transitions | `status`, `attempt`; one operator per `mark_*` |
| `DelayQueue` | `queue.py`: due and processing sets, leases | a lease is valid or lapsed |
| `JobScheduler` | `service.py`, `scheduler.py`, `worker.py`, `api.py` over the two above | one action per request to DynamoDB or Redis |
| `ExecutionLifecycle` | abstract: what a row may do and how recurring executions beget each other | implemented by `JobScheduler` |
| `ClickAggregation` | `storage.py`, `stream.py`, `service.py`, `worker.py` | one action per transaction |
| `ClickPipeline` | Map, Aggregate and Reduce of `stream.py` on the batches of `ClickAggregation` | |
| `ClickLedger` | abstract: accepted clicks, published in order, each once | implemented with one worker and no rebuild |
| `WalTable` | `table.cpp`, `wal.cpp`, `lock_manager.cpp`, `btree.cpp`, `transaction.cpp` | one action per critical section or WAL record |
| `SortedQueue` | abstract: sessions ordered by join time and id; what Redis gives | |
| `InMemoryQueue` | `InMemoryQueueStore` | implements `SortedQueue` |
| `WaitingQueue` | `service.py`, the writing endpoints of `api.py` over `InMemoryQueue` | one action per call of the store |
| `ExclusiveClaim` | abstract: a free driver goes to one worker | implemented by `Claims` but for the unsafe claim |
| `Claims` | `claims.py`, `experiment.py`, `worker_claim.py` | one action per SQL statement; SQLite's write lock and busy timeout |
| `Leases` | `lease_backends.py`, `worker_lease.py`: six backends | one action per critical section, transaction or Redis command; a clock |
| `LikeStore` | the stores of dynamodb-like and postgres-like, the lock simulator, the thread pools | one action per request or statement |
| `UrlStore` | `collision.py`, `generator.py`, `postgres_store.py` and the program over them | one action per round of a batch |
| `TimeWindows` | `time_windows.py` | pure definitions; a calendar is a set of months |
| `TopKStore` | `storage.py`: tables as bags, one operator per transaction | |
| `TopKStream` | `kafka_consume_topk.py`, `kafka_io.py`, `aggregator.py`, over `TopKStore` | |
| `TopKLoad` | `benchmark_architectures.py` over `TopKStore` | |
| `ImmutableFiles` | abstract: file ids that keep their contents | implemented by `FileService` |
| `FileService` | the upload of dropbox-like-system in `service.py` and `storage.py` | one action per file operation or query; several server processes |
| `DeviceAgent` | `device_agent.py` over `FileService`, with the folder's user and other clients | one action per look at the file or request |
| `MCJobScheduler`, `MCClickAggregation`, `MCWalTable` | values of the constants, symmetries; the scheduler's fairness | |
| `MCJobScenarios`, `MCClickScenarios` | scenarios of one module: steps of `JobScheduler` that a scenario permits; `ClickAggregation` and an INSTANCE of it with other constants | |
| `MCStores`, `MCExperiments`, `MCTopK`, `MCDropbox` | programs, or scenarios, of which a behaviour runs one | |
| `JobSchedulerProofs`, `OneEntryProofs` | theorems about the scheduler, in general and without duplicate entries | section 5 |
| `ClickAggregationProofs`, `StoresProofs`, `ExperimentsProofs`, `TopKProofs`, `DropboxProofs` | theorems about the modules of one run each | |
| `SumTheorems` | lemmas: what sums over finite sets obey | used by `TopKProofs` |

Correspondence, where it is not one to one:

* *Time* is abstracted to what the code compares it with. An execution is `far`,
  `near` (inside the scheduler's window), `due` or `aged` (older than the lookback);
  a lease is valid or lapsed. `Advance`, `Age`, `LeaseLapses` and `Expire` are the clock; `Age` needs
  an absence of the scheduler (`Outages`), since a scan comes more often than the lookback is long. A
  queue member carries a stamp in place of its `due_at`, because the code
  makes the time part of the member and two members of one execution differ by it.
* *A worker* is `pc` (its loop), `batch` (what it scanned or reclaimed and has not
  handled) and `step` (where it is with each entry). `Turn` says that the coroutines of
  `gather` share a thread and give it up only while a task runs.
* *A crash* of a worker empties `batch`, `step` and `seen`; of the scheduler, its scan;
  of an API process, the rest of `create_job`. An uncaught `ConflictError` also ends
  the worker (`Die`).
* *Ads deltas*: `CommitDeltasAndCursor` adds reference counts, and
  `DeltasAreClicks` checks that the pipeline yields them for every batch any processor fetches.
* *WAL records* keep what recovery reads. `life` (the process that wrote a record) is
  not in the file: it exists for `IgnoresUncommitted`. All records of the script are
  appended one at a time. A title is in no record and no index and is left out.
* *Leases*: the stores in memory and the SQLite one read the time before they have their
  lock, so `Ask` and `GiveBack` read it and a later action uses it. The `db-state` backend
  starts its timer after the commit, in `Granted`; a process that ends takes the timers of its
  daemon threads along. SQLite may refuse any of these calls on its busy timeout (`AcquireFails`,
  `ReleaseFails`), the one release of a timer too (`TimerFails`): its row then stays PENDING. `Lease.expires_at`, computed after the store has answered, is read by
  nobody and left out; `until` is when the store lets the key go.
* *Likes*: `RepeatWriteRow` and `RepeatAdd` are requests whose answers were lost, so that the
  client library makes them again. PostgreSQL's waits are the guards of `InsertLike` and `UpdateCounter`.
* *Top-k*: a counter table is a bag, an upsert that adds is a bag union, `GROUP BY` a bag whose
  counts are sums over the rows of a group. A shard is any
  number (the code hashes a random event id). What `commit()` stores are the
  consumer's positions, which a poll cut short by `--max-messages` has moved past records
  that no batch had; `taken` is kept beside `polled` to tell them apart.
* *URLs*: `code` is any function of URL and attempt in place of the hash, and all programs
  run on the same tables use the same `max_retries`. The order in which `INSERT ... ON
  CONFLICT DO NOTHING` meets the staged rows is open: any maximal admissible set goes in. With URLs
  left after the last attempt the simulation counts failures (`CommitBatch`), while the PostgreSQL program
  calls `executemany` on its connection (`postgres_store.py:152`), which in psycopg has no such method:
  `BatchRaises` rolls the batch back and ends the program (`raised`). No row of `collision_failures` is
  ever written, although the project's `README.md:22` says that such a URL is recorded there.
* *Dropbox*: a content stands for its hash and a file id for its upload. The stat pair is
  the mtime alone: contents have one size, the case the size does not help with; an edit may
  leave the mtime of an earlier one. `Change` is the user's; `Post` is all that agent and
  clients do to the server. A server process runs what follows the last byte of an upload
  without yielding (`LoopIsFree`).
* *History variables* (`runs` of the scheduler, `successors`, `expected`, `durable`,
  `appended`, `waiting`, `orphans`, `skipped`, `recounted`, `torn`, `abandoned`, `missed`,
  `quiet`, and `still` of the agent's work) are never read by a guard, with one exception:
  `Claim` is bounded by the sum of `runs`.
* Operators introduced by a comment "Mutant" are not used by the specification. Each is a
  plausible bug; substituting it for the definition it resembles violates the property named in
  `PROJECT.json`.

## 3. Runs

| run | instance | shows |
|---|---|---|
| `sched_chain` | 2 workers with batches of 2, a cron job with 3 executions, 1 crash, stalled heartbeats, rows older than the lookback, 3 claims | `TypeOK`; rows only move as `ExecutionLifecycle` says (`LifecycleRefinement`), so that COMPLETED and FAILED stay; next executions form a chain (`ChainIsLinear`) that nothing but a crash breaks (`ChainUnbroken`) |
| `sched_settles` | 1 execution, 2 workers, 2 attempts. *calm*: duplicate entries, no crash; *one entry*: rows older than the lookback, so no duplicate entries, 2 crashes | *calm*: every stored execution finishes, so that nothing claimed is lost (`CalmSettles`); *one entry*: `OneEntryRunsBounded`; both: `OneRunner` |
| `sched_reclaims` | 1 execution, 2 workers, 1 crash of any process anywhere, outages of the scheduler, 1 claim | a PENDING execution that stays inside the lookback is claimed (`PendingIsClaimed`) |
| `sched_runs_bound` | no crash; **violation** of `RunsBounded` | a worker that read the row before another's claim and retry writes the attempt counter back |
| `sched_stranded` | 1 crash; **violation** of `NoneStranded` | an entry popped or reclaimed and not written back is lost for a claimed execution |
| `ads_deployments` | *sequential*: 4 requests over 3 campaigns (two share a hot ad's id), batches of 3, 1 crash; *concurrent*: 2 requests with background processing, a worker, 2 minutes, 1 rebuild, 1 crash | both: `TypeOK`, `NothingLost`, `DeltasAreClicks`, `EventuallyDrained`; *sequential*: `SequentialLedgerRefinement`, which counts each click below the cursor once |
| `ads_double` | 2 requests, a worker; **violation** of `ExactlyOnce` | two processors read the same cursor and both commit |
| `stores` | *table*: 2 threads, a seeded and an inserted row, 2 transactions, then another process with 1; *queue*: 3 sessions, 2 join times, a join and an admit request at a time, batches of 1 and 2, 1 switch, 1 crash | `StoresTypeOK`; `IndexMatchesHeap`, `NoLostUpdate`, `RecoveryIsExact`; `PositionsAreRanks`, `NobodyForgotten`, `SortedRefinement` |
| `wal_reopened` | 2 processes, one transaction each; **violation** of `IgnoresUncommitted` | transaction ids of two processes coincide in one file |
| `experiments` | *race*: 3 workers, a free, a taken or no driver, 3 claims; *leases*: 2 workers as threads or processes, 6 backends, leases of 2 ticks, 2 attempts each, 1 process that ends; *likes*: 3 operations of 2 users on 2 posts, 2 threads, 1 lost or repeated request; *urls*: 3 URLs, 3 codes, batches of 2, 1 retry, 2 programs | `ProgramsTypeOK`; `VersionCountsWinners`, `ClaimIsExclusive`; `OneOwner`, `LeasesEnd`; `CountersMatchRows`; `EveryUrlAnswered`, `FailuresAreReal`, `CodesNeverMove` |
| `topk` | *stream*: 3 records in 2 partitions, polls of up to 2, a limit of 1 or none, 2 consumer processes; *load*: 2 batches of one or two rows at hours on the boundary of a day and a month, deaths between any two transactions | `TypesOK`; `StreamIsCounted`, `RankingsAreCurrent`, `ShardsAddUp`, `ArchitecturesAgree` |
| `dropbox` | *restarts*: 1 file, 2 changes, 2 lives of the agent; *folder*: 2 files, 2 changes; *clients*: 3 uploads at once; 2 server processes, a content above the limit, 1 server fault | `TypeOK`; `AnsweredIsCleanedUp`, `FilesAreImmutable`; `RowsResolve`, `UnchangedIsNotSent`, `SettledFilesSynced` |

Several runs hold more than one scenario or program, named in italics: a variable says which,
never changes, and the state of the others stays what it was at the beginning. `Permitted` in
`MCJobScenarios` says which crashes and which phases of a row a scenario has. The INSTANCE in
`MCClickScenarios` overrides only constants that actions and guards read
(batch sizes, crashes, requests), not sets that initial states and types depend on.

Why the bounds suffice. Every property relates at most two executions, two
processors, two threads or one session and those before it, so two actors of each kind
(and three executions for a chain, three sessions for a place in the middle) produce every
order of their steps. Two attempts give one retry and one failure;
three stamps tell apart the first entry, a retry entry and a recovered one. Two
transactions contend for one row; a third, in a second process, meets the file of the
first. One crash in each of these runs may fall between any two steps; the scenario *one entry* has
two. A batch of two in `sched_chain` lets a worker end of a conflict with another entry in hand. What the bounds cut off is counted, not behaviour: more claims, more rebuilds, longer files.

For the experiments: three workers give a race with two losers, or a winner between two who read
before it; two attempts of two workers let a late release, a late timer or an expired
lease of one meet a lease of the other, and `MaxTime` leaves room for a lease that begins after another
has ended. Three operations on a pool of two make one wait; two codes per URL
make all of a URL's codes collide with those of two others. For top-k, an hour is two units of time and a
day two hours, so that the times 1, 3 and 8 lie in different hours, in different days and in different months;
two processes make one recount, cut or idle end. For dropbox, two changes put one on either side
of each look at the file; five uploads never run out.

Two properties hold only in part, and their comments say so. `ChainUnbroken` and
`NobodyForgotten` speak of behaviours before the first crash: a worker that dies after
`mark_completed`, or an admit request that dies after the pop, loses what it had in hand and no
code looks for it. Likewise recovery can take an execution from a worker whose lease is
valid when two entries of it exist and one worker has crashed: `OneRunner` fails on
*calm* with one crash and holds without duplicates with two. The newer modules state the
same kind of limit in the property: `CountersMatchRows` counts the repeated and unfinished
requests, `StreamIsCounted` the deaths between counts and commit, `ArchitecturesAgree` leaves out tables that
a run tore, `LeasesEnd` the timers that ended with their process or whose release raised, `OneOwner` the lock in
memory with workers in processes of their own, `SettledFilesSynced` the files that changed while nobody watched.

`CHECK_DEADLOCK FALSE` is in `stores` and `wal_reopened` only: when the transactions of the
instance are spent and the processes over, the threads have nothing left to do.

## 4. Fairness

* `JobScheduler` (`Fairness` of `MCJobScheduler`): weak fairness of each request of the API, of each action of the
  scheduler, of recovery, popping and processing of each worker, and of the clock: each
  process executes its program and the scheduler polls for ever. A worker that polls while an entry
  is ripe finds one sooner or later (strong fairness of a non-empty `PopScan`): a scan
  returns the entries with the lowest scores and scores only come nearer, which the model, where a
  scan may return any ripe subset, does not show by itself. Tasks end: a task that never returns keeps its execution
  IN_PROGRESS by design. Restarts are not fair, nor is `Age`.
* `ClickAggregation`: weak fairness of `run_once` of every processor: the server runs
  background tasks and the worker loops. Clicks and rebuilds are not fair.
* `Leases`: time passes, a call that has begun comes to its end (weak fairness of `Acquire` and
  `Granted`), and timers that are due fire, whether their release succeeds or raises. Workers need not release, nor try again.
* `DeviceAgent`: the agent's loop goes on and each upload goes on in its server (weak fairness of
  `AgentStep` and of each `ServiceStep`). Starting the agent, changes, and faults are not fair.
* In a run with scenarios the fairness holds in the scenario it speaks of.
* The other modules have no liveness properties: a `std::mutex` promises
  no fairness, nobody promises that an admin admits, and the benchmarks end when they end.

## 5. Proofs

All of these are proved for every value of the constants that the named assumptions
allow, so also for any number of workers, executions, processors, clicks, sessions, videos
and crashes. Every safety property and every refinement of the passing runs is stated by a
theorem; the runs check the same formulas on small instances.

`JobSchedulerProofs` (assumes `ConstantsAssumption`):

* `TypeCorrect`: `TypeOK`, whose part `FirstMade` is what typing needs of the control state: a
  `create_job` request that is about to enqueue has made a row.
* `ChainInvariant`, `ChainCorrect`: `ChainIsLinear` is not inductive: that a second next
  execution is never made depends on workers that have not made the first one
  yet. The invariant adds three parts: `Owed`, an entry at `completed` or
  `chaining` belongs to a COMPLETED execution without a next one; `OwedOnce`, at
  most one entry of all workers owes it; `SuccessorsStored`, a next
  execution is a stored row. `TaskReturns` establishes `Owed` because `mark_completed`
  refuses a COMPLETED row; `PutNextExecution` discharges it.
* `ImplementsLifecycle`: initial states map to initial states and every step to a
  lifecycle step or a stutter, one proof step per action.
* `TerminalStays`: no conditional update applies to a COMPLETED or FAILED row.
* `LoopInvariant`, `ChainStaysUnbroken`: until the first crash a COMPLETED cron execution has its
  next one or a worker is about to make it. A worker drops nothing it owes: recovery, pop and
  gather of one worker do not overlap (`Discipline`), and a worker that dies of a `ConflictError`
  owes nothing, since the coroutines of its other entries have given up the thread only while their
  tasks ran (`Turn`).
* `OneRunnerWhenCalm`: when no worker stalls and none crashes (`Calm`, the environment of the scenario
  *calm*), `OneRunner` holds for any number of duplicate entries. Leases then never lapse, so nothing
  is recovered, and a runner's row is IN_PROGRESS: whoever holds another entry fails to claim it.

`OneEntryProofs` (assumes `OneEntryOnly`: rows begin older than the lookback, so that the
scheduler process queues none, and workers heartbeat; in `OneEntryBounded` the scenario *one entry*
sees to the rows):

* `OneEntryInvariant` follows the one entry of an execution through the due set, the lease, the hands of
  a worker, those of the worker that recovers it, and back under a later `due_at`. `EntryInv` says that it is in
  one place and has one carrier. The hard part is `ScanIsStale`: `reclaim_expired` removes an entry
  that it read one request earlier and another worker may have reclaimed and requeued since;
  the requeued entry has a later `due_at`, which is part of the member, so that the late removal
  finds nothing. `FirstInv` says that the first entry of an execution is made once, and `AttemptInv` that the row's
  `attempt` is the number of its claims and known to whoever read the row.
* `OneEntryRunsOnce`, `OneEntryBounded`: then no execution is run more than `max_attempts` times, and
  no two workers run it at once, for any number of crashes. Without the assumption `RunsBounded` is
  refuted by `sched_runs_bound`.

`ClickAggregationProofs` (assumes `ConstantsAssumption`):

* `LossInvariant`, `WellTyped`, `NothingIsLost`: `NothingLost` is not inductive: a processor that is
  about to commit sets the cursor to where its batch ends, so the events below the start
  of a fetched batch must be in the counts already. `Held` says so for every
  processor past `GetCursor`. The counting lemmas (clicks of an interval
  split at any point and are monotone) rest on the cardinality theorems of the library.
* `PipelineIsCorrect`: what Map, Aggregate and Reduce make of a fetched batch are the numbers of its clicks, for any
  number of shards and any hot ads. The partial aggregates of a key are disjoint classes of the
  batch, and the positions of a batch are a shift of the clicks it was fetched from.
* `CountedExactlyOnce`, `ImplementsLedger`: under the assumption `OneProcessor` (no
  background processing, one worker, no rebuild) the cursor a
  worker has read is still the cursor when it commits; hence `ExactlyOnce`, and each commit is one
  publication of the ledger. `SequentialImplementsLedger` is the same for the scenario of the run.

`StoresProofs`, the write path (assumes `ConstantsAssumption`):

* `WriteInvariant`, `IndexCorrect`, `UpdatesAreKept`, `TypeCorrect`: neither property is
  inductive, since a call writes a count and erases an index entry that it read several
  critical sections earlier. The invariant adds: `HoldsLock`, a call past `LockRow` owns its
  row's lock; `OldIsCurrent`, an increment past its read knows the row's present count;
  `CountsInFlight`, a row shows the committed increments and the one in flight; and where a
  call is (`RowIsStored`, `DemoOnlyLogs`, `RecordsLeft`). `OneWriter` follows from the lock and
  carries `Apply` and `Commit`. That a recovered count is a count rests on `MaxIsMember`: the
  last of a non-empty set of log positions exists because `<` is well-founded on `Nat`.
* `LogInvariant`, `RecoveryCorrect`: replay takes the last committed `UpdateRow` of a row, so it is
  exact only if the records of a row are ordered as their commits. While a process writes to a file of its own
  (`OwnLog`; `wal_reopened` shows what happens otherwise), the one uncommitted increment
  of a row has the row's last `UpdateRow` (`UpdateIsLast`), because its call holds the row lock since before it
  read the count, transaction ids in the file are below the next one (`TxNumbered`), and a call's id has a
  `Commit` only after its last record (`RecordsOfCall`).

`StoresProofs`, the waiting queue (assumes `SessionsAssumption`, finitely many sessions, and
`QueueAssumption`):

* `QueueInvariant`, `PositionsCorrect`, `NobodyIsForgotten`: the list is the sorted enumeration of
  the map of scores and the map of positions its inverse (`Lists`). `SortedListExists` shows that the list a
  join computes exists, `PlaceIsRank` that a place is one more than the number of sessions before it, and each pop or removal
  that what stays is still the sorted enumeration.
* `ImplementsSorted`: every call of the store is a command of the sorted set, or changes nothing.
* `StoresTypeCorrect`: the types of both; for the queue, that the list and the map of places hold the
  sessions of the map of scores, each under its score.

`ExperimentsProofs` (assumes `ClaimsAssumption`, `LeasesAssumption`, `LikesAssumption`, `UrlsAssumption`):

* `RaceInvariant`, `ClaimsTypeCorrect`, `VersionIsCount`: the version counts the winners
  because a worker leaves the steps before its result once, whatever the others overwrite.
* `ClaimsAreExclusive`: the refinement of `ExclusiveClaim`. The invariant says why a second
  worker cannot win. In the transaction, one that is past its read owns the write lock
  and the row is as it read it. With the conditional update, a winner has moved
  the version past every version read before it and the status away from AVAILABLE.
* `LeaseInvariant`, `LeasesAreExclusive`: at most one entitled worker on a shared backend. The
  part that carries it is `KeyLasts`: the store keeps an owner's key at least as long as the owner goes by.
  It needs that a clock read before a lock is not ahead of the clock (`ReadsArePast`), that a timer does not fire
  before the end of the lease it was started for (`TimersWait`), and that tokens are not made twice (`OwnTokens`,
  `FreshTokens`), so that a late release or timer removes no key of another.
* `UrlInvariant`, `UrlsAreAnswered`, `UrlFailuresAreReal`, `CommittedCodesStay`: every code that a pending URL
  has tried is another URL's in the table (`TriedAreTaken`), and codes in a table are their URL's
  (`CodesAreOwn`), so that a URL out of attempts has no row (`UsedUp`): what makes giving it up real.
  Earlier batches have committed rows (`DoneAreSaved`), which stay when this one is rolled back; the
  table only grows from one commit to the next.
* `LikeInvariant`, `CountersAreExact`: the counter and the rows differ by the requests that
  are unfinished, lost or repeated; each step moves one request between these sets, and
  transactions in progress have different rows.
* `ProgramsTypeCorrect`: the types of all four; a step of one program is a stutter of the others.

`TopKProofs` (assumes `TimeAssumption`, `StoreAssumption`, `StreamAssumption`, `LoadAssumption`: the
batches are finite tables of hours, and the bounds are numbers):

* `TopKInvariant` is about the tables, the consumer and the loader together. `StreamCounts`: a counter holds each
  record applied so far (those below the committed offsets or, between counts and commit, below those taken) and at most one
  poll more per process that died in between. `ShardTotals` and `LoadCounts` say that shards, counters and native rows
  add up while a batch is halfway applied. `AllRanked`: every bucket with counts has the ranking of its
  counts or is known to be owed one.
* `TopKTypes`, `StreamIsAlwaysCounted`, `ShardsAlwaysAddUp`, `RankingsStayCurrent`,
  `ArchitecturesAlwaysAgree` follow. The last needs that a bucket's hours are those whose bucket it is, on any
  calendar: the start of a start is itself, and an hour lies between a start and its end if and only if it has that start.
  The sums are regrouped by classes: of a batch by bucket, of a bucket's counter by hour,
  of an hour by shard, where quotient and remainder give the count back.
* `RankingIsOrdered`: the rows of a ranking are videos with their counts, ordered by count and id,
  and a video that has no row is behind all of them.

`SumTheorems` has no assumptions. The library's induction theorems take an operator, which the provers cannot
instantiate; here induction over the subsets of a finite set is one over a set of numbers, by a smallest
counterexample, for a property given as a set. From it follow that the recursive
function behind `SumFunctionOnSet` exists, and how the sum behaves on unions, added functions and partitions.

`DropboxProofs` (assumes `ServiceAssumption` and `AgentAssumption`), for the service and the
agent together (`Spec`):

* `SystemInvariant`: `ServiceInv` says what an upload has behind it at each step (`Progress`:
  its body below the limit once read, its object stored before its metadata, its temporary
  file only where it has one) and that a file under the second temporary name belongs to an
  upload that will move it. `AgentInv` says what the agent knows after the
  hash (`Snapshot`: while the file is still, its hash, time and the body sent are the file's;
  a path being sent has no quiet row) and that quiet rows tell what is in the folder.
  The agent and the other clients do nothing to the service but post (`ClientsPost`), so the service's
  invariant is kept without looking at the agent, and the agent's relies on two facts of the service only: bodies stay
  (`BodiesStay`) and files stay.
* `TypeCorrect`, `AnswersCleanUp`, `RowsAlwaysResolve`,
  `UnchangedNeverSent` follow from it; `ServiceImplementsFiles` is the refinement of
  `ImmutableFiles`: recording an upload adds a file, every other step changes none.

Only model-checked: liveness (`CalmSettles`, `PendingIsClaimed`, `EventuallyDrained`, `LeasesEnd`,
`SettledFilesSynced`), which the prover does not handle. The
theorems about `OneRunner` are about the scheduler in one environment at a time (`OneRunnerWhenCalm`,
`OneEntryRunsOnce`), the run about both side by side. `RunsBounded`, `NoneStranded`, `ExactlyOnce` and `IgnoresUncommitted` do
not hold in general: four runs find the behaviours that break them.

## 6. Not modelled

* *Scheduler*: the delay of the index that `get_execution` reads, which DynamoDB
  updates after the write; the limit of 500 rows of a scan; cron arithmetic; queries.
* *Ads*: signatures, log parsing and queries, which change no state.
* *Write path*: metrics, the demo program, torn lines (a torn line has no seven
  parts, or belongs to a transaction without a commit), 64-bit overflow of a count.
* *Waiting queue*: the stream endpoint's polling and the reservation guard, which only read;
  the TTL of the index of admissions, which nothing reads. `NobodyForgotten` is checked with one join of
  a session at a time and proved for any number.
* *SQLite experiments*: the measured times and the printed summaries; a claim that SQLite
  refuses for another reason than its busy timeout.
* *Top-k*: a second consumer of the group (the scripts start one), and the random generators,
  whose floating-point weights decide only which events there are: the models take any.
* *Dropbox*: names, media types and sizes, listings, and which paths `should_sync_path` lets through.
* *URL shortener*: the hash, for which any function stands, and the cleaning of URLs; a program that
  catches the exception of its batch and goes on, which the scripts do not.
* *connection-pooling-benchmark* and *postgis-location-benchmark*: load generators around a
  library pool and SQL with geodesic arithmetic on floats; no state of their own is shared.

## 7. Plan

1. The delay of the index that `get_execution` reads, as an earlier version of the row, and which
   of the scheduler's properties survive it; the limit of 500 rows of a scheduler scan. Both are
   hazards without a property.
2. Theorems for the steps that the liveness properties rest on: that a step of a fair process
   lowers a measure, such as the clicks above a processor's cursor.
3. The rows that `insert_video` does not log, which recovery of a file skips.
