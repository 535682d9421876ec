# DJQ in TLA+

A verification of the distributed job queue in this repository: TLA+ models of
the job stores, the outbox relay, the demo worker, the API process and the
dashboard's page, the TLC runs that check them on small instances, and proofs of
what holds for instances of any size.
Paths below are relative to the repository.

## 1. The system

Clients submit jobs over HTTP; workers claim a job, get a *lease* on it for a
limited time, and complete, fail or heartbeat it with the lease id. Every API
process runs the routes, one demo worker and one outbox relay; the processes
share PostgreSQL (jobs, event history, outbox) and Redis (live events). Without
`DATABASE_URL` one process keeps everything in memory. (In the repository `server`,
`infrastructure`, `application`, `domain` and `api` are under `src/`, the page under
`web/`; documents are quoted by the names they have there.)

| Component | Source | State | Operations | Talks to |
|---|---|---|---|---|
| PostgreSQL job store | `src/infrastructure/postgres-job-store.ts`, `migrations/001_initial.sql` | tables `queues`, `jobs`, `job_events`, `outbox_events` | submit, claim, heartbeat, complete, fail, cancel, retry, reads | one transaction per operation on a pooled connection |
| In-memory job store | `src/infrastructure/in-memory-job-store.ts` | `#jobs`, `#idempotencyKeys`, `#events` | the same | event sink called per event |
| Store contract | `src/application/job-store.ts`, `src/domain/job.ts` | - | the interface both stores implement | - |
| Outbox relay | `src/infrastructure/outbox-relay.ts` | `#running`, `#working`, the batch in hand | start, stop, flush | polls `outbox_events`, publishes, marks |
| Event brokers | `src/infrastructure/redis-event-broker.ts`, `src/application/event-broker.ts` | listeners | publish, subscribe, close | relay to Redis to SSE streams |
| SSE stream, system routes | `src/api/routes/system.ts` | one subscription per stream | connect, event, close; snapshot, metrics | broker, store, worker |
| Demo worker | `src/application/demo-worker.ts`, `src/api/routes/demo.ts` | `#running`, `#busy`, `#timer`, `#activeJobId`, `#failNext`, counters | start, stop, failNext, configure, tick | calls the store, awaits it |
| Job routes | `src/api/routes/jobs.ts`, `helpers.ts`, `app.ts` | none | one store call per route | store |
| Server | `src/server.ts` | `shuttingDown` | bootstrap, shutdown | all of the above |
| Dashboard | `web/src/App.tsx`, `web/src/api.ts` | snapshot shown, selected job, its history, requests under way | poll, refresh on event and after an action, select, close | routes, SSE |

What is hard here: transactions of many processes interleave statement by
statement and wait for each other's rows; `now()` stands still inside a
transaction while the clock goes on; leases expire while their holders work;
connections and processes are lost between any two steps; event ids are drawn
before commits; relays of several processes overlap; the demo worker's ticks,
timers and start/stop requests interleave at every `await`; clients lose their
connections and call again; a shutdown waits for what others may not end; and the
page's requests overtake one another. `PROJECT.json` lists
these hazards line by line with the properties that cover them.

## 2. Modules

* `JobRecord` - the job row and what each statement makes of it (claim, reap,
  acknowledge, cancel, retry, the retry delay): pure operators shared by all.
* `JobStore` - the abstract contract: every operation takes effect at one instant,
  and only an unexpired lease can heartbeat, complete or fail a job, judged by a time
  the operation has read. `Lag` says how old that time may be: `{0}` for the in-memory
  store, whose methods read the clock as they take effect, so that an expired lease
  can do nothing; any age for the PostgreSQL store, whose `now()` is that of BEGIN
  and whose transactions may take any time. `ActsOnLiveLease` then says of each call
  what the contract cannot: the lease was alive when the call's transaction began.
* `PostgresJobStore` - one step per SQL statement. `jobs` is the committed
  version of each row and `draft` the newest; `lock` says which open transaction
  has written it or selected it FOR UPDATE; `txn[s]` is the program counter of a
  session with its `now()` (`start`), the rows a reap has still to visit (`todo`),
  the events it has inserted and what it will tell its caller (`told`); `issued`
  remembers what each lease holder was last told. It changes at the commit, so a
  heartbeat that moves the expiry back and loses its answer, and a holder who then
  believes in the longer lease, are not represented. A statement that meets a locked
  row is not enabled until the lock goes, then looks at the row again (READ
  COMMITTED); `Candidates` leaves locked rows out (SKIP LOCKED); two inserts of
  one unique value wait (`QueueFree`, `KeyFree`). `Commit` publishes the drafts,
  `Rollback` follows a refusal, `Abort` is a lost connection, a failed statement
  or a deadlock victim, at any statement. `Date.now()` of a caller may be off by
  `MaxSkew`.
* `InMemoryJobStore` - one step per method, with the real event history and the
  map of keys beside the jobs; a reap is part of the claim that makes it and records
  one event per expired job, in the order in which the jobs were stored (`Oldest`). The
  history is a sequence that is read by positions (`About`). The contract keeps the
  key in the row, so the refinement mapping looks it up (`KeyOf`).
* `OutboxRelay` - writers that insert an event and its outbox row, relays that
  read a batch, publish, mark or record the failure, and SSE streams. The two id
  sequences are separate and do not wait for commits. A batch is the set of ids
  still to do, visited from the smallest, as the loop over the sorted rows does.
* `DemoWorker` - the worker's timers and the awaits of a tick, composed with
  `JobStore` for the calls it makes and for all other clients (`Others`).
* `ApiServer` - one API process, composed with `JobStore`: `conn` and `request` are
  each client's connection and the request on it, a route is one call of the
  contract with its answer or refusal, or an exception. A connection breaks at any
  time; the handler goes on without it (`orphans`) and the client may send the call
  again. `told` keeps what clients know has succeeded. `phase` and `loop` follow
  `bootstrap`, the awaits of `shutdown`, crashes and restarts. The store and `told`
  survive a crash, everything else does not.
* `Dashboard` - one page. Since every change of a job comes with one event, the store,
  a snapshot and a history are a number of changes per job. `requests` holds what each
  fetch under way has read: the two lists of a snapshot are read at different
  moments, answers come in any order. The effect of `selectedJobId` and `generatedAt`
  is part of the action that changes them.
* `MCPostgres`, `MCMemory`, `MCOutbox`, `MCDemoWorker`, `MCApiServer`, `MCDashboard` -
  constants and symmetry for TLC.
* `JobRecordProofs`, `PostgresJobStoreProofs`, `RefinementProofs` (each on the one
  before it), `InMemoryProofs`, `OutboxRelayProofs`, `DemoWorkerProofs`,
  `ApiServerProofs`, `DashboardProofs` - theorems.

Operators named *Mutant* in a comment are faulty variants of the definition that
follows them; each property is seen to fail when the faulty variant is used.

Left out on purpose: payloads, results, error texts and audit timestamps (no
decision reads them), the `paused` queue status (nothing sets it), lock order
beyond what is above, and the details of the two arguments-checking reads after a
refused UPDATE. NULL `lease_expires_at` is 0. A claim's reap visits rows in any
order, as PostgreSQL may. A caller's arguments are any job and any lease.

## 3. Runs

| Run | Instance | Shows |
|---|---|---|
| `pg_race` | 1 job, 2 sessions, 2 leases, times 0..3, durations 1-2, skew 1, every operation | races of all operations on one row: types, `LiveLeaseIsCurrent`, `HeldJobsAreLeased`, `RetryBudgetDecides`, `FinalJobsStay`, `LeaseNeverReturns`, `ActsOnLiveLease`, `EventsTellTheChange`, refinement of `JobStore` |
| `pg_pair` | 2 jobs in 2 queues, 2 sessions, 2 leases, 1 key, times 0..2, submit/claim/cancel | multi-row reaps, SKIP LOCKED, delayed jobs, lost transactions; `OneJobPerKey`: two inserts of a key in two queues, so that neither waits for the other's queue row, also when the first rolls back; refinement again (the contract does not say which ready job a claim takes) |
| `pg_live` | 2 jobs, 2 sessions, 4 leases, 2 keys, times 0..1, submit/claim/cancel | `EveryCallEnds`: waits for rows, queues, keys; circles of reaping claims. `ExpiredLeaseIsRecovered`: a lease of a vanished worker is taken back, with a pending cancel too |
| `memory` | 2 jobs, 3 leases, times 0..2 | `HistoryReplays`, `AttemptsAreClaims`, `LiveLeaseIsCurrent`, refinement of `JobStore` in its strict form |
| `outbox` | 2 writers, 2 relays, 2 jobs, 2 events, 1 stream | `OutboxIsHonest`, `PerJobOrder`, `EveryEventIsSent` |
| `worker` | 2 jobs in 2 queues, 1 lease, 2 ticks, 1 leaked timer, times 0..1 | `OneTickAtATime`, `NeverWedged`, `ActiveJobIsHeld`, `KeepsPolling`, `StopsInTheEnd` |
| `api` | 2 jobs, 1 key, 2 leases, 2 clients, times 0..1, 1 orphan; submit, claim, complete, fail, event streams, start of the worker, invalid requests | `PoolOutlivesRequests`, `KeyedSubmitsAgree`, `ShutdownEnds` under repeated calls, lost answers, crash and restart; `CompletionIsTerminal`: one worker's lease runs out, another claims the job and is told that it completed it; the first one's late calls, orphaned handlers, crash and restart change nothing |
| `dashboard` | 2 jobs with 2 and 1 changes, 2 requests at a time | `PageCatchesUp`, `InspectorCatchesUp`: torn and overtaken snapshots, failed requests, lost events, late answers to an earlier selection |
| `pg_cancel_twice`, `pg_expired_lease` | as `pg_race`, without skew | documents' claims that the code does not keep (section 4) |
| `sse_order` | as `outbox` with 1 relay | the same |
| `shutdown_stream` | as `api` with 1 job, 1 lease and 1 client | the same |

Bounds. `MaxTime` and the number of leases and events only cut behaviours short.
Two sessions are enough for every pairwise race of statements, a waiting and a
holding transaction; the second commits or rolls back, then the first goes on. Two times
suffice to let a lease expire, three to expire the lease of a second attempt and
two durations to renew by less than was left. In `api` the first lease ends at 1 and
the second outlasts the clock; a fail is sent with the first lease only, early or late,
and heartbeat, cancel and retry are left to `pg_race` and to the proofs, where a call is
any call. `RetryUnit` and `RetryCap` stand
for 1 000 ms and 30 000 ms; a retry is due one tick later, a dead letter after one
or two attempts. In `DemoWorker`, `MaxLeaked` bounds the timers that repeated
stop/start requests during ticks can leave pending. `MaxEvents` of the in-memory
store only limits heartbeats, the one operation that could go on for ever;
`MaxOrphans` bounds the handlers whose client has gone, `Slot` the requests of the
page under way at a time (two suffice for one to overtake another), `MaxChanges`
the changes of each job: a job of one change keeps still while the other moves.

Order. The safety runs of the stores use symmetry, which is unsound for liveness.
`pg_live` therefore takes free values in a fixed order (`InTurnSpec` of `MCPostgres`):
leases nobody has, jobs not stored and unused keys are told apart by nothing, so a
behaviour that takes them in another order is one of those checked with the names
exchanged from there on. `api` does the same with its two leases: the first to be
issued is `l1`, the one that may be used to fail.

Fairness. `Progress` in `PostgresJobStore`: a process goes on with its transaction
and a waiting statement gets its row sooner or later (strong fairness of the
step, for PostgreSQL's queue of waiters, which the model does not order), and the
deadlock detector aborts one transaction of a circle of waiting claims.
`Polling` adds that workers go on claiming, which `ExpiredLeaseIsRecovered` needs: nothing
else reaps. `EveryCallEnds` does not: a call waits only for calls that have begun already.
`ExpiredLeaseIsRecovered` assumes
that crashes and deadlocks do not abort claims for ever; without the queue of
waiters two claims could otherwise abort each other without end. `OutboxRelay`:
relays are restarted, and Redis and the database do not refuse for ever (strong
fairness of the successful outcomes). `DemoWorker`: timers fire and every call of
the store is answered, by an exception if need be (weak fairness). `ApiServer`:
handlers, ticks, flushes and the calls of shutdown come to their end and the server
drops an idle connection (weak fairness). Nothing in the code ends an open stream or
keeps clients from starting the worker again while the server closes, so these are
premises of `ShutdownEnds` and not fairness (`ClientsLeave`, `WorkerIsLeftAlone`).
`Dashboard`: the poll timer fires whatever other requests are under way (strong
fairness, because the slots they take up are a bound of the model); requests are
answered, and, while they keep being made, now and then with success (strong).

## 4. Disagreements between documents and code

* A second `cancel` ends a job at once while its worker holds a live lease, and
  leaves the lease on the row (`pg_cancel_twice`; PLAN.md:174).
* An expired lease can renew itself: `heartbeat` compares the expiry with `now()`, the
  time of its BEGIN, so a transaction that was opened in time and then waited renews a
  lease that has run out, and nobody has taken, meanwhile (`pg_expired_lease`;
  PLAN.md:167, docs/EXPLAIN.md:119, README.md:187). `complete` and `fail` look at the
  clock of the API process and miss by its skew. `ActsOnLiveLease` bounds both: the
  lease is still on the row, and was alive, but for skew, when the call began.
  `LiveLeaseIsCurrent` holds all the same.
* SSE ids are not monotonic (`sse_order`; docs/EXPLAIN.md:126). Per job they are,
  on first publication (`PerJobOrder`).
* `shutdown` waits for event streams that nobody ends (`shutdown_stream`;
  docs/EXPLAIN.md:144).

Four more are seen in the code and have no run of their own:

* `fail` does not increment `attempts`, as docs/EXPLAIN.md:123 says it does ("`fail`
  increments attempt, computes backoff"): `in-memory-job-store.ts:182` and
  `postgres-job-store.ts:316` only compare it; the claim has counted the attempt, as
  PLAN.md:171 wants and `AttemptsAreClaims` shows.
* A snapshot is not coherent, as docs/EXPLAIN.md:126 and PLAN.md:219 want: its jobs and
  its events are read by separate queries on separate connections
  (`postgres-job-store.ts:118`, the two reads of `Dashboard`). The next snapshot makes it
  good (`PageCatchesUp`).
* A stream that reconnects does not recover what it missed (PLAN.md:219,
  docs/EXPLAIN.md:126): the route (`system.ts:68`) never reads `Last-Event-ID` and nothing
  is kept to send again. The page makes up for it with its snapshots.
* A start of the demo worker that is served after the signal (`demo.ts:11`) undoes
  `shutdown`'s stop, so that the process stays even when all clients have left, against
  docs/EXPLAIN.md:144. `WorkerIsLeftAlone` excludes it and the open streams are excluded by
  `ClientsLeave`: `ShutdownEnds` says what holds without the two.

A claim can also hand out a lease that is over by the time its transaction commits,
and a heartbeat with a short extension brings the expiry forward; no document speaks
of these.

## 5. Proofs

`JobRecordProofs`: each row transformer keeps rows well formed, for all inputs:
the retry delay is bounded whatever the number of attempts, an acknowledgement or
a reap leaves no lease, a cancel leaves the lease as it was.

`PostgresJobStoreProofs`, types: `TypeCorrect`, for any number of jobs, sessions, leases
and any clock: `TypeOK`, together with `RowsStay` (a stored row is never lost and
a reap visits only stored rows), without which the types are not inductive.

The same module, leases: under the same generality and from the named assumptions on the
constants alone (`NullAssumption`, `RowAssumption`, `RetryAssumption`,
`SessionAssumption`, `PgAssumption`): `LiveLeasesAreCurrent`,
`HeldJobsHaveTheirLease` and `LeasesNeverReturn`. The properties speak of
committed rows and of what callers were told; a commit can break them through
what its transaction did earlier, so they are not inductive. `LeaseInv` adds what
is true of open transactions:

- a row that no transaction holds is equal to its committed version, rows are
  well shaped, every transaction began in the past;
- a lease is on one job only, over committed and open versions (`OneBearer`), and
  a committed lease was issued with the row's expiry;
- a row version's lease and expiry are the committed ones or will be told
  (`DraftLeasesAreTold`); a lease that is taken off had run out when its
  transaction began, or belongs to the caller who ends it (`LostLeasesAreOver`);
- what a transaction will tell is in a row it still locks (`ToldIsWritten`).

Most operations reduce to two lemmas: a statement that writes nothing
(`MoveKeeps`), and one that writes one row and respects the lease on it
(`WriteKeeps`, `Respects`). The commit is where the parts meet: a live lease stays
on its row because a transaction that takes it off has seen it run out, which it
has not, or works for its holder, whose lease the same commit ends. Every part of
`LeaseInv` was model-checked on the instances of pg_race and pg_pair
before it was proved.

The same module, rows: `RetryBudget`, `OneJob` and `FinalStates`. All three are about committed
rows, and a commit copies drafts, so `RowInv` states them of drafts too and relates
the two: a draft keeps the key, leaves a final row alone and takes a dead letter only
back to the queue (`DraftsFollow`). A claim writes rows twice, when it reaps and when
it claims; the second write is harmless because all it holds while it reaps are rows
that were in a worker's hands (`ClaimsTakeBack`). Two committed rows never share a key
because an insert waits for drafts of the same key (`KeysDiffer` is over both).

`RefinementProofs`: `PostgresRefinement`, for any number of concurrent transactions
the statements add up to operations of `JobStore`, each at its transaction's commit.
`OpInv` says of every open transaction which single operation its writes so far amount
to (`DoesOneOperation`: `NothingDone`, which allows for reaping, `SubmitDone`,
`ClaimDone`, `HeartbeatDone`, `AcknowledgeDone`, `CancelDone`, `RetryDone`), read at the
transaction's `now()`. The other sessions leave the rows it holds alone, drafts and
committed versions both (`OthersUntouched`), so its description stays true however
they interleave, and a commit is that operation of the contract; every other step, a
rollback included, is a stutter. A claim that
takes a row it has just reaped needs care: the description goes back to the committed
version of the row, and the lease it hands out is not the one it took away.
An acknowledgement keeps in its description the caller's time at which it was owned
(`AcknowledgeDone`), a time the contract may have read since a transaction may take
any time (`AnyTimeRead`). `ActsOnLive`: a commit changes a lease that was issued
before only for a heartbeat or an acknowledgement, since a claim's lease is new
(`CommitActs`), and both descriptions say when the lease was alive.
The same module proves `EventsTell`: the events of a transaction are about rows it
holds, and about each row it has written they lead from the committed status to the
draft's (`RecordsWhatItWrites`, `Leads`), whatever it wrote and recorded in between.

`InMemoryProofs`: `Refinement`, every step of `InMemoryJobStore` is an operation of
`JobStore` or a stutter. The mapping takes a row's key from the store's map, which is
well defined because a key names a stored job and no job has two (`KeysName`).
`HistoryExplains` and `AttemptsCountClaims`, for histories of any length: the events
about a stored job account for its row (`Accounts`), there is none about a job not
yet submitted, and only finitely many jobs are stored. One more event about
a job moves the account from its old row to its new one and leaves the other jobs'
alone (`OneEvent`, `AboutMore`); a failure is two events. A reap records an
event per expired job through a bijection, so that each job gets exactly one
(`ReapTold`), whatever the order. `MemoryLeases`: a lease on a row is the lease its
holder was told, and a holder whose time is not over finds it there (`LeaseInv`).
`MemoryTypes` follows from the invariants of the two.

`OutboxRelayProofs`: `OutboxTypes`, `OutboxHonesty`, `OutboxOrder`. A writer holds its
job's row from the event to the commit, so the uncommitted row of a job is its last
(`OpenComesLast`) and outbox ids follow event ids within a job (`IdsFollowEvents`); the
batch a relay has in hand is closed under earlier events of the same job that are not
sent yet (`BatchesAreClosed`), which survives the other relays' steps because
`sent` only grows.

`DemoWorkerProofs`: `WorkerTypesHold`, `OneTick`, `AlwaysWoken`, `ActiveIsHeld`, for any
number of jobs, leases and queues and any other clients. `One` (`busy` says whether a
tick is under way), `Timers` (a stopped worker has no timer of its own) and `HeldJob`
(the tick's lease was issued for its job) are inductive together with `NeverWedged` and
what the contract keeps: a lease that has not run out is on the row it was issued for
(`LeasesLast`).

`ApiServerProofs`: `ApiTypes`, `PoolIsLast`, `TerminalCompletion`, `OneJobToldPerKey`,
for any number of clients, calls and orphaned handlers. What a client was told is tied
to the row it is about (`Told`): final for a completion, carrying the key for a submit;
operations of the contract keep both (`Follows`) and two rows never share a key
(`KeysDiffer`). Requests are there only while the server accepts or drains
(`OpenWhileServing`).

`DashboardProofs`: `DashboardTypes`, what a request has read is of the kind it asked
for, for any number of jobs and of requests under way.

The proofs assume what the modules assume of their constants, by name, and nothing
else. Every property they establish is also a property of a run, and every safety
property of a run that passes is established by a theorem.

Only model-checked: liveness (`EveryCallEnds`, `ExpiredLeaseIsRecovered`,
`EveryEventIsSent`, `KeepsPolling`, `StopsInTheEnd`, `ShutdownEnds`, `PageCatchesUp`,
`InspectorCatchesUp`), since fairness and ENABLED are out of the prover's reach, and
the absence of deadlock, which every run checks.

## 6. Not modelled

* Migrations: one idempotent script, run before anything else starts.
* Memory mode's event path: the sink that `InMemoryJobStore` calls per event and
  `MemoryEventBroker`, which calls its listeners; a failing sink is logged and dropped.
  The connection to Redis, before the process serves.
* What makes a request body invalid: the models' inputs are the valid ones, and that
  a bad one is refused before the store is called is `HandleInvalid`.
* The `configure` command of the demo worker, which clamps a processing time; waits
  have no length in the model.
* Metrics, health and queue counts: reads of one query, formatted.
* Banners, forms and rendering of the page, and the limits of a snapshot (200 jobs,
  100 events), below which the model stays. That a refresh clears the error banner of
  an action is listed as a hazard without a property for this reason.
* The two events a PostgreSQL failure records with the final status (the in-memory
  store records the intermediate one): only the first and the last state of a history
  are required to be right (`EventsTellTheChange`).
* Docker and build files.
