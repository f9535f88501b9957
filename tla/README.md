# A verification of the FastAPI backend examples

The repository is a handbook with four example services and two
documentation tools. The parts that are hard to get right by testing are the
services that coordinate through a database, a broker or an event loop. This
directory models them in TLA+, checks small instances with TLC and proves the
central invariants for every value of the constants with TLAPS.

## The system's parts

Paths are below `src/examples`, unless they start with `tools/`.

| Component | State | Operations | Interacts with | What is hard |
| --- | --- | --- | --- | --- |
| ai-api workers (`app/worker.py`, `app/models.py`) | table `generation_jobs`; per slot a `ClaimedJob` | `_claim_one`, `process_one`, `_complete`, `_fail`, `_run_slot` | rows inserted by the API; model provider | leases against the clocks of several hosts, row locks, crashes, late outcomes, retries |
| ai-api streaming (`app/api.py`, `app/sse.py`) | admission semaphore, `StreamLease`, a generator per response | `stream_generation`, `generate_sse` | provider stream, Starlette's response tasks, client | cancellation and timeout at any suspension point, abandoned generators, who returns the permit |
| ai-api submission (`app/jobs.py`) | unique keys of `generation_jobs` | `create_job`, `get_job` | client retries, workers | races on a key, fingerprints that include settings |
| ai-api provider adapters (`app/providers`) | the frames of `stream` and `generate`; `fail_prompts` | `stream`, `generate`, `_sdk_error`, `_response_error` | their callers in `app/sse.py` and `app/worker.py`; OpenAI SDK | cancellation at each await, a close that fails, which errors are worth repeating |
| distributed-api exports (`app/main.py`, `app/tasks.py`, `app/celery_app.py`, `app/database.py`) | tables `export_jobs`, `idempotency_records`, `outbox_messages`; broker queue | `create_export`, `dispatch_outbox`, `run_export` | Celery beat, broker, Redis | duplicate and returned deliveries, racing transactions, partial failure |
| production-api identity and projects (`app/identity`, `app/projects`, `app/database/session.py`) | tables `users`, `sessions`, `projects`; the connection pool | register, log in, `get_current_user`, create, list, read | PostgreSQL, the framework's thread pool | uniqueness races, session expiry, pages under inserts, threads and connections that wait for each other |
| basic-crud (`app/main.py`) | table `tasks` | create, patch, delete, read | SQLite | requests that work on a row they loaded before another wrote it, reuse of row ids |
| `tools/check_docs.py`, `tools/prepare_mkdocs.py` | none | link, anchor and fence scanning; copying | the handbook's files | scanner state, anchors of equal headings |
| wiring, settings, migrations | none of their own | | | the settings' validation carries a timing assumption |

What makes each part correct:

- workers: one owner per attempt; a late outcome changes nothing; a finished
  job stays finished; no job is left in a state that no query matches; each
  job ends; the lease outlives the work it covers;
- streaming: each permit comes back once; a client's events are in order,
  bounded and end with one terminal event; nobody waits forever;
- creation with an idempotency key: a key stands for one thing, a repeat is
  told of that thing, another payload is refused;
- exports: job, record and message are created together; a job runs once at a
  time however often it is delivered; an accepted export ends;
- adapters: a stream returns only after a completion, what is over is closed,
  and an error is called retriable when a repeat can help;
- projects: races are decided by the unique constraints, an answer tells the
  truth about the rows, nobody reaches another user's rows, pages miss no
  project, and the two pools do not deadlock;
- tasks: patches of different fields keep each other's effect, a deleted task
  stays deleted.

`PROJECT.json` lists every component with its status and every hazard with
the properties that cover it.

## The modules

| Module | Contents |
| --- | --- |
| `GenerationJobs` | the jobs table and the worker slots |
| `GenerationJobsTimed` | the same with limits on how long each phase may take, fairness, liveness |
| `JobLifecycle` | the abstract life of a job as a polling client sees it |
| `GenerationJobsProofs`, `GenerationJobsTimedProofs` | the theorems about these |
| `ExportJobs` | creation, outbox, broker and tasks of the exports |
| `ExportJobsProofs` | the theorems about `ExportJobs` |
| `IdempotentCreate` | what an endpoint with an idempotency key promises |
| `JobSubmission` | submission of generation jobs, across releases |
| `JobSubmissionProofs` | the theorems about `JobSubmission` |
| `SseStream` | admission, generator and response of the streaming endpoint |
| `SseStreamProofs` | the theorems about `SseStream` |
| `ProviderContract` | what `sse.py` and `worker.py` rely on when they call a provider |
| `ProviderAdapters` | `OpenAIResponsesProvider` and `FakeProvider` |
| `ProviderAdaptersProofs` | the theorems about `ProviderAdapters` |
| `ProjectsApi` | registration, login, sessions and projects of production-api |
| `ProjectsApiProofs` | the theorems about `ProjectsApi` |
| `TaskCrud` | the task API of basic-crud |
| `TaskCrudProofs` | the theorems about `TaskCrud` |
| `MC...` | instances of these for TLC; `SseStream` is checked as it is |

The abstract specifications are `JobLifecycle`, `IdempotentCreate` (implemented
by two endpoints that work differently) and `ProviderContract`.
`ProviderAdapters` shows what its two implementations deliver; `SseStream` and
`GenerationJobs` take from a provider no more than that contract: text, at most
one completion, an end, or a failure at any moment.

An operator whose comment starts with "(mutant)" is a plausible bug in the
definition after it. It is used by no specification; it records what the
properties are able to detect.

### GenerationJobs

`rows` is the committed table, `slot` the local state of each slot: the phase
`pc`, the instant `since` at which it was entered (what `utc_now()` returned,
up to the host's `Skew`), the rows its sweep has locked, the row it picked and
later its `ClaimedJob`. The actions follow `process_one`:

| Code | Actions |
| --- | --- |
| `_claim_one` reads `now` | `BeginClaim` |
| UPDATE of exhausted leases | `Sweep` |
| SELECT ... FOR UPDATE SKIP LOCKED LIMIT 1 | `SelectJob`, `SelectNone` |
| the claim is written and committed | `CommitClaim`; `LoseClaimReply` if the acknowledgement is lost |
| `provider.generate` under `wait_for` | `CallReturns`, `CallFails` |
| `_complete`, `_fail` | `Complete`, `Fail` |
| exceptions in `_run_slot` | `DatabaseError` |
| the process dies, is cancelled, starts again | `Crash`, `Restart` |
| `create_job` | `Submit` |

The statements of a claim are separate steps because other slots act between
them; row locks are derived from the phases (`Locks`), and an UPDATE waits for
a locked row. `_complete` and `_fail` are single UPDATEs, hence single steps.
A restarted process uses its worker ids again: `socket.gethostname()` and
`os.getpid()` are the same in a restarted container. A provider result is
represented by the number of the attempt that produced it, which is what
`ResultIsOfLastAttempt` needs to tell results apart. The claim does not reset
the usage columns: a running row, or one that the sweep gave up, shows the
usage of an earlier attempt or none, never that of the attempt it counts.
`ResultIsOfLastAttempt` says exactly that; no document asks for more.

`GenerationJobsTimed` restricts `Tick`: time passes only while no slot has
exceeded its `Limit`. The provider timeout and the poll interval are in the
code; `DbSeconds`, the time of one transaction, and `RestartSeconds` are
assumptions about the deployment. `Settings` requires the lease to exceed the
provider timeout by more than five seconds; `BudgetAssumption` states what
these seconds must pay for. The settings do not enforce it
(`database_pool_timeout_seconds` may be 60), so `LeaseCoversWork` is a
statement about deployments that keep to the budget. All other safety
properties hold without it.

### ExportJobs

`calls` holds the phase of each call of `create_export`: the SELECT of the
record, the flush that enters the unique index, the commit, the response. The
flush waits for a transaction that has inserted the same key and fails if one
has committed since the SELECT. `disp` holds the batch that a run of
`dispatch_outbox` has locked and the part it has published; `broker` counts
the deliveries that wait per job; `workers` holds the delivery that each
worker has not acknowledged. Faults are counted by kind, so that properties
can say which kind they tolerate: `aborts` (a call or a dispatcher fails),
`kills` (a delivery comes back), `errors` (an execution raises and its
delivery is acknowledged all the same). Progress in Redis is left out: it
decides nothing.

### JobSubmission

The other implementation of `IdempotentCreate`. `create_job` has no SELECT
first: `Insert` is the flush of `session.commit()`, which the unique index
stops or makes wait, `Commit` the commit, `Refresh` what follows it, and `Find`
the lookup after a rollback. What is stored of a key and of a request depends
on the settings of the process that serves the call, so each call has a
release (`ServedBy`), and calls of several releases overlap as in a rolling
deployment. The promise is therefore kept for hashes and fingerprints. In
terms of the client's own key and payload this means: a repeat that a release
with another model or other instructions serves is refused with 409, and one
that a release with another `idempotency_secret` serves creates a second job.
`Submit` of `GenerationJobs` is the same insertion as the workers see it.

### SseStream

`gen` says where `generate_sse` is suspended: at a yield, while the chunk is
being sent, or in an await of its own. The difference decides what an
exception does. In an await it enters the generator's handlers; at a yield it
ends the task that sends, and the generator is abandoned until it is
finalized. `lease` is `StreamLease.released`; `permits` and `arrivals` are the
semaphore, whose `release` hands a permit to the first waiter before that
waiter runs. `wire` is what the client has received.

| Code | Actions |
| --- | --- |
| payload limits; `acquire` under its timeout | `Reject`; `Arrive`, `Admit`, `AdmissionTimeout` |
| first `__anext__`, `is_disconnected`, the yields | `Begin`, `FindHere`, `FindGone`, `Sent` |
| the provider's events | `Delta`, `Completed`, `EventForNobody`, `StreamFails` |
| `aclosing` | `Closed`, `CloseFails` |
| `asyncio.timeout`, and the adapter's own close after it | `ProviderTimeout`, `Unwound` |
| the client, Starlette's cancellation | `Disconnect`, `Cancel` |
| `BackgroundTask(lease.release)`, the finalizer of a generator | `Background`, `Finalize` |

Starlette, asyncio and uvicorn are modelled from how the code uses them.

### ProviderAdapters

`calls` holds a frame for each call: where its coroutine or generator is
(`pc`), what it has delivered, the SDK's response stream (`upstream`) and how
it ended. `yielded` is the suspension between two events, where the caller may
drop the generator; in every other step an await may be cancelled (`Cancel`).
`End` runs the `finally` clause: with an open response stream a call is
`closing` first, and a close that raises replaces the outcome. Exceptions of
the SDK are records of class, status and code, which are all that `_sdk_error`
looks at. `failPrompts` is chosen once, since every test configures its own
fake. Text, usage and ids are left out.

### ProjectsApi

A request is `new`, waits for a thread or a connection, works, and ends with a
status code. Dependencies and endpoints are separate steps, because the
framework gives the thread back between them while the SQLAlchemy session
keeps its connection, and so is the validation of the response, which needs a
thread again (`returned`): `TakeThread` and `Connect` are the two pools,
`PoolTimeout` is `pool_timeout`, and `Close` the end of `get_session`, which
needs no thread of this pool (the framework closes dependencies with a limiter
of its own). `Register`, `Lookup`, `IssueSession`, `Authenticate`,
`CreateProject`, `Refresh`, `ListProjects` and `ReadProject` are the
transactions; an INSERT and its COMMIT are one step, as the unique constraint
makes the second of two racing inserts wait for the first. `created_at` is
`now()`, the start of the transaction, and the transaction of a create starts
with the SELECT that authenticates it; `began` keeps that order, in which a
page counts its offset. `StatementFails` includes a COMMIT whose answer is
lost. `After` lets an instance say which answers a client waits for.

### TaskCrud

A patch is a SELECT outside of any transaction (`Load`), an UPDATE (`Update`)
and a SELECT (`Refresh`); a create an INSERT and a SELECT; a delete a SELECT and
a DELETE. Other requests write between these. SQLAlchemy's UPDATE names the
columns whose value differs from the loaded one (`Written`), and raises if it
meets no row; its DELETE does not. A patch with a null (`Null`) is refused by
the database, and any statement may find it locked (`Locked`). Row ids are
SQLite's (`IsNextId`): without AUTOINCREMENT the id of the last row is given
again after its deletion.

## The runs

| Run | Bounds | Shows |
| --- | --- | --- |
| `jobs_safety` | 2 jobs, 2 slots on 2 hosts, one clock ahead, 2 attempts, lease 1, 3 instants, 1 fault | the safety of `GenerationJobs`; refinement of `JobLifecycle` |
| `jobs_timed` | 1 job, 2 hosts, clocks 1 apart, tightest budget (5 > 1 + 3), 2 attempts, 2 faults | `LeaseCoversWork`, `EveryJobEnds` |
| `submissions` | 6 calls (one sent twice, to two more releases, with another payload, and without a key), 3 releases, 1 fault | answers, `EveryCallEnds`; refinement of `IdempotentCreate` |
| `exports_safety` | 3 calls (one key with two payloads, one key of its own), 2 dispatchers, 2 workers, 1 fault of each kind | safety of creation, dispatch and execution |
| `exports_liveness` | 3 calls (one repeated, one with its own key), 2 dispatchers, 2 workers, 1 abort | `EveryExportEnds` without worker faults; refinement of `IdempotentCreate` |
| `exports_worker_lost` | 1 call, 1 lost worker | violation: the export never ends |
| `exports_repeat` | 2 equal calls | violation: a repeat is refused |
| `sse_streams` | 2 requests, 1 permit, limit 2, deltas of 1 or 2 | permits, leases, bounds and order of events; every request is answered, every permit comes back |
| `sse_terminal` | 1 request | violation: no terminal event, or two |
| `providers` | a stream and a `generate` of each adapter, 9 SDK errors, 2 chunks of which the second may fail | clean ends and the classification of errors; refinement of `ProviderContract` |
| `projects` | 12 requests of 2 users, 2 threads, 1 connection, 1 fault | answers, ownership, pages, `EveryRequestEnds` |
| `tasks` | 2 creates, 3 patches, 2 deletes, all after one id, 1 fault | patches that stand, deletions that last |

Why the bounds are enough to be interesting: two jobs let one claim sweep one
row and pick another while a second slot waits for the lock; two attempts on
each, with a lease of one instant, let a slot lose its job, see it claimed,
swept or finished by another, and write late; one fault between any two steps
reuses a worker id. Three instants suffice for a lease of one to expire twice.
Each answer of `create_export` is met: a mismatch in `exports_safety`, a repeat
and a lost race in `exports_liveness`, whose first two calls are equal; two
jobs in a batch let a dispatcher fail half way; one abort yields a duplicate
delivery, which two workers take at the same time. The six calls of
`submissions` are the two equal ones and one for each way in which a third can
differ from them: model, secret, payload beyond the limits, absent key. Two
requests on one permit let one wait, be granted and time out at the same
moment, while the other ends in each possible way. In `providers` calls do not
interact, so one of each kind is enough; its errors have a status on either
side of each boundary (400, 409, 499, 500) and both kinds of limit. In
`projects` the number of threads and connections makes the two pools block
each other: one request holds the only connection and waits for a thread while
both threads wait for that connection. Two registrations carry one address in
two spellings, two creates one name, and a third create commits while its
owner follows pages of one project each. In `tasks` one id is created, deleted
and given again, under patches that loaded the first row; one patch is refused
for a null, and the two others name a title and a completion.

Symmetry is used with safety properties only, and only between values that the
instance does not tell apart: the two jobs, dispatchers, workers, creates,
deletes.

The deadlock check is on for the jobs. It is off where the instance really
ends: once a finite number of calls or requests is over, nothing is left.

### Disagreements between code and documentation

1. `exports_worker_lost`: `run_export` commits "running" before it works, and
   passes a running job over. A delivery that comes back because its worker
   was lost is acknowledged without effect. The settings of `celery_app.py`
   and the handbook rely on the redelivery.
2. `exports_repeat`: an identical request that overlaps the first one gets 409
   instead of the job; the README reserves 409 for another payload.
3. `sse_terminal`: the timeout also covers the time in which a chunk is being
   sent. If it expires there, a connected client sees the stream end without a
   terminal event; and an error, or the timeout, while the provider's iterator
   is closed after "complete" adds an "error" event. The README promises
   exactly one terminal event.
4. The README of `ai-api` (line 135) says that a repeat of the same key and
   request returns the original job with `created: false`. The key's hash and
   the request's fingerprint contain settings of the process that answers
   (`jobs.py:29`, `jobs.py:36`): a repeat that a release with another model or
   other instructions serves gets 409, and one that a release with another
   `idempotency_secret` serves creates a second job. `submissions` reaches
   both with its third and fourth call. It is no violation run, since the
   properties of `JobSubmission` are stated for hashes and fingerprints, which
   is what the code compares.

### Fairness

- `GenerationJobsTimed`: weak fairness of each slot's steps (asyncio runs what
  is ready), of each restart (the supervisor of the container), and of time.
  Faults are bounded and never obliged; submission is never obliged.
- `ExportJobs`: weak fairness of each dispatcher (the beat starts one every
  second) and of each worker (it consumes while the queue is not empty).
  Nothing is assumed of clients.
- `JobSubmission`: weak fairness of each call that has arrived: the event loop
  runs it and PostgreSQL answers it or it fails. A wait in the unique index
  ends with the other transaction.
- `SseStream`: weak fairness of the steps of the loop, of its timers, and of
  sending: a client reads or disconnects. The provider may be silent forever;
  of its SDK only this is assumed, that the `close()` by which an adapter
  leaves its stream after the timeout (`openai.py:178`, under no timer) comes
  to an end. A client that stays connected without reading
  is outside this assumption, and the code does not bound it while "start" or
  "error" is being sent.
- `ProjectsApi`: weak fairness of all progress together: threads are
  scheduled, PostgreSQL answers and the pool's timer fires. No request is
  assumed to be preferred, so `EveryRequestEnds` says that the service comes
  to rest, as a finite number of requests lets it. Failing statements are never
  obliged.
- `TaskCrud` and `ProviderAdapters` state safety only: a provider may be silent
  forever, and what bounds it is `SseStream` and `GenerationJobsTimed`.

## The proofs

`GenerationJobsProofs` proves, for any sets of jobs, slots and processes, any
skew, lease, backoff, attempt limits and bounds that satisfy the ASSUMEs of
`GenerationJobs`:

- `Invariant`, and from it `TypeCorrect`, `Columns`, `Locking`, `OneOwner`,
  `Fence`, `NoStrandedJob`, `LastResult`, `NoDeadlock`;
- the action properties `Finality` (a finished row is never written) and
  `NoEarlyTakeover` (a lease that the claimer's clock says is live is kept);
- `Implementation`: `GenerationJobs` implements `JobLifecycle`.

The fence of `_complete` and `_fail` compares worker ids, not attempts. That it
rejects every stale outcome (`FenceIsExact`) is not inductive as it stands. It
needs to know that a slot never holds an attempt ahead of the row, that two
slots never hold the same attempt (`AttemptHasOneOwner`), and that a claim
whose WHERE clause was evaluated two statements ago still finds the row as it
was (`LocksProtect`, by the row locks). Together with `NothingPicked` and
`BlankBefore` these conjuncts form `IInv`. The proof treats a step as one of a
few kinds: only a slot changes (`SlotOnly`), one row is written (`RowWrite`),
a claim commits (`ClaimEffectOK`), and shows for each kind that every conjunct
is kept. `NoEarlyTakeover` needs in addition that no slot's `since` lies in
the future (`PastNow`). `Implementation` shows that each step moves every row
along an arrow of the life cycle.

`GenerationJobsTimedProofs` proves `LeaseSuffices`, that `LeaseCoversWork` holds
of `TimedSpec` for any lease, limits and clocks that satisfy `LeaseAssumption`
and `BudgetAssumption`. `LeaseCoversWork` says nothing of time, so it is
strengthened twice (`TimedInvariant`): no slot stays in a phase beyond its limit
(`Timely`), and the lease in a row was counted from at most one transaction
before the call began (`Covered`). Together they put the end of the lease after
every clock's now (`LeaseLive`), and `IInv` then says that no sweep and no claim
can have locked the row (`RowKept`). No fairness is used. `NoTimelock` uses
`Timely` the other way round: a slot at its limit holds the clock back, and then
it can step, or waits for the lock of one that can, or its process can be
restarted. For a restart all slots of a process must be down together
(`DownTogether`), which is why `ProcessesAssumption` says that processes share
no slot; their worker ids contain the process id.

`ExportJobsProofs` proves, for any calls, keys, payloads, dispatchers, workers,
batch size and numbers of faults:

- `Invariant`, and from it `TypeCorrect`, `OneJobForEachKey`,
  `JobsAreCreatedWhole`, `AnswersAreTrue`, `OneRunnerAtATime`,
  `NoMessageIsLost`, `StrandedByFaults`, `NoDeadlock`;
- the action property `StatusIsMonotone`;
- `PromiseIsKept`: the endpoint implements `IdempotentCreate`.

`OneJobPerKey` is not inductive: the commit of a call is safe only because a
call that has flushed is alone with its key in the unique index and no record
of the key is committed (`InsertedAlone`), and because a key has one record
(`RecordsUnique`). `Told` keeps what a call has read true until it answers.
`QueuedIsOnItsWay` needs `Tracked`: a message that a dispatcher has sent but
not marked is a delivery already, so that neither the commit nor a rollback
loses it; and `DispatchInv`, that a row is locked by one dispatcher
(SKIP LOCKED). `OnlyFaultsStrand` counts: a lost worker adds at most the job it
was running to the stranded ones, and one to the faults. Two frame lemmas
(`CallsFrame`, `DeliveryFrame`) separate the endpoint's half of the invariant
from the delivery's; only `CommitCreateStep` disturbs both. The refinement
follows the same split: all that the dispatchers and workers do is a stutter
of `IdempotentCreate`.

`JobSubmissionProofs` proves the same kind of facts of `JobSubmission`, for any
calls, keys and assignment of releases: `Invariant`, `TypeCorrect`,
`AnswersAreTrue`, `NoDeadlock`, `StepsAdvance`, and `PromiseIsKept`. Only one
action writes a row, so one
lemma (`CallMoves`) serves all others. The refinement concerns the calls with
a key; `Silent` shows that the others are never seen.

`SseStreamProofs` proves, for any requests, capacity, limit and deltas:
`Invariant`, `TypeCorrect`, `PermitsKept`, `LeasedWork`, `BoundedOutput`,
`ServedInOrder`, `NoDeadlock`, and the action property `ErrorEnds`.
`PermitsAccounted` says that every permit is free or in exactly one place, and
that no permit is idle while a request waits (no wake-up is lost). It is about
cardinalities, so its proof counts: `Granting` shows that a release moves as
many requests from waiting to granted as it takes permits. What makes it
inductive is `Linked`, which ties the variables of one request to each other:
a lease is held exactly while a generator may run or is abandoned before the
background task. `Heard` ties what the client received to where the generator
is, so that no event is sent twice. `ServedInOrder` proves that the semaphore
is fair, for every number of requests; it rests on `Queue` (an arrival is noted
once) and on `Served` (those who receive a permit stand in front of those who
do not). With two requests a release never has to choose, so these two facts,
and that a granted request passes the permits on that are left, say more than
the run `sse_streams`.

`ProviderAdaptersProofs` proves, for any calls, errors and numbers of chunks:
`Invariant`, `TypeCorrect`, `CleanEnds`, and `ContractKept`, that both adapters
implement `ProviderContract`. Calls do not interact: `OneMoves` reduces a step
to the new frame of the call that moves, and `Frame` says what a frame can look
like at each suspension point. `CleanEnds` needs `Classified`, the case
analysis over class, status and code against `Hopeless`.

`ProjectsApiProofs` proves, for any clients, threads and connections:
`Invariant`, `TypeCorrect` (which bounds the threads and connections in use),
`AnswersTrue`, `RowsOfOwner`, `PagesComplete`, `RowsAndAnswersStay`,
`NoDeadlock` and `StepsAdvance`. An answer stays true only because rows are
never changed once inserted (`Grows`), and a 409 is true of whoever was
authenticated, which `ProjectOK` ties to the token's session. `OneMoves`
separates the moving request from the others.

`PagesComplete` proves `PagesMissNothing` for every page size and any number of
projects, although a project that is created meanwhile may sort before those
that were read and shift them. `PagesInv` says what a page has read: the rows
of its ranks among those that were visible (`Shown`), and never fewer visible
rows than a page read before it (`InOrder`, because rows stay and a client asks
for a page after the answer to the one before: `Orderly`, the content of
`RowsAndAnswersStay`). A row's rank therefore only grows along a walk
(`RankGrows`). Suppose that no page showed a row of the first page's view. Then
the row's rank lies beyond the end of every page: the page of least offset for
which it did not would follow a page for which it does (`NothingMissed`). So it
lies beyond the last page, and a page with a row beyond it is full
(`FullWindow`).

`TaskCrudProofs` proves, for any requests: `Invariant`, `TypeCorrect`,
`PatchesKeep` and `AnswersTrue`. `PatchesStand` needs to know that a field
which nobody else names is, in every row loaded earlier, as it was created
(`Stands`): only then does an UPDATE that omits an unchanged column not undo
another. `AnswersAgree` needs `Meets`: as long as an id has not been deleted,
a request meets the task that it loaded.

`PowersAssumption` states that 2^(a-1) is a natural number for the ten
possible attempts, which the back-end provers do not know; TLC evaluates it.

What liveness needs of safety is proved as well, for every value of the
constants. Each `NoDeadlock` says that whoever has work to do can go on, or
waits for somebody who can; the guards of the actions are written out as state
predicates (`MayStep`, `MayGoOn`, `MayDispatch`, `MayWork`), because the provers
do not know ENABLED. The theorems say where a wait may go:

- jobs: a slot waits for the row lock of a claim, and a claim waits for nobody;
  among the rows that are due there is always a first. (`Sweep` takes its locks
  at once. PostgreSQL takes them row by row, so two sweeps can also meet in a
  circle, which it breaks by failing one of them: `DatabaseError`);
- exports: a call waits for the one transaction that holds its key; there is
  always a batch to take; a queued export that no execution failed keeps a
  dispatcher or a worker able to act (by `Tracked`);
- submission: as for exports, and `StepsAdvance` adds that every step advances
  one call and that a wait ends with a row nobody waits for, or a failed call;
- streaming: a request that waits, or holds its lease, can go on, since a
  release always finds the requests in front of the queue;
- projects: requests wait for threads and connections in circles, but as long
  as one has begun and is not answered, one can go on (by the pool's timeout if
  nothing else); `StepsAdvance` bounds the number of steps;
- time: `NoTimelock`, above.

Some of these need a finite search: the first row that is due, the batch of the
right size, the requests that a release wakes, the end of a page. A set of
naturals that is not empty has a least element (`LeastNatural`, from
`WFMin` and `NatLessThanWellFounded` of the library, which take no operator as
a parameter), and the argument is by the least counterexample.

Only model-checked: the five liveness properties themselves (`EveryJobEnds`,
`EveryExportEnds`, `EveryCallEnds`, `EveryRequestAnswered`,
`EveryRequestEnds`), since TLAPS does not reason about ENABLED and fairness
here. Every safety and action property that a passing run checks is also
proved. The modules contain no RECURSIVE operator, which the provers could not
use, and no recursive function whose values a theorem would need.

## Not modelled

- The read-only endpoints `get_job`, `get_export`, `list_tasks`, `read_task`,
  `health` and `/health/ready`: one SELECT each, without effect on anything.
  That a poll sees a job's states in order is `JobLifecycle`.
- `tools/check_docs.py`, `tools/prepare_mkdocs.py` and the handbook: scripts of
  one process over text files. What they do is regular expressions and string
  formatting; a model would spell them out again and has no protocol to check.
- Migrations and table definitions: they run once, and their constraints
  appear where the code relies on them (unique keys, CHECK constraints).
- Wiring: construction of applications, engines and clients, start-up and
  shutdown, logging. Of the settings, those that a behaviour depends on are
  CONSTANTS with the bounds of their fields as ASSUMEs where a proof needs
  them.
- Contents: prompts, generated text, token usage, password hashes, tokens,
  rendered exports and their progress in Redis.
- `result_expires` and the retention of rows: nothing in the code deletes
  them.
