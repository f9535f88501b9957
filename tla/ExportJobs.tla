----------------------------- MODULE ExportJobs -----------------------------
(***************************************************************************)
(* The exports of examples/distributed-api: POST /v1/exports creates a     *)
(* job, its idempotency record and an outbox message in one transaction    *)
(* (app/main.py); dispatch_outbox, which the beat runs every second,       *)
(* publishes outbox messages to the broker; run_export works a delivery    *)
(* off (app/tasks.py, app/celery_app.py).                                  *)
(*                                                                         *)
(* PostgreSQL runs at READ COMMITTED: a statement sees what was committed  *)
(* before it began.  The idempotency record enters its unique index when   *)
(* the flush inserts it, a step before the commit.  The endpoint serves    *)
(* one account, so a key is the pair of the unique constraint.             *)
(*                                                                         *)
(* A job's id is a fresh uuid4 of the call that inserts it, so a job is    *)
(* named by that call.  Rows are never deleted, hence the branches for a   *)
(* missing job (main.py:78, tasks.py:45 and 76) are not reachable.         *)
(***************************************************************************)
EXTENDS Integers, FiniteSets

CONSTANTS
  Requests,     \* the calls of POST /v1/exports, repeats included
  Keys,         \* Idempotency-Key headers
  Payloads,     \* request bodies, by request_hash
  KeyOf,        \* [Requests -> Keys]
  PayloadOf,    \* [Requests -> Payloads]
  None,         \* no job
  Dispatchers,  \* concurrent runs of dispatch_outbox
  Workers,      \* worker processes that execute run_export
  BatchSize,    \* LIMIT of dispatch_outbox
  MaxAborts,    \* bound of the model: failed calls and failed dispatches
  MaxKills,     \* bound of the model: deliveries that come back
  MaxErrors     \* bound of the model: executions that raise

ASSUME CallsAssumption ==
  /\ KeyOf \in [Requests -> Keys]
  /\ PayloadOf \in [Requests -> Payloads]
  /\ None \notin Requests
ASSUME BoundsAssumption ==
  /\ BatchSize \in Nat \ {0}
  /\ MaxAborts \in Nat /\ MaxKills \in Nat /\ MaxErrors \in Nat

VARIABLES
  calls,    \* local state of each call of create_export
  jobs,     \* export_jobs.status, "none" before the row is committed
  records,  \* idempotency_records
  outbox,   \* outbox_messages, by the job that they are about
  disp,     \* dispatcher transactions: the rows locked, those published
  broker,   \* deliveries of run_export that wait in the queue, by job
  workers,  \* the delivery that each worker holds unacknowledged
  aborts, kills, errors   \* faults taken so far

apiVars == <<calls, records>>
faultVars == <<aborts, kills, errors>>
vars == <<calls, jobs, records, outbox, disp, broker, workers, faultVars>>

-----------------------------------------------------------------------------
Record == [key : Keys, hash : Payloads, job : Requests]

\* (mutant) Key and hash are stored in each other's column.
RecordSwapped(r) == [key |-> PayloadOf[r], hash |-> KeyOf[r], job |-> r]

RecordOf(r) == [key |-> KeyOf[r], hash |-> PayloadOf[r], job |-> r]

\* Phases of create_export: before the SELECT; no record found; record
\* inserted and flushed; transaction over, response being built; answered.
Answers == {"ok", "mismatch", "conflict", "error"}
CallPC == {"called", "missed", "inserted", "replying"} \cup Answers

Call == [pc : CallPC, job : Requests \cup {None}]

At(pc, job) == [pc |-> pc, job |-> job]

Ended(r) == calls[r].pc \in Answers

Dispatcher == [batch : SUBSET Requests, sent : SUBSET Requests]

IdleDispatcher == [batch |-> {}, sent |-> {}]

\* A delivery is received, its job claimed and committed as running, then
\* the job is ended and the delivery acknowledged.
WorkerPC == {"idle", "received", "running", "acking"}

Worker == [pc : WorkerPC, job : Requests \cup {None}]

-----------------------------------------------------------------------------
Init ==
  /\ calls = [r \in Requests |-> At("called", None)]
  /\ jobs = [r \in Requests |-> "none"]
  /\ records = {}
  /\ outbox = [r \in Requests |-> "none"]
  /\ disp = [d \in Dispatchers |-> IdleDispatcher]
  /\ broker = [r \in Requests |-> 0]
  /\ workers = [w \in Workers |-> At("idle", None)]
  /\ aborts = 0 /\ kills = 0 /\ errors = 0

Found(r) == {rec \in records : rec.key = KeyOf[r]}

\* (mutant) A repeated key is answered without comparing the payload.
LookupAnyPayload(r) ==
  /\ calls[r].pc = "called"
  /\ \/ /\ Found(r) = {}
        /\ calls' = [calls EXCEPT ![r] = At("missed", None)]
     \/ \E rec \in Found(r) :
          calls' = [calls EXCEPT ![r] = At("replying", rec.job)]
  /\ UNCHANGED <<jobs, records, outbox, disp, broker, workers, faultVars>>

\* SELECT of the record of this key; a record of another payload is a 409,
\* the same payload is answered with the recorded job.
Lookup(r) ==
  /\ calls[r].pc = "called"
  /\ \/ /\ Found(r) = {}
        /\ calls' = [calls EXCEPT ![r] = At("missed", None)]
     \/ \E rec \in Found(r) :
          calls' = [calls EXCEPT ![r] =
            IF rec.hash = PayloadOf[r] THEN At("replying", rec.job)
                                       ELSE At("mismatch", None)]
  /\ UNCHANGED <<jobs, records, outbox, disp, broker, workers, faultVars>>

\* (mutant) There is no unique constraint.
InsertFreely(r) ==
  /\ calls[r].pc = "missed"
  /\ calls' = [calls EXCEPT ![r] = At("inserted", r)]
  /\ UNCHANGED <<jobs, records, outbox, disp, broker, workers, faultVars>>

\* The flush inserts job, record and message.  The unique index makes it
\* wait for a transaction that has inserted the same key, and fail with an
\* IntegrityError when the key has been committed since the SELECT.
Insert(r) ==
  /\ calls[r].pc = "missed"
  /\ \A o \in Requests :
       KeyOf[o] = KeyOf[r] => calls[o].pc # "inserted"
  /\ calls' = [calls EXCEPT ![r] =
       IF Found(r) = {} THEN At("inserted", r) ELSE At("conflict", None)]
  /\ UNCHANGED <<jobs, records, outbox, disp, broker, workers, faultVars>>

\* (mutant) The outbox message is left to a later transaction.
CommitCreateAlone(r) ==
  /\ calls[r].pc = "inserted"
  /\ jobs' = [jobs EXCEPT ![r] = "queued"]
  /\ records' = records \cup {RecordOf(r)}
  /\ calls' = [calls EXCEPT ![r] = At("replying", r)]
  /\ UNCHANGED <<outbox, disp, broker, workers, faultVars>>

CommitCreate(r) ==
  /\ calls[r].pc = "inserted"
  /\ jobs' = [jobs EXCEPT ![r] = "queued"]
  /\ records' = records \cup {RecordOf(r)}
  /\ outbox' = [outbox EXCEPT ![r] = "unpublished"]
  /\ calls' = [calls EXCEPT ![r] = At("replying", r)]
  /\ UNCHANGED <<disp, broker, workers, faultVars>>

\* as_response, which reads the progress from Redis, and the 202.
Reply(r) ==
  /\ calls[r].pc = "replying"
  /\ calls' = [calls EXCEPT ![r] = At("ok", calls[r].job)]
  /\ UNCHANGED <<jobs, records, outbox, disp, broker, workers, faultVars>>

\* The database, Redis or the process fails: a transaction that has not
\* committed rolls back, one that has stays, and the client gets no job.
\* (The ConnectionError that as_response catches is the builtin one, which
\* redis.exceptions.ConnectionError is not.)
CallFails(r) ==
  /\ aborts < MaxAborts
  /\ ~Ended(r)
  /\ calls' = [calls EXCEPT ![r] = At("error", None)]
  /\ aborts' = aborts + 1
  /\ UNCHANGED <<jobs, records, outbox, disp, broker, workers, kills, errors>>

-----------------------------------------------------------------------------
(* dispatch_outbox.                                                        *)

RowLocked == UNION {disp[d].batch : d \in Dispatchers}

Waiting == {r \in Requests : outbox[r] = "unpublished"} \ RowLocked

\* SELECT ... FOR UPDATE SKIP LOCKED LIMIT.  The rows are ordered by
\* created_at, the start time of the creating transaction, which need not
\* be the order of the commits: any batch of the right size is allowed.
TakeBatch(d) ==
  /\ disp[d].batch = {}
  /\ \E batch \in SUBSET Waiting :
       /\ batch # {}
       /\ Cardinality(batch) <= BatchSize
       /\ Cardinality(batch) = BatchSize \/ batch = Waiting
       /\ disp' = [disp EXCEPT ![d] = [batch |-> batch, sent |-> {}]]
  /\ UNCHANGED <<calls, jobs, records, outbox, broker, workers, faultVars>>

\* run_export.apply_async, which no rollback undoes.
Publish(d, j) ==
  /\ j \in disp[d].batch \ disp[d].sent
  /\ broker' = [broker EXCEPT ![j] = @ + 1]
  /\ disp' = [disp EXCEPT ![d].sent = @ \cup {j}]
  /\ UNCHANGED <<calls, jobs, records, outbox, workers, faultVars>>

\* (mutant) The messages are marked before they are published.
CommitDispatchEarly(d) ==
  /\ disp[d].batch # {}
  /\ outbox' = [j \in Requests |->
       IF j \in disp[d].batch THEN "published" ELSE outbox[j]]
  /\ disp' = [disp EXCEPT ![d] = IdleDispatcher]
  /\ UNCHANGED <<calls, jobs, records, broker, workers, faultVars>>

CommitDispatch(d) ==
  /\ disp[d].batch # {}
  /\ disp[d].sent = disp[d].batch
  /\ outbox' = [j \in Requests |->
       IF j \in disp[d].batch THEN "published" ELSE outbox[j]]
  /\ disp' = [disp EXCEPT ![d] = IdleDispatcher]
  /\ UNCHANGED <<calls, jobs, records, broker, workers, faultVars>>

\* Publishing or the commit fails, or the process dies: rollback.
DispatchFails(d) ==
  /\ aborts < MaxAborts
  /\ disp[d].batch # {}
  /\ disp' = [disp EXCEPT ![d] = IdleDispatcher]
  /\ aborts' = aborts + 1
  /\ UNCHANGED <<calls, jobs, records, outbox, broker, workers, kills, errors>>

-----------------------------------------------------------------------------
(* run_export.                                                             *)

Receive(w, j) ==
  /\ workers[w].pc = "idle"
  /\ broker[j] > 0
  /\ broker' = [broker EXCEPT ![j] = @ - 1]
  /\ workers' = [workers EXCEPT ![w] = At("received", j)]
  /\ UNCHANGED <<calls, jobs, records, outbox, disp, faultVars>>

\* (mutant) Only a completed job is passed over.
ClaimableRunning(status) == status # "completed"

\* (mutant) Only a running job is passed over.
ClaimableCompleted(status) == status # "running"

\* claim_job returns the job unless it is completed or running.
Claimable(status) == status \notin {"completed", "running"}

\* The first transaction: claim_job under the row's lock.
Claim(w) ==
  LET j == workers[w].job IN
  /\ workers[w].pc = "received"
  /\ IF Claimable(jobs[j])
       THEN /\ jobs' = [jobs EXCEPT ![j] = "running"]
            /\ workers' = [workers EXCEPT ![w].pc = "running"]
       ELSE /\ workers' = [workers EXCEPT ![w].pc = "acking"]
            /\ UNCHANGED jobs
  /\ UNCHANGED <<calls, records, outbox, disp, broker, faultVars>>

\* (mutant) The second session is opened without begin(): no commit.
FinishUncommitted(w) ==
  /\ workers[w].pc = "running"
  /\ workers' = [workers EXCEPT ![w].pc = "acking"]
  /\ UNCHANGED <<calls, jobs, records, outbox, disp, broker, faultVars>>

\* The second transaction, after the progress reports.
Finish(w) ==
  /\ workers[w].pc = "running"
  /\ jobs' = [jobs EXCEPT ![workers[w].job] = "completed"]
  /\ workers' = [workers EXCEPT ![w].pc = "acking"]
  /\ UNCHANGED <<calls, records, outbox, disp, broker, faultVars>>

\* task_acks_late: the delivery is acknowledged when the task is over.
Ack(w) ==
  /\ workers[w].pc = "acking"
  /\ workers' = [workers EXCEPT ![w] = At("idle", None)]
  /\ UNCHANGED <<calls, jobs, records, outbox, disp, broker, faultVars>>

\* The worker process is lost (task_reject_on_worker_lost), or the task
\* raises an error of autoretry_for: the delivery goes back to the queue.
\* MaxKills stays below max_retries, so that retries never run out.
Redeliver(w) ==
  /\ kills < MaxKills
  /\ workers[w].pc # "idle"
  /\ broker' = [broker EXCEPT ![workers[w].job] = @ + 1]
  /\ workers' = [workers EXCEPT ![w] = At("idle", None)]
  /\ kills' = kills + 1
  /\ UNCHANGED <<calls, jobs, records, outbox, disp, aborts, errors>>

\* The task raises any other error, of the database or of redis.set: the
\* delivery is acknowledged (task_acks_on_failure_or_timeout is on).
TaskFails(w) ==
  /\ errors < MaxErrors
  /\ workers[w].pc \in {"received", "running"}
  /\ workers' = [workers EXCEPT ![w] = At("idle", None)]
  /\ errors' = errors + 1
  /\ UNCHANGED <<calls, jobs, records, outbox, disp, broker, aborts, kills>>

-----------------------------------------------------------------------------
Create(r) ==
  Lookup(r) \/ Insert(r) \/ CommitCreate(r) \/ Reply(r)

Dispatch(d) ==
  TakeBatch(d) \/ (\E j \in Requests : Publish(d, j)) \/ CommitDispatch(d)

RunExport(w) ==
  (\E j \in Requests : Receive(w, j)) \/ Claim(w) \/ Finish(w) \/ Ack(w)

Next ==
  \/ \E r \in Requests : Create(r) \/ CallFails(r)
  \/ \E d \in Dispatchers : Dispatch(d) \/ DispatchFails(d)
  \/ \E w \in Workers : RunExport(w) \/ Redeliver(w) \/ TaskFails(w)

Spec == Init /\ [][Next]_vars

\* The beat keeps starting dispatchers and the workers keep consuming.
\* Nothing is assumed of clients and their calls.
Fairness ==
  /\ \A d \in Dispatchers : WF_vars(Dispatch(d))
  /\ \A w \in Workers : WF_vars(RunExport(w))

FairSpec == Spec /\ Fairness

-----------------------------------------------------------------------------
(* Properties.                                                             *)

TypeOK ==
  /\ calls \in [Requests -> Call]
  /\ jobs \in [Requests -> {"none", "queued", "running", "completed"}]
  /\ records \in SUBSET Record
  /\ outbox \in [Requests -> {"none", "unpublished", "published"}]
  /\ disp \in [Dispatchers -> Dispatcher]
  /\ broker \in [Requests -> Nat]
  /\ workers \in [Workers -> Worker]
  /\ aborts \in 0..MaxAborts
  /\ kills \in 0..MaxKills
  /\ errors \in 0..MaxErrors

\* An idempotency key never stands for two jobs, however its calls overlap
\* and fail: all that the SELECT missed is caught by the unique index.
OneJobPerKey ==
  \A r, s \in Requests :
    jobs[r] # "none" /\ jobs[s] # "none" /\ KeyOf[r] = KeyOf[s] => r = s

\* The job, its record and its message exist together or not at all, for
\* calls that ended in an error too; a message is published for a job only.
CreatedTogether ==
  \A r \in Requests :
    /\ jobs[r] # "none" <=> RecordOf(r) \in records
    /\ jobs[r] # "none" <=> outbox[r] # "none"
    /\ jobs[r] = "none" => broker[r] = 0 /\ \A w \in Workers : workers[w].job # r

\* A call that is told of a job is told of the one its key stands for, and
\* that job was asked for with the payload of the call; a mismatch is
\* reported only for a key that stands for another payload.
AnswersAgree ==
  \A r \in Requests :
    /\ calls[r].pc = "ok" =>
         \E rec \in Found(r) : /\ rec.job = calls[r].job
                               /\ rec.hash = PayloadOf[r]
    /\ calls[r].pc = "mismatch" =>
         \E rec \in Found(r) : rec.hash # PayloadOf[r]

\* Publishing may happen twice, be rolled back or be redelivered, yet a job
\* is executed by at most one worker at a time.
OneRunner ==
  \A v, w \in Workers :
    /\ workers[v].pc = "running" => jobs[workers[v].job] = "running"
    /\ workers[v].pc = "running" /\ workers[w].pc = "running"
         /\ workers[v].job = workers[w].job => v = w

Held(j) == \E w \in Workers : workers[w].pc = "received" /\ workers[w].job = j

\* As long as no execution raises, a queued job is on its way: its message
\* waits to be published, or a delivery waits or is held by a worker.
QueuedIsOnItsWay ==
  errors = 0 =>
    \A j \in Requests : jobs[j] = "queued" =>
      outbox[j] = "unpublished" \/ broker[j] > 0 \/ Held(j)

Stranded ==
  {j \in Requests : /\ jobs[j] = "running"
                    /\ \A w \in Workers :
                         ~(workers[w].pc = "running" /\ workers[w].job = j)}

\* A job is left running with nobody to run it only by a fault of a worker,
\* and a fault strands one job at most.
OnlyFaultsStrand == Cardinality(Stranded) <= kills + errors

\* The status of a job only moves forward, and a completed export is never
\* run or written again.
StatusMovesForward ==
  [][\A j \in Requests :
       <<jobs[j], jobs'[j]>> \in
         {<<s, s>> : s \in {"none", "queued", "running", "completed"}}
         \cup {<<"none", "queued">>, <<"queued", "running">>,
               <<"running", "completed">>}]_vars

\* The inductive invariant.  CallsInv: what a call knows stays true.  The
\* key it has entered in the index is nobody else's, the record it answers
\* with is in the table, and a key has one record.
InsertedAlone ==
  \A r \in Requests : calls[r].pc = "inserted" =>
    /\ Found(r) = {}
    /\ \A o \in Requests :
         calls[o].pc = "inserted" /\ KeyOf[o] = KeyOf[r] => o = r

RecordsUnique ==
  /\ \A rec \in records : rec = RecordOf(rec.job)
  /\ \A rec1, rec2 \in records : rec1.key = rec2.key => rec1 = rec2

Told(r) ==
  /\ calls[r].pc \in {"called", "missed", "inserted"} => jobs[r] = "none"
  /\ calls[r].pc \in {"replying", "ok"} =>
       /\ calls[r].job \in Requests
       /\ RecordOf(calls[r].job) \in records
       /\ KeyOf[calls[r].job] = KeyOf[r]
       /\ PayloadOf[calls[r].job] = PayloadOf[r]
  /\ calls[r].pc \in {"mismatch", "conflict", "error"} => calls[r].job = None
  /\ calls[r].pc = "mismatch" => \E rec \in Found(r) : rec.hash # PayloadOf[r]
  /\ calls[r].pc = "conflict" => Found(r) # {}

CallsInv == InsertedAlone /\ RecordsUnique /\ \A r \in Requests : Told(r)

\* DispatchInv: a batch is locked by one dispatcher and unpublished.
DispatchInv ==
  /\ \A d \in Dispatchers :
       /\ disp[d].sent \subseteq disp[d].batch
       /\ \A j \in disp[d].batch : outbox[j] = "unpublished"
  /\ \A c, d \in Dispatchers : c # d => disp[c].batch \cap disp[d].batch = {}

\* Tracked: a message that a dispatcher has sent, marked or not, has become
\* a delivery.
Tracked ==
  errors = 0 =>
    \A j \in Requests : jobs[j] = "queued" =>
      \/ outbox[j] = "unpublished" /\ \A d \in Dispatchers : j \notin disp[d].sent
      \/ broker[j] > 0
      \/ Held(j)

WorkersBusy == \A w \in Workers : workers[w].pc # "idle" => workers[w].job # None

IInv ==
  /\ TypeOK
  /\ CallsInv
  /\ CreatedTogether
  /\ DispatchInv
  /\ WorkersBusy
  /\ Tracked
  /\ OneRunner
  /\ IsFiniteSet(Stranded)
  /\ OnlyFaultsStrand

\* The endpoint and its tables implement IdempotentCreate.
Promise == INSTANCE IdempotentCreate WITH
  owners <- [k \in Keys |-> {rec.job : rec \in {x \in records : x.key = k}}],
  answer <- [r \in Requests |->
    IF Ended(r) THEN [kind |-> calls[r].pc, job |-> calls[r].job]
                ELSE [kind |-> "pending", job |-> None]]

KeepsPromise == Promise!Spec

\* README.md: repeating the same request and key receives the same job, and
\* 409 is for a key that is reused with another payload.
RepeatGetsSameJob ==
  \A r \in Requests :
    calls[r].pc = "conflict" => \E rec \in Found(r) : rec.hash # PayloadOf[r]

\* Every export that a client was accepted for is completed in the end.
EveryExportEnds ==
  \A j \in Requests : jobs[j] = "queued" ~> jobs[j] = "completed"
=============================================================================
