--------------------------- MODULE GenerationJobs ---------------------------
(***************************************************************************)
(* The durable generation jobs of examples/ai-api: the generation_jobs     *)
(* table (app/models.py) and the worker slots that claim its rows, call    *)
(* the model provider and write the outcome back (app/worker.py).          *)
(*                                                                         *)
(* A claim is a database transaction of two statements followed by a       *)
(* commit, and the statements of several slots interleave, so they are     *)
(* separate steps: Sweep (UPDATE of exhausted leases), Select (SELECT ...  *)
(* FOR UPDATE SKIP LOCKED) and CommitClaim.  A slot holds row locks        *)
(* between them, and its writes are visible to others only at the commit.  *)
(* _complete and _fail are transactions of one UPDATE: one step each,      *)
(* which waits for the row's lock and then evaluates its WHERE clause.     *)
(* A blocked UPDATE is taken to hold no lock while it waits.               *)
(*                                                                         *)
(* Slots are the worker ids "host:pid:slot".  A restarted process reuses   *)
(* its ids (a container keeps its host name and runs as pid 1), which is   *)
(* the worst case for a fence that compares worker ids only.               *)
(***************************************************************************)
EXTENDS Integers, FiniteSets

CONSTANTS
  Jobs,          \* the ids of the rows that may be created
  Slots,         \* the worker ids
  Processes,     \* the worker processes, each the set of its slots
  None,          \* SQL NULL in worker_id, and "no job picked"
  MaxAttempts,   \* [Jobs -> 1..10], the max_attempts column, never updated
  LeaseSeconds,  \* settings.job_lease_seconds
  RetryBase,     \* settings.job_retry_base_seconds
  Skew,          \* [Slots -> Nat], how far the slot's host clock is ahead
  MaxClock,      \* bound of the model: the last instant of reference time
  MaxFaults      \* bound of the model: crashes and database errors together

ASSUME NoneAssumption == None \notin Slots /\ None \notin Jobs
ASSUME ProcessesAssumption ==
  /\ Processes \subseteq SUBSET Slots
  /\ \A p, q \in Processes : p = q \/ p \cap q = {}
ASSUME MaxAttemptsAssumption == MaxAttempts \in [Jobs -> 1..10]
ASSUME TimeAssumption ==
  /\ LeaseSeconds \in Nat \ {0}
  /\ RetryBase \in Nat
  /\ Skew \in [Slots -> Nat]
  /\ MaxClock \in Nat
  /\ MaxFaults \in Nat
\* The powers of two that the backoff of at most ten attempts can need.
ASSUME PowersAssumption == \A a \in 1..10 : 2^(a - 1) \in Nat

VARIABLES
  clock,   \* reference time; the API host's clock
  rows,    \* the committed rows of generation_jobs
  slot,    \* the local state of each worker slot
  faults   \* faults taken so far, up to MaxFaults

vars == <<clock, rows, slot, faults>>

-----------------------------------------------------------------------------
(* Rows.  0 stands for NULL in lease_expires_at, completed_at, output_text *)
(* and the usage columns; a provider result is named by the attempt that   *)
(* produced it.                                                            *)

Terminal == {"completed", "failed"}
Status == {"absent", "queued", "running"} \cup Terminal

Row == [status    : Status,
        attempts  : 0..10,
        available : Nat,                       \* available_at
        lease     : Nat,                       \* lease_expires_at
        worker    : Slots \cup {None},         \* worker_id
        error     : {"none", "call", "lease"}, \* error_code, by its origin
        output    : 0..10,                     \* output_text, by attempt
        usage     : 0..10,                     \* token columns, by attempt
        finished  : {0, 1}]                    \* completed_at, 1 for a time

Absent == [status |-> "absent", attempts |-> 0, available |-> 0, lease |-> 0,
           worker |-> None, error |-> "none", output |-> 0, usage |-> 0,
           finished |-> 0]

\* The row as create_job inserts it.
Queued(now) == [Absent EXCEPT !.status = "queued", !.available = now]

Expired(r, now) == r.lease # 0 /\ r.lease <= now

\* The row as the sweep's UPDATE leaves it.
Exhausted(r) ==
  [r EXCEPT !.status = "failed", !.error = "lease", !.worker = None,
            !.lease = 0, !.finished = 1]

\* (mutant) The lease is counted backwards from now.
ClaimedBackwards(r, s, now) ==
  [r EXCEPT !.status = "running", !.worker = s, !.lease = now - LeaseSeconds,
            !.attempts = @ + 1, !.error = "none"]

\* (mutant) A recovered job keeps its attempt number.
ClaimedSameAttempt(r, s, now) ==
  [r EXCEPT !.status = "running", !.worker = s, !.lease = now + LeaseSeconds,
            !.attempts = IF r.status = "queued" THEN @ + 1 ELSE @,
            !.error = "none"]

\* (mutant) The lease does not cover the provider call.
ClaimedShort(r, s, now) ==
  [r EXCEPT !.status = "running", !.worker = s, !.lease = now + 1,
            !.attempts = @ + 1, !.error = "none"]

\* The row as the claim leaves it: output and usage columns are not reset.
Claimed(r, s, now) ==
  [r EXCEPT !.status = "running", !.worker = s, !.lease = now + LeaseSeconds,
            !.attempts = @ + 1, !.error = "none"]

Completed(r, attempt) ==
  [r EXCEPT !.status = "completed", !.output = attempt, !.usage = attempt,
            !.error = "none", !.worker = None, !.lease = 0, !.finished = 1]

Backoff(attempt) == RetryBase * 2^(attempt - 1)

\* (mutant) A requeued row keeps its lease columns.
FailedStillLeased(r, attempt, retry, metered, now) ==
  [r EXCEPT !.status = IF retry THEN "queued" ELSE "failed",
            !.error = "call",
            !.usage = IF metered THEN attempt ELSE 0,
            !.available = now + Backoff(attempt),
            !.finished = IF retry THEN 0 ELSE 1]

\* The row as _fail leaves it: back in the queue, or failed for good.
Failed(r, attempt, retry, metered, now) ==
  [r EXCEPT !.status = IF retry THEN "queued" ELSE "failed",
            !.error = "call",
            !.usage = IF metered THEN attempt ELSE 0,
            !.worker = None, !.lease = 0,
            !.available = now + Backoff(attempt),
            !.finished = IF retry THEN 0 ELSE 1]

-----------------------------------------------------------------------------
(* Slots.  "since" is the reference time at which the phase was entered:   *)
(* the instant of the utc_now() that the statements of a transaction use,  *)
(* or the start of the provider call.                                      *)

Claiming == {"begin", "swept", "selected"}
Holding  == {"calling", "complete", "fail"}   \* phases with a ClaimedJob
PC == {"ready", "sleep", "down"} \cup Claiming \cup Holding

Slot == [pc        : PC,
         since     : Nat,
         sweep     : SUBSET Jobs,         \* rows the sweep has locked
         job       : Jobs \cup {None},    \* row picked, then ClaimedJob.id
         attempt   : 0..10,               \* ClaimedJob.attempt
         retriable : BOOLEAN,             \* ProviderError.retriable
         metered   : BOOLEAN]             \* ProviderError.usage is not None

Idle(pc, at) == [pc |-> pc, since |-> at, sweep |-> {}, job |-> None,
                 attempt |-> 0, retriable |-> FALSE, metered |-> FALSE]

\* The value of "now" in slot s: read from its own host's clock, then kept.
Now(s) == slot[s].since + Skew[s]

\* The uncommitted claim transaction of s holds the row lock of j.
Locks(s, j) ==
  /\ slot[s].pc \in {"swept", "selected"}
  /\ j \in slot[s].sweep \cup {slot[s].job}

Locked(s, j) == \E t \in Slots \ {s} : Locks(t, j)

\* WHERE clause of the sweep.
Sweepable(s) ==
  {j \in Jobs : /\ rows[j].status = "running"
                /\ Expired(rows[j], Now(s))
                /\ rows[j].attempts >= MaxAttempts[j]}

\* (mutant) A running row may be claimed while its lease is live.
EligibleEarly(s, j) ==
  /\ rows[j].status \in {"queued", "running"}
  /\ rows[j].available <= Now(s)
  /\ rows[j].attempts < MaxAttempts[j]

\* (mutant) Only queued rows are claimed: leases are never recovered.
EligibleQueued(s, j) ==
  /\ rows[j].status = "queued"
  /\ rows[j].available <= Now(s)
  /\ rows[j].attempts < MaxAttempts[j]

\* (mutant) The attempts are not bounded.
EligibleForever(s, j) ==
  /\ \/ rows[j].status = "queued"
     \/ rows[j].status = "running" /\ Expired(rows[j], Now(s))
  /\ rows[j].available <= Now(s)

\* WHERE clause of the claim's SELECT.
Eligible(s, j) ==
  /\ \/ rows[j].status = "queued"
     \/ rows[j].status = "running" /\ Expired(rows[j], Now(s))
  /\ rows[j].available <= Now(s)
  /\ rows[j].attempts < MaxAttempts[j]

\* (mutant) The SELECT takes no notice of locks.
FreeUnlocked(s) == {j \in Jobs : Eligible(s, j)}

\* The eligible rows that FOR UPDATE SKIP LOCKED does not skip.
Free(s) == {j \in Jobs : Eligible(s, j) /\ ~Locked(s, j)}

\* (mutant) The worker id is not compared.
OwnsRunning(s) == rows[slot[s].job].status = "running"

\* WHERE clause of the UPDATE in _complete and _fail: the job's id, RUNNING,
\* and this worker's id.
Owns(s) ==
  /\ rows[slot[s].job].status = "running"
  /\ rows[slot[s].job].worker = s

-----------------------------------------------------------------------------
Init ==
  /\ clock = 0
  /\ rows = [j \in Jobs |-> Absent]
  /\ slot = [s \in Slots |-> Idle("ready", 0)]
  /\ faults = 0

\* create_job commits the INSERT of a new row.
Submit(j) ==
  /\ rows[j].status = "absent"
  /\ rows' = [rows EXCEPT ![j] = Queued(clock)]
  /\ UNCHANGED <<clock, slot, faults>>

\* The slot calls process_one, at once or after its poll interval, and reads
\* utc_now().
BeginClaim(s) ==
  /\ slot[s].pc \in {"ready", "sleep"}
  /\ slot' = [slot EXCEPT ![s] = Idle("begin", clock)]
  /\ UNCHANGED <<clock, rows, faults>>

\* First statement of _claim_one.  An UPDATE waits for locked rows.
Sweep(s) ==
  /\ slot[s].pc = "begin"
  /\ \A j \in Sweepable(s) : ~Locked(s, j)
  /\ slot' = [slot EXCEPT ![s].pc = "swept", ![s].sweep = Sweepable(s)]
  /\ UNCHANGED <<clock, rows, faults>>

\* Second statement: the unlocked eligible row that became available first.
SelectJob(s) ==
  /\ slot[s].pc = "swept"
  /\ \E j \in Free(s) :
       /\ \A k \in Free(s) : rows[j].available <= rows[k].available
       /\ slot' = [slot EXCEPT ![s].pc = "selected", ![s].job = j]
  /\ UNCHANGED <<clock, rows, faults>>

SelectNone(s) ==
  /\ slot[s].pc = "swept"
  /\ Free(s) = {}
  /\ slot' = [slot EXCEPT ![s].pc = "selected"]
  /\ UNCHANGED <<clock, rows, faults>>

\* What the commit of the claim transaction of s makes of the table.
ClaimEffect(s) ==
  [j \in Jobs |->
     IF j \in slot[s].sweep THEN Exhausted(rows[j])
     ELSE IF j = slot[s].job THEN Claimed(rows[j], s, Now(s))
     ELSE rows[j]]

\* The commit succeeds; without a job the slot sleeps, else it calls.
CommitClaim(s) ==
  /\ slot[s].pc = "selected"
  /\ rows' = ClaimEffect(s)
  /\ slot' = [slot EXCEPT ![s] =
       IF slot[s].job = None
         THEN Idle("sleep", clock)
         ELSE [Idle("calling", clock) EXCEPT
                 !.job = slot[s].job,
                 !.attempt = rows[slot[s].job].attempts + 1]]
  /\ UNCHANGED <<clock, faults>>

\* asyncio.wait_for(provider.generate) returned a result that fits.
CallReturns(s) ==
  /\ slot[s].pc = "calling"
  /\ slot' = [slot EXCEPT ![s].pc = "complete", ![s].since = clock]
  /\ UNCHANGED <<clock, rows, faults>>

\* It timed out, raised, or returned more text than may be stored.
CallFails(s) ==
  /\ slot[s].pc = "calling"
  /\ \E retriable, metered \in BOOLEAN :
       slot' = [slot EXCEPT ![s].pc = "fail", ![s].since = clock,
                            ![s].retriable = retriable,
                            ![s].metered = metered]
  /\ UNCHANGED <<clock, rows, faults>>

Complete(s) ==
  LET j == slot[s].job IN
  /\ slot[s].pc = "complete"
  /\ ~Locked(s, j)
  /\ rows' = IF Owns(s)
               THEN [rows EXCEPT ![j] = Completed(@, slot[s].attempt)]
               ELSE rows
  /\ slot' = [slot EXCEPT ![s] = Idle("ready", clock)]
  /\ UNCHANGED <<clock, faults>>

\* (mutant) The last attempt is retried too.
ShouldRetryLast(s) ==
  slot[s].retriable /\ slot[s].attempt <= MaxAttempts[slot[s].job]

ShouldRetry(s) ==
  slot[s].retriable /\ slot[s].attempt < MaxAttempts[slot[s].job]

Fail(s) ==
  LET j == slot[s].job IN
  /\ slot[s].pc = "fail"
  /\ ~Locked(s, j)
  /\ rows' = IF Owns(s)
               THEN [rows EXCEPT ![j] = Failed(@, slot[s].attempt,
                                 ShouldRetry(s), slot[s].metered, Now(s))]
               ELSE rows
  /\ slot' = [slot EXCEPT ![s] = Idle("ready", clock)]
  /\ UNCHANGED <<clock, faults>>

-----------------------------------------------------------------------------
(* Faults and time.                                                        *)

\* A statement or commit raises: the transaction rolls back, and _run_slot
\* logs the exception and sleeps.
DatabaseError(s) ==
  /\ faults < MaxFaults
  /\ slot[s].pc \in Claiming \cup {"complete", "fail"}
  /\ slot' = [slot EXCEPT ![s] = Idle("sleep", clock)]
  /\ faults' = faults + 1
  /\ UNCHANGED <<clock, rows>>

\* The claim commits but its acknowledgement is lost: the exception leaves
\* the slot without a ClaimedJob while the row says it is running.
LoseClaimReply(s) ==
  /\ faults < MaxFaults
  /\ slot[s].pc = "selected"
  /\ rows' = ClaimEffect(s)
  /\ slot' = [slot EXCEPT ![s] = Idle("sleep", clock)]
  /\ faults' = faults + 1
  /\ UNCHANGED clock

\* The process dies or is cancelled: its transactions roll back and its
\* leased rows stay RUNNING.
Crash(p) ==
  /\ faults < MaxFaults
  /\ \E s \in p : slot[s].pc # "down"
  /\ slot' = [s \in Slots |-> IF s \in p THEN Idle("down", clock) ELSE slot[s]]
  /\ faults' = faults + 1
  /\ UNCHANGED <<clock, rows>>

\* run_forever starts the slots again, under the same worker ids.
Restart(p) ==
  /\ p # {}
  /\ \A s \in p : slot[s].pc = "down"
  /\ slot' = [s \in Slots |-> IF s \in p THEN Idle("ready", clock) ELSE slot[s]]
  /\ UNCHANGED <<clock, rows, faults>>

Tick ==
  /\ clock < MaxClock
  /\ clock' = clock + 1
  /\ UNCHANGED <<rows, slot, faults>>

SlotStep(s) ==
  \/ BeginClaim(s) \/ Sweep(s) \/ SelectJob(s) \/ SelectNone(s)
  \/ CommitClaim(s) \/ CallReturns(s) \/ CallFails(s)
  \/ Complete(s) \/ Fail(s)

Next ==
  \/ \E j \in Jobs : Submit(j)
  \/ \E s \in Slots : SlotStep(s) \/ DatabaseError(s) \/ LoseClaimReply(s)
  \/ \E p \in Processes : Crash(p) \/ Restart(p)
  \/ Tick

Spec == Init /\ [][Next]_vars

-----------------------------------------------------------------------------
(* Properties.                                                             *)

TypeOK ==
  /\ clock \in 0..MaxClock
  /\ rows \in [Jobs -> Row]
  /\ slot \in [Slots -> Slot]
  /\ faults \in 0..MaxFaults

\* The columns of a row agree with its status, whatever order the partial
\* UPDATEs of _claim_one, _complete and _fail came in: only a running row is
\* leased and has a worker, only a terminal row has completed_at, a queued
\* or completed row shows no stale worker or error, a failed row says why.
ColumnsAgree ==
  \A j \in Jobs : LET r == rows[j] IN
    /\ (r.worker # None) <=> (r.status = "running")
    /\ (r.lease # 0) <=> (r.status = "running")
    /\ (r.finished # 0) <=> (r.status \in Terminal)
    /\ (r.output # 0) <=> (r.status = "completed")
    /\ r.status \in {"running", "completed"} => r.error = "none"
    /\ r.status = "failed" => r.error # "none"

\* FOR UPDATE SKIP LOCKED and the waiting UPDATEs: no two open claim
\* transactions hold the same row, and a row stays as the WHERE clause found
\* it until the transaction that locked it ends.
LocksExclude ==
  \A s, t \in Slots : \A j \in Jobs : Locks(s, j) /\ Locks(t, j) => s = t

Grip(s) ==
  /\ slot[s].pc \in {"swept", "selected"} => slot[s].sweep \subseteq Sweepable(s)
  /\ slot[s].pc = "selected" /\ slot[s].job # None => Eligible(s, slot[s].job)

LocksHold == \A s \in Slots : Grip(s)

LocksProtect == LocksExclude /\ LocksHold

\* Every provider call is an attempt of its own: two slots that work on the
\* same job at once, one of them past its lease, never share an attempt
\* number, and no slot is ahead of the row.
AttemptHasOneOwner ==
  \A s \in Slots : slot[s].pc \in Holding =>
    /\ slot[s].job \in Jobs
    /\ slot[s].attempt \in 1..rows[slot[s].job].attempts
    /\ \A t \in Slots \ {s} :
         slot[t].pc \in Holding /\ slot[t].job = slot[s].job
           => slot[t].attempt # slot[s].attempt

\* The fence of _complete and _fail compares only the worker id.  That is
\* enough to reject a stale outcome: a slot whose id is in the running row
\* holds the row's current attempt, even if the id was used before a crash,
\* a lost reply or a reclaim.
FenceIsExact ==
  \A s \in Slots : slot[s].pc \in Holding /\ Owns(s)
    => slot[s].attempt = rows[slot[s].job].attempts

\* What the columns of a row say of its attempts.  The output and usage of a
\* completed job are those of its last attempt: a superseded call never
\* overwrites or mixes with a newer one.  The usage that the claim left in
\* place is always of an earlier attempt while one runs, and so it is when the
\* sweep gave the job up; only _complete and _fail store that of the last.
ResultIsOfLastAttempt ==
  \A j \in Jobs : LET r == rows[j] IN
    /\ r.status = "completed" => r.output = r.attempts /\ r.usage = r.attempts
    /\ r.status = "running" \/ r.error = "lease" => r.usage < r.attempts
    /\ r.error = "call" => r.usage \in {0, r.attempts}
    /\ r.usage <= r.attempts

\* max_attempts bounds the attempts (the table's CHECK constraint can not
\* fail at run time), and no job is stranded: a queued row still has an
\* attempt left, without which neither the sweep nor the SELECT would ever
\* touch it again.
NoneStranded ==
  \A j \in Jobs :
    /\ rows[j].attempts <= MaxAttempts[j]
    /\ rows[j].status = "queued" => rows[j].attempts < MaxAttempts[j]

\* The inductive invariant: the properties above, that a claim has picked no
\* job before its SELECT, and that a row is blank until it is inserted.
NothingPicked ==
  \A s \in Slots : slot[s].pc \in {"begin", "swept"} => slot[s].job = None

BlankBefore == \A j \in Jobs : rows[j].status = "absent" => rows[j] = Absent

IInv ==
  /\ TypeOK
  /\ NothingPicked
  /\ BlankBefore
  /\ ColumnsAgree
  /\ LocksProtect
  /\ AttemptHasOneOwner
  /\ FenceIsExact
  /\ NoneStranded
  /\ ResultIsOfLastAttempt

\* A completed or failed row is never written again, by a late outcome, a
\* sweep or a claim.
TerminalIsFinal ==
  [][\A j \in Jobs : rows[j].status \in Terminal => rows'[j] = rows[j]]_vars

\* A lease that is live by the clock of the slot that replaces it is never
\* taken over: the claim replaces a holder only after the expiry that was in
\* the row, although the claimer read its clock two statements earlier.
LiveLeaseIsKept ==
  [][\A j \in Jobs : \A s \in Slots :
       ( /\ rows[j].status = "running"
         /\ rows'[j].worker = s
         /\ rows'[j].attempts # rows[j].attempts )
       => rows[j].lease <= clock + Skew[s]]_vars

\* A row as a polling client sees it, and what it is promised of it.
Seen(r) == [status |-> r.status, attempts |-> r.attempts, cause |-> r.error]

Lifecycle == INSTANCE JobLifecycle WITH
  job <- [j \in Jobs |-> Seen(rows[j])]

\* The table with its workers implements the life cycle of a job.
ImplementsLifecycle == Lifecycle!Spec
=============================================================================
