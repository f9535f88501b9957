--------------------------- MODULE JobSubmission ---------------------------
(***************************************************************************)
(* POST /v1/jobs of examples/ai-api: submit_job (app/api.py) and           *)
(* create_job (app/jobs.py).  There is no SELECT before the INSERT: the    *)
(* unique constraint on (client_id, idempotency_key_hash) decides, and a   *)
(* call that it stops looks the winner up after its rollback.              *)
(*                                                                         *)
(* The stored hash of a key depends on idempotency_secret, and the         *)
(* fingerprint on model and instructions too.  During a rolling deployment *)
(* processes of several releases serve at once, so each call is handled    *)
(* with the settings of a release of its own.  There is one client_id.     *)
(* HMACs of different values differ.                                       *)
(***************************************************************************)
EXTENDS Integers

CONSTANTS
  Requests,      \* the calls of POST /v1/jobs, repeats included
  Keys,          \* Idempotency-Key headers
  NoKey,         \* the header is absent
  BlankKey,      \* the header is white space
  Payloads,      \* prompt and max_output_tokens
  Releases,      \* deployed versions of Settings
  Secrets,       \* idempotency_secret
  Profiles,      \* model and instructions
  KeyOf,         \* [Requests -> Keys \cup {NoKey, BlankKey}]
  PayloadOf,     \* [Requests -> Payloads]
  ServedBy,      \* [Requests -> Releases], the load balancer's choice
  SecretOf,      \* [Releases -> Secrets]
  ProfileOf,     \* [Releases -> Profiles]
  WithinLimits,  \* [Releases -> SUBSET Payloads], by _validate_request_limits
  None,          \* no job
  MaxFaults      \* bound of the model: calls that fail

ASSUME CallsAssumption ==
  /\ KeyOf \in [Requests -> Keys \cup {NoKey, BlankKey}]
  /\ NoKey \notin Keys /\ BlankKey \notin Keys /\ NoKey # BlankKey
  /\ PayloadOf \in [Requests -> Payloads]
  /\ ServedBy \in [Requests -> Releases]
  /\ None \notin Requests /\ None \notin Secrets \X Keys
ASSUME ReleasesAssumption ==
  /\ SecretOf \in [Releases -> Secrets]
  /\ ProfileOf \in [Releases -> Profiles]
  /\ WithinLimits \in [Releases -> SUBSET Payloads]
ASSUME FaultsAssumption == MaxFaults \in Nat

VARIABLES
  calls,   \* local state of each call
  rows,    \* generation_jobs as far as create_job reads it, committed rows
  faults   \* calls that have failed so far

vars == <<calls, rows, faults>>

-----------------------------------------------------------------------------
Keyed == {r \in Requests : KeyOf[r] \in Keys}

Hashes == Secrets \X Keys

Fingerprints == Secrets \X Profiles \X Payloads

\* _idempotency_hash
KeyHash(r) ==
  IF KeyOf[r] = NoKey THEN None ELSE <<SecretOf[ServedBy[r]], KeyOf[r]>>

\* (mutant) The fingerprint covers the body only.
FingerprintOfBody(r) ==
  <<SecretOf[ServedBy[r]], CHOOSE p \in Profiles : TRUE, PayloadOf[r]>>

\* _request_fingerprint
Fingerprint(r) ==
  <<SecretOf[ServedBy[r]], ProfileOf[ServedBy[r]], PayloadOf[r]>>

Row == [job : Requests, key : Hashes \cup {None}, fingerprint : Fingerprints]

\* (mutant) The two digests are stored in each other's column.
RowSwapped(r) == [job |-> r, key |-> Fingerprint(r), fingerprint |-> KeyHash(r)]

RowOf(r) == [job |-> r, key |-> KeyHash(r), fingerprint |-> Fingerprint(r)]

\* Rows that the unique constraint sees as equal; NULLs never are.
Same(r) == {row \in rows : KeyHash(r) # None /\ row.key = KeyHash(r)}

Answers == {"ok", "mismatch", "refused", "error"}

\* Before the commit; inside it, row and index entry inserted; stopped by
\* the index and rolled back; committed; answered.
CallPC == {"called", "inserted", "collided", "committed"} \cup Answers

Call == [pc : CallPC, job : Requests \cup {None}, created : {0, 1}]

At(pc, job, created) == [pc |-> pc, job |-> job, created |-> created]

Ended(r) == calls[r].pc \in Answers

-----------------------------------------------------------------------------
Init ==
  /\ calls = [r \in Requests |-> At("called", None, 0)]
  /\ rows = {}
  /\ faults = 0

Valid(r) ==
  PayloadOf[r] \in WithinLimits[ServedBy[r]] /\ KeyOf[r] # BlankKey

\* 413, 422 or 400, before the database is used.
Refuse(r) ==
  /\ calls[r].pc = "called"
  /\ ~Valid(r)
  /\ calls' = [calls EXCEPT ![r] = At("refused", None, 0)]
  /\ UNCHANGED <<rows, faults>>

\* The flush of session.commit: the index makes it wait for a transaction
\* that has inserted the same hash, and stops it if one has committed.
Insert(r) ==
  /\ calls[r].pc = "called"
  /\ Valid(r)
  /\ KeyHash(r) # None =>
       \A o \in Requests : calls[o].pc = "inserted" => KeyHash(o) # KeyHash(r)
  /\ calls' = [calls EXCEPT ![r] =
       At(IF Same(r) = {} THEN "inserted" ELSE "collided", None, 0)]
  /\ UNCHANGED <<rows, faults>>

Commit(r) ==
  /\ calls[r].pc = "inserted"
  /\ rows' = rows \cup {RowOf(r)}
  /\ calls' = [calls EXCEPT ![r] = At("committed", r, 0)]
  /\ UNCHANGED faults

\* session.refresh and the 202.
Refresh(r) ==
  /\ calls[r].pc = "committed"
  /\ calls' = [calls EXCEPT ![r] = At("ok", r, 1)]
  /\ UNCHANGED <<rows, faults>>

\* (mutant) The fingerprints are not compared.
FindAny(r) ==
  /\ calls[r].pc = "collided"
  /\ \E row \in Same(r) :
       calls' = [calls EXCEPT ![r] = At("ok", row.job, 0)]
  /\ UNCHANGED <<rows, faults>>

\* (mutant) A call with another fingerprint tries to insert again.
FindOrRetry(r) ==
  /\ calls[r].pc = "collided"
  /\ \E row \in Same(r) :
       calls' = [calls EXCEPT ![r] =
         IF row.fingerprint = Fingerprint(r) THEN At("ok", row.job, 0)
                                             ELSE At("called", None, 0)]
  /\ UNCHANGED <<rows, faults>>

\* The row that was in the way: its job is the answer if the fingerprints
\* agree, else 409.  Rows are never deleted, so there is one (jobs.py:94).
Find(r) ==
  /\ calls[r].pc = "collided"
  /\ \E row \in Same(r) :
       calls' = [calls EXCEPT ![r] =
         IF row.fingerprint = Fingerprint(r) THEN At("ok", row.job, 0)
                                             ELSE At("mismatch", None, 0)]
  /\ UNCHANGED <<rows, faults>>

\* No connection in time, an error of the database, the end of the process:
\* what is not committed is rolled back, and the client learns nothing.
Fail(r) ==
  /\ faults < MaxFaults
  /\ ~Ended(r)
  /\ calls' = [calls EXCEPT ![r] = At("error", None, 0)]
  /\ faults' = faults + 1
  /\ UNCHANGED rows

Submit(r) == Refuse(r) \/ Insert(r) \/ Commit(r) \/ Refresh(r) \/ Find(r)

Next == \E r \in Requests : Submit(r) \/ Fail(r)

Spec == Init /\ [][Next]_vars

\* The event loop and PostgreSQL serve each call that has arrived.
Fairness == \A r \in Requests : WF_vars(Submit(r))

FairSpec == Spec /\ Fairness

-----------------------------------------------------------------------------
(* Properties.                                                             *)

TypeOK ==
  /\ calls \in [Requests -> Call]
  /\ rows \in SUBSET Row
  /\ faults \in 0..MaxFaults

\* A call that is told of a job gets one that was asked for with its own
\* payload and will run with the model and instructions of the release that
\* answers, and is told that it created the job exactly if it did.  A call
\* is turned down only for a key that stands for something else.
AnswersAgree ==
  \A r \in Requests :
    /\ calls[r].pc = "ok" =>
         LET j == calls[r].job IN
         /\ RowOf(j) \in rows
         /\ PayloadOf[j] = PayloadOf[r]
         /\ ProfileOf[ServedBy[j]] = ProfileOf[ServedBy[r]]
         /\ calls[r].created = 1 <=> j = r
         /\ j # r => KeyOf[j] = KeyOf[r]
    /\ calls[r].pc = "mismatch" =>
         \E o \in Requests :
           /\ RowOf(o) \in rows
           /\ KeyOf[o] = KeyOf[r]
           /\ \/ PayloadOf[o] # PayloadOf[r]
              \/ ProfileOf[ServedBy[o]] # ProfileOf[ServedBy[r]]

\* The inductive invariant.  A call that has inserted a hash is alone with
\* it, a hash has one row, and what a call knows stays true.
InsertedAlone ==
  \A r \in Requests : calls[r].pc = "inserted" =>
    /\ Valid(r)
    /\ Same(r) = {}
    /\ KeyHash(r) # None =>
         \A o \in Requests :
           calls[o].pc = "inserted" /\ KeyHash(o) = KeyHash(r) => o = r

RowsUnique ==
  /\ \A row \in rows : row = RowOf(row.job)
  /\ \A row1, row2 \in rows :
       row1.key # None /\ row1.key = row2.key => row1 = row2

ToldOf(r, j) ==
  /\ j \in Requests
  /\ RowOf(j) \in rows
  /\ Fingerprint(j) = Fingerprint(r)
  /\ calls[r].created = 1 <=> j = r
  /\ j # r => KeyHash(r) # None /\ KeyHash(j) = KeyHash(r)

Told(r) ==
  /\ calls[r].pc \in {"called", "inserted", "collided"} => RowOf(r) \notin rows
  /\ calls[r].pc = "collided" => Same(r) # {}
  /\ calls[r].pc = "committed" => RowOf(r) \in rows
  /\ calls[r].pc = "ok" => ToldOf(r, calls[r].job)
  /\ calls[r].pc = "mismatch" =>
       \E row \in Same(r) : row.fingerprint # Fingerprint(r)
  /\ calls[r].pc \in {"mismatch", "refused", "error"} => calls[r].job = None

IInv ==
  TypeOK /\ InsertedAlone /\ RowsUnique /\ \A r \in Requests : Told(r)

\* The endpoint implements IdempotentCreate for the calls that have a key,
\* where a hash plays the key and a fingerprint the payload.
Outcome(r) ==
  IF Ended(r)
    THEN [kind |-> IF calls[r].pc = "refused" THEN "error" ELSE calls[r].pc,
          job |-> calls[r].job]
    ELSE [kind |-> "pending", job |-> None]

Promise == INSTANCE IdempotentCreate WITH
  Requests <- Keyed,
  Keys <- Hashes,
  Payloads <- Fingerprints,
  KeyOf <- [r \in Keyed |-> KeyHash(r)],
  PayloadOf <- [r \in Keyed |-> Fingerprint(r)],
  owners <- [h \in Hashes |-> {row.job : row \in {x \in rows : x.key = h}}],
  answer <- [r \in Keyed |-> Outcome(r)]

KeepsPromise == Promise!Spec

\* Every call is answered, also one that waits for another's transaction
\* and then loses to it.
EveryCallEnds == \A r \in Requests : <>Ended(r)
=============================================================================
