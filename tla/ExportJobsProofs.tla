-------------------------- MODULE ExportJobsProofs --------------------------
(***************************************************************************)
(* Proofs about ExportJobs, for any calls, keys, payloads, dispatchers,    *)
(* workers and bounds.  The invariant has two sides that share only the    *)
(* job table: what the calls know (CallsInv), and how messages and         *)
(* deliveries lead to executions.  Most actions leave one side alone.      *)
(***************************************************************************)
EXTENDS ExportJobs, FiniteSetTheorems, WellFoundedInduction, TLAPS

\* The delivery side of IInv.
DeliverySide ==
  /\ CreatedTogether /\ DispatchInv /\ WorkersBusy /\ Tracked /\ OneRunner
  /\ IsFiniteSet(Stranded) /\ OnlyFaultsStrand

\* A step that touches no table, queue or worker keeps the delivery side.
LEMMA DeliveryFrame ==
  ASSUME DeliverySide,
         UNCHANGED <<jobs, records, outbox, disp, broker, workers, kills, errors>>
  PROVE  DeliverySide'
<1> USE DEF DeliverySide
<1>1. CreatedTogether' /\ DispatchInv' /\ WorkersBusy'
  BY DEF CreatedTogether, DispatchInv, WorkersBusy
<1>2. Tracked' /\ OneRunner'
  BY DEF Tracked, OneRunner, Held
<1>3. Stranded' = Stranded
  BY DEF Stranded
<1>4. IsFiniteSet(Stranded)' /\ OnlyFaultsStrand'
  BY <1>3 DEF OnlyFaultsStrand
<1> QED BY <1>1, <1>2, <1>4

\* A step of the dispatchers or workers leaves what the calls know alone.
LEMMA CallsFrame ==
  ASSUME CallsInv, UNCHANGED <<calls, records>>,
         \A r \in Requests : jobs[r] = "none" => jobs'[r] = "none"
  PROVE  CallsInv'
BY DEF CallsInv, InsertedAlone, RecordsUnique, Told, Found

\* At first there are no rows, no messages and no deliveries.
LEMMA InitInvariant == Init => IInv
<1> SUFFICES ASSUME Init PROVE IInv
  OBVIOUS
<1> USE DEF Init
<1>1. TypeOK
  BY BoundsAssumption
     DEF TypeOK, At, Call, CallPC, IdleDispatcher, Dispatcher, Worker, WorkerPC
<1>2. CallsInv
  BY DEF CallsInv, InsertedAlone, RecordsUnique, Told, At
<1>3. CreatedTogether
  BY CallsAssumption DEF CreatedTogether, At
<1>4. DispatchInv /\ WorkersBusy /\ Tracked /\ OneRunner
  BY DEF DispatchInv, WorkersBusy, Tracked, OneRunner, IdleDispatcher, At
<1>5. Stranded = {}
  BY DEF Stranded
<1>6. IsFiniteSet(Stranded) /\ OnlyFaultsStrand
  BY <1>5, FS_EmptySet DEF OnlyFaultsStrand
<1> QED BY <1>1, <1>2, <1>3, <1>4, <1>6 DEF IInv

-----------------------------------------------------------------------------
(* The calls of create_export.                                             *)

\* What a call stores under its key.
LEMMA RecordType ==
  ASSUME NEW r \in Requests
  PROVE  /\ RecordOf(r) \in Record
         /\ RecordOf(r).key = KeyOf[r]
         /\ RecordOf(r).hash = PayloadOf[r]
         /\ RecordOf(r).job = r
BY CallsAssumption DEF RecordOf, Record

\* A call moves to another phase without writing: it is enough that it knows
\* what its new phase says.
LEMMA CallMoves ==
  ASSUME IInv, NEW r \in Requests, NEW c \in Call,
         calls' = [calls EXCEPT ![r] = c],
         UNCHANGED <<jobs, records, outbox, disp, broker, workers, kills, errors>>,
         aborts' \in 0..MaxAborts,
         Told(r)',
         c.pc = "inserted" =>
           /\ Found(r) = {}
           /\ \A o \in Requests : calls[o].pc = "inserted" => KeyOf[o] # KeyOf[r]
  PROVE  IInv'
<1>1. TypeOK'
  BY DEF IInv, TypeOK
<1>2. /\ calls'[r] = c
      /\ \A o \in Requests \ {r} : calls'[o] = calls[o]
  BY DEF IInv, TypeOK
<1>3. InsertedAlone'
  BY <1>2 DEF IInv, CallsInv, InsertedAlone, Found
<1>4. RecordsUnique'
  BY DEF IInv, CallsInv, RecordsUnique
<1>5. \A o \in Requests : Told(o)'
  BY <1>2 DEF IInv, CallsInv, Told, Found
<1>6. DeliverySide'
  BY DeliveryFrame DEF IInv, DeliverySide
<1> QED BY <1>1, <1>3, <1>4, <1>5, <1>6 DEF IInv, CallsInv, DeliverySide

LEMMA LookupStep ==
  ASSUME IInv, NEW r \in Requests, Lookup(r)
  PROVE  IInv'
<1>1. calls[r].pc = "called" /\ jobs[r] = "none"
  BY DEF Lookup, IInv, CallsInv, Told
<1>2. aborts' \in 0..MaxAborts
  BY DEF Lookup, faultVars, IInv, TypeOK
<1>3. CASE calls' = [calls EXCEPT ![r] = At("missed", None)]
  <2>1. At("missed", None) \in Call
    BY DEF At, Call, CallPC
  <2>2. Told(r)'
    BY <1>1, <1>3 DEF Told, At, Lookup, IInv, TypeOK
  <2> QED BY <1>2, <1>3, <2>1, <2>2, CallMoves DEF Lookup, faultVars, At
<1>4. ASSUME NEW rec \in Found(r), rec.hash = PayloadOf[r],
             calls' = [calls EXCEPT ![r] = At("replying", rec.job)]
      PROVE  IInv'
  <2>1. rec \in records /\ rec \in Record /\ rec = RecordOf(rec.job) /\ rec.key = KeyOf[r]
    BY <1>4 DEF Found, IInv, CallsInv, RecordsUnique, TypeOK
  <2>2. rec.job \in Requests
    BY <2>1 DEF Record
  <2>3. At("replying", rec.job) \in Call
    BY <2>2 DEF At, Call, CallPC
  <2>4. calls'[r].pc = "replying" /\ calls'[r].job = rec.job
    BY <1>4 DEF At, IInv, TypeOK
  <2>5. KeyOf[rec.job] = KeyOf[r] /\ PayloadOf[rec.job] = PayloadOf[r]
    BY <1>4, <2>1, <2>2, RecordType
  <2>6. Told(r)'
    BY <2>1, <2>2, <2>4, <2>5 DEF Told, Lookup
  <2> QED BY <1>2, <1>4, <2>3, <2>6, CallMoves DEF Lookup, faultVars, At
<1>5. ASSUME NEW rec \in Found(r), rec.hash # PayloadOf[r],
             calls' = [calls EXCEPT ![r] = At("mismatch", None)]
      PROVE  IInv'
  <2>1. At("mismatch", None) \in Call
    BY DEF At, Call, CallPC, Answers
  <2>2. calls'[r].pc = "mismatch" /\ calls'[r].job = None
    BY <1>5 DEF At, IInv, TypeOK
  <2>3. Told(r)'
    BY <1>5, <2>2 DEF Told, Lookup, Found
  <2> QED BY <1>2, <1>5, <2>1, <2>3, CallMoves DEF Lookup, faultVars, At
<1> QED BY <1>3, <1>4, <1>5 DEF Lookup

LEMMA InsertStep ==
  ASSUME IInv, NEW r \in Requests, Insert(r)
  PROVE  IInv'
<1>1. calls[r].pc = "missed" /\ jobs[r] = "none"
  BY DEF Insert, IInv, CallsInv, Told
<1>2. aborts' \in 0..MaxAborts
  BY DEF Insert, faultVars, IInv, TypeOK
<1>3. CASE Found(r) = {}
  <2>1. At("inserted", r) \in Call
    BY DEF At, Call, CallPC
  <2>2. calls' = [calls EXCEPT ![r] = At("inserted", r)]
    BY <1>3 DEF Insert
  <2>3. Told(r)'
    BY <1>1, <2>2 DEF Told, At, Insert, IInv, TypeOK
  <2> QED BY <1>2, <1>3, <2>1, <2>2, <2>3, CallMoves DEF Insert, faultVars, At
<1>4. CASE Found(r) # {}
  <2>1. At("conflict", None) \in Call
    BY DEF At, Call, CallPC, Answers
  <2>2. calls' = [calls EXCEPT ![r] = At("conflict", None)]
    BY <1>4 DEF Insert
  <2>3. calls'[r].pc = "conflict" /\ calls'[r].job = None
    BY <2>2 DEF At, IInv, TypeOK
  <2>4. Told(r)'
    BY <1>4, <2>3 DEF Told, Insert, Found
  <2> QED BY <1>2, <2>1, <2>2, <2>4, CallMoves DEF Insert, faultVars, At
<1> QED BY <1>3, <1>4

LEMMA ReplyStep ==
  ASSUME IInv, NEW r \in Requests, Reply(r)
  PROVE  IInv'
<1>1. calls[r].pc = "replying" /\ Told(r)
  BY DEF Reply, IInv, CallsInv
<1>2. At("ok", calls[r].job) \in Call
  BY <1>1 DEF At, Call, CallPC, Answers, Told
<1>3. calls'[r].pc = "ok" /\ calls'[r].job = calls[r].job
  BY DEF Reply, At, IInv, TypeOK
<1>4. Told(r)'
  BY <1>1, <1>3 DEF Told, Reply
<1>5. aborts' \in 0..MaxAborts
  BY DEF Reply, faultVars, IInv, TypeOK
<1> QED BY <1>2, <1>4, <1>5, CallMoves DEF Reply, faultVars, At

LEMMA CallFailsStep ==
  ASSUME IInv, NEW r \in Requests, CallFails(r)
  PROVE  IInv'
<1>1. At("error", None) \in Call
  BY DEF At, Call, CallPC, Answers
<1>2. calls'[r].pc = "error" /\ calls'[r].job = None
  BY DEF CallFails, At, IInv, TypeOK
<1>3. Told(r)'
  BY <1>2 DEF Told
<1>4. aborts' \in 0..MaxAborts
  BY BoundsAssumption DEF CallFails, IInv, TypeOK
<1> QED BY <1>1, <1>3, <1>4, CallMoves DEF CallFails, At

\* The commit of create_export: the invariant's two sides meet here.  The
\* job did not exist and no record had its key, so the new record is unique
\* and the new message is locked by nobody.
LEMMA CommitCreateStep ==
  ASSUME IInv, NEW r \in Requests, CommitCreate(r)
  PROVE  IInv'
<1> USE DEF IInv
<1>1. /\ calls[r].pc = "inserted"
      /\ jobs[r] = "none" /\ outbox[r] = "none" /\ broker[r] = 0
      /\ \A w \in Workers : workers[w].job # r
      /\ Found(r) = {}
      /\ \A o \in Requests :
           calls[o].pc = "inserted" /\ KeyOf[o] = KeyOf[r] => o = r
  BY DEF CommitCreate, CallsInv, InsertedAlone, Told, CreatedTogether
<1>2. /\ calls'[r].pc = "replying" /\ calls'[r].job = r
      /\ At("replying", r) \in Call
      /\ \A o \in Requests \ {r} : calls'[o] = calls[o]
  BY DEF CommitCreate, At, Call, CallPC, TypeOK
<1>3. /\ jobs'[r] = "queued" /\ outbox'[r] = "unpublished"
      /\ \A o \in Requests \ {r} : jobs'[o] = jobs[o] /\ outbox'[o] = outbox[o]
      /\ records' = records \cup {RecordOf(r)}
      /\ UNCHANGED <<disp, broker, workers, aborts, kills, errors>>
  BY DEF CommitCreate, faultVars, TypeOK
<1>4. TypeOK'
  <2>1. calls' \in [Requests -> Call]
    BY <1>2 DEF CommitCreate, TypeOK
  <2>2. /\ jobs' \in [Requests -> {"none", "queued", "running", "completed"}]
        /\ outbox' \in [Requests -> {"none", "unpublished", "published"}]
    BY DEF CommitCreate, TypeOK
  <2>3. records' \in SUBSET Record
    BY <1>3, RecordType DEF TypeOK
  <2> QED BY <1>3, <2>1, <2>2, <2>3 DEF TypeOK
<1>5. InsertedAlone'
  <2> SUFFICES ASSUME NEW o \in Requests, calls'[o].pc = "inserted"
               PROVE  /\ Found(o)' = {}
                      /\ \A q \in Requests : calls'[q].pc = "inserted"
                            /\ KeyOf[q] = KeyOf[o] => q = o
    BY DEF InsertedAlone
  <2>1. o # r /\ calls[o].pc = "inserted"
    BY <1>2
  <2>2. KeyOf[o] # KeyOf[r] /\ Found(o) = {}
    BY <1>1, <2>1 DEF CallsInv, InsertedAlone
  <2>3. Found(o)' = {}
    BY <1>3, <2>2, RecordType DEF Found
  <2> QED BY <1>2, <2>1, <2>3 DEF CallsInv, InsertedAlone
<1>6. RecordsUnique'
  BY <1>1, <1>3, RecordType DEF CallsInv, RecordsUnique, Found
<1>7. ASSUME NEW o \in Requests PROVE Told(o)'
  <2>1. CASE o = r
    BY <1>2, <1>3, <2>1 DEF Told
  <2>2. CASE o # r
    <3>1. Told(o) /\ calls'[o] = calls[o] /\ jobs'[o] = jobs[o] /\ records \subseteq records'
      BY <1>2, <1>3, <2>2 DEF CallsInv
    <3> QED BY <3>1 DEF Told, Found
  <2> QED BY <2>1, <2>2
<1>8. CreatedTogether'
  <2>1. \A o \in Requests \ {r} : RecordOf(o) \in records' <=> RecordOf(o) \in records
    BY <1>3, RecordType
  <2> QED BY <1>3, <2>1 DEF CreatedTogether
<1>9. DispatchInv'
  <2>1. \A d \in Dispatchers : disp[d].batch \subseteq Requests
    BY DEF TypeOK, Dispatcher
  <2> QED BY <1>3, <2>1 DEF DispatchInv
<1>10. WorkersBusy' /\ OneRunner'
  BY <1>1, <1>3 DEF WorkersBusy, OneRunner, TypeOK, Worker
<1>11. Tracked'
  <2>1. \A d \in Dispatchers : r \notin disp[d].sent
    BY <1>1 DEF DispatchInv
  <2>2. \A o \in Requests : Held(o)' <=> Held(o)
    BY <1>3 DEF Held
  <2> QED BY <1>3, <2>1, <2>2 DEF Tracked
<1>12. Stranded' = Stranded
  BY <1>1, <1>3 DEF Stranded
<1>13. IsFiniteSet(Stranded)' /\ OnlyFaultsStrand'
  BY <1>3, <1>12 DEF OnlyFaultsStrand
<1> QED BY <1>4, <1>5, <1>6, <1>7, <1>8, <1>9, <1>10, <1>11, <1>13 DEF CallsInv

-----------------------------------------------------------------------------
(* dispatch_outbox.                                                        *)

\* A step of a dispatcher leaves calls, jobs and workers alone; what is left
\* to show is that it keeps the outbox and the broker consistent.
LEMMA DispatcherMoves ==
  ASSUME IInv, NEW d \in Dispatchers,
         UNCHANGED <<calls, jobs, records, workers, kills, errors>>,
         disp' \in [Dispatchers -> Dispatcher],
         outbox' \in [Requests -> {"none", "unpublished", "published"}],
         broker' \in [Requests -> Nat],
         aborts' \in 0..MaxAborts,
         \A j \in Requests : outbox'[j] = "none" <=> outbox[j] = "none",
         \A j \in Requests : jobs[j] = "none" => broker'[j] = 0,
         DispatchInv', Tracked'
  PROVE  IInv'
<1> USE DEF IInv
<1>1. TypeOK'
  BY DEF TypeOK
<1>2. CallsInv'
  BY CallsFrame
<1>3. CreatedTogether'
  BY DEF CreatedTogether, RecordOf
<1>4. WorkersBusy' /\ OneRunner'
  BY DEF WorkersBusy, OneRunner
<1>5. Stranded' = Stranded
  BY DEF Stranded
<1>6. IsFiniteSet(Stranded)' /\ OnlyFaultsStrand'
  BY <1>5 DEF OnlyFaultsStrand
<1> QED BY <1>1, <1>2, <1>3, <1>4, <1>6

\* SKIP LOCKED: the new batch meets no other dispatcher's.
LEMMA TakeBatchStep ==
  ASSUME IInv, NEW d \in Dispatchers, TakeBatch(d)
  PROVE  IInv'
<1> USE DEF IInv
<1>1. PICK batch \in SUBSET Waiting :
        disp' = [disp EXCEPT ![d] = [batch |-> batch, sent |-> {}]]
  BY DEF TakeBatch
<1>2. /\ disp'[d].batch = batch /\ disp'[d].sent = {}
      /\ \A c \in Dispatchers \ {d} : disp'[c] = disp[c]
  BY <1>1 DEF TypeOK
<1>3. disp' \in [Dispatchers -> Dispatcher]
  BY <1>1 DEF TypeOK, Dispatcher, Waiting
<1>4. UNCHANGED <<calls, jobs, records, outbox, broker, workers, aborts, kills, errors>>
  BY DEF TakeBatch, faultVars
<1>5. DispatchInv'
  <2>1. \A j \in batch : outbox[j] = "unpublished"
    BY DEF Waiting
  <2>2. \A c \in Dispatchers : batch \cap disp[c].batch = {}
    BY DEF Waiting, RowLocked
  <2> QED BY <1>2, <1>4, <2>1, <2>2 DEF DispatchInv
<1>6. Tracked'
  BY <1>2, <1>4 DEF Tracked, Held
<1> QED BY <1>3, <1>4, <1>5, <1>6, DispatcherMoves DEF TypeOK, CreatedTogether

\* A published row stays locked and unpublished, and is now a delivery.
LEMMA PublishStep ==
  ASSUME IInv, NEW d \in Dispatchers, NEW j \in Requests, Publish(d, j)
  PROVE  IInv'
<1> USE DEF IInv
<1>1. /\ disp'[d].batch = disp[d].batch
      /\ disp'[d].sent = disp[d].sent \cup {j}
      /\ \A c \in Dispatchers \ {d} : disp'[c] = disp[c]
      /\ disp' \in [Dispatchers -> Dispatcher]
  BY DEF Publish, TypeOK, Dispatcher
<1>2. /\ broker'[j] = broker[j] + 1
      /\ \A i \in Requests \ {j} : broker'[i] = broker[i]
      /\ broker' \in [Requests -> Nat]
  BY DEF Publish, TypeOK
<1>3. UNCHANGED <<calls, jobs, records, outbox, workers, aborts, kills, errors>>
  BY DEF Publish, faultVars
<1>4. jobs[j] # "none"
  BY DEF Publish, DispatchInv, CreatedTogether
<1>5. DispatchInv'
  BY <1>1, <1>3 DEF DispatchInv, Publish
<1>6. Tracked'
  <2> SUFFICES ASSUME errors = 0, NEW i \in Requests, jobs[i] = "queued"
               PROVE  \/ /\ outbox[i] = "unpublished"
                         /\ \A c \in Dispatchers : i \notin disp'[c].sent
                      \/ broker'[i] > 0
                      \/ Held(i)
    BY <1>3 DEF Tracked, Held
  <2>1. CASE i = j
    BY <1>2, <2>1 DEF TypeOK
  <2>2. CASE i # j
    <3>1. \A c \in Dispatchers : i \in disp'[c].sent => i \in disp[c].sent
      BY <1>1, <2>2
    <3> QED BY <1>2, <2>2, <3>1 DEF Tracked
  <2> QED BY <2>1, <2>2
<1>7. \A i \in Requests : jobs[i] = "none" => broker'[i] = 0
  BY <1>2, <1>4 DEF CreatedTogether
<1> QED BY <1>1, <1>2, <1>3, <1>5, <1>6, <1>7, DispatcherMoves DEF TypeOK

\* Only rows that were sent are marked, so each has become a delivery.
LEMMA CommitDispatchStep ==
  ASSUME IInv, NEW d \in Dispatchers, CommitDispatch(d)
  PROVE  IInv'
<1> USE DEF IInv
<1>1. /\ disp'[d].batch = {} /\ disp'[d].sent = {}
      /\ \A c \in Dispatchers \ {d} : disp'[c] = disp[c]
      /\ disp' \in [Dispatchers -> Dispatcher]
  BY DEF CommitDispatch, TypeOK, Dispatcher, IdleDispatcher
<1>2. UNCHANGED <<calls, jobs, records, broker, workers, aborts, kills, errors>>
  BY DEF CommitDispatch, faultVars
<1>3. /\ \A j \in disp[d].batch : outbox[j] = "unpublished" /\ j \in disp[d].sent
      /\ \A j \in Requests : outbox'[j] = IF j \in disp[d].batch THEN "published"
                                                                 ELSE outbox[j]
      /\ outbox' \in [Requests -> {"none", "unpublished", "published"}]
  BY DEF CommitDispatch, DispatchInv, TypeOK
<1>4. DispatchInv'
  <2>1. \A c \in Dispatchers \ {d}, j \in Requests :
          j \in disp[c].batch => outbox'[j] = "unpublished"
    BY <1>3 DEF DispatchInv
  <2>2. \A c \in Dispatchers : disp[c].batch \subseteq Requests
    BY DEF TypeOK, Dispatcher
  <2> QED BY <1>1, <2>1, <2>2 DEF DispatchInv
<1>5. Tracked'
  <2> SUFFICES ASSUME errors = 0, NEW i \in Requests, jobs[i] = "queued"
               PROVE  \/ /\ outbox'[i] = "unpublished"
                         /\ \A c \in Dispatchers : i \notin disp'[c].sent
                      \/ broker[i] > 0
                      \/ Held(i)
    BY <1>2 DEF Tracked, Held
  <2>1. CASE i \in disp[d].batch
    BY <1>3, <2>1 DEF Tracked
  <2>2. CASE i \notin disp[d].batch
    BY <1>1, <1>3, <2>2 DEF Tracked
  <2> QED BY <2>1, <2>2
<1>6. \A j \in Requests : outbox'[j] = "none" <=> outbox[j] = "none"
  BY <1>3
<1> QED BY <1>1, <1>2, <1>3, <1>4, <1>5, <1>6, DispatcherMoves DEF TypeOK, CreatedTogether

\* A rollback unlocks the rows; what was sent stays sent.
LEMMA DispatchFailsStep ==
  ASSUME IInv, NEW d \in Dispatchers, DispatchFails(d)
  PROVE  IInv'
<1> USE DEF IInv
<1>1. /\ disp'[d].batch = {} /\ disp'[d].sent = {}
      /\ \A c \in Dispatchers \ {d} : disp'[c] = disp[c]
      /\ disp' \in [Dispatchers -> Dispatcher]
  BY DEF DispatchFails, TypeOK, Dispatcher, IdleDispatcher
<1>2. UNCHANGED <<calls, jobs, records, outbox, broker, workers, kills, errors>>
  BY DEF DispatchFails
<1>3. aborts' \in 0..MaxAborts
  BY BoundsAssumption DEF DispatchFails, TypeOK
<1>4. DispatchInv'
  BY <1>1, <1>2 DEF DispatchInv
<1>5. Tracked'
  BY <1>1, <1>2 DEF Tracked, Held
<1> QED BY <1>1, <1>2, <1>3, <1>4, <1>5, DispatcherMoves DEF TypeOK, CreatedTogether

-----------------------------------------------------------------------------
-----------------------------------------------------------------------------
(* run_export.                                                             *)

\* A step of a worker leaves calls, records and dispatchers alone, and the
\* jobs that exist are the same afterwards.
LEMMA WorkerMoves ==
  ASSUME IInv, NEW w \in Workers,
         UNCHANGED <<calls, records, outbox, disp, aborts>>,
         jobs' \in [Requests -> {"none", "queued", "running", "completed"}],
         \A j \in Requests : jobs'[j] = "none" <=> jobs[j] = "none",
         broker' \in [Requests -> Nat],
         \A j \in Requests : jobs[j] = "none" => broker'[j] = 0,
         workers' \in [Workers -> Worker],
         \A v \in Workers \ {w} : workers'[v] = workers[v],
         workers'[w].job \in {None, workers[w].job}
           \cup {j \in Requests : jobs[j] # "none"},
         workers'[w].pc # "idle" => workers'[w].job # None,
         kills' \in 0..MaxKills, errors' \in 0..MaxErrors,
         Tracked', OneRunner', IsFiniteSet(Stranded'), OnlyFaultsStrand'
  PROVE  IInv'
<1> USE DEF IInv
<1>1. TypeOK'
  BY DEF TypeOK
<1>2. CallsInv'
  BY CallsFrame
<1>3. CreatedTogether'
  <2>1. \A j \in Requests : jobs[j] = "none" =>
          \A v \in Workers : workers'[v].job # j
    BY CallsAssumption DEF CreatedTogether
  <2> QED BY <2>1 DEF CreatedTogether, RecordOf
<1>4. DispatchInv'
  BY DEF DispatchInv
<1>5. WorkersBusy'
  BY DEF WorkersBusy
<1> QED BY <1>1, <1>2, <1>3, <1>4, <1>5

\* The job of a delivery that a worker holds exists.
LEMMA HeldJob ==
  ASSUME IInv, NEW w \in Workers, workers[w].pc # "idle"
  PROVE  workers[w].job \in Requests /\ jobs[workers[w].job] # "none"
BY DEF IInv, TypeOK, Worker, WorkersBusy, CreatedTogether

\* The delivery leaves the queue and is held by the worker instead.
LEMMA ReceiveStep ==
  ASSUME IInv, NEW w \in Workers, NEW j \in Requests, Receive(w, j)
  PROVE  IInv'
<1> USE DEF IInv
<1>1. /\ workers'[w].pc = "received" /\ workers'[w].job = j
      /\ \A v \in Workers \ {w} : workers'[v] = workers[v]
      /\ workers' \in [Workers -> Worker]
  BY DEF Receive, At, TypeOK, Worker, WorkerPC
<1>2. /\ broker'[j] = broker[j] - 1 /\ broker[j] > 0
      /\ \A i \in Requests \ {j} : broker'[i] = broker[i]
      /\ broker' \in [Requests -> Nat]
  BY DEF Receive, TypeOK
<1>3. UNCHANGED <<calls, jobs, records, outbox, disp, aborts, kills, errors>>
  BY DEF Receive, faultVars
<1>4. workers[w].pc = "idle" /\ jobs[j] # "none"
  BY <1>2 DEF Receive, CreatedTogether
<1>5. Tracked'
  <2>1. Held(j)'
    BY <1>1 DEF Held
  <2>2. \A i \in Requests \ {j} : Held(i) => Held(i)'
    BY <1>1, <1>4 DEF Held
  <2> QED BY <1>2, <1>3, <2>1, <2>2 DEF Tracked
<1>6. OneRunner'
  BY <1>1, <1>3 DEF OneRunner
<1>7. Stranded' = Stranded
  BY <1>1, <1>3, <1>4 DEF Stranded
<1>8. IsFiniteSet(Stranded') /\ OnlyFaultsStrand'
  BY <1>3, <1>7 DEF OnlyFaultsStrand
<1>9. \A i \in Requests : jobs[i] = "none" => broker'[i] = 0
  BY <1>2, <1>4 DEF CreatedTogether
<1>10. j # None
  BY CallsAssumption
<1> QED BY <1>1, <1>2, <1>3, <1>4, <1>5, <1>6, <1>8, <1>9, <1>10, WorkerMoves
        DEF TypeOK

\* Under the row's lock a job is taken only if it is queued, so that nobody
\* else runs it; otherwise the delivery is a repeat.
LEMMA ClaimStep ==
  ASSUME IInv, NEW w \in Workers, Claim(w)
  PROVE  IInv'
<1> USE DEF IInv
<1> DEFINE j == workers[w].job
<1>1. workers[w].pc = "received" /\ j \in Requests /\ jobs[j] # "none"
  BY HeldJob DEF Claim
<1>2. UNCHANGED <<calls, records, outbox, disp, broker, aborts, kills, errors>>
  BY DEF Claim, faultVars
<1>3. /\ workers'[w].job = j
      /\ workers'[w].pc = IF Claimable(jobs[j]) THEN "running" ELSE "acking"
      /\ \A v \in Workers \ {w} : workers'[v] = workers[v]
      /\ workers' \in [Workers -> Worker]
  BY DEF Claim, TypeOK, Worker, WorkerPC
<1>4. \A i \in Requests \ {j} : Held(i) => Held(i)'
  BY <1>3 DEF Held
<1>5. j # None
  BY <1>1, CallsAssumption
<1>6. CASE Claimable(jobs[j])
  <2>1. jobs[j] = "queued"
    BY <1>1, <1>6 DEF Claimable, TypeOK
  <2>2. /\ jobs'[j] = "running"
        /\ \A i \in Requests \ {j} : jobs'[i] = jobs[i]
        /\ jobs' \in [Requests -> {"none", "queued", "running", "completed"}]
    BY <1>1, <1>6 DEF Claim, TypeOK
  <2>3. Tracked'
    BY <1>2, <1>4, <2>2 DEF Tracked
  <2>4. \A v \in Workers : workers[v].pc = "running" => workers[v].job # j
    BY <2>1 DEF OneRunner
  <2>5. OneRunner'
    <3>1. \A v \in Workers : workers'[v].pc = "running" =>
            workers'[v].job \in Requests
      BY <1>1, <1>3, HeldJob
    <3>2. ASSUME NEW v \in Workers, workers'[v].pc = "running"
          PROVE  jobs'[workers'[v].job] = "running"
      BY <1>3, <2>2, <2>4, <3>1, <3>2 DEF OneRunner
    <3> QED BY <1>3, <2>4, <3>2 DEF OneRunner
  <2>6. Stranded' = Stranded
    BY <1>1, <1>3, <1>6, <2>1, <2>2 DEF Stranded
  <2>7. IsFiniteSet(Stranded') /\ OnlyFaultsStrand'
    BY <1>2, <2>6 DEF OnlyFaultsStrand
  <2> QED BY <1>1, <1>2, <1>3, <1>5, <2>1, <2>2, <2>3, <2>5, <2>7, WorkerMoves
          DEF TypeOK, CreatedTogether
<1>7. CASE ~Claimable(jobs[j])
  <2>1. jobs[j] # "queued" /\ jobs' = jobs
    BY <1>7 DEF Claim, Claimable
  <2>2. Tracked'
    BY <1>2, <1>4, <2>1 DEF Tracked
  <2>3. OneRunner'
    BY <1>3, <1>7, <2>1 DEF OneRunner
  <2>4. Stranded' = Stranded
    BY <1>1, <1>3, <1>7, <2>1 DEF Stranded
  <2>5. IsFiniteSet(Stranded') /\ OnlyFaultsStrand'
    BY <1>2, <2>4 DEF OnlyFaultsStrand
  <2> QED BY <1>1, <1>2, <1>3, <1>5, <2>1, <2>2, <2>3, <2>5, WorkerMoves
          DEF TypeOK, CreatedTogether
<1> QED BY <1>6, <1>7

\* Only the worker that runs a job completes it.
LEMMA FinishStep ==
  ASSUME IInv, NEW w \in Workers, Finish(w)
  PROVE  IInv'
<1> USE DEF IInv
<1> DEFINE j == workers[w].job
<1>1. workers[w].pc = "running" /\ j \in Requests /\ jobs[j] = "running"
  BY HeldJob DEF Finish, OneRunner
<1>2. UNCHANGED <<calls, records, outbox, disp, broker, aborts, kills, errors>>
  BY DEF Finish, faultVars
<1>3. /\ workers'[w].job = j /\ workers'[w].pc = "acking"
      /\ \A v \in Workers \ {w} : workers'[v] = workers[v]
      /\ workers' \in [Workers -> Worker]
  BY DEF Finish, TypeOK, Worker, WorkerPC
<1>4. /\ jobs'[j] = "completed"
      /\ \A i \in Requests \ {j} : jobs'[i] = jobs[i]
      /\ jobs' \in [Requests -> {"none", "queued", "running", "completed"}]
  BY <1>1 DEF Finish, TypeOK
<1>5. j # None
  BY <1>1, CallsAssumption
<1>6. Tracked'
  <2>1. \A i \in Requests : Held(i) => Held(i)'
    BY <1>1, <1>3 DEF Held
  <2> QED BY <1>2, <1>4, <2>1 DEF Tracked
<1>7. OneRunner'
  <2>1. \A v \in Workers \ {w} : workers[v].pc = "running" =>
          workers[v].job \in Requests \ {j}
    BY <1>1, HeldJob DEF OneRunner
  <2> QED BY <1>3, <1>4, <2>1 DEF OneRunner
<1>8. Stranded' = Stranded
  BY <1>1, <1>3, <1>4 DEF Stranded
<1>9. IsFiniteSet(Stranded') /\ OnlyFaultsStrand'
  BY <1>2, <1>8 DEF OnlyFaultsStrand
<1> QED BY <1>1, <1>2, <1>3, <1>4, <1>5, <1>6, <1>7, <1>9, WorkerMoves
        DEF TypeOK, CreatedTogether

\* Acknowledging ends a delivery that holds nothing back.
LEMMA AckStep ==
  ASSUME IInv, NEW w \in Workers, Ack(w)
  PROVE  IInv'
<1> USE DEF IInv
<1>1. /\ workers'[w].pc = "idle" /\ workers'[w].job = None
      /\ \A v \in Workers \ {w} : workers'[v] = workers[v]
      /\ workers' \in [Workers -> Worker]
      /\ workers[w].pc = "acking"
  BY DEF Ack, At, TypeOK, Worker, WorkerPC
<1>2. UNCHANGED <<calls, jobs, records, outbox, disp, broker, aborts, kills, errors>>
  BY DEF Ack, faultVars
<1>3. Tracked'
  <2>1. \A i \in Requests : Held(i) => Held(i)'
    BY <1>1 DEF Held
  <2> QED BY <1>2, <2>1 DEF Tracked
<1>4. OneRunner'
  BY <1>1, <1>2 DEF OneRunner
<1>5. Stranded' = Stranded
  BY <1>1, <1>2 DEF Stranded
<1>6. IsFiniteSet(Stranded') /\ OnlyFaultsStrand'
  BY <1>2, <1>5 DEF OnlyFaultsStrand
<1> QED BY <1>1, <1>2, <1>3, <1>4, <1>6, WorkerMoves DEF TypeOK, CreatedTogether

\* A worker that lets go strands at most the job that it was running, and
\* one more fault is counted.
LEMMA StrandsOne ==
  ASSUME IInv, NEW w \in Workers, workers[w].pc # "idle",
         jobs' = jobs, workers'[w].pc = "idle",
         \A v \in Workers \ {w} : workers'[v] = workers[v],
         kills' \in Nat, errors' \in Nat,
         kills' + errors' = kills + errors + 1
  PROVE  IsFiniteSet(Stranded') /\ OnlyFaultsStrand'
<1> USE DEF IInv
<1> DEFINE S == Stranded
           T == Stranded'
           j == workers[w].job
<1>1. T \subseteq S \cup {j}
  BY DEF Stranded
<1> HIDE DEF S, T, j
<1>2. IsFiniteSet(S) /\ Cardinality(S) <= kills + errors
  BY DEF S, OnlyFaultsStrand
<1>3. /\ IsFiniteSet(S \cup {j})
      /\ Cardinality(S) \in Nat
      /\ Cardinality(S \cup {j}) \in {Cardinality(S), Cardinality(S) + 1}
  BY <1>2, FS_AddElement, FS_CardinalityType
<1>4. IsFiniteSet(T) /\ Cardinality(T) <= Cardinality(S \cup {j})
  BY <1>1, <1>3, FS_Subset
<1>5. Cardinality(T) \in Nat /\ kills \in Nat /\ errors \in Nat
  BY <1>4, FS_CardinalityType, BoundsAssumption DEF TypeOK
<1>6. Cardinality(T) <= kills' + errors'
  BY <1>2, <1>3, <1>4, <1>5
<1> QED BY <1>4, <1>6 DEF T, OnlyFaultsStrand

\* The delivery goes back to the queue.
LEMMA RedeliverStep ==
  ASSUME IInv, NEW w \in Workers, Redeliver(w)
  PROVE  IInv'
<1> USE DEF IInv
<1> DEFINE j == workers[w].job
<1>1. workers[w].pc # "idle" /\ j \in Requests /\ jobs[j] # "none"
  BY HeldJob DEF Redeliver
<1>2. /\ workers'[w].pc = "idle" /\ workers'[w].job = None
      /\ \A v \in Workers \ {w} : workers'[v] = workers[v]
      /\ workers' \in [Workers -> Worker]
  BY DEF Redeliver, At, TypeOK, Worker, WorkerPC
<1>3. /\ broker'[j] = broker[j] + 1
      /\ \A i \in Requests \ {j} : broker'[i] = broker[i]
      /\ broker' \in [Requests -> Nat]
  BY <1>1 DEF Redeliver, TypeOK
<1>4. UNCHANGED <<calls, jobs, records, outbox, disp, aborts, errors>>
  BY DEF Redeliver
<1>5. kills' \in 0..MaxKills /\ kills' = kills + 1 /\ kills \in Nat /\ errors \in Nat
  BY BoundsAssumption DEF Redeliver, TypeOK
<1>6. Tracked'
  <2>1. broker'[j] > 0
    BY <1>1, <1>3 DEF TypeOK
  <2>2. \A i \in Requests \ {j} : Held(i) => Held(i)'
    BY <1>2 DEF Held
  <2> QED BY <1>3, <1>4, <2>1, <2>2 DEF Tracked
<1>7. OneRunner'
  BY <1>2, <1>4 DEF OneRunner
<1>8. kills' + errors' = kills + errors + 1 /\ kills' \in Nat /\ errors' \in Nat
  BY <1>4, <1>5
<1>9. IsFiniteSet(Stranded') /\ OnlyFaultsStrand'
  BY <1>1, <1>2, <1>4, <1>8, StrandsOne
<1>10. \A i \in Requests : jobs[i] = "none" => broker'[i] = 0
  BY <1>1, <1>3 DEF CreatedTogether
<1> QED BY <1>2, <1>3, <1>4, <1>5, <1>6, <1>7, <1>9, <1>10, WorkerMoves DEF TypeOK

\* The delivery is gone, which the count of errors records.
LEMMA TaskFailsStep ==
  ASSUME IInv, NEW w \in Workers, TaskFails(w)
  PROVE  IInv'
<1> USE DEF IInv
<1>1. workers[w].pc # "idle"
  BY DEF TaskFails
<1>2. /\ workers'[w].pc = "idle" /\ workers'[w].job = None
      /\ \A v \in Workers \ {w} : workers'[v] = workers[v]
      /\ workers' \in [Workers -> Worker]
  BY DEF TaskFails, At, TypeOK, Worker, WorkerPC
<1>3. UNCHANGED <<calls, jobs, records, outbox, disp, broker, aborts, kills>>
  BY DEF TaskFails
<1>4. errors' \in 0..MaxErrors /\ errors' = errors + 1 /\ kills \in Nat /\ errors \in Nat
  BY BoundsAssumption DEF TaskFails, TypeOK
<1>5. Tracked'
  BY <1>4 DEF Tracked
<1>6. OneRunner'
  BY <1>2, <1>3 DEF OneRunner
<1>7. kills' + errors' = kills + errors + 1 /\ kills' \in Nat /\ errors' \in Nat
  BY <1>3, <1>4
<1>8. IsFiniteSet(Stranded') /\ OnlyFaultsStrand'
  BY <1>1, <1>2, <1>3, <1>7, StrandsOne
<1> QED BY <1>2, <1>3, <1>4, <1>5, <1>6, <1>8, WorkerMoves DEF TypeOK, CreatedTogether

-----------------------------------------------------------------------------
(* The theorems.                                                           *)

\* Every action of the endpoint, the dispatchers and the workers keeps the
\* invariant.
LEMMA NextInvariant == IInv /\ [Next]_vars => IInv'
<1> SUFFICES ASSUME IInv, [Next]_vars PROVE IInv'
  OBVIOUS
<1>1. ASSUME NEW r \in Requests, Create(r) PROVE IInv'
  BY <1>1, LookupStep, InsertStep, CommitCreateStep, ReplyStep DEF Create
<1>2. ASSUME NEW r \in Requests, CallFails(r) PROVE IInv'
  BY <1>2, CallFailsStep
<1>3. ASSUME NEW d \in Dispatchers, Dispatch(d) PROVE IInv'
  BY <1>3, TakeBatchStep, PublishStep, CommitDispatchStep DEF Dispatch
<1>4. ASSUME NEW d \in Dispatchers, DispatchFails(d) PROVE IInv'
  BY <1>4, DispatchFailsStep
<1>5. ASSUME NEW w \in Workers, RunExport(w) PROVE IInv'
  BY <1>5, ReceiveStep, ClaimStep, FinishStep, AckStep DEF RunExport
<1>6. ASSUME NEW w \in Workers, Redeliver(w) \/ TaskFails(w) PROVE IInv'
  BY <1>6, RedeliverStep, TaskFailsStep
<1>7. CASE UNCHANGED vars
  <2>1. TypeOK'
    BY <1>7 DEF vars, faultVars, IInv, TypeOK
  <2>2. DeliverySide'
    BY <1>7, DeliveryFrame DEF vars, faultVars, IInv, DeliverySide
  <2>3. CallsInv'
    BY <1>7, CallsFrame DEF vars, IInv
  <2> QED BY <2>1, <2>2, <2>3 DEF IInv, DeliverySide
<1> QED BY <1>1, <1>2, <1>3, <1>4, <1>5, <1>6, <1>7 DEF Next

\* The invariant that everything below rests on: what calls know, how rows,
\* locks and deliveries belong together, and how many jobs are stranded.
THEOREM Invariant == Spec => []IInv
BY InitInvariant, NextInvariant, PTL DEF Spec

\* The tables, transactions, queue and workers keep their types.
THEOREM TypeCorrect == Spec => []TypeOK
<1>1. IInv => TypeOK
  BY DEF IInv
<1> QED BY <1>1, Invariant, PTL

\* Two concurrent calls with one key never both create a job.
THEOREM OneJobForEachKey == Spec => []OneJobPerKey
<1>1. IInv => OneJobPerKey
  <2> SUFFICES ASSUME IInv, NEW r \in Requests, NEW s \in Requests,
                      jobs[r] # "none", jobs[s] # "none", KeyOf[r] = KeyOf[s]
               PROVE  r = s
    BY DEF OneJobPerKey
  <2>1. RecordOf(r) \in records /\ RecordOf(s) \in records
    BY DEF IInv, CreatedTogether
  <2>2. RecordOf(r) = RecordOf(s)
    BY <2>1, RecordType DEF IInv, CallsInv, RecordsUnique
  <2> QED BY <2>2, RecordType
<1> QED BY <1>1, Invariant, PTL

\* A job, its idempotency record and its outbox message are created by one
\* transaction, whatever fails afterwards.
THEOREM JobsAreCreatedWhole == Spec => []CreatedTogether
<1>1. IInv => CreatedTogether
  BY DEF IInv
<1> QED BY <1>1, Invariant, PTL

\* What a client is told of a key agrees with what the key stands for.
THEOREM AnswersAreTrue == Spec => []AnswersAgree
<1>1. IInv => AnswersAgree
  <2> SUFFICES ASSUME IInv, NEW r \in Requests
               PROVE  /\ calls[r].pc = "ok" =>
                           \E rec \in Found(r) : /\ rec.job = calls[r].job
                                                 /\ rec.hash = PayloadOf[r]
                      /\ calls[r].pc = "mismatch" =>
                           \E rec \in Found(r) : rec.hash # PayloadOf[r]
    BY DEF AnswersAgree
  <2>1. Told(r)
    BY DEF IInv, CallsInv
  <2>2. ASSUME calls[r].pc = "ok"
        PROVE  \E rec \in Found(r) : /\ rec.job = calls[r].job
                                     /\ rec.hash = PayloadOf[r]
    <3>1. RecordOf(calls[r].job) \in Found(r)
      BY <2>1, <2>2, RecordType DEF Told, Found
    <3> QED BY <2>1, <2>2, <3>1, RecordType DEF Told
  <2> QED BY <2>1, <2>2 DEF Told
<1> QED BY <1>1, Invariant, PTL

\* Whatever is published twice or redelivered, one worker runs a job.
THEOREM OneRunnerAtATime == Spec => []OneRunner
<1>1. IInv => OneRunner
  BY DEF IInv
<1> QED BY <1>1, Invariant, PTL

\* No message is lost between the outbox and the workers.
THEOREM NoMessageIsLost == Spec => []QueuedIsOnItsWay
<1>1. IInv => QueuedIsOnItsWay
  BY DEF IInv, Tracked, QueuedIsOnItsWay
<1> QED BY <1>1, Invariant, PTL

\* Every export that is left running was stranded by a fault of its own.
THEOREM StrandedByFaults == Spec => []OnlyFaultsStrand
<1>1. IInv => OnlyFaultsStrand
  BY DEF IInv
<1> QED BY <1>1, Invariant, PTL

\* No interleaving of workers moves an export backwards: a claim finds it
\* queued, and its end finds it running.
THEOREM StatusIsMonotone == Spec => StatusMovesForward
<1> DEFINE Forward ==
      \A j \in Requests :
        <<jobs[j], jobs'[j]>> \in
          {<<s, s>> : s \in {"none", "queued", "running", "completed"}}
          \cup {<<"none", "queued">>, <<"queued", "running">>,
                <<"running", "completed">>}
<1>1. ASSUME IInv, [Next]_vars PROVE Forward
  <2>1. \A j \in Requests : jobs[j] \in {"none", "queued", "running", "completed"}
    BY <1>1 DEF IInv, TypeOK
  <2>2. ASSUME NEW r \in Requests, CommitCreate(r) PROVE Forward
    <3>1. jobs[r] = "none" /\ jobs' = [jobs EXCEPT ![r] = "queued"]
      BY <1>1, <2>2 DEF CommitCreate, IInv, CallsInv, Told
    <3> QED BY <1>1, <2>1, <3>1 DEF IInv, TypeOK
  <2>3. ASSUME NEW w \in Workers, Claim(w) PROVE Forward
    <3> DEFINE j == workers[w].job
    <3>1. j \in Requests /\ jobs[j] # "none"
      BY <1>1, <2>3, HeldJob DEF Claim
    <3>2. \/ jobs' = jobs
          \/ jobs[j] = "queued" /\ jobs' = [jobs EXCEPT ![j] = "running"]
      BY <2>1, <2>3, <3>1 DEF Claim, Claimable
    <3> QED BY <1>1, <2>1, <3>1, <3>2 DEF IInv, TypeOK
  <2>4. ASSUME NEW w \in Workers, Finish(w) PROVE Forward
    <3> DEFINE j == workers[w].job
    <3>1. jobs[j] = "running" /\ jobs' = [jobs EXCEPT ![j] = "completed"]
      BY <1>1, <2>4 DEF Finish, IInv, OneRunner
    <3> QED BY <1>1, <2>1, <3>1 DEF IInv, TypeOK
  <2>5. \/ \E r \in Requests : CommitCreate(r)
        \/ \E w \in Workers : Claim(w) \/ Finish(w)
        \/ UNCHANGED jobs
    BY <1>1 DEF Next, vars, Create, Dispatch, RunExport, Lookup, Insert, Reply,
         CallFails, TakeBatch, Publish, CommitDispatch, DispatchFails, Receive,
         Ack, Redeliver, TaskFails
  <2> QED BY <2>1, <2>2, <2>3, <2>4, <2>5
<1>2. ASSUME IInv, [Next]_vars PROVE [Forward]_vars
  BY <1>1, <1>2
<1> HIDE DEF Forward
<1>3. Spec => [][Forward]_vars
  BY <1>2, Invariant, PTL DEF Spec
<1> QED BY <1>3 DEF StatusMovesForward, Forward

-----------------------------------------------------------------------------
(* The endpoint implements IdempotentCreate.                               *)

\* The refinement mapping of Promise.
Owners == [k \in Keys |-> {rec.job : rec \in {x \in records : x.key = k}}]

Outcome(r) == IF Ended(r) THEN [kind |-> calls[r].pc, job |-> calls[r].job]
                          ELSE [kind |-> "pending", job |-> None]

Outcomes == [r \in Requests |-> Outcome(r)]

\* The owners of a key are the calls with a record of that key.
LEMMA OwnersOf ==
  ASSUME IInv, NEW r \in Requests
  PROVE  /\ Owners[KeyOf[r]] = {rec.job : rec \in Found(r)}
         /\ \A rec \in Found(r) : /\ rec.job \in Owners[KeyOf[r]]
                                  /\ PayloadOf[rec.job] = rec.hash
<1>1. KeyOf[r] \in Keys
  BY CallsAssumption
<1>2. ASSUME NEW rec \in Found(r) PROVE PayloadOf[rec.job] = rec.hash
  <2>1. rec = RecordOf(rec.job) /\ rec.job \in Requests
    BY DEF Found, IInv, CallsInv, RecordsUnique, TypeOK, Record
  <2> QED BY <2>1, RecordType
<1> QED BY <1>1, <1>2 DEF Owners, Found

\* A call that ends is answered, and nothing else is seen to change.
LEMMA EndsOnce ==
  ASSUME IInv, NEW r \in Requests, NEW c \in Call,
         calls' = [calls EXCEPT ![r] = c], UNCHANGED records, ~Ended(r)
  PROVE  /\ Owners' = Owners
         /\ Outcomes[r] = [kind |-> "pending", job |-> None]
         /\ c.pc \notin Answers => Outcomes' = Outcomes
         /\ c.pc \in Answers => Outcomes' =
              [Outcomes EXCEPT ![r] = [kind |-> c.pc, job |-> c.job]]
<1>1. calls'[r] = c /\ \A o \in Requests \ {r} : calls'[o] = calls[o]
  BY DEF IInv, TypeOK
<1>2. \A o \in Requests \ {r} : Outcome(o)' = Outcome(o)
  BY <1>1 DEF Outcome, Ended
<1>3. Outcome(r) = [kind |-> "pending", job |-> None]
  BY DEF Outcome
<1>4. Outcome(r)' = IF c.pc \in Answers THEN [kind |-> c.pc, job |-> c.job]
                                       ELSE [kind |-> "pending", job |-> None]
  BY <1>1 DEF Outcome, Ended
<1> QED BY <1>2, <1>3, <1>4 DEF Outcomes, Owners

\* What a step of ExportJobs is to IdempotentCreate.
PromiseStep == Promise!Next \/ UNCHANGED <<Owners, Outcomes>>

\* A call that does not end yet is not seen.
LEMMA Silent ==
  ASSUME IInv, NEW r \in Requests, NEW c \in Call, c.pc \notin Answers,
         calls' = [calls EXCEPT ![r] = c], UNCHANGED records, ~Ended(r)
  PROVE  PromiseStep
BY EndsOnce DEF PromiseStep

\* A call that ends is answered in the way that its last phase says.
LEMMA Answering ==
  ASSUME IInv, NEW r \in Requests, NEW kind \in Answers,
         NEW job \in Requests \cup {None},
         calls' = [calls EXCEPT ![r] = At(kind, job)], UNCHANGED records,
         ~Ended(r)
  PROVE  Promise!Answered(r, kind, job)
<1> DEFINE c == At(kind, job)
<1>1. /\ c \in Call /\ c.pc = kind /\ c.job = job
      /\ calls' = [calls EXCEPT ![r] = c]
  BY DEF At, Call, CallPC
<1> HIDE DEF c
<1>2. /\ Owners' = Owners
      /\ Outcomes[r] = [kind |-> "pending", job |-> None]
      /\ Outcomes' = [Outcomes EXCEPT ![r] = [kind |-> c.pc, job |-> c.job]]
  BY <1>1, EndsOnce
<1> QED BY <1>1, <1>2 DEF Promise!Answered, Promise!Pending, Owners, Outcomes, Outcome

\* The SELECT shows nothing, or refuses a key that another payload has.
LEMMA LookupKeeps ==
  ASSUME IInv, NEW r \in Requests, Lookup(r)
  PROVE  PromiseStep
<1>1. ~Ended(r) /\ UNCHANGED records
  BY DEF Lookup, Ended, Answers
<1>2. CASE calls' = [calls EXCEPT ![r] = At("missed", None)]
  <2>1. At("missed", None) \in Call /\ At("missed", None).pc \notin Answers
    BY DEF At, Call, CallPC, Answers
  <2> QED BY <1>1, <1>2, <2>1, Silent
<1>3. ASSUME NEW rec \in Found(r), rec.hash = PayloadOf[r],
             calls' = [calls EXCEPT ![r] = At("replying", rec.job)]
      PROVE  PromiseStep
  <2>1. At("replying", rec.job) \in Call /\ At("replying", rec.job).pc \notin Answers
    BY DEF Found, IInv, TypeOK, Record, At, Call, CallPC, Answers
  <2> QED BY <1>1, <1>3, <2>1, Silent
<1>4. ASSUME NEW rec \in Found(r), rec.hash # PayloadOf[r],
             calls' = [calls EXCEPT ![r] = At("mismatch", None)]
      PROVE  PromiseStep
  <2>1. Promise!Answered(r, "mismatch", None)
    BY <1>1, <1>4, Answering DEF Answers
  <2>2. rec.job \in Owners[KeyOf[r]] /\ PayloadOf[rec.job] # PayloadOf[r]
    BY <1>4, OwnersOf
  <2>3. Promise!RefuseOther(r)
    BY <2>1, <2>2 DEF Promise!RefuseOther, Owners
  <2> QED BY <2>3 DEF PromiseStep, Promise!Next
<1> QED BY <1>2, <1>3, <1>4 DEF Lookup

\* A call that the unique index stops has lost a race for its key.
LEMMA InsertKeeps ==
  ASSUME IInv, NEW r \in Requests, Insert(r)
  PROVE  PromiseStep
<1>1. ~Ended(r) /\ UNCHANGED records
  BY DEF Insert, Ended, Answers
<1>2. CASE Found(r) = {}
  <2>1. At("inserted", r) \in Call /\ At("inserted", r).pc \notin Answers
    BY DEF At, Call, CallPC, Answers
  <2> QED BY <1>1, <1>2, <2>1, Silent DEF Insert
<1>3. CASE Found(r) # {}
  <2>1. Promise!Answered(r, "conflict", None)
    BY <1>1, <1>3, Answering DEF Answers, Insert
  <2>2. Owners[KeyOf[r]] # {}
    BY <1>3, OwnersOf
  <2>3. Promise!RefuseRace(r)
    BY <2>1, <2>2 DEF Promise!RefuseRace, Owners
  <2> QED BY <2>3 DEF PromiseStep, Promise!Next
<1> QED BY <1>2, <1>3

\* The commit binds the key, which nobody had.
LEMMA CommitCreateKeeps ==
  ASSUME IInv, NEW r \in Requests, CommitCreate(r)
  PROVE  PromiseStep
<1>1. /\ calls[r].pc = "inserted" /\ Found(r) = {}
      /\ records' = records \cup {RecordOf(r)}
  BY DEF CommitCreate, IInv, CallsInv, InsertedAlone
<1>2. /\ calls'[r].pc = "replying"
      /\ \A o \in Requests \ {r} : calls'[o] = calls[o]
  BY DEF CommitCreate, At, IInv, TypeOK
<1>3. Outcomes' = Outcomes
  BY <1>1, <1>2 DEF Outcomes, Outcome, Ended, Answers
<1>4. Outcomes[r] = [kind |-> "pending", job |-> None]
  BY <1>1 DEF Outcomes, Outcome, Ended, Answers
<1>5. Owners[KeyOf[r]] = {}
  BY <1>1, OwnersOf
<1>6. Owners' = [Owners EXCEPT ![KeyOf[r]] = {r}]
  <2> DEFINE Of(k) == {rec.job : rec \in {x \in records : x.key = k}}
             Now(k) == {rec.job : rec \in {x \in records' : x.key = k}}
  <2>1. \A k \in Keys : k # KeyOf[r] => Now(k) = Of(k)
    BY <1>1, RecordType
  <2>2. Now(KeyOf[r]) = {r}
    <3>1. {x \in records' : x.key = KeyOf[r]} = {RecordOf(r)}
      BY <1>1, RecordType DEF Found
    <3> QED BY <3>1, RecordType
  <2>3. Owners = [k \in Keys |-> Of(k)] /\ Owners' = [k \in Keys |-> Now(k)]
    BY DEF Owners
  <2> HIDE DEF Of, Now
  <2> QED BY <2>1, <2>2, <2>3
<1>7. Promise!Bind(r)
  BY <1>3, <1>4, <1>5, <1>6
     DEF Promise!Bind, Promise!Pending, Owners, Outcomes, Outcome
<1> QED BY <1>7 DEF PromiseStep, Promise!Next

\* The answer names the job that the key is bound to.
LEMMA ReplyKeeps ==
  ASSUME IInv, NEW r \in Requests, Reply(r)
  PROVE  PromiseStep
<1> PICK o \in Requests : o = calls[r].job
  BY DEF Reply, IInv, CallsInv, Told
<1>1. ~Ended(r) /\ UNCHANGED records
  BY DEF Reply, Ended, Answers, faultVars
<1>2. /\ RecordOf(o) \in records /\ KeyOf[o] = KeyOf[r]
      /\ PayloadOf[o] = PayloadOf[r]
  BY DEF Reply, IInv, CallsInv, Told
<1>3. Promise!Answered(r, "ok", o)
  BY <1>1, <1>2, Answering DEF Reply, Answers
<1>4. o \in Owners[KeyOf[r]]
  <2>1. RecordOf(o) \in Found(r) /\ RecordOf(o).job = o
    BY <1>2, RecordType DEF Found
  <2> QED BY <2>1, OwnersOf
<1>5. Promise!Tell(r)
  BY <1>2, <1>3, <1>4 DEF Promise!Tell, Owners
<1> QED BY <1>5 DEF PromiseStep, Promise!Next

\* A call may end without a job to tell of at any time.
LEMMA CallFailsKeeps ==
  ASSUME IInv, NEW r \in Requests, CallFails(r)
  PROVE  PromiseStep
<1>1. Promise!Answered(r, "error", None)
  BY Answering DEF CallFails, Answers
<1> QED BY <1>1 DEF PromiseStep, Promise!Next, Promise!GiveUp

\* The endpoint keeps the promise of its Idempotency-Key: each step is one of
\* IdempotentCreate or is not seen by any client.
THEOREM PromiseIsKept == Spec => KeepsPromise
<1>1. Init => Promise!Init
  BY DEF Init, Promise!Init, Promise!Pending, At, Ended, Answers
<1>2. IInv /\ [Next]_vars => PromiseStep
  <2> SUFFICES ASSUME IInv, [Next]_vars PROVE PromiseStep
    OBVIOUS
  <2>1. ASSUME NEW r \in Requests, Create(r) \/ CallFails(r) PROVE PromiseStep
    BY <2>1, LookupKeeps, InsertKeeps, CommitCreateKeeps, ReplyKeeps,
       CallFailsKeeps DEF Create
  <2>2. CASE UNCHANGED <<calls, records>>
    BY <2>2 DEF PromiseStep, Owners, Outcomes, Outcome, Ended
  <2>3. \/ \E r \in Requests : Create(r) \/ CallFails(r)
        \/ UNCHANGED <<calls, records>>
    BY DEF Next, vars, Dispatch, RunExport, TakeBatch, Publish, CommitDispatch,
         DispatchFails, Receive, Claim, Finish, Ack, Redeliver, TaskFails
  <2> QED BY <2>1, <2>2, <2>3
<1>3. IInv /\ [Next]_vars => [Promise!Next]_<<Owners, Outcomes>>
  BY <1>2 DEF PromiseStep
<1> QED BY <1>1, <1>3, Invariant, PTL
        DEF Spec, KeepsPromise, Promise!Spec, Owners, Outcomes, Outcome

-----------------------------------------------------------------------------
(* Nothing is stuck: guards as state predicates.                           *)

\* o has entered r's key in the index and not committed: r's flush waits.
Bars(o, r) == KeyOf[o] = KeyOf[r] /\ calls[o].pc = "inserted"

\* Create(r) can be done.
MayGoOn(r) ==
  \/ calls[r].pc \in {"called", "inserted", "replying"}
  \/ calls[r].pc = "missed" /\ \A o \in Requests : ~Bars(o, r)

\* dispatch_outbox can take a batch of these rows.
Batch(batch) ==
  /\ batch # {}
  /\ Cardinality(batch) <= BatchSize
  /\ Cardinality(batch) = BatchSize \/ batch = Waiting

\* Dispatch(d) can be done.
MayDispatch(d) ==
  \/ (disp[d].batch = {} /\ \E batch \in SUBSET Waiting : Batch(batch))
  \/ disp[d].batch \ disp[d].sent # {}
  \/ disp[d].batch # {} /\ disp[d].sent = disp[d].batch

\* RunExport(w) can be done.
MayWork(w) ==
  workers[w].pc = "idle" => \E j \in Requests : broker[j] > 0

\* A call that can not go on waits for the one transaction that holds its
\* key, which can; a dispatcher is idle only when there is nothing to take,
\* a worker only when the queue is empty; and an export that is queued keeps
\* one of them busy until an execution raises.
NeverStuck ==
  /\ \A r \in Requests :
       \/ Ended(r) \/ MayGoOn(r)
       \/ \E o \in Requests \ {r} :
            Bars(o, r) /\ MayGoOn(o) /\ \A q \in Requests : Bars(q, r) => q = o
  /\ \A d \in Dispatchers : MayDispatch(d) \/ (disp[d].batch = {} /\ Waiting = {})
  /\ \A w \in Workers :
       MayWork(w) \/ (workers[w].pc = "idle" /\ \A j \in Requests : broker[j] = 0)
  /\ errors = 0 /\ Dispatchers # {} /\ Workers # {} =>
       \A j \in Requests : jobs[j] = "queued" =>
         (\E d \in Dispatchers : MayDispatch(d)) \/ (\E w \in Workers : MayWork(w))

LEMMA LeastNatural ==
  ASSUME NEW S \in SUBSET Nat, S # {}
  PROVE  \E m \in S : \A k \in S : m <= k
<1>1. PICK m \in S : \A k \in S : <<k, m>> \notin OpToRel(<, Nat)
  BY NatLessThanWellFounded, WFMin, Zenon
<1>2. \A k \in S : ~(k < m)
  BY <1>1 DEF OpToRel
<1> QED BY <1>2

\* A set has a part of n elements, or no more than n itself.
LEMMA PartOfSize ==
  ASSUME NEW S, NEW n \in Nat
  PROVE  \E part \in SUBSET S :
           /\ IsFiniteSet(part) /\ Cardinality(part) <= n
           /\ Cardinality(part) = n \/ part = S
<1> DEFINE Part(part, k) == /\ IsFiniteSet(part) /\ Cardinality(part) <= k
                            /\ Cardinality(part) = k \/ part = S
           without == {k \in Nat : ~ \E part \in SUBSET S : Part(part, k)}
<1>1. SUFFICES without = {}
  OBVIOUS
<1>2. SUFFICES ASSUME without # {} PROVE FALSE
  OBVIOUS
<1>3. PICK k \in without : \A i \in without : k <= i
  <2>1. without \in SUBSET Nat
    OBVIOUS
  <2> HIDE DEF without
  <2> QED BY <1>2, <2>1, LeastNatural
<1>4. k # 0
  BY FS_EmptySet
<1>5. k - 1 \in Nat /\ k - 1 \notin without
  BY <1>3, <1>4
<1>6. PICK part \in SUBSET S : Part(part, k - 1)
  BY <1>5
<1>7. IsFiniteSet(part) /\ Cardinality(part) \in Nat
  BY <1>6, FS_CardinalityType
<1>8. CASE part = S
  BY <1>3, <1>5, <1>6, <1>7, <1>8
<1>9. CASE part # S
  <2>1. PICK x \in S \ part : TRUE
    BY <1>9
  <2>2. IsFiniteSet(part \cup {x}) /\ Cardinality(part \cup {x}) = k
    BY <1>5, <1>6, <1>7, <1>9, <2>1, FS_AddElement
  <2> QED BY <1>3, <2>1, <2>2
<1> QED BY <1>8, <1>9

\* Whatever waits, there is a batch to take.
LEMMA BatchExists ==
  ASSUME Waiting # {}
  PROVE  \E batch \in SUBSET Waiting : Batch(batch)
<1>1. BatchSize \in Nat /\ BatchSize # 0
  BY BoundsAssumption
<1>2. PICK batch \in SUBSET Waiting :
        /\ IsFiniteSet(batch) /\ Cardinality(batch) <= BatchSize
        /\ Cardinality(batch) = BatchSize \/ batch = Waiting
  BY <1>1, PartOfSize
<1>3. batch # {}
  BY <1>1, <1>2, FS_EmptySet
<1> QED BY <1>2, <1>3 DEF Batch

LEMMA ExportsGoOn ==
  ASSUME IInv
  PROVE  NeverStuck
<1>0. TypeOK /\ CallsInv /\ CreatedTogether /\ DispatchInv /\ WorkersBusy /\ Tracked
  BY DEF IInv
<1>1. ASSUME NEW r \in Requests, ~Ended(r), ~MayGoOn(r)
      PROVE  \E o \in Requests \ {r} :
               Bars(o, r) /\ MayGoOn(o) /\ \A q \in Requests : Bars(q, r) => q = o
  <2>1. calls[r].pc = "missed"
    BY <1>0, <1>1 DEF TypeOK, Call, CallPC, Ended, MayGoOn
  <2>2. PICK o \in Requests : Bars(o, r)
    BY <1>1, <2>1 DEF MayGoOn
  <2>3. o # r /\ MayGoOn(o)
    BY <2>1, <2>2 DEF Bars, MayGoOn
  <2>4. \A q \in Requests : Bars(q, r) => q = o
    BY <1>0, <2>2 DEF Bars, CallsInv, InsertedAlone
  <2> QED BY <2>2, <2>3, <2>4
<1>2. ASSUME NEW d \in Dispatchers
      PROVE  MayDispatch(d) \/ (disp[d].batch = {} /\ Waiting = {})
  <2>1. CASE disp[d].batch = {}
    BY <2>1, BatchExists DEF MayDispatch
  <2>2. CASE disp[d].batch # {}
    BY <1>0, <2>2 DEF MayDispatch, DispatchInv
  <2> QED BY <2>1, <2>2
<1>3. ASSUME NEW w \in Workers
      PROVE  MayWork(w) \/ (workers[w].pc = "idle" /\ \A j \in Requests : broker[j] = 0)
  BY <1>0 DEF TypeOK, MayWork
<1>4. ASSUME errors = 0, Dispatchers # {}, Workers # {},
             NEW j \in Requests, jobs[j] = "queued"
      PROVE  (\E d \in Dispatchers : MayDispatch(d)) \/ (\E w \in Workers : MayWork(w))
  <2>1. CASE outbox[j] = "unpublished"
    <3>1. CASE j \in RowLocked
      BY <1>2, <3>1 DEF RowLocked
    <3>2. CASE j \notin RowLocked
      BY <1>2, <1>4, <2>1, <3>2 DEF Waiting
    <3> QED BY <3>1, <3>2
  <2>2. CASE broker[j] > 0
    BY <1>4, <2>2 DEF MayWork
  <2>3. CASE Held(j)
    BY <2>3 DEF Held, MayWork
  <2> QED BY <1>0, <1>4, <2>1, <2>2, <2>3 DEF Tracked
<1> QED BY <1>1, <1>2, <1>3, <1>4 DEF NeverStuck

\* For any calls, dispatchers, workers and batch size, nobody waits in a
\* circle or for work that is there, and a queued export that no execution
\* has failed keeps a dispatcher or a worker able to act.
THEOREM NoDeadlock == Spec => []NeverStuck
BY ExportsGoOn, Invariant, PTL
=============================================================================
