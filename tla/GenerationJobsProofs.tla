------------------------ MODULE GenerationJobsProofs ------------------------
(***************************************************************************)
(* Proofs about GenerationJobs, for any number of jobs, slots and          *)
(* processes, any skew, lease, backoff and clock bound.                    *)
(***************************************************************************)
EXTENDS GenerationJobs, WellFoundedInduction, TLAPS

(* Types of the helpers that build rows and slots.                         *)

LEMMA BackoffType ==
  ASSUME NEW a \in 1..10
  PROVE  Backoff(a) \in Nat
<1>1. 2^(a - 1) \in Nat
  BY PowersAssumption
<1>2. RetryBase \in Nat
  BY TimeAssumption
<1>3. ASSUME NEW x \in Nat, NEW y \in Nat PROVE x * y \in Nat
  OBVIOUS
<1> QED BY <1>1, <1>2, <1>3 DEF Backoff

LEMMA ExhaustedType ==
  ASSUME NEW r \in Row
  PROVE  Exhausted(r) \in Row
BY DEF Exhausted, Row, Status, Terminal

LEMMA ClaimedType ==
  ASSUME NEW r \in Row, r.attempts < 10, NEW s \in Slots, NEW now \in Nat
  PROVE  Claimed(r, s, now) \in Row
<1>1. now + LeaseSeconds \in Nat
  BY TimeAssumption
<1>2. r.attempts + 1 \in 0..10
  BY DEF Row
<1> QED BY <1>1, <1>2 DEF Claimed, Row, Status, Terminal

LEMMA CompletedType ==
  ASSUME NEW r \in Row, NEW a \in 0..10
  PROVE  Completed(r, a) \in Row
BY DEF Completed, Row, Status, Terminal

LEMMA FailedType ==
  ASSUME NEW r \in Row, NEW a \in 1..10, NEW now \in Nat,
         NEW retry \in BOOLEAN, NEW metered \in BOOLEAN
  PROVE  Failed(r, a, retry, metered, now) \in Row
<1> DEFINE status == IF retry THEN "queued" ELSE "failed"
           usage  == IF metered THEN a ELSE 0
           due    == now + Backoff(a)
           done   == IF retry THEN 0 ELSE 1
<1>1. status \in Status /\ usage \in 0..10 /\ done \in {0, 1}
  BY DEF Status, Terminal
<1>2. due \in Nat
  BY BackoffType
<1> HIDE DEF status, usage, due, done
<1>3. [r EXCEPT !.status = status, !.error = "call", !.usage = usage,
                !.worker = None, !.lease = 0, !.available = due,
                !.finished = done] \in Row
  BY <1>1, <1>2 DEF Row
<1> QED BY <1>3 DEF Failed, status, usage, due, done

LEMMA AbsentType == Absent \in Row
BY DEF Absent, Row, Status

LEMMA IdleType ==
  ASSUME NEW pc \in PC, NEW at \in Nat
  PROVE  Idle(pc, at) \in Slot
BY DEF Idle, Slot

LEMMA NowType ==
  ASSUME TypeOK, NEW s \in Slots
  PROVE  /\ clock \in Nat
         /\ slot[s] \in Slot
         /\ Now(s) \in Nat
BY TimeAssumption DEF TypeOK, Now, Slot

-----------------------------------------------------------------------------
(* What a slot keeps while others write.                                   *)

\* A slot that does not step keeps its locks' grip when the rows it has
\* locked are left alone.
LEMMA LocksStay ==
  ASSUME LocksHold, TypeOK, NEW t \in Slots, slot'[t] = slot[t],
         \A j \in Jobs : Locks(t, j) => rows'[j] = rows[j]
  PROVE  Grip(t)'
<1>1. slot[t] \in Slot /\ Grip(t)
  BY DEF TypeOK, LocksHold
<1>2. ASSUME slot[t].pc \in {"swept", "selected"}
      PROVE  slot[t].sweep \subseteq Sweepable(t)'
  BY <1>1, <1>2 DEF Grip, Locks, Sweepable, Expired, Now, Slot
<1>3. ASSUME slot[t].pc = "selected", slot[t].job # None
      PROVE  Eligible(t, slot[t].job)'
  <2>1. slot[t].job \in Jobs /\ Eligible(t, slot[t].job)
    BY <1>1, <1>3 DEF Slot, Grip
  <2>2. rows'[slot[t].job] = rows[slot[t].job]
    BY <2>1, <1>3 DEF Locks
  <2> QED BY <2>1, <2>2 DEF Eligible, Expired, Now
<1> QED BY <1>2, <1>3 DEF Grip

\* Slots that let go of everything (a new claim, an error, a crash, a
\* restart) leave the invariant intact.
LEMMA LettingGo ==
  ASSUME IInv, NEW P \in SUBSET Slots,
         NEW pc \in {"ready", "sleep", "down", "begin"},
         slot' = [s \in Slots |-> IF s \in P THEN Idle(pc, clock) ELSE slot[s]],
         faults' \in 0..MaxFaults,
         UNCHANGED <<clock, rows>>
  PROVE  IInv'
<1> USE DEF IInv
<1>1. TypeOK'
  <2>1. clock \in Nat /\ pc \in PC
    BY TimeAssumption DEF TypeOK, PC, Claiming
  <2> QED BY <2>1, IdleType DEF TypeOK
<1>2. \A s \in Slots : IF s \in P THEN slot'[s].pc = pc /\ slot'[s].job = None
                                  ELSE slot'[s] = slot[s]
  BY DEF Idle
<1>3. NothingPicked'
  BY <1>2 DEF NothingPicked
<1>4. BlankBefore' /\ ColumnsAgree' /\ NoneStranded' /\ ResultIsOfLastAttempt'
  BY DEF BlankBefore, ColumnsAgree, NoneStranded, ResultIsOfLastAttempt
<1>5. LocksExclude'
  BY <1>2 DEF LocksProtect, LocksExclude, Locks
<1>6. LocksHold'
  <2> SUFFICES ASSUME NEW t \in Slots PROVE Grip(t)'
    BY DEF LocksHold
  <2>1. CASE t \in P
    BY <1>2, <2>1 DEF Grip
  <2>2. CASE t \notin P
    BY <1>2, <2>2, LocksStay DEF LocksProtect
  <2> QED BY <2>1, <2>2
<1>7. AttemptHasOneOwner'
  BY <1>2 DEF AttemptHasOneOwner, Holding
<1>8. FenceIsExact'
  BY <1>2 DEF FenceIsExact, Owns, Holding
<1> QED BY <1>1, <1>3, <1>4, <1>5, <1>6, <1>7, <1>8 DEF LocksProtect

\* Only rows that are queued or running are ever locked.
LEMMA LockedIsLive ==
  ASSUME IInv, NEW t \in Slots, NEW j \in Jobs, Locks(t, j)
  PROVE  rows[j].status \in {"queued", "running"}
<1>1. Grip(t) /\ slot[t] \in Slot
  BY DEF IInv, LocksProtect, LocksHold, TypeOK
<1>2. slot[t].pc = "swept" => slot[t].job # j
  BY NoneAssumption DEF IInv, NothingPicked
<1>3. CASE j \in slot[t].sweep
  BY <1>1, <1>3 DEF Grip, Sweepable, Locks
<1>4. CASE j = slot[t].job
  BY <1>1, <1>2, <1>4, NoneAssumption DEF Grip, Eligible, Locks
<1> QED BY <1>3, <1>4 DEF Locks

-----------------------------------------------------------------------------
(* The invariant is inductive: one lemma per kind of step.                 *)

LEMMA InitInvariant == Init => IInv
<1> SUFFICES ASSUME Init PROVE IInv
  OBVIOUS
<1> USE DEF Init
<1>1. TypeOK
  <2>2. Idle("ready", 0) \in Slot
    BY IdleType DEF PC
  <2> QED BY AbsentType, <2>2, TimeAssumption DEF TypeOK
<1>2. \A s \in Slots : slot[s].pc = "ready"
  BY DEF Idle
<1>3. NothingPicked /\ AttemptHasOneOwner /\ FenceIsExact
  BY <1>2 DEF NothingPicked, AttemptHasOneOwner, FenceIsExact, Holding
<1>4. LocksProtect
  BY <1>2 DEF LocksProtect, LocksExclude, LocksHold, Grip, Locks
<1>5. BlankBefore /\ ColumnsAgree
  BY DEF BlankBefore, ColumnsAgree, Absent, Terminal
<1>6. NoneStranded /\ ResultIsOfLastAttempt
  BY MaxAttemptsAssumption DEF NoneStranded, ResultIsOfLastAttempt, Absent
<1> QED BY <1>1, <1>3, <1>4, <1>5, <1>6 DEF IInv

LEMMA SubmitStep ==
  ASSUME IInv, NEW j \in Jobs, Submit(j)
  PROVE  IInv'
<1> USE DEF IInv
<1>0. UNCHANGED <<clock, slot, faults>> /\ rows[j].status = "absent"
  BY DEF Submit
<1>2. rows \in [Jobs -> Row] /\ clock \in Nat
  BY TimeAssumption DEF TypeOK
<1>1. Queued(clock) \in Row
  BY <1>2, AbsentType DEF Queued, Row, Status
<1>3. TypeOK' /\ (\A k \in Jobs : rows'[k] = IF k = j THEN Queued(clock) ELSE rows[k])
  BY <1>1, <1>2 DEF Submit, TypeOK
<1>4. LET new == Queued(clock)
      IN  /\ new.status = "queued" /\ new.attempts = 0 /\ new.lease = 0
          /\ new.worker = None /\ new.finished = 0 /\ new.output = 0
          /\ new.usage = 0 /\ new.error = "none"
  BY DEF Queued, Absent
<1>5. NothingPicked'
  BY <1>0 DEF NothingPicked
<1>6. BlankBefore' /\ ColumnsAgree'
  BY <1>3, <1>4 DEF BlankBefore, ColumnsAgree, Terminal
<1>7. LocksExclude'
  BY <1>0 DEF LocksProtect, LocksExclude, Locks
<1>8. LocksHold'
  <2> SUFFICES ASSUME NEW t \in Slots PROVE Grip(t)'
    BY DEF LocksHold
  <2>1. \A k \in Jobs : Locks(t, k) => rows'[k] = rows[k]
    BY <1>0, <1>3, LockedIsLive
  <2> QED BY <1>0, <2>1, LocksStay DEF LocksProtect
<1>12. \A s \in Slots : slot[s].pc \in Holding => slot[s].job # j
  <2>1. rows[j].attempts = 0
    BY <1>0 DEF BlankBefore, Absent
  <2> QED BY <2>1 DEF AttemptHasOneOwner
<1>9. AttemptHasOneOwner'
  BY <1>0, <1>3, <1>4, <1>12 DEF AttemptHasOneOwner
<1>10. FenceIsExact'
  <2> SUFFICES ASSUME NEW s \in Slots, slot[s].pc \in Holding, Owns(s)'
               PROVE  slot[s].attempt = rows'[slot[s].job].attempts
    BY <1>0 DEF FenceIsExact
  <2>1. slot[s].job \in Jobs
    BY DEF AttemptHasOneOwner
  <2>2. Owns(s)
    BY <1>0, <1>3, <1>4, <2>1 DEF Owns
  <2> QED BY <1>3, <1>12, <2>1, <2>2 DEF FenceIsExact
<1>11. NoneStranded' /\ ResultIsOfLastAttempt'
  BY <1>0, <1>3, <1>4, MaxAttemptsAssumption DEF NoneStranded, ResultIsOfLastAttempt
<1> QED BY <1>3, <1>5, <1>6, <1>7, <1>8, <1>9, <1>10, <1>11 DEF LocksProtect

LEMMA TickStep ==
  ASSUME IInv, Tick
  PROVE  IInv'
<1> USE DEF IInv, Tick
<1>1. TypeOK'
  BY TimeAssumption DEF TypeOK
<1>2. /\ NothingPicked' /\ BlankBefore' /\ ColumnsAgree'
      /\ NoneStranded' /\ ResultIsOfLastAttempt'
  BY DEF NothingPicked, BlankBefore, ColumnsAgree, NoneStranded, ResultIsOfLastAttempt
<1>3. LocksProtect'
  <2>1. LocksExclude'
    BY DEF LocksProtect, LocksExclude, Locks
  <2>2. LocksHold'
    BY LocksStay DEF LocksProtect, LocksHold
  <2> QED BY <2>1, <2>2 DEF LocksProtect
<1>4. AttemptHasOneOwner' /\ FenceIsExact'
  BY DEF AttemptHasOneOwner, FenceIsExact, Owns
<1> QED BY <1>1, <1>2, <1>3, <1>4

\* A step of one slot that writes no row: what it must establish by itself.
LEMMA SlotOnly ==
  ASSUME IInv, NEW s \in Slots, UNCHANGED <<clock, rows, faults>>,
         NEW new \in Slot, slot' = [slot EXCEPT ![s] = new],
         new.pc \in {"begin", "swept"} => new.job = None,
         Grip(s)',
         \A j \in Jobs : Locks(s, j)' => Locks(s, j) \/ ~Locked(s, j),
         new.pc \in Holding => /\ slot[s].pc \in Holding
                               /\ new.job = slot[s].job
                               /\ new.attempt = slot[s].attempt
  PROVE  IInv'
<1> USE DEF IInv
<1>1. TypeOK'
  BY DEF TypeOK
<1>2. /\ slot'[s] = new
      /\ \A t \in Slots \ {s} : slot'[t] = slot[t]
  BY DEF TypeOK
<1>3. NothingPicked'
  BY <1>2 DEF NothingPicked
<1>4. BlankBefore' /\ ColumnsAgree' /\ NoneStranded' /\ ResultIsOfLastAttempt'
  BY DEF BlankBefore, ColumnsAgree, NoneStranded, ResultIsOfLastAttempt
<1>5. LocksExclude'
  <2>1. \A t \in Slots \ {s} : \A j \in Jobs :
          /\ Locks(t, j)' => Locks(t, j)
          /\ ~(Locks(s, j)' /\ Locks(t, j))
    BY <1>2 DEF LocksProtect, LocksExclude, Locked, Locks
  <2> SUFFICES ASSUME NEW a \in Slots, NEW b \in Slots, NEW j \in Jobs,
                      Locks(a, j)', Locks(b, j)', a # b
               PROVE  FALSE
    BY DEF LocksExclude
  <2>2. CASE a = s \/ b = s
    BY <2>1, <2>2
  <2>3. CASE a # s /\ b # s
    BY <2>1, <2>3 DEF LocksProtect, LocksExclude
  <2> QED BY <2>2, <2>3
<1>6. LocksHold'
  BY <1>2, LocksStay DEF LocksProtect, LocksHold
<1>7. AttemptHasOneOwner'
  BY <1>2 DEF AttemptHasOneOwner
<1>8. FenceIsExact'
  <2> SUFFICES ASSUME NEW t \in Slots, slot'[t].pc \in Holding, Owns(t)'
               PROVE  slot'[t].attempt = rows[slot'[t].job].attempts
    BY DEF FenceIsExact
  <2>1. /\ slot[t].pc \in Holding
        /\ slot'[t].job = slot[t].job
        /\ slot'[t].attempt = slot[t].attempt
    BY <1>2
  <2> QED BY <2>1 DEF FenceIsExact, Owns
<1> QED BY <1>1, <1>3, <1>4, <1>5, <1>6, <1>7, <1>8 DEF LocksProtect

LEMMA SweepStep ==
  ASSUME IInv, NEW s \in Slots, Sweep(s)
  PROVE  IInv'
<1> DEFINE new == [slot[s] EXCEPT !.pc = "swept", !.sweep = Sweepable(s)]
<1>1. slot[s] \in Slot /\ slot[s].pc = "begin" /\ slot[s].job = None
  BY DEF IInv, TypeOK, NothingPicked, Sweep
<1>2. new \in Slot
  BY <1>1 DEF Slot, PC, Claiming, Sweepable
<1>3. slot' = [slot EXCEPT ![s] = new]
  BY DEF Sweep, IInv, TypeOK
<1>4. /\ new.pc = "swept" /\ new.job = None /\ new.sweep = Sweepable(s)
      /\ new.since = slot[s].since
      /\ slot'[s] = new
  BY <1>1, <1>3 DEF Slot, IInv, TypeOK
<1>5. Sweepable(s)' = Sweepable(s)
  BY <1>4 DEF Sweepable, Now, Sweep
<1>6. Grip(s)'
  BY <1>4, <1>5 DEF Grip
<1>7. \A j \in Jobs : Locks(s, j)' => ~Locked(s, j)
  BY <1>4, NoneAssumption DEF Locks, Sweep
<1> HIDE DEF new
<1> QED BY <1>2, <1>3, <1>4, <1>6, <1>7, SlotOnly DEF Sweep, Holding

LEMMA SelectStep ==
  ASSUME IInv, NEW s \in Slots, SelectJob(s) \/ SelectNone(s)
  PROVE  IInv'
<1>1. slot[s] \in Slot /\ slot[s].pc = "swept" /\ slot[s].job = None /\ Grip(s)
  BY DEF IInv, TypeOK, NothingPicked, SelectJob, SelectNone, LocksProtect, LocksHold
<1>2. PICK j \in Jobs \cup {None} :
        /\ j # None => j \in Free(s)
        /\ slot' = [slot EXCEPT ![s] = [slot[s] EXCEPT !.pc = "selected", !.job = j]]
        /\ UNCHANGED <<clock, rows, faults>>
  <2>1. CASE SelectJob(s)
    BY <2>1, NoneAssumption DEF SelectJob, Free, IInv, TypeOK
  <2>2. CASE SelectNone(s)
    <3>1. [slot[s] EXCEPT !.pc = "selected", !.job = None] =
            [slot[s] EXCEPT !.pc = "selected"]
      BY <1>1 DEF Slot
    <3> QED BY <2>2, <3>1 DEF SelectNone, IInv, TypeOK
  <2> QED BY <2>1, <2>2
<1> DEFINE new == [slot[s] EXCEPT !.pc = "selected", !.job = j]
<1>3. new \in Slot
  BY <1>1 DEF Slot, PC, Claiming
<1>4. /\ new.pc = "selected" /\ new.job = j /\ new.sweep = slot[s].sweep
      /\ new.since = slot[s].since
      /\ slot'[s] = new
  BY <1>1, <1>2 DEF Slot, IInv, TypeOK
<1>5. Sweepable(s)' = Sweepable(s) /\ (j # None => Eligible(s, j)')
  BY <1>2, <1>4 DEF Sweepable, Eligible, Free, Now
<1>6. Grip(s)'
  BY <1>1, <1>4, <1>5 DEF Grip
<1>7. \A k \in Jobs : Locks(s, k)' => Locks(s, k) \/ ~Locked(s, k)
  BY <1>1, <1>2, <1>4, NoneAssumption DEF Locks, Free
<1> HIDE DEF new
<1> QED BY <1>2, <1>3, <1>4, <1>6, <1>7, SlotOnly DEF Holding, new

LEMMA CallStep ==
  ASSUME IInv, NEW s \in Slots, CallReturns(s) \/ CallFails(s)
  PROVE  IInv'
<1>1. slot[s] \in Slot /\ slot[s].pc = "calling" /\ clock \in Nat
  <2>1. slot[s].pc = "calling"
    BY DEF CallReturns, CallFails
  <2> QED BY <2>1, TimeAssumption DEF IInv, TypeOK
<1>2. PICK pc \in {"complete", "fail"}, retriable \in BOOLEAN, metered \in BOOLEAN :
        /\ slot' = [slot EXCEPT ![s] =
             [slot[s] EXCEPT !.pc = pc, !.since = clock,
                             !.retriable = retriable, !.metered = metered]]
        /\ UNCHANGED <<clock, rows, faults>>
  <2>1. CASE CallReturns(s)
    <3>1. [slot[s] EXCEPT !.pc = "complete", !.since = clock,
             !.retriable = slot[s].retriable, !.metered = slot[s].metered] =
          [slot[s] EXCEPT !.pc = "complete", !.since = clock]
      BY <1>1 DEF Slot
    <3>2. slot[s].retriable \in BOOLEAN /\ slot[s].metered \in BOOLEAN
      BY <1>1 DEF Slot
    <3>3. slot' = [slot EXCEPT ![s] = [slot[s] EXCEPT !.pc = "complete", !.since = clock]]
      BY <2>1 DEF CallReturns, IInv, TypeOK
    <3> QED BY <2>1, <3>1, <3>2, <3>3 DEF CallReturns
  <2>2. CASE CallFails(s)
    <3>1. PICK retriable \in BOOLEAN, metered \in BOOLEAN :
            slot' = [slot EXCEPT ![s].pc = "fail", ![s].since = clock,
                                 ![s].retriable = retriable,
                                 ![s].metered = metered]
      BY <2>2 DEF CallFails
    <3>2. slot' = [slot EXCEPT ![s] =
             [slot[s] EXCEPT !.pc = "fail", !.since = clock,
                             !.retriable = retriable, !.metered = metered]]
      BY <3>1 DEF IInv, TypeOK
    <3> QED BY <2>2, <3>2 DEF CallFails
  <2> QED BY <2>1, <2>2
<1> DEFINE new == [slot[s] EXCEPT !.pc = pc, !.since = clock,
                                  !.retriable = retriable, !.metered = metered]
<1>3. new \in Slot
  BY <1>1 DEF Slot, PC, Holding
<1>4. /\ new.pc = pc /\ new.job = slot[s].job /\ new.attempt = slot[s].attempt
      /\ slot'[s] = new
  BY <1>1, <1>2 DEF Slot, IInv, TypeOK
<1>5. Grip(s)' /\ (\A j \in Jobs : ~Locks(s, j)')
  BY <1>4 DEF Grip, Locks
<1> HIDE DEF new
<1> QED BY <1>1, <1>2, <1>3, <1>4, <1>5, SlotOnly DEF Holding, new

\* A row as its own columns must agree: the part of the invariant that is
\* about one row at a time.
RowOK(j, r) ==
  /\ r \in Row
  /\ r.status = "absent" => r = Absent
  /\ (r.worker # None) <=> (r.status = "running")
  /\ (r.lease # 0) <=> (r.status = "running")
  /\ (r.finished # 0) <=> (r.status \in Terminal)
  /\ (r.output # 0) <=> (r.status = "completed")
  /\ r.status \in {"running", "completed"} => r.error = "none"
  /\ r.status = "failed" => r.error # "none"
  /\ r.attempts <= MaxAttempts[j]
  /\ r.status = "queued" => r.attempts < MaxAttempts[j]
  /\ r.status = "completed" => r.output = r.attempts /\ r.usage = r.attempts
  /\ r.status = "running" \/ r.error = "lease" => r.usage < r.attempts
  /\ r.error = "call" => r.usage \in {0, r.attempts}
  /\ r.usage <= r.attempts

LEMMA RowsAreOK ==
  ASSUME IInv, NEW j \in Jobs
  PROVE  RowOK(j, rows[j])
BY DEF IInv, RowOK, TypeOK, BlankBefore, ColumnsAgree, NoneStranded,
       ResultIsOfLastAttempt

\* A step of one slot that ends a transaction with writes to rows that no
\* other slot has locked.
LEMMA RowWrite ==
  ASSUME IInv, NEW s \in Slots, UNCHANGED clock, faults' \in 0..MaxFaults,
         NEW new \in Slot, slot' = [slot EXCEPT ![s] = new],
         new.pc \in {"ready", "sleep", "calling"},
         rows' \in [Jobs -> Row],
         \A j \in Jobs : RowOK(j, rows'[j]),
         \A t \in Slots \ {s} : \A j \in Jobs : Locks(t, j) => rows'[j] = rows[j],
         \A j \in Jobs : rows'[j].attempts >= rows[j].attempts,
         \A j \in Jobs : \A t \in Slots \ {s} :
           rows'[j].status = "running" /\ rows'[j].worker = t => rows'[j] = rows[j],
         new.pc = "calling" => /\ new.job \in Jobs
                               /\ new.attempt = rows'[new.job].attempts
                               /\ new.attempt = rows[new.job].attempts + 1
  PROVE  IInv'
<1> USE DEF IInv
<1>1. TypeOK'
  BY DEF TypeOK, RowOK
<1>2. /\ slot'[s] = new
      /\ \A t \in Slots \ {s} : slot'[t] = slot[t]
  BY DEF TypeOK
<1>3. NothingPicked'
  BY <1>2 DEF NothingPicked
<1>4. BlankBefore' /\ ColumnsAgree' /\ NoneStranded' /\ ResultIsOfLastAttempt'
  <2>2. BlankBefore' /\ NoneStranded' /\ ResultIsOfLastAttempt'
    BY DEF RowOK, BlankBefore, NoneStranded, ResultIsOfLastAttempt
  <2>3. ColumnsAgree'
    BY DEF RowOK, ColumnsAgree
  <2> QED BY <2>2, <2>3
<1>5. LocksExclude'
  <2>1. \A t \in Slots : \A j \in Jobs : Locks(t, j)' => t # s /\ Locks(t, j)
    BY <1>2 DEF Locks
  <2> QED BY <2>1 DEF LocksProtect, LocksExclude
<1>6. LocksHold'
  <2> SUFFICES ASSUME NEW t \in Slots PROVE Grip(t)'
    BY DEF LocksHold
  <2>1. CASE t = s
    BY <1>2, <2>1 DEF Grip
  <2>2. CASE t # s
    BY <1>2, <2>2, LocksStay DEF LocksProtect
  <2> QED BY <2>1, <2>2
<1>7. AttemptHasOneOwner'
  <2>1. \A t \in Slots \ {s} : slot[t].pc \in Holding =>
          /\ slot[t].job \in Jobs
          /\ slot[t].attempt \in 1..rows[slot[t].job].attempts
    BY DEF AttemptHasOneOwner
  <2>2. \A j \in Jobs : rows[j].attempts \in Nat /\ rows'[j].attempts \in Nat
    BY DEF TypeOK, Row, RowOK
  <2>3. \A t \in Slots \ {s} : slot[t].pc \in Holding =>
          slot[t].attempt \in 1..rows'[slot[t].job].attempts
    BY <2>1, <2>2
  <2>4. new.pc \in Holding =>
          /\ new.job \in Jobs
          /\ new.attempt \in 1..rows'[new.job].attempts
          /\ \A t \in Slots \ {s} :
               slot[t].pc \in Holding /\ slot[t].job = new.job
                 => slot[t].attempt # new.attempt
    BY <2>1, <2>2 DEF Holding
  <2> SUFFICES ASSUME NEW t \in Slots, slot'[t].pc \in Holding
               PROVE  /\ slot'[t].job \in Jobs
                      /\ slot'[t].attempt \in 1..rows'[slot'[t].job].attempts
                      /\ \A u \in Slots \ {t} :
                           slot'[u].pc \in Holding /\ slot'[u].job = slot'[t].job
                             => slot'[u].attempt # slot'[t].attempt
    BY <1>2 DEF AttemptHasOneOwner
  <2>5. CASE t = s
    BY <1>2, <2>4, <2>5
  <2>6. CASE t # s
    <3>1. \A u \in Slots \ {t} :
            slot'[u].pc \in Holding /\ slot'[u].job = slot'[t].job
              => slot'[u].attempt # slot'[t].attempt
      BY <1>2, <2>4, <2>6 DEF AttemptHasOneOwner
    <3> QED BY <1>2, <2>1, <2>3, <2>6, <3>1
  <2> QED BY <2>5, <2>6
<1>8. FenceIsExact'
  <2> SUFFICES ASSUME NEW t \in Slots, slot'[t].pc \in Holding, Owns(t)'
               PROVE  slot'[t].attempt = rows'[slot'[t].job].attempts
    BY DEF FenceIsExact
  <2>1. CASE t = s
    BY <1>2, <2>1 DEF Holding
  <2>2. CASE t # s
    <3>1. slot'[t] = slot[t] /\ slot[t].job \in Jobs
      BY <1>2, <2>2 DEF AttemptHasOneOwner
    <3>2. rows'[slot[t].job] = rows[slot[t].job]
      BY <1>2, <2>2, <3>1 DEF Owns
    <3> QED BY <3>1, <3>2 DEF FenceIsExact, Owns
  <2> QED BY <2>1, <2>2
<1> QED BY <1>1, <1>3, <1>4, <1>5, <1>6, <1>7, <1>8 DEF LocksProtect

\* The rows as a claim of slot s leaves them.
LEMMA ClaimEffectOK ==
  ASSUME IInv, NEW s \in Slots, slot[s].pc = "selected", NEW j \in Jobs
  PROVE  LET r == ClaimEffect(s)[j] IN
           /\ RowOK(j, r)
           /\ \A t \in Slots \ {s} : Locks(t, j) => r = rows[j]
           /\ r.attempts >= rows[j].attempts
           /\ \A t \in Slots \ {s} : r.status = "running" /\ r.worker = t => r = rows[j]
           /\ j = slot[s].job => r.attempts = rows[j].attempts + 1
<1> DEFINE r == ClaimEffect(s)[j]
<1>1. /\ slot[s] \in Slot /\ Grip(s) /\ rows[j] \in Row /\ RowOK(j, rows[j])
      /\ MaxAttempts[j] \in 1..10 /\ Now(s) \in Nat
  BY RowsAreOK, NowType, MaxAttemptsAssumption
     DEF IInv, TypeOK, LocksProtect, LocksHold
<1>2. CASE j \in slot[s].sweep
  <2>1. r = Exhausted(rows[j]) /\ Locks(s, j)
    BY <1>2 DEF ClaimEffect, Locks
  <2>2. rows[j].status = "running" /\ j # slot[s].job
    BY <1>1, <1>2, NoneAssumption DEF Grip, Sweepable, Eligible, Row
  <2>3. r \in Row
    BY <1>1, <2>1, ExhaustedType
  <2>4. /\ r.status = "failed" /\ r.error = "lease" /\ r.worker = None
        /\ r.lease = 0 /\ r.finished = 1
        /\ r.attempts = rows[j].attempts /\ r.output = rows[j].output
        /\ r.usage = rows[j].usage
    BY <1>1, <2>1 DEF Exhausted, Row
  <2>5. RowOK(j, r)
    BY <1>1, <2>2, <2>3, <2>4 DEF RowOK, Terminal
  <2>6. \A t \in Slots \ {s} : ~Locks(t, j)
    BY <2>1 DEF IInv, LocksProtect, LocksExclude
  <2>7. r.attempts >= rows[j].attempts
    BY <1>1, <2>4 DEF Row
  <2> QED BY <2>2, <2>4, <2>5, <2>6, <2>7
<1>3. CASE j \notin slot[s].sweep /\ j = slot[s].job
  <2>1. r = Claimed(rows[j], s, Now(s)) /\ Locks(s, j)
    BY <1>3 DEF ClaimEffect, Locks
  <2>2. /\ rows[j].status \in {"queued", "running"}
        /\ rows[j].attempts < MaxAttempts[j]
    BY <1>1, <1>3, NoneAssumption DEF Grip, Eligible
  <2>3. rows[j].attempts < 10
    BY <1>1, <2>2 DEF Row
  <2>4. r \in Row
    BY <1>1, <2>1, <2>3, ClaimedType
  <2>5. /\ r.status = "running" /\ r.error = "none" /\ r.worker = s
        /\ r.lease = Now(s) + LeaseSeconds /\ r.finished = rows[j].finished
        /\ r.attempts = rows[j].attempts + 1 /\ r.output = rows[j].output
        /\ r.usage = rows[j].usage
    BY <1>1, <2>1 DEF Claimed, Row
  <2>6. r.lease # 0 /\ r.worker # None
    BY <1>1, <2>5, TimeAssumption, NoneAssumption
  <2>7. r.attempts <= MaxAttempts[j] /\ r.attempts >= rows[j].attempts
    BY <1>1, <2>2, <2>5 DEF Row
  <2>8. r.usage < r.attempts /\ r.usage <= r.attempts
    BY <1>1, <2>5 DEF RowOK, Row
  <2> HIDE DEF r
  <2>9. RowOK(j, r)
    BY <1>1, <2>2, <2>4, <2>5, <2>6, <2>7, <2>8 DEF RowOK, Terminal
  <2>10. \A t \in Slots \ {s} : ~Locks(t, j)
    BY <2>1 DEF IInv, LocksProtect, LocksExclude
  <2> QED BY <2>5, <2>7, <2>9, <2>10 DEF r
<1>4. CASE j \notin slot[s].sweep /\ j # slot[s].job
  <2>1. r = rows[j]
    BY <1>4 DEF ClaimEffect
  <2>2. r.attempts >= rows[j].attempts
    BY <1>1, <2>1 DEF Row
  <2> HIDE DEF r
  <2> QED BY <1>1, <1>4, <2>1, <2>2 DEF r
<1> QED BY <1>2, <1>3, <1>4

LEMMA ClaimStep ==
  ASSUME IInv, NEW s \in Slots, CommitClaim(s) \/ LoseClaimReply(s)
  PROVE  IInv'
<1>1. /\ slot[s].pc = "selected" /\ slot[s] \in Slot /\ Grip(s)
      /\ rows' = ClaimEffect(s) /\ UNCHANGED clock /\ faults' \in 0..MaxFaults
      /\ clock \in Nat
  BY TimeAssumption DEF CommitClaim, LoseClaimReply, IInv, TypeOK, LocksProtect, LocksHold
<1>4. /\ rows' \in [Jobs -> Row]
      /\ \A j \in Jobs : RowOK(j, rows'[j])
      /\ \A t \in Slots \ {s} : \A j \in Jobs : Locks(t, j) => rows'[j] = rows[j]
      /\ \A j \in Jobs : rows'[j].attempts >= rows[j].attempts
      /\ \A j \in Jobs : \A t \in Slots \ {s} :
           rows'[j].status = "running" /\ rows'[j].worker = t => rows'[j] = rows[j]
      /\ \A j \in Jobs : j = slot[s].job => rows'[j].attempts = rows[j].attempts + 1
  <2>1. rows' = [j \in Jobs |-> ClaimEffect(s)[j]]
    BY <1>1 DEF ClaimEffect
  <2>2. \A j \in Jobs : rows'[j] = ClaimEffect(s)[j]
    BY <2>1
  <2>3. \A j \in Jobs : RowOK(j, rows'[j])
    BY <1>1, <2>2, ClaimEffectOK
  <2>4. rows' \in [Jobs -> Row]
    BY <2>1, <2>2, <2>3 DEF RowOK
  <2> QED BY <1>1, <2>2, <2>3, <2>4, ClaimEffectOK
<1>2. CASE CommitClaim(s) /\ slot[s].job # None
  <2> DEFINE j == slot[s].job
             new == [Idle("calling", clock) EXCEPT
                       !.job = j, !.attempt = rows[j].attempts + 1]
  <2>1. j \in Jobs /\ rows[j].attempts < MaxAttempts[j] /\ rows[j] \in Row
    BY <1>1, <1>2 DEF Slot, Grip, Eligible, IInv, TypeOK
  <2>2. rows[j].attempts + 1 \in 0..10
    BY <2>1, MaxAttemptsAssumption DEF Row
  <2>3. new \in Slot
    BY <1>1, <2>1, <2>2 DEF Idle, Slot, PC, Holding
  <2>4. new.pc = "calling" /\ new.job = j /\ new.attempt = rows[j].attempts + 1
    BY DEF Idle
  <2>5. slot' = [slot EXCEPT ![s] = new]
    BY <1>2 DEF CommitClaim
  <2> HIDE DEF new
  <2> QED BY <1>1, <1>4, <2>1, <2>3, <2>4, <2>5, RowWrite
<1>3. CASE LoseClaimReply(s) \/ slot[s].job = None
  <2>1. slot' = [slot EXCEPT ![s] = Idle("sleep", clock)]
    BY <1>3 DEF CommitClaim, LoseClaimReply
  <2>2. Idle("sleep", clock) \in Slot /\ Idle("sleep", clock).pc = "sleep"
    BY <1>1, IdleType DEF PC, Idle
  <2> QED BY <1>1, <1>4, <2>1, <2>2, RowWrite
<1> QED BY <1>2, <1>3

\* The row that an outcome replaces is the running row of the slot's attempt,
\* which is what makes the write of the outcome preserve the invariant.
LEMMA OwnedRow ==
  ASSUME IInv, NEW s \in Slots, slot[s].pc \in Holding
  PROVE  LET j == slot[s].job IN
           /\ j \in Jobs
           /\ slot[s].attempt \in 1..10
           /\ rows[j] \in Row
           /\ MaxAttempts[j] \in 1..10
           /\ Owns(s) => /\ rows[j].status = "running"
                         /\ rows[j].worker = s
                         /\ rows[j].attempts = slot[s].attempt
                         /\ rows[j].output = 0
                         /\ rows[j].attempts <= MaxAttempts[j]
<1> DEFINE j == slot[s].job
<1>1. j \in Jobs /\ slot[s].attempt \in 1..rows[j].attempts
  BY DEF IInv, AttemptHasOneOwner
<1>2. rows[j] \in Row /\ MaxAttempts[j] \in 1..10
  BY <1>1, MaxAttemptsAssumption DEF IInv, TypeOK
<1>3. slot[s].attempt \in 1..10
  BY <1>1, <1>2 DEF Row
<1>4. ASSUME Owns(s)
      PROVE  /\ rows[j].status = "running" /\ rows[j].worker = s
             /\ rows[j].attempts = slot[s].attempt /\ rows[j].output = 0
             /\ rows[j].attempts <= MaxAttempts[j]
  BY <1>1, <1>4 DEF Owns, IInv, FenceIsExact, ColumnsAgree, NoneStranded
<1> QED BY <1>1, <1>2, <1>3, <1>4

LEMMA OutcomeStep ==
  ASSUME IInv, NEW s \in Slots, slot[s].pc \in Holding,
         ~Locked(s, slot[s].job),
         NEW r, Owns(s) => RowOK(slot[s].job, r) /\ r.worker = None
                           /\ r.attempts = rows[slot[s].job].attempts,
         rows' = IF Owns(s) THEN [rows EXCEPT ![slot[s].job] = r] ELSE rows,
         slot' = [slot EXCEPT ![s] = Idle("ready", clock)],
         UNCHANGED <<clock, faults>>
  PROVE  IInv'
<1> DEFINE j == slot[s].job
           new == Idle("ready", clock)
<1>1. j \in Jobs /\ rows \in [Jobs -> Row] /\ clock \in Nat /\ faults' \in 0..MaxFaults
  BY OwnedRow, TimeAssumption DEF IInv, TypeOK
<1>2. new \in Slot /\ new.pc = "ready"
  BY <1>1, IdleType DEF PC, Idle
<1>3. \A k \in Jobs : \/ rows'[k] = rows[k]
                      \/ Owns(s) /\ k = j /\ rows'[k] = r
  BY <1>1
<1>4. \A k \in Jobs : RowOK(k, rows'[k])
  BY <1>3, RowsAreOK
<1>5. rows' \in [Jobs -> Row]
  BY <1>1, <1>4 DEF RowOK
<1>6. \A t \in Slots \ {s} : \A k \in Jobs : Locks(t, k) => rows'[k] = rows[k]
  BY <1>3 DEF Locked
<1>7. \A k \in Jobs : rows'[k].attempts = rows[k].attempts
  BY <1>3
<1>8. \A k \in Jobs : rows'[k].attempts >= rows[k].attempts
  BY <1>1, <1>7 DEF Row
<1>9. \A k \in Jobs : \A t \in Slots \ {s} :
        rows'[k].status = "running" /\ rows'[k].worker = t => rows'[k] = rows[k]
  BY <1>3, NoneAssumption
<1> HIDE DEF new
<1> QED BY <1>1, <1>2, <1>4, <1>5, <1>6, <1>8, <1>9, RowWrite DEF new

LEMMA CompleteStep ==
  ASSUME IInv, NEW s \in Slots, Complete(s)
  PROVE  IInv'
<1> DEFINE j == slot[s].job
           r == Completed(rows[j], slot[s].attempt)
<1>1. slot[s].pc \in Holding
  BY DEF Complete, Holding
<1>2. ASSUME Owns(s)
      PROVE  RowOK(j, r) /\ r.worker = None /\ r.attempts = rows[j].attempts
  <2>1. /\ rows[j] \in Row /\ j \in Jobs /\ slot[s].attempt \in 1..10
        /\ rows[j].attempts = slot[s].attempt
        /\ rows[j].attempts <= MaxAttempts[j]
    BY <1>1, <1>2, OwnedRow
  <2>2. r \in Row
    BY <2>1, CompletedType
  <2>3. /\ r.status = "completed" /\ r.error = "none" /\ r.worker = None
        /\ r.lease = 0 /\ r.finished = 1 /\ r.attempts = rows[j].attempts
        /\ r.output = slot[s].attempt /\ r.usage = slot[s].attempt
    BY <2>1 DEF Completed, Row
  <2> HIDE DEF r
  <2> QED BY <2>1, <2>2, <2>3 DEF RowOK, Terminal
<1>3. rows' = IF Owns(s) THEN [rows EXCEPT ![j] = r] ELSE rows
  BY DEF Complete
<1> HIDE DEF r
<1> QED BY <1>1, <1>2, <1>3, OutcomeStep DEF Complete

LEMMA FailStep ==
  ASSUME IInv, NEW s \in Slots, Fail(s)
  PROVE  IInv'
<1> DEFINE j == slot[s].job
           r == Failed(rows[j], slot[s].attempt, ShouldRetry(s),
                       slot[s].metered, Now(s))
<1>1. slot[s].pc \in Holding
  BY DEF Fail, Holding
<1>2. ASSUME Owns(s)
      PROVE  RowOK(j, r) /\ r.worker = None /\ r.attempts = rows[j].attempts
  <2>1. /\ rows[j] \in Row /\ j \in Jobs /\ slot[s].attempt \in 1..10
        /\ rows[j].attempts = slot[s].attempt /\ rows[j].output = 0
        /\ rows[j].attempts <= MaxAttempts[j] /\ MaxAttempts[j] \in 1..10
    BY <1>1, <1>2, OwnedRow
  <2>2. ShouldRetry(s) \in BOOLEAN
    BY DEF ShouldRetry
  <2>3. slot[s].metered \in BOOLEAN /\ Now(s) \in Nat
    BY NowType DEF IInv, TypeOK, Slot
  <2>4. r \in Row
    BY <2>1, <2>2, <2>3, FailedType
  <2>5. /\ r.status = IF ShouldRetry(s) THEN "queued" ELSE "failed"
        /\ r.finished = IF ShouldRetry(s) THEN 0 ELSE 1
        /\ r.error = "call" /\ r.worker = None /\ r.lease = 0
        /\ r.attempts = rows[j].attempts /\ r.output = rows[j].output
        /\ r.usage = IF slot[s].metered THEN slot[s].attempt ELSE 0
    BY <2>1 DEF Failed, Row
  <2>6. ShouldRetry(s) => rows[j].attempts < MaxAttempts[j]
    BY <2>1 DEF ShouldRetry
  <2> HIDE DEF r
  <2>7. r.usage \in {0, r.attempts} /\ r.usage <= r.attempts
    BY <2>1, <2>5 DEF Row
  <2>8. CASE ShouldRetry(s)
    BY <2>1, <2>4, <2>5, <2>6, <2>7, <2>8 DEF RowOK, Terminal
  <2>9. CASE ~ShouldRetry(s)
    BY <2>1, <2>4, <2>5, <2>7, <2>9 DEF RowOK, Terminal
  <2> QED BY <2>8, <2>9
<1>3. rows' = IF Owns(s) THEN [rows EXCEPT ![j] = r] ELSE rows
  BY DEF Fail
<1> HIDE DEF r
<1> QED BY <1>1, <1>2, <1>3, OutcomeStep DEF Fail

LEMMA NextInvariant == IInv /\ [Next]_vars => IInv'
<1> SUFFICES ASSUME IInv, [Next]_vars PROVE IInv'
  OBVIOUS
<1>1. ASSUME NEW j \in Jobs, Submit(j) PROVE IInv'
  BY <1>1, SubmitStep
<1>2. ASSUME NEW s \in Slots, BeginClaim(s) PROVE IInv'
  <2>1. slot' = [t \in Slots |-> IF t \in {s} THEN Idle("begin", clock) ELSE slot[t]]
    BY <1>2 DEF BeginClaim, IInv, TypeOK
  <2>2. faults' \in 0..MaxFaults
    BY <1>2 DEF BeginClaim, IInv, TypeOK
  <2> QED BY <1>2, <2>1, <2>2, LettingGo DEF BeginClaim
<1>3. ASSUME NEW s \in Slots, SlotStep(s) PROVE IInv'
  BY <1>2, <1>3, SweepStep, SelectStep, ClaimStep, CallStep, CompleteStep,
     FailStep DEF SlotStep
<1>4. ASSUME NEW s \in Slots, DatabaseError(s) PROVE IInv'
  <2>1. slot' = [t \in Slots |-> IF t \in {s} THEN Idle("sleep", clock) ELSE slot[t]]
    BY <1>4 DEF DatabaseError, IInv, TypeOK
  <2>2. faults' \in 0..MaxFaults
    BY <1>4, TimeAssumption DEF DatabaseError, IInv, TypeOK
  <2> QED BY <1>4, <2>1, <2>2, LettingGo DEF DatabaseError
<1>5. ASSUME NEW s \in Slots, LoseClaimReply(s) PROVE IInv'
  BY <1>5, ClaimStep
<1>6. ASSUME NEW p \in Processes, Crash(p) PROVE IInv'
  <2>1. faults' \in 0..MaxFaults
    BY <1>6, TimeAssumption DEF Crash, IInv, TypeOK
  <2> QED BY <1>6, <2>1, LettingGo, ProcessesAssumption DEF Crash
<1>7. ASSUME NEW p \in Processes, Restart(p) PROVE IInv'
  <2>1. faults' \in 0..MaxFaults
    BY <1>7 DEF Restart, IInv, TypeOK
  <2> QED BY <1>7, <2>1, LettingGo, ProcessesAssumption DEF Restart
<1>8. CASE Tick
  BY <1>8, TickStep
<1>9. CASE UNCHANGED vars
  <2> USE <1>9 DEF vars, IInv
  <2>1. TypeOK' /\ NothingPicked' /\ BlankBefore' /\ NoneStranded'
    BY DEF TypeOK, NothingPicked, BlankBefore, NoneStranded
  <2>2. ColumnsAgree' /\ ResultIsOfLastAttempt'
    BY DEF ColumnsAgree, ResultIsOfLastAttempt
  <2>3. AttemptHasOneOwner' /\ FenceIsExact'
    BY DEF AttemptHasOneOwner, FenceIsExact, Owns
  <2>4. LocksProtect'
    BY LocksStay DEF LocksProtect, LocksExclude, LocksHold, Locks
  <2> QED BY <2>1, <2>2, <2>3, <2>4
<1> QED BY <1>1, <1>3, <1>4, <1>5, <1>6, <1>7, <1>8, <1>9 DEF Next

-----------------------------------------------------------------------------
(* What the invariant establishes.                                         *)

\* The inductive invariant holds of every reachable state: whatever the
\* interleaving of claims, calls, outcomes, faults and restarts.
THEOREM Invariant == Spec => []IInv
<1>1. Init => IInv
  BY InitInvariant
<1>2. IInv /\ [Next]_vars => IInv'
  BY NextInvariant
<1> QED BY <1>1, <1>2, PTL DEF Spec

\* The variables keep their types; in particular no attempt number leaves
\* the range of the attempts column.
THEOREM TypeCorrect == Spec => []TypeOK
<1>1. IInv => TypeOK
  BY DEF IInv
<1> QED BY <1>1, Invariant, PTL

\* The worker-id fence of _complete and _fail is exact: it never lets the
\* outcome of a superseded attempt through, even when ids are reused.
THEOREM Fence == Spec => []FenceIsExact
<1>1. IInv => FenceIsExact
  BY DEF IInv
<1> QED BY <1>1, Invariant, PTL

\* A completed job shows the output and usage of its last attempt, and a job
\* that runs or that the sweep gave up, the usage of an earlier one or none.
THEOREM LastResult == Spec => []ResultIsOfLastAttempt
<1>1. IInv => ResultIsOfLastAttempt
  BY DEF IInv
<1> QED BY <1>1, Invariant, PTL

\* No job is left queued without an attempt, where no query would find it.
THEOREM NoStrandedJob == Spec => []NoneStranded
<1>1. IInv => NoneStranded
  BY DEF IInv
<1> QED BY <1>1, Invariant, PTL

\* Claim transactions never hold the same row, and what they locked stays
\* as their WHERE clauses found it.
THEOREM Locking == Spec => []LocksProtect
<1>1. IInv => LocksProtect
  BY DEF IInv
<1> QED BY <1>1, Invariant, PTL

\* The columns of a row always agree with its status.
THEOREM Columns == Spec => []ColumnsAgree
<1>1. IInv => ColumnsAgree
  BY DEF IInv
<1> QED BY <1>1, Invariant, PTL

\* No two slots ever work on the same attempt of a job.
THEOREM OneOwner == Spec => []AttemptHasOneOwner
<1>1. IInv => AttemptHasOneOwner
  BY DEF IInv
<1> QED BY <1>1, Invariant, PTL

-----------------------------------------------------------------------------
(* What a step may do to a row.                                            *)

ClaimedBy(j, s) ==
  /\ Eligible(s, j)
  /\ slot[s].since <= clock
  /\ rows'[j] = Claimed(rows[j], s, Now(s))

CompletedBy(j, s) ==
  /\ slot[s].attempt \in 1..10
  /\ rows[j].status = "running"
  /\ rows'[j] = Completed(rows[j], slot[s].attempt)

FailedBy(j, s) ==
  /\ rows[j].status = "running"
  /\ \E retry, metered \in BOOLEAN :
       /\ rows'[j] = Failed(rows[j], slot[s].attempt, retry, metered, Now(s))
       /\ retry => rows[j].attempts < MaxAttempts[j]

RowStep(j) ==
  \/ rows'[j] = rows[j]
  \/ rows[j].status = "absent" /\ rows'[j] = Queued(clock)
  \/ /\ rows[j].status = "running" /\ rows[j].attempts = MaxAttempts[j]
     /\ rows'[j] = Exhausted(rows[j])
  \/ \E s \in Slots : ClaimedBy(j, s) \/ CompletedBy(j, s) \/ FailedBy(j, s)

\* A slot has not read its clock in the future.
PastNow == \A s \in Slots : slot[s].since <= clock

LEMMA PastNowInvariant == Spec => []PastNow
<1>1. Init => PastNow
  BY DEF Init, PastNow, Idle
<1>2. IInv /\ PastNow /\ [Next]_vars => PastNow'
  <2> SUFFICES ASSUME IInv, PastNow, [Next]_vars PROVE PastNow'
    OBVIOUS
  <2> USE DEF PastNow
  <2>1. slot \in [Slots -> Slot] /\ clock \in Nat /\ \A s \in Slots : slot[s].since \in Nat
    BY TimeAssumption DEF IInv, TypeOK, Slot
  <2>2. ASSUME clock' \in Nat, clock' >= clock,
               \A s \in Slots : slot'[s].since \in {slot[s].since, clock}
        PROVE  PastNow'
    BY <2>1, <2>2
  <2>3. ASSUME NEW s \in Slots, SlotStep(s) \/ DatabaseError(s) \/ LoseClaimReply(s)
        PROVE  PastNow'
    <3>1. clock' = clock
      BY <2>3 DEF SlotStep, DatabaseError, LoseClaimReply, BeginClaim, Sweep,
         SelectJob, SelectNone, CommitClaim, CallReturns, CallFails, Complete, Fail
    <3>2. \A t \in Slots \ {s} : slot'[t] = slot[t]
      BY <2>1, <2>3 DEF SlotStep, DatabaseError, LoseClaimReply, BeginClaim, Sweep,
         SelectJob, SelectNone, CommitClaim, CallReturns, CallFails, Complete, Fail
    <3>3. slot'[s].since \in {slot[s].since, clock}
      <4>1. CASE BeginClaim(s) \/ Complete(s) \/ Fail(s)
                 \/ DatabaseError(s) \/ LoseClaimReply(s)
        <5>1. \E pc \in PC : slot'[s] = Idle(pc, clock)
          BY <2>1, <4>1 DEF BeginClaim, Complete, Fail, DatabaseError,
             LoseClaimReply, PC, Claiming
        <5> QED BY <5>1 DEF Idle
      <4>5. CASE CommitClaim(s)
        <5>1. slot'[s] = IF slot[s].job = None
                THEN Idle("sleep", clock)
                ELSE [Idle("calling", clock) EXCEPT
                        !.job = slot[s].job,
                        !.attempt = rows[slot[s].job].attempts + 1]
          BY <2>1, <4>5 DEF CommitClaim
        <5> QED BY <5>1 DEF Idle
      <4>2. CASE Sweep(s) \/ SelectJob(s) \/ SelectNone(s)
        BY <2>1, <4>2 DEF Sweep, SelectJob, SelectNone, Slot
      <4>3. CASE CallReturns(s)
        BY <2>1, <4>3 DEF CallReturns, Slot
      <4>4. CASE CallFails(s)
        <5>1. PICK a \in BOOLEAN, b \in BOOLEAN :
                slot' = [slot EXCEPT ![s].pc = "fail", ![s].since = clock,
                                     ![s].retriable = a, ![s].metered = b]
          BY <4>4 DEF CallFails
        <5> QED BY <2>1, <5>1 DEF Slot
      <4> QED BY <2>3, <4>1, <4>2, <4>3, <4>4, <4>5 DEF SlotStep
    <3> QED BY <2>1, <2>2, <3>1, <3>2, <3>3
  <2>4. ASSUME NEW p \in Processes, Crash(p) \/ Restart(p) PROVE PastNow'
    BY <2>1, <2>2, <2>4 DEF Crash, Restart, Idle
  <2>5. CASE (\E j \in Jobs : Submit(j)) \/ UNCHANGED vars
    BY <2>1, <2>5 DEF Submit, vars
  <2>6. CASE Tick
    BY <2>1, <2>2, <2>6 DEF Tick
  <2> QED BY <2>3, <2>4, <2>5, <2>6 DEF Next
<1> QED BY <1>1, <1>2, Invariant, PTL DEF Spec

LEMMA RowSteps ==
  ASSUME IInv, PastNow, [Next]_vars, NEW j \in Jobs
  PROVE  RowStep(j)
<1>1. rows \in [Jobs -> Row] /\ rows[j] \in Row
  BY DEF IInv, TypeOK
<1>2. ASSUME NEW k \in Jobs, Submit(k) PROVE RowStep(j)
  BY <1>1, <1>2 DEF Submit, RowStep
<1>3. ASSUME NEW s \in Slots, slot[s].pc = "selected", rows' = ClaimEffect(s)
      PROVE  RowStep(j)
  <2>1. Grip(s)
    BY DEF IInv, LocksProtect, LocksHold
  <2>2. CASE j \in slot[s].sweep
    <3>1. j \in Sweepable(s)
      BY <1>3, <2>1, <2>2 DEF Grip
    <3>2. rows[j].attempts <= MaxAttempts[j]
      BY DEF IInv, NoneStranded
    <3>3. rows[j].status = "running" /\ rows[j].attempts = MaxAttempts[j]
      BY <1>1, <3>1, <3>2, MaxAttemptsAssumption DEF Sweepable, Row
    <3>4. rows'[j] = Exhausted(rows[j])
      BY <1>3, <2>2 DEF ClaimEffect
    <3> QED BY <3>3, <3>4 DEF RowStep
  <2>3. CASE j \notin slot[s].sweep /\ j = slot[s].job
    <3>1. Eligible(s, j)
      BY <1>3, <2>1, <2>3, NoneAssumption DEF Grip
    <3>2. rows'[j] = Claimed(rows[j], s, Now(s))
      BY <1>3, <2>3 DEF ClaimEffect
    <3>3. ClaimedBy(j, s)
      BY <3>1, <3>2 DEF ClaimedBy, PastNow
    <3> QED BY <3>3 DEF RowStep
  <2>4. CASE j \notin slot[s].sweep /\ j # slot[s].job
    BY <1>3, <2>4 DEF ClaimEffect, RowStep
  <2> QED BY <2>2, <2>3, <2>4
<1>4. ASSUME NEW s \in Slots, Complete(s) PROVE RowStep(j)
  <2>1. slot[s].pc \in Holding
    BY <1>4 DEF Complete, Holding
  <2>2. CASE Owns(s) /\ j = slot[s].job
    <3>1. CompletedBy(j, s)
      BY <1>1, <1>4, <2>1, <2>2, OwnedRow DEF Complete, CompletedBy
    <3> QED BY <3>1 DEF RowStep
  <2>3. CASE ~(Owns(s) /\ j = slot[s].job)
    BY <1>1, <1>4, <2>3 DEF Complete, RowStep
  <2> QED BY <2>2, <2>3
<1>5. ASSUME NEW s \in Slots, Fail(s) PROVE RowStep(j)
  <2>1. slot[s].pc \in Holding
    BY <1>5 DEF Fail, Holding
  <2>2. CASE Owns(s) /\ j = slot[s].job
    <3>1. slot[s].metered \in BOOLEAN /\ ShouldRetry(s) \in BOOLEAN
      BY DEF IInv, TypeOK, Slot, ShouldRetry
    <3>2. rows[j].status = "running" /\ rows[j].attempts = slot[s].attempt
      BY <2>1, <2>2, OwnedRow
    <3>3. rows'[j] = Failed(rows[j], slot[s].attempt, ShouldRetry(s),
                            slot[s].metered, Now(s))
      BY <1>1, <1>5, <2>2 DEF Fail
    <3>4. ShouldRetry(s) => rows[j].attempts < MaxAttempts[j]
      BY <2>2, <3>2 DEF ShouldRetry
    <3>5. FailedBy(j, s)
      BY <3>1, <3>2, <3>3, <3>4 DEF FailedBy
    <3> QED BY <3>5 DEF RowStep
  <2>3. CASE ~(Owns(s) /\ j = slot[s].job)
    BY <1>1, <1>5, <2>3 DEF Fail, RowStep
  <2> QED BY <2>2, <2>3
<1>6. ASSUME NEW s \in Slots, SlotStep(s) \/ DatabaseError(s) \/ LoseClaimReply(s)
      PROVE  RowStep(j)
  <2>1. CASE CommitClaim(s) \/ LoseClaimReply(s)
    BY <1>3, <2>1 DEF CommitClaim, LoseClaimReply
  <2>2. CASE ~(CommitClaim(s) \/ LoseClaimReply(s) \/ Complete(s) \/ Fail(s))
    BY <1>6, <2>2 DEF SlotStep, DatabaseError, BeginClaim, Sweep, SelectJob,
       SelectNone, CallReturns, CallFails, RowStep
  <2> QED BY <1>4, <1>5, <2>1, <2>2
<1>7. CASE (\E p \in Processes : Crash(p) \/ Restart(p)) \/ Tick \/ UNCHANGED vars
  BY <1>7 DEF Crash, Restart, Tick, vars, RowStep
<1> QED BY <1>2, <1>6, <1>7 DEF Next

\* A completed or failed row is never written again.
THEOREM Finality == Spec => TerminalIsFinal
<1>1. IInv /\ PastNow /\ [Next]_vars
        => [\A j \in Jobs : rows[j].status \in Terminal => rows'[j] = rows[j]]_vars
  <2> SUFFICES ASSUME IInv, PastNow, [Next]_vars, NEW j \in Jobs,
                      rows[j].status \in Terminal
               PROVE  rows'[j] = rows[j]
    OBVIOUS
  <2>1. RowStep(j)
    BY RowSteps
  <2> QED BY <2>1 DEF RowStep, ClaimedBy, CompletedBy, FailedBy, Eligible, Terminal
<1> QED BY <1>1, Invariant, PastNowInvariant, PTL DEF Spec, TerminalIsFinal

\* A claim never takes over a lease that the claimer's clock says is live.
THEOREM NoEarlyTakeover == Spec => LiveLeaseIsKept
<1> DEFINE Kept == \A j \in Jobs : \A s \in Slots :
             ( /\ rows[j].status = "running"
               /\ rows'[j].worker = s
               /\ rows'[j].attempts # rows[j].attempts )
             => rows[j].lease <= clock + Skew[s]
<1>1. IInv /\ PastNow /\ [Next]_vars => [Kept]_vars
  <2> SUFFICES ASSUME IInv, PastNow, [Next]_vars, NEW j \in Jobs, NEW s \in Slots,
                      rows[j].status = "running",
                      rows'[j].worker = s,
                      rows'[j].attempts # rows[j].attempts
               PROVE  rows[j].lease <= clock + Skew[s]
    OBVIOUS
  <2>1. rows[j] \in Row /\ RowStep(j)
    BY RowSteps DEF IInv, TypeOK
  <2>2. rows'[j] # Exhausted(rows[j])
    BY <2>1 DEF Exhausted, Row
  <2>3. ASSUME NEW t \in Slots PROVE ~CompletedBy(j, t)
    BY <2>1 DEF CompletedBy, Completed, Row
  <2>4. ASSUME NEW t \in Slots PROVE ~FailedBy(j, t)
    <3>1. ASSUME NEW retry, NEW metered,
                 rows'[j] = Failed(rows[j], slot[t].attempt, retry, metered, Now(t))
          PROVE  rows'[j].attempts = rows[j].attempts
      BY <2>1, <3>1 DEF Failed, Row
    <3> QED BY <3>1 DEF FailedBy
  <2>5. PICK t \in Slots : ClaimedBy(j, t)
    BY <2>1, <2>2, <2>3, <2>4 DEF RowStep
  <2>6. t = s
    BY <2>1, <2>5 DEF ClaimedBy, Claimed, Row
  <2>7. rows[j].lease <= Now(s)
    BY <2>5, <2>6 DEF ClaimedBy, Eligible, Expired
  <2>8. Skew[s] \in Nat /\ slot[s].since \in Nat /\ clock \in Nat /\ rows[j].lease \in Nat
    BY <2>1, TimeAssumption DEF IInv, TypeOK, Slot, Row
  <2> QED BY <2>5, <2>6, <2>7, <2>8 DEF ClaimedBy, Now
<1> QED BY <1>1, Invariant, PastNowInvariant, PTL DEF Spec, LiveLeaseIsKept

-----------------------------------------------------------------------------
(* The table and its workers implement JobLifecycle.                       *)

LEMMA RowStepMoves ==
  ASSUME NEW j \in Jobs, rows[j] \in Row, rows'[j] # rows[j], RowStep(j)
  PROVE  Lifecycle!Move(Seen(rows[j]), Seen(rows'[j]), MaxAttempts[j])
<1> USE DEF Seen, Lifecycle!Job
<1>1. CASE rows[j].status = "absent" /\ rows'[j] = Queued(clock)
  <2>1. Lifecycle!Accept(Seen(rows[j]), Seen(rows'[j]))
    BY <1>1 DEF Lifecycle!Accept, Queued, Absent
  <2> QED BY <2>1 DEF Lifecycle!Move
<1>2. CASE /\ rows[j].status = "running" /\ rows[j].attempts = MaxAttempts[j]
           /\ rows'[j] = Exhausted(rows[j])
  <2>1. Lifecycle!GiveUp(Seen(rows[j]), Seen(rows'[j]), MaxAttempts[j])
    BY <1>2 DEF Lifecycle!GiveUp, Exhausted, Row
  <2> QED BY <2>1 DEF Lifecycle!Move
<1>3. ASSUME NEW s \in Slots, ClaimedBy(j, s)
      PROVE  Lifecycle!Move(Seen(rows[j]), Seen(rows'[j]), MaxAttempts[j])
  <2>1. Lifecycle!Start(Seen(rows[j]), Seen(rows'[j]), MaxAttempts[j])
    BY <1>3 DEF Lifecycle!Start, ClaimedBy, Claimed, Eligible, Row
  <2> QED BY <2>1 DEF Lifecycle!Move
<1>4. ASSUME NEW s \in Slots, CompletedBy(j, s)
      PROVE  Lifecycle!Move(Seen(rows[j]), Seen(rows'[j]), MaxAttempts[j])
  <2>1. Lifecycle!Succeed(Seen(rows[j]), Seen(rows'[j]))
    BY <1>4 DEF Lifecycle!Succeed, CompletedBy, Completed, Row
  <2> QED BY <2>1 DEF Lifecycle!Move
<1>5. ASSUME NEW s \in Slots, FailedBy(j, s)
      PROVE  Lifecycle!Move(Seen(rows[j]), Seen(rows'[j]), MaxAttempts[j])
  <2>1. PICK retry \in BOOLEAN, metered \in BOOLEAN :
          /\ rows'[j] = Failed(rows[j], slot[s].attempt, retry, metered, Now(s))
          /\ retry => rows[j].attempts < MaxAttempts[j]
    BY <1>5 DEF FailedBy
  <2>2. rows[j].status = "running"
    BY <1>5 DEF FailedBy
  <2>3. /\ rows'[j].attempts = rows[j].attempts /\ rows'[j].error = "call"
        /\ rows'[j].status = IF retry THEN "queued" ELSE "failed"
    BY <2>1 DEF Failed, Row
  <2>4. CASE retry
    <3>1. Lifecycle!Requeue(Seen(rows[j]), Seen(rows'[j]), MaxAttempts[j])
      BY <2>1, <2>2, <2>3, <2>4 DEF Lifecycle!Requeue
    <3> QED BY <3>1 DEF Lifecycle!Move
  <2>5. CASE ~retry
    <3>1. Lifecycle!Reject(Seen(rows[j]), Seen(rows'[j]))
      BY <2>2, <2>3, <2>5 DEF Lifecycle!Reject
    <3> QED BY <3>1 DEF Lifecycle!Move
  <2> QED BY <2>4, <2>5
<1> QED BY <1>1, <1>2, <1>3, <1>4, <1>5 DEF RowStep

\* The workers implement the life cycle that a polling client is promised.
THEOREM Implementation == Spec => ImplementsLifecycle
<1> DEFINE abstract == [j \in Jobs |-> Seen(rows[j])]
<1>1. Init => Lifecycle!Init
  BY DEF Init, Lifecycle!Init, Lifecycle!Unsubmitted, Lifecycle!Job, Absent, Seen
<1>2. IInv /\ PastNow /\ [Next]_vars => [Lifecycle!Next]_abstract
  <2> SUFFICES ASSUME IInv, PastNow, [Next]_vars PROVE Lifecycle!Next
    OBVIOUS
  <2>1. \A j \in Jobs : rows[j] \in Row
    BY DEF IInv, TypeOK
  <2>2. \A j \in Jobs : RowStep(j)
    BY RowSteps
  <2> QED BY <2>1, <2>2, RowStepMoves DEF Lifecycle!Next
<1> QED BY <1>1, <1>2, Invariant, PastNowInvariant, PTL
        DEF Spec, ImplementsLifecycle, Lifecycle!Spec

-----------------------------------------------------------------------------
(* A slot is never stuck: what EveryJobEnds needs of the claims.           *)

\* A set of numbers that is not empty has a least one.
LEMMA LeastNatural ==
  ASSUME NEW S \in SUBSET Nat, S # {}
  PROVE  \E m \in S : \A k \in S : m <= k
<1>1. PICK m \in S : \A k \in S : <<k, m>> \notin OpToRel(<, Nat)
  BY NatLessThanWellFounded, WFMin, Zenon
<1>2. \A k \in S : ~(k < m)
  BY <1>1 DEF OpToRel
<1> QED BY <1>2

\* The guards of the actions that SlotStep(s) consists of.
MayStep(s) ==
  \/ slot[s].pc \in {"ready", "sleep", "selected", "calling"}
  \/ slot[s].pc = "begin" /\ \A j \in Sweepable(s) : ~Locked(s, j)
  \/ slot[s].pc = "swept"
       /\ (Free(s) = {}
             \/ \E j \in Free(s) : \A k \in Free(s) : rows[j].available <= rows[k].available)
  \/ slot[s].pc \in {"complete", "fail"} /\ ~Locked(s, slot[s].job)

\* A slot of a live process can step, or waits for a row lock of one that can.
NeverStuck ==
  \A s \in Slots : slot[s].pc # "down" =>
    \/ MayStep(s)
    \/ \E t \in Slots \ {s} : MayStep(t) /\ \E j \in Jobs : Locks(t, j) /\ ~Locks(s, j)

LEMMA LockersStep ==
  ASSUME IInv, NEW s \in Slots, slot[s].pc \in {"swept", "selected"}
  PROVE  MayStep(s)
<1>1. CASE slot[s].pc = "swept" /\ Free(s) # {}
  <2> DEFINE due == {rows[j].available : j \in Free(s)}
  <2>1. due \in SUBSET Nat /\ due # {}
    BY <1>1 DEF Free, IInv, TypeOK, Row
  <2>2. PICK m \in due : \A k \in due : m <= k
    BY <2>1, LeastNatural
  <2>3. \E j \in Free(s) : \A k \in Free(s) : rows[j].available <= rows[k].available
    BY <2>2
  <2> QED BY <1>1, <2>3 DEF MayStep
<1> QED BY <1>1 DEF MayStep

LEMMA SlotsGoOn ==
  ASSUME IInv
  PROVE  NeverStuck
<1> SUFFICES ASSUME NEW s \in Slots, slot[s].pc # "down", ~MayStep(s)
             PROVE  \E t \in Slots \ {s} :
                      MayStep(t) /\ \E j \in Jobs : Locks(t, j) /\ ~Locks(s, j)
  BY DEF NeverStuck
<1>1. slot[s].pc \in {"begin", "complete", "fail"}
  BY LockersStep DEF IInv, TypeOK, Slot, PC, Claiming, Holding, MayStep
<1>2. PICK j \in Jobs : Locked(s, j)
  <2>1. slot[s].pc # "begin" => slot[s].job \in Jobs
    BY <1>1 DEF IInv, AttemptHasOneOwner, Holding
  <2> QED BY <1>1, <2>1 DEF MayStep, Sweepable
<1>3. PICK t \in Slots \ {s} : Locks(t, j)
  BY <1>2 DEF Locked
<1>4. MayStep(t) /\ ~Locks(s, j)
  BY <1>1, <1>3, LockersStep DEF Locks
<1> QED BY <1>3, <1>4

\* For any number of slots, a slot that waits for a row lock waits for a claim
\* that can be committed and waits for nobody; the SELECT of a claim that finds
\* rows can always pick one.
THEOREM NoDeadlock == Spec => []NeverStuck
BY SlotsGoOn, Invariant, PTL
=============================================================================
