---------------------- MODULE GenerationJobsTimedProofs ----------------------
(***************************************************************************)
(* The proof that the lease covers the work, for any deployment that keeps *)
(* to the budget of GenerationJobsTimed.  A lease ends LeaseSeconds after  *)
(* the utc_now() that the claim read, on the claimer's clock; since then   *)
(* at most a transaction, a provider call and another transaction have     *)
(* passed (Timely), so that no other clock has reached its end (LeaseLive) *)
(* and neither the sweep nor a claim can meet the row (RowKept).           *)
(***************************************************************************)
EXTENDS GenerationJobsTimed, GenerationJobsProofs

\* Every slot is within the limit of what it is doing.
Timely == \A s \in Slots : Elapsed(s) <= Limit(slot[s].pc)

\* How long ago the call began, at most, when a slot entered its phase.
CallTime(pc) == IF pc = "calling" THEN 0 ELSE ProviderTimeout

\* The lease that s holds was given at most DbSeconds before its call began.
Cover(s) ==
  slot[s].pc \in Holding =>
    /\ Owns(s)
    /\ rows[slot[s].job].lease + DbSeconds + CallTime(slot[s].pc)
         >= slot[s].since + Skew[s] + LeaseSeconds

Covered == \A s \in Slots : Cover(s)

TimedInv == IInv /\ PastNow /\ Timely /\ Covered

LEMMA Limits ==
  /\ ProviderTimeout \in Nat /\ LeaseMargin \in Nat /\ DbSeconds \in Nat
  /\ LeaseSeconds \in Nat /\ MaxClock \in Nat
  /\ \A s \in Slots : Skew[s] \in Nat
  /\ \A pc \in PC : Limit(pc) \in Nat
  /\ \A pc \in Claiming \cup {"complete", "fail"} : Limit(pc) = DbSeconds
  /\ Limit("calling") = ProviderTimeout
<1>1. /\ ProviderTimeout \in Nat /\ LeaseMargin \in Nat /\ DbSeconds \in Nat
      /\ PollSeconds \in Nat /\ RestartSeconds \in Nat
  BY LimitsAssumption
<1>2. \A pc \in PC : Limit(pc) \in Nat
  BY <1>1 DEF Limit
<1>3. /\ \A pc \in Claiming \cup {"complete", "fail"} : Limit(pc) = DbSeconds
      /\ Limit("calling") = ProviderTimeout
  BY DEF Limit, Claiming
<1> QED BY <1>1, <1>2, <1>3, TimeAssumption

LEMMA SlotTypes ==
  ASSUME IInv
  PROVE  /\ clock \in Nat
         /\ slot \in [Slots -> Slot] /\ rows \in [Jobs -> Row]
         /\ \A s \in Slots : slot[s].since \in Nat /\ slot[s].pc \in PC
         /\ \A s \in Slots : slot[s].job \in Jobs \cup {None}
         /\ \A j \in Jobs : rows[j].lease \in Nat
BY TimeAssumption DEF IInv, TypeOK, Slot, Row

\* Every step is one of GenerationJobs.
LEMMA TimedIsNext == [TimedNext]_vars => [Next]_vars
BY DEF TimedNext, Next, TimedSubmit, TimedSlotStep, TimedTick

-----------------------------------------------------------------------------
(* Time.                                                                   *)

\* What a step other than Tick does to the time of a slot.
KeepsTime(s) ==
  \/ slot'[s] = slot[s]
  \/ slot'[s].since = clock /\ slot'[s].pc \in PC
  \/ /\ slot'[s].since = slot[s].since
     /\ slot[s].pc \in Claiming /\ slot'[s].pc \in Claiming

LEMMA IdleNow ==
  ASSUME NEW pc \in PC, NEW s \in Slots, slot'[s] = Idle(pc, clock)
  PROVE  KeepsTime(s)
BY DEF KeepsTime, Idle

\* The call has ended, in one way or the other.
LEMMA CallEnds ==
  ASSUME IInv, NEW s \in Slots, CallReturns(s) \/ CallFails(s)
  PROVE  /\ slot[s].pc = "calling" /\ slot'[s].pc \in {"complete", "fail"}
         /\ slot'[s].since = clock /\ slot'[s].job = slot[s].job
         /\ rows' = rows
<1>1. slot \in [Slots -> Slot] /\ slot[s] \in Slot
  BY SlotTypes
<1>2. CASE CallReturns(s)
  BY <1>1, <1>2 DEF CallReturns, Slot
<1>3. CASE CallFails(s)
  <2>1. PICK a \in BOOLEAN, b \in BOOLEAN :
          slot' = [slot EXCEPT ![s].pc = "fail", ![s].since = clock,
                               ![s].retriable = a, ![s].metered = b]
    BY <1>3 DEF CallFails
  <2> QED BY <1>1, <1>3, <2>1 DEF CallFails, Slot
<1> QED BY <1>2, <1>3

LEMMA StepKeepsTime ==
  ASSUME IInv, NEW s \in Slots,
         SlotStep(s) \/ DatabaseError(s) \/ LoseClaimReply(s)
  PROVE  /\ clock' = clock
         /\ \A t \in Slots \ {s} : slot'[t] = slot[t]
         /\ KeepsTime(s)
<1>1. slot \in [Slots -> Slot] /\ slot[s] \in Slot
  BY SlotTypes
<1>2. clock' = clock
  BY DEF SlotStep, DatabaseError, LoseClaimReply, BeginClaim, Sweep,
     SelectJob, SelectNone, CommitClaim, CallReturns, CallFails, Complete, Fail
<1>3. \A t \in Slots \ {s} : slot'[t] = slot[t]
  BY <1>1 DEF SlotStep, DatabaseError, LoseClaimReply, BeginClaim, Sweep,
     SelectJob, SelectNone, CommitClaim, CallReturns, CallFails, Complete, Fail
<1>4. CASE BeginClaim(s) \/ Complete(s) \/ Fail(s)
           \/ DatabaseError(s) \/ LoseClaimReply(s)
  <2>1. \E pc \in PC : slot'[s] = Idle(pc, clock)
    BY <1>1, <1>4 DEF BeginClaim, Complete, Fail, DatabaseError,
       LoseClaimReply, PC, Claiming
  <2> QED BY <1>2, <1>3, <2>1, IdleNow
<1>5. CASE CommitClaim(s)
  <2>1. slot'[s] = IF slot[s].job = None
          THEN Idle("sleep", clock)
          ELSE [Idle("calling", clock) EXCEPT
                  !.job = slot[s].job,
                  !.attempt = rows[slot[s].job].attempts + 1]
    BY <1>1, <1>5 DEF CommitClaim
  <2>2. slot'[s].since = clock /\ slot'[s].pc \in PC
    BY <2>1 DEF Idle, PC, Holding
  <2> QED BY <1>2, <1>3, <2>2 DEF KeepsTime
<1>6. CASE Sweep(s) \/ SelectJob(s) \/ SelectNone(s)
  <2>1. /\ slot'[s].since = slot[s].since
        /\ slot[s].pc \in Claiming /\ slot'[s].pc \in Claiming
    BY <1>1, <1>6 DEF Sweep, SelectJob, SelectNone, Slot, Claiming
  <2> QED BY <1>2, <1>3, <2>1 DEF KeepsTime
<1>7. CASE CallReturns(s) \/ CallFails(s)
  <2>1. slot'[s].since = clock /\ slot'[s].pc \in {"complete", "fail"}
    BY <1>7, CallEnds
  <2>2. slot'[s].pc \in PC
    BY <2>1 DEF PC, Holding
  <2> QED BY <1>2, <1>3, <2>1, <2>2 DEF KeepsTime
<1> QED BY <1>4, <1>5, <1>6, <1>7 DEF SlotStep

LEMMA TimelyKept ==
  ASSUME IInv, PastNow, Timely, clock' = clock, \A s \in Slots : KeepsTime(s)
  PROVE  Timely'
<1> SUFFICES ASSUME NEW s \in Slots PROVE Elapsed(s)' <= Limit(slot'[s].pc)
  BY DEF Timely, Limit
<1>1. clock \in Nat /\ slot[s].since \in Nat /\ slot[s].pc \in PC
  BY SlotTypes
<1>2. clock - slot[s].since <= Limit(slot[s].pc)
  BY DEF Timely, Elapsed
<1>3. CASE slot'[s] = slot[s]
  BY <1>2, <1>3 DEF Elapsed
<1>4. CASE slot'[s].since = clock /\ slot'[s].pc \in PC
  BY <1>1, <1>4, Limits DEF Elapsed
<1>5. CASE /\ slot'[s].since = slot[s].since
           /\ slot[s].pc \in Claiming /\ slot'[s].pc \in Claiming
  BY <1>1, <1>2, <1>5, Limits DEF Elapsed
<1> QED BY <1>3, <1>4, <1>5 DEF KeepsTime

\* No slot stays in a phase beyond its limit.
LEMMA TimelyStep ==
  ASSUME IInv, PastNow, Timely, [TimedNext]_vars
  PROVE  Timely'
<1>1. ASSUME NEW s \in Slots, SlotStep(s) \/ DatabaseError(s) \/ LoseClaimReply(s)
      PROVE  Timely'
  <2>1. clock' = clock /\ \A t \in Slots : KeepsTime(t)
    BY <1>1, StepKeepsTime DEF KeepsTime
  <2> QED BY <2>1, TimelyKept
<1>2. ASSUME NEW p \in Processes, Crash(p) \/ Restart(p) PROVE Timely'
  <2>1. PICK pc \in {"down", "ready"} :
          /\ slot' = [s \in Slots |-> IF s \in p THEN Idle(pc, clock) ELSE slot[s]]
          /\ clock' = clock
    BY <1>2 DEF Crash, Restart
  <2>2. pc \in PC
    BY DEF PC
  <2>3. ASSUME NEW s \in Slots PROVE KeepsTime(s)
    BY <2>1, <2>2, IdleNow DEF KeepsTime
  <2> QED BY <2>1, <2>3, TimelyKept
<1>3. CASE (\E j \in Jobs : TimedSubmit(j)) \/ UNCHANGED vars
  BY <1>3 DEF TimedSubmit, Submit, vars, Timely, Elapsed, Limit
<1>4. CASE TimedTick
  <2> SUFFICES ASSUME NEW s \in Slots PROVE Elapsed(s)' <= Limit(slot'[s].pc)
    BY DEF Timely, Limit
  <2>1. clock \in Nat /\ slot[s].since \in Nat /\ Limit(slot[s].pc) \in Nat
    BY SlotTypes, Limits
  <2>2. clock' = clock + 1 /\ slot' = slot
    BY <1>4 DEF TimedTick, Tick
  <2>3. clock - slot[s].since < Limit(slot[s].pc)
    BY <1>4 DEF TimedTick, Punctual, Elapsed
  <2> QED BY <2>1, <2>2, <2>3 DEF Elapsed
<1> QED BY <1>1, <1>2, <1>3, <1>4 DEF TimedNext, TimedSlotStep

-----------------------------------------------------------------------------
(* The lease.                                                              *)

\* No clock has reached the end of a lease that its holder works under.
LEMMA LeaseLive ==
  ASSUME TimedInv, NEW s \in Slots, NEW t \in Slots, slot[s].pc \in Holding
  PROVE  rows[slot[s].job].lease > Now(t)
<1> DEFINE L == rows[slot[s].job].lease
<1> USE DEF TimedInv
<1>1. Owns(s) /\ L + DbSeconds + CallTime(slot[s].pc)
                   >= slot[s].since + Skew[s] + LeaseSeconds
  BY DEF Covered, Cover
<1>2. slot[s].job \in Jobs /\ L \in Nat
  BY SlotTypes DEF IInv, AttemptHasOneOwner
<1>3. clock \in Nat /\ slot[s].since \in Nat /\ slot[t].since \in Nat
  BY SlotTypes
<1>4. Now(t) <= clock + Skew[t]
  BY <1>3, Limits DEF PastNow, Now
<1>5. clock <= slot[s].since + Limit(slot[s].pc)
  <2>1. clock - slot[s].since <= Limit(slot[s].pc) /\ slot[s].pc \in PC
    BY SlotTypes DEF Timely, Elapsed
  <2> QED BY <1>3, <2>1, Limits
<1>6. CallTime(slot[s].pc) + Limit(slot[s].pc) <= ProviderTimeout + DbSeconds
  BY Limits DEF CallTime, Holding
<1>7. /\ 2 * DbSeconds + Skew[t] - Skew[s] <= LeaseMargin
      /\ LeaseSeconds > ProviderTimeout + LeaseMargin
  BY BudgetAssumption, LeaseAssumption
<1>8. CallTime(slot[s].pc) \in Nat /\ Limit(slot[s].pc) \in Nat /\ Now(t) \in Int
  BY <1>3, SlotTypes, Limits DEF CallTime, Now
<1> HIDE DEF L
<1>9. L > Now(t)
  BY <1>1, <1>2, <1>3, <1>4, <1>5, <1>6, <1>7, <1>8, Limits
<1> QED BY <1>9 DEF L

\* No step of another slot writes the row of a job that s works on.
LEMMA RowKept ==
  ASSUME TimedInv, NEW s \in Slots, NEW t \in Slots \ {s},
         slot[s].pc \in Holding,
         SlotStep(t) \/ DatabaseError(t) \/ LoseClaimReply(t)
  PROVE  rows'[slot[s].job] = rows[slot[s].job]
<1> DEFINE j == slot[s].job
<1> USE DEF TimedInv
<1>1. j \in Jobs /\ rows \in [Jobs -> Row] /\ j # None
  BY SlotTypes, NoneAssumption DEF IInv, AttemptHasOneOwner
<1>2. rows[j].status = "running" /\ rows[j].worker = s
  BY DEF Covered, Cover, Owns
<1>3. ~Expired(rows[j], Now(t))
  <2>1. rows[j].lease > Now(t)
    BY LeaseLive
  <2>2. rows[j].lease \in Nat /\ Now(t) \in Int
    BY <1>1, SlotTypes, Limits DEF Now
  <2> QED BY <2>1, <2>2 DEF Expired
<1>4. CASE CommitClaim(t) \/ LoseClaimReply(t)
  <2>1. slot[t].pc = "selected" /\ rows' = ClaimEffect(t)
    BY <1>4 DEF CommitClaim, LoseClaimReply
  <2>2. Grip(t)
    BY DEF IInv, LocksProtect, LocksHold
  <2>3. j \notin slot[t].sweep
    BY <1>3, <2>1, <2>2 DEF Grip, Sweepable
  <2>4. j # slot[t].job
    BY <1>1, <1>2, <1>3, <2>1, <2>2 DEF Grip, Eligible
  <2> QED BY <1>1, <2>1, <2>3, <2>4 DEF ClaimEffect
<1>5. CASE Complete(t) \/ Fail(t)
  <2>1. slot[t].job = j => ~Owns(t)
    BY <1>2 DEF Owns
  <2> QED BY <1>1, <1>5, <2>1 DEF Complete, Fail
<1>6. CASE \/ BeginClaim(t) \/ Sweep(t) \/ SelectJob(t) \/ SelectNone(t)
           \/ CallReturns(t) \/ CallFails(t) \/ DatabaseError(t)
  BY <1>6 DEF BeginClaim, Sweep, SelectJob, SelectNone, CallReturns,
     CallFails, DatabaseError
<1> QED BY <1>4, <1>5, <1>6 DEF SlotStep

LEMMA CoverKept ==
  ASSUME NEW s \in Slots, Cover(s), slot'[s] = slot[s],
         slot[s].pc \in Holding => rows'[slot[s].job] = rows[slot[s].job]
  PROVE  Cover(s)'
BY DEF Cover, Owns, CallTime

\* A slot that claims is given a lease that covers its work.
LEMMA ClaimCovers ==
  ASSUME TimedInv, NEW s \in Slots, CommitClaim(s)
  PROVE  Cover(s)'
<1> DEFINE j == slot[s].job
<1> USE DEF TimedInv
<1>1. slot \in [Slots -> Slot] /\ rows \in [Jobs -> Row]
  BY SlotTypes
<1>2. slot[s].pc = "selected" /\ rows' = ClaimEffect(s)
  BY DEF CommitClaim
<1>3. slot'[s] = IF j = None
        THEN Idle("sleep", clock)
        ELSE [Idle("calling", clock) EXCEPT
                !.job = j, !.attempt = rows[j].attempts + 1]
  BY <1>1 DEF CommitClaim
<1>4. CASE j = None
  BY <1>3, <1>4 DEF Cover, Idle, Holding
<1>5. CASE j # None
  <2>1. j \in Jobs /\ Grip(s)
    BY <1>5, SlotTypes DEF IInv, LocksProtect, LocksHold
  <2>2. Eligible(s, j) /\ slot[s].sweep \subseteq Sweepable(s)
    BY <1>2, <1>5, <2>1 DEF Grip
  <2>3. j \notin slot[s].sweep
    <3>1. rows[j].attempts \in 0..10 /\ MaxAttempts[j] \in 1..10
      BY <1>1, <2>1, MaxAttemptsAssumption DEF Row
    <3> QED BY <2>2, <3>1 DEF Eligible, Sweepable
  <2>4. rows'[j] = Claimed(rows[j], s, Now(s))
    BY <1>2, <2>1, <2>3 DEF ClaimEffect
  <2>5. /\ rows'[j].status = "running" /\ rows'[j].worker = s
        /\ rows'[j].lease = slot[s].since + Skew[s] + LeaseSeconds
    <3>1. rows[j] \in Row
      BY <1>1, <2>1
    <3> QED BY <2>4, <3>1 DEF Claimed, Row, Now
  <2>6. slot'[s].pc = "calling" /\ slot'[s].since = clock /\ slot'[s].job = j
    BY <1>3, <1>5 DEF Idle
  <2>7. clock <= slot[s].since + DbSeconds
    <3>1. clock - slot[s].since <= DbSeconds
      BY <1>2, Limits DEF Timely, Elapsed, Claiming
    <3> QED BY <3>1, SlotTypes, Limits
  <2>8. rows'[j].lease + DbSeconds + 0 >= clock + Skew[s] + LeaseSeconds
    BY <2>5, <2>7, SlotTypes, Limits
  <2> QED BY <2>5, <2>6, <2>8 DEF Cover, Owns, CallTime
<1> QED BY <1>4, <1>5

\* The step of a slot leaves it under a lease that covers its work.
LEMMA OwnStepCovers ==
  ASSUME TimedInv, NEW s \in Slots,
         SlotStep(s) \/ DatabaseError(s) \/ LoseClaimReply(s)
  PROVE  Cover(s)'
<1> USE DEF TimedInv
<1>1. slot \in [Slots -> Slot] /\ slot[s] \in Slot
  BY SlotTypes
<1>2. CASE BeginClaim(s) \/ Complete(s) \/ Fail(s)
           \/ DatabaseError(s) \/ LoseClaimReply(s)
  <2>1. slot'[s].pc \in {"begin", "ready", "sleep"}
    BY <1>1, <1>2 DEF BeginClaim, Complete, Fail, DatabaseError,
       LoseClaimReply, Idle
  <2> QED BY <2>1 DEF Cover, Holding
<1>3. CASE Sweep(s) \/ SelectJob(s) \/ SelectNone(s)
  <2>1. slot'[s].pc \in {"swept", "selected"}
    BY <1>1, <1>3 DEF Sweep, SelectJob, SelectNone, Slot
  <2> QED BY <2>1 DEF Cover, Holding
<1>4. CASE CallReturns(s) \/ CallFails(s)
  <2>1. /\ slot[s].pc = "calling" /\ slot'[s].pc \in {"complete", "fail"}
        /\ slot'[s].since = clock /\ slot'[s].job = slot[s].job
        /\ rows' = rows
    BY <1>4, CallEnds
  <2>2. /\ Owns(s)
        /\ rows[slot[s].job].lease + DbSeconds + 0
             >= slot[s].since + Skew[s] + LeaseSeconds
    BY <2>1 DEF Covered, Cover, CallTime, Holding
  <2>3. clock <= slot[s].since + ProviderTimeout
    <3>1. clock - slot[s].since <= ProviderTimeout
      BY <2>1, Limits DEF Timely, Elapsed
    <3> QED BY <3>1, SlotTypes, Limits
  <2>4. rows[slot[s].job].lease \in Nat
    BY <2>1, SlotTypes DEF IInv, AttemptHasOneOwner, Holding
  <2>5. rows[slot[s].job].lease + DbSeconds + ProviderTimeout
          >= clock + Skew[s] + LeaseSeconds
    BY <2>2, <2>3, <2>4, SlotTypes, Limits
  <2> QED BY <2>1, <2>2, <2>5 DEF Cover, Owns, CallTime
<1> QED BY <1>2, <1>3, <1>4, ClaimCovers DEF SlotStep

LEMMA CoveredStep ==
  ASSUME TimedInv, [TimedNext]_vars
  PROVE  Covered'
<1> USE DEF TimedInv
<1>1. ASSUME NEW t \in Slots, SlotStep(t) \/ DatabaseError(t) \/ LoseClaimReply(t)
      PROVE  Covered'
  <2> SUFFICES ASSUME NEW s \in Slots PROVE Cover(s)'
    BY DEF Covered
  <2>1. CASE s = t
    BY <1>1, <2>1, OwnStepCovers
  <2>2. CASE s # t
    <3>1. slot'[s] = slot[s]
      BY <1>1, <2>2, StepKeepsTime
    <3>2. slot[s].pc \in Holding => rows'[slot[s].job] = rows[slot[s].job]
      BY <1>1, <2>2, RowKept
    <3> QED BY <3>1, <3>2, CoverKept DEF Covered
  <2> QED BY <2>1, <2>2
<1>2. ASSUME NEW p \in Processes, Crash(p) \/ Restart(p) PROVE Covered'
  <2>1. PICK pc \in {"down", "ready"} :
          /\ slot' = [s \in Slots |-> IF s \in p THEN Idle(pc, clock) ELSE slot[s]]
          /\ rows' = rows
    BY <1>2 DEF Crash, Restart
  <2> SUFFICES ASSUME NEW s \in Slots PROVE Cover(s)'
    BY DEF Covered
  <2>2. CASE s \in p
    BY <2>1, <2>2 DEF Cover, Idle, Holding
  <2>3. CASE s \notin p
    BY <2>1, <2>3, CoverKept DEF Covered
  <2> QED BY <2>2, <2>3
<1>3. ASSUME NEW j \in Jobs, TimedSubmit(j) PROVE Covered'
  <2> SUFFICES ASSUME NEW s \in Slots PROVE Cover(s)'
    BY DEF Covered
  <2>1. /\ rows[j].status = "absent" /\ slot' = slot
        /\ \A k \in Jobs \ {j} : rows'[k] = rows[k]
    BY <1>3, SlotTypes DEF TimedSubmit, Submit
  <2>2. slot[s].pc \in Holding => slot[s].job \in Jobs \ {j}
    BY <2>1 DEF IInv, AttemptHasOneOwner, Covered, Cover, Owns
  <2> QED BY <2>1, <2>2, CoverKept DEF Covered
<1>4. CASE TimedTick \/ UNCHANGED vars
  <2>1. slot' = slot /\ rows' = rows
    BY <1>4 DEF TimedTick, Tick, vars
  <2> QED BY <2>1, CoverKept DEF Covered
<1> QED BY <1>1, <1>2, <1>3, <1>4 DEF TimedNext, TimedSlotStep

-----------------------------------------------------------------------------
LEMMA TimedInvariant == TimedSpec => [](Timely /\ Covered)
<1>1. TimedSpec => Spec
  BY TimedIsNext, PTL DEF TimedSpec, Spec
<1>2. Init => Timely /\ Covered
  <2> SUFFICES ASSUME Init PROVE Timely /\ Covered
    OBVIOUS
  <2>1. \A s \in Slots : slot[s] = Idle("ready", 0) /\ clock = 0
    BY DEF Init
  <2>2. Timely
    BY <2>1 DEF Timely, Elapsed, Idle, Limit
  <2>3. Covered
    BY <2>1 DEF Covered, Cover, Idle, Holding
  <2> QED BY <2>2, <2>3
<1>3. IInv /\ PastNow /\ (Timely /\ Covered) /\ [TimedNext]_vars => (Timely /\ Covered)'
  BY TimelyStep, CoveredStep DEF TimedInv
<1> QED BY <1>1, <1>2, <1>3, Invariant, PastNowInvariant, PTL DEF TimedSpec

\* In any deployment that keeps to the budget, a slot of worker.py that calls
\* the provider or writes the outcome still owns its job.
THEOREM LeaseSuffices == TimedSpec => []LeaseCoversWork
<1>1. Covered => LeaseCoversWork
  BY DEF Covered, Cover, LeaseCoversWork
<1> QED BY <1>1, TimedInvariant, PTL

-----------------------------------------------------------------------------
(* The budget never stops time: what holds the clock back can be done.     *)

\* A process is down with all of its slots.
DownTogether ==
  \A s \in Slots : slot[s].pc = "down" =>
    \E p \in Processes : s \in p /\ \A t \in p : slot[t].pc = "down"

\* The guards of TimedSlotStep(s) and Restart(p).
TimedMayStep(s) ==
  /\ slot[s].pc = "sleep" => Elapsed(s) = PollSeconds \/ clock = MaxClock
  /\ MayStep(s)

MayRestart(p) == p # {} /\ \A s \in p : slot[s].pc = "down"

\* A slot that has reached its limit, which holds the clock back, can step, or
\* waits for the lock of one that can, or its process can be restarted.
TimeGoesOn ==
  \A s \in Slots :
    \/ Elapsed(s) < Limit(slot[s].pc)
    \/ TimedMayStep(s)
    \/ \E t \in Slots \ {s} : TimedMayStep(t) /\ \E j \in Jobs : Locks(t, j)
    \/ \E p \in Processes : s \in p /\ MayRestart(p)

LEMMA DownTogetherStep ==
  ASSUME IInv, DownTogether, [Next]_vars
  PROVE  DownTogether'
<1>1. slot \in [Slots -> Slot]
  BY SlotTypes
<1>2. ASSUME NEW s \in Slots, slot[s].pc # "down", slot'[s].pc # "down",
             \A t \in Slots \ {s} : slot'[t] = slot[t]
      PROVE  DownTogether'
  <2> SUFFICES ASSUME NEW t \in Slots, slot'[t].pc = "down"
               PROVE  \E p \in Processes : t \in p /\ \A u \in p : slot'[u].pc = "down"
    BY DEF DownTogether
  <2>1. PICK p \in Processes : t \in p /\ \A u \in p : slot[u].pc = "down"
    BY <1>2 DEF DownTogether
  <2> QED BY <1>2, <2>1, ProcessesAssumption
<1>3. ASSUME NEW s \in Slots, SlotStep(s) \/ DatabaseError(s) \/ LoseClaimReply(s)
      PROVE  DownTogether'
  <2>1. \A t \in Slots \ {s} : slot'[t] = slot[t]
    BY <1>3, StepKeepsTime
  <2>2. slot[s].pc # "down"
    BY <1>3 DEF SlotStep, DatabaseError, LoseClaimReply, BeginClaim, Sweep,
       SelectJob, SelectNone, CommitClaim, CallReturns, CallFails, Complete, Fail, Claiming
  <2>3. slot'[s].pc # "down"
    <3>1. CASE BeginClaim(s) \/ Complete(s) \/ Fail(s) \/ DatabaseError(s)
               \/ LoseClaimReply(s)
      BY <1>1, <3>1 DEF BeginClaim, Complete, Fail, DatabaseError, LoseClaimReply, Idle
    <3>2. CASE Sweep(s) \/ SelectJob(s) \/ SelectNone(s)
      BY <1>1, <3>2 DEF Sweep, SelectJob, SelectNone, Slot
    <3>3. CASE CommitClaim(s)
      BY <1>1, <3>3 DEF CommitClaim, Idle
    <3>4. CASE CallReturns(s) \/ CallFails(s)
      BY <3>4, CallEnds
    <3> QED BY <1>3, <3>1, <3>2, <3>3, <3>4 DEF SlotStep
  <2> QED BY <1>2, <2>1, <2>2, <2>3
<1>4. ASSUME NEW p \in Processes, Crash(p)
      PROVE  DownTogether'
  <2>1. \A s \in Slots : slot'[s] = IF s \in p THEN Idle("down", clock) ELSE slot[s]
    BY <1>4 DEF Crash
  <2>2. \A s \in Slots : slot'[s].pc = "down" <=> s \in p \/ slot[s].pc = "down"
    BY <2>1 DEF Idle
  <2> QED BY <2>2, ProcessesAssumption DEF DownTogether
<1>5. ASSUME NEW p \in Processes, Restart(p)
      PROVE  DownTogether'
  <2>1. \A s \in Slots : slot'[s] = IF s \in p THEN Idle("ready", clock) ELSE slot[s]
    BY <1>5 DEF Restart
  <2>2. \A s \in Slots : slot'[s].pc = "down" <=> s \notin p /\ slot[s].pc = "down"
    BY <2>1 DEF Idle
  <2> SUFFICES ASSUME NEW s \in Slots, s \notin p, slot[s].pc = "down"
               PROVE  \E q \in Processes : s \in q /\ \A u \in q : slot'[u].pc = "down"
    BY <2>2 DEF DownTogether
  <2>3. PICK q \in Processes : s \in q /\ \A u \in q : slot[u].pc = "down"
    BY DEF DownTogether
  <2>4. q \cap p = {} /\ q \subseteq Slots
    BY <2>3, ProcessesAssumption
  <2> QED BY <2>2, <2>3, <2>4
<1>6. CASE (\E j \in Jobs : Submit(j)) \/ Tick \/ UNCHANGED vars
  BY <1>6 DEF Submit, Tick, vars, DownTogether
<1> QED BY <1>3, <1>4, <1>5, <1>6 DEF Next

LEMMA LimitReached ==
  ASSUME IInv, Timely, DownTogether
  PROVE  TimeGoesOn
<1> SUFFICES ASSUME NEW s \in Slots, ~(Elapsed(s) < Limit(slot[s].pc))
             PROVE  \/ TimedMayStep(s)
                    \/ \E t \in Slots \ {s} :
                         TimedMayStep(t) /\ \E j \in Jobs : Locks(t, j)
                    \/ \E p \in Processes : s \in p /\ MayRestart(p)
  BY DEF TimeGoesOn
<1>1. CASE slot[s].pc = "down"
  BY <1>1 DEF DownTogether, MayRestart
<1>2. CASE slot[s].pc = "sleep"
  <2>1. Elapsed(s) = PollSeconds
    <3>1. clock \in Nat /\ slot[s].since \in Nat /\ PollSeconds \in Nat
      BY SlotTypes, LimitsAssumption
    <3> QED BY <1>2, <3>1 DEF Timely, Limit, Elapsed
  <2> QED BY <1>2, <2>1 DEF TimedMayStep, MayStep
<1>3. CASE slot[s].pc \notin {"down", "sleep"}
  <2>1. \/ MayStep(s)
        \/ \E t \in Slots \ {s} : MayStep(t) /\ \E j \in Jobs : Locks(t, j)
    BY <1>3, SlotsGoOn DEF NeverStuck
  <2>2. \A t \in Slots : (\E j \in Jobs : Locks(t, j)) => slot[t].pc # "sleep"
    BY DEF Locks
  <2> QED BY <1>3, <2>1, <2>2 DEF TimedMayStep
<1> QED BY <1>1, <1>2, <1>3

\* In any deployment, whatever holds the clock back can be done: locks, polls
\* and restarts never bring time to a stop, so that the fairness that
\* EveryJobEnds assumes of Tick asks for nothing impossible.
THEOREM NoTimelock == TimedSpec => []TimeGoesOn
<1>1. TimedSpec => Spec
  BY TimedIsNext, PTL DEF TimedSpec, Spec
<1>2. Init => DownTogether
  BY DEF Init, DownTogether, Idle
<1>3. Spec => []DownTogether
  BY <1>2, DownTogetherStep, Invariant, PTL DEF Spec
<1> QED BY <1>1, <1>3, LimitReached, Invariant, TimedInvariant, PTL
=============================================================================
