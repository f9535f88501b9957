------------------------ MODULE GenerationJobsTimed ------------------------
(***************************************************************************)
(* GenerationJobs with its time budget: time passes only while every slot  *)
(* is within the limit that the code sets for what it is doing.  The poll  *)
(* interval and the provider timeout are settings; that the statements of  *)
(* a transaction, the wait for a pooled connection included, take at most  *)
(* DbSeconds, and that a dead process is restarted within RestartSeconds,  *)
(* is assumed of the deployment.                                           *)
(*                                                                         *)
(* Settings demands job_lease_seconds > provider_timeout_seconds + 5.  The *)
(* five seconds are LeaseMargin; BudgetAssumption says what they must pay  *)
(* for: the claim, the write of the outcome and the spread of the clocks.  *)
(***************************************************************************)
EXTENDS GenerationJobs

CONSTANTS
  PollSeconds,      \* settings.worker_poll_seconds
  ProviderTimeout,  \* settings.provider_timeout_seconds
  LeaseMargin,      \* the 5 in Settings' validation of the lease
  DbSeconds,        \* longest transaction, from utc_now() to its commit
  RestartSeconds,   \* longest outage of a process
  LastSubmission    \* bound of the model: no job is submitted later

ASSUME LimitsAssumption ==
  {PollSeconds, ProviderTimeout, LeaseMargin, DbSeconds, RestartSeconds,
   LastSubmission} \subseteq Nat
ASSUME PollAssumption == PollSeconds > 0
ASSUME LeaseAssumption == LeaseSeconds > ProviderTimeout + LeaseMargin
ASSUME BudgetAssumption ==
  \A s, t \in Slots : 2 * DbSeconds + Skew[t] - Skew[s] <= LeaseMargin

\* How long a slot may stay in a phase.
Limit(pc) ==
  CASE pc = "ready"   -> 0
    [] pc = "sleep"   -> PollSeconds
    [] pc = "calling" -> ProviderTimeout
    [] pc = "down"    -> RestartSeconds
    [] OTHER          -> DbSeconds

Elapsed(s) == clock - slot[s].since

Punctual == \A s \in Slots : Elapsed(s) < Limit(slot[s].pc)

TimedTick == Punctual /\ Tick

\* A slot that found no job sleeps the whole interval; where the bounded
\* clock has stopped there is nothing to wait for.
TimedSlotStep(s) ==
  /\ slot[s].pc = "sleep" => Elapsed(s) = PollSeconds \/ clock = MaxClock
  /\ SlotStep(s)

TimedSubmit(j) == clock <= LastSubmission /\ Submit(j)

TimedNext ==
  \/ \E j \in Jobs : TimedSubmit(j)
  \/ \E s \in Slots : TimedSlotStep(s) \/ DatabaseError(s) \/ LoseClaimReply(s)
  \/ \E p \in Processes : Crash(p) \/ Restart(p)
  \/ TimedTick

TimedSpec == Init /\ [][TimedNext]_vars

\* asyncio runs every slot that is ready, the supervisor restarts a dead
\* process, and time passes; faults and submissions are never obliged.
Fairness ==
  /\ \A s \in Slots : WF_vars(TimedSlotStep(s))
  /\ \A p \in Processes : WF_vars(Restart(p))
  /\ WF_vars(TimedTick)

FairSpec == TimedSpec /\ Fairness

-----------------------------------------------------------------------------
(* Properties.                                                             *)

\* The lease outlives the work it covers: while a slot calls the provider
\* or writes the outcome, no other slot is given the job, so no call is made
\* twice at once and no outcome is discarded as stale.
LeaseCoversWork ==
  \A s \in Slots : slot[s].pc \in Holding => Owns(s)

\* Every submitted job ends as completed or failed, whatever mix of crashes,
\* lost replies and failed transactions the workers meet, as long as the
\* faults stop at some time.
EveryJobEnds ==
  \A j \in Jobs : rows[j].status = "queued" ~> rows[j].status \in Terminal
=============================================================================
