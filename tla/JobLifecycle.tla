---------------------------- MODULE JobLifecycle ----------------------------
(***************************************************************************)
(* What examples/ai-api promises about a generation job, as a client that  *)
(* polls GET /v1/jobs/{id} can observe it: its status, the number of       *)
(* attempts and the origin of its error.  Workers, leases, locks and time  *)
(* are absent: GenerationJobs shows how they implement this.               *)
(*                                                                         *)
(* One commit may move several jobs (a claim fails every exhausted lease   *)
(* it sweeps and starts one job), so a step moves any set of them.         *)
(***************************************************************************)
EXTENDS Naturals

CONSTANTS Jobs, MaxAttempts

VARIABLE job

Job(status, attempts, cause) ==
  [status |-> status, attempts |-> attempts, cause |-> cause]

Unsubmitted == Job("absent", 0, "none")

\* The first 202 Accepted for the job.
Accept(old, new) ==
  /\ old.status = "absent"
  /\ new = Job("queued", 0, "none")

\* An attempt starts, the first one, a retry or the recovery of a lease;
\* the error of the attempt before it is cleared.
Start(old, new, max) ==
  /\ old.status \in {"queued", "running"}
  /\ old.attempts < max
  /\ new = Job("running", old.attempts + 1, "none")

Succeed(old, new) ==
  /\ old.status = "running"
  /\ new = Job("completed", old.attempts, "none")

\* A retriable failure goes back to the queue while attempts are left.
Requeue(old, new, max) ==
  /\ old.status = "running"
  /\ old.attempts < max
  /\ new = Job("queued", old.attempts, "call")

\* The provider's failure is permanent, or it was the last attempt.
Reject(old, new) ==
  /\ old.status = "running"
  /\ new = Job("failed", old.attempts, "call")

\* The last attempt's lease ran out without an outcome.
GiveUp(old, new, max) ==
  /\ old.status = "running"
  /\ old.attempts = max
  /\ new = Job("failed", old.attempts, "lease")

Move(old, new, max) ==
  \/ Accept(old, new)
  \/ Start(old, new, max)
  \/ Succeed(old, new)
  \/ Requeue(old, new, max)
  \/ Reject(old, new)
  \/ GiveUp(old, new, max)

Init == job = [j \in Jobs |-> Unsubmitted]

Next == \A j \in Jobs : job'[j] = job[j] \/ Move(job[j], job'[j], MaxAttempts[j])

Spec == Init /\ [][Next]_job
=============================================================================
