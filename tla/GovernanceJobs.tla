---------------------------- MODULE GovernanceJobs ----------------------------
(***************************************************************************)
(* The governance queue, for the one job an assessment gets: the           *)
(* governance_jobs row and the statements of the governance store that     *)
(* change it.  Each is one UPDATE, fenced by the worker, the generation of *)
(* its claim, the status and the lease; a fence that does not hold makes   *)
(* it a no-op, which the caller may or may not look at.                    *)
(*                                                                         *)
(* Time is one bit, lapsed: lease_expires_at <= NOW().  The delay before a *)
(* rescheduled job is available again is left out.                         *)
(***************************************************************************)
EXTENDS Naturals

CONSTANTS
  Worker,    \* worker ids: one per process start in the code, reusable here
  NoWorker

VARIABLE job

JobActive == {"CLAIMED", "RUNNING"}

JobTerminal == {"COMPLETE", "FAILED", "CANCELLED"}

NoJobRow == [status |-> "absent", worker |-> NoWorker, generation |-> 0, lapsed |-> FALSE]

\* The fence: $worker, $generation, CLAIMED or RUNNING, lease_expires_at > NOW().
Holds(n, generation) ==
  /\ job.worker = n
  /\ job.generation = generation
  /\ job.status \in JobActive
  /\ ~job.lapsed

\* createGovernanceJob.
CreateJob ==
  /\ job.status = "absent"
  /\ job' = [NoJobRow EXCEPT !.status = "AVAILABLE"]

\* Faulty variant: a job whose worker died is left to it.
ClaimAvailableJob(n) ==
  /\ job.status = "AVAILABLE"
  /\ job' = [status |-> "CLAIMED", worker |-> n, generation |-> job.generation + 1,
             lapsed |-> FALSE]

\* claimNextGovernanceJob; claim_count and lease_generation only grow together.
ClaimJob(n) ==
  /\ \/ job.status = "AVAILABLE"
     \/ job.status \in JobActive /\ job.lapsed
  /\ job' = [status |-> "CLAIMED", worker |-> n, generation |-> job.generation + 1,
             lapsed |-> FALSE]

\* An UPDATE of the job whose condition may not hold any more.
Fenced(n, generation, row) ==
  job' = IF Holds(n, generation) THEN row ELSE job

\* transitionJobToRunning, for a caller that looks at the result.
TransitionJobToRunning(n, generation) ==
  /\ Holds(n, generation)
  /\ job.status = "CLAIMED"
  /\ job' = [job EXCEPT !.status = "RUNNING"]

\* failJob with a time to reschedule at, and without.
RescheduleJob(n, generation) ==
  Fenced(n, generation, [job EXCEPT !.status = "AVAILABLE", !.worker = NoWorker])

FailJob(n, generation) == Fenced(n, generation, [job EXCEPT !.status = "FAILED"])

\* cancelJob, as the evaluator calls it.
CancelJob(n, generation) == Fenced(n, generation, [job EXCEPT !.status = "CANCELLED"])

\* The job's statement in completeAttemptAtomically.
CompleteJob(n, generation) == Fenced(n, generation, [job EXCEPT !.status = "COMPLETE"])

LapseJob ==
  /\ job.status \in JobActive
  /\ ~job.lapsed
  /\ job' = [job EXCEPT !.lapsed = TRUE]
=============================================================================
