---------------------------- MODULE RunJobsProofs ----------------------------
(***************************************************************************)
(* Proofs about RunJobs for any number of runs, nodes, roles and rows.     *)
(* The inductive invariant is the conjunction of what TLC checks, plus one *)
(* strengthening: a row with an owner has a real role.  Without it a node  *)
(* that "owns" a row of no role could register in any role and so break    *)
(* OwnerHasTargetRole.                                                     *)
(***************************************************************************)
EXTENDS RunJobs, TLAPS

\* A job that was ever claimed carries the role it was enqueued with.
OwnedJobHasRole == \A j \in Job : jobs[j].owner # NoNode => jobs[j].role \in Role

IInv ==
  /\ TypeOK
  /\ OneActiveJobPerRun
  /\ OwnerAndLeaseMatchStatus
  /\ OwnedJobHasRole
  /\ OwnerHasTargetRole

USE DEF JobStatus, ActiveJobStatus, TerminalJobStatus

-----------------------------------------------------------------------------
\* What each kind of step does to the tables, stated once: at most one row of
\* run_jobs changes, and the node table changes only in the heartbeat calls.

LEMMA InitEstablishes == Init => IInv
  BY RunJobsAssumption
  DEF Init, IInv, TypeOK, JobRow, NodeRow, AbsentJob, OneActiveJobPerRun, Active,
      OwnerAndLeaseMatchStatus, OwnedJobHasRole, OwnerHasTargetRole

LEMMA EnqueuePreserves ==
  ASSUME IInv, NEW j \in Job, NEW r \in Run, NEW role \in Role,
         EnqueueRunJob(j, r, role)
  PROVE  IInv'
  <1> USE RunJobsAssumption DEF EnqueueRunJob, TypeOK, JobRow, NodeRow, IInv
  <1>1. TypeOK'
    OBVIOUS
  <1>2. OneActiveJobPerRun'
    BY DEF OneActiveJobPerRun, Active, HasActiveJob
  <1>3. OwnerAndLeaseMatchStatus'
    BY DEF OwnerAndLeaseMatchStatus
  <1>4. OwnedJobHasRole' /\ OwnerHasTargetRole'
    BY DEF OwnedJobHasRole, OwnerHasTargetRole
  <1> QED
    BY <1>1, <1>2, <1>3, <1>4

LEMMA ClaimPreserves ==
  ASSUME IInv, NEW j \in Job, NEW n \in Node, NEW role \in Role,
         NEW runs \in SUBSET Run, ClaimNextRunJob(j, n, role, runs)
  PROVE  IInv'
  <1> USE RunJobsAssumption
      DEF ClaimNextRunJob, Claimable, OnlineAs, TypeOK, JobRow, NodeRow, IInv
  <1>1. TypeOK'
    <2>1. jobs[j] \in JobRow
      OBVIOUS
    <2>2. [jobs[j] EXCEPT !.status = "claimed", !.owner = n, !.lease = "live"]
            \in JobRow
      BY <2>1
    <2>3. jobs' = [jobs EXCEPT ![j] = [jobs[j] EXCEPT !.status = "claimed",
                                         !.owner = n, !.lease = "live"]]
      OBVIOUS
    <2> QED
      BY <2>2, <2>3
  <1>2. OneActiveJobPerRun'
    BY DEF OneActiveJobPerRun, Active
  <1>3. OwnerAndLeaseMatchStatus'
    BY DEF OwnerAndLeaseMatchStatus
  <1>4. OwnedJobHasRole' /\ OwnerHasTargetRole'
    BY DEF OwnedJobHasRole, OwnerHasTargetRole
  <1> QED
    BY <1>1, <1>2, <1>3, <1>4

\* The four calls of a claim holder leave run, role and owner alone and take a
\* held row to a held or an ended one.
HolderStep(j) ==
  \E s \in {"claimed", "running", "complete", "failed"}, l \in {"live", "none"} :
    /\ jobs[j].status \in {"claimed", "running"}
    /\ s \in {"claimed", "running"} <=> l = "live"
    /\ s = "claimed" => jobs[j].status = "claimed"
    /\ jobs' = [jobs EXCEPT ![j].status = s, ![j].lease = l]
    /\ UNCHANGED nodes

LEMMA HolderCalls ==
  ASSUME IInv, NEW j \in Job, NEW n \in Node,
         \/ MarkRunJobRunning(j, n)
         \/ RenewRunJobLease(j, n)
         \/ CompleteRunJob(j, n)
         \/ FailRunJob(j, n)
  PROVE  HolderStep(j)
  <1> USE DEF IInv, TypeOK, JobRow, HeldBy, HolderStep
  <1>1. CASE MarkRunJobRunning(j, n)
    BY <1>1 DEF MarkRunJobRunning
  <1>2. CASE RenewRunJobLease(j, n)
    BY <1>2 DEF RenewRunJobLease
  <1>3. CASE CompleteRunJob(j, n)
    BY <1>3 DEF CompleteRunJob
  <1>4. CASE FailRunJob(j, n)
    BY <1>4 DEF FailRunJob
  <1> QED
    BY <1>1, <1>2, <1>3, <1>4

LEMMA HolderPreserves ==
  ASSUME IInv, NEW j \in Job, HolderStep(j)
  PROVE  IInv'
  <1> USE RunJobsAssumption DEF TypeOK, JobRow, NodeRow, IInv
  <1>1. PICK s \in {"claimed", "running", "complete", "failed"}, l \in {"live", "none"} :
          /\ jobs[j].status \in {"claimed", "running"}
          /\ s \in {"claimed", "running"} <=> l = "live"
          /\ s = "claimed" => jobs[j].status = "claimed"
          /\ jobs' = [jobs EXCEPT ![j].status = s, ![j].lease = l]
          /\ UNCHANGED nodes
    BY DEF HolderStep
  <1>2. TypeOK'
    <2>1. jobs[j] \in JobRow
      OBVIOUS
    <2>2. [jobs[j] EXCEPT !.status = s, !.lease = l] \in JobRow
      BY <2>1
    <2>3. jobs' = [jobs EXCEPT ![j] = [jobs[j] EXCEPT !.status = s, !.lease = l]]
      BY <1>1
    <2> QED
      BY <1>1, <2>2, <2>3
  <1>3. OneActiveJobPerRun'
    BY <1>1 DEF OneActiveJobPerRun, Active
  <1>4. OwnerAndLeaseMatchStatus'
    BY <1>1 DEF OwnerAndLeaseMatchStatus
  <1>5. OwnedJobHasRole' /\ OwnerHasTargetRole'
    BY <1>1 DEF OwnedJobHasRole, OwnerHasTargetRole
  <1> QED
    BY <1>2, <1>3, <1>4, <1>5

LEMMA ExpiryPreserves ==
  ASSUME IInv, NEW j \in Job, LeaseExpires(j)
  PROVE  IInv'
  <1> USE RunJobsAssumption DEF LeaseExpires, TypeOK, JobRow, NodeRow, IInv
  <1>1. TypeOK'
    OBVIOUS
  <1>2. OneActiveJobPerRun'
    BY DEF OneActiveJobPerRun, Active
  <1>3. OwnerAndLeaseMatchStatus'
    BY DEF OwnerAndLeaseMatchStatus
  <1>4. OwnedJobHasRole' /\ OwnerHasTargetRole'
    BY DEF OwnedJobHasRole, OwnerHasTargetRole
  <1> QED
    BY <1>1, <1>2, <1>3, <1>4

\* The heartbeat calls leave the jobs alone and keep the role of a registered
\* node.
NodeStep ==
  /\ jobs' = jobs
  /\ nodes' \in [Node -> NodeRow]
  /\ \A m \in Node : nodes[m].role # NoRole => nodes'[m].role = nodes[m].role

LEMMA NodeCalls ==
  ASSUME IInv, NEW n \in Node, NodeCall(n)
  PROVE  NodeStep
  <1> USE RunJobsAssumption DEF IInv, TypeOK, NodeRow, NodeStep
  <1>1. ASSUME NEW role \in Role, UpsertWorkerNodeHeartbeat(n, role)
        PROVE  NodeStep
    <2>1. nodes' \in [Node -> NodeRow] /\ jobs' = jobs
      BY <1>1 DEF UpsertWorkerNodeHeartbeat
    <2>2. nodes'[n].role = role /\ \A m \in Node : m # n => nodes'[m] = nodes[m]
      BY <1>1 DEF UpsertWorkerNodeHeartbeat
    <2> QED
      BY <1>1, <2>1, <2>2 DEF UpsertWorkerNodeHeartbeat
  <1>2. CASE MarkWorkerNodeOffline(n)
    BY <1>2 DEF MarkWorkerNodeOffline
  <1> QED
    BY <1>1, <1>2 DEF NodeCall

LEMMA NodeCallPreserves ==
  ASSUME IInv, NEW n \in Node, NodeCall(n)
  PROVE  IInv'
  <1> USE RunJobsAssumption DEF TypeOK, JobRow, NodeRow, IInv, NodeStep
  <1>1. NodeStep
    BY NodeCalls
  <1>2. TypeOK'
    BY <1>1
  <1>3. OneActiveJobPerRun' /\ OwnerAndLeaseMatchStatus' /\ OwnedJobHasRole'
    BY <1>1 DEF OneActiveJobPerRun, Active, OwnerAndLeaseMatchStatus, OwnedJobHasRole
  <1>4. OwnerHasTargetRole'
    BY <1>1 DEF OwnerHasTargetRole, OwnedJobHasRole
  <1> QED
    BY <1>2, <1>3, <1>4

-----------------------------------------------------------------------------
LEMMA StepPreserves == IInv /\ [Next]_queueVars => IInv'
  <1> SUFFICES ASSUME IInv, [Next]_queueVars
               PROVE  IInv'
    OBVIOUS
  <1>1. CASE \E j \in Job, r \in Run, role \in Role : EnqueueRunJob(j, r, role)
    BY <1>1, EnqueuePreserves
  <1>2. ASSUME NEW j \in Job, NEW n \in Node, QueueCall(j, n)
        PROVE  IInv'
    <2>1. CASE \E role \in Role, runs \in RunFilter : ClaimNextRunJob(j, n, role, runs)
      <3>1. RunFilter \subseteq SUBSET Run
        BY DEF RunFilter
      <3> QED
        BY <2>1, <3>1, ClaimPreserves
    <2>2. CASE \/ MarkRunJobRunning(j, n) \/ RenewRunJobLease(j, n)
               \/ CompleteRunJob(j, n) \/ FailRunJob(j, n)
      BY <2>2, HolderCalls, HolderPreserves
    <2> QED
      BY <1>2, <2>1, <2>2 DEF QueueCall
  <1>3. CASE \E n \in Node : NodeCall(n)
    BY <1>3, NodeCallPreserves
  <1>4. CASE \E j \in Job : LeaseExpires(j)
    BY <1>4, ExpiryPreserves
  <1>5. CASE UNCHANGED queueVars
    BY <1>5
    DEF queueVars, IInv, TypeOK, OneActiveJobPerRun, Active, OwnerAndLeaseMatchStatus,
        OwnedJobHasRole, OwnerHasTargetRole
  <1> QED
    BY <1>1, <1>2, <1>3, <1>4, <1>5 DEF Next

LEMMA Invariance == Spec => []IInv
  BY InitEstablishes, StepPreserves, PTL DEF Spec

\* The tables hold only what their columns and CHECK constraints allow.
THEOREM TypeCorrect == Spec => []TypeOK
  <1>1. IInv => TypeOK
    BY DEF IInv
  <1> QED
    BY <1>1, Invariance, PTL

\* No run ever has two queued, claimed or running jobs, whatever claims,
\* reclaims, completions and re-enqueues happen around it.
THEOREM AtMostOneActiveJob == Spec => []OneActiveJobPerRun
  <1>1. IInv => OneActiveJobPerRun
    BY DEF IInv
  <1> QED
    BY <1>1, Invariance, PTL

\* assigned_node and lease_expires_at always agree with the status, so every
\* held job can expire and be reclaimed, and no ended job can.
THEOREM LeaseDiscipline == Spec => []OwnerAndLeaseMatchStatus
  <1>1. IInv => OwnerAndLeaseMatchStatus
    BY DEF IInv
  <1> QED
    BY <1>1, Invariance, PTL

\* The node on a job is registered in the job's role, then and ever after.
THEOREM OwnersKeepTheirRole == Spec => []OwnerHasTargetRole
  <1>1. IInv => OwnerHasTargetRole
    BY DEF IInv
  <1> QED
    BY <1>1, Invariance, PTL

-----------------------------------------------------------------------------
\* Both action properties hold of a claim, the one step that changes an owner.
LEMMA ClaimTakes ==
  ASSUME IInv, NEW j \in Job, NEW n \in Node, NEW role \in Role,
         NEW runs \in SUBSET Run, ClaimNextRunJob(j, n, role, runs), NEW k \in Job
  PROVE  StatusFollowsGraph(k) /\ TakenAfterExpiry(k)
  <1> USE DEF IInv, TypeOK, JobRow, ClaimNextRunJob, Claimable
  <1>1. CASE k # j
    BY <1>1 DEF StatusFollowsGraph, TakenAfterExpiry
  <1>2. CASE k = j
    <2>1. jobs'[j].status = "claimed"
      OBVIOUS
    <2>2. jobs[j].status \in {"queued", "running"} =>
            IsAllowedStateTransition(JobGraph, jobs[j].status, "claimed")
      BY DEF IsAllowedStateTransition, JobGraph
    <2>3. StatusFollowsGraph(j)
      BY <2>1, <2>2 DEF StatusFollowsGraph
    <2>4. TakenAfterExpiry(j)
      BY <2>1 DEF TakenAfterExpiry, OwnerAndLeaseMatchStatus
    <2> QED
      BY <1>2, <2>3, <2>4
  <1> QED
    BY <1>1, <1>2

\* A holder's call keeps the owner and moves the status along the graph.
LEMMA HolderMoves ==
  ASSUME IInv, NEW j \in Job, HolderStep(j), NEW k \in Job
  PROVE  StatusFollowsGraph(k) /\ TakenAfterExpiry(k)
  <1> USE DEF IInv, TypeOK, JobRow
  <1>1. PICK s \in {"claimed", "running", "complete", "failed"}, l \in {"live", "none"} :
          /\ jobs[j].status \in {"claimed", "running"}
          /\ s = "claimed" => jobs[j].status = "claimed"
          /\ jobs' = [jobs EXCEPT ![j].status = s, ![j].lease = l]
    BY DEF HolderStep
  <1>2. jobs'[k].owner = jobs[k].owner
    BY <1>1
  <1>3. jobs'[j].status = s /\ (k # j => jobs'[k] = jobs[k])
    BY <1>1
  <1>4. s # jobs[j].status => IsAllowedStateTransition(JobGraph, jobs[j].status, s)
    BY <1>1 DEF IsAllowedStateTransition, JobGraph
  <1>5. StatusFollowsGraph(k)
    BY <1>1, <1>3, <1>4 DEF StatusFollowsGraph
  <1> QED
    BY <1>2, <1>5 DEF TakenAfterExpiry

LEMMA EveryStepMoves ==
  ASSUME IInv, [Next]_queueVars, NEW k \in Job
  PROVE  StatusFollowsGraph(k) /\ TakenAfterExpiry(k)
  <1> USE DEF StatusFollowsGraph, TakenAfterExpiry
  <1>1. ASSUME NEW j \in Job, NEW r \in Run, NEW role \in Role, EnqueueRunJob(j, r, role)
        PROVE  StatusFollowsGraph(k) /\ TakenAfterExpiry(k)
    BY <1>1 DEF EnqueueRunJob, IInv, TypeOK, JobRow, OwnerAndLeaseMatchStatus
  <1>2. ASSUME NEW j \in Job, NEW n \in Node, QueueCall(j, n)
        PROVE  StatusFollowsGraph(k) /\ TakenAfterExpiry(k)
    <2>1. CASE \E role \in Role, runs \in RunFilter : ClaimNextRunJob(j, n, role, runs)
      <3>1. RunFilter \subseteq SUBSET Run
        BY DEF RunFilter
      <3> QED
        BY <2>1, <3>1, ClaimTakes
    <2>2. CASE \/ MarkRunJobRunning(j, n) \/ RenewRunJobLease(j, n)
               \/ CompleteRunJob(j, n) \/ FailRunJob(j, n)
      BY <2>2, HolderCalls, HolderMoves
    <2> QED
      BY <1>2, <2>1, <2>2 DEF QueueCall
  <1>3. CASE \E n \in Node : NodeCall(n)
    BY <1>3, NodeCalls DEF NodeStep
  <1>4. CASE \E j \in Job : LeaseExpires(j)
    BY <1>4 DEF LeaseExpires, IInv, TypeOK, JobRow
  <1>5. CASE UNCHANGED queueVars
    BY <1>5 DEF queueVars
  <1> QED
    BY <1>1, <1>2, <1>3, <1>4, <1>5 DEF Next

\* Every status change any call makes is an edge of the published graph, and
\* nobody takes a job from its holder before the lease has run out.
THEOREM RowsKeepTheRules == Spec => RowsMoveByTheRules
  <1>1. IInv /\ [Next]_queueVars =>
          [\A j \in Job : StatusFollowsGraph(j) /\ TakenAfterExpiry(j)]_queueVars
    BY EveryStepMoves
  <1> QED
    BY <1>1, Invariance, PTL DEF Spec, RowsMoveByTheRules

-----------------------------------------------------------------------------
\* What the mapping shows of a step on row j: the outcome of that row alone.
LEMMA OutcomeOfRow ==
  ASSUME NEW j \in Job, TypeOK
  PROVE  /\ jobs[j].status = "absent" <=> OutcomeOf(j) = "none"
         /\ Active(j) <=> OutcomeOf(j) = "pending"
         /\ jobs[j].status \in TerminalJobStatus => OutcomeOf(j) = jobs[j].status
  BY DEF TypeOK, JobRow, OutcomeOf, Active

\* A queue of held, waiting and ended rows implements the two-state promise:
\* an enqueue submits, a completion or a failure resolves, and everything else
\* is invisible.
THEOREM RefinesOutcomes == Spec => ImplementsJobOutcomes
  <1>1. Init => Outcomes!Init
    BY DEF Init, Outcomes!Init, OutcomeOf, AbsentJob
  <1>2. IInv /\ IInv' /\ [Next]_queueVars => [Outcomes!Next]_(Outcomes!vars)
    <2> SUFFICES ASSUME IInv, IInv', [Next]_queueVars
                 PROVE  [Outcomes!Next]_(Outcomes!vars)
      OBVIOUS
    <2> DEFINE out == [j \in Job |-> OutcomeOf(j)]
               tgt == [j \in Job |-> jobs[j].run]
    <2>1. ASSUME NEW j \in Job, NEW r \in Run, NEW role \in Role, EnqueueRunJob(j, r, role)
          PROVE  Outcomes!Submit(j, r)
      <3>1. out[j] = "none" /\ \A k \in Job : out[k] = "pending" => tgt[k] # r
        BY <2>1, OutcomeOfRow DEF EnqueueRunJob, HasActiveJob, IInv
      <3>2. out' = [out EXCEPT ![j] = "pending"]
        BY <2>1 DEF EnqueueRunJob, IInv, TypeOK, JobRow, OutcomeOf
      <3>3. tgt' = [tgt EXCEPT ![j] = r]
        BY <2>1 DEF EnqueueRunJob, IInv, TypeOK, JobRow
      <3> QED
        BY <3>1, <3>2, <3>3 DEF Outcomes!Submit
    <2>2. ASSUME out' = out, tgt' = tgt
          PROVE  UNCHANGED Outcomes!vars
      BY <2>2 DEF Outcomes!vars
    <2>3. ASSUME NEW j \in Job, NEW s \in ActiveJobStatus, Active(j),
                 jobs'[j].status = s, jobs'[j].run = jobs[j].run,
                 \A k \in Job : k # j => jobs'[k] = jobs[k]
          PROVE  out' = out /\ tgt' = tgt
      BY <2>3 DEF OutcomeOf, Active
    <2>4. ASSUME NEW j \in Job, NEW n \in Node, NEW role \in Role, NEW runs \in SUBSET Run,
                 ClaimNextRunJob(j, n, role, runs)
          PROVE  out' = out /\ tgt' = tgt
      BY <2>3, <2>4 DEF ClaimNextRunJob, Claimable, Active, IInv, TypeOK, JobRow
    <2>5. ASSUME NEW j \in Job, HolderStep(j)
          PROVE  \/ out' = out /\ tgt' = tgt
                 \/ \E o \in {"complete", "failed"} : Outcomes!Resolve(j, o)
      <3>1. PICK s \in {"claimed", "running", "complete", "failed"}, l \in {"live", "none"} :
              /\ jobs[j].status \in {"claimed", "running"}
              /\ jobs' = [jobs EXCEPT ![j].status = s, ![j].lease = l]
        BY <2>5 DEF HolderStep
      <3>2. /\ jobs'[j].status = s
            /\ jobs'[j].run = jobs[j].run
            /\ \A k \in Job : k # j => jobs'[k] = jobs[k]
        BY <3>1 DEF IInv, TypeOK, JobRow
      <3>3. CASE s \in ActiveJobStatus
        BY <2>3, <3>1, <3>2, <3>3 DEF Active
      <3>4. CASE s \in {"complete", "failed"}
        <4>1. out[j] = "pending"
          BY <3>1, OutcomeOfRow DEF Active, IInv
        <4>2. out' = [out EXCEPT ![j] = s]
          BY <3>2, <3>4 DEF OutcomeOf
        <4>3. tgt' = tgt
          BY <3>2
        <4> QED
          BY <3>4, <4>1, <4>2, <4>3 DEF Outcomes!Resolve
      <3> QED
        BY <3>3, <3>4
    <2>6. ASSUME NEW j \in Job, LeaseExpires(j)
          PROVE  out' = out /\ tgt' = tgt
      BY <2>6 DEF LeaseExpires, IInv, TypeOK, JobRow, OutcomeOf
    <2>7. CASE jobs' = jobs
      BY <2>2, <2>7 DEF OutcomeOf
    <2>8. ASSUME NEW j \in Job, NEW n \in Node, QueueCall(j, n)
          PROVE  [Outcomes!Next]_(Outcomes!vars)
      <3>1. CASE \E role \in Role, runs \in RunFilter : ClaimNextRunJob(j, n, role, runs)
        <4>1. RunFilter \subseteq SUBSET Run
          BY DEF RunFilter
        <4> QED
          BY <2>2, <2>4, <3>1, <4>1
      <3>2. CASE HolderStep(j)
        BY <2>2, <2>5, <3>2 DEF Outcomes!Next
      <3> QED
        BY <2>8, <3>1, <3>2, HolderCalls DEF QueueCall
    <2>9. CASE \E n \in Node : NodeCall(n)
      BY <2>7, <2>9, NodeCalls DEF NodeStep
    <2>10. CASE \E j \in Job, r \in Run, role \in Role : EnqueueRunJob(j, r, role)
      BY <2>1, <2>10 DEF Outcomes!Next
    <2>11. CASE \E j \in Job : LeaseExpires(j)
      BY <2>2, <2>6, <2>11
    <2> QED
      BY <2>7, <2>8, <2>9, <2>10, <2>11 DEF Next, queueVars
  <1> QED
    BY <1>1, <1>2, Invariance, PTL DEF Spec, ImplementsJobOutcomes, Outcomes!Spec
=============================================================================
