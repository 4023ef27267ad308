------------------------------- MODULE RunJobs -------------------------------
(***************************************************************************)
(* The durable run queue: the tables run_jobs and worker_nodes and the     *)
(* single-statement operations AppStore performs on them.  PostgreSQL runs *)
(* each statement atomically, so each is one action.  Any node may call    *)
(* any operation on any job at any time; who calls what, and when, is the  *)
(* business of RunExecution, which composes this module with the workers.  *)
(*                                                                         *)
(* Jobs are numbered in created_at order.  A lease is kept as live or      *)
(* expired: a clock that passes lease_expires_at is the action             *)
(* LeaseExpires.  attempt_count is only ever logged and is left out, and   *)
(* required_capabilities is NULL in every job the code creates.            *)
(***************************************************************************)
EXTENDS Naturals, LifecycleGraph

CONSTANTS
  Run,      \* the runs of agent_runs
  Node,     \* the values of NODE_ID
  Role,     \* the worker roles, compute and eval
  MaxJobs,  \* bound: rows of run_jobs ever created
  NoRun, NoNode, NoRole   \* SQL NULL and rows that do not exist yet

ASSUME RunJobsAssumption ==
  /\ MaxJobs \in Nat
  /\ NoRun \notin Run
  /\ NoNode \notin Node
  /\ NoRole \notin Role

VARIABLES
  jobs,     \* run_jobs
  nodes     \* worker_nodes

queueVars == <<jobs, nodes>>

Job == 1..MaxJobs

JobRow == [status : JobStatus \cup {"absent"},
           run    : Run \cup {NoRun},
           role   : Role \cup {NoRole},
           owner  : Node \cup {NoNode},             \* assigned_node
           lease  : {"none", "live", "expired"}]    \* lease_expires_at

NodeRow == [role   : Role \cup {NoRole},            \* NoRole: no row yet
            status : {"online", "offline"}]

AbsentJob == [status |-> "absent", run |-> NoRun, role |-> NoRole,
              owner |-> NoNode, lease |-> "none"]

-----------------------------------------------------------------------------
Active(j) == jobs[j].status \in ActiveJobStatus

\* Faulty variant: the index covers the rows nobody has claimed yet.
HasUnclaimedJob(r) == \E j \in Job : jobs[j].run = r /\ jobs[j].status = "queued"

\* getActiveRunJobByRunId finds a row.
HasActiveJob(r) == \E j \in Job : jobs[j].run = r /\ Active(j)

\* Faulty variant: the statements match on the node alone.
OwnedBy(j, n) == jobs[j].owner = n

\* The WHERE clause shared by every operation a claim holder performs.
HeldBy(j, n) == jobs[j].owner = n /\ jobs[j].status \in {"claimed", "running"}

\* claimNextRunJob: the node is registered online in the role it asks for.
OnlineAs(n, role) == nodes[n].role = role /\ nodes[n].status = "online"

\* Faulty variant: a held job is up for grabs while its lease is live.
ClaimableWhileLeased(j, role, runs) ==
  /\ jobs[j].role = role
  /\ jobs[j].run \in runs
  /\ Active(j)

\* Faulty variant: a job is claimed once and never reclaimed.
ClaimableOnce(j, role, runs) ==
  /\ jobs[j].role = role
  /\ jobs[j].run \in runs
  /\ jobs[j].status = "queued"

\* claimNextRunJob: the rows the sub-select may return.
Claimable(j, role, runs) ==
  /\ jobs[j].role = role
  /\ jobs[j].run \in runs
  /\ \/ jobs[j].status = "queued"
     \/ jobs[j].status \in {"claimed", "running"} /\ jobs[j].lease = "expired"

-----------------------------------------------------------------------------
Init ==
  /\ jobs = [j \in Job |-> AbsentJob]
  /\ nodes = [n \in Node |-> [role |-> NoRole, status |-> "offline"]]

\* enqueueRunJob when the partial unique index lets the INSERT through.  When
\* it does not, the call returns the active job it collided with (or throws,
\* if that job has ended since) and the table is as it was.
EnqueueRunJob(j, r, role) ==
  /\ ~HasActiveJob(r)
  /\ jobs[j].status = "absent"
  /\ \A k \in Job : k < j => jobs[k].status # "absent"
  /\ jobs' = [jobs EXCEPT ![j] = [status |-> "queued", run |-> r, role |-> role,
                                  owner |-> NoNode, lease |-> "none"]]
  /\ UNCHANGED nodes

\* claimNextRunJob orders the claimable rows by age, but SKIP LOCKED passes over
\* those other statements are working on: it may return any of them.
ClaimNextRunJob(j, n, role, runs) ==
  /\ OnlineAs(n, role)
  /\ Claimable(j, role, runs)
  /\ jobs' = [jobs EXCEPT ![j].status = "claimed", ![j].owner = n,
                          ![j].lease = "live"]
  /\ UNCHANGED nodes

\* markRunJobRunning does not ask whether the lease is still live.
MarkRunJobRunning(j, n) ==
  /\ HeldBy(j, n)
  /\ jobs' = [jobs EXCEPT ![j].status = "running", ![j].lease = "live"]
  /\ UNCHANGED nodes

\* renewRunJobLease revives an expired lease nobody else has claimed.
RenewRunJobLease(j, n) ==
  /\ HeldBy(j, n)
  /\ jobs' = [jobs EXCEPT ![j].lease = "live"]
  /\ UNCHANGED nodes

\* completeRunJob keeps assigned_node and clears the lease.
CompleteRunJob(j, n) ==
  /\ HeldBy(j, n)
  /\ jobs' = [jobs EXCEPT ![j].status = "complete", ![j].lease = "none"]
  /\ UNCHANGED nodes

\* failRunJob
FailRunJob(j, n) ==
  /\ HeldBy(j, n)
  /\ jobs' = [jobs EXCEPT ![j].status = "failed", ![j].lease = "none"]
  /\ UNCHANGED nodes

\* upsertWorkerNodeHeartbeat: a node id keeps the role it first registered
\* with; the call throws when the role differs.
UpsertWorkerNodeHeartbeat(n, role) ==
  /\ nodes[n].role \in {NoRole, role}
  /\ nodes' = [nodes EXCEPT ![n].role = role, ![n].status = "online"]
  /\ UNCHANGED jobs

\* Faulty variant: a status outside the table's CHECK constraint.
MarkWorkerNodeStopped(n) ==
  /\ nodes[n].role # NoRole
  /\ nodes' = [nodes EXCEPT ![n].status = "stopped"]
  /\ UNCHANGED jobs

\* markWorkerNodeOffline
MarkWorkerNodeOffline(n) ==
  /\ nodes[n].role # NoRole
  /\ nodes' = [nodes EXCEPT ![n].status = "offline"]
  /\ UNCHANGED jobs

\* NOW() passes lease_expires_at.
LeaseExpires(j) ==
  /\ jobs[j].lease = "live"
  /\ jobs' = [jobs EXCEPT ![j].lease = "expired"]
  /\ UNCHANGED nodes

\* claimNextRunJob takes a runId filter (a local "run --wait") or none at all.
RunFilter == {Run} \cup {{r} : r \in Run}

QueueCall(j, n) ==
  \/ \E role \in Role, runs \in RunFilter : ClaimNextRunJob(j, n, role, runs)
  \/ MarkRunJobRunning(j, n)
  \/ RenewRunJobLease(j, n)
  \/ CompleteRunJob(j, n)
  \/ FailRunJob(j, n)

NodeCall(n) ==
  \/ \E role \in Role : UpsertWorkerNodeHeartbeat(n, role)
  \/ MarkWorkerNodeOffline(n)

Next ==
  \/ \E j \in Job, r \in Run, role \in Role : EnqueueRunJob(j, r, role)
  \/ \E j \in Job, n \in Node : QueueCall(j, n)
  \/ \E n \in Node : NodeCall(n)
  \/ \E j \in Job : LeaseExpires(j)

Spec == Init /\ [][Next]_queueVars

-----------------------------------------------------------------------------
\* Every row has the columns and the values its table allows.
TypeOK ==
  /\ jobs \in [Job -> JobRow]
  /\ nodes \in [Node -> NodeRow]

\* At most one queued, claimed or running job per run, through every reclaim,
\* completion and re-enqueue: what keeps two workers from being handed the
\* same run through two different rows.
OneActiveJobPerRun ==
  \A j, k \in Job :
    Active(j) /\ Active(k) /\ jobs[j].run = jobs[k].run => j = k

\* assigned_node and lease_expires_at agree with status on every path: a
\* queued row has neither; a held row has both (a held row with a NULL lease
\* could never be reclaimed); an ended row keeps the node and drops the lease.
OwnerAndLeaseMatchStatus ==
  \A j \in Job :
    /\ jobs[j].status \in {"absent", "queued"} =>
         jobs[j].owner = NoNode /\ jobs[j].lease = "none"
    /\ jobs[j].status \in {"claimed", "running"} =>
         jobs[j].owner \in Node /\ jobs[j].lease # "none"
    /\ jobs[j].status \in TerminalJobStatus =>
         jobs[j].owner \in Node /\ jobs[j].lease = "none"

\* The node that holds, or ended, a job is registered in the role the job asks
\* for: roles are read at claim time only, so this needs that a node id can
\* never change role under a job it holds.
OwnerHasTargetRole ==
  \A j \in Job : jobs[j].owner # NoNode => nodes[jobs[j].owner].role = jobs[j].role

StatusFollowsGraph(j) ==
  jobs'[j].status # jobs[j].status =>
    IF jobs[j].status = "absent"
    THEN jobs'[j].status = "queued"
    ELSE IsAllowedStateTransition(JobGraph, jobs[j].status, jobs'[j].status)

TakenAfterExpiry(j) ==
  jobs[j].owner # NoNode /\ jobs'[j].owner # jobs[j].owner =>
    jobs[j].lease = "expired" /\ jobs'[j].status = "claimed"

\* However calls of nodes, expiries and re-enqueues interleave, a row's status
\* moves along the published job graph, a new row starts as queued, and a job is
\* taken from the node that holds it only after its lease ran out.
RowsMoveByTheRules ==
  [][\A j \in Job : StatusFollowsGraph(j) /\ TakenAfterExpiry(j)]_queueVars

-----------------------------------------------------------------------------
\* The mapping under which this table implements JobOutcomes: every held or
\* waiting row is one pending job.
OutcomeOf(j) ==
  CASE jobs[j].status = "absent"           -> "none"
    [] jobs[j].status \in ActiveJobStatus -> "pending"
    [] OTHER                               -> jobs[j].status

Outcomes == INSTANCE JobOutcomes
            WITH outcome <- [j \in Job |-> OutcomeOf(j)],
                 target  <- [j \in Job |-> jobs[j].run]

\* Claims, reclaims, renewals, lost leases and nodes that come and go are
\* invisible to whoever submitted a job: it is resolved once, for good, and no
\* second job of its run is pending meanwhile.
ImplementsJobOutcomes == Outcomes!Spec
=============================================================================
