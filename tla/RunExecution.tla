----------------------------- MODULE RunExecution -----------------------------
(***************************************************************************)
(* The durable queue at work: agent_runs rows, the worker processes that   *)
(* claim their jobs and drive the kernel through them, and the API calls   *)
(* that create and resume runs.  RunJobs supplies the queue (Q!...).       *)
(*                                                                         *)
(* A worker is the sequential program of scripts/agent-job-worker with     *)
(* kernel.executeRunJob and kernel.executeLoop inlined; every await that   *)
(* reads or writes shared state ends a step.  The statuses running,        *)
(* correcting, optimizing and validating are one here ("running"): what    *)
(* the loop does between them is KernelLoop's business.                    *)
(*                                                                         *)
(* Everything that goes wrong draws on one budget, faults: a process that  *)
(* crashes or is shut down, a call that throws, a timer that fires late, a *)
(* step that outlasts the staleness limit of its lock.                     *)
(*                                                                         *)
(* index counts the steps of the plan as it was made: the corrections the  *)
(* loop splices in behind a failed step belong to the step they repair.    *)
(***************************************************************************)
EXTENDS Naturals, LifecycleGraph

CONSTANTS
  Run, Node, Role, MaxJobs, NoRun, NoNode, NoRole,   \* as in RunJobs
  Pid,          \* process ids; a container may well reuse one
  NoOwner,      \* run_lock_owner IS NULL
  PlanLen,      \* steps in a run's plan
  MaxFaults,    \* bound: faults in a behaviour
  MaxResumes    \* bound: resume requests in a behaviour

ASSUME RunExecutionAssumption ==
  /\ MaxJobs \in Nat
  /\ NoRun \notin Run
  /\ NoNode \notin Node
  /\ NoRole \notin Role
  /\ NoOwner \notin Pid \X Node \X (1..MaxJobs)
  /\ PlanLen \in Nat \ {0}
  /\ MaxFaults \in Nat
  /\ MaxResumes \in Nat

VARIABLES
  jobs, nodes,  \* the queue
  runs,         \* agent_runs
  effects,      \* how often each plan step's effects were committed (up to 2)
  w,            \* the memory of each node's worker process
  api,          \* what the API handler on each run will do next
  swallowed,    \* ghost: an error on the way to the run's row or job was dropped
  faults, resumes

queueVars == <<jobs, nodes>>
vars == <<jobs, nodes, runs, effects, w, api, swallowed, faults, resumes>>

Q == INSTANCE RunJobs

NoJob == 0

WorkerPc == {"down", "idle", "claimed", "read", "acquire", "setRunning", "refresh",
             "exec", "advance", "stepFailed", "release", "complete", "markRead",
             "markWrite", "fail"}

\* executeLoop holds the run's lock and its finally block has not run yet.
Section == {"setRunning", "refresh", "exec", "advance", "stepFailed", "release"}

Down(pid) == [pc |-> "down", pid |-> pid, job |-> NoJob, index |-> 0, err |-> FALSE,
              overslept |-> FALSE, stopping |-> FALSE]

-----------------------------------------------------------------------------
RunOf(n) == jobs[w[n].job].run

\* buildRunLockOwner: the pid, and the request id worker:<node>:<job>.
Me(n) == <<w[n].pid, n, w[n].job>>

InSection(n) == w[n].pc \in Section

\* A live process is executing the run under the lock its row records.
OwnerAlive(r) == \E n \in Node : InSection(n) /\ RunOf(n) = r /\ Me(n) = runs[r].owner

\* A live process is at work on the job, and its lease timer is running.
Attended(j) ==
  \E n \in Node : w[n].pc \notin {"down", "idle"} /\ w[n].job = j /\ Q!HeldBy(j, n)

Goto(n, pc) == w' = [w EXCEPT ![n].pc = pc]

\* The worker's loop starts over; everything about the job is forgotten.
GoIdle(n) == w' = [w EXCEPT ![n] = [Down(@.pid) EXCEPT !.pc = "idle",
                                                       !.stopping = w[n].stopping]]

Fault == faults < MaxFaults /\ faults' = faults + 1

SetStatus(r, s) == runs' = [runs EXCEPT ![r].status = s]

-----------------------------------------------------------------------------
Init ==
  /\ Q!Init
  /\ runs = [r \in Run |-> [status |-> "absent", index |-> 0, owner |-> NoOwner,
                            stale |-> FALSE]]
  /\ effects = [r \in Run |-> [i \in 0..PlanLen-1 |-> 0]]
  /\ \E pid \in Pid : w = [n \in Node |-> Down(pid)]
  /\ api = [r \in Run |-> "none"]
  /\ swallowed = [r \in Run |-> FALSE]
  /\ faults = 0
  /\ resumes = 0

-----------------------------------------------------------------------------
\* main: initialize, register online, enter the loop.
Start(n) ==
  /\ w[n].pc = "down"
  /\ \E role \in Role : Q!UpsertWorkerNodeHeartbeat(n, role)
  /\ \E pid \in Pid : w' = [w EXCEPT ![n] = [Down(pid) EXCEPT !.pc = "idle"]]
  /\ UNCHANGED <<runs, effects, api, swallowed, faults, resumes>>

\* The heartbeat timer; one already sent survives clearInterval in shutdown.
Heartbeat(n) ==
  /\ w[n].pc # "down"
  /\ Q!UpsertWorkerNodeHeartbeat(n, nodes[n].role)
  /\ UNCHANGED <<runs, effects, w, api, swallowed, faults, resumes>>

Claim(n) ==
  /\ w[n].pc = "idle"
  /\ ~w[n].stopping
  /\ \E j \in Q!Job : /\ Q!ClaimNextRunJob(j, n, nodes[n].role, Run)
                      /\ w' = [w EXCEPT ![n].pc = "claimed", ![n].job = j]
  /\ UNCHANGED <<runs, effects, api, swallowed, faults, resumes>>

\* markRunJobRunning; no row came back: the claim was lost.
MarkRunning(n) ==
  /\ w[n].pc = "claimed"
  /\ \/ Q!MarkRunJobRunning(w[n].job, n) /\ Goto(n, "read")
     \/ ~Q!HeldBy(w[n].job, n) /\ GoIdle(n) /\ UNCHANGED queueVars
  /\ UNCHANGED <<runs, effects, api, swallowed, faults, resumes>>

\* The lease timer, from markRunJobRunning to the finally block.
RenewLease(n) ==
  /\ w[n].pc \notin {"down", "idle", "claimed"}
  /\ Q!RenewRunJobLease(w[n].job, n)
  /\ UNCHANGED <<runs, effects, w, api, swallowed, faults, resumes>>

-----------------------------------------------------------------------------
\* executeRunJob reads the run: a complete one is handed back as it is, any
\* other, a failed one too, is executed.
ReadRun(n) ==
  /\ w[n].pc = "read"
  /\ Goto(n, IF runs[RunOf(n)].status = "complete" THEN "complete" ELSE "acquire")
  /\ UNCHANGED <<queueVars, runs, effects, api, swallowed, faults, resumes>>

\* acquireAgentRunExecutionLock: no owner, this owner, or one gone stale.
LockAvailable(r, n) ==
  runs[r].owner \in {NoOwner, Me(n)} \/ runs[r].stale

\* The lock is taken, or executeLoop throws before its try block.
Acquire(n) ==
  LET r == RunOf(n) IN
  /\ w[n].pc = "acquire"
  /\ \/ /\ LockAvailable(r, n)
        /\ runs' = [runs EXCEPT ![r].owner = Me(n), ![r].stale = FALSE]
        /\ Goto(n, "setRunning")
     \/ ~LockAvailable(r, n) /\ Goto(n, "markRead") /\ UNCHANGED runs
  /\ UNCHANGED <<queueVars, effects, api, swallowed, faults, resumes>>

\* The loop starts at the row's index as this update returns it; past the end
\* of the plan there is nothing to loop over.
SetRunning(n) ==
  LET r == RunOf(n) IN
  /\ w[n].pc = "setRunning"
  /\ SetStatus(r, "running")
  /\ w' = [w EXCEPT ![n].index = runs[r].index,
                    ![n].pc = IF runs[r].index < PlanLen THEN "refresh" ELSE "release"]
  /\ UNCHANGED <<queueVars, effects, api, swallowed, faults, resumes>>

\* refreshAgentRunExecutionLock finds a row.
HoldsLock(r, n) == runs[r].owner = Me(n)

RefreshLock(n) ==
  LET r == RunOf(n) IN
  /\ w[n].pc = "refresh"
  /\ \/ /\ HoldsLock(r, n)
        /\ runs' = [runs EXCEPT ![r].stale = FALSE]
        /\ w' = [w EXCEPT ![n].pc = "exec", ![n].overslept = FALSE]
     \/ /\ ~HoldsLock(r, n)
        /\ w' = [w EXCEPT ![n].pc = "release", ![n].err = TRUE]
        /\ UNCHANGED runs
  /\ UNCHANGED <<queueVars, effects, api, swallowed, faults, resumes>>

\* executeStep, the commit of a mutating step and createAgentStep: the step is
\* committed and recorded, or it failed, could not be repaired, and its changes
\* were aborted.
ExecStep(n) ==
  LET r == RunOf(n) IN
  /\ w[n].pc = "exec"
  /\ \/ /\ effects' = [effects EXCEPT ![r][w[n].index] = IF @ = 2 THEN 2 ELSE @ + 1]
        /\ Goto(n, "advance")
     \/ Goto(n, "stepFailed") /\ UNCHANGED effects
  /\ UNCHANGED <<queueVars, runs, api, swallowed, faults, resumes>>

\* Faulty variant: a plan has one more step than it has.
AdvancePastEnd(n) ==
  LET r == RunOf(n)  next == w[n].index + 1 IN
  /\ w[n].pc = "advance"
  /\ runs' = [runs EXCEPT ![r].index = next,
                          ![r].status = IF next > PlanLen THEN "complete" ELSE "running"]
  /\ w' = [w EXCEPT ![n].index = next,
                    ![n].pc = IF next > PlanLen THEN "release" ELSE "refresh"]
  /\ UNCHANGED <<queueVars, effects, api, swallowed, faults, resumes>>

\* The write that ends a successful iteration is unconditional: it restores
\* running or complete over whatever the row says by now.
AdvanceRun(n) ==
  LET r == RunOf(n)  next == w[n].index + 1 IN
  /\ w[n].pc = "advance"
  /\ runs' = [runs EXCEPT ![r].index = next,
                          ![r].status = IF next = PlanLen THEN "complete" ELSE "running"]
  /\ w' = [w EXCEPT ![n].index = next,
                    ![n].pc = IF next = PlanLen THEN "release" ELSE "refresh"]
  /\ UNCHANGED <<queueVars, effects, api, swallowed, faults, resumes>>

\* Faulty variant: a failed run resumes behind the step that failed.
FailRunPastStep(n) ==
  LET r == RunOf(n) IN
  /\ w[n].pc = "stepFailed"
  /\ runs' = [runs EXCEPT ![r].status = "failed", ![r].index = w[n].index + 1]
  /\ Goto(n, "release")
  /\ UNCHANGED <<queueVars, effects, api, swallowed, faults, resumes>>

\* The run fails at this step: the step failed, or it was the last one and the
\* run delivered nothing.  executeLoop returns normally either way.
FailRun(n) ==
  LET r == RunOf(n) IN
  /\ \/ w[n].pc = "stepFailed"
     \/ w[n].pc = "advance" /\ w[n].index + 1 = PlanLen
  /\ runs' = [runs EXCEPT ![r].status = "failed", ![r].index = w[n].index]
  /\ Goto(n, "release")
  /\ UNCHANGED <<queueVars, effects, api, swallowed, faults, resumes>>

AfterRelease(n) == IF w[n].err THEN "markRead" ELSE "complete"

\* Faulty variant: the finally block clears the lock without asking whose it is.
ReleaseAnyLock(n) ==
  LET r == RunOf(n) IN
  /\ w[n].pc = "release"
  /\ runs' = [runs EXCEPT ![r].owner = NoOwner, ![r].stale = FALSE]
  /\ w' = [w EXCEPT ![n].pc = AfterRelease(n), ![n].overslept = FALSE]
  /\ UNCHANGED <<queueVars, effects, api, swallowed, faults, resumes>>

\* The finally block of executeLoop; somebody else's lock stays.
ReleaseLock(n) ==
  LET r == RunOf(n) IN
  /\ w[n].pc = "release"
  /\ runs' = IF runs[r].owner = Me(n)
             THEN [runs EXCEPT ![r].owner = NoOwner, ![r].stale = FALSE]
             ELSE runs
  /\ w' = [w EXCEPT ![n].pc = AfterRelease(n), ![n].overslept = FALSE]
  /\ UNCHANGED <<queueVars, effects, api, swallowed, faults, resumes>>

-----------------------------------------------------------------------------
\* completeRunJob; a worker that lost the job meanwhile changes nothing.
CompleteJob(n) ==
  /\ w[n].pc = "complete"
  /\ \/ Q!CompleteRunJob(w[n].job, n)
     \/ ~Q!HeldBy(w[n].job, n) /\ UNCHANGED queueVars
  /\ GoIdle(n)
  /\ UNCHANGED <<runs, effects, api, swallowed, faults, resumes>>

\* Faulty variant: a run that never started is left as it is.
SettledOrWaiting(status) == status \in TerminalRunStatus \cup {"queued"}

Settled(status) == status \in TerminalRunStatus

\* markRunFailedIfNeeded, first half: an ended run is left as it is.
MarkRead(n) ==
  /\ w[n].pc = "markRead"
  /\ Goto(n, IF Settled(runs[RunOf(n)].status) THEN "fail" ELSE "markWrite")
  /\ UNCHANGED <<queueVars, runs, effects, api, swallowed, faults, resumes>>

\* Second half: unconditional, whatever the row says by now.
MarkWrite(n) ==
  /\ w[n].pc = "markWrite"
  /\ SetStatus(RunOf(n), "failed")
  /\ Goto(n, "fail")
  /\ UNCHANGED <<queueVars, effects, api, swallowed, faults, resumes>>

\* Faulty variant: the job is failed whoever holds it, or ended it, by now.
FailAnyJob(n) ==
  /\ w[n].pc = "fail"
  /\ jobs' = [jobs EXCEPT ![w[n].job].status = "failed", ![w[n].job].lease = "none"]
  /\ GoIdle(n)
  /\ UNCHANGED <<nodes, runs, effects, api, swallowed, faults, resumes>>

\* failRunJob; again nothing happens to a job the worker no longer holds.
FailJob(n) ==
  /\ w[n].pc = "fail"
  /\ \/ Q!FailRunJob(w[n].job, n)
     \/ ~Q!HeldBy(w[n].job, n) /\ UNCHANGED queueVars
  /\ GoIdle(n)
  /\ UNCHANGED <<runs, effects, api, swallowed, faults, resumes>>

-----------------------------------------------------------------------------
\* A read or the planner memory before the lock is taken, or completeRunJob,
\* throws into the worker's catch block.
JobThrows(n) ==
  /\ w[n].pc \in {"read", "acquire", "complete"}
  /\ Fault
  /\ Goto(n, "markRead")
  /\ UNCHANGED <<queueVars, runs, effects, api, swallowed, resumes>>

\* Anything inside executeLoop's try block throws.
KernelThrows(n) ==
  /\ w[n].pc \in Section \ {"release"}
  /\ Fault
  /\ w' = [w EXCEPT ![n].pc = "release", ![n].err = TRUE]
  /\ UNCHANGED <<queueVars, runs, effects, api, swallowed, resumes>>

\* The release, the failure mark or failRunJob throws, and is caught and
\* dropped.
ErrorSwallowed(n) ==
  /\ Fault
  /\ \/ w[n].pc = "release" /\ w' = [w EXCEPT ![n].pc = AfterRelease(n),
                                             ![n].overslept = FALSE]
                            /\ UNCHANGED swallowed
     \/ w[n].pc \in {"markRead", "markWrite"}
          /\ Goto(n, "fail")
          /\ swallowed' = [swallowed EXCEPT ![RunOf(n)] = TRUE]
     \/ w[n].pc = "fail" /\ GoIdle(n) /\ UNCHANGED swallowed
  /\ UNCHANGED <<queueVars, runs, effects, api, resumes>>

Crash(n) ==
  /\ w[n].pc # "down"
  /\ Fault
  /\ w' = [w EXCEPT ![n] = Down(@.pid)]
  /\ UNCHANGED <<queueVars, runs, effects, api, swallowed, resumes>>

\* SIGTERM: the node goes offline at once, the job in flight goes on until the
\* store is closed and the process exits.
Shutdown(n) ==
  /\ w[n].pc # "down"
  /\ ~w[n].stopping
  /\ Fault
  /\ Q!MarkWorkerNodeOffline(n)
  /\ w' = [w EXCEPT ![n].stopping = TRUE]
  /\ UNCHANGED <<runs, effects, api, swallowed, resumes>>

Exit(n) ==
  /\ w[n].stopping
  /\ w' = [w EXCEPT ![n] = Down(@.pid)]
  /\ UNCHANGED <<queueVars, runs, effects, api, swallowed, faults, resumes>>

-----------------------------------------------------------------------------
\* A lease runs out: in the normal course of things once nobody attends to the
\* job; while somebody does, only if the renewal is late.
LeaseExpires(j) ==
  /\ Q!LeaseExpires(j)
  /\ IF Attended(j) THEN Fault ELSE UNCHANGED faults
  /\ UNCHANGED <<runs, effects, w, api, swallowed, resumes>>

\* run_lock_acquired_at is more than AGENT_RUN_LOCK_STALE_SECONDS ago: the
\* owner is gone, or one of its steps takes that long.  The ghost overslept
\* marks such an owner until it refreshes the lock.
LockGoesStale(r) ==
  /\ runs[r].owner # NoOwner
  /\ ~runs[r].stale
  /\ runs' = [runs EXCEPT ![r].stale = TRUE]
  /\ IF OwnerAlive(r) THEN Fault ELSE UNCHANGED faults
  /\ w' = [n \in Node |-> IF InSection(n) /\ RunOf(n) = r /\ Me(n) = runs[r].owner
                          THEN [w[n] EXCEPT !.overslept = TRUE]
                          ELSE w[n]]
  /\ UNCHANGED <<queueVars, effects, api, swallowed, resumes>>

-----------------------------------------------------------------------------
\* createQueuedRun writes the row of a run with a plan; its job comes next.
CreateRun(r) ==
  /\ runs[r].status = "absent"
  /\ SetStatus(r, "queued")
  /\ api' = [api EXCEPT ![r] = "enqueue"]
  /\ UNCHANGED <<queueVars, effects, w, swallowed, faults, resumes>>

\* queueResumeRun reads the run: only a complete one is turned away.
ResumeRead(r) ==
  /\ api[r] = "none"
  /\ runs[r].status \notin {"absent", "complete"}
  /\ resumes < MaxResumes
  /\ resumes' = resumes + 1
  /\ api' = [api EXCEPT ![r] = "resume"]
  /\ UNCHANGED <<queueVars, runs, effects, w, swallowed, faults>>

ResumeWrite(r) ==
  /\ api[r] = "resume"
  /\ SetStatus(r, "queued")
  /\ api' = [api EXCEPT ![r] = "enqueue"]
  /\ UNCHANGED <<queueVars, effects, w, swallowed, faults, resumes>>

\* enqueueRunJob: a new row; or the active job it collided with is returned, or
\* the collision is thrown because that job has ended since.
Enqueue(r) ==
  /\ api[r] = "enqueue"
  /\ \/ /\ \E j \in Q!Job, role \in Role : Q!EnqueueRunJob(j, r, role)
        /\ swallowed' = [swallowed EXCEPT ![r] = FALSE]
     \/ /\ Q!HasActiveJob(r)
        /\ swallowed' = [swallowed EXCEPT ![r] = TRUE]
        /\ UNCHANGED queueVars
  /\ api' = [api EXCEPT ![r] = "none"]
  /\ UNCHANGED <<runs, effects, w, faults, resumes>>

\* The server dies between two calls of a handler.
ApiCrash(r) ==
  /\ api[r] # "none"
  /\ Fault
  /\ api' = [api EXCEPT ![r] = "none"]
  /\ swallowed' = [swallowed EXCEPT ![r] = @ \/ api[r] = "enqueue"]
  /\ UNCHANGED <<queueVars, runs, effects, w, resumes>>

-----------------------------------------------------------------------------
\* What a worker does by itself, as long as its process runs.
WorkerStep(n) ==
  \/ Claim(n)
  \/ MarkRunning(n)
  \/ ReadRun(n)
  \/ Acquire(n)
  \/ SetRunning(n)
  \/ RefreshLock(n)
  \/ ExecStep(n)
  \/ AdvanceRun(n)
  \/ FailRun(n)
  \/ ReleaseLock(n)
  \/ CompleteJob(n)
  \/ MarkRead(n)
  \/ MarkWrite(n)
  \/ FailJob(n)

WorkerFault(n) ==
  \/ JobThrows(n)
  \/ KernelThrows(n)
  \/ ErrorSwallowed(n)
  \/ Crash(n)
  \/ Shutdown(n)

ApiStep(r) ==
  \/ ResumeWrite(r)
  \/ Enqueue(r)

Next ==
  \/ \E n \in Node :
       \/ Start(n)
       \/ Heartbeat(n)
       \/ RenewLease(n)
       \/ WorkerStep(n)
       \/ WorkerFault(n)
       \/ Exit(n)
  \/ \E j \in Q!Job : LeaseExpires(j)
  \/ \E r \in Run :
       \/ LockGoesStale(r)
       \/ CreateRun(r)
       \/ ResumeRead(r)
       \/ ApiStep(r)
       \/ ApiCrash(r)

Spec == Init /\ [][Next]_vars

\* Operators restart worker processes, a running process keeps taking its own
\* steps, handlers finish, and clocks advance.
FairSpec ==
  /\ Spec
  /\ \A n \in Node : WF_vars(Start(n)) /\ WF_vars(WorkerStep(n)) /\ WF_vars(Exit(n))
  /\ \A j \in Q!Job : WF_vars(~Attended(j) /\ LeaseExpires(j))
  /\ \A r \in Run : WF_vars(ApiStep(r))

-----------------------------------------------------------------------------
\* Every variable holds what the code can put there; an index never passes the
\* end of the plan.
TypeOK ==
  /\ Q!TypeOK
  /\ runs \in [Run -> [status : {"absent", "queued", "running", "complete", "failed"},
                       index  : 0..PlanLen,
                       owner  : (Pid \X Node \X Q!Job) \cup {NoOwner},
                       stale  : BOOLEAN]]
  /\ effects \in [Run -> [0..PlanLen-1 -> 0..2]]
  /\ w \in [Node -> [pc : WorkerPc, pid : Pid, job : Q!Job \cup {NoJob},
                     index : 0..PlanLen, err : BOOLEAN, overslept : BOOLEAN,
                     stopping : BOOLEAN]]
  /\ api \in [Run -> {"none", "resume", "enqueue"}]
  /\ swallowed \in [Run -> BOOLEAN]
  /\ faults \in 0..MaxFaults
  /\ resumes \in 0..MaxResumes

\* A worker inside executeLoop owns the run's lock, unless it has let the lock
\* go stale since its last refresh: no release, reclaim or restart ever frees
\* the lock of a worker that is still executing, and no worker starts a step on
\* a lock that was taken from it, even after the thief has let it go again.
SectionHoldsLock ==
  \A n \in Node : InSection(n) => w[n].overslept \/ runs[RunOf(n)].owner = Me(n)

\* Two workers execute one run at once, although both may believe they hold its
\* job, only if one of them has overslept.
OneExecutorPerRun ==
  \A m, n \in Node :
    InSection(m) /\ InSection(n) /\ RunOf(m) = RunOf(n)
      /\ ~w[m].overslept /\ ~w[n].overslept => m = n

\* The execution lock does what it is for (executeLoop): its holder keeps it,
\* and nobody else executes meanwhile.
LockExcludes == SectionHoldsLock /\ OneExecutorPerRun

\* The row's index never gets ahead of what was committed, whoever writes it and
\* in whatever order: so a complete run did every step, and a resumed one skips
\* none.
NoStepSkipped ==
  \A r \in Run, i \in 0..PlanLen-1 : i < runs[r].index => effects[r][i] >= 1

\* A queued run has a job that will bring it to a worker, unless an error on
\* the way to its row or its job was dropped: a resume request that collided
\* with the old job, a handler that died before the insert, a failure mark that
\* did not reach the row.
QueuedRunHasJob ==
  \A r \in Run :
    runs[r].status = "queued" /\ api[r] = "none" /\ ~swallowed[r] => Q!HasActiveJob(r)

\* The workers and handlers use the queue only as RunJobs allows, so what is
\* proved of RunJobs holds here.
UsesQueueCorrectly == Q!Spec

\* Every job that is enqueued is resolved once the faults stop, however its
\* holders died.
JobSettles ==
  \A j \in Q!Job : Q!Active(j) ~> jobs[j].status \in TerminalJobStatus

\* Every queued run that was not dropped on the way ends, or has at least done
\* all its steps: a second worker may put a complete run back to running (see
\* CompleteIsFinal), and that one stays running for good.
RunSettles ==
  \A r \in Run :
    runs[r].status \in {"queued", "running"} ~>
      \/ runs[r].status \in TerminalRunStatus
      \/ runs[r].index = PlanLen
      \/ swallowed[r]

\* Nothing stays under way for good: neither a job nor its run.
EverythingSettles == JobSettles /\ RunSettles

-----------------------------------------------------------------------------
\* docs/contracts/adversarial-reliability-matrix: after a worker death "worker B
\* reclaims the same job and executes the same run": B is turned away by a lock
\* only if the lock's owner is alive.
ReclaimExecutesRun ==
  [][\A n \in Node :
       w[n].pc = "acquire" /\ w'[n].pc = "markRead" /\ UNCHANGED faults
         => OwnerAlive(RunOf(n))]_vars

\* The same document: "committed run-step side effects must remain
\* exactly-once".
StepEffectsOnce == \A r \in Run, i \in 0..PlanLen-1 : effects[r][i] <= 1

\* docs/contracts/state-machine: "only failed and cancelled runs may transition
\* back to queued".
OnlyEndedRunsAreRequeued ==
  [][\A r \in Run :
       runs[r].status # "queued" /\ runs'[r].status = "queued"
         => runs[r].status \in {"absent", "failed", "cancelled"}]_vars

\* The same document lists complete as terminal.
CompleteIsFinal ==
  [][\A r \in Run : runs[r].status = "complete" => runs'[r].status = "complete"]_vars
=============================================================================
