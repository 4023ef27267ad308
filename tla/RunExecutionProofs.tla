-------------------------- MODULE RunExecutionProofs --------------------------
(***************************************************************************)
(* Proofs about RunExecution for any number of runs, nodes, process ids,   *)
(* plan steps, faults and resume requests.                                 *)
(*                                                                         *)
(* LockExcludes is not inductive: a second worker may take the lock once   *)
(* it is stale, so the invariant needs to know that whoever lets its lock  *)
(* go stale has overslept (StaleOwnerOverslept).  The other parts tie a    *)
(* worker to the queue (JobInHand, RegisteredWhenUp) and to the plan       *)
(* (StepInPlan).  Most actions touch no lock: they are Ordinary, and what  *)
(* an ordinary step preserves is proved once, in OrdinaryPreserves.        *)
(*                                                                         *)
(* On top of that, no step is skipped and no queued run is forgotten.  The *)
(* row's index never gets ahead of what was committed: NoStepSkipped is    *)
(* not inductive by itself, since AdvanceRun and FailRun write the index   *)
(* from the worker's memory; PlanBehindCommitted says that this memory is  *)
(* backed by commits as well.  A job that ends while its run is queued     *)
(* would leave the run stranded; SettledRunNotQueued says of every holder  *)
(* near the end of its program that its run has left the queue, or was put *)
(* back by a handler that will enqueue it or was told of the collision.    *)
(***************************************************************************)
EXTENDS RunExecution, TLAPS

\* The queue again, with what is proved of it.
QP == INSTANCE RunJobsProofs

Busy(n) == w[n].pc \notin {"down", "idle"}

\* The worker has a job, and the job has a run.
InHand(n) ==
  /\ w[n].job \in Q!Job
  /\ jobs[w[n].job].status # "absent"
  /\ RunOf(n) \in Run

JobInHand == \A n \in Node : Busy(n) => InHand(n)

\* Start registers the node before anything else, so every heartbeat repeats a
\* role that is there.
RegisteredWhenUp == \A n \in Node : w[n].pc # "down" => nodes[n].role \in Role

InPlan(n) == w[n].pc \in {"refresh", "exec", "advance", "stepFailed"}

StepInPlan == \A n \in Node : InPlan(n) => w[n].index < PlanLen

\* A lock goes stale under its live owner only by making it overslept: what
\* makes the theft of a stale lock harmless to SectionHoldsLock.
StaleOwnerOverslept ==
  \A n \in Node :
    InSection(n) /\ runs[RunOf(n)].owner = Me(n) /\ runs[RunOf(n)].stale
      => w[n].overslept

WRow == [pc : WorkerPc, pid : Pid, job : Q!Job \cup {NoJob}, index : 0..PlanLen,
         err : BOOLEAN, overslept : BOOLEAN, stopping : BOOLEAN]

RunRow == [status : {"absent", "queued", "running", "complete", "failed"},
           index  : 0..PlanLen,
           owner  : (Pid \X Node \X Q!Job) \cup {NoOwner},
           stale  : BOOLEAN]

RowTypes ==
  /\ runs \in [Run -> RunRow]
  /\ w \in [Node -> WRow]

OtherTypes ==
  /\ effects \in [Run -> [0..PlanLen-1 -> 0..2]]
  /\ api \in [Run -> {"none", "resume", "enqueue"}]
  /\ swallowed \in [Run -> BOOLEAN]
  /\ faults \in 0..MaxFaults
  /\ resumes \in 0..MaxResumes

\* The inductive invariant.
PInv ==
  /\ RowTypes
  /\ OtherTypes
  /\ QP!IInv
  /\ JobInHand
  /\ RegisteredWhenUp
  /\ StepInPlan
  /\ SectionHoldsLock
  /\ StaleOwnerOverslept

-----------------------------------------------------------------------------
\* Q and QP are one and the same queue.
LEMMA SameQueue == Q!Next <=> QP!Next
  BY DEF Q!Next, QP!Next, Q!Job, QP!Job, Q!EnqueueRunJob, QP!EnqueueRunJob,
         Q!QueueCall, QP!QueueCall, Q!NodeCall, QP!NodeCall, Q!LeaseExpires,
         QP!LeaseExpires, Q!HasActiveJob, QP!HasActiveJob, Q!Active, QP!Active,
         Q!RunFilter, QP!RunFilter, Q!ClaimNextRunJob, QP!ClaimNextRunJob,
         Q!Claimable, QP!Claimable, Q!OnlineAs, QP!OnlineAs,
         Q!MarkRunJobRunning, QP!MarkRunJobRunning, Q!RenewRunJobLease,
         QP!RenewRunJobLease, Q!CompleteRunJob, QP!CompleteRunJob,
         Q!FailRunJob, QP!FailRunJob, Q!HeldBy, QP!HeldBy,
         Q!UpsertWorkerNodeHeartbeat, QP!UpsertWorkerNodeHeartbeat,
         Q!MarkWorkerNodeOffline, QP!MarkWorkerNodeOffline,
         Q!ActiveJobStatus, QP!ActiveJobStatus, ActiveJobStatus

\* No step of the queue changes the run of a row that is there, or takes a
\* node's registration away.
LEMMA QueueFrame ==
  ASSUME QP!IInv, [QP!Next]_queueVars
  PROVE  /\ \A j \in Q!Job : jobs[j].status # "absent" =>
              jobs'[j].status # "absent" /\ jobs'[j].run = jobs[j].run
         /\ \A n \in Node : nodes[n].role \in Role => nodes'[n].role = nodes[n].role
  <1> USE RunExecutionAssumption
      DEF QP!IInv, QP!TypeOK, QP!JobRow, QP!NodeRow, QP!Job, Q!Job
  <1> DEFINE Frame ==
               /\ \A j \in Q!Job : jobs[j].status # "absent" =>
                    jobs'[j].status # "absent" /\ jobs'[j].run = jobs[j].run
               /\ \A n \in Node : nodes[n].role \in Role =>
                    nodes'[n].role = nodes[n].role
  <1>1. ASSUME NEW j \in QP!Job, NEW r \in Run, NEW role \in Role,
               QP!EnqueueRunJob(j, r, role)
        PROVE  Frame
    BY <1>1 DEF QP!EnqueueRunJob
  <1>2. ASSUME NEW j \in QP!Job, NEW n \in Node, QP!QueueCall(j, n)
        PROVE  Frame
    <2>1. ASSUME NEW role \in Role, NEW R \in QP!RunFilter,
                 QP!ClaimNextRunJob(j, n, role, R)
          PROVE  Frame
      BY <2>1 DEF QP!ClaimNextRunJob
    <2>2. CASE QP!MarkRunJobRunning(j, n)
      BY <2>2 DEF QP!MarkRunJobRunning
    <2>3. CASE QP!RenewRunJobLease(j, n)
      BY <2>3 DEF QP!RenewRunJobLease
    <2>4. CASE QP!CompleteRunJob(j, n)
      BY <2>4 DEF QP!CompleteRunJob
    <2>5. CASE QP!FailRunJob(j, n)
      BY <2>5 DEF QP!FailRunJob
    <2> QED
      BY <1>2, <2>1, <2>2, <2>3, <2>4, <2>5 DEF QP!QueueCall
  <1>3. ASSUME NEW n \in Node, QP!NodeCall(n)
        PROVE  Frame
    <2>1. ASSUME NEW role \in Role, QP!UpsertWorkerNodeHeartbeat(n, role)
          PROVE  Frame
      BY <2>1 DEF QP!UpsertWorkerNodeHeartbeat
    <2>2. CASE QP!MarkWorkerNodeOffline(n)
      BY <2>2 DEF QP!MarkWorkerNodeOffline
    <2> QED
      BY <1>3, <2>1, <2>2 DEF QP!NodeCall
  <1>4. ASSUME NEW j \in QP!Job, QP!LeaseExpires(j)
        PROVE  Frame
    BY <1>4 DEF QP!LeaseExpires
  <1>5. CASE UNCHANGED queueVars
    BY <1>5 DEF queueVars
  <1> QED
    BY <1>1, <1>2, <1>3, <1>4, <1>5 DEF QP!Next

-----------------------------------------------------------------------------
\* What a step does to the workers, said so that the invariant follows from it
\* without a look at the action.

Others(n) == \A m \in Node : m # n => w'[m] = w[m]

\* A worker comes up registered, keeps the job it has or takes one that has a
\* run, and stays inside the plan.
Moves(n) ==
  /\ w'[n].pc # "down" => w[n].pc # "down" \/ nodes'[n].role \in Role
  /\ Busy(n)' => (Busy(n) /\ w'[n].job = w[n].job) \/ InHand(n)'
  /\ InPlan(n)' => w'[n].index < PlanLen

\* It does not enter the section, and leaves the ghost alone while inside.
StaysInSection(n) ==
  InSection(n)' => /\ InSection(n)
                   /\ w'[n].job = w[n].job
                   /\ w'[n].pid = w[n].pid
                   /\ w'[n].overslept = w[n].overslept

SameLocks ==
  \A r \in Run : runs'[r].owner = runs[r].owner /\ runs'[r].stale = runs[r].stale

Ordinary(n) ==
  /\ RowTypes'
  /\ OtherTypes'
  /\ SameLocks
  /\ Others(n)
  /\ Moves(n)
  /\ StaysInSection(n)

LEMMA RunKept ==
  ASSUME PInv, [QP!Next]_queueVars, NEW n \in Node, Busy(n), w'[n].job = w[n].job
  PROVE  InHand(n)' /\ RunOf(n)' = RunOf(n)
  BY QueueFrame DEF PInv, JobInHand, InHand, RunOf

LEMMA MovesPreserve ==
  ASSUME PInv, [QP!Next]_queueVars, \A n \in Node : w'[n] = w[n] \/ Moves(n)
  PROVE  QP!IInv' /\ JobInHand' /\ RegisteredWhenUp' /\ StepInPlan'
  <1>1. QP!IInv'
    BY QP!StepPreserves, RunExecutionAssumption
    DEF QP!RunJobsAssumption, QP!queueVars, queueVars, PInv
  <1>2. JobInHand'
    BY RunKept DEF JobInHand, Moves, Busy
  <1>3. RegisteredWhenUp'
    BY QueueFrame DEF PInv, RegisteredWhenUp, Moves
  <1>4. StepInPlan'
    BY DEF PInv, StepInPlan, Moves, InPlan
  <1> QED
    BY <1>1, <1>2, <1>3, <1>4

LEMMA LocksPreserved ==
  ASSUME PInv, [QP!Next]_queueVars, SameLocks,
         \A n \in Node : w'[n] = w[n] \/ StaysInSection(n)
  PROVE  SectionHoldsLock' /\ StaleOwnerOverslept'
  <1>1. \A n \in Node : InSection(n)' =>
          /\ InSection(n)
          /\ RunOf(n)' = RunOf(n)
          /\ Me(n)' = Me(n)
          /\ w'[n].overslept = w[n].overslept
          /\ runs'[RunOf(n)].owner = runs[RunOf(n)].owner
          /\ runs'[RunOf(n)].stale = runs[RunOf(n)].stale
    <2> SUFFICES ASSUME NEW n \in Node, InSection(n)'
                 PROVE  /\ InSection(n)
                        /\ RunOf(n)' = RunOf(n)
                        /\ Me(n)' = Me(n)
                        /\ w'[n].overslept = w[n].overslept
                        /\ runs'[RunOf(n)].owner = runs[RunOf(n)].owner
                        /\ runs'[RunOf(n)].stale = runs[RunOf(n)].stale
      OBVIOUS
    <2>1. /\ InSection(n)
          /\ w'[n].job = w[n].job
          /\ w'[n].pid = w[n].pid
          /\ w'[n].overslept = w[n].overslept
      BY DEF StaysInSection, InSection
    <2>2. Busy(n)
      BY <2>1 DEF InSection, Section, Busy
    <2>3. RunOf(n)' = RunOf(n) /\ RunOf(n) \in Run
      BY <2>1, <2>2, RunKept DEF PInv, JobInHand, InHand
    <2> QED
      BY <2>1, <2>3 DEF Me, SameLocks
  <1> QED
    BY <1>1 DEF PInv, SectionHoldsLock, StaleOwnerOverslept

LEMMA OrdinaryPreserves ==
  ASSUME PInv, NEW n \in Node, [QP!Next]_queueVars, Ordinary(n)
  PROVE  PInv'
  <1>1. QP!IInv' /\ JobInHand' /\ RegisteredWhenUp' /\ StepInPlan'
    BY MovesPreserve DEF Ordinary, Others
  <1>2. SectionHoldsLock' /\ StaleOwnerOverslept'
    BY LocksPreserved DEF Ordinary, Others
  <1> QED
    BY <1>1, <1>2 DEF PInv, Ordinary

-----------------------------------------------------------------------------
\* A worker's row is replaced.
LEMMA WorkerReplaced ==
  ASSUME RowTypes, NEW n \in Node, NEW row \in WRow, w' = [w EXCEPT ![n] = row]
  PROVE  w' \in [Node -> WRow] /\ Others(n) /\ w'[n] = row
  BY DEF RowTypes, Others

LEMMA GoIdleMoves ==
  ASSUME RowTypes, NEW n \in Node, GoIdle(n), w[n].pc # "down"
  PROVE  /\ w' \in [Node -> WRow]
         /\ Others(n)
         /\ Moves(n)
         /\ StaysInSection(n)
         /\ w'[n].pc = "idle"
  <1> DEFINE row == [Down(w[n].pid) EXCEPT !.pc = "idle", !.stopping = w[n].stopping]
  <1>1. w' = [w EXCEPT ![n] = row]
    BY DEF GoIdle
  <1>2. w[n].pid \in Pid /\ w[n].stopping \in BOOLEAN
    BY DEF RowTypes, WRow
  <1>3. Down(w[n].pid) \in WRow
    BY <1>2, RunExecutionAssumption DEF Down, WRow, WorkerPc
  <1>4. row \in WRow /\ row.pc = "idle"
    BY <1>2, <1>3 DEF WRow, WorkerPc
  <1> HIDE DEF row
  <1>5. w' \in [Node -> WRow] /\ Others(n) /\ w'[n].pc = "idle"
    BY <1>1, <1>4, WorkerReplaced
  <1> QED
    BY <1>5 DEF Moves, StaysInSection, Busy, InSection, Section, InPlan

-----------------------------------------------------------------------------
\* The steps that touch no lock.

LEMMA HeartbeatMoves ==
  ASSUME PInv, NEW n \in Node, Heartbeat(n)
  PROVE  Ordinary(n)
  <1> USE RunExecutionAssumption
      DEF PInv, RowTypes, WRow, RunRow, WorkerPc, NoJob, Section,
          Heartbeat
  <1>1. RowTypes'
    BY DEF JobInHand, InHand, Busy, StepInPlan, InPlan
  <1>2. OtherTypes'
    BY DEF OtherTypes
  <1>3. SameLocks
    BY DEF SameLocks
  <1>4. Others(n) /\ Moves(n) /\ StaysInSection(n)
    BY DEF Others, Moves, StaysInSection, Busy, InSection, InPlan, StepInPlan
  <1> QED
    BY <1>1, <1>2, <1>3, <1>4 DEF Ordinary

LEMMA RenewLeaseMoves ==
  ASSUME PInv, NEW n \in Node, RenewLease(n)
  PROVE  Ordinary(n)
  <1> USE RunExecutionAssumption
      DEF PInv, RowTypes, WRow, RunRow, WorkerPc, NoJob, Section,
          RenewLease
  <1>1. RowTypes'
    BY DEF JobInHand, InHand, Busy, StepInPlan, InPlan
  <1>2. OtherTypes'
    BY DEF OtherTypes
  <1>3. SameLocks
    BY DEF SameLocks
  <1>4. Others(n) /\ Moves(n) /\ StaysInSection(n)
    BY DEF Others, Moves, StaysInSection, Busy, InSection, InPlan, StepInPlan
  <1> QED
    BY <1>1, <1>2, <1>3, <1>4 DEF Ordinary

LEMMA ReadRunMoves ==
  ASSUME PInv, NEW n \in Node, ReadRun(n)
  PROVE  Ordinary(n)
  <1> USE RunExecutionAssumption
      DEF PInv, RowTypes, WRow, RunRow, WorkerPc, NoJob, Section,
          ReadRun, Goto
  <1>1. RowTypes'
    BY DEF JobInHand, InHand, Busy, StepInPlan, InPlan
  <1>2. OtherTypes'
    BY DEF OtherTypes
  <1>3. SameLocks
    BY DEF SameLocks
  <1>4. Others(n) /\ Moves(n) /\ StaysInSection(n)
    BY DEF Others, Moves, StaysInSection, Busy, InSection, InPlan, StepInPlan
  <1> QED
    BY <1>1, <1>2, <1>3, <1>4 DEF Ordinary

LEMMA SetRunningMoves ==
  ASSUME PInv, NEW n \in Node, SetRunning(n)
  PROVE  Ordinary(n)
  <1> USE RunExecutionAssumption
      DEF PInv, RowTypes, WRow, RunRow, WorkerPc, NoJob, Section,
          SetRunning, SetStatus
  <1>1. RowTypes'
    BY DEF JobInHand, InHand, Busy, StepInPlan, InPlan
  <1>2. OtherTypes'
    BY DEF OtherTypes
  <1>3. SameLocks
    BY DEF SameLocks
  <1>4. Others(n) /\ Moves(n) /\ StaysInSection(n)
    BY DEF Others, Moves, StaysInSection, Busy, InSection, InPlan, StepInPlan
  <1> QED
    BY <1>1, <1>2, <1>3, <1>4 DEF Ordinary

LEMMA AdvanceRunMoves ==
  ASSUME PInv, NEW n \in Node, AdvanceRun(n)
  PROVE  Ordinary(n)
  <1> USE RunExecutionAssumption
      DEF PInv, RowTypes, WRow, RunRow, WorkerPc, NoJob, Section,
          AdvanceRun
  <1>1. RowTypes'
    BY DEF JobInHand, InHand, Busy, StepInPlan, InPlan
  <1>2. OtherTypes'
    BY DEF OtherTypes
  <1>3. SameLocks
    BY DEF SameLocks
  <1>4. Others(n) /\ Moves(n) /\ StaysInSection(n)
    BY DEF Others, Moves, StaysInSection, Busy, InSection, InPlan, StepInPlan
  <1> QED
    BY <1>1, <1>2, <1>3, <1>4 DEF Ordinary

LEMMA MarkReadMoves ==
  ASSUME PInv, NEW n \in Node, MarkRead(n)
  PROVE  Ordinary(n)
  <1> USE RunExecutionAssumption
      DEF PInv, RowTypes, WRow, RunRow, WorkerPc, NoJob, Section,
          MarkRead, Goto, Settled, TerminalRunStatus
  <1>1. RowTypes'
    BY DEF JobInHand, InHand, Busy, StepInPlan, InPlan
  <1>2. OtherTypes'
    BY DEF OtherTypes
  <1>3. SameLocks
    BY DEF SameLocks
  <1>4. Others(n) /\ Moves(n) /\ StaysInSection(n)
    BY DEF Others, Moves, StaysInSection, Busy, InSection, InPlan, StepInPlan
  <1> QED
    BY <1>1, <1>2, <1>3, <1>4 DEF Ordinary

LEMMA MarkWriteMoves ==
  ASSUME PInv, NEW n \in Node, MarkWrite(n)
  PROVE  Ordinary(n)
  <1> USE RunExecutionAssumption
      DEF PInv, RowTypes, WRow, RunRow, WorkerPc, NoJob, Section,
          MarkWrite, Goto, SetStatus
  <1>1. RowTypes'
    BY DEF JobInHand, InHand, Busy, StepInPlan, InPlan
  <1>2. OtherTypes'
    BY DEF OtherTypes
  <1>3. SameLocks
    BY DEF SameLocks
  <1>4. Others(n) /\ Moves(n) /\ StaysInSection(n)
    BY DEF Others, Moves, StaysInSection, Busy, InSection, InPlan, StepInPlan
  <1> QED
    BY <1>1, <1>2, <1>3, <1>4 DEF Ordinary

LEMMA JobThrowsMoves ==
  ASSUME PInv, NEW n \in Node, JobThrows(n)
  PROVE  Ordinary(n)
  <1> USE RunExecutionAssumption
      DEF PInv, RowTypes, WRow, RunRow, WorkerPc, NoJob, Section,
          JobThrows, Goto, Fault
  <1>1. RowTypes'
    BY DEF JobInHand, InHand, Busy, StepInPlan, InPlan
  <1>2. OtherTypes'
    BY DEF OtherTypes
  <1>3. SameLocks
    BY DEF SameLocks
  <1>4. Others(n) /\ Moves(n) /\ StaysInSection(n)
    BY DEF Others, Moves, StaysInSection, Busy, InSection, InPlan, StepInPlan
  <1> QED
    BY <1>1, <1>2, <1>3, <1>4 DEF Ordinary

LEMMA CrashMoves ==
  ASSUME PInv, NEW n \in Node, Crash(n)
  PROVE  Ordinary(n)
  <1> USE RunExecutionAssumption
      DEF PInv, RowTypes, WRow, RunRow, WorkerPc, NoJob, Section,
          Crash, Down, Fault
  <1>1. RowTypes'
    BY DEF JobInHand, InHand, Busy, StepInPlan, InPlan
  <1>2. OtherTypes'
    BY DEF OtherTypes
  <1>3. SameLocks
    BY DEF SameLocks
  <1>4. Others(n) /\ Moves(n) /\ StaysInSection(n)
    BY DEF Others, Moves, StaysInSection, Busy, InSection, InPlan, StepInPlan
  <1> QED
    BY <1>1, <1>2, <1>3, <1>4 DEF Ordinary

LEMMA ExitMoves ==
  ASSUME PInv, NEW n \in Node, Exit(n)
  PROVE  Ordinary(n)
  <1> USE RunExecutionAssumption
      DEF PInv, RowTypes, WRow, RunRow, WorkerPc, NoJob, Section,
          Exit, Down
  <1>1. RowTypes'
    BY DEF JobInHand, InHand, Busy, StepInPlan, InPlan
  <1>2. OtherTypes'
    BY DEF OtherTypes
  <1>3. SameLocks
    BY DEF SameLocks
  <1>4. Others(n) /\ Moves(n) /\ StaysInSection(n)
    BY DEF Others, Moves, StaysInSection, Busy, InSection, InPlan, StepInPlan
  <1> QED
    BY <1>1, <1>2, <1>3, <1>4 DEF Ordinary

LEMMA StartMoves ==
  ASSUME PInv, NEW n \in Node, Start(n)
  PROVE  Ordinary(n)
  <1>1. PICK pid \in Pid : w' = [w EXCEPT ![n] = [Down(pid) EXCEPT !.pc = "idle"]]
    BY DEF Start
  <1> DEFINE row == [Down(pid) EXCEPT !.pc = "idle"]
  <1>2. Down(pid) \in WRow
    BY RunExecutionAssumption DEF Down, WRow, WorkerPc
  <1>3. row \in WRow /\ row.pc = "idle"
    BY <1>2 DEF WRow, WorkerPc
  <1>4. w' \in [Node -> WRow] /\ Others(n) /\ w'[n].pc = "idle"
    BY <1>1, <1>3, WorkerReplaced DEF PInv
  <1>5. nodes'[n].role \in Role
    BY DEF Start, Q!UpsertWorkerNodeHeartbeat, PInv, QP!IInv, QP!TypeOK, QP!NodeRow
  <1>6. Moves(n) /\ StaysInSection(n)
    BY <1>4, <1>5 DEF Moves, StaysInSection, Busy, InSection, Section, InPlan
  <1>7. OtherTypes' /\ SameLocks /\ runs' = runs
    BY DEF Start, PInv, OtherTypes, SameLocks
  <1> QED
    BY <1>4, <1>6, <1>7 DEF Ordinary, PInv, RowTypes

LEMMA ClaimMoves ==
  ASSUME PInv, NEW n \in Node, Claim(n)
  PROVE  Ordinary(n)
  <1>1. PICK j \in Q!Job : /\ Q!ClaimNextRunJob(j, n, nodes[n].role, Run)
                           /\ w' = [w EXCEPT ![n].pc = "claimed", ![n].job = j]
    BY DEF Claim
  <1> DEFINE row == [w[n] EXCEPT !.pc = "claimed", !.job = j]
  <1>2. row \in WRow /\ w' = [w EXCEPT ![n] = row]
    BY <1>1 DEF PInv, RowTypes, WRow, WorkerPc
  <1>3. row.pc = "claimed" /\ row.job = j
    BY DEF PInv, RowTypes, WRow
  <1>4. w' \in [Node -> WRow] /\ Others(n) /\ w'[n].pc = "claimed" /\ w'[n].job = j
    BY <1>2, <1>3, WorkerReplaced DEF PInv
  <1>5. jobs'[j].status # "absent" /\ jobs'[j].run \in Run
    BY <1>1 DEF Q!ClaimNextRunJob, Q!Claimable, PInv, QP!IInv, QP!TypeOK, QP!JobRow,
                QP!Job, Q!Job, QP!JobStatus, Q!JobStatus
  <1>6. w[n].pc = "idle"
    BY DEF Claim
  <1>7. Moves(n) /\ StaysInSection(n)
    BY <1>4, <1>5, <1>6
    DEF Moves, StaysInSection, Busy, InHand, RunOf, InSection, Section, InPlan
  <1>8. OtherTypes' /\ SameLocks /\ runs' = runs
    BY DEF Claim, PInv, OtherTypes, SameLocks
  <1> QED
    BY <1>4, <1>7, <1>8 DEF Ordinary, PInv, RowTypes

LEMMA MarkRunningMoves ==
  ASSUME PInv, NEW n \in Node, MarkRunning(n)
  PROVE  Ordinary(n)
  <1>1. OtherTypes' /\ SameLocks /\ runs' = runs
    BY DEF MarkRunning, PInv, OtherTypes, SameLocks
  <1>2. CASE Goto(n, "read")
    <2> DEFINE row == [w[n] EXCEPT !.pc = "read"]
    <2>1. row \in WRow /\ w' = [w EXCEPT ![n] = row]
      BY <1>2 DEF Goto, PInv, RowTypes, WRow, WorkerPc
    <2>2. row.pc = "read" /\ row.job = w[n].job
      BY DEF PInv, RowTypes, WRow
    <2>3. w' \in [Node -> WRow] /\ Others(n) /\ w'[n].pc = "read" /\ w'[n].job = w[n].job
      BY <2>1, <2>2, WorkerReplaced DEF PInv
    <2>4. Moves(n) /\ StaysInSection(n)
      BY <2>3
      DEF MarkRunning, Moves, StaysInSection, Busy, InSection, Section, InPlan
    <2> QED
      BY <1>1, <2>3, <2>4 DEF Ordinary, PInv, RowTypes
  <1>3. CASE GoIdle(n)
    BY <1>1, <1>3, GoIdleMoves DEF MarkRunning, Ordinary, PInv, RowTypes
  <1> QED
    BY <1>2, <1>3 DEF MarkRunning

LEMMA SettleMoves ==
  ASSUME PInv, NEW n \in Node, CompleteJob(n) \/ FailJob(n)
  PROVE  Ordinary(n)
  <1>1. OtherTypes' /\ SameLocks /\ runs' = runs /\ GoIdle(n) /\ w[n].pc # "down"
    BY DEF CompleteJob, FailJob, PInv, OtherTypes, SameLocks
  <1> QED
    BY <1>1, GoIdleMoves DEF Ordinary, PInv, RowTypes

LEMMA ExecStepMoves ==
  ASSUME PInv, NEW n \in Node, ExecStep(n)
  PROVE  Ordinary(n)
  <1> USE RunExecutionAssumption DEF PInv, RowTypes, WRow, WorkerPc, Section, ExecStep, Goto
  <1> DEFINE r == RunOf(n)
             i == w[n].index
             N == 0..PlanLen-1
             row == [effects[r] EXCEPT ![i] = IF @ = 2 THEN 2 ELSE @ + 1]
  <1>1. w[n].pc = "exec" /\ r \in Run /\ i \in N
    BY DEF JobInHand, InHand, Busy, StepInPlan, InPlan
  <1>2. row \in [N -> 0..2]
    <2>1. effects[r] \in [N -> 0..2] /\ effects[r][i] \in 0..2
      BY <1>1 DEF OtherTypes
    <2>2. (IF effects[r][i] = 2 THEN 2 ELSE effects[r][i] + 1) \in 0..2
      BY <2>1
    <2> QED
      BY <2>1, <2>2
  <1>3. effects' = effects \/ effects' = [effects EXCEPT ![r] = row]
    OBVIOUS
  <1>4. effects' \in [Run -> [N -> 0..2]]
    <2> HIDE DEF row
    <2> QED
      BY <1>2, <1>3 DEF OtherTypes
  <1>5. OtherTypes'
    BY <1>4 DEF OtherTypes
  <1>6. RowTypes' /\ SameLocks
    BY DEF SameLocks
  <1>7. Others(n) /\ Moves(n) /\ StaysInSection(n)
    BY DEF Others, Moves, StaysInSection, Busy, InSection, InPlan, StepInPlan
  <1> QED
    BY <1>5, <1>6, <1>7 DEF Ordinary

LEMMA FailRunMoves ==
  ASSUME PInv, NEW n \in Node, FailRun(n)
  PROVE  Ordinary(n)
  <1> USE DEF PInv, RowTypes, WRow, WorkerPc, Section, FailRun, Goto
  <1> DEFINE r == RunOf(n)
             row == [runs[r] EXCEPT !.status = "failed", !.index = w[n].index]
  <1>1. r \in Run
    BY DEF JobInHand, InHand, Busy
  <1>2. runs[r] \in RunRow /\ w[n].index \in 0..PlanLen
    BY <1>1
  <1>3. row \in RunRow /\ row.owner = runs[r].owner /\ row.stale = runs[r].stale
    BY <1>2 DEF RunRow
  <1>4. runs' = [runs EXCEPT ![r] = row]
    BY <1>1 DEF RunRow
  <1>5. runs' \in [Run -> RunRow] /\ SameLocks
    <2> HIDE DEF row
    <2> QED
      BY <1>1, <1>3, <1>4 DEF SameLocks
  <1>6. w' \in [Node -> WRow] /\ OtherTypes'
    <2>1. [w[n] EXCEPT !.pc = "release"] \in WRow
      OBVIOUS
    <2>2. w' = [w EXCEPT ![n] = [w[n] EXCEPT !.pc = "release"]]
      OBVIOUS
    <2>3. w' \in [Node -> WRow]
      BY <2>1, <2>2
    <2>4. OtherTypes'
      BY DEF OtherTypes
    <2> QED
      BY <2>3, <2>4
  <1>7. Others(n) /\ Moves(n) /\ StaysInSection(n)
    BY DEF Others, Moves, StaysInSection, Busy, InSection, InPlan
  <1> QED
    BY <1>5, <1>6, <1>7 DEF Ordinary

LEMMA KernelThrowsMoves ==
  ASSUME PInv, NEW n \in Node, KernelThrows(n)
  PROVE  Ordinary(n)
  <1> DEFINE row == [w[n] EXCEPT !.pc = "release", !.err = TRUE]
  <1>1. w' = [w EXCEPT ![n] = row] /\ row \in WRow
    BY DEF KernelThrows, PInv, RowTypes, WRow, WorkerPc
  <1>2. w' \in [Node -> WRow]
    BY <1>1, WorkerReplaced DEF PInv
  <1>3. OtherTypes' /\ SameLocks /\ runs' = runs
    BY RunExecutionAssumption DEF KernelThrows, Fault, PInv, OtherTypes, SameLocks
  <1>4. Others(n) /\ Moves(n) /\ StaysInSection(n)
    BY <1>1 DEF KernelThrows, PInv, RowTypes, WRow, Others, Moves, StaysInSection,
                Busy, InSection, Section, InPlan
  <1> QED
    BY <1>2, <1>3, <1>4 DEF Ordinary, PInv, RowTypes

LEMMA ShutdownMoves ==
  ASSUME PInv, NEW n \in Node, Shutdown(n)
  PROVE  Ordinary(n)
  <1> DEFINE row == [w[n] EXCEPT !.stopping = TRUE]
  <1>1. w' = [w EXCEPT ![n] = row] /\ row \in WRow
    BY DEF Shutdown, PInv, RowTypes, WRow
  <1>2. w' \in [Node -> WRow]
    BY <1>1, WorkerReplaced DEF PInv
  <1>3. OtherTypes' /\ SameLocks /\ runs' = runs
    BY RunExecutionAssumption DEF Shutdown, Fault, PInv, OtherTypes, SameLocks
  <1>4. Others(n) /\ Moves(n) /\ StaysInSection(n)
    BY <1>1 DEF Shutdown, PInv, RowTypes, WRow, Others, Moves, StaysInSection, Busy,
                InSection, InPlan, StepInPlan
  <1> QED
    BY <1>2, <1>3, <1>4 DEF Ordinary, PInv, RowTypes

\* A worker leaves the section through its finally block, whether the release
\* took place or threw.
LEMMA LeavingMoves ==
  ASSUME PInv, NEW n \in Node, w[n].pc = "release",
         w' = [w EXCEPT ![n].pc = AfterRelease(n), ![n].overslept = FALSE]
  PROVE  /\ w' \in [Node -> WRow]
         /\ Others(n)
         /\ Moves(n)
         /\ ~InSection(n)'
         /\ w'[n].pc = AfterRelease(n)
         /\ w'[n].job = w[n].job
  <1> DEFINE row == [w[n] EXCEPT !.pc = AfterRelease(n), !.overslept = FALSE]
  <1>1. AfterRelease(n) \in {"markRead", "complete"}
    BY DEF AfterRelease
  <1>2. w' = [w EXCEPT ![n] = row] /\ row \in WRow
    BY <1>1 DEF PInv, RowTypes, WRow, WorkerPc
  <1>3. w' \in [Node -> WRow] /\ Others(n) /\ w'[n] = row
    BY <1>2, WorkerReplaced DEF PInv
  <1>4. row.pc = AfterRelease(n) /\ row.job = w[n].job
    BY DEF PInv, RowTypes, WRow
  <1> QED
    BY <1>1, <1>3, <1>4 DEF Moves, Busy, InSection, Section, InPlan

LEMMA ErrorSwallowedMoves ==
  ASSUME PInv, NEW n \in Node, ErrorSwallowed(n)
  PROVE  Ordinary(n)
  <1>1. SameLocks /\ runs' = runs /\ faults' \in 0..MaxFaults
    BY RunExecutionAssumption DEF ErrorSwallowed, Fault, PInv, OtherTypes, SameLocks
  <1>2. CASE /\ w[n].pc = "release"
             /\ w' = [w EXCEPT ![n].pc = AfterRelease(n), ![n].overslept = FALSE]
             /\ UNCHANGED swallowed
    <2>1. OtherTypes'
      BY <1>1, <1>2 DEF ErrorSwallowed, PInv, OtherTypes
    <2>2. StaysInSection(n)
      BY <1>2, LeavingMoves DEF StaysInSection
    <2> QED
      BY <1>1, <1>2, <2>1, <2>2, LeavingMoves DEF Ordinary, PInv, RowTypes
  <1>3. CASE /\ w[n].pc \in {"markRead", "markWrite"}
             /\ Goto(n, "fail")
             /\ swallowed' = [swallowed EXCEPT ![RunOf(n)] = TRUE]
    <2>1. OtherTypes'
      BY <1>1, <1>3 DEF ErrorSwallowed, PInv, OtherTypes
    <2>2. w' \in [Node -> WRow] /\ Others(n) /\ Moves(n) /\ StaysInSection(n)
      BY <1>3 DEF Goto, PInv, RowTypes, WRow, WorkerPc, Others, Moves, StaysInSection,
                  Busy, InSection, Section, InPlan
    <2> QED
      BY <1>1, <2>1, <2>2 DEF Ordinary, PInv, RowTypes
  <1>4. CASE w[n].pc = "fail" /\ GoIdle(n) /\ UNCHANGED swallowed
    <2>1. OtherTypes'
      BY <1>1, <1>4 DEF ErrorSwallowed, PInv, OtherTypes
    <2> QED
      BY <1>1, <1>4, <2>1, GoIdleMoves DEF Ordinary, PInv, RowTypes
  <1> QED
    BY <1>2, <1>3, <1>4 DEF ErrorSwallowed

-----------------------------------------------------------------------------
\* The four steps that touch a lock.  The invariant's other parts follow as for
\* any step; the two about locks are argued here.

\* No two workers sign alike.
LEMMA OwnersDiffer ==
  ASSUME NEW m \in Node, NEW n \in Node, Me(m) = Me(n)
  PROVE  m = n
  BY DEF Me

LEMMA OwnerIsSomeone ==
  ASSUME PInv, NEW n \in Node, Busy(n)
  PROVE  /\ Me(n) \in Pid \X Node \X Q!Job
         /\ Me(n) # NoOwner
         /\ RunOf(n) \in Run
  <1>1. w[n] \in WRow /\ InHand(n)
    BY DEF PInv, RowTypes, JobInHand
  <1> QED
    BY <1>1, RunExecutionAssumption DEF WRow, InHand, Me, Q!Job

\* A worker that is in the section before and after and keeps its row.
LEMMA BystanderKept ==
  ASSUME PInv, [QP!Next]_queueVars, NEW n \in Node, InSection(n), w'[n] = w[n]
  PROVE  /\ Busy(n)
         /\ RunOf(n) \in Run
         /\ RunOf(n)' = RunOf(n)
         /\ Me(n)' = Me(n)
  <1>1. Busy(n)
    BY DEF InSection, Section, Busy
  <1> QED
    BY <1>1, RunKept, OwnerIsSomeone DEF Me

\* The lock is free, the worker's own, or stale; in the last case its owner
\* has overslept.
LEMMA AcquirePreserves ==
  ASSUME PInv, NEW n \in Node, [QP!Next]_queueVars, Acquire(n)
  PROVE  PInv'
  <1> DEFINE r == RunOf(n)
  <1>1. w[n].pc = "acquire" /\ Busy(n) /\ r \in Run /\ InHand(n)
    BY DEF Acquire, Busy, PInv, JobInHand, InHand
  <1>2. OtherTypes'
    BY DEF Acquire, PInv, OtherTypes
  <1>3. CASE LockAvailable(r, n) /\ Goto(n, "setRunning")
             /\ runs' = [runs EXCEPT ![r].owner = Me(n), ![r].stale = FALSE]
    <2> DEFINE row == [runs[r] EXCEPT !.owner = Me(n), !.stale = FALSE]
    <2>1. row \in RunRow /\ row.owner = Me(n) /\ row.stale = FALSE
      BY <1>1, OwnerIsSomeone DEF PInv, RowTypes, RunRow
    <2>2. runs' = [runs EXCEPT ![r] = row]
      BY <1>1, <1>3 DEF PInv, RowTypes, RunRow
    <2>3. /\ runs' \in [Run -> RunRow]
          /\ runs'[r].owner = Me(n)
          /\ runs'[r].stale = FALSE
          /\ \A q \in Run \ {r} : runs'[q] = runs[q]
      <3> HIDE DEF row
      <3> QED
        BY <1>1, <2>1, <2>2 DEF PInv, RowTypes
    <2>4. /\ w' \in [Node -> WRow]
          /\ Others(n)
          /\ Moves(n)
          /\ w'[n].job = w[n].job
          /\ w'[n].pid = w[n].pid
      BY <1>1, <1>3 DEF Goto, PInv, RowTypes, WRow, WorkerPc, Others, Moves, Busy, InPlan
    <2>5. QP!IInv' /\ JobInHand' /\ RegisteredWhenUp' /\ StepInPlan'
      BY <2>4, MovesPreserve DEF Others
    <2>6. RunOf(n)' = r /\ Me(n)' = Me(n)
      BY <1>1, <2>4, RunKept DEF Me
    <2>7. ASSUME NEW m \in Node, InSection(m)'
          PROVE  /\ w'[m].overslept \/ runs'[RunOf(m)'].owner = Me(m)'
                 /\ runs'[RunOf(m)'].owner = Me(m)' /\ runs'[RunOf(m)'].stale
                      => w'[m].overslept
      <3>1. CASE m = n
        BY <2>3, <2>6, <3>1
      <3>2. CASE m # n
        <4>1. w'[m] = w[m] /\ InSection(m)
          BY <2>4, <2>7, <3>2 DEF Others, InSection
        <4>2. /\ Busy(m)
              /\ RunOf(m) \in Run
              /\ RunOf(m)' = RunOf(m)
              /\ Me(m)' = Me(m)
              /\ Me(m) # NoOwner
          BY <4>1, BystanderKept, OwnerIsSomeone
        <4>3. CASE RunOf(m) = r
          <5>1. Me(m) # Me(n)
            BY <3>2, OwnersDiffer
          <5>2. w[m].overslept
            BY <1>3, <4>1, <4>2, <4>3, <5>1
            DEF LockAvailable, PInv, SectionHoldsLock, StaleOwnerOverslept
          <5> QED
            BY <4>1, <5>2
        <4>4. CASE RunOf(m) # r
          <5>1. runs'[RunOf(m)] = runs[RunOf(m)]
            BY <2>3, <4>2, <4>4
          <5> QED
            BY <4>1, <4>2, <5>1 DEF PInv, SectionHoldsLock, StaleOwnerOverslept
        <4> QED
          BY <4>3, <4>4
      <3> QED
        BY <3>1, <3>2
    <2>8. SectionHoldsLock' /\ StaleOwnerOverslept'
      BY <2>7 DEF SectionHoldsLock, StaleOwnerOverslept
    <2> QED
      BY <1>2, <2>3, <2>4, <2>5, <2>8 DEF PInv, RowTypes
  <1>4. CASE Goto(n, "markRead") /\ UNCHANGED runs
    <2>1. w' \in [Node -> WRow] /\ Others(n) /\ Moves(n) /\ StaysInSection(n)
      BY <1>1, <1>4 DEF Goto, PInv, RowTypes, WRow, WorkerPc, Others, Moves,
                        StaysInSection, Busy, InSection, Section, InPlan
    <2>2. Ordinary(n)
      BY <1>2, <1>4, <2>1 DEF Ordinary, SameLocks, PInv, RowTypes
    <2> QED
      BY <2>2, OrdinaryPreserves
  <1> QED
    BY <1>3, <1>4 DEF Acquire

\* The owner of a lock wakes up: nobody else holds it, so nobody else depends
\* on its staleness.
LEMMA RefreshLockPreserves ==
  ASSUME PInv, NEW n \in Node, [QP!Next]_queueVars, RefreshLock(n)
  PROVE  PInv'
  <1> DEFINE r == RunOf(n)
  <1>1. w[n].pc = "refresh" /\ Busy(n) /\ r \in Run /\ InHand(n) /\ w[n].index < PlanLen
    BY DEF RefreshLock, Busy, PInv, JobInHand, InHand, StepInPlan, InPlan
  <1>2. OtherTypes'
    BY DEF RefreshLock, PInv, OtherTypes
  <1>3. CASE /\ runs[r].owner = Me(n)
             /\ runs' = [runs EXCEPT ![r].stale = FALSE]
             /\ w' = [w EXCEPT ![n].pc = "exec", ![n].overslept = FALSE]
    <2>1. /\ runs' \in [Run -> RunRow]
          /\ runs'[r].owner = Me(n)
          /\ runs'[r].stale = FALSE
          /\ \A q \in Run \ {r} : runs'[q] = runs[q]
      BY <1>1, <1>3 DEF PInv, RowTypes, RunRow
    <2>2. /\ w' \in [Node -> WRow]
          /\ Others(n)
          /\ Moves(n)
          /\ w'[n].job = w[n].job
          /\ w'[n].pid = w[n].pid
      BY <1>1, <1>3 DEF PInv, RowTypes, WRow, WorkerPc, Others, Moves, Busy, InPlan
    <2>3. QP!IInv' /\ JobInHand' /\ RegisteredWhenUp' /\ StepInPlan'
      BY <2>2, MovesPreserve DEF Others
    <2>4. RunOf(n)' = r /\ Me(n)' = Me(n)
      BY <1>1, <2>2, RunKept DEF Me
    <2>5. ASSUME NEW m \in Node, InSection(m)'
          PROVE  /\ w'[m].overslept \/ runs'[RunOf(m)'].owner = Me(m)'
                 /\ runs'[RunOf(m)'].owner = Me(m)' /\ runs'[RunOf(m)'].stale
                      => w'[m].overslept
      <3>1. CASE m = n
        BY <2>1, <2>4, <3>1
      <3>2. CASE m # n
        <4>1. w'[m] = w[m] /\ InSection(m)
          BY <2>2, <2>5, <3>2 DEF Others, InSection
        <4>2. RunOf(m) \in Run /\ RunOf(m)' = RunOf(m) /\ Me(m)' = Me(m)
          BY <4>1, BystanderKept
        <4>3. /\ runs'[RunOf(m)].owner = runs[RunOf(m)].owner
              /\ runs'[RunOf(m)].stale => runs[RunOf(m)].stale
          BY <1>3, <2>1, <4>2
        <4> QED
          BY <4>1, <4>2, <4>3 DEF PInv, SectionHoldsLock, StaleOwnerOverslept
      <3> QED
        BY <3>1, <3>2
    <2>6. SectionHoldsLock' /\ StaleOwnerOverslept'
      BY <2>5 DEF SectionHoldsLock, StaleOwnerOverslept
    <2> QED
      BY <1>2, <2>1, <2>2, <2>3, <2>6 DEF PInv, RowTypes
  <1>4. CASE /\ w' = [w EXCEPT ![n].pc = "release", ![n].err = TRUE]
             /\ UNCHANGED runs
    <2> DEFINE row == [w[n] EXCEPT !.pc = "release", !.err = TRUE]
    <2>1. w' = [w EXCEPT ![n] = row] /\ row \in WRow
      BY <1>4 DEF PInv, RowTypes, WRow, WorkerPc
    <2>2. w' \in [Node -> WRow] /\ Others(n)
      BY <2>1, WorkerReplaced DEF PInv
    <2>3. Moves(n) /\ StaysInSection(n)
      BY <1>1, <2>1 DEF PInv, RowTypes, WRow, Moves, StaysInSection, Busy, InSection,
                        Section, InPlan
    <2>4. Ordinary(n)
      BY <1>2, <1>4, <2>2, <2>3 DEF Ordinary, SameLocks, PInv, RowTypes
    <2> QED
      BY <2>4, OrdinaryPreserves
  <1> QED
    BY <1>3, <1>4 DEF RefreshLock, HoldsLock

\* Only the owner's lock is cleared, and only the owner counted on it.
LEMMA ReleaseLockPreserves ==
  ASSUME PInv, NEW n \in Node, [QP!Next]_queueVars, ReleaseLock(n)
  PROVE  PInv'
  <1> DEFINE r == RunOf(n)
  <1>1. w[n].pc = "release" /\ Busy(n) /\ r \in Run
    BY DEF ReleaseLock, Busy, PInv, JobInHand, InHand
  <1>2. OtherTypes'
    BY DEF ReleaseLock, PInv, OtherTypes
  <1>3. /\ w' \in [Node -> WRow]
        /\ Others(n)
        /\ Moves(n)
        /\ ~InSection(n)'
    BY LeavingMoves DEF ReleaseLock
  <1>4. CASE runs[r].owner # Me(n)
    <2>1. runs' = runs /\ Ordinary(n)
      BY <1>2, <1>3, <1>4
      DEF ReleaseLock, Ordinary, SameLocks, StaysInSection, PInv, RowTypes
    <2> QED
      BY <2>1, OrdinaryPreserves
  <1>5. CASE runs[r].owner = Me(n)
    <2>1. runs' = [runs EXCEPT ![r].owner = NoOwner, ![r].stale = FALSE]
      BY <1>5 DEF ReleaseLock
    <2>2. /\ runs' \in [Run -> RunRow]
          /\ runs'[r].stale = FALSE
          /\ \A q \in Run \ {r} : runs'[q] = runs[q]
      BY <1>1, <2>1 DEF PInv, RowTypes, RunRow
    <2>3. QP!IInv' /\ JobInHand' /\ RegisteredWhenUp' /\ StepInPlan'
      BY <1>3, MovesPreserve DEF Others
    <2>4. ASSUME NEW m \in Node, InSection(m)'
          PROVE  /\ w'[m].overslept \/ runs'[RunOf(m)'].owner = Me(m)'
                 /\ runs'[RunOf(m)'].owner = Me(m)' /\ runs'[RunOf(m)'].stale
                      => w'[m].overslept
      <3>1. m # n /\ w'[m] = w[m] /\ InSection(m)
        BY <1>3, <2>4 DEF Others, InSection
      <3>2. RunOf(m) \in Run /\ RunOf(m)' = RunOf(m) /\ Me(m)' = Me(m)
        BY <3>1, BystanderKept
      <3>3. CASE RunOf(m) = r
        <4>1. Me(m) # Me(n)
          BY <3>1, OwnersDiffer
        <4>2. w[m].overslept
          BY <1>5, <3>1, <3>3, <4>1 DEF PInv, SectionHoldsLock
        <4> QED
          BY <3>1, <4>2
      <3>4. CASE RunOf(m) # r
        <4>1. runs'[RunOf(m)] = runs[RunOf(m)]
          BY <2>2, <3>2, <3>4
        <4> QED
          BY <3>1, <3>2, <4>1 DEF PInv, SectionHoldsLock, StaleOwnerOverslept
      <3> QED
        BY <3>3, <3>4
    <2>5. SectionHoldsLock' /\ StaleOwnerOverslept'
      BY <2>4 DEF SectionHoldsLock, StaleOwnerOverslept
    <2> QED
      BY <1>2, <1>3, <2>2, <2>3, <2>5 DEF PInv, RowTypes
  <1> QED
    BY <1>4, <1>5

\* The lock of a live owner goes stale only together with its sleep.
LEMMA LockGoesStalePreserves ==
  ASSUME PInv, NEW r \in Run, [QP!Next]_queueVars, LockGoesStale(r)
  PROVE  PInv'
  <1> DEFINE Sleeps(n) == InSection(n) /\ RunOf(n) = r /\ Me(n) = runs[r].owner
  <1>1. /\ runs' = [runs EXCEPT ![r].stale = TRUE]
        /\ w' = [n \in Node |-> IF Sleeps(n) THEN [w[n] EXCEPT !.overslept = TRUE]
                                             ELSE w[n]]
    BY DEF LockGoesStale
  <1>2. OtherTypes'
    BY RunExecutionAssumption DEF LockGoesStale, Fault, PInv, OtherTypes
  <1>3. runs' \in [Run -> RunRow]
    BY <1>1 DEF PInv, RowTypes, RunRow
  <1>4. \A q \in Run : /\ runs'[q].owner = runs[q].owner
                       /\ q # r => runs'[q] = runs[q]
    BY <1>1 DEF PInv, RowTypes, RunRow
  <1>5. w' \in [Node -> WRow]
    BY <1>1 DEF PInv, RowTypes, WRow
  <1>6. \A n \in Node :
          /\ w'[n].pc = w[n].pc
          /\ w'[n].job = w[n].job
          /\ w'[n].pid = w[n].pid
          /\ w'[n].index = w[n].index
          /\ w[n].overslept => w'[n].overslept
          /\ Sleeps(n) => w'[n].overslept
    BY <1>1 DEF PInv, RowTypes, WRow
  <1> HIDE DEF Sleeps
  <1>7. \A n \in Node : Moves(n)
    BY <1>6 DEF Moves, Busy, InPlan, PInv, StepInPlan
  <1>8. QP!IInv' /\ JobInHand' /\ RegisteredWhenUp' /\ StepInPlan'
    BY <1>7, MovesPreserve
  <1>9. ASSUME NEW n \in Node, InSection(n)'
        PROVE  /\ w'[n].overslept \/ runs'[RunOf(n)'].owner = Me(n)'
               /\ runs'[RunOf(n)'].owner = Me(n)' /\ runs'[RunOf(n)'].stale
                    => w'[n].overslept
    <2>1. InSection(n) /\ Busy(n)
      BY <1>6, <1>9 DEF InSection, Section, Busy
    <2>2. RunOf(n) \in Run /\ RunOf(n)' = RunOf(n) /\ Me(n)' = Me(n)
      BY <1>6, <2>1, RunKept, OwnerIsSomeone DEF Me
    <2>3. /\ w[n].overslept => w'[n].overslept
          /\ Sleeps(n) => w'[n].overslept
      BY <1>6
    <2>4. /\ runs'[RunOf(n)].owner = runs[RunOf(n)].owner
          /\ RunOf(n) # r => runs'[RunOf(n)] = runs[RunOf(n)]
      BY <1>4, <2>2
    <2>5. w'[n].overslept \/ runs'[RunOf(n)'].owner = Me(n)'
      <3>1. w[n].overslept \/ runs[RunOf(n)].owner = Me(n)
        BY <2>1 DEF PInv, SectionHoldsLock
      <3> QED
        BY <2>2, <2>3, <2>4, <3>1
    <2>6. ASSUME runs'[RunOf(n)'].owner = Me(n)', runs'[RunOf(n)'].stale
          PROVE  w'[n].overslept
      <3>1. runs[RunOf(n)].owner = Me(n)
        BY <2>2, <2>4, <2>6
      <3>2. CASE RunOf(n) = r
        BY <2>1, <2>3, <3>1, <3>2 DEF Sleeps
      <3>3. CASE RunOf(n) # r
        <4>1. runs[RunOf(n)].stale
          BY <2>2, <2>4, <2>6, <3>3
        <4>2. w[n].overslept
          BY <2>1, <3>1, <4>1 DEF PInv, StaleOwnerOverslept
        <4> QED
          BY <2>3, <4>2
      <3> QED
        BY <3>2, <3>3
    <2> QED
      BY <2>5, <2>6
  <1>10. SectionHoldsLock' /\ StaleOwnerOverslept'
    BY <1>9 DEF SectionHoldsLock, StaleOwnerOverslept
  <1> QED
    BY <1>2, <1>3, <1>5, <1>8, <1>10 DEF PInv, RowTypes

-----------------------------------------------------------------------------
\* The steps of clocks and handlers leave every worker alone.
LEMMA QuietPreserves ==
  ASSUME PInv, [QP!Next]_queueVars, w' = w, SameLocks,
         runs' \in [Run -> RunRow], OtherTypes'
  PROVE  PInv'
  <1>1. QP!IInv' /\ JobInHand' /\ RegisteredWhenUp' /\ StepInPlan'
    BY MovesPreserve
  <1>2. SectionHoldsLock' /\ StaleOwnerOverslept'
    BY LocksPreserved
  <1> QED
    BY <1>1, <1>2 DEF PInv, RowTypes

LEMMA LeaseExpiresPreserves ==
  ASSUME PInv, NEW j \in Q!Job, [QP!Next]_queueVars, LeaseExpires(j)
  PROVE  PInv'
  <1>1. w' = w /\ runs' = runs /\ OtherTypes'
    BY RunExecutionAssumption DEF LeaseExpires, Fault, PInv, OtherTypes
  <1> QED
    BY <1>1, QuietPreserves DEF SameLocks, PInv, RowTypes

LEMMA ApiPreserves ==
  ASSUME PInv, NEW r \in Run, [QP!Next]_queueVars,
         CreateRun(r) \/ ResumeRead(r) \/ ApiStep(r) \/ ApiCrash(r)
  PROVE  PInv'
  <1> USE RunExecutionAssumption DEF PInv, RowTypes, OtherTypes
  <1>1. CASE CreateRun(r) \/ ResumeWrite(r)
    <2>1. w' = w /\ OtherTypes'
      BY <1>1 DEF CreateRun, ResumeWrite
    <2>2. runs' = [runs EXCEPT ![r].status = "queued"]
      BY <1>1 DEF CreateRun, ResumeWrite, SetStatus
    <2>3. runs' \in [Run -> RunRow]
      <3>1. [runs[r] EXCEPT !.status = "queued"] \in RunRow
        BY DEF RunRow
      <3> QED
        BY <2>2, <3>1
    <2>4. SameLocks
      BY <2>2 DEF RunRow, SameLocks
    <2> QED
      BY <2>1, <2>3, <2>4, QuietPreserves
  <1>2. CASE ResumeRead(r)
    <2>1. w' = w /\ OtherTypes' /\ runs' = runs
      BY <1>2 DEF ResumeRead
    <2> QED
      BY <2>1, QuietPreserves DEF SameLocks
  <1>3. CASE Enqueue(r)
    <2>1. w' = w /\ OtherTypes' /\ runs' = runs
      BY <1>3 DEF Enqueue
    <2> QED
      BY <2>1, QuietPreserves DEF SameLocks
  <1>4. CASE ApiCrash(r)
    <2>1. w' = w /\ OtherTypes' /\ runs' = runs
      BY <1>4 DEF ApiCrash, Fault
    <2> QED
      BY <2>1, QuietPreserves DEF SameLocks
  <1> QED
    BY <1>1, <1>2, <1>3, <1>4 DEF ApiStep

-----------------------------------------------------------------------------
\* Every step uses the queue through its own operations, or not at all.
LEMMA QueueStep ==
  ASSUME PInv, [Next]_vars
  PROVE  [QP!Next]_queueVars
  <1> USE DEF queueVars
  <1>1. SUFFICES ASSUME Next
                 PROVE  Q!Next \/ UNCHANGED queueVars
    BY SameQueue DEF vars
  <1>2. ASSUME NEW n \in Node,
               \/ Start(n)
               \/ Heartbeat(n)
               \/ Shutdown(n)
        PROVE  Q!Next
    <2>1. Heartbeat(n) => nodes[n].role \in Role
      BY DEF Heartbeat, PInv, RegisteredWhenUp
    <2>2. Q!NodeCall(n)
      BY <1>2, <2>1 DEF Start, Heartbeat, Shutdown, Q!NodeCall
    <2> QED
      BY <2>2 DEF Q!Next
  <1>3. ASSUME NEW n \in Node, Claim(n)
        PROVE  Q!Next
    <2>1. nodes[n].role \in Role
      BY <1>3 DEF Claim, PInv, RegisteredWhenUp
    <2>2. PICK j \in Q!Job : Q!ClaimNextRunJob(j, n, nodes[n].role, Run)
      BY <1>3 DEF Claim
    <2>3. Run \in Q!RunFilter
      BY DEF Q!RunFilter
    <2> QED
      BY <2>1, <2>2, <2>3 DEF Q!Next, Q!QueueCall
  <1>4. ASSUME NEW n \in Node,
               \/ MarkRunning(n)
               \/ RenewLease(n)
               \/ CompleteJob(n)
               \/ FailJob(n)
        PROVE  Q!Next \/ UNCHANGED queueVars
    <2>1. w[n].job \in Q!Job
      BY <1>4 DEF MarkRunning, RenewLease, CompleteJob, FailJob, PInv, JobInHand, InHand, Busy
    <2>2. Q!QueueCall(w[n].job, n) \/ UNCHANGED queueVars
      BY <1>4 DEF MarkRunning, RenewLease, CompleteJob, FailJob, Q!QueueCall
    <2> QED
      BY <2>1, <2>2 DEF Q!Next
  <1>5. ASSUME NEW n \in Node,
               \/ ReadRun(n) \/ Acquire(n) \/ SetRunning(n) \/ RefreshLock(n)
               \/ ExecStep(n) \/ AdvanceRun(n) \/ FailRun(n) \/ ReleaseLock(n)
               \/ MarkRead(n) \/ MarkWrite(n) \/ JobThrows(n) \/ KernelThrows(n)
               \/ ErrorSwallowed(n) \/ Crash(n) \/ Exit(n)
        PROVE  UNCHANGED queueVars
    BY <1>5 DEF ReadRun, Acquire, SetRunning, RefreshLock, ExecStep, AdvanceRun, FailRun,
                ReleaseLock, MarkRead, MarkWrite, JobThrows, KernelThrows,
                ErrorSwallowed, Crash, Exit
  <1>6. ASSUME NEW j \in Q!Job, LeaseExpires(j)
        PROVE  Q!Next
    BY <1>6 DEF LeaseExpires, Q!Next
  <1>7. ASSUME NEW r \in Run, Enqueue(r)
        PROVE  Q!Next \/ UNCHANGED queueVars
    BY <1>7 DEF Enqueue, Q!Next
  <1>8. ASSUME NEW r \in Run,
               \/ LockGoesStale(r) \/ CreateRun(r) \/ ResumeRead(r)
               \/ ResumeWrite(r) \/ ApiCrash(r)
        PROVE  UNCHANGED queueVars
    BY <1>8 DEF LockGoesStale, CreateRun, ResumeRead, ResumeWrite, ApiCrash
  <1> QED
    BY <1>1, <1>2, <1>3, <1>4, <1>5, <1>6, <1>7, <1>8
    DEF Next, WorkerStep, WorkerFault, ApiStep

LEMMA InitHolds == Init => PInv
  <1> SUFFICES ASSUME Init PROVE PInv
    OBVIOUS
  <1> USE RunExecutionAssumption DEF Init
  <1>1. Q!Init <=> QP!Init
    BY DEF Q!Init, QP!Init, Q!Job, QP!Job, Q!AbsentJob, QP!AbsentJob
  <1>2. QP!IInv
    BY <1>1, QP!InitEstablishes DEF QP!RunJobsAssumption
  <1>3. \A n \in Node : w[n] \in WRow /\ w[n].pc = "down"
    BY DEF Down, WRow, WorkerPc
  <1>4. w \in [Node -> WRow]
    BY <1>3
  <1>5. runs \in [Run -> RunRow]
    BY DEF RunRow
  <1>6. OtherTypes
    BY DEF OtherTypes
  <1>7. /\ JobInHand
        /\ RegisteredWhenUp
        /\ StepInPlan
        /\ SectionHoldsLock
        /\ StaleOwnerOverslept
    BY <1>3 DEF JobInHand, Busy, RegisteredWhenUp, StepInPlan, InPlan,
                SectionHoldsLock, StaleOwnerOverslept, InSection, Section
  <1> QED
    BY <1>2, <1>4, <1>5, <1>6, <1>7 DEF PInv, RowTypes

LEMMA WorkerPreserves ==
  ASSUME PInv, NEW n \in Node, [QP!Next]_queueVars,
         \/ Start(n) \/ Heartbeat(n) \/ RenewLease(n) \/ WorkerStep(n)
         \/ WorkerFault(n) \/ Exit(n)
  PROVE  PInv'
  <1>1. CASE Acquire(n) \/ RefreshLock(n) \/ ReleaseLock(n)
    BY <1>1, AcquirePreserves, RefreshLockPreserves, ReleaseLockPreserves
  <1>2. CASE ~(Acquire(n) \/ RefreshLock(n) \/ ReleaseLock(n))
    <2>1. Ordinary(n)
      BY <1>2, StartMoves, HeartbeatMoves, RenewLeaseMoves, ClaimMoves,
         MarkRunningMoves, ReadRunMoves, SetRunningMoves, ExecStepMoves,
         AdvanceRunMoves, FailRunMoves, SettleMoves, MarkReadMoves, MarkWriteMoves,
         JobThrowsMoves, KernelThrowsMoves, ErrorSwallowedMoves, CrashMoves,
         ShutdownMoves, ExitMoves
      DEF WorkerStep, WorkerFault
    <2> QED
      BY <2>1, OrdinaryPreserves
  <1> QED
    BY <1>1, <1>2

LEMMA StepPreserves ==
  ASSUME PInv, [Next]_vars
  PROVE  PInv'
  <1>1. [QP!Next]_queueVars
    BY QueueStep
  <1>2. CASE UNCHANGED vars
    <2>1. w' = w /\ runs' = runs /\ OtherTypes'
      BY <1>2 DEF vars, PInv, OtherTypes
    <2> QED
      BY <1>1, <2>1, QuietPreserves DEF SameLocks, PInv, RowTypes
  <1>3. ASSUME NEW n \in Node,
               \/ Start(n) \/ Heartbeat(n) \/ RenewLease(n) \/ WorkerStep(n)
               \/ WorkerFault(n) \/ Exit(n)
        PROVE  PInv'
    BY <1>1, <1>3, WorkerPreserves
  <1>4. ASSUME NEW j \in Q!Job, LeaseExpires(j)
        PROVE  PInv'
    BY <1>1, <1>4, LeaseExpiresPreserves
  <1>5. ASSUME NEW r \in Run,
               \/ LockGoesStale(r) \/ CreateRun(r) \/ ResumeRead(r) \/ ApiStep(r)
               \/ ApiCrash(r)
        PROVE  PInv'
    BY <1>1, <1>5, LockGoesStalePreserves, ApiPreserves
  <1> QED
    BY <1>2, <1>3, <1>4, <1>5 DEF Next

\* The inductive invariant, on which the theorems rest.
THEOREM Invariance == Spec => []PInv
  <1>1. PInv /\ [Next]_vars => PInv'
    BY StepPreserves
  <1> QED
    BY <1>1, InitHolds, PTL DEF Spec

-----------------------------------------------------------------------------
\* Rows, memories and counters keep their types, and no index passes the end of
\* its plan, whatever is interleaved and however often it faults.
THEOREM TypeCorrect == Spec => []TypeOK
  <1>1. PInv => TypeOK
    <2>1. QP!TypeOK => Q!TypeOK
      BY DEF QP!TypeOK, Q!TypeOK, QP!JobRow, Q!JobRow, QP!NodeRow, Q!NodeRow,
             QP!Job, Q!Job, QP!JobStatus, Q!JobStatus
    <2> QED
      BY <2>1 DEF PInv, QP!IInv, RowTypes, OtherTypes, TypeOK, WRow, RunRow
  <1> QED
    BY <1>1, Invariance, PTL

\* Whoever is inside executeLoop owns the run's lock or has overslept, and of two
\* workers there for one run, one has.
THEOREM OneExecutor == Spec => []LockExcludes
  <1>1. PInv => OneExecutorPerRun
    BY OwnersDiffer DEF PInv, SectionHoldsLock, OneExecutorPerRun
  <1>2. PInv => LockExcludes
    BY <1>1 DEF PInv, LockExcludes
  <1> QED
    BY <1>2, Invariance, PTL

\* Workers and handlers drive the queue through its own operations only, so
\* what RunJobsProofs proves of the queue holds of the whole system.
THEOREM QueueUsedCorrectly == Spec => UsesQueueCorrectly
  <1>1. Init => Q!Init
    BY DEF Init
  <1>2. PInv /\ [Next]_vars => [Q!Next]_(Q!queueVars)
    BY QueueStep, SameQueue DEF queueVars, Q!queueVars
  <1> QED
    BY <1>1, <1>2, Invariance, PTL DEF Spec, UsesQueueCorrectly, Q!Spec

-----------------------------------------------------------------------------
\* What a worker in the middle of a plan has behind it is committed.
PlanBehindCommitted ==
  \A n \in Node : InPlan(n) =>
    \A i \in 0..PlanLen-1 :
      i < w[n].index \/ (i = w[n].index /\ w[n].pc = "advance")
        => effects[RunOf(n)][i] >= 1

\* With PInv, inductive.
StepsInv == NoStepSkipped /\ PlanBehindCommitted

-----------------------------------------------------------------------------
\* No step skipped.  Only four actions move a worker along the plan, write the
\* row's index or commit a step; the rest keep the place.

Behind(n) ==
  \A i \in 0..PlanLen-1 :
    i < w[n].index \/ (i = w[n].index /\ w[n].pc = "advance")
      => effects[RunOf(n)][i] >= 1

EffectsKept ==
  \A r \in Run, i \in 0..PlanLen-1 : effects[r][i] >= 1 => effects'[r][i] >= 1

IndexBacked(r) == \A i \in 0..PlanLen-1 : i < runs[r].index => effects[r][i] >= 1

KeepsPlace(n) ==
  InPlan(n)' => /\ InPlan(n)
                /\ w'[n].job = w[n].job
                /\ w'[n].index = w[n].index
                /\ w'[n].pc = "advance" => w[n].pc = "advance"

SameIndices == \A r \in Run : runs'[r].index = runs[r].index

LEMMA PlaceKept ==
  ASSUME PInv, StepsInv, [QP!Next]_queueVars, EffectsKept, NEW n \in Node, KeepsPlace(n),
         InPlan(n)'
  PROVE  Behind(n)'
  <1>1. InPlan(n) /\ Busy(n) /\ Behind(n)
    BY DEF KeepsPlace, InPlan, Busy, StepsInv, PlanBehindCommitted, Behind
  <1>2. RunOf(n) \in Run /\ RunOf(n)' = RunOf(n)
    BY <1>1, RunKept DEF KeepsPlace, PInv, JobInHand, InHand
  <1>3. ASSUME NEW i \in 0..PlanLen-1,
               i < w'[n].index \/ (i = w'[n].index /\ w'[n].pc = "advance")
        PROVE  effects'[RunOf(n)'][i] >= 1
    <2>1. effects[RunOf(n)][i] >= 1
      BY <1>1, <1>3 DEF KeepsPlace, Behind
    <2> QED
      BY <1>2, <2>1 DEF EffectsKept
  <1> QED
    BY <1>3 DEF Behind

LEMMA StepsPreserved ==
  ASSUME PInv, StepsInv, [QP!Next]_queueVars, EffectsKept,
         \A n \in Node : w'[n] = w[n] \/ KeepsPlace(n) \/ Behind(n)',
         \A r \in Run : runs'[r].index = runs[r].index \/ IndexBacked(r)'
  PROVE  StepsInv'
  <1>1. ASSUME NEW r \in Run
        PROVE  IndexBacked(r)'
    BY DEF StepsInv, NoStepSkipped, IndexBacked, EffectsKept
  <1>2. ASSUME NEW n \in Node, InPlan(n)'
        PROVE  Behind(n)'
    <2>1. w'[n] = w[n] => KeepsPlace(n)
      BY DEF KeepsPlace, InPlan
    <2> QED
      BY <1>2, <2>1, PlaceKept
  <1> QED
    BY <1>1, <1>2 DEF StepsInv, NoStepSkipped, PlanBehindCommitted, IndexBacked, Behind

LEMMA WorkerKeepsPlace ==
  ASSUME PInv, NEW n \in Node,
         \/ Start(n) \/ Heartbeat(n) \/ RenewLease(n) \/ WorkerStep(n)
         \/ WorkerFault(n) \/ Exit(n),
         ~(SetRunning(n) \/ ExecStep(n) \/ AdvanceRun(n) \/ FailRun(n))
  PROVE  effects' = effects /\ SameIndices /\ Others(n) /\ KeepsPlace(n)
  <1> USE DEF PInv, RowTypes, WRow, RunRow, WorkerPc, SameIndices, Others, KeepsPlace, InPlan
  <1>1. CASE Start(n)
    BY <1>1 DEF Start, Down
  <1>2. CASE Heartbeat(n) \/ RenewLease(n)
    BY <1>2 DEF Heartbeat, RenewLease
  <1>3. CASE Claim(n)
    BY <1>3 DEF Claim
  <1>4. CASE MarkRunning(n)
    <2>1. CASE Goto(n, "read")
      BY <1>4, <2>1 DEF MarkRunning, Goto
    <2>2. CASE GoIdle(n)
      BY <1>4, <2>2, GoIdleMoves DEF MarkRunning
    <2> QED
      BY <1>4, <2>1, <2>2 DEF MarkRunning
  <1>5. CASE ReadRun(n) \/ JobThrows(n)
    BY <1>5 DEF ReadRun, JobThrows, Goto
  <1>6. CASE MarkRead(n)
    BY <1>6 DEF MarkRead, Goto
  <1>7. CASE MarkWrite(n)
    BY <1>7 DEF MarkWrite, SetStatus, Goto
  <1>8. CASE Acquire(n)
    BY <1>8 DEF Acquire, Goto
  <1>9. CASE RefreshLock(n)
    BY <1>9 DEF RefreshLock
  <1>10. CASE ReleaseLock(n)
    <2>1. effects' = effects /\ SameIndices
      BY <1>10 DEF ReleaseLock
    <2>2. Others(n) /\ KeepsPlace(n)
      BY <1>10, LeavingMoves DEF ReleaseLock, InSection, Section
    <2> QED
      BY <2>1, <2>2
  <1>11. CASE CompleteJob(n) \/ FailJob(n)
    BY <1>11, GoIdleMoves DEF CompleteJob, FailJob
  <1>12. CASE KernelThrows(n)
    BY <1>12 DEF KernelThrows
  <1>13. CASE ErrorSwallowed(n)
    <2>1. effects' = effects /\ SameIndices
      BY <1>13 DEF ErrorSwallowed
    <2>2. Others(n) /\ ~InPlan(n)'
      <3>1. CASE /\ w[n].pc = "release"
                 /\ w' = [w EXCEPT ![n].pc = AfterRelease(n), ![n].overslept = FALSE]
        BY <3>1, LeavingMoves DEF InSection, Section
      <3>2. CASE w[n].pc \in {"markRead", "markWrite"} /\ Goto(n, "fail")
        BY <3>2 DEF Goto
      <3>3. CASE w[n].pc = "fail" /\ GoIdle(n)
        BY <3>3, GoIdleMoves
      <3> QED
        BY <1>13, <3>1, <3>2, <3>3 DEF ErrorSwallowed
    <2> QED
      BY <2>1, <2>2
  <1>14. CASE Crash(n) \/ Exit(n)
    BY <1>14 DEF Crash, Exit, Down
  <1>15. CASE Shutdown(n)
    BY <1>15 DEF Shutdown
  <1> QED
    BY <1>1, <1>2, <1>3, <1>4, <1>5, <1>6, <1>7, <1>8, <1>9, <1>10, <1>11, <1>12,
       <1>13, <1>14, <1>15
    DEF WorkerStep, WorkerFault

\* The row's index is backed by commits, so the plan behind it is.
LEMMA SetRunningSteps ==
  ASSUME PInv, StepsInv, NEW n \in Node, [QP!Next]_queueVars, SetRunning(n)
  PROVE  StepsInv'
  <1>1. Busy(n) /\ RunOf(n) \in Run
    BY DEF SetRunning, Busy, PInv, JobInHand, InHand
  <1>2. /\ Others(n)
        /\ w'[n].index = runs[RunOf(n)].index
        /\ w'[n].pc # "advance"
        /\ w'[n].job = w[n].job
    BY DEF SetRunning, PInv, RowTypes, WRow, Others
  <1>3. SameIndices /\ effects' = effects
    BY DEF SetRunning, SetStatus, SameIndices, PInv, RowTypes, RunRow
  <1>4. RunOf(n)' = RunOf(n)
    BY <1>1, <1>2, RunKept
  <1>5. Behind(n)'
    BY <1>1, <1>2, <1>3, <1>4 DEF Behind, StepsInv, NoStepSkipped
  <1> QED
    BY <1>2, <1>3, <1>5, StepsPreserved DEF Others, SameIndices, EffectsKept

LEMMA ExecSteps ==
  ASSUME PInv, StepsInv, NEW n \in Node, [QP!Next]_queueVars, ExecStep(n)
  PROVE  StepsInv'
  <1> USE RunExecutionAssumption
  <1> DEFINE r == RunOf(n)
             i == w[n].index
             row == [effects[r] EXCEPT ![i] = IF @ = 2 THEN 2 ELSE @ + 1]
  <1>1. Busy(n) /\ InPlan(n) /\ r \in Run /\ i \in 0..PlanLen-1
    BY DEF ExecStep, Busy, PInv, JobInHand, InHand, StepInPlan, InPlan, RowTypes, WRow
  <1>2. /\ Others(n)
        /\ w'[n].index = i
        /\ w'[n].job = w[n].job
        /\ SameIndices
    BY DEF ExecStep, Goto, PInv, RowTypes, WRow, Others, SameIndices
  <1>3. RunOf(n)' = r
    BY <1>1, <1>2, RunKept
  <1>4. CASE effects' = effects /\ Goto(n, "stepFailed")
    <2>1. KeepsPlace(n)
      BY <1>1, <1>2, <1>4 DEF KeepsPlace, Goto, PInv, RowTypes, WRow
    <2> QED
      BY <1>2, <1>4, <2>1, StepsPreserved DEF Others, SameIndices, EffectsKept
  <1>5. CASE effects' = [effects EXCEPT ![r] = row]
    <2>1. effects[r] \in [0..PlanLen-1 -> 0..2] /\ effects[r][i] \in 0..2
      BY <1>1 DEF PInv, OtherTypes
    <2>2. /\ row[i] >= 1
          /\ \A k \in 0..PlanLen-1 : k # i => row[k] = effects[r][k]
      BY <1>1, <2>1
    <2>3. effects'[r] = row /\ \A q \in Run \ {r} : effects'[q] = effects[q]
      BY <1>1, <1>5 DEF PInv, OtherTypes
    <2> HIDE DEF row
    <2>4. EffectsKept
      BY <2>2, <2>3 DEF EffectsKept
    <2>5. \A k \in 0..PlanLen-1 : k < i => effects'[r][k] >= 1
      BY <1>1, <2>4 DEF EffectsKept, StepsInv, PlanBehindCommitted
    <2>6. Behind(n)'
      BY <1>2, <1>3, <2>2, <2>3, <2>5 DEF Behind
    <2> QED
      BY <1>2, <2>4, <2>6, StepsPreserved DEF Others, SameIndices
  <1> QED
    BY <1>4, <1>5 DEF ExecStep

\* The step just done was committed before the index moves past it.
LEMMA AdvanceSteps ==
  ASSUME PInv, StepsInv, NEW n \in Node, [QP!Next]_queueVars, AdvanceRun(n)
  PROVE  StepsInv'
  <1> USE RunExecutionAssumption
  <1> DEFINE i == w[n].index
  <1>0. PICK r \in Run : r = RunOf(n)
    BY DEF AdvanceRun, Busy, PInv, JobInHand, InHand
  <1>1. Busy(n) /\ InPlan(n) /\ i \in 0..PlanLen-1 /\ w[n].pc = "advance"
    BY DEF AdvanceRun, Busy, PInv, JobInHand, InHand, StepInPlan, InPlan, RowTypes, WRow
  <1>2. /\ Others(n)
        /\ w'[n].index = i + 1
        /\ w'[n].job = w[n].job
        /\ w'[n].pc # "advance"
        /\ effects' = effects
    BY DEF AdvanceRun, PInv, RowTypes, WRow, Others
  <1>3. RunOf(n)' = r
    BY <1>0, <1>1, <1>2, RunKept
  <1>4. runs'[r].index = i + 1 /\ \A q \in Run \ {r} : runs'[q] = runs[q]
    BY <1>0, <1>1 DEF AdvanceRun, PInv, RowTypes, RunRow
  <1>5. \A k \in 0..PlanLen-1 : k < i + 1 => effects[r][k] >= 1
    <2>1. \A k \in 0..PlanLen-1 : k < i \/ k = i => effects[r][k] >= 1
      BY <1>0, <1>1 DEF StepsInv, PlanBehindCommitted
    <2> QED
      BY <1>1, <2>1
  <1>6. Behind(n)' /\ IndexBacked(r)'
    BY <1>2, <1>3, <1>4, <1>5 DEF Behind, IndexBacked
  <1> QED
    BY <1>2, <1>4, <1>6, StepsPreserved DEF Others, EffectsKept

\* A failed run goes back to its failed step, which has the plan behind it.
LEMMA FailRunSteps ==
  ASSUME PInv, StepsInv, NEW n \in Node, [QP!Next]_queueVars, FailRun(n)
  PROVE  StepsInv'
  <1>0. PICK r \in Run : r = RunOf(n)
    BY DEF FailRun, Busy, PInv, JobInHand, InHand
  <1>1. Busy(n) /\ InPlan(n)
    BY DEF FailRun, Busy, PInv, JobInHand, InHand, InPlan
  <1>2. Others(n) /\ w'[n].pc = "release" /\ effects' = effects
    BY DEF FailRun, Goto, PInv, RowTypes, WRow, Others
  <1>3. runs'[r].index = w[n].index /\ \A q \in Run \ {r} : runs'[q] = runs[q]
    BY <1>0, <1>1 DEF FailRun, PInv, RowTypes, RunRow
  <1>4. IndexBacked(r)'
    BY <1>0, <1>1, <1>2, <1>3 DEF IndexBacked, StepsInv, PlanBehindCommitted
  <1>5. KeepsPlace(n)
    BY <1>2 DEF KeepsPlace, InPlan
  <1> QED
    BY <1>2, <1>3, <1>4, <1>5, StepsPreserved DEF Others, EffectsKept

LEMMA StepsStep ==
  ASSUME PInv, StepsInv, [Next]_vars
  PROVE  StepsInv'
  <1> USE QueueStep
  <1>1. ASSUME NEW n \in Node,
               \/ Start(n) \/ Heartbeat(n) \/ RenewLease(n) \/ WorkerStep(n)
               \/ WorkerFault(n) \/ Exit(n)
        PROVE  StepsInv'
    <2>1. CASE SetRunning(n) \/ ExecStep(n) \/ AdvanceRun(n) \/ FailRun(n)
      BY <2>1, SetRunningSteps, ExecSteps, AdvanceSteps, FailRunSteps
    <2>2. CASE ~(SetRunning(n) \/ ExecStep(n) \/ AdvanceRun(n) \/ FailRun(n))
      <3>1. effects' = effects /\ SameIndices /\ Others(n) /\ KeepsPlace(n)
        BY <1>1, <2>2, WorkerKeepsPlace
      <3> QED
        BY <3>1, StepsPreserved DEF Others, SameIndices, EffectsKept
    <2> QED
      BY <2>1, <2>2
  <1>2. ASSUME NEW r \in Run, LockGoesStale(r)
        PROVE  StepsInv'
    <2>1. effects' = effects /\ SameIndices /\ \A n \in Node : KeepsPlace(n)
      BY <1>2 DEF LockGoesStale, PInv, RowTypes, WRow, RunRow, SameIndices, KeepsPlace, InPlan
    <2> QED
      BY <2>1, StepsPreserved DEF SameIndices, EffectsKept
  <1>3. ASSUME NEW r \in Run, CreateRun(r) \/ ResumeRead(r) \/ ApiStep(r) \/ ApiCrash(r)
        PROVE  StepsInv'
    <2>1. effects' = effects /\ SameIndices /\ w' = w
      BY <1>3 DEF CreateRun, ResumeRead, ApiStep, ResumeWrite, Enqueue, ApiCrash, SetStatus,
                  PInv, RowTypes, RunRow, SameIndices
    <2> QED
      BY <2>1, StepsPreserved DEF SameIndices, EffectsKept
  <1>4. ASSUME NEW j \in Q!Job, LeaseExpires(j)
        PROVE  StepsInv'
    <2>1. effects' = effects /\ SameIndices /\ w' = w
      BY <1>4 DEF LeaseExpires, SameIndices
    <2> QED
      BY <2>1, StepsPreserved DEF SameIndices, EffectsKept
  <1>5. CASE UNCHANGED vars
    <2>1. effects' = effects /\ SameIndices /\ w' = w
      BY <1>5 DEF vars, SameIndices
    <2> QED
      BY <2>1, StepsPreserved DEF SameIndices, EffectsKept
  <1> QED
    BY <1>1, <1>2, <1>3, <1>4, <1>5 DEF Next

\* The row's index never gets ahead of what was committed, for any number of
\* workers, crashes, stolen locks and resumes.
THEOREM NoStepEverSkipped == Spec => []NoStepSkipped
  <1>1. Init => StepsInv
    BY RunExecutionAssumption
    DEF Init, Down, StepsInv, NoStepSkipped, PlanBehindCommitted, InPlan
  <1>2. PInv /\ StepsInv /\ [Next]_vars => StepsInv'
    BY StepsStep
  <1>3. StepsInv => NoStepSkipped
    BY DEF StepsInv
  <1> QED
    BY <1>1, <1>2, <1>3, Invariance, PTL DEF Spec

-----------------------------------------------------------------------------

\* The handler will enqueue the run, or will have been told that it could not.
Covered(r) == api[r] = "enqueue" \/ swallowed[r]

\* A queued run waits for its handler or for an active job.
QueuedRunAwaited ==
  \A r \in Run : runs[r].status = "queued" => Covered(r) \/ Q!HasActiveJob(r)

\* From its write of running to the settling of its job a worker knows the run
\* to have left the queue.
Late(n) ==
  \/ w[n].pc \in {"refresh", "exec", "advance", "stepFailed", "complete", "fail"}
  \/ w[n].pc = "release" /\ ~w[n].err

\* So if the run is queued when its job is settled, somebody has queued it
\* since.
SettledRunNotQueued ==
  \A n \in Node :
    Late(n) /\ Q!HeldBy(w[n].job, n) /\ runs[RunOf(n)].status = "queued"
      => Covered(RunOf(n))

\* With PInv, inductive.
JobsInv == QueuedRunAwaited /\ SettledRunNotQueued

-----------------------------------------------------------------------------
\* No queued run forgotten.  What a step may do to the rows, the handlers and
\* the holders of jobs, so that every queued run stays awaited.

\* Whoever holds its job now held it before, at the same place or a later one.
KeepsLate(n) ==
  Late(n)' /\ Q!HeldBy(w[n].job, n)' =>
    /\ w'[n].job = w[n].job
    /\ Busy(n)
    /\ Q!HeldBy(w[n].job, n)
    /\ Late(n) \/ runs'[RunOf(n)].status # "queued" \/ Covered(RunOf(n))'

StatusStep(r) ==
  runs'[r].status = "queued" => runs[r].status = "queued" \/ Covered(r)'

CoverStep(r) ==
  Covered(r) => Covered(r)' \/ (Q!HasActiveJob(r)' /\ ~Q!HasActiveJob(r))

ActiveStep(r) ==
  Q!HasActiveJob(r) /\ runs[r].status = "queued" => Q!HasActiveJob(r)' \/ Covered(r)

LEMMA HeldIsActive ==
  ASSUME PInv, NEW n \in Node, Busy(n), Q!HeldBy(w[n].job, n)
  PROVE  Q!HasActiveJob(RunOf(n))
  BY DEF PInv, JobInHand, InHand, Q!HeldBy, Q!HasActiveJob, Q!Active, Q!ActiveJobStatus,
         RunOf

LEMMA JobsPreserved ==
  ASSUME PInv, JobsInv, [QP!Next]_queueVars,
         \A n \in Node : KeepsLate(n),
         \A r \in Run : StatusStep(r) /\ CoverStep(r) /\ ActiveStep(r)
  PROVE  JobsInv'
  <1>1. QueuedRunAwaited'
    <2> SUFFICES ASSUME NEW r \in Run, runs'[r].status = "queued"
                 PROVE  Covered(r)' \/ Q!HasActiveJob(r)'
      BY DEF QueuedRunAwaited
    <2>1. StatusStep(r) /\ CoverStep(r) /\ ActiveStep(r)
      OBVIOUS
    <2> QED
      BY <2>1 DEF StatusStep, CoverStep, ActiveStep, JobsInv, QueuedRunAwaited
  <1>2. SettledRunNotQueued'
    <2> SUFFICES ASSUME NEW n \in Node, Late(n)', Q!HeldBy(w[n].job, n)',
                        runs'[RunOf(n)'].status = "queued"
                 PROVE  Covered(RunOf(n))'
      BY DEF SettledRunNotQueued
    <2>1. /\ w'[n].job = w[n].job
          /\ Busy(n)
          /\ Q!HeldBy(w[n].job, n)
          /\ Late(n) \/ runs'[RunOf(n)].status # "queued" \/ Covered(RunOf(n))'
      BY DEF KeepsLate
    <2>2. PICK r \in Run : r = RunOf(n) /\ RunOf(n)' = r
      BY <2>1, RunKept DEF PInv, JobInHand, InHand
    <2>3. Covered(RunOf(n))' <=> Covered(r)'
      BY <2>2 DEF Covered
    <2>4. Q!HasActiveJob(r)
      BY <2>1, <2>2, HeldIsActive
    <2>5. StatusStep(r) /\ CoverStep(r)
      OBVIOUS
    <2>6. CASE Late(n) /\ ~Covered(r)'
      <3>1. runs[r].status = "queued"
        BY <2>2, <2>5, <2>6 DEF StatusStep
      <3>2. Covered(r)
        BY <2>1, <2>2, <2>6, <3>1 DEF JobsInv, SettledRunNotQueued
      <3> QED
        BY <2>4, <2>5, <2>6, <3>2 DEF CoverStep
    <2> QED
      BY <2>1, <2>2, <2>3, <2>6
  <1> QED
    BY <1>1, <1>2 DEF JobsInv

LEMMA LateIsBusy ==
  ASSUME NEW n \in Node, Late(n)
  PROVE  Busy(n)
  BY DEF Late, Busy

LEMMA WorkerJobsPreserved ==
  ASSUME PInv, JobsInv, NEW n \in Node, [QP!Next]_queueVars, Others(n), KeepsLate(n),
         api' = api,
         \A r \in Run : swallowed[r] => swallowed'[r],
         \A r \in Run : runs'[r].status = "queued" => runs[r].status = "queued",
         \A m \in Node \ {n} : Busy(m) /\ Q!HeldBy(w[m].job, m)' => Q!HeldBy(w[m].job, m),
         \A r \in Run : ActiveStep(r)
  PROVE  JobsInv'
  <1>1. ASSUME NEW m \in Node \ {n}
        PROVE  KeepsLate(m)
    <2>1. w'[m] = w[m]
      BY DEF Others
    <2>2. Late(m)' => Late(m)
      BY <2>1 DEF Late
    <2>3. Busy(m) /\ Q!HeldBy(w[m].job, m)' => Q!HeldBy(w[m].job, m)
      OBVIOUS
    <2> QED
      BY <2>1, <2>2, <2>3, LateIsBusy DEF KeepsLate
  <1>2. ASSUME NEW r \in Run
        PROVE  StatusStep(r) /\ CoverStep(r)
    BY DEF StatusStep, CoverStep, Covered
  <1> QED
    BY <1>1, <1>2, JobsPreserved

\* The steps that leave the table of jobs alone.
JobsAside(n) ==
  /\ jobs' = jobs
  /\ Others(n)
  /\ KeepsLate(n)
  /\ api' = api
  /\ \A r \in Run : swallowed[r] => swallowed'[r]
  /\ \A r \in Run : runs'[r].status = "queued" => runs[r].status = "queued"

LEMMA JobsAsidePreserve ==
  ASSUME PInv, JobsInv, NEW n \in Node, [QP!Next]_queueVars, JobsAside(n)
  PROVE  JobsInv'
  <1>1. \A m \in Node \ {n} : Busy(m) /\ Q!HeldBy(w[m].job, m)' => Q!HeldBy(w[m].job, m)
    BY DEF JobsAside, Others, Q!HeldBy
  <1>2. \A r \in Run : ActiveStep(r)
    BY DEF JobsAside, ActiveStep, Q!HasActiveJob, Q!Active
  <1> QED
    BY <1>1, <1>2, WorkerJobsPreserved DEF JobsAside

LEMMA LeavingKeepsLate ==
  ASSUME PInv, NEW n \in Node, w[n].pc = "release", jobs' = jobs,
         w' = [w EXCEPT ![n].pc = AfterRelease(n), ![n].overslept = FALSE]
  PROVE  KeepsLate(n) /\ Others(n)
  <1>1. w'[n].pc = AfterRelease(n) /\ w'[n].job = w[n].job /\ Others(n)
    BY LeavingMoves
  <1>2. CASE w[n].err
    <2>1. ~Late(n)'
      BY <1>1, <1>2 DEF AfterRelease, Late
    <2> QED
      BY <1>1, <2>1 DEF KeepsLate
  <1>3. CASE ~w[n].err
    <2>1. Late(n) /\ Busy(n)
      BY <1>3 DEF Late, Busy
    <2> QED
      BY <1>1, <2>1 DEF KeepsLate, Q!HeldBy
  <1> QED
    BY <1>2, <1>3

LEMMA StepsAside ==
  ASSUME PInv, NEW n \in Node,
         \/ Start(n) \/ Heartbeat(n) \/ ReadRun(n) \/ Acquire(n) \/ SetRunning(n)
         \/ RefreshLock(n) \/ ExecStep(n) \/ AdvanceRun(n) \/ FailRun(n)
         \/ ReleaseLock(n) \/ MarkRead(n) \/ MarkWrite(n) \/ WorkerFault(n) \/ Exit(n)
  PROVE  JobsAside(n)
  <1> USE DEF PInv, RowTypes, WRow, RunRow, WorkerPc, JobsAside, Others, KeepsLate, Late,
              queueVars, Busy
  <1>1. CASE Start(n)
    BY <1>1 DEF Start, Down, Q!UpsertWorkerNodeHeartbeat
  <1>2. CASE Heartbeat(n)
    BY <1>2 DEF Heartbeat, Q!UpsertWorkerNodeHeartbeat, Q!HeldBy
  <1>3. CASE ReadRun(n)
    BY <1>3 DEF ReadRun, Goto, Q!HeldBy
  <1>4. CASE Acquire(n)
    BY <1>4 DEF Acquire, Goto
  <1>5. CASE SetRunning(n)
    BY <1>5 DEF SetRunning, SetStatus, Q!HeldBy, JobInHand, InHand
  <1>6. CASE RefreshLock(n)
    BY <1>6 DEF RefreshLock, Q!HeldBy
  <1>7. CASE ExecStep(n)
    BY <1>7 DEF ExecStep, Goto, Q!HeldBy
  <1>8. CASE AdvanceRun(n)
    BY <1>8 DEF AdvanceRun, Q!HeldBy, JobInHand, InHand
  <1>9. CASE FailRun(n)
    BY <1>9 DEF FailRun, Goto, Q!HeldBy, JobInHand, InHand
  <1>10. CASE ReleaseLock(n)
    <2>1. /\ jobs' = jobs
          /\ api' = api
          /\ swallowed' = swallowed
          /\ \A r \in Run : runs'[r].status = runs[r].status
      BY <1>10 DEF ReleaseLock
    <2>2. KeepsLate(n) /\ Others(n)
      BY <1>10, <2>1, LeavingKeepsLate DEF ReleaseLock
    <2> QED
      BY <2>1, <2>2
  <1>11. CASE MarkRead(n)
    BY <1>11 DEF MarkRead, Goto, Settled, TerminalRunStatus, Q!HeldBy
  <1>12. CASE MarkWrite(n)
    BY <1>12 DEF MarkWrite, SetStatus, Goto, Q!HeldBy, JobInHand, InHand
  <1>13. CASE JobThrows(n) \/ KernelThrows(n)
    BY <1>13 DEF JobThrows, KernelThrows, Goto, Section
  <1>14. CASE Crash(n) \/ Exit(n)
    BY <1>14 DEF Crash, Exit, Down
  <1>15. CASE Shutdown(n)
    BY <1>15 DEF Shutdown, Q!MarkWorkerNodeOffline, Q!HeldBy
  <1>16. CASE ErrorSwallowed(n)
    <2>1. /\ jobs' = jobs
          /\ api' = api
          /\ runs' = runs
      BY <1>16 DEF ErrorSwallowed
    <2>2. CASE /\ w[n].pc = "release"
               /\ w' = [w EXCEPT ![n].pc = AfterRelease(n), ![n].overslept = FALSE]
               /\ UNCHANGED swallowed
      <3>1. KeepsLate(n) /\ Others(n)
        BY <2>1, <2>2, LeavingKeepsLate
      <3> QED
        BY <2>1, <2>2, <3>1
    <2>3. CASE /\ w[n].pc \in {"markRead", "markWrite"}
               /\ Goto(n, "fail")
               /\ swallowed' = [swallowed EXCEPT ![RunOf(n)] = TRUE]
      <3>1. /\ Others(n)
            /\ w'[n].job = w[n].job
            /\ RunOf(n) \in Run
            /\ RunOf(n)' = RunOf(n)
        BY <2>1, <2>3 DEF Goto, JobInHand, InHand, RunOf
      <3>2. swallowed'[RunOf(n)] /\ \A r \in Run : swallowed[r] => swallowed'[r]
        BY <2>3, <3>1 DEF OtherTypes
      <3>3. KeepsLate(n)
        BY <2>1, <2>3, <3>1, <3>2 DEF Covered, Q!HeldBy
      <3> QED
        BY <2>1, <3>1, <3>2, <3>3
    <2>4. CASE w[n].pc = "fail" /\ GoIdle(n) /\ UNCHANGED swallowed
      BY <2>1, <2>4, GoIdleMoves
    <2> QED
      BY <1>16, <2>2, <2>3, <2>4 DEF ErrorSwallowed
  <1> QED
    BY <1>1, <1>2, <1>3, <1>4, <1>5, <1>6, <1>7, <1>8, <1>9, <1>10, <1>11, <1>12,
       <1>13, <1>14, <1>15, <1>16
    DEF WorkerFault

LEMMA ClaimJobs ==
  ASSUME PInv, JobsInv, NEW n \in Node, [QP!Next]_queueVars, Claim(n)
  PROVE  JobsInv'
  <1>1. PICK j \in Q!Job : /\ Q!ClaimNextRunJob(j, n, nodes[n].role, Run)
                           /\ w' = [w EXCEPT ![n].pc = "claimed", ![n].job = j]
    BY DEF Claim
  <1>2. Others(n) /\ w'[n].pc = "claimed" /\ runs' = runs /\ api' = api /\ swallowed' = swallowed
    BY <1>1 DEF Claim, Others, PInv, RowTypes, WRow
  <1>3. KeepsLate(n)
    BY <1>2 DEF KeepsLate, Late
  <1>4. /\ \A k \in Q!Job : jobs'[k].run = jobs[k].run
        /\ \A k \in Q!Job \ {j} : jobs'[k] = jobs[k]
        /\ jobs'[j].status = "claimed"
        /\ jobs'[j].owner = n
    BY <1>1 DEF Q!ClaimNextRunJob, PInv, QP!IInv, QP!TypeOK, QP!JobRow, QP!Job, Q!Job
  <1>5. ASSUME NEW m \in Node \ {n}, Busy(m), Q!HeldBy(w[m].job, m)'
        PROVE  Q!HeldBy(w[m].job, m)
    <2>1. w'[m].job = w[m].job /\ w[m].job \in Q!Job
      BY <1>2, <1>5 DEF Others, PInv, JobInHand, InHand
    <2> QED
      BY <1>4, <1>5, <2>1 DEF Q!HeldBy
  <1>6. \A r \in Run : ActiveStep(r)
    BY <1>4 DEF ActiveStep, Q!HasActiveJob, Q!Active, Q!ActiveJobStatus
  <1> QED
    BY <1>2, <1>3, <1>5, <1>6, WorkerJobsPreserved

\* What a holder's calls do to the table of jobs.
LEMMA HolderCalls ==
  ASSUME QP!IInv, NEW j \in Q!Job, NEW n \in Node,
         NEW S \in {{"claimed", "running"}, {"complete", "failed"}},
         \/ S = {"claimed", "running"} /\ Q!MarkRunJobRunning(j, n)
         \/ S = {"claimed", "running"} /\ Q!RenewRunJobLease(j, n)
         \/ S = {"complete", "failed"} /\ Q!CompleteRunJob(j, n)
         \/ S = {"complete", "failed"} /\ Q!FailRunJob(j, n)
  PROVE  /\ Q!HeldBy(j, n)
         /\ jobs'[j].run = jobs[j].run
         /\ jobs'[j].owner = jobs[j].owner
         /\ jobs'[j].status \in S
         /\ \A k \in Q!Job \ {j} : jobs'[k] = jobs[k]
  <1> USE DEF QP!IInv, QP!TypeOK, QP!JobRow, QP!Job, Q!Job
  <1>1. CASE S = {"claimed", "running"} /\ Q!MarkRunJobRunning(j, n)
    BY <1>1 DEF Q!MarkRunJobRunning
  <1>2. CASE S = {"claimed", "running"} /\ Q!RenewRunJobLease(j, n)
    BY <1>2 DEF Q!RenewRunJobLease, Q!HeldBy
  <1>3. CASE S = {"complete", "failed"} /\ Q!CompleteRunJob(j, n)
    BY <1>3 DEF Q!CompleteRunJob
  <1>4. CASE S = {"complete", "failed"} /\ Q!FailRunJob(j, n)
    BY <1>4 DEF Q!FailRunJob
  <1> QED
    BY <1>1, <1>2, <1>3, <1>4

\* Taking up a claim and renewing a lease leave a held job held by its holder.
LEMMA HolderJobs ==
  ASSUME PInv, JobsInv, NEW n \in Node, [QP!Next]_queueVars, MarkRunning(n) \/ RenewLease(n)
  PROVE  JobsInv'
  <1>1. /\ Others(n)
        /\ runs' = runs
        /\ api' = api
        /\ swallowed' = swallowed
        /\ w[n].job \in Q!Job
    <2>1. w[n].job \in Q!Job
      BY DEF MarkRunning, RenewLease, PInv, JobInHand, InHand, Busy
    <2>2. CASE MarkRunning(n)
      BY <2>1, <2>2, GoIdleMoves DEF MarkRunning, Goto, Others, PInv, RowTypes
    <2>3. CASE RenewLease(n)
      BY <2>1, <2>3 DEF RenewLease, Others
    <2> QED
      BY <2>2, <2>3
  <1> DEFINE j == w[n].job
  <1>2. \/ UNCHANGED queueVars
        \/ /\ Q!HeldBy(j, n)
           /\ jobs'[j].run = jobs[j].run
           /\ jobs'[j].owner = jobs[j].owner
           /\ jobs'[j].status \in {"claimed", "running"}
           /\ \A k \in Q!Job \ {j} : jobs'[k] = jobs[k]
    BY <1>1, HolderCalls DEF MarkRunning, RenewLease, PInv
  <1>3. KeepsLate(n)
    <2>1. CASE MarkRunning(n)
      <3>1. w'[n].pc \in {"read", "idle"}
        BY <2>1, GoIdleMoves DEF MarkRunning, Goto, PInv, RowTypes, WRow
      <3> QED
        BY <3>1 DEF KeepsLate, Late
    <2>2. CASE RenewLease(n)
      <3>1. w' = w /\ Q!HeldBy(w[n].job, n)
        BY <2>2 DEF RenewLease, Q!RenewRunJobLease
      <3> QED
        BY <3>1, LateIsBusy DEF KeepsLate, Late
    <2> QED
      BY <2>1, <2>2
  <1>4. ASSUME NEW m \in Node \ {n}, Busy(m), Q!HeldBy(w[m].job, m)'
        PROVE  Q!HeldBy(w[m].job, m)
    <2>1. w'[m].job = w[m].job /\ w[m].job \in Q!Job
      BY <1>1, <1>4 DEF Others, PInv, JobInHand, InHand
    <2> QED
      BY <1>2, <1>4, <2>1 DEF Q!HeldBy, queueVars
  <1>5. \A k \in Q!Job : jobs'[k].run = jobs[k].run /\ (Q!Active(k) => Q!Active(k)')
    BY <1>2 DEF Q!Active, Q!ActiveJobStatus, queueVars
  <1>6. \A r \in Run : ActiveStep(r)
    BY <1>5 DEF ActiveStep, Q!HasActiveJob
  <1> QED
    BY <1>1, <1>3, <1>4, <1>6, WorkerJobsPreserved

\* A job that ends was held by a worker late in its program: its run is not
\* queued, or has been queued since.
LEMMA SettleJobs ==
  ASSUME PInv, JobsInv, NEW n \in Node, [QP!Next]_queueVars, CompleteJob(n) \/ FailJob(n)
  PROVE  JobsInv'
  <1>1. /\ Others(n)
        /\ w'[n].pc = "idle"
        /\ runs' = runs
        /\ api' = api
        /\ swallowed' = swallowed
        /\ Late(n)
        /\ Busy(n)
    BY GoIdleMoves DEF CompleteJob, FailJob, PInv, Late, Busy
  <1>2. KeepsLate(n)
    BY <1>1 DEF KeepsLate, Late
  <1> DEFINE j == w[n].job
  <1>3. j \in Q!Job
    BY <1>1 DEF PInv, JobInHand, InHand
  <1>4. \/ jobs' = jobs
        \/ /\ Q!HeldBy(j, n)
           /\ jobs'[j].run = jobs[j].run
           /\ jobs'[j].owner = jobs[j].owner
           /\ jobs'[j].status \in {"complete", "failed"}
           /\ \A k \in Q!Job \ {j} : jobs'[k] = jobs[k]
    BY <1>3, HolderCalls DEF CompleteJob, FailJob, PInv, queueVars
  <1>5. ASSUME NEW m \in Node \ {n}, Busy(m), Q!HeldBy(w[m].job, m)'
        PROVE  Q!HeldBy(w[m].job, m)
    <2>1. w'[m].job = w[m].job /\ w[m].job \in Q!Job
      BY <1>1, <1>5 DEF Others, PInv, JobInHand, InHand
    <2> QED
      BY <1>4, <1>5, <2>1 DEF Q!HeldBy
  <1>6. ASSUME NEW r \in Run
        PROVE  ActiveStep(r)
    <2>1. CASE jobs' = jobs
      BY <2>1 DEF ActiveStep, Q!HasActiveJob, Q!Active
    <2>2. CASE Q!HeldBy(j, n) /\ RunOf(n) = r
      BY <1>1, <2>2 DEF ActiveStep, JobsInv, SettledRunNotQueued
    <2>3. CASE RunOf(n) # r
      <3>1. \A k \in Q!Job : jobs[k].run = r => jobs'[k] = jobs[k]
        BY <1>4, <2>3 DEF RunOf
      <3> QED
        BY <3>1 DEF ActiveStep, Q!HasActiveJob, Q!Active
    <2> QED
      BY <1>4, <2>1, <2>2, <2>3
  <1> QED
    BY <1>1, <1>2, <1>5, <1>6, WorkerJobsPreserved

\* Steps of clocks and handlers: no worker moves along its program.
LEMMA QuietJobs ==
  ASSUME PInv, JobsInv, [QP!Next]_queueVars,
         \A n \in Node : /\ w'[n].pc = w[n].pc
                         /\ w'[n].job = w[n].job
                         /\ w[n].err => w'[n].err,
         \A n \in Node : Busy(n) /\ Q!HeldBy(w[n].job, n)' => Q!HeldBy(w[n].job, n),
         \A r \in Run : StatusStep(r) /\ CoverStep(r) /\ ActiveStep(r)
  PROVE  JobsInv'
  <1>1. ASSUME NEW n \in Node
        PROVE  KeepsLate(n)
    <2>1. Late(n)' => Late(n)
      BY DEF Late
    <2> QED
      BY <2>1, LateIsBusy DEF KeepsLate
  <1> QED
    BY <1>1, JobsPreserved

LEMMA LeaseExpiresJobs ==
  ASSUME PInv, JobsInv, NEW j \in Q!Job, [QP!Next]_queueVars, LeaseExpires(j)
  PROVE  JobsInv'
  <1>1. w' = w /\ runs' = runs /\ api' = api /\ swallowed' = swallowed
    BY DEF LeaseExpires
  <1>2. \A k \in Q!Job : /\ jobs'[k].run = jobs[k].run
                         /\ jobs'[k].owner = jobs[k].owner
                         /\ jobs'[k].status = jobs[k].status
    BY DEF LeaseExpires, Q!LeaseExpires, PInv, QP!IInv, QP!TypeOK, QP!JobRow, QP!Job, Q!Job
  <1>3. ASSUME NEW n \in Node, Busy(n), Q!HeldBy(w[n].job, n)'
        PROVE  Q!HeldBy(w[n].job, n)
    BY <1>1, <1>2, <1>3 DEF Q!HeldBy, PInv, JobInHand, InHand
  <1>4. ASSUME NEW r \in Run
        PROVE  StatusStep(r) /\ CoverStep(r) /\ ActiveStep(r)
    BY <1>1, <1>2 DEF StatusStep, CoverStep, ActiveStep, Covered, Q!HasActiveJob, Q!Active
  <1> QED
    BY <1>1, <1>3, <1>4, QuietJobs

LEMMA HandlerJobs ==
  ASSUME PInv, JobsInv, NEW r \in Run, [QP!Next]_queueVars,
         LockGoesStale(r) \/ CreateRun(r) \/ ResumeRead(r) \/ ResumeWrite(r) \/ ApiCrash(r)
  PROVE  JobsInv'
  <1>1. jobs' = jobs
    BY DEF LockGoesStale, CreateRun, ResumeRead, ResumeWrite, ApiCrash, queueVars
  <1>2. \A n \in Node : /\ w'[n].pc = w[n].pc
                        /\ w'[n].job = w[n].job
                        /\ w[n].err => w'[n].err
    BY DEF LockGoesStale, CreateRun, ResumeRead, ResumeWrite, ApiCrash, PInv, RowTypes, WRow
  <1>3. \A n \in Node : Q!HeldBy(w[n].job, n)' => Q!HeldBy(w[n].job, n)
    BY <1>1, <1>2 DEF Q!HeldBy
  <1>4. ASSUME NEW q \in Run
        PROVE  StatusStep(q) /\ CoverStep(q)
    <2> USE DEF PInv, RowTypes, RunRow, OtherTypes, StatusStep, CoverStep, Covered
    <2>1. CASE LockGoesStale(r) \/ ResumeRead(r)
      BY <2>1 DEF LockGoesStale, ResumeRead
    <2>2. CASE CreateRun(r) \/ ResumeWrite(r)
      BY <2>2 DEF CreateRun, ResumeWrite, SetStatus
    <2>3. CASE ApiCrash(r)
      BY <2>3 DEF ApiCrash
    <2> QED
      BY <2>1, <2>2, <2>3
  <1>5. \A q \in Run : ActiveStep(q)
    BY <1>1 DEF ActiveStep, Q!HasActiveJob, Q!Active
  <1> QED
    BY <1>2, <1>3, <1>4, <1>5, QuietJobs

\* The flag swallowed is cleared only by the insert of a job.
LEMMA EnqueueJobs ==
  ASSUME PInv, JobsInv, NEW r \in Run, [QP!Next]_queueVars, Enqueue(r)
  PROVE  JobsInv'
  <1>1. w' = w /\ runs' = runs /\ \A q \in Run \ {r} : Covered(q)' <=> Covered(q)
    BY DEF Enqueue, Covered, PInv, OtherTypes
  <1>2. CASE \E j \in Q!Job, role \in Role : Q!EnqueueRunJob(j, r, role)
    <2>1. PICK j \in Q!Job, role \in Role : Q!EnqueueRunJob(j, r, role)
      BY <1>2
    <2>2. /\ ~Q!HasActiveJob(r)
          /\ jobs[j].status = "absent"
          /\ jobs'[j].status = "queued"
          /\ jobs'[j].run = r
          /\ \A k \in Q!Job \ {j} : jobs'[k] = jobs[k]
      BY <2>1 DEF Q!EnqueueRunJob, PInv, QP!IInv, QP!TypeOK, QP!Job, Q!Job
    <2>3. ASSUME NEW n \in Node, Busy(n), Q!HeldBy(w[n].job, n)'
          PROVE  Q!HeldBy(w[n].job, n)
      <3>1. w[n].job \in Q!Job \ {j}
        BY <2>2, <2>3 DEF PInv, JobInHand, InHand
      <3> QED
        BY <1>1, <2>2, <2>3, <3>1 DEF Q!HeldBy
    <2>4. Q!HasActiveJob(r)'
      BY <2>2 DEF Q!HasActiveJob, Q!Active, Q!ActiveJobStatus
    <2>5. ASSUME NEW q \in Run
          PROVE  StatusStep(q) /\ CoverStep(q) /\ ActiveStep(q)
      <3>1. ActiveStep(q)
        BY <2>2 DEF ActiveStep, Q!HasActiveJob, Q!Active, Q!ActiveJobStatus
      <3>2. StatusStep(q)
        BY <1>1 DEF StatusStep
      <3>3. CoverStep(q)
        BY <1>1, <2>2, <2>4 DEF CoverStep
      <3> QED
        BY <3>1, <3>2, <3>3
    <2> QED
      BY <1>1, <2>3, <2>5, QuietJobs
  <1>3. CASE UNCHANGED queueVars /\ swallowed' = [swallowed EXCEPT ![r] = TRUE]
    <2>1. jobs' = jobs /\ Covered(r)'
      BY <1>3 DEF queueVars, Covered, PInv, OtherTypes
    <2>2. \A n \in Node : Q!HeldBy(w[n].job, n)' => Q!HeldBy(w[n].job, n)
      BY <1>1, <2>1 DEF Q!HeldBy
    <2>3. \A q \in Run : StatusStep(q) /\ CoverStep(q)
      BY <1>1, <2>1 DEF StatusStep, CoverStep
    <2>4. \A q \in Run : ActiveStep(q)
      BY <2>1 DEF ActiveStep, Q!HasActiveJob, Q!Active
    <2> QED
      BY <1>1, <2>2, <2>3, <2>4, QuietJobs
  <1> QED
    BY <1>2, <1>3 DEF Enqueue

LEMMA JobsStep ==
  ASSUME PInv, JobsInv, [Next]_vars
  PROVE  JobsInv'
  <1> USE QueueStep
  <1>1. ASSUME NEW n \in Node,
               \/ Start(n) \/ Heartbeat(n) \/ RenewLease(n) \/ WorkerStep(n)
               \/ WorkerFault(n) \/ Exit(n)
        PROVE  JobsInv'
    <2>1. CASE Claim(n) \/ MarkRunning(n) \/ RenewLease(n) \/ CompleteJob(n) \/ FailJob(n)
      BY <2>1, ClaimJobs, HolderJobs, SettleJobs
    <2>2. CASE ~(Claim(n) \/ MarkRunning(n) \/ RenewLease(n) \/ CompleteJob(n) \/ FailJob(n))
      <3>1. JobsAside(n)
        BY <1>1, <2>2, StepsAside DEF WorkerStep
      <3> QED
        BY <3>1, JobsAsidePreserve
    <2> QED
      BY <2>1, <2>2
  <1>2. ASSUME NEW j \in Q!Job, LeaseExpires(j)
        PROVE  JobsInv'
    BY <1>2, LeaseExpiresJobs
  <1>3. ASSUME NEW r \in Run,
               \/ LockGoesStale(r) \/ CreateRun(r) \/ ResumeRead(r) \/ ApiStep(r)
               \/ ApiCrash(r)
        PROVE  JobsInv'
    BY <1>3, HandlerJobs, EnqueueJobs DEF ApiStep
  <1>4. CASE UNCHANGED vars
    BY <1>4 DEF vars, JobsInv, QueuedRunAwaited, SettledRunNotQueued, Covered, Late,
                Q!HasActiveJob, Q!Active, Q!HeldBy, RunOf
  <1> QED
    BY <1>1, <1>2, <1>3, <1>4 DEF Next

\* A queued run has an active job unless a handler is on its way to enqueue it
\* or an error on that way was dropped, for any number of workers, handlers and
\* crashes.
THEOREM QueuedRunsHaveJobs == Spec => []QueuedRunHasJob
  <1>1. Init => JobsInv
    BY DEF Init, Down, JobsInv, QueuedRunAwaited, SettledRunNotQueued, Late
  <1>2. PInv /\ JobsInv /\ [Next]_vars => JobsInv'
    BY JobsStep
  <1>3. JobsInv => QueuedRunHasJob
    BY DEF JobsInv, QueuedRunAwaited, Covered, QueuedRunHasJob
  <1> QED
    BY <1>1, <1>2, <1>3, Invariance, PTL DEF Spec
==============================================================================
