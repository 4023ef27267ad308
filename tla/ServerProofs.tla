---------------------------- MODULE ServerProofs ----------------------------
(***************************************************************************)
(* What the server process does itself.                                    *)
(*                                                                         *)
(* Deployments: a served project stays served, for any number of           *)
(* deployments and of faults.  ServingKept is about a step; ServingInv is  *)
(* the state that makes every step keep it: the active deployment is ready *)
(* and its container runs, and what a pipeline may still stop is not       *)
(* active.                                                                 *)
(*                                                                         *)
(* Builder runs with their auto-correction, and state-machine runs with    *)
(* their counters: both have budgets, and the budgets add up, for any size *)
(* of them: executions never exceed what attempts and retries allow, and   *)
(* the step rows of a run are exactly what its counters say.               *)
(*                                                                         *)
(* What a correction may change: a step is confined by the contract in     *)
(* force when it was queued, which a resume may replace.                   *)
(*                                                                         *)
(* The step transactions of the kernel are proved about in StepProofs; at  *)
(* the end their invariant joins the others, for the types of all parts.   *)
(***************************************************************************)
EXTENDS MCServer, StepProofs

PipelinePc ==
  {"none", "asked", "refused", "admitted", "created", "listing", "listed", "building",
   "pushing", "launching", "launched", "ready", "active", "failing", "finishing", "done"}

PipelinesTyped == pipelines \in [Deployment -> [pc : PipelinePc, previous : SUBSET Deployment]]

\* Only a deployment that went through its pipeline is active, and no row or
\* container of it is written any more by that pipeline.
ActiveRuns ==
  \A d \in Deployment : deployments[d].active =>
    /\ deployments[d].status = "ready"
    /\ pipelines[d].pc \in {"active", "done"}
    /\ d \in containers

\* What is about to become active has its container and its row.
NextActiveRuns ==
  \A d \in Deployment :
    /\ pipelines[d].pc \in {"launched", "ready"} => d \in containers
    /\ pipelines[d].pc = "ready" => deployments[d].status = "ready"

\* What a pipeline stops was active once, and is no longer when it is stopped.
StoppedIsInactive ==
  \A d, e \in Deployment : e \in pipelines[d].previous =>
    /\ pipelines[e].pc \in {"active", "done"}
    /\ pipelines[d].pc = "active" => ~deployments[e].active

OneActive ==
  \A d, e \in Deployment : deployments[d].active /\ deployments[e].active => d = e

\* Inductive.
ServingInv ==
  /\ DeployTypeOK
  /\ PipelinesTyped
  /\ ActiveRuns
  /\ NextActiveRuns
  /\ StoppedIsInactive
  /\ OneActive

-----------------------------------------------------------------------------
\* The project's first deployment serves it.
LEMMA ServingInit == DeployInit => ServingInv
  <1> SUFFICES ASSUME DeployInit PROVE ServingInv
    OBVIOUS
  <1>1. 1 \in Deployment
    BY DeploymentsAssumption DEF Deployment
  <1>2. DeployTypeOK
    BY <1>1 DEF DeployInit, DeployTypeOK, InProgress
  <1>3. PipelinesTyped
    BY <1>1 DEF DeployInit, PipelinesTyped, PipelinePc
  <1>4. ActiveRuns /\ NextActiveRuns /\ StoppedIsInactive /\ OneActive
    BY <1>1 DEF DeployInit, ActiveRuns, NextActiveRuns, StoppedIsInactive, OneActive
  <1> QED
    BY <1>2, <1>3, <1>4 DEF ServingInv

\* What a pipeline stops is inactive since the pipeline activated its own.
LEMMA StopKeepsServing ==
  ASSUME ServingInv, NEW d \in Deployment, NEW e \in Deployment, StopPrevious(d, e)
  PROVE  ServingInv'
  <1>1. e \in pipelines[d].previous /\ pipelines[d].pc = "active"
    BY DEF StopPrevious, At
  <1>2. ~deployments[e].active /\ pipelines[e].pc \in {"active", "done"}
    BY <1>1 DEF ServingInv, StoppedIsInactive
  <1>3. deployments' = deployments \/ deployments' = [deployments EXCEPT ![e].active = FALSE]
    BY DEF StopPrevious
  <1>4. /\ pipelines' = [pipelines EXCEPT ![d].previous = @ \ {e}]
        /\ jobs' = jobs
        /\ containers' = containers \/ containers' = containers \ {e}
    BY DEF StopPrevious
  <1>5. /\ deployments' \in [Deployment -> [status : InProgress \cup {"absent", "ready", "failed"},
                                           active : BOOLEAN]]
        /\ \A f \in Deployment : /\ deployments'[f].active <=> deployments[f].active
                                 /\ deployments'[f].status = deployments[f].status
    <2>1. deployments \in [Deployment -> [status : InProgress \cup {"absent", "ready", "failed"},
                                          active : BOOLEAN]]
      BY DEF ServingInv, DeployTypeOK
    <2>2. CASE deployments' = deployments
      BY <2>1, <2>2
    <2>3. CASE deployments' = [deployments EXCEPT ![e].active = FALSE]
      BY <1>2, <2>1, <2>3
    <2> QED
      BY <1>3, <2>2, <2>3
  <1>6. /\ PipelinesTyped'
        /\ \A f \in Deployment : /\ pipelines'[f].pc = pipelines[f].pc
                                 /\ pipelines'[f].previous \subseteq pipelines[f].previous
    BY <1>4 DEF ServingInv, PipelinesTyped
  <1>7. DeployTypeOK'
    BY <1>4, <1>5, <1>6 DEF ServingInv, DeployTypeOK
  <1>8. ActiveRuns' /\ NextActiveRuns'
    BY <1>2, <1>4, <1>5, <1>6 DEF ServingInv, ActiveRuns, NextActiveRuns
  <1>9. StoppedIsInactive' /\ OneActive'
    BY <1>5, <1>6 DEF ServingInv, StoppedIsInactive, OneActive
  <1> QED
    BY <1>6, <1>7, <1>8, <1>9 DEF ServingInv

\* A step of a request or a pipeline keeps the invariant.  Before "active" the
\* pipeline touches its own row only, which is not active; SetActive deactivates
\* every other row at once, so that what the pipeline stops after it is inactive.
LEMMA PipelineKeepsServing ==
  ASSUME ServingInv, NEW d \in Deployment,
         AskDeployment(d) \/ PipelineStep(d) \/ WriteFails(d)
  PROVE  ServingInv'
  <1> USE DEF ServingInv, DeployTypeOK, PipelinesTyped, At, DeployGoto
  <1>1. CASE AskDeployment(d)
    <2>1. DeployTypeOK' /\ PipelinesTyped'
      BY <1>1 DEF AskDeployment, PipelinePc, InProgress
    <2>2. ActiveRuns' /\ NextActiveRuns'
      BY <1>1 DEF AskDeployment, ActiveRuns, NextActiveRuns, StoppedIsInactive
    <2>3. StoppedIsInactive' /\ OneActive'
      BY <1>1 DEF AskDeployment, StoppedIsInactive, OneActive, ActiveRuns
    <2> QED
      BY <2>1, <2>2, <2>3
  <1>2. CASE CheckInProgress(d)
    <2>1. DeployTypeOK' /\ PipelinesTyped'
      BY <1>2 DEF CheckInProgress, PipelinePc, InProgress
    <2>2. ActiveRuns' /\ NextActiveRuns'
      BY <1>2 DEF CheckInProgress, ActiveRuns, NextActiveRuns, StoppedIsInactive
    <2>3. StoppedIsInactive' /\ OneActive'
      BY <1>2 DEF CheckInProgress, StoppedIsInactive, OneActive, ActiveRuns
    <2> QED
      BY <2>1, <2>2, <2>3
  <1>3. CASE CreateDeployment(d)
    <2>1. DeployTypeOK' /\ PipelinesTyped'
      BY <1>3 DEF CreateDeployment, SetStatus, PipelinePc, InProgress
    <2>2. ActiveRuns' /\ NextActiveRuns'
      BY <1>3 DEF CreateDeployment, SetStatus, ActiveRuns, NextActiveRuns, StoppedIsInactive
    <2>3. StoppedIsInactive' /\ OneActive'
      BY <1>3 DEF CreateDeployment, SetStatus, StoppedIsInactive, OneActive, ActiveRuns
    <2> QED
      BY <2>1, <2>2, <2>3
  <1>4. CASE StartPipeline(d)
    <2>1. DeployTypeOK' /\ PipelinesTyped'
      BY <1>4 DEF StartPipeline, PipelinePc, InProgress
    <2>2. ActiveRuns' /\ NextActiveRuns'
      BY <1>4 DEF StartPipeline, ActiveRuns, NextActiveRuns, StoppedIsInactive
    <2>3. StoppedIsInactive' /\ OneActive'
      BY <1>4 DEF StartPipeline, StoppedIsInactive, OneActive, ActiveRuns
    <2> QED
      BY <2>1, <2>2, <2>3
  <1>5. CASE ListActive(d)
    <2>1. DeployTypeOK' /\ PipelinesTyped'
      BY <1>5 DEF ListActive, PipelinePc, InProgress
    <2>2. ActiveRuns' /\ NextActiveRuns'
      BY <1>5 DEF ListActive, ActiveRuns, NextActiveRuns, StoppedIsInactive
    <2>3. StoppedIsInactive' /\ OneActive'
      BY <1>5 DEF ListActive, StoppedIsInactive, OneActive, ActiveRuns
    <2> QED
      BY <2>1, <2>2, <2>3
  <1>6. CASE Build(d)
    <2>1. DeployTypeOK' /\ PipelinesTyped'
      BY <1>6 DEF Build, Stage, SetStatus, PipelinePc, InProgress
    <2>2. ActiveRuns' /\ NextActiveRuns'
      BY <1>6 DEF Build, Stage, SetStatus, ActiveRuns, NextActiveRuns, StoppedIsInactive
    <2>3. StoppedIsInactive' /\ OneActive'
      BY <1>6 DEF Build, Stage, SetStatus, StoppedIsInactive, OneActive, ActiveRuns
    <2> QED
      BY <2>1, <2>2, <2>3
  <1>7. CASE Push(d)
    <2>1. DeployTypeOK' /\ PipelinesTyped'
      BY <1>7 DEF Push, Stage, SetStatus, PipelinePc, InProgress
    <2>2. ActiveRuns' /\ NextActiveRuns'
      BY <1>7 DEF Push, Stage, SetStatus, ActiveRuns, NextActiveRuns, StoppedIsInactive
    <2>3. StoppedIsInactive' /\ OneActive'
      BY <1>7 DEF Push, Stage, SetStatus, StoppedIsInactive, OneActive, ActiveRuns
    <2> QED
      BY <2>1, <2>2, <2>3
  <1>8. CASE Launch(d)
    <2>1. DeployTypeOK' /\ PipelinesTyped'
      BY <1>8 DEF Launch, Stage, SetStatus, PipelinePc, InProgress
    <2>2. ActiveRuns' /\ NextActiveRuns'
      BY <1>8 DEF Launch, Stage, SetStatus, ActiveRuns, NextActiveRuns, StoppedIsInactive
    <2>3. StoppedIsInactive' /\ OneActive'
      BY <1>8 DEF Launch, Stage, SetStatus, StoppedIsInactive, OneActive, ActiveRuns
    <2> QED
      BY <2>1, <2>2, <2>3
  <1>9. CASE RunContainer(d)
    <2>1. DeployTypeOK' /\ PipelinesTyped'
      BY <1>9 DEF RunContainer, PipelinePc, InProgress
    <2>2. ActiveRuns' /\ NextActiveRuns'
      BY <1>9 DEF RunContainer, ActiveRuns, NextActiveRuns, StoppedIsInactive
    <2>3. StoppedIsInactive' /\ OneActive'
      BY <1>9 DEF RunContainer, StoppedIsInactive, OneActive, ActiveRuns
    <2> QED
      BY <2>1, <2>2, <2>3
  <1>10. CASE Ready(d)
    <2>1. DeployTypeOK' /\ PipelinesTyped'
      BY <1>10 DEF Ready, Stage, SetStatus, PipelinePc, InProgress
    <2>2. ActiveRuns' /\ NextActiveRuns'
      BY <1>10 DEF Ready, Stage, SetStatus, ActiveRuns, NextActiveRuns, StoppedIsInactive
    <2>3. StoppedIsInactive' /\ OneActive'
      BY <1>10 DEF Ready, Stage, SetStatus, StoppedIsInactive, OneActive, ActiveRuns
    <2> QED
      BY <2>1, <2>2, <2>3
  <1>11. CASE SetActive(d)
    <2>1. DeployTypeOK' /\ PipelinesTyped'
      BY <1>11 DEF SetActive, PipelinePc, InProgress
    <2>2. ActiveRuns' /\ NextActiveRuns'
      BY <1>11 DEF SetActive, ActiveRuns, NextActiveRuns, StoppedIsInactive
    <2>3. StoppedIsInactive' /\ OneActive'
      BY <1>11 DEF SetActive, StoppedIsInactive, OneActive, ActiveRuns
    <2> QED
      BY <2>1, <2>2, <2>3
  <1>12. CASE FailPipeline(d)
    <2>1. DeployTypeOK' /\ PipelinesTyped'
      BY <1>12 DEF FailPipeline, PipelinePc, InProgress
    <2>2. ActiveRuns' /\ NextActiveRuns'
      BY <1>12 DEF FailPipeline, ActiveRuns, NextActiveRuns, StoppedIsInactive
    <2>3. StoppedIsInactive' /\ OneActive'
      BY <1>12 DEF FailPipeline, StoppedIsInactive, OneActive, ActiveRuns
    <2> QED
      BY <2>1, <2>2, <2>3
  <1>13. CASE WriteFails(d)
    <2>1. DeployTypeOK' /\ PipelinesTyped'
      BY <1>13 DEF WriteFails, DeployFault, PipelinePc, InProgress
    <2>2. ActiveRuns' /\ NextActiveRuns'
      BY <1>13 DEF WriteFails, DeployFault, ActiveRuns, NextActiveRuns, StoppedIsInactive
    <2>3. StoppedIsInactive' /\ OneActive'
      BY <1>13 DEF WriteFails, DeployFault, StoppedIsInactive, OneActive, ActiveRuns
    <2> QED
      BY <2>1, <2>2, <2>3
  <1>14. CASE MarkFailed(d)
    <2>1. DeployTypeOK' /\ PipelinesTyped'
      BY <1>14 DEF MarkFailed, PipelinePc, InProgress
    <2>2. ActiveRuns' /\ NextActiveRuns'
      BY <1>14 DEF MarkFailed, ActiveRuns, NextActiveRuns, StoppedIsInactive
    <2>3. StoppedIsInactive' /\ OneActive'
      BY <1>14 DEF MarkFailed, StoppedIsInactive, OneActive, ActiveRuns
    <2> QED
      BY <2>1, <2>2, <2>3
  <1>15. CASE Finish(d)
    <2>1. DeployTypeOK' /\ PipelinesTyped'
      BY <1>15 DEF Finish, PipelinePc, InProgress
    <2>2. ActiveRuns' /\ NextActiveRuns'
      BY <1>15 DEF Finish, ActiveRuns, NextActiveRuns, StoppedIsInactive
    <2>3. StoppedIsInactive' /\ OneActive'
      BY <1>15 DEF Finish, StoppedIsInactive, OneActive, ActiveRuns
    <2> QED
      BY <2>1, <2>2, <2>3
  <1> QED
    BY <1>1, <1>2, <1>3, <1>4, <1>5, <1>6, <1>7, <1>8, <1>9, <1>10, <1>11, <1>12,
       <1>13, <1>14, <1>15, StopKeepsServing
       DEF PipelineStep

\* A crash ends every pipeline, and no mark touches a row that serves.
LEMMA ProcessesKeepServing ==
  ASSUME ServingInv, ServerCrash \/ ServerRestart \/ OtherProcessStarts
  PROVE  ServingInv'
  <1> USE DEF ServingInv, DeployTypeOK, PipelinesTyped
  <1>1. CASE ServerCrash
    <2>1. DeployTypeOK' /\ PipelinesTyped'
      BY <1>1 DEF ServerCrash, PipelinePc
    <2>2. ActiveRuns' /\ NextActiveRuns' /\ StoppedIsInactive' /\ OneActive'
      BY <1>1 DEF ServerCrash, ActiveRuns, NextActiveRuns, StoppedIsInactive, OneActive
    <2> QED
      BY <2>1, <2>2
  <1>2. CASE ServerRestart \/ OtherProcessStarts
    <2>1. DeployTypeOK' /\ PipelinesTyped'
      <3>1. [status |-> "failed", active |-> FALSE]
              \in [status : InProgress \cup {"absent", "ready", "failed"}, active : BOOLEAN]
        OBVIOUS
      <3>2. deployments' \in [Deployment -> [status : InProgress \cup {"absent", "ready", "failed"},
                                            active : BOOLEAN]]
        BY <1>2, <3>1 DEF ServerRestart, OtherProcessStarts, MarkIncomplete
      <3>3. UNCHANGED <<pipelines, jobs, containers>>
        BY <1>2 DEF ServerRestart, OtherProcessStarts
      <3> QED
        BY <3>2, <3>3
    <2>2. \A d \in Deployment :
            deployments[d].status = "ready" => deployments'[d] = deployments[d]
      BY <1>2 DEF ServerRestart, OtherProcessStarts, MarkIncomplete, InProgress
    <2>3. \A d \in Deployment :
            deployments'[d].active => deployments'[d] = deployments[d]
      BY <1>2 DEF ServerRestart, OtherProcessStarts, MarkIncomplete, InProgress
    <2>4. ActiveRuns' /\ NextActiveRuns' /\ StoppedIsInactive' /\ OneActive'
      BY <1>2, <2>2, <2>3
         DEF ServerRestart, OtherProcessStarts, ActiveRuns, NextActiveRuns, StoppedIsInactive,
             OneActive
    <2> QED
      BY <2>1, <2>4
  <1> QED
    BY <1>1, <1>2

\* So does every step ...
LEMMA ServingNext == ServingInv /\ [DeployNext]_deployVars => ServingInv'
  <1> SUFFICES ASSUME ServingInv, [DeployNext]_deployVars PROVE ServingInv'
    OBVIOUS
  <1>1. CASE DeployNext
    BY <1>1, PipelineKeepsServing, ProcessesKeepServing DEF DeployNext
  <1>2. CASE UNCHANGED deployVars
    BY <1>2 DEF deployVars, ServingInv, DeployTypeOK, PipelinesTyped, ActiveRuns,
                NextActiveRuns, StoppedIsInactive, OneActive
  <1> QED
    BY <1>1, <1>2

\* ... and every behaviour.
LEMMA ServingAlways == DeploySpec => []ServingInv
  BY ServingInit, ServingNext, PTL DEF DeploySpec

\* DeployTypeOK, for any number of deployments: in particular no pipeline ever
\* lists its own deployment among those it stops.
THEOREM DeploymentsTyped == DeploySpec => []DeployTypeOK
  <1>1. ServingInv => DeployTypeOK
    BY DEF ServingInv
  <1> QED
    BY <1>1, ServingAlways, PTL

-----------------------------------------------------------------------------
\* An active row is deactivated by SetActive of another only: a pipeline's own
\* failure, the stops after it and the marks find it inactive.
LEMMA SomeoneActive ==
  ASSUME ServingInv, [DeployNext]_deployVars, NEW d \in Deployment, deployments[d].active
  PROVE  \E e \in Deployment : deployments'[e].active
  <1> USE DEF ServingInv, DeployTypeOK, PipelinesTyped, At, ActiveRuns, DeployGoto
  <1>1. CASE \E e \in Deployment : SetActive(e)
    <2>1. PICK e \in Deployment : SetActive(e)
      BY <1>1
    <2>2. deployments'[e].active
      BY <2>1 DEF SetActive
    <2> QED
      BY <2>2
  <1>2. CASE \E e \in Deployment : MarkFailed(e)
    BY <1>2 DEF MarkFailed
  <1>3. CASE \E e, f \in Deployment : StopPrevious(e, f)
    BY <1>3 DEF StopPrevious, StoppedIsInactive
  <1>4. CASE ServerRestart \/ OtherProcessStarts
    BY <1>4 DEF ServerRestart, OtherProcessStarts, MarkIncomplete, InProgress
  <1>5. CASE ServerCrash
    BY <1>5 DEF ServerCrash
  <1>6. ASSUME NEW e \in Deployment,
               AskDeployment(e) \/ WriteFails(e) \/ CheckInProgress(e)
                 \/ CreateDeployment(e) \/ StartPipeline(e) \/ ListActive(e) \/ Build(e)
                 \/ Push(e) \/ Launch(e) \/ RunContainer(e) \/ Ready(e) \/ FailPipeline(e)
                 \/ Finish(e)
        PROVE  deployments'[d].active
    BY <1>6 DEF AskDeployment, WriteFails, CheckInProgress, CreateDeployment, StartPipeline,
                ListActive, Build, Push, Launch, RunContainer, Ready, FailPipeline, Finish,
                Stage, SetStatus
  <1>7. CASE UNCHANGED deployVars
    BY <1>7 DEF deployVars
  <1> QED
    BY <1>1, <1>2, <1>3, <1>4, <1>5, <1>6, <1>7 DEF DeployNext, PipelineStep

\* ServingKept: at most one deployment is active after any step, and one with a
\* running container is, if one was before (setActiveDeployment and every other
\* write of is_active or removal of a container).
THEOREM ServingSafe == DeploySpec => ServingKept
  <1>1. ASSUME ServingInv, ServingInv', [DeployNext]_deployVars
        PROVE  /\ Cardinality(Active') <= 1
               /\ Active \cap containers # {} => Active' \cap containers' # {}
    <2>1. Cardinality(Active') <= 1
      <3>1. CASE Active' = {}
        BY <3>1, FS_EmptySet
      <3>2. CASE Active' # {}
        <4>1. PICK d \in Active' : TRUE
          BY <3>2
        <4>2. Active' = {d}
          BY <1>1, <4>1 DEF ServingInv, OneActive, Active
        <4>3. Cardinality({d}) = 1
          BY FS_Singleton
        <4> QED
          BY <4>2, <4>3
      <3> QED
        BY <3>1, <3>2
    <2>2. ASSUME Active \cap containers # {}
          PROVE  Active' \cap containers' # {}
      <3>1. PICK d \in Deployment : deployments[d].active
        BY <2>2 DEF Active
      <3>2. PICK e \in Deployment : deployments'[e].active
        BY <1>1, <3>1, SomeoneActive
      <3>3. e \in containers'
        BY <1>1, <3>2 DEF ServingInv, ActiveRuns
      <3> QED
        BY <3>2, <3>3 DEF Active
    <2> QED
      BY <2>1, <2>2
  <1> QED
    BY <1>1, ServingAlways, PTL DEF ServingKept, DeploySpec
-----------------------------------------------------------------------------
CallerPc == {"start", "executing", "executed", "corrected", "unvalidated", "validate", "decide",
             "returned", "thrown"}

Retries == [0..MaxAttempts -> 0..MaxRetries]

CallerTyped ==
  caller \in [pc : CallerPc, cause : {"first", "invariant", "fix", "debt"}, retries : Retries,
              refused : BOOLEAN, pending : {"none", "fix", "debt"},
              verdict : Verdict \cup {"none"}]

RequestTyped ==
  request \in [pc : {"idle", "validating"}, ofLast : BOOLEAN, count : 0..MaxRequests]

RunTyped ==
  builderRun \in [status : {"queued", "running", "correcting", "complete", "failed"},
                  attempts : 0..MaxAttempts, snapshot : Verdict \cup {"none"}, ofLast : BOOLEAN]

InExecution == caller.pc \in {"executing", "executed"}

Correcting == InExecution /\ caller.cause \in {"fix", "debt"}

\* The first loop runs before any attempt is counted, a correction before the last.
AttemptsLeft ==
  /\ caller.pc \in {"start", "corrected"} => builderRun.attempts = 0
  /\ InExecution /\ caller.cause \in {"first", "invariant"} => builderRun.attempts = 0
  /\ Correcting => builderRun.attempts < MaxAttempts

\* No retry is charged to an attempt that has not begun.
RetriesOfLaterAttempts ==
  /\ \A a \in 0..MaxAttempts : a > builderRun.attempts => caller.retries[a] = 0
  /\ caller.retries[MaxAttempts] = 0

\* What a number of attempts may cost.
Paid(a) == a * (MaxRetries + 1)

\* What the current attempt has cost on top of those before it.
Charged == caller.retries[builderRun.attempts]

ExecutionsPaid ==
  /\ executions <= 1 + Paid(MaxAttempts)
  /\ caller.pc = "start" => executions = 0
  /\ caller.pc = "corrected" => executions <= Charged
  /\ caller.pc \in {"validate", "decide"} => executions <= 1 + Paid(builderRun.attempts) + Charged
  /\ InExecution /\ ~Correcting => executions <= 1 + Charged
  /\ Correcting => executions <= 1 + Paid(builderRun.attempts) + Charged + 1

\* The verdict is on the last commit from its validation until the caller's end.
VerdictStands ==
  caller.pc = "decide" \/ (caller.pc = "returned" /\ builderRun.status = "complete") =>
    /\ builderRun.snapshot # "none"
    /\ lateReports = 0 => builderRun.ofLast

\* Inductive.
CorrectionInv ==
  /\ RunTyped /\ CallerTyped /\ RequestTyped /\ executions \in Nat /\ lateReports \in Nat
  /\ AttemptsLeft /\ RetriesOfLaterAttempts
  /\ ExecutionsPaid
  /\ VerdictStands

-----------------------------------------------------------------------------
\* One attempt more costs its retries and the execution that succeeds.
LEMMA PaidGrows ==
  /\ Paid(0) = 0
  /\ \A a \in Nat : Paid(a) \in Nat /\ Paid(a + 1) = Paid(a) + MaxRetries + 1
  /\ \A a \in 0..MaxAttempts : a < MaxAttempts => Paid(a) + MaxRetries + 1 <= Paid(MaxAttempts)
  /\ MaxRetries + 1 <= Paid(MaxAttempts)
  <1> USE AutoCorrectionAssumption
  <1>1. Paid(0) = 0
    BY DEF Paid
  <1>2. \A a \in Nat : Paid(a) \in Nat /\ Paid(a + 1) = Paid(a) + MaxRetries + 1
    BY DEF Paid
  <1>3. \A a, b \in Nat : a <= b => Paid(a) <= Paid(b)
    <2> SUFFICES ASSUME NEW a \in Nat, NEW b \in Nat, a <= b PROVE Paid(a) <= Paid(b)
      OBVIOUS
    <2>1. b - a \in Nat
      OBVIOUS
    <2>2. (b - a) * (MaxRetries + 1) >= 0
      BY <2>1
    <2>3. b * (MaxRetries + 1) = a * (MaxRetries + 1) + (b - a) * (MaxRetries + 1)
      BY <2>1
    <2> QED
      BY <2>1, <2>2, <2>3 DEF Paid
  <1>4. \A a \in 0..MaxAttempts : a < MaxAttempts => Paid(a) + MaxRetries + 1 <= Paid(MaxAttempts)
    <2> SUFFICES ASSUME NEW a \in 0..MaxAttempts, a < MaxAttempts
                 PROVE  Paid(a) + MaxRetries + 1 <= Paid(MaxAttempts)
      OBVIOUS
    <2>1. a \in Nat /\ a + 1 \in Nat /\ MaxAttempts \in Nat /\ a + 1 <= MaxAttempts
      OBVIOUS
    <2>2. Paid(a + 1) <= Paid(MaxAttempts)
      BY <1>3, <2>1
    <2> QED
      BY <1>2, <2>1, <2>2
  <1>5. MaxRetries + 1 <= Paid(MaxAttempts)
    BY <1>1, <1>4
  <1> QED
    BY <1>1, <1>2, <1>4, <1>5

\* A run that was just created is paid for.
LEMMA CorrectionInitInv == CorrectionInit => CorrectionInv
  BY AutoCorrectionAssumption, PaidGrows
     DEF CorrectionInit, CorrectionInv, RunTyped, CallerTyped, RequestTyped, Retries, CallerPc,
         AttemptsLeft, RetriesOfLaterAttempts, ExecutionsPaid, VerdictStands, InExecution,
         Correcting, Verdict

\* The books of a state: what is charged, and what it may come to.
LEMMA Ledger ==
  ASSUME CorrectionInv
  PROVE  /\ builderRun.attempts \in 0..MaxAttempts /\ executions \in Nat
         /\ Charged \in 0..MaxRetries
         /\ builderRun.attempts = MaxAttempts => Charged = 0
         /\ Paid(builderRun.attempts) \in Nat /\ Paid(MaxAttempts) \in Nat
         /\ builderRun.attempts = 0 => Paid(builderRun.attempts) = 0
         /\ builderRun.attempts < MaxAttempts =>
              /\ Paid(builderRun.attempts) + MaxRetries + 1 <= Paid(MaxAttempts)
              /\ Paid(builderRun.attempts + 1) = Paid(builderRun.attempts) + MaxRetries + 1
         /\ MaxRetries \in Nat /\ MaxAttempts \in Nat /\ MaxRetries + 1 <= Paid(MaxAttempts)
  <1>1. /\ builderRun.attempts \in 0..MaxAttempts /\ executions \in Nat
        /\ MaxRetries \in Nat /\ MaxAttempts \in Nat
    BY AutoCorrectionAssumption DEF CorrectionInv, RunTyped
  <1>2. Charged \in 0..MaxRetries
    BY <1>1 DEF CorrectionInv, CallerTyped, Retries, Charged
  <1>3. builderRun.attempts = MaxAttempts => Charged = 0
    BY DEF CorrectionInv, RetriesOfLaterAttempts, Charged
  <1>4. builderRun.attempts = 0 => Paid(builderRun.attempts) = 0
    BY PaidGrows
  <1>5. builderRun.attempts \in Nat
    BY <1>1
  <1> QED
    BY <1>1, <1>2, <1>3, <1>4, <1>5, PaidGrows

\* Steps that move the caller on, and count or charge nothing.
LEMMA MovesKeep ==
  ASSUME CorrectionInv, NEW pc \in CallerPc \ {"start", "executing", "corrected"},
         caller.pc # pc,
         caller' = [caller EXCEPT !.pc = pc, !.refused = caller'.refused,
                                  !.verdict = caller'.verdict],
         caller'.refused \in BOOLEAN, caller'.verdict \in Verdict \cup {"none"},
         RunTyped', builderRun'.attempts = builderRun.attempts, RequestTyped',
         UNCHANGED <<executions, lateReports>>,
         pc = "executed" => caller.pc = "executing",
         pc = "validate" => caller.pc = "executed" /\ caller.cause \in {"first", "invariant"},
         pc = "decide" => /\ caller.pc = "validate"
                          /\ builderRun'.snapshot # "none" /\ builderRun'.ofLast = TRUE,
         pc = "returned" => \/ builderRun'.status # "complete"
                            \/ caller.pc = "decide" /\ builderRun' = builderRun
  PROVE  CorrectionInv'
  <1>1. /\ caller'.pc = pc /\ caller'.cause = caller.cause /\ caller'.retries = caller.retries
        /\ CallerTyped'
    BY DEF CorrectionInv, CallerTyped
  <1>2. AttemptsLeft' /\ RetriesOfLaterAttempts' /\ Charged' = Charged
    BY <1>1 DEF CorrectionInv, AttemptsLeft, RetriesOfLaterAttempts, InExecution, Correcting, Charged
  <1>3. ExecutionsPaid'
    BY <1>1, <1>2, Ledger
       DEF CorrectionInv, AttemptsLeft, ExecutionsPaid, InExecution, Correcting, CallerPc
  <1>4. VerdictStands'
    BY <1>1 DEF CorrectionInv, VerdictStands
  <1> QED
    BY <1>1, <1>2, <1>3, <1>4 DEF CorrectionInv

\* An execution is paid for by the first run, a charged retry, or its attempt.
LEMMA ExecuteKeeps ==
  ASSUME CorrectionInv, NEW cause \in {"first", "invariant", "fix", "debt"}, Execute(cause),
         UNCHANGED <<request, lateReports>>,
         cause \in {"first", "invariant"} => builderRun.attempts = 0 /\ executions <= Charged,
         cause \in {"fix", "debt"} =>
           /\ builderRun.attempts < MaxAttempts
           /\ executions <= 1 + Paid(builderRun.attempts) + Charged
  PROVE  CorrectionInv'
  <1>1. /\ RunTyped' /\ builderRun'.attempts = builderRun.attempts
        /\ executions' = executions + 1
    BY DEF CorrectionInv, RunTyped, Execute
  <1>2. /\ caller'.pc = "executing" /\ caller'.cause = cause /\ caller'.retries = caller.retries
        /\ CallerTyped'
    <2> DEFINE pending == IF cause \in {"fix", "debt"} THEN cause ELSE caller.pending
    <2>1. pending \in {"none", "fix", "debt"}
      BY DEF CorrectionInv, CallerTyped
    <2>2. caller' = [caller EXCEPT !.pc = "executing", !.cause = cause, !.pending = pending]
      BY DEF Execute
    <2> HIDE DEF pending
    <2> QED
      BY <2>1, <2>2 DEF CorrectionInv, CallerTyped, CallerPc
  <1>3. AttemptsLeft' /\ RetriesOfLaterAttempts' /\ Charged' = Charged
    BY <1>1, <1>2
       DEF CorrectionInv, AttemptsLeft, RetriesOfLaterAttempts, InExecution, Correcting, Charged
  <1>4. ExecutionsPaid'
    BY <1>1, <1>2, <1>3, Ledger DEF ExecutionsPaid, InExecution, Correcting
  <1>5. VerdictStands'
    BY <1>2 DEF VerdictStands
  <1>6. RequestTyped' /\ executions' \in Nat /\ lateReports' \in Nat
    BY <1>1 DEF CorrectionInv, RequestTyped
  <1> QED
    BY <1>1, <1>2, <1>3, <1>4, <1>5, <1>6 DEF CorrectionInv

\* A retry is charged to the attempt it is made for.
LEMMA RetryKeeps ==
  ASSUME CorrectionInv, RetryRefusedStep \/ RetryRefusedFix
  PROVE  CorrectionInv'
  <1> DEFINE pc == IF RetryRefusedStep THEN "corrected" ELSE "validate"
             a == builderRun.attempts
  <1>1. /\ RunTyped' /\ builderRun'.attempts = a
        /\ UNCHANGED <<request, executions, lateReports>>
    BY DEF CorrectionInv, RunTyped, RetryRefusedStep, RetryRefusedFix
  <1>2. /\ caller' = [caller EXCEPT !.pc = pc, !.retries = CountRetry]
        /\ caller.retries[a] < MaxRetries
    BY DEF RetryRefusedStep, RetryRefusedFix, RetriesLeft
  <1>3. /\ a \in 0..MaxAttempts /\ caller.retries \in Retries /\ a < MaxAttempts
        /\ pc = "corrected" => a = 0 /\ executions <= 1 + Charged
        /\ pc = "validate" => executions <= 1 + Paid(a) + Charged + 1
    BY Ledger
       DEF CorrectionInv, RunTyped, CallerTyped, AttemptsLeft, ExecutionsPaid, InExecution, Correcting,
           RetryRefusedStep, RetryRefusedFix, AutoCorrectionAssumption
  <1>4. pc \in {"corrected", "validate"}
    OBVIOUS
  <1> HIDE DEF pc
  <1>5. /\ CountRetry \in Retries /\ CountRetry[a] = caller.retries[a] + 1
        /\ \A b \in 0..MaxAttempts : b # a => CountRetry[b] = caller.retries[b]
    BY <1>2, <1>3, AutoCorrectionAssumption DEF CountRetry, Retries
  <1>6. CallerTyped' /\ caller'.pc = pc /\ caller'.retries = CountRetry
    BY <1>2, <1>4, <1>5 DEF CorrectionInv, CallerTyped, CallerPc
  <1>7. Charged' = Charged + 1
    BY <1>1, <1>5, <1>6 DEF Charged
  <1>8. AttemptsLeft' /\ RetriesOfLaterAttempts'
    BY <1>1, <1>3, <1>4, <1>5, <1>6, AutoCorrectionAssumption
       DEF CorrectionInv, AttemptsLeft, RetriesOfLaterAttempts, InExecution, Correcting
  <1>9. ExecutionsPaid'
    BY <1>1, <1>3, <1>4, <1>6, <1>7, Ledger DEF CorrectionInv, ExecutionsPaid, InExecution, Correcting
  <1>10. VerdictStands' /\ RequestTyped' /\ executions' \in Nat /\ lateReports' \in Nat
    BY <1>1, <1>4, <1>6 DEF CorrectionInv, VerdictStands, RequestTyped
  <1> QED
    BY <1>1, <1>6, <1>8, <1>9, <1>10 DEF CorrectionInv

\* The next attempt begins with nothing charged to it.
LEMMA CountKeeps ==
  ASSUME CorrectionInv, CountAttempt
  PROVE  CorrectionInv'
  <1> DEFINE a == builderRun.attempts
             retries == IF caller.cause = "fix" THEN [caller.retries EXCEPT ![a] = 0]
                        ELSE caller.retries
  <1>1. /\ a \in 0..MaxAttempts /\ a < MaxAttempts /\ caller.retries \in Retries
        /\ executions <= 1 + Paid(a) + Charged + 1
    BY DEF CorrectionInv, RunTyped, CallerTyped, AttemptsLeft, ExecutionsPaid, InExecution, Correcting,
           CountAttempt
  <1>2. /\ builderRun' = [builderRun EXCEPT !.attempts = a + 1]
        /\ caller' = [caller EXCEPT !.pc = "validate", !.retries = retries]
        /\ UNCHANGED <<request, executions, lateReports>>
    BY DEF CountAttempt
  <1>3. RunTyped' /\ builderRun'.attempts = a + 1
    BY <1>1, <1>2, AutoCorrectionAssumption DEF CorrectionInv, RunTyped
  <1>4. /\ retries \in Retries
        /\ \A b \in 0..MaxAttempts : b > a => retries[b] = 0
    BY <1>1, AutoCorrectionAssumption DEF CorrectionInv, RetriesOfLaterAttempts, Retries
  <1> HIDE DEF retries
  <1>5. CallerTyped' /\ caller'.pc = "validate" /\ caller'.retries = retries
    BY <1>2, <1>4 DEF CorrectionInv, CallerTyped, CallerPc
  <1>6. Charged' = 0
    BY <1>1, <1>3, <1>4, <1>5, AutoCorrectionAssumption DEF Charged
  <1>7. AttemptsLeft' /\ RetriesOfLaterAttempts'
    BY <1>1, <1>3, <1>4, <1>5, AutoCorrectionAssumption
       DEF AttemptsLeft, RetriesOfLaterAttempts, InExecution, Correcting
  <1>8. ExecutionsPaid'
    BY <1>1, <1>2, <1>3, <1>5, <1>6, Ledger DEF CorrectionInv, ExecutionsPaid, InExecution, Correcting
  <1>9. VerdictStands' /\ RequestTyped' /\ executions' \in Nat /\ lateReports' \in Nat
    BY <1>2, <1>5 DEF CorrectionInv, VerdictStands, RequestTyped
  <1> QED
    BY <1>3, <1>5, <1>7, <1>8, <1>9 DEF CorrectionInv

\* A request reports on the last commit, or is counted as late.
LEMMA RequestKeeps ==
  ASSUME CorrectionInv, StartRequest \/ EndRequest
  PROVE  CorrectionInv'
  <1>1. UNCHANGED <<caller, executions>> /\ builderRun'.attempts = builderRun.attempts
        /\ builderRun'.status = builderRun.status
    BY DEF CorrectionInv, RunTyped, StartRequest, EndRequest
  <1>2. RunTyped' /\ RequestTyped' /\ lateReports' \in Nat
    <2>1. CASE StartRequest
      BY <2>1, AutoCorrectionAssumption DEF CorrectionInv, RunTyped, RequestTyped, StartRequest
    <2>2. CASE EndRequest
      <3>1. PICK verdict \in Verdict :
              builderRun' = [builderRun EXCEPT !.snapshot = verdict, !.ofLast = request.ofLast]
        BY <2>2 DEF EndRequest
      <3>2. request.ofLast \in BOOLEAN /\ request' = [request EXCEPT !.pc = "idle"]
        BY <2>2 DEF CorrectionInv, RequestTyped, EndRequest
      <3>3. RunTyped'
        BY <3>1, <3>2 DEF CorrectionInv, RunTyped
      <3>4. RequestTyped'
        BY <3>2 DEF CorrectionInv, RequestTyped
      <3>5. lateReports' = lateReports \/ lateReports' = lateReports + 1
        <4>1. lateReports' = lateReports + (IF request.ofLast THEN 0 ELSE 1)
          BY <2>2 DEF EndRequest
        <4>2. CASE request.ofLast
          BY <4>1, <4>2 DEF CorrectionInv
        <4>3. CASE ~request.ofLast
          BY <4>1, <4>3 DEF CorrectionInv
        <4> QED
          BY <4>2, <4>3
      <3> QED
        BY <3>3, <3>4, <3>5 DEF CorrectionInv
    <2> QED
      BY <2>1, <2>2
  <1>3. \/ builderRun' = builderRun /\ lateReports' = lateReports
        \/ /\ builderRun'.snapshot # "none" /\ builderRun'.ofLast = request.ofLast
           /\ lateReports' = lateReports + (IF request.ofLast THEN 0 ELSE 1)
    BY DEF CorrectionInv, RunTyped, StartRequest, EndRequest, Verdict
  <1>4. VerdictStands'
    BY <1>1, <1>3 DEF CorrectionInv, VerdictStands
  <1>5. CallerTyped' /\ AttemptsLeft' /\ RetriesOfLaterAttempts' /\ ExecutionsPaid'
    BY <1>1 DEF CorrectionInv, CallerTyped, AttemptsLeft, RetriesOfLaterAttempts, ExecutionsPaid,
                InExecution, Correcting, Charged
  <1> QED
    BY <1>1, <1>2, <1>4, <1>5 DEF CorrectionInv


\* The steps of executeWithValidationAutoCorrection.
LEMMA CallerKeeps ==
  ASSUME CorrectionInv,
         \/ Start \/ ExecutionEnds \/ NotEligible \/ Throw \/ ExecuteCorrected
         \/ GiveUpRefusedStep \/ EnterValidation \/ ValidateRun \/ ResolveDebt \/ CorrectRun
         \/ ReturnVerdict \/ GiveUpCorrection
  PROVE  CorrectionInv'
  <1>1. CASE Start
    BY <1>1, ExecuteKeeps, Ledger DEF Start, CorrectionInv, AttemptsLeft, ExecutionsPaid
  <1>2. CASE ExecuteCorrected
    BY <1>2, ExecuteKeeps, Ledger DEF ExecuteCorrected, CorrectionInv, AttemptsLeft, ExecutionsPaid
  <1>3. CASE ResolveDebt \/ CorrectRun
    <2>1. PICK cause \in {"fix", "debt"} : Execute(cause)
      BY <1>3 DEF ResolveDebt, CorrectRun
    <2>2. /\ UNCHANGED <<request, lateReports>>
          /\ builderRun.attempts < MaxAttempts
          /\ executions <= 1 + Paid(builderRun.attempts) + Charged
      BY <1>3 DEF ResolveDebt, CorrectRun, CorrectionInv, ExecutionsPaid
    <2> QED
      BY <2>1, <2>2, ExecuteKeeps
  <1>4. CASE NotEligible \/ Throw \/ GiveUpRefusedStep \/ EnterValidation \/ ReturnVerdict
             \/ GiveUpCorrection
    <2>1. PICK pc \in {"unvalidated", "thrown", "returned", "validate"} :
            /\ CallerGoto(pc) /\ caller.pc # pc
            /\ UNCHANGED <<builderRun, request, executions, lateReports>>
            /\ pc = "validate" => caller.pc = "executed" /\ caller.cause \in {"first", "invariant"}
            /\ pc = "returned" => builderRun.status # "complete" \/ caller.pc = "decide"
      BY <1>4 DEF NotEligible, Throw, GiveUpRefusedStep, EnterValidation, ReturnVerdict,
                  GiveUpCorrection
    <2>2. /\ caller' = [caller EXCEPT !.pc = pc, !.refused = caller'.refused,
                                      !.verdict = caller'.verdict]
          /\ caller'.refused \in BOOLEAN /\ caller'.verdict \in Verdict \cup {"none"}
      BY <2>1 DEF CallerGoto, CorrectionInv, CallerTyped
    <2>3. RunTyped' /\ RequestTyped' /\ builderRun'.attempts = builderRun.attempts
      BY <2>1 DEF CorrectionInv, RunTyped, RequestTyped
    <2> QED
      BY <2>1, <2>2, <2>3, MovesKeep DEF CallerPc
  <1>5. CASE ExecutionEnds
    <2>1. PICK status \in {"complete", "failed"}, refused \in BOOLEAN, committed \in BOOLEAN :
            /\ builderRun' = [builderRun EXCEPT !.status = status, !.ofLast = @ /\ ~committed]
            /\ request' = [request EXCEPT !.ofLast = @ /\ ~committed]
            /\ caller' = [caller EXCEPT !.pc = "executed", !.refused = refused]
      BY <1>5 DEF ExecutionEnds
    <2>2. /\ caller' = [caller EXCEPT !.pc = "executed", !.refused = caller'.refused,
                                      !.verdict = caller'.verdict]
          /\ caller'.refused \in BOOLEAN /\ caller'.verdict \in Verdict \cup {"none"}
      BY <2>1 DEF CorrectionInv, CallerTyped
    <2>3. RunTyped' /\ RequestTyped' /\ builderRun'.attempts = builderRun.attempts
      BY <2>1 DEF CorrectionInv, RunTyped, RequestTyped
    <2> QED
      BY <1>5, <2>2, <2>3, MovesKeep DEF ExecutionEnds, CallerPc
  <1>6. CASE ValidateRun
    <2>1. PICK verdict \in Verdict :
            /\ builderRun' = [builderRun EXCEPT !.snapshot = verdict, !.ofLast = TRUE]
            /\ caller' = [caller EXCEPT !.pc = "decide", !.verdict = verdict]
      BY <1>6 DEF ValidateRun
    <2>2. /\ caller' = [caller EXCEPT !.pc = "decide", !.refused = caller'.refused,
                                      !.verdict = caller'.verdict]
          /\ caller'.refused \in BOOLEAN /\ caller'.verdict \in Verdict \cup {"none"}
      BY <2>1 DEF CorrectionInv, CallerTyped
    <2>3. /\ RunTyped' /\ RequestTyped' /\ builderRun'.attempts = builderRun.attempts
          /\ builderRun'.snapshot # "none" /\ builderRun'.ofLast = TRUE
      BY <1>6, <2>1 DEF ValidateRun, CorrectionInv, RunTyped, RequestTyped, Verdict
    <2>4. caller.pc = "validate" /\ UNCHANGED <<executions, lateReports>>
      BY <1>6 DEF ValidateRun
    <2>5. PICK pc \in CallerPc \ {"start", "executing", "corrected"} : pc = "decide"
      BY DEF CallerPc
    <2>6. /\ caller.pc # pc
          /\ caller' = [caller EXCEPT !.pc = pc, !.refused = caller'.refused,
                                      !.verdict = caller'.verdict]
          /\ pc # "executed" /\ pc # "validate" /\ pc # "returned"
      BY <2>2, <2>4, <2>5
    <2> QED
      BY <2>2, <2>3, <2>4, <2>6, MovesKeep
  <1> QED
    BY <1>1, <1>2, <1>3, <1>4, <1>5, <1>6

\* Every step keeps the books.
LEMMA CorrectionNextInv == CorrectionInv /\ [CorrectionNext]_correctionVars => CorrectionInv'
  <1> SUFFICES ASSUME CorrectionInv, [CorrectionNext]_correctionVars
               PROVE  CorrectionInv'
    OBVIOUS
  <1>1. CASE UNCHANGED correctionVars
    BY <1>1
       DEF correctionVars, CorrectionInv, RunTyped, CallerTyped, RequestTyped, AttemptsLeft,
           RetriesOfLaterAttempts, ExecutionsPaid, VerdictStands, InExecution, Correcting, Charged
  <1>2. CASE CorrectionNext
    BY <1>2, CallerKeeps, RetryKeeps, CountKeeps, RequestKeeps DEF CorrectionNext
  <1> QED
    BY <1>1, <1>2

\* The books are right in every state.
LEMMA CorrectionAlways == CorrectionSpec => []CorrectionInv
  BY CorrectionInitInv, CorrectionNextInv, PTL DEF CorrectionSpec

-----------------------------------------------------------------------------
\* For any number of attempts and retries, the executions of a builder run never
\* exceed the first one and, for each attempt, its retries and its success:
\* executeWithValidationAutoCorrection comes to an end.
LEMMA CorrectionBounded == CorrectionSpec => []CorrectionIsBounded
  <1>1. CorrectionInv => CorrectionIsBounded
    BY Ledger DEF CorrectionInv, ExecutionsPaid, CorrectionIsBounded, Paid
  <1> QED
    BY <1>1, CorrectionAlways, PTL

\* A run handed back complete carries a verdict on its last commit, for any
\* number of attempts, retries and concurrent validate requests, unless one of
\* these outlived a correction.
LEMMA VerdictIsCurrent == CorrectionSpec => []VerdictIsOfLastCommit
  <1>1. CorrectionInv => VerdictIsOfLastCommit
    BY DEF CorrectionInv, VerdictStands, VerdictIsOfLastCommit
  <1> QED
    BY <1>1, CorrectionAlways, PTL

\* Auto-correction of a builder run (executeWithValidationAutoCorrection) comes
\* to an end, and with a verdict on what it hands back, for any number of
\* attempts, retries and validate requests.
THEOREM CorrectionStaysSound == CorrectionSpec => []CorrectionSound
  <1>1. CorrectionInv => CorrectionSound
    BY Ledger DEF CorrectionInv, ExecutionsPaid, VerdictStands, CorrectionSound,
                  CorrectionIsBounded, VerdictIsOfLastCommit, Paid
  <1> QED
    BY <1>1, CorrectionAlways, PTL

-----------------------------------------------------------------------------
RunRow ==
  [status : RunStatus \cup {"absent"}, phase : {"goal", "optimization"},
   stepIndex : 0..MaxRunSteps, optimized : 0..MaxRunBudget, maxSteps : 1..MaxRunSteps,
   maxCorrections : {0, 1}, maxOptimizations : 0..MaxRunBudget]

\* The rows of a run with a goal of so many steps.
RowsTell(goal) ==
  \A i \in 1..Len(rows) : rows[i].index = i - 1 /\ (rows[i].type = "goal" <=> i <= goal)

\* The counters of a row that has so many step rows.
CountersTell(r, steps, goal) ==
  /\ r.stepIndex = steps /\ steps <= r.maxSteps
  /\ r.phase = "optimization" <=> steps >= goal
  /\ r.optimized = IF r.phase = "optimization" THEN steps - goal ELSE 0
  /\ r.optimized <= r.maxOptimizations
  /\ r.status = "complete" => r.optimized = r.maxOptimizations
  /\ r.status = "absent" => steps = 0

\* Inductive: the counter of optimizations is the number of rows past the goal.
StateInv ==
  /\ run \in RunRow /\ rows \in Seq(RowType)
  /\ RowsTell(GoalTarget)
  /\ CountersTell(run, Len(rows), GoalTarget)

\* The goal is at least one step and never beyond the limit.
LEMMA GoalBounds ==
  ASSUME run \in RunRow
  PROVE  GoalTarget \in 1..run.maxSteps /\ run.maxSteps \in 1..MaxRunSteps
  BY StateRunsAssumption DEF RunRow, GoalTarget

\* A row that keeps its counters and limits and does not become complete.
LEMMA StatusMoves ==
  ASSUME StateInv, NEW status \in RunStatus \ {"complete"},
         run' = [run EXCEPT !.status = status], rows' = rows
  PROVE  StateInv'
  <1>1. run' \in RunRow
    BY DEF StateInv, RunRow
  <1>2. /\ run'.status = status /\ run'.phase = run.phase /\ run'.stepIndex = run.stepIndex
        /\ run'.optimized = run.optimized /\ run'.maxSteps = run.maxSteps
        /\ run'.maxOptimizations = run.maxOptimizations
    BY DEF StateInv, RunRow
  <1>3. GoalTarget' = GoalTarget
    BY <1>2 DEF GoalTarget
  <1>4. status # "absent" /\ status # "complete"
    BY DEF RunStatus
  <1>5. CountersTell(run', Len(rows'), GoalTarget')
    BY <1>2, <1>3, <1>4 DEF StateInv, CountersTell
  <1> QED
    BY <1>1, <1>3, <1>5 DEF StateInv, RowsTell

\* The row of a run that is created has no step rows.
LEMMA CreateKeeps ==
  ASSUME StateInv, NEW p \in Server, NEW autoStart \in BOOLEAN, CreateRun(p, autoStart)
  PROVE  StateInv'
  <1>1. PICK s \in 1..MaxRunSteps, c \in {0, 1}, o \in 0..MaxRunBudget :
          run' = [NoRun EXCEPT !.status = "queued", !.maxSteps = s, !.maxCorrections = c,
                               !.maxOptimizations = o]
    BY DEF CreateRun
  <1>2. run' = [status |-> "queued", phase |-> "goal", stepIndex |-> 0, optimized |-> 0,
                maxSteps |-> s, maxCorrections |-> c, maxOptimizations |-> o]
    BY <1>1 DEF NoRun
  <1>3. run' \in RunRow
    BY <1>2, StateRunsAssumption DEF RunRow, RunStatus
  <1>4. GoalTarget' \in 1..run'.maxSteps
    BY <1>2, StateRunsAssumption DEF GoalTarget
  <1>5. rows' = rows /\ Len(rows) = 0
    BY DEF CreateRun, StateInv, CountersTell
  <1>6. CountersTell(run', 0, GoalTarget')
    BY <1>2, <1>4 DEF CountersTell
  <1> QED
    BY <1>3, <1>5, <1>6 DEF StateInv, RowsTell

\* The step that is taken: a row of the run's phase, and the counters with it.
LEMMA TakenKeeps ==
  ASSUME StateInv, ActiveRun, ~LimitReached, ~BudgetUsed(run),
         rows' = Append(rows, [index |-> run.stepIndex, type |-> run.phase]),
         run' = CompleteIfDone(StepTaken)
  PROVE  StateInv'
  <1> DEFINE n == Len(rows)
             goal == GoalTarget
             row == [index |-> run.stepIndex, type |-> run.phase]
             optimized == IF run.phase = "optimization" THEN run.optimized + 1 ELSE run.optimized
             reached == run.phase = "goal" /\ n + 1 >= goal
             phase == IF reached THEN "optimization" ELSE run.phase
             status == IF reached THEN "optimizing" ELSE StartedRow.status
             done == phase = "optimization" /\ optimized >= run.maxOptimizations
             final == IF done THEN "complete" ELSE status
  <1>1. /\ n \in Nat /\ run.stepIndex = n /\ n < run.maxSteps /\ goal \in 1..run.maxSteps
        /\ run.maxSteps \in 1..MaxRunSteps /\ row \in RowType
        /\ run.phase \in {"goal", "optimization"}
        /\ run.optimized \in 0..MaxRunBudget /\ run.maxOptimizations \in 0..MaxRunBudget
        /\ MaxRunSteps \in Nat /\ MaxRunBudget \in Nat
    BY GoalBounds, StateRunsAssumption
       DEF StateInv, CountersTell, LimitReached, RunRow, RowType
  <1>2. /\ StartedRow \in RunRow /\ StartedRow.status \in RunStatus \ {"complete"}
        /\ StartedRow = [run EXCEPT !.status = StartedRow.status]
    BY DEF StateInv, StartedRow, RunRow, ActiveRun, RunStatus, TerminalRunStatus
  <1>3. StepTaken = [run EXCEPT !.status = status, !.phase = phase, !.stepIndex = n + 1,
                                !.optimized = optimized]
    BY <1>1, <1>2 DEF StepTaken, StateInv, RunRow
  <1>4. /\ run.phase = "optimization" => run.optimized < run.maxOptimizations
        /\ optimized \in 0..MaxRunBudget /\ optimized <= run.maxOptimizations
    BY <1>1 DEF BudgetUsed, StateInv, CountersTell
  <1>5. /\ phase = "optimization" <=> n + 1 >= goal
        /\ optimized = IF phase = "optimization" THEN n + 1 - goal ELSE 0
    BY <1>1 DEF StateInv, CountersTell
  <1>6. status \in RunStatus \ {"complete"} /\ phase \in {"goal", "optimization"}
    BY <1>1, <1>2 DEF RunStatus
  <1>7. run' = [run EXCEPT !.status = final, !.phase = phase, !.stepIndex = n + 1,
                           !.optimized = optimized]
    BY <1>3 DEF CompleteIfDone, BudgetUsed, StateInv, RunRow
  <1>8. final \in RunStatus /\ (final = "complete" <=> done)
    BY <1>6 DEF RunStatus
  <1>9. n + 1 \in 0..MaxRunSteps
    BY <1>1
  <1> HIDE DEF optimized, phase, status, final, n
  <1>10. /\ run' \in RunRow
         /\ run'.stepIndex = n + 1 /\ run'.phase = phase /\ run'.optimized = optimized
         /\ run'.maxSteps = run.maxSteps /\ run'.maxOptimizations = run.maxOptimizations
         /\ run'.status = final
    BY <1>4, <1>6, <1>7, <1>8, <1>9 DEF StateInv, RunRow
  <1>11. GoalTarget' = goal
    BY <1>10 DEF GoalTarget
  <1>12. /\ rows' \in Seq(RowType) /\ Len(rows') = n + 1 /\ rows'[n + 1] = row
         /\ \A i \in 1..n : rows'[i] = rows[i]
    BY <1>1, AppendProperties DEF StateInv, n
  <1>13. CountersTell(run', n + 1, goal)
    BY <1>1, <1>4, <1>5, <1>6, <1>8, <1>10 DEF CountersTell, RunStatus, n
  <1>14. RowsTell(GoalTarget)'
    <2> SUFFICES ASSUME NEW i \in 1..(n + 1)
                 PROVE  rows'[i].index = i - 1 /\ (rows'[i].type = "goal" <=> i <= goal)
      BY <1>11, <1>12 DEF RowsTell
    <2>1. CASE i \in 1..n
      BY <2>1, <1>12 DEF StateInv, RowsTell, n
    <2>2. CASE i = n + 1
      BY <2>2, <1>1, <1>12 DEF StateInv, CountersTell
    <2> QED
      BY <2>1, <2>2, <1>1 DEF n
  <1> QED
    BY <1>10, <1>11, <1>12, <1>13, <1>14 DEF StateInv

\* executeNextStep, for a worker or for a tick.
LEMMA StepKeeps ==
  ASSUME StateInv, NEW expected, ExecuteNextStep(expected)
  PROVE  StateInv'
  <1>1. CASE NotRunnable(expected) /\ run' = (IF ActiveRun THEN StartedRow ELSE run) /\ rows' = rows
    <2>1. CASE ~ActiveRun \/ run.status # "queued"
      <3>1. run' = run
        BY <1>1, <2>1 DEF StartedRow
      <3> QED
        BY <1>1, <3>1 DEF StateInv, RowsTell, GoalTarget
    <2>2. CASE ActiveRun /\ run.status = "queued"
      BY <1>1, <2>2, StatusMoves DEF StartedRow, RunStatus
    <2> QED
      BY <2>1, <2>2
  <1>2. CASE /\ ~NotRunnable(expected)
             /\ LimitReached \/ BudgetUsed(run)
             /\ run' = [run EXCEPT !.status = IF LimitReached THEN "failed" ELSE "complete"]
             /\ rows' = rows
    <2>1. CASE LimitReached
      BY <1>2, <2>1, StatusMoves DEF RunStatus
    <2>2. CASE ~LimitReached
      <3>1. run' = [run EXCEPT !.status = "complete"] /\ rows' = rows /\ BudgetUsed(run)
        BY <1>2, <2>2
      <3>2. run' \in RunRow
        BY <3>1 DEF StateInv, RunRow, RunStatus
      <3>3. /\ run'.status = "complete" /\ run'.phase = run.phase /\ run'.stepIndex = run.stepIndex
            /\ run'.optimized = run.optimized /\ run'.maxSteps = run.maxSteps
            /\ run'.maxOptimizations = run.maxOptimizations
        BY <3>1 DEF StateInv, RunRow
      <3>4. GoalTarget' = GoalTarget
        BY <3>3 DEF GoalTarget
      <3>5. run.optimized = run.maxOptimizations
        BY <3>1 DEF BudgetUsed, StateInv, RunRow, CountersTell
      <3>6. CountersTell(run', Len(rows'), GoalTarget')
        BY <3>1, <3>3, <3>4, <3>5 DEF StateInv, CountersTell
      <3> QED
        BY <3>1, <3>2, <3>4, <3>6 DEF StateInv, RowsTell
    <2> QED
      BY <2>1, <2>2
  <1>3. CASE /\ ~(NotRunnable(expected) \/ LimitReached \/ BudgetUsed(run))
             /\ rows' = Append(rows, [index |-> run.stepIndex, type |-> run.phase])
             /\ run' = CompleteIfDone(StepTaken)
    BY <1>3, TakenKeeps DEF NotRunnable
  <1> QED
    BY <1>1, <1>2, <1>3 DEF ExecuteNextStep

\* Workers, ticks, cancels, resumes and deaths keep the rows and the counters together.
LEMMA StateNextInv == StateInv /\ [StateRunNext]_stateRunVars => StateInv'
  <1> SUFFICES ASSUME StateInv, [StateRunNext]_stateRunVars
               PROVE  StateInv'
    OBVIOUS
  <1>1. CASE run' = run /\ rows' = rows
    BY <1>1 DEF StateInv, RowsTell, GoalTarget
  <1>2. ASSUME NEW p \in Server, ServerStep(p)
        PROVE  StateInv'
    <2>1. CASE \E autoStart \in BOOLEAN : CreateRun(p, autoStart)
      BY <2>1, CreateKeeps
    <2>2. CASE ExecuteKey(p)
      BY <2>2, StepKeeps DEF ExecuteKey
    <2>3. CASE TakeKey(p) \/ Reenqueue(p) \/ EnqueueResumed(p) \/ ServerDies(p)
      BY <2>3, <1>1 DEF TakeKey, Reenqueue, EnqueueResumed, ServerDies
    <2>4. CASE ResumeRun(p)
      BY <2>4, StatusMoves DEF ResumeRun, RunStatus
    <2> QED
      BY <1>2, <2>1, <2>2, <2>3, <2>4 DEF ServerStep, WorkerStep
  <1>3. ASSUME NEW expected, Tick(expected)
        PROVE  StateInv'
    BY <1>3, StepKeeps DEF Tick
  <1>4. CASE CancelRun
    BY <1>4, StatusMoves DEF CancelRun, RunStatus
  <1>5. CASE UNCHANGED stateRunVars
    BY <1>1, <1>5 DEF stateRunVars
  <1> QED
    BY <1>2, <1>3, <1>4, <1>5 DEF StateRunNext

\* A run that was not created has no rows.
LEMMA StateRunStarts == StateRunInit => StateInv
  <1> SUFFICES ASSUME StateRunInit PROVE StateInv
    OBVIOUS
  <1>1. run \in RunRow /\ rows \in Seq(RowType) /\ Len(rows) = 0
    BY StateRunsAssumption DEF StateRunInit, NoRun, RunRow
  <1>2. QED
    BY <1>1, GoalBounds DEF StateRunInit, NoRun, StateInv, RowsTell, CountersTell

\* Rows and counters agree in every state.
LEMMA StateAlways == StateRunSpec => []StateInv
  BY StateRunStarts, StateNextInv, PTL DEF StateRunSpec

-----------------------------------------------------------------------------
\* For any limits and any number of processes, the step rows of a state-machine
\* run are its indexes in order, the goal's first, and its optimization counter
\* is the number of rows past the goal, within the budget.
THEOREM StepRowsTold == StateRunSpec => []StepRowsTellTheRun
  <1>1. StateInv => StepRowsTellTheRun
    <2> SUFFICES ASSUME StateInv PROVE StepRowsTellTheRun
      OBVIOUS
    <2> DEFINE n == Len(rows)
               optimizations == {i \in 1..n : rows[i].type = "optimization"}
    <2>1. n \in Nat /\ GoalTarget \in Nat /\ GoalTarget >= 1
      BY GoalBounds DEF StateInv
    <2>2. \A i \in 1..n : rows[i].type = "optimization" <=> i > GoalTarget
      <3> SUFFICES ASSUME NEW i \in 1..n
                   PROVE  rows[i].type = "optimization" <=> i > GoalTarget
        OBVIOUS
      <3>1. rows[i].type \in {"goal", "optimization"}
        <4>1. rows[i] \in RowType
          BY DEF StateInv
        <4> QED
          BY <4>1 DEF RowType
      <3>2. rows[i].type = "goal" <=> i <= GoalTarget
        BY DEF StateInv, RowsTell
      <3> QED
        BY <2>1, <3>1, <3>2
    <2>3. optimizations = (GoalTarget + 1)..n
      BY <2>1, <2>2
    <2> HIDE DEF optimizations, n
    <2>4. Cardinality(optimizations) = IF GoalTarget + 1 > n THEN 0 ELSE n - (GoalTarget + 1) + 1
      <3>1. GoalTarget + 1 \in Int /\ n \in Int
        BY <2>1
      <3> QED
        BY <2>3, <3>1, FS_Interval
    <2>5. run.optimized = Cardinality(optimizations)
      BY <2>1, <2>4 DEF n, StateInv, CountersTell
    <2> QED
      BY <2>1, <2>5 DEF optimizations, n, StateInv, RowsTell, CountersTell, StepRowsTellTheRun
  <1> QED
    BY <1>1, StateAlways, PTL

-----------------------------------------------------------------------------
(* The policy on correction steps.                                         *)

\* Constraints that a correction can be planned under.
CorrectionConstraint ==
  [intent : Intent, files : 1..100, kb : Nat \ {0}, areas : SUBSET Area]

\* Steps that can be next in a plan, and what their tools may propose.
CorrectionStep ==
  {NoStep, Named}
    \cup [from : {"runtime", "heavy", "recipe"}, constraint : CorrectionConstraint]
Proposal == [files : Nat, kb : Nat, areas : SUBSET Area]

\* A constraint that was computed from the contract in force is within it.
WithinContract(s) ==
  s.from \in {"runtime", "heavy"} /\ ~resized
    => s.constraint.files <= contract.files /\ s.constraint.kb <= contract.kb

\* What has got past the checks before the commit.
PassedChecks ==
  spc \in {"applied", "committed"} =>
    /\ step # NoStep
    /\ change.files > 0
    /\ InScope(step, change) /\ StagedWithin(step, change) /\ ValidStaged(change)

PolicyTyped ==
  /\ contract \in Contract
  /\ step \in CorrectionStep
  /\ change \in Proposal
  /\ spc \in {"loop", "applied", "committed", "failed", "heavy"}
  /\ resized \in BOOLEAN
  /\ record.step \in CorrectionStep
  /\ record.change \in Proposal
  /\ record.contract \in Contract
  /\ record.status \in {"none", "completed", "failed"}
  /\ spc \in {"loop", "failed", "heavy"} => change = NoProposal

\* Inductive: a step queued or recorded keeps to the contract in force unless
\* that was replaced meanwhile.
PolicyInv ==
  /\ PolicyTyped
  /\ WithinContract(step)
  /\ WithinContract(record.step)
  /\ PassedChecks
  /\ CorrectionsConfined

-----------------------------------------------------------------------------
\* Every constraint that can be queued is one a correction can be planned under.
LEMMA IntentChosen ==
  \A phase, checks, kinds, logs : ChooseIntent(phase, checks, kinds, logs) \in Intent
  <1> TAKE phase, checks, kinds, logs
  <1>1. CASE "migration" \in kinds
    BY <1>1 DEF ChooseIntent, Intent
  <1>2. CASE "migration" \notin kinds /\ "typescript" \in kinds
    BY <1>2 DEF ChooseIntent, Intent
  <1>3. CASE kinds \cap {"migration", "typescript"} = {} /\ "test" \in kinds
    BY <1>3 DEF ChooseIntent, Intent
  <1>4. CASE kinds \cap {"migration", "typescript"} = {} /\ "test" \notin kinds
    BY <1>4 DEF ChooseIntent, Intent
  <1>5. QED
    BY <1>1, <1>2, <1>3, <1>4

\* resolveLimits: an intent's constraint is within the contract it is computed
\* from, and leaves something to change.
LEMMA ConstraintWithin ==
  ASSUME NEW intent \in Intent, NEW c \in Contract
  PROVE  /\ Constraint(intent, c) \in CorrectionConstraint
         /\ Constraint(intent, c).files <= c.files
         /\ Constraint(intent, c).kb <= c.kb
  <1>1. c.files \in 1..100 /\ c.kb \in Nat \ {0}
    BY PolicyAssumption DEF Contract
  <1>2. FilesOf[intent] \in 1..100 /\ KbOf[intent] \in Nat \ {0}
    BY DEF Intent, FilesOf, KbOf
  <1>3. AreasOf[intent] \subseteq Area
    BY DEF Intent, AreasOf, Area, Src, Tests
  <1>4. /\ Least(c.files, FilesOf[intent]) \in 1..100
        /\ Least(c.files, FilesOf[intent]) <= c.files
        /\ Least(c.kb, KbOf[intent]) \in Nat \ {0}
        /\ Least(c.kb, KbOf[intent]) <= c.kb
    BY <1>1, <1>2 DEF Least
  <1>5. QED
    BY <1>3, <1>4 DEF Constraint, CorrectionConstraint

\* Caps of the contract in force, and of a step's constraint, are numbers.
LEMMA CapsAreNumbers ==
  ASSUME PolicyTyped
  PROVE  /\ contract.files \in 1..100 /\ contract.kb \in Nat \ {0}
         /\ HasMetadata(step) => /\ step.constraint.files \in 1..100
                                 /\ step.constraint.kb \in Nat \ {0}
  <1>1. contract.files \in CapFiles /\ contract.kb \in CapKb
    BY DEF PolicyTyped, Contract
  <1>2. HasMetadata(step) => step.constraint \in CorrectionConstraint
    BY DEF PolicyTyped, CorrectionStep, HasMetadata, NoStep, Named
  <1>3. QED
    BY <1>1, <1>2, PolicyAssumption DEF CorrectionConstraint

\* What is queued is a step; one with an intent's constraint is within the contract.
LEMMA QueuedWithin ==
  ASSUME PolicyTyped, NEW s,
         \/ s = Named
         \/ \E n \in Count \ {0} : s = [from |-> "recipe", constraint |-> FixedConstraint(n)]
         \/ \E intent \in Intent :
              \/ s = [from |-> "runtime", constraint |-> Constraint(intent, contract)]
              \/ s = [from |-> "heavy", constraint |-> Constraint(intent, contract)]
  PROVE  /\ s \in CorrectionStep
         /\ s.from \in {"runtime", "heavy"}
              => s.constraint.files <= contract.files /\ s.constraint.kb <= contract.kb
  <1>1. CASE s = Named
    BY <1>1 DEF Named, CorrectionStep
  <1>2. ASSUME NEW n \in Count \ {0}, s = [from |-> "recipe", constraint |-> FixedConstraint(n)]
        PROVE  s \in CorrectionStep /\ s.from = "recipe"
    <2>1. n \in Nat \ {0}
      BY PolicyAssumption
    <2>2. FixedConstraint(n) \in CorrectionConstraint
      BY <2>1 DEF FixedConstraint, CorrectionConstraint, Least, Intent, Area, Src, Tests
    <2>3. QED
      BY <1>2, <2>2 DEF CorrectionStep
  <1>3. ASSUME NEW intent \in Intent, NEW f \in {"runtime", "heavy"},
               s = [from |-> f, constraint |-> Constraint(intent, contract)]
        PROVE  /\ s \in CorrectionStep
               /\ s.constraint.files <= contract.files /\ s.constraint.kb <= contract.kb
    <2>1. /\ Constraint(intent, contract) \in CorrectionConstraint
          /\ Constraint(intent, contract).files <= contract.files
          /\ Constraint(intent, contract).kb <= contract.kb
      BY ConstraintWithin DEF PolicyTyped
    <2>2. QED
      BY <1>3, <2>1 DEF CorrectionStep
  <1>4. QED
    BY <1>1, <1>2, <1>3

\* Nothing has been corrected.
LEMMA PolicyInitially == PolicyInit => PolicyInv
  <1> SUFFICES ASSUME PolicyInit PROVE PolicyInv
    OBVIOUS
  <1>1. contract \in Contract /\ (CHOOSE c \in Contract : TRUE) \in Contract
    BY DEF PolicyInit
  <1>2. NoStep \in CorrectionStep /\ NoProposal \in Proposal
    BY DEF CorrectionStep, NoProposal, Proposal
  <1>3. PolicyTyped
    BY <1>1, <1>2 DEF PolicyInit, PolicyTyped, NoRecord
  <1>4. WithinContract(step) /\ WithinContract(record.step) /\ PassedChecks
    BY DEF PolicyInit, WithinContract, PassedChecks, NoRecord, NoStep
  <1>5. CorrectionsConfined
    BY DEF PolicyInit, CorrectionsConfined, NoRecord
  <1>6. QED
    BY <1>3, <1>4, <1>5 DEF PolicyInv

\* A correction enters the plan, and the last one's record has been judged.
LEMMA QueueKeeps ==
  ASSUME PolicyInv, QueueRuntimeCorrection \/ QueueHeavyCorrection \/ QueueOther
  PROVE  PolicyInv'
  <1>1. PICK s : /\ Queue(s) /\ UNCHANGED <<contract, change>>
                 /\ \/ s = Named
                    \/ \E n \in Count \ {0} :
                         s = [from |-> "recipe", constraint |-> FixedConstraint(n)]
                    \/ \E intent \in Intent :
                         \/ s = [from |-> "runtime", constraint |-> Constraint(intent, contract)]
                         \/ s = [from |-> "heavy", constraint |-> Constraint(intent, contract)]
    <2>1. CASE QueueRuntimeCorrection
      <3>1. PICK logs : Queue([from |-> "runtime",
                 constraint |-> Constraint(ChooseIntent("goal", {}, {}, logs), contract)])
        BY <2>1 DEF QueueRuntimeCorrection
      <3> DEFINE intent == ChooseIntent("goal", {}, {}, logs)
                 s == [from |-> "runtime", constraint |-> Constraint(intent, contract)]
      <3>2. intent \in Intent
        BY IntentChosen
      <3> HIDE DEF intent
      <3>3. Queue(s)
        BY <3>1 DEF intent
      <3>4. \E i \in Intent : s = [from |-> "runtime", constraint |-> Constraint(i, contract)]
        BY <3>2
      <3>5. UNCHANGED <<contract, change>>
        BY <2>1 DEF QueueRuntimeCorrection
      <3> HIDE DEF s
      <3>6. \E i \in Intent :
              \/ s = [from |-> "runtime", constraint |-> Constraint(i, contract)]
              \/ s = [from |-> "heavy", constraint |-> Constraint(i, contract)]
        BY <3>4
      <3>7. QED
        BY <3>3, <3>5, <3>6
    <2>2. CASE QueueHeavyCorrection
      <3>1. HeavyIntents \subseteq Intent
        <4> SUFFICES ASSUME NEW i \in HeavyIntents PROVE i \in Intent
          OBVIOUS
        <4>1. PICK checks \in {c \in SUBSET Check : Cardinality(c) \in 1..2} :
                i \in {ChooseIntent("optimization", checks, FailureKinds(read), logs) :
                         read \in [checks \cap CommandCheck -> {"read", "unread", "silent"}],
                         logs \in IF "boot" \in checks THEN {"boot", "health"}
                                  ELSE {"none", "boot", "health"}}
          BY DEF HeavyIntents
        <4>2. PICK read, logs :
                i = ChooseIntent("optimization", checks, FailureKinds(read), logs)
          BY <4>1
        <4>3. QED
          BY <4>2, IntentChosen
      <3>2. QED
        BY <2>2, <3>1 DEF QueueHeavyCorrection
    <2>3. CASE QueueOther
      BY <2>3 DEF QueueOther
    <2>4. QED
      BY <2>1, <2>2, <2>3
  <1>2. /\ s \in CorrectionStep
        /\ s.from \in {"runtime", "heavy"}
             => s.constraint.files <= contract.files /\ s.constraint.kb <= contract.kb
    BY <1>1, QueuedWithin DEF PolicyInv
  <1>3. /\ step' = s /\ spc' = "loop" /\ resized' = FALSE /\ record' = NoRecord
        /\ contract' = contract /\ change' = change /\ change = NoProposal
    BY <1>1 DEF Queue, PolicyInv, PolicyTyped, QueueRuntimeCorrection, QueueHeavyCorrection,
                QueueOther
  <1>4. PolicyTyped'
    <2>1. NoStep \in CorrectionStep /\ NoProposal \in Proposal
      BY DEF CorrectionStep, NoProposal, Proposal
    <2>2. contract \in Contract /\ (CHOOSE c \in Contract : TRUE) \in Contract
      BY DEF PolicyInv, PolicyTyped
    <2>3. QED
      BY <1>2, <1>3, <2>1, <2>2 DEF PolicyTyped, NoRecord
  <1>5. WithinContract(step)' /\ WithinContract(record.step)' /\ PassedChecks'
    BY <1>2, <1>3 DEF WithinContract, PassedChecks, NoRecord, NoStep
  <1>6. CorrectionsConfined'
    BY <1>3 DEF CorrectionsConfined, NoRecord
  <1>7. QED
    BY <1>4, <1>5, <1>6 DEF PolicyInv

\* A resume: what it executes again was within the contract it was queued
\* under, which is the one in force unless the resume replaced it.
LEMMA ResumeKeeps ==
  ASSUME PolicyInv, NEW c \in Contract, ResumeUnder(c)
  PROVE  PolicyInv'
  <1>1. /\ contract' = c /\ step' \in {step, record.step} /\ spc' = "loop"
        /\ change' = NoProposal /\ record' = record
    BY DEF ResumeUnder
  <1>2. /\ resized' \in BOOLEAN
        /\ ~resized' => ~resized /\ c = contract
    BY DEF ResumeUnder
  <1>3. PolicyTyped'
    <2>1. NoProposal \in Proposal
      BY DEF NoProposal, Proposal
    <2>2. QED
      BY <1>1, <1>2, <2>1 DEF PolicyInv, PolicyTyped
  <1>4. WithinContract(step)' /\ WithinContract(record.step)'
    BY <1>1, <1>2 DEF PolicyInv, WithinContract
  <1>5. PassedChecks'
    BY <1>1 DEF PassedChecks
  <1>6. CorrectionsConfined'
    BY <1>1 DEF PolicyInv, CorrectionsConfined
  <1>7. QED
    BY <1>3, <1>4, <1>5, <1>6 DEF PolicyInv

\* The transaction of a correction step and its commit.
LEMMA ApplyKeeps ==
  ASSUME PolicyInv, ApplyCorrection \/ CommitCorrection
  PROVE  PolicyInv'
  <1>1. UNCHANGED <<contract, step, record, resized>> /\ step \in CorrectionStep
    BY DEF ApplyCorrection, CommitCorrection, PolicyInv, PolicyTyped
  <1>2. \/ spc' = "failed" /\ change' = NoProposal
        \/ /\ spc' \in {"applied", "committed"} /\ change' \in Proposal /\ step # NoStep
           /\ change'.files > 0
           /\ InScope(step, change') /\ StagedWithin(step, change')
           /\ change'.files <= contract.files /\ change'.kb <= contract.kb
           /\ "env" \notin change'.areas
    <2>1. CASE ApplyCorrection
      <3>1. CASE change' = NoProposal /\ spc' = "failed"
        BY <3>1
      <3>2. ASSUME NEW n \in Count, NEW kb \in Kb, NEW areas \in Touched,
                   change' = [files |-> n, kb |-> kb, areas |-> areas], spc' = "applied",
                   n > 0, InScope(step, change'), StagedWithin(step, change'),
                   ValidStaged(change')
            PROVE  <1>2
        <4>1. change' \in Proposal
          BY <3>2, PolicyAssumption, TouchedAssumption DEF Proposal
        <4>2. step # NoStep
          BY <2>1 DEF ApplyCorrection
        <4>3. change'.files > 0
          BY <3>2
        <4>4. QED
          BY <3>2, <4>1, <4>2, <4>3 DEF ValidStaged
      <3>3. QED
        BY <2>1, <3>1, <3>2 DEF ApplyCorrection
    <2>2. CASE CommitCorrection
      BY <2>2 DEF CommitCorrection, PolicyInv, PolicyTyped, PassedChecks, ValidStaged
    <2>3. QED
      BY <2>1, <2>2
  <1>3. PolicyTyped'
    <2>1. NoProposal \in Proposal
      BY DEF NoProposal, Proposal
    <2>2. QED
      BY <1>1, <1>2, <2>1 DEF PolicyInv, PolicyTyped
  <1>4. WithinContract(step)' /\ WithinContract(record.step)'
    BY <1>1 DEF PolicyInv, WithinContract
  <1>5. PassedChecks'
    BY <1>1, <1>2 DEF PassedChecks, InScope, StagedWithin, ValidStaged, HasMetadata
  <1>6. CorrectionsConfined'
    BY <1>1 DEF PolicyInv, CorrectionsConfined
  <1>7. QED
    BY <1>3, <1>4, <1>5, <1>6 DEF PolicyInv

\* What the policy refuses although the kernel let it pass says nothing of
\* itself, was queued under another contract, or is a fixed constraint.
LEMMA RefusalExplained ==
  ASSUME PolicyInv, spc = "committed", PolicyRefuses(step, change)
  PROVE  \/ step.from = "plan"
         \/ resized
         \/ /\ step.from = "recipe"
            /\ step.constraint.files > contract.files \/ step.constraint.kb > contract.kb
  <1>1. /\ step \in CorrectionStep /\ step # NoStep /\ change \in Proposal
        /\ change.files > 0 /\ InScope(step, change) /\ StagedWithin(step, change)
        /\ contract.files \in Nat /\ contract.kb \in Nat
    BY CapsAreNumbers DEF PolicyInv, PolicyTyped, PassedChecks
  <1>2. CASE step = Named
    BY <1>2 DEF Named
  <1>3. CASE step \in [from : {"runtime", "heavy", "recipe"}, constraint : CorrectionConstraint]
    <2>1. HasMetadata(step) /\ step.constraint \in CorrectionConstraint
      BY <1>3 DEF HasMetadata
    <2>2. /\ change.files <= step.constraint.files /\ change.kb <= step.constraint.kb
          /\ change.areas \subseteq step.constraint.areas
      BY <1>1, <2>1 DEF InScope, StagedWithin
    <2>3. /\ step.constraint.files \in 1..100 /\ step.constraint.kb \in Nat \ {0}
          /\ change.files \in Nat /\ change.kb \in Nat
      BY <1>1, <2>1 DEF CorrectionConstraint, Proposal
    <2>4. step.constraint.files > contract.files \/ step.constraint.kb > contract.kb
      BY <1>1, <2>1, <2>2, <2>3 DEF PolicyRefuses
    <2>5. CASE step.from = "recipe"
      BY <2>4, <2>5
    <2>6. CASE step.from \in {"runtime", "heavy"} /\ ~resized
      BY <1>1, <2>3, <2>4, <2>6 DEF PolicyInv, WithinContract
    <2>7. QED
      BY <1>3, <2>5, <2>6
  <1>4. QED
    BY <1>1, <1>2, <1>3 DEF CorrectionStep

\* RecordCorrection: the record says what happened, of what was committed.
LEMMA RecordKeepsPolicy ==
  ASSUME PolicyInv, RecordCorrection
  PROVE  PolicyInv'
  <1>1. PICK heavy \in {"none", "ok", "queued", "spent", "threw"} :
          LET refused == spc = "committed" /\ heavy \notin {"spent", "threw"}
                           /\ contract.mode # "off" /\ PolicyRefuses(step, change)
              failed == spc = "failed" \/ heavy \in {"spent", "threw"}
                          \/ (refused /\ contract.mode = "enforce")
          IN
          /\ spc = "failed" => heavy = "none"
          /\ record' = [step |-> step, status |-> IF failed THEN "failed" ELSE "completed",
                     category |-> IF failed THEN CategoryOf(spc = "failed", heavy) ELSE "none",
                     change |-> change, committed |-> spc = "committed",
                     refused |-> refused, resized |-> resized, contract |-> contract]
          /\ spc' = IF heavy = "queued" THEN "heavy" ELSE "loop"
    BY DEF RecordCorrection
  <1>2. PICK refused \in BOOLEAN, failed \in BOOLEAN :
          /\ refused <=> /\ spc = "committed" /\ heavy \notin {"spent", "threw"}
                         /\ contract.mode # "off" /\ PolicyRefuses(step, change)
          /\ failed <=> spc = "failed" \/ heavy \in {"spent", "threw"}
                          \/ (refused /\ contract.mode = "enforce")
          /\ record' = [step |-> step, status |-> IF failed THEN "failed" ELSE "completed",
                     category |-> IF failed THEN CategoryOf(spc = "failed", heavy) ELSE "none",
                     change |-> change, committed |-> spc = "committed",
                     refused |-> refused, resized |-> resized, contract |-> contract]
    <2> DEFINE r == spc = "committed" /\ heavy \notin {"spent", "threw"}
                      /\ contract.mode # "off" /\ PolicyRefuses(step, change)
               f == spc = "failed" \/ heavy \in {"spent", "threw"}
                      \/ (r /\ contract.mode = "enforce")
    <2>1. r \in BOOLEAN /\ f \in BOOLEAN
      OBVIOUS
    <2>2. record' = [step |-> step, status |-> IF f THEN "failed" ELSE "completed",
                     category |-> IF f THEN CategoryOf(spc = "failed", heavy) ELSE "none",
                     change |-> change, committed |-> spc = "committed",
                     refused |-> r, resized |-> resized, contract |-> contract]
      BY <1>1
    <2>3. QED
      BY <2>1, <2>2
  <1>3. /\ contract' = contract /\ resized' = resized
        /\ step' = NoStep /\ change' = NoProposal /\ spc' \in {"heavy", "loop"}
        /\ spc \in {"failed", "committed"}
        /\ spc = "failed" => heavy = "none" /\ change = NoProposal
    BY <1>1 DEF RecordCorrection, PolicyInv, PolicyTyped
  <1>4. /\ record'.step = step /\ record'.change = change /\ record'.contract = contract
        /\ record'.status = IF failed THEN "failed" ELSE "completed"
        /\ record'.category = IF failed THEN CategoryOf(spc = "failed", heavy) ELSE "none"
        /\ record'.resized = resized /\ record'.refused = refused
        /\ record'.committed <=> spc = "committed"
    BY <1>2
  <1>5. PolicyTyped'
    <2>1. NoStep \in CorrectionStep /\ NoProposal \in Proposal
      BY DEF CorrectionStep, NoProposal, Proposal
    <2>2. QED
      BY <1>3, <1>4, <2>1 DEF PolicyInv, PolicyTyped
  <1>6. WithinContract(step)' /\ WithinContract(record.step)' /\ PassedChecks'
    BY <1>3, <1>4 DEF PolicyInv, WithinContract, PassedChecks, NoStep
  <1>7. CorrectionsConfined'
    <2>1. record'.committed =>
            /\ change.files \in 1..contract.files /\ change.kb <= contract.kb
            /\ HasMetadata(step) => /\ change.files <= step.constraint.files
                                    /\ change.kb <= step.constraint.kb
                                    /\ change.areas \subseteq step.constraint.areas
      BY <1>4, PolicyAssumption
      DEF PolicyInv, PolicyTyped, PassedChecks, InScope, StagedWithin, ValidStaged, Contract,
          Proposal
    <2>2. record'.status = "completed" /\ contract.mode = "enforce" =>
            /\ HasMetadata(step)
            /\ step.constraint.files <= contract.files /\ step.constraint.kb <= contract.kb
      <3> SUFFICES ASSUME record'.status = "completed", contract.mode = "enforce"
                   PROVE  /\ HasMetadata(step)
                          /\ step.constraint.files <= contract.files
                          /\ step.constraint.kb <= contract.kb
        OBVIOUS
      <3>1. ~failed
        BY <1>4
      <3>2. spc = "committed" /\ heavy \notin {"spent", "threw"} /\ ~refused
        BY <1>2, <1>3, <3>1
      <3>3. ~PolicyRefuses(step, change)
        BY <1>2, <3>2
      <3>4. HasMetadata(step)
        BY <3>3 DEF PolicyRefuses
      <3>5. /\ step.constraint.files \in Nat /\ step.constraint.kb \in Nat
            /\ contract.files \in Nat /\ contract.kb \in Nat
        BY <3>4, CapsAreNumbers DEF PolicyInv
      <3>6. QED
        BY <3>3, <3>4, <3>5 DEF PolicyRefuses
    <2>3. refused => \/ step.from = "plan"
                     \/ resized
                     \/ step.from = "recipe"
                          /\ (step.constraint.files > contract.files
                                \/ step.constraint.kb > contract.kb)
      BY <1>2, RefusalExplained
    <2>4. record'.category = "correction_policy" => refused
      BY <1>2, <1>3, <1>4 DEF CategoryOf
    <2>5. record'.status = "failed" /\ refused =>
            record'.category \in {"correction_policy", "heavy_validation"}
      BY <1>2, <1>3, <1>4 DEF CategoryOf
    <2>6. QED
      BY <1>4, <2>1, <2>2, <2>3, <2>4, <2>5 DEF CorrectionsConfined
  <1>8. QED
    BY <1>5, <1>6, <1>7 DEF PolicyInv

\* Every step of the policy's scene.
LEMMA PolicyStep == PolicyInv /\ [PolicyNext]_policyVars => PolicyInv'
  <1> SUFFICES ASSUME PolicyInv, [PolicyNext]_policyVars PROVE PolicyInv'
    OBVIOUS
  <1>1. CASE UNCHANGED policyVars
    BY <1>1 DEF policyVars, PolicyInv, PolicyTyped, WithinContract, PassedChecks, InScope,
       StagedWithin, ValidStaged, HasMetadata, CorrectionsConfined
  <1>2. QED
    BY <1>1, QueueKeeps, ResumeKeeps, ApplyKeeps, RecordKeepsPolicy DEF PolicyNext

\* What the columns and locals of a correction can hold.
LEMMA PolicyIsTyped == PolicyInv => PolicyTypeOK
  BY DEF PolicyInv, PolicyTyped, PolicyTypeOK, CorrectionStep, CorrectionConstraint, Proposal,
     HasMetadata, NoStep, Named

\* For any caps, proposals and number of corrections and resumes: what is
\* committed is within its constraint and the contract it ran under, and the
\* policy refuses nothing the kernel let pass but for the three known reasons.
THEOREM CorrectionsStayConfined == PolicySpec => [](PolicyTypeOK /\ CorrectionsConfined)
  <1>1. PolicyInv => CorrectionsConfined
    BY DEF PolicyInv
  <1>2. QED
    BY PolicyInitially, PolicyStep, PolicyIsTyped, <1>1, PTL DEF PolicySpec

-----------------------------------------------------------------------------
(* Every part at once.                                                     *)

\* The in-memory workers of the processes.
WorkersTyped ==
  /\ workers \in [Server -> [queued : BOOLEAN, drain : {"idle", "executing", "again", "ended"},
                             resumed : BOOLEAN]]
  /\ driven \in BOOLEAN
  /\ deaths \in 0..MaxDeaths

\* Taking, executing and putting back a key, requests and deaths keep them so.
LEMMA WorkersStayTyped == WorkersTyped /\ [StateRunNext]_stateRunVars => WorkersTyped'
  <1> SUFFICES ASSUME WorkersTyped, [StateRunNext]_stateRunVars PROVE WorkersTyped'
    OBVIOUS
  <1>1. MaxDeaths \in Nat
    BY StateRunsAssumption
  <1>2. ASSUME NEW p \in Server, ServerStep(p)
        PROVE  WorkersTyped'
    <2>1. ASSUME NEW autoStart \in BOOLEAN, CreateRun(p, autoStart)
          PROVE  WorkersTyped'
      BY <2>1 DEF CreateRun, WorkersTyped
    <2>2. CASE TakeKey(p)
      BY <2>2 DEF TakeKey, WorkersTyped
    <2>3. CASE ExecuteKey(p)
      <3>1. PICK d \in {"ended", "again"} : workers' = [workers EXCEPT ![p].drain = d]
        BY <2>3 DEF ExecuteKey
      <3>2. QED
        BY <2>3, <3>1 DEF ExecuteKey, WorkersTyped
    <2>4. CASE Reenqueue(p)
      <3>1. PICK q \in BOOLEAN : workers' = [workers EXCEPT ![p].queued = q, ![p].drain = "idle"]
        BY <2>4 DEF Reenqueue, WorkersTyped
      <3>2. QED
        BY <2>4, <3>1 DEF Reenqueue, WorkersTyped
    <2>5. CASE EnqueueResumed(p)
      BY <2>5 DEF EnqueueResumed, WorkersTyped
    <2>6. CASE ResumeRun(p)
      BY <2>6 DEF ResumeRun, WorkersTyped
    <2>7. CASE ServerDies(p)
      BY <1>1, <2>7 DEF ServerDies, WorkersTyped, Idle
    <2>8. QED
      BY <1>2, <2>1, <2>2, <2>3, <2>4, <2>5, <2>6, <2>7 DEF ServerStep, WorkerStep
  <1>3. CASE UNCHANGED <<workers, driven, deaths>>
    BY <1>3 DEF WorkersTyped
  <1>4. QED
    BY <1>2, <1>3 DEF StateRunNext, Tick, CancelRun, stateRunVars

\* A state-machine run's type invariant, the bound on its rows included.
LEMMA StateRunTyped == StateInv /\ WorkersTyped => StateTypeOK
  <1> SUFFICES ASSUME StateInv, WorkersTyped PROVE StateTypeOK
    OBVIOUS
  <1>1. rows \in Seq(RowType) /\ Len(rows) \in 0..MaxRunSteps
    BY StateRunsAssumption, GoalBounds DEF StateInv, CountersTell
  <1>2. rows \in [1..Len(rows) -> RowType]
    BY <1>1
  <1>3. rows \in BoundedSeq(RowType, MaxRunSteps)
    BY <1>1, <1>2 DEF BoundedSeq, SeqOf
  <1>4. QED
    BY <1>3 DEF StateTypeOK, StateInv, WorkersTyped, RunRow

\* The inductive invariants of the five parts.
ServerInv == StepInv /\ CorrectionInv /\ ServingInv /\ StateInv /\ WorkersTyped /\ PolicyInv

\* No part is at work.
LEMMA ServerInitInv == Init => ServerInv
  <1> SUFFICES ASSUME Init PROVE ServerInv
    OBVIOUS
  <1>1. PolicyInit
    BY DEF Init, PolicyAtRest
  <1>2. StateInv
    BY StateRunStarts DEF Init
  <1>3. WorkersTyped
    <2>1. StateRunInit
      BY DEF Init
    <2>2. Idle \in [queued : BOOLEAN, drain : {"idle", "executing", "again", "ended"},
                    resumed : BOOLEAN]
      BY DEF Idle
    <2>3. deaths \in 0..MaxDeaths
      BY <2>1, StateRunsAssumption DEF StateRunInit
    <2> QED
      BY <2>1, <2>2, <2>3 DEF StateRunInit, WorkersTyped
  <1>4. QED
    BY <1>1, <1>2, <1>3, StepInitInv, CorrectionInitInv, ServingInit, PolicyInitially
       DEF Init, ServerInv

\* A step of the server is a step of one part; the others stand still.
LEMMA ServerNextInv == ServerInv /\ [Next]_vars => ServerInv'
  <1>1. [Next]_vars => /\ [StepNext]_stepVars
                       /\ [CorrectionNext]_correctionVars
                       /\ [DeployNext]_deployVars
                       /\ [StateRunNext]_stateRunVars
                       /\ [PolicyNext]_policyVars
    BY DEF Next, vars
  <1>2. QED
    BY <1>1, StepNextInv, CorrectionNextInv, ServingNext, StateNextInv, WorkersStayTyped,
       PolicyStep DEF ServerInv

\* Whichever part is at work, and however far it goes, the git objects, pointers
\* and worktree of a run, the row and locals of a builder run's correction, the
\* deployments, the state-machine run with its rows and workers, and the
\* correction with its record hold what their columns and fields can hold.
THEOREM ServerIsTyped == Spec => []ServerTypeOK
  <1>1. StepInv => StepTypeOK
    BY StepTyped
  <1>2. CorrectionInv => CorrectionTypeOK
    BY DEF CorrectionInv, RunTyped, CallerTyped, RequestTyped, Retries, CorrectionTypeOK
  <1>3. ServingInv => DeployTypeOK
    BY DEF ServingInv
  <1>4. StateInv /\ WorkersTyped => StateTypeOK
    BY StateRunTyped
  <1>5. PolicyInv => PolicyTypeOK
    BY PolicyIsTyped
  <1>6. ServerInv => ServerTypeOK
    BY <1>1, <1>2, <1>3, <1>4, <1>5 DEF ServerInv, ServerTypeOK
  <1>7. QED
    BY <1>6, ServerInitInv, ServerNextInv, PTL DEF Spec
=============================================================================
