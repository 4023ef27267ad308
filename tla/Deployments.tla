----------------------------- MODULE Deployments -----------------------------
(***************************************************************************)
(* The deployments of one project: the requests that check and create one, *)
(* the pipelines the server runs in the background, and the mark that every*)
(* process puts on deployments in progress when it starts.  The rows and   *)
(* the containers outlive the server; the set of projects with a pipeline  *)
(* does not.                                                               *)
(*                                                                         *)
(* Docker and the registry are outside src: a command succeeds or fails.   *)
(* What the request checks of the run (complete, passed, its commit at the *)
(* workspace's HEAD) is left out, as is what the image is built from.      *)
(***************************************************************************)
EXTENDS Naturals, FiniteSets

CONSTANTS
  MaxDeployments, \* bound: deployments of the project, numbered as they come
  MaxDeployFaults \* bound: deaths of the server, starts of other processes that open
                  \* the store, and failed writes of a row, together

ASSUME DeploymentsAssumption ==
  /\ MaxDeployments \in Nat \ {0}
  /\ MaxDeployFaults \in Nat

VARIABLES
  deployments, \* the rows: status and is_active
  pipelines,   \* runDeploymentPipeline, and before it the request, per deployment
  jobs,        \* deploymentJobsByProject has the project
  containers,  \* those running
  server,      \* "up" or "down"
  deployFaults \* crashes and starts of processes, and failed writes, so far

deployVars == <<deployments, pipelines, jobs, containers, server, deployFaults>>

Deployment == 1..MaxDeployments

InProgress == {"queued", "building", "pushing", "launching"}

\* The project is served by its first deployment.
DeployInit ==
  /\ deployments = [d \in Deployment |-> [status |-> IF d = 1 THEN "ready" ELSE "absent",
                                         active |-> d = 1]]
  /\ pipelines = [d \in Deployment |-> [pc |-> IF d = 1 THEN "done" ELSE "none",
                                       previous |-> {}]]
  /\ jobs = FALSE
  /\ containers = {1}
  /\ server = "up"
  /\ deployFaults = [processes |-> 0, writes |-> 0]

DeployFault(kind) ==
  /\ deployFaults.processes + deployFaults.writes < MaxDeployFaults
  /\ deployFaults' = [deployFaults EXCEPT ![kind] = @ + 1]

At(d, pc) == server = "up" /\ pipelines[d].pc = pc

DeployGoto(d, pc) == pipelines' = [pipelines EXCEPT ![d].pc = pc]

SetStatus(d, status) == deployments' = [deployments EXCEPT ![d].status = status]

\* The request, at the set of running pipelines ...
AskDeployment(d) ==
  /\ At(d, "none")
  /\ \A e \in 1..(d - 1) : pipelines[e].pc # "none"
  /\ ~jobs
  /\ DeployGoto(d, "asked")
  /\ UNCHANGED <<deployments, jobs, containers, server, deployFaults>>

\* ... and at hasInProgressDeployment.
CheckInProgress(d) ==
  /\ At(d, "asked")
  /\ DeployGoto(d, IF \E e \in Deployment : deployments[e].status \in InProgress
                   THEN "refused" ELSE "admitted")
  /\ UNCHANGED <<deployments, jobs, containers, server, deployFaults>>

CreateDeployment(d) ==
  /\ At(d, "admitted")
  /\ SetStatus(d, "queued")
  /\ DeployGoto(d, "created")
  /\ UNCHANGED <<jobs, containers, server, deployFaults>>

\* The set learns of the pipeline only after the row's log was written.
StartPipeline(d) ==
  /\ At(d, "created")
  /\ jobs' = TRUE
  /\ DeployGoto(d, "listing")
  /\ UNCHANGED <<deployments, containers, server, deployFaults>>

\* listActiveDeploymentsByProject, used when the new container runs; nothing is
\* stopped when DEPLOY_STOP_PREVIOUS is false.
ListActive(d) ==
  /\ At(d, "listing")
  /\ \E stopped \in {{}, {e \in Deployment \ {d} : deployments[e].active}} :
       pipelines' = [pipelines EXCEPT ![d] = [pc |-> "listed", previous |-> stopped]]
  /\ UNCHANGED <<deployments, jobs, containers, server, deployFaults>>

\* The pipeline's row goes to status when what comes before it is done.
Stage(d, from, status) ==
  /\ At(d, from)
  /\ SetStatus(d, status)
  /\ DeployGoto(d, status)
  /\ UNCHANGED <<jobs, containers, server, deployFaults>>

Build(d) == Stage(d, "listed", "building")
Push(d) == Stage(d, "building", "pushing")
Launch(d) == Stage(d, "pushing", "launching")

\* docker run
RunContainer(d) ==
  /\ At(d, "launching")
  /\ containers' = containers \cup {d}
  /\ DeployGoto(d, "launched")
  /\ UNCHANGED <<deployments, jobs, server, deployFaults>>

Ready(d) == Stage(d, "launched", "ready")

\* Faulty variant: the others are left to the loop that stops them.
ActivateOnly(d) ==
  /\ At(d, "ready")
  /\ deployments' = [deployments EXCEPT ![d].active = TRUE]
  /\ DeployGoto(d, "active")
  /\ UNCHANGED <<jobs, containers, server, deployFaults>>

\* setActiveDeployment: one transaction.
SetActive(d) ==
  /\ At(d, "ready")
  /\ deployments' = [e \in Deployment |-> [deployments[e] EXCEPT !.active = (e = d)]]
  /\ DeployGoto(d, "active")
  /\ UNCHANGED <<jobs, containers, server, deployFaults>>

\* docker rm -f of an earlier container, and its row; a failure of either is
\* logged and the next one is tried.
StopPrevious(d, e) ==
  /\ At(d, "active")
  /\ e \in pipelines[d].previous
  /\ pipelines' = [pipelines EXCEPT ![d].previous = @ \ {e}]
  /\ \/ /\ containers' = containers \ {e}
        /\ \/ deployments' = [deployments EXCEPT ![e].active = FALSE]
           \/ UNCHANGED deployments
     \/ UNCHANGED <<containers, deployments>>
  /\ UNCHANGED <<jobs, server, deployFaults>>

\* A command or a read of the pipeline failed.
FailPipeline(d) ==
  /\ server = "up"
  /\ pipelines[d].pc \in {"listing", "listed", "building", "pushing", "launching"}
  /\ DeployGoto(d, "failing")
  /\ UNCHANGED <<deployments, jobs, containers, server, deployFaults>>

\* A write of the row failed: with the request that created it, with the
\* pipeline, or, the failure's own mark, with nothing but a line in the log.
WriteFails(d) ==
  /\ server = "up"
  /\ pipelines[d].pc \in {"created", "listed", "building", "pushing", "launched", "ready",
                          "failing"}
  /\ DeployFault("writes")
  /\ DeployGoto(d, CASE pipelines[d].pc = "created" -> "done"
                     [] pipelines[d].pc = "failing" -> "finishing"
                     [] OTHER -> "failing")
  /\ UNCHANGED <<deployments, jobs, containers, server>>

MarkFailed(d) ==
  /\ At(d, "failing")
  /\ deployments' = [deployments EXCEPT ![d] = [status |-> "failed", active |-> FALSE]]
  /\ DeployGoto(d, "finishing")
  /\ UNCHANGED <<jobs, containers, server, deployFaults>>

\* The pipeline's finally block.
Finish(d) ==
  /\ \/ At(d, "finishing")
     \/ At(d, "active") /\ pipelines[d].previous = {}
  /\ jobs' = FALSE
  /\ DeployGoto(d, "done")
  /\ UNCHANGED <<deployments, containers, server, deployFaults>>

\* markIncompleteDeploymentsFailed, at the start of any process.
MarkIncomplete ==
  deployments' = [d \in Deployment |->
    IF deployments[d].status \in InProgress THEN [status |-> "failed", active |-> FALSE]
    ELSE deployments[d]]

ServerCrash ==
  /\ server = "up"
  /\ DeployFault("processes")
  /\ server' = "down"
  /\ jobs' = FALSE
  /\ pipelines' = [d \in Deployment |->
       IF pipelines[d].pc \in {"none", "refused"} THEN pipelines[d]
       ELSE [pc |-> "done", previous |-> {}]]
  /\ UNCHANGED <<deployments, containers>>

ServerRestart ==
  /\ server = "down"
  /\ server' = "up"
  /\ MarkIncomplete
  /\ UNCHANGED <<pipelines, jobs, containers, deployFaults>>

\* A worker, a script or the command line opens the store of a running server.
OtherProcessStarts ==
  /\ DeployFault("processes")
  /\ MarkIncomplete
  /\ UNCHANGED <<pipelines, jobs, containers, server>>

\* What a request or a pipeline does next, whichever way it goes.
PipelineStep(d) ==
  \/ CheckInProgress(d) \/ CreateDeployment(d) \/ StartPipeline(d) \/ ListActive(d)
  \/ Build(d) \/ Push(d) \/ Launch(d) \/ RunContainer(d) \/ Ready(d) \/ SetActive(d)
  \/ \E e \in Deployment : StopPrevious(d, e)
  \/ FailPipeline(d) \/ MarkFailed(d) \/ Finish(d)

DeployNext ==
  \/ \E d \in Deployment : AskDeployment(d) \/ PipelineStep(d) \/ WriteFails(d)
  \/ ServerCrash \/ ServerRestart \/ OtherProcessStarts

\* Commands end one way or the other, and a dead server is started again.
DeployFairness ==
  /\ \A d \in Deployment : WF_deployVars(PipelineStep(d))
  /\ WF_deployVars(ServerRestart)

DeploySpec == DeployInit /\ [][DeployNext]_deployVars /\ DeployFairness

-----------------------------------------------------------------------------
DeployTypeOK ==
  /\ deployments \in [Deployment -> [status : InProgress \cup {"absent", "ready", "failed"},
                                     active : BOOLEAN]]
  /\ \A d \in Deployment : pipelines[d].previous \subseteq Deployment \ {d}
  /\ jobs \in BOOLEAN
  /\ containers \subseteq Deployment

Active == {d \in Deployment : deployments[d].active}

\* A project that is served stays served: whatever pipelines run side by side,
\* die or are marked failed under way, no step leaves the project without an
\* active deployment whose container runs, or with two (server.ts:2367,
\* project-store.ts:1732).
ServingKept ==
  [][ /\ Cardinality(Active') <= 1
      /\ Active \cap containers # {} => Active' \cap containers' # {} ]_deployVars

\* A deployment in progress, which bars the project's next one, does not stay
\* so: its pipeline ends it, or the next start of the server does
\* (server.ts:4048, project-store.ts:1759).  Only a failed write of the row can
\* leave it.
DeploymentSettles ==
  \A d \in Deployment :
    deployments[d].status \in InProgress
      ~> deployments[d].status \notin InProgress \/ deployFaults.writes > 0
=============================================================================
