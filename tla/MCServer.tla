------------------------------ MODULE MCServer ------------------------------
(***************************************************************************)
(* Five parts of the server's work that share no state with each other:    *)
(* one step transaction of the kernel, the auto-correction of a builder    *)
(* run, the deployments of a project, a state-machine run, and the policy  *)
(* on correction steps.  A behaviour is about one of them (scene).         *)
(***************************************************************************)
EXTENDS StepTransaction, AutoCorrection, Deployments, StateRuns, CorrectionPolicy

VARIABLE scene

vars == <<stepVars, correctionVars, deployVars, stateRunVars, policyVars, scene>>

\* The policy's variables as one contract leaves them when nothing is corrected.
PolicyAtRest ==
  /\ contract = CHOOSE c \in Contract : TRUE
  /\ PolicyInit

Init ==
  /\ StepInit /\ CorrectionInit /\ DeployInit /\ StateRunInit
  /\ \/ scene = "policy" /\ PolicyInit
     \/ scene \in {"step", "correction", "deployment", "state run"} /\ PolicyAtRest

Next ==
  /\ UNCHANGED scene
  /\ \/ /\ scene = "step"
        /\ StepNext
        /\ UNCHANGED <<correctionVars, deployVars, stateRunVars, policyVars>>
     \/ /\ scene = "correction"
        /\ CorrectionNext
        /\ UNCHANGED <<stepVars, deployVars, stateRunVars, policyVars>>
     \/ /\ scene = "deployment"
        /\ DeployNext
        /\ UNCHANGED <<stepVars, correctionVars, stateRunVars, policyVars>>
     \/ /\ scene = "state run"
        /\ StateRunNext
        /\ UNCHANGED <<stepVars, correctionVars, deployVars, policyVars>>
     \/ /\ scene = "policy"
        /\ PolicyNext
        /\ UNCHANGED <<stepVars, correctionVars, deployVars, stateRunVars>>

\* Each part keeps the fairness of its own specification, in its own scene.
Fairness ==
  /\ \A d \in Deployment : WF_deployVars(scene = "deployment" /\ PipelineStep(d))
  /\ WF_deployVars(scene = "deployment" /\ ServerRestart)
  /\ \A p \in Server : WF_stateRunVars(scene = "state run" /\ WorkerStep(p))

Spec == Init /\ [][Next]_vars /\ Fairness
-----------------------------------------------------------------------------
\* Every variable of the five parts holds what its column, field or git object
\* can hold.
ServerTypeOK ==
  /\ StepTypeOK
  /\ CorrectionTypeOK
  /\ DeployTypeOK
  /\ StateTypeOK
  /\ PolicyTypeOK

\* No pipeline and no driven run is left under way: deployments become active or
\* failed, and a state-machine run that a worker was given ends.
ServerSettles == DeploymentSettles /\ DrivenRunEnds
=============================================================================
