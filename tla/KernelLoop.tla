------------------------------ MODULE KernelLoop ------------------------------
(***************************************************************************)
(* AgentKernel.executeLoop from the inside: one run, one executor (that it *)
(* is the only one is RunExecution's business), the plan it walks, the     *)
(* correction steps it splices into that plan, the validation of the last  *)
(* step, and what is left when the process dies and the run is entered     *)
(* again.                                                                  *)
(*                                                                         *)
(* A plan is the sequence of its steps' kinds.  Commits and worktrees are  *)
(* abstracted to two facts: whether anything was committed since the last  *)
(* passing validation, and how the last preview went.  The branch for      *)
(* errors that say "tool input validation failed" is left out: no code     *)
(* raises such an error.                                                   *)
(***************************************************************************)
EXTENDS Naturals, Sequences, FiniteSets, LifecycleGraph

CONSTANTS
  BaseLen,       \* bound: steps in a plan as the planner made it
  MaxBlocking,   \* bound: blocking violations a heavy validation counts
  MaxReentries,  \* bound: crashes, thrown errors and resumes together
  Signature,     \* runtime failures that can be told apart
  Budget         \* allowed values of the two correction limits

ASSUME KernelLoopAssumption ==
  /\ BaseLen \in Nat \ {0}
  /\ MaxBlocking \in Nat \ {0}
  /\ MaxReentries \in Nat
  /\ Budget \subseteq Nat

VARIABLES
  config,    \* AgentRunExecutionConfig, fixed for the run
  run,       \* the row: status, current_step_index and plan
  loop,      \* executeLoop's local variables
  validated, \* ghost: nothing was committed since the last passing validation
  preview,   \* ghost: how the last preview went
  reentries

vars == <<config, run, loop, validated, preview, reentries>>

None == "none"

Correction == {"runtimeFix", "heavyFix"}

Kind == {"modify", "preview"} \cup Correction

Config == [maxRuntime  : Budget,
           maxHeavy    : Budget,
           heavy       : BOOLEAN,                    \* heavyValidationMode # off
           convergence : {"off", "warn", "enforce"}, \* warn and off differ in wording
           policy      : {"warn", "enforce"}]

\* Locals of a process that is not executing the run.
Outside == [pc |-> "outside", i |-> 0, runtimeCount |-> 0, heavyCount |-> 0,
            signature |-> None, blocking |-> 0, status |-> "completed",
            rollback |-> FALSE, queueHeavy |-> FALSE]

\* countRuntimeCorrectionSteps, countHeavyCorrectionSteps
CountOf(plan, kind) == Cardinality({i \in DOMAIN plan : plan[i] = kind})

\* Faulty variant: corrections are counted from zero in every execution.
CountedAgain(plan, kind) == 0

\* What a new execution takes for the corrections already made.
CountAtEntry(plan, kind) == CountOf(plan, kind)

Step == run.plan[loop.i + 1]

\* doneCandidate
IsLast(i, plan) == i + 1 >= Len(plan)

\* Faulty variant: the new steps go into a copy of the plan.
SpliceLost(plan, i, steps) == plan

\* plan.steps.splice(stepIndex + 1, 0, ...steps)
SpliceAfter(plan, i, steps) ==
  SubSeq(plan, 1, i + 1) \o steps \o SubSeq(plan, i + 2, Len(plan))

-----------------------------------------------------------------------------
Init ==
  /\ config \in Config
  /\ \E n \in 1..BaseLen : \E plan \in [1..n -> {"modify", "preview"}] :
       run = [status |-> "queued", index |-> 0, plan |-> plan]
  /\ loop = Outside
  /\ validated = FALSE
  /\ preview = None
  /\ reentries = 0

\* executeLoop up to its first iteration: the corrections of earlier executions
\* are counted in the plan.
BeginLoop ==
  /\ loop.pc = "outside"
  /\ run' = [run EXCEPT !.status = "running"]
  /\ loop' = [Outside EXCEPT !.pc = "top", !.i = run.index,
                !.runtimeCount = CountAtEntry(run.plan, "runtimeFix"),
                !.heavyCount   = CountAtEntry(run.plan, "heavyFix")]
  /\ UNCHANGED <<config, validated, preview>>

\* executeRunJob hands a complete run back; any other is entered, whatever an
\* earlier execution left in its status.
Enter ==
  /\ run.status \notin {"complete", "failed"}
  /\ BeginLoop
  /\ UNCHANGED reentries

\* A correction or other mutating step: committed, finished without a change
\* (an error in a correction step), or failed and aborted.
ExecuteMutation ==
  /\ loop.pc = "top"
  /\ loop.i < Len(run.plan)
  /\ Step # "preview"
  /\ \/ /\ loop' = [loop EXCEPT !.pc = "validate", !.status = "completed"]
        /\ validated' = FALSE
     \/ /\ Step = "modify"
        /\ loop' = [loop EXCEPT !.pc = "validate", !.status = "completed"]
        /\ UNCHANGED validated
     \/ /\ loop' = [loop EXCEPT !.pc = "validate", !.status = "failed"]
        /\ UNCHANGED validated
  /\ UNCHANGED <<config, run, preview, reentries>>

\* run_preview_container and its verdict.  A failure signature seen again after
\* a correction is a failure to converge.
ExecutePreview ==
  /\ loop.pc = "top"
  /\ loop.i < Len(run.plan)
  /\ Step = "preview"
  /\ \/ /\ loop' = [loop EXCEPT !.pc = "validate", !.status = "completed",
                                !.signature = None]
        /\ preview' = "healthy"
     \/ /\ \E s \in Signature :
             loop' = [loop EXCEPT !.pc = "validate", !.status = "failed",
                        !.signature = s,
                        !.rollback = /\ loop.runtimeCount > 0
                                     /\ loop.signature = s
                                     /\ config.convergence = "enforce"]
        /\ preview' = "failed"
  /\ UNCHANGED <<config, run, validated, reentries>>

\* Only the last step of the plan as it stands is validated.
NeedsValidation ==
  loop.status = "completed" /\ IsLast(loop.i, run.plan) /\ config.heavy

BeginValidation ==
  /\ loop.pc = "validate"
  /\ IF NeedsValidation
     THEN /\ run' = [run EXCEPT !.status = "validating"]
          /\ loop' = [loop EXCEPT !.pc = "validating"]
     ELSE /\ loop' = [loop EXCEPT !.pc = "record"]
          /\ UNCHANGED run
  /\ UNCHANGED <<config, validated, preview, reentries>>

ValidationPasses ==
  /\ loop.pc = "validating"
  /\ loop' = [loop EXCEPT !.pc = "record", !.blocking = 0]
  /\ validated' = TRUE
  /\ UNCHANGED <<config, run, preview, reentries>>

\* b blocking violations: no fewer than last time may count as a failure to
\* converge; otherwise a correction is due, if the budget has one left.
ValidationFails(b) ==
  LET diverges == /\ loop.blocking > 0
                  /\ b >= loop.blocking
                  /\ config.convergence = "enforce"
      due == ~diverges /\ loop.heavyCount < config.maxHeavy
  IN
  /\ loop.pc = "validating"
  /\ loop' = [loop EXCEPT !.pc = "record", !.blocking = b, !.queueHeavy = due,
                          !.status = IF due THEN "completed" ELSE "failed",
                          !.rollback = ~due]
  /\ UNCHANGED <<config, run, validated, preview, reentries>>

\* Faulty variant: a validation that could not run counts as passed.
ValidationSkipped ==
  /\ loop.pc = "validating"
  /\ loop' = [loop EXCEPT !.pc = "record"]
  /\ UNCHANGED <<config, run, validated, preview, reentries>>

ValidationThrows ==
  /\ loop.pc = "validating"
  /\ loop' = [loop EXCEPT !.pc = "record", !.status = "failed", !.rollback = TRUE]
  /\ UNCHANGED <<config, run, validated, preview, reentries>>

\* evaluateCorrectionPolicy, then createAgentStep.
Record ==
  /\ loop.pc = "record"
  /\ \/ loop' = [loop EXCEPT !.pc = "route"]
     \/ /\ Step \in Correction
        /\ config.policy = "enforce"
        /\ loop.status = "completed"
        /\ loop' = [loop EXCEPT !.pc = "route", !.status = "failed", !.rollback = TRUE]
  /\ UNCHANGED <<config, run, validated, preview, reentries>>

-----------------------------------------------------------------------------
\* Faulty variant: continue moves the index, and so does the loop header.
SkipStep(runtimeCount, heavyCount) ==
  loop' = [Outside EXCEPT !.pc = "top", !.i = loop.i + 2,
             !.runtimeCount = runtimeCount, !.heavyCount = heavyCount,
             !.signature = loop.signature, !.blocking = loop.blocking]

\* The next iteration starts with fresh per-step variables.
NextStep(runtimeCount, heavyCount) ==
  loop' = [Outside EXCEPT !.pc = "top", !.i = loop.i + 1,
             !.runtimeCount = runtimeCount, !.heavyCount = heavyCount,
             !.signature = loop.signature, !.blocking = loop.blocking]

Return(status) ==
  /\ run' = [run EXCEPT !.status = status, !.index = loop.i]
  /\ loop' = Outside

\* Comes first, and so overrides whatever the correction policy decided.
HeavyCorrectionDue == loop.queueHeavy

\* A failed preview, or a healthy one whose validation failed: the reason to
\* roll back is not asked for.
RuntimeCorrectionDue ==
  /\ ~HeavyCorrectionDue
  /\ loop.status = "failed"
  /\ Step = "preview"
  /\ loop.runtimeCount < config.maxRuntime

QueueHeavyCorrection ==
  /\ loop.pc = "route"
  /\ HeavyCorrectionDue
  /\ run' = [status |-> "optimizing", index |-> loop.i + 1,
             plan |-> SpliceAfter(run.plan, loop.i, <<"heavyFix">>)]
  /\ NextStep(loop.runtimeCount, loop.heavyCount + 1)
  /\ UNCHANGED <<config, validated, preview, reentries>>

QueueRuntimeCorrection ==
  /\ loop.pc = "route"
  /\ RuntimeCorrectionDue
  /\ run' = [status |-> "correcting", index |-> loop.i + 1,
             plan |-> SpliceAfter(run.plan, loop.i, <<"runtimeFix", "preview">>)]
  /\ NextStep(loop.runtimeCount + 1, loop.heavyCount)
  /\ UNCHANGED <<config, validated, preview, reentries>>

\* The planner fails to plan the correction that is due.
CorrectionPlanningFails ==
  /\ loop.pc = "route"
  /\ HeavyCorrectionDue \/ RuntimeCorrectionDue
  /\ Return("failed")
  /\ UNCHANGED <<config, validated, preview, reentries>>

\* Rolled back to the last valid commit if there is a reason to; that commit is
\* the current one, so it discards nothing a step committed.
FailRun ==
  /\ loop.pc = "route"
  /\ ~HeavyCorrectionDue
  /\ ~RuntimeCorrectionDue
  /\ loop.status = "failed"
  /\ Return("failed")
  /\ UNCHANGED <<config, validated, preview, reentries>>

\* evaluateImplementationDelivery: the goal asked for a change and the records
\* show none, nor a proof that none was needed; when that is so is left open.
FailDelivery ==
  /\ loop.pc = "route"
  /\ ~HeavyCorrectionDue
  /\ loop.status = "completed"
  /\ IsLast(loop.i, run.plan)
  /\ Return("failed")
  /\ UNCHANGED <<config, validated, preview, reentries>>

\* Faulty variant: the loop repeats the step it has just done.
AdvanceStuck ==
  /\ loop.pc = "route"
  /\ ~HeavyCorrectionDue
  /\ loop.status = "completed"
  /\ loop' = [loop EXCEPT !.pc = "top"]
  /\ UNCHANGED <<config, run, validated, preview, reentries>>

Advance ==
  /\ loop.pc = "route"
  /\ ~HeavyCorrectionDue
  /\ loop.status = "completed"
  /\ run' = [run EXCEPT !.index = loop.i + 1,
               !.status = IF IsLast(loop.i, run.plan) THEN "complete" ELSE "running"]
  /\ NextStep(loop.runtimeCount, loop.heavyCount)
  /\ UNCHANGED <<config, validated, preview, reentries>>

\* The loop condition fails.
Leave ==
  /\ loop.pc = "top"
  /\ loop.i >= Len(run.plan)
  /\ loop' = Outside
  /\ UNCHANGED <<config, run, validated, preview, reentries>>

-----------------------------------------------------------------------------
Reentry == reentries < MaxReentries /\ reentries' = reentries + 1

\* The process dies; the row keeps the status of the moment.
Crash ==
  /\ loop.pc # "outside"
  /\ Reentry
  /\ loop' = Outside
  /\ UNCHANGED <<config, run, validated, preview>>

\* A write or git call outside the step transaction throws: the worker marks
\* the run failed unless it has ended.
Throw ==
  /\ loop.pc # "outside"
  /\ Reentry
  /\ loop' = Outside
  /\ run' = [run EXCEPT !.status = IF @ \in TerminalRunStatus THEN @ ELSE "failed"]
  /\ UNCHANGED <<config, validated, preview>>

\* A worker died after it had failed the run and before it had settled the job:
\* the reclaimed job executes the failed run again.
EnterFailed ==
  /\ run.status = "failed"
  /\ Reentry
  /\ BeginLoop

\* queueResumeRun after the run has failed.
Resume ==
  /\ loop.pc = "outside"
  /\ run.status = "failed"
  /\ Reentry
  /\ run' = [run EXCEPT !.status = "queued"]
  /\ UNCHANGED <<config, loop, validated, preview>>

Iteration ==
  \/ ExecuteMutation
  \/ ExecutePreview
  \/ BeginValidation
  \/ ValidationPasses
  \/ \E b \in 1..MaxBlocking : ValidationFails(b)
  \/ ValidationThrows
  \/ Record
  \/ QueueHeavyCorrection
  \/ QueueRuntimeCorrection
  \/ CorrectionPlanningFails
  \/ FailRun
  \/ FailDelivery
  \/ Advance
  \/ Leave

Next == Enter \/ Iteration \/ Crash \/ Throw \/ EnterFailed \/ Resume

\* A claimed run is entered and its loop keeps running while its process lives.
Spec == Init /\ [][Next]_vars /\ WF_vars(Enter) /\ WF_vars(Iteration)

-----------------------------------------------------------------------------
\* The row and the locals hold what the code can put there; the index never
\* passes the end of the plan.
TypeOK ==
  /\ config \in Config
  /\ run.status \in RunStatus
  /\ run.plan \in Seq(Kind)
  /\ run.index \in 0..Len(run.plan)
  /\ loop.pc \in {"outside", "top", "validate", "validating", "record", "route"}
  /\ loop.pc # "outside" => loop.i \in 0..Len(run.plan)
  /\ loop.status \in {"completed", "failed"}
  /\ validated \in BOOLEAN
  /\ preview \in {None, "healthy", "failed"}

\* Over all executions of a run, crashes and resumes included, no more
\* corrections enter its plan than the contract it was created with allows.
CorrectionsWithinBudget ==
  /\ CountOf(run.plan, "runtimeFix") <= config.maxRuntime
  /\ CountOf(run.plan, "heavyFix") <= config.maxHeavy

\* With heavy validation on, a complete run passed it, and nothing was committed
\* afterwards.  No run completes on a preview that failed: whatever was spliced
\* in after it, in whichever execution, ended in one that was healthy.  And an
\* execution that returns by itself leaves a run that has ended, not one in the
\* middle of a correction (kernel.ts executeLoop, validating to record).
EndsValidated ==
  /\ [](run.status = "complete" => (config.heavy => validated) /\ preview # "failed")
  /\ [][loop.pc # "outside" /\ loop'.pc = "outside" /\ UNCHANGED reentries
          => run'.status \in {"complete", "failed"}]_vars

\* Corrections of corrections come to an end: every execution ends the run,
\* once the process stops dying under it.
LoopTerminates == <>[](run.status \in {"complete", "failed"})
=============================================================================
