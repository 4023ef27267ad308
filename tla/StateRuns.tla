------------------------------ MODULE StateRuns ------------------------------
(***************************************************************************)
(* One state-machine run (agent/run-service), driven step by step by the   *)
(* in-memory workers of the server's processes (agent/run-worker), and by  *)
(* the ticks, cancels and resumes of clients that reach any process.  A    *)
(* step is one transaction on the locked row; between it and what the      *)
(* process does next, anything may happen.  The set of keys a worker has   *)
(* queued dies with its process.                                           *)
(***************************************************************************)
EXTENDS Naturals, Sequences, SequencesExt, LifecycleGraph

CONSTANTS
  Server,       \* the processes that serve the API
  GoalSteps,    \* AGENT_FAKE_GOAL_STEPS
  MaxRunSteps,  \* bound: the largest max_steps asked for
  MaxRunBudget, \* bound: the largest max_optimizations asked for
  MaxDeaths     \* bound: deaths of a process

ASSUME StateRunsAssumption ==
  /\ GoalSteps \in Nat \ {0}
  /\ MaxRunSteps \in Nat \ {0}
  /\ MaxRunBudget \in Nat
  /\ MaxDeaths \in Nat

VARIABLES
  run,     \* the row: status, phase, counters and the limits it was created with
  rows,    \* its step rows, in the order of their insertion
  workers, \* per process: its set has the run, its drain, a resume still to enqueue
  driven,  \* history: some request asked a worker to run it to its end
  deaths   \* of processes, so far

stateRunVars == <<run, rows, workers, driven, deaths>>

NoRun == [status |-> "absent", phase |-> "goal", stepIndex |-> 0, optimized |-> 0,
          maxSteps |-> 1, maxCorrections |-> 0, maxOptimizations |-> 0]

Idle == [queued |-> FALSE, drain |-> "idle", resumed |-> FALSE]

StateRunInit ==
  /\ run = NoRun
  /\ rows = <<>>
  /\ workers = [p \in Server |-> Idle]
  /\ driven = FALSE
  /\ deaths = 0

\* isActiveAgentRunStatus
ActiveRun == run.status \in RunStatus \ TerminalRunStatus

\* POST state-runs, with autoStart or without.
CreateRun(p, autoStart) ==
  /\ run.status = "absent"
  /\ \E s \in 1..MaxRunSteps, c \in {0, 1}, o \in 0..MaxRunBudget :
       run' = [NoRun EXCEPT !.status = "queued", !.maxSteps = s, !.maxCorrections = c,
                            !.maxOptimizations = o]
  /\ workers' = [workers EXCEPT ![p].queued = autoStart]
  /\ driven' = autoStart
  /\ UNCHANGED <<rows, deaths>>

\* executeNextStep leaves the row alone: no such run, over, or a stale tick.
NotRunnable(expected) ==
  \/ ~ActiveRun
  \/ expected # {} /\ run.stepIndex \notin expected

StartedRow ==
  IF run.status = "queued" THEN [run EXCEPT !.status = "running"] ELSE run

\* validateRunInvariants: correctionsUsed stays 0, nothing increments it.
LimitReached ==
  \/ run.stepIndex >= run.maxSteps
  \/ run.maxCorrections = 0

\* Faulty variant: the budget is overdrawn by one step.
BudgetOverdrawn(r) == r.phase = "optimization" /\ r.optimized > r.maxOptimizations

BudgetUsed(r) == r.phase = "optimization" /\ r.optimized >= r.maxOptimizations

\* normalizeGoalStepsTarget
GoalTarget == IF run.maxSteps < GoalSteps THEN run.maxSteps ELSE GoalSteps

\* One step's updates of the row, up to the check of the optimization budget.
StepTaken ==
  LET r == [StartedRow EXCEPT !.stepIndex = @ + 1,
              !.optimized = IF run.phase = "optimization" THEN @ + 1 ELSE @]
  IN IF r.phase = "goal" /\ r.stepIndex >= GoalTarget
     THEN [r EXCEPT !.phase = "optimization", !.status = "optimizing"]
     ELSE r

CompleteIfDone(r) == IF BudgetUsed(r) THEN [r EXCEPT !.status = "complete"] ELSE r

\* The transaction; expected is {} or the one index a tick names.
ExecuteNextStep(expected) ==
  \/ /\ NotRunnable(expected)
     /\ run' = IF ActiveRun THEN StartedRow ELSE run
     /\ rows' = rows
  \/ /\ ~NotRunnable(expected)
     /\ LimitReached \/ BudgetUsed(run)
     /\ run' = [run EXCEPT !.status = IF LimitReached THEN "failed" ELSE "complete"]
     /\ rows' = rows
  \/ /\ ~(NotRunnable(expected) \/ LimitReached \/ BudgetUsed(run))
     /\ rows' = Append(rows, [index |-> run.stepIndex, type |-> run.phase])
     /\ run' = CompleteIfDone(StepTaken)

\* drain takes the key out before it executes, so that an enqueue in the
\* meantime is not lost ...
TakeKey(p) ==
  /\ workers[p].queued
  /\ workers[p].drain = "idle"
  /\ workers' = [workers EXCEPT ![p].queued = FALSE, ![p].drain = "executing"]
  /\ UNCHANGED <<run, rows, driven, deaths>>

ExecuteKey(p) ==
  /\ workers[p].drain = "executing"
  /\ ExecuteNextStep({})
  /\ workers' = [workers EXCEPT ![p].drain =
                   IF run'.status \in TerminalRunStatus THEN "ended" ELSE "again"]
  /\ UNCHANGED <<driven, deaths>>

\* Faulty variant: the key is set to what the step answered, and a resume's is lost.
ReenqueueByAnswer(p) ==
  /\ workers[p].drain \in {"again", "ended"}
  /\ workers' = [workers EXCEPT ![p].queued = workers[p].drain = "again",
                                ![p].drain = "idle"]
  /\ UNCHANGED <<run, rows, driven, deaths>>

\* ... and puts it back while the run is active.
Reenqueue(p) ==
  /\ workers[p].drain \in {"again", "ended"}
  /\ workers' = [workers EXCEPT ![p].queued = @ \/ workers[p].drain = "again",
                                ![p].drain = "idle"]
  /\ UNCHANGED <<run, rows, driven, deaths>>

\* POST tick: nothing is enqueued, whatever processOnce answers.
Tick(expected) ==
  /\ run.status # "absent"
  /\ ExecuteNextStep(expected)
  /\ UNCHANGED <<workers, driven, deaths>>

\* POST cancel
CancelRun ==
  /\ run.status \in RunStatus
  /\ IsAllowedStateTransition(RunGraph, run.status, "cancelled")
  /\ run' = [run EXCEPT !.status = "cancelled"]
  /\ UNCHANGED <<rows, workers, driven, deaths>>

\* POST resume commits ...
ResumeRun(p) ==
  /\ run.status \in {"cancelled", "failed"}
  /\ ~workers[p].resumed
  /\ run' = [run EXCEPT !.status = "queued"]
  /\ workers' = [workers EXCEPT ![p].resumed = TRUE]
  /\ driven' = TRUE
  /\ UNCHANGED <<rows, deaths>>

\* ... and then enqueues.
EnqueueResumed(p) ==
  /\ workers[p].resumed
  /\ workers' = [workers EXCEPT ![p].queued = TRUE, ![p].resumed = FALSE]
  /\ UNCHANGED <<run, rows, driven, deaths>>

\* A crash, or an error of the database under drain: nothing catches the
\* promise's rejection, which ends a node process.
ServerDies(p) ==
  /\ deaths < MaxDeaths
  /\ workers' = [workers EXCEPT ![p] = Idle]
  /\ deaths' = deaths + 1
  /\ UNCHANGED <<run, rows, driven>>

WorkerStep(p) ==
  \/ TakeKey(p)
  \/ ExecuteKey(p)
  \/ Reenqueue(p)
  \/ EnqueueResumed(p)

ServerStep(p) ==
  \/ \E autoStart \in BOOLEAN : CreateRun(p, autoStart)
  \/ WorkerStep(p)
  \/ ResumeRun(p)
  \/ ServerDies(p)

StateRunNext ==
  \/ \E p \in Server : ServerStep(p)
  \/ \E expected \in {{}} \cup {{i} : i \in 0..MaxRunSteps} : Tick(expected)
  \/ CancelRun

\* A live process runs its drain on, and ends a request it has begun.
StateRunFairness == \A p \in Server : WF_stateRunVars(WorkerStep(p))

StateRunSpec == StateRunInit /\ [][StateRunNext]_stateRunVars /\ StateRunFairness
-----------------------------------------------------------------------------
RowType == [index : 0..MaxRunSteps, type : {"goal", "optimization"}]

\* The row, the workers and the counters are what their columns and fields hold.
StateTypeOK ==
  /\ run \in [status : RunStatus \cup {"absent"}, phase : {"goal", "optimization"},
              stepIndex : 0..MaxRunSteps, optimized : 0..MaxRunBudget,
              maxSteps : 1..MaxRunSteps, maxCorrections : {0, 1},
              maxOptimizations : 0..MaxRunBudget]
  /\ rows \in BoundedSeq(RowType, MaxRunSteps)
  /\ workers \in [Server -> [queued : BOOLEAN, drain : {"idle", "executing", "again", "ended"},
                             resumed : BOOLEAN]]
  /\ driven \in BOOLEAN
  /\ deaths \in 0..MaxDeaths

\* However workers, ticks, cancels and resumes interleave, the step rows are the
\* run's indexes in order, each once; the goal's steps come first and are as
\* many as the target, and what is left was paid from the optimization budget.
StepRowsTellTheRun ==
  /\ \A i \in 1..Len(rows) :
       /\ rows[i].index = i - 1
       /\ rows[i].type = "goal" <=> i <= GoalTarget
  /\ run.stepIndex = Len(rows)
  /\ run.stepIndex <= run.maxSteps
  /\ run.phase = "optimization" <=> Len(rows) >= GoalTarget
  /\ run.optimized = Cardinality({i \in 1..Len(rows) : rows[i].type = "optimization"})
  /\ run.status = "complete" => run.optimized = run.maxOptimizations
  /\ run.optimized <= run.maxOptimizations

\* While no process dies, a run that a worker was asked to drive does not stay
\* active: its key is not lost to a cancel, a resume or a tick that comes while
\* the worker executes it (drain takes the key out first and puts it back last).
DrivenRunEnds == (driven /\ ActiveRun) ~> (run.status \in TerminalRunStatus \/ deaths > 0)
=============================================================================
