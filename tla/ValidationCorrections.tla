------------------------ MODULE ValidationCorrections ------------------------
(***************************************************************************)
(* What executeWithValidationAutoCorrection does in its second loop with a *)
(* builder run whose execution was complete: validate, classify what       *)
(* failed, choose a correction (a deterministic recipe for imports or the  *)
(* planner's phases, escalated when telemetry says that they stall),       *)
(* append its steps to the plan, execute, and record what became of it.    *)
(* A recipe may materialise a missing module as a stub; the debt is to be  *)
(* paid by the next attempt, and the artifacts have to tell it.            *)
(*                                                                         *)
(* AutoCorrection has the control of the same loop and of the one before   *)
(* it; here are the project, the profile and the telemetry.  A project is  *)
(* what its validation tells apart: the modules that are imported and how, *)
(* and the other faults.                                                   *)
(***************************************************************************)
EXTENDS Naturals, Sequences, FiniteSets

CONSTANTS
  Target,       \* modules some file may import by a relative specifier
  Fault,        \* what may be wrong with a project besides its imports
  Symptom,      \* the failing checks in which a broken import may show
  MaxFaults,    \* bound: faults of a project besides its imports
  MaxAttempts,  \* MAX_VALIDATION_AUTO_CORRECTION_ATTEMPTS
  MaxRetries    \* MAX_PRECOMMIT_INVARIANT_RETRIES_PER_ATTEMPT

ASSUME ValidationCorrectionsAssumption ==
  /\ Symptom \subseteq {"typecheck_failure", "test_failure"}
  /\ MaxFaults \in Nat
  /\ MaxAttempts \in Nat \ {0}
  /\ MaxRetries \in Nat

VARIABLES
  project,   \* the workspace: target -> its module, target -> its import, faults
  builder,   \* the row: status, correctionAttempts, the steps yet to execute
  repair,    \* locals of the loop
  records,   \* learning_events of the run, and the latest debt artifact of a target
  slips      \* ghost: records lost, and steps of refused plans come to later

repairVars == <<project, builder, repair, records, slips>>

\* "placeholder" is what debt resolution puts in the place of a stub.
Module == {"absent", "stub", "placeholder", "real"}

\* How the file that needs a target imports it: not at all, by a specifier that
\* resolves if the module is there, or by one that has to be rewritten.
Import == {"none", "right", "wrong"}

\* The faults that are told apart, and the clusters behind each.
ClustersOf ==
  [missingLayers |-> {"architecture_contract"},
   unknownLayers |-> {"architecture_contract"},
   layers        |-> {"architecture_contract", "layer_boundary_violation"},
   testGap       |-> {"architecture_contract", "test_contract_gap"},
   cycle         |-> {"dependency_cycle"},
   middleware    |-> {"runtime_middleware_api"},
   type          |-> {"typecheck_failure"},
   build         |-> {"build_failure"},
   tests         |-> {"test_failure"},
   other         |-> {}]

FaultSet == {s \in SUBSET Fault : Cardinality(s) <= MaxFaults}

Projects == [module : [Target -> Module], import : [Target -> Import],
             faults : FaultSet]

\* Imports that validation will not find.
Broken(p) == {m \in Target : \/ p.import[m] = "wrong"
                             \/ p.import[m] = "right" /\ p.module[m] = "absent"}

Passes(p) == Broken(p) = {} /\ p.faults = {}
Blocking(p) == Cardinality(Broken(p)) + Cardinality(p.faults)
Stubs(p) == {m \in Target : p.module[m] = "stub"}
-----------------------------------------------------------------------------
(* classifyValidationFailure.                                              *)

NoProfile == [clusters |-> {}, collapse |-> FALSE]

MicroPrimary == {"layer_boundary_violation", "import_resolution_error",
                 "test_contract_gap"}
MicroAuxiliary == {"typecheck_failure", "build_failure", "test_failure"}
Pressure == MicroPrimary \cup {"architecture_contract"}

\* computeArchitectureCollapseScore, with or without eight blocking violations.
CollapseScore(faults, crowded) ==
    (IF "missingLayers" \in faults THEN 2 ELSE 0)
  + (IF "unknownLayers" \in faults THEN 2 ELSE 0)
  + (IF "cycle" \in faults THEN 3 ELSE 0)
  + (IF crowded THEN 2 ELSE 0)

\* The profiles of a failing project.  How a broken import shows is up to the
\* tools: in checks that fail (failing), and as a cluster (seen) if a message
\* says so, which a text about something else may too.
ClustersSeen(p, failing, seen) ==
  UNION {ClustersOf[f] : f \in p.faults}
    \cup (IF Broken(p) = {} THEN {} ELSE failing)
    \cup (IF seen THEN {"import_resolution_error"} ELSE {})

ProfileOf(p, clusters, crowded) ==
  [clusters |-> clusters,
   collapse |-> /\ "architecture_contract" \in clusters
                /\ CollapseScore(p.faults, crowded) >= 3]

Profiles(p) == {ProfileOf(p, ClustersSeen(p, failing, seen), crowded) :
                  failing \in SUBSET Symptom, seen \in BOOLEAN, crowded \in BOOLEAN}

\* deriveLegacyReason is not null; a middleware fault alone has no reason.
Correctable(profile) ==
  profile.clusters \cap {"architecture_contract", "typecheck_failure",
                         "build_failure"} # {}
-----------------------------------------------------------------------------
(* The corrections.  A step is its phase and the targets it is about.      *)

StepOf(phase, targets) == [phase |-> phase, targets |-> targets]

PlannerPhase == {"typecheck_recipe", "build_recipe", "test_recipe", "single",
                 "structural_reset", "feature_reintegration",
                 "micro_targeted_repair"}
RecipePhase == {"stub_recipe", "patch_recipe"}   \* import_resolution_recipe
Phase == PlannerPhase \cup RecipePhase \cup {"debt_resolution"}

\* buildDeterministicImportResolutionPlan, from the imports whose file and
\* specifier could be extracted, of broken ones or of files that are gone: a
\* target that is there has its specifier rewritten, one that is not is written
\* as a stub; if there is a stub to write, the rewrites are dropped.
RecipePlans(p) ==
  { LET absent == {m \in chosen : p.module[m] = "absent"}
    IN  IF absent # {} THEN <<StepOf("stub_recipe", absent)>>
                       ELSE <<StepOf("patch_recipe", chosen)>>
    : chosen \in SUBSET (Broken(p) \cup {m \in Target : p.import[m] = "none"
                                                     /\ p.module[m] = "absent"}) \ {{}} }

IsMicroTargeted(profile) ==
  ~profile.collapse /\ profile.clusters \cap (MicroPrimary \cup MicroAuxiliary) # {}

\* planCorrection, told of a phase to go to (override) or not; scoped says that
\* files to confine a micro-targeted repair to were found.
PlanCorrection(profile, override, scoped) ==
  LET pressed == profile.collapse \/ profile.clusters \cap Pressure # {}
      has(c) == c \in profile.clusters
      phases ==
        IF override = "feature_reintegration" THEN <<"feature_reintegration">>
        ELSE IF ~pressed /\ has("typecheck_failure") THEN <<"typecheck_recipe">>
        ELSE IF ~pressed /\ has("build_failure") THEN <<"build_recipe">>
        ELSE IF ~pressed /\ has("test_failure") THEN <<"test_recipe">>
        ELSE IF profile.collapse THEN <<"structural_reset", "feature_reintegration">>
        ELSE IF profile.clusters \cap MicroPrimary # {} /\ scoped
             THEN <<"micro_targeted_repair">>
        ELSE <<"single">>
  IN  [i \in DOMAIN phases |-> StepOf(phases[i], {})]

\* Faulty variant: one stalled attempt more before the phases escalate.
StallsTwice(sessionStalls) == sessionStalls \/ records.stalls >= 2

\* shouldUseMicroTargetedStallGuardrail: the session's runs stall, or this one.
Stalling(sessionStalls) == sessionStalls \/ records.stalls >= 1

\* resolveMicroTargetedEscalation: to the architecture, or back to the feature.
EscalatesToArchitecture(profile, several) ==
  \/ records.stalls >= 2
  \/ several
  \/ profile.clusters \cap {"layer_boundary_violation", "architecture_contract"} # {}
-----------------------------------------------------------------------------
NoAttempt == [plan |-> <<>>, ran |-> <<>>, before |-> {}, blocking |-> 0]

CorrectionsInit ==
  /\ project \in {p \in Projects : \A m \in Target : p.module[m] \in {"absent", "real"}}
  /\ builder = [status |-> "complete", attempts |-> 0, todo |-> <<>>]
  /\ repair = [pc |-> "validate", profile |-> NoProfile, attempt |-> NoAttempt,
               learned |-> {}, retries |-> 0, missed |-> "none"]
  /\ records = [stalls |-> 0, debt |-> [m \in Target |-> "none"]]
  /\ slips = [lost |-> FALSE, leftover |-> FALSE]

Goto(pc) == repair' = [repair EXCEPT !.pc = pc]

\* validateRunOutput, persistRunValidationSnapshot
Validate ==
  /\ repair.pc = "validate"
  /\ \E profile \in IF Passes(project) THEN {NoProfile} ELSE Profiles(project) :
       repair' = [repair EXCEPT
                    !.pc = IF repair.attempt = NoAttempt THEN "choose" ELSE "learn",
                    !.profile = profile, !.learned = {}]
  /\ UNCHANGED <<project, builder, records, slips>>

\* The phases of the attempt's correction steps, and the metadata of the first.
PhasesRun(attempt) == {attempt.ran[i].phase : i \in DOMAIN attempt.ran}

\* Faulty variant: a stub is recorded once the project passes with it.
StubsPassed(attempt) ==
  IF Passes(project) /\ attempt.ran # <<>> /\ attempt.ran[1].phase = "stub_recipe"
  THEN attempt.ran[1].targets ELSE {}

StubsMade(attempt) ==
  IF attempt.ran # <<>> /\ attempt.ran[1].phase = "stub_recipe"
  THEN attempt.ran[1].targets ELSE {}
DebtTargets(attempt) ==
  IF PhasesRun(attempt) = {"debt_resolution"} THEN attempt.plan[1].targets ELSE {}

\* evaluateDebtResolution: the stub is gone, replaced, or no longer imported.
PaidDown(m) == project.module[m] # "stub" \/ project.import[m] = "none"

\* classifyAttemptOutcome.  An attempt has always run a step.
OutcomeOf(attempt) ==
  LET after == Blocking(project)
      debt == DebtTargets(attempt)
  IN  IF Passes(project)
      THEN IF \E m \in debt : ~PaidDown(m) THEN "stalled" ELSE "success"
      ELSE IF \/ repair.profile.clusters = attempt.before
              \/ after = attempt.blocking
              \/ PhasesRun(attempt) = {"micro_targeted_repair"}
           THEN "stalled"
           ELSE IF after < attempt.blocking THEN "improved" ELSE "regressed"

\* persistLearningTelemetry: the row in the database and the artifacts in the
\* workspace are written one after the other, and either failure is only logged.
Learn ==
  LET attempt == repair.attempt
      outcome == OutcomeOf(attempt)
      stubs == StubsMade(attempt)
      debt == DebtTargets(attempt)
      paid == \A m \in debt : PaidDown(m)
      DebtAfter(m) == IF m \in stubs THEN "open"
                      ELSE IF m \in debt THEN IF paid THEN "closed" ELSE "open"
                      ELSE records.debt[m]
      stalledMicro == /\ PhasesRun(attempt) = {"micro_targeted_repair"}
                      /\ outcome = "stalled"
  IN
  /\ repair.pc = "learn"
  /\ \E row \in BOOLEAN, files \in BOOLEAN :
       /\ records' = [stalls |-> IF ~row THEN records.stalls
                                 ELSE IF stalledMicro THEN records.stalls + 1 ELSE 0,
                      debt |-> IF files THEN [m \in Target |-> DebtAfter(m)]
                                        ELSE records.debt]
       /\ slips' = [slips EXCEPT !.lost = @ \/ ~row \/ ~files]
  /\ repair' = [repair EXCEPT
                  !.pc = "choose", !.attempt = NoAttempt,
                  !.learned = IF outcome = "success" THEN stubs ELSE {},
                  !.missed = IF /\ attempt.plan[1].phase = "micro_targeted_repair"
                                /\ ~Passes(project)
                             THEN "micro" ELSE "none"]
  /\ UNCHANGED <<project, builder>>

\* The steps are appended to the plan and executeLoop is entered.
Queue(plan) ==
  /\ builder' = [builder EXCEPT !.status = "running", !.todo = @ \o plan]
  /\ repair' = [repair EXCEPT !.pc = "execute", !.profile = NoProfile, !.learned = {},
                  !.attempt = [plan |-> plan, ran |-> <<>>,
                               before |-> repair.profile.clusters,
                               blocking |-> Blocking(project)]]

\* provisionally_fixed, with an attempt left.
ResolveDebt ==
  /\ repair.pc = "choose"
  /\ Passes(project)
  /\ repair.learned # {}
  /\ builder.attempts < MaxAttempts
  /\ Queue(<<StepOf("debt_resolution", repair.learned)>>)
  /\ UNCHANGED <<project, records, slips>>

\* Passed without debt to resolve, not correctable, out of attempts, or the
\* planner has no plan: it throws, or has no step.
HandBack ==
  /\ repair.pc = "choose"
  /\ Passes(project) => repair.learned = {} \/ builder.attempts >= MaxAttempts
  /\ Goto("returned")
  /\ UNCHANGED <<project, builder, records, slips>>

MayCorrect ==
  /\ repair.pc = "choose"
  /\ ~Passes(project)
  /\ Correctable(repair.profile)
  /\ builder.attempts < MaxAttempts

\* The recipe finds something to do.
ApplyRecipe ==
  /\ MayCorrect
  /\ "import_resolution_error" \in repair.profile.clusters
  /\ \E plan \in RecipePlans(project) : Queue(plan)
  /\ UNCHANGED <<project, records, slips>>

\* It does not (nothing could be extracted, its source is gone, a declaration
\* file answers for the target), or asking for the record of recent imports
\* fails.  If that record is bad, the planner is told of a collapse; if
\* micro-targeted attempts stall, it is told to escalate, unless that query
\* fails.
AskPlanner ==
  /\ MayCorrect
  /\ \E unstable, sessionStalls, asked, several, scoped \in BOOLEAN :
       LET profile == [repair.profile EXCEPT
                         !.collapse = @ \/ /\ unstable
                                           /\ "import_resolution_error"
                                                \in repair.profile.clusters]
           escalates == IsMicroTargeted(profile) /\ asked /\ Stalling(sessionStalls)
           rebuilds == escalates /\ EscalatesToArchitecture(profile, several)
       IN  /\ Queue(PlanCorrection(
                      [profile EXCEPT !.collapse = @ \/ rebuilds],
                      IF escalates /\ ~rebuilds THEN "feature_reintegration"
                                                ELSE "none",
                      scoped))
           /\ slips' = [slips EXCEPT !.lost = @ \/ ~asked]
  /\ UNCHANGED <<project, records>>
-----------------------------------------------------------------------------
(* executeLoop over the steps that are left in the plan.                   *)

\* What the project is after a step.  The planner's may do anything but write
\* the kernel's own stubs and placeholders.
Outcomes(step) ==
  CASE step.phase = "stub_recipe" ->
         {[project EXCEPT !.module = [m \in Target |->
             IF m \in step.targets THEN "stub" ELSE @[m]]]}
    [] step.phase = "debt_resolution" ->
         {[project EXCEPT !.module = [m \in Target |->
             IF m \in step.targets THEN "placeholder" ELSE @[m]]]}
    [] step.phase = "patch_recipe" ->
         {[project EXCEPT !.import = [m \in Target |->
             IF m \in step.targets THEN "right" ELSE @[m]]]}
    [] OTHER ->
         {p \in Projects : \A m \in Target :
             p.module[m] \in {"absent", "real", project.module[m]}}

Ran(step) == [repair.attempt EXCEPT !.ran = Append(@, step)]

\* The step that is next was left in the plan by an attempt that was refused.
IsLeftover == Len(builder.todo) > Len(repair.attempt.plan)

ExecuteStep ==
  /\ repair.pc = "execute"
  /\ builder.todo # <<>>
  /\ project' \in Outcomes(Head(builder.todo))
  /\ builder' = [builder EXCEPT !.todo = Tail(@)]
  /\ repair' = [repair EXCEPT !.attempt = Ran(Head(builder.todo))]
  /\ slips' = [slips EXCEPT !.leftover = @ \/ IsLeftover]
  /\ UNCHANGED records

\* A step that fails, before its commit or (by the correction policy) after it.
StepFails ==
  /\ repair.pc = "execute"
  /\ builder.todo # <<>>
  /\ project' \in Outcomes(Head(builder.todo)) \cup {project}
  /\ builder' = [builder EXCEPT !.status = "failed", !.todo = <<>>]
  /\ Goto("returned")
  /\ UNCHANGED <<records, slips>>

\* A step of the planner is refused by the precommit invariants.  With a retry
\* left the run is complete again, unless debt was being resolved, and what
\* follows the refused step stays in the plan, to be executed before the steps
\* of the next correction.
StepRefused ==
  /\ repair.pc = "execute"
  /\ builder.todo # <<>>
  /\ Head(builder.todo).phase \in PlannerPhase
  /\ IF repair.retries < MaxRetries /\ repair.attempt.plan[1].phase # "debt_resolution"
     THEN /\ builder' = [builder EXCEPT !.status = "complete", !.todo = Tail(@)]
          /\ repair' = [repair EXCEPT !.pc = "validate", !.retries = @ + 1,
                          !.attempt = Ran(Head(builder.todo))]
     ELSE /\ builder' = [builder EXCEPT !.status = "failed", !.todo = <<>>]
          /\ Goto("returned")
  /\ slips' = [slips EXCEPT !.leftover = @ \/ IsLeftover]
  /\ UNCHANGED <<project, records>>

\* The execution is complete: the attempt is counted.
CountAttempt ==
  /\ repair.pc = "execute"
  /\ builder.todo = <<>>
  /\ builder' = [builder EXCEPT !.status = "complete", !.attempts = @ + 1]
  /\ repair' = [repair EXCEPT !.pc = "validate", !.retries = 0]
  /\ UNCHANGED <<project, records, slips>>

\* An exception or the death of the process.
CorrectionsThrow ==
  /\ repair.pc # "returned"
  /\ Goto("thrown")
  /\ UNCHANGED <<project, builder, records, slips>>

CorrectionsNext ==
  \/ Validate \/ Learn \/ ResolveDebt \/ HandBack \/ ApplyRecipe \/ AskPlanner
  \/ ExecuteStep \/ StepFails \/ StepRefused \/ CountAttempt \/ CorrectionsThrow

CorrectionsSpec == CorrectionsInit /\ [][CorrectionsNext]_repairVars
-----------------------------------------------------------------------------
CorrectionsTypeOK ==
  /\ project \in Projects
  /\ builder.status \in {"running", "complete", "failed"}
  /\ builder.attempts \in 0..MaxAttempts
  /\ \A i \in DOMAIN builder.todo : builder.todo[i] \in [phase : Phase, targets : SUBSET Target]
  /\ repair.retries \in 0..MaxRetries
  /\ records.debt \in [Target -> {"none", "open", "closed"}]

\* The run is handed back to the request that executes it, complete.
HandedBack == repair.pc = "returned" /\ builder.status = "complete"

DebtTold == \A m \in Stubs(project) : records.debt[m] = "open"

\* The debt of stubs (kernel.ts:1672-1793, 2699-2880, 4640-4720).  No artifact
\* says that a debt is closed while its stub is there, whatever retries and
\* later corrections came between; and when a run is handed back complete,
\* every stub that is left in it is told by an artifact, from which the
\* readiness check will read it, unless a write was lost or the leftover step
\* of a refused plan came before the recipe's.
StubDebtKept ==
  /\ \A m \in Target : records.debt[m] = "closed" => project.module[m] # "stub"
  /\ HandedBack /\ ~slips.lost /\ ~slips.leftover => DebtTold

\* A correction that stalls is not tried again (kernel.ts:1286-1367,
\* 4863-4900).  A micro-targeted repair after which validation still fails, by
\* being refused or without avail, is followed by an attempt of another phase,
\* unless the record of the stall was lost or does not tell its phase.
StallsEscalate ==
  /\ repair.pc = "execute"
  /\ repair.missed = "micro"
  /\ repair.attempt.plan[1].phase = "micro_targeted_repair"
  => slips.lost \/ slips.leftover
=============================================================================
