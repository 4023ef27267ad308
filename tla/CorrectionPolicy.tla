--------------------------- MODULE CorrectionPolicy ---------------------------
(***************************************************************************)
(* One correction step of a run after the other: how the failure it is for *)
(* is classified (agent/correction, validation/failure-parser.ts), what    *)
(* the correction may then change, and who holds it to that: the kernel    *)
(* before the commit, the validator of staged changes, and the policy on   *)
(* the recorded step.  KernelLoop has the loop around it and takes the     *)
(* outcome of such a step as given.                                        *)
(*                                                                         *)
(* Sizes are in thousands of bytes.                                        *)
(***************************************************************************)
EXTENDS Naturals, FiniteSets

CONSTANTS
  CapFiles, CapKb, \* caps that contracts may set
  Count, Kb,  \* numbers of files and diff sizes that a tool may propose
  Touched,    \* sets of areas that it may touch
  MaxQueued,  \* bound: corrections that are queued
  MaxResumes  \* bound: resumes under another contract

\* The bounds of a contract's schema (execution-contract.ts); sizes are numbers.
ASSUME PolicyAssumption ==
  /\ CapFiles \subseteq 1..100
  /\ CapKb \subseteq Nat \ {0}
  /\ Count \subseteq Nat
  /\ Kb \subseteq Nat

VARIABLES
  contract, \* in force
  step,     \* the correction that is next in the plan, or NoStep
  change,   \* what its tool proposed, as far as it has got
  spc,      \* the next statement
  record,   \* the correction recorded last
  queued, resumes,   \* counters
  resized   \* ghost: the contract was replaced since the step was queued

policyVars == <<contract, step, change, spc, record, queued, resumes, resized>>

Contract == [files : CapFiles, kb : CapKb, mode : {"off", "warn", "enforce"}]
-----------------------------------------------------------------------------
(* Classification.                                                         *)

Intent == {"runtime_boot", "runtime_health", "typescript_compile",
           "test_failure", "migration_failure", "architecture_violation",
           "security_baseline", "unknown"}

\* Checks of heavy validation; those that run a command, with the kind of
\* failure that parseCommandFailures reads from their output.
CommandCheck == {"install", "migration", "typecheck", "tests", "boot"}
Check == CommandCheck \cup {"architecture", "production_config"}
KindOf == [install |-> "dependency", migration |-> "migration",
           typecheck |-> "typescript", tests |-> "test", boot |-> "boot"]

\* Output that nothing can be read from is of unknown kind; none is no failure.
FailureKinds(read) ==
  {IF read[c] = "read" THEN KindOf[c] ELSE "unknown" :
     c \in {d \in DOMAIN read : read[d] # "silent"}}

\* chooseIntent.  Heavy validation's report is passed on only if it holds a
\* failure, and those come from commands alone.
ChooseIntent(phase, checks, kinds, logs) ==
  LET named == IF kinds = {} THEN {} ELSE checks
      OfKinds ==
        CASE "migration" \in kinds  -> "migration_failure"
          [] "migration" \notin kinds /\ "typescript" \in kinds -> "typescript_compile"
          [] kinds \cap {"migration", "typescript"} = {} /\ "test" \in kinds -> "test_failure"
          [] OTHER -> IF logs = "health" THEN "runtime_health"
                      ELSE IF logs = "boot" \/ "boot" \in kinds THEN "runtime_boot"
                      ELSE "unknown"
  IN  IF phase = "optimization" /\ "architecture" \in named THEN "architecture_violation"
      ELSE IF phase = "optimization" /\ "production_config" \in named THEN "security_baseline"
      ELSE OfKinds

\* buildConstraint: an intent's caps and where it may change the project.
FilesOf == [runtime_boot |-> 6, runtime_health |-> 6, typescript_compile |-> 8,
            test_failure |-> 8, migration_failure |-> 6,
            architecture_violation |-> 12, security_baseline |-> 10, unknown |-> 5]
KbOf == [runtime_boot |-> 120, runtime_health |-> 120, typescript_compile |-> 160,
         test_failure |-> 160, migration_failure |-> 140,
         architecture_violation |-> 220, security_baseline |-> 180, unknown |-> 100]

\* Areas of a project: "source" is what lies in src/ itself, "env" is .env.
Src == {"modules", "config", "db", "source"}
Area == Src \cup {"tests", "integration", "prisma", "package", "docker", "env"}
Tests == {"tests", "integration"}

ASSUME TouchedAssumption == Touched \subseteq SUBSET Area

AreasOf == [runtime_boot |-> Src \cup {"prisma", "package", "docker"},
            runtime_health |-> Src \cup {"integration", "package"},
            typescript_compile |-> Src \cup Tests \cup {"prisma", "package"},
            test_failure |-> Src \cup Tests \cup {"package"},
            migration_failure |-> {"prisma", "db", "config", "package"},
            architecture_violation |-> {"modules", "config", "db"} \cup Tests,
            security_baseline |-> {"config", "modules", "docker"} \cup Tests,
            unknown |-> Src \cup Tests \cup {"prisma", "package"}]

Least(a, b) == IF a < b THEN a ELSE b

\* Faulty variant: the caps of the intent, whatever the contract says.
UncappedConstraint(intent, c) ==
  [intent |-> intent, files |-> FilesOf[intent], kb |-> KbOf[intent], areas |-> AreasOf[intent]]

\* resolveLimits and minWithin: no more than the contract in force allows.
Constraint(intent, c) ==
  [intent |-> intent, files |-> Least(c.files, FilesOf[intent]),
   kb |-> Least(c.kb, KbOf[intent]), areas |-> AreasOf[intent]]

\* The recipe and the paydown of stub debt name their n files.
FixedConstraint(n) ==
  [intent |-> "typescript_compile", files |-> Least(n, 8), kb |-> 160, areas |-> {"modules"}]
-----------------------------------------------------------------------------
\* A planned step may be named like a correction and say nothing of itself.
Named == [from |-> "plan"]
NoStep == [from |-> "none"]
HasMetadata(s) == s.from \in {"runtime", "heavy", "recipe"}

NoProposal == [files |-> 0, kb |-> 0, areas |-> {}]
NoRecord == [step |-> NoStep, status |-> "none", category |-> "none", change |-> NoProposal,
             committed |-> FALSE, refused |-> FALSE, resized |-> FALSE,
             contract |-> CHOOSE c \in Contract : TRUE]

PolicyInit ==
  /\ contract \in Contract
  /\ step = NoStep /\ change = NoProposal /\ spc = "loop" /\ record = NoRecord
  /\ queued = 0 /\ resumes = 0 /\ resized = FALSE

\* A correction enters the plan; the record before it has been judged.
Queue(s) ==
  /\ queued < MaxQueued
  /\ queued' = queued + 1
  /\ step' = s /\ spc' = "loop" /\ resized' = FALSE
  /\ record' = NoRecord

\* queueRuntimeCorrection: there is no report, the logs are all it has.
QueueRuntimeCorrection ==
  /\ spc = "loop" /\ step = NoStep
  /\ \E logs \in {"none", "boot", "health"} :
       Queue([from |-> "runtime",
              constraint |-> Constraint(ChooseIntent("goal", {}, {}, logs), contract)])
  /\ UNCHANGED <<contract, change, resumes>>

\* What may fail of heavy validation and what can be read of it: the intents.
\* The logs begin with the names of the failed checks.
HeavyIntents ==
  UNION {{ChooseIntent("optimization", checks, FailureKinds(read), logs) :
            read \in [checks \cap CommandCheck -> {"read", "unread", "silent"}],
            logs \in IF "boot" \in checks THEN {"boot", "health"} ELSE {"none", "boot", "health"}} :
          checks \in {c \in SUBSET Check : Cardinality(c) \in 1..2}}

\* queueHeavyValidationCorrection.
QueueHeavyCorrection ==
  /\ spc \in {"loop", "heavy"} /\ step = NoStep
  /\ \E intent \in HeavyIntents :
       Queue([from |-> "heavy", constraint |-> Constraint(intent, contract)])
  /\ UNCHANGED <<contract, change, resumes>>

\* The deterministic corrections of a validated run, and a step of the planner's.
QueueOther ==
  /\ spc = "loop" /\ step = NoStep
  /\ \/ \E n \in Count \ {0} : Queue([from |-> "recipe", constraint |-> FixedConstraint(n)])
     \/ Queue(Named)
  /\ UNCHANGED <<contract, change, resumes>>

\* The execution ends (a crash, a failure) and is resumed, perhaps under another
\* contract.  A step whose record did not advance the run is executed again.
ResumeUnder(c) ==
  /\ resumes < MaxResumes
  /\ resumes' = resumes + 1
  /\ contract' = c
  /\ step' \in IF spc = "heavy" THEN {record.step}
               ELSE IF step = NoStep THEN {step, record.step} ELSE {step}
  /\ spc' = "loop" /\ change' = NoProposal
  /\ resized' = (resized \/ c # contract)
  /\ UNCHANGED <<record, queued>>
-----------------------------------------------------------------------------
(* The execution of a correction step.                                     *)

\* assertCorrectionChangeScope; without metadata there is no constraint.
InScope(s, ch) ==
  HasMetadata(s) => ch.files <= s.constraint.files /\ ch.areas \subseteq s.constraint.areas

\* assertCorrectionStagedBounds.
StagedWithin(s, ch) == HasMetadata(s) => ch.kb <= s.constraint.kb

\* validateStagedChanges, with the caps of the contract in force.
ValidStaged(ch) == ch.files <= contract.files /\ ch.kb <= contract.kb /\ "env" \notin ch.areas

\* The tool runs and its proposals are staged, checked and applied, or the
\* transaction is aborted.  A correction that changes nothing is refused.
ApplyCorrection ==
  /\ spc = "loop" /\ step # NoStep
  /\ \E n \in Count, kb \in Kb, areas \in Touched :
       LET ch == [files |-> n, kb |-> kb, areas |-> areas]
       IN  \/ /\ n > 0 /\ InScope(step, ch) /\ StagedWithin(step, ch) /\ ValidStaged(ch)
              /\ change' = ch /\ spc' = "applied"
           \/ change' = NoProposal /\ spc' = "failed"
  /\ UNCHANGED <<contract, step, record, queued, resumes, resized>>

\* Invariants and light validation, then the commit; any of them may refuse.
CommitCorrection ==
  /\ spc = "applied"
  /\ \/ spc' = "committed" /\ UNCHANGED change
     \/ spc' = "failed" /\ change' = NoProposal
  /\ UNCHANGED <<contract, step, record, queued, resumes, resized>>

\* evaluateCorrectionPolicy: the rules that a completed step breaks.
PolicyRefuses(s, ch) ==
  IF ~HasMetadata(s) THEN TRUE
  ELSE \/ s.constraint.files > contract.files \/ s.constraint.kb > contract.kb
       \/ s.constraint.files = 0 \/ s.constraint.kb = 0
       \/ ch.files = 0
       \/ ch.files > s.constraint.files \/ ch.kb > s.constraint.kb
       \/ ~(ch.areas \subseteq s.constraint.areas)

\* buildStepFailureDetails names one cause.
CategoryOf(transaction, heavy) ==
  IF transaction THEN "step_transaction"
  ELSE CASE heavy = "threw" -> "heavy_validation_execution"
         [] heavy \in {"spent", "queued"} -> "heavy_validation"
         [] OTHER -> "correction_policy"

\* Heavy validation, if the step is the plan's last: none, passed, another
\* correction to be queued, none left, or an error.  Then the policy, and the
\* record.  A correction that is to be queued is queued even if the policy
\* failed the step.
RecordCorrection ==
  /\ spc \in {"failed", "committed"}
  /\ \E heavy \in IF spc = "failed" THEN {"none"} ELSE {"none", "ok", "queued", "spent", "threw"} :
       LET refused == spc = "committed" /\ heavy \notin {"spent", "threw"}
                        /\ contract.mode # "off" /\ PolicyRefuses(step, change)
           failed == spc = "failed" \/ heavy \in {"spent", "threw"}
                       \/ (refused /\ contract.mode = "enforce")
       IN
       /\ record' = [step |-> step, status |-> IF failed THEN "failed" ELSE "completed",
                     category |-> IF failed THEN CategoryOf(spc = "failed", heavy) ELSE "none",
                     change |-> change, committed |-> spc = "committed",
                     refused |-> refused, resized |-> resized, contract |-> contract]
       /\ spc' = IF heavy = "queued" THEN "heavy" ELSE "loop"
  /\ step' = NoStep /\ change' = NoProposal
  /\ UNCHANGED <<contract, queued, resumes, resized>>

PolicyNext ==
  \/ QueueRuntimeCorrection \/ QueueHeavyCorrection \/ QueueOther
  \/ \E c \in Contract : ResumeUnder(c)
  \/ ApplyCorrection \/ CommitCorrection \/ RecordCorrection

PolicySpec == PolicyInit /\ [][PolicyNext]_policyVars
-----------------------------------------------------------------------------
PolicyTypeOK ==
  /\ contract \in Contract /\ record.contract \in Contract
  /\ step.from \in {"none", "runtime", "heavy", "recipe", "plan"}
  /\ HasMetadata(step) => /\ step.constraint.intent \in Intent
                          /\ step.constraint.files \in 1..100
                          /\ step.constraint.areas \subseteq Area
  /\ change.areas \subseteq Area
  /\ spc \in {"loop", "applied", "committed", "failed", "heavy"}
  /\ record.status \in {"none", "completed", "failed"}

\* What a correction that is kept has changed is within the constraint it was
\* planned under, and within the contract in force when it was executed, in
\* whatever order failures, corrections and resumes came; under enforce so is the
\* constraint itself.  The two who look at its changes agree: the policy never
\* refuses what the kernel let pass, but a step that says nothing of itself, a
\* fixed constraint larger than the contract, or one of a contract that was
\* replaced since.  And a recorded cause is one that happened
\* (kernel.ts assertCorrection*, policy-engine.ts evaluateCorrectionPolicy).
CorrectionsConfined ==
  LET s == record.step
      ch == record.change
      c == record.contract
  IN
  /\ record.committed =>
       /\ ch.files \in 1..c.files /\ ch.kb <= c.kb
       /\ HasMetadata(s) => /\ ch.files <= s.constraint.files /\ ch.kb <= s.constraint.kb
                            /\ ch.areas \subseteq s.constraint.areas
  /\ record.status = "completed" /\ c.mode = "enforce" =>
       HasMetadata(s) /\ s.constraint.files <= c.files /\ s.constraint.kb <= c.kb
  /\ record.refused => \/ s.from = "plan"
                       \/ record.resized
                       \/ s.from = "recipe" /\ (s.constraint.files > c.files \/ s.constraint.kb > c.kb)
  /\ record.category = "correction_policy" => record.refused
  /\ record.status = "failed" /\ record.refused =>
       record.category \in {"correction_policy", "heavy_validation"}
=============================================================================
