---------------------------- MODULE AutoCorrection ----------------------------
(***************************************************************************)
(* AgentKernel.executeWithValidationAutoCorrection for a builder run, which*)
(* the server executes inside the request that created it: execute, repair *)
(* what the precommit invariants refused, validate, correct or resolve the *)
(* debt of a stub, and validate again.  A request to validate the same run *)
(* may come whenever the row does not say that it is executing.            *)
(*                                                                         *)
(* An execution (KernelLoop says what it does) is a step that ends         *)
(* complete, failed by the precommit invariants, or failed; it may have    *)
(* committed in every case.  Plans are left out, but for whether the       *)
(* planner has one.                                                        *)
(***************************************************************************)
EXTENDS Naturals

CONSTANTS
  MaxAttempts,  \* MAX_VALIDATION_AUTO_CORRECTION_ATTEMPTS
  MaxRetries,   \* MAX_PRECOMMIT_INVARIANT_RETRIES_PER_ATTEMPT
  MaxRequests   \* bound: validate requests for the run

ASSUME AutoCorrectionAssumption ==
  /\ MaxAttempts \in Nat \ {0}
  /\ MaxRetries \in Nat
  /\ MaxRequests \in Nat

VARIABLES
  builderRun, \* the row: status, correctionAttempts, the validation snapshot, and
              \* ghost: is the snapshot about the run's last commit
  caller,     \* locals of executeWithValidationAutoCorrection
  request,    \* a request to validate the run
  executions, \* ghost: executions so far
  lateReports \* ghost: requests that reported on a commit that was not the last

correctionVars == <<builderRun, caller, request, executions, lateReports>>

\* isExecutingAgentRunStatus
Executing == {"running", "correcting", "optimizing", "validating"}

Verdict == {"passed", "failed"}

CorrectionInit ==
  /\ builderRun = [status |-> "queued", attempts |-> 0, snapshot |-> "none", ofLast |-> FALSE]
  /\ caller = [pc |-> "start", cause |-> "first", retries |-> [a \in 0..MaxAttempts |-> 0],
               refused |-> FALSE, pending |-> "none", verdict |-> "none"]
  /\ request = [pc |-> "idle", ofLast |-> FALSE, count |-> 0]
  /\ executions = 0
  /\ lateReports = 0

CallerGoto(pc) == caller' = [caller EXCEPT !.pc = pc]

\* executeLoop, entered for a cause: the row says running until it returns.
Execute(cause) ==
  /\ builderRun' = [builderRun EXCEPT !.status = "running"]
  /\ executions' = executions + 1
  /\ caller' = [caller EXCEPT !.pc = "executing", !.cause = cause,
                  !.pending = IF cause \in {"fix", "debt"} THEN cause ELSE @]

Start ==
  /\ caller.pc = "start"
  /\ Execute("first")
  /\ UNCHANGED <<request, lateReports>>

\* executeLoop returns: with a complete run, or with a failed one whose last
\* step the precommit invariants refused or something else stopped.
ExecutionEnds ==
  /\ caller.pc = "executing"
  /\ \E status \in {"complete", "failed"}, refused \in BOOLEAN, committed \in BOOLEAN :
       /\ status = "complete" => ~refused
       /\ builderRun' = [builderRun EXCEPT !.status = status, !.ofLast = @ /\ ~committed]
       /\ request' = [request EXCEPT !.ofLast = @ /\ ~committed]
       /\ caller' = [caller EXCEPT !.pc = "executed", !.refused = refused]
  /\ UNCHANGED <<executions, lateReports>>

\* Plan without a builder's mutation: nothing is validated.
NotEligible ==
  /\ caller.pc = "executed"
  /\ caller.cause = "first"
  /\ CallerGoto("unvalidated")
  /\ UNCHANGED <<builderRun, request, executions, lateReports>>

\* An execution that threw ends the request, as a validation does.
Throw ==
  /\ caller.pc \in {"executing", "validate"}
  /\ CallerGoto("thrown")
  /\ UNCHANGED <<builderRun, request, executions, lateReports>>

CountRetry == [caller.retries EXCEPT ![builderRun.attempts] = @ + 1]

\* Faulty variant: one retry more.
RetriesNotExceeded == caller.retries[builderRun.attempts] <= MaxRetries

RetriesLeft == caller.retries[builderRun.attempts] < MaxRetries

\* The first loop: a run whose step the precommit invariants refused gets a
\* correction behind that step and goes on.
RetryRefusedStep ==
  /\ caller.pc = "executed"
  /\ caller.cause \in {"first", "invariant"}
  /\ builderRun.status # "complete"
  /\ caller.refused /\ RetriesLeft
  /\ builderRun' = [builderRun EXCEPT !.status = "correcting"]
  /\ caller' = [caller EXCEPT !.pc = "corrected", !.retries = CountRetry]
  /\ UNCHANGED <<request, executions, lateReports>>

ExecuteCorrected ==
  /\ caller.pc = "corrected"
  /\ Execute("invariant")
  /\ UNCHANGED <<request, lateReports>>

\* The first loop gives up: another failure, no retry left, or no plan.
GiveUpRefusedStep ==
  /\ caller.pc = "executed"
  /\ caller.cause \in {"first", "invariant"}
  /\ builderRun.status # "complete"
  /\ CallerGoto("returned")
  /\ UNCHANGED <<builderRun, request, executions, lateReports>>

EnterValidation ==
  /\ caller.pc = "executed"
  /\ caller.cause \in {"first", "invariant"}
  /\ builderRun.status = "complete"
  /\ CallerGoto("validate")
  /\ UNCHANGED <<builderRun, request, executions, lateReports>>

\* validateRunOutput and persistRunValidationSnapshot.
ValidateRun ==
  /\ caller.pc = "validate"
  /\ \E verdict \in Verdict :
       /\ builderRun' = [builderRun EXCEPT !.snapshot = verdict, !.ofLast = TRUE]
       /\ caller' = [caller EXCEPT !.pc = "decide", !.verdict = verdict]
  /\ UNCHANGED <<request, executions, lateReports>>

\* A fix that passed by leaving a stub behind (provisionally_fixed, a matter of
\* the steps' payloads) is followed by an attempt to resolve that debt.
ResolveDebt ==
  /\ caller.pc = "decide"
  /\ caller.verdict = "passed"
  /\ caller.pending = "fix"
  /\ builderRun.attempts < MaxAttempts
  /\ Execute("debt")
  /\ UNCHANGED <<request, lateReports>>

CorrectRun ==
  /\ caller.pc = "decide"
  /\ caller.verdict = "failed"
  /\ builderRun.attempts < MaxAttempts
  /\ Execute("fix")
  /\ UNCHANGED <<request, lateReports>>

\* Passed, not correctable, out of attempts, or without a plan.
ReturnVerdict ==
  /\ caller.pc = "decide"
  /\ CallerGoto("returned")
  /\ UNCHANGED <<builderRun, request, executions, lateReports>>

\* Faulty variant: a corrected run is handed back at once.
ReturnCorrected ==
  /\ caller.pc = "executed"
  /\ caller.cause \in {"fix", "debt"}
  /\ builderRun.status = "complete"
  /\ builderRun' = [builderRun EXCEPT !.attempts = @ + 1]
  /\ CallerGoto("returned")
  /\ UNCHANGED <<request, executions, lateReports>>

\* The attempt is counted once its execution is complete; then it is validated.
CountAttempt ==
  /\ caller.pc = "executed"
  /\ caller.cause \in {"fix", "debt"}
  /\ builderRun.status = "complete"
  /\ builderRun' = [builderRun EXCEPT !.attempts = @ + 1]
  /\ caller' = [caller EXCEPT !.pc = "validate",
                  !.retries = IF caller.cause = "fix"
                              THEN [@ EXCEPT ![builderRun.attempts] = 0] ELSE @]
  /\ UNCHANGED <<request, executions, lateReports>>

\* A fix the precommit invariants refused: the row is complete once more, the
\* attempt is not counted, and the run is validated as it stands.
RetryRefusedFix ==
  /\ caller.pc = "executed"
  /\ caller.cause = "fix"
  /\ builderRun.status # "complete"
  /\ caller.refused /\ RetriesLeft
  /\ builderRun' = [builderRun EXCEPT !.status = "complete"]
  /\ caller' = [caller EXCEPT !.pc = "validate", !.retries = CountRetry]
  /\ UNCHANGED <<request, executions, lateReports>>

\* Any other failed correction ends the call.
GiveUpCorrection ==
  /\ caller.pc = "executed"
  /\ caller.cause \in {"fix", "debt"}
  /\ builderRun.status # "complete"
  /\ ~(caller.cause = "fix" /\ caller.refused /\ RetriesLeft)
  /\ CallerGoto("returned")
  /\ UNCHANGED <<builderRun, request, executions, lateReports>>

\* POST .../validate: refused while the row says executing, and not looked at
\* again; it validates the commit the row pointed at when it came.
StartRequest ==
  /\ request.pc = "idle"
  /\ request.count < MaxRequests
  /\ builderRun.status \notin Executing
  /\ request' = [pc |-> "validating", ofLast |-> TRUE, count |-> request.count + 1]
  /\ UNCHANGED <<builderRun, caller, executions, lateReports>>

EndRequest ==
  /\ request.pc = "validating"
  /\ \E verdict \in Verdict :
       builderRun' = [builderRun EXCEPT !.snapshot = verdict, !.ofLast = request.ofLast]
  /\ request' = [request EXCEPT !.pc = "idle"]
  /\ lateReports' = lateReports + (IF request.ofLast THEN 0 ELSE 1)
  /\ UNCHANGED <<caller, executions>>

CorrectionNext ==
  \/ Start \/ ExecutionEnds \/ NotEligible \/ Throw
  \/ RetryRefusedStep \/ ExecuteCorrected \/ GiveUpRefusedStep
  \/ EnterValidation \/ ValidateRun \/ ResolveDebt \/ CorrectRun \/ ReturnVerdict
  \/ CountAttempt \/ RetryRefusedFix \/ GiveUpCorrection
  \/ StartRequest \/ EndRequest

CorrectionSpec == CorrectionInit /\ [][CorrectionNext]_correctionVars

-----------------------------------------------------------------------------
CorrectionTypeOK ==
  /\ builderRun \in [status : {"queued", "running", "correcting", "complete", "failed"},
                     attempts : 0..MaxAttempts,
                     snapshot : Verdict \cup {"none"}, ofLast : BOOLEAN]
  /\ caller.retries \in [0..MaxAttempts -> 0..MaxRetries]
  /\ request.count \in 0..MaxRequests

\* A run handed back complete carries a verdict on its last commit, whatever
\* was corrected, retried or resolved before (kernel.ts:4603); only a validate
\* request that outlived a correction can have put an older one there.
VerdictIsOfLastCommit ==
  caller.pc = "returned" /\ builderRun.status = "complete" /\ lateReports = 0 =>
    builderRun.snapshot # "none" /\ builderRun.ofLast

\* The two loops, the two budgets and the retry that puts a failed run back to
\* complete come to an end: one execution, and for each attempt its retries and
\* the execution that succeeds (kernel.ts:172).
CorrectionIsBounded == executions <= 1 + MaxAttempts * (MaxRetries + 1)

\* Both of what correcting a builder run promises
\* (kernel.ts executeWithValidationAutoCorrection).
CorrectionSound == VerdictIsOfLastCommit /\ CorrectionIsBounded
=============================================================================
