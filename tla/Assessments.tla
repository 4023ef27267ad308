------------------------------ MODULE Assessments ------------------------------
(***************************************************************************)
(* One governance assessment from its creation to its decision: the worker *)
(* of each API process that claims its job and evaluates it, and whoever   *)
(* issues its decision: the recovery sweep of a process that starts and    *)
(* the public reads of the assessment.                                     *)
(*                                                                         *)
(* GovernanceWorker.processJob and GovernanceEvaluatorImpl.evaluate are    *)
(* one sequential program here; every await that reads or writes shared    *)
(* state ends a step.  Status writes on the way out of an evaluation are a *)
(* list, todo: none of them but the job's looks at who holds the job.      *)
(*                                                                         *)
(* The validators of one evaluation find the same thing, its finding; two  *)
(* evaluations may differ.  A decision is named by the finding whose       *)
(* manifest it was computed from.  Reads that are constant once the        *)
(* assessment exists (snapshots, artifact rows) are not steps.             *)
(***************************************************************************)
EXTENDS ArtifactIngestion, GovernanceJobs, Sequences

CONSTANTS
  Reader,        \* public reads of the assessment
  MaxClaimCount, \* MAX_CLAIM_COUNT
  Validators,    \* validators of the profile
  Finding, Undecidable, NoFinding,  \* as in DecisionRecord
  MaxFaults      \* bound: crashes, shutdowns, late heartbeats, failing calls

ASSUME AssessmentAssumption ==
  /\ NoWorker \notin Worker
  /\ Worker \cap Reader = {}
  /\ MaxClaimCount \in Nat \ {0}
  /\ Validators \in Nat \ {0}
  /\ Undecidable \subseteq Finding
  /\ NoFinding \notin Finding
  /\ MaxFaults \in Nat

VARIABLES
  subject,     \* the artifact of the assessment
  status,      \* governance_assessments.status
  attempt,     \* the status of its one attempt
  links,       \* assessment_evidence: the finding each validator's row holds
  manifest,    \* the finding the evidence manifest records
  decision,    \* issued_decisions: the finding the decision rests on
  taken,       \* a finding whose decision another assessment of the same
               \* inputs has been issued: decision_hash is UNIQUE
  creating,    \* the handler that creates the assessment without a key
  workers,     \* the memory of each process's worker
  issuers,     \* what each caller of issue() does next
  faults

rowVars == <<subject, status, attempt, links, manifest, decision, taken, creating>>
assessmentVars == <<rowVars, job, workers, issuers, faults>>

Issuer == Worker \cup Reader

WorkerPc == {"down", "sweep", "idle", "claimed", "load", "mark", "evaluate", "link",
             "linkWrite", "finalize", "refuse", "write"}

Evaluating == {"load", "mark", "evaluate", "link", "linkWrite", "finalize", "refuse", "write"}

IssuerPc == {"none", "existing", "authority", "persist", "refuse"}

IdleWorker == [pc |-> "idle", generation |-> 0, finding |-> NoFinding, next |-> 1,
               todo |-> << >>, aborted |-> FALSE]

-----------------------------------------------------------------------------
Fault == faults < MaxFaults /\ faults' = faults + 1

Goto(n, pc) == workers' = [workers EXCEPT ![n].pc = pc]

Idle(n) == workers' = [workers EXCEPT ![n] = [IdleWorker EXCEPT !.aborted = workers[n].aborted]]

\* Status writes still to make: "refuse" when a failing one throws into the
\* evaluator's catch block, "write" when it is swallowed.
Write(n, pc, todo) == workers' = [workers EXCEPT ![n].pc = pc, ![n].todo = todo]

ErrorWrites == <<"attempt ERROR", "job FAILED", "assessment ERROR">>

GiveUpWrites == <<"job FAILED", "attempt ERROR", "assessment ERROR">>

CancelWrites == <<"attempt CANCELLED", "job CANCELLED", "assessment CANCELLED">>

\* The evaluator's catch block, and what the worker makes of its outcome; the
\* generation is the claim count.
InfrastructureErrorWrites(n) ==
  <<"attempt ERROR">> \o (IF workers[n].generation < MaxClaimCount
                            THEN <<"job AVAILABLE", "attempt ERROR">>
                            ELSE GiveUpWrites)

InfrastructureError(n) == Write(n, "write", InfrastructureErrorWrites(n))

\* A call that throws, at a step of evaluate.
CallFails(n) == Fault /\ InfrastructureError(n) /\ UNCHANGED <<rowVars, job, issuers>>

\* evaluate looks at its signal before each of its numbered steps.
Cancelled(n) ==
  /\ workers[n].aborted
  /\ Write(n, "write", CancelWrites)
  /\ UNCHANGED <<rowVars, job, issuers, faults>>

BundleIntact == blobs[uploads[subject].digest] = "intact"

\* The holder of the job lives and its heartbeat runs.
JobAttended ==
  /\ job.worker \in Worker
  /\ workers[job.worker].pc \in Evaluating
  /\ workers[job.worker].generation = job.generation

-----------------------------------------------------------------------------
AssessmentInit ==
  /\ job = NoJobRow
  /\ subject = NoUpload
  /\ status = "absent"
  /\ attempt = "absent"
  /\ links = [v \in 1..Validators |-> NoFinding]
  /\ manifest = NoFinding
  /\ decision = NoFinding
  /\ taken \in {NoFinding} \cup (Finding \ Undecidable)
  /\ creating = "none"
  /\ workers = [n \in Worker |-> [IdleWorker EXCEPT !.pc = "down"]]
  /\ issuers = [c \in Issuer |-> [pc |-> "none", seen |-> NoFinding]]
  /\ faults = 0

\* POST /v1/assessments with a key: createAssessmentGraphIdempotently.
CreateAssessmentGraph ==
  /\ status = "absent"
  /\ subject' \in artifacts
  /\ status' = "QUEUED"
  /\ attempt' = "QUEUED"
  /\ CreateJob
  /\ UNCHANGED <<links, manifest, decision, taken, creating, workers, issuers, faults>>

\* The same without a key: three statements, and a handler that may not live
\* to make the last of them.
CreateAssessment ==
  \/ /\ status = "absent"
     /\ subject' \in artifacts
     /\ status' = "QUEUED"
     /\ creating' = "attempt"
     /\ UNCHANGED <<job, attempt, faults>>
  \/ /\ creating = "attempt"
     /\ attempt' = "QUEUED"
     /\ creating' = "job"
     /\ UNCHANGED <<job, subject, status, faults>>
  \/ /\ creating = "job"
     /\ CreateJob
     /\ creating' = "done"
     /\ UNCHANGED <<subject, status, attempt, faults>>
  \/ /\ creating \in {"attempt", "job"}
     /\ Fault
     /\ creating' = "dead"
     /\ UNCHANGED <<job, subject, status, attempt>>

CreateAssessmentWithoutKey ==
  /\ CreateAssessment
  /\ UNCHANGED <<links, manifest, decision, taken, workers, issuers>>

-----------------------------------------------------------------------------
\* main: listDecidingAssessmentsWithoutDecision, then the sweep, then the poll loop.
StartWorker(n) ==
  /\ workers[n].pc = "down"
  /\ IF status = "DECIDING" /\ decision = NoFinding
       THEN /\ Goto(n, "sweep")
            /\ issuers' = [issuers EXCEPT ![n].pc = "existing"]
       ELSE Goto(n, "idle") /\ UNCHANGED issuers
  /\ UNCHANGED <<rowVars, job, faults>>

EndSweep(n) ==
  /\ workers[n].pc = "sweep"
  /\ issuers[n].pc = "none"
  /\ Goto(n, "idle")
  /\ UNCHANGED <<rowVars, job, issuers, faults>>

\* runOnce, and processJob's look at the claim count.
ClaimNextGovernanceJob(n) ==
  /\ workers[n].pc = "idle"
  /\ ~workers[n].aborted
  /\ ClaimJob(n)
  /\ workers' = [workers EXCEPT ![n] =
       [IdleWorker EXCEPT !.generation = job'.generation,
                          !.pc = IF job'.generation > MaxClaimCount THEN "write" ELSE "claimed",
                          !.todo = IF job'.generation > MaxClaimCount THEN GiveUpWrites ELSE << >>]]
  /\ UNCHANGED <<rowVars, issuers, faults>>

\* transitionJobToRunning: a job lost, or a call that throws, is left alone.
BeginRunning(n) ==
  /\ workers[n].pc = "claimed"
  /\ job.status = "CLAIMED"
  /\ TransitionJobToRunning(n, workers[n].generation)
  /\ Write(n, "write", <<"assessment RUNNING">>)
  /\ UNCHANGED <<rowVars, issuers, faults>>

LeaveClaim(n) ==
  /\ workers[n].pc = "claimed"
  /\ \/ ~Holds(n, workers[n].generation) /\ UNCHANGED faults
     \/ Fault
  /\ Idle(n)
  /\ UNCHANGED <<rowVars, job, issuers>>

\* updateAssessmentStatus and updateAttemptStatus have no fence at all.
ApplyWrite(n, write) ==
  CASE write = "attempt ERROR"        -> attempt' = "ERROR" /\ UNCHANGED <<job, status>>
    [] write = "attempt CANCELLED"    -> attempt' = "CANCELLED" /\ UNCHANGED <<job, status>>
    [] write = "assessment RUNNING"   -> status' = "RUNNING" /\ UNCHANGED <<job, attempt>>
    [] write = "assessment ERROR"     -> status' = "ERROR" /\ UNCHANGED <<job, attempt>>
    [] write = "assessment CANCELLED" -> status' = "CANCELLED" /\ UNCHANGED <<job, attempt>>
    [] write = "job AVAILABLE" -> RescheduleJob(n, workers[n].generation) /\ UNCHANGED <<status, attempt>>
    [] write = "job FAILED"    -> FailJob(n, workers[n].generation) /\ UNCHANGED <<status, attempt>>
    [] write = "job CANCELLED" -> CancelJob(n, workers[n].generation) /\ UNCHANGED <<status, attempt>>

\* After its last write the worker polls again, except that after "assessment
\* RUNNING" it evaluates, unless it was told to stop.
AfterWrite(n) ==
  LET w == workers[n] IN
  IF Tail(w.todo) # << >> THEN workers' = [workers EXCEPT ![n].todo = Tail(w.todo)]
  ELSE IF Head(w.todo) = "assessment RUNNING" /\ ~w.aborted THEN Write(n, "load", << >>)
  ELSE Idle(n)

MakeWrite(n) ==
  /\ workers[n].pc \in {"refuse", "write"}
  /\ \/ ApplyWrite(n, Head(workers[n].todo)) /\ AfterWrite(n) /\ UNCHANGED faults
     \/ /\ Fault
        /\ IF workers[n].pc = "refuse" THEN InfrastructureError(n) ELSE AfterWrite(n)
        /\ UNCHANGED <<job, status, attempt>>
  /\ UNCHANGED <<subject, links, manifest, decision, taken, creating, issuers>>

-----------------------------------------------------------------------------
\* loadAndVerifyAssessmentAuthority looks at no status.  A snapshot replaced
\* since the assessment was created (a fault) is an authority mismatch.
LoadAuthority(n) ==
  /\ workers[n].pc = "load"
  /\ \/ workers[n].aborted /\ Idle(n) /\ UNCHANGED faults
     \/ ~workers[n].aborted /\ Goto(n, "mark") /\ UNCHANGED faults
     \/ ~workers[n].aborted /\ Fault /\ Write(n, "write", ErrorWrites)
     \/ ~workers[n].aborted /\ Fault /\ InfrastructureError(n)
  /\ UNCHANGED <<rowVars, job, issuers>>

MarkAttemptRunning(n) ==
  /\ workers[n].pc = "mark"
  /\ \/ /\ attempt' = "RUNNING"
        /\ Goto(n, "evaluate")
        /\ UNCHANGED <<subject, status, links, manifest, decision, taken, creating, job, issuers, faults>>
     \/ CallFails(n)

\* Faulty variant: the rebuilt digest is not compared.
EvaluateUnverified(n) ==
  /\ workers[n].pc = "evaluate"
  /\ \/ Cancelled(n)
     \/ CallFails(n)
     \/ /\ ~workers[n].aborted
        /\ \E f \in Finding : workers' = [workers EXCEPT ![n].pc = "link", ![n].finding = f]
        /\ UNCHANGED <<rowVars, job, issuers, faults>>

\* Steps 3 to 6: a bundle stored whole is verified and the adapter run on it;
\* of one stored in part the archive fails to open or its digest differs.
Evaluate(n) ==
  /\ workers[n].pc = "evaluate"
  /\ \/ Cancelled(n)
     \/ CallFails(n)
     \/ /\ ~workers[n].aborted
        /\ IF BundleIntact
             THEN \E f \in Finding :
                    workers' = [workers EXCEPT ![n].pc = "link", ![n].finding = f]
             ELSE Write(n, "refuse", ErrorWrites) \/ InfrastructureError(n)
        /\ UNCHANGED <<rowVars, job, issuers, faults>>

\* linkEvidenceToAssessment: the look for a manifest, and then the upsert.
CheckLink(n) ==
  /\ workers[n].pc = "link"
  /\ \/ Cancelled(n)
     \/ CallFails(n)
     \/ /\ ~workers[n].aborted
        /\ IF manifest # NoFinding THEN InfrastructureError(n) ELSE Goto(n, "linkWrite")
        /\ UNCHANGED <<rowVars, job, issuers, faults>>

\* Faulty variant: the index runs past the last validator.
WriteLinkPastEnd(n) ==
  /\ workers[n].pc = "linkWrite"
  /\ LET v == workers[n].next IN
     /\ links' = [links EXCEPT ![v] = workers[n].finding]
     /\ workers' = [workers EXCEPT ![n].pc = IF v = Validators THEN "finalize" ELSE "link",
                                   ![n].next = v + 1]
  /\ UNCHANGED <<subject, status, attempt, manifest, decision, taken, creating, job, issuers, faults>>

WriteLink(n) ==
  /\ workers[n].pc = "linkWrite"
  /\ LET v == workers[n].next IN
     /\ links' = [links EXCEPT ![v] = workers[n].finding]
     /\ workers' = [workers EXCEPT ![n].pc = IF v = Validators THEN "finalize" ELSE "link",
                                   ![n].next = IF v = Validators THEN v ELSE v + 1]
  /\ UNCHANGED <<subject, status, attempt, manifest, decision, taken, creating, job, issuers, faults>>

\* Faulty variant: nobody looks whether the job's row was updated.
CanFinalizeUnfenced(n) ==
  /\ attempt = "RUNNING"
  /\ status = "RUNNING"
  /\ \A v \in 1..Validators : links[v] # NoFinding

CanFinalize(n) ==
  /\ attempt = "RUNNING"
  /\ status = "RUNNING"
  /\ \A v \in 1..Validators : links[v] # NoFinding
  /\ Holds(n, workers[n].generation)

\* completeAttemptAtomically: one transaction, rolled back if the job was lost.
CompleteAttemptAtomically(n) ==
  /\ workers[n].pc = "finalize"
  /\ \/ Cancelled(n)
     \/ CallFails(n)
     \/ /\ ~workers[n].aborted
        /\ CanFinalize(n)
        /\ CompleteJob(n, workers[n].generation)
        /\ manifest' = workers[n].finding
        /\ attempt' = "COMPLETE"
        /\ status' = "DECIDING"
        /\ Idle(n)
        /\ UNCHANGED <<subject, links, decision, taken, creating, issuers, faults>>
     \/ /\ ~workers[n].aborted
        /\ ~CanFinalize(n)
        /\ InfrastructureError(n)
        /\ UNCHANGED <<rowVars, job, issuers, faults>>

-----------------------------------------------------------------------------
IssuerGoto(c, pc) == issuers' = [issuers EXCEPT ![c].pc = pc]

\* issueDecidingAssessmentIfNeeded, on a public read.
ReadAssessment(c) ==
  /\ issuers[c].pc = "none"
  /\ status = "DECIDING"
  /\ decision = NoFinding
  /\ IssuerGoto(c, "existing")
  /\ UNCHANGED <<rowVars, job, workers, faults>>

\* issue: a decision that is there is returned; else the selected evidence,
\* selected for good by the transaction that wrote the manifest, is looked up.
LookForDecision(c) ==
  /\ issuers[c].pc = "existing"
  /\ IssuerGoto(c, IF decision # NoFinding THEN "none"
                   ELSE IF manifest = NoFinding THEN "refuse"
                   ELSE "authority")
  /\ UNCHANGED <<rowVars, job, workers, faults>>

\* Faulty variant: evidence in ERROR does not stop the decision.
VerifyIgnoringErrors(c) ==
  /\ issuers[c].pc = "authority"
  /\ issuers' = [issuers EXCEPT ![c] =
       IF status = "DECIDING" /\ attempt = "COMPLETE"
         THEN [pc |-> "persist", seen |-> manifest]
         ELSE [pc |-> "refuse", seen |-> NoFinding]]
  /\ UNCHANGED <<rowVars, job, workers, faults>>

\* The assessment's and the attempt's rows, and the evidence of the manifest.
VerifyForDecision(c) ==
  /\ issuers[c].pc = "authority"
  /\ issuers' = [issuers EXCEPT ![c] =
       IF status = "DECIDING" /\ attempt = "COMPLETE" /\ manifest \notin Undecidable
         THEN [pc |-> "persist", seen |-> manifest]
         ELSE [pc |-> "refuse", seen |-> NoFinding]]
  /\ UNCHANGED <<rowVars, job, workers, faults>>

\* persistIssuedDecisionAtomically; what it throws is no DecisionIssuanceError
\* and leaves the assessment as it is.
PersistDecision(c) ==
  /\ issuers[c].pc = "persist"
  /\ IF decision = NoFinding /\ status = "DECIDING" /\ issuers[c].seen # taken
       THEN decision' = issuers[c].seen /\ status' = "COMPLETE"
       ELSE UNCHANGED <<decision, status>>
  /\ issuers' = [issuers EXCEPT ![c] = [pc |-> "none", seen |-> NoFinding]]
  /\ UNCHANGED <<subject, attempt, links, manifest, taken, creating, job, workers, faults>>

\* DecisionIssuanceError: the assessment is in ERROR, whatever it is by now.
RefuseDecision(c) ==
  /\ issuers[c].pc = "refuse"
  /\ status' = "ERROR"
  /\ IssuerGoto(c, "none")
  /\ UNCHANGED <<subject, attempt, links, manifest, decision, taken, creating, job, workers, faults>>

-----------------------------------------------------------------------------
\* stop(): the signal aborts and the heartbeats end; evaluate may go on until
\* the process exits, which nothing waits for.
StopWorker(n) ==
  /\ workers[n].pc # "down"
  /\ ~workers[n].aborted
  /\ Fault
  /\ workers' = [workers EXCEPT ![n].aborted = TRUE]
  /\ UNCHANGED <<rowVars, job, issuers>>

\* The process exits, at the end of a shutdown or in a crash.
WorkerExit(n) ==
  /\ workers[n].pc # "down"
  /\ IF workers[n].aborted THEN UNCHANGED faults ELSE Fault
  /\ workers' = [workers EXCEPT ![n] = [IdleWorker EXCEPT !.pc = "down"]]
  /\ issuers' = [issuers EXCEPT ![n] = [pc |-> "none", seen |-> NoFinding]]
  /\ UNCHANGED <<rowVars, job>>

\* A read's process dies, or one of its statements throws.
ReaderFails(c) ==
  /\ issuers[c].pc # "none"
  /\ Fault
  /\ issuers' = [issuers EXCEPT ![c] = [pc |-> "none", seen |-> NoFinding]]
  /\ UNCHANGED <<rowVars, job, workers>>

JobLeaseLapses ==
  /\ LapseJob
  /\ IF JobAttended THEN Fault ELSE UNCHANGED faults
  /\ UNCHANGED <<rowVars, workers, issuers>>

-----------------------------------------------------------------------------
WorkerStep(n) ==
  \/ StartWorker(n)
  \/ EndSweep(n)
  \/ ClaimNextGovernanceJob(n)
  \/ BeginRunning(n)
  \/ LeaveClaim(n)
  \/ MakeWrite(n)
  \/ LoadAuthority(n)
  \/ MarkAttemptRunning(n)
  \/ Evaluate(n)
  \/ CheckLink(n)
  \/ WriteLink(n)
  \/ CompleteAttemptAtomically(n)

IssuerStep(c) ==
  \/ LookForDecision(c)
  \/ VerifyForDecision(c)
  \/ PersistDecision(c)
  \/ RefuseDecision(c)

AssessmentNext ==
  \/ CreateAssessmentGraph
  \/ CreateAssessmentWithoutKey
  \/ \E n \in Worker : WorkerStep(n) \/ StopWorker(n) \/ WorkerExit(n)
  \/ \E c \in Reader : ReadAssessment(c)
  \/ \E c \in Issuer : IssuerStep(c) \/ ReaderFails(c)
  \/ JobLeaseLapses

\* A process that died is started again; one that runs takes every step it can
\* take but a stop; an expiry nobody moves comes; a client reads its
\* assessment until it is decided.
AssessmentFairness ==
  /\ WF_assessmentVars(CreateAssessmentWithoutKey /\ creating # "none")
  /\ \A n \in Worker : WF_assessmentVars(WorkerStep(n))
  /\ \A c \in Reader : WF_assessmentVars(ReadAssessment(c))
  /\ \A c \in Issuer : WF_assessmentVars(IssuerStep(c))
  /\ \A n \in Worker : WF_assessmentVars(WorkerExit(n) /\ workers[n].aborted)
  /\ WF_assessmentVars(JobLeaseLapses /\ ~JobAttended)

-----------------------------------------------------------------------------
\* Every variable has its type.
AssessmentTypeOK ==
  /\ subject \in Upload \cup {NoUpload}
  /\ status \in {"absent", "QUEUED", "RUNNING", "DECIDING", "COMPLETE", "ERROR", "CANCELLED"}
  /\ attempt \in {"absent", "QUEUED", "RUNNING", "COMPLETE", "ERROR", "CANCELLED"}
  /\ job \in [status: {"absent", "AVAILABLE"} \cup JobActive \cup JobTerminal,
              worker: Worker \cup {NoWorker}, generation: Nat, lapsed: BOOLEAN]
  /\ links \in [1..Validators -> Finding \cup {NoFinding}]
  /\ manifest \in Finding \cup {NoFinding}
  /\ decision \in Finding \cup {NoFinding}
  /\ taken \in Finding \cup {NoFinding}
  /\ creating \in {"none", "attempt", "job", "done", "dead"}
  /\ \A n \in Worker :
       /\ workers[n].pc \in WorkerPc
       /\ workers[n].generation \in Nat
       /\ workers[n].finding \in Finding \cup {NoFinding}
       /\ workers[n].next \in 1..Validators
       /\ workers[n].aborted \in BOOLEAN
  /\ issuers \in [Issuer -> [pc: IssuerPc, seen: Finding \cup {NoFinding}]]
  /\ faults \in 0..MaxFaults

D == INSTANCE DecisionRecord

\* The store keeps the promise of DecisionRecord: evidence is finalised once,
\* a decision is issued once, from that evidence, and neither changes again;
\* whatever workers that lost the job and late issuers still write.
DecisionRecordKept == D!DecisionSpec

\* The manifest, the job's completion and the assessment's turn to DECIDING
\* are one event: none is ever seen without the others having happened
\* (completeAttemptAtomically).
FinalizedTogether ==
  /\ manifest # NoFinding <=> job.status = "COMPLETE"
  /\ status = "DECIDING" => manifest # NoFinding
  /\ manifest # NoFinding => \A v \in 1..Validators : links[v] # NoFinding

\* An assessment shown as COMPLETE has a decision, and one whose evidence
\* could not be decided never has (persistIssuedDecisionAtomically).
CompleteIsDecided ==
  /\ status = "COMPLETE" => decision # NoFinding
  /\ decision \notin Undecidable

\* What an assessment shows is what happened to it: evidence, job and status
\* turn together, and COMPLETE means that a decision was issued on them.
DecidedOnEvidence == FinalizedTogether /\ CompleteIsDecided

\* A bundle that was stored in part is never evaluated to a manifest: what a
\* crash in putIfAbsent left behind is caught before evidence rests on it.
PartialBundleNeverFinalized == manifest # NoFinding => BundleIntact

\* Every job that exists comes to an end, whatever crashes, shutdowns and late
\* heartbeats its workers met (claimNextGovernanceJob, processJob).
JobSettles == job.status # "absent" ~> job.status \in JobTerminal

\* Where nothing fails, an assessment that is queued is decided or refused,
\* unless another assessment of the same inputs was decided on the same
\* finding: its decision hash is taken then, and this one stays DECIDING.
FaultFreeSettles ==
  [](faults = 0 /\ taken = NoFinding) => (status = "QUEUED" ~> status \in {"COMPLETE", "ERROR"})

\* Nothing waits for ever: a job is resolved by some worker, and an assessment
\* that no fault met is decided or refused.
AssessmentSettles == JobSettles /\ FaultFreeSettles

\* An assessment that has been decided is shown as COMPLETE.
DecidedStaysComplete == decision # NoFinding => status = "COMPLETE"
=============================================================================
