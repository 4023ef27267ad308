# DeepRun in TLA+

TLA+ models of the DeepRun backend (`packages/deeprun-backend`), model-checked
with TLC and, for every safety property that holds, proved with TLAPS for every
value of the constants. Paths below are relative to
`packages/deeprun-backend/src/` unless they begin with `docs/` or `public/`
(the package's `public/`).

DeepRun executes AI-planned changes on generated projects. A run has a plan, a
sequence of steps; a kernel executes the steps on a git worktree, validates the
result, and splices correction steps into the plan when something fails. Runs
reach the kernel through a durable queue in PostgreSQL that worker processes
poll. Around this core are a second, older run engine (state-machine runs), a
governance service that ingests artifacts and issues decisions, a deployment
pipeline, checks that execute a generated project, and a web API with accounts,
sessions and a control room in the browser.

Nearly everything that is hard here comes from one pattern: *several processes
share rows of a database, each statement is atomic, a sequence of statements is
not*. The rows outlive the processes. Leases, execution locks, partial unique
indexes and status guards in WHERE clauses are what hold the pieces together,
and those are what the models keep in full.

## 1. Inventory

For each component: its state, its operations, what makes it hard, and what
would make it correct. `PROJECT.json` lists the same components with their files.

**Transition graphs** (`agent/lifecycle-graph.ts`, `run-status.ts`). Two
constant graphs, for runs and for run jobs, from which
`docs/contracts/state-machine.md` is generated. Kernel and store do not consult
them before they write: whether the code follows them is a question, not a fact.
*Correct if* every status written is reached over an edge.

**Durable run queue** (`lib/project-store.ts`, tables `run_jobs` and
`worker_nodes`). Enqueue, claim or reclaim with a lease, mark running, renew,
complete, fail; node heartbeat and offline. Hard: leases that run out under a
live holder, late calls of a former holder, concurrent enqueues of one run.
*Correct if* a run has one active job, a job changes hands only after its lease
ran out, and it is resolved once, for good.

**Run execution** (`scripts/agent-job-worker.ts`, `agent/kernel.ts`, table
`agent_runs`). The worker process (claim, mark running, lease timer, settle,
failure mark, shutdown), `executeRunJob` and `executeLoop` behind an execution
lock of their own, and the API handlers that create and resume runs. Hard: two
mutual-exclusion mechanisms with two clocks (lease and lock), status checks made
before the lock is taken, unconditional writes, a crash between any two
statements. *Correct if* one worker executes a run at a time, no step is
skipped, a queued run has a job, and everything settles.

**Kernel loop** (`agent/kernel.ts`, `executeLoop`). The plan, which grows while
it is walked; two correction budgets; heavy validation of the step that happens
to be last; convergence and policy modes; re-entry from the stored row. *Correct
if* budgets hold across executions, complete means validated, the loop ends.

**Validation auto-correction of builder runs** (`kernel.ts`,
`executeWithValidationAutoCorrection`; `agent/planner.ts`, `learning/`). After a
complete run that a request executes itself: validate the output, classify what
failed, choose a correction (a recipe for imports, or the planner's phases,
escalated when they stall), put the run back to running, execute, and validate
again; resolve the debt of stubs; repair what the precommit invariants refuse.
Nested loops with two retry counters, a plan that keeps steps of refused
attempts, and a row that says `complete` while its output is being validated, so
that a validate request may enter. *Correct if* the counters bound the
executions, a run handed back complete carries a verdict on its last commit, no
stub is forgotten, and what stalled is not tried again.

**Correction policy** (`agent/correction/`, `agent/validation/`, `kernel.ts`).
A failure is classified, a constraint is derived from it, and three parties hold
a correction to it: the kernel before the commit, the validator of staged
changes, and the policy on the recorded step. Hard: the contract may be replaced
between planning and execution, and the three look at different things.
*Correct if* what a correction changed is within its constraint and the contract
it ran under, and the three agree.

**Synchronous API execution, forks, validation, execution contracts**
(`kernel.ts`, `agent/execution-contract.ts`, `server.ts`). Runs are created with
a contract in their metadata: the resolved configuration, the policy versions it
was resolved under, a hash of both, and a verdict on support. Resume, override,
fork and every worker read the metadata, compare, and write it back whole.
Hard: read and write are two statements, and the processes' environments and
releases differ. *Correct if* what is executed is what the stored contract says,
and the contract changes only on request.

**Local run wait** (`agent/queue/run-wait.ts`). A worker loop in the CLI,
restricted to one run id, with a deadline.

**State-machine runs** (`agent/run-service.ts`, `run-worker.ts`). Runs advanced
one step per transaction under `SELECT ... FOR UPDATE`, from an in-memory set of
keys that each API process keeps for itself, by ticks, and after resumes.
Counters are changed inside the transaction; what the worker does after it is
not. *Correct if* the step rows are the run's indexes in order and its counters
are their numbers, and a run that a worker was asked to drive ends.

**Governance queue, evaluation, decisions** (`governance/governance-store.ts`,
`governance-worker.ts`, `governance-evaluator.ts`, `decision-issuer.ts`).
Assessments with attempts, jobs fenced by worker, generation and lease beside
attempt and assessment writes that no fence guards, evidence linking, decision
issuance by a recovery sweep and by public reads. *Correct if* evidence is
finalised once, a decision is issued once and on that evidence, and a worker
that lost its job changes neither.

**Artifact ingestion** (`server.ts`, `governance-store.ts`,
`artifact-storage.ts`). Idempotency keys claimed with generation and lease, a
blob store that copies exclusively, an artifact and the claim's completion in
one fenced transaction. *Correct if* all answers to one key name one artifact,
and a superseded claimant leaves none behind.

**Deployments** (`server.ts`, `project-store.ts`). A pipeline of minutes that an
in-memory set and a check before an insert are to keep single, and a sweep in
every process that opens the store. *Correct if* a project that is served stays
served by one active deployment, and no deployment in progress bars the next
one for ever.

**Step transactions and git pointers** (`agent/fs/file-session.ts`,
`lib/git-versioning.ts`, `kernel.ts`). Stage, apply, commit and restore the
changes of one step in the run's worktree, and the commit pointers of the run's
row. *Correct if* a commit on the branch holds a whole step and nothing else,
and the row's last valid commit is on the branch.

**Readiness checks and preview container** (`agent/validation/heavy-validator.ts`
and `check-v1-ready.ts`, `agent/tools/run-preview-container.ts`). Sequences
of commands with timeouts over a worktree: install, build, tests, seed, boot,
images and containers, ports that are found free and taken later. *Correct if* a
YES is earned by every check behind it, and what was taken from the host is
given back whatever failed.

**HTTP API, projects and workspaces** (`server.ts`, `lib/project-store.ts`).
Requests that work on the project's own tree: creation, bootstrap, builder
prompts, manual edits, commits by hand. What excludes them is a look at the rows
of runs; what tells of them is a history that each rewrites whole. And accounts:
registration, organizations, workspaces, members, written row by row without a
transaction. *Correct if* no two requests change a project at once, a request
that met no other is told and keeps its commit, and no account is left in part.

**Sessions, authentication and rate limits** (`server.ts`, `lib/auth.ts`,
`public/app.js`). Session rows, a refresh token that each refresh replaces, and
a page that retries a call after one refresh. *Correct if* the cookies carry the
token the row knows, and a session that ended stays ended.

**Control room page** (`public/app.js`). One state that several handlers write
after awaits, and a timer. *Correct if* what is shown is of one project, what is
saved or deployed is what was shown, and deployments in progress are polled.

**Governance contract computations**, **graph revisions and traces**, **planner
and providers**, **templates, learning telemetry, harness, command line**: pure
computations, append-only records, remote calls or drivers. See section 7.

### How they interact

    API handler --agent_runs row--> queue row --claim--> worker --executeRunJob-->
    kernel loop --step commit--> worktree, agent_steps, agent_runs row --> job settled

The API and the workers share no memory. A handler writes the run's row and then
its job in two statements; a worker reads the row after it claimed the job; the
kernel takes the lock after it read the row; the loop writes the row after each
step. Timers of the worker (heartbeat, lease) run beside its main sequence.

    upload --claim, blob--> artifact --assessment, job--> governance worker
      --fenced finalisation--> manifest --sweep or read--> decision

Every API process runs a governance worker, and every public read of an
undecided assessment issues its decision. Deployments read a run's row once and
share nothing with its execution. State-machine runs share the table
`agent_runs` with kernel runs, and no row of it.

    page --request, cookies--> session row --> handler --> project tree, history, runs

A handler that works on a project looks at the rows of its runs first, and the
page learns of all this from answers that may be older than what it shows.

## 2. Plan

The order is by weight: what all products of the backend stand on comes first.

| step | modules | proofs |
|---|---|---|
| 1 | `LifecycleGraph` | |
| 2 | `JobOutcomes` (abstract), `RunJobs` (implements it) | `RunJobsProofs` |
| 3 | `RunExecution` (composes `RunJobs` with workers, lock and handlers) | `RunExecutionProofs` |
| 4 | `KernelLoop`, `ValidationCorrections` | `KernelProofs` |
| 5 | `AutoCorrection`, `CorrectionPolicy` | `ServerProofs` |
| 6 | `DecisionRecord` (abstract), `GovernanceJobs`, `Assessments` (implements it) | `GovernanceProofs` |
| 7 | `Deployments`, `StateRuns` | `ServerProofs` |
| 8 | `ArtifactIngestion` | `GovernanceProofs` |
| 9 | `AtomicSteps` (abstract), `StepTransaction` (implements it) | `StepProofs` |
| 10 | `ExecutionContracts` | `RunsAndPageProofs` |
| 11 | `ReadinessChecks`, `ProjectActivity`, `Accounts`, `Sessions` | `ProjectProofs` |
| 12 | `ControlRoom` | `RunsAndPageProofs` |

All modules are written and checked, and every safety property that a passing run
checks is a theorem. Liveness stays with TLC (section 6).


## 3. The modules and the code

**`LifecycleGraph`** holds the two graphs as functions from a status to the set
of its successors, and the edge test.

**`RunJobs`** has two variables, the tables. Every method of `AppStore` on them
is one action, because every one is one SQL statement: `EnqueueRunJob` with the
partial unique index as its first guard, `ClaimNextRunJob` with the sub-select
as `Claimable`, and the operations that share the WHERE clause `HeldBy`. Time is
one bit per row: a lease is live or expired, and `LeaseExpires` is an action
that may happen whenever a lease is live. `SKIP LOCKED` lets a claim return any
claimable row, so the order by age is not relied upon. Left out: `attempt_count`
(only logged) and `required_capabilities` (NULL in every job the code creates).
Any node may call any operation at any time, which is more than the workers do.

**`JobOutcomes`** is what the queue promises: a job is submitted for a run that
has no pending one, and resolved once. `RunJobs!Outcomes` is the refinement
mapping: queued, claimed and running are all *pending*.

**`RunExecution`** instantiates `RunJobs` as `Q` on the same two tables and adds
`runs` (agent_runs: status, index, lock owner, and whether the lock's timestamp
is older than the staleness limit), `effects` (how often each step was
committed), `w` (each worker process: program counter, pid, job, the loop's own
index, a pending error), and `api` (the next statement of the handler of a run).
A worker is a sequential program: each await on shared state ends an action.

| program counter | code |
|---|---|
| `idle`, `claimed` | `claimNextRunJob`, `markRunJobRunning` in the worker's main loop |
| `read` | `executeRunJob` reads the run; a complete one is handed back |
| `acquire`, `setRunning` | `executeLoop` takes the lock, writes `running` |
| `refresh`, `exec`, `advance`, `stepFailed` | one iteration: refresh the lock, execute, commit and record the step, write the row |
| `release` | the finally block |
| `complete`, `markRead`, `markWrite`, `fail` | settle the job; `markRunFailedIfNeeded` is a read and a write |

`running`, `correcting`, `optimizing` and `validating` are one status here, and
`index` counts the steps of the original plan: corrections belong to the step
they repair. Both are the subject of `KernelLoop`. `cancelled` does not occur:
the only cancelling code selects runs with `provider_id = 'state-machine'`, so a
kernel run is never cancelled. Nothing forbids a second commit of a step:
the unique index of `agent_steps` includes the attempt, and a re-execution
records a new attempt (`lib/project-store.ts:1975-1982`).

The lock owner is pid, node and job, as `buildRunLockOwner` composes it: a
restarted container may reuse its pid, so `Pid` has two values and a restarted
worker may or may not be the same owner as before.

Two ghosts: `overslept` marks a worker whose lock went stale since it last
refreshed it; `swallowed` marks a run for which an error was caught and dropped
on the way to its row or its job.

**`KernelLoop`** is `executeLoop` from the inside, for one run and one executor.
The plan is a sequence of kinds (`modify`, `preview`, `runtimeFix`, `heavyFix`),
corrections are spliced into it as the code does it, and the counters at entry
are counted from the stored plan. `loop` holds the locals, with one program
counter per phase of an iteration: validate, record (policy and
`createAgentStep`), route (which of the two corrections, failure, delivery guard
or advance). Commits and worktrees appear as two ghosts, `validated` (nothing
was committed since the last passing validation) and `preview` (how the last
preview went). Crashes, thrown errors, the re-execution of a failed run, and
resumes share the bound `MaxReentries`. `executeWithValidationAutoCorrection`
returns right after `executeLoop` on the worker path, which uses the profile
`default`; what the builder profile adds are the next two modules.

**`AutoCorrection`** is one call of `executeWithValidationAutoCorrection`, with
an execution as a step that ends complete, refused by the precommit invariants,
or failed. `builderRun` is the row, `caller` the locals with their two counters,
`request` a validate request that looks at the row once and writes its verdict
later. `pc` names what the call does next: `executed` is where the code asks how
the last execution ended, `validate` and `decide` are the outer loop. The ghost
`ofLast` says whether the stored verdict is about the run's last commit.

**`ValidationCorrections`** is what the same call corrects, and how. `project`
is the workspace as validation tells it apart: for each module that may be
missing, whether it is absent, a stub, a placeholder or real and how it is
imported, and the other faults. `builder` is the row with the steps that are yet
to execute, `repair` the locals (the attempt, its phase, what missed), `records`
the learning events and the debt artifacts. A profile is computed from the
project (`Profiles`: the failing clusters as the classifier orders them), a
correction chosen from the profile and the records (the import recipe, or
`PlanCorrection` with its escalations), its steps appended, executed, refused or
committed, and the outcome recorded, each where the code does it. Debt
resolution is an attempt of its own. The ghost `slips` marks a lost record and a
step of a refused plan that was come to later.

**`CorrectionPolicy`** is one correction after the other: `ChooseIntent`
and `Constraint` say what is planned for a failure, `step` is the correction in
the plan, `change` what its tool proposed (files, size in kB, areas of the tree
it touches), `record` how it was judged, and `spc` where the execution is:
applied, committed, failed, or about to queue the next one. `contract` may be
replaced by a resume meanwhile. Paths are areas, one per prefix that some constraint tells apart.

**`ExecutionContracts`** keeps of a configuration the profile and one field that
a preset may fix and the environment may give; `Resolve`, `Overlay` and
`Requested` are `resolveExecutionConfig`. A handler is a request or a claimed
job; `AfterRead` and `Decide` are the checks of `prepareResumeExecutionConfig`
and `executeRunJob`, and each write of metadata is a step. `Redeploy` replaces a
process by one of another release or environment. The ghost `outdated` marks a
handler whose run's metadata were rewritten since it read them. Runs without a
contract, or without a verdict on its support, are those of earlier releases.

**`StepTransaction`** is a run's worktree, its commits, its row's pointers and
one file session: stage, apply file by file, guard, restore from backups,
`git add`, `git commit`, pointers, index, with a crash between any two and
failing writes and commands, and `recoverRunWorkspaceIfNeeded` on the next
entry. A step's changes are a function from some files to what they become.
**`AtomicSteps`** is what it promises: the branch grows by whole steps and is cut
back only to a commit it held; the mapping takes the chain of parents of HEAD.

**`ArtifactIngestion`** has the claim row, the artifacts, the blobs and the
upload requests, each a program: claim (or take over, or be answered from a
completed claim), put the blob, end the copy, build the manifest, renew, commit.
A lease is one bit, `lapsed`; a lapse under a live owner is a fault. A crash
inside the copy leaves the blob `partial`.

**`GovernanceJobs`** has the statements on the job's row, and `Holds`, the fence
they share. **`Assessments`** composes it with the assessment's and attempt's
rows, the links, the manifest, the workers and the issuers. The worker's way out
of an evaluation is a list `todo` of status writes, taken one by one: only the
job's are fenced. A lost write is dropped or thrown as its caller treats it.
**`DecisionRecord`** is the promise: evidence once, then a decision from it.
`GovernanceJobs` holds one job, as an assessment gets one.

**`Deployments`** has the rows, a program per request and pipeline, the
in-memory flag of the project, the containers that run, and the server.
`MarkIncomplete` runs when the server starts and when another process opens the
store. Requests of one project may pass the check together, as in the code.

**`StateRuns`** has the run's row and its step rows, and per process the set of
keys (one bit here) and where its drain is: a step is a transaction, then the
worker learns what to do with the key. Ticks, cancels and resumes come from
anywhere in between. Transactions are one action; a tick may thus carry a queued
run to `complete` in one.

**`ReadinessChecks`** is two programs on one host: the readiness check (`rpc`:
worktree, heavy validation command by command with its boot, the docker checks,
the verdict) and the preview tool (`ppc`). `port` is what each attempt to boot
was handed, `listener` who really listens there, `app` whether the application
lives; a port is found by listening on port 0 and closing, so two may be handed
the same one. `worktrees`, `containers` and `images` are what exists on the
host. The ghosts are `mishaps` (commands cut or failing) and `answered` (who
answered a probe).

**`ProjectActivity`** has a project's `history` as it is rewritten whole, the
`objects` of its repository and its `live` tree, `rowStatus` of the runs by which
requests look for one another, and a program per request (`handler`): check the
rows, insert one, change files, commit, read the history, write it back.
`prompts` is the window of the rate limit. A request is a kind: creation (with a
template, with a first run or without), a prompt, an edit, a commit by hand, a
report. The ghost `met` remembers which requests were under way, unseen, when
one was admitted.

**`Accounts`** has the tables as sets and functions (`users`, `roles`, `orgs`,
`workspaces`) and a program per request (`visit`), which writes row by row, may be
cut anywhere, and tries slugs with a counter. A unique index is a guard; its
violation is the error path. The ghost `given` marks roles a manager has set.

**`Sessions`** has the session rows, the browser's one pair of cookies, the tabs
with one refresh each, and the calls. A token is a number, its hash the same
number; reading the hash, comparing, and writing the successor are separate
steps. The ghost `trouble` marks sessions refreshed by two tabs at once or whose
refresh was lost.

**`ControlRoom`** has the page's one state, a task per gesture and one for the
poll, and what the backend holds. A task is a sequence of calls and what is done
after each answer: what it read before its await and what it reads afterwards are
told apart. A timer is in the page (`Synced`). The ghost `awry` marks gestures
that overlapped and calls that failed.

**Scenes.** `MCRunJobs`, `MCKernelLoop`, `MCGovernance`, `MCServer` and
`MCProjectChecks` put parts that share no state into one run: a variable `scene`
says which part a behaviour is about, and the others rest. `MCRunJobs` has three
(queue, contracts, page), `MCKernelLoop` two (loop, corrections), `MCGovernance`
two (ingestion, assessment), `MCServer` five (step, correction, deployment,
state run, policy), `MCProjectChecks` four (readiness, activity, accounts,
sessions). `Assessments` and `ArtifactIngestion` do share the blobs, and the
theorems about them are for the full interleaving (`GovernanceSpec`).

Operators commented "Faulty variant" stand before the definition they vary:
each is the definition as a plausible mistake would have it. No specification
uses them. Each property is known to be violated when its variant (listed in
`PROJECT.json` under `mutants`) replaces the original.

## 4. The runs

| run | instance | distinct states | shows |
|---|---|---|---|
| `queue` | 2 runs, 2 nodes, 2 roles, 3 job rows; or contracts of 2 runs, 2 handlers, 2 requests, 1 redeploy; or a page with 2 projects, 3 gestures, 1 missed call | 521,617 | one active job per run, rows move by the rules, refinement of `JobOutcomes`; what is executed is the stored contract, which changes on request only; the page shows one project and deploys what passed |
| `execution` | 1 run of 2 steps, 2 nodes, 2 pids, 2 job rows, 1 resume, 2 faults | 592,946 | lock and executor exclusion, no step skipped, queued runs have jobs, refinement of `RunJobs` |
| `execution_live` | as above with 1 fault, under `FairSpec` | 181,622 | every job resolves, every run settles |
| `kernel_loop` | plans of 1 and 2 steps, all modes, budgets 0..2, 2 signatures, 2 re-entries; or corrections with 1 module, 1 other fault, 2 attempts, 2 retries | 1,347,888 | budgets, validation, previews, end of the run and of the loop; stub debt is told, stalls escalate |
| `governance` | 2 uploads of 2 digests; or an assessment, 2 workers, 1 reader, 2 claims, 2 validators; 2 faults | 366,029 | one artifact per key, evidence and decision once and together, refinement of `DecisionRecord`, every job ends |
| `server` | step: 2 files, 2 steps, 3 commits, 3 faults; correction: 2 attempts, 3 retries, 1 request; 3 deployments, 2 faults; state run: 2 processes, 3 steps, 1 death; policy: 2 corrections, 1 resume | 385,183 | refinement of `AtomicSteps`, pointers, bounded correction and its verdict, served projects stay served, counters and rows agree, corrections stay confined, pipelines and driven runs end |
| `project_checks` | readiness: 2 ports, 1 failing script, 1 mishap; activity: 3 requests, 2 at once, history of 2, 1 crash; accounts: 3 requests, 2 addresses, 2 slugs, 1 cut; sessions: 2 tabs, 3 calls, 2 sessions, 1 lost refresh | 2,248,172 | a YES is earned, what was taken is given back, mutations exclude, activity is told, accounts are whole, sessions are kept |

**Properties worth a word.** `LockExcludes` has two parts. `SectionHoldsLock` says
more than mutual exclusion: no release, reclaim or restart frees the lock of a
worker that is still executing, even when the pid is reused. `OneExecutorPerRun`
holds although two workers may both believe they hold the job; only the lock
separates them, and it does so except for a worker that overslept (a step longer
than `AGENT_RUN_LOCK_STALE_SECONDS`, during which the lock is not refreshed).
`NoStepSkipped` covers such workers too: the write that ends an iteration comes
from the loop's own index and overwrites the row, so the index may go *back*, but
never ahead of what was committed. `QueuedRunHasJob` names every way in which a
queued run is left alone: the handler is between two statements, or an error was
swallowed (a resume that collided with a job about to end, a handler that died,
a failure mark that did not reach the row).

`EndsValidated` is about a complete run: it passed heavy validation, if that is
on, with nothing committed afterwards, and no preview of it failed, whichever
execution spliced in what came after. `StubDebtKept` and `StallsEscalate` hold
but for lost records and for *leftover steps*. When the precommit invariants
refuse a step of a correction, its plan's other steps stay in the row's plan, and
the retry appends its own behind them. So a retried attempt executes what was
planned for a state that is gone: a debt resolution may then run before the
recipe that makes the stub it is to resolve, and validation is asked after a
phase nobody chose last. A stub left behind that way is told by no artifact,
where `docs/contracts/artifact-contract.md:17` expects one.

`StepsAreAtomic` is two promises. A commit always holds one whole step and
nothing else. A reset stays on the branch until a third fault: a commit and two
resets, each cut off from its write of the row, are what it takes to reset to a
commit that a reset had cut away. `LastValidTrailsHead` says how far the row may
lag behind the branch: not at all without a fault, by one commit after one. With
two faults (the commit is made and its hash cannot be read; then the recovery
resets the branch and dies before the row) it fails, which is why the property
counts faults.

`ServingKept` speaks of steps: no step takes the active deployment's container
away from a project that has one, though two pipelines may run side by side and
each stops what was active when it began. `CorrectionSound` is
`CorrectionIsBounded` and `VerdictIsOfLastCommit`. `CorrectionsConfined` relates a
recorded correction to three documents: the constraint it was planned under, the
contract then, and the contract now. `ExecutesStoredContract` and `ContractKept`
except handlers whose copy of the metadata is out of date: an override during an
execution does not reach it, and a contract attached to a run of an earlier
release overwrites what came between.

`KeyNamesOneArtifact` (`AnswersAgree` and `OneArtifactPerKey`) and
`DecidedOnEvidence` (`FinalizedTogether` and `CompleteIsDecided`) are about
fences that some writes have and others have not.

`MutationsExclude` names the two windows that the look at the rows leaves open:
a request whose row is yet to be inserted, and a builder's run between an
execution and its correction. `ActivityTold` says what is promised to a request
that met none in such a window, and no more is promised to others: history and
repository are both rewritten whole. `AccountsWhole` lists what a cut request may
leave, and nothing else is left. `SessionKept` says that one refresh at a time
per tab is what keeps a session from being ended as reused. `VerdictIsEarned`
holds the readiness verdict against every check behind it, and against the port
that may have been somebody else's. `GivenBack` lists what may stay on the host.
`PageKept` has one promise per kind of trouble: gestures that overlap may mix
projects in what is shown, but never deploy what did not pass.

`EverythingSettles` is `JobSettles` and `RunSettles`. `DrivenRunEnds` (of
`ServerSettles`) covers a cancel and a resume that come while a worker executes a
step; it excepts the death of a process, whose set of keys nobody else has.
`AssessmentSettles` excepts a finding that another assessment of the same inputs
was decided on: the decision hash is unique across assessments, and the second
one stays `DECIDING` for ever. `DeploymentSettles` (also of `ServerSettles`)
excepts failed writes of the row: a failure mark that is not written bars the
project's deployments until a process starts.

**Runs that refute a document.** Five runs check one property each that a
contract document or a test states and the code does not keep.

| run | document says | what happens |
|---|---|---|
| `reclaim` | adversarial-reliability-matrix: worker B reclaims the job of a dead worker "and executes the same run" | the lease is out after 60 s, the dead worker's lock after 30 min: B is refused the lock and marks run and job failed |
| `step_once` | the same: step side effects "must remain exactly-once" | a crash between the commit of a step and the row's index leads to a second commit |
| `resume` | state-machine: "only failed and cancelled runs may transition back to queued" | `queueResumeRun` turns away complete runs only: a running run becomes queued under its worker |
| `complete_final` | state-machine: `complete` is terminal | status read before the lock, written after it: a second worker puts a complete run back to running, for good |
| `decision_race` | governance-postgres-integration.test.ts:802: issuance is "concurrency-safe and idempotent", the assessment is COMPLETE after two issuers (line 840) | the slower of two reads finds the assessment COMPLETE where it expects DECIDING, takes that for an error and writes ERROR over it |

Another disagreement was met and has no run: the run graph of
`docs/contracts/state-machine.md` has no edge from `validating` to `correcting`,
and the kernel goes that way when heavy validation of a last step that is a
preview fails with no heavy correction left and a runtime correction in the
budget (`agent/kernel.ts:4128`, `4356`, `3618`).

### Bounds

- *Two nodes.* A job is contended by its holder and one taker; a third node adds
  another taker of the same kind. The proofs hold for any number.
- *One run in `execution`.* Workers of different runs meet only in the queue,
  which `queue` checks with two runs and three rows (one run enqueued twice
  beside another). The proofs hold for any number.
- *Two steps.* A first step, a last step and the boundary between them.
- *Two faults* in `execution`: enough for a fault during the recovery from
  another (a late lease and then a crash of the taker, a stale lock and then a
  swallowed error). One in `execution_live`, see below.
- *Three job rows* in `queue`, *two* in `execution`: a run is enqueued again after
  its job has ended. Rows are never reused, so further rows repeat the second.
- *Budgets 0..2, two re-entries* in `kernel_loop`: no budget, the last correction
  and one before it, each in one execution or spread over up to three. Blocking
  counts of 1 and 2 can grow, shrink and repeat.
- `effects` saturates at 2: the properties tell 0, 1 and more apart.
- *Corrections*: one module that may be missing and one other fault, so that a
  project has both; the two attempts of the code and two of its three retries,
  so that a leftover step is met by a leftover step. The proof is for all three.
- *Two uploads, two faults*: an owner outlives its lease and another takes the
  key over, then one of them crashes or fails. *Two workers, two claims, two
  faults*: a worker loses its job to the other, at the cap or below it, and both
  write on. One reader and each worker's recovery sweep make three issuers.
- *Two files, three commits*: a step applied in part; a commit made again.
  *Three faults*: the first with which a reset leaves the branch.
- *Two attempts, three retries* of `AutoCorrection` are the constants of the code.
- *Three deployments*: two pipelines side by side and one that was active before.
- *A goal of two steps, limits up to three, one optimization*: below, at and past
  the goal; a limit that ends the run before it, at it and never.
- *Two handlers, two requests, one redeploy* on contracts: a request races with a
  job, one of them in another release or environment.
- *Policy*: contracts below and above the caps of the intents, changes below and
  above both; a second correction after a resume under another contract.
- *Page*: two projects, so that one is left for the other; a file that is being
  opened and two gestures more; one poll or call that fails.
- *Two ports, one mishap*: check and preview may be handed the same port, and
  one command of either is cut. *Three requests, two at once*: two that meet, and
  one that comes after one of them. *Two addresses, two slugs*: two organizations
  and a third that finds no slug. *Two tabs, two sessions, one lost refresh*: a
  session refreshed twice at once, and one that follows it.

`queue` is checked under permutation of nodes and of handlers,
`execution` under permutation of nodes and of pids, and `project_checks` under
permutation of what its scenes share as names; initial states, steps and
properties treat all of them alike. `execution_live`, and with it all checks of
liveness, use no symmetry. `kernel_loop`, `governance`, `decision_race`,
`server` and `project_checks` do not check deadlock, as what they model stops
when the run has ended, the assessment is decided or the requests are over; the
other runs do. In `queue` contracts and a page where nothing is under way may rest
by a step of their own, so that the check is about the queue.

## 5. Fairness

`FairSpec` of `RunExecution` assumes:

- *Weak fairness of `WorkerStep(n)`*: a live process takes its next step. Each
  worker is a loop of awaits without waits on other workers; a refused lock
  throws, it does not block.
- *of `Start(n)`*: a process that is down is started again, as the deployment's
  restart policy does. Without it nobody may be left to reclaim a job.
- *of `Exit(n)`*: a process that was told to stop does exit.
- *of `LeaseExpires(j)` when nobody attends to the job*: the clock moves on.
- *of `ApiStep(r)`*: a handler finishes unless the server dies, which is a fault.

None of faults, renewals, late timers or resumes is fair. Faults are bounded, so
the liveness properties say what happens *after* the last one.

`RunSettles` allows a run whose index is the plan's length with status running:
that is the run `complete_final` shows, which no later step moves. With two
faults `RunSettles` does not hold, and the code promises nothing to the
contrary: n1's lease is late, n2 claims the job, is refused the lock and takes
the failure path; n1 writes `running` over the failed run and then crashes. The
job is failed, the run stays running, and nothing requeues it. So
`execution_live` has one fault.

`AssessmentFairness` assumes that a process that died is started again, that a
live worker, issuer or request takes every step it can (a stop is not one), that
a lease nobody renews lapses, and that a client reads its assessment until it is
decided: a decision that no sweep issues is issued by a read. `DeployFairness`
assumes that a pipeline's external commands end one way or the other (the code
sets them no timeout: a build that hangs bars its project until the server is
restarted) and that a dead server is started again. `StateRunFairness` assumes
that a live process runs its drain on and ends requests it has begun; nobody is
assumed to tick.

`KernelLoop` assumes weak fairness of `Enter` (a claimed run is entered) and of
`Iteration` (the loop keeps going while its process lives). The scenes of
`MCProjectChecks` and of the page assume none: nothing is promised there but
safety.

## 6. What is proved

All theorems hold for any sets of runs, nodes, workers, uploads and so on and any
values of the bounds. They assume what the constants must satisfy: named
assumptions beside the constants (bounds are naturals, a plan is not empty, NULLs
are not values, a cap of a contract is within its schema). TLC evaluates them in
the runs. Every invariant of a passing run is a theorem, and so is every property
of such a run that is about single steps or is a refinement.

**`RunJobsProofs`**: all that `queue` checks of `RunJobs`, and two facts the
proofs need that no run checks: who holds a job has a lease or had one
(`OwnerAndLeaseMatchStatus`), and is registered in its role
(`OwnerHasTargetRole`). The inductive invariant `IInv` is the conjunction of
these and `OwnedJobHasRole`: a job that was ever owned has a real role. Without
it a node might own a row of no role, register in any role, and break
`OwnerHasTargetRole`. `RowsMoveByTheRules` and the refinement of `JobOutcomes`
follow from `IInv` step by step: an enqueue is a `Submit`, whose guard is the
partial unique index; completion and failure are `Resolve`; all else stutters.

**`RunExecutionProofs`**: all that `execution` checks. The inductive invariant
`PInv` adds to the types and to `IInv` of the queue: a busy worker has a job
with a run (`JobInHand`), a live worker is registered (`RegisteredWhenUp`), a
worker inside an iteration has an index inside the plan (`StepInPlan`), and the
step that makes the lock argument go through, `StaleOwnerOverslept`: the owner
of a stale lock, if it is still executing, has overslept. A takeover needs a
free lock, one's own, or a stale one; so it can only hit a worker marked
overslept, and a worker loses that mark only by a refresh that finds its own
name in the row. Actions that touch no lock are handled by one lemma. Since the
composition is shown to use the queue as `RunJobs` allows, the theorems about
`RunJobs` carry over.

`NoStepSkipped`: the rows' indexes are written from worker memory, so the
invariant must speak of that memory. `PlanBehindCommitted` says that everything
before a worker's index is committed, and the step at its index too once it is
about to advance. It needs no lock: workers that overslept write stale indexes,
and those are behind the commits as well.

`QueuedRunHasJob`: a job that ends must not leave a queued run behind, so
`SettledRunNotQueued` says that a worker about to settle the job it holds has
seen its run leave the queue, or a handler has queued it since and will enqueue
a job or learn that it collided.

**`KernelProofs`**, the loop: types, `CorrectionsWithinBudget`, `EndsValidated`.
`KInv` adds four things. The corrections of a run are counted twice, in the
locals of an execution and, for the next one, in the plan (`CountsAgree`). What
is due at each place of an iteration was affordable when it became due
(`LoopPlace`). A last step that was recorded completed was validated
(`LastStepValidated`), and a failed preview has another one ahead of the run
(`PreviewAhead`). What the count of a spliced plan is follows from cardinalities
of index sets: a splice is a bijection of the old indexes and one more.

The corrections: `StubDebtKept`, `StallsEscalate`. Neither is near to inductive: a
stub is made attempts before its debt is told, and a stall is recorded two steps
before it is asked for. `CorrectionsInv` says where an attempt is in its plan
(`AttemptPlace`), where a resolution of debt can be (`DebtPlace`) and what lies
behind one (`ClosedDebt`), and who still answers for a stub (`StubsTold`) and for
a miss (`MissesStall`). TLC checked it with three attempts and two retries
before it was proved; the theorem is for any numbers of modules, faults,
attempts and retries.

**`StepProofs`**: `LastValidTrailsHead`, `StepsAreAtomic`, and that
`StepTransaction` implements `AtomicSteps` until a third fault. `History` and
`Ancestors` are recursive functions of the commits, and what a recursion yields
usually takes induction. Here it does not: that the recursive equations have
exactly one solution is itself an invariant (`OneHistory`, `OneAncestry`), true
of no commit and preserved as a commit adds one argument at the end. `GraphInv`
says of objects that they are whole steps on top of older ones, `SessionInv`
ties the step in progress to the worktree, and `TrailInv` says how far the row
may be behind after no fault, one and two, by the place of the execution.

**`ServerProofs`**: `ServingKept` of deployments. `ServingInv` is the state that
makes every step keep it: the active deployment is ready and its container runs,
what a pipeline may still stop is not active, and one deployment is active at
most. `CorrectionSound` by an account: `ExecutionsPaid` says that executions so
far are at most the first one, what the attempts counted so far paid for, and the
retries charged to the current one; `VerdictStands` who may still write a verdict
on which commit. `StepRowsTellTheRun` from `StateInv`: rows are the indexes in
order, and the counters are functions of their number. `CorrectionsConfined` from
`PolicyInv`: a step in the plan fits the contract it was queued under, which is
the one in force unless it was replaced (`WithinContract`), and what has got past
a check passes it (`PassedChecks`). `ServerTypeOK` joins these and `StepInv`.

**`GovernanceProofs`**, ingestion: types and `KeyNamesOneArtifact`. Its parts
speak of pairs; what is inductive is what each answer has to do with the claim
(`AnswersTellTheClaim`), which never changes once it is COMPLETE. `CopiesApart`
says that a blob under copy has one writer, so that an intact one stays so.

The assessment: types, `DecidedOnEvidence`, `PartialBundleNeverFinalized` and the
refinement of `DecisionRecord`, under `GovernanceSpec`, where uploads and the
assessment interleave in every way (the run `governance` has one or the other).
Whoever finalises holds the job, so the job is not COMPLETE and, by
`FinalizedTogether`, the manifest not written. Unfenced writes are kept away
from the argument by the type of a worker's list (`StatusWrite`): nothing on it
makes the status DECIDING or touches the manifest. `FindingBacked` and
`VerdictBacked` say that evidence rests on an intact bundle and that an issuer
carries the manifest's finding. `GovernanceTypeOK` is proved of the run's own
specification as well.

**`RunsAndPageProofs`** is about the two scenes of `queue` beside the queue's own.

*Contracts*: `ExecutesStoredContract` and `ContractKept`. A handler acts on a
copy of a run's metadata; `CopyFits` is what the copy has to do with the row for
as long as the handler is not outdated: a contract about to be attached is the
one that is there, if one is, and what is about to execute is what is stored.
`StoredIsContracts` (a contract's configuration is the run's) makes a copy fit
when it is read, `HandlersSound` that only a resume that asked overrides.

*The page*: `PageKept`, from an invariant about what is under way (`RoomInv`).
Some of it holds whatever overlaps or fails: the form of every call
(`TasksSound`); `Promoted`, that what was deployed was complete and passed on the
server; `Settled`, that the timer fits the list unless another list is on its way
to set it. As long as no two gestures overlap, `CallsAbout` says of a gesture's
call that it is about the project and the run that are shown, or that it is the
only call and will change what is shown; so an answer lands where it belongs, and
a file is saved where it was read (`FilesFit`). `SignedIn` says that a page with a
user has the server's session: a call is denied only after the user has signed
out, when the one call of a gesture that can be under way is the sign-in. As long
as nothing failed either, `PageFits` says that what is shown of another project
or run is being read anew; no gesture at work, nothing is, and all that is shown
is of one project. `PollFits` is about the one handler nobody waits for: the logs
it asks for are of the project it was begun for. An answer it gets when another
project is open counts with the calls that failed (`cut`). `RoomAssumption` asks
for a project and for a `Null` that is neither a project nor a run.

Both, and `TypeCorrect` of the queue, give `QueueTypeOK` of the run's own
specification: a behaviour about one scene is one of each, for the others stand
still.

**`ProjectProofs`**: each scene of `project_checks` has an inductive invariant.
`AccountsInv` follows a founding from its slug to its answer (`FoundingsGoOn`,
`PlacesTaken`). `ActivityInv` rests on `AllMet`: any two handlers that may change
files met each other, or the rows tell of one of them. `ToldInv` strengthens it
for `ActivityTold`: a request that met nobody was under way by itself, so every
copy of the history about to be written back was read by somebody who knew its
answer (`DoneKnown`) and tells of it too (`HistoryTells`); it found the tree clean
and leaves it so (`AloneClean`); and its commit is on the branch of HEAD and of
every commit somebody may yet roll back to (`CommitsKept`). `Branches`, a
recursive function, is reasoned about as in `StepProofs`: that there is one
solution for the objects at hand is itself invariant (`OneBranching`).
`SessionsInv` follows the refresh token: `CookiesFit` and `RefreshesApart` say
which refreshes of one session may be under way at once, `EndsHold` what keeps an
ended session ended. `ReadinessInv` ties a place in the check to what has been
reported (`StagesReported`, `ReportsMeant`), to ports (`PortsMatch`) and to what
exists on the host (`StoreHeld`).

**Model-checked only.** Liveness and everything under fairness, which is out of
the prover's reach: `EverythingSettles`, `LoopTerminates`, `AssessmentSettles`,
`ServerSettles`. The five refuted properties are, of course, not theorems.

## 7. What is not modelled, and why

- *The plan as an overwritten value.* A worker that overslept also writes its
  copy of the plan. `RunExecution` counts steps only and `KernelLoop` has one
  executor, so lost corrections of two executors are not covered.
- *Local run wait*: the worker of `RunExecution` with a filter on the run and a
  deadline, which ends after a failed job.
- *`resumeRun`*, the synchronous resume: nothing in the source calls it.
- *Project mode* of step transactions: with the project's own tree for a worktree
  a step commits there and nothing is restored by a reset. What requests do to
  that tree is `ProjectActivity`.
- *Rescheduling delays* of governance jobs, and the workers' `stop()`: its comment
  (`governance-worker.ts:79-82`) says that it waits for an evaluation in flight,
  and it does not; `Assessments` models the cancellation it does cause.
- *Which of two errors is thrown.* A worker of other policy versions refuses a
  job by CONTRACT_MISMATCH, since it trusts the stored verdict on support, where
  `docs/contracts/upgrade-semantics.md` has UNSUPPORTED_CONTRACT. Either way it
  does not execute the run, and that is what the model says.
- *Two things `CorrectionPolicy` takes from the code.* A heavy validation that
  fails on architecture alone yields no parsed failure, so its correction is of
  unknown intent, although `agent/correction/__tests__/failure-classifier.test.ts`
  (lines 5-23) gives the classifier a report from which it reads
  `architecture_violation`. And `AGENT_CORRECTION_POLICY_MODE` defaults to
  `enforce`, where `docs/configuration.md:72` has `warn`; the model has all modes.
- *Graph revisions, traces and governance of graphs*: inserts under unique keys.
  `POST .../state-runs` inserts a graph node for a fresh id before there is a row
  of that id in `agent_runs`, which the node's foreign key
  (`lib/graph-store.ts:110`) asks for; `StateRuns` begins where the run service
  creates the run.
- *Passwords, signatures and rate limits by address*: taken as passing or not; the
  window of builder prompts is in `ProjectActivity`.
- *Rules of the structural validators*: `agent/validation/` reads sources and
  reports violations; the models take any verdict and any set of faults.
- *Planner, providers, tools other than the preview*: their results are taken as
  any result their type allows (a plan, a failure, changes of files).
- *The control room's forms* for organizations, workspaces, members and new
  projects, its git history and diffs, filters, and everything that only draws.
- *Contract computations and hashes*: functions of documents.
- *Templates, learning telemetry, harness, CLI output*: data, reports and drivers
  without shared state of their own.

The last groups, with the routes' parsing and rendering, are more than half of
the implementation's lines (templates alone are 3,900, the CLI 3,000), so the
share of lines that definitions stand for stays well below what the models cover
of the state the program keeps.

## 8. Running

    tlc -workers 2 -config MCRunJobs.cfg MCRunJobs
    tlc -workers 2 -config MCRunExecution.cfg MCRunExecution
    tlc -workers 2 -config MCRunExecutionLive.cfg MCRunExecution
    tlc -workers 2 -config MCKernelLoop.cfg MCKernelLoop
    tlc -workers 2 -config MCGovernance.cfg MCGovernance
    tlc -workers 2 -config MCServer.cfg MCServer
    tlc -workers 2 -config MCProjectChecks.cfg MCProjectChecks
    tlapm RunJobsProofs.tla

and likewise for the other configurations and proof modules. Every run ends
within minutes, and so does every proof module.
