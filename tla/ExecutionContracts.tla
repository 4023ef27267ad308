------------------------- MODULE ExecutionContracts -------------------------
(***************************************************************************)
(* The execution contract a run carries in its metadata: created, resumed  *)
(* in place or by a fork, overridden, attached to a legacy run, checked    *)
(* and executed, by processes whose environments and policy versions       *)
(* differ.  A handler is one request or one job in one process.  The lock  *)
(* of an execution is left to RunExecution: executions may overlap here.   *)
(*                                                                         *)
(* Of the thirteen fields of a configuration two are kept: the profile,    *)
(* and one whose value the ci preset fixes and the environment gives under *)
(* the full profile.                                                       *)
(***************************************************************************)
EXTENDS Naturals

CONSTANTS
  ContractRun,
  Handler,
  Setting,            \* values of a field
  OffSetting,         \* the value the ci preset gives its fields
  Unset,              \* the field is not given; nothing there
  NoContract,         \* at least one of the contract's keys is missing
  MaxPolicyVersion,   \* bound: policy versions that differ between releases
  MaxHandled,         \* bound: requests
  MaxRestarts         \* bound: processes replaced by another release or environment

ASSUME ExecutionContractsAssumption ==
  /\ OffSetting \in Setting
  /\ Unset \notin Setting \cup {"full", "ci"} \cup ContractRun
  /\ MaxPolicyVersion \in Nat \ {0}
  /\ MaxHandled \in Nat
  /\ MaxRestarts \in Nat

VARIABLES
  contractRows, \* the rows: status, metadata.executionConfig, the contract's other keys;
                \* a run that is queued, running or failed is "open"
  contractJobs, \* the run's active job: none, queued, or the handler that claimed it
  handlers,     \* locals of the kernel's methods
  process,      \* per handler, the environment and policy versions of its process
  outdated,     \* history: handlers whose run's metadata was rewritten since they read it
  handled,      \* requests so far
  restarts

contractVars == <<contractRows, contractJobs, handlers, process, outdated, handled, restarts>>

Profile == {"full", "ci"}
Config == [profile : Profile, mode : Setting]

Nothing == [profile |-> Unset, mode |-> Unset]
PartialConfig == [profile : Profile \cup {Unset}, mode : Setting \cup {Unset}]

\* Bound: a request asks for one field.
ConfigRequest == {q \in PartialConfig : Unset \in {q.profile, q.mode}}

\* The policy versions a release is built with, all of them as one number.
Release == 1..MaxPolicyVersion

\* What the contract's keys hold, when all are there.
StoredContract == [config : Config, release : Release, support : BOOLEAN]

ASSUME NoContractAssumption == NoContract \notin StoredContract

-----------------------------------------------------------------------------
Given(value, fallback) == IF value = Unset THEN fallback ELSE value

\* normalizeExecutionConfig on a base configuration.
Overlay(raw, base) ==
  [profile |-> Given(raw.profile, base.profile), mode |-> Given(raw.mode, base.mode)]

\* The environment's fallback under the preset of the profile.
Preset(profile, env) ==
  [profile |-> profile, mode |-> IF profile = "ci" THEN OffSetting ELSE env]

\* normalizeExecutionConfig without a base.
Resolve(raw, env) == Overlay(raw, Preset(Given(raw.profile, "full"), env))

\* resolveExecutionConfig: a request that names a profile starts afresh from
\* the environment, any other one from the stored configuration.
Requested(request, persisted, env) ==
  IF request.profile # Unset THEN Resolve(request, env) ELSE Overlay(request, persisted)

\* executionProfile builder: validation is off while the run executes.
ForBuilder(config) == [config EXCEPT !.mode = OffSetting]

\* withResolvedExecutionContractMetadata, withExecutionConfigMetadata: the hash
\* and the material are determined by these.
Contract(config, release) ==
  [config |-> config, release |-> release, support |-> TRUE]

\* Faulty variant: the material is not compared, only the configuration.
MatchesConfigOnly(row, resolved, release) ==
  row.contract = NoContract \/ row.contract.config = resolved

\* assertStoredExecutionContract does not throw.
StoredMatches(row, resolved, release) ==
  \/ row.contract = NoContract
  \/ row.contract.config = resolved /\ row.contract.release = release

\* assertSupportedExecutionContract does not throw: a stored verdict counts,
\* whichever release reached it.
SupportAssumed(row, release) ==
  row.contract = NoContract \/ row.contract.support \/ row.contract.release = release

\* persistedNeedsNormalization.
NeedsNormalization(row) == row.contract = NoContract \/ ~row.contract.support

-----------------------------------------------------------------------------
HandlerIdle == [pc |-> "idle", kind |-> "none", run |-> Unset, request |-> Nothing,
                override |-> FALSE, config |-> Nothing]

NoRow == [status |-> "absent", stored |-> Nothing, contract |-> NoContract]

\* A row as an earlier release left it: without a contract and with any part
\* of a configuration, or with a contract, its support judged or not.  Bound:
\* the profile is not given, or full, and the release the one that runs.
EarlierRow ==
  LET Row(c, k) == [status |-> "open", stored |-> c, contract |-> k]
      Full == [profile : {"full"}, mode : Setting]
  IN
    {Row(c, NoContract) : c \in [profile : {Unset}, mode : Setting \cup {Unset}]}
    \cup {Row(c, [Contract(c, 1) EXCEPT !.support = judged]) : c \in Full, judged \in BOOLEAN}

ContractInit ==
  /\ \E row \in EarlierRow : LET first == CHOOSE r \in ContractRun : TRUE IN
       contractRows = [r \in ContractRun |-> IF r = first THEN row ELSE NoRow]
  /\ contractJobs = [r \in ContractRun |-> "none"]
  /\ handlers = [h \in Handler |-> HandlerIdle]
  /\ \E env \in Setting : process = [h \in Handler |-> [env |-> env, release |-> 1]]
  /\ outdated = {}
  /\ handled = 0
  /\ restarts = 0

-----------------------------------------------------------------------------
Env(h) == process[h].env
ReleaseOf(h) == process[h].release

\* A job's handler has its job still to end, a request's is over.
Ended(x) ==
  IF x.kind = "job" THEN [x EXCEPT !.pc = "end job", !.config = Nothing] ELSE HandlerIdle

\* The contract is settled; status is the row's as last returned.
Proceed(x, status) ==
  LET y == [x EXCEPT !.request = Nothing, !.override = FALSE] IN
    CASE x.kind = "fork" -> [y EXCEPT !.pc = "fork"]
      [] x.kind # "fork" /\ status = "complete" -> Ended(y)
      [] x.kind = "job" /\ status # "complete" -> [y EXCEPT !.pc = "start"]
      [] x.kind = "resume" /\ status # "complete" -> [y EXCEPT !.pc = "requeue", !.config = Nothing]

\* Faulty variant: the override flag is not asked for.
DecideUnasked(x, persisted, env, status) ==
  LET y == [x EXCEPT !.config = Requested(x.request, persisted, env)] IN
    IF y.config # persisted /\ x.kind # "fork" THEN [y EXCEPT !.pc = "override"]
    ELSE Proceed(y, status)

\* The second half of prepareResumeExecutionConfig: what is asked for differs
\* from what is stored, and neither an override nor a fork: it throws.
Decide(x, persisted, env, status) ==
  LET y == [x EXCEPT !.config = Requested(x.request, persisted, env)] IN
    CASE y.config = persisted \/ x.kind = "fork" -> Proceed(y, status)
      [] y.config # persisted /\ x.kind # "fork" /\ x.override ->
           [y EXCEPT !.pc = "override", !.request = Nothing]
      [] y.config # persisted /\ x.kind # "fork" /\ ~x.override -> HandlerIdle

\* The row has been read: the checks, and whether a write attaches a contract.
AfterRead(h, x, row) ==
  LET persisted == Resolve(row.stored, Env(h)) IN
    CASE ~StoredMatches(row, persisted, ReleaseOf(h)) -> Ended(x)
      [] x.kind = "job" /\ ~SupportAssumed(row, ReleaseOf(h)) -> Ended(x)
      [] OTHER ->
           IF NeedsNormalization(row)
           THEN [x EXCEPT !.pc = "normalize", !.config = persisted]
           ELSE Decide(x, persisted, Env(h), row.status)

Handle(h, x) == handlers' = [handlers EXCEPT ![h] = x]

AskedNow(h) ==
  /\ handlers[h].pc = "idle"
  /\ handled < MaxHandled
  /\ handled' = handled + 1

\* queueResumeRun up to its first write; its fork flag makes the kind "fork".
AskResume(h, r, kind, request, override) ==
  /\ AskedNow(h)
  /\ contractRows[r].status # "absent"
  /\ Handle(h, AfterRead(h, [HandlerIdle EXCEPT !.kind = kind, !.run = r, !.request = request,
                                                !.override = override], contractRows[r]))
  /\ outdated' = outdated \ {h}
  /\ UNCHANGED <<contractRows, contractJobs, process, restarts>>

\* A worker claims the run's job, or one whose lease has run out, and
\* executeRunJob reads the run.
ClaimContractJob(h, r) ==
  /\ handlers[h].pc = "idle"
  /\ contractJobs[r] \notin {"none", h}
  /\ contractJobs' = [contractJobs EXCEPT ![r] = h]
  /\ Handle(h, AfterRead(h, [HandlerIdle EXCEPT !.kind = "job", !.run = r], contractRows[r]))
  /\ outdated' = outdated \ {h}
  /\ UNCHANGED <<contractRows, process, handled, restarts>>

\* updateAgentRun with a metadata built on what the handler read: the row's is
\* replaced whole.
WriteContract(h, r, config) ==
  /\ contractRows' = [contractRows EXCEPT ![r].stored = config,
                                          ![r].contract = Contract(config, ReleaseOf(h))]
  /\ outdated' = (outdated \ {h}) \cup {g \in Handler \ {h} : handlers[g].run = r}

\* The contract of a run that had none, or no verdict on its support.
Normalize(h) ==
  LET x == handlers[h] IN
    /\ x.pc = "normalize"
    /\ WriteContract(h, x.run, x.config)
    /\ Handle(h, Decide(x, x.config, Env(h), contractRows[x.run].status))
    /\ UNCHANGED <<contractJobs, process, handled, restarts>>

\* overrideExecutionConfig, whatever the run is doing by now.
Override(h) ==
  LET x == handlers[h] IN
    /\ x.pc = "override"
    /\ WriteContract(h, x.run, x.config)
    /\ Handle(h, Proceed(x, contractRows[x.run].status))
    /\ UNCHANGED <<contractJobs, process, handled, restarts>>

\* The write of queued is unconditional.
Requeue(h) ==
  LET x == handlers[h] IN
    /\ x.pc = "requeue"
    /\ contractRows' = [contractRows EXCEPT ![x.run].status = "open"]
    /\ Handle(h, [x EXCEPT !.pc = "enqueue"])
    /\ UNCHANGED <<contractJobs, process, outdated, handled, restarts>>

\* enqueueRunJob: an active job of the run is handed back.
Enqueue(h) ==
  LET x == handlers[h] IN
    /\ x.pc = "enqueue"
    /\ contractJobs' = [contractJobs EXCEPT ![x.run] = IF @ = "none" THEN "queued" ELSE @]
    /\ Handle(h, HandlerIdle)
    /\ UNCHANGED <<contractRows, process, outdated, handled, restarts>>

-----------------------------------------------------------------------------
\* forkRunForResume: a run of its own, under the configuration asked for.
ForkForResume(h, r) ==
  LET x == handlers[h] IN
    /\ x.pc = "fork"
    /\ contractRows[r].status = "absent"
    /\ \E status \in {"open", "complete"} :
         /\ contractRows' = [contractRows EXCEPT ![r] =
              [status |-> status, stored |-> x.config,
               contract |-> Contract(x.config, ReleaseOf(h))]]
         /\ Handle(h, IF status = "complete" THEN HandlerIdle
                      ELSE [x EXCEPT !.pc = "enqueue", !.run = r])
    /\ outdated' = outdated \ {h}
    /\ UNCHANGED <<contractJobs, process, handled, restarts>>

\* forkRun: the metadata are copied as they are, and no job is enqueued.
ForkAtStep(h, source, r) ==
  /\ AskedNow(h)
  /\ contractRows[source].status # "absent"
  /\ contractRows[r].status = "absent"
  /\ \E status \in {"open", "complete"} :
       contractRows' = [contractRows EXCEPT ![r] = [contractRows[source] EXCEPT !.status = status]]
  /\ UNCHANGED <<contractJobs, handlers, process, outdated, restarts>>

\* createQueuedRun and createAndExecuteRun, for a builder or not, of a plan
\* with steps.
CreateWithContract(h, r, kind, request) ==
  LET asked == Resolve(request, Env(h))
  IN
    /\ AskedNow(h)
    /\ contractRows[r].status = "absent"
    /\ \E config \in IF kind = "direct" THEN {asked, ForBuilder(asked)} ELSE {asked} :
         /\ contractRows' = [contractRows EXCEPT ![r] =
              [status |-> "open", stored |-> config,
               contract |-> Contract(config, ReleaseOf(h))]]
         /\ Handle(h, [HandlerIdle EXCEPT !.kind = kind, !.run = r, !.config = config,
                          !.pc = IF kind = "direct" THEN "start" ELSE "enqueue"])
    /\ outdated' = outdated \ {h}
    /\ UNCHANGED <<contractJobs, process, restarts>>

-----------------------------------------------------------------------------
\* executeLoop marks the run as running, under the configuration it was handed.
BeginExecuting(h) ==
  LET x == handlers[h] IN
    /\ x.pc = "start"
    /\ contractRows' = [contractRows EXCEPT ![x.run].status = "open"]
    /\ Handle(h, [x EXCEPT !.pc = "executing"])
    /\ UNCHANGED <<contractJobs, process, outdated, handled, restarts>>

EndExecuting(h) ==
  LET x == handlers[h] IN
    /\ x.pc = "executing"
    /\ \E status \in {"open", "complete"} :
         contractRows' = [contractRows EXCEPT ![x.run].status = status]
    /\ Handle(h, Ended(x))
    /\ UNCHANGED <<contractJobs, process, outdated, handled, restarts>>

\* completeRunJob, or failRunJob in the worker's catch block; a job somebody
\* else claimed meanwhile is left alone.
EndContractJob(h) ==
  LET x == handlers[h] IN
    /\ x.pc = "end job"
    /\ contractJobs' = [contractJobs EXCEPT ![x.run] = IF @ = h THEN "none" ELSE @]
    /\ Handle(h, HandlerIdle)
    /\ UNCHANGED <<contractRows, process, outdated, handled, restarts>>

\* The process dies and another one takes its place, of another release or in
\* another environment.
Redeploy(h, env, release) ==
  /\ restarts < MaxRestarts
  /\ restarts' = restarts + 1
  /\ process' = [process EXCEPT ![h] = [env |-> env, release |-> release]]
  /\ Handle(h, HandlerIdle)
  /\ UNCHANGED <<contractRows, contractJobs, outdated, handled>>

ContractNext ==
  \E h \in Handler :
    \/ \E r \in ContractRun :
         \/ \E request \in ConfigRequest :
              \/ \E override \in BOOLEAN : AskResume(h, r, "resume", request, override)
              \/ AskResume(h, r, "fork", request, FALSE)
              \/ \E kind \in {"queued", "direct"} : CreateWithContract(h, r, kind, request)
         \/ \E source \in ContractRun : ForkAtStep(h, source, r)
         \/ ClaimContractJob(h, r)
         \/ ForkForResume(h, r)
    \/ Normalize(h) \/ Override(h) \/ Requeue(h) \/ Enqueue(h)
    \/ BeginExecuting(h) \/ EndExecuting(h) \/ EndContractJob(h)
    \/ \E env \in Setting, release \in Release : Redeploy(h, env, release)

ContractSpec == ContractInit /\ [][ContractNext]_contractVars

-----------------------------------------------------------------------------
\* Rows, jobs and handlers hold what their columns and locals can hold.
ContractTypeOK ==
  /\ \A r \in ContractRun : LET row == contractRows[r] IN
       /\ row.status \in {"absent", "open", "complete"}
       /\ row.stored \in PartialConfig
       /\ row.contract \in StoredContract \cup {NoContract}
  /\ contractJobs \in [ContractRun -> {"none", "queued"} \cup Handler]
  /\ \A h \in Handler : handlers[h].pc # "idle" => handlers[h].run \in ContractRun
  /\ process \in [Handler -> [env : Setting, release : Release]]
  /\ outdated \subseteq Handler
  /\ handled \in 0..MaxHandled
  /\ restarts \in 0..MaxRestarts

\* An execution that begins or goes on does so under the configuration of the
\* run's stored contract, in a process of the policy versions the contract
\* records, unless somebody rewrote the contract since the execution's handler
\* read it.
ExecutesStoredContract ==
  \A h \in Handler : LET x == handlers[h]  row == contractRows[x.run] IN
    x.pc \in {"start", "executing"} /\ h \notin outdated =>
      /\ row.contract # NoContract
      /\ row.contract.config = x.config
      /\ row.stored = x.config
      /\ row.contract.release = ReleaseOf(h)

\* Once a run has a contract its configuration and policy versions change
\* only by an override that was asked for, or at the hands of a handler whose
\* copy of the metadata is out of date: it read the run before it had a contract
\* (or a verdict on its support), and attaches one.
ContractKept ==
  [][\A r \in ContractRun :
       LET k == contractRows[r].contract  l == contractRows'[r].contract IN
         k # NoContract =>
           \/ l # NoContract /\ l.config = k.config /\ l.release = k.release
           \/ \E h \in Handler : LET x == handlers[h] IN
                /\ x.run = r
                /\ \/ x.pc = "override" /\ x.override
                   \/ x.pc = "normalize" /\ h \in outdated]_contractVars
=============================================================================
