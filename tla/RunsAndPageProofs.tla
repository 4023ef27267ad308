-------------------------- MODULE RunsAndPageProofs --------------------------
(***************************************************************************)
(* The contracts of runs, the page that starts and watches them, and the   *)
(* two beside the queue, for any number of runs, handlers, settings,       *)
(* restarts, projects, gestures, polls and failing calls.                  *)
(*                                                                         *)
(* That a run executes under the contract it stores, and that a contract   *)
(* changes only when somebody asked: a handler acts on a copy of the       *)
(* metadata.  CopyFits is what the copy has to do with the row while       *)
(* nobody has rewritten it: what is about to be attached is what is there, *)
(* if anything is, and what executes is the stored configuration, judged   *)
(* by the release that executes it.                                        *)
(*                                                                         *)
(* What the page keeps (PageKept): the invariant is about what is under    *)
(* way.  As long as no gestures overlap, a call of a gesture is about what *)
(* the page shows, or is the only one and will change that (CallsAbout);   *)
(* as long as nothing failed besides, what the page shows of another       *)
(* project is being read anew (PageFits).                                  *)
(***************************************************************************)
EXTENDS MCRunJobs, RunJobsProofs, SequenceTheorems, TLAPS

-----------------------------------------------------------------------------
(* Contracts.                                                              *)

HandlerPc ==
  {"idle", "normalize", "override", "requeue", "enqueue", "fork", "start", "executing", "end job"}

HandlerRow ==
  [pc : HandlerPc, kind : {"none", "job", "resume", "fork", "queued", "direct"},
   run : ContractRun \cup {Unset}, request : PartialConfig, override : BOOLEAN,
   config : PartialConfig]

ContractRow ==
  [status : {"absent", "open", "complete"}, stored : PartialConfig,
   contract : StoredContract \cup {NoContract}]

\* A contract's configuration is the run's, and a run that is not there has none.
StoredIsContracts(rows) ==
  \A r \in ContractRun : rows[r].contract # NoContract =>
    rows[r].stored = rows[r].contract.config /\ rows[r].status # "absent"

\* What the locals of a handler at work are: a job asks for nothing, and a
\* configuration that is about to be written, executed or forked is whole.
HandlerSound(x) ==
  /\ x.run \in ContractRun
  /\ x.kind # "none"
  /\ x.kind = "job" => x.request = Nothing /\ ~x.override
  /\ x.pc \in {"normalize", "override"} => x.kind \in {"job", "resume", "fork"}
  /\ x.pc \in {"normalize", "override", "start", "executing", "fork"} => x.config \in Config
  /\ x.pc = "override" => x.override /\ x.kind = "resume"
  /\ x.pc = "fork" => x.kind = "fork"

HandlersSound ==
  \A h \in Handler : handlers[h].pc # "idle" =>
    HandlerSound(handlers[h]) /\ contractRows[handlers[h].run].status # "absent"

\* What a handler knows of the row it read: where it attaches a contract there
\* is none, or the same one; what it executes is what the contract says.
CopyFits(x, row, release) ==
  /\ x.pc = "normalize" /\ row.contract # NoContract =>
       row.contract.config = x.config /\ row.contract.release = release
  /\ x.pc \in {"start", "executing"} =>
       /\ row.contract # NoContract
       /\ row.contract.config = x.config
       /\ row.stored = x.config
       /\ row.contract.release = release

CopiesFit ==
  \A h \in Handler : handlers[h].pc # "idle" /\ h \notin outdated =>
    CopyFits(handlers[h], contractRows[handlers[h].run], ReleaseOf(h))

\* Inductive.
ContractInv ==
  /\ contractRows \in [ContractRun -> ContractRow]
  /\ handlers \in [Handler -> HandlerRow]
  /\ process \in [Handler -> [env : Setting, release : Release]]
  /\ StoredIsContracts(contractRows)
  /\ HandlersSound
  /\ CopiesFit

\* The queue holds no job of a run that is not there.
JobsHaveRuns ==
  /\ contractJobs \in [ContractRun -> {"none", "queued"} \cup Handler]
  /\ \A r \in ContractRun : contractJobs[r] # "none" => contractRows[r].status # "absent"

-----------------------------------------------------------------------------
\* A configuration resolved against the environment is whole, and one that is
\* whole already stays as it is.
LEMMA ResolveWhole ==
  ASSUME NEW raw \in PartialConfig, NEW env \in Setting
  PROVE  Resolve(raw, env) \in Config /\ (raw \in Config => Resolve(raw, env) = raw)
  BY ExecutionContractsAssumption
  DEF Resolve, Overlay, Preset, Given, Config, PartialConfig, Profile

\* So is one that is asked for, and who asks for nothing gets what is stored.
LEMMA RequestedWhole ==
  ASSUME NEW request \in PartialConfig, NEW persisted \in Config, NEW env \in Setting
  PROVE  /\ Requested(request, persisted, env) \in Config
         /\ request = Nothing => Requested(request, persisted, env) = persisted
<1>1. Requested(request, persisted, env) \in Config
  BY ResolveWhole, ExecutionContractsAssumption
  DEF Requested, Overlay, Given, Config, PartialConfig, Profile
<1>2. ASSUME request = Nothing PROVE Requested(request, persisted, env) = persisted
  BY <1>2 DEF Requested, Overlay, Given, Config, Nothing
<1> QED BY <1>1, <1>2

\* The parts a configuration is typed by.
LEMMA PartsTyped == Nothing \in PartialConfig /\ Config \subseteq PartialConfig
  BY DEF Nothing, PartialConfig, Config

\* Nobody at work is "idle".
LEMMA IdleTyped == HandlerIdle \in HandlerRow /\ HandlerIdle.pc = "idle"
  BY DEF HandlerIdle, HandlerRow, HandlerPc, PartialConfig, Nothing

\* A job's handler stays to end its job, any other is done.
LEMMA EndedGives ==
  ASSUME NEW x \in HandlerRow
  PROVE  /\ Ended(x) \in HandlerRow
         /\ Ended(x).pc \in {"idle", "end job"}
         /\ Ended(x).pc = "end job" =>
              /\ x.kind = "job"
              /\ Ended(x).run = x.run /\ Ended(x).kind = x.kind
              /\ Ended(x).request = x.request /\ Ended(x).override = x.override
<1>1. CASE x.kind = "job"
  <2>1. Ended(x) = [x EXCEPT !.pc = "end job", !.config = Nothing]
    BY <1>1 DEF Ended
  <2> QED BY <1>1, <2>1, PartsTyped DEF HandlerRow, HandlerPc
<1>2. CASE x.kind # "job"
  BY <1>2, IdleTyped DEF Ended
<1> QED BY <1>1, <1>2

\* Where a handler goes when the contract is settled.
LEMMA ProceedGives ==
  ASSUME NEW x \in HandlerRow, x.run \in ContractRun, x.kind \in {"job", "resume", "fork"},
         NEW status
  PROVE  LET z == Proceed(x, status) IN
         /\ z \in HandlerRow
         /\ z.pc = "idle" \/ (z.run = x.run /\ z.kind = x.kind)
         /\ z.pc # "idle" /\ z.kind = "job" => z.request = Nothing /\ ~z.override
         /\ z.pc \in {"idle", "end job", "requeue", "start", "fork"}
         /\ z.pc = "start" => z.kind = "job" /\ z.config = x.config
         /\ z.pc = "fork" => z.kind = "fork" /\ z.config = x.config
<1> DEFINE y == [x EXCEPT !.request = Nothing, !.override = FALSE]
<1>1. /\ y \in HandlerRow /\ y.run = x.run /\ y.kind = x.kind /\ y.config = x.config
      /\ y.request = Nothing /\ y.override = FALSE
  BY DEF HandlerRow, PartialConfig, Nothing
<1>2. CASE x.kind = "fork"
  <2>1. Proceed(x, status) = [y EXCEPT !.pc = "fork"]
    BY <1>2 DEF Proceed
  <2> QED BY <1>1, <1>2, <2>1 DEF HandlerRow, HandlerPc
<1>3. CASE x.kind # "fork" /\ status = "complete"
  <2>1. Proceed(x, status) = Ended(y)
    BY <1>3 DEF Proceed
  <2> HIDE DEF y
  <2>2. /\ Ended(y) \in HandlerRow
        /\ Ended(y).pc \in {"idle", "end job"}
        /\ Ended(y).pc = "end job" =>
             /\ y.kind = "job"
             /\ Ended(y).run = y.run /\ Ended(y).kind = y.kind
             /\ Ended(y).request = y.request /\ Ended(y).override = y.override
    BY <1>1, EndedGives
  <2> QED BY <1>1, <1>3, <2>1, <2>2
<1>4. CASE x.kind = "job" /\ status # "complete"
  <2>1. Proceed(x, status) = [y EXCEPT !.pc = "start"]
    BY <1>4 DEF Proceed
  <2> QED BY <1>1, <1>4, <2>1 DEF HandlerRow, HandlerPc
<1>5. CASE x.kind = "resume" /\ status # "complete"
  <2>1. Proceed(x, status) = [y EXCEPT !.pc = "requeue", !.config = Nothing]
    BY <1>5 DEF Proceed
  <2> QED BY <1>1, <1>5, <2>1 DEF HandlerRow, HandlerPc, PartialConfig, Nothing
<1> QED BY <1>2, <1>3, <1>4, <1>5

\* What becomes of a handler once it knows what is stored.
LEMMA DecideGives ==
  ASSUME NEW x \in HandlerRow, x.run \in ContractRun, x.kind \in {"job", "resume", "fork"},
         x.kind = "job" => x.request = Nothing /\ ~x.override,
         NEW persisted \in Config, NEW env \in Setting, NEW status
  PROVE  LET z == Decide(x, persisted, env, status) IN
         /\ z \in HandlerRow
         /\ z.pc # "idle" => z.run = x.run /\ z.kind = x.kind /\ HandlerSound(z)
         /\ z.pc \notin {"normalize", "executing"}
         /\ z.pc = "start" => z.config = persisted
<1> DEFINE c == Requested(x.request, persisted, env)
           y == [x EXCEPT !.config = c]
<1>1. c \in Config /\ (x.kind = "job" => c = persisted)
  BY RequestedWhole DEF HandlerRow
<1>2. /\ y \in HandlerRow /\ y.run = x.run /\ y.kind = x.kind /\ y.config = c
      /\ y.request = x.request /\ y.override = x.override
  BY <1>1 DEF HandlerRow, PartialConfig, Config
<1>3. CASE c = persisted \/ x.kind = "fork"
  <2>1. Decide(x, persisted, env, status) = Proceed(y, status)
    BY <1>2, <1>3 DEF Decide
  <2> HIDE DEF y, c
  <2>2. LET z == Proceed(y, status) IN
         /\ z \in HandlerRow
         /\ z.pc = "idle" \/ (z.run = y.run /\ z.kind = y.kind)
         /\ z.pc # "idle" /\ z.kind = "job" => z.request = Nothing /\ ~z.override
         /\ z.pc \in {"idle", "end job", "requeue", "start", "fork"}
         /\ z.pc = "start" => z.kind = "job" /\ z.config = y.config
         /\ z.pc = "fork" => z.kind = "fork" /\ z.config = y.config
    BY <1>2, ProceedGives
  <2> QED BY <1>1, <1>2, <1>3, <2>1, <2>2 DEF HandlerSound
<1>4. CASE c # persisted /\ x.kind # "fork" /\ x.override
  <2>1. Decide(x, persisted, env, status) = [y EXCEPT !.pc = "override", !.request = Nothing]
    BY <1>2, <1>4 DEF Decide
  <2> HIDE DEF y, c
  <2> DEFINE z == [y EXCEPT !.pc = "override", !.request = Nothing]
  <2>2. /\ z \in HandlerRow /\ z.pc = "override" /\ z.run = x.run /\ z.kind = x.kind
        /\ z.config \in Config /\ z.override = x.override
    BY <1>1, <1>2, PartsTyped DEF HandlerRow, HandlerPc
  <2> HIDE DEF z
  <2>3. x.kind = "resume"
    BY <1>4
  <2>4. HandlerSound(z)
    BY <1>4, <2>2, <2>3 DEF HandlerSound
  <2> QED BY <2>1, <2>2, <2>4 DEF z
<1>5. CASE c # persisted /\ x.kind # "fork" /\ ~x.override
  <2>1. Decide(x, persisted, env, status) = HandlerIdle
    BY <1>2, <1>5 DEF Decide
  <2> QED BY <2>1, IdleTyped
<1> QED BY <1>3, <1>4, <1>5 DEF HandlerRow

\* What a handler does with a row it has just read, and that it fits the row.
LEMMA AfterReadGives ==
  ASSUME ContractInv, NEW h \in Handler, NEW r \in ContractRun, contractRows[r].status # "absent",
         NEW x \in HandlerRow, x.run = r, x.kind \in {"job", "resume", "fork"},
         x.kind = "job" => x.request = Nothing /\ ~x.override
  PROVE  LET z == AfterRead(h, x, contractRows[r]) IN
         /\ z \in HandlerRow
         /\ z.pc # "idle" => /\ z.run = r
                             /\ HandlerSound(z)
                             /\ CopyFits(z, contractRows[r], ReleaseOf(h))
<1> DEFINE row == contractRows[r]
           persisted == Resolve(row.stored, Env(h))
           release == ReleaseOf(h)
<1>1. row \in ContractRow /\ Env(h) \in Setting
  BY DEF ContractInv, Env
<1>2. persisted \in Config /\ (row.stored \in Config => persisted = row.stored)
  BY <1>1, ResolveWhole DEF ContractRow
<1>3. row.contract # NoContract => row.stored = row.contract.config /\ row.stored \in Config
  BY <1>1 DEF ContractInv, StoredIsContracts, ContractRow, StoredContract
<1>4. /\ Ended(x) \in HandlerRow
      /\ Ended(x).pc \in {"idle", "end job"}
      /\ Ended(x).pc = "end job" => /\ Ended(x).run = r /\ Ended(x).kind = "job"
                                    /\ Ended(x).request = Nothing /\ ~Ended(x).override
  BY EndedGives
<1>5. CASE ~StoredMatches(row, persisted, release)
  <2>1. AfterRead(h, x, row) = Ended(x)
    BY <1>5 DEF AfterRead
  <2> QED BY <1>4, <2>1 DEF HandlerSound, CopyFits
<1>6. CASE StoredMatches(row, persisted, release) /\ x.kind = "job" /\ ~SupportAssumed(row, release)
  <2>1. AfterRead(h, x, row) = Ended(x)
    BY <1>6 DEF AfterRead
  <2> QED BY <1>4, <2>1 DEF HandlerSound, CopyFits
<1>7. CASE /\ StoredMatches(row, persisted, release)
           /\ ~(x.kind = "job" /\ ~SupportAssumed(row, release))
           /\ NeedsNormalization(row)
  <2>1. AfterRead(h, x, row) = [x EXCEPT !.pc = "normalize", !.config = persisted]
    BY <1>7 DEF AfterRead
  <2>2. row.contract # NoContract => row.contract.config = persisted /\ row.contract.release = release
    BY <1>7 DEF StoredMatches
  <2> HIDE DEF persisted, release, row
  <2> DEFINE z == [x EXCEPT !.pc = "normalize", !.config = persisted]
  <2>3. /\ z \in HandlerRow /\ z.pc = "normalize" /\ z.run = r /\ z.kind = x.kind
        /\ z.config = persisted /\ z.override = x.override /\ z.request = x.request
    BY <1>2, PartsTyped DEF HandlerRow, HandlerPc
  <2> HIDE DEF z
  <2>4. HandlerSound(z) /\ CopyFits(z, row, release)
    BY <1>2, <2>2, <2>3 DEF HandlerSound, CopyFits
  <2> QED BY <2>1, <2>3, <2>4 DEF z, row, release
<1>8. CASE /\ StoredMatches(row, persisted, release)
           /\ ~(x.kind = "job" /\ ~SupportAssumed(row, release))
           /\ ~NeedsNormalization(row)
  <2>1. AfterRead(h, x, row) = Decide(x, persisted, Env(h), row.status)
    BY <1>8 DEF AfterRead
  <2>2. /\ row.contract # NoContract
        /\ row.contract.config = persisted /\ row.contract.release = release
        /\ row.stored = persisted
    BY <1>3, <1>8 DEF StoredMatches, NeedsNormalization
  <2> HIDE DEF persisted, release, row
  <2>3. LET z == Decide(x, persisted, Env(h), row.status) IN
         /\ z \in HandlerRow
         /\ z.pc # "idle" => z.run = x.run /\ z.kind = x.kind /\ HandlerSound(z)
         /\ z.pc \notin {"normalize", "executing"}
         /\ z.pc = "start" => z.config = persisted
    BY <1>1, <1>2, DecideGives
  <2>4. LET z == Decide(x, persisted, Env(h), row.status) IN
         /\ z \in HandlerRow
         /\ z.pc # "idle" => z.run = r /\ HandlerSound(z) /\ CopyFits(z, row, release)
    BY <2>2, <2>3 DEF CopyFits
  <2> QED BY <2>1, <2>4 DEF row, release
<1> QED BY <1>5, <1>6, <1>7, <1>8
-----------------------------------------------------------------------------
\* A step of handler h: it becomes z, and the rows and the other handlers'
\* knowledge of them change as the hypotheses say.
LEMMA HandlerStep ==
  ASSUME ContractInv, NEW h \in Handler, NEW z \in HandlerRow,
         handlers' = [handlers EXCEPT ![h] = z],
         contractRows' \in [ContractRun -> ContractRow],
         StoredIsContracts(contractRows'),
         UNCHANGED process,
         z.pc # "idle" => /\ HandlerSound(z)
                          /\ contractRows'[z.run].status # "absent"
                          /\ h \notin outdated' => CopyFits(z, contractRows'[z.run], ReleaseOf(h)),
         \A r \in ContractRun :
           contractRows[r].status # "absent" => contractRows'[r].status # "absent",
         \A g \in Handler \ {h} : LET r == handlers[g].run IN
           handlers[g].pc # "idle" /\ g \notin outdated' =>
             /\ g \notin outdated
             /\ contractRows'[r].contract = contractRows[r].contract
             /\ contractRows'[r].stored = contractRows[r].stored
  PROVE  ContractInv'
<1>1. handlers' \in [Handler -> HandlerRow] /\ handlers'[h] = z
      /\ \A g \in Handler \ {h} : handlers'[g] = handlers[g]
  BY DEF ContractInv
<1>2. process' \in [Handler -> [env : Setting, release : Release]]
  BY DEF ContractInv
<1>3. HandlersSound'
  <2> SUFFICES ASSUME NEW g \in Handler, handlers'[g].pc # "idle"
               PROVE  HandlerSound(handlers'[g]) /\ contractRows'[handlers'[g].run].status # "absent"
    BY DEF HandlersSound
  <2>1. CASE g = h
    BY <1>1, <2>1
  <2>2. CASE g # h
    <3>1. HandlerSound(handlers[g]) /\ contractRows[handlers[g].run].status # "absent"
      BY <1>1, <2>2 DEF ContractInv, HandlersSound
    <3>2. handlers[g].run \in ContractRun
      BY <3>1 DEF HandlerSound
    <3> QED BY <1>1, <2>2, <3>1, <3>2
  <2> QED BY <2>1, <2>2
<1>4. CopiesFit'
  <2> SUFFICES ASSUME NEW g \in Handler, handlers'[g].pc # "idle", g \notin outdated'
               PROVE  CopyFits(handlers'[g], contractRows'[handlers'[g].run], ReleaseOf(g)')
    BY DEF CopiesFit
  <2>0. ReleaseOf(g)' = ReleaseOf(g)
    BY DEF ReleaseOf
  <2>1. CASE g = h
    BY <1>1, <2>0, <2>1
  <2>2. CASE g # h
    <3>1. CopyFits(handlers[g], contractRows[handlers[g].run], ReleaseOf(g))
      BY <1>1, <2>2 DEF ContractInv, CopiesFit
    <3> QED BY <1>1, <2>0, <2>2, <3>1 DEF CopyFits
  <2> QED BY <2>1, <2>2
<1> QED BY <1>1, <1>2, <1>3, <1>4 DEF ContractInv

\* The same, of a step that leaves rows and knowledge alone.
LEMMA HandlerMoves ==
  ASSUME ContractInv, NEW h \in Handler, NEW z \in HandlerRow,
         handlers' = [handlers EXCEPT ![h] = z],
         UNCHANGED <<contractRows, process>>,
         outdated' = outdated \/ outdated' = outdated \ {h},
         z.pc # "idle" => /\ HandlerSound(z)
                          /\ contractRows[z.run].status # "absent"
                          /\ h \notin outdated' => CopyFits(z, contractRows[z.run], ReleaseOf(h))
  PROVE  ContractInv'
<1>1. contractRows' \in [ContractRun -> ContractRow] /\ StoredIsContracts(contractRows')
  BY DEF ContractInv
<1> QED BY <1>1, HandlerStep

\* ... and of one that changes a row's status only.
LEMMA StatusMoves ==
  ASSUME ContractInv, NEW h \in Handler, NEW z \in HandlerRow, NEW r \in ContractRun,
         handlers[h].run = r, NEW status \in {"open", "complete"},
         handlers' = [handlers EXCEPT ![h] = z],
         contractRows' = [contractRows EXCEPT ![r].status = status],
         UNCHANGED <<process, outdated>>,
         z.pc # "idle" => /\ HandlerSound(z) /\ z.run = r
                          /\ h \notin outdated => CopyFits(z, contractRows[r], ReleaseOf(h))
  PROVE  ContractInv'
<1>1. /\ contractRows' \in [ContractRun -> ContractRow]
      /\ \A q \in ContractRun : /\ contractRows'[q].contract = contractRows[q].contract
                                /\ contractRows'[q].stored = contractRows[q].stored
                                /\ contractRows[q].status # "absent" => contractRows'[q].status # "absent"
      /\ contractRows'[r].status # "absent"
  BY DEF ContractInv, ContractRow
<1>2. StoredIsContracts(contractRows')
  BY <1>1 DEF ContractInv, StoredIsContracts
<1>3. \A g \in Handler : handlers[g].pc # "idle" => handlers[g].run \in ContractRun
  BY DEF ContractInv, HandlersSound, HandlerSound
<1>4. z.pc # "idle" /\ h \notin outdated' => CopyFits(z, contractRows'[z.run], ReleaseOf(h))
  BY <1>1 DEF CopyFits
<1> QED BY <1>1, <1>2, <1>3, <1>4, HandlerStep

\* What is written is a contract.
LEMMA ContractWhole ==
  ASSUME NEW config \in Config, NEW release \in Release
  PROVE  /\ Contract(config, release) \in StoredContract
         /\ Contract(config, release) # NoContract
         /\ Contract(config, release).config = config
         /\ Contract(config, release).release = release
<1>1. Contract(config, release) \in StoredContract
  BY DEF Contract, StoredContract
<1>2. Contract(config, release) # NoContract
  BY <1>1, NoContractAssumption
<1> QED BY <1>1, <1>2 DEF Contract

\* A run that comes to be, with a contract of h's making.
LEMMA RowAppears ==
  ASSUME ContractInv, NEW h \in Handler, NEW z \in HandlerRow, NEW r \in ContractRun,
         contractRows[r].status = "absent",
         NEW row \in ContractRow, row.status # "absent",
         row.contract # NoContract => row.stored = row.contract.config,
         handlers' = [handlers EXCEPT ![h] = z],
         contractRows' = [contractRows EXCEPT ![r] = row],
         UNCHANGED process,
         outdated' = outdated \/ outdated' = outdated \ {h},
         z.pc # "idle" => /\ HandlerSound(z) /\ z.run = r
                          /\ h \notin outdated' => CopyFits(z, row, ReleaseOf(h))
  PROVE  ContractInv'
<1>1. /\ contractRows' \in [ContractRun -> ContractRow]
      /\ contractRows'[r] = row
      /\ \A q \in ContractRun \ {r} : contractRows'[q] = contractRows[q]
  BY DEF ContractInv
<1>2. StoredIsContracts(contractRows')
  BY <1>1 DEF ContractInv, StoredIsContracts
<1>3. \A g \in Handler \ {h} : handlers[g].pc # "idle" => handlers[g].run \in ContractRun \ {r}
  BY DEF ContractInv, HandlersSound, HandlerSound
<1>4. z.pc # "idle" => /\ HandlerSound(z)
                       /\ contractRows'[z.run].status # "absent"
                       /\ h \notin outdated' => CopyFits(z, contractRows'[z.run], ReleaseOf(h))
  BY <1>1
<1>5. \A q \in ContractRun :
        contractRows[q].status # "absent" => contractRows'[q].status # "absent"
  BY <1>1
<1>6. \A g \in Handler \ {h} : LET q == handlers[g].run IN
        handlers[g].pc # "idle" /\ g \notin outdated' =>
          /\ g \notin outdated
          /\ contractRows'[q].contract = contractRows[q].contract
          /\ contractRows'[q].stored = contractRows[q].stored
  BY <1>1, <1>3
<1> QED BY <1>1, <1>2, <1>4, <1>5, <1>6, HandlerStep

\* Metadata written by h: its run has the contract, and whoever else read the
\* run before is out of date.
LEMMA ContractWritten ==
  ASSUME ContractInv, NEW h \in Handler, NEW z \in HandlerRow, NEW r \in ContractRun,
         NEW config \in Config, contractRows[r].status # "absent",
         WriteContract(h, r, config),
         handlers' = [handlers EXCEPT ![h] = z],
         UNCHANGED process,
         z.pc # "idle" => /\ HandlerSound(z) /\ z.run = r
                          /\ z.pc = "start" => z.config = config
                          /\ z.pc \notin {"normalize", "executing"}
  PROVE  ContractInv'
<1> DEFINE k == Contract(config, ReleaseOf(h))
<1>1. ReleaseOf(h) \in Release
  BY DEF ContractInv, ReleaseOf
<1>2. k \in StoredContract /\ k # NoContract /\ k.config = config /\ k.release = ReleaseOf(h)
  BY <1>1, ContractWhole
<1>3. contractRows' = [contractRows EXCEPT ![r].stored = config, ![r].contract = k]
  BY DEF WriteContract
<1> HIDE DEF k
<1>4. /\ contractRows' \in [ContractRun -> ContractRow]
      /\ contractRows'[r].contract = k /\ contractRows'[r].stored = config
      /\ contractRows'[r].status = contractRows[r].status
      /\ \A q \in ContractRun \ {r} : contractRows'[q] = contractRows[q]
  BY <1>2, <1>3, PartsTyped DEF ContractInv, ContractRow
<1>5. StoredIsContracts(contractRows')
  BY <1>2, <1>4 DEF ContractInv, StoredIsContracts
<1>6. \A g \in Handler \ {h} : handlers[g].pc # "idle" /\ g \notin outdated' =>
        g \notin outdated /\ handlers[g].run \in ContractRun \ {r}
  BY DEF ContractInv, HandlersSound, HandlerSound, WriteContract
<1>7. z.pc # "idle" /\ h \notin outdated' => CopyFits(z, contractRows'[z.run], ReleaseOf(h))
  BY <1>2, <1>4 DEF CopyFits
<1> QED BY <1>4, <1>5, <1>6, <1>7, HandlerStep
-----------------------------------------------------------------------------
\* The row an earlier release left.
LEMMA EarlierRowSound ==
  ASSUME NEW row \in EarlierRow
  PROVE  /\ row \in ContractRow /\ row.status # "absent"
         /\ row.contract # NoContract => row.stored = row.contract.config
<1> DEFINE Left(c, k) == [status |-> "open", stored |-> c, contract |-> k]
           Bare == [profile : {Unset}, mode : Setting \cup {Unset}]
           Full == [profile : {"full"}, mode : Setting]
           Old(c, judged) == [Contract(c, 1) EXCEPT !.support = judged]
<1>1. \/ \E c \in Bare : row = Left(c, NoContract)
      \/ \E c \in Full, judged \in BOOLEAN : row = Left(c, Old(c, judged))
  BY DEF EarlierRow
<1>2. ASSUME NEW c \in Bare, row = Left(c, NoContract)
      PROVE  row \in ContractRow /\ row.status # "absent" /\ row.contract = NoContract
  BY <1>2 DEF ContractRow, PartialConfig
<1>3. ASSUME NEW c \in Full, NEW judged \in BOOLEAN, row = Left(c, Old(c, judged))
      PROVE  row \in ContractRow /\ row.status # "absent" /\ row.stored = row.contract.config
  <2>1. c \in Config /\ 1 \in Release
    BY ExecutionContractsAssumption DEF Config, Profile, Release
  <2>2. Old(c, judged) \in StoredContract /\ Old(c, judged).config = c
    BY <2>1 DEF Contract, StoredContract
  <2> HIDE DEF Old
  <2> QED BY <1>3, <2>1, <2>2, PartsTyped DEF ContractRow
<1> QED BY <1>1, <1>2, <1>3

\* The rows an earlier release left satisfy the invariant.
LEMMA ContractInitSound == ContractInit => ContractInv /\ JobsHaveRuns
<1> SUFFICES ASSUME ContractInit PROVE ContractInv /\ JobsHaveRuns
  OBVIOUS
<1> DEFINE first == CHOOSE r \in ContractRun : TRUE
<1>1. PICK row \in EarlierRow :
        contractRows = [r \in ContractRun |-> IF r = first THEN row ELSE NoRow]
  BY DEF ContractInit
<1> HIDE DEF first
<1>2. /\ row \in ContractRow /\ row.status # "absent"
      /\ row.contract # NoContract => row.stored = row.contract.config
  BY EarlierRowSound
<1>3. NoRow \in ContractRow /\ NoRow.contract = NoContract
  BY PartsTyped DEF NoRow, ContractRow
<1>4. contractRows \in [ContractRun -> ContractRow] /\ StoredIsContracts(contractRows)
  BY <1>1, <1>2, <1>3 DEF StoredIsContracts
<1>5. /\ handlers \in [Handler -> HandlerRow]
      /\ \A h \in Handler : handlers[h].pc = "idle"
  BY IdleTyped DEF ContractInit
<1>6. process \in [Handler -> [env : Setting, release : Release]]
  <2>1. PICK env \in Setting : process = [h \in Handler |-> [env |-> env, release |-> 1]]
    BY DEF ContractInit
  <2>2. 1 \in Release
    BY ExecutionContractsAssumption DEF Release
  <2> QED BY <2>1, <2>2
<1>7. JobsHaveRuns
  BY DEF ContractInit, JobsHaveRuns
<1> QED BY <1>4, <1>5, <1>6, <1>7 DEF ContractInv, HandlersSound, CopiesFit

-----------------------------------------------------------------------------
\* A resume that reads the row takes away what AfterReadGives says.
LEMMA AskResumeKeeps ==
  ASSUME ContractInv, NEW h \in Handler, NEW r \in ContractRun, NEW kind \in {"resume", "fork"},
         NEW request \in ConfigRequest, NEW override \in BOOLEAN,
         AskResume(h, r, kind, request, override)
  PROVE  ContractInv'
<1> DEFINE x == [HandlerIdle EXCEPT !.kind = kind, !.run = r, !.request = request,
                                    !.override = override]
           z == AfterRead(h, x, contractRows[r])
<1>1. /\ x \in HandlerRow /\ x.run = r /\ x.kind = kind
  BY DEF ConfigRequest, HandlerIdle, HandlerRow, HandlerPc, PartialConfig, Nothing
<1> HIDE DEF x
<1>2. /\ handlers' = [handlers EXCEPT ![h] = z] /\ contractRows[r].status # "absent"
      /\ UNCHANGED <<contractRows, process>> /\ outdated' = outdated \ {h}
  BY DEF AskResume, Handle, x
<1>3. /\ z \in HandlerRow
      /\ z.pc # "idle" => z.run = r /\ HandlerSound(z) /\ CopyFits(z, contractRows[r], ReleaseOf(h))
  BY <1>1, <1>2, AfterReadGives
<1> HIDE DEF z
<1> QED BY <1>2, <1>3, HandlerMoves

\* So does a worker, and the run of the job it claims is there.
LEMMA ClaimKeeps ==
  ASSUME ContractInv, JobsHaveRuns, NEW h \in Handler, NEW r \in ContractRun,
         ClaimContractJob(h, r)
  PROVE  ContractInv'
<1> DEFINE x == [HandlerIdle EXCEPT !.kind = "job", !.run = r]
           z == AfterRead(h, x, contractRows[r])
<1>1. x \in HandlerRow /\ x.run = r /\ x.kind = "job" /\ x.request = Nothing /\ ~x.override
  BY DEF HandlerIdle, HandlerRow, HandlerPc, PartialConfig, Nothing
<1> HIDE DEF x
<1>2. /\ handlers' = [handlers EXCEPT ![h] = z]
      /\ UNCHANGED <<contractRows, process>> /\ outdated' = outdated \ {h}
  BY DEF ClaimContractJob, Handle, x
<1>3. contractRows[r].status # "absent"
  BY DEF ClaimContractJob, JobsHaveRuns
<1>4. /\ z \in HandlerRow
      /\ z.pc # "idle" => z.run = r /\ HandlerSound(z) /\ CopyFits(z, contractRows[r], ReleaseOf(h))
  BY <1>1, <1>3, AfterReadGives
<1> HIDE DEF z
<1> QED BY <1>2, <1>3, <1>4, HandlerMoves

\* A contract attached is the one the handler goes on with.
LEMMA NormalizeKeeps ==
  ASSUME ContractInv, NEW h \in Handler, Normalize(h)
  PROVE  ContractInv'
<1> DEFINE x == handlers[h]
           z == Decide(x, x.config, Env(h), contractRows[x.run].status)
<1>1. /\ x \in HandlerRow /\ x.pc = "normalize" /\ HandlerSound(x)
      /\ contractRows[x.run].status # "absent" /\ Env(h) \in Setting
  BY DEF ContractInv, HandlersSound, Normalize, Env
<1>2. /\ x.run \in ContractRun /\ x.kind \in {"job", "resume", "fork"} /\ x.config \in Config
      /\ x.kind = "job" => x.request = Nothing /\ ~x.override
  BY <1>1 DEF HandlerSound
<1>3. WriteContract(h, x.run, x.config) /\ handlers' = [handlers EXCEPT ![h] = z]
      /\ UNCHANGED process
  BY DEF Normalize, Handle
<1> HIDE DEF x
<1>4. /\ z \in HandlerRow
      /\ z.pc # "idle" => z.run = x.run /\ z.kind = x.kind /\ HandlerSound(z)
      /\ z.pc \notin {"normalize", "executing"}
      /\ z.pc = "start" => z.config = x.config
  BY <1>1, <1>2, DecideGives
<1> HIDE DEF z
<1> QED BY <1>1, <1>2, <1>3, <1>4, ContractWritten

\* An override goes on with what it has written.
LEMMA OverrideKeeps ==
  ASSUME ContractInv, NEW h \in Handler, Override(h)
  PROVE  ContractInv'
<1> DEFINE x == handlers[h]
           z == Proceed(x, contractRows[x.run].status)
<1>1. /\ x \in HandlerRow /\ x.pc = "override" /\ HandlerSound(x)
      /\ contractRows[x.run].status # "absent"
  BY DEF ContractInv, HandlersSound, Override
<1>2. /\ x.run \in ContractRun /\ x.kind = "resume" /\ x.config \in Config
  BY <1>1 DEF HandlerSound
<1>3. WriteContract(h, x.run, x.config) /\ handlers' = [handlers EXCEPT ![h] = z]
      /\ UNCHANGED process
  BY DEF Override, Handle
<1> HIDE DEF x
<1>4. /\ z \in HandlerRow
      /\ z.pc = "idle" \/ (z.run = x.run /\ z.kind = x.kind)
      /\ z.pc \in {"idle", "end job", "requeue", "start", "fork"}
      /\ z.pc = "start" => z.kind = "job" /\ z.config = x.config
      /\ z.pc = "fork" => z.kind = "fork" /\ z.config = x.config
  BY <1>1, <1>2, ProceedGives
<1> HIDE DEF z
<1>5. z.pc # "idle" => /\ HandlerSound(z) /\ z.run = x.run
                       /\ z.pc = "start" => z.config = x.config
                       /\ z.pc \notin {"normalize", "executing"}
  BY <1>2, <1>4 DEF HandlerSound
<1> QED BY <1>1, <1>2, <1>3, <1>4, <1>5, ContractWritten

\* The three steps that write a status.
LEMMA StatusWritesKeep ==
  ASSUME ContractInv, NEW h \in Handler, Requeue(h) \/ BeginExecuting(h) \/ EndExecuting(h)
  PROVE  ContractInv'
<1> DEFINE x == handlers[h]
<1>1. x \in HandlerRow /\ x.pc # "idle" /\ HandlerSound(x)
  BY DEF ContractInv, HandlersSound, Requeue, BeginExecuting, EndExecuting
<1>2. x.run \in ContractRun
  BY <1>1 DEF HandlerSound
<1>3. h \notin outdated => CopyFits(x, contractRows[x.run], ReleaseOf(h))
  BY <1>1 DEF ContractInv, CopiesFit
<1>4. CASE Requeue(h)
  <2> DEFINE z == [x EXCEPT !.pc = "enqueue"]
  <2>1. /\ handlers' = [handlers EXCEPT ![h] = z]
        /\ contractRows' = [contractRows EXCEPT ![x.run].status = "open"]
        /\ UNCHANGED <<process, outdated>>
    BY <1>4 DEF Requeue, Handle
  <2>2. z \in HandlerRow /\ z.pc = "enqueue" /\ z.run = x.run /\ z.kind = x.kind
        /\ z.request = x.request /\ z.override = x.override
    BY <1>1 DEF HandlerRow, HandlerPc
  <2> HIDE DEF x, z
  <2>3. HandlerSound(z) /\ CopyFits(z, contractRows[x.run], ReleaseOf(h))
    BY <1>1, <2>2 DEF HandlerSound, CopyFits
  <2> QED BY <1>2, <2>1, <2>2, <2>3, StatusMoves DEF x
<1>5. CASE BeginExecuting(h)
  <2> DEFINE z == [x EXCEPT !.pc = "executing"]
  <2>1. /\ x.pc = "start" /\ handlers' = [handlers EXCEPT ![h] = z]
        /\ contractRows' = [contractRows EXCEPT ![x.run].status = "open"]
        /\ UNCHANGED <<process, outdated>>
    BY <1>5 DEF BeginExecuting, Handle
  <2>2. z \in HandlerRow /\ z.pc = "executing" /\ z.run = x.run /\ z.kind = x.kind
        /\ z.request = x.request /\ z.override = x.override /\ z.config = x.config
    BY <1>1 DEF HandlerRow, HandlerPc
  <2> HIDE DEF x, z
  <2>3. HandlerSound(z)
    BY <1>1, <2>1, <2>2 DEF HandlerSound
  <2>4. h \notin outdated => CopyFits(z, contractRows[x.run], ReleaseOf(h))
    BY <1>3, <2>1, <2>2 DEF CopyFits
  <2> QED BY <1>2, <2>1, <2>2, <2>3, <2>4, StatusMoves DEF x
<1>6. CASE EndExecuting(h)
  <2> DEFINE z == Ended(x)
  <2>1. PICK status \in {"open", "complete"} :
          contractRows' = [contractRows EXCEPT ![x.run].status = status]
    BY <1>6 DEF EndExecuting
  <2>2. /\ handlers' = [handlers EXCEPT ![h] = z] /\ UNCHANGED <<process, outdated>>
    BY <1>6 DEF EndExecuting, Handle
  <2>3. /\ z \in HandlerRow
        /\ z.pc \in {"idle", "end job"}
        /\ z.pc = "end job" => /\ x.kind = "job" /\ z.run = x.run /\ z.kind = x.kind
                               /\ z.request = x.request /\ z.override = x.override
    BY <1>1, EndedGives
  <2> HIDE DEF x, z
  <2>4. z.pc # "idle" => /\ HandlerSound(z) /\ z.run = x.run
                         /\ CopyFits(z, contractRows[x.run], ReleaseOf(h))
    BY <1>1, <2>3 DEF HandlerSound, CopyFits
  <2> QED BY <1>2, <2>1, <2>2, <2>3, <2>4, StatusMoves DEF x
<1> QED BY <1>4, <1>5, <1>6

\* The two steps that leave the handler idle and the rows alone.
LEMMA JobWritesKeep ==
  ASSUME ContractInv, NEW h \in Handler, Enqueue(h) \/ EndContractJob(h)
  PROVE  ContractInv'
<1>1. /\ handlers' = [handlers EXCEPT ![h] = HandlerIdle]
      /\ UNCHANGED <<contractRows, process, outdated>>
  BY DEF Enqueue, EndContractJob, Handle
<1> QED BY <1>1, IdleTyped, HandlerMoves

\* A handler lost with its process knows nothing any more.
LEMMA RedeployKeeps ==
  ASSUME ContractInv, NEW h \in Handler, NEW env \in Setting, NEW release \in Release,
         Redeploy(h, env, release)
  PROVE  ContractInv'
<1>1. /\ handlers' = [handlers EXCEPT ![h] = HandlerIdle]
      /\ process' = [process EXCEPT ![h] = [env |-> env, release |-> release]]
      /\ contractRows' = contractRows /\ outdated' = outdated
  BY DEF Redeploy, Handle
<1>2. /\ handlers' \in [Handler -> HandlerRow] /\ handlers'[h].pc = "idle"
      /\ \A g \in Handler \ {h} : handlers'[g] = handlers[g]
  BY <1>1, IdleTyped DEF ContractInv
<1>3. /\ process' \in [Handler -> [env : Setting, release : Release]]
      /\ \A g \in Handler \ {h} : ReleaseOf(g)' = ReleaseOf(g)
  BY <1>1 DEF ContractInv, ReleaseOf
<1>4. HandlersSound'
  BY <1>1, <1>2 DEF ContractInv, HandlersSound
<1>5. CopiesFit'
  <2> SUFFICES ASSUME NEW g \in Handler, handlers'[g].pc # "idle", g \notin outdated'
               PROVE  CopyFits(handlers'[g], contractRows'[handlers'[g].run], ReleaseOf(g)')
    BY DEF CopiesFit
  <2>1. g # h
    BY <1>2
  <2>2. CopyFits(handlers[g], contractRows[handlers[g].run], ReleaseOf(g))
    BY <1>1, <1>2, <2>1 DEF ContractInv, CopiesFit
  <2> QED BY <1>1, <1>2, <1>3, <2>1, <2>2
<1> QED BY <1>1, <1>2, <1>3, <1>4, <1>5 DEF ContractInv
-----------------------------------------------------------------------------
\* A fork for a resume: the new run has the contract the handler took along.
LEMMA ForkForResumeKeeps ==
  ASSUME ContractInv, NEW h \in Handler, NEW r \in ContractRun, ForkForResume(h, r)
  PROVE  ContractInv'
<1> DEFINE x == handlers[h]
           k == Contract(x.config, ReleaseOf(h))
<1>1. /\ x \in HandlerRow /\ x.pc = "fork" /\ HandlerSound(x) /\ ReleaseOf(h) \in Release
  BY DEF ContractInv, HandlersSound, ForkForResume, ReleaseOf
<1>2. x.config \in Config /\ x.kind = "fork"
  BY <1>1 DEF HandlerSound
<1>3. k \in StoredContract /\ k.config = x.config
  BY <1>1, <1>2, ContractWhole
<1> HIDE DEF k
<1>4. PICK status \in {"open", "complete"} :
        /\ contractRows' = [contractRows EXCEPT ![r] =
             [status |-> status, stored |-> x.config, contract |-> k]]
        /\ handlers' = [handlers EXCEPT ![h] =
             IF status = "complete" THEN HandlerIdle ELSE [x EXCEPT !.pc = "enqueue", !.run = r]]
  BY DEF ForkForResume, Handle, k
<1>5. UNCHANGED process /\ outdated' = outdated \ {h} /\ contractRows[r].status = "absent"
  BY DEF ForkForResume
<1> HIDE DEF x
<1> DEFINE row == [status |-> status, stored |-> x.config, contract |-> k]
           z == IF status = "complete" THEN HandlerIdle ELSE [x EXCEPT !.pc = "enqueue", !.run = r]
<1>6. row \in ContractRow /\ row.status # "absent" /\ row.stored = row.contract.config
  BY <1>2, <1>3, PartsTyped DEF ContractRow
<1>7. /\ z \in HandlerRow
      /\ z.pc # "idle" => /\ z.pc = "enqueue" /\ z.run = r /\ z.kind = x.kind
  BY <1>1, IdleTyped DEF HandlerRow, HandlerPc
<1>8. handlers' = [handlers EXCEPT ![h] = z] /\ contractRows' = [contractRows EXCEPT ![r] = row]
  BY <1>4
<1> HIDE DEF row, z
<1>9. z.pc # "idle" => HandlerSound(z) /\ z.run = r /\ CopyFits(z, row, ReleaseOf(h))
  BY <1>2, <1>7 DEF HandlerSound, CopyFits
<1> QED BY <1>5, <1>6, <1>7, <1>8, <1>9, RowAppears

\* A fork at a step: the handler has nothing to do with the new run.
LEMMA ForkAtStepKeeps ==
  ASSUME ContractInv, NEW h \in Handler, NEW source \in ContractRun, NEW r \in ContractRun,
         ForkAtStep(h, source, r)
  PROVE  ContractInv'
<1>1. PICK status \in {"open", "complete"} :
        contractRows' = [contractRows EXCEPT ![r] = [contractRows[source] EXCEPT !.status = status]]
  BY DEF ForkAtStep
<1> DEFINE row == [contractRows[source] EXCEPT !.status = status]
<1>2. /\ row \in ContractRow /\ row.status # "absent"
      /\ row.contract # NoContract => row.stored = row.contract.config
  BY DEF ContractInv, ContractRow, StoredIsContracts
<1>3. /\ handlers[h] \in HandlerRow /\ handlers[h].pc = "idle"
      /\ handlers' = [handlers EXCEPT ![h] = handlers[h]]
  BY DEF ContractInv, ForkAtStep, AskedNow
<1>4. UNCHANGED process /\ outdated' = outdated /\ contractRows[r].status = "absent"
  BY DEF ForkAtStep
<1> HIDE DEF row
<1>5. contractRows' = [contractRows EXCEPT ![r] = row]
  BY <1>1 DEF row
<1> QED BY <1>2, <1>3, <1>4, <1>5, RowAppears

\* A new run executes under the contract it was created with.
LEMMA CreateKeeps ==
  ASSUME ContractInv, NEW h \in Handler, NEW r \in ContractRun, NEW kind \in {"queued", "direct"},
         NEW request \in ConfigRequest, CreateWithContract(h, r, kind, request)
  PROVE  ContractInv'
<1> DEFINE asked == Resolve(request, Env(h))
           Choice == IF kind = "direct" THEN {asked, ForBuilder(asked)} ELSE {asked}
           Z(config) == [HandlerIdle EXCEPT !.kind = kind, !.run = r, !.config = config,
                          !.pc = IF kind = "direct" THEN "start" ELSE "enqueue"]
<1>1. Env(h) \in Setting /\ ReleaseOf(h) \in Release /\ request \in PartialConfig
  BY DEF ContractInv, Env, ReleaseOf, ConfigRequest
<1>2. asked \in Config
  BY <1>1, ResolveWhole
<1> HIDE DEF asked
<1>3. Choice \subseteq Config
  BY <1>2, ExecutionContractsAssumption DEF ForBuilder, Config
<1>4. PICK config \in Choice :
        /\ contractRows' = [contractRows EXCEPT ![r] =
             [status |-> "open", stored |-> config, contract |-> Contract(config, ReleaseOf(h))]]
        /\ handlers' = [handlers EXCEPT ![h] = Z(config)]
  BY DEF CreateWithContract, Handle, asked
<1>5. UNCHANGED process /\ outdated' = outdated \ {h} /\ contractRows[r].status = "absent"
  BY DEF CreateWithContract
<1> HIDE DEF Choice
<1> DEFINE k == Contract(config, ReleaseOf(h))
<1>6. config \in Config
  BY <1>3
<1>7. k \in StoredContract /\ k # NoContract /\ k.config = config /\ k.release = ReleaseOf(h)
  BY <1>1, <1>6, ContractWhole
<1> HIDE DEF k
<1> DEFINE row == [status |-> "open", stored |-> config, contract |-> k]
           z == Z(config)
<1>8. /\ row \in ContractRow /\ row.status # "absent" /\ row.stored = config /\ row.contract = k
  BY <1>6, <1>7, PartsTyped DEF ContractRow
<1>9. /\ z \in HandlerRow /\ z.pc \in {"start", "enqueue"} /\ z.run = r /\ z.kind = kind
      /\ z.config = config
  BY <1>6, PartsTyped DEF HandlerIdle, HandlerRow, HandlerPc
<1>10. handlers' = [handlers EXCEPT ![h] = z] /\ contractRows' = [contractRows EXCEPT ![r] = row]
  BY <1>4 DEF k
<1> HIDE DEF row, z, Z
<1>11. HandlerSound(z) /\ CopyFits(z, row, ReleaseOf(h))
  BY <1>6, <1>7, <1>8, <1>9 DEF HandlerSound, CopyFits
<1> QED BY <1>5, <1>7, <1>8, <1>9, <1>10, <1>11, RowAppears

-----------------------------------------------------------------------------
\* What a step does to the rows: nothing, a status, a row where there was
\* none, or metadata written by a handler that attaches or overrides.
RowsMove ==
  \/ contractRows' = contractRows
  \/ \E r \in ContractRun, status \in {"open", "complete"} :
       contractRows' = [contractRows EXCEPT ![r].status = status]
  \/ \E r \in ContractRun, row \in ContractRow :
       /\ contractRows[r].status = "absent" /\ row.status # "absent"
       /\ contractRows' = [contractRows EXCEPT ![r] = row]
  \/ \E h \in Handler : LET x == handlers[h] IN
       /\ x.pc = "normalize" \/ (x.pc = "override" /\ x.override)
       /\ x.run \in ContractRun /\ x.config \in Config
       /\ WriteContract(h, x.run, x.config)

\* What a step does to the jobs: at most one changes, and its run is there.
JobsMove ==
  \/ contractJobs' = contractJobs
  \/ \E r \in ContractRun, job \in {"none", "queued"} \cup Handler :
       /\ contractRows[r].status # "absent"
       /\ contractJobs' = [contractJobs EXCEPT ![r] = job]

\* Every step moves rows and jobs that way.
LEMMA StepMoves ==
  ASSUME ContractInv, JobsHaveRuns, ContractNext
  PROVE  RowsMove /\ JobsMove
<1>1. PICK h \in Handler :
    \/ \E r \in ContractRun :
         \/ \E request \in ConfigRequest :
              \/ \E override \in BOOLEAN : AskResume(h, r, "resume", request, override)
              \/ AskResume(h, r, "fork", request, FALSE)
              \/ \E kind \in {"queued", "direct"} : CreateWithContract(h, r, kind, request)
         \/ \E source \in ContractRun : ForkAtStep(h, source, r)
         \/ ClaimContractJob(h, r)
         \/ ForkForResume(h, r)
    \/ Normalize(h) \/ Override(h) \/ Requeue(h) \/ Enqueue(h)
    \/ BeginExecuting(h) \/ EndExecuting(h) \/ EndContractJob(h)
    \/ \E env \in Setting, release \in Release : Redeploy(h, env, release)
  BY DEF ContractNext
<1> DEFINE x == handlers[h]
<1>2. x.pc # "idle" =>
        HandlerSound(x) /\ x.run \in ContractRun /\ contractRows[x.run].status # "absent"
  BY DEF ContractInv, HandlersSound, HandlerSound
<1>3. ASSUME NEW r \in ContractRun, NEW kind \in {"resume", "fork"}, NEW request \in ConfigRequest,
             NEW override \in BOOLEAN, AskResume(h, r, kind, request, override)
      PROVE  RowsMove /\ JobsMove
  BY <1>3 DEF AskResume, RowsMove, JobsMove
<1>4. ASSUME NEW r \in ContractRun, NEW kind \in {"queued", "direct"},
             NEW request \in ConfigRequest, CreateWithContract(h, r, kind, request)
      PROVE  RowsMove /\ JobsMove
  <2> DEFINE asked == Resolve(request, Env(h))
             Choice == IF kind = "direct" THEN {asked, ForBuilder(asked)} ELSE {asked}
  <2>1. asked \in Config /\ ReleaseOf(h) \in Release
    BY ResolveWhole DEF ContractInv, Env, ReleaseOf, ConfigRequest
  <2>2. PICK config \in Choice : contractRows' = [contractRows EXCEPT ![r] =
          [status |-> "open", stored |-> config, contract |-> Contract(config, ReleaseOf(h))]]
    BY <1>4 DEF CreateWithContract
  <2> HIDE DEF asked
  <2>3. config \in Config
    BY <2>1, ExecutionContractsAssumption DEF ForBuilder, Config
  <2> HIDE DEF Choice
  <2>4. [status |-> "open", stored |-> config, contract |-> Contract(config, ReleaseOf(h))]
          \in ContractRow
    BY <2>1, <2>3, ContractWhole, PartsTyped DEF ContractRow
  <2>5. contractRows[r].status = "absent" /\ contractJobs' = contractJobs
    BY <1>4 DEF CreateWithContract
  <2> QED BY <2>2, <2>4, <2>5 DEF RowsMove, JobsMove
<1>5. ASSUME NEW r \in ContractRun, NEW source \in ContractRun, ForkAtStep(h, source, r)
      PROVE  RowsMove /\ JobsMove
  <2>1. PICK status \in {"open", "complete"} :
          contractRows' = [contractRows EXCEPT ![r] = [contractRows[source] EXCEPT !.status = status]]
    BY <1>5 DEF ForkAtStep
  <2> DEFINE row == [contractRows[source] EXCEPT !.status = status]
  <2>2. row \in ContractRow /\ row.status # "absent"
    BY DEF ContractInv, ContractRow
  <2>3. contractRows[r].status = "absent" /\ contractJobs' = contractJobs
    BY <1>5 DEF ForkAtStep
  <2> QED BY <2>1, <2>2, <2>3 DEF RowsMove, JobsMove
<1>6. ASSUME NEW r \in ContractRun, ClaimContractJob(h, r)
      PROVE  RowsMove /\ JobsMove
  BY <1>6 DEF ClaimContractJob, JobsHaveRuns, RowsMove, JobsMove
<1>7. ASSUME NEW r \in ContractRun, ForkForResume(h, r)
      PROVE  RowsMove /\ JobsMove
  <2>1. x.config \in Config /\ ReleaseOf(h) \in Release
    BY <1>2, <1>7 DEF ForkForResume, HandlerSound, ContractInv, ReleaseOf
  <2>2. PICK status \in {"open", "complete"} : contractRows' = [contractRows EXCEPT ![r] =
          [status |-> status, stored |-> x.config, contract |-> Contract(x.config, ReleaseOf(h))]]
    BY <1>7 DEF ForkForResume
  <2>3. contractRows[r].status = "absent" /\ contractJobs' = contractJobs
    BY <1>7 DEF ForkForResume
  <2> HIDE DEF x
  <2>4. [status |-> status, stored |-> x.config, contract |-> Contract(x.config, ReleaseOf(h))]
          \in ContractRow
    BY <2>1, ContractWhole, PartsTyped DEF ContractRow
  <2> QED BY <2>2, <2>3, <2>4 DEF RowsMove, JobsMove
<1>8. CASE Normalize(h) \/ Override(h)
  <2>1. /\ x.pc \in {"normalize", "override"} /\ contractJobs' = contractJobs
        /\ WriteContract(h, x.run, x.config)
    BY <1>8 DEF Normalize, Override
  <2>2. x.config \in Config /\ (x.pc = "override" => x.override)
    BY <1>2, <2>1 DEF HandlerSound
  <2> QED BY <1>2, <2>1, <2>2 DEF RowsMove, JobsMove
<1>9. CASE Requeue(h) \/ BeginExecuting(h) \/ EndExecuting(h)
  <2>1. x.pc # "idle" /\ contractJobs' = contractJobs
    BY <1>9 DEF Requeue, BeginExecuting, EndExecuting
  <2>2. \E status \in {"open", "complete"} :
          contractRows' = [contractRows EXCEPT ![x.run].status = status]
    BY <1>9 DEF Requeue, BeginExecuting, EndExecuting
  <2> QED BY <1>2, <2>1, <2>2 DEF RowsMove, JobsMove
<1>10. CASE Enqueue(h) \/ EndContractJob(h)
  <2>1. x.pc # "idle" /\ contractRows' = contractRows
    BY <1>10 DEF Enqueue, EndContractJob
  <2>2. \E job \in {"none", "queued", contractJobs[x.run]} :
          contractJobs' = [contractJobs EXCEPT ![x.run] = job]
    BY <1>10 DEF Enqueue, EndContractJob
  <2>3. contractJobs[x.run] \in {"none", "queued"} \cup Handler
    BY <1>2, <2>1 DEF JobsHaveRuns
  <2> QED BY <1>2, <2>1, <2>2, <2>3 DEF RowsMove, JobsMove
<1>11. ASSUME NEW env \in Setting, NEW release \in Release, Redeploy(h, env, release)
       PROVE  RowsMove /\ JobsMove
  BY <1>11 DEF Redeploy, RowsMove, JobsMove
<1> QED BY <1>1, <1>3, <1>4, <1>5, <1>6, <1>7, <1>8, <1>9, <1>10, <1>11

\* Rows do not go away, and the contract of one that is there changes only at
\* the hands of a handler that attaches or overrides.
LEMMA RowsStay ==
  ASSUME ContractInv, RowsMove, NEW q \in ContractRun, contractRows[q].status # "absent"
  PROVE  /\ contractRows'[q].status # "absent"
         /\ \/ contractRows'[q].contract = contractRows[q].contract
            \/ \E h \in Handler : LET x == handlers[h] IN
                 /\ x.pc = "normalize" \/ (x.pc = "override" /\ x.override)
                 /\ x.run \in ContractRun /\ x.config \in Config
                 /\ WriteContract(h, x.run, x.config) /\ x.run = q
<1>0. contractRows \in [ContractRun -> ContractRow]
  BY DEF ContractInv
<1>1. CASE contractRows' = contractRows
  BY <1>1
<1>2. ASSUME NEW r \in ContractRun, NEW status \in {"open", "complete"},
             contractRows' = [contractRows EXCEPT ![r].status = status]
      PROVE  /\ contractRows'[q].status # "absent"
             /\ contractRows'[q].contract = contractRows[q].contract
  BY <1>0, <1>2 DEF ContractRow
<1>3. ASSUME NEW r \in ContractRun, NEW row \in ContractRow, contractRows[r].status = "absent",
             contractRows' = [contractRows EXCEPT ![r] = row]
      PROVE  contractRows'[q] = contractRows[q]
  BY <1>0, <1>3
<1>4. ASSUME NEW h \in Handler, handlers[h].run \in ContractRun,
             WriteContract(h, handlers[h].run, handlers[h].config)
      PROVE  /\ contractRows'[q].status # "absent"
             /\ handlers[h].run # q => contractRows'[q] = contractRows[q]
  <2> DEFINE k == Contract(handlers[h].config, ReleaseOf(h))
             r == handlers[h].run
  <2>1. contractRows' = [contractRows EXCEPT ![r].stored = handlers[h].config, ![r].contract = k]
    BY <1>4 DEF WriteContract
  <2> HIDE DEF k
  <2> QED BY <1>0, <1>4, <2>1 DEF ContractRow
<1> QED BY <1>1, <1>2, <1>3, <1>4 DEF RowsMove

\* A job's run is there, and stays there.
LEMMA JobsKeepTheirRuns ==
  ASSUME ContractInv, JobsHaveRuns, RowsMove, JobsMove
  PROVE  JobsHaveRuns'
<1>1. \A q \in ContractRun :
        contractRows[q].status # "absent" => contractRows'[q].status # "absent"
  BY RowsStay
<1>2. CASE contractJobs' = contractJobs
  BY <1>1, <1>2 DEF JobsHaveRuns
<1>3. ASSUME NEW r \in ContractRun, NEW job \in {"none", "queued"} \cup Handler,
             contractRows[r].status # "absent",
             contractJobs' = [contractJobs EXCEPT ![r] = job]
      PROVE  JobsHaveRuns'
  BY <1>1, <1>3 DEF JobsHaveRuns
<1> QED BY <1>2, <1>3 DEF JobsMove

\* The invariant is inductive.
LEMMA ContractInductive ==
  ASSUME ContractInv, JobsHaveRuns, [ContractNext]_contractVars
  PROVE  ContractInv' /\ JobsHaveRuns'
<1>1. CASE UNCHANGED contractVars
  BY <1>1 DEF contractVars, ContractInv, JobsHaveRuns, StoredIsContracts, HandlersSound, CopiesFit,
              ReleaseOf
<1>2. CASE ContractNext
  <2>1. JobsHaveRuns'
    BY <1>2, StepMoves, JobsKeepTheirRuns
  <2>2. ContractInv'
    BY <1>2, AskResumeKeeps, CreateKeeps, ForkAtStepKeeps, ClaimKeeps, ForkForResumeKeeps,
       NormalizeKeeps, OverrideKeeps, StatusWritesKeep, JobWritesKeep, RedeployKeeps
    DEF ContractNext
  <2> QED BY <2>1, <2>2
<1> QED BY <1>1, <1>2

\* It holds of every state.
LEMMA ContractInvariant == ContractSpec => [](ContractInv /\ JobsHaveRuns)
<1>1. ContractInv /\ JobsHaveRuns /\ [ContractNext]_contractVars => ContractInv' /\ JobsHaveRuns'
  BY ContractInductive
<1> QED BY ContractInitSound, <1>1, PTL DEF ContractSpec

\* An execution that begins or goes on does so under the configuration and the
\* policy versions of the run's stored contract, unless the metadata were
\* rewritten since its handler read them: for any number of runs and handlers,
\* any settings and any number of restarts (prepareResumeExecutionConfig,
\* assertStoredExecutionContract).
THEOREM ExecutionsUnderContract == ContractSpec => []ExecutesStoredContract
<1>1. ContractInv => ExecutesStoredContract
  BY DEF ContractInv, CopiesFit, CopyFits, ExecutesStoredContract
<1> QED BY <1>1, ContractInvariant, PTL

\* What a step may do to a contract that is there.
LEMMA ContractStepKept ==
  ASSUME ContractInv, JobsHaveRuns, ContractNext, NEW r \in ContractRun,
         contractRows[r].contract # NoContract
  PROVE  LET k == contractRows[r].contract  l == contractRows'[r].contract IN
           \/ l # NoContract /\ l.config = k.config /\ l.release = k.release
           \/ \E h \in Handler : LET x == handlers[h] IN
                /\ x.run = r
                /\ \/ x.pc = "override" /\ x.override
                   \/ x.pc = "normalize" /\ h \in outdated
<1>1. contractRows[r].status # "absent"
  BY DEF ContractInv, StoredIsContracts
<1>2. CASE contractRows'[r].contract = contractRows[r].contract
  BY <1>2
<1>3. ASSUME NEW h \in Handler, handlers[h].run \in ContractRun, handlers[h].config \in Config,
             handlers[h].pc = "normalize" \/ (handlers[h].pc = "override" /\ handlers[h].override),
             WriteContract(h, handlers[h].run, handlers[h].config), handlers[h].run = r,
             handlers[h].pc = "normalize" => h \notin outdated
      PROVE  \/ handlers[h].pc = "override" /\ handlers[h].override
             \/ LET k == contractRows[r].contract  l == contractRows'[r].contract IN
                l # NoContract /\ l.config = k.config /\ l.release = k.release
  <2> SUFFICES ASSUME handlers[h].pc = "normalize"
               PROVE  LET k == contractRows[r].contract  l == contractRows'[r].contract IN
                      l # NoContract /\ l.config = k.config /\ l.release = k.release
    BY <1>3
  <2>1. /\ contractRows[r].contract.config = handlers[h].config
        /\ contractRows[r].contract.release = ReleaseOf(h)
    BY <1>3 DEF ContractInv, CopiesFit, CopyFits
  <2>2. ReleaseOf(h) \in Release
    BY DEF ContractInv, ReleaseOf
  <2>3. contractRows'[r].contract = Contract(handlers[h].config, ReleaseOf(h))
    BY <1>3 DEF ContractInv, ContractRow, WriteContract
  <2> QED BY <1>3, <2>1, <2>2, <2>3, ContractWhole
<1>4. \/ contractRows'[r].contract = contractRows[r].contract
      \/ \E h \in Handler : LET x == handlers[h] IN
           /\ x.pc = "normalize" \/ (x.pc = "override" /\ x.override)
           /\ x.run \in ContractRun /\ x.config \in Config
           /\ WriteContract(h, x.run, x.config) /\ x.run = r
  <2>1. RowsMove
    BY StepMoves
  <2> QED BY <1>1, <2>1, RowsStay
<1> QED BY <1>2, <1>3, <1>4

\* Once a run has a contract, its configuration and policy versions change
\* only by an override that was asked for, or at the hands of a handler whose
\* copy of the metadata is out of date: for any number of handlers.
THEOREM ContractsKept == ContractSpec => ContractKept
<1>1. ASSUME ContractInv, JobsHaveRuns, [ContractNext]_contractVars
      PROVE  [\A r \in ContractRun :
       LET k == contractRows[r].contract  l == contractRows'[r].contract IN
         k # NoContract =>
           \/ l # NoContract /\ l.config = k.config /\ l.release = k.release
           \/ \E h \in Handler : LET x == handlers[h] IN
                /\ x.run = r
                /\ \/ x.pc = "override" /\ x.override
                   \/ x.pc = "normalize" /\ h \in outdated]_contractVars
  BY <1>1, ContractStepKept
<1> QED BY <1>1, ContractInvariant, PTL DEF ContractSpec, ContractKept

-----------------------------------------------------------------------------
(* Types.                                                                  *)

Status == {"none", "queued", "over"}
RunRow == [status : {"complete", "failed"}, verdict : {"none", "passed", "failed"}]
MaybeProject == Projects \cup {Null}

Page ==
  [user : BOOLEAN, workspace : 0..2, listed : SUBSET Projects, project : MaybeProject,
   file : MaybeProject, runs : MaybeProject, run : ProjectRun \cup {Null},
   detail : [of : ProjectRun, row : RunRow] \cup {Null},
   validation : [of : ProjectRun \cup {Null}, about : ProjectRun] \cup {Null},
   shown : [Projects -> Status], logOf : MaybeProject, timer : BOOLEAN]

Backend ==
  [row : [ProjectRun -> RunRow], content : [Projects -> Projects],
   deploy : [Projects -> Status], signed : BOOLEAN]

\* What a handler may ask, and what it may have left to do.
Global == {"projects", "logout", "auth"}
OfRun == {"detail", "validate", "resume", "deploy"}
Op ==
  Global \cup OfRun \cup Lists \cup {"project", "file", "reopen", "runs", "save", "commit", "build"}
Item == {"projects", "refresh", "first", "open", "reopen", "deployments", "runs", "detail"}

Call ==
  [op : Op, of : MaybeProject, arg : MaybeProject \cup ProjectRun \cup (0..2),
   signed : BOOLEAN, old : Status \cup RunRow \cup {Null}]

\* What a call holds, by what it asks for.
CallFits(c) ==
  /\ c.op \notin Global => c.of \in Projects
  /\ c.op \in OfRun => c.arg \in ProjectRun
  /\ c.op \in {"logs", "save"} => c.arg \in Projects
  /\ c.op \in {"deployments", "deployments only"} => c.old \in Status
  /\ c.op = "logs" /\ c.arg = c.of => c.old \in Status
  /\ (c.op = "detail" /\ c.arg[1] = c.of) => c.old \in RunRow

Kind ==
  {"none", "poll", "ended", "read", "select", "workspace", "save", "commit", "build", "validate",
   "resume", "deploy", "logout", "auth"}

TaskRow ==
  [pc : {"none", "on", "done"}, kind : Kind, calls : SUBSET Call, todo : Seq(Item)]

Awry ==
  [mishaps : Nat, overlap : BOOLEAN, cut : BOOLEAN, unsettled : BOOLEAN,
   promoted : SUBSET (Projects \X ProjectRun \X RunRow)]

RoomTyped ==
  page \in Page /\ backend \in Backend /\ task \in [Task -> TaskRow] /\ awry \in Awry

\* A handler at rest asks nothing.  The poll is a list with its logs.
TaskSound(h, t) ==
  /\ \A c \in t.calls : CallFits(c)
  /\ t.pc # "on" => t.calls = {}
  /\ Len(t.todo) <= 3
  /\ h = Poll => t.todo = <<>> /\ \A c \in t.calls : c.op \in {"deployments", "logs"}

TasksSound == \A h \in Task : TaskSound(h, task[h])
-----------------------------------------------------------------------------
(* What holds whatever overlaps or fails.                                  *)

\* A list, or its logs, is under way of some handler.
ListUnderWay(tasks) == \E h \in Task : \E c \in tasks[h].calls : c.op \in Lists

Settled == ~awry.unsettled => page = Synced(page) \/ ListUnderWay(task)

Promoted == \A d \in awry.promoted : d[2][1] = d[1] /\ Eligible(d[3])

\* A poll that met its project shows its logs.
PollFits == ~awry.cut => \A c \in task[Poll].calls : c.op = "logs" => c.arg = c.of
-----------------------------------------------------------------------------
(* What holds as long as no gestures overlap.                              *)

OneByOne == \A g, h \in Gesture : task[g].pc = "on" /\ task[h].pc = "on" => g = h

\* Who is not signed in sees nothing, and the server knows who is.
SignedIn(pg, b) ==
  /\ pg.user => b.signed
  /\ ~pg.user => pg.project = Null /\ pg.listed = {}

\* What a project is read with; all else is asked by itself.
Together == {"deployments", "deployments only", "logs", "runs", "detail"}
Switching == {"project"} \cup Global

\* A gesture's call is about what the page shows, or will change that.
CallAbout(c, t, pg) ==
  /\ c.op \notin Together => t.calls = {c}
  /\ c.op \notin Switching => c.of = pg.project
  /\ c.op \in {"validate", "resume"} => c.arg = pg.run
  /\ c.op \in {"logs", "save"} => c.arg = c.of
  /\ c.op = "logout" => t.todo = <<>>
  /\ c.op # "auth" => pg.user

TaskAbout(t, pg) == \A c \in t.calls : CallAbout(c, t, pg)
CallsAbout == \A g \in Gesture : TaskAbout(task[g], page)

\* Files keep their text, and the page its file.
FilesFit(pg, b) ==
  /\ pg.project # Null => pg.file \in {Null, pg.project}
  /\ \A p \in Projects : b.content[p] = p

VerdictFits(pg) == pg.validation # Null => pg.validation.of = pg.validation.about

Undisturbed ==
  OneByOne /\ SignedIn(page, backend) /\ CallsAbout /\ FilesFit(page, backend) /\ VerdictFits(page)
-----------------------------------------------------------------------------
(* What holds besides as long as nothing was cut.                          *)

Asking(op, tasks) == \E g \in Gesture : \E c \in tasks[g].calls : c.op = op

OneRunShown(pg) ==
  /\ pg.detail # Null => pg.detail.of = pg.run
  /\ pg.validation # Null => pg.validation.about = pg.run

RunsFit(pg) == pg.runs = pg.project /\ pg.run # Null /\ pg.run[1] = pg.project
ListFits(pg) == \A p \in Projects \ {pg.project} : pg.shown[p] = "none"

PageFits(pg, tasks) ==
  pg.project # Null =>
    /\ OneRunShown(pg)
    /\ RunsFit(pg) \/ Asking("runs", tasks)
    /\ ListFits(pg) \/ Asking("deployments", tasks)

RoomInv ==
  /\ RoomTyped /\ TasksSound
  /\ Settled /\ Promoted /\ PollFits
  /\ ~awry.overlap => Undisturbed
  /\ ~awry.overlap /\ ~awry.cut => PageFits(page, task)
-----------------------------------------------------------------------------
(* Calls: what Make, ReadsOf, Follow and Asks ask for.                     *)

\* What the server has for a read is of the read's type (Now).
LEMMA NowTyped ==
  ASSUME backend \in Backend, NEW p \in Projects
  PROVE  /\ \A op \in {"deployments", "deployments only"} : \A arg : Now(op, p, arg) \in Status
         /\ Now("logs", p, p) \in Status
         /\ \A r \in ProjectRun : r[1] = p => Now("detail", p, r) \in RunRow
         /\ \A op \in Op : \A arg : (op = "detail" => arg \in ProjectRun) =>
                Now(op, p, arg) \in Status \cup RunRow \cup {Null}
<1>1. /\ \A q \in Projects : backend.deploy[q] \in Status
      /\ \A r \in ProjectRun : backend.row[r] \in RunRow
  BY DEF Backend
<1>2. \A op \in {"deployments", "deployments only"} : \A arg : Now(op, p, arg) = backend.deploy[p]
  BY DEF Now
<1>3. Now("logs", p, p) = backend.deploy[p]
  BY DEF Now
<1>4. \A r \in ProjectRun : r[1] = p => Now("detail", p, r) = backend.row[r]
  BY DEF Now, RowOf
<1>5. ASSUME NEW op \in Op, NEW arg, op = "detail" => arg \in ProjectRun
      PROVE  Now(op, p, arg) \in Status \cup RunRow \cup {Null}
  BY <1>1, <1>5 DEF Now, RowOf
<1> QED BY <1>1, <1>2, <1>3, <1>4, <1>5

\* Calls that hold nothing the server has yet.
PlainOp == {"project", "file", "reopen", "runs", "commit", "build"}

\* A call about a project, made by one of the operations that take no argument.
LEMMA PlainCalls ==
  ASSUME backend \in Backend, NEW p \in Projects, NEW op \in PlainOp
  PROVE  /\ Make(op, p, Null) \in Call /\ CallFits(Make(op, p, Null))
         /\ Make(op, p, Null).op = op /\ Make(op, p, Null).of = p
<1>1. Now(op, p, Null) = Null BY DEF Now, PlainOp
<1> QED
  BY <1>1 DEF Make, Call, CallFits, PlainOp, Op, Lists, OfRun, Global, MaybeProject, Backend

\* A call for a list of deployments (loadDeployments).
LEMMA ListCalls ==
  ASSUME backend \in Backend, NEW p \in Projects, NEW op \in {"deployments", "deployments only"}
  PROVE  /\ Make(op, p, Null) \in Call /\ CallFits(Make(op, p, Null))
         /\ Make(op, p, Null).op = op /\ Make(op, p, Null).of = p
<1>1. Now(op, p, Null) \in Status BY NowTyped
<1> QED
  BY <1>1 DEF Make, Call, CallFits, Op, Lists, OfRun, Global, MaybeProject, Backend

\* A call for the logs of a deployment.
LEMMA LogCalls ==
  ASSUME backend \in Backend, NEW p \in Projects, NEW q \in Projects
  PROVE  /\ Make("logs", p, q) \in Call /\ CallFits(Make("logs", p, q))
         /\ Make("logs", p, q).op = "logs" /\ Make("logs", p, q).of = p
         /\ Make("logs", p, q).arg = q
<1>1. Now("logs", p, q) \in Status \cup RunRow \cup {Null}
  BY NowTyped DEF Op, Lists
<1>2. p = q => Now("logs", p, q) \in Status
  BY NowTyped
<1> QED
  BY <1>1, <1>2 DEF Make, Call, CallFits, Op, Lists, OfRun, Global, MaybeProject, Backend

\* A call about a run: its detail, or one of the buttons of the detail.
LEMMA RunCalls ==
  ASSUME backend \in Backend, NEW p \in Projects, NEW r \in ProjectRun, NEW op \in OfRun
  PROVE  /\ Make(op, p, r) \in Call /\ CallFits(Make(op, p, r))
         /\ Make(op, p, r).op = op /\ Make(op, p, r).of = p
         /\ Make(op, p, r).arg = r
<1>1. Now(op, p, r) \in Status \cup RunRow \cup {Null}
  BY NowTyped DEF Op
<1>2. op = "detail" /\ r[1] = p => Now(op, p, r) \in RunRow
  BY NowTyped
<1> QED
  BY <1>1, <1>2 DEF Make, Call, CallFits, Op, Lists, OfRun, Global, MaybeProject, Backend

\* Calls that are about no project.
LEMMA GlobalCalls ==
  ASSUME backend \in Backend, NEW op \in Global, NEW arg \in (0..2) \cup {Null}
  PROVE  /\ Make(op, Null, arg) \in Call /\ CallFits(Make(op, Null, arg))
         /\ Make(op, Null, arg).op = op
<1>1. Now(op, Null, arg) = Null BY DEF Now, Global
<1> QED
  BY <1>1 DEF Make, Call, CallFits, Op, Lists, OfRun, Global, MaybeProject, Backend

\* A file that is saved (handleSaveFile).
LEMMA SaveCalls ==
  ASSUME backend \in Backend, NEW p \in Projects, NEW q \in Projects
  PROVE  /\ Make("save", p, q) \in Call /\ CallFits(Make("save", p, q))
         /\ Make("save", p, q).op = "save" /\ Make("save", p, q).of = p
         /\ Make("save", p, q).arg = q
<1>1. Now("save", p, q) = Null BY DEF Now
<1> QED
  BY <1>1 DEF Make, Call, CallFits, Op, Lists, OfRun, Global, MaybeProject, Backend

\* The reads of a project.
ReadOp == {"file", "reopen", "deployments", "deployments only", "runs", "detail"}

\* What ReadsOf asks is about the project that is open, and its run.
ReadsFitPage(calls, ops, pg) ==
  \A c \in calls :
    /\ c \in Call /\ CallFits(c)
    /\ c.op \in ops /\ c.of = pg.project /\ pg.project # Null
    /\ c.op = "detail" => c.arg = pg.run

\* loadDeployments, loadAgentRuns, loadAgentRunDetail and loadFile.
LEMMA ReadsFit ==
  ASSUME backend \in Backend, NEW pg \in Page, NEW ops \in SUBSET ReadOp
  PROVE  ReadsFitPage(ReadsOf(pg, ops), ops, pg)
<1> SUFFICES ASSUME NEW c \in ReadsOf(pg, ops)
             PROVE  ReadsFitPage({c}, ops, pg)
  BY DEF ReadsFitPage
<1>1. pg.project # Null /\ pg.project \in Projects
  BY DEF ReadsOf, Page, MaybeProject
<1>2. PICK op \in ops : /\ op = "detail" => pg.run # Null
                        /\ c = Make(op, pg.project, IF op = "detail" THEN pg.run ELSE Null)
  BY <1>1 DEF ReadsOf
<1>3. CASE op = "detail"
  <2>1. pg.run \in ProjectRun /\ op \in OfRun BY <1>2, <1>3 DEF Page, OfRun
  <2> QED BY <2>1, <1>1, <1>2, <1>3, RunCalls DEF ReadsFitPage
<1>4. CASE op \in {"deployments", "deployments only"}
  <2>1. c = Make(op, pg.project, Null) /\ op # "detail" BY <1>2, <1>4
  <2>2. c \in Call /\ CallFits(c) /\ c.op = op /\ c.of = pg.project
    BY <2>1, <1>1, <1>4, ListCalls
  <2> QED BY <2>1, <2>2, <1>1 DEF ReadsFitPage
<1>5. CASE op \in {"file", "reopen", "runs"}
  <2>1. op \in PlainOp BY <1>5 DEF PlainOp
  <2> QED BY <2>1, <1>1, <1>2, <1>5, PlainCalls DEF ReadsFitPage
<1> QED BY <1>2, <1>3, <1>4, <1>5 DEF ReadOp

\* What follows an answer is read of the project that is open (Follow).
LEMMA FollowFits ==
  ASSUME backend \in Backend, NEW pg \in Page, NEW c
  PROVE  /\ \A d \in Follow(pg, c) :
              /\ d \in Call /\ CallFits(d)
              /\ d.op \in Together /\ d.of = pg.project /\ pg.project # Null
              /\ d.op = "logs" => c.op = "deployments" /\ d.arg = pg.logOf
         /\ c.op = "project" /\ pg.project # Null =>
              \A op \in {"deployments", "runs"} : \E d \in Follow(pg, c) : d.op = op
         /\ c.op = "deployments" => \A d \in Follow(pg, c) : d.op = "logs"
         /\ c.op = "deployments" /\ pg.project # Null /\ pg.logOf # Null =>
              \E d \in Follow(pg, c) : d.op = "logs"
         /\ c.op \notin {"project", "projects", "deployments", "runs"} => Follow(pg, c) = {}
<1>1. ASSUME NEW ops \in SUBSET {"deployments", "deployments only", "runs", "detail"},
             Follow(pg, c) = ReadsOf(pg, ops), NEW d \in Follow(pg, c)
      PROVE  /\ d \in Call /\ CallFits(d)
             /\ d.op \in Together /\ d.of = pg.project /\ pg.project # Null
             /\ d.op # "logs"
  <2>1. ops \in SUBSET ReadOp BY DEF ReadOp
  <2>2. ReadsFitPage(ReadsOf(pg, ops), ops, pg) BY <2>1, ReadsFit
  <2>3. d \in Call /\ CallFits(d) /\ d.op \in ops /\ d.of = pg.project /\ pg.project # Null
    BY <2>2, <1>1 DEF ReadsFitPage
  <2>4. d.op \in Together /\ d.op # "logs" BY <2>3 DEF Together
  <2> QED BY <2>3, <2>4
<1>2. CASE c.op = "project"
  <2>1. Follow(pg, c) = ReadsOf(pg, {"deployments", "runs"}) BY <1>2 DEF Follow
  <2>2. ASSUME pg.project # Null, NEW op \in {"deployments", "runs"}
        PROVE  \E d \in Follow(pg, c) : d.op = op
    <3>1. Make(op, pg.project, Null) \in ReadsOf(pg, {"deployments", "runs"})
      BY <2>2 DEF ReadsOf
    <3> QED BY <3>1, <2>1 DEF Make
  <2> QED BY <1>1, <1>2, <2>1, <2>2
<1>3. CASE c.op = "projects"
  <2>1. Follow(pg, c) = ReadsOf(pg, {"deployments only"}) BY <1>3 DEF Follow
  <2> QED BY <1>1, <1>3, <2>1
<1>4. CASE c.op = "runs"
  <2>1. Follow(pg, c) = ReadsOf(pg, {"detail"}) BY <1>4 DEF Follow
  <2> QED BY <1>1, <1>4, <2>1
<1>5. CASE c.op = "deployments"
  <2>1. CASE pg.project = Null \/ pg.logOf = Null
    <3>1. Follow(pg, c) = {} BY <2>1, <1>5 DEF Follow
    <3> QED BY <3>1, <2>1, <1>5
  <2>2. CASE pg.project # Null /\ pg.logOf # Null
    <3>1. Follow(pg, c) = {Make("logs", pg.project, pg.logOf)} BY <2>2, <1>5 DEF Follow
    <3>2. pg.project \in Projects /\ pg.logOf \in Projects BY <2>2 DEF Page, MaybeProject
    <3> DEFINE l == Make("logs", pg.project, pg.logOf)
    <3>3. /\ l \in Call /\ CallFits(l) /\ l.op = "logs" /\ l.of = pg.project /\ l.arg = pg.logOf
      BY <3>2, LogCalls
    <3>4. Follow(pg, c) = {l} /\ "logs" \in Together BY <3>1 DEF Together
    <3> HIDE DEF l
    <3> QED BY <3>3, <3>4, <2>2, <1>5
  <2> QED BY <2>1, <2>2
<1>6. CASE c.op \notin {"project", "projects", "deployments", "runs"}
  <2>1. Follow(pg, c) = {} BY <1>6 DEF Follow
  <2> QED BY <2>1, <1>6
<1> QED BY <1>2, <1>3, <1>4, <1>5, <1>6

\* What a handler asks next fits the page, and changes of the page are asked for
\* by themselves (Asks).
AskedOf(calls, pg) ==
  \A c \in calls :
    /\ c \in Call /\ CallFits(c)
    /\ c.op \in {"projects", "project"} \cup ReadOp
    /\ c.op \notin Together => calls = {c}
    /\ c.op \notin Switching => c.of = pg.project

\* Whatever the item and whichever project is loaded first, the calls of Asks
\* are as AskedOf says.
LEMMA AsksFit ==
  ASSUME backend \in Backend, NEW pg \in Page, NEW item \in Item, NEW first \in MaybeProject
  PROVE  AskedOf(Asks(pg, item, first), pg)
<1>1. CASE item = "projects"
  <2>1. Asks(pg, item, first) = {Make("projects", Null, pg.workspace)} BY <1>1 DEF Asks
  <2>2. pg.workspace \in 0..2 BY DEF Page
  <2> QED BY <2>1, <2>2, GlobalCalls DEF AskedOf, Global, Switching
<1>2. ASSUME NEW p \in Projects, Asks(pg, item, first) = {Make("project", p, Null)}
      PROVE  AskedOf(Asks(pg, item, first), pg)
  <2>1. "project" \in PlainOp BY DEF PlainOp
  <2> QED BY <2>1, <1>2, PlainCalls DEF AskedOf, Switching
<1>3. ASSUME Asks(pg, item, first) = {} PROVE AskedOf(Asks(pg, item, first), pg)
  BY <1>3 DEF AskedOf
<1>4. ASSUME NEW op \in ReadOp, Asks(pg, item, first) = ReadsOf(pg, {op})
      PROVE  AskedOf(Asks(pg, item, first), pg)
  <2>1. ReadsFitPage(ReadsOf(pg, {op}), {op}, pg) BY ReadsFit
  <2>2. \A c, d \in ReadsOf(pg, {op}) : c = d BY DEF ReadsOf
  <2> QED BY <2>1, <2>2, <1>4 DEF AskedOf, ReadsFitPage
<1>5. CASE item = "refresh"
  <2>1. CASE pg.project = Null
    BY <2>1, <1>5, <1>3 DEF Asks
  <2>2. CASE pg.project # Null
    <3>1. pg.project \in Projects BY <2>2 DEF Page, MaybeProject
    <3>2. Asks(pg, item, first) = {Make("project", pg.project, Null)} BY <2>2, <1>5 DEF Asks
    <3> QED BY <3>1, <3>2, <1>2
  <2> QED BY <2>1, <2>2
<1>6. CASE item = "first"
  <2>1. CASE first = Null
    BY <2>1, <1>6, <1>3 DEF Asks
  <2>2. CASE first # Null
    <3>1. first \in Projects BY <2>2 DEF MaybeProject
    <3>2. Asks(pg, item, first) = {Make("project", first, Null)} BY <2>2, <1>6 DEF Asks
    <3> QED BY <3>1, <3>2, <1>2
  <2> QED BY <2>1, <2>2
<1>7. CASE item = "open"
  <2>1. CASE pg.file # Null
    BY <2>1, <1>7, <1>3 DEF Asks
  <2>2. CASE pg.file = Null
    <3>1. Asks(pg, item, first) = ReadsOf(pg, {"file"}) BY <2>2, <1>7 DEF Asks
    <3>2. "file" \in ReadOp BY DEF ReadOp
    <3> QED BY <3>1, <3>2, <1>4
  <2> QED BY <2>1, <2>2
<1>8. CASE item \notin {"projects", "refresh", "first", "open"}
  <2>1. Asks(pg, item, first) = ReadsOf(pg, {item}) BY <1>8 DEF Asks
  <2>2. item \in ReadOp BY <1>8 DEF Item, ReadOp
  <2> QED BY <2>1, <2>2, <1>4
<1> QED BY <1>1, <1>5, <1>6, <1>7, <1>8
-----------------------------------------------------------------------------
(* Going on: GoesOn, Emptied and Resumes.                                  *)

\* What may become of the rest t of handler h, as GoesOn leaves it.
WentOn(r, h, t, pg, first) ==
  /\ r \in TaskRow /\ Len(r.todo) <= 3
  /\ t.calls # {} => r = t
  /\ t.calls = {} =>
       \/ r.calls = {} /\ r.todo = <<>> /\ r.pc # "on"
       \/ /\ r.pc = t.pc /\ t.todo # <<>>
          /\ \E i \in DOMAIN t.todo : r.calls = Asks(pg, t.todo[i], first)

\* A handler with nothing under way goes on with the first thing left that asks
\* something; what is left gets no longer.
LEMMA GoingOn ==
  ASSUME backend \in Backend, NEW pg \in Page, NEW first \in MaybeProject,
         NEW h \in Task, NEW t \in TaskRow, Len(t.todo) <= 3
  PROVE  WentOn(GoesOn(h, t, pg, first), h, t, pg, first)
<1> DEFINE asking == {i \in DOMAIN t.todo : Asks(pg, t.todo[i], first) # {}}
           i == CHOOSE j \in asking : \A k \in asking : j <= k
           reopen == t.todo[i] = "refresh" /\ pg.file # Null
           rest == SubSeq(t.todo, i + 1, Len(t.todo))
           left == (IF reopen THEN <<"reopen">> ELSE <<>>) \o rest
<1>0. t.todo \in Seq(Item) /\ Len(t.todo) \in 0..3 /\ DOMAIN t.todo = 1..Len(t.todo)
  <2>1. t.todo \in Seq(Item) BY DEF TaskRow
  <2>2. Len(t.todo) \in Nat /\ DOMAIN t.todo = 1..Len(t.todo) BY <2>1
  <2>3. \A n \in Nat : n <= 3 => n \in 0..3 OBVIOUS
  <2>4. Len(t.todo) \in 0..3 BY <2>2, <2>3
  <2> HIDE DEF asking
  <2> QED BY <2>1, <2>2, <2>4
<1>1. CASE t.calls # {}
  <2>1. GoesOn(h, t, pg, first) = t BY <1>1 DEF GoesOn
  <2> QED BY <2>1, <1>1 DEF WentOn, TaskRow
<1>2. CASE t.calls = {} /\ asking = {}
  <2> DEFINE pc == IF h = Poll THEN "none" ELSE "done"
  <2>1. GoesOn(h, t, pg, first) = [Idle EXCEPT !.pc = pc]
    BY <1>2 DEF GoesOn
  <2>2. pc \in {"none", "done"} OBVIOUS
  <2> HIDE DEF pc
  <2>3. [Idle EXCEPT !.pc = pc] = [pc |-> pc, kind |-> "none", calls |-> {}, todo |-> <<>>]
    BY DEF Idle
  <2> DEFINE e == <<>>
             none == "none"
             r == [pc |-> pc, kind |-> none, calls |-> {}, todo |-> e]
  <2>4. e \in Seq(Item) /\ Len(e) <= 3 /\ e = <<>>
    BY EmptySeq
  <2>7. GoesOn(h, t, pg, first) = r BY <2>1, <2>3
  <2>8. none \in Kind BY DEF Kind
  <2> HIDE DEF e, none
  <2>5. r \in TaskRow BY <2>2, <2>4, <2>8 DEF TaskRow
  <2>6. r.calls = {} /\ r.todo = <<>> /\ r.pc # "on"
    BY <2>2, <2>4, <2>8
  <2> HIDE DEF r
  <2> QED BY <2>4, <2>5, <2>6, <2>7, <1>2 DEF WentOn
<1>3. CASE t.calls = {} /\ asking # {}
  <2>1. \E j \in asking : \A k \in asking : j <= k
    <3>1. asking \subseteq {1, 2, 3} BY <1>0
    <3> HIDE DEF asking
    <3>2. CASE 1 \in asking BY <3>1, <3>2
    <3>3. CASE 1 \notin asking /\ 2 \in asking BY <3>1, <3>3
    <3>4. CASE 1 \notin asking /\ 2 \notin asking
      <4>1. \A j \in asking : j = 3 BY <3>1, <3>4
      <4> QED BY <4>1, <1>3
    <3> QED BY <3>2, <3>3, <3>4
  <2>2. i \in asking
    <3> HIDE DEF asking
    <3> QED BY <2>1
  <2>3. i \in 1..Len(t.todo) /\ Asks(pg, t.todo[i], first) # {}
    <3>1. \A j : j \in asking => j \in DOMAIN t.todo /\ Asks(pg, t.todo[j], first) # {}
      OBVIOUS
    <3> HIDE DEF i, asking
    <3> QED BY <2>2, <3>1, <1>0
  <2>4. GoesOn(h, t, pg, first) = [t EXCEPT !.calls = Asks(pg, t.todo[i], first), !.todo = left]
    BY <1>3 DEF GoesOn
  <2> HIDE DEF i, asking
  <2>5. rest \in Seq(Item) /\ Len(rest) <= Len(t.todo) - 1
    <3>0. Len(t.todo) \in Nat /\ i \in Nat BY <1>0, <2>3
    <3>1. CASE i + 1 <= Len(t.todo)
      BY <3>0, <3>1, <2>3, <1>0, SubSeqProperties
    <3>2. CASE ~(i + 1 <= Len(t.todo))
      BY <3>0, <3>2, <2>3, <1>0, SubSeqProperties
    <3> QED BY <3>1, <3>2
  <2>6. left \in Seq(Item) /\ Len(left) <= 3
    <3> HIDE DEF rest, reopen
    <3>0. Len(rest) \in Nat /\ Len(rest) <= 2 BY <2>5, <1>0
    <3>1. "reopen" \in Item BY DEF Item
    <3>2. <<"reopen">> \in Seq(Item) /\ Len(<<"reopen">>) = 1 BY <3>1
    <3>3. CASE reopen
      <4>1. left = <<"reopen">> \o rest BY <3>3
      <4>2. left \in Seq(Item) /\ Len(left) = 1 + Len(rest)
        BY <4>1, <3>2, <2>5, ConcatProperties
      <4> QED BY <4>2, <3>0
    <3>4. CASE ~reopen
      <4>1. left = <<>> \o rest BY <3>4
      <4>2. left = rest BY <4>1, <2>5, ConcatEmptySeq
      <4> QED BY <4>2, <2>5, <3>0
    <3> QED BY <3>3, <3>4
  <2>7. t.todo[i] \in Item BY <1>0, <2>3
  <2>8. Asks(pg, t.todo[i], first) \subseteq Call BY <2>7, AsksFit DEF AskedOf
  <2> HIDE DEF left
  <2>9. [t EXCEPT !.calls = Asks(pg, t.todo[i], first), !.todo = left] \in TaskRow
    BY <2>6, <2>8 DEF TaskRow
  <2> DEFINE r == [t EXCEPT !.calls = Asks(pg, t.todo[i], first), !.todo = left]
  <2>10. r.pc = t.pc /\ r.kind = t.kind /\ r.todo = left /\ r.calls = Asks(pg, t.todo[i], first)
    BY DEF TaskRow
  <2>12. t.todo # <<>> BY <2>3
  <2>13. i \in DOMAIN t.todo BY <2>3, <1>0
  <2>14. r \in TaskRow BY <2>9
  <2> HIDE DEF r
  <2>15. GoesOn(h, t, pg, first) = r BY <2>4 DEF r
  <2> QED BY <2>15, <2>14, <2>10, <2>12, <2>13, <2>6, <1>3 DEF WentOn
<1> QED BY <1>1, <1>2, <1>3

\* What of a page the lists of deployments do not concern.
SameView(pg, of) == pg.user = of.user /\ pg.listed = of.listed /\ pg.project = of.project
SameRun(pg, of) ==
  pg.runs = of.runs /\ pg.run = of.run /\ pg.detail = of.detail /\ pg.validation = of.validation
SameLists(pg, of) == pg.shown = of.shown /\ pg.timer = of.timer
SameBut(pg, of) == SameView(pg, of) /\ SameRun(pg, of) /\ pg.file = of.file

\* The timer is on when a deployment of the project that is open is in progress.
TimerFits(pg) == pg.timer <=> pg.project # Null /\ \E p \in Projects : pg.shown[p] = "queued"

\* syncDeploymentPolling sets the timer, and nothing else.
LEMMA Syncing ==
  ASSUME NEW pg \in Page
  PROVE  /\ Synced(pg) \in Page /\ SameBut(Synced(pg), pg) /\ TimerFits(Synced(pg))
         /\ Synced(pg).shown = pg.shown /\ Synced(pg).logOf = pg.logOf
         /\ pg = Synced(pg) <=> TimerFits(pg)
<1> DEFINE on == pg.project # Null /\ \E p \in Projects : pg.shown[p] = "queued"
<1>1. Synced(pg) = [pg EXCEPT !.timer = on] BY DEF Synced
<1>2. on \in BOOLEAN OBVIOUS
<1>3. TimerFits(pg) <=> (pg.timer <=> on) BY DEF TimerFits
<1>4. ASSUME NEW q, q.project = pg.project, q.shown = pg.shown PROVE TimerFits(q) <=> (q.timer <=> on)
  BY <1>4 DEF TimerFits
<1> HIDE DEF on
<1>5. Synced(pg) \in Page BY <1>1, <1>2 DEF Page
<1>6. SameBut(Synced(pg), pg) /\ Synced(pg).shown = pg.shown /\ Synced(pg).logOf = pg.logOf
      /\ Synced(pg).timer = on
  BY <1>1, <1>2 DEF Page, SameBut, SameView, SameRun
<1>7. TimerFits(Synced(pg)) BY <1>4, <1>6 DEF SameBut, SameView
<1>8. pg = Synced(pg) <=> pg.timer = on
  <2>1. pg.timer = on => [pg EXCEPT !.timer = on] = pg BY DEF Page
  <2>2. pg = Synced(pg) => pg.timer = on BY <1>6
  <2> QED BY <2>1, <2>2, <1>1
<1>9. pg.timer \in BOOLEAN BY DEF Page
<1>10. pg.timer = on <=> (pg.timer <=> on) BY <1>9, <1>2
<1> QED BY <1>3, <1>5, <1>6, <1>7, <1>8, <1>10

\* loadDeployments without a project.
LEMMA Emptying ==
  ASSUME NEW pg \in Page, NEW t
  PROVE  /\ Emptied(t, pg) \in Page /\ SameBut(Emptied(t, pg), pg)
         /\ Emptied(t, pg) = pg \/ (pg.project = Null /\ TimerFits(Emptied(t, pg)))
<1>1. CASE Emptied(t, pg) = pg
  BY <1>1 DEF SameBut, SameView, SameRun
<1>2. CASE Emptied(t, pg) # pg
  <2>1. pg.project = Null /\ Emptied(t, pg) = [pg EXCEPT !.timer = FALSE, !.shown = NoneShown, !.logOf = Null]
    BY <1>2 DEF Emptied
  <2>2. NoneShown \in [Projects -> Status] BY DEF NoneShown, Status
  <2> DEFINE e == [pg EXCEPT !.timer = FALSE, !.shown = NoneShown, !.logOf = Null]
  <2>3. e \in Page BY <2>2 DEF Page, MaybeProject
  <2>4. SameBut(e, pg) /\ e.timer = FALSE BY DEF Page, SameBut, SameView, SameRun
  <2>5. TimerFits(e) BY <2>1, <2>4 DEF TimerFits, SameBut, SameView
  <2> HIDE DEF e
  <2>6. Emptied(t, pg) = e BY <2>1 DEF e
  <2> QED BY <2>1, <2>3, <2>4, <2>5, <2>6
<1> QED BY <1>1, <1>2

\* What a handler that resumes makes of its row, and of the page it has made.
LEMMA Resuming ==
  ASSUME backend \in Backend, task \in [Task -> TaskRow], NEW h \in Task, NEW t \in TaskRow,
         Len(t.todo) <= 3, NEW pg \in Page, Resumes(h, t, pg)
  PROVE  /\ page' \in Page /\ SameBut(page', pg)
         /\ page' = pg \/ (pg.project = Null /\ TimerFits(page'))
         /\ \E r \in TaskRow : \E first \in MaybeProject :
              /\ task' = [task EXCEPT ![h] = r] /\ WentOn(r, h, t, pg, first)
              /\ first # Null => first \in pg.listed
<1>1. page' = Emptied(t, pg) BY DEF Resumes
<1>2. /\ page' \in Page /\ SameBut(page', pg)
      /\ page' = pg \/ (pg.project = Null /\ TimerFits(page'))
  BY <1>1, Emptying
<1>3. PICK first \in IF t.calls = {} /\ t.todo = <<"first">> /\ pg.listed # {}
                     THEN pg.listed ELSE {Null} :
        task' = [task EXCEPT ![h] = GoesOn(h, t, pg, first)]
  BY DEF Resumes
<1>4. first \in MaybeProject /\ (first # Null => first \in pg.listed)
  BY <1>3 DEF Page, MaybeProject
<1>5. WentOn(GoesOn(h, t, pg, first), h, t, pg, first) BY <1>4, GoingOn
<1>6. GoesOn(h, t, pg, first) \in TaskRow BY <1>5 DEF WentOn
<1> QED BY <1>2, <1>3, <1>4, <1>5, <1>6
-----------------------------------------------------------------------------
(* Answers: Served and Applied.                                            *)

\* What the server has after it served a call, and what it had then.
ServedAs(c, b) ==
  /\ b \in Backend
  /\ c.op \notin {"logout", "auth"} => b.signed = backend.signed
  /\ c.op = "auth" => b.signed
  /\ c.op \notin {"save"} => b.content = backend.content
  /\ c.op = "save" => b.content = [backend.content EXCEPT ![c.of] = c.arg]
  /\ c.op \in {"detail", "deploy"} => c.arg[1] = c.of
  /\ c.op = "deploy" => Eligible(backend.row[c.arg])
  /\ c.op = "logs" => c.arg = c.of

\* The server keeps its tables well typed, and serves what a project has.
LEMMA Serving ==
  ASSUME backend \in Backend, NEW c \in Call, CallFits(c), NEW b \in Served(c)
  PROVE  ServedAs(c, b)
<1>1. CASE c.op = "save"
  <2>1. b = [backend EXCEPT !.content[c.of] = c.arg] BY <1>1 DEF Served
  <2>2. c.of \in Projects /\ c.arg \in Projects BY <1>1 DEF CallFits, Global
  <2> DEFINE content == [backend.content EXCEPT ![c.of] = c.arg]
  <2>3. content \in [Projects -> Projects] BY <2>2 DEF Backend
  <2>4. b = [backend EXCEPT !.content = content] BY <2>1 DEF Backend
  <2> HIDE DEF content
  <2>5. b \in Backend /\ b.content = content /\ b.signed = backend.signed
    BY <2>3, <2>4 DEF Backend
  <2> QED BY <2>5, <1>1 DEF ServedAs, content
<1>2. CASE c.op \in {"validate", "resume"}
  <2>1. c.arg \in ProjectRun BY <1>2 DEF CallFits, OfRun
  <2>2. PICK row \in RunRow : b = [backend EXCEPT !.row[c.arg] = row]
    <3>1. CASE c.op = "validate"
      <4>1. PICK v \in {"passed", "failed"} : b = [backend EXCEPT !.row[c.arg].verdict = v]
        BY <3>1 DEF Served
      <4> DEFINE row == [backend.row[c.arg] EXCEPT !.verdict = v]
      <4>2. backend.row[c.arg] \in RunRow BY <2>1 DEF Backend
      <4>3. row \in RunRow BY <4>2 DEF RunRow
      <4>4. b = [backend EXCEPT !.row[c.arg] = row] BY <4>1, <2>1 DEF Backend
      <4> HIDE DEF row
      <4> QED BY <4>3, <4>4
    <3>2. CASE c.op = "resume"
      <4>1. PICK s \in {"failed", "complete"} : b = [backend EXCEPT !.row[c.arg] = Row(s, "none")]
        BY <3>2 DEF Served
      <4>2. Row(s, "none") \in RunRow BY DEF Row, RunRow
      <4> QED BY <4>1, <4>2
    <3> QED BY <3>1, <3>2, <1>2
  <2> DEFINE rows == [backend.row EXCEPT ![c.arg] = row]
  <2>3. rows \in [ProjectRun -> RunRow] BY <2>1 DEF Backend
  <2>4. b = [backend EXCEPT !.row = rows] BY <2>2 DEF Backend
  <2> HIDE DEF rows
  <2>5. b \in Backend /\ b.content = backend.content /\ b.signed = backend.signed
    BY <2>3, <2>4 DEF Backend
  <2> QED BY <2>5, <1>2 DEF ServedAs
<1>3. CASE c.op = "deploy"
  <2>1. c.arg \in ProjectRun /\ c.of \in Projects BY <1>3 DEF CallFits, OfRun, Global
  <2>2. /\ c.arg[1] = c.of /\ Eligible(backend.row[c.arg])
        /\ b = [backend EXCEPT !.deploy[c.of] = "queued"]
    BY <1>3 DEF Served
  <2> DEFINE deploy == [backend.deploy EXCEPT ![c.of] = "queued"]
  <2>3. deploy \in [Projects -> Status] BY <2>1 DEF Backend, Status
  <2>4. b = [backend EXCEPT !.deploy = deploy] BY <2>2 DEF Backend
  <2> HIDE DEF deploy
  <2>5. b \in Backend /\ b.content = backend.content /\ b.signed = backend.signed
    BY <2>3, <2>4 DEF Backend
  <2> QED BY <2>2, <2>5, <1>3 DEF ServedAs
<1>4. CASE c.op \in {"logout", "auth"}
  <2>1. PICK s \in BOOLEAN : b = [backend EXCEPT !.signed = s] /\ (c.op = "auth" => s)
    BY <1>4 DEF Served
  <2>2. b \in Backend /\ b.content = backend.content /\ b.signed = s
    BY <2>1 DEF Backend
  <2> QED BY <2>1, <2>2, <1>4 DEF ServedAs
<1>5. CASE c.op \notin {"save", "validate", "resume", "deploy", "logout", "auth"}
  <2>1. b = backend /\ (c.op = "logs" => c.arg = c.of) /\ (c.op = "detail" => c.arg[1] = c.of)
    BY <1>5 DEF Served
  <2> QED BY <2>1, <1>5 DEF ServedAs
<1> QED BY <1>1, <1>2, <1>3, <1>4, <1>5

\* What the answer to call c makes of page "was", field by field.
AppliedAs(pg, was, c, answer) ==
  /\ pg \in Page
  /\ c.op \notin {"project", "projects", "logout", "auth"} => SameView(pg, was)
  /\ c.op \notin {"project", "projects", "logout", "file", "reopen"} => pg.file = was.file
  /\ c.op \in {"file", "reopen"} => pg.file = backend.content[c.of]
  /\ c.op \notin {"project", "projects", "logout", "runs", "detail", "validate", "resume"} =>
       SameRun(pg, was)
  /\ c.op \notin {"projects", "logout"} \cup Lists => SameLists(pg, was)
  /\ c.op = "project" =>
       /\ pg.user = was.user /\ pg.listed = was.listed /\ pg.project = c.of
       /\ pg.file = Null /\ pg.run = Null /\ pg.detail = Null /\ pg.validation = Null
  /\ c.op = "projects" =>
       /\ pg.user = was.user
       /\ \/ pg.project = was.project /\ pg.file = was.file /\ SameRun(pg, was) /\ SameLists(pg, was)
          \/ pg.project = Null /\ TimerFits(pg) /\ pg.validation = Null
  /\ c.op \in {"deployments", "deployments only"} =>
       /\ pg.shown = [NoneShown EXCEPT ![c.of] = answer] /\ pg.logOf \in {Null, c.of}
       /\ TimerFits(pg) \/ (c.op = "deployments" /\ pg.logOf # Null /\ pg.project # Null)
  /\ c.op = "logs" => pg.shown = [was.shown EXCEPT ![c.arg] = answer] /\ TimerFits(pg)
  /\ c.op = "runs" =>
       /\ pg.runs = c.of /\ pg.run # Null /\ pg.run[1] = c.of
       /\ \/ pg.run = was.run /\ pg.detail = was.detail /\ pg.validation = was.validation
          \/ pg.detail = Null /\ pg.validation = Null
  /\ c.op = "detail" =>
       /\ pg.runs = was.runs /\ pg.run = c.arg /\ pg.detail.of = c.arg
       /\ pg.validation # Null => pg.validation = was.validation /\ was.validation.of = c.arg
  /\ c.op = "validate" =>
       /\ pg.runs = was.runs /\ pg.run = was.run /\ pg.detail = was.detail
       /\ pg.validation = [of |-> was.run, about |-> c.arg]
  /\ c.op = "resume" =>
       /\ pg.runs = was.runs /\ pg.run = was.run /\ pg.detail.of = c.arg /\ pg.validation = Null
  /\ c.op = "logout" => pg = SignedOut
  /\ c.op = "auth" => pg.user /\ pg.listed = was.listed /\ pg.project = was.project

\* Nobody is signed in, nothing is shown (clearSession).
LEMMA SigningOut ==
  /\ SignedOut \in Page /\ TimerFits(SignedOut)
  /\ SignedOut.user = FALSE /\ SignedOut.project = Null /\ SignedOut.listed = {}
  /\ SignedOut.validation = Null
<1>1. NoneShown \in [Projects -> Status] BY DEF NoneShown, Status
<1> QED BY <1>1 DEF SignedOut, Page, MaybeProject, TimerFits

\* The list of deployments as it is written into the page (loadDeployments).
LEMMA ListingDeployments ==
  ASSUME NEW pg \in Page, NEW p \in Projects, NEW status \in Status
  PROVE  LET w == WithDeployments(pg, p, status)
         IN  /\ w \in Page /\ SameBut(w, pg)
             /\ w.shown = [NoneShown EXCEPT ![p] = status] /\ w.logOf \in {Null, p}
<1> DEFINE shown == [NoneShown EXCEPT ![p] = status]
           logOf == IF status = "none" THEN Null ELSE p
           w == [pg EXCEPT !.shown = shown, !.logOf = logOf]
<1>1. shown \in [Projects -> Status] BY DEF NoneShown, Status
<1>2. logOf \in {Null, p} /\ logOf \in MaybeProject BY DEF MaybeProject
<1>3. WithDeployments(pg, p, status) = w BY DEF WithDeployments
<1>4. shown = [NoneShown EXCEPT ![p] = status] OBVIOUS
<1> HIDE DEF shown, logOf
<1>5. w \in Page BY <1>1, <1>2 DEF Page
<1>6. SameBut(w, pg) /\ w.shown = shown /\ w.logOf = logOf
  BY <1>1, <1>2 DEF Page, SameBut, SameView, SameRun
<1> HIDE DEF w
<1> QED BY <1>2, <1>3, <1>4, <1>5, <1>6

\* What each answer makes of the page (Applied).
LEMMA Applying ==
  ASSUME NEW was \in Page, backend \in Backend, backend' \in Backend, NEW c \in Call, CallFits(c),
         NEW answer \in {c.old, Now(c.op, c.of, c.arg)}, ServedAs(c, backend')
  PROVE  AppliedAs(Applied(was, c, answer), was, c, answer)
<1> DEFINE pg == Applied(was, c, answer)
<1>0. backend.content \in [Projects -> Projects] /\ backend'.row \in [ProjectRun -> RunRow]
  BY DEF Backend
<1>1. CASE c.op = "project"
  <2>1. pg = Opened(was, c.of) /\ c.of \in Projects BY <1>1 DEF Applied, CallFits, Global
  <2>2. Opened(was, c.of) \in Page BY <2>1 DEF Opened, Page, MaybeProject
  <2>3. AppliedAs(Opened(was, c.of), was, c, answer)
    BY <2>1, <2>2, <1>1 DEF Opened, Page, AppliedAs, SameLists, Lists
  <2> QED BY <2>1, <2>3
<1>2. CASE c.op = "projects"
  <2>1. pg = Listed(was, c.arg) BY <1>2 DEF Applied
  <2> DEFINE all == ProjectsOf(c.arg)
  <2>2. all \in SUBSET Projects BY DEF ProjectsOf
  <2>3. CASE was.project \in all \cup {Null}
    <3>1. pg = [was EXCEPT !.listed = all] BY <2>1, <2>3 DEF Listed
    <3> HIDE DEF all, pg
    <3>2. pg \in Page BY <3>1, <2>2 DEF Page
    <3>3. pg.user = was.user /\ pg.project = was.project /\ pg.file = was.file
      BY <3>1 DEF Page
    <3>4. SameRun(pg, was) /\ SameLists(pg, was)
      BY <3>1 DEF Page, SameRun, SameLists
    <3> QED BY <3>2, <3>3, <3>4, <1>2 DEF AppliedAs, Lists, pg
  <2>4. CASE was.project \notin all \cup {Null}
    <3>1. pg = [SignedOut EXCEPT !.user = was.user, !.workspace = was.workspace, !.listed = all]
      BY <2>1, <2>4 DEF Listed
    <3> HIDE DEF all, pg
    <3>2. was.user \in BOOLEAN /\ was.workspace \in 0..2 BY DEF Page
    <3>3. pg \in Page BY <3>1, <3>2, <2>2, SigningOut DEF Page
    <3>4. pg.user = was.user /\ pg.project = Null /\ pg.timer = FALSE /\ pg.validation = Null
      BY <3>1 DEF SignedOut
    <3>5. TimerFits(pg) BY <3>4 DEF TimerFits
    <3> QED BY <3>3, <3>4, <3>5, <1>2 DEF AppliedAs, Lists, pg
  <2> QED BY <2>3, <2>4
<1>3. CASE c.op \in {"file", "reopen"}
  <2>1. pg = [was EXCEPT !.file = backend.content[c.of]] /\ c.of \in Projects
    BY <1>3 DEF Applied, CallFits, Global, FileOf
  <2>2. backend.content[c.of] \in MaybeProject BY <2>1, <1>0 DEF MaybeProject
  <2> HIDE DEF pg
  <2>3. pg \in Page BY <2>1, <2>2 DEF Page
  <2>4. pg.file = backend.content[c.of] /\ SameView(pg, was) /\ SameRun(pg, was) /\ SameLists(pg, was)
    BY <2>1 DEF Page, SameView, SameRun, SameLists
  <2> QED BY <2>3, <2>4, <1>3 DEF AppliedAs, pg, Lists
<1>4. CASE c.op \in {"deployments", "deployments only"}
  <2>1. c.of \in Projects /\ answer \in Status
    <3>1. c.of \in Projects /\ c.old \in Status BY <1>4 DEF CallFits, Global
    <3>2. Now(c.op, c.of, c.arg) \in Status BY <3>1, <1>4, NowTyped
    <3> QED BY <3>1, <3>2
  <2> DEFINE w == WithDeployments(was, c.of, answer)
  <2>2. /\ w \in Page /\ SameBut(w, was)
        /\ w.shown = [NoneShown EXCEPT ![c.of] = answer] /\ w.logOf \in {Null, c.of}
    BY <2>1, ListingDeployments
  <2>3. \/ pg = Synced(w)
        \/ pg = w /\ c.op = "deployments" /\ w.logOf # Null /\ w.project # Null
    BY <1>4 DEF Applied
  <2> HIDE DEF w, pg
  <2>4. /\ Synced(w) \in Page /\ SameBut(Synced(w), w) /\ TimerFits(Synced(w))
        /\ Synced(w).shown = w.shown /\ Synced(w).logOf = w.logOf
    BY <2>2, Syncing
  <2>5. /\ pg \in Page /\ SameBut(pg, was) /\ pg.shown = w.shown /\ pg.logOf = w.logOf
        /\ TimerFits(pg) \/ (c.op = "deployments" /\ pg.logOf # Null /\ pg.project # Null)
    BY <2>2, <2>3, <2>4 DEF SameBut, SameView, SameRun
  <2> QED BY <2>5, <2>2, <1>4 DEF AppliedAs, pg, Lists, SameBut
<1>5. CASE c.op = "logs"
  <2>1. c.of \in Projects /\ c.arg \in Projects /\ c.arg = c.of /\ answer \in Status
    <3>1. c.of \in Projects /\ c.arg \in Projects /\ c.arg = c.of /\ c.old \in Status
      BY <1>5 DEF CallFits, Global, ServedAs
    <3>2. Now(c.op, c.of, c.arg) \in Status BY <3>1, <1>5, NowTyped
    <3> QED BY <3>1, <3>2
  <2> DEFINE shown == [was.shown EXCEPT ![c.arg] = answer]
             w == [was EXCEPT !.logOf = c.arg, !.shown = shown]
  <2>2. was.shown \in [Projects -> Status] BY DEF Page
  <2>3. shown \in [Projects -> Status] BY <2>1, <2>2
  <2>4. pg = Synced(w) BY <1>5 DEF Applied
  <2>5. shown = [was.shown EXCEPT ![c.arg] = answer] OBVIOUS
  <2> HIDE DEF shown
  <2>6. w \in Page /\ SameBut(w, was) /\ w.shown = shown
    BY <2>1, <2>3 DEF Page, MaybeProject, SameBut, SameView, SameRun
  <2> HIDE DEF w, pg
  <2>7. pg \in Page /\ SameBut(pg, w) /\ TimerFits(pg) /\ pg.shown = w.shown
    BY <2>4, <2>6, Syncing
  <2>8. SameBut(pg, was) BY <2>6, <2>7 DEF SameBut, SameView, SameRun
  <2> QED BY <2>5, <2>6, <2>7, <2>8, <1>5 DEF AppliedAs, pg, Lists, SameBut
<1>6. CASE c.op = "runs"
  <2>1. pg = WithRuns(was, c.of) /\ c.of \in Projects BY <1>6 DEF Applied, CallFits, Global
  <2>2. <<c.of, 1>> \in ProjectRun /\ <<c.of, 1>> # Null /\ <<c.of, 1>>[1] = c.of
    BY <2>1, RoomAssumption DEF ProjectRun
  <2>3. CASE was.run # Null /\ was.run[1] = c.of
    <3>1. pg = [was EXCEPT !.runs = c.of] BY <2>1, <2>3 DEF WithRuns
    <3> HIDE DEF pg
    <3>2. pg \in Page BY <3>1, <2>1 DEF Page, MaybeProject
    <3>3. /\ SameView(pg, was) /\ SameLists(pg, was) /\ pg.file = was.file /\ pg.runs = c.of
          /\ pg.run = was.run /\ pg.detail = was.detail /\ pg.validation = was.validation
      BY <3>1 DEF Page, SameView, SameLists
    <3> QED BY <3>2, <3>3, <2>3, <1>6 DEF AppliedAs, pg, Lists
  <2>4. CASE ~(was.run # Null /\ was.run[1] = c.of)
    <3> DEFINE r == <<c.of, 1>>
    <3>1. pg = [was EXCEPT !.runs = c.of, !.run = r, !.detail = Null, !.validation = Null]
      BY <2>1, <2>4 DEF WithRuns
    <3>0. r \in ProjectRun /\ r # Null /\ r[1] = c.of BY <2>2
    <3> HIDE DEF pg, r
    <3>2. pg \in Page BY <3>1, <3>0, <2>1 DEF Page, MaybeProject
    <3>3. /\ SameView(pg, was) /\ SameLists(pg, was) /\ pg.file = was.file /\ pg.runs = c.of
          /\ pg.run = r /\ pg.detail = Null /\ pg.validation = Null
      BY <3>1 DEF Page, SameView, SameLists
    <3> QED BY <3>0, <3>2, <3>3, <1>6 DEF AppliedAs, pg, Lists
  <2> QED BY <2>3, <2>4
<1>7. CASE c.op = "detail"
  <2>1. /\ pg = WithDetail(was, c.arg, answer) /\ c.of \in Projects /\ c.arg \in ProjectRun
        /\ c.arg[1] = c.of
    BY <1>7 DEF Applied, CallFits, Global, OfRun, ServedAs
  <2>2. answer \in RunRow
    <3>1. c.old \in RunRow BY <2>1, <1>7 DEF CallFits
    <3>2. Now(c.op, c.of, c.arg) \in RunRow BY <2>1, <1>7, NowTyped
    <3> QED BY <3>1, <3>2
  <2> DEFINE detail == [of |-> c.arg, row |-> answer]
             v == IF was.validation # Null /\ was.validation.of = c.arg THEN was.validation ELSE Null
  <2>3. pg = [was EXCEPT !.run = c.arg, !.detail = detail, !.validation = v]
    BY <2>1 DEF WithDetail, Page
  <2>4. detail \in [of : ProjectRun, row : RunRow] /\ detail.of = c.arg BY <2>1, <2>2
  <2>5. /\ v \in [of : ProjectRun \cup {Null}, about : ProjectRun] \cup {Null}
        /\ v # Null => v = was.validation /\ was.validation.of = c.arg
    BY DEF Page
  <2> HIDE DEF pg, detail, v
  <2>6. pg \in Page BY <2>1, <2>3, <2>4, <2>5 DEF Page
  <2>7. /\ SameView(pg, was) /\ SameLists(pg, was) /\ pg.file = was.file /\ pg.runs = was.runs
        /\ pg.run = c.arg /\ pg.detail = detail /\ pg.validation = v
    BY <2>3 DEF Page, SameView, SameLists
  <2> QED BY <2>4, <2>5, <2>6, <2>7, <1>7 DEF AppliedAs, pg, Lists
<1>8. CASE c.op = "validate"
  <2> DEFINE v == [of |-> was.run, about |-> c.arg]
  <2>1. pg = [was EXCEPT !.validation = v] /\ c.arg \in ProjectRun
    BY <1>8 DEF Applied, CallFits, OfRun
  <2>2. v \in [of : ProjectRun \cup {Null}, about : ProjectRun] BY <2>1 DEF Page
  <2>3. v = [of |-> was.run, about |-> c.arg] OBVIOUS
  <2> HIDE DEF pg, v
  <2>4. pg \in Page BY <2>1, <2>2 DEF Page
  <2>5. /\ SameView(pg, was) /\ SameLists(pg, was) /\ pg.file = was.file /\ pg.runs = was.runs
        /\ pg.run = was.run /\ pg.detail = was.detail /\ pg.validation = v
    BY <2>1 DEF Page, SameView, SameLists
  <2> QED BY <2>3, <2>4, <2>5, <1>8 DEF AppliedAs, pg, Lists
<1>9. CASE c.op = "resume"
  <2> DEFINE detail == [of |-> c.arg, row |-> backend'.row[c.arg]]
  <2>1. pg = [was EXCEPT !.detail = detail, !.validation = Null] /\ c.arg \in ProjectRun
    BY <1>9 DEF Applied, CallFits, OfRun
  <2>2. detail \in [of : ProjectRun, row : RunRow] /\ detail.of = c.arg BY <2>1, <1>0
  <2> HIDE DEF pg, detail
  <2>4. pg \in Page BY <2>1, <2>2 DEF Page
  <2>5. /\ SameView(pg, was) /\ SameLists(pg, was) /\ pg.file = was.file /\ pg.runs = was.runs
        /\ pg.run = was.run /\ pg.detail = detail /\ pg.validation = Null
    BY <2>1 DEF Page, SameView, SameLists
  <2> QED BY <2>2, <2>4, <2>5, <1>9 DEF AppliedAs, pg, Lists
<1>10. CASE c.op \in {"deploy", "save", "commit", "build"}
  <2>1. \E q \in MaybeProject : pg = [was EXCEPT !.logOf = q]
    <3>1. CASE c.op = "deploy"
      <4>1. pg = [was EXCEPT !.logOf = c.of] BY <3>1 DEF Applied
      <4>2. c.of \in MaybeProject BY DEF Call
      <4> QED BY <4>1, <4>2
    <3>2. CASE c.op \in {"save", "commit", "build"}
      <4>1. pg = was BY <3>2 DEF Applied
      <4>2. was = [was EXCEPT !.logOf = was.logOf] /\ was.logOf \in MaybeProject BY DEF Page
      <4> QED BY <4>1, <4>2
    <3> QED BY <3>1, <3>2, <1>10
  <2>2. PICK q \in MaybeProject : pg = [was EXCEPT !.logOf = q] BY <2>1
  <2> HIDE DEF pg
  <2>3. pg \in Page BY <2>2 DEF Page
  <2>4. SameView(pg, was) /\ SameRun(pg, was) /\ SameLists(pg, was) /\ pg.file = was.file
    BY <2>2 DEF Page, SameView, SameRun, SameLists
  <2> QED BY <2>3, <2>4, <1>10 DEF AppliedAs, pg, Lists
<1>11. CASE c.op = "logout"
  <2>1. pg = SignedOut BY <1>11 DEF Applied
  <2> QED BY <2>1, <1>11, SigningOut DEF AppliedAs, Lists
<1>12. CASE c.op = "auth"
  <2> DEFINE yes == TRUE
  <2>1. pg = [was EXCEPT !.user = yes, !.workspace = 1] BY <1>12 DEF Applied
  <2>0. yes \in BOOLEAN /\ yes /\ 1 \in 0..2 OBVIOUS
  <2> HIDE DEF pg, yes
  <2>2. pg \in Page BY <2>1, <2>0 DEF Page
  <2>5. pg.user = yes BY <2>1, <2>0 DEF Page
  <2>3. pg.user = yes /\ pg.listed = was.listed /\ pg.project = was.project /\ pg.file = was.file
    BY <2>1 DEF Page
  <2>4. SameRun(pg, was) /\ SameLists(pg, was) BY <2>1 DEF Page, SameRun, SameLists
  <2> QED BY <2>0, <2>2, <2>3, <2>4, <1>12 DEF AppliedAs, pg, Lists
<1>13. c.op \in Op BY DEF Call
<1> QED
  BY <1>1, <1>2, <1>3, <1>4, <1>5, <1>6, <1>7, <1>8, <1>9, <1>10, <1>11, <1>12, <1>13
  DEF Op, Global, OfRun, Lists
-----------------------------------------------------------------------------
(* What every handler that resumes leaves of the invariant.                *)

\* A handler that resumes keeps the types of its calls, and asks what fits them.
LEMMA SoundAfter ==
  ASSUME RoomTyped, TasksSound, NEW h \in Task, NEW t \in TaskRow, t.pc = "on",
         TaskSound(h, t), NEW pg \in Page, Resumes(h, t, pg)
  PROVE  /\ page' \in Page /\ task' \in [Task -> TaskRow] /\ TasksSound'
         /\ \A g \in Task : g # h => task'[g] = task[g]
         /\ t.calls # {} => task'[h] = t
         /\ t.calls = {} /\ t.todo = <<>> => task'[h].calls = {}
<1>1. Len(t.todo) <= 3 BY DEF TaskSound
<1>2. backend \in Backend /\ task \in [Task -> TaskRow] BY DEF RoomTyped
<1>3. /\ page' \in Page
      /\ \E r \in TaskRow : \E first \in MaybeProject :
           task' = [task EXCEPT ![h] = r] /\ WentOn(r, h, t, pg, first)
  BY <1>1, <1>2, Resuming
<1>4. PICK r \in TaskRow, first \in MaybeProject :
        task' = [task EXCEPT ![h] = r] /\ WentOn(r, h, t, pg, first)
  BY <1>3
<1>5. TaskSound(h, r)
  <2>1. CASE t.calls # {} BY <2>1, <1>4 DEF WentOn
  <2>2. CASE r.calls = {} /\ r.todo = <<>> /\ r.pc # "on"
    BY <2>2, <1>4 DEF TaskSound, WentOn
  <2>3. ASSUME t.calls = {}, r.pc = t.pc, t.todo # <<>>, NEW i \in DOMAIN t.todo,
               r.calls = Asks(pg, t.todo[i], first)
        PROVE  TaskSound(h, r)
    <3>1. h # Poll BY <2>3 DEF TaskSound
    <3>2. t.todo \in Seq(Item) BY DEF TaskRow
    <3>3. t.todo[i] \in Item BY <3>2, <2>3, ElementOfSeq, LenProperties
    <3>4. AskedOf(Asks(pg, t.todo[i], first), pg) BY <3>3, <1>2, AsksFit
    <3>5. \A c \in r.calls : CallFits(c) BY <3>4, <2>3 DEF AskedOf
    <3> QED BY <3>1, <3>5, <2>3, <1>4 DEF TaskSound, WentOn
  <2> QED BY <2>1, <2>2, <2>3, <1>4 DEF WentOn
<1>6. task' \in [Task -> TaskRow] /\ task'[h] = r /\ \A g \in Task : g # h => task'[g] = task[g]
  BY <1>4, <1>2
<1>7. ASSUME NEW g \in Task PROVE TaskSound(g, task'[g])
  BY <1>5, <1>6 DEF TasksSound
<1>8. TasksSound' BY <1>7 DEF TasksSound, Task, Gesture, TaskSound, CallFits
<1>9. t.calls # {} => r = t BY <1>4 DEF WentOn
<1>10. t.calls = {} /\ t.todo = <<>> => r.calls = {} BY <1>4 DEF WentOn
<1> QED BY <1>3, <1>6, <1>8, <1>9, <1>10

\* Deployments in progress are polled, or a list is under way, also afterwards.
LEMMA SettledAfter ==
  ASSUME RoomTyped, TasksSound, NEW h \in Task, NEW t \in TaskRow, t.pc = "on",
         TaskSound(h, t), NEW pg \in Page, Resumes(h, t, pg),
         \/ TimerFits(pg)
         \/ \E c \in t.calls : c.op \in Lists
         \/ \E g \in Task : g # h /\ \E c \in task[g].calls : c.op \in Lists
  PROVE  (page = Synced(page))' \/ ListUnderWay(task')
<1>1. /\ page' \in Page
      /\ \A g \in Task : g # h => task'[g] = task[g]
      /\ t.calls # {} => task'[h] = t
  BY SoundAfter
<1>2. page' = pg \/ TimerFits(page')
  <2>1. Len(t.todo) <= 3 BY DEF TaskSound
  <2>2. backend \in Backend /\ task \in [Task -> TaskRow] BY DEF RoomTyped
  <2> QED BY <2>1, <2>2, Resuming
<1>3. CASE TimerFits(pg)
  <2>1. TimerFits(page') BY <1>2, <1>3
  <2>2. \A q \in Page : TimerFits(q) => q = Synced(q) BY Syncing
  <2>3. page' = Synced(page') BY <2>1, <2>2, <1>1
  <2> QED BY <2>3 DEF Synced
<1>4. CASE \E c \in t.calls : c.op \in Lists
  BY <1>1, <1>4 DEF ListUnderWay
<1>5. CASE \E g \in Task : g # h /\ \E c \in task[g].calls : c.op \in Lists
  BY <1>1, <1>5 DEF ListUnderWay
<1> QED BY <1>3, <1>4, <1>5

\* What a call has to do with the page rests on what the lists leave alone.
LEMMA AboutKept ==
  ASSUME NEW t, NEW pg, NEW of, SameBut(pg, of), TaskAbout(t, of)
  PROVE  TaskAbout(t, pg)
BY DEF SameBut, SameView, SameRun, TaskAbout, CallAbout

\* What an undisturbed page keeps, if the page that a handler has made keeps it,
\* and what is left of the handler is about that page.
LEMMA UndisturbedAfter ==
  ASSUME RoomTyped, TasksSound, NEW h \in Task, NEW t \in TaskRow, t.pc = "on",
         TaskSound(h, t), NEW pg \in Page, Resumes(h, t, pg),
         SignedIn(pg, backend'), FilesFit(pg, backend'), VerdictFits(pg),
         h \in Gesture => /\ TaskAbout(t, pg)
                          /\ t.calls = {} /\ t.todo # <<>> => pg.user
                          /\ \A g \in Gesture : g # h => task[g].pc # "on",
         h \notin Gesture => OneByOne /\ \A g \in Gesture : TaskAbout(task[g], pg)
  PROVE  Undisturbed'
<1>0. Gesture \subseteq Task /\ Poll \notin Gesture BY RoomAssumption DEF Gesture, Task, Poll
<1>1. Len(t.todo) <= 3 BY DEF TaskSound
<1>2. backend \in Backend /\ task \in [Task -> TaskRow] BY DEF RoomTyped
<1>3. /\ page' \in Page /\ SameBut(page', pg)
      /\ \E r \in TaskRow : \E first \in MaybeProject :
           task' = [task EXCEPT ![h] = r] /\ WentOn(r, h, t, pg, first)
  BY <1>1, <1>2, Resuming
<1>4. PICK r \in TaskRow, first \in MaybeProject :
        task' = [task EXCEPT ![h] = r] /\ WentOn(r, h, t, pg, first)
  BY <1>3
<1>5. task'[h] = r /\ \A g \in Task : g # h => task'[g] = task[g]
  BY <1>4, <1>2
<1>6. SignedIn(page', backend') /\ FilesFit(page', backend') /\ VerdictFits(page')
  BY <1>3 DEF SameBut, SameView, SameRun, SignedIn, FilesFit, VerdictFits
<1>7. CASE h \in Gesture
  <2>1. TaskAbout(r, pg)
    <3>1. CASE t.calls # {} BY <3>1, <1>4, <1>7 DEF WentOn
    <3>2. CASE r.calls = {} BY <3>2 DEF TaskAbout
    <3>3. ASSUME t.calls = {}, t.todo # <<>>, NEW i \in DOMAIN t.todo,
                 r.calls = Asks(pg, t.todo[i], first)
          PROVE  TaskAbout(r, pg)
      <4>1. t.todo \in Seq(Item) BY DEF TaskRow
      <4>2. t.todo[i] \in Item BY <4>1, <3>3, ElementOfSeq, LenProperties
      <4>3. AskedOf(r.calls, pg) BY <4>2, <3>3, <1>2, AsksFit
      <4>4. pg.user BY <3>3, <1>7
      <4>5. SUFFICES ASSUME NEW c \in r.calls PROVE CallAbout(c, r, pg)
        BY DEF TaskAbout
      <4>6. /\ c.op \in {"projects", "project"} \cup ReadOp
            /\ c.op \notin Together => r.calls = {c}
            /\ c.op \notin Switching => c.of = pg.project
        BY <4>3 DEF AskedOf
      <4> QED BY <4>4, <4>6 DEF CallAbout, ReadOp
    <3> QED BY <3>1, <3>2, <3>3, <1>4 DEF WentOn
  <2>2. ASSUME NEW g \in Gesture PROVE TaskAbout(task'[g], page')
    <3>1. CASE g = h
      <4>1. task'[g] = r BY <3>1, <1>5
      <4> QED BY <4>1, <2>1, <1>3, AboutKept
    <3>2. CASE g # h
      <4>1. g \in Task BY <1>0
      <4>2. task[g].calls = {} BY <3>2, <4>1, <1>7 DEF TasksSound, TaskSound
      <4>3. task'[g].calls = {} BY <4>1, <4>2, <3>2, <1>5
      <4> QED BY <4>3 DEF TaskAbout
    <3> QED BY <3>1, <3>2
  <2>3. \A f, g \in Gesture : task'[f].pc = "on" /\ task'[g].pc = "on" => f = g
    BY <1>5, <1>7, <1>0
  <2>4. OneByOne' BY <2>3 DEF OneByOne, Gesture
  <2>5. CallsAbout' BY <2>2 DEF CallsAbout, Gesture, TaskAbout, CallAbout
  <2> QED BY <2>4, <2>5, <1>6 DEF Undisturbed, SignedIn, FilesFit, VerdictFits
<1>8. CASE h \notin Gesture
  <2>1. \A g \in Gesture : task'[g] = task[g] BY <1>0, <1>5, <1>8
  <2>2. \A g \in Gesture : TaskAbout(task'[g], page')
    BY <2>1, <1>3, <1>8, AboutKept
  <2>3. \A f, g \in Gesture : task'[f].pc = "on" /\ task'[g].pc = "on" => f = g
    BY <2>1, <1>8 DEF OneByOne
  <2>4. OneByOne' BY <2>3 DEF OneByOne, Gesture
  <2>5. CallsAbout' BY <2>2 DEF CallsAbout, Gesture, TaskAbout, CallAbout
  <2> QED BY <2>4, <2>5, <1>6 DEF Undisturbed, SignedIn, FilesFit, VerdictFits
<1> QED BY <1>7, <1>8

\* What a page shows, if the page that a handler has made shows it, and calls
\* that read anew are still under way.
LEMMA PageFitsAfter ==
  ASSUME RoomTyped, TasksSound, NEW h \in Task, NEW t \in TaskRow, t.pc = "on",
         TaskSound(h, t), NEW pg \in Page, Resumes(h, t, pg),
         NEW tasks, PageFits(pg, tasks),
         pg.project # Null => \A op \in {"runs", "deployments"} : Asking(op, tasks) => Asking(op, task')
  PROVE  PageFits(page, task)'
<1>1. Len(t.todo) <= 3 BY DEF TaskSound
<1>2. backend \in Backend /\ task \in [Task -> TaskRow] BY DEF RoomTyped
<1>3. SameBut(page', pg) /\ (page' = pg \/ pg.project = Null)
  BY <1>1, <1>2, Resuming
<1>4. CASE pg.project = Null
  <2>1. page'.project = Null BY <1>3, <1>4 DEF SameBut, SameView
  <2> QED BY <2>1 DEF PageFits
<1>5. CASE pg.project # Null
  <2>1. PageFits(pg, task') BY <1>5 DEF PageFits
  <2>2. page' = pg BY <1>3, <1>5
  <2>3. PageFits(page', task') BY <2>1, <2>2
  <2> QED BY <2>3 DEF PageFits, OneRunShown, RunsFit, ListFits, Asking
<1> QED BY <1>4, <1>5
-----------------------------------------------------------------------------
(* A gesture starts its handler (Begins).                                  *)

NobodyOn == \A g \in Gesture : task[g].pc # "on"

\* Handler h starts with t, in a page that shows what it showed before.
BegunBy(h, t, pg) ==
  /\ h \in Gesture /\ task[h].pc = "none" /\ Resumes(h, t, pg)
  /\ awry' = [awry EXCEPT !.overlap = @ \/ ~NobodyOn] /\ backend' = backend
  /\ t \in TaskRow /\ t.pc = "on" /\ TaskSound(h, t)
  /\ pg \in Page /\ SameBut(pg, page) /\ SameLists(pg, page)
  /\ SignedIn(page, backend) /\ FilesFit(page, backend) =>
       TaskAbout(t, pg) /\ (t.calls = {} => pg.user)

\* That what a gesture asks first is about the page it is made in.
AskedWith(calls, todo, pg) ==
  SignedIn(page, backend) /\ FilesFit(page, backend) =>
    /\ calls = {} => page.user
    /\ \A t : t.calls = calls /\ t.todo = todo => TaskAbout(t, pg)

\* A gesture that Begins with such calls is one that BegunBy describes.
LEMMA Beginning ==
  ASSUME RoomTyped, NEW kind \in Kind, NEW calls \in SUBSET Call, \A c \in calls : CallFits(c),
         NEW todo \in Seq(Item), Len(todo) <= 3, NEW pg \in Page, SameBut(pg, page),
         SameLists(pg, page), Begins(kind, calls, todo, pg), AskedWith(calls, todo, pg)
  PROVE  \E h, t : BegunBy(h, t, pg)
<1> DEFINE t == [pc |-> "on", kind |-> kind, calls |-> calls, todo |-> todo]
<1>1. PICK h \in Gesture : task[h].pc = "none" /\ Resumes(h, t, pg)
  BY DEF Begins
<1>2. t \in TaskRow BY DEF TaskRow
<1>3. t.pc = "on" /\ t.calls = calls /\ t.todo = todo OBVIOUS
<1>4. awry' = [awry EXCEPT !.overlap = @ \/ \E g \in Gesture : task[g].pc = "on"] /\ backend' = backend
  BY DEF Begins
<1>5. (\E g \in Gesture : task[g].pc = "on") <=> ~NobodyOn BY DEF NobodyOn
<1>6. awry' = [awry EXCEPT !.overlap = @ \/ ~NobodyOn]
  <2> DEFINE e == \E g \in Gesture : task[g].pc = "on"
             n == ~NobodyOn
  <2>1. e = n BY <1>5
  <2> HIDE DEF e, n
  <2>2. [awry EXCEPT !.overlap = @ \/ e] = [awry EXCEPT !.overlap = @ \/ n] BY <2>1
  <2> QED BY <2>2, <1>4 DEF e, n
<1> HIDE DEF t
<1>7. TaskSound(h, t)
  <2>1. h # Poll BY RoomAssumption DEF Gesture, Poll
  <2> QED BY <2>1, <1>3 DEF TaskSound
<1>8. SignedIn(page, backend) /\ FilesFit(page, backend) => TaskAbout(t, pg) /\ (t.calls = {} => pg.user)
  BY <1>3 DEF AskedWith, SameBut, SameView
<1> QED BY <1>1, <1>2, <1>3, <1>4, <1>6, <1>7, <1>8 DEF BegunBy

\* The same for a gesture that leaves the page as it is.
LEMMA Starting ==
  ASSUME RoomTyped, NEW kind \in Kind, NEW calls \in SUBSET Call, \A c \in calls : CallFits(c),
         NEW todo \in Seq(Item), Len(todo) <= 3,
         Start(kind, calls, todo), AskedWith(calls, todo, page)
  PROVE  \E h, t, pg : BegunBy(h, t, pg)
<1>1. page \in Page /\ SameBut(page, page) /\ SameLists(page, page)
  BY DEF RoomTyped, SameBut, SameView, SameRun, SameLists
<1>2. Begins(kind, calls, todo, page) BY DEF Start
<1> QED BY <1>1, <1>2, Beginning

\* One call, made in a page of somebody who is signed in.
LEMMA StartingOne ==
  ASSUME RoomTyped, NEW kind \in Kind, NEW c \in Call, CallFits(c),
         NEW todo \in Seq(Item), Len(todo) <= 3, Start(kind, {c}, todo),
         SignedIn(page, backend) /\ FilesFit(page, backend) =>
           /\ c.op \notin Switching => c.of = page.project
           /\ c.op \in {"validate", "resume"} => c.arg = page.run
           /\ c.op \in {"logs", "save"} => c.arg = c.of
           /\ c.op = "logout" => todo = <<>>
           /\ c.op # "auth" => page.user
  PROVE  \E h, t, pg : BegunBy(h, t, pg)
<1>1. AskedWith({c}, todo, page) BY DEF AskedWith, TaskAbout, CallAbout
<1> QED BY <1>1, Starting

\* What is left to do is a list of items.
LEMMA TodoLists ==
  /\ \A i \in Item : <<i>> \in Seq(Item) /\ Len(<<i>>) <= 3
  /\ \A i, j \in Item : <<i, j>> \in Seq(Item) /\ Len(<<i, j>>) <= 3
  /\ \A i, j, k \in Item : <<i, j, k>> \in Seq(Item) /\ Len(<<i, j, k>>) <= 3
  /\ <<>> \in Seq(Item) /\ Len(<<>>) <= 3
<1>1. \A i \in Item : <<i>> \in Seq(Item) /\ Len(<<i>>) <= 3 OBVIOUS
<1>2. \A i, j \in Item : <<i, j>> \in Seq(Item) /\ Len(<<i, j>>) <= 3 OBVIOUS
<1>3. \A i, j, k \in Item : <<i, j, k>> \in Seq(Item) /\ Len(<<i, j, k>>) <= 3 OBVIOUS
<1>4. <<>> \in Seq(Item) /\ Len(<<>>) <= 3 BY EmptySeq
<1> QED BY <1>1, <1>2, <1>3, <1>4

\* Only who is signed in has a project open or listed.
LEMMA OpenIsSignedIn ==
  ASSUME SignedIn(page, backend), page.project # Null \/ page.listed # {}, RoomTyped
  PROVE  page.user
BY DEF SignedIn, RoomTyped, Page

\* Reads of the project that is open (OpenFile, Refresh).
LEMMA StartingReads ==
  ASSUME RoomTyped, page.project # Null, NEW op \in ReadOp, Start("read", ReadsOf(page, {op}), <<>>)
  PROVE  \E h, t, pg : BegunBy(h, t, pg)
<1> DEFINE calls == ReadsOf(page, {op})
<1>1. ReadsFitPage(calls, {op}, page) BY ReadsFit DEF RoomTyped
<1>2. calls \in SUBSET Call /\ \A c \in calls : CallFits(c) BY <1>1 DEF ReadsFitPage
<1>3. \A c, d \in calls : c = d BY DEF ReadsOf
<1>4. ASSUME SignedIn(page, backend) PROVE page.user BY <1>4, OpenIsSignedIn
<1>5. Start("read", calls, <<>>) /\ "read" \in Kind BY DEF Kind
<1>6. \A c \in calls : c.op \in ReadOp /\ c.of = page.project BY <1>1 DEF ReadsFitPage
<1> HIDE DEF calls
<1>7. AskedWith(calls, <<>>, page)
  BY <1>3, <1>4, <1>6 DEF AskedWith, TaskAbout, CallAbout, ReadOp
<1> QED BY <1>2, <1>5, <1>7, TodoLists, Starting

Gestures ==
  \/ SelectProject \/ SwitchWorkspace \/ OpenFile \/ OpenRun
  \/ Refresh \/ SaveFile \/ ManualCommit \/ RunBuilder
  \/ ValidateRun \/ ResumeRun \/ Deploy
  \/ Logout \/ SignInAgain

\* Every gesture begins a handler whose first call fits the page.
LEMMA GestureBegins ==
  ASSUME RoomTyped, Gestures
  PROVE  \E h, t, pg : BegunBy(h, t, pg)
<1>0. /\ backend \in Backend /\ page \in Page
      /\ page.project # Null => page.project \in Projects
  BY DEF RoomTyped, Page, MaybeProject
<1>a. {"read", "select", "workspace", "save", "commit", "build", "validate", "resume", "deploy",
       "logout", "auth"} \subseteq Kind
  BY DEF Kind
<1>b. /\ <<>> \in Seq(Item) /\ Len(<<>>) <= 3
      /\ <<"refresh">> \in Seq(Item) /\ Len(<<"refresh">>) <= 3
      /\ <<"deployments">> \in Seq(Item) /\ Len(<<"deployments">>) <= 3
      /\ <<"projects", "refresh">> \in Seq(Item) /\ Len(<<"projects", "refresh">>) <= 3
      /\ <<"projects", "first">> \in Seq(Item) /\ Len(<<"projects", "first">>) <= 3
      /\ <<"runs", "detail">> \in Seq(Item) /\ Len(<<"runs", "detail">>) <= 3
      /\ <<"projects", "refresh", "open">> \in Seq(Item) /\ Len(<<"projects", "refresh", "open">>) <= 3
  <2>1. {"refresh", "deployments", "projects", "first", "runs", "detail", "open"} \subseteq Item
    BY DEF Item
  <2> QED BY <2>1, TodoLists
<1>c. {"project", "commit", "build"} \subseteq PlainOp BY DEF PlainOp
<1>1. CASE SelectProject
  <2>1. PICK p \in page.listed : Start("select", {Make("project", p, Null)}, <<>>)
    BY <1>1 DEF SelectProject
  <2> DEFINE c == Make("project", p, Null)
  <2>2. p \in Projects BY <2>1, <1>0 DEF Page
  <2>3. c \in Call /\ CallFits(c) /\ c.op = "project" BY <2>2, <1>0, <1>c, PlainCalls
  <2>4. SignedIn(page, backend) => page.user BY <2>1, OpenIsSignedIn
  <2>5. Start("select", {c}, <<>>) BY <2>1
  <2> HIDE DEF c
  <2> QED BY <2>3, <2>4, <2>5, <1>a, <1>b, StartingOne DEF Switching
<1>2. CASE SwitchWorkspace
  <2>1. PICK w \in {1, 2} :
          Begins("workspace", {Make("projects", Null, w)}, <<>>, [page EXCEPT !.workspace = w])
    BY <1>2 DEF SwitchWorkspace
  <2> DEFINE c == Make("projects", Null, w)
             pg == [page EXCEPT !.workspace = w]
  <2>2. "projects" \in Global /\ w \in 0..2 BY DEF Global
  <2>3. c \in Call /\ CallFits(c) /\ c.op = "projects" BY <2>2, <1>0, GlobalCalls
  <2>4. pg \in Page BY <2>2, <1>0 DEF Page
  <2>5. SameBut(pg, page) /\ SameLists(pg, page)
    BY <1>0 DEF Page, SameBut, SameView, SameRun, SameLists
  <2>6. Begins("workspace", {c}, <<>>, pg) /\ page.user BY <2>1, <1>2 DEF SwitchWorkspace
  <2> HIDE DEF c, pg
  <2>7. AskedWith({c}, <<>>, pg)
    BY <2>3, <2>5, <2>6 DEF AskedWith, TaskAbout, CallAbout, Switching, Global, SameBut, SameView
  <2>8. {c} \in SUBSET Call /\ \A d \in {c} : CallFits(d) BY <2>3
  <2> QED BY <2>4, <2>5, <2>6, <2>7, <2>8, <1>a, <1>b, Beginning
<1>3. CASE OpenFile
  <2>1. "file" \in ReadOp BY DEF ReadOp
  <2> QED BY <2>1, <1>3, StartingReads DEF OpenFile
<1>4. CASE OpenRun
  <2>1. PICK i \in {1, 2} : Start("read", {Make("detail", page.project, <<page.runs, i>>)}, <<>>)
    BY <1>4 DEF OpenRun
  <2>2. page.project # Null /\ page.project \in Projects /\ page.runs \in Projects
    BY <1>4, <1>0 DEF OpenRun, Page, MaybeProject
  <2>3. <<page.runs, i>> \in ProjectRun /\ "detail" \in OfRun BY <2>2 DEF ProjectRun, OfRun
  <2> DEFINE c == Make("detail", page.project, <<page.runs, i>>)
  <2>4. c \in Call /\ CallFits(c) /\ c.op = "detail" /\ c.of = page.project
    BY <2>2, <2>3, <1>0, RunCalls
  <2>5. SignedIn(page, backend) => page.user BY <2>2, OpenIsSignedIn
  <2>6. Start("read", {c}, <<>>) BY <2>1
  <2> HIDE DEF c
  <2> QED BY <2>4, <2>5, <2>6, <1>a, <1>b, StartingOne
<1>5. CASE Refresh
  <2>1. page.project # Null /\ (SignedIn(page, backend) => page.user)
    BY <1>5, OpenIsSignedIn DEF Refresh
  <2>2. ASSUME NEW op \in {"deployments", "runs"}, Start("read", ReadsOf(page, {op}), <<>>)
        PROVE  \E h, t, pg : BegunBy(h, t, pg)
    <3>1. op \in ReadOp BY DEF ReadOp
    <3> QED BY <3>1, <2>1, <2>2, StartingReads
  <2>3. CASE Start("read", {}, <<"refresh">>)
    <3>1. AskedWith({}, <<"refresh">>, page) BY <2>1 DEF AskedWith, TaskAbout
    <3>2. {} \in SUBSET Call /\ \A d \in {} : CallFits(d) OBVIOUS
    <3> QED BY <3>1, <3>2, <2>3, <1>a, <1>b, Starting
  <2>4. CASE Start("read", {Make("projects", Null, page.workspace)}, <<>>)
    <3> DEFINE c == Make("projects", Null, page.workspace)
    <3>1. "projects" \in Global /\ page.workspace \in 0..2 BY <1>0 DEF Global, Page
    <3>2. c \in Call /\ CallFits(c) /\ c.op = "projects" BY <3>1, <1>0, GlobalCalls
    <3>3. Start("read", {c}, <<>>) BY <2>4
    <3> HIDE DEF c
    <3> QED BY <3>2, <3>3, <2>1, <1>a, <1>b, StartingOne DEF Switching, Global
  <2> QED BY <1>5, <2>2, <2>3, <2>4 DEF Refresh
<1>6. CASE SaveFile
  <2> DEFINE c == Make("save", page.project, page.file)
  <2>1. /\ page.project # Null /\ page.project \in Projects /\ page.file # Null
        /\ page.file \in Projects
    BY <1>6, <1>0 DEF SaveFile, Page, MaybeProject
  <2>2. c \in Call /\ CallFits(c) /\ c.op = "save" /\ c.of = page.project /\ c.arg = page.file
    BY <2>1, <1>0, SaveCalls
  <2>3. SignedIn(page, backend) => page.user BY <2>1, OpenIsSignedIn
  <2>4. FilesFit(page, backend) => page.file = page.project BY <2>1 DEF FilesFit
  <2>5. Start("save", {c}, <<"projects", "refresh">>) BY <1>6 DEF SaveFile
  <2> HIDE DEF c
  <2> QED BY <2>2, <2>3, <2>4, <2>5, <1>a, <1>b, StartingOne
<1>7. ASSUME NEW op \in {"commit", "build"}, NEW todo \in Seq(Item), Len(todo) <= 3,
             page.project # Null, Start(op, {Make(op, page.project, Null)}, todo)
      PROVE  \E h, t, pg : BegunBy(h, t, pg)
  <2> DEFINE c == Make(op, page.project, Null)
  <2>1. page.project \in Projects BY <1>7, <1>0
  <2>2. c \in Call /\ CallFits(c) /\ c.op = op /\ c.of = page.project
    BY <2>1, <1>0, <1>c, PlainCalls
  <2>3. SignedIn(page, backend) => page.user BY <1>7, OpenIsSignedIn
  <2>4. Start(op, {c}, todo) /\ op \in Kind BY <1>7, <1>a
  <2> HIDE DEF c
  <2> QED BY <2>2, <2>3, <2>4, <1>7, StartingOne
<1>8. CASE ManualCommit
  BY <1>8, <1>7, <1>b DEF ManualCommit
<1>9. CASE RunBuilder
  BY <1>9, <1>7, <1>b DEF RunBuilder
<1>10. ASSUME NEW op \in {"validate", "resume", "deploy"}, NEW todo \in Seq(Item), Len(todo) <= 3,
              page.project # Null, page.run # Null, Start(op, {Make(op, page.project, page.run)}, todo)
       PROVE  \E h, t, pg : BegunBy(h, t, pg)
  <2> DEFINE c == Make(op, page.project, page.run)
  <2>1. page.project \in Projects /\ page.run \in ProjectRun /\ op \in OfRun
    BY <1>10, <1>0 DEF Page, OfRun
  <2>2. c \in Call /\ CallFits(c) /\ c.op = op /\ c.of = page.project /\ c.arg = page.run
    BY <2>1, <1>0, RunCalls
  <2>3. SignedIn(page, backend) => page.user BY <1>10, OpenIsSignedIn
  <2>4. Start(op, {c}, todo) /\ op \in Kind BY <1>10, <1>a
  <2> HIDE DEF c
  <2> QED BY <2>2, <2>3, <2>4, <1>10, StartingOne
<1>11. CASE ValidateRun
  BY <1>11, <1>10, <1>b DEF ValidateRun, DetailShown
<1>12. CASE ResumeRun
  BY <1>12, <1>10, <1>b DEF ResumeRun, DetailShown
<1>13. CASE Deploy
  BY <1>13, <1>10, <1>b DEF Deploy
<1>14. CASE Logout
  <2> DEFINE c == Make("logout", Null, Null)
  <2>1. "logout" \in Global BY DEF Global
  <2>2. c \in Call /\ CallFits(c) /\ c.op = "logout" BY <2>1, <1>0, GlobalCalls
  <2>3. Start("logout", {c}, <<>>) /\ page.user BY <1>14 DEF Logout
  <2> HIDE DEF c
  <2> QED BY <2>2, <2>3, <1>a, <1>b, StartingOne DEF Switching, Global
<1>15. CASE SignInAgain
  <2> DEFINE c == Make("auth", Null, Null)
  <2>1. "auth" \in Global BY DEF Global
  <2>2. c \in Call /\ CallFits(c) /\ c.op = "auth" BY <2>1, <1>0, GlobalCalls
  <2>3. Start("auth", {c}, <<"projects", "first">>) BY <1>15 DEF SignInAgain
  <2> HIDE DEF c
  <2> QED BY <2>2, <2>3, <1>a, <1>b, StartingOne DEF Switching, Global
<1> QED
  BY <1>1, <1>2, <1>3, <1>4, <1>5, <1>6, <1>8, <1>9, <1>11, <1>12, <1>13, <1>14, <1>15 DEF Gestures
-----------------------------------------------------------------------------
(* Every step keeps the invariant.                                         *)

\* What the variables of a step that begins a handler are like afterwards.
LEMMA BeginKeeps ==
  ASSUME RoomInv, NEW h, NEW t, NEW pg, BegunBy(h, t, pg)
  PROVE  RoomInv'
<1>0. RoomTyped /\ TasksSound /\ h \in Task /\ h \in Gesture /\ h # Poll
  BY RoomAssumption DEF RoomInv, BegunBy, Task, Gesture, Poll
<1>1. /\ t \in TaskRow /\ t.pc = "on" /\ TaskSound(h, t) /\ pg \in Page /\ Resumes(h, t, pg)
      /\ SameBut(pg, page) /\ SameLists(pg, page) /\ backend' = backend /\ task[h].pc = "none"
  BY DEF BegunBy
<1>2. task[h].calls = {} BY <1>0, <1>1 DEF TasksSound, TaskSound
<1>3. /\ page' \in Page /\ task' \in [Task -> TaskRow] /\ TasksSound'
      /\ \A g \in Task : g # h => task'[g] = task[g]
  BY <1>0, <1>1, SoundAfter
<1>4. /\ awry' \in Awry /\ awry'.cut = awry.cut /\ awry'.unsettled = awry.unsettled
      /\ awry'.promoted = awry.promoted
      /\ awry'.overlap = FALSE => ~awry.overlap /\ NobodyOn
  <2>1. awry \in Awry BY <1>0 DEF RoomTyped
  <2> DEFINE n == awry.overlap \/ ~NobodyOn
  <2>2. awry' = [awry EXCEPT !.overlap = n] BY DEF BegunBy
  <2>3. n \in BOOLEAN OBVIOUS
  <2>4. n = FALSE => ~awry.overlap /\ NobodyOn OBVIOUS
  <2> HIDE DEF n
  <2> QED BY <2>1, <2>2, <2>3, <2>4 DEF Awry
<1>5. RoomTyped' BY <1>0, <1>1, <1>3, <1>4 DEF RoomTyped, Backend, Task, Gesture, Page, TaskRow, Awry
<1>6. Settled'
  <2>1. SUFFICES ASSUME ~awry'.unsettled PROVE (page = Synced(page))' \/ ListUnderWay(task')
    BY DEF Settled, ListUnderWay
  <2>2. page = Synced(page) \/ ListUnderWay(task) BY <2>1, <1>4 DEF RoomInv, Settled
  <2>3. TimerFits(pg) \/ \E g \in Task : g # h /\ \E c \in task[g].calls : c.op \in Lists
    <3>1. CASE page = Synced(page)
      <4>1. TimerFits(page) BY <3>1, <1>0, Syncing DEF RoomTyped
      <4> QED BY <4>1, <1>1 DEF TimerFits, SameBut, SameView, SameLists
    <3>2. CASE ListUnderWay(task) BY <3>2, <1>2 DEF ListUnderWay
    <3> QED BY <3>1, <3>2, <2>2
  <2> QED BY <2>3, <1>0, <1>1, SettledAfter
<1>7. Promoted' BY <1>4 DEF RoomInv, Promoted, Eligible, Row
<1>8. PollFits'
  <2>1. task'[Poll] = task[Poll] BY <1>0, <1>3 DEF Task
  <2> QED BY <2>1, <1>4 DEF RoomInv, PollFits
<1>9. ASSUME ~awry'.overlap PROVE Undisturbed'
  <2>1. NobodyOn /\ Undisturbed BY <1>4, <1>9 DEF RoomInv, Awry
  <2>2. SignedIn(pg, backend') /\ FilesFit(pg, backend') /\ VerdictFits(pg)
    BY <2>1, <1>1 DEF Undisturbed, SignedIn, FilesFit, VerdictFits, SameBut, SameView, SameRun
  <2>3. TaskAbout(t, pg) /\ (t.calls = {} => pg.user)
    BY <2>1 DEF Undisturbed, BegunBy
  <2>4. \A g \in Gesture : task[g].pc # "on" BY <2>1 DEF NobodyOn
  <2> QED BY <2>2, <2>3, <2>4, <1>0, <1>1, UndisturbedAfter
<1>10. ASSUME ~awry'.overlap, ~awry'.cut PROVE PageFits(page, task)'
  <2>1. NobodyOn /\ PageFits(page, task) BY <1>4, <1>10 DEF RoomInv, Awry
  <2>2. PageFits(pg, task)
    BY <2>1, <1>1 DEF PageFits, OneRunShown, RunsFit, ListFits, SameBut, SameView, SameRun, SameLists
  <2>3. \A g \in Gesture : task[g].calls = {}
    BY <2>1, <1>0 DEF NobodyOn, TasksSound, TaskSound, Task
  <2>4. \A op : ~Asking(op, task) BY <2>3 DEF Asking
  <2> QED BY <2>2, <2>4, <1>0, <1>1, PageFitsAfter
<1> QED BY <1>3, <1>5, <1>6, <1>7, <1>8, <1>9, <1>10 DEF RoomInv

\* The rest of a handler after the answer to c, from which it reads on.
RestOf(h, c, pg) == [task[h] EXCEPT !.calls = (@ \ {c}) \cup Follow(pg, c)]

\* The rest of a handler is sound, and a poll reads on in its logs.
LEMMA RestSound ==
  ASSUME RoomTyped, TasksSound, NEW h \in Task, NEW c \in task[h].calls, NEW pg \in Page
  PROVE  LET t == RestOf(h, c, pg) IN
         /\ t \in TaskRow /\ t.pc = "on" /\ TaskSound(h, t) /\ t.todo = task[h].todo
         /\ t.calls = (task[h].calls \ {c}) \cup Follow(pg, c)
         /\ c \in Call /\ CallFits(c)
<1> DEFINE calls == (task[h].calls \ {c}) \cup Follow(pg, c)
           t == [task[h] EXCEPT !.calls = calls]
<1>1. task[h] \in TaskRow /\ backend \in Backend BY DEF RoomTyped
<1>2. TaskSound(h, task[h]) BY DEF TasksSound
<1>3. c \in Call /\ CallFits(c) /\ task[h].pc = "on" BY <1>1, <1>2 DEF TaskRow, TaskSound
<1>4. \A d \in Follow(pg, c) : d \in Call /\ CallFits(d) BY <1>1, FollowFits
<1>5. /\ c.op = "deployments" => \A d \in Follow(pg, c) : d.op = "logs"
      /\ c.op = "logs" => Follow(pg, c) = {}
  BY <1>1, FollowFits
<1>6. /\ calls \in SUBSET Call /\ \A d \in calls : CallFits(d)
      /\ h = Poll => \A d \in calls : d.op \in {"deployments", "logs"}
  <2>1. \A d \in task[h].calls : d \in Call /\ CallFits(d) BY <1>1, <1>2 DEF TaskRow, TaskSound
  <2>2. h = Poll => \A d \in task[h].calls : d.op \in {"deployments", "logs"} BY <1>2 DEF TaskSound
  <2> QED BY <2>1, <2>2, <1>4, <1>5
<1>7. RestOf(h, c, pg) = t BY <1>1 DEF RestOf, TaskRow
<1>8. calls = (task[h].calls \ {c}) \cup Follow(pg, c) OBVIOUS
<1> HIDE DEF calls
<1>9. t \in TaskRow /\ t.pc = task[h].pc /\ t.todo = task[h].todo /\ t.calls = calls
  BY <1>1, <1>6 DEF TaskRow
<1> HIDE DEF t
<1>10. TaskSound(h, t) BY <1>9, <1>6, <1>2, <1>3 DEF TaskSound
<1> QED BY <1>3, <1>7, <1>8, <1>9, <1>10

\* An undisturbed page, after an answer to a gesture.
LEMMA AnswerUndisturbed ==
  ASSUME RoomTyped, TasksSound, Undisturbed, NEW h \in Gesture, NEW c \in task[h].calls,
         NEW answer, NEW pg, AppliedAs(pg, page, c, answer), ServedAs(c, backend')
  PROVE  LET t == RestOf(h, c, pg) IN
         /\ SignedIn(pg, backend') /\ FilesFit(pg, backend') /\ VerdictFits(pg)
         /\ TaskAbout(t, pg) /\ (t.calls = {} /\ t.todo # <<>> => pg.user)
<1> DEFINE t == RestOf(h, c, pg)
<1>0. h \in Task /\ pg \in Page /\ backend \in Backend BY DEF Task, AppliedAs, RoomTyped
<1>1. /\ t.todo = task[h].todo /\ t.calls = (task[h].calls \ {c}) \cup Follow(pg, c)
      /\ c \in Call /\ CallFits(c)
  BY <1>0, RestSound
<1> HIDE DEF t
<1>2. CallAbout(c, task[h], page) /\ \A d \in task[h].calls : CallAbout(d, task[h], page)
  BY DEF Undisturbed, CallsAbout, TaskAbout
<1>3. c.op # "auth" => page.user /\ backend.signed
  BY <1>2 DEF CallAbout, Undisturbed, SignedIn
<1>4. SignedIn(pg, backend')
  <2>1. CASE c.op = "logout"
    <3>1. pg = SignedOut BY <2>1 DEF AppliedAs
    <3> QED BY <3>1, SigningOut DEF SignedIn
  <2>2. CASE c.op = "auth"
    BY <2>2 DEF AppliedAs, ServedAs, SignedIn
  <2>3. CASE c.op \notin {"logout", "auth"}
    <3>1. backend'.signed BY <2>3, <1>3 DEF ServedAs
    <3>2. pg.user BY <2>3, <1>3 DEF AppliedAs, SameView
    <3> QED BY <3>1, <3>2 DEF SignedIn
  <2> QED BY <2>1, <2>2, <2>3
<1>5. FilesFit(pg, backend')
  <2>0. FilesFit(page, backend) BY DEF Undisturbed
  <2>1. \A p \in Projects : backend'.content[p] = p
    <3>1. CASE c.op # "save" BY <3>1, <2>0 DEF ServedAs, FilesFit
    <3>2. CASE c.op = "save"
      <4>1. c.arg = c.of /\ c.of \in Projects BY <3>2, <1>1, <1>2 DEF CallAbout, CallFits, Global
      <4>2. backend'.content = [backend.content EXCEPT ![c.of] = c.arg] BY <3>2 DEF ServedAs
      <4>3. backend.content \in [Projects -> Projects] BY <1>0 DEF Backend
      <4> QED BY <4>1, <4>2, <4>3, <2>0 DEF FilesFit
    <3> QED BY <3>1, <3>2
  <2>2. pg.project # Null => pg.file \in {Null, pg.project}
    <3>1. CASE c.op = "project" BY <3>1 DEF AppliedAs
    <3>2. CASE c.op = "projects" BY <3>2, <2>0 DEF AppliedAs, FilesFit
    <3>3. CASE c.op = "logout"
      <4>1. pg = SignedOut BY <3>3 DEF AppliedAs
      <4> QED BY <4>1, SigningOut
    <3>4. CASE c.op \in {"file", "reopen"}
      <4>1. c.of = page.project BY <3>4, <1>2 DEF CallAbout, Switching, Global
      <4>2. pg.project = page.project /\ pg.file = backend.content[c.of]
        BY <3>4 DEF AppliedAs, SameView
      <4>3. c.of \in Projects BY <3>4, <1>1 DEF CallFits, Global
      <4> QED BY <4>1, <4>2, <4>3, <2>0 DEF FilesFit
    <3>5. CASE c.op \notin {"project", "projects", "logout", "file", "reopen"}
      <4>1. pg.project = page.project /\ pg.file = page.file
        BY <3>5 DEF AppliedAs, SameView
      <4> QED BY <4>1, <2>0 DEF FilesFit
    <3> QED BY <3>1, <3>2, <3>3, <3>4, <3>5
  <2> QED BY <2>1, <2>2 DEF FilesFit
<1>6. VerdictFits(pg)
  <2>0. VerdictFits(page) BY DEF Undisturbed
  <2>1. CASE c.op = "validate"
    <3>1. c.arg = page.run BY <2>1, <1>2 DEF CallAbout
    <3>2. pg.validation = [of |-> page.run, about |-> c.arg] BY <2>1 DEF AppliedAs
    <3> QED BY <3>1, <3>2 DEF VerdictFits
  <2>2. CASE c.op = "logout"
    <3>1. pg = SignedOut BY <2>2 DEF AppliedAs
    <3> QED BY <3>1, SigningOut DEF VerdictFits
  <2>3. CASE c.op \in {"project", "projects", "resume", "runs", "detail"}
    <3>1. pg.validation = Null \/ pg.validation = page.validation
      BY <2>3 DEF AppliedAs, SameRun
    <3> QED BY <3>1, <2>0 DEF VerdictFits
  <2>4. CASE c.op \notin {"project", "projects", "logout", "runs", "detail", "validate", "resume"}
    <3>1. SameRun(pg, page) BY <2>4 DEF AppliedAs
    <3> QED BY <3>1, <2>0 DEF VerdictFits, SameRun
  <2> QED BY <2>1, <2>2, <2>3, <2>4
<1>7. TaskAbout(t, pg)
  <2>1. SUFFICES ASSUME NEW d \in t.calls PROVE CallAbout(d, t, pg)
    BY DEF TaskAbout
  <2>2. CASE d \in task[h].calls /\ d # c
    <3>1. CallAbout(d, task[h], page) BY <1>2, <2>2
    <3>2. c.op \in Together /\ d.op \in Together
      BY <1>2, <2>2 DEF CallAbout
    <3>3. SameView(pg, page) /\ d.of = page.project /\ page.user
      BY <3>1, <3>2 DEF AppliedAs, Together, CallAbout, Switching, Global
    <3>4. d.op \in {"logs", "save"} => d.arg = d.of BY <3>1 DEF CallAbout
    <3> QED BY <3>2, <3>3, <3>4 DEF CallAbout, Together, SameView
  <2>3. CASE d \in Follow(pg, c)
    <3>1. /\ CallFits(d) /\ d.op \in Together /\ d.of = pg.project
          /\ d.op = "logs" => c.op = "deployments" /\ d.arg = pg.logOf
      BY <2>3, <1>0, FollowFits
    <3>2. c.op \in {"project", "projects", "deployments", "runs"}
      BY <2>3, <1>0, FollowFits
    <3>3. pg.user
      BY <3>2, <1>3 DEF AppliedAs, SameView
    <3>4. d.op = "logs" => d.arg = d.of
      <4>1. SUFFICES ASSUME d.op = "logs" PROVE d.arg = d.of
        OBVIOUS
      <4>2. c.op = "deployments" BY <4>1, <3>1
      <4>3. d.arg \in Projects /\ d.arg = pg.logOf BY <4>1, <3>1 DEF CallFits
      <4>4. pg.logOf \in {Null, c.of} /\ pg.project = page.project
        BY <4>2 DEF AppliedAs, SameView
      <4>5. c.of = page.project BY <4>2, <1>2 DEF CallAbout, Switching, Global
      <4> QED BY <4>3, <4>4, <4>5, <3>1, RoomAssumption
    <3> QED BY <3>1, <3>3, <3>4 DEF CallAbout, Together
  <2> QED BY <2>2, <2>3, <1>1
<1>8. ASSUME t.calls = {}, t.todo # <<>> PROVE pg.user
  <2>1. c.op # "logout" BY <1>8, <1>1, <1>2 DEF CallAbout
  <2>2. CASE c.op = "auth" BY <2>2 DEF AppliedAs
  <2>3. CASE c.op # "auth" BY <2>1, <2>3, <1>3 DEF AppliedAs, SameView
  <2> QED BY <2>2, <2>3
<1> QED BY <1>4, <1>5, <1>6, <1>7, <1>8 DEF t

\* Calls that read anew are under way until they are answered.
LEMMA AskingOn ==
  ASSUME RoomTyped, TasksSound, NEW h \in Task, NEW c \in task[h].calls, NEW pg \in Page,
         Resumes(h, RestOf(h, c, pg), pg), NEW op, Asking(op, task), h \in Gesture => c.op # op
  PROVE  Asking(op, task')
<1> DEFINE t == RestOf(h, c, pg)
<1>1. /\ t \in TaskRow /\ t.pc = "on" /\ TaskSound(h, t)
      /\ t.calls = (task[h].calls \ {c}) \cup Follow(pg, c)
  BY RestSound
<1>2. /\ \A g \in Task : g # h => task'[g] = task[g]
      /\ t.calls # {} => task'[h] = t
  BY <1>1, SoundAfter
<1> HIDE DEF t
<1>3. PICK g \in Gesture : \E d \in task[g].calls : d.op = op BY DEF Asking
<1>4. PICK d \in task[g].calls : d.op = op BY <1>3
<1>5. CASE g # h
  <2>1. g \in Task BY DEF Task
  <2> QED BY <2>1, <1>2, <1>4, <1>5 DEF Asking
<1>6. CASE g = h
  <2>1. d # c BY <1>4, <1>6
  <2>2. d \in t.calls BY <2>1, <1>1, <1>4, <1>6
  <2>3. d \in task'[g].calls BY <2>2, <1>2, <1>6
  <2> QED BY <2>3, <1>4 DEF Asking
<1> QED BY <1>5, <1>6

\* What the page shows of deployments after a list of the project that is open.
LEMMA ListFitsAfter ==
  ASSUME NEW pg, NEW answer, NEW p \in Projects, pg.project = p,
         pg.shown = [NoneShown EXCEPT ![p] = answer]
  PROVE  ListFits(pg)
BY DEF ListFits, NoneShown

\* What the page shows of them after the logs of the deployment that is shown.
LEMMA LogsFitAfter ==
  ASSUME NEW pg, NEW was \in Page, NEW answer, pg.project = was.project, ListFits(was),
         pg.shown = [was.shown EXCEPT ![pg.project] = answer]
  PROVE  ListFits(pg)
BY DEF ListFits, Page

\* What the page shows, after an answer that was not cut.
LEMMA AnswerFits ==
  ASSUME RoomTyped, TasksSound, Undisturbed, PageFits(page, task), PollFits, ~awry.cut,
         NEW h \in Task, NEW c \in task[h].calls,
         NEW answer, NEW pg, AppliedAs(pg, page, c, answer), ServedAs(c, backend'),
         h = Poll => c.of = page.project, Resumes(h, RestOf(h, c, pg), pg)
  PROVE  PageFits(page, task)'
<1> DEFINE t == RestOf(h, c, pg)
<1>0. pg \in Page /\ page \in Page /\ backend \in Backend BY DEF AppliedAs, RoomTyped
<1>1. /\ t \in TaskRow /\ t.pc = "on" /\ TaskSound(h, t)
      /\ t.calls = (task[h].calls \ {c}) \cup Follow(pg, c)
      /\ c \in Call /\ CallFits(c)
  BY <1>0, RestSound
<1>2. Resumes(h, t, pg) OBVIOUS
<1>3. t.calls # {} => task'[h] = t
  BY <1>0, <1>1, <1>2, SoundAfter
<1> HIDE DEF t
<1>4. ASSUME NEW op, Asking(op, task), h \in Gesture => c.op # op PROVE Asking(op, task')
  BY <1>0, <1>4, AskingOn
<1>5. h \in Gesture \/ (h = Poll /\ c.op \in {"deployments", "logs"})
  BY DEF Task, TasksSound, TaskSound
<1>6. h \in Gesture => CallAbout(c, task[h], page)
  BY DEF Undisturbed, CallsAbout, TaskAbout
<1>7. SUFFICES ASSUME pg.project # Null PROVE PageFits(pg, task')
  <2>1. PageFits(pg, task') BY <1>7 DEF PageFits
  <2> QED BY <2>1, <1>0, <1>1, <1>2, PageFitsAfter
<1>8. CASE c.op = "project"
  <2>1. h \in Gesture BY <1>5, <1>8
  <2>2. \A op \in {"deployments", "runs"} : \E d \in Follow(pg, c) : d.op = op
    BY <1>0, <1>7, <1>8, FollowFits
  <2>3. \A op \in {"deployments", "runs"} : \E d \in t.calls : d.op = op BY <2>2, <1>1
  <2>4. task'[h] = t BY <2>3, <1>3
  <2>5. Asking("deployments", task') /\ Asking("runs", task') BY <2>1, <2>3, <2>4 DEF Asking
  <2>6. OneRunShown(pg) BY <1>8 DEF AppliedAs, OneRunShown
  <2> QED BY <2>5, <2>6 DEF PageFits
<1>9. CASE c.op = "logout"
  <2>1. pg = SignedOut BY <1>9 DEF AppliedAs
  <2> QED BY <2>1, <1>7, SigningOut
<1>10. CASE c.op \notin {"project", "logout"}
  <2>0. /\ pg.project = page.project /\ page.project # Null /\ page.project \in Projects
        /\ c.op = "projects" => SameRun(pg, page) /\ SameLists(pg, page)
    BY <1>0, <1>7, <1>10 DEF AppliedAs, SameView, Page, MaybeProject
  <2>1. /\ OneRunShown(page)
        /\ RunsFit(page) \/ Asking("runs", task)
        /\ ListFits(page) \/ Asking("deployments", task)
    BY <2>0 DEF PageFits
  <2>2. /\ c.op \notin Switching => c.of = page.project
        /\ c.op \in {"validate", "resume"} => c.arg = page.run
        /\ c.op = "logs" => c.arg = c.of
    BY <1>5, <1>6 DEF CallAbout, PollFits, Switching, Global
  <2>3. OneRunShown(pg)
    <3>1. CASE SameRun(pg, page) BY <3>1, <2>1 DEF OneRunShown, SameRun
    <3>2. CASE c.op = "runs" BY <3>2, <2>1 DEF OneRunShown, AppliedAs
    <3>3. CASE c.op = "detail"
      <4>1. /\ pg.run = c.arg /\ pg.detail.of = c.arg
            /\ pg.validation # Null => pg.validation = page.validation /\ page.validation.of = c.arg
        BY <3>3 DEF AppliedAs
      <4>2. page.validation # Null => page.validation.of = page.validation.about
        BY DEF Undisturbed, VerdictFits
      <4> QED BY <4>1, <4>2 DEF OneRunShown
    <3>4. CASE c.op = "validate"
      <4>1. /\ pg.run = page.run /\ pg.detail = page.detail
            /\ pg.validation = [of |-> page.run, about |-> c.arg]
        BY <3>4 DEF AppliedAs
      <4> QED BY <4>1, <3>4, <2>1, <2>2 DEF OneRunShown
    <3>5. CASE c.op = "resume"
      BY <3>5, <2>2 DEF OneRunShown, AppliedAs
    <3> QED BY <3>1, <3>2, <3>3, <3>4, <3>5, <2>0, <1>10 DEF AppliedAs
  <2>4. RunsFit(pg) \/ Asking("runs", task')
    <3>1. CASE c.op = "runs"
      <4>1. c.of = pg.project BY <3>1, <2>0, <2>2 DEF Switching, Global
      <4> QED BY <4>1, <3>1 DEF RunsFit, AppliedAs
    <3>2. CASE c.op # "runs" /\ Asking("runs", task)
      BY <3>2, <1>4
    <3>3. CASE c.op # "runs" /\ RunsFit(page)
      <4>1. CASE c.op = "detail"
        <5>1. /\ pg.runs = page.runs /\ pg.run = c.arg /\ c.arg[1] = c.of
              /\ c.of = page.project /\ c.arg \in ProjectRun
          BY <4>1, <2>2, <1>1 DEF AppliedAs, ServedAs, Switching, Global, CallFits, OfRun
        <5>2. c.arg # Null BY <5>1, RoomAssumption DEF ProjectRun
        <5> QED BY <5>1, <5>2, <3>3, <2>0 DEF RunsFit
      <4>2. CASE c.op # "detail"
        <5>1. pg.runs = page.runs /\ pg.run = page.run
          BY <4>2, <3>3, <2>0, <1>10 DEF AppliedAs, SameRun
        <5> QED BY <5>1, <3>3, <2>0 DEF RunsFit
      <4> QED BY <4>1, <4>2
    <3> QED BY <3>1, <3>2, <3>3, <2>1
  <2>5. ListFits(pg) \/ Asking("deployments", task')
    <3>1. CASE c.op \in {"deployments", "deployments only"}
      <4>1. c.of = pg.project BY <3>1, <2>0, <2>2 DEF Switching, Global
      <4>2. pg.shown = [NoneShown EXCEPT ![c.of] = answer] BY <3>1 DEF AppliedAs
      <4> QED BY <4>1, <4>2, <2>0, ListFitsAfter
    <3>2. CASE c.op \notin {"deployments", "deployments only"} /\ Asking("deployments", task)
      BY <3>2, <1>4
    <3>3. CASE c.op \notin {"deployments", "deployments only"} /\ ListFits(page)
      <4>1. CASE c.op = "logs"
        <5>1. c.arg = pg.project BY <4>1, <2>0, <2>2 DEF Switching, Global
        <5>2. pg.shown = [page.shown EXCEPT ![c.arg] = answer] BY <4>1 DEF AppliedAs
        <5> QED BY <5>1, <5>2, <3>3, <2>0, <1>0, LogsFitAfter
      <4>2. CASE c.op # "logs"
        <5>1. pg.shown = page.shown
          BY <4>2, <3>3, <2>0, <1>10 DEF AppliedAs, SameLists, Lists
        <5> QED BY <5>1, <3>3, <2>0 DEF ListFits
      <4> QED BY <4>1, <4>2
    <3> QED BY <3>1, <3>2, <3>3, <2>1
  <2> QED BY <2>3, <2>4, <2>5 DEF PageFits
<1> QED BY <1>8, <1>9, <1>10

\* An answer keeps the invariant.
LEMMA AnswerKeeps ==
  ASSUME RoomInv, NEW h \in Task, NEW c \in task[h].calls, Answered(h, c)
  PROVE  RoomInv'
<1>0. /\ RoomTyped /\ TasksSound /\ page \in Page /\ backend \in Backend /\ awry \in Awry
      /\ c \in Call /\ CallFits(c) /\ task[h].pc = "on"
  BY DEF RoomInv, RoomTyped, TasksSound, TaskSound, TaskRow
<1>1. ServedAs(c, backend') /\ backend' \in Backend
  BY <1>0, Serving DEF Answered, ServedAs
<1>2. PICK pg \in {Applied(page, c, answer) : answer \in {c.old, Now(c.op, c.of, c.arg)}} :
        /\ Resumes(h, [task[h] EXCEPT !.calls = (@ \ {c}) \cup Follow(pg, c)], pg)
        /\ awry' = [awry EXCEPT
             !.cut = @ \/ (h = Poll /\ c.of # page.project),
             !.promoted = IF c.op = "deploy" THEN @ \cup {<<c.of, c.arg, backend.row[c.arg]>>} ELSE @,
             !.unsettled = @ /\ ~(c.op \in Lists /\ pg = Synced(pg))]
  BY DEF Answered
<1>3. PICK answer \in {c.old, Now(c.op, c.of, c.arg)} : pg = Applied(page, c, answer)
  BY <1>2
<1>4. AppliedAs(pg, page, c, answer) /\ pg \in Page
  <2>1. AppliedAs(Applied(page, c, answer), page, c, answer) BY <1>0, <1>1, Applying
  <2>2. AppliedAs(pg, page, c, answer) BY <2>1, <1>3
  <2>3. pg \in Page BY <2>2 DEF AppliedAs
  <2> QED BY <2>2, <2>3
<1> DEFINE t == RestOf(h, c, pg)
<1>5. Resumes(h, t, pg) BY <1>2 DEF RestOf
<1>6. /\ t \in TaskRow /\ t.pc = "on" /\ TaskSound(h, t) /\ t.todo = task[h].todo
      /\ t.calls = (task[h].calls \ {c}) \cup Follow(pg, c)
  BY <1>0, <1>4, RestSound
<1>7. /\ awry' \in Awry /\ awry'.overlap = awry.overlap
      /\ ~awry'.cut => ~awry.cut /\ (h = Poll => c.of = page.project)
      /\ ~awry'.unsettled => ~awry.unsettled \/ (c.op \in Lists /\ pg = Synced(pg))
      /\ \A d \in awry'.promoted :
           d \in awry.promoted \/ (c.op = "deploy" /\ d = <<c.of, c.arg, backend.row[c.arg]>>)
  <2> DEFINE cut == awry.cut \/ (h = Poll /\ c.of # page.project)
             unsettled == awry.unsettled /\ ~(c.op \in Lists /\ pg = Synced(pg))
             d0 == <<c.of, c.arg, backend.row[c.arg]>>
             promoted == IF c.op = "deploy" THEN awry.promoted \cup {d0} ELSE awry.promoted
  <2>1. awry' = [awry EXCEPT !.cut = cut, !.promoted = promoted, !.unsettled = unsettled]
    BY <1>2
  <2>2. cut \in BOOLEAN /\ unsettled \in BOOLEAN OBVIOUS
  <2>3. promoted \in SUBSET (Projects \X ProjectRun \X RunRow)
    <3>1. awry.promoted \in SUBSET (Projects \X ProjectRun \X RunRow) BY <1>0 DEF Awry
    <3>2. c.op = "deploy" => c.of \in Projects /\ c.arg \in ProjectRun
      BY <1>0 DEF CallFits, Global, OfRun
    <3>3. c.op = "deploy" => backend.row[c.arg] \in RunRow BY <3>2, <1>0 DEF Backend
    <3> QED BY <3>1, <3>2, <3>3
  <2>4. \A d \in promoted : d \in awry.promoted \/ (c.op = "deploy" /\ d = d0) OBVIOUS
  <2>5. /\ ~cut => ~awry.cut /\ (h = Poll => c.of = page.project)
        /\ ~unsettled => ~awry.unsettled \/ (c.op \in Lists /\ pg = Synced(pg))
    OBVIOUS
  <2> HIDE DEF cut, unsettled, promoted
  <2>6. /\ awry' \in Awry /\ awry'.overlap = awry.overlap /\ awry'.cut = cut
        /\ awry'.unsettled = unsettled /\ awry'.promoted = promoted
    BY <2>1, <2>2, <2>3, <1>0 DEF Awry
  <2> QED BY <2>4, <2>5, <2>6
<1> HIDE DEF t
<1>8. /\ page' \in Page /\ task' \in [Task -> TaskRow] /\ TasksSound'
      /\ \A g \in Task : g # h => task'[g] = task[g]
      /\ t.calls # {} => task'[h] = t
      /\ t.calls = {} /\ t.todo = <<>> => task'[h].calls = {}
  BY <1>0, <1>4, <1>5, <1>6, SoundAfter
<1>9. RoomTyped'
  BY <1>1, <1>7, <1>8 DEF RoomTyped, Backend, Task, Gesture, Page, TaskRow, Awry
<1>10. h \in Gesture \/ (h = Poll /\ h \notin Gesture /\ c.op \in {"deployments", "logs"})
  BY <1>0, RoomAssumption DEF Task, Gesture, Poll, TasksSound, TaskSound
<1>11. Settled'
  <2>1. SUFFICES ASSUME ~awry'.unsettled PROVE (page = Synced(page))' \/ ListUnderWay(task')
    BY DEF Settled, ListUnderWay
  <2>2. c.op \in Lists => TimerFits(pg) \/ \E d \in t.calls : d.op \in Lists
    <3>1. SUFFICES ASSUME c.op = "deployments", pg.logOf # Null, pg.project # Null
                   PROVE  \E d \in t.calls : d.op \in Lists
      BY <1>4 DEF AppliedAs, Lists
    <3>2. \E d \in Follow(pg, c) : d.op = "logs" BY <3>1, <1>0, <1>4, FollowFits
    <3> QED BY <3>2, <1>6 DEF Lists
  <2>3. TimerFits(page) => TimerFits(pg) \/ \E d \in t.calls : d.op \in Lists
    <3>1. SUFFICES ASSUME TimerFits(page), c.op \notin Lists
                   PROVE  TimerFits(pg) \/ \E d \in t.calls : d.op \in Lists
      BY <2>2
    <3>2. CASE c.op = "project"
      <4>1. pg.project # Null
        BY <3>2, <1>0, <1>4, RoomAssumption DEF AppliedAs, CallFits, Global
      <4>2. \E d \in Follow(pg, c) : d.op = "deployments" BY <4>1, <3>2, <1>0, <1>4, FollowFits
      <4> QED BY <4>2, <1>6 DEF Lists
    <3>3. CASE c.op = "projects"
      BY <3>3, <3>1, <1>4 DEF AppliedAs, TimerFits, SameLists
    <3>4. CASE c.op = "logout"
      BY <3>4, <1>4, SigningOut DEF AppliedAs
    <3>5. CASE c.op \notin {"project", "projects", "logout"}
      <4>1. SameLists(pg, page) /\ pg.project = page.project
        BY <3>5, <3>1, <1>4 DEF AppliedAs, SameView
      <4> QED BY <4>1, <3>1 DEF TimerFits, SameLists
    <3> QED BY <3>2, <3>3, <3>4, <3>5
  <2>4. \/ TimerFits(pg)
        \/ \E d \in t.calls : d.op \in Lists
        \/ \E g \in Task : g # h /\ \E d \in task[g].calls : d.op \in Lists
    <3>1. CASE c.op \in Lists BY <3>1, <2>2
    <3>2. CASE c.op \notin Lists
      <4>1. page = Synced(page) \/ ListUnderWay(task)
        BY <3>2, <2>1, <1>7 DEF RoomInv, Settled
      <4>2. CASE page = Synced(page) BY <4>2, <2>3, <1>0, Syncing
      <4>3. CASE ListUnderWay(task)
        BY <4>3, <3>2, <1>6 DEF ListUnderWay
      <4> QED BY <4>1, <4>2, <4>3
    <3> QED BY <3>1, <3>2
  <2> QED BY <2>4, <1>0, <1>4, <1>5, <1>6, SettledAfter
<1>12. Promoted'
  <2>1. ASSUME NEW d \in awry'.promoted PROVE d[2][1] = d[1] /\ Eligible(d[3])
    <3>1. CASE d \in awry.promoted BY <3>1 DEF RoomInv, Promoted
    <3>2. CASE c.op = "deploy" /\ d = <<c.of, c.arg, backend.row[c.arg]>>
      <4>1. c.arg[1] = c.of /\ Eligible(backend.row[c.arg]) BY <3>2, <1>1 DEF ServedAs
      <4> QED BY <4>1, <3>2
    <3> QED BY <3>1, <3>2, <2>1, <1>7
  <2> QED BY <2>1 DEF Promoted, Eligible, Row
<1>13. PollFits'
  <2>1. SUFFICES ASSUME ~awry'.cut, NEW d \in task'[Poll].calls, d.op = "logs" PROVE d.arg = d.of
    BY DEF PollFits
  <2>2. PollFits BY DEF RoomInv
  <2>3. CASE h # Poll
    <3>1. task'[Poll] = task[Poll] BY <2>3, <1>8 DEF Task
    <3> QED BY <3>1, <2>1, <2>2, <1>7 DEF PollFits
  <2>4. CASE h = Poll
    <3>1. t.todo = <<>> BY <2>4, <1>6 DEF TaskSound
    <3>2. d \in t.calls BY <3>1, <2>1, <2>4, <1>8
    <3>3. CASE d \in task[h].calls BY <3>3, <2>1, <2>2, <2>4, <1>7 DEF PollFits
    <3>4. CASE d \in Follow(pg, c)
      <4>1. CallFits(d) /\ d.of = pg.project /\ c.op = "deployments" /\ d.arg = pg.logOf
        BY <3>4, <2>1, <1>0, <1>4, FollowFits
      <4>2. d.arg \in Projects BY <4>1, <2>1 DEF CallFits
      <4>3. pg.logOf \in {Null, c.of} /\ pg.project = page.project
        BY <4>1, <1>4 DEF AppliedAs, SameView
      <4>4. c.of = page.project BY <2>1, <2>4, <1>7
      <4> QED BY <4>1, <4>2, <4>3, <4>4, RoomAssumption
    <3> QED BY <3>2, <3>3, <3>4, <1>6
  <2> QED BY <2>3, <2>4
<1>14. ASSUME ~awry'.overlap PROVE Undisturbed'
  <2>1. Undisturbed BY <1>14, <1>7 DEF RoomInv
  <2>2. CASE h \in Gesture
    <3>1. /\ SignedIn(pg, backend') /\ FilesFit(pg, backend') /\ VerdictFits(pg)
          /\ TaskAbout(t, pg) /\ (t.calls = {} /\ t.todo # <<>> => pg.user)
      BY <2>1, <2>2, <1>0, <1>1, <1>4, AnswerUndisturbed DEF t
    <3>2. \A g \in Gesture : g # h => task[g].pc # "on"
      BY <2>1, <2>2, <1>0 DEF Undisturbed, OneByOne
    <3> QED BY <3>1, <3>2, <2>2, <1>0, <1>4, <1>5, <1>6, UndisturbedAfter
  <2>3. CASE h \notin Gesture
    <3>1. c.op \in {"deployments", "logs"} BY <2>3, <1>10
    <3>2. SameBut(pg, page) BY <3>1, <1>4 DEF AppliedAs, SameBut
    <3>3. backend'.content = backend.content /\ backend'.signed = backend.signed
      BY <3>1, <1>1 DEF ServedAs
    <3>4. SignedIn(pg, backend') /\ FilesFit(pg, backend') /\ VerdictFits(pg)
      BY <3>2, <3>3, <2>1
      DEF Undisturbed, SignedIn, FilesFit, VerdictFits, SameBut, SameView, SameRun
    <3>5. \A g \in Gesture : TaskAbout(task[g], pg)
      BY <3>2, <2>1, AboutKept DEF Undisturbed, CallsAbout
    <3>6. OneByOne BY <2>1 DEF Undisturbed
    <3> QED BY <3>4, <3>5, <3>6, <2>3, <1>0, <1>4, <1>5, <1>6, UndisturbedAfter
  <2> QED BY <2>2, <2>3
<1>15. ASSUME ~awry'.overlap, ~awry'.cut PROVE PageFits(page, task)'
  <2>1. Undisturbed /\ PageFits(page, task) /\ PollFits /\ ~awry.cut
        /\ (h = Poll => c.of = page.project)
    BY <1>15, <1>7 DEF RoomInv
  <2>2. Resumes(h, RestOf(h, c, pg), pg) BY <1>5 DEF t
  <2> QED BY <2>1, <2>2, <1>0, <1>1, <1>4, AnswerFits
<1> QED BY <1>8, <1>9, <1>11, <1>12, <1>13, <1>14, <1>15 DEF RoomInv

\* The rest of a handler that ends, or leaves a file that could not be read.
Without(h, c) == [task[h] EXCEPT !.calls = @ \ {c}]

\* Either way it is a sound handler that has one call less.
LEMMA EndedSound ==
  ASSUME RoomTyped, TasksSound, NEW h \in Task, NEW c \in task[h].calls,
         NEW t, t = EndedBy(h, c) \/ t = Without(h, c)
  PROVE  /\ t \in TaskRow /\ t.pc = "on" /\ TaskSound(h, t)
         /\ t.calls = task[h].calls \ {c} /\ t.todo \in {<<>>, task[h].todo}
         /\ t = EndedBy(h, c) => t.todo = <<>>
<1>1. task[h] \in TaskRow /\ TaskSound(h, task[h]) BY DEF RoomTyped, TasksSound
<1>2. task[h].pc = "on" BY <1>1 DEF TaskSound
<1> DEFINE e == <<>>
           calls == task[h].calls \ {c}
<1>3. e \in Seq(Item) /\ Len(e) <= 3 /\ e = <<>> BY EmptySeq
<1>4. /\ calls \in SUBSET Call /\ \A d \in calls : CallFits(d)
      /\ h = Poll => \A d \in calls : d.op \in {"deployments", "logs"}
      /\ calls = task[h].calls \ {c}
  BY <1>1 DEF TaskRow, TaskSound
<1>5. "ended" \in Kind BY DEF Kind
<1> HIDE DEF calls, e
<1>6. CASE t = EndedBy(h, c)
  <2>1. t = [task[h] EXCEPT !.calls = calls, !.todo = e, !.kind = "ended"]
    BY <1>6, <1>3, <1>4 DEF EndedBy
  <2>2. t \in TaskRow /\ t.pc = task[h].pc /\ t.calls = calls /\ t.todo = e
    BY <2>1, <1>1, <1>3, <1>4, <1>5 DEF TaskRow
  <2>3. TaskSound(h, t) BY <2>2, <1>2, <1>3, <1>4 DEF TaskSound
  <2> QED BY <2>2, <2>3, <1>2, <1>3, <1>4
<1>7. CASE t # EndedBy(h, c) /\ t = Without(h, c)
  <2>1. t = [task[h] EXCEPT !.calls = calls]
    BY <1>7, <1>1, <1>4 DEF TaskRow, Without
  <2>2. t \in TaskRow /\ t.pc = task[h].pc /\ t.calls = calls /\ t.todo = task[h].todo
    BY <2>1, <1>1, <1>4 DEF TaskRow
  <2>3. TaskSound(h, t) BY <2>2, <1>1, <1>2, <1>4 DEF TaskSound
  <2> QED BY <2>2, <2>3, <1>2, <1>4, <1>7
<1> QED BY <1>6, <1>7

\* What is left of a gesture after a call of it ended is still about the page.
LEMMA EndedAbout ==
  ASSUME NEW calls, NEW c \in calls, NEW t, NEW t0, NEW pg, t0.calls = calls, TaskAbout(t0, pg),
         t.calls = calls \ {c}
  PROVE  TaskAbout(t, pg)
<1> SUFFICES ASSUME NEW d \in t.calls PROVE CallAbout(d, t, pg)
  BY DEF TaskAbout
<1>1. d \in calls /\ d # c /\ CallAbout(d, t0, pg) BY DEF TaskAbout
<1>2. d.op \in Together BY <1>1 DEF CallAbout
<1> QED BY <1>1, <1>2 DEF CallAbout, Together

\* A call that fails, or is turned down, cuts its handler; the rest is kept if
\* the page it leaves keeps it.
LEMMA CutKeeps ==
  ASSUME RoomInv, NEW h \in Task, NEW c \in task[h].calls,
         NEW t, t = EndedBy(h, c) \/ t = Without(h, c),
         NEW pg \in Page, Resumes(h, t, pg), backend' \in Backend,
         awry' \in Awry, awry'.cut, awry'.overlap = awry.overlap,
         awry'.promoted = awry.promoted,
         ~awry'.unsettled => ~awry.unsettled /\ (c.op \notin Lists \/ TimerFits(pg)),
         TimerFits(page) => TimerFits(pg),
         ~awry.overlap =>
           /\ SignedIn(pg, backend') /\ FilesFit(pg, backend') /\ VerdictFits(pg)
           /\ h \in Gesture => TaskAbout(t, pg) /\ (t.calls = {} /\ t.todo # <<>> => pg.user)
           /\ h \notin Gesture => \A g \in Gesture : TaskAbout(task[g], pg)
  PROVE  RoomInv'
<1>0. RoomTyped /\ TasksSound /\ page \in Page /\ task[h].pc = "on"
  BY DEF RoomInv, RoomTyped, TasksSound, TaskSound, TaskRow
<1>1. /\ t \in TaskRow /\ t.pc = "on" /\ TaskSound(h, t) /\ t.calls = task[h].calls \ {c}
  BY <1>0, EndedSound
<1>2. /\ page' \in Page /\ task' \in [Task -> TaskRow] /\ TasksSound'
  BY <1>0, <1>1, SoundAfter
<1>3. RoomTyped' BY <1>2 DEF RoomTyped, Backend, Task, Gesture, Page, TaskRow, Awry
<1>4. Settled'
  <2>1. SUFFICES ASSUME ~awry'.unsettled PROVE (page = Synced(page))' \/ ListUnderWay(task')
    BY DEF Settled, ListUnderWay
  <2>2. page = Synced(page) \/ ListUnderWay(task) BY <2>1 DEF RoomInv, Settled
  <2>3. \/ TimerFits(pg)
        \/ \E d \in t.calls : d.op \in Lists
        \/ \E g \in Task : g # h /\ \E d \in task[g].calls : d.op \in Lists
    <3>1. CASE page = Synced(page) BY <3>1, <1>0, Syncing
    <3>2. CASE ListUnderWay(task) BY <3>2, <2>1, <1>1 DEF ListUnderWay
    <3> QED BY <3>1, <3>2, <2>2
  <2> QED BY <2>3, <1>0, <1>1, SettledAfter
<1>5. Promoted' BY DEF RoomInv, Promoted, Eligible, Row
<1>6. PollFits' BY DEF PollFits
<1>7. ASSUME ~awry'.overlap PROVE Undisturbed'
  <2>1. OneByOne BY <1>7 DEF RoomInv, Undisturbed
  <2>2. h \in Gesture => \A g \in Gesture : g # h => task[g].pc # "on"
    BY <2>1, <1>0 DEF OneByOne
  <2> QED BY <2>1, <2>2, <1>0, <1>1, <1>7, UndisturbedAfter
<1> QED BY <1>2, <1>3, <1>4, <1>5, <1>6, <1>7 DEF RoomInv

\* A call that fails keeps the invariant.
LEMMA FailKeeps ==
  ASSUME RoomInv, NEW h \in Task, NEW c \in task[h].calls, Failed(h, c)
  PROVE  RoomInv'
<1>0. /\ RoomTyped /\ TasksSound /\ page \in Page /\ backend \in Backend /\ awry \in Awry
      /\ c \in Call /\ CallFits(c) /\ task[h].pc = "on"
  BY DEF RoomInv, RoomTyped, TasksSound, TaskSound, TaskRow
<1>1. backend' \in Served(c) \cup {backend} BY DEF Failed
<1>2. backend' = backend \/ ServedAs(c, backend') BY <1>0, <1>1, Serving
<1>3. backend' \in Backend BY <1>0, <1>2 DEF ServedAs
<1>4. /\ awry' \in Awry /\ awry'.cut /\ awry'.overlap = awry.overlap
      /\ awry'.promoted = awry.promoted
      /\ ~awry'.unsettled => ~awry.unsettled /\ c.op \notin Lists
  <2> DEFINE unsettled == awry.unsettled \/ c.op \in Lists
             yes == TRUE
  <2>1. \/ /\ awry' = [awry EXCEPT !.mishaps = @ + 1, !.cut = yes, !.unsettled = unsettled]
        \/ /\ awry' = [awry EXCEPT !.cut = yes, !.unsettled = unsettled]
    BY DEF Failed
  <2>2. unsettled \in BOOLEAN /\ yes \in BOOLEAN /\ yes OBVIOUS
  <2>3. ~unsettled => ~awry.unsettled /\ c.op \notin Lists OBVIOUS
  <2>4. awry.mishaps + 1 \in Nat BY <1>0 DEF Awry
  <2> DEFINE more == awry.mishaps + 1
  <2>5. \/ awry' = [awry EXCEPT !.mishaps = more, !.cut = yes, !.unsettled = unsettled]
        \/ awry' = [awry EXCEPT !.cut = yes, !.unsettled = unsettled]
    BY <2>1, <1>0 DEF Awry
  <2>6. more \in Nat BY <2>4
  <2> HIDE DEF unsettled, yes, more
  <2>7. /\ awry' \in Awry /\ awry'.overlap = awry.overlap /\ awry'.cut = yes
        /\ awry'.unsettled = unsettled /\ awry'.promoted = awry.promoted
    BY <2>2, <2>5, <2>6, <1>0 DEF Awry
  <2> QED BY <2>2, <2>3, <2>7
<1> DEFINE t == IF c.op = "reopen" THEN [task[h] EXCEPT !.calls = @ \ {c}] ELSE EndedBy(h, c)
           pg == CASE c.op = "logout" -> SignedOut
                   [] c.op = "reopen" -> [page EXCEPT !.file = Null]
                   [] OTHER -> page
<1>5. Resumes(h, t, pg) BY DEF Failed
<1>6. (t = EndedBy(h, c) \/ t = Without(h, c)) /\ (c.op # "reopen" => t = EndedBy(h, c))
  BY DEF Without
<1>7. /\ pg \in Page
      /\ c.op = "logout" => pg = SignedOut
      /\ c.op # "logout" => SameView(pg, page) /\ SameRun(pg, page) /\ SameLists(pg, page)
      /\ c.op # "logout" => pg.file \in {Null, page.file}
  <2>1. CASE c.op = "logout" BY <2>1, SigningOut
  <2>2. CASE c.op = "reopen"
    <3>1. pg = [page EXCEPT !.file = Null] BY <2>2
    <3> HIDE DEF pg
    <3>2. pg \in Page BY <3>1, <1>0 DEF Page, MaybeProject
    <3> QED BY <3>1, <3>2, <2>2, <1>0 DEF Page, SameView, SameRun, SameLists
  <2>3. CASE c.op \notin {"logout", "reopen"}
    <3>1. pg = page BY <2>3
    <3> HIDE DEF pg
    <3> QED BY <3>1, <2>3, <1>0 DEF SameView, SameRun, SameLists
  <2> QED BY <2>1, <2>2, <2>3
<1> HIDE DEF t, pg
<1>8. TimerFits(page) => TimerFits(pg)
  BY <1>7, SigningOut DEF TimerFits, SameView, SameLists
<1>9. /\ t \in TaskRow /\ t.calls = task[h].calls \ {c} /\ t.todo \in {<<>>, task[h].todo}
      /\ t = EndedBy(h, c) => t.todo = <<>>
  BY <1>0, <1>6, EndedSound
<1>10. ASSUME ~awry.overlap
       PROVE  /\ SignedIn(pg, backend') /\ FilesFit(pg, backend') /\ VerdictFits(pg)
              /\ h \in Gesture => TaskAbout(t, pg) /\ (t.calls = {} /\ t.todo # <<>> => pg.user)
              /\ h \notin Gesture => \A g \in Gesture : TaskAbout(task[g], pg)
  <2>0. Undisturbed BY <1>10 DEF RoomInv
  <2>1. h \in Gesture => CallAbout(c, task[h], page) BY <2>0 DEF Undisturbed, CallsAbout, TaskAbout
  <2>2. h \in Gesture \/ c.op \in {"deployments", "logs"}
    BY <1>0 DEF Task, TasksSound, TaskSound
  <2>3. SignedIn(pg, backend')
    <3>1. CASE c.op = "logout" BY <3>1, <1>7, SigningOut DEF SignedIn
    <3>2. CASE c.op # "logout"
      <4>1. backend'.signed \/ backend'.signed = backend.signed BY <3>2, <1>2 DEF ServedAs
      <4> QED BY <4>1, <3>2, <1>7, <2>0 DEF SignedIn, SameView, Undisturbed
    <3> QED BY <3>1, <3>2
  <2>4. FilesFit(pg, backend')
    <3>1. \A p \in Projects : backend'.content[p] = p
      <4>1. CASE backend'.content = backend.content BY <4>1, <2>0 DEF Undisturbed, FilesFit
      <4>2. CASE c.op = "save" /\ backend'.content = [backend.content EXCEPT ![c.of] = c.arg]
        <5>1. c.arg = c.of /\ c.of \in Projects
          BY <4>2, <2>1, <2>2, <1>0 DEF CallAbout, CallFits, Global
        <5>2. backend.content \in [Projects -> Projects] BY <1>0 DEF Backend
        <5> QED BY <4>2, <5>1, <5>2, <2>0 DEF Undisturbed, FilesFit
      <4> QED BY <4>1, <4>2, <1>2 DEF ServedAs
    <3>2. pg.project # Null => pg.file \in {Null, pg.project}
      BY <1>7, <2>0, SigningOut DEF Undisturbed, FilesFit, SameView
    <3> QED BY <3>1, <3>2 DEF FilesFit
  <2>5. VerdictFits(pg)
    BY <1>7, <2>0, SigningOut DEF Undisturbed, VerdictFits, SameRun
  <2>6. ASSUME h \in Gesture PROVE TaskAbout(t, pg) /\ (t.calls = {} /\ t.todo # <<>> => pg.user)
    <3>1. CASE c.op \notin Together
      <4>1. t.calls = {} BY <3>1, <2>1, <2>6, <1>9 DEF CallAbout
      <4>2. t.todo # <<>> => pg.user
        BY <2>1, <2>6, <1>6, <1>7, <1>9 DEF CallAbout, SameView
      <4> QED BY <4>1, <4>2 DEF TaskAbout
    <3>2. CASE c.op \in Together
      <4>1. c.op # "logout" /\ c.op # "reopen" /\ c.op # "auth" BY <3>2 DEF Together
      <4>2. TaskAbout(task[h], page) BY <2>0, <2>6 DEF Undisturbed, CallsAbout
      <4>3. TaskAbout(t, page) BY <4>2, <1>9, EndedAbout
      <4>4. pg = page BY <4>1 DEF pg
      <4>5. t.todo = <<>> BY <4>1, <1>6, <1>9
      <4> QED BY <4>3, <4>4, <4>5
    <3> QED BY <3>1, <3>2
  <2>7. ASSUME h \notin Gesture PROVE \A g \in Gesture : TaskAbout(task[g], pg)
    <3>1. pg = page BY <2>7, <2>2 DEF pg
    <3> QED BY <3>1, <2>0 DEF Undisturbed, CallsAbout
  <2> QED BY <2>3, <2>4, <2>5, <2>6, <2>7
<1> QED BY <1>3, <1>4, <1>5, <1>6, <1>7, <1>8, <1>10, CutKeeps

\* A page that signs out keeps the invariant: as long as no gestures overlap,
\* nobody was signed in.
LEMMA DenyKeeps ==
  ASSUME RoomInv, NEW h \in Task, NEW c \in task[h].calls, Denied(h, c)
  PROVE  RoomInv'
<1>0. RoomTyped /\ TasksSound /\ backend \in Backend /\ awry \in Awry
  BY DEF RoomInv, RoomTyped
<1>1. /\ ~backend.signed /\ c.op \notin {"auth", "logout"}
      /\ Resumes(h, EndedBy(h, c), SignedOut) /\ backend' = backend
  BY DEF Denied
<1>2. /\ awry' \in Awry /\ awry'.cut /\ awry'.overlap = awry.overlap
      /\ awry'.promoted = awry.promoted /\ awry'.unsettled = awry.unsettled
  <2> DEFINE yes == TRUE
  <2>1. awry' = [awry EXCEPT !.cut = yes] BY DEF Denied
  <2>2. yes \in BOOLEAN /\ yes OBVIOUS
  <2> HIDE DEF yes
  <2> QED BY <2>1, <2>2, <1>0 DEF Awry
<1>3. SignedOut \in Page /\ TimerFits(SignedOut) BY SigningOut
<1>4. ASSUME ~awry.overlap
      PROVE  /\ SignedIn(SignedOut, backend') /\ FilesFit(SignedOut, backend') /\ VerdictFits(SignedOut)
             /\ h \notin Gesture /\ \A g \in Gesture : TaskAbout(task[g], SignedOut)
  <2>0. Undisturbed BY <1>4 DEF RoomInv
  <2>1. ~page.user BY <2>0, <1>1 DEF Undisturbed, SignedIn
  <2>2. \A g \in Gesture : \A d \in task[g].calls : d.op = "auth" /\ task[g].calls = {d}
    BY <2>0, <2>1 DEF Undisturbed, CallsAbout, TaskAbout, CallAbout, Together
  <2>3. h \notin Gesture BY <2>2, <1>1
  <2>4. \A g \in Gesture : TaskAbout(task[g], SignedOut)
    BY <2>2 DEF TaskAbout, CallAbout, Together, Switching, Global
  <2> QED BY <2>0, <2>3, <2>4, <1>1, SigningOut DEF Undisturbed, SignedIn, FilesFit, VerdictFits
<1>6. ~awry.overlap =>
        /\ SignedIn(SignedOut, backend') /\ FilesFit(SignedOut, backend') /\ VerdictFits(SignedOut)
        /\ h \in Gesture => /\ TaskAbout(EndedBy(h, c), SignedOut)
                            /\ (EndedBy(h, c).calls = {} /\ EndedBy(h, c).todo # <<>> => SignedOut.user)
        /\ h \notin Gesture => \A g \in Gesture : TaskAbout(task[g], SignedOut)
  BY <1>4
<1> QED BY <1>0, <1>1, <1>2, <1>3, <1>6, CutKeeps

\* A poll that starts asks for the list of the project that is open.
LEMMA PollKeeps ==
  ASSUME RoomInv, PollDeployments
  PROVE  RoomInv'
<1> DEFINE e == <<>>
           calls == ReadsOf(page, {"deployments"})
           t == [Idle EXCEPT !.pc = "on", !.kind = "poll", !.calls = calls]
<1>0. /\ RoomTyped /\ TasksSound /\ page \in Page /\ backend \in Backend /\ awry \in Awry
      /\ task \in [Task -> TaskRow] /\ Poll \in Task /\ Poll \notin Gesture
  BY RoomAssumption DEF RoomInv, RoomTyped, Task, Gesture, Poll
<1>1. /\ task[Poll].pc = "none" /\ task' = [task EXCEPT ![Poll] = t]
      /\ page' = page /\ backend' = backend
  BY DEF PollDeployments
<1>2. awry' \in Awry /\ \E n : awry' = [awry EXCEPT !.mishaps = n]
  <2> DEFINE more == awry.mishaps + 1
  <2>1. awry' = [awry EXCEPT !.mishaps = more] BY <1>0 DEF PollDeployments, Awry
  <2>2. more \in Nat BY <1>0 DEF Awry
  <2> HIDE DEF more
  <2> QED BY <2>1, <2>2, <1>0 DEF Awry
<1>3. /\ awry'.overlap = awry.overlap /\ awry'.cut = awry.cut
      /\ awry'.unsettled = awry.unsettled /\ awry'.promoted = awry.promoted
  BY <1>0, <1>2 DEF Awry
<1>4. ReadsFitPage(calls, {"deployments"}, page) BY <1>0, ReadsFit DEF ReadOp
<1>5. /\ calls \in SUBSET Call /\ \A c \in calls : CallFits(c) /\ c.op = "deployments"
  BY <1>4 DEF ReadsFitPage
<1>6. e \in Seq(Item) /\ Len(e) <= 3 /\ e = <<>> BY EmptySeq
<1> HIDE DEF calls
<1>7. Idle \in TaskRow /\ Idle.todo = e
  <2>1. Idle = [pc |-> "none", kind |-> "none", calls |-> {}, todo |-> e] BY DEF Idle
  <2> HIDE DEF e
  <2> QED BY <2>1, <1>6 DEF TaskRow, Kind
<1>7a. "on" \in {"none", "on", "done"} /\ "poll" \in Kind BY DEF Kind
<1>8. t \in TaskRow /\ t.pc = "on" /\ t.calls = calls /\ t.todo = e
  <2> HIDE DEF e
  <2> QED BY <1>5, <1>7a, <1>7 DEF TaskRow
<1> HIDE DEF e, t
<1>9. TaskSound(Poll, t) BY <1>5, <1>6, <1>8 DEF TaskSound
<1>10. /\ task' \in [Task -> TaskRow] /\ task'[Poll] = t
       /\ \A g \in Task : g # Poll => task'[g] = task[g]
  BY <1>0, <1>1, <1>8
<1>11. TasksSound'
  <2>1. \A g \in Task : TaskSound(g, task'[g]) BY <1>0, <1>9, <1>10 DEF TasksSound
  <2> QED BY <2>1 DEF TasksSound, Task, Gesture, TaskSound, CallFits
<1>12. RoomTyped'
  BY <1>0, <1>1, <1>2, <1>10 DEF RoomTyped, Backend, Task, Gesture, Page, TaskRow, Awry
<1>13. Settled'
  <2>1. SUFFICES ASSUME ~awry'.unsettled PROVE (page = Synced(page))' \/ ListUnderWay(task')
    BY DEF Settled, ListUnderWay
  <2>2. page = Synced(page) \/ ListUnderWay(task) BY <2>1, <1>3 DEF RoomInv, Settled
  <2>3. CASE page = Synced(page) BY <2>3, <1>1 DEF Synced
  <2>4. CASE ListUnderWay(task)
    <3>1. task[Poll].calls = {} BY <1>0, <1>1 DEF TasksSound, TaskSound
    <3> QED BY <3>1, <2>4, <1>10 DEF ListUnderWay
  <2> QED BY <2>2, <2>3, <2>4
<1>14. Promoted' BY <1>3 DEF RoomInv, Promoted, Eligible, Row
<1>15. PollFits' BY <1>5, <1>8, <1>10 DEF PollFits
<1>16. \A g \in Gesture : task'[g] = task[g] BY <1>0, <1>10 DEF Task
<1>17. ASSUME ~awry'.overlap PROVE Undisturbed'
  <2>1. Undisturbed BY <1>17, <1>3 DEF RoomInv
  <2>2. OneByOne' BY <2>1, <1>16 DEF Undisturbed, OneByOne, Gesture
  <2>3. \A g \in Gesture : TaskAbout(task'[g], page')
    BY <2>1, <1>1, <1>16 DEF Undisturbed, CallsAbout
  <2>4. CallsAbout' BY <2>3 DEF CallsAbout, Gesture, TaskAbout, CallAbout
  <2> QED BY <2>1, <2>2, <2>4, <1>1 DEF Undisturbed, SignedIn, FilesFit, VerdictFits
<1>18. ASSUME ~awry'.overlap, ~awry'.cut PROVE PageFits(page, task)'
  <2>1. PageFits(page, task) BY <1>18, <1>3 DEF RoomInv
  <2>2. \A op : Asking(op, task) => Asking(op, task') BY <1>16 DEF Asking
  <2>3. PageFits(page', task') BY <2>1, <2>2, <1>1 DEF PageFits
  <2> QED BY <2>3 DEF PageFits, OneRunShown, RunsFit, ListFits, Asking
<1> QED BY <1>11, <1>12, <1>13, <1>14, <1>15, <1>17, <1>18 DEF RoomInv

\* The end of a deployment is not seen by the page.
LEMMA DeploymentKeeps ==
  ASSUME RoomInv, NEW p \in Projects, DeploymentEnds(p)
  PROVE  RoomInv'
<1>0. backend \in Backend BY DEF RoomInv, RoomTyped
<1> DEFINE deploy == [backend.deploy EXCEPT ![p] = "over"]
<1>1. backend' = [backend EXCEPT !.deploy = deploy]
      /\ page' = page /\ task' = task /\ awry' = awry
  BY <1>0 DEF DeploymentEnds, Backend
<1>2. deploy \in [Projects -> Status] BY <1>0 DEF Backend, Status
<1> HIDE DEF deploy
<1>3. backend' \in Backend /\ backend'.content = backend.content /\ backend'.signed = backend.signed
  BY <1>0, <1>1, <1>2 DEF Backend
<1>4. RoomTyped' BY <1>1, <1>3 DEF RoomInv, RoomTyped, Backend, Task, Gesture, Page, TaskRow, Awry
<1>5. TasksSound' BY <1>1 DEF RoomInv, TasksSound, TaskSound, Task, Gesture, CallFits
<1>6. Settled' /\ Promoted' /\ PollFits'
  BY <1>1 DEF RoomInv, Settled, Synced, ListUnderWay, Promoted, Eligible, Row, PollFits
<1>7. ASSUME ~awry'.overlap PROVE Undisturbed'
  <2>1. Undisturbed BY <1>1, <1>7 DEF RoomInv
  <2>2. OneByOne' /\ CallsAbout'
    BY <2>1, <1>1 DEF Undisturbed, OneByOne, Gesture, CallsAbout, TaskAbout, CallAbout
  <2> QED BY <2>1, <2>2, <1>1, <1>3 DEF Undisturbed, SignedIn, FilesFit, VerdictFits
<1>8. ASSUME ~awry'.overlap, ~awry'.cut PROVE PageFits(page, task)'
  BY <1>1, <1>8 DEF RoomInv, PageFits, OneRunShown, RunsFit, ListFits, Asking
<1> QED BY <1>4, <1>5, <1>6, <1>7, <1>8 DEF RoomInv

\* The page of a user who opens the project's file.
LEMMA RoomBegins == RoomInit => RoomInv
<1> SUFFICES ASSUME RoomInit PROVE RoomInv
  OBVIOUS
<1> DEFINE p == CHOOSE q \in Projects : TRUE
           r == <<p, 1>>
           c == Make("file", page.project, Null)
           e == <<>>
<1>0. p \in Projects /\ r \in ProjectRun /\ r # Null /\ r[1] = p
  <2>1. p \in Projects BY RoomAssumption
  <2> HIDE DEF p
  <2> QED BY <2>1, RoomAssumption DEF ProjectRun
<1>1. /\ backend.row = [x \in ProjectRun |-> IF x[2] = 1 THEN Row("complete", "passed")
                                             ELSE Row("failed", "none")]
      /\ backend.content = [q \in Projects |-> q] /\ backend.deploy = NoneShown
      /\ backend.signed = TRUE
      /\ page = Loaded(p, backend)
  BY DEF RoomInit
<1>2. backend \in Backend
  <2>1. Row("complete", "passed") \in RunRow /\ Row("failed", "none") \in RunRow
    BY DEF Row, RunRow
  <2>2. backend.row \in [ProjectRun -> RunRow] BY <1>1, <2>1
  <2>3. backend.content \in [Projects -> Projects] BY <1>1
  <2>4. backend.deploy \in [Projects -> Status] BY <1>1 DEF NoneShown, Status
  <2>5. backend = [row |-> backend.row, content |-> backend.content, deploy |-> backend.deploy,
                   signed |-> backend.signed]
    BY DEF RoomInit
  <2> QED BY <2>2, <2>3, <2>4, <2>5, <1>1 DEF Backend
<1>3. /\ page \in Page /\ page.user = TRUE /\ page.project = p /\ page.file = Null /\ page.runs = p
      /\ page.run = r /\ page.detail.of = r /\ page.validation = Null /\ page.shown = NoneShown
      /\ page.timer = FALSE
  <2> DEFINE row == backend.row[r]
             detail == [of |-> r, row |-> row]
  <2>1. row \in RunRow BY <1>0, <1>2 DEF Backend
  <2>2. page = [user |-> TRUE, workspace |-> 1, listed |-> Projects, project |-> p, file |-> Null,
                runs |-> p, run |-> r, detail |-> detail, validation |-> Null,
                shown |-> NoneShown, logOf |-> Null, timer |-> FALSE]
    BY <1>1 DEF Loaded
  <2>3. NoneShown \in [Projects -> Status] BY DEF NoneShown, Status
  <2>4. detail.of = r OBVIOUS
  <2> HIDE DEF p, r, row
  <2>5. detail \in [of : ProjectRun, row : RunRow] BY <1>0, <2>1
  <2> HIDE DEF detail
  <2> QED BY <1>0, <2>2, <2>3, <2>4, <2>5 DEF Page, MaybeProject
<1>4. c \in Call /\ CallFits(c) /\ c.op = "file" /\ c.of = page.project
  <2>1. "file" \in PlainOp BY DEF PlainOp
  <2> QED BY <2>1, <1>0, <1>2, <1>3, PlainCalls
<1>5. task = [h \in Task |-> IF h = 1 THEN [pc |-> "on", kind |-> "read", todo |-> e, calls |-> {c}]
                             ELSE Idle]
  BY DEF RoomInit
<1>6. awry = [mishaps |-> 0, overlap |-> FALSE, cut |-> FALSE, unsettled |-> FALSE, promoted |-> {}]
  BY DEF RoomInit
<1>7. e \in Seq(Item) /\ Len(e) <= 3 /\ e = <<>> BY EmptySeq
<1>8. Idle = [pc |-> "none", kind |-> "none", calls |-> {}, todo |-> e] BY DEF Idle
<1> HIDE DEF p, r, c, e
<1>9. \A h \in Task :
        /\ task[h] \in TaskRow /\ task[h].todo = e
        /\ h = 1 => task[h].calls = {c} /\ task[h].pc = "on"
        /\ h # 1 => task[h].calls = {} /\ task[h].pc # "on"
  BY <1>4, <1>5, <1>7, <1>8 DEF TaskRow, Kind
<1>10. RoomTyped
  <2>1. awry \in Awry BY <1>6 DEF Awry
  <2>2. task \in [Task -> TaskRow] BY <1>5, <1>9
  <2> QED BY <2>1, <2>2, <1>2, <1>3 DEF RoomTyped
<1>11. TasksSound
  BY <1>4, <1>7, <1>9, RoomAssumption DEF TasksSound, TaskSound, Poll
<1>12. Settled
  <2>1. TimerFits(page) BY <1>3 DEF TimerFits, NoneShown
  <2>2. page = Synced(page) BY <2>1, <1>3, Syncing
  <2> QED BY <2>2 DEF Settled
<1>13. Promoted BY <1>6 DEF Promoted
<1>14. PollFits
  <2>1. Poll \in Task /\ Poll # 1 BY DEF Task, Poll
  <2> QED BY <2>1, <1>9 DEF PollFits
<1>15. Undisturbed
  <2>1. Gesture \subseteq Task BY DEF Task
  <2>2. OneByOne BY <2>1, <1>9 DEF OneByOne
  <2>3. CallsAbout
    BY <2>1, <1>3, <1>4, <1>9 DEF CallsAbout, TaskAbout, CallAbout, Switching, Global
  <2>4. SignedIn(page, backend) /\ FilesFit(page, backend) /\ VerdictFits(page)
    BY <1>1, <1>3 DEF SignedIn, FilesFit, VerdictFits
  <2> QED BY <2>2, <2>3, <2>4 DEF Undisturbed
<1>16. PageFits(page, task)
  BY <1>0, <1>3 DEF PageFits, OneRunShown, RunsFit, ListFits, NoneShown
<1> QED BY <1>10, <1>11, <1>12, <1>13, <1>14, <1>15, <1>16 DEF RoomInv

\* Every step of the page keeps the invariant.
LEMMA RoomKeeps == RoomInv /\ [RoomNext]_roomVars => RoomInv'
<1>1. ASSUME RoomInv, UNCHANGED roomVars PROVE RoomInv'
  <2>1. page' = page /\ task' = task /\ backend' = backend /\ awry' = awry BY <1>1 DEF roomVars
  <2>2. RoomTyped' BY <1>1, <2>1 DEF RoomInv, RoomTyped, Backend, Task, Gesture, Page, TaskRow, Awry
  <2>3. TasksSound' BY <1>1, <2>1 DEF RoomInv, TasksSound, TaskSound, Task, Gesture, CallFits
  <2>4. Settled' /\ Promoted' /\ PollFits'
    BY <1>1, <2>1 DEF RoomInv, Settled, Synced, ListUnderWay, Promoted, Eligible, Row, PollFits
  <2>5. ASSUME ~awry'.overlap PROVE Undisturbed'
    <3>1. Undisturbed BY <1>1, <2>1, <2>5 DEF RoomInv
    <3>2. OneByOne' /\ CallsAbout'
      BY <3>1, <2>1 DEF Undisturbed, OneByOne, Gesture, CallsAbout, TaskAbout, CallAbout
    <3> QED BY <3>1, <3>2, <2>1 DEF Undisturbed, SignedIn, FilesFit, VerdictFits
  <2>6. ASSUME ~awry'.overlap, ~awry'.cut PROVE PageFits(page, task)'
    BY <1>1, <2>1, <2>6 DEF RoomInv, PageFits, OneRunShown, RunsFit, ListFits, Asking
  <2> QED BY <2>2, <2>3, <2>4, <2>5, <2>6 DEF RoomInv
<1>2. ASSUME RoomInv, RoomNext PROVE RoomInv'
  <2>1. CASE Gestures
    <3>1. RoomTyped BY <1>2 DEF RoomInv
    <3>2. PICK h, t, pg : BegunBy(h, t, pg) BY <3>1, <2>1, GestureBegins
    <3> QED BY <3>2, <1>2, BeginKeeps
  <2>2. ASSUME NEW h \in Task, NEW c \in task[h].calls, Answered(h, c) PROVE RoomInv'
    BY <1>2, <2>2, AnswerKeeps
  <2>3. ASSUME NEW h \in Task, NEW c \in task[h].calls, Failed(h, c) PROVE RoomInv'
    BY <1>2, <2>3, FailKeeps
  <2>4. ASSUME NEW h \in Task, NEW c \in task[h].calls, Denied(h, c) PROVE RoomInv'
    BY <1>2, <2>4, DenyKeeps
  <2>5. CASE PollDeployments BY <2>5, <1>2, PollKeeps
  <2>6. ASSUME NEW p \in Projects, DeploymentEnds(p) PROVE RoomInv'
    BY <2>6, <1>2, DeploymentKeeps
  <2> QED BY <1>2, <2>1, <2>2, <2>3, <2>4, <2>5, <2>6 DEF RoomNext, Gestures
<1> QED BY <1>1, <1>2

\* What is checked of the page follows from the invariant.
LEMMA RoomPromises == RoomInv => PageKept /\ RoomTypeOK
<1> SUFFICES ASSUME RoomInv PROVE PageKept /\ RoomTypeOK
  OBVIOUS
<1>0. /\ RoomTyped /\ TasksSound /\ page \in Page /\ backend \in Backend
      /\ task \in [Task -> TaskRow]
  BY DEF RoomInv, RoomTyped
<1>1. ASSUME AtRest PROVE \A h \in Task : task[h].calls = {}
  BY <1>0, <1>1 DEF AtRest, TasksSound, TaskSound
<1>2. ASSUME AtRest, ~awry.overlap, ~awry.cut PROVE ShowsOneProject
  <2>1. SUFFICES ASSUME page.project # Null
        PROVE  /\ page.file \in {Null, page.project}
               /\ OneRunShown(page) /\ RunsFit(page) /\ ListFits(page)
    BY DEF ShowsOneProject, OneRunShown, RunsFit, ListFits
  <2>2. \A op : ~Asking(op, task) BY <1>1, <1>2 DEF Asking, Task
  <2>3. OneRunShown(page) /\ RunsFit(page) /\ ListFits(page)
    BY <2>1, <2>2, <1>2 DEF RoomInv, PageFits
  <2>4. page.file \in {Null, page.project}
    BY <2>1, <1>2 DEF RoomInv, Undisturbed, FilesFit
  <2> QED BY <2>3, <2>4
<1>3. ASSUME ~awry.overlap
      PROVE  /\ \A p \in Projects : backend.content[p] = p
             /\ page.validation # Null => page.validation.of = page.validation.about
  BY <1>3 DEF RoomInv, Undisturbed, FilesFit, VerdictFits
<1>4. \A d \in awry.promoted : d[2][1] = d[1] /\ Eligible(d[3]) BY DEF RoomInv, Promoted
<1>5. ASSUME AtRest, ~awry.unsettled PROVE page = Synced(page)
  <2>1. ~ListUnderWay(task) BY <1>1, <1>5 DEF ListUnderWay
  <2> QED BY <2>1, <1>5 DEF RoomInv, Settled
<1>6. PageKept BY <1>2, <1>3, <1>4, <1>5 DEF PageKept
<1>7. \A h \in Task : Len(task[h].todo) \in 0..4
  <2> SUFFICES ASSUME NEW h \in Task PROVE Len(task[h].todo) \in 0..4
    OBVIOUS
  <2>1. task[h].todo \in Seq(Item) /\ Len(task[h].todo) <= 3
    BY <1>0 DEF TasksSound, TaskSound, TaskRow
  <2>2. Len(task[h].todo) \in Nat BY <2>1
  <2>3. \A n \in Nat : n <= 3 => n \in 0..4 OBVIOUS
  <2> QED BY <2>1, <2>2, <2>3
<1>8. RoomTypeOK
  BY <1>0, <1>7 DEF RoomTypeOK, Page, Backend, MaybeProject, Status
<1> QED BY <1>6, <1>8

-----------------------------------------------------------------------------
(* The parts together: a behaviour about one of them is one of each, for   *)
(* the others stand still.                                                 *)

\* The requests and restarts of the contracts' part stay within their bounds,
\* and only handlers are out of date.
ContractCounts ==
  /\ outdated \subseteq Handler
  /\ handled \in 0..MaxHandled
  /\ restarts \in 0..MaxRestarts

\* What is checked of the tables' types follows from the invariant.
LEMMA ContractsTyped == ContractInv /\ JobsHaveRuns /\ ContractCounts => ContractTypeOK
  BY DEF ContractInv, JobsHaveRuns, ContractCounts, ContractTypeOK, ContractRow, HandlersSound,
         HandlerSound

\* What a step may do to them.
CountsMove ==
  /\ outdated' \subseteq Handler
  /\ handled' = handled \/ (handled < MaxHandled /\ handled' = handled + 1)
  /\ restarts' = restarts \/ (restarts < MaxRestarts /\ restarts' = restarts + 1)

\* Only what is asked is counted as asked, and only a redeployment as a restart.
LEMMA EveryCountMoves ==
  ASSUME ContractCounts, ContractNext
  PROVE  CountsMove
<1> USE DEF ContractCounts, CountsMove
<1>1. ASSUME NEW h \in Handler, NEW r \in ContractRun, NEW kind, NEW request, NEW override,
             AskResume(h, r, kind, request, override)
      PROVE  CountsMove
  BY <1>1 DEF AskResume, AskedNow
<1>2. ASSUME NEW h \in Handler, NEW r \in ContractRun, NEW kind, NEW request,
             CreateWithContract(h, r, kind, request)
      PROVE  CountsMove
  BY <1>2 DEF CreateWithContract, AskedNow
<1>3. ASSUME NEW h \in Handler, NEW r \in ContractRun, NEW source, ForkAtStep(h, source, r)
      PROVE  CountsMove
  BY <1>3 DEF ForkAtStep, AskedNow
<1>4. ASSUME NEW h \in Handler, NEW r \in ContractRun, ClaimContractJob(h, r)
      PROVE  CountsMove
  BY <1>4 DEF ClaimContractJob
<1>5. ASSUME NEW h \in Handler, NEW r \in ContractRun, ForkForResume(h, r)
      PROVE  CountsMove
  BY <1>5 DEF ForkForResume
<1>6. ASSUME NEW h \in Handler, Normalize(h) \/ Override(h)
      PROVE  CountsMove
  BY <1>6 DEF Normalize, Override, WriteContract
<1>7. ASSUME NEW h \in Handler, \/ Requeue(h) \/ Enqueue(h) \/ BeginExecuting(h)
                                \/ EndExecuting(h) \/ EndContractJob(h)
      PROVE  CountsMove
  BY <1>7 DEF Requeue, Enqueue, BeginExecuting, EndExecuting, EndContractJob
<1>8. ASSUME NEW h \in Handler, NEW env, NEW release, Redeploy(h, env, release)
      PROVE  CountsMove
  BY <1>8 DEF Redeploy
<1> HIDE DEF ContractCounts, CountsMove
<1> QED BY <1>1, <1>2, <1>3, <1>4, <1>5, <1>6, <1>7, <1>8 DEF ContractNext

\* So they stay within their bounds.
LEMMA CountsKept ==
  ASSUME ContractCounts, [ContractNext]_contractVars
  PROVE  ContractCounts'
<1>1. CASE UNCHANGED contractVars
  BY <1>1 DEF contractVars, ContractCounts
<1>2. CASE ContractNext
  <2>1. CountsMove
    BY <1>2, EveryCountMoves
  <2>2. \A n, m \in Nat : n \in 0..m /\ n < m => n + 1 \in 0..m
    OBVIOUS
  <2>3. MaxHandled \in Nat /\ MaxRestarts \in Nat /\ 0..MaxHandled \subseteq Nat
        /\ 0..MaxRestarts \subseteq Nat
    BY ExecutionContractsAssumption
  <2> QED BY <2>1, <2>2, <2>3 DEF CountsMove, ContractCounts
<1> QED BY <1>1, <1>2

\* Contracts with no run and nobody at work satisfy the invariant.
LEMMA NoContractsSound == NoContracts => ContractInv /\ JobsHaveRuns /\ ContractCounts
<1> SUFFICES ASSUME NoContracts PROVE ContractInv /\ JobsHaveRuns /\ ContractCounts
  OBVIOUS
<1>1. NoRow \in ContractRow /\ NoRow.contract = NoContract
  BY PartsTyped DEF NoRow, ContractRow
<1>2. contractRows \in [ContractRun -> ContractRow] /\ StoredIsContracts(contractRows)
  BY <1>1 DEF NoContracts, StoredIsContracts
<1>3. /\ handlers \in [Handler -> HandlerRow]
      /\ \A h \in Handler : handlers[h].pc = "idle"
  BY IdleTyped DEF NoContracts
<1>4. process \in [Handler -> [env : Setting, release : Release]]
  BY ExecutionContractsAssumption DEF NoContracts, Release
<1>5. JobsHaveRuns /\ ContractCounts
  BY ExecutionContractsAssumption DEF NoContracts, JobsHaveRuns, ContractCounts
<1> QED BY <1>2, <1>3, <1>4, <1>5 DEF ContractInv, HandlersSound, CopiesFit

\* What holds of the contracts in every scene.
LEMMA ContractsThroughout == MCSpec => [](ContractInv /\ JobsHaveRuns /\ ContractCounts)
<1>1. MCInit => ContractInv /\ JobsHaveRuns /\ ContractCounts
  <2>1. ContractInit => ContractCounts
    BY ExecutionContractsAssumption DEF ContractInit, ContractCounts
  <2> QED BY <2>1, ContractInitSound, NoContractsSound DEF MCInit
<1>2. [MCNext]_vars => [ContractNext]_contractVars
  BY DEF MCNext, vars
<1>3. ContractInv /\ JobsHaveRuns /\ ContractCounts /\ [ContractNext]_contractVars =>
        (ContractInv /\ JobsHaveRuns /\ ContractCounts)'
  BY ContractInductive, CountsKept
<1> QED BY <1>1, <1>2, <1>3, PTL DEF MCSpec

\* A user who waits for each gesture to end sees one project and one of its
\* runs, unless a call failed or a poll was answered for the project before; no
\* file is saved into another project, and no verdict shown of another run, but
\* by gestures that overlap; what is deployed is a run of the project that is
\* complete and passed; and deployments in progress are polled: for any number
\* of projects, gestures, polls and failing calls (app.js selectProject,
\* handleValidateRunOutput, handleDeploy, syncDeploymentPolling).
THEOREM PageIsKept == RoomSpec => []PageKept
<1>1. RoomInv => PageKept
  BY RoomPromises
<1> QED BY <1>1, RoomBegins, RoomKeeps, PTL DEF RoomSpec

\* The rows of the queue and of the nodes, of the runs' contracts and of their
\* handlers, and the page hold values of their columns and locals, whichever of
\* them a behaviour is about.
THEOREM QueueIsTyped == MCSpec => []QueueTypeOK
<1>1. MCSpec => Spec
  <2>1. MCInit => Init
    BY DEF MCInit
  <2>2. [MCNext]_vars => [Next]_queueVars
    BY DEF MCNext, vars
  <2> QED BY <2>1, <2>2, PTL DEF MCSpec, Spec
<1>2. MCSpec => RoomSpec
  <2>1. MCInit => RoomInit
    BY DEF MCInit
  <2>2. [MCNext]_vars => [RoomNext]_roomVars
    BY DEF MCNext, vars
  <2> QED BY <2>1, <2>2, PTL DEF MCSpec, RoomSpec
<1>3. RoomSpec => []RoomTypeOK
  <2>1. RoomInv => RoomTypeOK
    BY RoomPromises
  <2> QED BY <2>1, RoomBegins, RoomKeeps, PTL DEF RoomSpec
<1> QED BY <1>1, <1>2, <1>3, TypeCorrect, ContractsThroughout, ContractsTyped, PTL DEF QueueTypeOK
=============================================================================
