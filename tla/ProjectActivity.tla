--------------------------- MODULE ProjectActivity ---------------------------
(***************************************************************************)
(* The requests of the API that work on a project itself and not on a      *)
(* run's worktree (server.ts): creation from a template, with or without a *)
(* first run, builder prompts, manual file edits, a commit by hand, and    *)
(* reports on runs that were validated.  They meet in the project's one    *)
(* working tree, in the rows of their runs, by which a request finds out   *)
(* that another is under way, and in the history that each rewrites whole. *)
(*                                                                         *)
(* A step of a run proposes one change here (StepTransaction has its       *)
(* details), and what an execution goes through is KernelLoop's and        *)
(* AutoCorrection's: here it commits, fails, or is corrected.              *)
(***************************************************************************)
EXTENDS Naturals, Sequences, FiniteSets, SequencesExt

CONSTANTS
  Request, File,
  Creator,        \* the request that creates the project
  None,           \* no request, no file
  MaxHistory,     \* entries a project keeps
  GenerationMax,  \* prompts within one window of the rate limit
  MaxAtOnce,      \* bound: requests under way at a time
  MaxCorrections, \* bound: corrections of a builder's run
  MaxServerCrashes

ASSUME ProjectActivityAssumption ==
  /\ Creator \in Request /\ None \notin Request \cup File
  /\ MaxHistory \in Nat \ {0}
  /\ GenerationMax \in Nat /\ MaxAtOnce \in Nat /\ MaxCorrections \in Nat /\ MaxServerCrashes \in Nat

VARIABLES
  history,   \* of the project's row: the requests it tells of, newest first
  objects,   \* commits of the project's repository, oldest first
  live,      \* its working tree: the files and the commit HEAD names
  rowStatus, \* request -> the status of its run's row
  handler,   \* request -> the locals of its handler
  prompts,   \* the count of the rate limit's window
  met,       \* ghost: what a request met when it was admitted: requests under
             \*   way that its check did not see, those that had been answered,
             \*   and the files that differed from HEAD
  crashed    \* requests that a crash of the server ended

activityVars == <<history, objects, live, rowStatus, handler, prompts, met, crashed>>

Kind == {"create", "bootstrap", "builder", "file", "commit", "validate"}

NoCommit == 0

\* A file holds what a request wrote, or what it held before all of them.
Files == [File -> Request \cup {None}]

\* The statuses by which hasActiveAgentRun finds a run under way.
Active == {"queued", "running", "correcting", "optimizing", "validating"}

\* Faulty variant: a run that waits for its correction is not under way.
ActiveButCorrecting(status) == status \in Active \ {"correcting"}

CountsAsActive(status) == status \in Active

HasActiveAgentRun == \E r \in Request : CountsAsActive(rowStatus[r])

\* Handlers that have not answered.
UnderWay == {r \in Request : handler[r].pc \notin {"none", "done", "refused"}}

\* r has not come yet; the project exists, and there is room for one more.
MayArrive(r) ==
  /\ r # Creator /\ handler[r].pc = "none" /\ handler[Creator].pc # "none"
  /\ Cardinality(UnderWay) < MaxAtOnce

\* What a request that is admitted now does not know of.
Unseen(r) == {s \in UnderWay \ {r} : rowStatus[s] \notin Active}

\* The locals of a handler that has yet to come, or has ended.
NoLocals == [pc |-> "none", kind |-> "none", file |-> None,
             before |-> None, commit |-> NoCommit, copy |-> <<>>, corrections |-> 0,
             refused |-> FALSE, fix |-> FALSE]

ActivityGoto(r, pc) == handler' = [handler EXCEPT ![r].pc = pc]
Refuse(r) == handler' = [handler EXCEPT ![r] = [NoLocals EXCEPT !.pc = "refused"]]
Answer(r) ==
  handler' = [handler EXCEPT ![r] =
    [NoLocals EXCEPT !.pc = "done", !.kind = handler[r].kind, !.commit = handler[r].commit]]
Status(r, status) == rowStatus' = [rowStatus EXCEPT ![r] = status]
At(r, pc) == handler[r].pc = pc
HeadFiles == objects[live.head].files
tree == <<objects, live>>
Dirty == {f \in File : live.files[f] # HeadFiles[f]}
Admit(r, unseen) ==
  met' = [met EXCEPT ![r] = [unseen |-> unseen, dirty |-> Dirty,
            answered |-> {s \in Request : handler[s].pc = "done"}]]
ghosts == <<met, crashed>>
-----------------------------------------------------------------------------
ActivityInit ==
  /\ history = <<>>
  /\ objects = <<[files |-> [f \in File |-> None], parent |-> NoCommit]>>
  /\ live = [files |-> [f \in File |-> None], head |-> 1]
  /\ rowStatus = [r \in Request |-> "none"]
  /\ handler = [r \in Request |-> NoLocals]
  /\ prompts = 0
  /\ met = [r \in Request |-> [unseen |-> {}, answered |-> {}, dirty |-> {}]]
  /\ crashed = {}

\* createProject inserts the row, by which others can find the project; the
\* handler keeps the row it got, with an empty history, and scaffolds.
CreateProject ==
  /\ At(Creator, "none")
  /\ \E kind \in {"create", "bootstrap"} :
       handler' = [handler EXCEPT ![Creator].pc = "stage", ![Creator].kind = kind]
  /\ UNCHANGED <<history, tree, rowStatus, prompts, ghosts>>

\* assertNoActiveAgentRunMutation, the gate of prompts, edits and commits.
CheckNoActiveRun(r) ==
  /\ MayArrive(r)
  /\ IF HasActiveAgentRun
     THEN Refuse(r) /\ UNCHANGED met
     ELSE /\ \E gate \in {<<"builder", "limit">>, <<"file", "insert">>, <<"commit", "sweep">>} :
               handler' = [handler EXCEPT ![r].kind = gate[1], ![r].pc = gate[2]]
          /\ Admit(r, Unseen(r))
  /\ UNCHANGED <<history, tree, rowStatus, prompts, crashed>>

\* consumeRateLimit counts a prompt even when it turns it down.
ConsumeRateLimit(r) ==
  /\ At(r, "limit")
  /\ prompts' = prompts + 1
  /\ IF prompts' <= GenerationMax THEN ActivityGoto(r, "insert") ELSE Refuse(r)
  /\ UNCHANGED <<history, tree, rowStatus, ghosts>>

\* createAndExecuteRun: the row is inserted, then executeLoop locks it and
\* reads the commit to start from; nothing recovers a tree that is not clean.
InsertRun(r) ==
  /\ At(r, "insert")
  /\ Status(r, "queued")
  /\ ActivityGoto(r, "execute")
  /\ UNCHANGED <<history, tree, prompts, ghosts>>

EnterProjectRun(r) ==
  /\ At(r, "execute")
  /\ Status(r, "running")
  /\ handler' = [handler EXCEPT ![r].pc = "stage", ![r].refused = FALSE,
                   ![r].commit = IF rowStatus[r] = "queued" THEN live.head ELSE @]
  /\ UNCHANGED <<history, tree, prompts, ghosts>>

\* The tool proposes a change of a file; its content is remembered.
StageFile(r) ==
  /\ At(r, "stage")
  /\ \E f \in File :
       handler' = [handler EXCEPT ![r].pc = "apply", ![r].file = f,
                                  ![r].before = live.files[f]]
  /\ UNCHANGED <<history, tree, rowStatus, prompts, ghosts>>

\* The step's transaction is over: its locals are gone but for the commit.
StepOver(r, pc, commit) ==
  handler' = [handler EXCEPT ![r].pc = pc, ![r].commit = commit,
                ![r].file = None, ![r].before = None]

\* The tool or a validation fails before anything is applied.
ToolFails(r) ==
  /\ At(r, "stage")
  /\ ActivityGoto(r, "failing")
  /\ UNCHANGED <<history, tree, rowStatus, prompts, ghosts>>

\* applyStepChanges looks whether the file is still what was staged over.
ApplyFile(r) ==
  LET f == handler[r].file
  IN
  /\ At(r, "apply")
  /\ IF live.files[f] = handler[r].before
     THEN live' = [live EXCEPT !.files[f] = r] /\ ActivityGoto(r, "commit")
     ELSE UNCHANGED live /\ StepOver(r, "failing", handler[r].commit)
  /\ UNCHANGED <<history, objects, rowStatus, prompts, ghosts>>

\* The precommit invariants refuse it: the file is written back.
RestoreFile(r) ==
  /\ At(r, "commit")
  /\ handler[r].kind = "builder"
  /\ live' = [live EXCEPT !.files[handler[r].file] = handler[r].before]
  /\ handler' = [handler EXCEPT ![r].pc = "failing", ![r].refused = TRUE,
                   ![r].file = None, ![r].before = None]
  /\ UNCHANGED <<history, objects, rowStatus, prompts, ghosts>>

\* createAutoCommit: git add -A and commit, if anything differs.
AutoCommit ==
  IF live.files = HeadFiles THEN UNCHANGED tree
  ELSE /\ objects' = Append(objects, [files |-> live.files, parent |-> live.head])
       /\ live' = [live EXCEPT !.head = Len(objects')]

\* A run's step, the scaffold's, or the commit by hand.  What a commit by hand
\* finds is anybody's.
CommitFile(r) ==
  /\ At(r, "commit")
  /\ AutoCommit
  /\ StepOver(r, IF rowStatus[r] = "none" THEN "write" ELSE "committed",
              IF live.files = HeadFiles THEN handler[r].commit ELSE live'.head)
  /\ UNCHANGED <<history, rowStatus, prompts, ghosts>>

CommitByHand(r) ==
  /\ At(r, "sweep")
  /\ AutoCommit
  /\ Answer(r)
  /\ UNCHANGED <<history, rowStatus, prompts, ghosts>>

\* The execution ends: complete, or failed by its tool, a check or a conflict.
EndProjectRun(r) ==
  /\ rowStatus[r] = "running"
  /\ \/ At(r, "committed") /\ Status(r, "complete")
     \/ At(r, "failing") /\ Status(r, "failed")
  /\ ActivityGoto(r, "ended")
  /\ UNCHANGED <<history, tree, prompts, ghosts>>

\* A correction that the policy refuses when it has committed: the tree goes
\* back to the last valid commit, which by then is the correction's own.
PolicyRollsBack(r) ==
  /\ At(r, "committed") /\ handler[r].fix
  /\ live' = [files |-> objects[handler[r].commit].files, head |-> handler[r].commit]
  /\ Status(r, "failed")
  /\ ActivityGoto(r, "ended")
  /\ UNCHANGED <<history, objects, prompts, ghosts>>

\* executeWithValidationAutoCorrection.  Until a run whose step was refused, or
\* that is complete and found invalid, is executed again, its row is not active.
Correct(r, fix) ==
  /\ At(r, "ended") /\ handler[r].kind = "builder"
  /\ handler[r].corrections < MaxCorrections
  /\ handler' = [handler EXCEPT ![r].pc = "execute", ![r].corrections = @ + 1,
                                ![r].fix = fix]

QueueInvariantCorrection(r) ==
  /\ rowStatus[r] = "failed" /\ handler[r].refused /\ ~handler[r].fix
  /\ Correct(r, FALSE)
  /\ Status(r, "correcting")
  /\ UNCHANGED <<history, tree, prompts, ghosts>>

QueueValidationCorrection(r) ==
  /\ rowStatus[r] = "complete"
  /\ Correct(r, TRUE)
  /\ Status(r, "running")
  /\ UNCHANGED <<history, tree, prompts, ghosts>>

\* A validation's correction that was refused: the run counts as complete again.
KeepRefusedCorrection(r) ==
  /\ At(r, "ended")
  /\ rowStatus[r] = "failed" /\ handler[r].refused /\ handler[r].fix
  /\ Status(r, "complete")
  /\ UNCHANGED <<history, tree, handler, prompts, ghosts>>

\* deriveBuilderResultFromRun and its kin: only a complete run whose last
\* mutating step, which may have been the refused one, completed has a result.
DeriveResult(r) ==
  /\ At(r, "ended") /\ handler[r].kind \in {"builder", "file"}
  /\ \/ rowStatus[r] = "complete" /\ ActivityGoto(r, "read")
     \/ (rowStatus[r] = "failed" \/ handler[r].refused) /\ Refuse(r)
  /\ UNCHANGED <<history, tree, rowStatus, prompts, ghosts>>

\* A scaffold that fails ends the request.
ScaffoldFails ==
  /\ At(Creator, "failing") /\ rowStatus[Creator] = "none"
  /\ Refuse(Creator)
  /\ UNCHANGED <<history, tree, rowStatus, prompts, ghosts>>

\* The first run of a bootstrapped project works in a worktree of its own; the
\* certification that follows is told whatever the run came to.
BootstrapRun ==
  /\ At(Creator, "bootstrap")
  /\ \/ rowStatus[Creator] = "none" /\ Status(Creator, "running") /\ UNCHANGED handler
     \/ /\ rowStatus[Creator] = "running"
        /\ \E status \in {"complete", "failed"} : Status(Creator, status)
        /\ ActivityGoto(Creator, "read")
  /\ UNCHANGED <<history, tree, prompts, ghosts>>

\* A report on a run that was validated, written behind the answer.
ReportValidation(r) ==
  /\ MayArrive(r)
  /\ \E s \in Request : rowStatus[s] = "complete"
  /\ handler' = [handler EXCEPT ![r].pc = "read", ![r].kind = "validate"]
  /\ Admit(r, UnderWay)
  /\ UNCHANGED <<history, tree, rowStatus, prompts, crashed>>

\* The history is read, the entry put before it, and the whole written back.
ReadProject(r) ==
  /\ At(r, "read")
  /\ handler' = [handler EXCEPT ![r].pc = "write", ![r].copy = history]
  /\ UNCHANGED <<history, tree, rowStatus, prompts, ghosts>>

FirstOf(entries) ==
  SubSeq(entries, 1, IF Len(entries) > MaxHistory THEN MaxHistory ELSE Len(entries))

\* Faulty variant: the entry is put behind the others, and the cut takes it.
EntryLast(copy, r) == FirstOf(Append(copy, r))

WithEntry(copy, r) == FirstOf(<<r>> \o copy)

UpdateProject(r) ==
  /\ At(r, "write")
  /\ history' = WithEntry(handler[r].copy, r)
  /\ IF handler[r].kind = "bootstrap" /\ rowStatus[r] = "none"
     THEN handler' = [handler EXCEPT ![r].pc = "bootstrap", ![r].copy = <<>>]
     ELSE Answer(r)
  /\ UNCHANGED <<tree, rowStatus, prompts, ghosts>>

\* The server dies; rows and files stay as they are.
CrashServer ==
  /\ Cardinality(crashed) = 0 /\ MaxServerCrashes > 0 /\ UnderWay # {}
  /\ crashed' = UnderWay
  /\ handler' = [r \in Request |-> IF r \in UnderWay THEN [NoLocals EXCEPT !.pc = "refused"]
                                   ELSE handler[r]]
  /\ UNCHANGED <<history, tree, rowStatus, prompts, met>>

\* The run a crash left is resumed by request: a worker executes it in a worktree
\* of its own, and it ends.
EndCrashedRun(r) ==
  /\ r \in crashed /\ rowStatus[r] \in Active
  /\ \E status \in {"complete", "failed"} : Status(r, status)
  /\ UNCHANGED <<history, tree, handler, prompts, ghosts>>

ActivityStep(r) ==
  \/ CheckNoActiveRun(r) \/ ConsumeRateLimit(r) \/ InsertRun(r) \/ EnterProjectRun(r)
  \/ StageFile(r) \/ ToolFails(r) \/ ApplyFile(r) \/ RestoreFile(r) \/ CommitFile(r)
  \/ CommitByHand(r) \/ EndProjectRun(r) \/ PolicyRollsBack(r)
  \/ QueueInvariantCorrection(r) \/ QueueValidationCorrection(r)
  \/ KeepRefusedCorrection(r) \/ DeriveResult(r) \/ ReportValidation(r) \/ ReadProject(r) \/ UpdateProject(r)
  \/ EndCrashedRun(r)

ActivityNext ==
  \/ CreateProject \/ ScaffoldFails \/ BootstrapRun \/ CrashServer
  \/ \E r \in Request : ActivityStep(r)

ActivitySpec == ActivityInit /\ [][ActivityNext]_activityVars
-----------------------------------------------------------------------------
ActivityTypeOK ==
  /\ history \in BoundedSeq(Request, MaxHistory)
  /\ \A c \in DOMAIN objects : objects[c].files \in Files /\ objects[c].parent < c
  /\ live \in [files : Files, head : DOMAIN objects]
  /\ \A r \in Request :
       /\ rowStatus[r] \in Active \cup {"none", "complete", "failed"}
       /\ handler[r].kind \in Kind \cup {"none"}
       /\ handler[r].commit \in {NoCommit} \cup DOMAIN objects
       /\ handler[r].corrections <= MaxCorrections

Mutating(r) == handler[r].pc \in {"stage", "apply", "commit", "committed"}

\* Neither knew of the other when it was admitted.
Met(r, s) == s \in met[r].unseen \/ r \in met[s].unseen

\* Two requests change the project's files at once only if, when the later one
\* was admitted, the row of the other did not say so: it was yet to be inserted,
\* or the run stood between an execution and its correction (server.ts
\* assertNoActiveAgentRunMutation, project-store.ts hasActiveAgentRun).
MutationsExclude ==
  \A r, s \in Request : r # s /\ Mutating(r) /\ Mutating(s) => Met(r, s)

\* The commits HEAD is built on.
OnBranch ==
  LET of[c \in 0..Len(objects)] == IF c = 0 THEN {} ELSE {c} \cup of[objects[c].parent]
  IN  of[live.head]

Alone(r) == \A s \in Request \ {r} : ~Met(r, s)

\* A request that met no other and was answered is told by the history, until
\* enough later ones are, and its commit is on the branch and changes no file but
\* its own, or those it found changed and no longer anybody's, of which nothing
\* cleans the tree (server.ts, persistBuilderActivityMirror; kernel.ts,
\* executeLoop in project mode).  Requests that met may lose entries and commits to each
\* other: both are rewritten whole.
ActivityTold ==
  \A r \in Request : handler[r].pc = "done" /\ Alone(r) =>
    /\ handler[r].kind # "commit" =>
         \/ \E i \in DOMAIN history : history[i] = r
         \/ /\ Len(history) = MaxHistory
            /\ \A i \in DOMAIN history : r \in met[history[i]].answered
    /\ LET c == handler[r].commit
       IN  c # NoCommit =>
             /\ c \in OnBranch
             /\ \A f \in File :
                  \/ objects[c].files[f] = r \/ f \in met[r].dirty
                  \/ objects[c].files[f] = objects[objects[c].parent].files[f]
=============================================================================
