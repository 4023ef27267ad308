--------------------------- MODULE StepTransaction ---------------------------
(***************************************************************************)
(* The step transactions of one run in its own worktree: FileSession       *)
(* stages, applies, commits and restores the changes of a step, git keeps  *)
(* them, the run's row points at them, and an execution that is entered    *)
(* again recovers a worktree the last one left dirty.                      *)
(*                                                                         *)
(* One executor at a time (RunExecution says when that holds), a process   *)
(* that may die between any two writes, and writes that may fail.  A step's*)
(* changes are what its tool proposes; the kinds create, update and delete *)
(* follow from what is there.  git reset and git clean are one action.     *)
(***************************************************************************)
EXTENDS Naturals, Sequences, FiniteSets

CONSTANTS
  Files,        \* bound: the files are 1..Files, in the order they are written
  Content,
  Absent,       \* the file does not exist
  Steps,        \* bound: mutating steps of the plan
  MaxCommits,   \* bound: commits ever made
  MaxStepFaults \* bound: crashes and failed writes together

ASSUME StepTransactionAssumption ==
  /\ Files \in Nat \ {0}
  /\ Content # {} /\ Absent \notin Content
  /\ Steps \in Nat \ {0}
  /\ MaxCommits \in Nat \ {0}
  /\ MaxStepFaults \in Nat

VARIABLES
  commits,   \* the objects of the repository, oldest first; 0 is no commit
  worktree,  \* its files, the commit HEAD names, whether the index differs from it
  pointers,  \* the row: commit hashes, status, current_step_index
  session,   \* the executing process and its FileSession
  stepFaults

stepVars == <<commits, worktree, pointers, session, stepFaults>>

File == 1..Files

Tree == [File -> Content \cup {Absent}]

Change == UNION {[fs -> Content \cup {Absent}] : fs \in (SUBSET File) \ {{}}}

NoChange == [f \in {} |-> Absent]

\* No process executes the run.
NoSession == [pc |-> "rest", current |-> 0, changes |-> NoChange,
              before |-> [f \in File |-> Absent], file |-> 0]

HeadTree == commits[worktree.head].tree

\* git status --porcelain
Dirty == worktree.tree # HeadTree \/ worktree.index = "staged"

\* lastValidCommitHash || currentCommitHash || baseCommitHash
RecoveryRef ==
  IF pointers.lastValid # 0 THEN pointers.lastValid
  ELSE IF pointers.current # 0 THEN pointers.current ELSE pointers.base

\* git reset --hard, git clean -fd
ResetTo(ref) == [tree |-> commits[ref].tree, head |-> ref, index |-> "clean"]

Changed(tree, changes) ==
  [f \in File |-> IF f \in DOMAIN changes THEN changes[f] ELSE tree[f]]

SessionGoto(pc) == session' = [session EXCEPT !.pc = pc]

\* The step's transaction is over; the session is at pc.
StepEnds(pc) == session' = [NoSession EXCEPT !.pc = pc, !.current = session.current]

StepFault ==
  /\ stepFaults < MaxStepFaults
  /\ stepFaults' = stepFaults + 1

-----------------------------------------------------------------------------
\* A new run: a branch at the project's commit, checked out.
StepInit ==
  /\ commits = <<[tree |-> [f \in File |-> IF f = 1 THEN CHOOSE c \in Content : TRUE
                                           ELSE Absent],
                  changes |-> NoChange, parent |-> 0]>>
  /\ worktree = [tree |-> commits[1].tree, head |-> 1, index |-> "clean"]
  /\ pointers = [base |-> 0, current |-> 0, lastValid |-> 0, status |-> "queued", index |-> 0]
  /\ session = NoSession
  /\ stepFaults = 0

\* ensureRunExecutionContext: only a run at its very beginning takes its
\* pointers from the worktree.
EnterContext ==
  /\ session.pc = "rest"
  /\ pointers.status \in {"queued", "running"}
  /\ pointers' =
       IF pointers.status = "queued" /\ pointers.index = 0
       THEN [pointers EXCEPT !.base = worktree.head, !.current = worktree.head,
               !.lastValid = IF @ # 0 THEN @ ELSE worktree.head]
       ELSE pointers
  /\ SessionGoto("entered")
  /\ UNCHANGED <<commits, worktree, stepFaults>>

\* Faulty variant: the reset takes back the index and leaves the files.
RecoverIndex ==
  /\ session.pc = "entered"
  /\ Dirty
  /\ worktree' = [worktree EXCEPT !.index = "clean"]
  /\ SessionGoto("reset")
  /\ UNCHANGED <<commits, pointers, stepFaults>>

\* recoverRunWorkspaceIfNeeded, its git commands and then its write of the row.
RecoverWorkspace ==
  /\ session.pc = "entered"
  /\ Dirty
  /\ worktree' = ResetTo(RecoveryRef)
  /\ SessionGoto("reset")
  /\ UNCHANGED <<commits, pointers, stepFaults>>

PersistRecovery ==
  /\ session.pc \in {"reset", "rolledBack"}
  /\ pointers' = [pointers EXCEPT !.base = worktree.head, !.current = worktree.head]
  /\ StepEnds(IF session.pc = "reset" THEN "recovered" ELSE "failing")
  /\ UNCHANGED <<commits, worktree, stepFaults>>

\* status running and FileSession.create: the session starts from the pointer
\* of the row, not from HEAD.
BeginExecution ==
  /\ \/ session.pc = "entered" /\ ~Dirty
     \/ session.pc = "recovered"
  /\ pointers' = [pointers EXCEPT !.status = "running"]
  /\ session' = [session EXCEPT !.pc = "top",
                   !.current = IF pointers.current # 0 THEN pointers.current ELSE pointers.base]
  /\ UNCHANGED <<commits, worktree, stepFaults>>

\* beginStep, stageChange of every change, validateStep.  What is there is read
\* from disk; only what is there can be deleted.
StageStep ==
  /\ session.pc = "top"
  /\ pointers.index < Steps
  /\ \E changes \in Change :
       /\ \A f \in DOMAIN changes : changes[f] = Absent => worktree.tree[f] # Absent
       /\ session' = [session EXCEPT !.pc = "applying", !.changes = changes,
                        !.before = worktree.tree, !.file = 1]
  /\ UNCHANGED <<commits, worktree, pointers, stepFaults>>

\* The tool failed, or a proposal was refused before anything was applied.
RefuseStep ==
  /\ session.pc = "top"
  /\ pointers.index < Steps
  /\ StepEnds("failing")
  /\ UNCHANGED <<commits, worktree, pointers, stepFaults>>

\* A step that changes nothing.
EmptyStep ==
  /\ session.pc = "top"
  /\ pointers.index < Steps
  /\ StepEnds("done")
  /\ UNCHANGED <<commits, worktree, pointers, stepFaults>>

\* applyStepChanges: one file after the other.
ApplyChange ==
  /\ session.pc = "applying"
  /\ session.file <= Files
  /\ worktree' =
       IF session.file \in DOMAIN session.changes
       THEN [worktree EXCEPT !.tree[session.file] = session.changes[session.file]]
       ELSE worktree
  /\ session' = [session EXCEPT !.file = @ + 1,
                   !.pc = IF session.file = Files THEN "applied" ELSE @]
  /\ UNCHANGED <<commits, pointers, stepFaults>>

StartRestore == session' = [session EXCEPT !.pc = "restoring", !.file = 1]

ApplyFails ==
  /\ session.pc = "applying"
  /\ StepFault
  /\ StartRestore
  /\ UNCHANGED <<commits, worktree, pointers>>

\* The precommit invariants or the light validation turn the applied step down.
GuardRefuses ==
  /\ session.pc = "applied"
  /\ StartRestore
  /\ UNCHANGED <<commits, worktree, pointers, stepFaults>>

\* restoreBackups, called by applyStepChanges, commitStep or abortStep.
RestoreBackup ==
  /\ session.pc = "restoring"
  /\ worktree' =
       IF session.file \in DOMAIN session.changes
       THEN [worktree EXCEPT !.tree[session.file] = session.before[session.file]]
       ELSE worktree
  /\ IF session.file = Files
     THEN StepEnds("failing")
     ELSE session' = [session EXCEPT !.file = @ + 1]
  /\ UNCHANGED <<commits, pointers, stepFaults>>

\* A failed restore is swallowed; the rest of the files keep the step's changes.
RestoreFails ==
  /\ session.pc = "restoring"
  /\ StepFault
  /\ StepEnds("failing")
  /\ UNCHANGED <<commits, worktree, pointers>>

NewCommit ==
  /\ Len(commits) < MaxCommits
  /\ commits' = Append(commits, [tree |-> worktree.tree, changes |-> session.changes,
                                 parent |-> worktree.head])

\* createAutoCommit commits whatever differs, as git add -A does.
CommitChanges ==
  /\ session.pc = "applied"
  /\ Dirty
  /\ NewCommit
  /\ worktree' = [worktree EXCEPT !.head = Len(commits'), !.index = "clean"]
  /\ session' = [session EXCEPT !.pc = "committed", !.current = Len(commits')]
  /\ UNCHANGED <<pointers, stepFaults>>

\* Nothing differs: no commit.  A correction step fails then, any other goes on
\* from the commit the session knows.
CommitNothing ==
  /\ session.pc = "applied"
  /\ ~Dirty
  /\ SessionGoto("committed") \/ StepEnds("failing")
  /\ UNCHANGED <<commits, worktree, pointers, stepFaults>>

\* git add or git commit fails, or git rev-parse after both: the files are
\* restored, the index and the commit are not.
CommitFails ==
  /\ session.pc = "applied"
  /\ Dirty
  /\ StepFault
  /\ \/ /\ \E index \in {worktree.index, "staged"} :
             worktree' = [worktree EXCEPT !.index = index]
        /\ UNCHANGED commits
     \/ /\ NewCommit
        /\ worktree' = [worktree EXCEPT !.head = Len(commits'), !.index = "clean"]
  /\ StartRestore
  /\ UNCHANGED pointers

\* Faulty variant: the row keeps the commit it was created from as last valid.
PersistCurrentOnly ==
  /\ session.pc = "committed"
  /\ pointers' = [pointers EXCEPT !.base = session.current, !.current = session.current]
  /\ StepEnds("done")
  /\ UNCHANGED <<commits, worktree, stepFaults>>

\* The pointers follow the session.
PersistPointers ==
  /\ session.pc = "committed"
  /\ pointers' = [pointers EXCEPT !.base = session.current, !.current = session.current,
                    !.lastValid = session.current]
  /\ StepEnds("done")
  /\ UNCHANGED <<commits, worktree, stepFaults>>

\* The write of the row throws: the commit stays, abortStep has nothing to undo.
PersistPointersFails ==
  /\ session.pc = "committed"
  /\ StepFault
  /\ StepEnds("failing")
  /\ UNCHANGED <<commits, worktree, pointers>>

Advance ==
  /\ session.pc = "done"
  /\ pointers' = [pointers EXCEPT !.index = @ + 1,
                    !.status = IF pointers.index + 1 = Steps THEN "complete" ELSE "running"]
  /\ session' = IF pointers.index + 1 = Steps THEN NoSession
                ELSE [session EXCEPT !.pc = "top"]
  /\ UNCHANGED <<commits, worktree, stepFaults>>

\* The step completed and its validation failed: rollbackRunToLastValid.  A
\* reset that fails is swallowed, and the row is written as if it had not.
Rollback ==
  /\ session.pc = "done"
  /\ worktree' = ResetTo(RecoveryRef)
  /\ SessionGoto("rolledBack")
  /\ UNCHANGED <<commits, pointers, stepFaults>>

RollbackFails ==
  /\ session.pc = "done"
  /\ StepFault
  /\ pointers' = [pointers EXCEPT !.base = RecoveryRef, !.current = RecoveryRef]
  /\ StepEnds("failing")
  /\ UNCHANGED <<commits, worktree>>

FailStep ==
  /\ session.pc \in {"failing", "done"}
  /\ pointers' = [pointers EXCEPT !.status = "failed"]
  /\ session' = NoSession
  /\ UNCHANGED <<commits, worktree, stepFaults>>

StepCrash ==
  /\ session.pc # "rest"
  /\ StepFault
  /\ session' = NoSession
  /\ UNCHANGED <<commits, worktree, pointers>>

\* Outside the execution: a worker fails the run of a dead one, a request
\* queues a failed run again.
FailAbandonedRun ==
  /\ session.pc = "rest"
  /\ pointers.status \in {"queued", "running"}
  /\ pointers' = [pointers EXCEPT !.status = "failed"]
  /\ UNCHANGED <<commits, worktree, session, stepFaults>>

RequeueRun ==
  /\ session.pc = "rest"
  /\ pointers.status = "failed"
  /\ pointers' = [pointers EXCEPT !.status = "queued"]
  /\ UNCHANGED <<commits, worktree, session, stepFaults>>

StepNext ==
  \/ EnterContext \/ RecoverWorkspace \/ PersistRecovery \/ BeginExecution
  \/ StageStep \/ RefuseStep \/ EmptyStep
  \/ ApplyChange \/ ApplyFails \/ GuardRefuses \/ RestoreBackup \/ RestoreFails
  \/ CommitChanges \/ CommitNothing \/ CommitFails
  \/ PersistPointers \/ PersistPointersFails
  \/ Advance \/ Rollback \/ RollbackFails \/ FailStep
  \/ StepCrash \/ FailAbandonedRun \/ RequeueRun

StepSpec == StepInit /\ [][StepNext]_stepVars

-----------------------------------------------------------------------------
StepTypeOK ==
  /\ \A c \in DOMAIN commits :
       /\ commits[c].tree \in Tree
       /\ commits[c].parent \in 0..(c - 1)
  /\ worktree \in [tree : Tree, head : DOMAIN commits, index : {"clean", "staged"}]
  /\ pointers \in [base : 0..Len(commits), current : 0..Len(commits),
                   lastValid : 0..Len(commits),
                   status : {"queued", "running", "failed", "complete"}, index : 0..Steps]
  /\ session.current \in 0..Len(commits)
  /\ stepFaults \in 0..MaxStepFaults

\* The commits from the first one to each commit.
History ==
  LET upTo[c \in 0..Len(commits)] ==
        IF c = 0 THEN <<>>
        ELSE Append(upTo[commits[c].parent],
                    [tree |-> commits[c].tree, changes |-> commits[c].changes])
  IN upTo

Branch == INSTANCE AtomicSteps WITH branch <- History[worktree.head]

\* Whatever dies or fails in between, a commit of the run's branch holds all
\* the changes of one step on top of its parent and nothing else; and until a
\* third fault, a reset never leaves the branch (file-session.ts,
\* git-versioning.ts, kernel.ts).  A commit and two resets, each cut off from
\* its write of the row, are what it takes.
StepsAreAtomic ==
  /\ Branch!BranchInit
  /\ [][/\ commits' # commits => Branch!CommitStep
        /\ stepFaults <= 2 => Branch!CommitStep \/ Branch!CutBack]_(History[worktree.head])

\* The commits a commit is built on, itself included.
Ancestors ==
  LET of[c \in 0..Len(commits)] ==
        IF c = 0 THEN {} ELSE {c} \cup of[commits[c].parent]
  IN of

\* Until a second fault, the last valid commit of the row is on the run's branch
\* and HEAD is ahead of it by no more than what the fault kept from the row: by
\* nothing in a run without faults, by one commit after a crash between commit
\* and row (kernel.ts, executeLoop).  Two faults can leave it off the branch.
LastValidTrailsHead ==
  stepFaults <= 1 /\ pointers.lastValid # 0 /\ session.pc # "committed" =>
    /\ pointers.lastValid \in Ancestors[worktree.head]
    /\ Cardinality(Ancestors[worktree.head] \ Ancestors[pointers.lastValid]) <= stepFaults
=============================================================================
