----------------------------- MODULE AtomicSteps -----------------------------
(***************************************************************************)
(* What the file session and git promise of a run's branch: it grows by    *)
(* one whole step at a time, all of the step's changes and nothing else,   *)
(* and it is cut back only to a commit it already held.                    *)
(***************************************************************************)
EXTENDS Naturals, Sequences

CONSTANT Change \* what a step may propose: functions from files to contents

VARIABLE branch \* the commits from the run's base to HEAD, each [tree, changes]

\* The files after a step.
Changed(tree, changes) ==
  [f \in DOMAIN tree |-> IF f \in DOMAIN changes THEN changes[f] ELSE tree[f]]

BranchInit == Len(branch) = 1

CommitStep ==
  \E changes \in Change :
    branch' = Append(branch, [tree    |-> Changed(branch[Len(branch)].tree, changes),
                              changes |-> changes])

CutBack == \E n \in 1..(Len(branch) - 1) : branch' = SubSeq(branch, 1, n)

BranchSpec == BranchInit /\ [][CommitStep \/ CutBack]_branch
=============================================================================
