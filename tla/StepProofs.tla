----------------------------- MODULE StepProofs -----------------------------
(***************************************************************************)
(* That the steps of a run stay whole and that the row of the run does not *)
(* lose track of the branch, for any number of commits, any files and any  *)
(* changes, and for any number of faults where that is so.                 *)
(*                                                                         *)
(* GraphInv is about git's objects: they are only added, each a whole step *)
(* on top of an older one.  History and Ancestors are recursive functions  *)
(* of them.  No induction is needed to know that they are what their       *)
(* equations say: that the equations have one solution is itself an        *)
(* invariant (OneHistory, OneAncestry), since a commit adds one argument   *)
(* at the end.                                                             *)
(*                                                                         *)
(* SessionInv ties the step in progress to the worktree, and TrailInv says *)
(* how far the row may be behind HEAD after no fault, one and two: what    *)
(* LastValidTrailsHead forgets is where the execution is, and which commit *)
(* a Rollback would go back to.                                            *)
(***************************************************************************)
EXTENDS StepTransaction, FiniteSetTheorems, SequenceTheorems, TLAPS

\* The rows of git's object store.
CommitRow == [tree : Tree, changes : Change \cup {NoChange}, parent : Nat]

\* Every commit but the first is a whole step on top of an older one.
WholeCommit(c) ==
  /\ commits[c].parent \in 1..(c - 1)
  /\ commits[c].changes \in Change
  /\ commits[c].tree = Changed(commits[commits[c].parent].tree, commits[c].changes)

CommitsWhole ==
  /\ commits \in Seq(CommitRow)
  /\ Len(commits) >= 1
  /\ commits[1].parent = 0
  /\ \A c \in 2..Len(commits) : WholeCommit(c)

\* The equations that define History and Ancestors.
IsHistory(h, cs) ==
  h = [c \in 0..Len(cs) |->
         IF c = 0 THEN <<>>
         ELSE Append(h[cs[c].parent], [tree |-> cs[c].tree, changes |-> cs[c].changes])]

IsAncestors(a, cs) ==
  a = [c \in 0..Len(cs) |-> IF c = 0 THEN {} ELSE {c} \cup a[cs[c].parent]]

\* They have one solution each.
OneHistory(cs) ==
  /\ \E h : IsHistory(h, cs)
  /\ \A g, h : IsHistory(g, cs) /\ IsHistory(h, cs) => g = h

OneAncestry(cs) ==
  /\ \E a : IsAncestors(a, cs)
  /\ \A a, b : IsAncestors(a, cs) /\ IsAncestors(b, cs) => a = b

\* A commit is on top of its ancestors, and the branch it ends holds theirs.
BranchesNest ==
  \A c \in 1..Len(commits) :
    /\ c \in Ancestors[c]
    /\ Ancestors[c] \subseteq 1..c
    /\ History[c] \in Seq([tree : Tree, changes : Change \cup {NoChange}])
    /\ Len(History[c]) >= 1
    /\ History[c][Len(History[c])].tree = commits[c].tree
    /\ \A x \in Ancestors[c] :
         /\ Len(History[x]) <= Len(History[c])
         /\ x # c => Len(History[x]) < Len(History[c])
         /\ History[x] = SubSeq(History[c], 1, Len(History[x]))

GraphInv == CommitsWhole /\ OneHistory(commits) /\ OneAncestry(commits) /\ BranchesNest

\* A step that commits: a new object on top of the commit p.
Grown(p) ==
  /\ p \in 1..Len(commits)
  /\ \E changes \in Change :
       commits' = Append(commits, [tree |-> Changed(commits[p].tree, changes),
                                   changes |-> changes, parent |-> p])

\* History is the solution of its equations.
LEMMA HistoryIs == OneHistory(commits) => IsHistory(History, commits)
  BY DEF OneHistory, History, IsHistory

\* And so is Ancestors.
LEMMA AncestorsAre == OneAncestry(commits) => IsAncestors(Ancestors, commits)
  BY DEF OneAncestry, Ancestors, IsAncestors

\* What a new object is.
LEMMA NewObject ==
  ASSUME CommitsWhole, NEW p, Grown(p)
  PROVE  /\ CommitsWhole'
         /\ Len(commits') = Len(commits) + 1
         /\ \A c \in 1..Len(commits) : commits'[c] = commits[c]
         /\ commits'[Len(commits) + 1].parent = p
  <1>1. PICK changes \in Change :
          commits' = Append(commits, [tree |-> Changed(commits[p].tree, changes),
                                      changes |-> changes, parent |-> p])
    BY DEF Grown
  <1> DEFINE r == [tree |-> Changed(commits[p].tree, changes), changes |-> changes, parent |-> p]
  <1>2. commits[p] \in CommitRow /\ p \in 1..Len(commits) /\ Len(commits) \in Nat
    BY DEF Grown, CommitsWhole
  <1>3. \A f \in File : f \in DOMAIN changes => changes[f] \in Content \cup {Absent}
    BY DEF Change
  <1>4. Changed(commits[p].tree, changes) \in Tree
    BY <1>2, <1>3 DEF Changed, Tree, CommitRow
  <1>5. r \in CommitRow
    BY <1>2, <1>4 DEF CommitRow
  <1>6. commits' \in Seq(CommitRow) /\ Len(commits') = Len(commits) + 1
        /\ \A c \in 1..Len(commits) : commits'[c] = commits[c]
    BY <1>1, <1>5 DEF CommitsWhole
  <1>7. commits'[Len(commits) + 1] = r
    BY <1>1, <1>5 DEF CommitsWhole
  <1>8. commits'[1].parent = 0
    BY <1>6 DEF CommitsWhole
  <1>9. ASSUME NEW c \in 2..Len(commits') PROVE WholeCommit(c)'
    <2>1. CASE c = Len(commits) + 1
      <3>1. commits'[c].parent = p /\ commits'[c].changes = changes
            /\ commits'[c].tree = Changed(commits[p].tree, changes)
        BY <1>7, <2>1
      <3>2. commits'[p] = commits[p] /\ p \in 1..(c - 1)
        BY <1>2, <1>6, <2>1
      <3> QED
        BY <3>1, <3>2 DEF WholeCommit, Changed
    <2>2. CASE c # Len(commits) + 1
      <3>1. c \in 2..Len(commits) /\ commits'[c] = commits[c]
        BY <1>2, <1>6, <2>2
      <3>2. WholeCommit(c)
        BY <3>1 DEF CommitsWhole
      <3>3. commits'[commits[c].parent] = commits[commits[c].parent]
        BY <3>1, <3>2, <1>6 DEF WholeCommit
      <3> QED
        BY <3>1, <3>2, <3>3 DEF WholeCommit, Changed
    <2> QED
      BY <2>1, <2>2
  <1> QED
    BY <1>1, <1>6, <1>7, <1>8, <1>9 DEF CommitsWhole

\* A parent is older.
LEMMA ParentsOlder ==
  ASSUME CommitsWhole, NEW c \in 1..Len(commits)
  PROVE  commits[c].parent \in 0..(c - 1) /\ commits[c].parent \in 0..Len(commits)
  <1>1. CASE c = 1
    BY <1>1 DEF CommitsWhole
  <1>2. CASE c # 1
    <2>1. WholeCommit(c) /\ Len(commits) \in Nat
      BY <1>2 DEF CommitsWhole
    <2> QED
      BY <2>1 DEF WholeCommit
  <1> QED
    BY <1>1, <1>2

\* Where a commit's parent is older and a commit is added, the solutions grow
\* at their end.
Extended(cs, ds, p) ==
  /\ Len(cs) \in Nat /\ Len(ds) = Len(cs) + 1
  /\ p \in 0..Len(cs) /\ ds[Len(ds)].parent = p
  /\ \A c \in 1..Len(cs) : ds[c] = cs[c] /\ cs[c].parent \in 0..Len(cs)

\* With one more commit there is still one solution, which is the old one on the
\* older commits and adds the new commit to the ancestors of its parent.
LEMMA AncestryExtends ==
  ASSUME NEW cs, NEW ds, NEW p, Extended(cs, ds, p), OneAncestry(cs), NEW old, IsAncestors(old, cs)
  PROVE  /\ OneAncestry(ds)
         /\ \A a : IsAncestors(a, ds) =>
              /\ \A c \in 0..Len(cs) : a[c] = old[c]
              /\ a[Len(ds)] = {Len(ds)} \cup old[p]
  <1> DEFINE n == Len(cs)
             Next(b, x, c) == {c} \cup b
             new == [c \in 0..(n + 1) |-> IF c = n + 1 THEN Next(old[p], ds[c], c) ELSE old[c]]
  <1>1. /\ n \in Nat /\ Len(ds) = n + 1 /\ p \in 0..n /\ ds[n + 1].parent = p
        /\ \A c \in 1..n : ds[c] = cs[c] /\ cs[c].parent \in 0..n
    BY DEF Extended
  <1>2. \A f : IsAncestors(f, cs) <=> f = [c \in 0..n |-> IF c = 0 THEN {} ELSE Next(f[cs[c].parent], cs[c], c)]
    BY DEF IsAncestors
  <1>3. \A f : IsAncestors(f, ds) <=>
          f = [c \in 0..(n + 1) |-> IF c = 0 THEN {} ELSE Next(f[ds[c].parent], ds[c], c)]
    BY <1>1 DEF IsAncestors
  <1>4. old[0] = {} /\ \A c \in 1..n : old[c] = Next(old[cs[c].parent], cs[c], c)
    BY <1>1, <1>2
  <1>5. Next(old[p], ds[n + 1], n + 1) = {Len(ds)} \cup old[p]
    BY <1>1
  <1> HIDE DEF Next
  <1>6. ASSUME NEW a, IsAncestors(a, ds)
        PROVE  /\ \A c \in 0..n : a[c] = old[c]
               /\ a[n + 1] = Next(old[p], ds[n + 1], n + 1)
               /\ a = new
    <2> DEFINE b == [c \in 0..n |-> a[c]]
    <2>1. a = [c \in 0..(n + 1) |-> IF c = 0 THEN {} ELSE Next(a[ds[c].parent], ds[c], c)]
      BY <1>3, <1>6
    <2>2. a[0] = {} /\ a[n + 1] = Next(a[p], ds[n + 1], n + 1)
      BY <1>1, <2>1
    <2>3. ASSUME NEW c \in 1..n PROVE a[c] = Next(a[cs[c].parent], cs[c], c)
      <3>1. ds[c] = cs[c] /\ c \in 0..(n + 1) /\ c # 0
        BY <1>1
      <3>2. a[c] = Next(a[ds[c].parent], ds[c], c)
        BY <2>1, <3>1
      <3> QED
        BY <3>1, <3>2
    <2>4. \A c \in 1..n : b[c] = Next(b[cs[c].parent], cs[c], c)
      BY <1>1, <2>3
    <2>5. b[0] = {}
      BY <1>1, <2>2
    <2>6. b = [c \in 0..n |-> IF c = 0 THEN {} ELSE Next(b[cs[c].parent], cs[c], c)]
      BY <1>1, <2>4, <2>5
    <2>7. b = old
      BY <1>2, <2>6 DEF OneAncestry
    <2>8. \A c \in 0..n : a[c] = old[c]
      BY <2>7
    <2>9. a[n + 1] = Next(old[p], ds[n + 1], n + 1)
      BY <1>1, <2>2, <2>8
    <2>10. \A c \in 0..(n + 1) : a[c] = new[c]
      BY <1>1, <2>8, <2>9
    <2>11. a = new
      BY <2>1, <2>10
    <2> QED
      BY <2>8, <2>9, <2>11
  <1>7. IsAncestors(new, ds)
    <2>1. new[0] = {}
      BY <1>1, <1>4
    <2>2. \A c \in 0..n : new[c] = old[c]
      BY <1>1
    <2>3. new[n + 1] = Next(new[p], ds[n + 1], n + 1)
      BY <1>1, <2>2
    <2>4. \A c \in 1..n : new[c] = Next(new[ds[c].parent], ds[c], c)
      BY <1>1, <1>4, <2>2
    <2>5. \A c \in 0..(n + 1) : new[c] = IF c = 0 THEN {} ELSE Next(new[ds[c].parent], ds[c], c)
      BY <1>1, <2>1, <2>3, <2>4
    <2>6. new = [c \in 0..(n + 1) |-> IF c = 0 THEN {} ELSE Next(new[ds[c].parent], ds[c], c)]
      BY <2>5
    <2> QED
      BY <1>3, <2>6
  <1> QED
    <2>1. \E a : IsAncestors(a, ds)
      BY <1>7
    <2>2. OneAncestry(ds)
      BY <2>1, <1>6 DEF OneAncestry
    <2> QED
      BY <1>1, <1>5, <1>6, <2>2

\* And so for the branches: the new one is that of the parent and one entry more.
LEMMA HistoryExtends ==
  ASSUME NEW cs, NEW ds, NEW p, Extended(cs, ds, p), OneHistory(cs), NEW old, IsHistory(old, cs)
  PROVE  /\ OneHistory(ds)
         /\ \A h : IsHistory(h, ds) =>
              /\ \A c \in 0..Len(cs) : h[c] = old[c]
              /\ h[Len(ds)] = Append(old[p], [tree |-> ds[Len(ds)].tree,
                                             changes |-> ds[Len(ds)].changes])
  <1> DEFINE n == Len(cs)
             Row(x) == [tree |-> x.tree, changes |-> x.changes]
             nothing == <<>>
             Next(b, x, c) == Append(b, Row(x))
             new == [c \in 0..(n + 1) |-> IF c = n + 1 THEN Next(old[p], ds[c], c) ELSE old[c]]
  <1>1. /\ n \in Nat /\ Len(ds) = n + 1 /\ p \in 0..n /\ ds[n + 1].parent = p
        /\ \A c \in 1..n : ds[c] = cs[c] /\ cs[c].parent \in 0..n
    BY DEF Extended
  <1>2. \A f : IsHistory(f, cs) <=> f = [c \in 0..n |-> IF c = 0 THEN nothing ELSE Next(f[cs[c].parent], cs[c], c)]
    BY DEF IsHistory
  <1>3. \A f : IsHistory(f, ds) <=>
          f = [c \in 0..(n + 1) |-> IF c = 0 THEN nothing ELSE Next(f[ds[c].parent], ds[c], c)]
    BY <1>1 DEF IsHistory
  <1>4. old[0] = nothing /\ \A c \in 1..n : old[c] = Next(old[cs[c].parent], cs[c], c)
    <2>1. old = [c \in 0..n |-> IF c = 0 THEN nothing ELSE Next(old[cs[c].parent], cs[c], c)]
      BY <1>2
    <2>2. 0 \in 0..n /\ \A c \in 1..n : c \in 0..n /\ c # 0
      BY <1>1
    <2> QED
      BY <2>1, <2>2, Zenon
  <1>5. Next(old[p], ds[n + 1], n + 1) = Append(old[p], [tree |-> ds[Len(ds)].tree,
                                             changes |-> ds[Len(ds)].changes])
    BY <1>1
  <1> HIDE DEF Next, nothing
  <1>6. ASSUME NEW a, IsHistory(a, ds)
        PROVE  /\ \A c \in 0..n : a[c] = old[c]
               /\ a[n + 1] = Next(old[p], ds[n + 1], n + 1)
               /\ a = new
    <2> DEFINE b == [c \in 0..n |-> a[c]]
    <2>1. a = [c \in 0..(n + 1) |-> IF c = 0 THEN nothing ELSE Next(a[ds[c].parent], ds[c], c)]
      BY <1>3, <1>6
    <2>2. a[0] = nothing /\ a[n + 1] = Next(a[p], ds[n + 1], n + 1)
      BY <1>1, <2>1
    <2>3. ASSUME NEW c \in 1..n PROVE a[c] = Next(a[cs[c].parent], cs[c], c)
      <3>1. ds[c] = cs[c] /\ c \in 0..(n + 1) /\ c # 0
        BY <1>1
      <3>2. a[c] = Next(a[ds[c].parent], ds[c], c)
        BY <2>1, <3>1
      <3> QED
        BY <3>1, <3>2
    <2>4. \A c \in 1..n : b[c] = Next(b[cs[c].parent], cs[c], c)
      BY <1>1, <2>3
    <2>5. b[0] = nothing
      BY <1>1, <2>2
    <2>6. b = [c \in 0..n |-> IF c = 0 THEN nothing ELSE Next(b[cs[c].parent], cs[c], c)]
      BY <1>1, <2>4, <2>5
    <2>7. b = old
      BY <1>2, <2>6 DEF OneHistory
    <2>8. \A c \in 0..n : a[c] = old[c]
      BY <2>7
    <2>9. a[n + 1] = Next(old[p], ds[n + 1], n + 1)
      BY <1>1, <2>2, <2>8
    <2>10. \A c \in 0..(n + 1) : a[c] = new[c]
      BY <1>1, <2>8, <2>9
    <2>11. a = new
      BY <2>1, <2>10
    <2> QED
      BY <2>8, <2>9, <2>11
  <1>7. IsHistory(new, ds)
    <2>1. new[0] = nothing
      BY <1>1, <1>4
    <2>2. \A c \in 0..n : new[c] = old[c]
      BY <1>1
    <2>3. new[n + 1] = Next(new[p], ds[n + 1], n + 1)
      BY <1>1, <2>2
    <2>4. \A c \in 1..n : new[c] = Next(new[ds[c].parent], ds[c], c)
      BY <1>1, <1>4, <2>2
    <2>5. \A c \in 0..(n + 1) : new[c] = IF c = 0 THEN nothing ELSE Next(new[ds[c].parent], ds[c], c)
      <3>1. \A c \in 0..(n + 1) : c = 0 \/ c = n + 1 \/ c \in 1..n
        BY <1>1
      <3>2. n + 1 # 0 /\ \A c \in 1..n : c # 0
        BY <1>1
      <3>3. ds[n + 1].parent = p
        BY <1>1
      <3> HIDE DEF new
      <3> QED
        BY <2>1, <2>3, <2>4, <3>1, <3>2, <3>3, Zenon
    <2>6. new = [c \in 0..(n + 1) |-> IF c = 0 THEN nothing ELSE Next(new[ds[c].parent], ds[c], c)]
      BY <2>5
    <2> QED
      BY <1>3, <2>6
  <1> QED
    <2>1. \E h : IsHistory(h, ds)
      BY <1>7
    <2>2. OneHistory(ds)
      BY <2>1, <1>6 DEF OneHistory
    <2> QED
      BY <1>1, <1>5, <1>6, <2>2

\* A new object leaves the branches of the others as they are, and its own is
\* that of its parent and one step more.
LEMMA GraphGrows ==
  ASSUME GraphInv, NEW p, Grown(p)
  PROVE  /\ GraphInv'
         /\ \A c \in 0..Len(commits) : Ancestors'[c] = Ancestors[c] /\ History'[c] = History[c]
         /\ Ancestors'[Len(commits')] = {Len(commits')} \cup Ancestors[p]
         /\ History'[Len(commits')] =
              Append(History[p], [tree |-> commits'[Len(commits')].tree,
                                  changes |-> commits'[Len(commits')].changes])
  <1> DEFINE n == Len(commits)
  <1>1. /\ CommitsWhole' /\ n \in Nat /\ Len(commits') = n + 1 /\ p \in 1..n
        /\ \A c \in 1..n : commits'[c] = commits[c]
        /\ commits'[n + 1].parent = p
    BY NewObject DEF Grown, CommitsWhole, GraphInv
  <1>2. Extended(commits, commits', p)
    BY <1>1, ParentsOlder DEF Extended, GraphInv
  <1>3. OneAncestry(commits') /\ OneHistory(commits')
        /\ \A c \in 0..n : Ancestors'[c] = Ancestors[c] /\ History'[c] = History[c]
        /\ Ancestors'[Len(commits')] = {Len(commits')} \cup Ancestors[p]
        /\ History'[Len(commits')] =
              Append(History[p], [tree |-> commits'[Len(commits')].tree,
                                  changes |-> commits'[Len(commits')].changes])
    <2>1. IsAncestors(Ancestors, commits) /\ IsHistory(History, commits)
      BY AncestorsAre, HistoryIs DEF GraphInv
    <2>2. /\ OneAncestry(commits')
          /\ \A a : IsAncestors(a, commits') =>
               /\ \A c \in 0..n : a[c] = Ancestors[c]
               /\ a[Len(commits')] = {Len(commits')} \cup Ancestors[p]
      BY <1>2, <2>1, AncestryExtends DEF GraphInv
    <2>3. /\ OneHistory(commits')
          /\ \A h : IsHistory(h, commits') =>
               /\ \A c \in 0..n : h[c] = History[c]
               /\ h[Len(commits')] =
                    Append(History[p], [tree |-> commits'[Len(commits')].tree,
                                        changes |-> commits'[Len(commits')].changes])
      BY <1>2, <2>1, HistoryExtends DEF GraphInv
    <2>4. OneAncestry(commits)' => IsAncestors(Ancestors, commits)'
      BY AncestorsAre, PTL
    <2>5. OneHistory(commits)' => IsHistory(History, commits)'
      BY HistoryIs, PTL
    <2>6. IsAncestors(Ancestors', commits') /\ IsHistory(History', commits')
      BY <2>2, <2>3, <2>4, <2>5
    <2> QED
      BY <2>2, <2>3, <2>6
  <1>4. BranchesNest'
    <2> DEFINE HRow == [tree : Tree, changes : Change \cup {NoChange}]
               r == [tree |-> commits'[n + 1].tree, changes |-> commits'[n + 1].changes]
    <2>1. r \in HRow /\ r.tree = commits'[n + 1].tree
      <3>1. commits' \in Seq(CommitRow) /\ n + 1 \in 1..Len(commits')
        BY <1>1 DEF CommitsWhole
      <3>2. commits'[n + 1] \in CommitRow
        BY <3>1
      <3> QED
        BY <3>2 DEF CommitRow
    <2> HIDE DEF r, HRow
    <2>2. ASSUME NEW c \in 1..n
          PROVE  /\ c \in Ancestors[c] /\ Ancestors[c] \subseteq 1..c
                 /\ History[c] \in Seq(HRow) /\ Len(History[c]) >= 1
                 /\ History[c][Len(History[c])].tree = commits[c].tree
                 /\ \A x \in Ancestors[c] :
                      /\ Len(History[x]) <= Len(History[c])
                      /\ x # c => Len(History[x]) < Len(History[c])
                      /\ History[x] = SubSeq(History[c], 1, Len(History[x]))
      BY DEF GraphInv, BranchesNest, HRow
    <2>3. ASSUME NEW c \in 1..n
          PROVE  /\ c \in Ancestors'[c] /\ Ancestors'[c] \subseteq 1..c
                 /\ History'[c] \in Seq(HRow) /\ Len(History'[c]) >= 1
                 /\ History'[c][Len(History'[c])].tree = commits'[c].tree
                 /\ \A x \in Ancestors'[c] :
                      /\ Len(History'[x]) <= Len(History'[c])
                      /\ x # c => Len(History'[x]) < Len(History'[c])
                      /\ History'[x] = SubSeq(History'[c], 1, Len(History'[x]))
      <3>1. c \in 0..n /\ \A x \in Ancestors[c] : x \in 0..n
        BY <1>1, <2>2
      <3>2. Ancestors'[c] = Ancestors[c] /\ History'[c] = History[c] /\ commits'[c] = commits[c]
            /\ \A x \in Ancestors[c] : History'[x] = History[x]
        BY <1>1, <1>3, <3>1
      <3> QED
        BY <2>2, <3>2
    <2>4. /\ n + 1 \in Ancestors'[n + 1] /\ Ancestors'[n + 1] \subseteq 1..(n + 1)
          /\ History'[n + 1] \in Seq(HRow) /\ Len(History'[n + 1]) >= 1
          /\ History'[n + 1][Len(History'[n + 1])].tree = commits'[n + 1].tree
          /\ \A x \in Ancestors'[n + 1] :
               /\ Len(History'[x]) <= Len(History'[n + 1])
               /\ x # n + 1 => Len(History'[x]) < Len(History'[n + 1])
               /\ History'[x] = SubSeq(History'[n + 1], 1, Len(History'[x]))
      <3>1. Ancestors'[n + 1] = {n + 1} \cup Ancestors[p] /\ Ancestors[p] \subseteq 1..n
        BY <1>1, <1>3, <2>2
      <3>2. History'[n + 1] = Append(History[p], r) /\ History[p] \in Seq(HRow)
        BY <1>1, <1>3, <2>2 DEF r
      <3> DEFINE k == Len(History[p])
      <3>3. History'[n + 1] \in Seq(HRow) /\ Len(History'[n + 1]) = k + 1 /\ k \in Nat
            /\ History'[n + 1][k + 1] = r
            /\ \A i \in 1..k : History'[n + 1][i] = History[p][i]
        BY <2>1, <3>2
      <3>4. ASSUME NEW x \in Ancestors[p]
            PROVE  /\ Len(History'[x]) < k + 1
                   /\ History'[x] = SubSeq(History'[n + 1], 1, Len(History'[x]))
        <4>1. x \in 1..n /\ History'[x] = History[x]
          BY <1>1, <1>3, <3>1
        <4>2. Len(History[x]) <= k /\ History[x] = SubSeq(History[p], 1, Len(History[x]))
              /\ Len(History[x]) \in Nat
          BY <1>1, <2>2, <4>1
        <4>3. SubSeq(History'[n + 1], 1, Len(History[x])) = SubSeq(History[p], 1, Len(History[x]))
          BY <3>2, <3>3, <4>2
        <4> QED
          BY <3>3, <4>1, <4>2, <4>3
      <3>5. History'[n + 1] = SubSeq(History'[n + 1], 1, Len(History'[n + 1]))
        BY <3>3
      <3> QED
        BY <1>1, <2>1, <3>1, <3>3, <3>4, <3>5
    <2>5. \A c \in 1..(n + 1) : c \in 1..n \/ c = n + 1
      BY <1>1
    <2> QED
      BY <1>1, <2>3, <2>4, <2>5 DEF BranchesNest, HRow
  <1> QED
    BY <1>1, <1>3, <1>4 DEF GraphInv

-----------------------------------------------------------------------------
(* The row, the worktree and the session.                                  *)

SessionPc == {"rest", "entered", "reset", "recovered", "top", "applying", "applied", "restoring",
              "committed", "done", "failing", "rolledBack"}

\* The loop executes steps.
InLoop == {"top", "applying", "applied", "restoring", "committed", "done"}

InStep == InLoop \ {"top"}

SessionTyped ==
  session \in [pc : SessionPc, current : Nat, changes : Change \cup {NoChange},
               before : Tree, file : Nat]

WorktreeTyped ==
  /\ worktree \in [tree : Tree, head : Nat, index : {"clean", "staged"}]
  /\ worktree.head \in 1..Len(commits)

PointersTyped ==
  /\ pointers \in [base : Nat, current : Nat, lastValid : Nat,
                   status : {"queued", "running", "failed", "complete"}, index : 0..Steps]
  /\ pointers.base \in 0..Len(commits)
  /\ pointers.current \in 0..Len(commits)
  /\ pointers.lastValid \in 0..Len(commits)

\* The pointers are set together, when an execution first enters.
PointersSet ==
  /\ pointers.lastValid = 0 =>
       /\ session.pc = "rest" /\ pointers.index = 0
       /\ pointers.status \in {"queued", "failed"}
  /\ pointers.lastValid # 0 => pointers.current # 0 /\ pointers.base # 0

\* Where a step begins and where it ends, the files are those of HEAD; in
\* between they are what the step has made of those.
SessionWhole ==
  /\ session.current \in 0..Len(commits)
  /\ session.pc \in InLoop => session.current # 0
  /\ session.pc \in InStep => pointers.index < Steps
  /\ session.pc \in {"applying", "applied", "restoring"} => session.changes \in Change
  /\ session.pc \in {"applying", "restoring"} => session.file \in 1..Files
  /\ session.pc \in {"applying", "applied"} => session.before = HeadTree
  /\ session.pc = "applying" =>
       \A f \in File : worktree.tree[f] =
         IF f \in DOMAIN session.changes /\ f < session.file
         THEN session.changes[f] ELSE session.before[f]
  /\ session.pc = "applied" => worktree.tree = Changed(session.before, session.changes)
  /\ session.pc \in {"reset", "recovered", "top", "committed", "done", "rolledBack"} =>
       worktree.tree = HeadTree

\* Inductive, with GraphInv.
SessionInv ==
  /\ SessionTyped /\ WorktreeTyped /\ PointersTyped
  /\ stepFaults \in 0..MaxStepFaults
  /\ PointersSet /\ SessionWhole

\* What the files of a commit are.
LEMMA CommitTree ==
  ASSUME CommitsWhole, NEW c \in 1..Len(commits)
  PROVE  commits[c].tree \in Tree
  <1>1. commits[c] \in CommitRow
    BY DEF CommitsWhole
  <1> QED
    BY <1>1 DEF CommitRow

\* What a change is.
LEMMA ChangeFacts ==
  \A changes \in Change :
    /\ DOMAIN changes \subseteq File
    /\ \A f \in DOMAIN changes : changes[f] \in Content \cup {Absent}
  BY DEF Change

\* A worker between two executions holds nothing.
LEMMA NoSessionTyped ==
  /\ NoSession \in [pc : SessionPc, current : Nat, changes : Change \cup {NoChange},
                    before : Tree, file : Nat]
  /\ NoSession.pc = "rest" /\ NoSession.current = 0
  BY StepTransactionAssumption DEF NoSession, SessionPc, Tree

\* Nothing is committed but the session's whole step, on top of HEAD.
LEMMA CommitsGrow ==
  ASSUME CommitsWhole, SessionInv, StepNext
  PROVE  \/ commits' = commits
         \/ Grown(worktree.head) /\ worktree'.head = Len(commits') /\ session.pc = "applied"
            /\ worktree'.tree = worktree.tree
  <1>1. ASSUME session.pc = "applied", NewCommit PROVE Grown(worktree.head)
    <2>1. worktree.tree = Changed(commits[worktree.head].tree, session.changes)
          /\ session.changes \in Change /\ worktree.head \in 1..Len(commits)
      BY <1>1 DEF SessionInv, SessionWhole, HeadTree, WorktreeTyped
    <2> QED
      BY <1>1, <2>1 DEF NewCommit, Grown
  <1>2. CASE CommitChanges
    BY <1>1, <1>2 DEF CommitChanges, SessionInv, WorktreeTyped
  <1>3. CASE CommitFails
    BY <1>1, <1>3 DEF CommitFails, SessionInv, WorktreeTyped
  <1>4. CASE ~CommitChanges /\ ~CommitFails
    BY <1>4 DEF StepNext, EnterContext, RecoverWorkspace, PersistRecovery, BeginExecution,
         StageStep, RefuseStep, EmptyStep, ApplyChange, ApplyFails, GuardRefuses, RestoreBackup,
         RestoreFails, CommitNothing, PersistPointers, PersistPointersFails, Advance, Rollback,
         RollbackFails, FailStep, StepCrash, FailAbandonedRun, RequeueRun
  <1> QED
    BY <1>2, <1>3, <1>4

\* The commit the row falls back to is there once an execution has entered.
LEMMA RecoveryRefThere ==
  ASSUME SessionInv, pointers.lastValid # 0
  PROVE  RecoveryRef = pointers.lastValid /\ RecoveryRef \in 1..Len(commits)
  BY DEF RecoveryRef, SessionInv, PointersTyped

\* The end of a transaction, whatever it leaves on disk.
LEMMA EndsKeep ==
  ASSUME CommitsWhole, SessionInv, UNCHANGED <<commits, worktree, pointers>>, stepFaults' \in 0..MaxStepFaults,
         NEW pc \in {"failing", "done"}, StepEnds(pc), session.pc \in InLoop,
         pc = "done" => worktree.tree = HeadTree /\ pointers.index < Steps
  PROVE  SessionInv'
  BY NoSessionTyped, StepTransactionAssumption
     DEF SessionInv, SessionTyped, WorktreeTyped, PointersTyped, PointersSet, SessionWhole, StepEnds,
         SessionPc, InStep, InLoop, HeadTree

\* The process is gone.
LEMMA RestKeeps ==
  ASSUME CommitsWhole, SessionInv, UNCHANGED <<commits, worktree>>, stepFaults' \in 0..MaxStepFaults,
         session' = NoSession, session.pc # "rest",
         NEW status \in {"queued", "running", "failed", "complete"}, NEW index \in 0..Steps,
         pointers' = [pointers EXCEPT !.status = status, !.index = index]
  PROVE  SessionInv'
  <1> USE DEF SessionInv
  <1>1. SessionTyped' /\ WorktreeTyped'
    BY NoSessionTyped DEF SessionTyped, WorktreeTyped
  <1>2. PointersTyped' /\ PointersSet'
    BY DEF PointersTyped, PointersSet
  <1>3. SessionWhole'
    BY NoSessionTyped DEF SessionWhole, InStep, InLoop
  <1> QED
    BY <1>1, <1>2, <1>3

\* The session goes on, or ends its transaction.
LEMMA GoesOn ==
  ASSUME SessionTyped, NEW pc \in SessionPc, session' = [session EXCEPT !.pc = pc]
  PROVE  /\ SessionTyped'
         /\ session'.pc = pc /\ session'.current = session.current
         /\ session'.changes = session.changes /\ session'.before = session.before
         /\ session'.file = session.file
  BY DEF SessionTyped

\* A transaction that ends keeps the commit it began from.
LEMMA Ends ==
  ASSUME SessionTyped, NEW pc \in SessionPc, StepEnds(pc)
  PROVE  SessionTyped' /\ session'.pc = pc /\ session'.current = session.current
  BY NoSessionTyped DEF SessionTyped, StepEnds

\* A new value of the row.
LEMMA RowSet ==
  ASSUME PointersTyped, Len(commits) \in Nat, commits' = commits,
         NEW base \in 1..Len(commits), NEW current \in 1..Len(commits),
         NEW valid \in 1..Len(commits),
         pointers' = [pointers EXCEPT !.base = base, !.current = current, !.lastValid = valid]
  PROVE  /\ PointersTyped' /\ PointersSet'
         /\ pointers'.base = base /\ pointers'.current = current /\ pointers'.lastValid = valid
         /\ pointers'.index = pointers.index /\ pointers'.status = pointers.status
  <1>1. base \in Nat /\ current \in Nat /\ valid \in Nat /\ base # 0 /\ current # 0 /\ valid # 0
    OBVIOUS
  <1>2. /\ pointers' \in [base : Nat, current : Nat, lastValid : Nat,
                   status : {"queued", "running", "failed", "complete"}, index : 0..Steps]
        /\ pointers'.base = base /\ pointers'.current = current /\ pointers'.lastValid = valid
        /\ pointers'.index = pointers.index /\ pointers'.status = pointers.status
    BY <1>1 DEF PointersTyped
  <1> QED
    BY <1>1, <1>2 DEF PointersTyped, PointersSet

\* A reset leaves the files of the commit it goes to.
LEMMA ResetSets ==
  ASSUME CommitsWhole, NEW ref \in 1..Len(commits), worktree' = ResetTo(ref), commits' = commits
  PROVE  WorktreeTyped' /\ worktree'.tree = HeadTree' /\ worktree'.head = ref
  BY CommitTree DEF CommitsWhole, ResetTo, WorktreeTyped, HeadTree

\* The execution enters and looks at the worktree.
LEMMA EnteringKeeps ==
  ASSUME CommitsWhole, SessionInv, EnterContext \/ RecoverWorkspace \/ Rollback
  PROVE  SessionInv'
  <1> USE DEF SessionInv
  <1>1. CASE EnterContext
    <2>1. /\ SessionTyped' /\ session'.pc = "entered" /\ session'.current = session.current
      BY <1>1, GoesOn DEF EnterContext, SessionGoto, SessionPc
    <2>2. WorktreeTyped' /\ stepFaults' \in 0..MaxStepFaults
      BY <1>1 DEF EnterContext, WorktreeTyped
    <2>3. CASE pointers.status = "queued" /\ pointers.index = 0
      <3> DEFINE valid == IF pointers.lastValid # 0 THEN pointers.lastValid ELSE worktree.head
      <3>1. pointers' = [pointers EXCEPT !.base = worktree.head, !.current = worktree.head, !.lastValid = valid]
            /\ commits' = commits
        BY <1>1, <2>3 DEF EnterContext
      <3>2. valid \in 1..Len(commits) /\ worktree.head \in 1..Len(commits)
        BY DEF WorktreeTyped, PointersTyped
      <3>3. PointersTyped' /\ PointersSet'
        <4>1. Len(commits) \in Nat
          BY DEF CommitsWhole
        <4> HIDE DEF valid
        <4> QED
          BY <3>1, <3>2, <4>1, RowSet
      <3> QED
        BY <2>1, <2>2, <3>1, <3>3 DEF SessionWhole, InLoop, InStep
    <2>4. CASE ~(pointers.status = "queued" /\ pointers.index = 0)
      <3>1. pointers' = pointers /\ commits' = commits
        BY <1>1, <2>4 DEF EnterContext
      <3>2. pointers.lastValid # 0
        BY <1>1, <2>4 DEF EnterContext, PointersSet
      <3> QED
        BY <2>1, <2>2, <3>1, <3>2 DEF SessionWhole, InLoop, InStep, PointersTyped, PointersSet
    <2> QED
      BY <2>3, <2>4
  <1>2. CASE RecoverWorkspace \/ Rollback
    <2>1. session.pc \in {"entered", "done"} /\ pointers.lastValid # 0
      BY <1>2 DEF RecoverWorkspace, Rollback, PointersSet
    <2>2. /\ UNCHANGED <<commits, pointers, stepFaults>>
          /\ worktree' = ResetTo(RecoveryRef) /\ RecoveryRef \in 1..Len(commits)
      BY <1>2, <2>1, RecoveryRefThere DEF RecoverWorkspace, Rollback
    <2>3. WorktreeTyped' /\ worktree'.tree = HeadTree'
      BY <2>2, ResetSets
    <2>4. PICK pc \in {"reset", "rolledBack"} : session' = [session EXCEPT !.pc = pc]
      BY <1>2 DEF RecoverWorkspace, Rollback, SessionGoto
    <2>5. SessionTyped' /\ session'.pc = pc /\ session'.current = session.current
      BY <2>4, GoesOn DEF SessionPc
    <2>6. SessionWhole'
      BY <2>2, <2>3, <2>5 DEF SessionWhole, InLoop, InStep
    <2> QED
      BY <2>1, <2>2, <2>3, <2>5, <2>6 DEF PointersTyped, PointersSet
  <1> QED
    BY <1>1, <1>2

\* The row follows: to HEAD after a reset, to the session's commit after a step.
LEMMA PersistingKeeps ==
  ASSUME CommitsWhole, SessionInv, PersistRecovery \/ PersistPointers \/ RollbackFails
  PROVE  SessionInv'
  <1> USE DEF SessionInv
  <1>1. session.pc \in {"reset", "rolledBack", "committed", "done"} /\ pointers.lastValid # 0
    BY DEF PersistRecovery, PersistPointers, RollbackFails, PointersSet
  <1>2. UNCHANGED <<commits, worktree>> /\ WorktreeTyped' /\ HeadTree' = HeadTree
        /\ worktree'.tree = HeadTree'
    BY <1>1 DEF PersistRecovery, PersistPointers, RollbackFails, WorktreeTyped, HeadTree, SessionWhole
  <1>3. stepFaults' \in 0..MaxStepFaults
    BY StepTransactionAssumption DEF PersistRecovery, PersistPointers, RollbackFails, StepFault
  <1>4. PICK c \in 1..Len(commits), valid \in 1..Len(commits) :
          pointers' = [pointers EXCEPT !.base = c, !.current = c, !.lastValid = valid]
    <2>1. CASE PersistRecovery
      <3>1. worktree.head \in 1..Len(commits) /\ pointers.lastValid \in 1..Len(commits)
        BY <1>1 DEF WorktreeTyped, PointersTyped
      <3>2. pointers' = [pointers EXCEPT !.base = worktree.head, !.current = worktree.head,
                                       !.lastValid = pointers.lastValid]
        BY <2>1 DEF PersistRecovery, PointersTyped
      <3> QED
        BY <3>1, <3>2
    <2>2. CASE PersistPointers
      <3>1. session.current \in 1..Len(commits)
        BY <2>2 DEF PersistPointers, SessionWhole, InLoop, SessionTyped
      <3> QED
        BY <2>2, <3>1 DEF PersistPointers
    <2>3. CASE RollbackFails
      <3>1. RecoveryRef \in 1..Len(commits) /\ pointers.lastValid \in 1..Len(commits)
        BY <1>1, RecoveryRefThere DEF PointersTyped
      <3>2. pointers' = [pointers EXCEPT !.base = RecoveryRef, !.current = RecoveryRef,
                                       !.lastValid = pointers.lastValid]
        BY <2>3 DEF RollbackFails, PointersTyped
      <3> QED
        BY <3>1, <3>2
    <2> QED
      BY <2>1, <2>2, <2>3
  <1>5. PointersTyped' /\ PointersSet' /\ pointers'.index = pointers.index
    <2>1. Len(commits) \in Nat /\ commits' = commits
      BY <1>2 DEF CommitsWhole
    <2> QED
      BY <1>4, <2>1, RowSet
  <1>6. PICK pc \in {"recovered", "failing", "done"} :
          StepEnds(pc) /\ (pc = "done" => session.pc = "committed")
    BY DEF PersistRecovery, PersistPointers, RollbackFails
  <1>7. SessionTyped' /\ session'.pc = pc /\ session'.current = session.current
    BY <1>6, Ends DEF SessionPc
  <1>8. SessionWhole'
    BY <1>1, <1>2, <1>5, <1>6, <1>7 DEF SessionWhole, InLoop, InStep
  <1> QED
    BY <1>2, <1>3, <1>5, <1>7, <1>8

\* The execution begins at the commit of the row, where the worktree is HEAD's.
LEMMA BeginKeeps ==
  ASSUME CommitsWhole, SessionInv, BeginExecution
  PROVE  SessionInv'
  <1> USE DEF SessionInv
  <1>1. session.pc \in {"entered", "recovered"} /\ pointers.lastValid # 0
    BY DEF BeginExecution, PointersSet
  <1>2. UNCHANGED <<commits, worktree>> /\ WorktreeTyped' /\ worktree'.tree = HeadTree'
    BY DEF BeginExecution, WorktreeTyped, Dirty, HeadTree, SessionWhole
  <1>3. stepFaults' \in 0..MaxStepFaults
    BY DEF BeginExecution
  <1>4. pointers' = [pointers EXCEPT !.status = "running"]
    BY DEF BeginExecution
  <1> DEFINE c == IF pointers.current # 0 THEN pointers.current ELSE pointers.base
  <1>5. c \in 1..Len(commits) /\ c \in Nat
    BY <1>1 DEF PointersTyped, PointersSet, CommitsWhole
  <1>6. session' = [session EXCEPT !.pc = "top", !.current = c]
    BY DEF BeginExecution
  <1> HIDE DEF c
  <1>7. SessionTyped' /\ session'.pc = "top" /\ session'.current = c
    BY <1>5, <1>6 DEF SessionTyped, SessionPc
  <1>8. PointersTyped' /\ PointersSet'
    BY <1>1, <1>2, <1>4, <1>7 DEF PointersTyped, PointersSet
  <1>9. SessionWhole'
    BY <1>2, <1>5, <1>7 DEF SessionWhole, InLoop, InStep
  <1> QED
    BY <1>2, <1>3, <1>7, <1>8, <1>9

\* A step is staged on what is there, and applied file by file.
LEMMA ApplyingKeeps ==
  ASSUME CommitsWhole, SessionInv, StageStep \/ ApplyChange
  PROVE  SessionInv'
  <1> USE DEF SessionInv
  <1>1. UNCHANGED <<commits, pointers, stepFaults>> /\ session.pc \in {"top", "applying"}
        /\ pointers.index < Steps
    BY DEF StageStep, ApplyChange, SessionWhole, InStep, InLoop
  <1>2. CASE StageStep
    <2>1. PICK changes \in Change :
            session' = [session EXCEPT !.pc = "applying", !.changes = changes,
                          !.before = worktree.tree, !.file = 1]
      BY <1>2 DEF StageStep
    <2>2. SessionTyped' /\ session'.pc = "applying" /\ session'.changes = changes
          /\ session'.before = worktree.tree /\ session'.file = 1
          /\ session'.current = session.current
      BY <2>1 DEF SessionTyped, SessionPc, WorktreeTyped
    <2>3. worktree' = worktree /\ session.pc = "top"
      BY <1>2 DEF StageStep
    <2>4. HeadTree' = HeadTree /\ worktree.tree = HeadTree
      BY <1>1, <2>3 DEF HeadTree, SessionWhole
    <2>5. \A f \in File : ~(f < 1)
      BY StepTransactionAssumption DEF File
    <2>6. SessionWhole'
      BY <1>1, <2>2, <2>3, <2>4, <2>5, StepTransactionAssumption DEF SessionWhole, InLoop, InStep
    <2> QED
      BY <1>1, <2>2, <2>3, <2>6 DEF WorktreeTyped, PointersTyped, PointersSet
  <1>3. CASE ApplyChange
    <2> DEFINE n == session.file
               ch == session.changes
    <2>1. session.pc = "applying" /\ n \in 1..Files /\ ch \in Change /\ n \in File
          /\ Files \in Nat
      BY <1>3, StepTransactionAssumption DEF ApplyChange, SessionWhole, File
    <2>2. /\ session' = [session EXCEPT !.file = n + 1,
                           !.pc = IF n = Files THEN "applied" ELSE session.pc]
          /\ worktree' = IF n \in DOMAIN ch THEN [worktree EXCEPT !.tree[n] = ch[n]] ELSE worktree
      BY <1>3 DEF ApplyChange
    <2>3. /\ SessionTyped' /\ session'.pc = (IF n = Files THEN "applied" ELSE "applying")
          /\ session'.changes = ch /\ session'.before = session.before /\ session'.file = n + 1
          /\ session'.current = session.current
      <3>1. PICK pc \in {"applied", "applying"} :
              /\ session' = [session EXCEPT !.file = n + 1, !.pc = pc]
              /\ pc = (IF n = Files THEN "applied" ELSE "applying")
        BY <2>1, <2>2
      <3>2. n + 1 \in Nat /\ pc \in SessionPc
        BY <2>1 DEF SessionPc
      <3> DEFINE k == n + 1
      <3>3. session' = [session EXCEPT !.file = k, !.pc = pc] /\ k \in Nat /\ SessionTyped
        BY <3>1, <3>2
      <3> HIDE DEF k
      <3>4. SessionTyped' /\ session'.pc = pc /\ session'.changes = session.changes
            /\ session'.before = session.before /\ session'.file = k
            /\ session'.current = session.current
        BY <3>2, <3>3 DEF SessionTyped
      <3> QED
        BY <3>1, <3>4 DEF k
    <2>4. n \in DOMAIN ch => ch[n] \in Content \cup {Absent}
      BY <2>1, ChangeFacts
    <2>5. /\ worktree'.tree \in Tree /\ worktree'.head = worktree.head
          /\ worktree'.index = worktree.index
          /\ worktree' \in [tree : Tree, head : Nat, index : {"clean", "staged"}]
          /\ \A f \in File : worktree'.tree[f] =
               IF f = n /\ f \in DOMAIN ch THEN ch[f] ELSE worktree.tree[f]
      BY <2>1, <2>2, <2>4 DEF WorktreeTyped, Tree
    <2>6. \A f \in File : worktree.tree[f] =
            IF f \in DOMAIN ch /\ f < n THEN ch[f] ELSE session.before[f]
      BY <2>1 DEF SessionWhole
    <2>7. \A f \in File : worktree'.tree[f] =
            IF f \in DOMAIN ch /\ f < n + 1 THEN ch[f] ELSE session.before[f]
      BY <2>1, <2>5, <2>6 DEF File
    <2>8. HeadTree' = HeadTree /\ session.before = HeadTree
      BY <1>1, <2>1, <2>5 DEF HeadTree, SessionWhole
    <2>9. n = Files => worktree'.tree = Changed(session.before, ch)
      <3> SUFFICES ASSUME n = Files PROVE worktree'.tree = Changed(session.before, ch)
        OBVIOUS
      <3>1. \A f \in File : f < n + 1
        BY <2>1 DEF File
      <3>2. \A f \in File : worktree'.tree[f] = IF f \in DOMAIN ch THEN ch[f] ELSE session.before[f]
        BY <2>7, <3>1
      <3>3. worktree'.tree = [f \in File |-> worktree'.tree[f]]
        BY <2>5 DEF Tree
      <3> QED
        BY <3>2, <3>3 DEF Changed
    <2>10. SessionWhole'
      BY <1>1, <2>1, <2>3, <2>7, <2>8, <2>9 DEF SessionWhole, InLoop, InStep
    <2> QED
      BY <1>1, <2>1, <2>3, <2>5, <2>10 DEF WorktreeTyped, PointersTyped, PointersSet
  <1> QED
    BY <1>2, <1>3

\* The step is turned down, or a write fails: the files are put back one by one.
LEMMA RestoringKeeps ==
  ASSUME CommitsWhole, SessionInv, ApplyFails \/ GuardRefuses \/ RestoreBackup
  PROVE  SessionInv'
  <1> USE DEF SessionInv
  <1>1. /\ UNCHANGED <<commits, pointers>> /\ stepFaults' \in 0..MaxStepFaults
        /\ session.pc \in {"applying", "applied", "restoring"}
    BY StepTransactionAssumption DEF ApplyFails, GuardRefuses, RestoreBackup, StepFault
  <1>2. session.changes \in Change /\ pointers.index < Steps /\ session.current # 0 /\ 1 \in 1..Files
    BY <1>1, StepTransactionAssumption DEF SessionWhole, InStep, InLoop
  <1>3. CASE ApplyFails \/ GuardRefuses
    <2>1. worktree' = worktree
      BY <1>3 DEF ApplyFails, GuardRefuses
    <2>2. session' = [session EXCEPT !.pc = "restoring", !.file = 1]
      BY <1>3 DEF ApplyFails, GuardRefuses, StartRestore
    <2>3. SessionTyped' /\ session'.pc = "restoring" /\ session'.file = 1
          /\ session'.changes = session.changes /\ session'.current = session.current
      BY <2>2 DEF SessionTyped, SessionPc
    <2>4. SessionWhole'
      BY <1>1, <1>2, <2>3 DEF SessionWhole, InLoop, InStep
    <2> QED
      BY <1>1, <2>1, <2>3, <2>4 DEF WorktreeTyped, PointersTyped, PointersSet
  <1>4. CASE RestoreBackup
    <2> DEFINE n == session.file
               ch == session.changes
    <2>1. n \in 1..Files /\ n \in File /\ Files \in Nat /\ session.pc = "restoring"
      BY <1>4, StepTransactionAssumption DEF RestoreBackup, SessionWhole, File
    <2>2. worktree' = IF n \in DOMAIN ch THEN [worktree EXCEPT !.tree[n] = session.before[n]] ELSE worktree
      BY <1>4 DEF RestoreBackup
    <2>3. session.before[n] \in Content \cup {Absent}
      BY <2>1 DEF SessionTyped, Tree
    <2>4. WorktreeTyped'
      BY <1>1, <2>1, <2>2, <2>3 DEF WorktreeTyped, Tree
    <2>5. CASE n = Files
      <3>1. StepEnds("failing")
        BY <1>4, <2>5 DEF RestoreBackup
      <3>2. SessionTyped' /\ session'.pc = "failing" /\ session'.current = session.current
        BY <3>1, Ends DEF SessionPc
      <3>3. SessionWhole'
        BY <1>1, <3>2 DEF SessionWhole, InLoop, InStep
      <3> QED
        BY <1>1, <2>4, <3>2, <3>3 DEF PointersTyped, PointersSet
    <2>6. CASE n # Files
      <3> DEFINE k == n + 1
      <3>1. session' = [session EXCEPT !.file = k] /\ k \in 1..Files /\ k \in Nat
        BY <1>4, <2>1, <2>6 DEF RestoreBackup
      <3> HIDE DEF k
      <3>2. SessionTyped' /\ session'.pc = "restoring" /\ session'.current = session.current
            /\ session'.changes = ch /\ session'.file = k
        BY <2>1, <3>1 DEF SessionTyped
      <3>3. SessionWhole'
        BY <1>1, <1>2, <3>1, <3>2 DEF SessionWhole, InLoop, InStep
      <3> QED
        BY <1>1, <2>4, <3>2, <3>3 DEF PointersTyped, PointersSet
    <2> QED
      BY <2>5, <2>6
  <1> QED
    BY <1>3, <1>4

\* The new object holds the worktree's files.
LEMMA NewCommitHolds ==
  ASSUME CommitsWhole, SessionInv, session.pc = "applied", NewCommit,
         worktree' = [worktree EXCEPT !.head = Len(commits'), !.index = "clean"]
  PROVE  /\ Len(commits') = Len(commits) + 1 /\ Len(commits) \in Nat
         /\ WorktreeTyped' /\ worktree'.head = Len(commits') /\ worktree'.tree = HeadTree'
  <1> DEFINE r == [tree |-> worktree.tree, changes |-> session.changes, parent |-> worktree.head]
  <1>1. commits' = Append(commits, r) /\ worktree.head \in Nat
    BY DEF NewCommit, SessionInv, WorktreeTyped
  <1>2. r \in CommitRow /\ r.tree = worktree.tree
    BY <1>1 DEF SessionInv, WorktreeTyped, SessionTyped, CommitRow
  <1> HIDE DEF r
  <1>3. Len(commits') = Len(commits) + 1 /\ Len(commits) \in Nat /\ commits'[Len(commits')] = r
    BY <1>1, <1>2 DEF CommitsWhole
  <1>4. worktree'.head = Len(commits') /\ worktree'.tree = worktree.tree /\ WorktreeTyped'
    <2> DEFINE k == Len(commits')
    <2>1. k \in Nat /\ k \in 1..k /\ worktree' = [worktree EXCEPT !.head = k, !.index = "clean"]
      BY <1>3
    <2> HIDE DEF k
    <2>2. worktree'.head = k /\ worktree'.tree = worktree.tree
          /\ worktree' \in [tree : Tree, head : Nat, index : {"clean", "staged"}]
      BY <2>1 DEF SessionInv, WorktreeTyped
    <2> QED
      BY <2>1, <2>2 DEF WorktreeTyped, k
  <1> QED
    BY <1>2, <1>3, <1>4 DEF HeadTree

\* What is applied becomes a commit, or there is nothing to commit, or git fails.
LEMMA CommittingKeeps ==
  ASSUME CommitsWhole, SessionInv, CommitChanges \/ CommitNothing \/ CommitFails
  PROVE  SessionInv'
  <1> USE DEF SessionInv
  <1>1. /\ session.pc = "applied" /\ pointers' = pointers /\ stepFaults' \in 0..MaxStepFaults
        /\ session.changes \in Change /\ pointers.index < Steps /\ session.current # 0
        /\ 1 \in 1..Files /\ Len(commits) \in Nat
    BY StepTransactionAssumption
       DEF CommitChanges, CommitNothing, CommitFails, StepFault, SessionWhole, InStep, InLoop, CommitsWhole
  <1>2. CASE CommitChanges
    <2>1. /\ Len(commits') = Len(commits) + 1 /\ WorktreeTyped' /\ worktree'.tree = HeadTree'
      BY <1>1, <1>2, NewCommitHolds DEF CommitChanges
    <2> DEFINE k == Len(commits')
    <2>2. session' = [session EXCEPT !.pc = "committed", !.current = k] /\ k \in Nat /\ k # 0
      BY <1>1, <1>2, <2>1 DEF CommitChanges
    <2>3. SessionTyped' /\ session'.pc = "committed" /\ session'.current = k
      BY <2>2 DEF SessionTyped, SessionPc
    <2>4. PointersTyped' /\ PointersSet'
      BY <1>1, <2>1 DEF PointersTyped, PointersSet
    <2>5. SessionWhole'
      BY <1>1, <2>1, <2>2, <2>3 DEF SessionWhole, InLoop, InStep
    <2> QED
      BY <1>1, <2>1, <2>3, <2>4, <2>5
  <1>3. CASE CommitNothing
    <2>1. UNCHANGED <<commits, worktree>> /\ worktree.tree = HeadTree /\ HeadTree' = HeadTree
      BY <1>3 DEF CommitNothing, Dirty, HeadTree
    <2>2. PICK pc \in {"committed", "failing"} :
            \/ SessionGoto("committed") /\ pc = "committed"
            \/ StepEnds("failing") /\ pc = "failing"
      BY <1>3 DEF CommitNothing
    <2>3. SessionTyped' /\ session'.pc = pc /\ session'.current = session.current
      BY <2>2, GoesOn, Ends DEF SessionPc, SessionGoto
    <2>4. SessionWhole'
      BY <1>1, <2>1, <2>3 DEF SessionWhole, InLoop, InStep
    <2> QED
      BY <1>1, <2>1, <2>3, <2>4 DEF WorktreeTyped, PointersTyped, PointersSet
  <1>4. CASE CommitFails
    <2>1. session' = [session EXCEPT !.pc = "restoring", !.file = 1]
      BY <1>4 DEF CommitFails, StartRestore
    <2>2. SessionTyped' /\ session'.pc = "restoring" /\ session'.file = 1
          /\ session'.changes = session.changes /\ session'.current = session.current
      BY <2>1 DEF SessionTyped, SessionPc
    <2>3. WorktreeTyped' /\ Len(commits') \in Nat /\ Len(commits) <= Len(commits')
      <3>1. CASE commits' = commits /\ \E index \in {worktree.index, "staged"} :
                                       worktree' = [worktree EXCEPT !.index = index]
        <4>1. PICK index \in {"clean", "staged"} : worktree' = [worktree EXCEPT !.index = index]
          BY <3>1 DEF WorktreeTyped
        <4> QED
          BY <1>1, <3>1, <4>1 DEF WorktreeTyped
      <3>2. CASE NewCommit /\ worktree' = [worktree EXCEPT !.head = Len(commits'), !.index = "clean"]
        BY <1>1, <3>2, NewCommitHolds
      <3> QED
        BY <1>4, <3>1, <3>2 DEF CommitFails
    <2>4. PointersTyped' /\ PointersSet'
      BY <1>1, <2>3 DEF PointersTyped, PointersSet
    <2>5. SessionWhole'
      BY <1>1, <2>2, <2>3 DEF SessionWhole, InLoop, InStep
    <2> QED
      BY <1>1, <2>2, <2>3, <2>4, <2>5
  <1> QED
    BY <1>2, <1>3, <1>4

\* The step is over, or the run is failed or queued again from outside.
LEMMA AdvancingKeeps ==
  ASSUME CommitsWhole, SessionInv, Advance \/ FailAbandonedRun \/ RequeueRun
  PROVE  SessionInv'
  <1> USE DEF SessionInv
  <1>1. UNCHANGED <<commits, worktree, stepFaults>> /\ WorktreeTyped' /\ HeadTree' = HeadTree
    BY DEF Advance, FailAbandonedRun, RequeueRun, WorktreeTyped, HeadTree
  <1>2. CASE FailAbandonedRun \/ RequeueRun
    <2>1. PICK status \in {"failed", "queued"} : pointers' = [pointers EXCEPT !.status = status]
      BY <1>2 DEF FailAbandonedRun, RequeueRun
    <2>2. session' = session /\ session.pc = "rest"
      BY <1>2 DEF FailAbandonedRun, RequeueRun
    <2>3. PointersTyped' /\ PointersSet'
      BY <1>1, <2>1, <2>2 DEF PointersTyped, PointersSet
    <2>4. SessionWhole' /\ SessionTyped'
      BY <1>1, <2>2 DEF SessionWhole, SessionTyped, InLoop, InStep
    <2> QED
      BY <1>1, <2>3, <2>4
  <1>3. CASE Advance
    <2> DEFINE k == pointers.index + 1
               last == k = Steps
    <2>1. session.pc = "done" /\ pointers.index < Steps /\ worktree.tree = HeadTree
          /\ session.current # 0 /\ k \in 0..Steps /\ pointers.lastValid # 0
      BY <1>3, StepTransactionAssumption DEF Advance, SessionWhole, InStep, InLoop, PointersTyped, PointersSet
    <2>2. PICK status \in {"complete", "running"} :
            pointers' = [pointers EXCEPT !.index = k, !.status = status]
      BY <1>3 DEF Advance
    <2>3. PointersTyped' /\ PointersSet'
      <3> HIDE DEF k
      <3> QED
        BY <1>1, <2>1, <2>2 DEF PointersTyped, PointersSet
    <2>4. CASE last
      <3>1. session' = NoSession
        BY <1>3, <2>4 DEF Advance
      <3> QED
        BY <1>1, <2>3, <3>1, NoSessionTyped DEF SessionWhole, SessionTyped, InLoop, InStep
    <2>5. CASE ~last
      <3>1. session' = [session EXCEPT !.pc = "top"]
        BY <1>3, <2>5 DEF Advance
      <3>2. SessionTyped' /\ session'.pc = "top" /\ session'.current = session.current
        BY <3>1, GoesOn DEF SessionPc
      <3> QED
        BY <1>1, <2>1, <2>3, <3>2 DEF SessionWhole, InLoop, InStep
    <2> QED
      BY <2>4, <2>5
  <1> QED
    BY <1>2, <1>3

\* Every step keeps the invariant of the session.
LEMMA SessionKeeps ==
  ASSUME CommitsWhole, SessionInv, StepNext
  PROVE  SessionInv'
  <1>1. CASE RefuseStep \/ EmptyStep \/ RestoreFails \/ PersistPointersFails
    <2>1. stepFaults' \in 0..MaxStepFaults /\ UNCHANGED <<commits, worktree, pointers>>
      BY <1>1, StepTransactionAssumption
         DEF RefuseStep, EmptyStep, RestoreFails, PersistPointersFails, StepFault, SessionInv
    <2> QED
      BY <1>1, <2>1, EndsKeep
         DEF RefuseStep, EmptyStep, RestoreFails, PersistPointersFails, InLoop, SessionInv, SessionWhole
  <1>2. CASE FailStep \/ StepCrash
    <2>1. stepFaults' \in 0..MaxStepFaults /\ UNCHANGED <<commits, worktree>> /\ session' = NoSession
          /\ session.pc # "rest"
      BY <1>2, StepTransactionAssumption DEF FailStep, StepCrash, StepFault, SessionInv
    <2>2. PICK status \in {"queued", "running", "failed", "complete"} :
            pointers' = [pointers EXCEPT !.status = status, !.index = pointers.index]
      BY <1>2 DEF FailStep, StepCrash, SessionInv, PointersTyped
    <2>3. pointers.index \in 0..Steps
      BY DEF SessionInv, PointersTyped
    <2> QED
      BY <2>1, <2>2, <2>3, RestKeeps
  <1> QED
    BY <1>1, <1>2, EnteringKeeps, PersistingKeeps, BeginKeeps, ApplyingKeeps, RestoringKeeps,
       CommittingKeeps, AdvancingKeeps DEF StepNext

-----------------------------------------------------------------------------
(* How far the last valid commit can be from HEAD.                         *)

\* The commit c is x or directly on top of it.
OnTop(c, x) == c = x \/ commits[c].parent = x

\* HEAD's branch has x, or would have it with one commit more.
Near(x) == x \in Ancestors[worktree.head] \/ commits[x].parent = worktree.head

Resetting == {"reset", "rolledBack"}

\* Without a fault, row, session and HEAD agree.
NoFaultTrail ==
  /\ pointers.current = pointers.lastValid
  /\ OnTop(worktree.head, pointers.lastValid)
  /\ session.pc # "committed" => worktree.head = pointers.lastValid
  /\ session.pc \in InLoop => session.current = worktree.head

\* One fault leaves HEAD one commit ahead of the row, or the row's current
\* commit one ahead of HEAD after a reset.
OneFaultTrail ==
  /\ pointers.lastValid \in Ancestors[worktree.head]
  /\ session.pc # "committed" => OnTop(worktree.head, pointers.lastValid)
  /\ session.pc \in Resetting =>
       worktree.head = pointers.lastValid /\ OnTop(pointers.current, pointers.lastValid)
  /\ session.pc = "committed" =>
       /\ pointers.current \in Ancestors[worktree.head]
       /\ \/ session.current = worktree.head
          \/ session.current = pointers.lastValid /\ OnTop(worktree.head, pointers.lastValid)
  /\ session.pc \notin {"committed"} \cup Resetting =>
       pointers.current \in {pointers.lastValid, worktree.head}
  /\ session.pc \in InLoop \ {"committed"} =>
       session.current \in {pointers.lastValid, worktree.head}

\* Two may leave the row's commits ahead of HEAD, but by no more than one.
TwoFaultTrail ==
  /\ session.pc # "committed" => Near(pointers.lastValid)
  /\ session.pc \notin {"committed"} \cup Resetting => Near(pointers.current)
  /\ session.pc \in InLoop => Near(session.current)

\* Inductive, with GraphInv and SessionInv.
TrailInv ==
  pointers.lastValid # 0 =>
    /\ stepFaults = 0 => NoFaultTrail
    /\ stepFaults = 1 => OneFaultTrail
    /\ stepFaults = 2 => TwoFaultTrail

\* What is on top of a commit has it among its ancestors.
LEMMA TopIsAbove ==
  ASSUME GraphInv, NEW c \in 1..Len(commits)
  PROVE  /\ c \in Ancestors[c]
         /\ \A x \in 1..Len(commits) : OnTop(c, x) => x \in Ancestors[c]
  <1>1. \A x \in 1..Len(commits) : x \in Ancestors[x]
    BY DEF GraphInv, BranchesNest
  <1>2. Ancestors = [y \in 0..Len(commits) |-> IF y = 0 THEN {} ELSE {y} \cup Ancestors[commits[y].parent]]
    BY AncestorsAre DEF GraphInv, IsAncestors
  <1>3. Ancestors[c] = {c} \cup Ancestors[commits[c].parent]
    <2>1. c \in 0..Len(commits) /\ c # 0
      OBVIOUS
    <2> QED
      BY <1>2, <2>1, Zenon
  <1> QED
    BY <1>1, <1>3 DEF OnTop

\* The branches are those of the commits there are.
LEMMA SameCommits ==
  ASSUME commits' = commits
  PROVE  Ancestors' = Ancestors /\ History' = History
  BY DEF Ancestors, History

\* Each commit number is one, and what follows of the invariants.
LEMMA TrailFacts ==
  ASSUME GraphInv, SessionInv, TrailInv, pointers.lastValid # 0
  PROVE  /\ pointers.lastValid \in 1..Len(commits) /\ worktree.head \in 1..Len(commits)
         /\ pointers.current \in 1..Len(commits) /\ pointers.current # 0
         /\ stepFaults \in Nat /\ session.pc \in SessionPc
         /\ session.pc \in InLoop => session.current \in 1..Len(commits)
         /\ stepFaults = 0 => NoFaultTrail
         /\ stepFaults = 1 => OneFaultTrail
         /\ stepFaults = 2 => TwoFaultTrail
         /\ worktree.head \in Ancestors[worktree.head]
         /\ OnTop(worktree.head, pointers.lastValid) =>
              pointers.lastValid \in Ancestors[worktree.head]
  <1>1. pointers.lastValid \in 1..Len(commits) /\ worktree.head \in 1..Len(commits)
        /\ pointers.current \in 1..Len(commits) /\ stepFaults \in Nat /\ session.pc \in SessionPc
        /\ (session.pc \in InLoop => session.current \in 1..Len(commits))
    BY StepTransactionAssumption
       DEF SessionInv, PointersTyped, PointersSet, WorktreeTyped, SessionTyped, SessionWhole
  <1>2. /\ worktree.head \in Ancestors[worktree.head]
        /\ OnTop(worktree.head, pointers.lastValid) => pointers.lastValid \in Ancestors[worktree.head]
    BY <1>1, TopIsAbove
  <1> QED
    BY <1>1, <1>2 DEF TrailInv

\* The execution goes on without a fault, HEAD stays and so does the row.
LEMMA GoingKeepsTrail ==
  ASSUME GraphInv, SessionInv, TrailInv,
         UNCHANGED <<commits, stepFaults>>, worktree'.head = worktree.head,
         pointers'.lastValid = pointers.lastValid, pointers'.current = pointers.current,
         \/ session'.pc \in {"rest", "entered", "failing"} /\ session.pc \notin {"committed"} \cup Resetting
         \/ /\ session.pc \in InLoop /\ session.pc # "committed" /\ session'.pc \in InLoop
            /\ session'.current = session.current
         \/ /\ session.pc \in {"entered", "recovered"} /\ session'.pc = "top"
            /\ session'.current = pointers.current
  PROVE  TrailInv'
  <1> SUFFICES ASSUME pointers.lastValid # 0
               PROVE /\ stepFaults = 0 => NoFaultTrail'
                     /\ stepFaults = 1 => OneFaultTrail'
                     /\ stepFaults = 2 => TwoFaultTrail'
    BY DEF TrailInv
  <1>1. Ancestors' = Ancestors /\ commits' = commits
    BY SameCommits
  <1> USE TrailFacts, <1>1
  <1>2. stepFaults = 0 => NoFaultTrail'
    BY DEF NoFaultTrail, OnTop, InLoop, Resetting
  <1>3. stepFaults = 1 => OneFaultTrail'
    BY DEF OneFaultTrail, OnTop, InLoop, Resetting
  <1>4. stepFaults = 2 => TwoFaultTrail'
    BY DEF TwoFaultTrail, Near, InLoop, Resetting
  <1> QED
    BY <1>2, <1>3, <1>4

\* A fault that commits nothing ends the execution or begins to restore files.
LEMMA FaultKeepsTrail ==
  ASSUME GraphInv, SessionInv, TrailInv,
         commits' = commits, stepFaults' = stepFaults + 1, worktree'.head = worktree.head,
         pointers'.lastValid = pointers.lastValid,
         \/ /\ pointers'.current = pointers.current
            /\ session'.pc \in {"rest", "failing"}
         \/ /\ pointers'.current = pointers.lastValid /\ session.pc = "done"
            /\ session'.pc = "failing"
         \/ /\ pointers'.current = pointers.current /\ session'.current = session.current
            /\ session.pc \in {"applying", "applied"} /\ session'.pc = "restoring"
  PROVE  TrailInv'
  <1> SUFFICES ASSUME pointers.lastValid # 0
               PROVE /\ stepFaults + 1 = 0 => NoFaultTrail'
                     /\ stepFaults + 1 = 1 => OneFaultTrail'
                     /\ stepFaults + 1 = 2 => TwoFaultTrail'
    BY DEF TrailInv
  <1>1. Ancestors' = Ancestors /\ commits' = commits
    BY SameCommits
  <1> USE TrailFacts, <1>1
  <1>2. stepFaults + 1 # 0
    OBVIOUS
  <1>3. stepFaults = 0 => OneFaultTrail'
    BY DEF NoFaultTrail, OneFaultTrail, OnTop, InLoop, Resetting
  <1>4. stepFaults = 1 => TwoFaultTrail'
    BY DEF OneFaultTrail, TwoFaultTrail, Near, OnTop, InLoop, Resetting
  <1> QED
    BY <1>2, <1>3, <1>4

\* A reset goes to the last valid commit.
LEMMA ResetKeepsTrail ==
  ASSUME GraphInv, SessionInv, TrailInv,
         UNCHANGED <<commits, stepFaults, pointers>>, worktree'.head = pointers.lastValid,
         session.pc \in {"entered", "done"}, session'.pc \in Resetting
  PROVE  TrailInv'
  <1> SUFFICES ASSUME pointers.lastValid # 0
               PROVE /\ stepFaults = 0 => NoFaultTrail'
                     /\ stepFaults = 1 => OneFaultTrail'
                     /\ stepFaults = 2 => TwoFaultTrail'
    BY DEF TrailInv
  <1>1. Ancestors' = Ancestors /\ commits' = commits
    BY SameCommits
  <1>2. pointers.lastValid \in Ancestors[pointers.lastValid]
    BY TrailFacts, TopIsAbove
  <1> USE TrailFacts, <1>1, <1>2
  <1>3. stepFaults = 0 => NoFaultTrail'
    BY DEF NoFaultTrail, OnTop, InLoop, Resetting
  <1>4. stepFaults = 1 => OneFaultTrail'
    BY DEF OneFaultTrail, OnTop, InLoop, Resetting
  <1>5. stepFaults = 2 => TwoFaultTrail'
    BY DEF TwoFaultTrail, Near, InLoop, Resetting
  <1> QED
    BY <1>3, <1>4, <1>5

\* The row is written: HEAD after a reset, the session's commit after a step,
\* and HEAD by the execution that enters first.
LEMMA WriteKeepsTrail ==
  ASSUME GraphInv, SessionInv, TrailInv, GraphInv', SessionInv',
         UNCHANGED <<commits, stepFaults>>, worktree'.head = worktree.head,
         \/ /\ session.pc \in Resetting /\ session'.pc \in {"recovered", "failing"}
            /\ pointers'.current = worktree.head /\ pointers'.lastValid = pointers.lastValid
         \/ /\ session.pc = "committed" /\ session'.pc = "done"
            /\ session'.current = session.current
            /\ pointers'.current = session.current /\ pointers'.lastValid = session.current
         \/ /\ session.pc = "rest" /\ session'.pc = "entered"
            /\ pointers'.current = worktree.head
            /\ pointers'.lastValid = (IF pointers.lastValid # 0 THEN pointers.lastValid
                                      ELSE worktree.head)
  PROVE  TrailInv'
  <1> DEFINE H == worktree.head
  <1>1. Ancestors' = Ancestors /\ commits' = commits /\ stepFaults' = stepFaults
    BY SameCommits
  <1>2. H \in 1..Len(commits) /\ H \in Ancestors[H] /\ H # 0
    BY TopIsAbove DEF SessionInv, WorktreeTyped
  <1>3. CASE session.pc \in Resetting
    <2>1. pointers.lastValid # 0
      BY <1>3 DEF SessionInv, PointersSet, Resetting
    <2> USE <2>1, <1>1, <1>2, <1>3, TrailFacts
    <2>2. stepFaults = 0 => NoFaultTrail'
      BY DEF NoFaultTrail, OnTop, InLoop, Resetting
    <2>3. stepFaults = 1 => OneFaultTrail'
      BY DEF OneFaultTrail, OnTop, InLoop, Resetting
    <2>4. stepFaults = 2 => TwoFaultTrail'
      BY DEF TwoFaultTrail, Near, InLoop, Resetting
    <2> QED
      BY <2>2, <2>3, <2>4 DEF TrailInv
  <1>4. CASE session.pc = "committed"
    <2>1. pointers.lastValid # 0
      BY <1>4 DEF SessionInv, PointersSet
    <2>2. session.current \in 1..Len(commits)
          /\ (OnTop(H, session.current) => session.current \in Ancestors[H])
      BY <1>2, <1>4, <2>1, TrailFacts, TopIsAbove DEF InLoop
    <2>3. /\ session'.pc = "done" /\ session'.current = session.current
          /\ pointers'.current = session.current /\ pointers'.lastValid = session.current
      BY <1>4 DEF Resetting
    <2> USE <2>1, <2>2, <2>3, <1>1, <1>2, <1>4, TrailFacts
    <2>4. stepFaults = 0 => NoFaultTrail'
      BY DEF NoFaultTrail, OnTop, InLoop, Resetting
    <2>5. stepFaults = 1 => OneFaultTrail'
      BY DEF OneFaultTrail, OnTop, InLoop, Resetting
    <2>6. stepFaults = 2 => TwoFaultTrail'
      BY DEF TwoFaultTrail, Near, InLoop, Resetting
    <2> QED
      BY <2>4, <2>5, <2>6 DEF TrailInv
  <1>5. CASE session.pc = "rest" /\ pointers.lastValid # 0
    <2>1. /\ session'.pc = "entered" /\ pointers'.current = H
          /\ pointers'.lastValid = pointers.lastValid
      BY <1>5 DEF Resetting
    <2> USE <2>1, <1>1, <1>2, <1>5, TrailFacts
    <2>2. stepFaults = 0 => NoFaultTrail'
      BY DEF NoFaultTrail, OnTop, InLoop, Resetting
    <2>3. stepFaults = 1 => OneFaultTrail'
      BY DEF OneFaultTrail, OnTop, InLoop, Resetting
    <2>4. stepFaults = 2 => TwoFaultTrail'
      BY DEF TwoFaultTrail, Near, InLoop, Resetting
    <2> QED
      BY <2>2, <2>3, <2>4 DEF TrailInv
  <1>6. CASE session.pc = "rest" /\ pointers.lastValid = 0
    <2>1. session'.pc = "entered" /\ pointers'.current = H /\ pointers'.lastValid = H
      BY <1>6 DEF Resetting
    <2>2. NoFaultTrail'
      BY <1>1, <2>1 DEF NoFaultTrail, OnTop, InLoop
    <2>3. OneFaultTrail'
      BY <1>1, <1>2, <2>1 DEF OneFaultTrail, OnTop, InLoop, Resetting
    <2>4. TwoFaultTrail'
      BY <1>1, <1>2, <2>1 DEF TwoFaultTrail, Near, InLoop, Resetting
    <2> QED
      BY <2>2, <2>3, <2>4 DEF TrailInv
  <1> QED
    BY <1>3, <1>4, <1>5, <1>6

\* A commit goes on top of HEAD, whether the session gets to know it or not.
LEMMA GrowthKeepsTrail ==
  ASSUME GraphInv, SessionInv, TrailInv, Grown(worktree.head), worktree'.head = Len(commits'),
         pointers' = pointers, session.pc = "applied",
         \/ /\ stepFaults' = stepFaults /\ session'.pc = "committed"
            /\ session'.current = Len(commits')
         \/ /\ stepFaults' = stepFaults + 1 /\ session'.pc = "restoring"
            /\ session'.current = session.current
  PROVE  TrailInv'
  <1> SUFFICES ASSUME pointers.lastValid # 0
               PROVE /\ stepFaults' = 0 => NoFaultTrail'
                     /\ stepFaults' = 1 => OneFaultTrail'
                     /\ stepFaults' = 2 => TwoFaultTrail'
    BY DEF TrailInv
  <1> DEFINE H == worktree.head
             k == Len(commits')
  <1>1. worktree'.head = k /\ commits'[k].parent = H /\ Ancestors'[k] = {k} \cup Ancestors[H]
    BY NewObject, GraphGrows DEF GraphInv
  <1>2. H \in Ancestors[H]
    BY TrailFacts
  <1> HIDE DEF k
  <1> USE TrailFacts, <1>1, <1>2
  <1>3. CASE stepFaults' = stepFaults /\ session'.pc = "committed" /\ session'.current = k
    <2>1. stepFaults = 0 => NoFaultTrail'
      BY <1>3 DEF NoFaultTrail, OnTop, InLoop, Resetting
    <2>2. stepFaults = 1 => OneFaultTrail'
      BY <1>3 DEF OneFaultTrail, OnTop, InLoop, Resetting
    <2>3. stepFaults = 2 => TwoFaultTrail'
      BY <1>3 DEF TwoFaultTrail, Near, InLoop, Resetting
    <2> QED
      BY <1>3, <2>1, <2>2, <2>3
  <1>4. CASE /\ stepFaults' = stepFaults + 1 /\ session'.pc = "restoring"
             /\ session'.current = session.current
    <2>1. stepFaults' # 0
      BY <1>4
    <2>2. stepFaults = 0 => OneFaultTrail'
      BY <1>4 DEF NoFaultTrail, OneFaultTrail, OnTop, InLoop, Resetting
    <2>3. stepFaults = 1 => TwoFaultTrail'
      BY <1>4 DEF OneFaultTrail, TwoFaultTrail, Near, OnTop, InLoop, Resetting
    <2> QED
      BY <1>4, <2>1, <2>2, <2>3
  <1> QED
    BY <1>3, <1>4 DEF k

\* Every step of the execution.
LEMMA TrailKeeps ==
  ASSUME GraphInv, SessionInv, TrailInv, StepNext, SessionInv'
  PROVE  TrailInv'
  <1> USE DEF SessionInv
  <1>1. CASE EnterContext
    <2>1. session'.pc = "entered" /\ session'.current = session.current
      BY <1>1, GoesOn DEF EnterContext, SessionGoto, SessionPc
    <2>2. UNCHANGED <<commits, worktree, stepFaults>> /\ session.pc = "rest"
      BY <1>1 DEF EnterContext
    <2>3. CASE pointers.status = "queued" /\ pointers.index = 0
      <3>1. /\ pointers'.current = worktree.head
            /\ pointers'.lastValid = (IF pointers.lastValid # 0 THEN pointers.lastValid
                                      ELSE worktree.head)
        BY <1>1, <2>3 DEF EnterContext, PointersTyped
      <3>2. GraphInv'
        BY <2>2, SameCommits DEF GraphInv, CommitsWhole, WholeCommit, BranchesNest
      <3> QED
        BY <2>1, <2>2, <3>1, <3>2, WriteKeepsTrail
    <2>4. CASE ~(pointers.status = "queued" /\ pointers.index = 0)
      <3>1. pointers' = pointers
        BY <1>1, <2>4 DEF EnterContext
      <3> QED
        BY <2>1, <2>2, <3>1, GoingKeepsTrail DEF Resetting
    <2> QED
      BY <2>3, <2>4
  <1>2. CASE RecoverWorkspace \/ Rollback
    <2>1. session.pc \in {"entered", "done"} /\ pointers.lastValid # 0
          /\ UNCHANGED <<commits, pointers, stepFaults>> /\ worktree' = ResetTo(RecoveryRef)
      BY <1>2 DEF RecoverWorkspace, Rollback, PointersSet
    <2>2. worktree'.head = pointers.lastValid
      BY <2>1, RecoveryRefThere DEF ResetTo
    <2>3. session'.pc \in Resetting
      BY <1>2 DEF RecoverWorkspace, Rollback, SessionGoto, SessionTyped, Resetting
    <2> QED
      BY <2>1, <2>2, <2>3, ResetKeepsTrail
  <1>3. CASE PersistRecovery \/ PersistPointers
    <2>1. UNCHANGED <<commits, worktree, stepFaults>>
      BY <1>3 DEF PersistRecovery, PersistPointers
    <2>2. GraphInv'
      BY <2>1, SameCommits DEF GraphInv, CommitsWhole, WholeCommit, BranchesNest
    <2>3. CASE PersistRecovery
      <3>1. session.pc \in Resetting /\ pointers'.current = worktree.head
            /\ pointers'.lastValid = pointers.lastValid
        BY <2>3 DEF PersistRecovery, PointersTyped, Resetting
      <3>2. session'.pc \in {"recovered", "failing"}
        BY <2>3, Ends DEF PersistRecovery, SessionPc
      <3> QED
        BY <2>1, <2>2, <3>1, <3>2, WriteKeepsTrail
    <2>4. CASE PersistPointers
      <3>1. session.pc = "committed" /\ pointers'.current = session.current
            /\ pointers'.lastValid = session.current
        BY <2>4 DEF PersistPointers, PointersTyped
      <3>2. session'.pc = "done" /\ session'.current = session.current
        BY <2>4, Ends DEF PersistPointers, SessionPc
      <3> QED
        BY <2>1, <2>2, <3>1, <3>2, WriteKeepsTrail
    <2> QED
      BY <1>3, <2>3, <2>4
  <1>4. CASE BeginExecution
    <2>1. UNCHANGED <<commits, worktree, stepFaults>> /\ session.pc \in {"entered", "recovered"}
          /\ pointers'.current = pointers.current /\ pointers'.lastValid = pointers.lastValid
      BY <1>4 DEF BeginExecution, PointersTyped
    <2>2. pointers.current # 0
      BY <2>1 DEF PointersSet
    <2>3. session'.pc = "top" /\ session'.current = pointers.current
      BY <1>4, <2>2 DEF BeginExecution, SessionTyped
    <2> QED
      BY <2>1, <2>3, GoingKeepsTrail
  <1>5. CASE StageStep \/ ApplyChange \/ GuardRefuses \/ RestoreBackup \/ RefuseStep \/ EmptyStep
             \/ CommitNothing
    <2>1. UNCHANGED <<commits, pointers, stepFaults>> /\ session.pc \in InLoop
          /\ session.pc # "committed"
      BY <1>5 DEF StageStep, ApplyChange, GuardRefuses, RestoreBackup, RefuseStep, EmptyStep,
                  CommitNothing, InLoop
    <2>2. worktree'.head = worktree.head
      BY <1>5 DEF StageStep, ApplyChange, GuardRefuses, RestoreBackup, RefuseStep, EmptyStep,
                  CommitNothing, WorktreeTyped
    <2>3. /\ session'.current = session.current
          /\ session'.pc \in InLoop \cup {"failing"}
      <3>1. CASE StageStep
        BY <3>1 DEF StageStep, SessionTyped, InLoop
      <3>2. CASE ApplyChange
        <4>1. PICK pc \in {"applied", "applying"} :
                session' = [session EXCEPT !.file = session.file + 1, !.pc = pc]
          BY <3>2 DEF ApplyChange
        <4> QED
          BY <4>1 DEF SessionTyped, InLoop
      <3>3. CASE GuardRefuses
        BY <3>3 DEF GuardRefuses, StartRestore, SessionTyped, InLoop
      <3>4. CASE RestoreBackup
        BY <3>4, Ends DEF RestoreBackup, SessionTyped, SessionPc, InLoop
      <3>5. CASE RefuseStep \/ EmptyStep \/ CommitNothing
        BY <3>5, Ends, GoesOn DEF RefuseStep, EmptyStep, CommitNothing, SessionGoto, SessionPc, InLoop
      <3> QED
        BY <1>5, <3>1, <3>2, <3>3, <3>4, <3>5
    <2> QED
      BY <2>1, <2>2, <2>3, GoingKeepsTrail DEF Resetting, InLoop
  <1>6. CASE Advance \/ FailStep \/ FailAbandonedRun \/ RequeueRun
    <2>1. UNCHANGED <<commits, worktree, stepFaults>>
          /\ session.pc \notin {"committed"} \cup Resetting
      BY <1>6 DEF Advance, FailStep, FailAbandonedRun, RequeueRun, Resetting
    <2>2. pointers'.current = pointers.current /\ pointers'.lastValid = pointers.lastValid
      BY <1>6 DEF Advance, FailStep, FailAbandonedRun, RequeueRun, PointersTyped
    <2>3. \/ session'.pc = "rest"
          \/ session.pc = "done" /\ session'.pc = "top" /\ session'.current = session.current
      BY <1>6, NoSessionTyped DEF Advance, FailStep, FailAbandonedRun, RequeueRun, SessionTyped
    <2> QED
      BY <2>1, <2>2, <2>3, GoingKeepsTrail DEF InLoop
  <1>7. CASE ApplyFails \/ RestoreFails \/ PersistPointersFails \/ StepCrash \/ RollbackFails
    <2>1. UNCHANGED <<commits, worktree>> /\ stepFaults' = stepFaults + 1
          /\ pointers'.lastValid = pointers.lastValid
      BY <1>7 DEF ApplyFails, RestoreFails, PersistPointersFails, StepCrash, RollbackFails, StepFault,
                  PointersTyped
    <2>2. CASE RollbackFails
      <3>1. session.pc = "done" /\ pointers.lastValid # 0 /\ session'.pc = "failing"
        BY <2>2, Ends DEF RollbackFails, PointersSet, SessionPc
      <3>2. pointers'.current = pointers.lastValid
        BY <2>2, <3>1, RecoveryRefThere DEF RollbackFails, PointersTyped
      <3> QED
        BY <2>1, <3>1, <3>2, FaultKeepsTrail
    <2>3. CASE ApplyFails
      <3>1. session.pc = "applying" /\ session'.pc = "restoring"
            /\ session'.current = session.current /\ pointers' = pointers
        BY <2>3 DEF ApplyFails, StartRestore, SessionTyped
      <3> QED
        BY <2>1, <3>1, FaultKeepsTrail
    <2>4. CASE RestoreFails \/ PersistPointersFails \/ StepCrash
      <3>1. session'.pc \in {"rest", "failing"} /\ pointers' = pointers
        BY <2>4, Ends, NoSessionTyped DEF RestoreFails, PersistPointersFails, StepCrash, SessionPc
      <3> QED
        BY <2>1, <3>1, FaultKeepsTrail
    <2> QED
      BY <1>7, <2>2, <2>3, <2>4
  <1>8. CASE CommitChanges \/ CommitFails
    <2>1. session.pc = "applied" /\ pointers' = pointers
      BY <1>8 DEF CommitChanges, CommitFails
    <2>2. CASE CommitChanges
      <3>1. stepFaults' = stepFaults /\ session'.pc = "committed" /\ session'.current = Len(commits')
            /\ worktree'.head = Len(commits') /\ commits' # commits
        BY <2>2 DEF CommitChanges, NewCommit, SessionTyped, WorktreeTyped, GraphInv, CommitsWhole
      <3>2. Grown(worktree.head)
        BY <3>1, CommitsGrow DEF GraphInv
      <3> QED
        BY <2>1, <3>1, <3>2, GrowthKeepsTrail
    <2>3. CASE CommitFails
      <3>1. stepFaults' = stepFaults + 1 /\ session'.pc = "restoring"
            /\ session'.current = session.current
        BY <2>3 DEF CommitFails, StartRestore, StepFault, SessionTyped
      <3>2. CASE commits' = commits /\ worktree'.head = worktree.head
        BY <2>1, <3>1, <3>2, FaultKeepsTrail
      <3>3. CASE NewCommit /\ worktree'.head = Len(commits')
        <4>1. commits' # commits
          BY <3>3 DEF NewCommit, GraphInv, CommitsWhole
        <4>2. Grown(worktree.head)
          BY <4>1, CommitsGrow DEF GraphInv
        <4> QED
          BY <2>1, <3>1, <3>3, <4>2, GrowthKeepsTrail
      <3> QED
        BY <2>3, <3>2, <3>3 DEF CommitFails, WorktreeTyped
    <2> QED
      BY <1>8, <2>2, <2>3
  <1> QED
    BY <1>1, <1>2, <1>3, <1>4, <1>5, <1>6, <1>7, <1>8 DEF StepNext

-----------------------------------------------------------------------------
\* Inductive.
StepInv == GraphInv /\ SessionInv /\ TrailInv

\* A new run has one commit, and no pointer to it.
LEMMA StepInitInv == StepInit => StepInv
  <1> SUFFICES ASSUME StepInit PROVE StepInv
    OBVIOUS
  <1> DEFINE first == [tree |-> [f \in File |-> IF f = 1 THEN CHOOSE c \in Content : TRUE ELSE Absent],
                       changes |-> NoChange, parent |-> 0]
             row == [tree |-> first.tree, changes |-> first.changes]
             h == [c \in 0..1 |-> IF c = 0 THEN <<>> ELSE <<row>>]
             a == [c \in 0..1 |-> IF c = 0 THEN {} ELSE {1}]
  <1>1. commits = <<first>>
    BY DEF StepInit
  <1>2. first.tree \in Tree
    BY StepTransactionAssumption DEF Tree
  <1>3. first \in CommitRow /\ first.parent = 0 /\ first.changes = NoChange
    BY <1>2 DEF CommitRow
  <1> HIDE DEF first
  <1>4. Len(commits) = 1 /\ commits[1] = first
    BY <1>1
  <1>5. CommitsWhole
    BY <1>1, <1>3, <1>4 DEF CommitsWhole
  <1>6. OneHistory(commits) /\ \A g : IsHistory(g, commits) => g[1] = <<row>>
    <2> DEFINE empty == <<>>
    <2>1. \A g : IsHistory(g, commits) <=>
                 g = [c \in 0..1 |-> IF c = 0 THEN empty
                                    ELSE Append(g[commits[c].parent],
                                                [tree |-> commits[c].tree, changes |-> commits[c].changes])]
      BY <1>4 DEF IsHistory
    <2>2. Append(empty, row) = <<row>>
      OBVIOUS
    <2>3. [tree |-> commits[1].tree, changes |-> commits[1].changes] = row /\ commits[1].parent = 0
      BY <1>3, <1>4
    <2>4. h[0] = empty /\ h[1] = <<row>>
      OBVIOUS
    <2>5. \A c \in 0..1 : c = 0 \/ c = 1
      OBVIOUS
    <2>6. h = [c \in 0..1 |-> h[c]]
      OBVIOUS
    <2> HIDE DEF h, row, empty
    <2>7. \A c \in 0..1 : h[c] = IF c = 0 THEN empty
                                ELSE Append(h[commits[c].parent],
                                            [tree |-> commits[c].tree, changes |-> commits[c].changes])
      BY <2>2, <2>3, <2>4, <2>5, Zenon
    <2>8. h = [c \in 0..1 |-> IF c = 0 THEN empty
                            ELSE Append(h[commits[c].parent],
                                        [tree |-> commits[c].tree, changes |-> commits[c].changes])]
      BY <2>6, <2>7, Zenon
    <2>9. ASSUME NEW g, IsHistory(g, commits) PROVE g = h /\ g[1] = <<row>>
      <3>1. g = [c \in 0..1 |-> IF c = 0 THEN empty
                              ELSE Append(g[commits[c].parent],
                                          [tree |-> commits[c].tree, changes |-> commits[c].changes])]
        BY <2>1, <2>9
      <3>2. 0 \in 0..1 /\ 1 \in 0..1 /\ 1 # 0
        OBVIOUS
      <3>3. g[0] = empty
        BY <3>1, <3>2, Zenon
      <3>4. g[1] = Append(g[commits[1].parent], [tree |-> commits[1].tree, changes |-> commits[1].changes])
        BY <3>1, <3>2, Zenon
      <3>5. g[1] = <<row>>
        BY <2>2, <2>3, <3>3, <3>4
      <3>6. \A c \in 0..1 : g[c] = h[c]
        BY <2>4, <2>5, <3>3, <3>5
      <3>7. g = [c \in 0..1 |-> g[c]]
        BY <3>1, Zenon
      <3>8. g = h
        BY <2>6, <3>6, <3>7, Zenon
      <3> QED
        BY <3>5, <3>8
    <2> QED
      BY <2>1, <2>8, <2>9 DEF OneHistory
  <1>7. OneAncestry(commits) /\ \A g : IsAncestors(g, commits) => g[1] = {1}
    <2>1. \A g : IsAncestors(g, commits) <=>
                 g = [c \in 0..1 |-> IF c = 0 THEN {} ELSE {c} \cup g[commits[c].parent]]
      BY <1>4 DEF IsAncestors
    <2>2. commits[1].parent = 0 /\ \A c \in 0..1 : c = 0 \/ c = 1
      BY <1>3, <1>4
    <2>3. a[0] = {} /\ a[1] = {1} /\ a = [c \in 0..1 |-> IF c = 0 THEN {} ELSE {c} \cup a[commits[c].parent]]
      BY <2>2
    <2>4. ASSUME NEW g, IsAncestors(g, commits) PROVE g = a /\ g[1] = {1}
      <3>1. g = [c \in 0..1 |-> IF c = 0 THEN {} ELSE {c} \cup g[commits[c].parent]]
        BY <2>1, <2>4
      <3>2. g[0] = {} /\ g[1] = {1} \cup g[commits[1].parent]
        BY <3>1
      <3>3. \A c \in 0..1 : g[c] = a[c]
        BY <2>2, <2>3, <3>2
      <3> QED
        BY <2>2, <3>1, <3>2, <3>3
    <2>5. \E g : IsAncestors(g, commits)
      BY <2>1, <2>3, Zenon
    <2> HIDE DEF a
    <2> QED
      BY <2>4, <2>5 DEF OneAncestry
  <1>8. BranchesNest
    <2>1. History[1] = <<row>> /\ Ancestors[1] = {1}
      BY <1>6, <1>7, HistoryIs, AncestorsAre
    <2>2. row \in [tree : Tree, changes : Change \cup {NoChange}] /\ row.tree = commits[1].tree
      BY <1>3, <1>4 DEF CommitRow
    <2> HIDE DEF row
    <2>3. \A c \in 1..Len(commits) : c = 1
      BY <1>4
    <2> DEFINE T == [tree : Tree, changes : Change \cup {NoChange}]
               s == <<row>>
    <2>4. row \in T
      BY <2>2
    <2> HIDE DEF T
    <2>5. s \in Seq(T) /\ Len(s) = 1 /\ s[1] = row
      BY <2>4
    <2> HIDE DEF s
    <2>6. s = SubSeq(s, 1, Len(s))
      BY <2>5
    <2>7. History[1] = s /\ Ancestors[1] = {1} /\ 1 \in 1..1 /\ s[1].tree = commits[1].tree
      BY <2>1, <2>2, <2>5 DEF s
    <2> QED
      BY <2>3, <2>5, <2>6, <2>7 DEF BranchesNest, T
  <1>9. SessionInv
    <2>1. /\ worktree = [tree |-> first.tree, head |-> 1, index |-> "clean"]
          /\ pointers = [base |-> 0, current |-> 0, lastValid |-> 0, status |-> "queued", index |-> 0]
          /\ session = NoSession /\ stepFaults = 0
      BY <1>4 DEF StepInit
    <2>2. SessionTyped /\ WorktreeTyped /\ PointersTyped
      BY <1>2, <1>4, <2>1, NoSessionTyped, StepTransactionAssumption DEF SessionTyped, WorktreeTyped, PointersTyped
    <2>3. PointersSet /\ SessionWhole
      BY <1>4, <2>1, NoSessionTyped DEF PointersSet, SessionWhole, InStep, InLoop
    <2> QED
      BY <2>1, <2>2, <2>3, StepTransactionAssumption DEF SessionInv
  <1>10. TrailInv
    BY DEF StepInit, TrailInv
  <1> QED
    BY <1>5, <1>6, <1>7, <1>8, <1>9, <1>10 DEF StepInv, GraphInv

\* Every step, and none.
LEMMA StepNextInv == StepInv /\ [StepNext]_stepVars => StepInv'
  <1> SUFFICES ASSUME StepInv, [StepNext]_stepVars PROVE StepInv'
    OBVIOUS
  <1> USE DEF StepInv
  <1>1. CASE StepNext
    <2>1. SessionInv'
      BY <1>1, SessionKeeps DEF GraphInv
    <2>2. TrailInv'
      BY <1>1, <2>1, TrailKeeps
    <2>3. GraphInv'
      <3>1. CASE commits' = commits
        BY <3>1, SameCommits DEF GraphInv, CommitsWhole, WholeCommit, BranchesNest
      <3>2. CASE commits' # commits
        <4>1. Grown(worktree.head)
          BY <1>1, <3>2, CommitsGrow DEF GraphInv
        <4> QED
          BY <4>1, GraphGrows
      <3> QED
        BY <3>1, <3>2
    <2> QED
      BY <2>1, <2>2, <2>3
  <1>2. CASE UNCHANGED stepVars
    <2>1. UNCHANGED <<commits, worktree, pointers, session, stepFaults>>
      BY <1>2 DEF stepVars
    <2>2. GraphInv'
      BY <2>1, SameCommits DEF GraphInv, CommitsWhole, WholeCommit, BranchesNest
    <2>3. SessionInv'
      BY <2>1 DEF SessionInv, SessionTyped, WorktreeTyped, PointersTyped, PointersSet, SessionWhole, HeadTree
    <2>4. TrailInv'
      BY <2>1, SameCommits DEF TrailInv, NoFaultTrail, OneFaultTrail, TwoFaultTrail, OnTop, Near
    <2> QED
      BY <2>2, <2>3, <2>4
  <1> QED
    BY <1>1, <1>2

\* StepInv holds in every state the kernel, git and the row reach.
LEMMA StepAlways == StepSpec => []StepInv
  BY StepInitInv, StepNextInv, PTL DEF StepSpec

\* The commits, the row and the worktree are what git and the columns hold.
LEMMA StepTyped == StepInv => StepTypeOK
  <1> SUFFICES ASSUME StepInv PROVE StepTypeOK
    OBVIOUS
  <1>1. \A c \in 1..Len(commits) : commits[c].tree \in Tree /\ commits[c].parent \in 0..(c - 1)
    BY CommitTree, ParentsOlder DEF StepInv, GraphInv
  <1>2. DOMAIN commits = 1..Len(commits) /\ Len(commits) \in Nat
    BY DEF StepInv, GraphInv, CommitsWhole
  <1>3. worktree \in [tree : Tree, head : DOMAIN commits, index : {"clean", "staged"}]
    BY <1>2 DEF StepInv, SessionInv, WorktreeTyped
  <1>4. pointers \in [base : 0..Len(commits), current : 0..Len(commits), lastValid : 0..Len(commits),
                     status : {"queued", "running", "failed", "complete"}, index : 0..Steps]
    BY DEF StepInv, SessionInv, PointersTyped
  <1> QED
    BY <1>1, <1>2, <1>3, <1>4 DEF StepTypeOK, StepInv, SessionInv, SessionWhole

\* A commit on top of another one is a whole step more on the branch.
LEMMA OneStepMore ==
  ASSUME GraphInv, NEW c \in 1..Len(commits), NEW p \in 1..Len(commits), commits[c].parent = p
  PROVE  \E changes \in Change :
           History[c] = Append(History[p],
                               [tree |-> Branch!Changed(History[p][Len(History[p])].tree, changes),
                                changes |-> changes])
  <1>1. c # 1 /\ c \in 2..Len(commits)
    BY DEF GraphInv, CommitsWhole
  <1>2. WholeCommit(c)
    BY <1>1 DEF GraphInv, CommitsWhole
  <1> DEFINE ch == commits[c].changes
  <1>3. ch \in Change /\ commits[c].tree = Changed(commits[p].tree, ch)
    BY <1>2 DEF WholeCommit
  <1>4. History[p][Len(History[p])].tree = commits[p].tree
    BY DEF GraphInv, BranchesNest
  <1>5. commits[p].tree \in [File -> Content \cup {Absent}]
    BY CommitTree DEF GraphInv, Tree
  <1>6. Branch!Changed(commits[p].tree, ch) = Changed(commits[p].tree, ch)
    BY <1>5 DEF Branch!Changed, Changed
  <1>7. History = [x \in 0..Len(commits) |-> IF x = 0 THEN <<>>
                    ELSE Append(History[commits[x].parent],
                                [tree |-> commits[x].tree, changes |-> commits[x].changes])]
    BY HistoryIs DEF GraphInv, IsHistory
  <1>8. c \in 0..Len(commits) /\ c # 0
    OBVIOUS
  <1>9. History[c] = Append(History[commits[c].parent],
                            [tree |-> commits[c].tree, changes |-> commits[c].changes])
    BY <1>7, <1>8, Zenon
  <1> QED
    BY <1>3, <1>4, <1>6, <1>9

\* What HEAD's branch has beyond that of the commit below.
HeadIsOneMore ==
  \A p \in 1..Len(commits) : commits[worktree.head].parent = p =>
    \E changes \in Change :
      History[worktree.head] =
        Append(History[p], [tree |-> Branch!Changed(History[p][Len(History[p])].tree, changes),
                            changes |-> changes])

\* HEAD is on top of its parent.
LEMMA HeadOneMore == GraphInv /\ worktree.head \in 1..Len(commits) => HeadIsOneMore
  BY OneStepMore DEF HeadIsOneMore

\* The head moves by a commit or by a reset to the last valid commit.
LEMMA HeadMoves ==
  ASSUME CommitsWhole, SessionInv, StepNext, commits' = commits, worktree'.head # worktree.head
  PROVE  /\ pointers.lastValid # 0 /\ worktree'.head = pointers.lastValid
         /\ session.pc \in {"entered", "done"}
  <1>1. CASE RecoverWorkspace \/ Rollback
    <2>1. session.pc \in {"entered", "done"} /\ worktree' = ResetTo(RecoveryRef)
      BY <1>1 DEF RecoverWorkspace, Rollback
    <2> QED
      BY <2>1, RecoveryRefThere DEF ResetTo, SessionInv, PointersSet
  <1>2. CASE ApplyChange \/ RestoreBackup
    BY <1>2 DEF ApplyChange, RestoreBackup, SessionInv, WorktreeTyped
  <1>3. CASE CommitChanges \/ CommitFails
    <2>1. session.pc = "applied" /\ ~NewCommit
      BY <1>3 DEF CommitChanges, CommitFails, NewCommit, CommitsWhole
    <2> QED
      BY <1>3, <2>1 DEF CommitChanges, CommitFails, SessionInv, WorktreeTyped
  <1>4. CASE UNCHANGED worktree
    BY <1>4
  <1> QED
    BY <1>1, <1>2, <1>3, <1>4 DEF StepNext, EnterContext, PersistRecovery, BeginExecution,
         StageStep, RefuseStep, EmptyStep, ApplyFails, GuardRefuses,
         RestoreFails, CommitNothing, PersistPointers, PersistPointersFails, Advance,
         RollbackFails, FailStep, StepCrash, FailAbandonedRun, RequeueRun

\* Where the branch grows or is cut.
LEMMA BranchMoves ==
  ASSUME StepInv, StepNext
  PROVE  \/ UNCHANGED History[worktree.head]
         \/ Branch!CommitStep
         \/ /\ commits' = commits
            /\ stepFaults <= 2 => Branch!CutBack
  <1> USE DEF StepInv
  <1> DEFINE H == worktree.head
  <1>0. H \in 1..Len(commits)
    BY DEF SessionInv, WorktreeTyped
  <1>1. CASE commits' # commits
    <2>1. Grown(H) /\ worktree'.head = Len(commits')
      BY <1>1, CommitsGrow DEF GraphInv
    <2> DEFINE k == Len(commits')
    <2>2. /\ GraphInv' /\ History'[H] = History[H]
          /\ commits'[k].parent = H /\ k \in 1..k /\ H \in 1..k
      BY <1>0, <2>1, GraphGrows, NewObject DEF GraphInv, CommitsWhole
    <2>3. (GraphInv /\ worktree.head \in 1..Len(commits) => HeadIsOneMore)'
      BY HeadOneMore, PTL
    <2>4. PICK changes \in Change :
            History'[k] = Append(History'[H],
                      [tree |-> Branch!Changed(History'[H][Len(History'[H])].tree, changes),
                       changes |-> changes])
      BY <2>1, <2>2, <2>3 DEF HeadIsOneMore
    <2> QED
      BY <2>1, <2>2, <2>4 DEF Branch!CommitStep
  <1>2. CASE commits' = commits /\ worktree'.head # H
    <2> DEFINE L == pointers.lastValid
    <2>1. L # 0 /\ worktree'.head = L /\ session.pc \in {"entered", "done"}
      BY <1>2, HeadMoves DEF GraphInv
    <2>2. History' = History
      BY <1>2, SameCommits
    <2>3. L \in 1..Len(commits) /\ L # H
      BY <1>2, <2>1, TrailFacts
    <2>4. stepFaults <= 2 => L \in Ancestors[H] \/ commits[L].parent = H
      BY <2>1, TrailFacts DEF NoFaultTrail, OneFaultTrail, TwoFaultTrail, Near
    <2>5. CASE commits[L].parent = H
      <3>1. Branch!CommitStep
        BY <1>0, <2>1, <2>2, <2>3, <2>5, OneStepMore DEF Branch!CommitStep
      <3> QED
        BY <3>1
    <2>6. CASE L \in Ancestors[H]
      <3> DEFINE n == Len(History[L])
      <3>1. /\ n < Len(History[H]) /\ n >= 1 /\ n \in Nat /\ Len(History[H]) \in Nat
            /\ History[L] = SubSeq(History[H], 1, n)
        BY <1>0, <2>3, <2>6 DEF GraphInv, BranchesNest
      <3>2. Branch!CutBack
        BY <2>1, <2>2, <3>1 DEF Branch!CutBack
      <3> QED
        BY <1>2, <3>2
    <2> QED
      BY <1>2, <2>4, <2>5, <2>6
  <1>3. CASE commits' = commits /\ worktree'.head = H
    BY <1>3, SameCommits
  <1> QED
    BY <1>1, <1>2, <1>3

\* Until a second fault the last valid commit of the row is on HEAD's branch,
\* and HEAD ahead of it by no more than the fault kept from the row (kernel.ts
\* executeLoop, recoverRunWorkspaceIfNeeded).
THEOREM HeadTrailed == StepSpec => []LastValidTrailsHead
  <1>1. ASSUME StepInv PROVE LastValidTrailsHead
    <2> USE <1>1 DEF StepInv
    <2> DEFINE L == pointers.lastValid
               H == worktree.head
               ahead == Ancestors[H] \ Ancestors[L]
    <2> SUFFICES ASSUME stepFaults <= 1, L # 0, session.pc # "committed"
                 PROVE  L \in Ancestors[H] /\ Cardinality(ahead) <= stepFaults
      BY DEF LastValidTrailsHead
    <2>1. H \in 1..Len(commits) /\ L \in 1..Len(commits) /\ stepFaults \in {0, 1}
      BY TrailFacts
    <2>2. stepFaults = 0 => H = L
      BY TrailFacts DEF NoFaultTrail
    <2>3. OnTop(H, L) /\ L \in Ancestors[H]
      BY <2>1, TrailFacts DEF NoFaultTrail, OneFaultTrail
    <2>4. H = L => ahead = {}
      OBVIOUS
    <2>5. ahead \subseteq {H}
      <3>1. Ancestors = [y \in 0..Len(commits) |->
                          IF y = 0 THEN {} ELSE {y} \cup Ancestors[commits[y].parent]]
        BY AncestorsAre DEF GraphInv, IsAncestors
      <3>2. H \in 0..Len(commits) /\ H # 0
        BY <2>1
      <3>3. Ancestors[H] = {H} \cup Ancestors[commits[H].parent]
        BY <3>1, <3>2, Zenon
      <3> QED
        BY <2>3, <2>4, <3>3 DEF OnTop
    <2>6. Cardinality({}) = 0 /\ Cardinality({H}) = 1
      BY FS_EmptySet, FS_Singleton
    <2>7. ahead = {} \/ ahead = {H}
      BY <2>5
    <2>8. stepFaults = 0 => ahead = {}
      BY <2>2, <2>4
    <2> HIDE DEF ahead
    <2>9. CASE ahead = {}
      BY <2>1, <2>3, <2>6, <2>9
    <2>10. CASE ahead = {H}
      <3>1. Cardinality(ahead) = 1
        BY <2>6, <2>10
      <3>2. stepFaults = 0 => Cardinality(ahead) = 0
        BY <2>6, <2>8
      <3> QED
        BY <2>1, <2>3, <3>1, <3>2
    <2> QED
      BY <2>7, <2>9, <2>10
  <1> QED
    BY <1>1, StepAlways, PTL

\* Whatever dies or fails, a commit is all the changes of one step on top of
\* HEAD; and until a third fault a reset never leaves the branch
\* (file-session.ts, git-versioning.ts, kernel.ts).
THEOREM StepsStayAtomic == StepSpec => StepsAreAtomic
  <1>1. StepInv /\ StepInit => Branch!BranchInit
    <2> SUFFICES ASSUME StepInv, StepInit PROVE Branch!BranchInit
      OBVIOUS
    <2>1. worktree.head = 1 /\ Len(commits) = 1 /\ commits[1].parent = 0
      BY DEF StepInit
    <2> DEFINE none == <<>>
    <2>2. History = [x \in 0..1 |-> IF x = 0 THEN none
                      ELSE Append(History[commits[x].parent],
                                  [tree |-> commits[x].tree, changes |-> commits[x].changes])]
      BY <2>1, HistoryIs DEF StepInv, GraphInv, IsHistory
    <2>3. 0 \in 0..1 /\ 1 \in 0..1 /\ 1 # 0
      OBVIOUS
    <2>4. none = << >> /\ \A x : Len(Append(none, x)) = 1
      OBVIOUS
    <2> HIDE DEF none
    <2>5. History[0] = none
      BY <2>2, <2>3, Zenon
    <2>6. History[1] = Append(History[commits[1].parent],
                              [tree |-> commits[1].tree, changes |-> commits[1].changes])
      BY <2>2, <2>3, Zenon
    <2> QED
      BY <2>1, <2>4, <2>5, <2>6 DEF Branch!BranchInit
  <1>2. StepInv /\ [StepNext]_stepVars =>
          [/\ commits' # commits => Branch!CommitStep
           /\ stepFaults <= 2 => Branch!CommitStep \/ Branch!CutBack]_(History[worktree.head])
    <2> SUFFICES ASSUME StepInv, [StepNext]_stepVars
                 PROVE  [/\ commits' # commits => Branch!CommitStep
                         /\ stepFaults <= 2 => Branch!CommitStep \/ Branch!CutBack]_(History[worktree.head])
      OBVIOUS
    <2>1. CASE StepNext
      BY <2>1, BranchMoves
    <2>2. CASE UNCHANGED stepVars
      BY <2>2, SameCommits DEF stepVars
    <2> QED
      BY <2>1, <2>2
  <1> QED
    BY <1>1, <1>2, StepInitInv, StepAlways, PTL DEF StepSpec, StepsAreAtomic

\* A run that meets no more than two faults implements AtomicSteps.
THEOREM StepsImplementBranch ==
  ASSUME MaxStepFaults <= 2
  PROVE  StepSpec => Branch!BranchSpec
  <1>1. StepInv => stepFaults <= 2
    BY StepTransactionAssumption DEF StepInv, SessionInv
  <1>2. StepSpec => StepsAreAtomic
    BY StepsStayAtomic
  <1>3. stepFaults <= 2
          /\ [/\ commits' # commits => Branch!CommitStep
              /\ stepFaults <= 2 => Branch!CommitStep \/ Branch!CutBack]_(History[worktree.head])
        => [Branch!CommitStep \/ Branch!CutBack]_(History[worktree.head])
    OBVIOUS
  <1> QED
    BY <1>1, <1>2, <1>3, StepAlways, PTL DEF StepsAreAtomic, Branch!BranchSpec
=============================================================================
