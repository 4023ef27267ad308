----------------------------- MODULE KernelProofs -----------------------------
(***************************************************************************)
(* What executeLoop promises of one run, for any length of plan, any       *)
(* budget of corrections and any number of crashes and resumes.            *)
(*                                                                         *)
(* None of the properties is inductive.  The corrections made are counted  *)
(* twice, in the locals of an execution and, for the next one, in the plan *)
(* (CountsAgree); a due correction was counted as affordable two steps     *)
(* before it is queued (LoopPlace); that a complete run is validated rests *)
(* on what the last step's record says (LastStepValidated); and that a     *)
(* failed preview never lies behind the run, on another one ahead of it    *)
(* (PreviewAhead).                                                         *)
(*                                                                         *)
(* Of the corrections of a validated builder run nothing is inductive      *)
(* either: a stub is made attempts before its debt is told, and a stall    *)
(* recorded two steps before it is asked for.  What ties them together is  *)
(* where an attempt is in its plan (AttemptPlace), where the resolution of *)
(* a debt can be (DebtPlace) and what is behind one (ClosedDebt), and who  *)
(* still answers for a stub (StubsTold) or a miss (MissesStall).           *)
(***************************************************************************)
EXTENDS MCKernelLoop, FiniteSetTheorems, SequenceTheorems, TLAPS

ProgramCounter == {"outside", "top", "validate", "validating", "record", "route"}

\* executeLoop's locals.
Locals == [pc : ProgramCounter, i : Nat, runtimeCount : Nat, heavyCount : Nat,
           signature : Signature \cup {None}, blocking : Nat,
           status : {"completed", "failed"}, rollback : BOOLEAN, queueHeavy : BOOLEAN]

\* Fields of the row and of the locals; a plan is never empty, and only a
\* complete run has its index at the end of the plan.
RowTyped ==
  /\ config \in Config
  /\ run \in [status : RunStatus, index : Nat, plan : Seq(Kind)]
  /\ run.plan # <<>>
  /\ run.index <= Len(run.plan)
  /\ run.index = Len(run.plan) <=> run.status = "complete"
  /\ loop \in Locals
  /\ validated \in BOOLEAN
  /\ preview \in {None, "healthy", "failed"}
  /\ reentries \in Nat

\* An execution is in the middle of a step.
InStep == loop.pc \notin {"outside", "top"}

\* An execution stands where the row says; a step it is in exists; a heavy
\* correction is due only after a validation, and can be afforded.
LoopPlace ==
  /\ loop.pc # "outside" => loop.i = run.index
  /\ InStep => run.status # "complete"
  /\ loop.queueHeavy => /\ loop.pc \in {"record", "route"}
                        /\ loop.heavyCount < config.maxHeavy
  /\ loop.pc = "validating" => NeedsValidation

\* The locals count what is in the plan.
CountsAgree ==
  loop.pc # "outside" =>
    /\ loop.runtimeCount = CountOf(run.plan, "runtimeFix")
    /\ loop.heavyCount = CountOf(run.plan, "heavyFix")

\* What is recorded as completed at the end of the plan was validated, or has a
\* correction coming; so was a complete run.
LastStepValidated ==
  config.heavy =>
    /\ run.status = "complete" => validated
    /\ /\ loop.pc \in {"record", "route"}
       /\ loop.status = "completed"
       /\ IsLast(loop.i, run.plan)
       => validated \/ loop.queueHeavy

\* After a failed preview there is one ahead; the failed one itself only while
\* its step is on record as failed.
PreviewAhead ==
  preview = "failed" =>
    /\ \E j \in 1..Len(run.plan) : j > run.index /\ run.plan[j] = "preview"
    /\ InStep /\ Step = "preview" => loop.status = "failed" /\ ~loop.queueHeavy

\* Inductive.
KInv ==
  /\ RowTyped
  /\ LoopPlace
  /\ CountsAgree
  /\ CorrectionsWithinBudget
  /\ LastStepValidated
  /\ PreviewAhead

-----------------------------------------------------------------------------
\* Corrections are spliced in right behind the step that called for them.

\* What SpliceAfter returns, place by place (plan.steps.splice).
LEMMA SpliceProperties ==
  ASSUME NEW plan \in Seq(Kind), NEW i \in Nat, i < Len(plan), NEW steps \in Seq(Kind)
  PROVE  LET s == SpliceAfter(plan, i, steps) IN
         /\ s \in Seq(Kind)
         /\ Len(s) = Len(plan) + Len(steps)
         /\ \A j \in 1..Len(s) :
              s[j] = IF j <= i + 1 THEN plan[j]
                     ELSE IF j <= i + 1 + Len(steps) THEN steps[j - (i + 1)]
                     ELSE plan[j - Len(steps)]
  <1> DEFINE a == SubSeq(plan, 1, i + 1)
             b == SubSeq(plan, i + 2, Len(plan))
  <1>1. Len(plan) \in Nat /\ Len(steps) \in Nat
    BY LenProperties
  <1>2. /\ a \in Seq(Kind) /\ Len(a) = i + 1
        /\ \A j \in 1..(i + 1) : a[j] = plan[j]
    <2>1. \A j \in 1..(i + 1) : plan[j] \in Kind
      BY <1>1, ElementOfSeq
    <2>2. QED
      BY <2>1, SubSeqProperties
  <1>3. /\ b \in Seq(Kind) /\ Len(b) = Len(plan) - (i + 1)
        /\ \A j \in 1..(Len(plan) - (i + 1)) : b[j] = plan[i + 1 + j]
    <2>1. \A j \in (i + 2)..Len(plan) : plan[j] \in Kind
      BY <1>1, ElementOfSeq
    <2>2. QED
      BY <1>1, <2>1, SubSeqProperties
  <1> HIDE DEF a, b
  <1> DEFINE c == a \o steps
             e == c \o b
  <1>4. /\ c \in Seq(Kind) /\ Len(c) = i + 1 + Len(steps)
        /\ \A j \in 1..(i + 1 + Len(steps)) :
             c[j] = IF j <= i + 1 THEN a[j] ELSE steps[j - (i + 1)]
    <2>1. c \in Seq(Kind) /\ Len(c) = Len(a) + Len(steps)
      <3>1. a \in Seq(Kind)
        BY <1>2
      <3>2. QED
        BY <3>1, ConcatProperties
    <2>2. \A j \in 1..(Len(a) + Len(steps)) :
            c[j] = IF j <= Len(a) THEN a[j] ELSE steps[j - Len(a)]
      BY <1>1, <1>2
    <2>3. QED
      BY <1>2, <2>1, <2>2
  <1> HIDE DEF c
  <1>5. e \in Seq(Kind) /\ Len(e) = Len(c) + Len(b)
    BY <1>3, <1>4, ConcatProperties
  <1>6. Len(e) = Len(plan) + Len(steps)
    BY <1>1, <1>3, <1>4, <1>5
  <1>7. \A j \in 1..(Len(plan) + Len(steps)) :
          e[j] = IF j <= Len(c) THEN c[j] ELSE b[j - Len(c)]
    BY <1>1, <1>3, <1>4, <1>6
  <1> HIDE DEF e
  <1>8. \A j \in 1..(Len(plan) + Len(steps)) :
          e[j] = IF j <= i + 1 THEN plan[j]
                 ELSE IF j <= i + 1 + Len(steps) THEN steps[j - (i + 1)]
                 ELSE plan[j - Len(steps)]
    <2> TAKE j \in 1..(Len(plan) + Len(steps))
    <2>1. CASE j <= i + 1
      <3>1. j \in 1..(i + 1) /\ j \in 1..(i + 1 + Len(steps)) /\ j <= Len(c)
        BY <1>1, <1>4, <2>1
      <3>2. e[j] = c[j] /\ c[j] = a[j] /\ a[j] = plan[j]
        BY <1>2, <1>4, <1>7, <2>1, <3>1
      <3>3. QED
        BY <2>1, <3>2
    <2>2. CASE i + 1 < j /\ j <= i + 1 + Len(steps)
      <3>1. j \in 1..(i + 1 + Len(steps)) /\ j <= Len(c) /\ ~(j <= i + 1)
        BY <1>1, <1>4, <2>2
      <3>2. e[j] = c[j] /\ c[j] = steps[j - (i + 1)]
        BY <1>4, <1>7, <3>1
      <3>3. QED
        BY <2>2, <3>1, <3>2
    <2>3. CASE i + 1 + Len(steps) < j
      <3>1. /\ j - Len(c) \in 1..(Len(plan) - (i + 1))
            /\ i + 1 + (j - Len(c)) = j - Len(steps)
            /\ ~(j <= Len(c)) /\ ~(j <= i + 1) /\ ~(j <= i + 1 + Len(steps))
        BY <1>1, <1>4, <2>3
      <3>2. e[j] = b[j - Len(c)] /\ b[j - Len(c)] = plan[i + 1 + (j - Len(c))]
        BY <1>3, <1>7, <3>1
      <3>3. QED
        BY <3>1, <3>2
    <2>4. QED
      BY <1>1, <2>1, <2>2, <2>3
  <1>9. SpliceAfter(plan, i, steps) = e
    BY DEF SpliceAfter, a, b, c, e
  <1>10. QED
    BY <1>5, <1>6, <1>8, <1>9

\* Moving a finite set of positions keeps their number.
LEMMA ShiftKeepsNumber ==
  ASSUME NEW S \in SUBSET Int, NEW T \in SUBSET Int, NEW d \in Int, IsFiniteSet(S),
         \A x \in Int : x \in S <=> x + d \in T
  PROVE  IsFiniteSet(T) /\ Cardinality(T) = Cardinality(S)
  <1> DEFINE f == [x \in S |-> x + d]
  <1>1. f \in Bijection(S, T)
    <2>1. f \in [S -> T]
      OBVIOUS
    <2>2. \A x, y \in S : f[x] = f[y] => x = y
      OBVIOUS
    <2>3. \A y \in T : \E x \in S : f[x] = y
      <3>1. TAKE y \in T
      <3>2. y - d \in S /\ f[y - d] = y
        OBVIOUS
      <3>3. QED
        BY <3>2
    <2>4. QED
      BY <2>1, <2>2, <2>3 DEF Bijection, Injection, Surjection, IsInjective
  <1>2. QED
    BY <1>1, FS_Bijection DEF ExistsBijection

\* The places of a kind in a plan.
PlacesOf(plan, kind) == {j \in DOMAIN plan : plan[j] = kind}

\* countRuntimeCorrectionSteps and its sibling return a number.
LEMMA CountIsNumber ==
  ASSUME NEW plan \in Seq(Kind), NEW kind
  PROVE  /\ IsFiniteSet(PlacesOf(plan, kind))
         /\ PlacesOf(plan, kind) \subseteq 1..Len(plan)
         /\ CountOf(plan, kind) = Cardinality(PlacesOf(plan, kind))
         /\ CountOf(plan, kind) \in Nat
  <1>1. Len(plan) \in Nat /\ DOMAIN plan = 1..Len(plan)
    BY LenProperties
  <1>2. IsFiniteSet(1..Len(plan))
    BY <1>1, FS_Interval
  <1>3. PlacesOf(plan, kind) \subseteq 1..Len(plan)
    BY <1>1 DEF PlacesOf
  <1>4. IsFiniteSet(PlacesOf(plan, kind))
    BY <1>2, <1>3, FS_Subset
  <1>5. CountOf(plan, kind) = Cardinality(PlacesOf(plan, kind))
    BY DEF CountOf, PlacesOf
  <1>6. QED
    BY <1>3, <1>4, <1>5, FS_CardinalityType

\* Disjoint sets of places are counted apart.
LEMMA DisjointUnion ==
  ASSUME NEW S, NEW T, IsFiniteSet(S), IsFiniteSet(T), S \cap T = {}
  PROVE  /\ IsFiniteSet(S \cup T)
         /\ Cardinality(S \cup T) = Cardinality(S) + Cardinality(T)
  <1>1. Cardinality(S \cap T) = 0
    BY FS_EmptySet
  <1>2. Cardinality(S) \in Nat /\ Cardinality(T) \in Nat
    BY FS_CardinalityType
  <1>3. /\ IsFiniteSet(S \cup T)
        /\ Cardinality(S \cup T) = Cardinality(S) + Cardinality(T) - Cardinality(S \cap T)
    BY FS_Union
  <1>4. QED
    BY <1>1, <1>2, <1>3

\* The corrections counted in a plan with new steps are the old ones and those
\* among the new steps.
LEMMA SpliceCounts ==
  ASSUME NEW plan \in Seq(Kind), NEW i \in Nat, i < Len(plan), NEW steps \in Seq(Kind),
         NEW kind
  PROVE  CountOf(SpliceAfter(plan, i, steps), kind)
           = CountOf(plan, kind) + CountOf(steps, kind)
  <1> DEFINE s == SpliceAfter(plan, i, steps)
             n == Len(steps)
             P == PlacesOf(plan, kind)
             A == {j \in P : j <= i + 1}
             B == {j \in P : j > i + 1}
             C == PlacesOf(steps, kind)
             SB == {j \in PlacesOf(s, kind) : j > i + 1 + n}
             SC == {j \in PlacesOf(s, kind) : i + 1 < j /\ j <= i + 1 + n}
  <1>1. /\ s \in Seq(Kind)
        /\ Len(s) = Len(plan) + n
        /\ \A j \in 1..Len(s) :
              s[j] = IF j <= i + 1 THEN plan[j]
                     ELSE IF j <= i + 1 + n THEN steps[j - (i + 1)]
                     ELSE plan[j - n]
    BY SpliceProperties
  <1>2. /\ Len(plan) \in Nat /\ DOMAIN plan = 1..Len(plan)
        /\ n \in Nat /\ DOMAIN steps = 1..n
        /\ DOMAIN s = 1..Len(s)
    BY <1>1, LenProperties
  <1> HIDE DEF s, n
  <1>3. IsFiniteSet(P) /\ IsFiniteSet(C) /\ P \subseteq 1..Len(plan) /\ C \subseteq 1..n
    BY CountIsNumber DEF n
  <1>4. IsFiniteSet(A) /\ IsFiniteSet(B)
    BY <1>3, FS_Subset
  <1>a. \A x : x \in B <=> x \in (i + 2)..Len(plan) /\ plan[x] = kind
    BY <1>2 DEF PlacesOf
  <1>b. \A x : x \in SB <=> x \in (i + 2 + n)..Len(s) /\ s[x] = kind
    BY <1>1, <1>2 DEF PlacesOf
  <1>c. \A x : x \in SC <=> x \in (i + 2)..(i + 1 + n) /\ s[x] = kind
    BY <1>1, <1>2 DEF PlacesOf
  <1>d. \A x : x \in C <=> x \in 1..n /\ steps[x] = kind
    BY <1>2 DEF PlacesOf
  <1>e. \A x : x \in A <=> x \in 1..(i + 1) /\ plan[x] = kind
    BY <1>2 DEF PlacesOf
  <1>f. \A x : x \in P <=> x \in 1..Len(plan) /\ plan[x] = kind
    BY <1>2 DEF PlacesOf
  <1>g. \A x : x \in PlacesOf(s, kind) <=> x \in 1..Len(s) /\ s[x] = kind
    BY <1>2 DEF PlacesOf
  <1> HIDE DEF A, B, C, SB, SC, P
  <1>5. IsFiniteSet(SB) /\ Cardinality(SB) = Cardinality(B)
    <2>1. \A x \in Int : x \in B <=> x + n \in SB
      <3> TAKE x \in Int
      <3>1. CASE x \in (i + 2)..Len(plan)
        <4>1. x + n \in 1..Len(s) /\ x + n > i + 1 + n /\ x + n - n = x
          BY <1>1, <1>2, <3>1
        <4>2. s[x + n] = plan[x]
          BY <1>1, <1>2, <4>1
        <4>3. x + n \in (i + 2 + n)..Len(s)
          BY <1>1, <1>2, <3>1
        <4>4. QED
          BY <1>a, <1>b, <3>1, <4>2, <4>3
      <3>2. CASE x \notin (i + 2)..Len(plan)
        BY <1>a, <1>b, <1>1, <1>2, <3>2
      <3>3. QED
        BY <3>1, <3>2
    <2>2. B \in SUBSET Int /\ SB \in SUBSET Int
      BY <1>a, <1>b
    <2>3. n \in Int
      BY <1>2
    <2>4. QED
      BY <1>4, <2>1, <2>2, <2>3, ShiftKeepsNumber
  <1>6. IsFiniteSet(SC) /\ Cardinality(SC) = Cardinality(C)
    <2>1. \A x \in Int : x \in C <=> x + (i + 1) \in SC
      <3> TAKE x \in Int
      <3>1. CASE x \in 1..n
        <4>1. /\ x + (i + 1) \in 1..Len(s) /\ ~(x + (i + 1) <= i + 1)
              /\ x + (i + 1) <= i + 1 + n /\ x + (i + 1) - (i + 1) = x
          BY <1>1, <1>2, <3>1
        <4>2. s[x + (i + 1)] = steps[x + (i + 1) - (i + 1)]
          BY <1>1, <4>1
        <4>3. s[x + (i + 1)] = steps[x]
          BY <4>1, <4>2
        <4>4. QED
          BY <1>c, <1>d, <1>1, <1>2, <3>1, <4>1, <4>3
      <3>2. CASE x \notin 1..n
        BY <1>c, <1>d, <1>1, <1>2, <3>2
      <3>3. QED
        BY <3>1, <3>2
    <2>2. C \in SUBSET Int /\ SC \in SUBSET Int
      BY <1>c, <1>d
    <2>3. i + 1 \in Int
      OBVIOUS
    <2>4. QED
      BY <1>3, <2>1, <2>2, <2>3, ShiftKeepsNumber
  <1>7. Cardinality(P) = Cardinality(A) + Cardinality(B)
    <2>1. P = A \cup B /\ A \cap B = {}
      BY <1>2, <1>a, <1>e, <1>f
    <2>2. QED
      BY <1>4, <2>1, DisjointUnion
  <1>8. Cardinality(PlacesOf(s, kind)) = Cardinality(A) + Cardinality(SC) + Cardinality(SB)
    <2>1. PlacesOf(s, kind) = (A \cup SC) \cup SB
      BY <1>1, <1>2, <1>b, <1>c, <1>e, <1>g
    <2>2. A \cap SC = {} /\ (A \cup SC) \cap SB = {}
      BY <1>2, <1>b, <1>c, <1>e
    <2>3. IsFiniteSet(A \cup SC) /\ Cardinality(A \cup SC) = Cardinality(A) + Cardinality(SC)
      BY <1>4, <1>6, <2>2, DisjointUnion
    <2>4. QED
      BY <1>5, <2>1, <2>2, <2>3, DisjointUnion
  <1>9. /\ CountOf(plan, kind) = Cardinality(P)
        /\ CountOf(steps, kind) = Cardinality(C)
        /\ CountOf(s, kind) = Cardinality(PlacesOf(s, kind))
    BY DEF CountOf, PlacesOf, P, C
  <1>10. CountOf(s, kind) = CountOf(plan, kind) + CountOf(steps, kind)
    BY <1>4, <1>5, <1>6, <1>7, <1>8, <1>9, FS_CardinalityType
  <1>11. QED
    BY <1>10 DEF s

-----------------------------------------------------------------------------
\* The invariant, action by action.

\* Budgets are numbers.
LEMMA BudgetsAreNumbers ==
  ASSUME RowTyped
  PROVE  config.maxRuntime \in Nat /\ config.maxHeavy \in Nat
  BY KernelLoopAssumption DEF RowTyped, Config

\* A plan holds only what the planner makes; there is nothing to count or to
\* have failed.
LEMMA KInit == Init => KInv
  <1> SUFFICES ASSUME Init PROVE KInv
    OBVIOUS
  <1>1. PICK n \in 1..BaseLen : \E plan \in [1..n -> {"modify", "preview"}] :
          run = [status |-> "queued", index |-> 0, plan |-> plan]
    BY DEF Init
  <1>2. PICK plan \in [1..n -> {"modify", "preview"}] :
          run = [status |-> "queued", index |-> 0, plan |-> plan]
    BY <1>1
  <1>3. n \in Nat /\ n >= 1
    BY KernelLoopAssumption
  <1>4. plan \in Seq(Kind) /\ Len(plan) = n
    <2>1. plan \in [1..n -> Kind]
      BY DEF Kind
    <2>2. QED
      BY <1>3, <2>1
  <1>5. RowTyped
    <2>1. run \in [status : RunStatus, index : Nat, plan : Seq(Kind)]
      BY <1>2, <1>4 DEF RunStatus
    <2>2. /\ run.plan # <<>> /\ run.index <= Len(run.plan)
          /\ run.index # Len(run.plan) /\ run.status # "complete"
      BY <1>2, <1>3, <1>4
    <2>3. loop \in Locals
      BY DEF Init, Outside, Locals, ProgramCounter
    <2>4. QED
      BY <2>1, <2>2, <2>3 DEF Init, RowTyped
  <1>6. LoopPlace /\ CountsAgree /\ LastStepValidated /\ PreviewAhead
    BY <1>2 DEF Init, LoopPlace, InStep, NeedsValidation, CountsAgree, LastStepValidated,
               PreviewAhead, Outside, None
  <1>7. CountOf(plan, "runtimeFix") = 0 /\ CountOf(plan, "heavyFix") = 0
    <2>1. /\ {i \in DOMAIN plan : plan[i] = "runtimeFix"} = {}
          /\ {i \in DOMAIN plan : plan[i] = "heavyFix"} = {}
      BY <1>2
    <2>2. QED
      BY <2>1, FS_EmptySet DEF CountOf
  <1>8. CorrectionsWithinBudget
    <2>1. 0 <= config.maxRuntime /\ 0 <= config.maxHeavy
      BY <1>5, BudgetsAreNumbers
    <2>2. run.plan = plan
      BY <1>2
    <2>3. QED
      BY <1>7, <2>1, <2>2 DEF CorrectionsWithinBudget
  <1>9. QED
    BY <1>5, <1>6, <1>8 DEF KInv

\* Where a process enters the run: the corrections are counted in the plan.
LEMMA BeginKeeps ==
  ASSUME KInv, BeginLoop, run.status # "complete", reentries' \in Nat
  PROVE  KInv'
  <1>1. /\ run' = [run EXCEPT !.status = "running"]
        /\ loop' = [Outside EXCEPT !.pc = "top", !.i = run.index,
                      !.runtimeCount = CountOf(run.plan, "runtimeFix"),
                      !.heavyCount   = CountOf(run.plan, "heavyFix")]
        /\ UNCHANGED <<config, validated, preview>>
    BY DEF BeginLoop, CountAtEntry
  <1>2. CountOf(run.plan, "runtimeFix") \in Nat /\ CountOf(run.plan, "heavyFix") \in Nat
    BY CountIsNumber DEF KInv, RowTyped, Locals
  <1>3. RowTyped'
    BY <1>1, <1>2 DEF KInv, RowTyped, Locals, Outside, ProgramCounter, RunStatus
  <1>4. LoopPlace' /\ CountsAgree'
    BY <1>1, <1>2 DEF KInv, RowTyped, Locals, LoopPlace, InStep, CountsAgree, Outside
  <1>5. CorrectionsWithinBudget' /\ LastStepValidated' /\ PreviewAhead'
    BY <1>1 DEF KInv, RowTyped, Locals, CorrectionsWithinBudget, LastStepValidated, PreviewAhead,
                InStep, Outside
  <1>6. QED
    BY <1>3, <1>4, <1>5 DEF KInv

\* Where a process leaves the run or dies: only the status may change, and not
\* of or to "complete".
LEMMA OutsideKeeps ==
  ASSUME KInv, loop' = Outside, UNCHANGED <<config, validated, preview>>,
         reentries' \in Nat, NEW st \in RunStatus, run' = [run EXCEPT !.status = st],
         st = "complete" <=> run.status = "complete"
  PROVE  KInv'
  <1>1. RowTyped'
    BY DEF KInv, RowTyped, Locals, Outside, ProgramCounter
  <1>2. LoopPlace' /\ CountsAgree'
    BY DEF LoopPlace, InStep, CountsAgree, Outside
  <1>3. CorrectionsWithinBudget' /\ LastStepValidated' /\ PreviewAhead'
    BY DEF KInv, RowTyped, Locals, CorrectionsWithinBudget, LastStepValidated, PreviewAhead,
           InStep, Outside
  <1>4. QED
    BY <1>1, <1>2, <1>3 DEF KInv

\* Return, in a step that was not done: the row stays where it was.
LEMMA ReturnKeeps ==
  ASSUME KInv, loop.pc = "route", Return("failed"),
         UNCHANGED <<config, validated, preview, reentries>>
  PROVE  KInv'
  <1>1. run.index = loop.i /\ run.status # "complete"
    BY DEF KInv, LoopPlace, InStep
  <1>2. run' = [run EXCEPT !.status = "failed"] /\ loop' = Outside
    BY <1>1 DEF Return, KInv, RowTyped, Locals
  <1>3. reentries' \in Nat /\ "failed" \in RunStatus
    BY DEF KInv, RowTyped, Locals, RunStatus
  <1>4. QED
    BY <1>1, <1>2, <1>3, OutsideKeeps

\* ExecuteMutation: the step itself.
LEMMA MutationKeeps ==
  ASSUME KInv, ExecuteMutation
  PROVE  KInv'
  <1>1. /\ loop.pc = "top" /\ loop.i < Len(run.plan) /\ Step # "preview"
        /\ UNCHANGED <<config, run, preview, reentries>>
        /\ validated' \in BOOLEAN
    BY DEF ExecuteMutation, KInv, RowTyped, Locals
  <1>2. PICK st \in {"completed", "failed"} :
          loop' = [loop EXCEPT !.pc = "validate", !.status = st]
    BY DEF ExecuteMutation
  <1>3. run.status # "complete" /\ loop.i = run.index
    BY <1>1 DEF KInv, RowTyped, Locals, LoopPlace
  <1>4. RowTyped'
    BY <1>1, <1>2 DEF KInv, RowTyped, Locals, ProgramCounter
  <1>5. LoopPlace' /\ CountsAgree'
    BY <1>1, <1>2, <1>3 DEF KInv, RowTyped, Locals, LoopPlace, InStep, CountsAgree
  <1>6. CorrectionsWithinBudget' /\ LastStepValidated'
    BY <1>1, <1>2, <1>3 DEF KInv, RowTyped, Locals, CorrectionsWithinBudget, LastStepValidated
  <1>7. PreviewAhead'
    BY <1>1, <1>2 DEF KInv, RowTyped, Locals, PreviewAhead, InStep, Step
  <1>8. QED
    BY <1>4, <1>5, <1>6, <1>7 DEF KInv

\* ExecutePreview: a preview that failed is itself still ahead of the run.
LEMMA PreviewKeeps ==
  ASSUME KInv, ExecutePreview
  PROVE  KInv'
  <1>1. /\ loop.pc = "top" /\ loop.i < Len(run.plan) /\ Step = "preview"
        /\ UNCHANGED <<config, run, validated, reentries>>
        /\ loop' = [loop EXCEPT !.pc = "validate", !.status = loop'.status,
                      !.signature = loop'.signature, !.rollback = loop'.rollback]
        /\ loop'.signature \in Signature \cup {None} /\ loop'.rollback \in BOOLEAN
        /\ \/ loop'.status = "completed" /\ preview' = "healthy"
           \/ loop'.status = "failed" /\ preview' = "failed"
    BY DEF ExecutePreview, KInv, RowTyped, Locals
  <1>2. run.status # "complete" /\ loop.i = run.index /\ ~loop.queueHeavy
    BY <1>1 DEF KInv, RowTyped, Locals, LoopPlace
  <1>3. RowTyped'
    BY <1>1 DEF KInv, RowTyped, Locals, ProgramCounter
  <1>4. LoopPlace' /\ CountsAgree'
    BY <1>1, <1>2 DEF KInv, RowTyped, Locals, LoopPlace, InStep, CountsAgree
  <1>5. CorrectionsWithinBudget' /\ LastStepValidated'
    BY <1>1, <1>2 DEF KInv, RowTyped, Locals, CorrectionsWithinBudget, LastStepValidated
  <1>6. PreviewAhead'
    <2>1. loop.i + 1 \in 1..Len(run.plan) /\ loop.i + 1 > run.index
      BY <1>1, <1>2, LenProperties DEF KInv, RowTyped, Locals
    <2>2. run.plan[loop.i + 1] = "preview"
      BY <1>1 DEF Step
    <2>3. QED
      BY <1>1, <1>2, <2>1, <2>2 DEF KInv, RowTyped, Locals, PreviewAhead
  <1>7. QED
    BY <1>3, <1>4, <1>5, <1>6 DEF KInv

\* BeginValidation: the last step of the plan, if it succeeded, is not recorded
\* before it is validated.
LEMMA BeginValidationKeeps ==
  ASSUME KInv, BeginValidation
  PROVE  KInv'
  <1>1. /\ loop.pc = "validate"
        /\ UNCHANGED <<config, validated, preview, reentries>>
        /\ run.status # "complete" /\ loop.i = run.index /\ ~loop.queueHeavy
    BY DEF BeginValidation, KInv, RowTyped, Locals, LoopPlace, InStep
  <1>2. /\ run' = [run EXCEPT !.status = run'.status]
        /\ run'.status \in RunStatus \ {"complete"}
        /\ loop' = [loop EXCEPT !.pc = loop'.pc]
        /\ loop'.pc \in {"validating", "record"}
        /\ loop'.pc = "validating" <=> NeedsValidation
    <2>1. run = [run EXCEPT !.status = run.status] /\ run.status \in RunStatus \ {"complete"}
      BY <1>1 DEF KInv, RowTyped, Locals
    <2>2. CASE NeedsValidation
      <3>1. /\ run' = [run EXCEPT !.status = "validating"]
            /\ loop' = [loop EXCEPT !.pc = "validating"]
        BY <2>2 DEF BeginValidation
      <3>2. run'.status = "validating" /\ loop'.pc = "validating"
        BY <3>1 DEF KInv, RowTyped, Locals
      <3>3. QED
        <4>1. run'.status \in RunStatus \ {"complete"}
          BY <3>2 DEF RunStatus
        <4>2. QED
          BY <2>2, <3>1, <3>2, <4>1
    <2>3. CASE ~NeedsValidation
      BY <1>1, <2>1, <2>3 DEF BeginValidation, KInv, RowTyped, Locals
    <2>4. QED
      BY <2>2, <2>3
  <1>3. RowTyped'
    BY <1>1, <1>2 DEF KInv, RowTyped, Locals, ProgramCounter
  <1>4. LoopPlace' /\ CountsAgree'
    BY <1>1, <1>2 DEF KInv, RowTyped, Locals, LoopPlace, InStep, CountsAgree, NeedsValidation
  <1>5. CorrectionsWithinBudget' /\ LastStepValidated'
    BY <1>1, <1>2 DEF KInv, RowTyped, Locals, CorrectionsWithinBudget, LastStepValidated,
                      NeedsValidation
  <1>6. PreviewAhead'
    BY <1>1, <1>2 DEF KInv, RowTyped, Locals, PreviewAhead, InStep, Step
  <1>7. QED
    BY <1>3, <1>4, <1>5, <1>6 DEF KInv

\* The three ways a validation ends: it passes, it counts b violations, or it
\* does not run.
LEMMA ValidationKeeps ==
  ASSUME KInv,
         \/ ValidationPasses
         \/ \E b \in 1..MaxBlocking : ValidationFails(b)
         \/ ValidationThrows
  PROVE  KInv'
  <1>1. /\ loop.pc = "validating" /\ loop.status = "completed"
        /\ UNCHANGED <<config, run, preview, reentries>>
        /\ run.status # "complete" /\ loop.i = run.index /\ ~loop.queueHeavy
    BY DEF ValidationPasses, ValidationFails, ValidationThrows, KInv, RowTyped, Locals, LoopPlace,
           InStep, NeedsValidation
  <1>2. /\ loop' = [loop EXCEPT !.pc = "record", !.blocking = loop'.blocking,
                      !.queueHeavy = loop'.queueHeavy, !.status = loop'.status,
                      !.rollback = loop'.rollback]
        /\ loop'.blocking \in Nat /\ loop'.rollback \in BOOLEAN
        /\ validated' \in BOOLEAN /\ loop'.queueHeavy \in BOOLEAN
        /\ loop'.status \in {"completed", "failed"}
        /\ loop'.queueHeavy => loop.heavyCount < config.maxHeavy
        /\ loop'.status = "completed" => validated' \/ loop'.queueHeavy
    <2>1. CASE ValidationPasses
      BY <1>1, <2>1 DEF ValidationPasses, KInv, RowTyped, Locals
    <2>2. ASSUME NEW b \in 1..MaxBlocking, ValidationFails(b)
          PROVE  <1>2
      <3> DEFINE diverges == /\ loop.blocking > 0
                             /\ b >= loop.blocking
                             /\ config.convergence = "enforce"
                 due == ~diverges /\ loop.heavyCount < config.maxHeavy
      <3>1. /\ loop' = [loop EXCEPT !.pc = "record", !.blocking = b, !.queueHeavy = due,
                          !.status = IF due THEN "completed" ELSE "failed",
                          !.rollback = ~due]
            /\ UNCHANGED validated /\ due \in BOOLEAN
        BY <2>2 DEF ValidationFails
      <3>2. due => loop.heavyCount < config.maxHeavy
        OBVIOUS
      <3> HIDE DEF due
      <3>3. CASE due = TRUE
        BY <1>1, <3>1, <3>2, <3>3 DEF KInv, RowTyped, Locals
      <3>4. CASE due = FALSE
        BY <1>1, <3>1, <3>4 DEF KInv, RowTyped, Locals
      <3>5. QED
        BY <3>1, <3>3, <3>4
    <2>3. CASE ValidationThrows
      BY <1>1, <2>3 DEF ValidationThrows, KInv, RowTyped, Locals
    <2>4. QED
      BY <2>1, <2>2, <2>3
  <1>3. RowTyped'
    BY <1>1, <1>2 DEF KInv, RowTyped, Locals, ProgramCounter
  <1>4. LoopPlace' /\ CountsAgree'
    BY <1>1, <1>2 DEF KInv, RowTyped, Locals, LoopPlace, InStep, CountsAgree
  <1>5. CorrectionsWithinBudget' /\ LastStepValidated'
    BY <1>1, <1>2 DEF KInv, RowTyped, Locals, CorrectionsWithinBudget, LastStepValidated
  <1>6. PreviewAhead'
    BY <1>1, <1>2 DEF KInv, RowTyped, Locals, PreviewAhead, InStep, Step
  <1>7. QED
    BY <1>3, <1>4, <1>5, <1>6 DEF KInv

\* Record: the policy may turn a completed correction into a failed one.
LEMMA RecordKeeps ==
  ASSUME KInv, Record
  PROVE  KInv'
  <1>1. /\ loop.pc = "record"
        /\ UNCHANGED <<config, run, validated, preview, reentries>>
        /\ loop' = [loop EXCEPT !.pc = "route", !.status = loop'.status,
                      !.rollback = loop'.rollback]
        /\ loop'.rollback \in BOOLEAN
        /\ \/ loop'.status = loop.status
           \/ loop'.status = "failed" /\ Step \in Correction
    BY DEF Record, KInv, RowTyped, Locals
  <1>2. RowTyped'
    BY <1>1 DEF KInv, RowTyped, Locals, ProgramCounter
  <1>3. LoopPlace' /\ CountsAgree'
    BY <1>1 DEF KInv, RowTyped, Locals, LoopPlace, InStep, CountsAgree
  <1>4. CorrectionsWithinBudget' /\ LastStepValidated'
    BY <1>1 DEF KInv, RowTyped, Locals, CorrectionsWithinBudget, LastStepValidated
  <1>5. PreviewAhead'
    BY <1>1 DEF KInv, RowTyped, Locals, PreviewAhead, InStep, Step, Correction
  <1>6. QED
    BY <1>2, <1>3, <1>4, <1>5 DEF KInv

\* The next iteration begins with fresh locals.
LEMMA NextStepTyped ==
  ASSUME RowTyped, loop.i \in Nat,
         NextStep(loop.runtimeCount, loop.heavyCount)
         \/ NextStep(loop.runtimeCount + 1, loop.heavyCount)
         \/ NextStep(loop.runtimeCount, loop.heavyCount + 1)
  PROVE  loop' \in Locals
  <1>1. /\ loop.runtimeCount \in Nat /\ loop.heavyCount \in Nat /\ loop.blocking \in Nat
        /\ loop.signature \in Signature \cup {None}
    BY DEF RowTyped, Locals
  <1>2. ASSUME NEW r \in Nat, NEW h \in Nat, NextStep(r, h) PROVE loop' \in Locals
    <2>1. loop' = [pc |-> "top", i |-> loop.i + 1, runtimeCount |-> r, heavyCount |-> h,
                   signature |-> loop.signature, blocking |-> loop.blocking,
                   status |-> "completed", rollback |-> FALSE, queueHeavy |-> FALSE]
      BY <1>2 DEF NextStep, Outside
    <2>2. QED
      BY <1>1, <2>1 DEF Locals, ProgramCounter
  <1>3. QED
    BY <1>1, <1>2

\* What both corrections have in common: the steps go in behind the current
\* one, which the index then passes, and a preview ahead stays ahead.
LEMMA SpliceAhead ==
  ASSUME KInv, loop.pc = "route", NEW steps \in Seq(Kind), steps # <<>>,
         run'.plan = SpliceAfter(run.plan, loop.i, steps), run'.index = loop.i + 1
  PROVE  /\ run'.plan \in Seq(Kind) /\ run'.plan # <<>>
         /\ run'.index \in Nat /\ run'.index < Len(run'.plan)
         /\ \A k \in 1..Len(steps) : /\ loop.i + 1 + k \in 1..Len(run'.plan)
                                     /\ run'.plan[loop.i + 1 + k] = steps[k]
         /\ \A j \in (loop.i + 2)..Len(run.plan) :
              /\ j + Len(steps) \in 1..Len(run'.plan)
              /\ run'.plan[j + Len(steps)] = run.plan[j]
  <1>1. /\ loop.i \in Nat /\ loop.i < Len(run.plan) /\ run.plan \in Seq(Kind)
        /\ Len(run.plan) \in Nat
    BY LenProperties DEF KInv, RowTyped, Locals, LoopPlace, InStep
  <1>2. Len(steps) \in Nat /\ Len(steps) > 0
    BY LenProperties
  <1>3. /\ run'.plan \in Seq(Kind)
        /\ Len(run'.plan) = Len(run.plan) + Len(steps)
        /\ \A j \in 1..Len(run'.plan) :
              run'.plan[j] = IF j <= loop.i + 1 THEN run.plan[j]
                             ELSE IF j <= loop.i + 1 + Len(steps) THEN steps[j - (loop.i + 1)]
                             ELSE run.plan[j - Len(steps)]
    <2> DEFINE t == SpliceAfter(run.plan, loop.i, steps)
    <2>1. /\ t \in Seq(Kind)
          /\ Len(t) = Len(run.plan) + Len(steps)
          /\ \A j \in 1..Len(t) :
                t[j] = IF j <= loop.i + 1 THEN run.plan[j]
                       ELSE IF j <= loop.i + 1 + Len(steps) THEN steps[j - (loop.i + 1)]
                       ELSE run.plan[j - Len(steps)]
      BY <1>1, SpliceProperties
    <2> HIDE DEF t
    <2>2. run'.plan = t
      BY DEF t
    <2>3. QED
      BY <2>1, <2>2
  <1>4. ASSUME NEW k \in 1..Len(steps)
        PROVE  /\ loop.i + 1 + k \in 1..Len(run'.plan)
               /\ run'.plan[loop.i + 1 + k] = steps[k]
    <2>1. /\ loop.i + 1 + k \in 1..Len(run'.plan) /\ ~(loop.i + 1 + k <= loop.i + 1)
          /\ loop.i + 1 + k <= loop.i + 1 + Len(steps)
          /\ (loop.i + 1 + k) - (loop.i + 1) = k
      BY <1>1, <1>2, <1>3
    <2>2. QED
      BY <1>3, <2>1
  <1>5. ASSUME NEW j \in (loop.i + 2)..Len(run.plan)
        PROVE  /\ j + Len(steps) \in 1..Len(run'.plan)
               /\ run'.plan[j + Len(steps)] = run.plan[j]
    <2>1. /\ j + Len(steps) \in 1..Len(run'.plan) /\ ~(j + Len(steps) <= loop.i + 1)
          /\ ~(j + Len(steps) <= loop.i + 1 + Len(steps))
          /\ (j + Len(steps)) - Len(steps) = j
      BY <1>1, <1>2, <1>3
    <2>2. QED
      BY <1>3, <2>1
  <1>6. run'.plan # <<>> /\ run'.index < Len(run'.plan) /\ run'.index \in Nat
    BY <1>1, <1>2, <1>3
  <1>7. QED
    BY <1>3, <1>4, <1>5, <1>6

\* QueueHeavyCorrection: affordable since the validation that failed.
LEMMA HeavyKeeps ==
  ASSUME KInv, QueueHeavyCorrection
  PROVE  KInv'
  <1> DEFINE steps == <<"heavyFix">>
  <1>1. /\ loop.pc = "route" /\ loop.queueHeavy
        /\ run' = [status |-> "optimizing", index |-> loop.i + 1,
                   plan |-> SpliceAfter(run.plan, loop.i, steps)]
        /\ loop' = [Outside EXCEPT !.pc = "top", !.i = loop.i + 1,
                      !.runtimeCount = loop.runtimeCount, !.heavyCount = loop.heavyCount + 1,
                      !.signature = loop.signature, !.blocking = loop.blocking]
        /\ UNCHANGED <<config, validated, preview, reentries>>
    BY DEF QueueHeavyCorrection, HeavyCorrectionDue, NextStep
  <1>2. steps \in Seq(Kind) /\ Len(steps) = 1 /\ steps # <<>>
    BY DEF Kind, Correction
  <1>3. /\ run.index = loop.i /\ loop.i \in Nat /\ loop.i < Len(run.plan)
        /\ run.plan \in Seq(Kind) /\ Len(run.plan) \in Nat
    BY <1>1, LenProperties DEF KInv, RowTyped, Locals, LoopPlace, InStep
  <1>4. /\ CountOf(steps, "heavyFix") = 1 /\ CountOf(steps, "runtimeFix") = 0
    <2>1. /\ {j \in DOMAIN steps : steps[j] = "heavyFix"} = {1}
          /\ {j \in DOMAIN steps : steps[j] = "runtimeFix"} = {}
      OBVIOUS
    <2>2. QED
      BY <2>1, FS_Singleton, FS_EmptySet DEF CountOf
  <1> HIDE DEF steps
  <1>5. /\ run'.plan \in Seq(Kind) /\ run'.plan # <<>>
        /\ run'.index \in Nat /\ run'.index < Len(run'.plan)
        /\ \A j \in (loop.i + 2)..Len(run.plan) :
             /\ j + Len(steps) \in 1..Len(run'.plan)
             /\ run'.plan[j + Len(steps)] = run.plan[j]
    BY <1>1, <1>2, SpliceAhead
  <1>6. /\ CountOf(run'.plan, "heavyFix") = loop.heavyCount + 1
        /\ CountOf(run'.plan, "runtimeFix") = loop.runtimeCount
    <2>1. /\ CountOf(run.plan, "heavyFix") = loop.heavyCount
          /\ CountOf(run.plan, "runtimeFix") = loop.runtimeCount
          /\ loop.heavyCount \in Nat /\ loop.runtimeCount \in Nat
      BY <1>1 DEF KInv, CountsAgree, RowTyped, Locals
    <2>2. run'.plan = SpliceAfter(run.plan, loop.i, steps)
      BY <1>1
    <2>3. QED
      BY <1>2, <1>3, <1>4, <2>1, <2>2, SpliceCounts
  <1>7. RowTyped'
    <2>1. run' \in [status : RunStatus, index : Nat, plan : Seq(Kind)]
          /\ run'.status # "complete"
      BY <1>1, <1>5 DEF RunStatus
    <2>2. loop' \in Locals
      <3>1. RowTyped /\ loop.i \in Nat
        BY <1>3 DEF KInv
      <3>2. NextStep(loop.runtimeCount, loop.heavyCount + 1)
        BY DEF QueueHeavyCorrection
      <3>3. QED
        BY <3>1, <3>2, NextStepTyped
    <2>3. Len(run'.plan) \in Nat
      BY <1>5, LenProperties
    <2>4. QED
      BY <1>1, <1>5, <2>1, <2>2, <2>3 DEF KInv, RowTyped, Locals
  <1>8. LoopPlace' /\ CountsAgree'
    BY <1>1, <1>6 DEF LoopPlace, InStep, CountsAgree, Outside
  <1>9. CorrectionsWithinBudget'
    <2>1. /\ loop.heavyCount < config.maxHeavy
          /\ loop.runtimeCount <= config.maxRuntime
          /\ loop.heavyCount \in Nat
      BY <1>1 DEF KInv, RowTyped, Locals, LoopPlace, CountsAgree, CorrectionsWithinBudget
    <2>2. QED
      BY <1>1, <1>6, <2>1, BudgetsAreNumbers DEF CorrectionsWithinBudget, KInv
  <1>10. LastStepValidated'
    BY <1>1 DEF LastStepValidated, Outside
  <1>11. PreviewAhead'
    <2>1. ASSUME preview = "failed"
          PROVE  \E j \in 1..Len(run'.plan) : j > run'.index /\ run'.plan[j] = "preview"
      <3>1. PICK j \in 1..Len(run.plan) : j > run.index /\ run.plan[j] = "preview"
        BY <2>1 DEF KInv, PreviewAhead
      <3>2. j # loop.i + 1
        BY <1>1, <2>1, <3>1 DEF KInv, PreviewAhead, InStep, Step
      <3>3. /\ j \in (loop.i + 2)..Len(run.plan)
            /\ j + Len(steps) > loop.i + 1
        BY <1>2, <1>3, <3>1, <3>2
      <3>4. /\ j + Len(steps) \in 1..Len(run'.plan)
            /\ run'.plan[j + Len(steps)] = "preview"
        BY <1>5, <3>1, <3>3
      <3>5. run'.index = loop.i + 1
        BY <1>1
      <3>6. QED
        BY <3>3, <3>4, <3>5
    <2>2. QED
      BY <1>1, <2>1 DEF PreviewAhead, InStep, Outside
  <1>12. QED
    BY <1>7, <1>8, <1>9, <1>10, <1>11 DEF KInv

\* QueueRuntimeCorrection: the preview that failed is followed by another.
LEMMA RuntimeKeeps ==
  ASSUME KInv, QueueRuntimeCorrection
  PROVE  KInv'
  <1> DEFINE steps == <<"runtimeFix", "preview">>
  <1>1. /\ loop.pc = "route" /\ loop.runtimeCount < config.maxRuntime
        /\ run' = [status |-> "correcting", index |-> loop.i + 1,
                   plan |-> SpliceAfter(run.plan, loop.i, steps)]
        /\ loop' = [Outside EXCEPT !.pc = "top", !.i = loop.i + 1,
                      !.runtimeCount = loop.runtimeCount + 1, !.heavyCount = loop.heavyCount,
                      !.signature = loop.signature, !.blocking = loop.blocking]
        /\ UNCHANGED <<config, validated, preview, reentries>>
    BY DEF QueueRuntimeCorrection, RuntimeCorrectionDue, NextStep
  <1>2. steps \in Seq(Kind) /\ Len(steps) = 2 /\ steps # <<>> /\ steps[2] = "preview"
    BY DEF Kind, Correction
  <1>3. /\ run.index = loop.i /\ loop.i \in Nat /\ loop.i < Len(run.plan)
        /\ run.plan \in Seq(Kind) /\ Len(run.plan) \in Nat
    BY <1>1, LenProperties DEF KInv, RowTyped, Locals, LoopPlace, InStep
  <1>4. /\ CountOf(steps, "heavyFix") = 0 /\ CountOf(steps, "runtimeFix") = 1
    <2>1. /\ {j \in DOMAIN steps : steps[j] = "heavyFix"} = {}
          /\ {j \in DOMAIN steps : steps[j] = "runtimeFix"} = {1}
      OBVIOUS
    <2>2. QED
      BY <2>1, FS_Singleton, FS_EmptySet DEF CountOf
  <1> HIDE DEF steps
  <1>5. /\ run'.plan \in Seq(Kind) /\ run'.plan # <<>>
        /\ run'.index \in Nat /\ run'.index < Len(run'.plan)
        /\ \A k \in 1..Len(steps) : /\ loop.i + 1 + k \in 1..Len(run'.plan)
                                    /\ run'.plan[loop.i + 1 + k] = steps[k]
    BY <1>1, <1>2, SpliceAhead
  <1>6. /\ CountOf(run'.plan, "heavyFix") = loop.heavyCount
        /\ CountOf(run'.plan, "runtimeFix") = loop.runtimeCount + 1
    <2>1. /\ CountOf(run.plan, "heavyFix") = loop.heavyCount
          /\ CountOf(run.plan, "runtimeFix") = loop.runtimeCount
          /\ loop.heavyCount \in Nat /\ loop.runtimeCount \in Nat
      BY <1>1 DEF KInv, CountsAgree, RowTyped, Locals
    <2>2. run'.plan = SpliceAfter(run.plan, loop.i, steps)
      BY <1>1
    <2>3. QED
      BY <1>2, <1>3, <1>4, <2>1, <2>2, SpliceCounts
  <1>7. RowTyped'
    <2>1. run' \in [status : RunStatus, index : Nat, plan : Seq(Kind)]
          /\ run'.status # "complete"
      BY <1>1, <1>5 DEF RunStatus
    <2>2. loop' \in Locals
      <3>1. RowTyped /\ loop.i \in Nat
        BY <1>3 DEF KInv
      <3>2. NextStep(loop.runtimeCount + 1, loop.heavyCount)
        BY DEF QueueRuntimeCorrection
      <3>3. QED
        BY <3>1, <3>2, NextStepTyped
    <2>3. Len(run'.plan) \in Nat
      BY <1>5, LenProperties
    <2>4. QED
      BY <1>1, <1>5, <2>1, <2>2, <2>3 DEF KInv, RowTyped, Locals
  <1>8. LoopPlace' /\ CountsAgree'
    BY <1>1, <1>6 DEF LoopPlace, InStep, CountsAgree, Outside
  <1>9. CorrectionsWithinBudget'
    <2>1. loop.heavyCount <= config.maxHeavy /\ loop.runtimeCount \in Nat
      BY <1>1 DEF KInv, RowTyped, Locals, CountsAgree, CorrectionsWithinBudget
    <2>2. QED
      BY <1>1, <1>6, <2>1, BudgetsAreNumbers DEF CorrectionsWithinBudget, KInv
  <1>10. LastStepValidated'
    BY <1>1 DEF LastStepValidated, Outside
  <1>11. PreviewAhead'
    <2>1. /\ loop.i + 1 + 2 \in 1..Len(run'.plan)
          /\ run'.plan[loop.i + 1 + 2] = "preview"
          /\ loop.i + 1 + 2 > run'.index
      BY <1>1, <1>2, <1>3, <1>5
    <2>2. QED
      BY <1>1, <2>1 DEF PreviewAhead, InStep, Outside
  <1>12. QED
    BY <1>7, <1>8, <1>9, <1>10, <1>11 DEF KInv

\* Advance: past the last step only with a validation behind it, and never past
\* a preview that failed.
LEMMA AdvanceKeeps ==
  ASSUME KInv, Advance
  PROVE  KInv'
  <1> DEFINE st == IF IsLast(loop.i, run.plan) THEN "complete" ELSE "running"
  <1>1. /\ loop.pc = "route" /\ ~loop.queueHeavy /\ loop.status = "completed"
        /\ run' = [run EXCEPT !.index = loop.i + 1, !.status = st]
        /\ loop' = [Outside EXCEPT !.pc = "top", !.i = loop.i + 1,
                      !.runtimeCount = loop.runtimeCount, !.heavyCount = loop.heavyCount,
                      !.signature = loop.signature, !.blocking = loop.blocking]
        /\ UNCHANGED <<config, validated, preview, reentries>>
    BY DEF Advance, HeavyCorrectionDue, NextStep
  <1>2. /\ run.index = loop.i /\ loop.i \in Nat /\ loop.i < Len(run.plan)
        /\ run.plan \in Seq(Kind) /\ Len(run.plan) \in Nat /\ run.plan # <<>>
    BY <1>1, LenProperties DEF KInv, RowTyped, Locals, LoopPlace, InStep
  <1>3. /\ st \in RunStatus
        /\ st = "complete" <=> loop.i + 1 = Len(run.plan)
        /\ st = "complete" <=> IsLast(loop.i, run.plan)
    BY <1>2 DEF IsLast, RunStatus
  <1> HIDE DEF st
  <1>4. /\ run'.index = loop.i + 1 /\ run'.status = st /\ run'.plan = run.plan
        /\ run' \in [status : RunStatus, index : Nat, plan : Seq(Kind)]
    <2>1. run \in [status : RunStatus, index : Nat, plan : Seq(Kind)]
      BY DEF KInv, RowTyped
    <2>2. run'.index = loop.i + 1 /\ run'.status = st /\ run'.plan = run.plan
      BY <1>1, <2>1
    <2>3. loop.i + 1 \in Nat
      BY <1>2
    <2>4. QED
      BY <1>1, <1>3, <2>1, <2>2, <2>3
  <1>5. RowTyped'
    <2>1. loop' \in Locals
      <3>1. RowTyped /\ loop.i \in Nat
        BY <1>2 DEF KInv
      <3>2. NextStep(loop.runtimeCount, loop.heavyCount)
        BY DEF Advance
      <3>3. QED
        BY <3>1, <3>2, NextStepTyped
    <2>2. QED
      BY <1>1, <1>2, <1>3, <1>4, <2>1 DEF KInv, RowTyped, Locals
  <1>6. LoopPlace' /\ CountsAgree'
    BY <1>1, <1>4 DEF KInv, LoopPlace, InStep, CountsAgree, Outside
  <1>7. CorrectionsWithinBudget' /\ LastStepValidated'
    BY <1>1, <1>3, <1>4 DEF KInv, CorrectionsWithinBudget, LastStepValidated, Outside
  <1>8. PreviewAhead'
    <2>1. ASSUME preview = "failed"
          PROVE  \E j \in 1..Len(run.plan) : j > loop.i + 1 /\ run.plan[j] = "preview"
      <3>1. PICK j \in 1..Len(run.plan) : j > run.index /\ run.plan[j] = "preview"
        BY <2>1 DEF KInv, PreviewAhead
      <3>2. Step # "preview"
        BY <1>1, <2>1 DEF KInv, PreviewAhead, InStep
      <3>3. j > loop.i + 1
        BY <1>2, <3>1, <3>2 DEF Step
      <3>4. QED
        BY <3>1, <3>3
    <2>2. QED
      BY <1>1, <1>4, <2>1 DEF PreviewAhead, InStep, Outside
  <1>9. QED
    BY <1>5, <1>6, <1>7, <1>8 DEF KInv

\* Every step of the loop, a crash, an error and what enters the run again.
LEMMA KStep == KInv /\ [Next]_vars => KInv'
  <1> SUFFICES ASSUME KInv, [Next]_vars PROVE KInv'
    OBVIOUS
  <1>1. reentries \in Nat /\ run.status \in RunStatus
    BY DEF KInv, RowTyped, Locals
  <1>2. ASSUME Enter PROVE KInv'
    BY <1>1, <1>2, BeginKeeps DEF Enter
  <1>3. ASSUME EnterFailed PROVE KInv'
    BY <1>1, <1>3, BeginKeeps DEF EnterFailed, Reentry
  <1>4. ASSUME Crash PROVE KInv'
    <2>1. run' = [run EXCEPT !.status = run.status] /\ reentries' \in Nat
      BY <1>1, <1>4 DEF Crash, Reentry, KInv, RowTyped, Locals
    <2>2. QED
      BY <1>1, <1>4, <2>1, OutsideKeeps DEF Crash
  <1>5. ASSUME Throw PROVE KInv'
    <2> DEFINE st == IF run.status \in TerminalRunStatus THEN run.status ELSE "failed"
    <2>1. /\ run' = [run EXCEPT !.status = st] /\ reentries' \in Nat
          /\ st \in RunStatus /\ (st = "complete" <=> run.status = "complete")
      BY <1>1, <1>5 DEF Throw, Reentry, RunStatus, TerminalRunStatus
    <2>2. loop' = Outside /\ UNCHANGED <<config, validated, preview>>
      BY <1>5 DEF Throw
    <2> HIDE DEF st
    <2>3. QED
      BY <2>1, <2>2, OutsideKeeps
  <1>6. ASSUME Resume PROVE KInv'
    <2>1. /\ run' = [run EXCEPT !.status = "queued"] /\ "queued" \in RunStatus
          /\ loop' = loop /\ loop.pc = "outside" /\ run.status # "complete"
          /\ UNCHANGED <<config, validated, preview>> /\ reentries' \in Nat
      BY <1>1, <1>6 DEF Resume, Reentry, RunStatus
    <2>2. RowTyped'
      BY <2>1 DEF KInv, RowTyped, Locals
    <2>3. LoopPlace' /\ CountsAgree'
      BY <2>1 DEF KInv, LoopPlace, InStep, CountsAgree
    <2>4. CorrectionsWithinBudget' /\ LastStepValidated' /\ PreviewAhead'
      BY <2>1 DEF KInv, RowTyped, Locals, CorrectionsWithinBudget, LastStepValidated, PreviewAhead,
                  InStep
    <2>5. QED
      BY <2>2, <2>3, <2>4 DEF KInv
  <1>7. ASSUME Iteration PROVE KInv'
    <2>1. ASSUME CorrectionPlanningFails \/ FailRun \/ FailDelivery PROVE KInv'
      BY <2>1, ReturnKeeps DEF CorrectionPlanningFails, FailRun, FailDelivery
    <2>2. ASSUME Leave PROVE KInv'
      <3>1. run' = [run EXCEPT !.status = run.status] /\ reentries' \in Nat
        BY <1>1, <2>2 DEF Leave, KInv, RowTyped, Locals
      <3>2. QED
        BY <1>1, <2>2, <3>1, OutsideKeeps DEF Leave
    <2>3. QED
      BY <1>7, <2>1, <2>2, MutationKeeps, PreviewKeeps, BeginValidationKeeps, ValidationKeeps,
         RecordKeeps, HeavyKeeps, RuntimeKeeps, AdvanceKeeps DEF Iteration
  <1>8. ASSUME UNCHANGED vars PROVE KInv'
    BY <1>8 DEF vars, KInv, RowTyped, Locals, LoopPlace, InStep, NeedsValidation, CountsAgree,
       CorrectionsWithinBudget, LastStepValidated, PreviewAhead, Step
  <1>9. QED
    BY <1>2, <1>3, <1>4, <1>5, <1>6, <1>7, <1>8 DEF Next

-----------------------------------------------------------------------------
\* The row and the locals keep their types through every execution, crash and
\* resume of executeLoop, and the index never passes the end of the plan.
THEOREM LoopTyped == Spec => []TypeOK
  <1>1. KInv => TypeOK
    BY LenProperties DEF KInv, RowTyped, Locals, LoopPlace, TypeOK, ProgramCounter
  <1>2. QED
    BY KInit, KStep, <1>1, PTL DEF Spec

\* For any plan, budgets and number of crashes and resumes, the corrections in
\* a plan stay within the contract's limits (countRuntimeCorrectionSteps).
THEOREM CorrectionsBounded == Spec => []CorrectionsWithinBudget
  <1>1. KInv => CorrectionsWithinBudget
    BY DEF KInv
  <1>2. QED
    BY KInit, KStep, <1>1, PTL DEF Spec

\* What returns by itself returns with a run that has ended: executeLoop's
\* returns mark it failed, and its loop ends only behind a complete run.
LEMMA ReturnEnds ==
  ASSUME KInv, [Next]_vars
  PROVE  loop.pc # "outside" /\ loop'.pc = "outside" /\ UNCHANGED reentries
           => run'.status \in {"complete", "failed"}
  <1> SUFFICES ASSUME loop.pc # "outside", loop'.pc = "outside", UNCHANGED reentries
               PROVE  run'.status \in {"complete", "failed"}
    OBVIOUS
  <1>1. reentries + 1 # reentries
    BY DEF KInv, RowTyped, Locals
  <1>2. ASSUME Leave PROVE run'.status = "complete"
    <2>1. loop.i = run.index /\ run.index = Len(run.plan)
      BY <1>2, LenProperties DEF Leave, KInv, RowTyped, Locals, LoopPlace
    <2>2. QED
      BY <1>2, <2>1 DEF Leave, KInv, RowTyped, Locals
  <1>3. ASSUME CorrectionPlanningFails \/ FailRun \/ FailDelivery PROVE run'.status = "failed"
    BY <1>3 DEF CorrectionPlanningFails, FailRun, FailDelivery, Return, KInv, RowTyped, Locals
  <1>4. ASSUME Iteration, ~Leave, ~(CorrectionPlanningFails \/ FailRun \/ FailDelivery)
        PROVE  FALSE
    BY <1>4 DEF Iteration, ExecuteMutation, ExecutePreview, BeginValidation, ValidationPasses,
       ValidationFails, ValidationThrows, Record, QueueHeavyCorrection,
       QueueRuntimeCorrection, Advance, NextStep, Outside, KInv, RowTyped, Locals
  <1>5. ~Enter /\ ~EnterFailed /\ ~Crash /\ ~Throw /\ ~Resume
    BY <1>1 DEF Enter, EnterFailed, BeginLoop, Crash, Throw, Resume, Reentry
  <1>6. QED
    BY <1>2, <1>3, <1>4, <1>5 DEF Next, vars

\* EndsValidated: no run completes unvalidated, or behind a preview that failed,
\* and an execution that returns by itself leaves a run that has ended
\* (executeLoop), whatever was spliced in and however often it was re-entered.
THEOREM RunsEndValidated == Spec => EndsValidated
  <1>1. KInv => (run.status = "complete"
                   => (config.heavy => validated) /\ preview # "failed")
    <2> SUFFICES ASSUME KInv, run.status = "complete"
                 PROVE  (config.heavy => validated) /\ preview # "failed"
      OBVIOUS
    <2>1. run.index = Len(run.plan) /\ Len(run.plan) \in Nat
      BY LenProperties DEF KInv, RowTyped, Locals
    <2>2. QED
      BY <2>1 DEF KInv, LastStepValidated, PreviewAhead
  <1>2. KInv /\ [Next]_vars =>
          [loop.pc # "outside" /\ loop'.pc = "outside" /\ UNCHANGED reentries
             => run'.status \in {"complete", "failed"}]_vars
    BY ReturnEnds
  <1>3. QED
    BY KInit, KStep, <1>1, <1>2, PTL DEF Spec, EndsValidated

-----------------------------------------------------------------------------
(* The corrections of a validated builder run (ValidationCorrections).     *)

\* A step of a correction.
CorrectionStep == [phase : Phase, targets : SUBSET Target]

\* The fields of the locals, whatever the profiles and counts are.
RepairTyped ==
  /\ repair = [pc |-> repair.pc, profile |-> repair.profile, attempt |-> repair.attempt,
               learned |-> repair.learned, retries |-> repair.retries, missed |-> repair.missed]
  /\ repair.attempt = [plan |-> repair.attempt.plan, ran |-> repair.attempt.ran,
                       before |-> repair.attempt.before, blocking |-> repair.attempt.blocking]
  /\ repair.profile = [clusters |-> repair.profile.clusters, collapse |-> repair.profile.collapse]
  /\ repair.profile.collapse \in BOOLEAN
  /\ repair.pc \in {"validate", "choose", "learn", "execute", "returned", "thrown"}
  /\ repair.attempt.plan \in Seq(CorrectionStep)
  /\ repair.attempt.ran \in Seq(CorrectionStep)
  /\ repair.learned \subseteq Target
  /\ repair.retries \in 0..MaxRetries
  /\ repair.missed \in {"none", "micro"}

CorrectionsTyped ==
  /\ project \in Projects
  /\ builder \in [status : {"running", "complete", "failed"}, attempts : 0..MaxAttempts,
                  todo : Seq(CorrectionStep)]
  /\ RepairTyped
  /\ records \in [stalls : Nat, debt : [Target -> {"none", "open", "closed"}]]
  /\ slips \in [lost : BOOLEAN, leftover : BOOLEAN]

\* A plan that can be queued: a stub or the resolution of a debt comes alone,
\* and so does a micro-targeted repair.
IsPlan(plan) ==
  /\ plan \in Seq(CorrectionStep) /\ Len(plan) >= 1
  /\ \A i \in DOMAIN plan :
       plan[i].phase \in {"stub_recipe", "debt_resolution", "micro_targeted_repair"} => Len(plan) = 1

\* Under way: an attempt that was queued and has not been learned from.
UnderWay == repair.pc \in {"execute", "validate", "learn"} /\ repair.attempt # NoAttempt

\* The steps that were run and those to come are the plan's, unless a refused
\* attempt left steps in front of them.
InPlan(plan, ran, todo) ==
  IF ran = <<>> THEN Len(todo) = Len(plan) => todo = plan
  ELSE /\ Len(ran) + Len(todo) = Len(plan)
       /\ \A i \in 1..Len(todo) : todo[i] = plan[Len(ran) + i]

\* Where the attempt is: what was executed belongs to the plan, as long as no
\* leftover step was come to.
AttemptPlace ==
  /\ repair.pc = "execute" =>
       /\ repair.attempt # NoAttempt
       /\ builder.attempts < MaxAttempts
       /\ builder.status = "running"
       /\ repair.attempt.ran = <<>> => Len(builder.todo) >= Len(repair.attempt.plan)
       /\ ~slips.leftover => InPlan(repair.attempt.plan, repair.attempt.ran, builder.todo)
  /\ UnderWay => IsPlan(repair.attempt.plan)
  /\ UnderWay /\ repair.pc # "execute" => repair.attempt.ran # <<>>
  /\ UnderWay /\ ~slips.leftover /\ repair.attempt.ran # <<>> =>
       /\ repair.attempt.ran[1] = repair.attempt.plan[1]
       /\ Len(repair.attempt.ran) <= Len(repair.attempt.plan)
  /\ repair.pc = "learn" => repair.attempt # NoAttempt
  /\ repair.pc = "choose" => repair.attempt = NoAttempt
  /\ repair.pc = "validate" /\ repair.attempt = NoAttempt => repair.missed = "none"

\* Where a debt is resolved: it is the attempt's own step, on a project that
\* passes.
IsDebt(s) == s.phase = "debt_resolution"

OnlyDebt(attempt) == \A i \in DOMAIN attempt.ran : IsDebt(attempt.ran[i])

DebtPlace ==
  /\ repair.pc \in {"validate", "learn", "choose"} =>
       \A i \in DOMAIN builder.todo : ~IsDebt(builder.todo[i])
  /\ repair.pc = "execute" =>
       \A i \in DOMAIN builder.todo :
         IsDebt(builder.todo[i]) => builder.todo[i] = repair.attempt.plan[1]
  /\ UnderWay =>
       /\ \A i \in DOMAIN repair.attempt.ran :
            IsDebt(repair.attempt.ran[i]) => repair.attempt.ran[i] = repair.attempt.plan[1]
       /\ IsDebt(repair.attempt.plan[1]) /\ OnlyDebt(repair.attempt) =>
            /\ Passes(project)
            /\ repair.attempt.ran # <<>> =>
                 \A m \in repair.attempt.plan[1].targets : project.module[m] # "stub"

\* Behind a debt that was resolved there is nothing left to correct.
ClosedDebt ==
  (\E m \in Target : records.debt[m] = "closed") =>
    /\ repair.pc \in {"choose", "returned", "thrown"}
    /\ repair.pc = "choose" => Passes(project) /\ repair.learned = {}
    /\ \A m \in Target : records.debt[m] = "closed" => project.module[m] # "stub"

\* Every stub is told of, or was made by the attempt under way.
StubsTold ==
  ~slips.lost /\ ~slips.leftover =>
    \/ repair.pc = "thrown"
    \/ repair.pc = "returned" /\ builder.status = "failed"
    \/ \A m \in Stubs(project) :
         \/ records.debt[m] = "open"
         \/ UnderWay /\ m \in StubsMade(repair.attempt)

\* A miss was recorded as a stall.
MissesStall ==
  ~slips.lost /\ ~slips.leftover /\ repair.pc = "choose" /\ repair.missed = "micro" =>
    records.stalls >= 1

\* Inductive.
CorrectionsInv ==
  /\ CorrectionsTyped
  /\ AttemptPlace
  /\ DebtPlace
  /\ ClosedDebt
  /\ StubsTold
  /\ MissesStall
  /\ StallsEscalate

-----------------------------------------------------------------------------
\* One step more: what is run next is the plan's next step, unless it is a leftover.
LEMMA TakesStep ==
  ASSUME NEW plan \in Seq(CorrectionStep), NEW ran \in Seq(CorrectionStep),
         NEW todo \in Seq(CorrectionStep), todo # <<>>, Len(plan) >= 1,
         InPlan(plan, ran, todo), Len(todo) <= Len(plan),
         ran = <<>> => Len(todo) >= Len(plan),
         ran # <<>> => ran[1] = plan[1]
  PROVE  /\ InPlan(plan, Append(ran, Head(todo)), Tail(todo))
         /\ Append(ran, Head(todo))[1] = plan[1]
         /\ Len(Append(ran, Head(todo))) <= Len(plan)
         /\ Head(todo) = plan[Len(ran) + 1] /\ Len(ran) + 1 \in 1..Len(plan)
  <1> DEFINE r == Append(ran, Head(todo))
             t == Tail(todo)
  <1>1. /\ Len(plan) \in Nat /\ Len(ran) \in Nat /\ Len(todo) \in Nat /\ Len(todo) >= 1
        /\ ran = <<>> <=> Len(ran) = 0
    BY LenProperties, EmptySeq
  <1>2. Head(todo) = todo[1] /\ todo[1] \in CorrectionStep
    BY <1>1, LenProperties, ElementOfSeq
  <1>3. /\ Len(t) = Len(todo) - 1 /\ \A i \in 1..Len(t) : t[i] = todo[i + 1]
    BY HeadTailProperties
  <1>4. /\ r # <<>> /\ Len(r) = Len(ran) + 1 /\ r[Len(ran) + 1] = todo[1]
        /\ \A i \in 1..Len(ran) : r[i] = ran[i]
    BY <1>2, AppendProperties
  <1> HIDE DEF r, t
  <1>5. CASE ran = <<>>
    <2>1. todo = plan /\ Len(ran) = 0
      BY <1>1, <1>5 DEF InPlan
    <2>2. \A i \in 1..Len(t) : t[i] = plan[Len(r) + i]
      <3> TAKE i \in 1..Len(t)
      <3>1. Len(r) + i = i + 1
        BY <1>1, <1>3, <1>4, <2>1
      <3> QED
        BY <1>3, <2>1, <3>1
    <2>3. Len(r) + Len(t) = Len(plan) /\ Len(r) <= Len(plan)
      BY <1>1, <1>3, <1>4, <2>1
    <2>4. r[1] = plan[1] /\ todo[1] = plan[Len(ran) + 1] /\ Len(ran) + 1 \in 1..Len(plan)
      BY <1>1, <1>4, <2>1
    <2> QED
      BY <1>2, <1>4, <2>2, <2>3, <2>4 DEF InPlan, r, t
  <1>6. CASE ran # <<>>
    <2>1. Len(ran) + Len(todo) = Len(plan) /\ \A i \in 1..Len(todo) : todo[i] = plan[Len(ran) + i]
      BY <1>6 DEF InPlan
    <2>2. \A i \in 1..Len(t) : t[i] = plan[Len(r) + i]
      <3> TAKE i \in 1..Len(t)
      <3>1. i + 1 \in 1..Len(todo) /\ Len(ran) + (i + 1) = Len(r) + i
        BY <1>1, <1>3, <1>4
      <3> QED
        BY <1>3, <2>1, <3>1
    <2>3. Len(r) + Len(t) = Len(plan) /\ Len(r) <= Len(plan) /\ 1 \in 1..Len(todo)
      BY <1>1, <1>3, <1>4, <2>1
    <2>4. r[1] = plan[1] /\ todo[1] = plan[Len(ran) + 1] /\ Len(ran) + 1 \in 1..Len(plan)
      BY <1>1, <1>4, <1>6, <2>1, <2>3
    <2> QED
      BY <1>2, <1>4, <2>2, <2>3, <2>4 DEF InPlan, r, t
  <1> QED
    BY <1>5, <1>6

\* A plan of one step.
LEMMA SinglePlan ==
  ASSUME NEW s \in CorrectionStep
  PROVE  IsPlan(<<s>>) /\ Len(<<s>>) = 1 /\ <<s>>[1] = s /\ DOMAIN <<s>> = {1}
  <1>1. <<s>> \in Seq(CorrectionStep) /\ Len(<<s>>) = 1 /\ <<s>>[1] = s
    OBVIOUS
  <1>2. DOMAIN <<s>> = 1..1
    OBVIOUS
  <1> QED
    BY <1>1, <1>2 DEF IsPlan

\* What planCorrection answers is a plan, of the planner's phases; it is a
\* micro-targeted repair only if no phase was asked for and nothing collapsed.
LEMMA PlannedPhases ==
  ASSUME NEW profile, NEW override, NEW scoped
  PROVE  LET plan == PlanCorrection(profile, override, scoped) IN
         /\ IsPlan(plan)
         /\ \A i \in DOMAIN plan : plan[i].phase \in PlannerPhase
         /\ plan[1].phase = "micro_targeted_repair" =>
              /\ override # "feature_reintegration" /\ ~profile.collapse
              /\ profile.clusters \cap MicroPrimary # {}
  <1> DEFINE plan == PlanCorrection(profile, override, scoped)
             two == <<"structural_reset", "feature_reintegration">>
             micro == /\ override # "feature_reintegration" /\ ~profile.collapse
                      /\ profile.clusters \cap MicroPrimary # {}
  <1>1. PICK phases :
          /\ plan = [i \in DOMAIN phases |-> StepOf(phases[i], {})]
          /\ \/ phases = two
             \/ \E x \in {"feature_reintegration", "typecheck_recipe", "build_recipe",
                          "test_recipe", "single"} : phases = <<x>>
             \/ phases = <<"micro_targeted_repair">> /\ micro
    BY DEF PlanCorrection
  <1> HIDE DEF plan, micro
  <1>2. CASE phases = two
    <2>1. DOMAIN phases = 1..2
      BY <1>2
    <2>2. plan = [i \in 1..2 |-> StepOf(two[i], {})]
      BY <1>1, <1>2, <2>1
    <2>3. \A i \in 1..2 : plan[i] = StepOf(two[i], {})
      BY <2>2
    <2>4. two[1] = "structural_reset" /\ two[2] = "feature_reintegration"
      OBVIOUS
    <2>5. \A i \in 1..2 : /\ plan[i] \in CorrectionStep
                          /\ plan[i].phase \in {"structural_reset", "feature_reintegration"}
      <3> TAKE i \in 1..2
      <3>1. i = 1 \/ i = 2
        OBVIOUS
      <3> QED
        BY <2>3, <2>4, <3>1 DEF StepOf, CorrectionStep, Phase, PlannerPhase
    <2>6. plan \in Seq(CorrectionStep) /\ Len(plan) = 2 /\ DOMAIN plan = 1..2
      <3>1. plan = [i \in 1..2 |-> plan[i]]
        BY <2>2
      <3>2. plan \in [1..2 -> CorrectionStep] /\ DOMAIN plan = 1..2
        BY <2>2, <2>5, <3>1
      <3>3. plan \in Seq(CorrectionStep)
        BY <3>2, SeqDef
      <3> QED
        BY <3>2, <3>3, LenProperties
    <2> QED
      BY <2>5, <2>6 DEF IsPlan, PlannerPhase, plan
  <1>3. ASSUME NEW x \in PlannerPhase, phases = <<x>>
        PROVE  /\ IsPlan(plan) /\ DOMAIN plan = {1} /\ plan[1].phase = x
    <2>1. DOMAIN phases = 1..1 /\ phases[1] = x
      BY <1>3
    <2>2. plan = [i \in 1..1 |-> StepOf(phases[i], {})]
      BY <1>1, <2>1
    <2>3. plan = [i \in 1..1 |-> plan[i]] /\ plan[1] = StepOf(x, {}) /\ \A i \in 1..1 : i = 1
      BY <2>1, <2>2
    <2>4. plan[1] \in CorrectionStep /\ plan[1].phase = x
      BY <2>3 DEF StepOf, CorrectionStep, Phase
    <2>5. plan \in [1..1 -> CorrectionStep] /\ DOMAIN plan = 1..1
      BY <2>2, <2>3, <2>4
    <2>6. plan \in Seq(CorrectionStep)
      BY <2>5, SeqDef
    <2>7. Len(plan) = 1 /\ DOMAIN plan = {1}
      BY <2>5, <2>6, LenProperties
    <2> QED
      BY <2>4, <2>6, <2>7 DEF IsPlan
  <1>4. CASE \E x \in {"feature_reintegration", "typecheck_recipe", "build_recipe",
                       "test_recipe", "single"} : phases = <<x>>
    BY <1>3, <1>4 DEF PlannerPhase, plan
  <1>5. CASE phases = <<"micro_targeted_repair">> /\ micro
    BY <1>3, <1>5 DEF PlannerPhase, plan, micro
  <1> QED
    BY <1>1, <1>2, <1>4, <1>5

\* A recipe's plan is one step, of a recipe's phase.
LEMMA RecipePhases ==
  ASSUME NEW plan \in RecipePlans(project)
  PROVE  /\ IsPlan(plan) /\ DOMAIN plan = {1}
         /\ plan[1].phase \in RecipePhase
  <1>1. PICK chosen \in SUBSET Target :
          \/ plan = <<StepOf("stub_recipe", {m \in chosen : project.module[m] = "absent"})>>
          \/ plan = <<StepOf("patch_recipe", chosen)>>
    BY DEF RecipePlans, Broken
  <1>2. PICK ph \in RecipePhase, targets \in SUBSET Target : plan = <<StepOf(ph, targets)>>
    BY <1>1 DEF RecipePhase
  <1>3. StepOf(ph, targets) \in CorrectionStep /\ StepOf(ph, targets).phase = ph
    BY DEF StepOf, CorrectionStep, Phase
  <1> QED
    BY <1>2, <1>3, SinglePlan

-----------------------------------------------------------------------------
\* The other steps have not been come to: the ghosts only grow.
LEMMA Queues ==
  ASSUME CorrectionsInv, repair.pc = "choose", builder.attempts < MaxAttempts,
         NEW plan, IsPlan(plan), Queue(plan),
         UNCHANGED <<project, records>>, slips' \in [lost : BOOLEAN, leftover : BOOLEAN],
         slips'.leftover = slips.leftover, slips.lost => slips'.lost,
         IsDebt(plan[1]) => Passes(project),
         \A m \in Target : records.debt[m] # "closed",
         repair.missed = "micro" /\ plan[1].phase = "micro_targeted_repair"
           => slips'.lost \/ slips'.leftover
  PROVE  CorrectionsInv'
  <1> DEFINE b == Blocking(project)
             c == repair.profile.clusters
             all == builder.todo \o plan
  <1>1. /\ repair' = [pc |-> "execute", profile |-> NoProfile,
                      attempt |-> [plan |-> plan, ran |-> <<>>, before |-> c, blocking |-> b],
                      learned |-> {}, retries |-> repair.retries, missed |-> repair.missed]
    BY DEF Queue, CorrectionsInv, CorrectionsTyped, RepairTyped
  <1> HIDE DEF b, c
  <1>2. /\ repair'.pc = "execute" /\ repair'.attempt.plan = plan /\ repair'.attempt.ran = <<>>
        /\ repair'.missed = repair.missed /\ repair'.learned = {}
        /\ repair'.retries = repair.retries
        /\ repair'.profile = NoProfile
    BY <1>1
  <1>3. plan \in Seq(CorrectionStep) /\ builder.todo \in Seq(CorrectionStep)
    BY DEF IsPlan, CorrectionsInv, CorrectionsTyped
  <1>4. /\ Len(plan) \in Nat /\ Len(plan) >= 1 /\ Len(builder.todo) \in Nat
        /\ DOMAIN plan = 1..Len(plan) /\ DOMAIN builder.todo = 1..Len(builder.todo)
        /\ 1 \in DOMAIN plan
    BY <1>3, LenProperties DEF IsPlan
  <1>5. /\ all \in Seq(CorrectionStep) /\ Len(all) = Len(builder.todo) + Len(plan)
        /\ \A i \in 1..(Len(builder.todo) + Len(plan)) :
             all[i] = IF i <= Len(builder.todo) THEN builder.todo[i] ELSE plan[i - Len(builder.todo)]
        /\ DOMAIN all = 1..(Len(builder.todo) + Len(plan))
    BY <1>3, <1>4, ConcatProperties, LenProperties
  <1>6. Len(builder.todo) = 0 => all = plan
    BY <1>3, EmptySeq, ConcatEmptySeq
  <1> HIDE DEF all
  <1>7. builder' = [status |-> "running", attempts |-> builder.attempts, todo |-> all]
    BY DEF Queue, all, CorrectionsInv, CorrectionsTyped
  <1>8. /\ builder'.status = "running" /\ builder'.attempts = builder.attempts /\ builder'.todo = all
    BY <1>7
  <1>9. CorrectionsTyped'
    <2>1. builder' \in [status : {"running", "complete", "failed"}, attempts : 0..MaxAttempts,
                        todo : Seq(CorrectionStep)]
      BY <1>5, <1>7 DEF CorrectionsInv, CorrectionsTyped
    <2>2. RepairTyped'
      <3>1. <<>> \in Seq(CorrectionStep)
        BY EmptySeq
      <3> QED
        BY <1>1, <1>3, <3>1 DEF RepairTyped, NoProfile, CorrectionsInv, CorrectionsTyped
    <2> QED
      BY <2>1, <2>2 DEF CorrectionsInv, CorrectionsTyped
  <1>10. repair'.attempt # NoAttempt
    <2>1. plan # <<>>
      BY <1>3, <1>4, EmptySeq
    <2>2. NoAttempt.plan = <<>>
      BY DEF NoAttempt
    <2> QED
      BY <1>2, <2>1, <2>2
  <1>11. UnderWay'
    BY <1>2, <1>10 DEF UnderWay
  <1>12. AttemptPlace'
    <2>1. Len(all) >= Len(plan) /\ (Len(all) = Len(plan) => all = plan)
      <3>1. Len(all) = Len(builder.todo) + Len(plan)
        BY <1>5
      <3>2. Len(builder.todo) \in Nat /\ Len(plan) \in Nat
        BY <1>4
      <3>3. Len(all) >= Len(plan) /\ (Len(all) = Len(plan) => Len(builder.todo) = 0)
        <4> DEFINE n == Len(all)
                   k == Len(builder.todo)
                   j == Len(plan)
        <4> HIDE DEF n, k, j
        <4>1. n = k + j /\ k \in Nat /\ j \in Nat => n >= j /\ (n = j => k = 0)
          OBVIOUS
        <4> QED
          BY <3>1, <3>2, <4>1 DEF n, k, j
      <3> QED
        BY <3>3, <1>6
    <2>4. InPlan(plan, <<>>, all)
      BY <2>1 DEF InPlan
    <2>2. InPlan(repair'.attempt.plan, repair'.attempt.ran, builder'.todo)
      BY <1>2, <1>8, <2>4
    <2>3. IsPlan(repair'.attempt.plan)
      BY <1>2
    <2> QED
      BY <1>2, <1>8, <1>10, <2>1, <2>2, <2>3 DEF AttemptPlace, CorrectionsInv, CorrectionsTyped
  <1>13. DebtPlace'
    <2>1. \A i \in 1..(Len(builder.todo) + Len(plan)) : IsDebt(all[i]) => all[i] = plan[1]
      <3> SUFFICES ASSUME NEW i \in 1..(Len(builder.todo) + Len(plan)), IsDebt(all[i])
                   PROVE  all[i] = plan[1]
        OBVIOUS
      <3>1. CASE i <= Len(builder.todo)
        <4>1. i \in DOMAIN builder.todo /\ all[i] = builder.todo[i]
          BY <1>4, <1>5, <3>1
        <4> QED
          BY <4>1 DEF CorrectionsInv, DebtPlace
      <3>2. CASE i > Len(builder.todo)
        <4>1. i - Len(builder.todo) \in 1..Len(plan) /\ all[i] = plan[i - Len(builder.todo)]
          BY <1>4, <1>5, <3>2
        <4>2. Len(plan) = 1
          BY <1>4, <4>1 DEF IsPlan, IsDebt
        <4>3. i - Len(builder.todo) = 1
          BY <4>1, <4>2
        <4> QED
          BY <4>1, <4>3
      <3> QED
        BY <1>4, <3>1, <3>2
    <2>2. \A i \in DOMAIN repair'.attempt.ran : FALSE
      BY <1>2
    <2>3. IsDebt(plan[1]) => Passes(project)'
      BY DEF Passes, Broken
    <2> QED
      BY <1>2, <1>5, <1>8, <2>1, <2>2, <2>3 DEF DebtPlace, IsDebt, OnlyDebt
  <1>14. ClosedDebt'
    BY DEF ClosedDebt
  <1>15. StubsTold'
    <2> SUFFICES ASSUME ~slips'.lost, ~slips'.leftover, NEW m \in Stubs(project)'
                 PROVE  records'.debt[m] = "open"
      BY DEF StubsTold
    <2>1. m \in Stubs(project) /\ ~slips.lost /\ ~slips.leftover
      BY DEF Stubs
    <2>2. ~UnderWay
      BY DEF UnderWay
    <2> QED
      BY <2>1, <2>2 DEF CorrectionsInv, StubsTold
  <1>16. MissesStall'
    BY <1>2 DEF MissesStall
  <1>17. StallsEscalate'
    BY <1>2 DEF StallsEscalate
  <1> QED
    BY <1>9, <1>12, <1>13, <1>14, <1>15, <1>16, <1>17 DEF CorrectionsInv

\* The initial states: nothing was recorded, and nothing is to come.
LEMMA CorrectionsStart == CorrectionsInit => CorrectionsInv
  <1> SUFFICES ASSUME CorrectionsInit PROVE CorrectionsInv
    OBVIOUS
  <1> USE ValidationCorrectionsAssumption DEF CorrectionsInit
  <1>1. <<>> \in Seq(CorrectionStep)
    BY EmptySeq
  <1>2. /\ repair.pc = "validate" /\ repair.attempt = NoAttempt /\ repair.missed = "none"
        /\ repair.profile = NoProfile /\ repair.learned = {} /\ repair.retries = 0
    OBVIOUS
  <1>3. ~UnderWay
    BY <1>2 DEF UnderWay
  <1>4. CorrectionsTyped
    <2>1. RepairTyped
      <3>1. /\ repair.profile = [clusters |-> {}, collapse |-> FALSE]
            /\ repair.attempt = [plan |-> <<>>, ran |-> <<>>, before |-> {}, blocking |-> 0]
        BY <1>2 DEF NoAttempt, NoProfile
      <3>2. /\ repair.attempt.plan = <<>> /\ repair.attempt.ran = <<>>
            /\ repair.attempt.before = {} /\ repair.attempt.blocking = 0
        BY <3>1
      <3>3. repair.profile.clusters = {} /\ repair.profile.collapse = FALSE
        BY <3>1
      <3>4. repair = [pc |-> repair.pc, profile |-> repair.profile, attempt |-> repair.attempt,
                      learned |-> repair.learned, retries |-> repair.retries,
                      missed |-> repair.missed]
        OBVIOUS
      <3>5. repair.retries \in 0..MaxRetries
        BY <1>2
      <3> QED
        BY <1>1, <1>2, <3>1, <3>2, <3>3, <3>4, <3>5 DEF RepairTyped
    <2>2. builder \in [status : {"running", "complete", "failed"}, attempts : 0..MaxAttempts,
                       todo : Seq(CorrectionStep)]
      BY <1>1
    <2> QED
      BY <2>1, <2>2 DEF CorrectionsTyped
  <1>5. AttemptPlace
    BY <1>2, <1>3 DEF AttemptPlace
  <1>6. DebtPlace
    BY <1>2, <1>3 DEF DebtPlace
  <1>7. ClosedDebt
    BY DEF ClosedDebt
  <1>8. StubsTold
    BY DEF StubsTold, Stubs
  <1>9. MissesStall /\ StallsEscalate
    BY <1>2 DEF MissesStall, StallsEscalate
  <1> QED
    BY <1>4, <1>5, <1>6, <1>7, <1>8, <1>9 DEF CorrectionsInv

\* The correction that resolves a debt: no other is closed.
LEMMA ResolveDebtKeeps == CorrectionsInv /\ ResolveDebt => CorrectionsInv'
  <1> SUFFICES ASSUME CorrectionsInv, ResolveDebt PROVE CorrectionsInv'
    OBVIOUS
  <1> DEFINE s == StepOf("debt_resolution", repair.learned)
             plan == <<s>>
  <1>1. s \in CorrectionStep /\ s.phase = "debt_resolution"
    BY DEF StepOf, CorrectionStep, Phase, CorrectionsInv, CorrectionsTyped, RepairTyped
  <1>2. IsPlan(plan) /\ plan[1].phase = "debt_resolution"
    BY <1>1, SinglePlan
  <1>3. /\ repair.pc = "choose" /\ builder.attempts < MaxAttempts /\ Queue(plan)
        /\ Passes(project) /\ repair.learned # {} /\ UNCHANGED <<project, records, slips>>
    BY DEF ResolveDebt
  <1> HIDE DEF plan
  <1>4. \A m \in Target : records.debt[m] # "closed"
    BY <1>3 DEF CorrectionsInv, ClosedDebt
  <1>5. slips' \in [lost : BOOLEAN, leftover : BOOLEAN]
    BY <1>3 DEF CorrectionsInv, CorrectionsTyped
  <1>6. slips' = slips /\ UNCHANGED <<project, records>>
    BY <1>3
  <1> QED
    BY <1>2, <1>3, <1>4, <1>5, <1>6, Queues

\* A recipe for the imports.
LEMMA ApplyRecipeKeeps == CorrectionsInv /\ ApplyRecipe => CorrectionsInv'
  <1> SUFFICES ASSUME CorrectionsInv, ApplyRecipe PROVE CorrectionsInv'
    OBVIOUS
  <1>1. PICK plan \in RecipePlans(project) : Queue(plan)
    BY DEF ApplyRecipe
  <1>2. IsPlan(plan) /\ plan[1].phase \in RecipePhase
    BY RecipePhases
  <1>3. /\ repair.pc = "choose" /\ builder.attempts < MaxAttempts
        /\ ~Passes(project) /\ UNCHANGED <<project, records, slips>>
    BY DEF ApplyRecipe, MayCorrect
  <1>4. \A m \in Target : records.debt[m] # "closed"
    BY <1>3 DEF CorrectionsInv, ClosedDebt
  <1>5. slips' \in [lost : BOOLEAN, leftover : BOOLEAN]
    BY <1>3 DEF CorrectionsInv, CorrectionsTyped
  <1>6. slips' = slips /\ UNCHANGED <<project, records>>
    BY <1>3
  <1>7. ~IsDebt(plan[1]) /\ plan[1].phase # "micro_targeted_repair"
    BY <1>2 DEF RecipePhase, IsDebt
  <1> QED
    BY <1>1, <1>2, <1>3, <1>4, <1>5, <1>6, <1>7, Queues

\* The planner: it is asked for a micro-targeted repair after one that missed
\* only if the stall was not recorded or not asked for.
LEMMA AskPlannerKeeps == CorrectionsInv /\ AskPlanner => CorrectionsInv'
  <1> SUFFICES ASSUME CorrectionsInv, AskPlanner PROVE CorrectionsInv'
    OBVIOUS
  <1>1. /\ repair.pc = "choose" /\ builder.attempts < MaxAttempts
        /\ ~Passes(project) /\ UNCHANGED <<project, records>>
    BY DEF AskPlanner, MayCorrect
  <1>2. PICK unstable, sessionStalls, asked, several, scoped \in BOOLEAN :
          LET profile == [repair.profile EXCEPT
                            !.collapse = @ \/ /\ unstable
                                              /\ "import_resolution_error"
                                                   \in repair.profile.clusters]
              escalates == IsMicroTargeted(profile) /\ asked /\ Stalling(sessionStalls)
              rebuilds == escalates /\ EscalatesToArchitecture(profile, several)
          IN  /\ Queue(PlanCorrection(
                         [profile EXCEPT !.collapse = @ \/ rebuilds],
                         IF escalates /\ ~rebuilds THEN "feature_reintegration"
                                                   ELSE "none",
                         scoped))
              /\ slips' = [slips EXCEPT !.lost = @ \/ ~asked]
    BY DEF AskPlanner
  <1> DEFINE profile == [repair.profile EXCEPT
                           !.collapse = @ \/ /\ unstable
                                             /\ "import_resolution_error"
                                                  \in repair.profile.clusters]
             escalates == IsMicroTargeted(profile) /\ asked /\ Stalling(sessionStalls)
             rebuilds == escalates /\ EscalatesToArchitecture(profile, several)
             asks == [profile EXCEPT !.collapse = @ \/ rebuilds]
             override == IF escalates /\ ~rebuilds THEN "feature_reintegration" ELSE "none"
             plan == PlanCorrection(asks, override, scoped)
  <1>3. Queue(plan) /\ slips' = [slips EXCEPT !.lost = @ \/ ~asked]
    BY <1>2
  <1> HIDE DEF plan
  <1>4. /\ IsPlan(plan)
        /\ \A i \in DOMAIN plan : plan[i].phase \in PlannerPhase
        /\ plan[1].phase = "micro_targeted_repair" =>
             /\ override # "feature_reintegration" /\ ~asks.collapse
             /\ asks.clusters \cap MicroPrimary # {}
    <2> HIDE DEF asks, override
    <2> QED
      BY PlannedPhases DEF plan
  <1>5. 1 \in DOMAIN plan
    BY <1>4, LenProperties DEF IsPlan
  <1>6. ~IsDebt(plan[1])
    BY <1>4, <1>5 DEF PlannerPhase, IsDebt
  <1>7. ASSUME repair.missed = "micro", plan[1].phase = "micro_targeted_repair"
        PROVE  slips'.lost \/ slips'.leftover
    <2>1. override # "feature_reintegration" /\ ~asks.collapse
          /\ asks.clusters \cap MicroPrimary # {}
      BY <1>4, <1>7
    <2>2. PICK c \in BOOLEAN : c = (repair.profile.collapse
                 \/ (unstable /\ "import_resolution_error" \in repair.profile.clusters))
      OBVIOUS
    <2>3. profile = [clusters |-> repair.profile.clusters, collapse |-> c]
      BY <2>2 DEF CorrectionsInv, CorrectionsTyped, RepairTyped
    <2>4. profile.collapse = c /\ profile.clusters = repair.profile.clusters
      BY <2>3
    <2> HIDE DEF profile
    <2>5. PICK d \in BOOLEAN : d = (profile.collapse \/ rebuilds)
      OBVIOUS
    <2>6. asks = [clusters |-> repair.profile.clusters, collapse |-> d]
      <3>1. asks = [profile EXCEPT !.collapse = d]
        BY <2>5
      <3> QED
        BY <2>3, <3>1
    <2>7. asks.collapse = d /\ asks.clusters = repair.profile.clusters
      BY <2>6
    <2> HIDE DEF asks
    <2>8. ~profile.collapse /\ ~rebuilds
      BY <2>1, <2>5, <2>7
    <2>9. ~escalates
      BY <2>1, <2>8
    <2>10. IsMicroTargeted(profile)
      BY <2>1, <2>4, <2>7, <2>8 DEF IsMicroTargeted
    <2>11. ~asked \/ ~Stalling(sessionStalls)
      BY <2>9, <2>10
    <2>12. CASE ~asked
      BY <1>3, <2>12 DEF CorrectionsInv, CorrectionsTyped
    <2>13. CASE ~Stalling(sessionStalls)
      <3>1. ~(records.stalls >= 1)
        BY <2>13 DEF Stalling
      <3>2. slips.lost \/ slips.leftover
        BY <1>1, <1>7, <3>1 DEF CorrectionsInv, MissesStall
      <3> QED
        BY <1>3, <3>2 DEF CorrectionsInv, CorrectionsTyped
    <2> QED
      BY <2>11, <2>12, <2>13
  <1>8. \A m \in Target : records.debt[m] # "closed"
    BY <1>1 DEF CorrectionsInv, ClosedDebt
  <1>9. /\ slips' \in [lost : BOOLEAN, leftover : BOOLEAN]
        /\ slips'.leftover = slips.leftover
        /\ slips.lost => slips'.lost
    BY <1>3 DEF CorrectionsInv, CorrectionsTyped
  <1> QED
    BY <1>1, <1>3, <1>4, <1>6, <1>7, <1>8, <1>9, Queues

\* Leaving the loop.  What is handed back complete has its stubs told of.
LEMMA HandBackKeeps == CorrectionsInv /\ HandBack => CorrectionsInv'
  <1> SUFFICES ASSUME CorrectionsInv, HandBack PROVE CorrectionsInv'
    OBVIOUS
  <1>1. /\ repair.pc = "choose" /\ repair' = [repair EXCEPT !.pc = "returned"]
        /\ UNCHANGED <<project, builder, records, slips>>
    BY DEF HandBack, Goto
  <1>2. /\ repair'.pc = "returned" /\ repair'.attempt = repair.attempt
        /\ repair'.missed = repair.missed
    BY <1>1 DEF CorrectionsInv, CorrectionsTyped, RepairTyped
  <1>3. ~UnderWay /\ ~UnderWay'
    BY <1>1, <1>2 DEF UnderWay
  <1>4. CorrectionsTyped'
    BY <1>1 DEF CorrectionsInv, CorrectionsTyped, RepairTyped
  <1>5. AttemptPlace' /\ DebtPlace'
    BY <1>2, <1>3 DEF AttemptPlace, DebtPlace
  <1>6. ClosedDebt'
    BY <1>1, <1>2 DEF ClosedDebt, CorrectionsInv
  <1>7. StubsTold'
    BY <1>1, <1>2, <1>3 DEF StubsTold, CorrectionsInv, Stubs
  <1>8. MissesStall' /\ StallsEscalate'
    BY <1>2 DEF MissesStall, StallsEscalate
  <1> QED
    BY <1>4, <1>5, <1>6, <1>7, <1>8 DEF CorrectionsInv

\* An exception: nothing is promised of what was under way.
LEMMA CorrectionsThrowKeeps == CorrectionsInv /\ CorrectionsThrow => CorrectionsInv'
  <1> SUFFICES ASSUME CorrectionsInv, CorrectionsThrow PROVE CorrectionsInv'
    OBVIOUS
  <1>1. /\ repair' = [repair EXCEPT !.pc = "thrown"]
        /\ UNCHANGED <<project, builder, records, slips>>
    BY DEF CorrectionsThrow, Goto
  <1>2. repair'.pc = "thrown" /\ repair'.attempt = repair.attempt
    BY <1>1 DEF CorrectionsInv, CorrectionsTyped, RepairTyped
  <1>3. ~UnderWay'
    BY <1>2 DEF UnderWay
  <1>4. CorrectionsTyped'
    BY <1>1 DEF CorrectionsInv, CorrectionsTyped, RepairTyped
  <1>5. AttemptPlace' /\ DebtPlace'
    BY <1>2, <1>3 DEF AttemptPlace, DebtPlace
  <1>6. ClosedDebt'
    BY <1>1, <1>2 DEF ClosedDebt, CorrectionsInv
  <1>7. StubsTold'
    BY <1>2 DEF StubsTold
  <1>8. MissesStall' /\ StallsEscalate'
    BY <1>2 DEF MissesStall, StallsEscalate
  <1> QED
    BY <1>4, <1>5, <1>6, <1>7, <1>8 DEF CorrectionsInv

\* The attempt is counted when nothing of the plan is left.
LEMMA CountAttemptKeeps == CorrectionsInv /\ CountAttempt => CorrectionsInv'
  <1> SUFFICES ASSUME CorrectionsInv, CountAttempt PROVE CorrectionsInv'
    OBVIOUS
  <1> USE ValidationCorrectionsAssumption
  <1>1. /\ repair.pc = "execute" /\ builder.todo = <<>>
        /\ builder' = [builder EXCEPT !.status = "complete", !.attempts = @ + 1]
        /\ repair' = [repair EXCEPT !.pc = "validate", !.retries = 0]
        /\ UNCHANGED <<project, records, slips>>
    BY DEF CountAttempt
  <1>2. /\ repair'.pc = "validate" /\ repair'.attempt = repair.attempt
        /\ repair'.missed = repair.missed /\ repair'.retries = 0
    BY <1>1 DEF CorrectionsInv, CorrectionsTyped, RepairTyped
  <1>3. /\ builder'.status = "complete" /\ builder'.attempts = builder.attempts + 1
        /\ builder'.todo = builder.todo
    BY <1>1 DEF CorrectionsInv, CorrectionsTyped
  <1>4. repair.attempt # NoAttempt /\ builder.attempts < MaxAttempts
    BY <1>1 DEF CorrectionsInv, AttemptPlace
  <1>5. UnderWay /\ UnderWay'
    BY <1>1, <1>2, <1>4 DEF UnderWay
  <1>6. CorrectionsTyped'
    <2>1. RepairTyped'
      <3>1. RepairTyped
        BY DEF CorrectionsInv, CorrectionsTyped
      <3>2. /\ repair' = [pc |-> "validate", profile |-> repair.profile, attempt |-> repair.attempt,
                          learned |-> repair.learned, retries |-> 0, missed |-> repair.missed]
        BY <1>1, <3>1 DEF RepairTyped
      <3>3. 0 \in 0..MaxRetries
        OBVIOUS
      <3> QED
        BY <3>1, <3>2, <3>3 DEF RepairTyped
    <2>2. builder' \in [status : {"running", "complete", "failed"}, attempts : 0..MaxAttempts,
                        todo : Seq(CorrectionStep)]
      <3>1. builder.attempts \in Nat
        BY DEF CorrectionsInv, CorrectionsTyped
      <3>2. builder.attempts + 1 \in 0..MaxAttempts
        BY <1>4, <3>1
      <3>3. builder' = [status |-> "complete", attempts |-> builder.attempts + 1,
                        todo |-> builder.todo]
        BY <1>1 DEF CorrectionsInv, CorrectionsTyped
      <3> QED
        BY <3>2, <3>3 DEF CorrectionsInv, CorrectionsTyped
    <2> QED
      BY <1>1, <2>1, <2>2 DEF CorrectionsInv, CorrectionsTyped
  <1>7. repair.attempt.ran # <<>>
    <2>1. IsPlan(repair.attempt.plan)
      BY <1>5 DEF CorrectionsInv, AttemptPlace
    <2>2. Len(repair.attempt.plan) >= 1 /\ Len(builder.todo) = 0
      BY <1>1, <2>1 DEF IsPlan
    <2>3. ~(Len(builder.todo) >= Len(repair.attempt.plan))
      <3>1. Len(repair.attempt.plan) \in Nat
        BY <2>1, LenProperties DEF IsPlan
      <3> QED
        BY <2>2, <3>1
    <2> QED
      BY <1>1, <2>3 DEF CorrectionsInv, AttemptPlace
  <1>8. AttemptPlace'
    BY <1>1, <1>2, <1>4, <1>5, <1>7 DEF CorrectionsInv, AttemptPlace
  <1>9. DebtPlace'
    <2>1. DOMAIN builder'.todo = {}
      <3>1. DOMAIN builder.todo = 1..0
        BY <1>1
      <3> QED
        BY <1>3, <3>1
    <2> QED
      BY <1>1, <1>2, <1>5, <2>1 DEF CorrectionsInv, DebtPlace, OnlyDebt, Passes, Broken
  <1>10. ClosedDebt'
    BY <1>1 DEF ClosedDebt, CorrectionsInv
  <1>11. StubsTold'
    BY <1>1, <1>2, <1>5 DEF StubsTold, CorrectionsInv, Stubs, StubsMade
  <1>12. MissesStall' /\ StallsEscalate'
    BY <1>2 DEF MissesStall, StallsEscalate
  <1> QED
    BY <1>6, <1>8, <1>9, <1>10, <1>11, <1>12 DEF CorrectionsInv

\* The profiles have the fields they should.
LEMMA ProfileFields ==
  ASSUME NEW profile \in Profiles(project)
  PROVE  \E clusters : \E collapse \in BOOLEAN :
           profile = [clusters |-> clusters, collapse |-> collapse]
  <1>1. PICK clusters, crowded : profile = ProfileOf(project, clusters, crowded)
    BY DEF Profiles
  <1> DEFINE high == CollapseScore(project.faults, crowded) >= 3
             collapse == "architecture_contract" \in clusters /\ high
  <1>2. profile = [clusters |-> clusters, collapse |-> collapse]
    BY <1>1 DEF ProfileOf
  <1> HIDE DEF high
  <1>3. collapse \in BOOLEAN
    OBVIOUS
  <1> HIDE DEF collapse
  <1> QED
    BY <1>2, <1>3

\* What is validated leads on, to be learned from if an attempt was made.
LEMMA ValidateKeeps == CorrectionsInv /\ Validate => CorrectionsInv'
  <1> SUFFICES ASSUME CorrectionsInv, Validate PROVE CorrectionsInv'
    OBVIOUS
  <1>1. /\ repair.pc = "validate"
        /\ UNCHANGED <<project, builder, records, slips>>
    BY DEF Validate
  <1>2. PICK profile \in IF Passes(project) THEN {NoProfile} ELSE Profiles(project) :
          repair' = [repair EXCEPT
                       !.pc = IF repair.attempt = NoAttempt THEN "choose" ELSE "learn",
                       !.profile = profile, !.learned = {}]
    BY DEF Validate
  <1>3. \E clusters : \E collapse \in BOOLEAN :
          profile = [clusters |-> clusters, collapse |-> collapse]
    <2>1. CASE Passes(project)
      BY <2>1 DEF NoProfile
    <2>2. CASE ~Passes(project)
      BY <2>2, ProfileFields
    <2> QED
      BY <2>1, <2>2
  <1>4. PICK pc \in {"choose", "learn"} :
          /\ pc = IF repair.attempt = NoAttempt THEN "choose" ELSE "learn"
          /\ repair' = [pc |-> pc, profile |-> profile, attempt |-> repair.attempt,
                        learned |-> {}, retries |-> repair.retries, missed |-> repair.missed]
    BY <1>2 DEF CorrectionsInv, CorrectionsTyped, RepairTyped
  <1>5. /\ repair'.pc = pc /\ repair'.attempt = repair.attempt /\ repair'.learned = {}
        /\ repair'.missed = repair.missed /\ repair'.profile = profile
        /\ repair'.retries = repair.retries
    BY <1>4
  <1>6. CorrectionsTyped'
    <2>1. /\ profile = [clusters |-> profile.clusters, collapse |-> profile.collapse]
          /\ profile.collapse \in BOOLEAN
      BY <1>3
    <2>2. RepairTyped
      BY DEF CorrectionsInv, CorrectionsTyped
    <2>3. RepairTyped'
      BY <1>4, <1>5, <2>1, <2>2 DEF RepairTyped
    <2> QED
      BY <1>1, <2>3 DEF CorrectionsInv, CorrectionsTyped
  <1>7. UnderWay' <=> UnderWay
    BY <1>1, <1>4, <1>5 DEF UnderWay
  <1>8. AttemptPlace'
    BY <1>1, <1>4, <1>5, <1>7 DEF CorrectionsInv, AttemptPlace
  <1>9. DebtPlace'
    <2>1. Passes(project)' <=> Passes(project)
      BY <1>1 DEF Passes, Broken
    <2>2. OnlyDebt(repair.attempt)' <=> OnlyDebt(repair.attempt)
      BY <1>5 DEF OnlyDebt
    <2> QED
      BY <1>1, <1>4, <1>5, <1>7, <2>1, <2>2 DEF CorrectionsInv, DebtPlace
  <1>10. ClosedDebt'
    BY <1>1 DEF CorrectionsInv, ClosedDebt
  <1>11. StubsTold'
    BY <1>1, <1>4, <1>5, <1>7 DEF CorrectionsInv, StubsTold, Stubs, StubsMade
  <1>12. MissesStall' /\ StallsEscalate'
    BY <1>1, <1>4, <1>5 DEF CorrectionsInv, AttemptPlace, MissesStall, StallsEscalate
  <1> QED
    BY <1>6, <1>8, <1>9, <1>10, <1>11, <1>12 DEF CorrectionsInv

\* What a step leaves of the stubs, and of a project that passes.
LEMMA StepOutcome ==
  ASSUME project \in Projects, NEW s \in CorrectionStep, NEW p \in Outcomes(s)
  PROVE  /\ p \in Projects
         /\ \A m \in Stubs(p) : m \in Stubs(project) \/ (s.phase = "stub_recipe" /\ m \in s.targets)
         /\ IsDebt(s) => /\ Passes(project) => Passes(p)
                         /\ \A m \in s.targets : p.module[m] # "stub"
  <1> DEFINE stubbed == [m \in Target |-> IF m \in s.targets THEN "stub" ELSE project.module[m]]
             placed == [m \in Target |-> IF m \in s.targets THEN "placeholder" ELSE project.module[m]]
             righted == [m \in Target |-> IF m \in s.targets THEN "right" ELSE project.import[m]]
  <1>1. /\ project = [module |-> project.module, import |-> project.import, faults |-> project.faults]
        /\ project.module \in [Target -> Module] /\ project.import \in [Target -> Import]
        /\ project.faults \in FaultSet
    BY DEF Projects
  <1>2. s.targets \subseteq Target
    BY DEF CorrectionStep
  <1>3. /\ stubbed \in [Target -> Module] /\ placed \in [Target -> Module]
        /\ righted \in [Target -> Import]
    BY <1>1 DEF Module, Import
  <1>4. CASE s.phase = "stub_recipe"
    <2>1. p = [module |-> stubbed, import |-> project.import, faults |-> project.faults]
      BY <1>1, <1>4 DEF Outcomes
    <2>2. p.module = stubbed
      BY <2>1
    <2>3. p \in Projects
      BY <1>1, <1>3, <2>1 DEF Projects
    <2> QED
      BY <1>4, <2>2, <2>3 DEF Stubs, IsDebt
  <1>5. CASE s.phase = "debt_resolution"
    <2>1. p = [module |-> placed, import |-> project.import, faults |-> project.faults]
      BY <1>1, <1>5 DEF Outcomes
    <2>2. p.module = placed /\ p.import = project.import /\ p.faults = project.faults
      BY <2>1
    <2>3. p \in Projects
      BY <1>1, <1>3, <2>1 DEF Projects
    <2>4. \A m \in Stubs(p) : m \in Stubs(project)
      BY <2>2 DEF Stubs
    <2>5. \A m \in s.targets : p.module[m] # "stub"
      BY <1>2, <2>2
    <2>6. Broken(p) \subseteq Broken(project)
      BY <2>2 DEF Broken
    <2> QED
      BY <2>2, <2>3, <2>4, <2>5, <2>6 DEF Passes
  <1>6. CASE s.phase = "patch_recipe"
    <2>1. p = [module |-> project.module, import |-> righted, faults |-> project.faults]
      BY <1>1, <1>6 DEF Outcomes
    <2>2. p.module = project.module
      BY <2>1
    <2>3. p \in Projects
      BY <1>1, <1>3, <2>1 DEF Projects
    <2> QED
      BY <1>6, <2>2, <2>3 DEF Stubs, IsDebt
  <1>7. CASE s.phase \notin {"stub_recipe", "debt_resolution", "patch_recipe"}
    <2>1. /\ p \in Projects
          /\ \A m \in Target : p.module[m] \in {"absent", "real", project.module[m]}
      BY <1>7 DEF Outcomes
    <2> QED
      BY <1>7, <2>1 DEF Stubs, IsDebt
  <1> QED
    BY <1>4, <1>5, <1>6, <1>7

\* What holds of the step that is next, s, and of the attempt with it, a.
StepFacts(s, a) ==
  /\ UnderWay /\ s \in CorrectionStep /\ Tail(builder.todo) \in Seq(CorrectionStep)
  /\ a = [plan |-> repair.attempt.plan, ran |-> a.ran,
          before |-> repair.attempt.before, blocking |-> repair.attempt.blocking]
  /\ a.plan = repair.attempt.plan
  /\ a.ran \in Seq(CorrectionStep) /\ a.ran # <<>> /\ a # NoAttempt
  /\ repair.attempt.ran = <<>> => a.ran[1] = s
  /\ repair.attempt.ran # <<>> => a.ran[1] = repair.attempt.ran[1]
  /\ ~slips.leftover /\ ~IsLeftover =>
       /\ InPlan(a.plan, a.ran, Tail(builder.todo))
       /\ a.ran[1] = a.plan[1] /\ Len(a.ran) <= Len(a.plan)
       /\ s = a.plan[Len(repair.attempt.ran) + 1]
       /\ Len(repair.attempt.ran) + 1 \in 1..Len(a.plan)
  /\ \A i \in DOMAIN a.ran : IsDebt(a.ran[i]) => a.ran[i] = a.plan[1]
  /\ \A i \in DOMAIN Tail(builder.todo) :
       IsDebt(Tail(builder.todo)[i]) => Tail(builder.todo)[i] = a.plan[1]
  /\ IsDebt(s) => s = a.plan[1]
  /\ OnlyDebt(a) => OnlyDebt(repair.attempt) /\ IsDebt(s)

\* The attempt after a step.
LEMMA StepTaken ==
  ASSUME CorrectionsInv, repair.pc = "execute", builder.todo # <<>>,
         NEW s, s = Head(builder.todo), NEW a, a = Ran(s)
  PROVE  StepFacts(s, a)
  <1> DEFINE ran == repair.attempt.ran
             plan == repair.attempt.plan
             todo == builder.todo
  <1>1. /\ ran \in Seq(CorrectionStep) /\ plan \in Seq(CorrectionStep)
        /\ todo \in Seq(CorrectionStep) /\ todo # <<>>
    BY DEF CorrectionsInv, CorrectionsTyped, RepairTyped
  <1>2. UnderWay
    BY DEF CorrectionsInv, AttemptPlace, UnderWay
  <1>3. a = [plan |-> plan, ran |-> Append(ran, s), before |-> repair.attempt.before,
             blocking |-> repair.attempt.blocking]
    BY DEF Ran, CorrectionsInv, CorrectionsTyped, RepairTyped
  <1>4. a.plan = plan /\ a.ran = Append(ran, s)
    BY <1>3
  <1>5. /\ repair.attempt.ran = <<>> => Len(todo) >= Len(plan)
        /\ ~slips.leftover => InPlan(plan, ran, todo)
        /\ ~slips.leftover /\ ran # <<>> => ran[1] = plan[1]
        /\ IsPlan(plan)
    BY <1>2 DEF CorrectionsInv, AttemptPlace
  <1>6. /\ \A i \in DOMAIN todo : IsDebt(todo[i]) => todo[i] = plan[1]
        /\ \A i \in DOMAIN ran : IsDebt(ran[i]) => ran[i] = plan[1]
    BY <1>2 DEF CorrectionsInv, DebtPlace
  <1>7. IsLeftover <=> Len(todo) > Len(plan)
    BY DEF IsLeftover
  <1>8. OnlyDebt(repair.attempt) <=> \A i \in DOMAIN ran : IsDebt(ran[i])
    BY DEF OnlyDebt
  <1> HIDE DEF ran, plan, todo
  <1>9. /\ Len(plan) \in Nat /\ Len(ran) \in Nat /\ Len(todo) \in Nat /\ Len(todo) >= 1
        /\ ran = <<>> <=> Len(ran) = 0
        /\ DOMAIN todo = 1..Len(todo) /\ DOMAIN ran = 1..Len(ran)
    BY <1>1, LenProperties, EmptySeq
  <1>10. s = todo[1] /\ s \in CorrectionStep /\ 1 \in DOMAIN todo
    BY <1>1, <1>9, LenProperties, ElementOfSeq DEF todo
  <1>11. /\ Tail(todo) \in Seq(CorrectionStep)
         /\ Len(Tail(todo)) = Len(todo) - 1 /\ \A i \in 1..Len(Tail(todo)) : Tail(todo)[i] = todo[i + 1]
    BY <1>1, HeadTailProperties
  <1>12. DOMAIN Tail(todo) = 1..Len(Tail(todo))
    BY <1>11, LenProperties
  <1>13. \A i \in DOMAIN Tail(todo) : i + 1 \in DOMAIN todo /\ Tail(todo)[i] = todo[i + 1]
    BY <1>9, <1>11, <1>12
  <1>14. /\ a.ran \in Seq(CorrectionStep) /\ a.ran # <<>> /\ Len(a.ran) = Len(ran) + 1
         /\ a.ran[Len(ran) + 1] = s /\ \A i \in 1..Len(ran) : a.ran[i] = ran[i]
         /\ DOMAIN a.ran = 1..(Len(ran) + 1)
    <2>1. a.ran \in Seq(CorrectionStep)
      BY <1>1, <1>4, <1>10, AppendProperties
    <2>2. /\ a.ran # <<>> /\ Len(a.ran) = Len(ran) + 1
          /\ a.ran[Len(ran) + 1] = s /\ \A i \in 1..Len(ran) : a.ran[i] = ran[i]
      BY <1>1, <1>4, <1>10, AppendProperties
    <2>3. DOMAIN a.ran = 1..Len(a.ran)
      BY <2>1, LenProperties
    <2> QED
      BY <2>1, <2>2, <2>3
  <1>15. a # NoAttempt
    <2>1. NoAttempt.ran = <<>>
      BY DEF NoAttempt
    <2> QED
      BY <1>14, <2>1
  <1>16. /\ ran = <<>> => a.ran[1] = s
         /\ ran # <<>> => a.ran[1] = ran[1]
    BY <1>9, <1>14
  <1>17. ASSUME ~slips.leftover, ~IsLeftover
         PROVE  /\ InPlan(plan, a.ran, Tail(todo))
                /\ a.ran[1] = plan[1] /\ Len(a.ran) <= Len(plan)
                /\ s = plan[Len(ran) + 1]
                /\ Len(ran) + 1 \in 1..Len(plan)
    <2>1. /\ InPlan(plan, ran, todo) /\ Len(todo) <= Len(plan) /\ Len(plan) >= 1
          /\ ran = <<>> => Len(todo) >= Len(plan)
          /\ ran # <<>> => ran[1] = plan[1]
      BY <1>5, <1>7, <1>9, <1>17 DEF IsPlan, ran
    <2>2. s = Head(todo)
      BY DEF todo
    <2>3. /\ InPlan(plan, Append(ran, Head(todo)), Tail(todo))
          /\ Append(ran, Head(todo))[1] = plan[1]
          /\ Len(Append(ran, Head(todo))) <= Len(plan)
          /\ Head(todo) = plan[Len(ran) + 1] /\ Len(ran) + 1 \in 1..Len(plan)
      BY <1>1, <2>1, TakesStep
    <2> QED
      BY <1>4, <2>2, <2>3
  <1>18. \A i \in DOMAIN a.ran : a.ran[i] = s \/ (i \in DOMAIN ran /\ a.ran[i] = ran[i])
    BY <1>9, <1>14
  <1>19. \A i \in DOMAIN ran : i \in DOMAIN a.ran /\ a.ran[i] = ran[i]
    BY <1>9, <1>14
  <1>20. Len(ran) + 1 \in DOMAIN a.ran
    BY <1>9, <1>14
  <1>21. IsDebt(s) => s = plan[1]
    BY <1>6, <1>10
  <1>22. \A i \in DOMAIN a.ran : IsDebt(a.ran[i]) => a.ran[i] = plan[1]
    BY <1>6, <1>18, <1>21
  <1>23. \A i \in DOMAIN Tail(todo) : IsDebt(Tail(todo)[i]) => Tail(todo)[i] = plan[1]
    BY <1>6, <1>13
  <1>24. OnlyDebt(a) => OnlyDebt(repair.attempt) /\ IsDebt(s)
    BY <1>8, <1>14, <1>19, <1>20 DEF OnlyDebt
  <1>25. a = [plan |-> plan, ran |-> a.ran,
              before |-> repair.attempt.before, blocking |-> repair.attempt.blocking]
    BY <1>3, <1>4
  <1> QED
    BY <1>2, <1>4, <1>10, <1>11, <1>14, <1>15, <1>16, <1>17, <1>21, <1>22, <1>23, <1>24, <1>25
       DEF StepFacts, ran, plan, todo

\* A step of the plan is executed.
LEMMA ExecuteStepKeeps == CorrectionsInv /\ ExecuteStep => CorrectionsInv'
  <1> SUFFICES ASSUME CorrectionsInv, ExecuteStep PROVE CorrectionsInv'
    OBVIOUS
  <1>1. PICK s, a : s = Head(builder.todo) /\ a = Ran(s)
    OBVIOUS
  <1>2. /\ repair.pc = "execute" /\ builder.todo # <<>>
        /\ project' \in Outcomes(s)
        /\ builder' = [builder EXCEPT !.todo = Tail(@)]
        /\ repair' = [repair EXCEPT !.attempt = a]
        /\ slips' = [slips EXCEPT !.leftover = @ \/ IsLeftover]
        /\ UNCHANGED records
    BY <1>1 DEF ExecuteStep
  <1> DEFINE ran == repair.attempt.ran
             t == Tail(builder.todo)
  <1>3. /\ UnderWay /\ s \in CorrectionStep /\ t \in Seq(CorrectionStep)
        /\ a = [plan |-> repair.attempt.plan, ran |-> a.ran,
                before |-> repair.attempt.before, blocking |-> repair.attempt.blocking]
        /\ a.plan = repair.attempt.plan
        /\ a.ran \in Seq(CorrectionStep) /\ a.ran # <<>> /\ a # NoAttempt
        /\ ran = <<>> => a.ran[1] = s
        /\ ran # <<>> => a.ran[1] = ran[1]
        /\ ~slips.leftover /\ ~IsLeftover =>
             /\ InPlan(a.plan, a.ran, t)
             /\ a.ran[1] = a.plan[1] /\ Len(a.ran) <= Len(a.plan)
             /\ s = a.plan[Len(ran) + 1]
             /\ Len(ran) + 1 \in 1..Len(a.plan)
        /\ \A i \in DOMAIN a.ran : IsDebt(a.ran[i]) => a.ran[i] = a.plan[1]
        /\ \A i \in DOMAIN t : IsDebt(t[i]) => t[i] = a.plan[1]
        /\ IsDebt(s) => s = a.plan[1]
        /\ OnlyDebt(a) => OnlyDebt(repair.attempt) /\ IsDebt(s)
    <2>1. StepFacts(s, a)
      BY <1>1, <1>2, StepTaken
    <2> QED
      BY <2>1 DEF StepFacts
  <1>4. /\ project' \in Projects
        /\ \A m \in Stubs(project') : m \in Stubs(project) \/ (s.phase = "stub_recipe" /\ m \in s.targets)
        /\ IsDebt(s) => /\ Passes(project) => Passes(project')
                        /\ \A m \in s.targets : project'.module[m] # "stub"
    BY <1>2, <1>3, StepOutcome DEF CorrectionsInv, CorrectionsTyped
  <1> HIDE DEF t
  <1>5. builder' = [status |-> builder.status, attempts |-> builder.attempts, todo |-> t]
    BY <1>2 DEF t, CorrectionsInv, CorrectionsTyped
  <1>6. /\ builder'.status = builder.status /\ builder'.attempts = builder.attempts
        /\ builder'.todo = t
    BY <1>5
  <1>7. repair' = [pc |-> "execute", profile |-> repair.profile, attempt |-> a,
                   learned |-> repair.learned, retries |-> repair.retries, missed |-> repair.missed]
    BY <1>2 DEF CorrectionsInv, CorrectionsTyped, RepairTyped
  <1>8. /\ repair'.pc = "execute" /\ repair'.profile = repair.profile /\ repair'.attempt = a
        /\ repair'.learned = repair.learned /\ repair'.retries = repair.retries
        /\ repair'.missed = repair.missed
    BY <1>7
  <1>9. /\ slips' \in [lost : BOOLEAN, leftover : BOOLEAN] /\ slips'.lost = slips.lost
        /\ slips.leftover => slips'.leftover
        /\ IsLeftover => slips'.leftover
    <2>1. PICK x \in BOOLEAN : x = (slips.leftover \/ IsLeftover)
      OBVIOUS
    <2>2. slips' = [lost |-> slips.lost, leftover |-> x]
      BY <1>2, <2>1 DEF CorrectionsInv, CorrectionsTyped
    <2>3. slips'.leftover = x /\ slips'.lost = slips.lost
      BY <2>2
    <2> QED
      BY <2>1, <2>2, <2>3 DEF CorrectionsInv, CorrectionsTyped
  <1>10. UnderWay'
    BY <1>3, <1>8 DEF UnderWay
  <1>11. CorrectionsTyped'
    <2>1. RepairTyped
      BY DEF CorrectionsInv, CorrectionsTyped
    <2>2. RepairTyped'
      BY <1>3, <1>7, <1>8, <2>1 DEF RepairTyped
    <2>3. builder' \in [status : {"running", "complete", "failed"}, attempts : 0..MaxAttempts,
                        todo : Seq(CorrectionStep)]
      BY <1>3, <1>5 DEF CorrectionsInv, CorrectionsTyped
    <2> QED
      BY <1>2, <1>4, <1>9, <2>2, <2>3 DEF CorrectionsInv, CorrectionsTyped
  <1>12. AttemptPlace'
    <2>1. IsPlan(a.plan)
      BY <1>3 DEF CorrectionsInv, AttemptPlace
    <2>2. builder.attempts < MaxAttempts /\ builder.status = "running"
      BY <1>2 DEF CorrectionsInv, AttemptPlace
    <2>3. ~slips'.leftover => /\ InPlan(a.plan, a.ran, t) /\ a.ran[1] = a.plan[1]
                              /\ Len(a.ran) <= Len(a.plan)
      BY <1>3, <1>9
    <2> QED
      BY <1>3, <1>6, <1>8, <2>1, <2>2, <2>3 DEF AttemptPlace
  <1>13. DebtPlace'
    <2>1. IsDebt(a.plan[1]) /\ OnlyDebt(a) =>
            Passes(project') /\ \A m \in a.plan[1].targets : project'.module[m] # "stub"
      BY <1>3, <1>4 DEF CorrectionsInv, DebtPlace
    <2>2. Passes(project)' <=> Passes(project')
      BY DEF Passes, Broken
    <2>3. OnlyDebt(repair.attempt)' <=> OnlyDebt(a)
      BY <1>8 DEF OnlyDebt
    <2> QED
      BY <1>3, <1>6, <1>8, <2>1, <2>2, <2>3 DEF DebtPlace, IsDebt
  <1>14. ClosedDebt'
    BY <1>2 DEF CorrectionsInv, ClosedDebt
  <1>15. StubsTold'
    <2> SUFFICES ASSUME ~slips'.lost, ~slips'.leftover, NEW m \in Stubs(project')
                 PROVE  records.debt[m] = "open" \/ m \in StubsMade(a)
      BY <1>2, <1>8, <1>10 DEF StubsTold, Stubs, StubsMade
    <2>1. ~slips.lost /\ ~slips.leftover /\ ~IsLeftover
      BY <1>9
    <2>2. CASE m \in Stubs(project)
      <3>1. records.debt[m] = "open" \/ m \in StubsMade(repair.attempt)
        BY <1>2, <2>1, <2>2 DEF CorrectionsInv, StubsTold
      <3>2. m \in StubsMade(repair.attempt) => m \in StubsMade(a)
        BY <1>3 DEF StubsMade
      <3> QED
        BY <3>1, <3>2
    <2>3. CASE s.phase = "stub_recipe" /\ m \in s.targets
      <3>1. Len(a.plan) = 1
        BY <1>3, <2>1, <2>3, LenProperties DEF IsPlan, CorrectionsInv, AttemptPlace
      <3>2. ran = <<>>
        <4>1. ran \in Seq(CorrectionStep)
          BY DEF CorrectionsInv, CorrectionsTyped, RepairTyped
        <4>2. Len(ran) \in Nat /\ (ran # <<>> => Len(ran) \in Nat \ {0})
          BY <4>1, EmptySeq, LenProperties
        <4>3. Len(ran) + 1 \in 1..1
          BY <1>3, <2>1, <3>1
        <4> QED
          BY <4>2, <4>3
      <3>3. a.ran[1] = s
        BY <1>3, <3>2
      <3> QED
        BY <1>3, <2>3, <3>3 DEF StubsMade
    <2> QED
      BY <1>4, <2>2, <2>3
  <1>16. MissesStall'
    BY <1>8 DEF MissesStall
  <1>17. StallsEscalate'
    BY <1>2, <1>3, <1>8, <1>9 DEF CorrectionsInv, StallsEscalate
  <1> QED
    BY <1>11, <1>12, <1>13, <1>14, <1>15, <1>16, <1>17 DEF CorrectionsInv

\* The run has failed: its debt is not told, but no debt was closed.
LEMMA RunFails ==
  ASSUME CorrectionsInv, repair.pc = "execute", project' \in Projects,
         builder' = [builder EXCEPT !.status = "failed", !.todo = <<>>],
         repair' = [repair EXCEPT !.pc = "returned"],
         slips' \in [lost : BOOLEAN, leftover : BOOLEAN], UNCHANGED records
  PROVE  CorrectionsInv'
  <1>1. repair'.pc = "returned" /\ repair'.attempt = repair.attempt
    BY DEF CorrectionsInv, CorrectionsTyped, RepairTyped
  <1>2. builder'.status = "failed"
    BY DEF CorrectionsInv, CorrectionsTyped
  <1>3. ~UnderWay'
    BY <1>1 DEF UnderWay
  <1>4. CorrectionsTyped'
    <2>1. <<>> \in Seq(CorrectionStep)
      BY EmptySeq
    <2>2. RepairTyped'
      BY DEF CorrectionsInv, CorrectionsTyped, RepairTyped
    <2>3. builder' \in [status : {"running", "complete", "failed"}, attempts : 0..MaxAttempts,
                        todo : Seq(CorrectionStep)]
      BY <2>1 DEF CorrectionsInv, CorrectionsTyped
    <2> QED
      BY <2>2, <2>3 DEF CorrectionsInv, CorrectionsTyped
  <1>5. AttemptPlace' /\ DebtPlace'
    BY <1>1, <1>3 DEF AttemptPlace, DebtPlace
  <1>6. ClosedDebt'
    BY DEF CorrectionsInv, ClosedDebt
  <1>7. StubsTold'
    BY <1>1, <1>2 DEF StubsTold
  <1>8. MissesStall' /\ StallsEscalate'
    BY <1>1 DEF MissesStall, StallsEscalate
  <1> QED
    BY <1>4, <1>5, <1>6, <1>7, <1>8 DEF CorrectionsInv

\* A step fails.
LEMMA StepFailsKeeps == CorrectionsInv /\ StepFails => CorrectionsInv'
  <1> SUFFICES ASSUME CorrectionsInv, StepFails PROVE CorrectionsInv'
    OBVIOUS
  <1>1. /\ repair.pc = "execute" /\ builder.todo # <<>>
        /\ project' \in Outcomes(Head(builder.todo)) \cup {project}
        /\ builder' = [builder EXCEPT !.status = "failed", !.todo = <<>>]
        /\ repair' = [repair EXCEPT !.pc = "returned"]
        /\ UNCHANGED records /\ slips' = slips
    BY DEF StepFails, Goto
  <1>2. Head(builder.todo) \in CorrectionStep
    BY <1>1, StepTaken DEF StepFacts
  <1>3. project \in Projects /\ slips' \in [lost : BOOLEAN, leftover : BOOLEAN]
    BY <1>1 DEF CorrectionsInv, CorrectionsTyped
  <1>4. project' \in Projects
    BY <1>1, <1>2, <1>3, StepOutcome
  <1> QED
    BY <1>1, <1>3, <1>4, RunFails

\* A step of the planner is refused.
LEMMA StepRefusedKeeps == CorrectionsInv /\ StepRefused => CorrectionsInv'
  <1> SUFFICES ASSUME CorrectionsInv, StepRefused PROVE CorrectionsInv'
    OBVIOUS
  <1> USE ValidationCorrectionsAssumption
  <1> DEFINE retried == repair.retries < MaxRetries /\ repair.attempt.plan[1].phase # "debt_resolution"
  <1>1. /\ repair.pc = "execute" /\ builder.todo # <<>>
        /\ UNCHANGED <<project, records>>
        /\ slips' = [slips EXCEPT !.leftover = @ \/ IsLeftover]
    BY DEF StepRefused
  <1>2. /\ slips' \in [lost : BOOLEAN, leftover : BOOLEAN] /\ slips'.lost = slips.lost
        /\ slips.leftover => slips'.leftover
        /\ IsLeftover => slips'.leftover
    <2>1. PICK x \in BOOLEAN : x = (slips.leftover \/ IsLeftover)
      OBVIOUS
    <2>2. slips' = [lost |-> slips.lost, leftover |-> x]
      BY <1>1, <2>1 DEF CorrectionsInv, CorrectionsTyped
    <2>3. slips'.leftover = x /\ slips'.lost = slips.lost
      BY <2>2
    <2> QED
      BY <2>1, <2>2, <2>3 DEF CorrectionsInv, CorrectionsTyped
  <1>3. CASE ~retried
    <2>1. /\ builder' = [builder EXCEPT !.status = "failed", !.todo = <<>>]
          /\ repair' = [repair EXCEPT !.pc = "returned"]
      BY <1>3 DEF StepRefused, Goto
    <2>2. project' \in Projects
      BY <1>1 DEF CorrectionsInv, CorrectionsTyped
    <2> QED
      BY <1>1, <1>2, <2>1, <2>2, RunFails
  <1>4. CASE retried
    <2>1. PICK s, a : s = Head(builder.todo) /\ a = Ran(s)
      OBVIOUS
    <2> DEFINE ran == repair.attempt.ran
               t == Tail(builder.todo)
    <2>2. /\ builder' = [builder EXCEPT !.status = "complete", !.todo = t]
          /\ repair' = [repair EXCEPT !.pc = "validate", !.retries = @ + 1, !.attempt = a]
      BY <1>4, <2>1 DEF StepRefused
    <2>3. /\ UnderWay /\ s \in CorrectionStep /\ t \in Seq(CorrectionStep)
          /\ a = [plan |-> repair.attempt.plan, ran |-> a.ran,
                  before |-> repair.attempt.before, blocking |-> repair.attempt.blocking]
          /\ a.plan = repair.attempt.plan
          /\ a.ran \in Seq(CorrectionStep) /\ a.ran # <<>> /\ a # NoAttempt
          /\ ran = <<>> => a.ran[1] = s
          /\ ran # <<>> => a.ran[1] = ran[1]
          /\ ~slips.leftover /\ ~IsLeftover =>
               a.ran[1] = a.plan[1] /\ Len(a.ran) <= Len(a.plan)
          /\ \A i \in DOMAIN a.ran : IsDebt(a.ran[i]) => a.ran[i] = a.plan[1]
          /\ \A i \in DOMAIN t : IsDebt(t[i]) => t[i] = a.plan[1]
      <3>1. StepFacts(s, a)
        BY <1>1, <2>1, StepTaken
      <3> QED
        BY <3>1 DEF StepFacts
    <2> HIDE DEF t
    <2>4. builder' = [status |-> "complete", attempts |-> builder.attempts, todo |-> t]
      BY <2>2 DEF CorrectionsInv, CorrectionsTyped
    <2>5. builder'.attempts = builder.attempts /\ builder'.todo = t
      BY <2>4
    <2>6. repair' = [pc |-> "validate", profile |-> repair.profile, attempt |-> a,
                     learned |-> repair.learned, retries |-> repair.retries + 1,
                     missed |-> repair.missed]
      BY <2>2 DEF CorrectionsInv, CorrectionsTyped, RepairTyped
    <2>7. /\ repair'.pc = "validate" /\ repair'.profile = repair.profile /\ repair'.attempt = a
          /\ repair'.learned = repair.learned /\ repair'.retries = repair.retries + 1
          /\ repair'.missed = repair.missed
      BY <2>6
    <2>8. UnderWay'
      BY <2>3, <2>7 DEF UnderWay
    <2>9. CorrectionsTyped'
      <3>1. RepairTyped
        BY DEF CorrectionsInv, CorrectionsTyped
      <3>2. repair.retries + 1 \in 0..MaxRetries
        BY <1>4, <3>1 DEF RepairTyped
      <3>3. RepairTyped'
        BY <2>3, <2>6, <2>7, <3>1, <3>2 DEF RepairTyped
      <3>4. builder' \in [status : {"running", "complete", "failed"}, attempts : 0..MaxAttempts,
                          todo : Seq(CorrectionStep)]
        BY <2>3, <2>4 DEF CorrectionsInv, CorrectionsTyped
      <3> QED
        BY <1>1, <1>2, <3>3, <3>4 DEF CorrectionsInv, CorrectionsTyped
    <2>10. AttemptPlace'
      <3>1. IsPlan(a.plan)
        BY <2>3 DEF CorrectionsInv, AttemptPlace
      <3>2. ~slips'.leftover => a.ran[1] = a.plan[1] /\ Len(a.ran) <= Len(a.plan)
        BY <1>2, <2>3
      <3> QED
        BY <2>3, <2>7, <3>1, <3>2 DEF AttemptPlace
    <2>11. DebtPlace'
      <3>1. ~IsDebt(a.plan[1])
        BY <1>4, <2>3 DEF IsDebt
      <3>2. \A i \in DOMAIN t : ~IsDebt(t[i])
        BY <2>3, <3>1
      <3> QED
        BY <2>3, <2>5, <2>7, <3>1, <3>2 DEF DebtPlace, IsDebt
    <2>12. ClosedDebt'
      BY <1>1 DEF CorrectionsInv, ClosedDebt
    <2>13. StubsTold'
      <3> SUFFICES ASSUME ~slips'.lost, ~slips'.leftover, NEW m \in Stubs(project)
                   PROVE  records.debt[m] = "open" \/ m \in StubsMade(a)
        BY <1>1, <2>7, <2>8 DEF StubsTold, Stubs, StubsMade
      <3>1. ~slips.lost /\ ~slips.leftover
        BY <1>2
      <3>2. records.debt[m] = "open" \/ m \in StubsMade(repair.attempt)
        BY <1>1, <3>1 DEF CorrectionsInv, StubsTold
      <3>3. m \in StubsMade(repair.attempt) => m \in StubsMade(a)
        BY <2>3 DEF StubsMade
      <3> QED
        BY <3>2, <3>3
    <2>14. MissesStall' /\ StallsEscalate'
      BY <2>7 DEF MissesStall, StallsEscalate
    <2> QED
      BY <2>9, <2>10, <2>11, <2>12, <2>13, <2>14 DEF CorrectionsInv
  <1> QED
    BY <1>3, <1>4

\* What was run of an attempt, by its phases.
LEMMA RunPhases ==
  ASSUME NEW a, a.ran \in Seq(CorrectionStep), a.ran # <<>>
  PROVE  /\ 1 \in DOMAIN a.ran /\ a.ran[1] \in CorrectionStep
         /\ StubsMade(a) \subseteq Target
         /\ DebtTargets(a) # {} =>
              /\ OnlyDebt(a) /\ IsDebt(a.ran[1]) /\ StubsMade(a) = {}
              /\ DebtTargets(a) = a.plan[1].targets
         /\ Len(a.ran) <= 1 => PhasesRun(a) = {a.ran[1].phase}
  <1>1. /\ Len(a.ran) \in Nat \ {0} /\ DOMAIN a.ran = 1..Len(a.ran)
        /\ a.ran[1] \in CorrectionStep
    BY EmptySeq, LenProperties, ElementOfSeq
  <1>2. 1 \in DOMAIN a.ran
    BY <1>1
  <1>3. \A i \in DOMAIN a.ran : a.ran[i].phase \in PhasesRun(a)
    BY DEF PhasesRun
  <1>4. ASSUME DebtTargets(a) # {}
        PROVE  /\ OnlyDebt(a) /\ IsDebt(a.ran[1]) /\ StubsMade(a) = {}
               /\ DebtTargets(a) = a.plan[1].targets
    <2>1. PhasesRun(a) = {"debt_resolution"} /\ DebtTargets(a) = a.plan[1].targets
      BY <1>4 DEF DebtTargets
    <2>2. OnlyDebt(a)
      BY <1>3, <2>1 DEF OnlyDebt, IsDebt
    <2>3. IsDebt(a.ran[1])
      BY <1>2, <2>2 DEF OnlyDebt
    <2> QED
      BY <2>1, <2>2, <2>3 DEF IsDebt, StubsMade
  <1>5. ASSUME Len(a.ran) <= 1 PROVE PhasesRun(a) = {a.ran[1].phase}
    <2>1. DOMAIN a.ran = {1}
      BY <1>1, <1>5
    <2> QED
      BY <2>1 DEF PhasesRun
  <1>6. StubsMade(a) \subseteq Target
    BY <1>1 DEF StubsMade, CorrectionStep
  <1> QED
    BY <1>1, <1>2, <1>4, <1>5, <1>6

\* An attempt is learned from: its stubs become debt, the debt it resolved is
\* closed, and a repair that missed is a stall.
LEMMA LearnKeeps == CorrectionsInv /\ Learn => CorrectionsInv'
  <1> SUFFICES ASSUME CorrectionsInv, Learn PROVE CorrectionsInv'
    OBVIOUS
  <1>1. PICK a : a = repair.attempt
    OBVIOUS
  <1> DEFINE outcome == OutcomeOf(a)
             stubs == StubsMade(a)
             debt == DebtTargets(a)
             paid == \A m \in debt : PaidDown(m)
             DebtAfter(m) == IF m \in stubs THEN "open"
                             ELSE IF m \in debt THEN IF paid THEN "closed" ELSE "open"
                             ELSE records.debt[m]
             after == [m \in Target |-> DebtAfter(m)]
             stalledMicro == PhasesRun(a) = {"micro_targeted_repair"} /\ outcome = "stalled"
             missed == IF a.plan[1].phase = "micro_targeted_repair" /\ ~Passes(project)
                       THEN "micro" ELSE "none"
             learned == IF outcome = "success" THEN stubs ELSE {}
  <1>2. PICK row \in BOOLEAN, files \in BOOLEAN :
          /\ records' = [stalls |-> IF ~row THEN records.stalls
                                    ELSE IF stalledMicro THEN records.stalls + 1 ELSE 0,
                         debt |-> IF files THEN after ELSE records.debt]
          /\ slips' = [slips EXCEPT !.lost = @ \/ ~row \/ ~files]
    BY <1>1 DEF Learn
  <1>3. /\ repair.pc = "learn" /\ UNCHANGED <<project, builder>>
        /\ repair' = [repair EXCEPT !.pc = "choose", !.attempt = NoAttempt,
                        !.learned = learned, !.missed = missed]
    BY <1>1 DEF Learn
  <1>4. /\ UnderWay /\ a.ran \in Seq(CorrectionStep) /\ a.ran # <<>> /\ IsPlan(a.plan)
        /\ ~slips.leftover => a.ran[1] = a.plan[1] /\ Len(a.ran) <= Len(a.plan)
        /\ IsDebt(a.ran[1]) => a.ran[1] = a.plan[1]
        /\ IsDebt(a.plan[1]) /\ OnlyDebt(a) =>
             Passes(project) /\ \A m \in a.plan[1].targets : project.module[m] # "stub"
    <2>1. UnderWay /\ a.ran \in Seq(CorrectionStep)
      BY <1>1, <1>3 DEF CorrectionsInv, CorrectionsTyped, RepairTyped, AttemptPlace, UnderWay
    <2>2. IsPlan(a.plan) /\ a.ran # <<>>
      BY <1>1, <1>3, <2>1 DEF CorrectionsInv, AttemptPlace
    <2>3. ~slips.leftover => a.ran[1] = a.plan[1] /\ Len(a.ran) <= Len(a.plan)
      BY <1>1, <2>1, <2>2 DEF CorrectionsInv, AttemptPlace
    <2>4. 1 \in DOMAIN a.ran
      BY <2>1, <2>2, RunPhases
    <2> QED
      BY <1>1, <2>1, <2>2, <2>3, <2>4 DEF CorrectionsInv, DebtPlace
  <1>5. /\ stubs \subseteq Target
        /\ debt # {} => OnlyDebt(a) /\ IsDebt(a.ran[1]) /\ stubs = {} /\ debt = a.plan[1].targets
        /\ Len(a.ran) <= 1 => PhasesRun(a) = {a.ran[1].phase}
    BY <1>4, RunPhases
  <1>6. debt # {} => Passes(project) /\ \A m \in debt : project.module[m] # "stub"
    BY <1>4, <1>5
  <1>7. ~Passes(project) /\ PhasesRun(a) = {"micro_targeted_repair"} => stalledMicro
    BY DEF OutcomeOf
  <1> HIDE DEF stubs, debt, paid, outcome
  <1>8. after \in [Target -> {"none", "open", "closed"}]
    BY DEF CorrectionsInv, CorrectionsTyped
  <1>9. \A m \in Target : /\ after[m] = "closed" => m \in debt \/ records.debt[m] = "closed"
                          /\ m \in stubs => after[m] = "open"
                          /\ records.debt[m] = "open" => after[m] = "open" \/ m \in debt
    OBVIOUS
  <1> HIDE DEF after
  <1>10. PICK stalls : stalls = IF ~row THEN records.stalls
                                ELSE IF stalledMicro THEN records.stalls + 1 ELSE 0
    OBVIOUS
  <1>11. /\ records' = [stalls |-> stalls, debt |-> IF files THEN after ELSE records.debt]
         /\ records'.stalls = stalls
         /\ records'.debt = IF files THEN after ELSE records.debt
    BY <1>2, <1>10
  <1>12. /\ stalls \in Nat
         /\ row /\ stalledMicro => stalls >= 1
    <2>1. records.stalls \in Nat
      BY DEF CorrectionsInv, CorrectionsTyped
    <2> QED
      BY <1>10, <2>1
  <1> HIDE DEF stalledMicro
  <1>13. missed \in {"none", "micro"} /\ learned \subseteq Target
    BY <1>5
  <1>14. missed = "micro" => a.plan[1].phase = "micro_targeted_repair" /\ ~Passes(project)
    OBVIOUS
  <1>15. stubs = {} => learned = {}
    OBVIOUS
  <1> HIDE DEF missed, learned
  <1>16. repair' = [pc |-> "choose", profile |-> repair.profile, attempt |-> NoAttempt,
                    learned |-> learned, retries |-> repair.retries, missed |-> missed]
    BY <1>3 DEF CorrectionsInv, CorrectionsTyped, RepairTyped
  <1>17. /\ repair'.pc = "choose" /\ repair'.attempt = NoAttempt /\ repair'.learned = learned
         /\ repair'.missed = missed /\ repair'.profile = repair.profile
         /\ repair'.retries = repair.retries
    BY <1>16
  <1>18. ~UnderWay'
    BY <1>17 DEF UnderWay
  <1>19. /\ slips' \in [lost : BOOLEAN, leftover : BOOLEAN] /\ slips'.leftover = slips.leftover
         /\ ~slips'.lost => ~slips.lost /\ row /\ files
    <2>1. PICK x \in BOOLEAN : x = (slips.lost \/ ~row \/ ~files)
      OBVIOUS
    <2>2. slips' = [lost |-> x, leftover |-> slips.leftover]
      BY <1>2, <2>1 DEF CorrectionsInv, CorrectionsTyped
    <2>3. slips'.leftover = slips.leftover /\ slips'.lost = x
      BY <2>2
    <2> QED
      BY <2>1, <2>2, <2>3 DEF CorrectionsInv, CorrectionsTyped
  <1>20. CorrectionsTyped'
    <2>1. RepairTyped
      BY DEF CorrectionsInv, CorrectionsTyped
    <2>2. RepairTyped'
      <3>1. NoAttempt = [plan |-> NoAttempt.plan, ran |-> NoAttempt.ran,
                         before |-> NoAttempt.before, blocking |-> NoAttempt.blocking]
        BY DEF NoAttempt
      <3>2. NoAttempt.plan \in Seq(CorrectionStep) /\ NoAttempt.ran \in Seq(CorrectionStep)
        BY EmptySeq DEF NoAttempt
      <3> QED
        BY <1>13, <1>16, <1>17, <2>1, <3>1, <3>2 DEF RepairTyped
    <2>3. records' \in [stalls : Nat, debt : [Target -> {"none", "open", "closed"}]]
      BY <1>8, <1>11, <1>12 DEF CorrectionsInv, CorrectionsTyped
    <2> QED
      BY <1>3, <1>19, <2>2, <2>3 DEF CorrectionsInv, CorrectionsTyped
  <1>21. AttemptPlace'
    BY <1>17, <1>18 DEF AttemptPlace
  <1>22. DebtPlace'
    BY <1>3, <1>17, <1>18 DEF CorrectionsInv, DebtPlace
  <1>23. \A m \in Target : records.debt[m] # "closed"
    BY <1>3 DEF CorrectionsInv, ClosedDebt
  <1>24. ClosedDebt'
    <2> SUFFICES ASSUME NEW m \in Target, records'.debt[m] = "closed"
                 PROVE  /\ Passes(project)' /\ learned = {}
                        /\ \A x \in Target : records'.debt[x] = "closed" => project'.module[x] # "stub"
      BY <1>17 DEF ClosedDebt
    <2>1. files /\ records'.debt = after
      BY <1>11, <1>23
    <2>2. \A x \in Target : records'.debt[x] = "closed" => x \in debt
      BY <1>9, <1>23, <2>1
    <2>3. debt # {}
      BY <2>2
    <2>4. Passes(project)' <=> Passes(project)
      BY <1>3 DEF Passes, Broken
    <2> QED
      BY <1>3, <1>5, <1>6, <1>15, <2>2, <2>3, <2>4
  <1>25. StubsTold'
    <2> SUFFICES ASSUME ~slips'.lost, ~slips'.leftover, NEW m \in Stubs(project)
                 PROVE  records'.debt[m] = "open"
      BY <1>3 DEF StubsTold, Stubs
    <2>1. ~slips.lost /\ ~slips.leftover /\ files /\ m \in Target /\ project.module[m] = "stub"
      BY <1>19 DEF Stubs
    <2>2. records.debt[m] = "open" \/ m \in stubs
      BY <1>1, <1>3, <2>1 DEF CorrectionsInv, StubsTold, stubs
    <2>3. records'.debt[m] = after[m]
      BY <1>11, <2>1
    <2>4. m \notin debt
      BY <1>6, <2>1
    <2> QED
      BY <1>9, <2>1, <2>2, <2>3, <2>4
  <1>26. MissesStall'
    <2> SUFFICES ASSUME ~slips'.lost, ~slips'.leftover, missed = "micro"
                 PROVE  stalls >= 1
      BY <1>11, <1>17 DEF MissesStall
    <2>1. a.plan[1].phase = "micro_targeted_repair" /\ ~Passes(project)
      BY <1>14
    <2>2. a.ran[1] = a.plan[1] /\ Len(a.ran) <= Len(a.plan) /\ row
      BY <1>4, <1>19
    <2>3. Len(a.plan) = 1
      <3>1. 1 \in DOMAIN a.plan
        BY <1>4, LenProperties DEF IsPlan
      <3> QED
        BY <1>4, <2>1, <3>1 DEF IsPlan
    <2>4. PhasesRun(a) = {"micro_targeted_repair"}
      BY <1>5, <2>1, <2>2, <2>3
    <2> QED
      BY <1>7, <1>12, <2>1, <2>2, <2>4
  <1>27. StallsEscalate'
    BY <1>17 DEF StallsEscalate
  <1> QED
    BY <1>20, <1>21, <1>22, <1>24, <1>25, <1>26, <1>27 DEF CorrectionsInv

\* Every step of the loop keeps the invariant.
LEMMA CorrectionsNextKeeps ==
  CorrectionsInv /\ [CorrectionsNext]_repairVars => CorrectionsInv'
  <1> SUFFICES ASSUME CorrectionsInv, [CorrectionsNext]_repairVars PROVE CorrectionsInv'
    OBVIOUS
  <1>1. CASE UNCHANGED repairVars
    BY <1>1 DEF repairVars, CorrectionsInv, CorrectionsTyped, RepairTyped, AttemptPlace,
       DebtPlace, ClosedDebt, StubsTold, MissesStall, StallsEscalate, UnderWay, OnlyDebt,
       Stubs, StubsMade, Passes, Broken
  <1> QED
    BY <1>1, ValidateKeeps, LearnKeeps, ResolveDebtKeeps, HandBackKeeps, ApplyRecipeKeeps,
       AskPlannerKeeps, ExecuteStepKeeps, StepFailsKeeps, StepRefusedKeeps, CountAttemptKeeps,
       CorrectionsThrowKeeps DEF CorrectionsNext

\* What the invariant is for: nothing is under way when a run is handed back.
LEMMA CorrectionsInvMeans ==
  CorrectionsInv => CorrectionsTypeOK /\ StubDebtKept /\ StallsEscalate
  <1> SUFFICES ASSUME CorrectionsInv PROVE CorrectionsTypeOK /\ StubDebtKept
    BY DEF CorrectionsInv
  <1>1. CorrectionsTypeOK
    <2>1. \A i \in DOMAIN builder.todo : builder.todo[i] \in CorrectionStep
      <3>1. builder.todo \in Seq(CorrectionStep)
        BY DEF CorrectionsInv, CorrectionsTyped
      <3> QED
        BY <3>1, LenProperties, ElementOfSeq
    <2> QED
      BY <2>1 DEF CorrectionsInv, CorrectionsTyped, RepairTyped, CorrectionsTypeOK, CorrectionStep
  <1>2. StubDebtKept
    BY DEF CorrectionsInv, ClosedDebt, StubsTold, UnderWay, StubDebtKept, HandedBack, DebtTold
  <1> QED
    BY <1>1, <1>2

\* Stub debt (kernel.ts:1672-1793, 2699-2880, 4640-4720): no artifact says that
\* a debt is closed while its stub is there, and a run that is handed back
\* complete has every stub in it told, for every set of targets and faults and
\* every number of attempts and retries.
THEOREM StubDebtsKept == CorrectionsSpec => []StubDebtKept
  <1>1. CorrectionsSpec => []CorrectionsInv
    BY CorrectionsStart, CorrectionsNextKeeps, PTL DEF CorrectionsSpec
  <1> QED
    BY <1>1, CorrectionsInvMeans, PTL

\* Stalls (kernel.ts:1286-1367, 4863-4900): after a micro-targeted repair that
\* missed, the next attempt is of another phase, unless its record was lost.
THEOREM StallsEscalated == CorrectionsSpec => []StallsEscalate
  <1>1. CorrectionsSpec => []CorrectionsInv
    BY CorrectionsStart, CorrectionsNextKeeps, PTL DEF CorrectionsSpec
  <1> QED
    BY <1>1, CorrectionsInvMeans, PTL

-----------------------------------------------------------------------------
(* Both scenes together.                                                   *)

\* In either scene the other's variables are at rest.
ScenesInv ==
  /\ scene \in {"loop", "corrections"}
  /\ scene = "loop" => KInv
  /\ scene = "corrections" => LoopAtRest
  /\ CorrectionsInv

\* A run at rest is well formed.
LEMMA RestIsTyped == LoopAtRest => TypeOK
  <1> SUFFICES ASSUME LoopAtRest PROVE TypeOK
    OBVIOUS
  <1>1. config \in Config
    BY SceneAssumption DEF LoopAtRest, Config
  <1>2. run.plan = <<>> /\ run.index = 0 /\ run.status = "complete"
    BY DEF LoopAtRest
  <1>3. run.plan \in Seq(Kind) /\ Len(run.plan) = 0
    BY <1>2, EmptySeq
  <1>4. loop.pc = "outside" /\ loop.status \in {"completed", "failed"}
    BY DEF LoopAtRest, Outside
  <1> QED
    BY <1>1, <1>2, <1>3, <1>4 DEF LoopAtRest, TypeOK, RunStatus

\* The row and the locals of the loop (kernel.ts executeLoop) and those of the
\* validated corrections keep their types in both scenes.
THEOREM KernelLoopTyped == MCSpec => []LoopTypeOK
  <1>1. MCInit => ScenesInv
    BY KInit, CorrectionsStart DEF MCInit, CorrectionsAtRest, ScenesInv
  <1>2. ScenesInv /\ [MCNext]_<<vars, repairVars, scene>> => ScenesInv'
    <2> SUFFICES ASSUME ScenesInv, [MCNext]_<<vars, repairVars, scene>> PROVE ScenesInv'
      OBVIOUS
    <2>1. UNCHANGED scene /\ [Next]_vars /\ [CorrectionsNext]_repairVars
      BY DEF MCNext, ScenesInv
    <2>2. CorrectionsInv'
      BY <2>1, CorrectionsNextKeeps DEF ScenesInv
    <2>3. scene = "loop" => KInv'
      BY <2>1, KStep DEF ScenesInv
    <2>4. scene = "corrections" => LoopAtRest'
      <3>1. scene = "corrections" => UNCHANGED vars
        BY DEF MCNext
      <3> QED
        BY <3>1 DEF ScenesInv, LoopAtRest, vars
    <2> QED
      BY <2>1, <2>2, <2>3, <2>4 DEF ScenesInv
  <1>3. KInv => TypeOK
    BY LenProperties DEF KInv, RowTyped, Locals, LoopPlace, TypeOK, ProgramCounter
  <1>4. ScenesInv => LoopTypeOK
    BY <1>3, RestIsTyped, CorrectionsInvMeans DEF ScenesInv, LoopTypeOK
  <1> QED
    BY <1>1, <1>2, <1>4, PTL DEF MCSpec
=============================================================================
