\* Budgets of 0 to 2 corrections of either kind; two re-entries let a run
\* crash, be resumed and crash again.  The system stops once the run has ended.
\* Corrections: one module that may be missing, one other fault at a time, the
\* two attempts of the code, and two of its three retries for each: the second
\* may fall on a step that the first left in the plan.
CONSTANTS
  BaseLen = 2
  MaxBlocking = 2
  MaxReentries = 2
  Signature = {"s1", "s2"}
  Budget = {0, 1, 2}
  Target = {m1}
  Fault = {"missingLayers"}
  Symptom = {"typecheck_failure"}
  MaxFaults = 1
  MaxAttempts = 2
  MaxRetries = 2
SPECIFICATION MCSpec
CHECK_DEADLOCK FALSE
INVARIANTS
  LoopTypeOK
  CorrectionsWithinBudget
  StubDebtKept
  StallsEscalate
PROPERTIES
  EndsValidated
  LoopTerminates
