\* Two files and two steps with three faults; two corrections and three retries;
\* three deployments with two faults; two processes, runs of up to three steps;
\* two corrections under caps on either side of the intents', one resume.
CONSTANTS
  Files = 2
  Content = {x}
  Absent = Absent
  Steps = 2
  MaxCommits = 3
  MaxStepFaults = 3
  MaxAttempts = 2
  MaxRetries = 3
  MaxRequests = 1
  MaxDeployments = 3
  MaxDeployFaults = 2
  Server = {s1, s2}
  GoalSteps = 2
  MaxRunSteps = 3
  MaxRunBudget = 1
  MaxDeaths = 1
  CapFiles = {4, 15}
  CapKb = {100, 400}
  Count = {4, 9}
  Kb = {90, 130}
  Touched = {{"modules"}, {"source", "tests"}, {"env"}}
  MaxQueued = 2
  MaxResumes = 1
SPECIFICATION Spec
CHECK_DEADLOCK FALSE
INVARIANTS
  ServerTypeOK
  LastValidTrailsHead
  CorrectionSound
  CorrectionsConfined
  StepRowsTellTheRun
PROPERTIES
  
  ServingKept
  ServerSettles
