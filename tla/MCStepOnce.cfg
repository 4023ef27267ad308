\* One worker dies between a step and the row that says it was done.
CONSTANTS
  Run = {r1}
  Node = {n1, n2}
  Role = {"compute"}
  MaxJobs = 1
  NoRun = NoRun
  NoNode = NoNode
  NoRole = "none"
  Pid = {p1, p2}
  NoOwner = NoOwner
  PlanLen = 2
  MaxFaults = 1
  MaxResumes = 0
SPECIFICATION Spec
INVARIANT StepEffectsOnce
