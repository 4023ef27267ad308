\* Every single and double fault, beside one resume request.
CONSTANTS
  Run = {r1}
  Node = {n1, n2}
  Role = {"compute"}
  MaxJobs = 2
  NoRun = NoRun
  NoNode = NoNode
  NoRole = "none"
  Pid = {p1, p2}
  NoOwner = NoOwner
  PlanLen = 2
  MaxFaults = 2
  MaxResumes = 1
SPECIFICATION Spec
SYMMETRY Interchangeable
INVARIANTS
  TypeOK
  LockExcludes
  NoStepSkipped
  QueuedRunHasJob
PROPERTIES
  UsesQueueCorrectly
