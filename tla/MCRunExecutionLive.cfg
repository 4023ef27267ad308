\* One fault of any kind beside one resume request: afterwards everything settles.
CONSTANTS
  Run = {r1}
  Node = {n1, n2}
  Role = {"compute"}
  MaxJobs = 2
  NoRun = NoRun
  NoNode = NoNode
  NoRole = "none"
  Pid = {p1, p2}
  NoOwner = NoOwner
  PlanLen = 2
  MaxFaults = 1
  MaxResumes = 1
SPECIFICATION FairSpec
PROPERTY
  EverythingSettles
