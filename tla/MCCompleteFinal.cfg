\* A late lease renewal and no resume request.
CONSTANTS
  Run = {r1}
  Node = {n1, n2}
  Role = {"compute"}
  MaxJobs = 1
  NoRun = NoRun
  NoNode = NoNode
  NoRole = "none"
  Pid = {p1, p2}
  NoOwner = NoOwner
  PlanLen = 1
  MaxFaults = 1
  MaxResumes = 0
SPECIFICATION Spec
PROPERTY CompleteIsFinal
