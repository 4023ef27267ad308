\* No fault at all: one resume request beside one worker.
CONSTANTS
  Run = {r1}
  Node = {n1}
  Role = {"compute"}
  MaxJobs = 2
  NoRun = NoRun
  NoNode = NoNode
  NoRole = "none"
  Pid = {p1, p2}
  NoOwner = NoOwner
  PlanLen = 1
  MaxFaults = 0
  MaxResumes = 1
SPECIFICATION Spec
PROPERTY OnlyEndedRunsAreRequeued
