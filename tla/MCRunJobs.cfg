\* Two runs and three rows: a run can be enqueued again after its job ended,
\* beside the job of another run.  Contracts: two runs, so that one can be a
\* fork of the other, two handlers, two requests, one new release.  The page:
\* two projects, so that one is left for the other; a file that is being opened and
\* two gestures more, so that their handlers overlap; one poll or failing call.
CONSTANTS
  Run = {r1, r2}
  Node = {n1, n2}
  Role = {"compute", "eval"}
  MaxJobs = 3
  NoRun = NoRun
  NoNode = NoNode
  NoRole = "none"
  ContractRun = {r1, r2}
  Handler = {h1, h2}
  Setting = {off, on}
  OffSetting = off
  Unset = Unset
  NoContract = NoContract
  MaxPolicyVersion = 2
  MaxHandled = 2
  MaxRestarts = 1
  Projects = {A, B}
  Null = None
  MaxGestures = 3
  MaxMissed = 1
SPECIFICATION MCSpec
SYMMETRY Symmetry
INVARIANTS
  QueueTypeOK
  OneActiveJobPerRun
  ExecutesStoredContract
  PageKept
PROPERTIES
  RowsMoveByTheRules
  ImplementsJobOutcomes
  ContractKept
