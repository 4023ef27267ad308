\* No fault at all: one worker, and two reads of the assessment.
CONSTANTS
  Upload = {u1}
  Digest = {d1}
  NoUpload = NoUpload
  NoDigest = NoDigest
  MaxUploadFaults = 0
  Worker = {n1}
  NoWorker = NoWorker
  Reader = {c1, c2}
  MaxClaimCount = 1
  Validators = 1
  Finding = {pass}
  Undecidable = {}
  NoFinding = NoFinding
  MaxFaults = 0
SPECIFICATION Spec
CHECK_DEADLOCK FALSE
INVARIANT
  DecidedStaysComplete
