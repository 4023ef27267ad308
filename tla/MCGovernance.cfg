\* Two uploads of two digests, or one assessment: two workers, one reader, and
\* the sweeps of the workers' processes as further issuers.  Two faults.
CONSTANTS
  Upload = {u1, u2}
  Digest = {d1, d2}
  NoUpload = NoUpload
  NoDigest = NoDigest
  MaxUploadFaults = 2
  Worker = {n1, n2}
  NoWorker = NoWorker
  Reader = {c1}
  MaxClaimCount = 2
  Validators = 2
  Finding = {pass, unclear}
  Undecidable = {unclear}
  NoFinding = NoFinding
  MaxFaults = 2
SPECIFICATION Spec
CHECK_DEADLOCK FALSE
INVARIANTS
  GovernanceTypeOK
  KeyNamesOneArtifact
  DecidedOnEvidence
  
PROPERTIES
  DecisionRecordKept
  AssessmentSettles
