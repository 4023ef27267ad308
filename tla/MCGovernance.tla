---------------------------- MODULE MCGovernance ----------------------------
(***************************************************************************)
(* Uploads and one assessment together.  A behaviour is about either (the  *)
(* bound scene): the uploads that race for a key, or the assessment of an  *)
(* artifact whose upload is over, its bundle stored whole or in part.      *)
(***************************************************************************)
EXTENDS Assessments

\* The second scene is about an artifact.
ASSUME SceneAssumption == Upload # {} /\ Digest # {}

VARIABLE scene

vars == <<ingestionVars, assessmentVars, scene>>

\* An artifact is there: its upload ended, its bundle intact or not.
Ingested ==
  /\ \E b \in {"partial", "intact"} :
     LET u == CHOOSE u \in Upload : TRUE
         d == CHOOSE d \in Digest : TRUE
     IN
       /\ artifacts = {u}
       /\ blobs = [e \in Digest |-> IF e = d THEN b ELSE "absent"]
       /\ uploads = [v \in Upload |-> IF v = u
                       THEN [NewUpload EXCEPT !.pc = "created", !.digest = d, !.artifact = u]
                       ELSE [NewUpload EXCEPT !.pc = "refused", !.digest = d]]
  /\ claim = NoClaim
  /\ uploadFaults = 0

Init ==
  /\ AssessmentInit
  /\ \/ scene = "uploads" /\ taken = NoFinding /\ IngestionInit
     \/ scene = "assessment" /\ Ingested

Next ==
  /\ UNCHANGED scene
  /\ \/ scene = "uploads" /\ IngestionNext /\ UNCHANGED assessmentVars
     \/ scene = "assessment" /\ AssessmentNext /\ UNCHANGED ingestionVars

Spec == Init /\ [][Next]_vars /\ AssessmentFairness

\* The rows of uploads and of the assessment, and their processes' locals,
\* hold values of their columns and variables.
GovernanceTypeOK == IngestionTypeOK /\ AssessmentTypeOK
=============================================================================
