---------------------------- MODULE DecisionRecord ----------------------------
(***************************************************************************)
(* What the governance store promises about one assessment: its evidence   *)
(* is finalised at most once, its decision is issued at most once, after   *)
(* the evidence and from it, never from evidence that cannot be decided,   *)
(* and neither is ever changed.                                            *)
(***************************************************************************)
CONSTANTS
  Finding,      \* what an evaluation can find
  Undecidable,  \* findings no decision may rest on
  NoFinding

VARIABLES manifest, decision

DecisionInit == manifest = NoFinding /\ decision = NoFinding

Finalize ==
  /\ manifest = NoFinding
  /\ manifest' \in Finding
  /\ UNCHANGED decision

Issue ==
  /\ decision = NoFinding
  /\ manifest \in Finding \ Undecidable
  /\ decision' = manifest
  /\ UNCHANGED manifest

DecisionSpec == DecisionInit /\ [][Finalize \/ Issue]_<<manifest, decision>>
=============================================================================
