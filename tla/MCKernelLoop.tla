----------------------------- MODULE MCKernelLoop -----------------------------
(***************************************************************************)
(* The kernel's loop and the corrections of a validated builder run.  A    *)
(* behaviour is about either (scene): every plan of up to two steps under  *)
(* every combination of modes and small correction budgets, or the         *)
(* attempts to correct a run in which a module may be missing.             *)
(***************************************************************************)
EXTENDS KernelLoop, ValidationCorrections

VARIABLE scene

\* A contract may allow no correction.
ASSUME SceneAssumption == 0 \in Budget

\* A run that has ended: what the loop's variables hold in the other scene.
LoopAtRest ==
  /\ config = [maxRuntime |-> 0, maxHeavy |-> 0, heavy |-> FALSE,
               convergence |-> "off", policy |-> "warn"]
  /\ run = [status |-> "complete", index |-> 0, plan |-> <<>>]
  /\ loop = Outside /\ validated = TRUE /\ preview = None /\ reentries = 0

\* Nothing is corrected.
CorrectionsAtRest ==
  /\ project = [module |-> [m \in Target |-> "absent"],
                import |-> [m \in Target |-> "none"], faults |-> {}]
  /\ CorrectionsInit

MCInit ==
  \/ scene = "loop" /\ Init /\ CorrectionsAtRest
  \/ scene = "corrections" /\ LoopAtRest /\ CorrectionsInit

MCNext ==
  /\ UNCHANGED scene
  /\ \/ scene = "loop" /\ Next /\ UNCHANGED repairVars
     \/ scene = "corrections" /\ CorrectionsNext /\ UNCHANGED vars

\* The fairness of Spec, in the loop's scene.
MCSpec ==
  /\ MCInit
  /\ [][MCNext]_<<vars, repairVars, scene>>
  /\ WF_vars(scene = "loop" /\ Enter)
  /\ WF_vars(scene = "loop" /\ Iteration)

\* The row and the locals of the loop and of the corrections.
LoopTypeOK == TypeOK /\ CorrectionsTypeOK
=============================================================================
