--------------------------- MODULE MCProjectChecks ---------------------------
(***************************************************************************)
(* What is done with a project outside of a run's worktree, and who may do *)
(* it.  A behaviour is about one part (scene): the readiness check beside  *)
(* a preview container on one host, the requests that meet in the          *)
(* project's working tree and history, the making of accounts, or the      *)
(* sessions of a browser.                                                  *)
(***************************************************************************)
EXTENDS ReadinessChecks, ProjectActivity, Accounts, Sessions, TLC

VARIABLE scene

parts == <<readinessVars, activityVars, accountVars, sessionVars>>

MCInit ==
  /\ ReadinessInit /\ ActivityInit /\ AccountsInit /\ SessionsInit
  /\ scene \in {"readiness", "activity", "accounts", "sessions"}

MCNext ==
  /\ UNCHANGED scene
  /\ \/ /\ scene = "readiness" /\ ReadinessNext
        /\ UNCHANGED <<activityVars, accountVars, sessionVars>>
     \/ /\ scene = "activity" /\ ActivityNext
        /\ UNCHANGED <<readinessVars, accountVars, sessionVars>>
     \/ /\ scene = "accounts" /\ AccountsNext
        /\ UNCHANGED <<readinessVars, activityVars, sessionVars>>
     \/ /\ scene = "sessions" /\ SessionsNext
        /\ UNCHANGED <<readinessVars, activityVars, accountVars>>

MCSpec == MCInit /\ [][MCNext]_<<parts, scene>>

\* The sets the cfg gives the same values are permuted together; each scene
\* uses those of its own part.
Symmetry == Permutations(File) \cup Permutations(Request \ {Creator})

\* Every variable of the parts holds what its column, local or file can hold.
ProjectTypeOK ==
  ReadinessTypeOK /\ ActivityTypeOK /\ AccountsTypeOK /\ SessionsTypeOK
=============================================================================
