----------------------------- MODULE JobOutcomes -----------------------------
(***************************************************************************)
(* What the durable queue promises the rest of the product, with claims,   *)
(* leases and nodes left out: a job is submitted for a run that has no     *)
(* pending job, and it is resolved once, for good.                         *)
(***************************************************************************)
CONSTANTS Job, Run, NoRun

VARIABLES
  outcome,  \* for each job: none, pending, complete or failed
  target    \* for each job: the run it was submitted for

vars == <<outcome, target>>

Init ==
  /\ outcome = [j \in Job |-> "none"]
  /\ target = [j \in Job |-> NoRun]

Submit(j, r) ==
  /\ outcome[j] = "none"
  /\ \A k \in Job : outcome[k] = "pending" => target[k] # r
  /\ outcome' = [outcome EXCEPT ![j] = "pending"]
  /\ target' = [target EXCEPT ![j] = r]

Resolve(j, o) ==
  /\ outcome[j] = "pending"
  /\ outcome' = [outcome EXCEPT ![j] = o]
  /\ UNCHANGED target

Next ==
  \E j \in Job :
    \/ \E r \in Run : Submit(j, r)
    \/ \E o \in {"complete", "failed"} : Resolve(j, o)

Spec == Init /\ [][Next]_vars
=============================================================================
