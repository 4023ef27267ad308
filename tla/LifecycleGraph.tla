--------------------------- MODULE LifecycleGraph ---------------------------
(***************************************************************************)
(* The two transition graphs the product publishes (agent/lifecycle-graph) *)
(* and from which docs/contracts/state-machine.md is generated: one for    *)
(* agent runs, one for durable run jobs.  Every other module measures what *)
(* the code does against these graphs.                                     *)
(***************************************************************************)

RunStatus == {"queued", "running", "correcting", "optimizing", "validating",
              "complete", "failed", "cancelled"}

TerminalRunStatus == {"complete", "failed", "cancelled"}

\* lifecycleRunGraph.transitions
RunGraph ==
  [s \in RunStatus |->
     CASE s = "queued"     -> {"running", "cancelled", "failed"}
       [] s = "running"    -> {"correcting", "optimizing", "validating"}
                                 \cup TerminalRunStatus
       [] s = "correcting" -> {"running", "validating", "failed", "cancelled"}
       [] s = "optimizing" -> {"running", "validating"} \cup TerminalRunStatus
       [] s = "validating" -> {"running", "optimizing"} \cup TerminalRunStatus
       [] s = "complete"   -> {}
       [] s \in {"failed", "cancelled"} -> {"queued"}]

JobStatus == {"queued", "claimed", "running", "complete", "failed"}

\* The predicate of the partial unique index on run_jobs.
ActiveJobStatus == {"queued", "claimed", "running"}

TerminalJobStatus == {"complete", "failed"}

\* runJobGraph.transitions
JobGraph ==
  [s \in JobStatus |->
     CASE s = "queued"  -> {"claimed"}
       [] s = "claimed" -> {"running"} \cup TerminalJobStatus
       [] s = "running" -> {"claimed"} \cup TerminalJobStatus
       [] s \in TerminalJobStatus -> {}]

\* isAllowedStateTransition
IsAllowedStateTransition(graph, current, next) == next \in graph[current]
=============================================================================
