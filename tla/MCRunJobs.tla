----------------------------- MODULE MCRunJobs -----------------------------
(***************************************************************************)
(* The queue, the contracts of the runs it carries, and the page that the  *)
(* user starts and watches runs with.  A behaviour is about one of them    *)
(* (scene): every interleaving of two nodes and two roles over the jobs of *)
(* two runs; handlers of two processes that create, resume, override, fork *)
(* and execute two runs; or the handlers of one page that shows one of two *)
(* projects.  RunJobs knows nothing of contracts, ExecutionContracts keeps *)
(* of a run's job who has it, and the page knows what it was answered.     *)
(***************************************************************************)
EXTENDS RunJobs, ExecutionContracts, ControlRoom, TLC

VARIABLE scene

vars == <<queueVars, contractVars, roomVars, scene>>

\* No run and nobody at work: what the queue's behaviours leave alone.
NoContracts ==
  /\ contractRows = [r \in ContractRun |-> NoRow]
  /\ contractJobs = [r \in ContractRun |-> "none"]
  /\ handlers = [h \in Handler |-> HandlerIdle]
  /\ process = [h \in Handler |-> [env |-> OffSetting, release |-> 1]]
  /\ outdated = {}
  /\ handled = 0
  /\ restarts = 0

MCInit ==
  /\ Init /\ RoomInit
  /\ \/ scene = "queue" /\ NoContracts
     \/ scene = "contracts" /\ ContractInit
     \/ scene = "page" /\ NoContracts

\* Contracts come to rest when the requests are over and no job is left, the
\* page when the gestures are.
MCNext ==
  /\ UNCHANGED scene
  /\ \/ scene = "queue" /\ Next /\ UNCHANGED <<contractVars, roomVars>>
     \/ scene = "contracts" /\ ContractNext /\ UNCHANGED <<queueVars, roomVars>>
     \/ scene = "page" /\ RoomNext /\ UNCHANGED <<queueVars, contractVars>>
     \/ /\ scene = "contracts" \/ (scene = "page" /\ AtRest)
        /\ UNCHANGED <<queueVars, contractVars, roomVars>>

\* Nodes are alike, and so are handlers; no property here is about liveness.
Symmetry == Permutations(Node) \cup Permutations(Handler)

MCSpec == MCInit /\ [][MCNext]_vars

\* The rows of both tables, of the runs' contracts and of the handlers hold
\* values of their columns and locals, and so does the page.
QueueTypeOK == TypeOK /\ ContractTypeOK /\ RoomTypeOK
=============================================================================
