---------------------------- MODULE MCRunExecution ----------------------------
(***************************************************************************)
(* TLC instances of RunExecution: one run and two worker nodes that may    *)
(* pass its job back and forth.                                            *)
(***************************************************************************)
EXTENDS RunExecution, TLC

\* The nodes are interchangeable, and so are the process ids.
Interchangeable == Permutations(Node) \cup Permutations(Pid)
=============================================================================
