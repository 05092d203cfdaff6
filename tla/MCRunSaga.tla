----------------------------- MODULE MCRunSaga -----------------------------
(* Instances of RunSaga for TLC. *)
EXTENDS RunSaga, TLC

CONSTANTS w1, w2, e1, e2, e3, a, b

\* Each execution of a workflow of its own.
OwnWorkflow == [e \in Executions |-> e]

\* Two runs of one workflow beside a run of another.
MixedWorkflows == [e \in Executions |-> IF e = e3 THEN b ELSE a]

Symmetric == Permutations(Workers) \cup Permutations(Refs) \cup Permutations(Executions)

\* With MixedWorkflows only e1 and e2 may be exchanged.
SymmetricPair == Permutations(Refs) \cup Permutations({e1, e2})
=============================================================================
