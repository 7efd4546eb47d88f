--------------------------- MODULE MCTaskPipeline ---------------------------
(* Small instances of TaskPipeline for TLC.                                *)
EXTENDS TaskPipeline, TLC

CONSTANT u1

\* All snapshots are one user's.
OneOwner == [t \in Tasks |-> u1]

Symmetry == Permutations(Workers) \union Permutations(Handlers)
=============================================================================
