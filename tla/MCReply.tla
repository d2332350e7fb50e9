------------------------------- MODULE MCReply -------------------------------
(* Finite instances of Reply. *)
EXTENDS Reply, TLC

CONSTANTS p1, p2, i1, i2, d1, d2, a, b

Interchangeable == Permutations(Process) \cup Permutations(Item) \cup Permutations(Draft) \cup Permutations(Content)
=============================================================================
