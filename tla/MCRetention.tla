----------------------------- MODULE MCRetention ------------------------------
(***************************************************************************)
(* Instances of Retention for TLC.                                         *)
(***************************************************************************)
EXTENDS Retention, TLC

Interchangeable == Permutations(Process)
=============================================================================
