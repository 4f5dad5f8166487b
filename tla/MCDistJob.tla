------------------------------ MODULE MCDistJob ------------------------------
(* Instances of DistJob for TLC: tasks and process slots are               *)
(* interchangeable model values.                                           *)
EXTENDS DistJob, TLC

WorkerSymmetry == Permutations(Task) \cup Permutations(Attempt)
=============================================================================
