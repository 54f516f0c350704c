----------------------------- MODULE MCWebJobs -----------------------------
(* WebJobs for TLC: the jobs of each route are interchangeable.             *)
EXTENDS WebJobs, TLC

Symmetry == Permutations(Commands) \cup Permutations(Lives)
=============================================================================
