--------------------------- MODULE MCPowerWorker ---------------------------
(* PowerWorker for TLC: jobs are interchangeable, and so are the requests of *)
(* each other kind.                                                          *)
EXTENDS PowerWorker, TLC

Symmetry == Permutations(Jobs) \cup Permutations(Cancels) \cup Permutations(Stops)
=============================================================================
