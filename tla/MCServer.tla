------------------------------- MODULE MCServer -------------------------------
(* An instance of Server for TLC, and which sets may be permuted.          *)
EXTENDS Server, TLC

AllFaults == FaultKinds
All       == Operations

Symmetry == Permutations(Web) \cup Permutations(Tasks) \cup Permutations(Subs)
            \cup Permutations(Keys) \cup Permutations(Files)
===============================================================================
