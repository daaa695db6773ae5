------------------------------- MODULE MCHandIn -------------------------------
(* Instances of HandIn for TLC, and which sets may be permuted.            *)
EXTENDS HandIn, TLC

AllFaults      == FaultKinds
DatabaseErrors == {"db"}
All            == Operations

Symmetry == Permutations(Workers) \cup Permutations(Tasks) \cup Permutations(Subs)
            \cup Permutations(Keys) \cup Permutations(Files)
===============================================================================
