------------------------------ MODULE MCSessions ------------------------------
(* Instances of Sessions for TLC, and which sets may be permuted.          *)
EXTENDS Sessions, TLC

Accidents   == {"crash", "db", "expire"}
NoAccidents == {}
Creating    == {"login", "form", "post", "exchange"}
Deleting    == Creating \cup {"delete"}

Symmetry == Permutations(Workers) \cup Permutations(Browsers) \cup Permutations(SKeys)
            \cup Permutations(Tasks) \cup Permutations(Nonces)
===============================================================================
