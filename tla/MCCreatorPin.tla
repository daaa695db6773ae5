----------------------------- MODULE MCCreatorPin -----------------------------
(* Instances of CreatorPin for TLC.                                        *)
EXTENDS CreatorPin, TLC

Symmetry == Permutations(Workers)
===============================================================================
