--------------------------- MODULE MCInvestigation ---------------------------
(* Instances of Investigation for TLC. *)
EXTENDS Investigation, TLC

\* Processes are interchangeable.
Symmetry == Permutations(Process)
=============================================================================
