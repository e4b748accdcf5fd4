------------------------------ MODULE MCSessions ------------------------------
(* Instances of Sessions for TLC. *)
EXTENDS Sessions, TLC

\* Workers are interchangeable.
Symmetry == Permutations(Workers)
=============================================================================
