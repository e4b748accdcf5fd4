------------------------------- MODULE MCStorage -------------------------------
(* Instances of Storage for TLC. Two documents that may share a file, in one of two campaigns. No symmetry: the
   instance is used for a liveness property. *)
EXTENDS Storage, TLC
================================================================================
