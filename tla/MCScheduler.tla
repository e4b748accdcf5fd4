------------------------------ MODULE MCScheduler ------------------------------
(* Instances of Scheduler for TLC. Two processes poll one schedule that two clients use. No symmetry: the
   instance is used for a liveness property. *)
EXTENDS Scheduler, TLC
================================================================================
