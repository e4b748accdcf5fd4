------------------------------ MODULE MCCampaign ------------------------------
(* Instances of Campaign for TLC. *)
EXTENDS Campaign, TLC

\* Workers are interchangeable for a safety property.
WorkersSymmetry == Permutations(Workers)
=============================================================================
