----------------------------- MODULE MCEligibility ----------------------------
(* Instances of Eligibility for TLC. *)
EXTENDS Eligibility

\* One questionnaire per group of rules that read the same answers.
MCQuestionnaires == {
  [framework |-> "rgpd", fields |-> Reads(30)],
  [framework |-> "rgpd", fields |-> Reads(37)],
  [framework |-> "rgpd", fields |-> {"collecte_directe", "collecte_indirecte"}],
  [framework |-> "nis2", fields |-> {"entite_nis2"}],
  [framework |-> "dora", fields |-> {"entite_financiere_dora"}],
  [framework |-> "ai_act", fields |-> Reads(49) \cup {"ia_utilisee"}],
  [framework |-> "csrd", fields |-> {"headcount"}]}
=============================================================================
