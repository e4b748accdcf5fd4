------------------------------ MODULE Eligibility ------------------------------
(***************************************************************************)
(* Which requirements of a framework concern an organization               *)
(* (services/eligibilite.py, ingestion/scoping.py): the questionnaire an   *)
(* administrator fills in, the three-valued rule of each article, the      *)
(* warning given when a campaign is created and the requirements an        *)
(* analysis leaves out.                                                    *)
(*                                                                         *)
(* An answer is "yes", "no" or "unknown" (a column that is NULL); the      *)
(* headcount is "large" from 250 on, "small" below, or "unknown".          *)
(***************************************************************************)
EXTENDS Integers, FiniteSets

CONSTANTS
  Questionnaires,  \* [framework, fields]: the questions an instance varies
  MaxPatch         \* number of fields one request changes at most

VARIABLES
  framework,  \* framework of the campaign
  asked,      \* the fields requests of this behavior fill in
  profile,    \* the columns of Organization, as depuis_organisation reads them
  campaign,   \* its stage and whether its creation warned that nothing applies
  dropped     \* articles the last analysis marked as not applicable

vars == <<framework, asked, profile, campaign, dropped>>

Fields == {
  "headcount", "organisme_public", "donnees_sensibles", "donnees_penales",
  "activite_de_base_traitement", "suivi_regulier_systematique", "grande_echelle",
  "professionnel_liberal_isole", "traitement_occasionnel", "risque_droits_libertes",
  "collecte_directe", "collecte_indirecte", "entite_nis2", "entite_financiere_dora",
  "ia_fournisseur_haut_risque", "ia_deployeur_haut_risque", "ia_utilisee"}
Values(f) ==
  CASE f = "headcount" -> {"unknown", "small", "large"}
    [] f = "entite_nis2" -> {"unknown", "essentielle", "importante", "non_concernee"}
    [] OTHER -> {"unknown", "yes", "no"}
Answers == UNION {Values(f) : f \in Fields}

\* SOURCES: the frameworks that are ingested.  FrameworkCode has two more, without
\* rules and without requirements, so that nothing about them is ever exempted.
Frameworks == {"rgpd", "nis2", "dora", "ai_act", "csrd"}

ASSUME EligibilityAssumption ==
  /\ MaxPatch \in Nat
  /\ \A q \in Questionnaires : q.framework \in Frameworks /\ q.fields \subseteq Fields

(***************************************************************************)
(* Scope of the frameworks                                                 *)
(***************************************************************************)
\* WHITELISTS; what is audited of the CSRD has no list by number.
Whitelists == [
  rgpd   |-> 5..49,
  nis2   |-> {20, 21, 23, 24, 27, 28, 29, 30},
  dora   |-> 5..30,
  ai_act |-> {5} \cup 8..27 \cup {47, 48, 49, 50, 72, 73, 86}]
\* CSRD_ARTICLES, by the number _article_number_of reads in a reference.
Auditable(fw) == IF fw = "csrd" THEN {19, 29, 33, 40} ELSE Whitelists[fw]

\* DEPENDENCIES: the article an article follows from, 0 for none.
Master(fw, a) ==
  CASE fw = "rgpd" /\ a \in {38, 39} -> 37
    [] fw = "rgpd" /\ a = 36 -> 35
    [] fw = "rgpd" /\ a = 41 -> 40
    [] fw = "rgpd" /\ a = 43 -> 42
    [] fw = "rgpd" /\ a \in 45..49 -> 44
    [] fw = "nis2" /\ a = 23 -> 21
    [] OTHER -> 0

(***************************************************************************)
(* The rules.  Each is a cascade: the first case that holds decides.       *)
(***************************************************************************)
Verdicts == {"applicable", "exempte", "a_verifier"}
\* A rule that follows one answer.
Follows(answer) ==
  CASE answer = "yes" -> "applicable" [] answer = "no" -> "exempte" [] OTHER -> "a_verifier"
\* A rule for a narrower circle than the answer tells: only "no" is certain.
AtMost(answer, no) == IF answer = no THEN "exempte" ELSE "a_verifier"

rgpd_art30(p) ==
  IF p.headcount = "unknown" THEN "a_verifier"
  ELSE IF \/ p.headcount = "large" \/ p.donnees_sensibles = "yes" \/ p.donnees_penales = "yes"
          \/ p.risque_droits_libertes = "yes" \/ p.traitement_occasionnel = "no"
       THEN "applicable"
  ELSE IF "unknown" \in {p.traitement_occasionnel, p.risque_droits_libertes, p.donnees_sensibles}
       THEN "a_verifier" ELSE "exempte"

\* The last case of article 37: large scale, of a private organization.
rgpd_art37_large(p) ==
  IF p.activite_de_base_traitement = "no" THEN "exempte"
  ELSE IF "yes" \in {p.suivi_regulier_systematique, p.donnees_sensibles, p.donnees_penales}
       THEN "applicable"
  ELSE IF p.activite_de_base_traitement = "unknown" THEN "a_verifier" ELSE "exempte"

\* Variant: the liberal profession is looked at before the public body.
rgpd_art37_liberal(p) ==
  IF p.professionnel_liberal_isole = "yes" THEN "exempte"
  ELSE IF p.organisme_public = "yes" THEN "applicable"
  ELSE IF p.organisme_public = "unknown" THEN "a_verifier"
  ELSE IF p.grande_echelle = "no" THEN "exempte"
  ELSE IF p.grande_echelle = "yes" THEN rgpd_art37_large(p) ELSE "a_verifier"

rgpd_art37(p) ==
  IF p.organisme_public = "yes" THEN "applicable"
  ELSE IF p.professionnel_liberal_isole = "yes" THEN "exempte"
  ELSE IF p.organisme_public = "unknown" THEN "a_verifier"
  ELSE IF p.grande_echelle = "no" THEN "exempte"
  ELSE IF p.grande_echelle = "yes" THEN rgpd_art37_large(p) ELSE "a_verifier"

\* Articles 13 and 14: one way of collecting, or the other.
CollectedBy(way, other) ==
  IF way = "yes" THEN "applicable"
  ELSE IF way = "no" /\ other = "yes" THEN "exempte" ELSE "a_verifier"

nis2_entite(p) ==
  CASE p.entite_nis2 = "unknown" -> "a_verifier"
    [] p.entite_nis2 = "non_concernee" -> "exempte"
    [] OTHER -> "applicable"

\* Variant: one "no" is enough.
ai_act_enregistrement_one(p) ==
  LET roles == {p.ia_fournisseur_haut_risque, p.ia_deployeur_haut_risque} IN
  IF "yes" \in roles THEN "applicable" ELSE IF "no" \in roles THEN "exempte" ELSE "a_verifier"

ai_act_enregistrement(p) ==
  LET roles == {p.ia_fournisseur_haut_risque, p.ia_deployeur_haut_risque} IN
  IF "yes" \in roles THEN "applicable" ELSE IF roles = {"no"} THEN "exempte" ELSE "a_verifier"

\* REGLES
Ruled == [
  rgpd   |-> {13, 14, 30, 37},
  nis2   |-> {20, 21, 23, 24, 27, 28, 29, 30},
  dora   |-> 5..30,
  ai_act |-> {5} \cup 8..22 \cup 25..27 \cup {47, 48, 49, 50, 72, 73, 86},
  csrd   |-> {}]

Rule(fw, a, p) ==
  CASE fw = "rgpd" ->
         (CASE a = 13 -> CollectedBy(p.collecte_directe, p.collecte_indirecte)
            [] a = 14 -> CollectedBy(p.collecte_indirecte, p.collecte_directe)
            [] a = 30 -> rgpd_art30(p)
            [] a = 37 -> rgpd_art37(p))
    [] fw = "nis2" ->
         IF a \in {27, 28} THEN AtMost(p.entite_nis2, "non_concernee") ELSE nis2_entite(p)
    [] fw = "dora" ->
         (CASE a \in {15, 20, 21} -> "exempte"
            [] a = 23 -> AtMost(p.entite_financiere_dora, "no")
            [] OTHER -> Follows(p.entite_financiere_dora))
    [] fw = "ai_act" ->
         (CASE a = 5 -> "applicable"
            [] a = 26 -> Follows(p.ia_deployeur_haut_risque)
            [] a \in {27, 86} -> AtMost(p.ia_deployeur_haut_risque, "no")
            [] a = 49 -> ai_act_enregistrement(p)
            [] a = 50 -> Follows(p.ia_utilisee)
            [] OTHER -> Follows(p.ia_fournisseur_haut_risque))

\* evaluer: what has no rule applies.
evaluer(fw, a, p) == IF a \in Ruled[fw] THEN Rule(fw, a, p) ELSE "applicable"

\* filtrer_exigences: what is exempted of the requirements in force.
Exempted(fw, p) == {a \in Auditable(fw) : evaluer(fw, a, p) = "exempte"}
\* Variant: out of scope as soon as nothing certainly applies.
OutOfScopeUnlessApplicable(fw, p) ==
  fw # "csrd" /\ \A a \in Whitelists[fw] : evaluer(fw, a, p) # "applicable"
\* referentiel_hors_champ
OutOfScope(fw, p) ==
  fw # "csrd" /\ \A a \in Whitelists[fw] : evaluer(fw, a, p) = "exempte"

(***************************************************************************)
(* Requests                                                                *)
(***************************************************************************)
\* Every answer of p is still given in q.
Extends(p, q) == \A f \in Fields : p[f] # "unknown" => q[f] = p[f]

\* update_profile: the fields of the body, back to "unknown" included.
UpdateProfile ==
  \E patched \in SUBSET asked : \E body \in [patched -> UNION {Values(f) : f \in patched}] :
    /\ patched # {} /\ Cardinality(patched) <= MaxPatch
    /\ \A f \in patched : body[f] \in Values(f)
    /\ profile' = [f \in Fields |-> IF f \in patched THEN body[f] ELSE profile[f]]
    /\ campaign' = [campaign EXCEPT !.kept = @ /\ Extends(profile, profile')]
    /\ UNCHANGED <<framework, asked, dropped>>

\* create_audit
CreateAudit ==
  /\ campaign.stage = "none"
  /\ campaign' = [stage |-> "draft", warned |-> OutOfScope(framework, profile), kept |-> TRUE]
  /\ UNCHANGED <<framework, asked, profile, dropped>>

\* run_audit, as far as the filter and what it propagates go; it may run again.
RunAudit ==
  /\ campaign.stage # "none"
  /\ LET exempt == Exempted(framework, profile) IN
       dropped' = exempt \cup {a \in Auditable(framework) : Master(framework, a) \in exempt}
  /\ campaign' = [campaign EXCEPT !.stage = "analysed"]
  /\ UNCHANGED <<framework, asked, profile>>

\* An organization is created without answers, the headcount possibly given.
Init ==
  /\ \E q \in Questionnaires : framework = q.framework /\ asked = q.fields
  /\ profile = [f \in Fields |-> "unknown"]
  /\ campaign = [stage |-> "none", warned |-> FALSE, kept |-> FALSE]
  /\ dropped = {}

Next == UpdateProfile \/ CreateAudit \/ RunAudit

Spec == Init /\ [][Next]_vars

(***************************************************************************)
(* Properties                                                              *)
(***************************************************************************)
TypeOK ==
  /\ profile \in [Fields -> Answers] /\ \A f \in Fields : profile[f] \in Values(f)
  /\ campaign \in [stage : {"none", "draft", "analysed"}, warned : BOOLEAN, kept : BOOLEAN]
  /\ framework \in Frameworks
  /\ dropped \subseteq Auditable(framework)

\* The obligation as the docstrings of the rules word the law, for the articles
\* whose rule reads several answers, and the answers it depends on.
Required(a, p) ==
  CASE a = 30 -> \/ p.headcount = "large" \/ p.risque_droits_libertes = "yes"
                 \/ p.traitement_occasionnel = "no"
                 \/ "yes" \in {p.donnees_sensibles, p.donnees_penales}
    [] a = 37 -> \/ p.organisme_public = "yes"
                 \/ /\ p.grande_echelle = "yes" /\ p.professionnel_liberal_isole = "no"
                    /\ p.activite_de_base_traitement = "yes"
                    /\ "yes" \in {p.suivi_regulier_systematique, p.donnees_sensibles, p.donnees_penales}
    [] a = 49 -> "yes" \in {p.ia_fournisseur_haut_risque, p.ia_deployeur_haut_risque}
Reads(a) ==
  CASE a = 30 -> {"headcount", "risque_droits_libertes", "traitement_occasionnel",
                  "donnees_sensibles", "donnees_penales"}
    [] a = 37 -> {"organisme_public", "professionnel_liberal_isole", "grande_echelle",
                  "activite_de_base_traitement", "suivi_regulier_systematique",
                  "donnees_sensibles", "donnees_penales"}
    [] a = 49 -> {"ia_fournisseur_haut_risque", "ia_deployeur_haut_risque"}

\* Once every answer it depends on is given, the cascade of an article says
\* what the law says, in whatever order it looks at the answers (docstrings of
\* _rgpd_art30, _rgpd_art37 and _ai_act_enregistrement).
DecidedAsLaw ==
  \A a \in CASE framework = "rgpd" -> {30, 37} [] framework = "ai_act" -> {49} [] OTHER -> {} :
    (\A f \in Reads(a) : profile[f] # "unknown") =>
      evaluer(framework, a, profile) = (IF Required(a, profile) THEN "applicable" ELSE "exempte")

\* The answers an exemption does not wait for: article 30 leaves one out of those
\* it calls missing; article 37 exempts who works alone before it asks whether
\* the organism is public, and a large scale before it asks what is processed.
Overlooked(a) ==
  CASE framework = "rgpd" /\ a = 30 -> {"donnees_penales"}
    [] framework = "rgpd" /\ a = 37 /\ profile.professionnel_liberal_isole = "yes" ->
         {"organisme_public"}
    [] /\ framework = "rgpd" /\ a = 37 /\ profile.professionnel_liberal_isole # "yes"
       /\ profile.grande_echelle = "yes" /\ profile.activite_de_base_traitement = "yes" ->
         {"suivi_regulier_systematique", "donnees_sensibles", "donnees_penales"}
    [] OTHER -> {}

\* An article exempted on incomplete answers stays so whatever is answered next,
\* the answers of Overlooked apart: a small scale or an activity that is not the
\* core one exempt from article 37 for good.
ExemptionKept ==
  [][\A a \in Exempted(framework, profile) :
       /\ Extends(profile, profile')
       /\ \A f \in Overlooked(a) : profile'[f] = profile[f]
       => evaluer(framework, a, profile') = "exempte"]_vars

\* What the module announces (eligibilite.py, "Une information manquante ne
\* produit JAMAIS une exemption"): an answer added never brings back an article
\* that was exempted without it.
ExemptionFinal ==
  [][\A a \in Exempted(framework, profile) :
       Extends(profile, profile') => evaluer(framework, a, profile') = "exempte"]_vars

\* A campaign created with the warning that the framework does not apply ends
\* with every requirement not applicable, even when the questionnaire was
\* completed in between (the text of scope_warning in create_audit).
WarnedDropsAll ==
  campaign.stage = "analysed" /\ campaign.warned /\ campaign.kept
  => dropped = Auditable(framework)
=============================================================================
