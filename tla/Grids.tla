--------------------------------- MODULE Grids ---------------------------------
(***************************************************************************)
(* The audit grids of src/referentiel: what the laboratory's evaluator     *)
(* looks for in a document, article by article. An article is known by its *)
(* weight in the score, how many of its elements must be proved             *)
(* (blocking) and how many are only wished for, which derogations may be    *)
(* weighed on documents alone (those that make the processing lawful and    *)
(* those that take the article out of scope), and whether its exclusion     *)
(* must be quoted from the document. Titles, clues and prompts are left     *)
(* out.                                                                     *)
(***************************************************************************)
EXTENDS Integers, Sequences

Article(no, w, b, o, licit, out, q) ==
  [number |-> no, weight |-> w, blocking |-> b, wished |-> o,
   licit |-> licit, outs |-> out, quoted |-> q]

\* An article without derogation whose exclusion needs a citation.
Plain(no, w, b, o) == Article(no, w, b, o, 0, 0, TRUE)

rgpd_5_13 == <<Plain("5", 4, 2, 2), Plain("6", 4, 1, 2), Plain("7", 3, 2, 1),
               Article("9", 5, 2, 0, 10, 0, TRUE),
               Plain("12", 3, 3, 2), Plain("13", 3, 6, 2)>>

rgpd_14_28 == <<Article("14", 2, 4, 0, 0, 4, TRUE), Plain("15-22", 3, 3, 1),
                Plain("22", 4, 3, 0), Plain("25", 2, 2, 0), Plain("28", 4, 2, 2)>>

\* The derogations of 30 and 34 need a concrete incident: none is ex ante.
rgpd_30_34 == <<Plain("30", 4, 4, 1), Plain("32", 5, 4, 1),
                Plain("33", 4, 4, 1), Plain("34", 2, 2, 0)>>

rgpd_35_49 == <<Plain("35", 4, 2, 1), Article("37", 3, 2, 1, 0, 0, FALSE),
                Article("44-49", 5, 2, 1, 0, 0, FALSE)>>

REFERENTIEL == rgpd_5_13 \o rgpd_14_28 \o rgpd_30_34 \o rgpd_35_49

REFERENTIEL_NIS2 ==
  <<Plain("20", 4, 3, 0), Plain("21", 5, 5, 1), Plain("23", 5, 3, 0),
    Plain("24", 2, 1, 0), Plain("27", 3, 1, 0), Plain("28", 3, 2, 0),
    Plain("29", 1, 1, 0), Plain("30", 1, 1, 0)>>

dora_5_16 ==
  <<Plain("5", 4, 2, 0), Plain("6", 5, 2, 0), Plain("7", 3, 1, 0),
    Plain("8", 3, 1, 0), Plain("9", 4, 2, 0), Plain("10", 3, 1, 0),
    Plain("11", 5, 2, 0), Plain("12", 3, 2, 0), Plain("13", 2, 2, 0),
    Plain("14", 1, 1, 0), Plain("16", 1, 1, 0)>>

dora_17_30 ==
  <<Plain("17", 4, 1, 0), Plain("18", 3, 1, 0), Plain("19", 5, 2, 0),
    Plain("22", 1, 1, 0), Plain("23", 3, 1, 0), Plain("24", 3, 1, 0),
    Plain("25", 3, 1, 0), Plain("26", 2, 1, 0), Plain("27", 1, 1, 0),
    Plain("28", 4, 2, 0), Plain("29", 3, 1, 0), Plain("30", 4, 2, 0)>>

REFERENTIEL_DORA == dora_5_16 \o dora_17_30

ai_act_5_18 ==
  <<Plain("5", 5, 1, 0), Plain("8", 2, 1, 0), Plain("9", 5, 1, 0),
    Plain("10", 4, 1, 0), Plain("11", 3, 1, 0), Plain("12", 2, 1, 0),
    Plain("13", 3, 1, 0), Plain("14", 5, 1, 0), Plain("15", 3, 1, 0),
    Plain("16", 2, 1, 0), Plain("17", 3, 1, 0), Plain("18", 2, 1, 0)>>

ai_act_19_49 ==
  <<Plain("19", 1, 1, 0), Plain("20", 3, 1, 0), Plain("21", 1, 1, 0),
    Plain("22", 2, 1, 0), Plain("23", 2, 1, 0), Plain("24", 2, 1, 0),
    Plain("25", 2, 1, 0), Plain("26", 5, 2, 0), Plain("27", 4, 1, 0),
    Plain("47", 2, 1, 0), Plain("48", 1, 1, 0), Plain("49", 3, 1, 0)>>

ai_act_50_86 ==
  <<Plain("50", 3, 1, 0), Plain("72", 2, 1, 0), Plain("73", 3, 1, 0),
    Plain("86", 4, 1, 0)>>

REFERENTIEL_AI_ACT == ai_act_5_18 \o ai_act_19_49 \o ai_act_50_86

\* The grid run_validation.py measures, and the thresholds that fail the
\* run: least recall, precision and accuracy (in percent), most abusive
\* exclusions, documents scored outside their interval and, in percent,
\* verdicts that change from one repetition to the next.
grille(referentiel) ==
  CASE referentiel = "rgpd" -> REFERENTIEL
    [] referentiel = "nis2" -> REFERENTIEL_NIS2
    [] referentiel = "dora" -> REFERENTIEL_DORA
    [] referentiel = "ai_act" -> REFERENTIEL_AI_ACT

seuils(referentiel) ==
  LET Seuils(r, p, e, a, h, v) ==
        [recall |-> r, precision |-> p, accuracy |-> e,
         abusive |-> a, outside |-> h, unstable |-> v]
  IN CASE referentiel = "rgpd" -> Seuils(90, 65, 80, 0, 11, 20)
       [] referentiel = "nis2" -> Seuils(70, 40, 60, 0, 3, 30)
       [] referentiel = "dora" -> Seuils(70, 50, 60, 0, 3, 30)
       [] referentiel = "ai_act" -> Seuils(70, 50, 60, 1, 3, 30)
================================================================================
