----------------------------- MODULE MCLaboratory ------------------------------
EXTENDS Laboratory, TLC

\* The articles of a grid with these numbers.
Pick(referentiel, numbers) ==
  LET g == grille(referentiel)
  IN [i \in DOMAIN numbers |-> g[CHOOSE k \in DOMAIN g : g[k].number = numbers[i]]]

MCCase(text, expected, never, low, high) ==
  [text |-> text, expected |-> expected, never |-> never,
   interval |-> low .. high, present |-> TRUE, blank |-> FALSE]

Command(referentiel, numbers, votes, repetitions, cases) ==
  [referentiel |-> referentiel, articles |-> Pick(referentiel, numbers),
   votes |-> votes, repetitions |-> repetitions, cases |-> cases]

Texts == {{}, {"short"}, {"short", "long"}}

\* Three votes on an article.
Voted == {Command("nis2", <<"24">>, 3, 1, <<MCCase(text, "24" :> "manquement", {"24"}, 0, 500)>>) :
            text \in Texts}

\* Two articles, twice: one that may be excluded without a citation.
Twice == {Command("rgpd", <<"34", "37">>, 1, 2,
            <<MCCase(text, ("34" :> "conforme") @@ ("37" :> "hors_perimetre"), {"34"}, 300, 1000)>>) :
            text \in {{}, {"short", "long"}}}

\* The article whose derogations make the processing lawful, and the one whose
\* derogations take it out of scope.
Once == {Command("rgpd", <<no>>, 1, 1, <<MCCase(text, no :> "manquement", {}, 0, 500)>>) :
           no \in {"9", "14"}, text \in Texts}

\* Two documents of another grid, one of which may be missing or blank, with an
\* expected article that the grid does not hold.
Corpus == {Command("nis2", <<"28", "29">>, 1, 1,
             <<MCCase({"long"}, ("28" :> "manquement") @@ ("29" :> "conforme"), {"28"}, 0, 1000),
               [MCCase({"short"}, "99" :> "manquement", {}, 0, 500) EXCEPT !.present = here, !.blank = blank]>>) :
            here \in BOOLEAN, blank \in BOOLEAN}

\* Two documents twice: one verdict in four may change (30 % is tolerated).
Tolerated == {Command("nis2", <<"29", "30">>, 1, 2,
                [c \in 1 .. 2 |-> MCCase({"short"}, ("29" :> "manquement") @@ ("30" :> "manquement"),
                                         {"29"}, 0, 500)])}

MCLaunches == Voted \cup Twice \cup Once \cup Corpus \cup Tolerated

\* A model that finds no element anywhere.
MCSilent == {Absent}

MCAnswers == {Absent, [Absent EXCEPT !.given = TRUE]}
             \cup [given : {TRUE}, announced : {TRUE},
                   cited : {{"long"}, {"short"}, {"long", "false"}}]
================================================================================
