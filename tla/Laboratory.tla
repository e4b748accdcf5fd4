------------------------------ MODULE Laboratory -------------------------------
(***************************************************************************)
(* The laboratory: the evaluator that judges a document article by article *)
(* (src/evaluation) and the harness that measures it against documents     *)
(* whose verdicts are known, and decides whether a build may pass          *)
(* (src/validation/run_validation.py, harnais.py).                         *)
(*                                                                         *)
(* The model may answer anything, fail, or be malformed; the code only     *)
(* believes what it finds, word for word, in the document.  A sentence a   *)
(* model quotes is known by whether the document holds it and by its       *)
(* length: "long" ones (25 characters and more) prove an element, "short"  *)
(* ones (15 to 24) prove an exclusion or a derogation, and "false" ones    *)
(* are in no document.                                                     *)
(***************************************************************************)
EXTENDS Grids, FiniteSets, FiniteSetsExt, Functions

CONSTANTS
  Launches,   \* command lines, each with the corpus it measures (see MC)
  Answers,    \* what a model may say of an element: [given, announced, cited]
  Reessais,   \* retries of a model call after the first failure
  Workers     \* articles evaluated at the same time (WORKERS_ARTICLES)

\* What the grids hold: every article has an element that must be proved.
Articles == [number : STRING, weight : Nat \ {0}, blocking : Nat \ {0}, wished : Nat,
             licit : Nat, outs : Nat, quoted : BOOLEAN]

ASSUME LaboratoryAssumption ==
  /\ Reessais \in Nat
  /\ Workers \in Nat \ {0}
  /\ \A l \in Launches :
       /\ l.articles \in Seq(Articles) /\ Len(l.cases) \in Nat
       /\ l.votes \in Nat \ {0} /\ l.repetitions \in Nat \ {0}

\* The grids hold an article once; what verifier_verite_terrain.py demands of a
\* corpus: an article never to be excluded has a verdict expected of it.
ASSUME CorpusAssumption ==
  \A l \in Launches :
    /\ l.referentiel \in {"rgpd", "nis2", "dora", "ai_act"}
    /\ \A a, b \in DOMAIN l.articles : l.articles[a].number = l.articles[b].number => a = b
    /\ \A c \in 1 .. Len(l.cases) :
         /\ IsFiniteSet(DOMAIN l.cases[c].expected)
         /\ l.cases[c].never \subseteq DOMAIN l.cases[c].expected

Sentences == {"short", "long", "false"}
Verdicts == {"conforme", "manquement", "hors_perimetre"}

\* The element is missing from the model's answer.
Absent == [given |-> FALSE, announced |-> FALSE, cited |-> {}]

VARIABLES
  launch,    \* the command line: [referentiel, articles, votes, repetitions, cases]
  case,      \* the document being measured
  jobs,      \* <<article, vote>> -> one evaluation of an article
  reports,   \* document -> its reports, one per repetition
  measured,  \* the metrics accumulated by comparer
  exit       \* how main ends: "running", "passed" (code 0), "failed" (1), "crashed"

vars == <<launch, case, jobs, reports, measured, exit>>

Case == launch.cases[case]
Slots == (1 .. Len(launch.articles)) \X (1 .. launch.votes)

Fresh == [step |-> "applicability", failures |-> 0, diagnostics |-> 0,
          proved |-> 0, rejected |-> 0, lacking |-> 0, verdict |-> "none",
          review |-> FALSE]

Unmeasured == [total |-> 0, right |-> 0, hits |-> 0, alarms |-> 0, misses |-> 0,
               abusive |-> 0, inside |-> 0, documents |-> 0]

Init ==
  /\ launch \in Launches
  /\ case = 0
  /\ jobs = <<>>
  /\ reports = [c \in 1 .. Len(launch.cases) |-> <<>>]
  /\ measured = Unmeasured
  /\ exit = "running"

--------------------------------------------------------------------------------
\* Does the document hold every one of these sentences, each of them long
\* enough for what it has to prove?
Verified(cited, enough) == cited # {} /\ cited \subseteq Case.text \cap enough

\* Variant: the threshold of exclusions is used for elements too.
ForConformityShort == {"short", "long"}

ForConformity == {"long"}
ForExclusion == {"short", "long"}

\* Variant: an exclusion is believed without its citation.
ExcludedUnquoted(article, answer) == ~answer.applicable /\ answer.coherent

\* _applicable: an exclusion is believed when the answer does not contradict
\* itself and, for the articles that need it, quotes the document.
Excluded(article, answer) ==
  /\ ~answer.applicable
  /\ answer.coherent
  /\ article.quoted => Verified(answer.cited, ForExclusion)

\* An element is proved when the model announces it and every sentence it
\* quotes is verified (Preuve.retenue).
Retained(answer) ==
  answer.announced /\ Verified(answer.cited, ForConformity)

\* Announced with sentences of which one at least is not verified.
Rejected(answer) ==
  /\ answer.announced
  /\ answer.cited # {} /\ ~Verified(answer.cited, ForConformity)

\* Every element the model left out, announced without quoting or quoted
\* wrongly leaves a diagnostic.
Anomalous(answer) == ~answer.given \/ (answer.announced /\ ~Retained(answer))

Smallest(S) == Min(S)

\* _confiance, in percent, and the review it decides with the articles whose
\* qualification is always reviewed (RGPD 22, 35 and 37).
Reviewed(article, job, verdict) ==
  LET lowered == 20 * Smallest({job.rejected, 3}) + 10 * Smallest({job.diagnostics, 3})
                 + IF verdict = "conforme" THEN 5 * job.lacking ELSE 0
      systematic == launch.referentiel = "rgpd" /\ article.number \in {"22", "35", "37"}
  IN systematic \/ 90 - lowered < 70 \/ job.diagnostics > 0

\* What is left of an evaluation: its verdict, what it proved, its review.
Done(article, job, verdict) ==
  [Fresh EXCEPT !.step = "done", !.verdict = verdict, !.proved = job.proved,
                !.review = Reviewed(article, job, verdict)]

\* An excluded article is returned before the rules of review are reached.
OutOfScope == [Fresh EXCEPT !.step = "done", !.verdict = "hors_perimetre"]

\* The verdict once the evidence is in: conforme when every blocking element
\* is proved, else a derogation is looked for when the article has one.
Judged(article, job) ==
  IF job.proved = article.blocking /\ article.blocking > 0
  THEN Done(article, job, "conforme")
  ELSE IF article.licit + article.outs > 0
       THEN [job EXCEPT !.step = "derogation", !.failures = 0]
       ELSE Done(article, job, "manquement")

--------------------------------------------------------------------------------
Finished(slot) == jobs[slot].step \in {"done", "crashed"}

\* Articles are handed to the pool in order, all the votes of one together.
Running(slot) ==
  /\ exit = "running" /\ slot \in DOMAIN jobs /\ ~Finished(slot)
  /\ Cardinality({a \in 1 .. (slot[1] - 1) :
                    \E v \in 1 .. launch.votes : ~Finished(<<a, v>>)}) < Workers

Evaluated(slot) == launch.articles[slot[1]]

Becomes(slot, job) ==
  /\ jobs' = [jobs EXCEPT ![slot] = job]
  /\ UNCHANGED <<launch, case, reports, measured, exit>>

\* Variant: the count of the tries starts again with each of them.
RetryForever(slot) ==
  /\ Running(slot)
  /\ Becomes(slot, [jobs[slot] EXCEPT !.failures = (@ + 1) % (Reessais + 1)])

\* _appeler: a failed call, or an answer that is no JSON object, is tried again.
Retry(slot) ==
  /\ Running(slot)
  /\ jobs[slot].failures < Reessais
  /\ Becomes(slot, [jobs[slot] EXCEPT !.failures = @ + 1])

\* The last try fails: the article stays in scope; nothing is proved; no
\* derogation is retained.
GiveUp(slot) ==
  LET job == jobs[slot]
      noted == [job EXCEPT !.diagnostics = Smallest({3, @ + 1})]
      article == Evaluated(slot)
  IN /\ Running(slot)
     /\ job.failures = Reessais
     /\ \/ /\ job.step = "applicability"
           /\ Becomes(slot, [job EXCEPT !.step = "extraction", !.failures = 0])
        \/ /\ job.step = "extraction"
           /\ Becomes(slot, Judged(article, [noted EXCEPT !.lacking = article.wished]))
        \/ /\ job.step = "derogation"
           /\ Becomes(slot, Done(article, noted, "manquement"))

\* The model answers on the applicability of the article.
Applicable(slot) ==
  LET job == jobs[slot]
      stays == [job EXCEPT !.step = "extraction", !.failures = 0]
  IN /\ Running(slot)
     /\ job.step = "applicability"
     /\ \E answer \in [applicable : BOOLEAN, coherent : BOOLEAN,
                       cited : {{}} \cup {{s} : s \in Sentences}] :
          Becomes(slot,
            IF Excluded(Evaluated(slot), answer) THEN OutOfScope
            ELSE IF answer.applicable /\ answer.coherent THEN stays
            ELSE [stays EXCEPT !.diagnostics = @ + 1])

\* The model answers on the elements of the article.
Extract(slot) ==
  LET job == jobs[slot]
      article == Evaluated(slot)
      elements == 1 .. (article.blocking + article.wished)
  IN /\ Running(slot)
     /\ job.step = "extraction"
     /\ \E answer \in [elements -> Answers] :
          LET kept == {e \in elements : Retained(answer[e])}
              must == 1 .. article.blocking
          IN Becomes(slot, Judged(article,
               [job EXCEPT
                  !.proved = Cardinality(kept \cap must),
                  !.lacking = Cardinality((elements \ must) \ kept),
                  !.rejected = Cardinality({e \in elements : Rejected(answer[e])}),
                  !.diagnostics = Smallest({3, @ + Cardinality(
                                     {e \in elements : Anomalous(answer[e])})})]))

\* A citation that is no string is stripped before it is refused: the exclusion
\* of an article that must be quoted, and a derogation, are looked up so.
CitationStripped(slot) ==
  \/ jobs[slot].step = "applicability" /\ Evaluated(slot).quoted
  \/ jobs[slot].step = "derogation"

\* Neither that nor "elements" that cannot be walked over is a failed call: the
\* exception leaves the evaluation of the article.
Crash(slot) ==
  /\ Running(slot)
  /\ CitationStripped(slot) \/ jobs[slot].step = "extraction"
  /\ Becomes(slot, [jobs[slot] EXCEPT !.step = "crashed"])

\* The model names a derogation of the article, another one, or none.
Derogate(slot) ==
  LET job == jobs[slot]
      article == Evaluated(slot)
      noted == [job EXCEPT !.diagnostics = Smallest({3, @ + 1})]
  IN /\ Running(slot)
     /\ job.step = "derogation"
     /\ \/ Becomes(slot, Done(article, job, "manquement"))       \* none
        \/ Becomes(slot, Done(article, noted, "manquement"))     \* unknown
        \/ \E cited \in {{}} \cup {{s} : s \in Sentences},
              effect \in (IF article.licit > 0 THEN {"conforme"} ELSE {})
                         \cup (IF article.outs > 0 THEN {"hors_perimetre"} ELSE {}) :
             Becomes(slot, IF Verified(cited, ForExclusion)
                           THEN Done(article, job, effect)
                           ELSE Done(article, noted, "manquement"))

--------------------------------------------------------------------------------
\* main: the next document of the corpus; one whose file is missing is skipped.
NextCase ==
  /\ exit = "running" /\ jobs = <<>>
  /\ case < Len(launch.cases)
  /\ case > 0 => (~Case.present \/ Len(reports[case]) = launch.repetitions)
  /\ case' = case + 1
  /\ UNCHANGED <<launch, jobs, reports, measured, exit>>

\* One more evaluation of the document, nothing remembered of the ones before.
EvaluateDocument ==
  /\ exit = "running" /\ jobs = <<>> /\ case > 0
  /\ Case.present /\ ~Case.blank
  /\ Len(reports[case]) < launch.repetitions
  /\ jobs' = [slot \in Slots |-> Fresh]
  /\ UNCHANGED <<launch, case, reports, measured, exit>>

\* "document vide": no passage can be cut out of the text, and nobody catches
\* the error.
RefuseBlank ==
  /\ exit = "running" /\ jobs = <<>> /\ case > 0
  /\ Case.present /\ Case.blank
  /\ Len(reports[case]) < launch.repetitions
  /\ exit' = "crashed"
  /\ UNCHANGED <<launch, case, jobs, reports, measured>>

\* evaluer_article_vote: the most frequent verdict, the one met first when
\* several are; without an absolute majority, the breach if one was found.
Votes(a) == [v \in 1 .. launch.votes |-> jobs[<<a, v>>].verdict]

Count(votes, verdict) == Cardinality({v \in DOMAIN votes : votes[v] = verdict})

MostCommon(votes) ==
  LET v == CHOOSE v \in DOMAIN votes :
             /\ \A w \in DOMAIN votes : Count(votes, votes[w]) <= Count(votes, votes[v])
             /\ \A w \in 1 .. (v - 1) : Count(votes, votes[w]) < Count(votes, votes[v])
  IN votes[v]

\* Variant: a plurality is enough.
ElectedPlurality(votes) == MostCommon(votes)

Elected(votes) ==
  IF /\ 2 * Count(votes, MostCommon(votes)) <= Len(votes)
     /\ "manquement" \in Range(votes)
  THEN "manquement" ELSE MostCommon(votes)

\* The first evaluation that gave the elected verdict.
Chosen(a) ==
  LET votes == Votes(a)
      first == Smallest({v \in DOMAIN votes : votes[v] = Elected(votes)})
      job == jobs[<<a, first>>]
  IN [verdict |-> job.verdict, proved |-> job.proved, review |-> job.review,
      votes |-> votes]

\* credit, in sixtieths: a breach earns the share of its blocking elements
\* that are proved, at most one half.
Credit(article, result) ==
  CASE result.verdict = "conforme" -> 60
    [] result.verdict = "manquement" ->
         Smallest({30, (60 * result.proved) \div article.blocking})
    [] OTHER -> 0

Counted(results) ==
  {a \in DOMAIN results : results[a].verdict \in {"conforme", "manquement"}}

\* A running sum over the articles of the grid.
Sum(value) ==
  LET upto[a \in 0 .. Len(launch.articles)] ==
        IF a = 0 THEN 0 ELSE upto[a - 1] + value[a]
  IN upto[Len(launch.articles)]

\* calculer_score, in tenths: the weighted mean over the articles in scope.
Score(results) ==
  LET weight == [a \in DOMAIN results |->
                   IF a \in Counted(results) THEN launch.articles[a].weight ELSE 0]
      total == Sum(weight)
      earned == Sum([a \in DOMAIN results |->
                       weight[a] * Credit(launch.articles[a], results[a])])
  IN IF total = 0 THEN 0 ELSE (2000 * earned + 60 * total) \div (120 * total)

\* comparer: the confrontation of a report with the verdicts expected of its
\* document, added to the metrics. An expected article that is not in the
\* grid is counted, and counted wrong, without any verdict.
Compared(m, truth, report) ==
  LET got == [a \in DOMAIN launch.articles |-> report.results[a].verdict]
      Known(no) == \E a \in DOMAIN got : launch.articles[a].number = no
      Got(no) == IF Known(no)
                 THEN got[CHOOSE a \in DOMAIN got : launch.articles[a].number = no]
                 ELSE "none"
      HowMany(P(_)) == Cardinality({no \in DOMAIN truth.expected : Known(no) /\ P(no)})
      breach == "manquement"
  IN [total |-> m.total + Cardinality(DOMAIN truth.expected),
      right |-> m.right + HowMany(LAMBDA no : Got(no) = truth.expected[no]),
      hits |-> m.hits + HowMany(LAMBDA no : truth.expected[no] = breach /\ Got(no) = breach),
      misses |-> m.misses + HowMany(LAMBDA no : truth.expected[no] = breach /\ Got(no) # breach),
      alarms |-> m.alarms + HowMany(LAMBDA no : truth.expected[no] # breach /\ Got(no) = breach),
      abusive |-> m.abusive + HowMany(LAMBDA no : no \in truth.never
                                                 /\ Got(no) = "hors_perimetre"),
      inside |-> m.inside + IF report.score \in truth.interval THEN 1 ELSE 0,
      documents |-> m.documents + 1]

\* Every article is judged: the report of the document is made; the first
\* report of a document is the one that is measured.
Report ==
  /\ exit = "running" /\ jobs # <<>>
  /\ \A slot \in DOMAIN jobs : jobs[slot].step = "done"
  /\ LET results == [a \in DOMAIN launch.articles |-> Chosen(a)]
         report == [results |-> results, score |-> Score(results)]
     IN /\ reports' = [reports EXCEPT ![case] = Append(@, report)]
        /\ measured' = IF Len(reports'[case]) = launch.repetitions
                       THEN Compared(measured, Case, reports'[case][1]) ELSE measured
  /\ jobs' = <<>>
  /\ UNCHANGED <<launch, case, exit>>

\* pool.map answers in order: the first article that raised lets the exception
\* out of main.  The articles not begun are cancelled; the others are waited for.
Abort ==
  /\ exit = "running" /\ jobs # <<>>
  /\ \A slot \in DOMAIN jobs : Finished(slot) \/ jobs[slot] = Fresh
  /\ \E raised \in DOMAIN jobs :
       /\ jobs[raised].step = "crashed"
       /\ \A slot \in DOMAIN jobs : slot[1] <= raised[1] => Finished(slot)
  /\ exit' = "crashed" /\ jobs' = <<>>
  /\ UNCHANGED <<launch, case, reports, measured>>

\* _repro_multi: the verdicts that changed between repetitions of a document.
Unstable ==
  {ca \in (DOMAIN reports) \X (DOMAIN launch.articles) :
     \E r, q \in DOMAIN reports[ca[1]] :
       reports[ca[1]][r].results[ca[2]].verdict # reports[ca[1]][q].results[ca[2]].verdict}

Repeated == {c \in DOMAIN reports : Len(reports[c]) >= 2}

\* Variant: the stability of the verdicts is measured and not compared.
ThresholdsMetOnce ==
  LET s == seuils(launch.referentiel)
      m == measured
  IN /\ 100 * m.hits >= s.recall * (m.hits + m.misses)
     /\ 100 * m.hits >= s.precision * (m.hits + m.alarms)
     /\ m.total > 0 /\ 100 * m.right >= s.accuracy * m.total
     /\ m.abusive <= s.abusive
     /\ m.documents - m.inside <= s.outside

\* tous_seuils_ok: a rate over nothing is perfect, an accuracy over nothing is
\* null, and stability that was not measured is granted.  (1 - 0.7 is more than
\* 0.3 to the code: where 30 % is tolerated, exactly 30 % is refused.)
ThresholdsMet ==
  LET s == seuils(launch.referentiel)
      m == measured
  IN /\ 100 * m.hits >= s.recall * (m.hits + m.misses)
     /\ 100 * m.hits >= s.precision * (m.hits + m.alarms)
     /\ m.total > 0 /\ 100 * m.right >= s.accuracy * m.total
     /\ m.abusive <= s.abusive
     /\ m.documents - m.inside <= s.outside
     /\ 100 * Cardinality(Unstable)
          <= s.unstable * Cardinality(Repeated) * Len(launch.articles)

\* main --ci: the thresholds decide the exit code.
Exit ==
  /\ exit = "running" /\ jobs = <<>>
  /\ case = Len(launch.cases)
  /\ case > 0 => (~Case.present \/ Len(reports[case]) = launch.repetitions)
  /\ exit' = IF ThresholdsMet THEN "passed" ELSE "failed"
  /\ UNCHANGED <<launch, case, jobs, reports, measured>>

Next ==
  \/ NextCase \/ EvaluateDocument \/ RefuseBlank \/ Report \/ Abort \/ Exit
  \/ \E slot \in DOMAIN jobs :
       Retry(slot) \/ GiveUp(slot) \/ Applicable(slot) \/ Extract(slot)
       \/ Crash(slot) \/ Derogate(slot)

Spec == Init /\ [][Next]_vars

\* A command that runs: every thread of its pool and main go on.
FairSpec == Spec /\ WF_vars(Next)

--------------------------------------------------------------------------------
Job == [step : {"applicability", "extraction", "derogation", "done", "crashed"},
        failures : 0 .. Reessais, diagnostics : 0 .. 3, proved : Nat, rejected : Nat,
        lacking : Nat, verdict : Verdicts \cup {"none"}, review : BOOLEAN]
Result == [verdict : Verdicts, proved : Nat, review : BOOLEAN, votes : Seq(Verdicts)]
Reports == [results : [DOMAIN launch.articles -> Result], score : 0 .. 1000]
Metrics == [total : Nat, right : Nat, hits : Nat, alarms : Nat, misses : Nat,
            abusive : Nat, inside : Nat, documents : Nat]

\* The type of the state.
TypeOK ==
  /\ launch \in Launches
  /\ case \in 0 .. Len(launch.cases)
  /\ jobs = <<>> \/ jobs \in [Slots -> Job]
  /\ \A slot \in DOMAIN jobs : jobs[slot].step = "done" => jobs[slot].verdict \in Verdicts
  /\ reports \in [1 .. Len(launch.cases) -> Seq(Reports)]
  /\ measured \in Metrics
  /\ exit \in {"running", "crashed", "passed", "failed"}

Reported == {cr \in (DOMAIN reports) \X (1 .. launch.repetitions) :
               cr[2] \in DOMAIN reports[cr[1]]}

\* Whatever the model answers, an article is declared conforme only on a
\* document that holds a sentence long enough to prove an element, or one
\* that can establish a derogation making the processing lawful.
ConformProven ==
  \A cr \in Reported : \A a \in DOMAIN launch.articles :
    LET text == launch.cases[cr[1]].text
    IN reports[cr[1]][cr[2]].results[a].verdict = "conforme" =>
         \/ "long" \in text
         \/ launch.articles[a].licit > 0 /\ text # {}

\* Silence never takes an article out of scope: on a document with nothing to
\* quote, only the articles whose exclusion needs no citation may be excluded.
ExclusionProven ==
  \A cr \in Reported : \A a \in DOMAIN launch.articles :
    /\ reports[cr[1]][cr[2]].results[a].verdict = "hors_perimetre"
    /\ launch.articles[a].quoted
    => launch.cases[cr[1]].text # {}

\* A voted verdict has the absolute majority of the evaluations, or it is the
\* breach, or no evaluation found a breach.
MajorityOrBreach ==
  \A cr \in Reported : \A a \in DOMAIN launch.articles :
    LET result == reports[cr[1]][cr[2]].results[a]
    IN \/ 2 * Count(result.votes, result.verdict) > launch.votes
       \/ result.verdict = "manquement"
       \/ "manquement" \notin Range(result.votes)

\* The obligations that are due and that one of the first n evaluations of their
\* document excluded.
DueExcluded(n) ==
  {ca \in (DOMAIN reports) \X (DOMAIN launch.articles) :
     /\ launch.articles[ca[2]].number \in launch.cases[ca[1]].never
     /\ \E r \in DOMAIN reports[ca[1]] :
          r <= n /\ reports[ca[1]][r].results[ca[2]].verdict = "hors_perimetre"}

\* How many obligations that are due a build that passes may have excluded: by
\* the first evaluations of its documents, no more than the grid allows; by all
\* of them, those and as many as the grid tolerates of unstable verdicts.
PassedIsSound ==
  exit = "passed" =>
    LET s == seuils(launch.referentiel)
    IN /\ Cardinality(DueExcluded(1)) <= s.abusive
       /\ 100 * Cardinality(DueExcluded(launch.repetitions))
            <= 100 * s.abusive + s.unstable * Cardinality(Repeated) * Len(launch.articles)

\* "les exclusions abusives (obligation reelle ecartee) sont un critere bloquant
\* distinct": refuted when a document is evaluated more than once, what the
\* later evaluations exclude is only counted among the unstable verdicts.
PassedExcludesNone ==
  exit = "passed" /\ seuils(launch.referentiel).abusive = 0
    => DueExcluded(launch.repetitions) = {}

\* The command ends, whatever the model answers and however often it fails.
Ends == <>(exit # "running")

\* "validation par un DPO requise quel que soit le verdict": refuted, an article
\* found out of scope is returned before the rule is reached.
SystematicReviewed ==
  \A cr \in Reported : \A a \in DOMAIN launch.articles :
    launch.referentiel = "rgpd" /\ launch.articles[a].number \in {"22", "35", "37"}
    => reports[cr[1]][cr[2]].results[a].review

\* "Une reponse mal formee doit etre traitee comme un echec d'etape, pas
\* planter": refuted by an answer whose list of elements is no list or whose
\* citation is no string, and by a document that is blank.
NeverCrashes == exit # "crashed"

\* Every document of the corpus is measured before a build passes: refuted, a
\* document whose file is missing is only named on the output.
PassedIsComplete == exit = "passed" => \A c \in DOMAIN reports : reports[c] # <<>>
================================================================================
