---------------------------- MODULE LaboratoryProofs ----------------------------
(***************************************************************************)
(* Proofs of the safety properties of Laboratory, for any grid and corpus, *)
(* number of votes, repetitions and retries, and answers of the model.     *)
(***************************************************************************)
EXTENDS Laboratory, TLAPS, FiniteSetTheorems, WellFoundedInduction

(***************************************************************************)
(* Numbers                                                                 *)
(***************************************************************************)
LEMMA LeastNumber ==
  ASSUME NEW S, S \subseteq Nat, S # {}
  PROVE  \E m \in S : \A k \in Nat : k < m => k \notin S
<1>1. PICK m \in S : \A k \in S : <<k, m>> \notin OpToRel(<, Nat)
  BY NatLessThanWellFounded, WFMin
<1>2. ASSUME NEW k \in Nat, k < m, k \in S PROVE FALSE
  <2>1. <<k, m>> \in OpToRel(<, Nat)
    BY <1>2 DEF OpToRel
  <2> QED
    BY <1>1, <1>2, <2>1
<1> QED
  BY <1>2

LEMMA SmallestIs ==
  ASSUME NEW S, S \subseteq Nat, S # {}
  PROVE  Smallest(S) \in S /\ \A x \in S : Smallest(S) <= x
<1>1. PICK m \in S : \A k \in Nat : k < m => k \notin S
  BY LeastNumber
<1>2. m \in S /\ \A x \in S : m =< x
  BY <1>1
<1> QED
  BY <1>2 DEF Smallest, Min

LEMMA SmallestOfTwo ==
  ASSUME NEW a \in Nat, NEW b \in Nat
  PROVE  Smallest({a, b}) \in Nat /\ Smallest({a, b}) <= a /\ Smallest({a, b}) <= b
<1>1. {a, b} \subseteq Nat /\ {a, b} # {} /\ a \in {a, b} /\ b \in {a, b}
  OBVIOUS
<1> QED
  BY <1>1, SmallestIs

(***************************************************************************)
(* The weighted mean                                                       *)
(***************************************************************************)
\* The running sums of the first articles, however many.
Sums(f, value, m) ==
  /\ f \in [0 .. m -> Nat] /\ f[0] = 0
  /\ \A a \in 1 .. m : f[a] = f[a - 1] + value[a]

LEMMA SumsExist ==
  ASSUME NEW n \in Nat, NEW value \in [1 .. n -> Nat]
  PROVE  \E f : Sums(f, value, n)
<1> DEFINE Without == {m \in 0 .. n : ~\E f : Sums(f, value, m)}
<1>1. SUFFICES ASSUME Without # {} PROVE FALSE
  OBVIOUS
<1>2. PICK m \in Without : \A k \in Nat : k < m => k \notin Without
  <2>1. Without \subseteq Nat
    OBVIOUS
  <2> HIDE DEF Without
  <2> QED
    BY <1>1, <2>1, LeastNumber
<1>3. m # 0
  <2>1. Sums([a \in 0 .. 0 |-> 0], value, 0)
    BY DEF Sums
  <2> QED
    BY <2>1
<1>4. m \in 1 .. n /\ m - 1 \in 0 .. n /\ m - 1 < m
  BY <1>3
<1>5. PICK f : Sums(f, value, m - 1)
  BY <1>2, <1>4
<1>6. value[m] \in Nat /\ f[m - 1] \in Nat
  BY <1>4, <1>5 DEF Sums
<1> DEFINE g == [a \in 0 .. m |-> IF a = m THEN f[m - 1] + value[m] ELSE f[a]]
<1>7. g \in [0 .. m -> Nat] /\ g[0] = 0
  BY <1>4, <1>5, <1>6 DEF Sums
<1>8. ASSUME NEW a \in 1 .. m PROVE g[a] = g[a - 1] + value[a]
  BY <1>4, <1>5 DEF Sums
<1> HIDE DEF g
<1>9. Sums(g, value, m)
  BY <1>7, <1>8 DEF Sums
<1> QED
  BY <1>9

LEMMA SumSums ==
  ASSUME NEW n \in Nat, n = Len(launch.articles), NEW value \in [1 .. n -> Nat]
  PROVE  \E f : Sums(f, value, n) /\ Sum(value) = f[n]
<1>1. PICK f : Sums(f, value, n)
  BY SumsExist
<1> DEFINE Step(g) == [a \in 0 .. n |-> IF a = 0 THEN 0 ELSE g[a - 1] + value[a]]
<1> DEFINE upto == CHOOSE g : g = Step(g)
<1>2. f = Step(f)
  BY <1>1 DEF Sums
<1>3. upto = Step(upto)
  <2> HIDE DEF Step
  <2> QED
    BY <1>2
<1>4. Sum(value) = upto[n]
  BY DEF Sum
<1> HIDE DEF upto
<1> DEFINE Apart == {a \in 0 .. n : upto[a] # f[a]}
<1>5. Apart = {}
  <2>1. SUFFICES ASSUME Apart # {} PROVE FALSE
    OBVIOUS
  <2>2. PICK a \in Apart : \A k \in Nat : k < a => k \notin Apart
    <3>1. Apart \subseteq Nat
      OBVIOUS
    <3> HIDE DEF Apart
    <3> QED
      BY <2>1, <3>1, LeastNumber
  <2>3. a # 0
    BY <1>1, <1>3 DEF Sums
  <2>4. a - 1 \in 0 .. n /\ a - 1 < a /\ a \in 1 .. n
    BY <2>3
  <2>5. upto[a - 1] = f[a - 1]
    BY <2>2, <2>4
  <2>6. upto[a] = upto[a - 1] + value[a]
    BY <1>3, <2>3, <2>4
  <2>7. f[a] = f[a - 1] + value[a]
    BY <1>1, <2>4 DEF Sums
  <2> QED
    BY <2>5, <2>6, <2>7
<1>6. upto[n] = f[n]
  BY <1>5
<1> QED
  BY <1>1, <1>4, <1>6

\* What is earned on each article is at most sixty sixtieths of its weight, and so
\* is what is earned in all.
LEMMA SumBounds ==
  ASSUME NEW n \in Nat, n = Len(launch.articles),
         NEW earned \in [1 .. n -> Nat], NEW weight \in [1 .. n -> Nat],
         \A a \in 1 .. n : earned[a] <= 60 * weight[a]
  PROVE  Sum(earned) \in Nat /\ Sum(weight) \in Nat /\ Sum(earned) <= 60 * Sum(weight)
<1>1. PICK f : Sums(f, earned, n) /\ Sum(earned) = f[n]
  BY SumSums
<1>2. PICK g : Sums(g, weight, n) /\ Sum(weight) = g[n]
  BY SumSums
<1>3. f \in [0 .. n -> Nat] /\ g \in [0 .. n -> Nat] /\ f[0] = 0 /\ g[0] = 0
  BY <1>1, <1>2 DEF Sums
<1> DEFINE Over == {a \in 0 .. n : f[a] > 60 * g[a]}
<1>4. Over = {}
  <2>1. SUFFICES ASSUME Over # {} PROVE FALSE
    OBVIOUS
  <2>2. PICK a \in Over : \A k \in Nat : k < a => k \notin Over
    <3>1. Over \subseteq Nat
      OBVIOUS
    <3> HIDE DEF Over
    <3> QED
      BY <2>1, <3>1, LeastNumber
  <2>3. a # 0
    BY <1>3
  <2>4. a - 1 \in 0 .. n /\ a - 1 < a /\ a \in 1 .. n
    BY <2>3
  <2>5. ~(f[a - 1] > 60 * g[a - 1])
    BY <2>2, <2>4
  <2>6. f[a] = f[a - 1] + earned[a] /\ g[a] = g[a - 1] + weight[a]
    BY <1>1, <1>2, <2>4 DEF Sums
  <2>7. f[a - 1] \in Nat /\ g[a - 1] \in Nat /\ earned[a] \in Nat /\ weight[a] \in Nat
    BY <1>3, <2>4
  <2>8. earned[a] <= 60 * weight[a]
    BY <2>4
  <2>9. ~(f[a] > 60 * g[a])
    BY <2>5, <2>6, <2>7, <2>8
  <2> QED
    BY <2>9
<1>5. n \in 0 .. n
  OBVIOUS
<1> QED
  BY <1>1, <1>2, <1>3, <1>4, <1>5

LEMMA Rounded ==
  ASSUME NEW earned \in Nat, NEW total \in Nat, total > 0, earned <= 60 * total
  PROVE  (2000 * earned + 60 * total) \div (120 * total) \in 0 .. 1000
<1>1. PICK a, b : /\ a = 2000 * earned + 60 * total /\ b = 120 * total /\ a \in Nat /\ b \in Nat
                  /\ b > 0 /\ a < 1001 * b
  OBVIOUS
<1>2. a \div b \in Nat /\ (a \div b) * b <= a
  BY <1>1
<1>3. a \div b <= 1000
  <2>1. PICK q \in Nat : q = a \div b
    BY <1>2
  <2>2. SUFFICES ASSUME q >= 1001 PROVE FALSE
    BY <2>1
  <2>3. q * b >= 1001 * b
    BY <1>1, <2>2
  <2> QED
    BY <1>1, <1>2, <2>1, <2>3
<1> QED
  BY <1>1, <1>2, <1>3

LEMMA ScoreType ==
  ASSUME TypeOK, NEW results \in [DOMAIN launch.articles -> Result]
  PROVE  Score(results) \in 0 .. 1000
<1>1. launch.articles \in Seq(Articles)
  BY LaboratoryAssumption DEF TypeOK
<1>2. PICK n \in Nat : n = Len(launch.articles) /\ DOMAIN launch.articles = 1 .. n
  BY <1>1
<1> DEFINE weight == [a \in DOMAIN results |->
                        IF a \in Counted(results) THEN launch.articles[a].weight ELSE 0]
<1> DEFINE earned == [a \in DOMAIN results |-> weight[a] * Credit(launch.articles[a], results[a])]
<1>3. ASSUME NEW a \in 1 .. n
      PROVE  /\ launch.articles[a].weight \in Nat
             /\ Credit(launch.articles[a], results[a]) \in 0 .. 60
  <2>1. launch.articles[a] \in Articles /\ results[a] \in Result
    BY <1>1, <1>2
  <2>2. PICK p \in Nat, b \in Nat \ {0} : p = results[a].proved /\ b = launch.articles[a].blocking
    BY <2>1 DEF Result, Articles
  <2>3. (60 * p) \div b \in Nat
    <3>1. PICK c \in Nat : c = 60 * p
      OBVIOUS
    <3>2. c \div b \in Nat
      OBVIOUS
    <3> QED
      BY <3>1, <3>2
  <2>4. Smallest({30, (60 * p) \div b}) \in Nat /\ Smallest({30, (60 * p) \div b}) <= 30
    BY <2>3, SmallestOfTwo
  <2>5. Credit(launch.articles[a], results[a]) \in {60, 0, Smallest({30, (60 * p) \div b})}
    BY <2>2 DEF Credit
  <2> QED
    BY <2>1, <2>4, <2>5 DEF Articles
<1>4. weight \in [1 .. n -> Nat]
  BY <1>2, <1>3
<1>5. ASSUME NEW a \in 1 .. n
      PROVE  earned[a] \in Nat /\ earned[a] <= 60 * weight[a]
  <2>1. PICK x \in Nat, c \in 0 .. 60 : x = weight[a] /\ c = Credit(launch.articles[a], results[a])
    BY <1>3, <1>4
  <2>2. x * c \in Nat /\ x * c <= 60 * x
    OBVIOUS
  <2>3. earned[a] = x * c
    BY <1>2, <2>1
  <2> QED
    BY <2>1, <2>2, <2>3
<1>6. earned \in [1 .. n -> Nat]
  BY <1>2, <1>5
<1>7. Score(results) = IF Sum(weight) = 0 THEN 0
                       ELSE (2000 * Sum(earned) + 60 * Sum(weight)) \div (120 * Sum(weight))
  BY DEF Score
<1> HIDE DEF weight, earned
<1>8. Sum(earned) \in Nat /\ Sum(weight) \in Nat /\ Sum(earned) <= 60 * Sum(weight)
  BY <1>2, <1>4, <1>5, <1>6, SumBounds
<1>9. PICK e \in Nat, t \in Nat : e = Sum(earned) /\ t = Sum(weight)
  BY <1>8
<1>10. Score(results) = IF t = 0 THEN 0 ELSE (2000 * e + 60 * t) \div (120 * t)
  BY <1>7, <1>9
<1>11. t > 0 => (2000 * e + 60 * t) \div (120 * t) \in 0 .. 1000
  <2>1. e <= 60 * t
    BY <1>8, <1>9
  <2> QED
    BY <2>1, Rounded
<1>12. CASE t = 0
  BY <1>10, <1>12
<1>13. CASE t > 0
  BY <1>10, <1>11, <1>13
<1> QED
  BY <1>12, <1>13

(***************************************************************************)
(* The vote                                                                *)
(***************************************************************************)
LEMMA CountType ==
  ASSUME NEW n \in Nat, NEW votes \in [1 .. n -> Verdicts], NEW verdict
  PROVE  Count(votes, verdict) \in 0 .. n
<1>1. {v \in DOMAIN votes : votes[v] = verdict} \subseteq 1 .. n
  OBVIOUS
<1>2. IsFiniteSet(1 .. n) /\ Cardinality(1 .. n) = n
  BY FS_Interval
<1> QED
  BY <1>1, <1>2, FS_Subset, FS_CardinalityType DEF Count

\* Some vote is for the most frequent verdict and comes before the others.
LEMMA MostCommonVoted ==
  ASSUME NEW n \in Nat \ {0}, NEW votes \in [1 .. n -> Verdicts]
  PROVE  \E v \in 1 .. n : votes[v] = MostCommon(votes)
<1> DEFINE Lack(v) == n - Count(votes, votes[v])
<1> DEFINE Lacks == {Lack(v) : v \in 1 .. n}
<1>1. \A v \in 1 .. n : Count(votes, votes[v]) \in 0 .. n
  BY CountType
<1>2. Lacks \subseteq Nat /\ Lacks # {}
  BY <1>1
<1>3. PICK l \in Lacks : \A k \in Nat : k < l => k \notin Lacks
  <2> HIDE DEF Lacks
  <2> QED
    BY <1>2, LeastNumber
<1>4. \A w \in 1 .. n : Lack(w) \in Nat /\ Lack(w) \in Lacks /\ l \in Nat /\ l <= Lack(w)
  BY <1>1, <1>2, <1>3
<1> DEFINE Best == {v \in 1 .. n : Lack(v) = l}
<1>5. Best \subseteq Nat /\ Best # {}
  BY <1>3
<1>6. PICK v \in Best : \A k \in Nat : k < v => k \notin Best
  <2> HIDE DEF Best
  <2> QED
    BY <1>5, LeastNumber
<1>7. ASSUME NEW w \in 1 .. n PROVE Count(votes, votes[w]) <= Count(votes, votes[v])
  <2>1. Lack(v) = l /\ l <= Lack(w)
    BY <1>4, <1>6
  <2> QED
    BY <1>1, <1>6, <2>1
<1>8. ASSUME NEW w \in 1 .. (v - 1) PROVE Count(votes, votes[w]) < Count(votes, votes[v])
  <2>1. w \in 1 .. n /\ w \in Nat /\ w < v
    BY <1>6
  <2>2. Lack(w) # l /\ l <= Lack(w) /\ Lack(v) = l
    BY <1>4, <1>6, <2>1
  <2> QED
    BY <1>1, <1>6, <2>1, <2>2
<1>9. /\ v \in DOMAIN votes
      /\ \A w \in DOMAIN votes : Count(votes, votes[w]) <= Count(votes, votes[v])
      /\ \A w \in 1 .. (v - 1) : Count(votes, votes[w]) < Count(votes, votes[v])
  <2>1. v \in 1 .. n /\ DOMAIN votes = 1 .. n
    BY <1>6
  <2> QED
    BY <1>7, <1>8, <2>1
<1> HIDE DEF Best
<1>10. MostCommon(votes) = votes[CHOOSE u \in DOMAIN votes :
          /\ \A w \in DOMAIN votes : Count(votes, votes[w]) <= Count(votes, votes[u])
          /\ \A w \in 1 .. (u - 1) : Count(votes, votes[w]) < Count(votes, votes[u])]
  BY DEF MostCommon
<1>11. \E u \in DOMAIN votes : votes[u] = MostCommon(votes)
  BY <1>9, <1>10
<1> QED
  BY <1>11

\* The elected verdict is that of a vote, and has the majority or is the breach
\* that no majority outvoted.
LEMMA ElectedSound ==
  ASSUME NEW n \in Nat \ {0}, NEW votes \in [1 .. n -> Verdicts]
  PROVE  /\ \E v \in 1 .. n : votes[v] = Elected(votes)
         /\ \/ 2 * Count(votes, Elected(votes)) > n
            \/ Elected(votes) = "manquement"
            \/ "manquement" \notin Range(votes)
<1>1. votes \in Seq(Verdicts) /\ Len(votes) = n /\ DOMAIN votes = 1 .. n
  OBVIOUS
<1>2. Count(votes, MostCommon(votes)) \in Nat
  BY CountType
<1>3. CASE 2 * Count(votes, MostCommon(votes)) <= Len(votes) /\ "manquement" \in Range(votes)
  <2>1. Elected(votes) = "manquement"
    BY <1>3 DEF Elected
  <2>2. \E v \in 1 .. n : votes[v] = "manquement"
    BY <1>1, <1>3 DEF Range
  <2> QED
    BY <2>1, <2>2
<1>4. CASE ~(2 * Count(votes, MostCommon(votes)) <= Len(votes) /\ "manquement" \in Range(votes))
  <2>1. Elected(votes) = MostCommon(votes)
    BY <1>4 DEF Elected
  <2>2. 2 * Count(votes, MostCommon(votes)) > n \/ "manquement" \notin Range(votes)
    BY <1>1, <1>2, <1>4
  <2> QED
    BY <2>1, <2>2, MostCommonVoted
<1> QED
  BY <1>3, <1>4

(***************************************************************************)
(* The evaluation of an article                                            *)
(***************************************************************************)
\* A verdict rests on the document: conforme on a sentence that proves an element
\* or a derogation that makes the processing lawful, out of scope on a citation
\* unless the article needs none.
Justified(article, verdict, text) ==
  /\ verdict = "conforme" => "long" \in text \/ (article.licit > 0 /\ text # {})
  /\ verdict = "hors_perimetre" /\ article.quoted => text # {}

\* What an evaluation in progress has proved, and the verdict it ends with.
Held(article, job, text) ==
  /\ job.proved # 0 => "long" \in text
  /\ job.step = "applicability" => job.diagnostics = 0
  /\ job.step = "done" => job.verdict \in Verdicts /\ Justified(article, job.verdict, text)

LEMMA JobFields ==
  ASSUME NEW job \in Job
  PROVE  /\ job.failures \in 0 .. Reessais /\ job.diagnostics \in 0 .. 3 /\ job.proved \in Nat
         /\ job.rejected \in Nat /\ job.lacking \in Nat /\ job.verdict \in Verdicts \cup {"none"}
BY DEF Job

LEMMA FreshType == Fresh \in Job /\ Fresh.step = "applicability" /\ Fresh.proved = 0
BY LaboratoryAssumption DEF Fresh, Job

LEMMA StepSet ==
  ASSUME NEW job \in Job, NEW x \in {"applicability", "extraction", "derogation", "done", "crashed"}, NEW j, j = [job EXCEPT !.step = x]
  PROVE  /\ j \in Job /\ j.step = x
         /\ j.proved = job.proved /\ j.verdict = job.verdict /\ j.diagnostics = job.diagnostics
BY DEF Job

LEMMA FailuresSet ==
  ASSUME NEW job \in Job, NEW x \in 0 .. Reessais, NEW j, j = [job EXCEPT !.failures = x]
  PROVE  /\ j \in Job /\ j.failures = x
         /\ j.step = job.step /\ j.proved = job.proved /\ j.verdict = job.verdict /\ j.diagnostics = job.diagnostics
BY DEF Job

LEMMA DiagnosticsSet ==
  ASSUME NEW job \in Job, NEW x \in 0 .. 3, NEW j, j = [job EXCEPT !.diagnostics = x]
  PROVE  /\ j \in Job /\ j.diagnostics = x
         /\ j.step = job.step /\ j.proved = job.proved /\ j.verdict = job.verdict
BY DEF Job

LEMMA LackingSet ==
  ASSUME NEW job \in Job, NEW x \in Nat, NEW j, j = [job EXCEPT !.lacking = x]
  PROVE  /\ j \in Job /\ j.lacking = x
         /\ j.step = job.step /\ j.proved = job.proved /\ j.verdict = job.verdict /\ j.diagnostics = job.diagnostics
BY DEF Job

LEMMA OneMore == ASSUME NEW k \in Nat, NEW d \in 0 .. 3 PROVE Smallest({3, d + k}) \in 0 .. 3
<1>1. d + k \in Nat
  OBVIOUS
<1> QED
  BY <1>1, SmallestOfTwo

LEMMA DoneType ==
  ASSUME NEW article, NEW job \in Job, NEW verdict \in Verdicts
  PROVE  LET j == Done(article, job, verdict) IN
         j \in Job /\ j.step = "done" /\ j.verdict = verdict /\ j.proved = job.proved
<1>1. PICK review \in BOOLEAN : review = Reviewed(article, job, verdict)
  BY DEF Reviewed
<1>2. Done(article, job, verdict) =
        [Fresh EXCEPT !.step = "done", !.verdict = verdict, !.proved = job.proved, !.review = review]
  BY <1>1 DEF Done
<1>3. job.proved \in Nat
  BY JobFields
<1> QED
  BY <1>2, <1>3, FreshType DEF Job

LEMMA DoneHeld ==
  ASSUME NEW article, NEW job \in Job, NEW verdict \in Verdicts, NEW text,
         job.proved # 0 => "long" \in text, Justified(article, verdict, text)
  PROVE  Done(article, job, verdict) \in Job /\ Held(article, Done(article, job, verdict), text)
BY DoneType DEF Held

LEMMA OutOfScopeType ==
  OutOfScope \in Job /\ OutOfScope.step = "done" /\ OutOfScope.verdict = "hors_perimetre"
  /\ OutOfScope.proved = 0
BY FreshType DEF OutOfScope, Job, Verdicts, Fresh

LEMMA JudgedHeld ==
  ASSUME NEW article \in Articles, NEW job \in Job, NEW text, job.step # "done",
         job.proved # 0 => "long" \in text
  PROVE  Judged(article, job) \in Job /\ Held(article, Judged(article, job), text)
<1>1. CASE job.proved = article.blocking /\ article.blocking > 0
  <2>1. Judged(article, job) = Done(article, job, "conforme")
    BY <1>1 DEF Judged
  <2>2. Justified(article, "conforme", text) /\ "conforme" \in Verdicts
    BY <1>1 DEF Justified, Verdicts
  <2> QED
    BY <2>1, <2>2, DoneHeld
<1>2. CASE ~(job.proved = article.blocking /\ article.blocking > 0) /\ article.licit + article.outs > 0
  <2>1. Judged(article, job) = [job EXCEPT !.step = "derogation", !.failures = 0]
    BY <1>2 DEF Judged
  <2>2. PICK x : x = [job EXCEPT !.step = "derogation"]
    OBVIOUS
  <2>3. x \in Job /\ x.step = "derogation" /\ x.proved = job.proved
    BY <2>2, StepSet
  <2>4. PICK zero \in 0 .. Reessais : zero = 0
    BY LaboratoryAssumption
  <2>5. PICK y : y = [x EXCEPT !.failures = zero]
    OBVIOUS
  <2>6. y \in Job /\ y.step = "derogation" /\ y.proved = job.proved
    BY <2>3, <2>5, FailuresSet
  <2>7. Judged(article, job) = y
    BY <2>1, <2>2, <2>4, <2>5
  <2> QED
    BY <2>6, <2>7 DEF Held
<1>3. CASE ~(job.proved = article.blocking /\ article.blocking > 0) /\ ~(article.licit + article.outs > 0)
  <2>1. Judged(article, job) = Done(article, job, "manquement")
    BY <1>3 DEF Judged
  <2>2. Justified(article, "manquement", text) /\ "manquement" \in Verdicts
    BY DEF Justified, Verdicts
  <2> QED
    BY <2>1, <2>2, DoneHeld
<1> QED
  BY <1>1, <1>2, <1>3

\* The evaluations in progress of a document.
JobsInv ==
  /\ \A slot \in DOMAIN jobs : Held(Evaluated(slot), jobs[slot], Case.text)
  /\ jobs # <<>> => case \in 1 .. Len(launch.cases)

\* An evaluation goes on with its new state.
Advances(slot, job) ==
  /\ slot \in DOMAIN jobs /\ job \in Job /\ Held(Evaluated(slot), job, Case.text)
  /\ jobs' = [jobs EXCEPT ![slot] = job]
  /\ UNCHANGED <<launch, case, reports, measured, exit>>

LEMMA SlotFacts ==
  ASSUME TypeOK, JobsInv, NEW slot, Running(slot)
  PROVE  /\ jobs \in [Slots -> Job] /\ slot \in Slots /\ slot \in DOMAIN jobs
         /\ jobs[slot] \in Job /\ jobs[slot].step # "done"
         /\ Evaluated(slot) \in Articles /\ Held(Evaluated(slot), jobs[slot], Case.text)
<1>1. slot \in DOMAIN jobs /\ ~Finished(slot)
  BY DEF Running
<1>2. jobs # <<>>
  BY <1>1
<1>3. jobs \in [Slots -> Job] /\ slot \in Slots
  BY <1>1, <1>2 DEF TypeOK
<1>4. launch.articles \in Seq(Articles)
  BY LaboratoryAssumption DEF TypeOK
<1>5. Evaluated(slot) \in Articles
  BY <1>3, <1>4 DEF Evaluated, Slots
<1> QED
  BY <1>1, <1>3, <1>5 DEF Finished, JobsInv

LEMMA RetryAdvances ==
  ASSUME TypeOK, JobsInv, NEW slot, Retry(slot)
  PROVE  \E job : Advances(slot, job)
<1>1. Running(slot) /\ jobs[slot].failures < Reessais
  BY DEF Retry
<1>2. jobs[slot].failures + 1 \in 0 .. Reessais
  BY <1>1, SlotFacts, JobFields, LaboratoryAssumption
<1>3. PICK more \in 0 .. Reessais : more = jobs[slot].failures + 1
  BY <1>2
<1>4. PICK job : job = [jobs[slot] EXCEPT !.failures = more]
  OBVIOUS
<1>5. /\ job \in Job /\ job.step = jobs[slot].step /\ job.proved = jobs[slot].proved
      /\ job.verdict = jobs[slot].verdict /\ job.diagnostics = jobs[slot].diagnostics
  <2>1. PICK now : now = jobs[slot] /\ now \in Job
    BY <1>1, SlotFacts
  <2>2. job = [now EXCEPT !.failures = more]
    BY <1>4, <2>1
  <2> QED
    BY <2>1, <2>2, FailuresSet
<1>6. Held(Evaluated(slot), job, Case.text)
  BY <1>1, <1>5, SlotFacts DEF Held
<1>7. Becomes(slot, job)
  BY <1>3, <1>4 DEF Retry
<1> QED
  BY <1>1, <1>5, <1>6, <1>7, SlotFacts DEF Advances, Becomes

\* An article is never justified as a breach: nothing has to be.
LEMMA BreachHeld ==
  ASSUME NEW article, NEW job \in Job, NEW text, job.proved # 0 => "long" \in text
  PROVE  /\ Done(article, job, "manquement") \in Job
         /\ Held(article, Done(article, job, "manquement"), text)
<1>1. Justified(article, "manquement", text) /\ "manquement" \in Verdicts
  BY DEF Justified, Verdicts
<1> QED
  BY <1>1, DoneHeld

LEMMA NotedType ==
  ASSUME NEW job \in Job, NEW noted, noted = [job EXCEPT !.diagnostics = Smallest({3, job.diagnostics + 1})]
  PROVE  noted \in Job /\ noted.step = job.step /\ noted.proved = job.proved
<1>1. PICK d \in 0 .. 3 : d = Smallest({3, job.diagnostics + 1})
  BY JobFields, OneMore
<1>2. noted = [job EXCEPT !.diagnostics = d]
  BY <1>1
<1> QED
  BY <1>2, DiagnosticsSet

\* An evaluation that starts its extraction, with whatever diagnostics.
LEMMA StaysType ==
  ASSUME NEW job \in Job, NEW stays, stays = [job EXCEPT !.step = "extraction", !.failures = 0]
  PROVE  /\ stays \in Job /\ stays.step = "extraction"
         /\ stays.proved = job.proved /\ stays.diagnostics = job.diagnostics
<1>1. PICK x : x = [job EXCEPT !.step = "extraction"]
  OBVIOUS
<1>2. x \in Job /\ x.step = "extraction" /\ x.proved = job.proved /\ x.diagnostics = job.diagnostics
  BY <1>1, StepSet
<1>3. PICK zero \in 0 .. Reessais : zero = 0
  BY LaboratoryAssumption
<1>4. PICK y : y = [x EXCEPT !.failures = zero]
  OBVIOUS
<1>5. y \in Job /\ y.step = x.step /\ y.proved = x.proved /\ y.diagnostics = x.diagnostics
  BY <1>2, <1>4, FailuresSet
<1>6. stays = y
  BY <1>1, <1>3, <1>4
<1> QED
  BY <1>2, <1>5, <1>6

LEMMA GiveUpAdvances ==
  ASSUME TypeOK, JobsInv, NEW slot, GiveUp(slot)
  PROVE  \E job : Advances(slot, job)
<1>1. Running(slot)
  BY DEF GiveUp
<1> DEFINE now == jobs[slot]
<1>2. now \in Job /\ Held(Evaluated(slot), now, Case.text) /\ Evaluated(slot) \in Articles /\ now.step # "done"
  BY <1>1, SlotFacts
<1>3. PICK noted : noted = [now EXCEPT !.diagnostics = Smallest({3, now.diagnostics + 1})]
  OBVIOUS
<1>4. noted \in Job /\ noted.step = now.step /\ noted.proved = now.proved
  BY <1>2, <1>3, NotedType
<1>5. CASE now.step = "applicability"
  <2>1. PICK stays : stays = [now EXCEPT !.step = "extraction", !.failures = 0]
    OBVIOUS
  <2>2. stays \in Job /\ stays.step = "extraction" /\ stays.proved = now.proved
    BY <1>2, <2>1, StaysType
  <2>3. Becomes(slot, stays)
    BY <1>5, <2>1 DEF GiveUp
  <2>4. Held(Evaluated(slot), stays, Case.text)
    BY <1>2, <2>2 DEF Held
  <2> QED
    BY <1>1, <2>2, <2>3, <2>4, SlotFacts DEF Advances, Becomes
<1>6. CASE now.step = "extraction"
  <2>1. PICK wished \in Nat : wished = Evaluated(slot).wished
    BY <1>2 DEF Articles
  <2>2. PICK x : x = [noted EXCEPT !.lacking = wished]
    OBVIOUS
  <2>3. x \in Job /\ x.step # "done" /\ x.proved = now.proved
    BY <1>2, <1>4, <2>2, LackingSet
  <2>4. PICK job : job = Judged(Evaluated(slot), x)
    OBVIOUS
  <2>5. job \in Job /\ Held(Evaluated(slot), job, Case.text)
    BY <1>2, <2>3, <2>4, JudgedHeld DEF Held
  <2>6. Becomes(slot, job)
    BY <1>3, <1>6, <2>1, <2>2, <2>4 DEF GiveUp
  <2> QED
    BY <1>1, <2>5, <2>6, SlotFacts DEF Advances, Becomes
<1>7. CASE now.step = "derogation"
  <2>1. PICK job : job = Done(Evaluated(slot), noted, "manquement")
    OBVIOUS
  <2>2. job \in Job /\ Held(Evaluated(slot), job, Case.text)
    BY <1>2, <1>4, <2>1, BreachHeld DEF Held
  <2>3. Becomes(slot, job)
    BY <1>3, <1>7, <2>1 DEF GiveUp
  <2> QED
    BY <1>1, <2>2, <2>3, SlotFacts DEF Advances, Becomes
<1> QED
  BY <1>5, <1>6, <1>7 DEF GiveUp

LEMMA CitedText ==
  ASSUME NEW cited, NEW enough, Verified(cited, enough)
  PROVE  Case.text # {} /\ \E s \in enough : s \in Case.text
BY DEF Verified

LEMMA ApplicableAdvances ==
  ASSUME TypeOK, JobsInv, NEW slot, Applicable(slot)
  PROVE  \E job : Advances(slot, job)
<1>1. Running(slot)
  BY DEF Applicable
<1> DEFINE now == jobs[slot]
<1>2. now \in Job /\ Held(Evaluated(slot), now, Case.text) /\ Evaluated(slot) \in Articles
  BY <1>1, SlotFacts
<1>3. now.step = "applicability" /\ now.diagnostics = 0
  BY <1>2 DEF Applicable, Held
<1>4. PICK stays : stays = [now EXCEPT !.step = "extraction", !.failures = 0]
  OBVIOUS
<1>5. /\ stays \in Job /\ stays.step = "extraction" /\ stays.proved = now.proved
      /\ stays.diagnostics = now.diagnostics
  BY <1>2, <1>4, StaysType
<1>6. PICK noted : noted = [stays EXCEPT !.diagnostics = stays.diagnostics + 1]
  OBVIOUS
<1>7. noted \in Job /\ noted.step = "extraction" /\ noted.proved = now.proved
  <2>1. PICK one \in 0 .. 3 : one = stays.diagnostics + 1
    BY <1>3, <1>5
  <2>2. noted = [stays EXCEPT !.diagnostics = one]
    BY <1>6, <2>1
  <2> QED
    BY <1>5, <2>2, DiagnosticsSet
<1>8. ASSUME NEW answer, Excluded(Evaluated(slot), answer)
      PROVE  Evaluated(slot).quoted => Case.text # {}
  BY <1>8, CitedText DEF Excluded
<1>9. PICK job : /\ Becomes(slot, job)
                 /\ \/ job = OutOfScope /\ (Evaluated(slot).quoted => Case.text # {})
                    \/ job = stays \/ job = noted
  BY <1>4, <1>6, <1>8 DEF Applicable
<1>10. job \in Job /\ Held(Evaluated(slot), job, Case.text)
  <2>1. CASE job = OutOfScope /\ (Evaluated(slot).quoted => Case.text # {})
    BY <2>1, OutOfScopeType DEF Held, Justified, Verdicts
  <2>2. CASE job = stays \/ job = noted
    BY <1>2, <1>5, <1>7, <2>2 DEF Held
  <2> QED
    BY <1>9, <2>1, <2>2
<1> QED
  BY <1>1, <1>9, <1>10, SlotFacts DEF Advances, Becomes

\* What an answer proves of the elements: nothing on a document without a long sentence.
LEMMA ExtractedHeld ==
  ASSUME NEW blocking \in Nat, NEW elements, elements \subseteq Nat, NEW answer,
         NEW kept, kept = {e \in elements : Retained(answer[e])}
  PROVE  /\ Cardinality(kept \cap (1 .. blocking)) \in Nat
         /\ Cardinality(kept \cap (1 .. blocking)) # 0 => "long" \in Case.text
<1>1. IsFiniteSet(kept \cap (1 .. blocking))
  <2>1. IsFiniteSet(1 .. blocking)
    BY FS_Interval
  <2>2. kept \cap (1 .. blocking) \subseteq 1 .. blocking
    OBVIOUS
  <2> QED
    BY <2>1, <2>2, FS_Subset
<1>2. ASSUME NEW e \in kept PROVE "long" \in Case.text
  <2>1. Verified(answer[e].cited, ForConformity)
    BY DEF Retained
  <2> QED
    BY <2>1, CitedText DEF ForConformity
<1>3. kept \cap (1 .. blocking) = {} => Cardinality(kept \cap (1 .. blocking)) = 0
  BY FS_EmptySet
<1> QED
  BY <1>1, <1>2, <1>3, FS_CardinalityType

LEMMA ExtractAdvances ==
  ASSUME TypeOK, JobsInv, NEW slot, Extract(slot)
  PROVE  \E job : Advances(slot, job)
<1>1. Running(slot)
  BY DEF Extract
<1> DEFINE now == jobs[slot]
<1> DEFINE article == Evaluated(slot)
<1> DEFINE elements == 1 .. (article.blocking + article.wished)
<1> DEFINE must == 1 .. article.blocking
<1>2. /\ now \in Job /\ Held(article, now, Case.text) /\ article \in Articles
      /\ now.step = "extraction" /\ article.blocking \in Nat /\ article.wished \in Nat
  BY <1>1, SlotFacts DEF Extract, Articles
<1>3. PICK answer : Becomes(slot, Judged(article,
        [now EXCEPT
           !.proved = Cardinality({e \in elements : Retained(answer[e])} \cap must),
           !.lacking = Cardinality((elements \ must) \ {e \in elements : Retained(answer[e])}),
           !.rejected = Cardinality({e \in elements : Rejected(answer[e])}),
           !.diagnostics = Smallest({3, now.diagnostics + Cardinality(
                              {e \in elements : Anomalous(answer[e])})})]))
  BY DEF Extract
<1>4. elements \subseteq Nat /\ IsFiniteSet(elements)
  <2>1. PICK many \in Nat : many = article.blocking + article.wished
    BY <1>2
  <2>2. IsFiniteSet(1 .. many)
    BY FS_Interval
  <2> QED
    BY <2>1, <2>2
<1> HIDE DEF elements
<1> DEFINE kept == {e \in elements : Retained(answer[e])}
<1> DEFINE wrong == {e \in elements : Rejected(answer[e])}
<1> DEFINE odd == {e \in elements : Anomalous(answer[e])}
<1>5. PICK p \in Nat : p = Cardinality(kept \cap must) /\ (p # 0 => "long" \in Case.text)
  BY <1>2, <1>4, ExtractedHeld
<1>6. PICK l \in Nat : l = Cardinality((elements \ must) \ kept)
  <2>1. IsFiniteSet((elements \ must) \ kept)
    BY <1>4, FS_Subset
  <2> QED
    BY <2>1, FS_CardinalityType
<1>7. PICK r \in Nat : r = Cardinality(wrong)
  <2>1. IsFiniteSet(wrong)
    BY <1>4, FS_Subset
  <2> QED
    BY <2>1, FS_CardinalityType
<1>8. PICK d \in 0 .. 3 : d = Smallest({3, now.diagnostics + Cardinality(odd)})
  <2>1. IsFiniteSet(odd)
    BY <1>4, FS_Subset
  <2>2. Cardinality(odd) \in Nat
    BY <2>1, FS_CardinalityType
  <2>3. now.diagnostics \in 0 .. 3
    BY <1>2, JobFields
  <2> HIDE DEF odd
  <2> QED
    BY <2>2, <2>3, OneMore
<1>9. PICK x : x = [now EXCEPT !.proved = p, !.lacking = l, !.rejected = r, !.diagnostics = d]
  OBVIOUS
<1>10. x \in Job /\ x.proved = p /\ x.step = now.step
  BY <1>2, <1>9 DEF Job
<1>11. PICK job : job = Judged(article, x)
  OBVIOUS
<1>12. job \in Job /\ Held(article, job, Case.text)
  <2>1. x.step # "done" /\ (x.proved # 0 => "long" \in Case.text)
    BY <1>2, <1>5, <1>10
  <2> QED
    BY <1>2, <1>10, <1>11, <2>1, JudgedHeld
<1>13. Becomes(slot, job)
  BY <1>3, <1>5, <1>6, <1>7, <1>8, <1>9, <1>11
<1> QED
  BY <1>1, <1>12, <1>13, SlotFacts DEF Advances, Becomes

LEMMA CrashAdvances ==
  ASSUME TypeOK, JobsInv, NEW slot, Crash(slot)
  PROVE  \E job : Advances(slot, job)
<1>1. Running(slot)
  BY DEF Crash
<1>2. PICK now : now = jobs[slot] /\ now \in Job /\ Held(Evaluated(slot), now, Case.text)
  BY <1>1, SlotFacts
<1>3. PICK job : job = [now EXCEPT !.step = "crashed"]
  OBVIOUS
<1>4. job \in Job /\ job.step = "crashed" /\ job.proved = now.proved
  BY <1>2, <1>3, StepSet
<1>5. Held(Evaluated(slot), job, Case.text) /\ Becomes(slot, job)
  BY <1>2, <1>3, <1>4 DEF Held, Crash
<1> QED
  BY <1>1, <1>4, <1>5, SlotFacts DEF Advances, Becomes

LEMMA DerogateAdvances ==
  ASSUME TypeOK, JobsInv, NEW slot, Derogate(slot)
  PROVE  \E job : Advances(slot, job)
<1>1. Running(slot)
  BY DEF Derogate
<1> DEFINE now == jobs[slot]
<1> DEFINE article == Evaluated(slot)
<1>2. now \in Job /\ Held(article, now, Case.text) /\ article \in Articles
  BY <1>1, SlotFacts
<1>3. PICK noted : noted = [now EXCEPT !.diagnostics = Smallest({3, now.diagnostics + 1})]
  OBVIOUS
<1>4. noted \in Job /\ noted.proved = now.proved
  BY <1>2, <1>3, NotedType
<1>5. now.proved # 0 => "long" \in Case.text
  BY <1>2 DEF Held
<1>6. ASSUME NEW cited, Verified(cited, ForExclusion),
             NEW effect \in (IF article.licit > 0 THEN {"conforme"} ELSE {})
                            \cup (IF article.outs > 0 THEN {"hors_perimetre"} ELSE {})
      PROVE  effect \in Verdicts /\ Justified(article, effect, Case.text)
  <2>1. Case.text # {}
    BY <1>6, CitedText
  <2>2. effect = "hors_perimetre" \/ (effect = "conforme" /\ article.licit > 0)
    BY <1>6
  <2> QED
    BY <2>1, <2>2 DEF Justified, Verdicts
<1>7. PICK job : /\ Becomes(slot, job)
                 /\ \/ job = Done(article, now, "manquement") \/ job = Done(article, noted, "manquement")
                    \/ \E effect \in Verdicts : /\ Justified(article, effect, Case.text)
                                                /\ job = Done(article, now, effect)
  BY <1>3, <1>6 DEF Derogate
<1>8. job \in Job /\ Held(article, job, Case.text)
  BY <1>2, <1>4, <1>5, <1>7, BreachHeld, DoneHeld
<1> QED
  BY <1>1, <1>7, <1>8, SlotFacts DEF Advances, Becomes

LEMMA SlotAdvances ==
  ASSUME TypeOK, JobsInv, NEW slot \in DOMAIN jobs,
         \/ Retry(slot) \/ GiveUp(slot) \/ Applicable(slot) \/ Extract(slot)
         \/ Crash(slot) \/ Derogate(slot)
  PROVE  \E job : Advances(slot, job)
BY RetryAdvances, GiveUpAdvances, ApplicableAdvances, ExtractAdvances, CrashAdvances, DerogateAdvances

(***************************************************************************)
(* The reports                                                             *)
(***************************************************************************)
\* The result of an article: justified by the document, and voted.
Voted(result) ==
  \/ 2 * Count(result.votes, result.verdict) > launch.votes
  \/ result.verdict = "manquement"
  \/ "manquement" \notin Range(result.votes)
ReportsInv ==
  \A c \in DOMAIN reports : \A r \in DOMAIN reports[c] : \A a \in DOMAIN launch.articles :
    /\ Justified(launch.articles[a], reports[c][r].results[a].verdict, launch.cases[c].text)
    /\ Voted(reports[c][r].results[a])

LEMMA LaunchFacts ==
  ASSUME TypeOK
  PROVE  /\ launch.articles \in Seq(Articles) /\ DOMAIN launch.articles = 1 .. Len(launch.articles)
         /\ launch.votes \in Nat \ {0} /\ Len(launch.cases) \in Nat /\ Len(launch.articles) \in Nat
BY LaboratoryAssumption DEF TypeOK

\* What the votes of a judged document choose for an article.
LEMMA ChosenSound ==
  ASSUME TypeOK, JobsInv, jobs # <<>>, \A slot \in DOMAIN jobs : jobs[slot].step = "done",
         NEW a \in DOMAIN launch.articles
  PROVE  /\ Chosen(a) \in Result /\ Voted(Chosen(a))
         /\ Justified(launch.articles[a], Chosen(a).verdict, Case.text)
<1>1. jobs \in [Slots -> Job] /\ DOMAIN jobs = Slots
  BY DEF TypeOK
<1>2. PICK n \in Nat \ {0} : n = launch.votes
  BY LaunchFacts
<1>3. ASSUME NEW v \in 1 .. n
      PROVE  /\ <<a, v>> \in Slots /\ jobs[<<a, v>>] \in Job /\ jobs[<<a, v>>].verdict \in Verdicts
             /\ Held(launch.articles[a], jobs[<<a, v>>], Case.text) /\ jobs[<<a, v>>].step = "done"
  <2>1. <<a, v>> \in Slots
    BY <1>2, LaunchFacts DEF Slots
  <2>2. Evaluated(<<a, v>>) = launch.articles[a]
    BY DEF Evaluated
  <2> QED
    BY <1>1, <2>1, <2>2 DEF JobsInv, TypeOK
<1>4. PICK votes : votes = Votes(a)
  OBVIOUS
<1>5. votes \in [1 .. n -> Verdicts] /\ \A v \in 1 .. n : votes[v] = jobs[<<a, v>>].verdict
  BY <1>2, <1>3, <1>4 DEF Votes
<1>6. votes \in Seq(Verdicts)
  BY <1>5
<1>7. PICK first \in 1 .. n : first = Smallest({v \in DOMAIN votes : votes[v] = Elected(votes)})
                              /\ votes[first] = Elected(votes)
  <2>1. \E v \in 1 .. n : votes[v] = Elected(votes)
    BY <1>5, ElectedSound
  <2>2. PICK S : S = {v \in DOMAIN votes : votes[v] = Elected(votes)}
    OBVIOUS
  <2>3. S \subseteq Nat /\ S # {} /\ S \subseteq 1 .. n /\ \A v \in S : votes[v] = Elected(votes)
    BY <1>5, <2>1, <2>2
  <2>4. Smallest(S) \in S
    BY <2>3, SmallestIs
  <2> QED
    BY <2>2, <2>3, <2>4
<1>8. PICK job : job = jobs[<<a, first>>]
  OBVIOUS
<1>9. /\ job \in Job /\ job.verdict \in Verdicts /\ job.verdict = Elected(votes)
      /\ Held(launch.articles[a], job, Case.text) /\ job.step = "done"
  BY <1>3, <1>5, <1>7, <1>8
<1>10. Chosen(a) = [verdict |-> job.verdict, proved |-> job.proved, review |-> job.review, votes |-> votes]
  BY <1>4, <1>7, <1>8 DEF Chosen
<1>11. Chosen(a) \in Result /\ Chosen(a).verdict = job.verdict /\ Chosen(a).votes = votes
  BY <1>6, <1>9, <1>10 DEF Result, Job
<1>12. Voted(Chosen(a))
  BY <1>2, <1>5, <1>9, <1>11, ElectedSound DEF Voted
<1> QED
  BY <1>9, <1>11, <1>12 DEF Held

\* The report of a document, appended to those it has.
LEMMA ReportAppends ==
  ASSUME TypeOK, JobsInv, Report
  PROVE  \E report \in Reports :
           /\ case \in 1 .. Len(launch.cases)
           /\ reports' = [reports EXCEPT ![case] = Append(reports[case], report)]
           /\ \A a \in DOMAIN launch.articles :
                 /\ Justified(launch.articles[a], report.results[a].verdict, Case.text)
                 /\ Voted(report.results[a])
<1>1. jobs # <<>> /\ \A slot \in DOMAIN jobs : jobs[slot].step = "done"
  BY DEF Report
<1>2. PICK results : results = [a \in DOMAIN launch.articles |-> Chosen(a)]
  OBVIOUS
<1>3. ASSUME NEW a \in DOMAIN launch.articles
      PROVE  /\ results[a] \in Result /\ Voted(results[a])
             /\ Justified(launch.articles[a], results[a].verdict, Case.text)
  BY <1>1, <1>2, ChosenSound
<1>4. results \in [DOMAIN launch.articles -> Result]
  BY <1>2, <1>3
<1>5. PICK score \in 0 .. 1000 : score = Score(results)
  BY <1>4, ScoreType
<1>6. PICK report : report = [results |-> results, score |-> score]
  OBVIOUS
<1>7. report \in Reports /\ report.results = results
  BY <1>4, <1>6 DEF Reports
<1>8. reports' = [reports EXCEPT ![case] = Append(reports[case], report)]
  BY <1>2, <1>5, <1>6 DEF Report
<1>9. case \in 1 .. Len(launch.cases)
  BY <1>1 DEF JobsInv
<1> QED
  BY <1>3, <1>7, <1>8, <1>9

\* comparer adds natural numbers to the metrics.
LEMMA ComparedType ==
  ASSUME launch \in Launches, NEW c \in 1 .. Len(launch.cases), NEW m \in Metrics, NEW report
  PROVE  Compared(m, launch.cases[c], report) \in Metrics
<1> DEFINE truth == launch.cases[c]
<1>1. ASSUME NEW S, S \subseteq DOMAIN truth.expected PROVE IsFiniteSet(S) /\ Cardinality(S) \in Nat
  BY <1>1, CorpusAssumption, FS_Subset, FS_CardinalityType
<1>2. ASSUME NEW S \in SUBSET DOMAIN truth.expected PROVE Cardinality(S) \in Nat
  BY <1>1, <1>2
<1>3. m.total \in Nat /\ m.right \in Nat /\ m.hits \in Nat /\ m.alarms \in Nat /\ m.misses \in Nat
      /\ m.abusive \in Nat /\ m.inside \in Nat /\ m.documents \in Nat
  BY DEF Metrics
<1>4. \E total, right, hits, misses, alarms, abusive \in SUBSET DOMAIN truth.expected, inside \in {0, 1} :
        Compared(m, truth, report) =
          [total |-> m.total + Cardinality(total), right |-> m.right + Cardinality(right),
           hits |-> m.hits + Cardinality(hits), misses |-> m.misses + Cardinality(misses),
           alarms |-> m.alarms + Cardinality(alarms), abusive |-> m.abusive + Cardinality(abusive),
           inside |-> m.inside + inside, documents |-> m.documents + 1]
  <2> DEFINE got == [a \in DOMAIN launch.articles |-> report.results[a].verdict]
             Known(no) == \E a \in DOMAIN got : launch.articles[a].number = no
             Got(no) == IF Known(no)
                        THEN got[CHOOSE a \in DOMAIN got : launch.articles[a].number = no]
                        ELSE "none"
             breach == "manquement"
             right == {no \in DOMAIN truth.expected : Known(no) /\ Got(no) = truth.expected[no]}
             hits == {no \in DOMAIN truth.expected : Known(no) /\ (truth.expected[no] = breach /\ Got(no) = breach)}
             misses == {no \in DOMAIN truth.expected : Known(no) /\ (truth.expected[no] = breach /\ Got(no) # breach)}
             alarms == {no \in DOMAIN truth.expected : Known(no) /\ (truth.expected[no] # breach /\ Got(no) = breach)}
             abusive == {no \in DOMAIN truth.expected :
                           Known(no) /\ (no \in truth.never /\ Got(no) = "hors_perimetre")}
             inside == IF report.score \in truth.interval THEN 1 ELSE 0
  <2>1. Compared(m, truth, report) =
          [total |-> m.total + Cardinality(DOMAIN truth.expected), right |-> m.right + Cardinality(right),
           hits |-> m.hits + Cardinality(hits), misses |-> m.misses + Cardinality(misses),
           alarms |-> m.alarms + Cardinality(alarms), abusive |-> m.abusive + Cardinality(abusive),
           inside |-> m.inside + inside, documents |-> m.documents + 1]
    BY DEF Compared
  <2>2. /\ DOMAIN truth.expected \in SUBSET DOMAIN truth.expected
        /\ right \in SUBSET DOMAIN truth.expected /\ hits \in SUBSET DOMAIN truth.expected
        /\ misses \in SUBSET DOMAIN truth.expected /\ alarms \in SUBSET DOMAIN truth.expected
        /\ abusive \in SUBSET DOMAIN truth.expected /\ inside \in {0, 1}
    OBVIOUS
  <2> HIDE DEF truth, right, hits, misses, alarms, abusive, inside
  <2> QED
    BY <2>1, <2>2
<1> HIDE DEF truth
<1>5. PICK total, right, hits, misses, alarms, abusive \in SUBSET DOMAIN truth.expected, inside \in {0, 1} :
        Compared(m, truth, report) =
          [total |-> m.total + Cardinality(total), right |-> m.right + Cardinality(right),
           hits |-> m.hits + Cardinality(hits), misses |-> m.misses + Cardinality(misses),
           alarms |-> m.alarms + Cardinality(alarms), abusive |-> m.abusive + Cardinality(abusive),
           inside |-> m.inside + inside, documents |-> m.documents + 1]
  BY <1>4
<1>6. PICK t, r, h, n, a, x \in Nat :
        /\ t = Cardinality(total) /\ r = Cardinality(right) /\ h = Cardinality(hits)
        /\ n = Cardinality(misses) /\ a = Cardinality(alarms) /\ x = Cardinality(abusive)
  BY <1>2
<1>7. /\ m.total + t \in Nat /\ m.right + r \in Nat /\ m.hits + h \in Nat /\ m.misses + n \in Nat
      /\ m.alarms + a \in Nat /\ m.abusive + x \in Nat /\ m.inside + inside \in Nat
      /\ m.documents + 1 \in Nat
  <2>1. \A p, q \in Nat : p + q \in Nat
    OBVIOUS
  <2>2. inside \in Nat /\ 1 \in Nat
    OBVIOUS
  <2> QED
    BY <1>3, <2>1, <2>2
<1>8. Compared(m, truth, report) \in Metrics
  BY <1>5, <1>6, <1>7 DEF Metrics
<1> QED
  BY <1>8 DEF truth

(***************************************************************************)
(* The theorems                                                            *)
(***************************************************************************)
Invs == TypeOK /\ JobsInv /\ ReportsInv

LEMMA InvsInit == Init => Invs
<1>1. SUFFICES ASSUME Init PROVE Invs
  OBVIOUS
<1>2. launch \in Launches /\ case = 0 /\ jobs = <<>> /\ exit = "running" /\ measured = Unmeasured
  BY <1>1 DEF Init
<1>3. reports = [c \in 1 .. Len(launch.cases) |-> <<>>] /\ Len(launch.cases) \in Nat
  BY <1>1, LaboratoryAssumption DEF Init
<1>4. reports \in [1 .. Len(launch.cases) -> Seq(Reports)]
  BY <1>3
<1>5. DOMAIN jobs = {}
  BY <1>2
<1>6. TypeOK
  <2>1. Unmeasured \in Metrics
    BY DEF Unmeasured, Metrics
  <2> QED
    BY <1>2, <1>3, <1>4, <1>5, <2>1 DEF TypeOK
<1>7. JobsInv
  BY <1>2, <1>5 DEF JobsInv
<1>8. ReportsInv
  BY <1>3 DEF ReportsInv
<1> QED
  BY <1>6, <1>7, <1>8 DEF Invs

\* What only depends on the reports and the command.
LEMMA ReportsKept == ReportsInv /\ reports' = reports /\ launch' = launch => ReportsInv'
BY DEF ReportsInv, Voted, Justified

LEMMA AdvanceStep ==
  ASSUME Invs, NEW slot, NEW job, Advances(slot, job)
  PROVE  Invs'
<1>1. /\ slot \in DOMAIN jobs /\ job \in Job /\ Held(Evaluated(slot), job, Case.text)
      /\ jobs' = [jobs EXCEPT ![slot] = job]
      /\ UNCHANGED <<launch, case, reports, measured, exit>>
  BY DEF Advances
<1>2. jobs # <<>>
  BY <1>1
<1>3. jobs \in [Slots -> Job]
  BY <1>2 DEF Invs, TypeOK
<1>4. jobs' \in [Slots -> Job] /\ DOMAIN jobs' = DOMAIN jobs
  BY <1>1, <1>3
<1>5. Slots' = Slots
  BY <1>1 DEF Slots
<1>6. ASSUME NEW s \in DOMAIN jobs' PROVE Held(Evaluated(s)', jobs'[s], Case.text')
  <2>1. Evaluated(s)' = Evaluated(s) /\ Case.text' = Case.text
    BY <1>1 DEF Evaluated, Case
  <2>2. Held(Evaluated(s), jobs'[s], Case.text)
    BY <1>1, <1>4, <1>6 DEF Invs, JobsInv
  <2> QED
    BY <2>1, <2>2
<1>7. \A s \in DOMAIN jobs' : jobs'[s].step = "done" => jobs'[s].verdict \in Verdicts
  BY <1>6 DEF Held
<1>8. case' \in 1 .. Len(launch'.cases)
  BY <1>1, <1>2 DEF Invs, JobsInv
<1>9. JobsInv'
  BY <1>6, <1>8 DEF JobsInv, Held, Justified
<1>10. Reports' = Reports
  BY <1>1 DEF Reports
<1>11. TypeOK'
  BY <1>1, <1>4, <1>5, <1>7, <1>10 DEF Invs, TypeOK
<1> QED
  BY <1>1, <1>9, <1>11, ReportsKept DEF Invs

LEMMA ReportStep ==
  ASSUME Invs, Report
  PROVE  Invs'
<1>1. PICK report \in Reports :
        /\ case \in 1 .. Len(launch.cases)
        /\ reports' = [reports EXCEPT ![case] = Append(reports[case], report)]
        /\ \A a \in DOMAIN launch.articles :
              /\ Justified(launch.articles[a], report.results[a].verdict, Case.text)
              /\ Voted(report.results[a])
  BY ReportAppends DEF Invs
<1>2. UNCHANGED <<launch, case, exit>> /\ jobs' = <<>>
  BY DEF Report
<1>3. reports \in [1 .. Len(launch.cases) -> Seq(Reports)] /\ reports[case] \in Seq(Reports)
  BY <1>1 DEF Invs, TypeOK
<1>4. reports' \in [1 .. Len(launch.cases) -> Seq(Reports)]
  BY <1>1, <1>3
<1>5. Reports' = Reports
  BY <1>2 DEF Reports
<1>6. measured' \in Metrics
  <2>1. CASE measured' = measured
    BY <2>1 DEF Invs, TypeOK
  <2>2. CASE measured' # measured
    <3>1. PICK got : measured' = Compared(measured, launch.cases[case], got)
      BY <2>2 DEF Report, Case
    <3> QED
      BY <1>1, <3>1, ComparedType DEF Invs, TypeOK
  <2> QED
    BY <2>1, <2>2
<1>7. DOMAIN jobs' = {}
  BY <1>2
<1>8. TypeOK'
  BY <1>2, <1>4, <1>5, <1>6, <1>7 DEF Invs, TypeOK
<1>9. JobsInv'
  BY <1>2, <1>7 DEF JobsInv
<1>10. ReportsInv'
  <2>1. SUFFICES ASSUME NEW c \in DOMAIN reports', NEW r \in DOMAIN reports'[c], NEW a \in DOMAIN launch.articles
                 PROVE  /\ Justified(launch.articles[a], reports'[c][r].results[a].verdict, launch.cases[c].text)
                        /\ Voted(reports'[c][r].results[a])
    BY <1>2 DEF ReportsInv, Voted, Justified
  <2>2. CASE c = case /\ r = Len(reports[case]) + 1
    <3>1. reports'[c][r] = report
      BY <1>1, <1>3, <2>2
    <3> QED
      BY <1>1, <2>2, <3>1 DEF Case
  <2>3. CASE ~(c = case /\ r = Len(reports[case]) + 1)
    <3>1. c \in DOMAIN reports /\ r \in DOMAIN reports[c] /\ reports'[c][r] = reports[c][r]
      BY <1>1, <1>3, <2>3
    <3> QED
      BY <3>1 DEF Invs, ReportsInv
  <2> QED
    BY <2>2, <2>3
<1> QED
  BY <1>8, <1>9, <1>10 DEF Invs

LEMMA MainStep ==
  ASSUME Invs, NextCase \/ EvaluateDocument \/ RefuseBlank \/ Abort \/ Exit
  PROVE  Invs'
<1>1. UNCHANGED <<launch, reports, measured>>
  BY DEF NextCase, EvaluateDocument, RefuseBlank, Abort, Exit
<1>2. ReportsInv'
  BY <1>1, ReportsKept DEF Invs
<1>3. /\ Len(launch.cases) \in Nat /\ Slots' = Slots /\ Reports' = Reports
      /\ case' \in 0 .. Len(launch.cases) /\ exit' \in {"running", "crashed", "passed", "failed"}
  BY <1>1, LaunchFacts DEF Invs, TypeOK, Slots, Reports, NextCase, EvaluateDocument, RefuseBlank, Abort,
                               Exit
<1>4. CASE EvaluateDocument
  <2>1. jobs' = [slot \in Slots |-> Fresh] /\ case > 0 /\ case' = case
    BY <1>4 DEF EvaluateDocument
  <2>2. jobs' \in [Slots -> Job]
    BY <2>1, FreshType
  <2>3. \A slot \in DOMAIN jobs' : jobs'[slot] = Fresh
    BY <2>1
  <2>4. TypeOK'
    BY <1>1, <1>3, <2>2, <2>3, FreshType DEF Invs, TypeOK
  <2>5. case' \in 1 .. Len(launch'.cases)
    BY <1>1, <1>3, <2>1
  <2>6. JobsInv'
    BY <2>3, <2>5 DEF JobsInv, Held, Fresh
  <2> QED
    BY <1>2, <2>4, <2>6 DEF Invs
<1>5. CASE NextCase \/ RefuseBlank \/ Abort \/ Exit
  <2>1. jobs' = <<>> /\ DOMAIN jobs' = {}
    BY <1>5 DEF NextCase, RefuseBlank, Abort, Exit
  <2>2. TypeOK'
    BY <1>1, <1>3, <2>1 DEF Invs, TypeOK
  <2>3. JobsInv'
    BY <2>1 DEF JobsInv
  <2> QED
    BY <1>2, <2>2, <2>3 DEF Invs
<1> QED
  BY <1>4, <1>5

LEMMA InvsStep == Invs /\ [Next]_vars => Invs'
<1>1. SUFFICES ASSUME Invs, [Next]_vars PROVE Invs'
  OBVIOUS
<1>2. CASE NextCase \/ EvaluateDocument \/ RefuseBlank \/ Abort \/ Exit
  BY <1>1, <1>2, MainStep
<1>3. CASE Report
  BY <1>1, <1>3, ReportStep
<1>4. CASE \E slot \in DOMAIN jobs :
             Retry(slot) \/ GiveUp(slot) \/ Applicable(slot) \/ Extract(slot)
             \/ Crash(slot) \/ Derogate(slot)
  <2>1. PICK slot, job : Advances(slot, job)
    BY <1>1, <1>4, SlotAdvances DEF Invs
  <2> QED
    BY <1>1, <2>1, AdvanceStep
<1>5. CASE UNCHANGED vars
  <2>1. UNCHANGED <<launch, case, jobs, reports, measured, exit>>
    BY <1>5 DEF vars
  <2>2. TypeOK'
    BY <1>1, <2>1 DEF Invs, TypeOK, Slots, Reports
  <2>3. JobsInv'
    BY <1>1, <2>1 DEF Invs, JobsInv, Held, Justified, Evaluated, Case
  <2>4. ReportsInv'
    BY <1>1, <2>1, ReportsKept DEF Invs
  <2> QED
    BY <2>2, <2>3, <2>4 DEF Invs
<1> QED
  BY <1>1, <1>2, <1>3, <1>4, <1>5 DEF Next

LEMMA InvsCorrect == Spec => []Invs
BY InvsInit, InvsStep, PTL DEF Spec

\* The state has its types: what an evaluation holds, verdicts where one is due,
\* and scores between 0 and 100, the weighted mean of credits rounded.
THEOREM TypeCorrect == Spec => []TypeOK
<1>1. Invs => TypeOK
  BY DEF Invs
<1> QED
  BY <1>1, InvsCorrect, PTL

\* ConformProven: nothing a model says makes an article conforme on a document that
\* holds no sentence which proves an element or a lawful derogation.
THEOREM ConformIsProven == Spec => []ConformProven
<1>1. Invs => ConformProven
  BY DEF Invs, ReportsInv, Justified, ConformProven, Reported
<1> QED
  BY <1>1, InvsCorrect, PTL

\* ExclusionProven: silence takes no article out of scope whose exclusion must be
\* quoted, whether the applicability or a derogation was asked about.
THEOREM ExclusionIsProven == Spec => []ExclusionProven
<1>1. Invs => ExclusionProven
  BY DEF Invs, ReportsInv, Justified, ExclusionProven, Reported
<1> QED
  BY <1>1, InvsCorrect, PTL

\* MajorityOrBreach: for any number of votes, even or odd, a verdict without the
\* absolute majority is the breach, or no vote found one.
THEOREM VotedOrBreach == Spec => []MajorityOrBreach
<1>1. Invs => MajorityOrBreach
  BY DEF Invs, ReportsInv, Voted, MajorityOrBreach, Reported
<1> QED
  BY <1>1, InvsCorrect, PTL

(***************************************************************************)
(* The exit code                                                           *)
(***************************************************************************)
\* The articles a report excludes among those the document makes due.
Dropped(c, results) ==
  {a \in DOMAIN launch.articles :
     launch.articles[a].number \in launch.cases[c].never /\ results[a].verdict = "hors_perimetre"}

\* It counts every due article that the report excludes.
LEMMA ComparedAbusive ==
  ASSUME TypeOK, NEW c \in 1 .. Len(launch.cases), NEW m \in Metrics, NEW report \in Reports
  PROVE  /\ IsFiniteSet(Dropped(c, report.results))
         /\ m.abusive + Cardinality(Dropped(c, report.results)) <= Compared(m, launch.cases[c], report).abusive
<1> DEFINE truth == launch.cases[c]
           got == [a \in DOMAIN launch.articles |-> report.results[a].verdict]
           Known(no) == \E a \in DOMAIN got : launch.articles[a].number = no
           Got(no) == IF Known(no)
                      THEN got[CHOOSE a \in DOMAIN got : launch.articles[a].number = no]
                      ELSE "none"
           Nos == {no \in DOMAIN truth.expected :
                     Known(no) /\ (no \in truth.never /\ Got(no) = "hors_perimetre")}
           D == Dropped(c, report.results)
<1>1. Compared(m, truth, report).abusive = m.abusive + Cardinality(Nos)
  BY DEF Compared
<1>2. IsFiniteSet(DOMAIN truth.expected) /\ truth.never \subseteq DOMAIN truth.expected
  BY CorpusAssumption DEF TypeOK
<1>3. IsFiniteSet(Nos) /\ Cardinality(Nos) \in Nat
  BY <1>2, FS_Subset, FS_CardinalityType
<1>4. ASSUME NEW a \in D PROVE launch.articles[a].number \in Nos
  <2>1. a \in DOMAIN got /\ Known(launch.articles[a].number)
    BY <1>4 DEF Dropped
  <2>2. a = CHOOSE b \in DOMAIN got : launch.articles[b].number = launch.articles[a].number
    BY <2>1, CorpusAssumption DEF TypeOK
  <2>3. Got(launch.articles[a].number) = "hors_perimetre"
    BY <1>4, <2>1, <2>2 DEF Dropped
  <2> QED
    BY <1>2, <1>4, <2>1, <2>3 DEF Dropped
<1>5. PICK f : f = [a \in D |-> launch.articles[a].number]
  OBVIOUS
<1>6. \A a, b \in D : launch.articles[a].number = launch.articles[b].number => a = b
  BY CorpusAssumption DEF TypeOK, Dropped
<1> HIDE DEF Nos, D
<1>7. f \in Injection(D, Nos)
  BY <1>4, <1>5, <1>6 DEF Injection, IsInjective
<1>8. IsFiniteSet(D) /\ Cardinality(D) <= Cardinality(Nos) /\ Cardinality(D) \in Nat
  BY <1>3, <1>7, FS_Injection, FS_CardinalityType
<1>9. m.abusive \in Nat
  BY DEF Metrics
<1> QED
  BY <1>1, <1>3, <1>8, <1>9 DEF D, truth

\* The documents that have all their reports, and what they excluded abusively.
Whole == {c \in DOMAIN reports : reports[c] # <<>> /\ Len(reports[c]) = launch.repetitions}
Abusive == {ca \in Whole \X DOMAIN launch.articles : ca[2] \in Dropped(ca[1], reports[ca[1]][1].results)}

\* A document other than the one being measured has all its reports or none, and
\* the metrics count every abusive exclusion of the first ones.
MeasureInv ==
  /\ \A c \in DOMAIN reports :
       reports[c] = <<>> \/ c \in Whole \/ (c = case /\ launch.cases[c].present)
  /\ jobs # <<>> => Case.present /\ Len(reports[case]) < launch.repetitions
  /\ Cardinality(Abusive) <= measured.abusive

LEMMA AbusiveFinite ==
  ASSUME TypeOK
  PROVE  /\ IsFiniteSet(DOMAIN reports) /\ IsFiniteSet(Whole)
         /\ IsFiniteSet((DOMAIN reports) \X (DOMAIN launch.articles))
         /\ IsFiniteSet(Abusive) /\ Cardinality(Abusive) \in Nat
<1>1. IsFiniteSet(DOMAIN reports) /\ IsFiniteSet(DOMAIN launch.articles)
  <2>1. DOMAIN reports = 1 .. Len(launch.cases) /\ DOMAIN launch.articles = 1 .. Len(launch.articles)
    BY LaunchFacts DEF TypeOK
  <2>2. Len(launch.cases) \in Int /\ Len(launch.articles) \in Int /\ 1 \in Int
    BY LaunchFacts
  <2> QED
    BY <2>1, <2>2, FS_Interval
<1>2. IsFiniteSet((DOMAIN reports) \X (DOMAIN launch.articles))
  BY <1>1, FS_Product
<1>3. Whole \subseteq DOMAIN reports /\ Abusive \subseteq (DOMAIN reports) \X (DOMAIN launch.articles)
  BY DEF Whole, Abusive
<1> QED
  BY <1>1, <1>2, <1>3, FS_Subset, FS_CardinalityType

LEMMA MeasureInit == Init => MeasureInv
<1>1. SUFFICES ASSUME Init PROVE MeasureInv
  OBVIOUS
<1>2. \A c \in DOMAIN reports : reports[c] = <<>>
  BY <1>1 DEF Init
<1>3. Abusive = {}
  BY <1>2 DEF Abusive, Whole
<1>4. measured.abusive = 0 /\ jobs = <<>>
  BY <1>1 DEF Init, Unmeasured
<1> QED
  BY <1>2, <1>3, <1>4, FS_EmptySet DEF MeasureInv

\* Nothing but a report touches the reports and the metrics.
LEMMA MeasureKept ==
  ASSUME UNCHANGED <<launch, reports, measured>>
  PROVE  Whole' = Whole /\ Abusive' = Abusive /\ measured'.abusive = measured.abusive
BY DEF Whole, Abusive, Dropped

\* The report that completes a document is added with what its first one dropped.
LEMMA MeasureReport ==
  ASSUME TypeOK, TypeOK', JobsInv, MeasureInv, Report
  PROVE  MeasureInv'
<1>1. /\ jobs # <<>> /\ case \in 1 .. Len(launch.cases) /\ Case = launch.cases[case]
      /\ UNCHANGED <<launch, case, exit>> /\ jobs' = <<>>
  BY DEF Report, JobsInv, Case
<1>2. PICK report \in Reports : reports' = [reports EXCEPT ![case] = Append(reports[case], report)]
  BY ReportAppends
<1>3. reports \in [1 .. Len(launch.cases) -> Seq(Reports)]
  BY DEF TypeOK
<1>4. PICK before \in Seq(Reports) : before = reports[case]
  BY <1>1, <1>3
<1>5. PICK after \in Seq(Reports) : after = Append(before, report) /\ after = reports'[case]
  <2>1. reports'[case] = Append(before, report)
    BY <1>1, <1>2, <1>3, <1>4
  <2>2. Append(before, report) \in Seq(Reports)
    OBVIOUS
  <2> QED
    BY <2>1, <2>2
<1>6. /\ Len(after) = Len(before) + 1 /\ after # <<>> /\ after[1] \in Reports
      /\ Len(before) < launch.repetitions /\ launch.repetitions \in Nat
  <2>1. launch.repetitions \in Nat
    BY LaboratoryAssumption DEF TypeOK
  <2>2. Len(before) < launch.repetitions
    BY <1>1, <1>4 DEF MeasureInv
  <2>3. Len(after) = Len(before) + 1 /\ Len(before) \in Nat
    <3>1. Len(Append(before, report)) = Len(before) + 1 /\ Len(before) \in Nat
      OBVIOUS
    <3>2. after = Append(before, report)
      BY <1>5
    <3> QED
      BY <3>1, <3>2
  <2>4. 1 \in 1 .. Len(after) /\ after # <<>>
    BY <2>3
  <2>5. after[1] \in Reports
    BY <2>4
  <2> QED
    BY <2>1, <2>2, <2>3, <2>4, <2>5
<1>7. DOMAIN reports' = DOMAIN reports /\ case \in DOMAIN reports
      /\ \A c \in DOMAIN reports : c # case => reports'[c] = reports[c]
  BY <1>1, <1>2, <1>3
<1>8. case \notin Whole /\ \A c \in DOMAIN reports : c # case => (c \in Whole' <=> c \in Whole)
  BY <1>1, <1>4, <1>6, <1>7 DEF Whole
<1>9. \A c \in DOMAIN reports' :
        reports'[c] = <<>> \/ c \in Whole' \/ (c = case' /\ launch'.cases[c].present)
  BY <1>1, <1>7, <1>8 DEF MeasureInv
<1>10. ASSUME NEW c, NEW a, c # case
       PROVE  <<c, a>> \in Abusive' <=> <<c, a>> \in Abusive
  BY <1>1, <1>7, <1>8, <1>10 DEF Abusive, Dropped, Whole
<1>11. CASE Len(after) # launch.repetitions
  <2>1. case \notin Whole'
    BY <1>1, <1>5, <1>11 DEF Whole
  <2>2. Abusive' \subseteq Abusive
    BY <1>8, <1>10, <2>1 DEF Abusive
  <2>3. measured' = measured
    BY <1>1, <1>5, <1>11 DEF Report
  <2>4. IsFiniteSet(Abusive) /\ Cardinality(Abusive) \in Nat
    BY AbusiveFinite
  <2>5. Cardinality(Abusive') <= Cardinality(Abusive) /\ Cardinality(Abusive') \in Nat
    BY <2>2, <2>4, FS_Subset, FS_CardinalityType
  <2>6. measured.abusive \in Nat
    BY DEF TypeOK, Metrics
  <2> QED
    BY <1>1, <1>9, <2>3, <2>4, <2>5, <2>6 DEF MeasureInv
<1>12. CASE Len(after) = launch.repetitions
  <2>1. measured' = Compared(measured, launch.cases[case], after[1])
    BY <1>1, <1>5, <1>12 DEF Report
  <2> DEFINE D == Dropped(case, after[1].results)
             New == {case} \X D
  <2>2. IsFiniteSet(D) /\ measured.abusive + Cardinality(D) <= measured'.abusive
    BY <1>1, <1>6, <2>1, ComparedAbusive DEF TypeOK
  <2>3. IsFiniteSet(New) /\ Cardinality(New) = Cardinality(D) /\ Cardinality(D) \in Nat
    <3>1. IsFiniteSet({case}) /\ Cardinality({case}) = 1
      BY FS_Singleton
    <3>2. Cardinality(D) \in Nat
      BY <2>2, FS_CardinalityType
    <3> HIDE DEF D
    <3> QED
      BY <2>2, <3>1, <3>2, FS_Product
  <2>4. Abusive' \subseteq Abusive \cup New
    BY <1>1, <1>5, <1>10 DEF Abusive, Dropped
  <2>5. Cardinality(Abusive') <= Cardinality(Abusive) + Cardinality(New)
    <3> HIDE DEF New
    <3>1. IsFiniteSet(Abusive \cup New) /\ Cardinality(Abusive \cap New) \in Nat
          /\ Cardinality(Abusive \cup New) = Cardinality(Abusive) + Cardinality(New) - Cardinality(Abusive \cap New)
      BY <2>3, AbusiveFinite, FS_Union, FS_Intersection, FS_CardinalityType
    <3>2. Cardinality(Abusive') <= Cardinality(Abusive \cup New)
      BY <2>4, <3>1, FS_Subset
    <3>3. Cardinality(New) \in Nat /\ Cardinality(Abusive) \in Nat /\ Cardinality(Abusive') \in Nat
          /\ Cardinality(Abusive \cup New) \in Nat
      BY <2>3, <2>4, <3>1, AbusiveFinite, FS_Subset, FS_CardinalityType
    <3> QED
      BY <3>1, <3>2, <3>3
  <2>6. measured.abusive \in Nat /\ measured'.abusive \in Nat /\ Cardinality(Abusive') \in Nat
        /\ Cardinality(Abusive) \in Nat
    <3>1. Abusive' \subseteq Abusive \cup New /\ IsFiniteSet(Abusive \cup New)
      BY <2>3, <2>4, AbusiveFinite, FS_Union
    <3> QED
      BY <3>1, AbusiveFinite, FS_Subset, FS_CardinalityType DEF TypeOK, Metrics
  <2>7. Cardinality(Abusive) <= measured.abusive
    BY DEF MeasureInv
  <2>8. Cardinality(Abusive') <= measured'.abusive
    <3> HIDE DEF D, New
    <3> QED
      BY <2>2, <2>3, <2>5, <2>6, <2>7
  <2> QED
    BY <1>1, <1>9, <2>8 DEF MeasureInv
<1> QED
  BY <1>11, <1>12

LEMMA MeasureStep ==
  ASSUME Invs, Invs', MeasureInv, [Next]_vars
  PROVE  MeasureInv'
<1>1. CASE Report
  BY <1>1, MeasureReport DEF Invs
<1>2. ASSUME UNCHANGED <<launch, reports, measured>>, case' = case,
             jobs' = <<>> \/ jobs # <<>> \/ (Case.present /\ Len(reports[case]) < launch.repetitions)
      PROVE  MeasureInv'
  BY <1>2, MeasureKept DEF MeasureInv, Case
<1>3. CASE NextCase
  <2>1. UNCHANGED <<launch, reports, measured, jobs>> /\ jobs = <<>>
    BY <1>3 DEF NextCase
  <2>2. \A c \in DOMAIN reports : reports[c] = <<>> \/ c \in Whole
    BY <1>3 DEF NextCase, MeasureInv, Case, Whole, Invs, TypeOK
  <2> QED
    BY <2>1, <2>2, MeasureKept DEF MeasureInv
<1>4. CASE EvaluateDocument \/ RefuseBlank \/ Abort \/ Exit \/ UNCHANGED vars
  BY <1>2, <1>4 DEF EvaluateDocument, RefuseBlank, Abort, Exit, vars
<1>5. CASE \E slot \in DOMAIN jobs :
             Retry(slot) \/ GiveUp(slot) \/ Applicable(slot) \/ Extract(slot)
             \/ Crash(slot) \/ Derogate(slot)
  <2>1. PICK slot, job : Advances(slot, job)
    BY <1>5, SlotAdvances DEF Invs
  <2>2. jobs # <<>> /\ UNCHANGED <<launch, case, reports, measured>>
    BY <2>1 DEF Advances
  <2> QED
    BY <1>2, <2>2
<1> QED
  BY <1>1, <1>3, <1>4, <1>5 DEF Next

LEMMA Thresholds ==
  ASSUME launch \in Launches
  PROVE  /\ seuils(launch.referentiel).abusive \in Nat
         /\ seuils(launch.referentiel).unstable \in Nat
BY CorpusAssumption DEF seuils

LEMMA PassedExit ==
  ASSUME Invs, MeasureInv, Exit
  PROVE  PassedIsSound'
<1> DEFINE s == seuils(launch.referentiel)
           first == DueExcluded(1)
           all == DueExcluded(launch.repetitions)
           rate == s.unstable * Cardinality(Repeated) * Len(launch.articles)
<1>1. UNCHANGED <<launch, reports, measured>>
  BY DEF Exit
<1>2. SUFFICES ASSUME ThresholdsMet
               PROVE  /\ Cardinality(first) <= s.abusive
                      /\ 100 * Cardinality(all) <= 100 * s.abusive + rate
  BY <1>1 DEF Exit, PassedIsSound, DueExcluded, Repeated
<1>3. TypeOK /\ \A c \in DOMAIN reports : reports[c] \in Seq(Reports)
  BY DEF Invs, TypeOK
<1>4. first = Abusive
  <2>1. ASSUME NEW c \in DOMAIN reports
        PROVE  /\ \A r \in DOMAIN reports[c] : r <= 1 => r = 1
               /\ reports[c] # <<>> <=> 1 \in DOMAIN reports[c]
    BY <1>3
  <2>2. Whole = {c \in DOMAIN reports : reports[c] # <<>>}
    BY <1>3 DEF Exit, MeasureInv, Whole, Case, TypeOK
  <2> QED
    BY <2>1, <2>2 DEF DueExcluded, Abusive, Dropped
<1>5. Cardinality(first) <= s.abusive /\ IsFiniteSet(first) /\ Cardinality(first) \in Nat
      /\ s.abusive \in Nat
  <2>1. Cardinality(Abusive) <= measured.abusive /\ measured.abusive <= s.abusive
    BY <1>2 DEF MeasureInv, ThresholdsMet
  <2>2. Cardinality(Abusive) \in Nat /\ measured.abusive \in Nat /\ s.abusive \in Nat
        /\ IsFiniteSet(Abusive)
    BY <1>3, AbusiveFinite, Thresholds, FS_CardinalityType DEF TypeOK, Metrics
  <2> HIDE DEF s, first
  <2> QED
    BY <1>4, <2>1, <2>2
<1>6. all \subseteq first \cup Unstable
  <2>1. SUFFICES ASSUME NEW ca \in all, ca \notin first PROVE ca \in Unstable
    OBVIOUS
  <2>2. ca \in (DOMAIN reports) \X (DOMAIN launch.articles)
    BY <2>1 DEF DueExcluded
  <2>3. PICK r \in DOMAIN reports[ca[1]] : reports[ca[1]][r].results[ca[2]].verdict = "hors_perimetre"
    BY <2>1 DEF DueExcluded
  <2>4. 1 \in DOMAIN reports[ca[1]]
    BY <1>3, <2>2, <2>3
  <2>5. reports[ca[1]][1].results[ca[2]].verdict # "hors_perimetre"
    BY <2>1, <2>2, <2>4 DEF DueExcluded
  <2> QED
    BY <2>2, <2>3, <2>4, <2>5 DEF Unstable
<1>7. IsFiniteSet(Unstable) /\ Cardinality(Unstable) \in Nat
  BY <1>3, AbusiveFinite, FS_Subset, FS_CardinalityType DEF Unstable
<1>8. 100 * Cardinality(Unstable) <= rate
  BY <1>2 DEF ThresholdsMet
<1>9. Cardinality(all) \in Nat /\ Cardinality(all) <= Cardinality(first) + Cardinality(Unstable)
  <2> HIDE DEF first, all
  <2>1. IsFiniteSet(first \cup Unstable)
        /\ Cardinality(first \cup Unstable)
             = Cardinality(first) + Cardinality(Unstable) - Cardinality(first \cap Unstable)
    BY <1>5, <1>7, FS_Union
  <2>2. Cardinality(first \cap Unstable) \in Nat
    BY <1>5, FS_Intersection, FS_CardinalityType
  <2>3. Cardinality(all) \in Nat /\ Cardinality(all) <= Cardinality(first \cup Unstable)
    BY <1>6, <2>1, FS_Subset, FS_CardinalityType
  <2> QED
    BY <1>5, <1>7, <2>1, <2>2, <2>3
<1>10. rate \in Nat
  <2>1. IsFiniteSet(Repeated)
    BY <1>3, AbusiveFinite, FS_Subset DEF Repeated
  <2>2. Cardinality(Repeated) \in Nat /\ s.unstable \in Nat /\ Len(launch.articles) \in Nat
    BY <1>3, <2>1, FS_CardinalityType, Thresholds, LaunchFacts DEF TypeOK
  <2> HIDE DEF s
  <2> QED
    BY <2>2
<1> HIDE DEF s, first, all, rate
<1>11. 100 * Cardinality(all) <= 100 * s.abusive + rate
  BY <1>5, <1>7, <1>8, <1>9, <1>10
<1> QED
  BY <1>5, <1>11

\* PassedIsSound: whatever the corpus, the grid and the repetitions, a build that
\* passes has excluded due obligations, in all the evaluations of its documents, only
\* within the tolerance of abusive exclusions and of unstable verdicts.
THEOREM PassIsSound == Spec => []PassedIsSound
<1>1. Init => MeasureInv /\ PassedIsSound
  <2>1. Init => PassedIsSound
    BY DEF Init, PassedIsSound
  <2> QED
    BY <2>1, MeasureInit
<1>2. Invs /\ Invs' /\ MeasureInv /\ PassedIsSound /\ [Next]_vars => MeasureInv' /\ PassedIsSound'
  <2>1. SUFFICES ASSUME Invs, Invs', MeasureInv, PassedIsSound, [Next]_vars PROVE PassedIsSound'
    BY MeasureStep
  <2>2. CASE Exit
    BY <2>1, <2>2, PassedExit
  <2>3. CASE UNCHANGED vars
    <3>1. UNCHANGED <<launch, reports, exit>>
      BY <2>3 DEF vars
    <3> QED
      BY <2>1, <3>1 DEF PassedIsSound, DueExcluded, Repeated
  <2>4. CASE exit' # "passed"
    BY <2>4 DEF PassedIsSound
  <2>5. CASE exit = "running" /\ exit' = exit
    BY <2>5 DEF PassedIsSound
  <2> QED
    BY <2>1, <2>2, <2>3, <2>4, <2>5
    DEF Next, NextCase, EvaluateDocument, RefuseBlank, Report, Abort, Retry, GiveUp, Applicable,
        Extract, Crash, Derogate, Running, Becomes
<1> QED
  BY <1>1, <1>2, InvsCorrect, PTL DEF Spec
===============================================================================
