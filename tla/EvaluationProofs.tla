---------------------------- MODULE EvaluationProofs ----------------------------
(***************************************************************************)
(* Proofs of the safety properties of Evaluation, for any requirements and *)
(* dependencies, threads, breaker threshold and answers of the model, and, *)
(* at the end, of Eligibility, which decides what an analysis leaves out,  *)
(* for any questionnaires and any number of answers given at once.         *)
(***************************************************************************)
EXTENDS Evaluation, TLAPS, FiniteSetTheorems, WellFoundedInduction

(***************************************************************************)
(* The vote                                                                *)
(***************************************************************************)
Holders(avis, c) == {i \in DOMAIN avis : avis[i].conforme = c}

LEMMA VotesType ==
  ASSUME NEW avis \in Seq(Answer), NEW c
  PROVE  /\ IsFiniteSet(Holders(avis, c))
         /\ Votes(avis, c) = Cardinality(Holders(avis, c)) /\ Votes(avis, c) \in Nat
<1>1. DOMAIN avis = 1..Len(avis) /\ Len(avis) \in Nat
  OBVIOUS
<1>2. IsFiniteSet(1..Len(avis))
  BY <1>1, FS_Interval
<1>3. IsFiniteSet(Holders(avis, c))
  BY <1>1, <1>2, FS_Subset DEF Holders
<1>4. Votes(avis, c) = Cardinality(Holders(avis, c))
  BY DEF Votes, Holders
<1> QED
  BY <1>3, <1>4, FS_CardinalityType

\* Two values of conformity cannot each have more than half of the opinions: the
\* vote does not depend on the value that is looked at first.
THEOREM MajorityUnique ==
  ASSUME NEW avis \in Seq(Answer), NEW c, NEW d, Agree(avis, c), Agree(avis, d)
  PROVE  c = d
<1>1. SUFFICES ASSUME c # d PROVE FALSE
  OBVIOUS
<1> DEFINE C == Holders(avis, c)
<1> DEFINE D == Holders(avis, d)
<1>2. IsFiniteSet(C) /\ IsFiniteSet(D) /\ Cardinality(C) \in Nat /\ Cardinality(D) \in Nat
  BY VotesType
<1>3. 2 * Cardinality(C) > Len(avis) /\ 2 * Cardinality(D) > Len(avis)
  BY VotesType DEF Agree
<1>4. C \cap D = {}
  BY <1>1 DEF Holders
<1>5. C \cup D \subseteq 1..Len(avis) /\ Len(avis) \in Nat
  BY DEF Holders
<1>6. IsFiniteSet(1..Len(avis)) /\ Cardinality(1..Len(avis)) = Len(avis)
  BY <1>5, FS_Interval
<1>7. Cardinality(C \cup D) <= Len(avis)
  BY <1>5, <1>6, FS_Subset
<1>8. Cardinality(C \cup D) = Cardinality(C) + Cardinality(D)
  <2>1. Cardinality(C \cup D) = Cardinality(C) + Cardinality(D) - Cardinality(C \cap D)
    BY <1>2, FS_Union
  <2>2. Cardinality(C \cap D) = 0
    BY <1>4, FS_EmptySet
  <2> HIDE DEF C, D
  <2> QED
    BY <1>2, <2>1, <2>2
<1> HIDE DEF C, D
<1> QED
  BY <1>2, <1>3, <1>5, <1>7, <1>8

\* The first opinion that carries a value is one of the opinions, if any does.
LEMMA FirstHolder ==
  ASSUME NEW avis \in Seq(Answer), NEW c, Holders(avis, c) # {}
  PROVE  \E i \in DOMAIN avis : avis[i].conforme = c /\ \A j \in 1..i - 1 : avis[j].conforme # c
<1>1. Holders(avis, c) \subseteq Nat /\ Holders(avis, c) \subseteq 1..Len(avis) /\ Len(avis) \in Nat
  BY DEF Holders
<1>2. PICK i \in Holders(avis, c) : \A j \in Holders(avis, c) : <<j, i>> \notin OpToRel(<, Nat)
  BY <1>1, NatLessThanWellFounded, WFMin
<1>3. ASSUME NEW j \in 1..i - 1, avis[j].conforme = c PROVE FALSE
  <2>1. i \in 1..Len(avis)
    BY <1>1
  <2>2. j \in 1..Len(avis) /\ j < i /\ j \in Nat /\ i \in Nat
    BY <1>1, <2>1
  <2>3. j \in Holders(avis, c)
    BY <1>3, <2>2 DEF Holders
  <2>4. <<j, i>> \in OpToRel(<, Nat)
    BY <2>2 DEF OpToRel
  <2> QED
    BY <1>2, <2>3, <2>4
<1> QED
  BY <1>3 DEF Holders

LEMMA FoundType == ASSUME NEW proof \in Proof PROVE Found(proof) \in BOOLEAN
BY DEF Found, Proof

\* The check of a citation leaves no conformity without one.
LEMMA CheckedAnswer ==
  ASSUME NEW a \in Answer
  PROVE  /\ Checked(a) \in Answer /\ Undetermined(a) \in Answer
         /\ Undetermined(a).conforme = "indetermine"
         /\ Conformant(Checked(a).conforme) => Found(Checked(a).proof)
<1>1. /\ Undetermined(a) \in Answer /\ Undetermined(a).conforme = "indetermine"
  BY DEF Undetermined, Answer, Conformities, Confidences, Severities
<1>2. CASE Conformant(a.conforme) /\ ~Found(a.proof)
  BY <1>1, <1>2 DEF Checked, Conformant
<1>3. CASE ~(Conformant(a.conforme) /\ ~Found(a.proof))
  BY <1>1, <1>3 DEF Checked
<1> QED
  BY <1>2, <1>3

\* What may be published: a conformity of the model has its citation, and
\* without a majority the requirement is undetermined.
Sound(v) ==
  /\ v \in Verdict
  /\ v.source = "llm" /\ Conformant(v.conforme) => v.verified
  /\ v.agreed \/ v.conforme = "indetermine"

LEMMA FromModelSound ==
  ASSUME NEW a \in Answer, NEW agreed \in BOOLEAN,
         Conformant(a.conforme) => Found(a.proof), agreed \/ a.conforme = "indetermine"
  PROVE  Sound(FromModel(a, agreed))
<1>1. Found(a.proof) \in BOOLEAN /\ (a.proof.sentences # <<>>) \in BOOLEAN
  BY FoundType DEF Answer
<1>2. PICK quoted \in BOOLEAN, verified \in BOOLEAN :
        quoted = (a.proof.sentences # <<>>) /\ verified = Found(a.proof)
  BY <1>1
<1>3. FromModel(a, agreed) =
        [source |-> "llm", conforme |-> a.conforme, severite |-> a.severite, quoted |-> quoted,
         verified |-> verified, confiance |-> a.confiance, agreed |-> agreed]
  BY <1>2 DEF FromModel
<1>4. FromModel(a, agreed) \in Verdict
  BY <1>3 DEF Verdict, Answer
<1> QED
  BY <1>2, <1>3, <1>4 DEF Sound

LEMMA VoteSound ==
  ASSUME NEW avis \in Seq(Answer), avis # <<>>
  PROVE  Sound(Majority(avis))
<1>1. CASE \E c \in Conformities : Agree(avis, c)
  <2> DEFINE c == CHOOSE v \in Conformities : Agree(avis, v)
  <2> DEFINE first == CHOOSE i \in DOMAIN avis :
                        avis[i].conforme = c /\ \A j \in 1..i - 1 : avis[j].conforme # c
  <2>1. Agree(avis, c)
    BY <1>1
  <2>2. Majority(avis) = FromModel(Checked(avis[first]), TRUE)
    BY <1>1 DEF Majority
  <2> HIDE DEF c
  <2>3. Holders(avis, c) # {}
    <3>1. SUFFICES ASSUME Holders(avis, c) = {} PROVE FALSE
      OBVIOUS
    <3>2. Votes(avis, c) = 0
      BY <3>1, VotesType, FS_EmptySet
    <3> QED
      BY <2>1, <3>2 DEF Agree
  <2>4. first \in DOMAIN avis
    BY <2>3, FirstHolder
  <2>5. avis[first] \in Answer
    BY <2>4
  <2> HIDE DEF first
  <2> DEFINE a == Checked(avis[first])
  <2>6. PICK yes \in BOOLEAN : yes = TRUE
    OBVIOUS
  <2>7. a \in Answer /\ (Conformant(a.conforme) => Found(a.proof))
    BY <2>5, CheckedAnswer
  <2>8. Majority(avis) = FromModel(a, yes)
    BY <2>2, <2>6
  <2> HIDE DEF a
  <2>9. Sound(FromModel(a, yes))
    BY <2>6, <2>7, FromModelSound
  <2> QED
    BY <2>8, <2>9
<1>2. CASE ~\E c \in Conformities : Agree(avis, c)
  <2>1. Majority(avis) = FromModel(Undetermined(avis[1]), FALSE)
    BY <1>2 DEF Majority
  <2>2. avis[1] \in Answer
    OBVIOUS
  <2> DEFINE a == Undetermined(avis[1])
  <2>3. PICK no \in BOOLEAN : no = FALSE
    OBVIOUS
  <2>4. a \in Answer /\ a.conforme = "indetermine" /\ ~Conformant(a.conforme)
    BY <2>2, CheckedAnswer DEF Conformant
  <2>5. Majority(avis) = FromModel(a, no)
    BY <2>1, <2>3
  <2> HIDE DEF a
  <2>6. Sound(FromModel(a, no))
    BY <2>3, <2>4, FromModelSound
  <2> QED
    BY <2>5, <2>6
<1> QED
  BY <1>1, <1>2

(***************************************************************************)
(* The sum of the penalties                                                *)
(***************************************************************************)
LEMMA LeastNumber ==
  ASSUME NEW S, S \subseteq Nat, S # {}
  PROVE  \E m \in S : \A k \in Nat : k < m => k \notin S
<1>1. PICK m \in S : \A k \in S : <<k, m>> \notin OpToRel(<, Nat)
  BY NatLessThanWellFounded, WFMin
<1>2. ASSUME NEW k \in Nat, k < m, k \in S PROVE FALSE
  <2>1. <<k, m>> \in OpToRel(<, Nat)
    BY <1>2 DEF OpToRel
  <2> QED
    BY <1>1, <1>2, <2>1
<1> QED
  BY <1>2

\* The running sums of the first requirements, however many.
Sums(f, penalty, m) ==
  /\ f \in [0..m -> Nat] /\ f[0] = 0
  /\ \A n \in 1..m : f[n] = f[n - 1] + penalty[n]

LEMMA SumsExist ==
  ASSUME NEW penalty \in [Reqs -> Nat]
  PROVE  \E f : Sums(f, penalty, Count)
<1> DEFINE Without == {m \in 0..Count : ~\E f : Sums(f, penalty, m)}
<1>1. Count \in Nat
  BY EvaluationAssumption
<1>2. SUFFICES ASSUME Without # {} PROVE FALSE
  BY <1>1
<1>3. PICK m \in Without : \A k \in Nat : k < m => k \notin Without
  <2>1. Without \subseteq Nat
    BY <1>1
  <2> HIDE DEF Without
  <2> QED
    BY <1>2, <2>1, LeastNumber
<1>4. m # 0
  <2>1. Sums([n \in 0..0 |-> 0], penalty, 0)
    BY DEF Sums
  <2> QED
    BY <2>1
<1>5. m \in 1..Count /\ m - 1 \in 0..Count /\ m - 1 < m
  BY <1>1, <1>4
<1>6. PICK f : Sums(f, penalty, m - 1)
  BY <1>3, <1>5
<1>7. penalty[m] \in Nat /\ f[m - 1] \in Nat
  BY <1>5, <1>6 DEF Sums, Reqs
<1> DEFINE g == [n \in 0..m |-> IF n = m THEN f[m - 1] + penalty[m] ELSE f[n]]
<1>8. g \in [0..m -> Nat] /\ g[0] = 0
  BY <1>5, <1>6, <1>7 DEF Sums
<1>9. ASSUME NEW n \in 1..m PROVE g[n] = g[n - 1] + penalty[n]
  BY <1>5, <1>6 DEF Sums
<1> HIDE DEF g
<1>10. Sums(g, penalty, m)
  BY <1>8, <1>9 DEF Sums
<1> QED
  BY <1>10

LEMMA TotalSums ==
  ASSUME NEW penalty \in [Reqs -> Nat]
  PROVE  \E f : Sums(f, penalty, Count) /\ Total(penalty) = f[Count]
<1>1. Count \in Nat
  BY EvaluationAssumption
<1>2. PICK f : Sums(f, penalty, Count)
  BY SumsExist
<1> DEFINE Next1(g) == [n \in 0..Count |-> IF n = 0 THEN 0 ELSE g[n - 1] + penalty[n]]
<1> DEFINE sum == CHOOSE g : g = Next1(g)
<1>3. f = Next1(f)
  BY <1>1, <1>2 DEF Sums
<1>4. sum = Next1(sum)
  <2> HIDE DEF Next1
  <2> QED
    BY <1>3
<1>5. Total(penalty) = sum[Count]
  BY DEF Total
<1> HIDE DEF sum
<1> DEFINE Apart == {n \in 0..Count : sum[n] # f[n]}
<1>6. Apart = {}
  <2>1. SUFFICES ASSUME Apart # {} PROVE FALSE
    OBVIOUS
  <2>2. PICK n \in Apart : \A k \in Nat : k < n => k \notin Apart
    <3>1. Apart \subseteq Nat
      BY <1>1
    <3> HIDE DEF Apart
    <3> QED
      BY <2>1, <3>1, LeastNumber
  <2>3. n # 0
    BY <1>1, <1>2, <1>4 DEF Sums
  <2>4. n - 1 \in 0..Count /\ n - 1 < n /\ n \in 1..Count
    BY <1>1, <2>3
  <2>5. sum[n - 1] = f[n - 1]
    BY <2>2, <2>4
  <2>6. sum[n] = sum[n - 1] + penalty[n]
    BY <1>4, <2>3, <2>4
  <2>7. f[n] = f[n - 1] + penalty[n]
    BY <1>2, <2>4 DEF Sums
  <2> QED
    BY <2>5, <2>6, <2>7
<1>7. sum[Count] = f[Count]
  BY <1>1, <1>6
<1> QED
  BY <1>2, <1>5, <1>7

\* No requirement weighs more than all of them.
LEMMA TotalBounds ==
  ASSUME NEW penalty \in [Reqs -> Nat]
  PROVE  Total(penalty) \in Nat /\ \A r \in Reqs : penalty[r] <= Total(penalty)
<1>1. Count \in Nat
  BY EvaluationAssumption
<1>2. PICK f : Sums(f, penalty, Count) /\ Total(penalty) = f[Count]
  BY TotalSums
<1>3. f \in [0..Count -> Nat] /\ \A n \in 1..Count : f[n] = f[n - 1] + penalty[n] /\ penalty[n] \in Nat
  BY <1>2 DEF Sums, Reqs
<1> DEFINE Over == {k \in 0..Count : f[Count - k] > f[Count]}
<1>4. Over = {}
  <2>1. SUFFICES ASSUME Over # {} PROVE FALSE
    OBVIOUS
  <2>2. PICK k \in Over : \A j \in Nat : j < k => j \notin Over
    <3>1. Over \subseteq Nat
      BY <1>1
    <3> HIDE DEF Over
    <3> QED
      BY <2>1, <3>1, LeastNumber
  <2>3. k \in 1..Count
    <3>1. Count - 0 = Count /\ f[Count] \in Nat
      BY <1>1, <1>3
    <3>2. k # 0
      BY <3>1
    <3> QED
      BY <1>1, <3>2
  <2>4. k - 1 \in 0..Count /\ k - 1 < k /\ Count - (k - 1) \in 1..Count /\ Count - k \in 0..Count
    BY <1>1, <2>3
  <2>5. ~(f[Count - (k - 1)] > f[Count])
    BY <2>2, <2>4
  <2>6. f[Count - (k - 1)] = f[Count - k] + penalty[Count - (k - 1)] /\ penalty[Count - (k - 1)] \in Nat
    <3>1. (Count - (k - 1)) - 1 = Count - k
      BY <1>1, <2>3
    <3> QED
      BY <1>3, <2>4, <3>1
  <2>7. f[Count] \in Nat /\ f[Count - k] \in Nat
    BY <1>1, <1>3, <2>4
  <2> QED
    BY <2>5, <2>6, <2>7
<1>5. ASSUME NEW r \in Reqs PROVE penalty[r] <= f[Count]
  <2>1. r \in 1..Count /\ Count - r \in 0..Count /\ r - 1 \in 0..Count /\ Count - (Count - r) = r
    BY <1>1 DEF Reqs
  <2>2. f[r] <= f[Count]
    <3>1. ~(f[Count - (Count - r)] > f[Count])
      BY <1>4, <2>1
    <3>2. f[r] \in Nat /\ f[Count] \in Nat
      BY <1>1, <1>3, <2>1
    <3> QED
      BY <2>1, <3>1, <3>2
  <2>3. f[r] = f[r - 1] + penalty[r] /\ f[r - 1] \in Nat /\ f[Count] \in Nat /\ penalty[r] \in Nat
    BY <1>1, <1>3, <2>1
  <2> QED
    BY <2>2, <2>3
<1> QED
  BY <1>1, <1>2, <1>3, <1>5

(***************************************************************************)
(* The pool: what a step of a thread changes                               *)
(***************************************************************************)
\* A thread holds a requirement exactly when it works, and votes on opinions.
Sane(w) ==
  /\ w.step = "idle" => w.req = 0
  /\ w.step # "idle" => w.req \in Reqs
  /\ w.step = "vote" => w.avis # <<>>

\* No requirement is forgotten: while its verdict is pending it is in the queue
\* or in the hands of a thread; once the verdicts are propagated the pool is empty.
PoolInv ==
  /\ \A t \in Threads : Sane(worker[t])
  /\ \A r \in Reqs : verdicts[r] = Pending => r \in queue \/ \E t \in Threads : worker[t].req = r
  /\ phase # "evaluate" => Collected

LEMMA Constants == /\ Count \in Nat /\ Threshold \in Nat \ {0} /\ MaxAttempts \in Nat \ {0}
                   /\ 0 \in 0..Count /\ Reqs \subseteq 0..Count /\ 0 \notin Reqs
                   /\ 0 \in 0..MaxAttempts /\ 1 \in 0..MaxAttempts
                   /\ \A n \in 0..MaxAttempts : n < MaxAttempts => n + 1 \in 0..MaxAttempts
BY EvaluationAssumption DEF Reqs

LEMMA WorkFields ==
  /\ Rest \in Work /\ Sane(Rest) /\ Rest.req = 0
  /\ \A w \in Work : /\ w.step \in Steps /\ w.req \in 0..Count
                     /\ w.avis \in Seq(Answer) /\ w.tries \in 0..MaxAttempts
  /\ \A w \in Work, s \in Steps :
       LET x == [w EXCEPT !.step = s] IN
       x \in Work /\ x.step = s /\ x.req = w.req /\ x.avis = w.avis
  /\ \A w \in Work, r \in 0..Count : LET x == [w EXCEPT !.req = r] IN x \in Work /\ x.req = r
  /\ \A w \in Work, n \in 0..MaxAttempts :
       LET x == [w EXCEPT !.tries = n] IN
       x \in Work /\ x.step = w.step /\ x.req = w.req /\ x.avis = w.avis
  /\ \A w \in Work, a \in Seq(Answer) :
       LET x == [w EXCEPT !.avis = a] IN
       x \in Work /\ x.step = w.step /\ x.req = w.req /\ x.avis = a
<1>1. Rest \in Work /\ Sane(Rest) /\ Rest.req = 0
  BY Constants DEF Rest, Work, Steps, Sane
<1>2. \A w \in Work : /\ w.step \in Steps /\ w.req \in 0..Count
                      /\ w.avis \in Seq(Answer) /\ w.tries \in 0..MaxAttempts
  BY DEF Work
<1>3. \A w \in Work, s \in Steps :
       LET x == [w EXCEPT !.step = s] IN
       x \in Work /\ x.step = s /\ x.req = w.req /\ x.avis = w.avis
  BY DEF Work
<1>4. \A w \in Work, r \in 0..Count : LET x == [w EXCEPT !.req = r] IN x \in Work /\ x.req = r
  BY DEF Work
<1>5. \A w \in Work, n \in 0..MaxAttempts :
       LET x == [w EXCEPT !.tries = n] IN
       x \in Work /\ x.step = w.step /\ x.req = w.req /\ x.avis = w.avis
  BY DEF Work
<1>6. \A w \in Work, a \in Seq(Answer) :
       LET x == [w EXCEPT !.avis = a] IN
       x \in Work /\ x.step = w.step /\ x.req = w.req /\ x.avis = a
  BY DEF Work
<1> QED
  BY <1>1, <1>2, <1>3, <1>4, <1>5, <1>6

LEMMA Others == ASSUME NEW best \in Distances PROVE Sound(Heuristic(best)) /\ Sound(Exempt)
<1>1. Heuristic(best) \in Verdict /\ Heuristic(best).source = "heuristique" /\ Heuristic(best).agreed
  BY DEF Heuristic, Distances, Verdict, Conformities, Severities, Confidences
<1>2. Exempt \in Verdict /\ Exempt.source = "filtre_eligibilite" /\ Exempt.agreed
  BY DEF Exempt, Verdict, Conformities, Severities, Confidences
<1> QED
  BY <1>1, <1>2 DEF Sound

\* What a step of a thread does to the pool: it takes a requirement, goes on
\* with the one it has, or publishes its verdict.
Takes(t, w) == /\ Step(t, "idle") /\ w.req \in queue
               /\ queue' = queue \ {w.req} /\ verdicts' = verdicts
Continues(t, w) == w.req = worker[t].req /\ queue' = queue /\ verdicts' = verdicts
Publishes(t, w) == /\ w = Rest /\ queue' = queue
                   /\ \E v : Sound(v) /\ verdicts' = [verdicts EXCEPT ![worker[t].req] = v]
Moves(t, w) ==
  /\ w \in Work /\ Sane(w) /\ worker' = [worker EXCEPT ![t] = w]
  /\ Takes(t, w) \/ Continues(t, w) \/ Publishes(t, w)

LEMMA AnswerMoves ==
  ASSUME TypeOK, PoolInv, NEW t \in Threads, NEW a \in Answers, CallAnswers(t, a)
  PROVE  \E w : Moves(t, w)
<1> DEFINE n == Len(worker[t].avis)
<1> DEFINE avis == Append(worker[t].avis, IF n = 0 THEN Checked(a) ELSE a)
<1>1. worker[t] \in Work /\ Step(t, "call") /\ worker[t].req \in Reqs
  BY DEF TypeOK, PoolInv, Sane, CallAnswers, Step
<1>2. a \in Answer /\ Checked(a) \in Answer
  BY EvaluationAssumption, CheckedAnswer
<1>3. avis \in Seq(Answer) /\ avis # <<>>
  <2>1. PICK opinions \in Seq(Answer) : opinions = worker[t].avis
    BY <1>1, WorkFields
  <2>2. PICK b \in Answer : b = IF n = 0 THEN Checked(a) ELSE a
    BY <1>2
  <2>3. avis = Append(opinions, b)
    BY <2>1, <2>2
  <2>4. Append(opinions, b) \in Seq(Answer) /\ Len(Append(opinions, b)) = Len(opinions) + 1
    OBVIOUS
  <2> HIDE DEF avis
  <2>5. Len(<<>>) = 0 /\ Len(opinions) \in Nat
    OBVIOUS
  <2> QED
    BY <2>3, <2>4, <2>5
<1>4. PICK s \in {"ask", "vote"} :
        worker' = [worker EXCEPT ![t].avis = avis, ![t].tries = 0, ![t].step = s]
  BY DEF CallAnswers
<1> HIDE DEF avis
<1>5. PICK w : w = [[[worker[t] EXCEPT !.avis = avis] EXCEPT !.tries = 0] EXCEPT !.step = s]
  OBVIOUS
<1>6. worker' = [worker EXCEPT ![t] = w]
  BY <1>4, <1>5
<1>7. w \in Work /\ w.step = s /\ w.req = worker[t].req /\ w.avis = avis
  <2>1. s \in Steps
    BY DEF Steps
  <2>2. PICK x : x = [worker[t] EXCEPT !.avis = avis]
    OBVIOUS
  <2>3. x \in Work /\ x.req = worker[t].req /\ x.avis = avis
    BY <1>1, <1>3, <2>2, WorkFields
  <2>4. PICK y : y = [x EXCEPT !.tries = 0]
    OBVIOUS
  <2>5. y \in Work /\ y.req = worker[t].req /\ y.avis = avis
    BY <2>3, <2>4, Constants, WorkFields
  <2>6. w = [y EXCEPT !.step = s]
    BY <1>5, <2>2, <2>4
  <2> QED
    BY <2>1, <2>5, <2>6, WorkFields
<1>8. Sane(w)
  BY <1>1, <1>3, <1>4, <1>7 DEF Sane
<1>9. Continues(t, w)
  BY <1>7 DEF CallAnswers, Continues
<1> QED
  BY <1>6, <1>7, <1>8, <1>9 DEF Moves

LEMMA TakeMoves ==
  ASSUME TypeOK, NEW t \in Threads, Take(t)
  PROVE  \E w : Moves(t, w)
<1>1. PICK r \in queue : /\ queue' = queue \ {r}
                          /\ worker' = [worker EXCEPT ![t] = [Rest EXCEPT !.req = r,
                                            !.step = IF expired THEN "fallback" ELSE "gate"]]
  BY DEF Take
<1>2. PICK s \in {"fallback", "gate"} : s = IF expired THEN "fallback" ELSE "gate"
  OBVIOUS
<1>3. PICK w : w = [[Rest EXCEPT !.req = r] EXCEPT !.step = s]
  OBVIOUS
<1>4. worker' = [worker EXCEPT ![t] = w]
  BY <1>1, <1>2, <1>3
<1>5. r \in Reqs /\ r \in 0..Count /\ s \in Steps
  BY Constants DEF TypeOK, Steps
<1>6. w \in Work /\ w.step = s /\ w.req = r
  <2>1. PICK x : x = [Rest EXCEPT !.req = r]
    OBVIOUS
  <2>2. x \in Work /\ x.req = r
    BY <1>5, <2>1, WorkFields
  <2>3. w = [x EXCEPT !.step = s]
    BY <1>3, <2>1
  <2> QED
    BY <1>5, <2>2, <2>3, WorkFields
<1>7. Sane(w)
  BY <1>2, <1>5, <1>6 DEF Sane
<1>8. Takes(t, w)
  BY <1>1, <1>6 DEF Takes, Take
<1> QED
  BY <1>4, <1>6, <1>7, <1>8 DEF Moves

\* A step that only changes the place of a thread in its work.
LEMMA GotoMoves ==
  ASSUME TypeOK, PoolInv, NEW t \in Threads, NEW s \in Steps \ {"idle"}, Goto(t, s),
         ~Step(t, "idle"), s = "vote" => worker[t].avis # <<>>,
         queue' = queue, verdicts' = verdicts
  PROVE  \E w : Moves(t, w)
<1>1. worker[t] \in Work /\ worker[t].req \in Reqs
  BY DEF TypeOK, PoolInv, Sane, Step
<1>2. PICK w : w = [worker[t] EXCEPT !.step = s]
  OBVIOUS
<1>3. worker' = [worker EXCEPT ![t] = w]
  BY <1>2 DEF Goto
<1>4. w \in Work /\ w.step = s /\ w.req = worker[t].req /\ w.avis = worker[t].avis
  BY <1>1, <1>2, WorkFields
<1>5. Sane(w)
  BY <1>1, <1>4 DEF Sane
<1>6. Continues(t, w)
  BY <1>4 DEF Continues
<1> QED
  BY <1>3, <1>4, <1>5, <1>6 DEF Moves

LEMMA PublishMoves ==
  ASSUME NEW t \in Threads, NEW v, Sound(v), Publish(t, v), queue' = queue
  PROVE  \E w : Moves(t, w)
<1>1. worker' = [worker EXCEPT ![t] = Rest] /\ verdicts' = [verdicts EXCEPT ![worker[t].req] = v]
  BY DEF Publish
<1>2. Publishes(t, Rest)
  BY <1>1 DEF Publishes
<1> QED
  BY <1>1, <1>2, WorkFields DEF Moves

LEMMA ThreadMoves ==
  ASSUME TypeOK, PoolInv, NEW t \in Threads, Thread(t)
  PROVE  /\ phase = "evaluate" /\ phase' = phase /\ score' = score /\ expired' = expired
         /\ \E w : Moves(t, w)
<1>1. phase = "evaluate"
  <2>1. CASE Take(t)
    BY <2>1 DEF Take
  <2>2. CASE ~Take(t)
    <3>1. ~Step(t, "idle")
      BY <2>2 DEF Thread, Gate, Fallback, Ask, Retry, CallFails, CallAnswers, Succeed, Fail, Step
    <3> QED
      BY <3>1 DEF PoolInv, Collected
  <2> QED
    BY <2>1, <2>2
<1>2. phase' = phase /\ score' = score /\ expired' = expired
  BY DEF Thread, Take, Gate, Fallback, Ask, Retry, CallFails, CallAnswers, Succeed, Fail, Shared
<1>3. \E w : Moves(t, w)
  <2>1. CASE Take(t)
    BY <2>1, TakeMoves
  <2>2. CASE Gate(t)
    <3>1. PICK s \in Steps \ {"idle", "vote"} : Goto(t, s)
      BY <2>2 DEF Gate, Steps
    <3> QED
      BY <2>2, <3>1, GotoMoves DEF Gate, Step
  <2>3. CASE Fallback(t)
    <3>1. PICK best \in Distances : Publish(t, Heuristic(best))
      BY <2>3 DEF Fallback
    <3> QED
      BY <2>3, <3>1, Others, PublishMoves DEF Fallback
  <2>4. CASE Ask(t)
    <3>1. worker[t] \in Work /\ worker[t].req \in Reqs
      BY <2>4 DEF TypeOK, PoolInv, Sane, Ask, Step
    <3>2. PICK w : w = [[worker[t] EXCEPT !.step = "call"] EXCEPT !.tries = 1]
      OBVIOUS
    <3>3. worker' = [worker EXCEPT ![t] = w]
      BY <2>4, <3>2 DEF Ask
    <3>4. w \in Work /\ w.step = "call" /\ w.req = worker[t].req
      <4>1. PICK x : x = [worker[t] EXCEPT !.step = "call"]
        OBVIOUS
      <4>2. x \in Work /\ x.step = "call" /\ x.req = worker[t].req
        BY <3>1, <4>1, WorkFields DEF Steps
      <4>3. PICK n \in 0..MaxAttempts : n = 1
        BY Constants
      <4>4. w = [x EXCEPT !.tries = n]
        BY <3>2, <4>1, <4>3
      <4> QED
        BY <4>2, <4>4, WorkFields
    <3>5. Sane(w) /\ Continues(t, w)
      BY <2>4, <3>1, <3>4 DEF Sane, Continues, Ask
    <3> QED
      BY <3>3, <3>4, <3>5 DEF Moves
  <2>5. CASE Retry(t)
    <3>1. worker[t] \in Work /\ worker[t].req \in Reqs /\ worker[t].step = "call"
      BY <2>5 DEF TypeOK, PoolInv, Sane, Retry, Step
    <3>2. PICK w : w = [worker[t] EXCEPT !.tries = worker[t].tries + 1]
      OBVIOUS
    <3>3. worker' = [worker EXCEPT ![t] = w]
      BY <2>5, <3>2 DEF Retry
    <3>4. worker[t].tries + 1 \in 0..MaxAttempts
      BY <2>5, <3>1, Constants, WorkFields DEF Retry
    <3>5. w \in Work /\ w.step = "call" /\ w.req = worker[t].req
      BY <3>1, <3>2, <3>4, WorkFields
    <3>6. Sane(w) /\ Continues(t, w)
      BY <2>5, <3>1, <3>5 DEF Sane, Continues, Retry
    <3> QED
      BY <3>3, <3>5, <3>6 DEF Moves
  <2>6. CASE CallFails(t)
    <3>1. PICK s \in {"failure", "vote"} : Goto(t, s) /\ (s = "vote" => worker[t].avis # <<>>)
      BY <2>6 DEF CallFails
    <3>2. s \in Steps \ {"idle"}
      BY DEF Steps
    <3> QED
      BY <2>6, <3>1, <3>2, GotoMoves DEF CallFails, Step
  <2>7. CASE \E a \in Answers : CallAnswers(t, a)
    BY <2>7, AnswerMoves
  <2>8. CASE Succeed(t)
    <3>1. worker[t].avis \in Seq(Answer) /\ worker[t].avis # <<>>
      BY <2>8, WorkFields DEF TypeOK, PoolInv, Sane, Succeed, Step
    <3> QED
      BY <2>8, <3>1, VoteSound, PublishMoves DEF Succeed
  <2>9. CASE Fail(t)
    <3>1. Goto(t, "fallback") /\ "fallback" \in Steps \ {"idle"}
      BY <2>9 DEF Fail, Steps
    <3> QED
      BY <2>9, <3>1, GotoMoves DEF Fail, Step
  <2> QED
    BY <2>1, <2>2, <2>3, <2>4, <2>5, <2>6, <2>7, <2>8, <2>9 DEF Thread
<1> QED
  BY <1>1, <1>2, <1>3

(***************************************************************************)
(* Type correctness, with what the pool needs                              *)
(***************************************************************************)
LEMMA VerdictsKept ==
  ASSUME TypeOK, PoolInv, NEW t \in Threads, NEW w, Moves(t, w)
  PROVE  /\ verdicts' \in [Reqs -> Verdict \cup {Pending}] /\ queue' \subseteq Reqs
         /\ worker' \in [Threads -> Work]
         /\ \A r \in Reqs : verdicts'[r] # verdicts[r] => Sound(verdicts'[r])
<1>1. worker' \in [Threads -> Work] /\ queue' \subseteq Reqs
  BY DEF TypeOK, Moves, Takes, Continues, Publishes
<1>2. CASE verdicts' = verdicts
  BY <1>1, <1>2 DEF TypeOK
<1>3. CASE Publishes(t, w)
  <2>1. PICK v : Sound(v) /\ verdicts' = [verdicts EXCEPT ![worker[t].req] = v]
    BY <1>3 DEF Publishes
  <2>2. v \in Verdict
    BY <2>1 DEF Sound
  <2>3. verdicts' \in [Reqs -> Verdict \cup {Pending}]
    BY <2>1, <2>2 DEF TypeOK
  <2>4. \A r \in Reqs : verdicts'[r] # verdicts[r] => Sound(verdicts'[r])
    BY <2>1 DEF TypeOK
  <2> QED
    BY <1>1, <2>3, <2>4
<1> QED
  BY <1>1, <1>2, <1>3 DEF Moves, Takes, Continues

LEMMA Penalised ==
  ASSUME NEW v \in Verdict, v.conforme # "non_applicable"
  PROVE  Penalty(v) \in Nat /\ (v.conforme # "oui" => Penalty(v) >= 25)
<1>1. PICK s \in Severities : s = Severity(v)
  BY DEF Severity, Verdict, Severities
<1>2. Weight[s] \in Nat /\ Weight[s] >= 50 /\ Weight[s] \div 2 \in Nat /\ Weight[s] \div 2 >= 25
  BY DEF Weight, Severities
<1>3. v.conforme \in {"oui", "partiel", "non", "indetermine"}
  BY DEF Verdict, Conformities
<1> QED
  BY <1>1, <1>2, <1>3 DEF Penalty

LEMMA Quotient ==
  ASSUME NEW n \in Nat, n > 0, NEW total \in Nat
  PROVE  LET lost == (2 * total + n) \div (2 * n) IN
         lost \in Nat /\ (lost = 0 => 2 * total < n)
<1>1. PICK a, b : a = 2 * total + n /\ b = 2 * n /\ a \in Nat /\ b \in Nat /\ b > 0
  OBVIOUS
<1>2. a \div b \in Nat /\ (a \div b = 0 => a < b)
  BY <1>1
<1> QED
  BY <1>1, <1>2

LEMMA Quantities ==
  ASSUME TypeOK, \A r \in Reqs : verdicts[r] \in Verdict
  PROVE  /\ Penalties \in [Reqs -> Nat]
         /\ \A r \in Applicable : verdicts[r].conforme # "oui" => Penalties[r] >= 25
         /\ IsFiniteSet(Applicable) /\ Cardinality(Applicable) \in Nat
         /\ Cardinality(Applicable) <= Count /\ (Cardinality(Applicable) = 0 <=> Applicable = {})
<1>1. ASSUME NEW r \in Applicable
      PROVE  r \in Reqs /\ Penalty(verdicts[r]) \in Nat /\ (verdicts[r].conforme # "oui" => Penalty(verdicts[r]) >= 25)
  <2>1. r \in Reqs /\ verdicts[r] \in Verdict /\ verdicts[r].conforme # "non_applicable"
    BY DEF Applicable, Excluded
  <2> QED
    BY <2>1, Penalised
<1>2. Penalties \in [Reqs -> Nat]
  BY <1>1 DEF Penalties
<1>3. \A r \in Applicable : verdicts[r].conforme # "oui" => Penalties[r] >= 25
  BY <1>1 DEF Penalties
<1>4. IsFiniteSet(Reqs) /\ Cardinality(Reqs) = Count
  BY Constants, FS_Interval DEF Reqs
<1>5. Applicable \subseteq Reqs
  BY DEF Applicable
<1>6. IsFiniteSet(Applicable) /\ Cardinality(Applicable) <= Count
  BY <1>4, <1>5, FS_Subset
<1> QED
  BY <1>2, <1>3, <1>6, FS_CardinalityType, FS_EmptySet

LEMMA ScoreBounds ==
  ASSUME TypeOK, \A r \in Reqs : verdicts[r] \in Verdict
  PROVE  /\ Score \in 0..1000
         /\ Count < 50 /\ Score = 1000 => \A r \in Applicable : verdicts[r].conforme = "oui"
<1>1. PICK n \in Nat : n = Cardinality(Applicable)
  BY Quantities
<1>2. PICK total \in Nat : total = Total(Penalties) /\ \A r \in Reqs : Penalties[r] <= total
  BY Quantities, TotalBounds
<1>3. CASE n = 0
  BY <1>1, <1>3, Quantities DEF Score
<1>4. CASE n > 0
  <2>1. PICK lost \in Nat : lost = (2 * total + n) \div (2 * n) /\ (lost = 0 => 2 * total < n)
    BY <1>4, Quotient
  <2>2. Score = IF lost <= 1000 THEN 1000 - lost ELSE 0
    BY <1>1, <1>2, <1>4, <2>1 DEF Score
  <2>3. ASSUME Count < 50, Score = 1000, NEW r \in Applicable, verdicts[r].conforme # "oui"
        PROVE  FALSE
    <3>1. 2 * total < n
      BY <2>1, <2>2, <2>3
    <3>2. Penalties[r] >= 25 /\ Penalties[r] \in Nat /\ Penalties[r] <= total
      BY <1>2, <2>3, Quantities DEF Applicable
    <3>3. n < 50
      BY <1>1, <2>3, Quantities, Constants
    <3> QED
      BY <3>1, <3>2, <3>3
  <2> QED
    BY <2>1, <2>2, <2>3
<1> QED
  BY <1>3, <1>4

\* When the pool is empty every verdict is known.
LEMMA AllPublished ==
  ASSUME TypeOK, PoolInv, Collected
  PROVE  \A r \in Reqs : verdicts[r] # Pending /\ verdicts[r] \in Verdict
<1>1. ASSUME NEW r \in Reqs, verdicts[r] = Pending PROVE FALSE
  <2>1. PICK t \in Threads : worker[t].req = r
    BY <1>1 DEF PoolInv, Collected
  <2>2. worker[t].req = 0
    BY DEF PoolInv, Collected, Sane, Step
  <2> QED
    BY <2>1, <2>2, Constants
<1> QED
  BY <1>1 DEF TypeOK

\* What the exclusion of the dependents does to one verdict.
LEMMA Propagated ==
  ASSUME TypeOK, PoolInv, Propagate
  PROVE  /\ verdicts' \in [Reqs -> Verdict]
         /\ \A r \in Reqs :
              \/ verdicts'[r] = verdicts[r]
              \/ Master[r] \in Excluded /\ verdicts'[r].conforme = "non_applicable"
         /\ \A r \in Reqs : Master[r] \in Excluded => verdicts'[r].conforme = "non_applicable"
         /\ \A r \in Excluded : verdicts'[r].conforme = "non_applicable"
<1>1. \A r \in Reqs : verdicts[r] \in Verdict
  BY AllPublished DEF Propagate
<1>2. ASSUME NEW v \in Verdict
      PROVE  LET x == [v EXCEPT !.conforme = "non_applicable", !.severite = "info"] IN
             x \in Verdict /\ x.conforme = "non_applicable"
  BY DEF Verdict, Conformities, Severities
<1>3. \A r \in Reqs : verdicts'[r] =
        IF r \notin Excluded /\ Master[r] \in Excluded
        THEN [verdicts[r] EXCEPT !.conforme = "non_applicable", !.severite = "info"]
        ELSE verdicts[r]
  BY DEF Propagate
<1>4. \A r \in Reqs : verdicts'[r] \in Verdict
  BY <1>1, <1>2, <1>3
<1>5. verdicts' \in [Reqs -> Verdict]
  BY <1>4 DEF Propagate
<1>6. \A r \in Reqs : \/ verdicts'[r] = verdicts[r]
                      \/ Master[r] \in Excluded /\ verdicts'[r].conforme = "non_applicable"
  BY <1>1, <1>2, <1>3
<1>7. \A r \in Reqs : r \in Excluded => verdicts'[r].conforme = "non_applicable"
  BY <1>3 DEF Excluded
<1>8. \A r \in Reqs : Master[r] \in Excluded => verdicts'[r].conforme = "non_applicable"
  BY <1>1, <1>2, <1>3, <1>7
<1> QED
  BY <1>5, <1>6, <1>7, <1>8 DEF Excluded

LEMMA TypeInit == Init => TypeOK /\ PoolInv
<1>1. SUFFICES ASSUME Init PROVE TypeOK /\ PoolInv
  OBVIOUS
<1>2. PICK exempt \in SUBSET Reqs :
        verdicts = [r \in Reqs |-> IF r \in exempt THEN Exempt ELSE Pending] /\ queue = Reqs \ exempt
  BY <1>1 DEF Init
<1>3. Exempt \in Verdict /\ Exempt # Pending
  BY DEF Exempt, Pending, Verdict, Conformities, Severities, Confidences
<1>4. verdicts \in [Reqs -> Verdict \cup {Pending}] /\ queue \subseteq Reqs
  BY <1>2, <1>3
<1>5. worker \in [Threads -> Work] /\ \A t \in Threads : Sane(worker[t])
  BY <1>1, WorkFields DEF Init
<1>6. phase = "evaluate" /\ consecutive \in 0..Threshold /\ score \in NoScore..1000
  BY <1>1, Constants DEF Init, NoScore
<1>7. open \in BOOLEAN /\ expired \in BOOLEAN /\ late \subseteq Reqs
  BY <1>1 DEF Init
<1>8. \A r \in Reqs : verdicts[r] = Pending => r \in queue
  BY <1>2, <1>3
<1> QED
  BY <1>4, <1>5, <1>6, <1>7, <1>8 DEF TypeOK, PoolInv

LEMMA TypeThread ==
  ASSUME TypeOK, PoolInv, NEW t \in Threads, Thread(t)
  PROVE  TypeOK' /\ PoolInv'
<1>1. /\ phase = "evaluate" /\ phase' = phase /\ score' = score /\ expired' = expired
  BY ThreadMoves
<1>2. PICK w : Moves(t, w)
  BY ThreadMoves
<1>3. /\ verdicts' \in [Reqs -> Verdict \cup {Pending}] /\ queue' \subseteq Reqs
      /\ worker' \in [Threads -> Work]
  BY <1>2, VerdictsKept
<1>4. consecutive' \in 0..Threshold
  <2>1. consecutive \in 0..Threshold
    BY DEF TypeOK
  <2>2. CASE Fail(t)
    BY <2>1, <2>2, Constants DEF Fail
  <2>3. CASE Succeed(t)
    BY <2>3, Constants DEF Succeed
  <2>4. CASE ~Fail(t) /\ ~Succeed(t)
    <3>1. consecutive' = consecutive
      BY <2>4 DEF Thread, Take, Gate, Fallback, Ask, Retry, CallFails, CallAnswers
    <3> QED
      BY <2>1, <3>1
  <2> QED
    BY <2>2, <2>3, <2>4
<1>5. open' \in BOOLEAN
  BY DEF Thread, TypeOK, Take, Gate, Fallback, Ask, Retry, CallFails, CallAnswers, Succeed, Fail
<1>6. late' \subseteq Reqs
  <2>1. CASE Ask(t)
    <3>1. worker[t].req \in Reqs
      BY <2>1 DEF PoolInv, Sane, Ask, Step
    <3> QED
      BY <2>1, <3>1 DEF Ask, TypeOK
  <2>2. CASE ~Ask(t)
    BY <2>2 DEF Thread, TypeOK, Take, Gate, Fallback, Retry, CallFails, CallAnswers, Succeed, Fail
  <2> QED
    BY <2>1, <2>2
<1>7. TypeOK'
  BY <1>1, <1>3, <1>4, <1>5, <1>6 DEF TypeOK
<1>8. \A u \in Threads : Sane(worker'[u]) /\ (u # t => worker'[u] = worker[u]) /\ worker'[t] = w
  BY <1>2 DEF TypeOK, PoolInv, Moves
<1>9. ASSUME NEW r \in Reqs, verdicts'[r] = Pending
      PROVE  r \in queue' \/ \E u \in Threads : worker'[u].req = r
  <2>1. verdicts[r] = Pending /\ ~(Publishes(t, w) /\ worker[t].req = r)
    <3>1. CASE Publishes(t, w)
      <4>1. PICK v : Sound(v) /\ verdicts' = [verdicts EXCEPT ![worker[t].req] = v]
        BY <3>1 DEF Publishes
      <4>2. v # Pending
        BY <4>1 DEF Sound, Verdict, Pending
      <4> QED
        BY <1>9, <4>1, <4>2 DEF TypeOK
    <3>2. CASE ~Publishes(t, w)
      BY <1>2, <1>9, <3>2 DEF Moves, Takes, Continues
    <3> QED
      BY <3>1, <3>2
  <2>2. CASE r \in queue
    <3>1. CASE r \in queue'
      BY <3>1
    <3>2. CASE r \notin queue'
      BY <1>2, <1>8, <2>2, <3>2 DEF Moves, Takes, Continues, Publishes
    <3> QED
      BY <3>1, <3>2
  <2>3. CASE r \notin queue
    <3>1. PICK u \in Threads : worker[u].req = r
      BY <2>1, <2>3 DEF PoolInv
    <3>2. CASE u # t
      BY <1>8, <3>1, <3>2
    <3>3. CASE u = t
      <4>1. ~Step(t, "idle")
        BY <3>1, <3>3, Constants DEF PoolInv, Sane, Step
      <4>2. Continues(t, w)
        BY <1>2, <2>1, <3>1, <3>3, <4>1 DEF Moves, Takes
      <4> QED
        BY <1>8, <3>1, <3>3, <4>2 DEF Continues
    <3> QED
      BY <3>2, <3>3
  <2> QED
    BY <2>2, <2>3
<1>10. phase' = "evaluate"
  BY <1>1
<1> QED
  BY <1>7, <1>8, <1>9, <1>10 DEF PoolInv

LEMMA TypeStep == TypeOK /\ PoolInv /\ [Next]_vars => TypeOK' /\ PoolInv'
<1>1. SUFFICES ASSUME TypeOK, PoolInv, [Next]_vars PROVE TypeOK' /\ PoolInv'
  OBVIOUS
<1>2. CASE \E t \in Threads : Thread(t)
  BY <1>1, <1>2, TypeThread
<1>3. CASE Expire
  <2>1. UNCHANGED <<queue, worker, phase, verdicts, consecutive, open, score, late>> /\ expired' = TRUE
    BY <1>3 DEF Expire, Shared
  <2> QED
    BY <1>1, <2>1 DEF TypeOK, PoolInv, Collected, Step
<1>4. CASE Propagate
  <2>1. UNCHANGED <<queue, worker, consecutive, open, expired, score, late>> /\ phase' = "findings" /\ Collected
    BY <1>4 DEF Propagate
  <2>2. verdicts' \in [Reqs -> Verdict]
    BY <1>1, <1>4, Propagated
  <2>3. TypeOK'
    BY <1>1, <2>1, <2>2 DEF TypeOK
  <2>4. \A r \in Reqs : verdicts'[r] # Pending
    BY <2>2 DEF Verdict, Pending
  <2>5. Collected'
    BY <2>1 DEF Collected, Step
  <2> QED
    BY <1>1, <2>1, <2>3, <2>4, <2>5 DEF PoolInv
<1>5. CASE Findings
  <2>1. UNCHANGED <<queue, worker, consecutive, open, expired, verdicts, late>> /\ phase' = "done" /\ Collected
    BY <1>1, <1>5 DEF Findings, PoolInv
  <2>2. score' \in NoScore..1000
    <3>1. Score \in 0..1000
      BY <1>1, <2>1, AllPublished, ScoreBounds
    <3>2. score' = NoScore \/ score' = Score
      BY <1>5 DEF Findings
    <3> QED
      BY <3>1, <3>2 DEF NoScore
  <2>3. TypeOK'
    BY <1>1, <2>1, <2>2 DEF TypeOK
  <2> QED
    BY <1>1, <2>1, <2>3 DEF PoolInv, Collected, Step
<1>6. CASE UNCHANGED vars
  BY <1>1, <1>6 DEF vars, TypeOK, PoolInv, Collected, Step
<1> QED
  BY <1>1, <1>2, <1>3, <1>4, <1>5, <1>6 DEF Next

LEMMA PoolCorrect == Spec => [](TypeOK /\ PoolInv)
BY TypeInit, TypeStep, PTL DEF Spec

\* The state has its types: what the threads hold, the breaker's count, the
\* verdicts, and a score between 0 and 100 %.
THEOREM TypeCorrect == Spec => []TypeOK
BY PoolCorrect, PTL

(***************************************************************************)
(* What is published                                                       *)
(***************************************************************************)
\* Every verdict published is sound, unless the exclusion of the requirement it
\* follows from took its place.
VerdictInv ==
  \A r \in Reqs :
    Done(r) => \/ Sound(verdicts[r])
               \/ /\ phase # "evaluate" /\ Master[r] \in Excluded
                  /\ verdicts[r].conforme = "non_applicable"

LEMMA VerdictInit == Init => VerdictInv
<1>1. SUFFICES ASSUME Init, NEW r \in Reqs, Done(r) PROVE Sound(verdicts[r])
  BY DEF VerdictInv
<1>2. verdicts[r] = Exempt
  BY <1>1 DEF Init, Done
<1>3. PICK best \in Distances : TRUE
  BY DEF Distances
<1> QED
  BY <1>2, <1>3, Others

LEMMA VerdictStep == TypeOK /\ PoolInv /\ VerdictInv /\ [Next]_vars => VerdictInv'
<1>1. SUFFICES ASSUME TypeOK, PoolInv, VerdictInv, [Next]_vars PROVE VerdictInv'
  OBVIOUS
<1>2. CASE \E t \in Threads : Thread(t)
  <2>1. PICK t \in Threads : Thread(t)
    BY <1>2
  <2>2. PICK w : Moves(t, w)
    BY <1>1, <2>1, ThreadMoves
  <2>3. phase = "evaluate" /\ phase' = phase
    BY <1>1, <2>1, ThreadMoves
  <2>4. \A r \in Reqs : verdicts'[r] = verdicts[r] \/ Sound(verdicts'[r])
    BY <1>1, <2>2, VerdictsKept
  <2>5. ASSUME NEW r \in Reqs, verdicts'[r] # Pending PROVE Sound(verdicts'[r])
    BY <1>1, <2>3, <2>4, <2>5 DEF VerdictInv, Done
  <2> QED
    BY <2>5 DEF VerdictInv, Done, Sound, Verdict, Conformities, Severities, Confidences, Conformant
<1>3. CASE Propagate
  <2>1. phase = "evaluate" /\ phase' = "findings" /\ Collected
    BY <1>3 DEF Propagate
  <2>2. ASSUME NEW r \in Reqs
        PROVE  \/ Sound(verdicts'[r])
               \/ Master[r] \in Excluded' /\ verdicts'[r].conforme = "non_applicable"
    <3>1. Sound(verdicts[r])
      BY <1>1, <2>1, AllPublished DEF VerdictInv, Done
    <3>2. \/ verdicts'[r] = verdicts[r]
          \/ Master[r] \in Excluded /\ verdicts'[r].conforme = "non_applicable"
      BY <1>1, <1>3, Propagated
    <3>3. \A m \in Excluded : m \in Excluded'
      BY <1>1, <1>3, Propagated DEF Excluded
    <3> QED
      BY <3>1, <3>2, <3>3
  <2>3. phase' # "evaluate"
    BY <2>1
  <2> QED
    BY <2>2, <2>3 DEF VerdictInv, Done, Sound, Verdict, Conformities, Severities, Confidences, Conformant
<1>4. CASE Expire
  BY <1>1, <1>4 DEF VerdictInv, Done, Expire, Shared, Sound, Excluded
<1>5. CASE Findings
  BY <1>1, <1>5 DEF VerdictInv, Done, Findings, Sound, Excluded
<1>6. CASE UNCHANGED vars
  BY <1>1, <1>6 DEF VerdictInv, Done, vars, Sound, Excluded
<1> QED
  BY <1>1, <1>2, <1>3, <1>4, <1>5, <1>6 DEF Next

LEMMA VerdictCorrect == Spec => []VerdictInv
<1>1. Spec => [](TypeOK /\ PoolInv)
  BY PoolCorrect
<1> QED
  BY <1>1, VerdictInit, VerdictStep, PTL DEF Spec

\* VerifiedConformity: whatever the model answers, how many opinions it gives and
\* which calls fail, no conformity of its own is published without its citation
\* found in the passages (_verifier_citation).
THEOREM CitationFound == Spec => []VerifiedConformity
<1>1. VerdictInv => VerifiedConformity
  BY DEF VerdictInv, VerifiedConformity, Sound, Conformant
<1> QED
  BY <1>1, VerdictCorrect, PTL

\* MajorityOrReview: without a majority the verdict is undetermined and goes to a
\* human, unless the requirement falls with the one it follows from.
THEOREM VotedOrReviewed == Spec => []MajorityOrReview
<1>1. VerdictInv => MajorityOrReview
  BY DEF VerdictInv, MajorityOrReview, Sound, Reviewed
<1> QED
  BY <1>1, VerdictCorrect, PTL

\* DependentsExcluded: one pass over the verdicts is enough, in whatever order they
\* were evaluated, because the table of dependencies has no chains.
THEOREM OnePassSuffices == Spec => []DependentsExcluded
<1>1. Init => DependentsExcluded
  BY DEF Init, DependentsExcluded
<1>2. TypeOK /\ PoolInv /\ DependentsExcluded /\ [Next]_vars => DependentsExcluded'
  <2>1. SUFFICES ASSUME TypeOK, PoolInv, DependentsExcluded, [Next]_vars PROVE DependentsExcluded'
    OBVIOUS
  <2>2. CASE \E t \in Threads : Thread(t)
    <3>1. phase' = "evaluate"
      BY <2>1, <2>2, ThreadMoves
    <3> QED
      BY <3>1 DEF DependentsExcluded
  <2>3. CASE Propagate
    <3>1. SUFFICES ASSUME NEW r \in Reqs, Master[r] \in Excluded' PROVE r \in Excluded'
      BY DEF DependentsExcluded
    <3>2. CASE Master[r] \in Excluded
      BY <2>1, <2>3, <3>2, Propagated DEF Excluded
    <3>3. CASE Master[r] \notin Excluded
      <4>1. Master[r] \in Reqs /\ verdicts'[Master[r]].conforme = "non_applicable"
        BY <3>1 DEF Excluded
      <4>2. Master[Master[r]] \in Excluded
        <5>1. \/ verdicts'[Master[r]] = verdicts[Master[r]]
              \/ Master[Master[r]] \in Excluded
          BY <2>1, <2>3, <4>1, Propagated
        <5> QED
          BY <3>3, <4>1, <5>1 DEF Excluded
      <4>3. Master[Master[r]] \in Reqs /\ Master[r] # 0
        BY <4>1, <4>2, Constants DEF Excluded
      <4>4. Master[Master[r]] = 0
        BY <4>3, EvaluationAssumption
      <4> QED
        BY <4>3, <4>4, Constants
    <3> QED
      BY <3>2, <3>3
  <2>4. CASE Expire
    BY <2>1, <2>4 DEF Expire, Shared, DependentsExcluded, Excluded
  <2>5. CASE Findings
    BY <2>1, <2>5 DEF Findings, DependentsExcluded, Excluded
  <2>6. CASE UNCHANGED vars
    BY <2>1, <2>6 DEF vars, DependentsExcluded, Excluded
  <2> QED
    BY <2>1, <2>2, <2>3, <2>4, <2>5, <2>6 DEF Next
<1>3. Spec => [](TypeOK /\ PoolInv)
  BY PoolCorrect
<1> QED
  BY <1>1, <1>2, <1>3, PTL DEF Spec

\* PerfectMeansMet, for fewer than fifty requirements: the lightest penalty, half
\* of an "info", is then more than what rounding to a tenth of a percent hides.
THEOREM FullScoreMet == ASSUME Count < 50 PROVE Spec => []PerfectMeansMet
<1>1. Init => PerfectMeansMet
  BY DEF Init, PerfectMeansMet
<1>2. TypeOK /\ PoolInv /\ PerfectMeansMet /\ [Next]_vars => PerfectMeansMet'
  <2>1. SUFFICES ASSUME TypeOK, PoolInv, PerfectMeansMet, [Next]_vars PROVE PerfectMeansMet'
    OBVIOUS
  <2>2. CASE \E t \in Threads : Thread(t)
    <3>1. phase' = "evaluate"
      BY <2>1, <2>2, ThreadMoves
    <3> QED
      BY <3>1 DEF PerfectMeansMet
  <2>3. CASE Propagate
    BY <2>3 DEF Propagate, PerfectMeansMet
  <2>4. CASE Expire
    BY <2>1, <2>4 DEF Expire, Shared, PerfectMeansMet, Applicable, Excluded
  <2>5. CASE Findings
    <3>1. Collected
      BY <2>1, <2>5 DEF Findings, PoolInv
    <3>2. Score = 1000 => \A r \in Applicable : verdicts[r].conforme = "oui"
      BY <2>1, <3>1, AllPublished, ScoreBounds
    <3>3. score' = 1000 => Score = 1000
      BY <2>5 DEF Findings, NoScore
    <3>4. verdicts' = verdicts
      BY <2>5 DEF Findings
    <3> QED
      BY <3>2, <3>3, <3>4 DEF PerfectMeansMet, Applicable, Excluded
  <2>6. CASE UNCHANGED vars
    BY <2>1, <2>6 DEF vars, PerfectMeansMet, Applicable, Excluded
  <2> QED
    BY <2>1, <2>2, <2>3, <2>4, <2>5, <2>6 DEF Next
<1>3. Spec => [](TypeOK /\ PoolInv)
  BY PoolCorrect
<1> QED
  BY <1>1, <1>2, <1>3, PTL DEF Spec

(***************************************************************************)
(* The calls made too late                                                 *)
(***************************************************************************)
\* A thread that may still put its requirement to the model for the first time
\* after the breaker opened or the deadline passed.
May(t) == Step(t, "ask") \/ Step(t, "call") \/ (Step(t, "gate") /\ ~open)
Could == {t \in Threads : May(t) /\ worker[t].req \notin late}

\* Each late requirement has used up one of the threads that could ask.
LateInv ==
  /\ open \/ expired => Cardinality(late) + Cardinality(Could) <= Cardinality(Threads)
  /\ ~(open \/ expired) => late = {}

\* A thread does not become able to ask once the breaker is open or the deadline past.
LEMMA MayOnly ==
  ASSUME TypeOK, PoolInv, NEW t \in Threads, Thread(t), open \/ expired, May(t)'
  PROVE  May(t) /\ worker'[t].req = worker[t].req
<1>1. t \in DOMAIN worker /\ worker[t] \in Work /\ worker \in [Threads -> Work]
  BY DEF TypeOK
<1>2. worker'[t].step \in {"ask", "call", "gate"} /\ (worker'[t].step = "gate" => ~open')
  BY DEF May, Step
<1>3. Rest.step = "idle"
  BY DEF Rest
<1>4. CASE Take(t)
  <2>1. worker'[t].step = IF expired THEN "fallback" ELSE "gate"
    BY <1>1, <1>4 DEF Take, Rest
  <2>2. open' = open
    BY <1>4 DEF Take
  <2> QED
    BY <1>2, <2>1, <2>2
<1>5. CASE Gate(t)
  <2>1. worker'[t] = [worker[t] EXCEPT !.step = IF open THEN "fallback" ELSE "ask"] /\ Step(t, "gate")
    BY <1>1, <1>5 DEF Gate, Goto
  <2>2. worker'[t].req = worker[t].req /\ worker'[t].step = IF open THEN "fallback" ELSE "ask"
    BY <1>1, <2>1 DEF Work
  <2>3. ~open
    BY <1>2, <2>2
  <2> QED
    BY <2>1, <2>2, <2>3 DEF May
<1>6. CASE Fallback(t) \/ Succeed(t)
  <2>1. worker'[t] = Rest
    BY <1>1, <1>6 DEF Fallback, Succeed, Publish
  <2> QED
    BY <1>2, <1>3, <2>1
<1>7. CASE Ask(t)
  <2>1. Step(t, "ask") /\ worker'[t].req = worker[t].req
    BY <1>1, <1>7 DEF Ask, Work
  <2> QED
    BY <2>1 DEF May
<1>8. CASE Retry(t)
  <2>1. Step(t, "call") /\ worker'[t].req = worker[t].req
    BY <1>1, <1>8 DEF Retry, Work
  <2> QED
    BY <2>1 DEF May
<1>9. CASE CallFails(t)
  <2>1. worker'[t].step \in {"failure", "vote"}
    BY <1>1, <1>9 DEF CallFails, Goto, Work
  <2> QED
    BY <1>2, <2>1
<1>10. CASE \E a \in Answers : CallAnswers(t, a)
  <2>1. Step(t, "call") /\ worker'[t].req = worker[t].req
    BY <1>1, <1>10 DEF CallAnswers, Work
  <2> QED
    BY <2>1 DEF May
<1>11. CASE Fail(t)
  <2>1. worker'[t].step = "fallback"
    BY <1>1, <1>11 DEF Fail, Goto, Work
  <2> QED
    BY <1>2, <2>1
<1> QED
  BY <1>4, <1>5, <1>6, <1>7, <1>8, <1>9, <1>10, <1>11 DEF Thread

LEMMA CouldOnly ==
  ASSUME TypeOK, PoolInv, NEW t \in Threads, Thread(t), open \/ expired, late \subseteq late'
  PROVE  Could' \subseteq Could /\ (open' \/ expired')
<1>1. PICK w : Moves(t, w)
  BY ThreadMoves
<1>2. open => open'
  BY DEF Thread, Take, Gate, Fallback, Ask, Retry, CallFails, CallAnswers, Succeed, Fail
<1>3. expired' = expired
  BY ThreadMoves
<1>4. ASSUME NEW u \in Threads, May(u)', worker'[u].req \notin late'
      PROVE  May(u) /\ worker[u].req \notin late
  <2>1. CASE u = t
    BY <1>4, <2>1, MayOnly
  <2>2. CASE u # t
    <3>1. worker'[u] = worker[u]
      BY <1>1, <2>2 DEF Moves, TypeOK
    <3> QED
      BY <1>2, <1>4, <3>1 DEF May, Step
  <2> QED
    BY <2>1, <2>2
<1> QED
  BY <1>2, <1>3, <1>4 DEF Could

LEMMA Sizes ==
  ASSUME TypeOK
  PROVE  /\ IsFiniteSet(Threads) /\ IsFiniteSet(late) /\ IsFiniteSet(Could)
         /\ Cardinality(Threads) \in Nat /\ Cardinality(late) \in Nat /\ Cardinality(Could) \in Nat
         /\ Cardinality(Could) <= Cardinality(Threads)
<1>1. IsFiniteSet(Threads) /\ Could \subseteq Threads
  BY EvaluationAssumption DEF Could
<1>2. IsFiniteSet(Could) /\ Cardinality(Could) <= Cardinality(Threads)
  BY <1>1, FS_Subset
<1>3. IsFiniteSet(Reqs) /\ late \subseteq Reqs
  BY Constants, FS_Interval DEF Reqs, TypeOK
<1>4. IsFiniteSet(late)
  BY <1>3, FS_Subset
<1> QED
  BY <1>1, <1>2, <1>4, FS_CardinalityType

\* Fewer threads that could ask, and no new late requirement.
LEMMA LateKept ==
  ASSUME TypeOK, TypeOK', LateInv, open \/ expired, open' \/ expired', late' = late, Could' \subseteq Could
  PROVE  LateInv'
<1>1. Cardinality(late) + Cardinality(Could) <= Cardinality(Threads)
  BY DEF LateInv
<1>2. IsFiniteSet(Could) /\ Cardinality(late) \in Nat /\ Cardinality(Could) \in Nat /\ Cardinality(Threads) \in Nat
  BY Sizes
<1>3. Cardinality(Could') <= Cardinality(Could) /\ Cardinality(Could') \in Nat
  BY <1>2, FS_Subset, FS_CardinalityType
<1>4. Cardinality(late') + Cardinality(Could') <= Cardinality(Threads)
  BY <1>1, <1>2, <1>3
<1>5. Cardinality(Could)' = Cardinality(Could')
  OBVIOUS
<1> QED
  BY <1>4, <1>5 DEF LateInv

\* The breaker opens or the deadline passes: nothing is late yet.
LEMMA LateBegins ==
  ASSUME TypeOK', LateInv, ~(open \/ expired), late' = late
  PROVE  LateInv'
<1>1. late' = {}
  BY DEF LateInv
<1>2. Cardinality(Could)' <= Cardinality(Threads) /\ Cardinality(Could)' \in Nat
  <2>1. Could' \subseteq Threads /\ IsFiniteSet(Threads)
    BY EvaluationAssumption DEF Could
  <2>2. Cardinality(Could') <= Cardinality(Threads) /\ Cardinality(Could') \in Nat
    BY <2>1, FS_Subset, FS_CardinalityType
  <2> QED
    BY <2>2
<1>3. Cardinality(late') = 0
  BY <1>1, FS_EmptySet
<1> QED
  BY <1>1, <1>2, <1>3 DEF LateInv

LEMMA LateThread ==
  ASSUME TypeOK, TypeOK', PoolInv, LateInv, NEW t \in Threads, Thread(t)
  PROVE  LateInv'
<1>1. CASE ~Ask(t)
  <2>1. late' = late
    BY <1>1 DEF Thread, Take, Gate, Fallback, Retry, CallFails, CallAnswers, Succeed, Fail
  <2>2. CASE open \/ expired
    BY <2>1, <2>2, CouldOnly, LateKept
  <2>3. CASE ~(open \/ expired)
    BY <2>1, <2>3, LateBegins
  <2> QED
    BY <2>2, <2>3
<1>2. CASE Ask(t)
  <2>1. Step(t, "ask") /\ open' = open /\ expired' = expired
    BY <1>2 DEF Ask, Shared
  <2>2. CASE ~(open \/ expired)
    BY <1>2, <2>2, LateBegins DEF Ask
  <2>3. CASE (open \/ expired) /\ worker[t].req \in late
    <3>1. late' = late
      BY <1>2, <2>3 DEF Ask
    <3> QED
      BY <2>3, <3>1, CouldOnly, LateKept
  <2>4. CASE (open \/ expired) /\ worker[t].req \notin late
    <3>1. late' = late \cup {worker[t].req}
      BY <1>2, <2>4 DEF Ask
    <3>2. Could' \subseteq Could /\ (open' \/ expired')
      BY <2>4, <3>1, CouldOnly
    <3>3. t \in Could
      BY <2>1, <2>4 DEF Could, May
    <3>4. t \notin Could'
      <4>1. worker'[t].req = worker[t].req
        BY <1>2 DEF Ask, TypeOK, Work
      <4> QED
        BY <3>1, <4>1 DEF Could
    <3>5. IsFiniteSet(Could) /\ IsFiniteSet(late)
      BY Sizes
    <3>6. /\ Cardinality(late) \in Nat /\ Cardinality(Could) \in Nat /\ Cardinality(Threads) \in Nat
      BY Sizes
    <3>7. Cardinality(late) + Cardinality(Could) <= Cardinality(Threads)
      BY <2>4 DEF LateInv
    <3>8. Cardinality(late') = Cardinality(late) + 1
      BY <2>4, <3>1, <3>5, FS_AddElement
    <3>9. Cardinality(Could \ {t}) = Cardinality(Could) - 1 /\ IsFiniteSet(Could \ {t})
      BY <3>3, <3>5, FS_RemoveElement
    <3>10. Could' \subseteq Could \ {t}
      BY <3>2, <3>4
    <3>11. Cardinality(Could') <= Cardinality(Could \ {t}) /\ Cardinality(Could') \in Nat
      BY <3>9, <3>10, FS_Subset, FS_CardinalityType
    <3>12. Cardinality(late') + Cardinality(Could') <= Cardinality(Threads)
      BY <3>6, <3>7, <3>8, <3>9, <3>11
    <3>13. Cardinality(Could)' = Cardinality(Could')
      OBVIOUS
    <3> QED
      BY <3>2, <3>12, <3>13 DEF LateInv
  <2> QED
    BY <2>2, <2>3, <2>4
<1> QED
  BY <1>1, <1>2

LEMMA LateStep == TypeOK /\ TypeOK' /\ PoolInv /\ LateInv /\ [Next]_vars => LateInv'
<1>1. SUFFICES ASSUME TypeOK, TypeOK', PoolInv, LateInv, [Next]_vars PROVE LateInv'
  OBVIOUS
<1>2. CASE \E t \in Threads : Thread(t)
  BY <1>1, <1>2, LateThread
<1>3. CASE Expire
  <2>1. UNCHANGED <<worker, open, late>> /\ expired' = TRUE
    BY <1>3 DEF Expire
  <2>2. CASE open \/ expired
    <3>1. Could' \subseteq Could
      BY <2>1 DEF Could, May, Step
    <3> QED
      BY <1>1, <2>1, <2>2, <3>1, LateKept
  <2>3. CASE ~(open \/ expired)
    BY <1>1, <2>1, <2>3, LateBegins
  <2> QED
    BY <2>2, <2>3
<1>4. CASE Propagate \/ Findings \/ UNCHANGED vars
  <2>1. UNCHANGED <<worker, open, expired, late>>
    BY <1>4 DEF Propagate, Findings, vars
  <2>2. Could' = Could
    BY <2>1 DEF Could, May, Step
  <2> QED
    BY <1>1, <2>1, <2>2 DEF LateInv
<1> QED
  BY <1>1, <1>2, <1>3, <1>4 DEF Next

\* LateCallsBounded: after the breaker opened or the deadline passed, whichever is
\* first, at most one requirement per thread is still put to the model.
THEOREM FewLateCalls == Spec => []LateCallsBounded
<1>1. Init => LateInv
  BY DEF Init, LateInv
<1>2. TypeOK /\ LateInv => LateCallsBounded
  <2>1. SUFFICES ASSUME TypeOK, LateInv PROVE LateCallsBounded
    OBVIOUS
  <2>2. /\ Cardinality(late) \in Nat /\ Cardinality(Could) \in Nat /\ Cardinality(Threads) \in Nat
    BY <2>1, Sizes
  <2>3. CASE open \/ expired
    <3>1. Cardinality(late) + Cardinality(Could) <= Cardinality(Threads)
      BY <2>1, <2>3 DEF LateInv
    <3> QED
      BY <2>2, <3>1 DEF LateCallsBounded
  <2>4. CASE ~(open \/ expired)
    <3>1. Cardinality(late) = 0
      BY <2>1, <2>4, FS_EmptySet DEF LateInv
    <3> QED
      BY <2>2, <3>1 DEF LateCallsBounded
  <2> QED
    BY <2>3, <2>4
<1>3. Spec => [](TypeOK /\ PoolInv)
  BY PoolCorrect
<1> QED
  BY <1>1, <1>2, <1>3, LateStep, PTL DEF Spec

(***************************************************************************)
(* Applicability: what the questionnaire exempts (Eligibility)             *)
(***************************************************************************)
CONSTANTS Questionnaires, MaxPatch
VARIABLES framework, asked, profile, campaign, dropped
E == INSTANCE Eligibility

\* Every questionnaire is about a framework that is ingested; the other members of
\* FrameworkCode have no rule, so nothing about them is exempted or dropped.
\* EligibilityAssumption says it of a run, here it is a hypothesis of the theorems.
KnownFrameworks == \A q \in Questionnaires : q.framework \in E!Frameworks

\* Each answer of a profile is one the questionnaire offers.
Given(p) == \A f \in E!Fields : p[f] \in E!Values(f)

LEMMA EligibilityTypes ==
  /\ KnownFrameworks /\ E!Init => E!TypeOK
  /\ E!TypeOK /\ [E!Next]_E!vars => E!TypeOK'
<1>1. ASSUME KnownFrameworks, E!Init PROVE E!TypeOK
  <2>1. framework \in E!Frameworks
    BY <1>1 DEF KnownFrameworks, E!Init
  <2>2. \A f \in E!Fields : "unknown" \in E!Values(f)
    BY DEF E!Fields, E!Values
  <2>3. \A f \in E!Fields : "unknown" \in E!Answers
    BY <2>2 DEF E!Answers
  <2> QED
    BY <1>1, <2>1, <2>2, <2>3 DEF E!Init, E!TypeOK
<1>2. ASSUME E!TypeOK, [E!Next]_E!vars PROVE E!TypeOK'
  <2>1. ASSUME E!UpdateProfile PROVE E!TypeOK'
    <3>1. PICK patched \in SUBSET asked :
            \E body \in [patched -> UNION {E!Values(f) : f \in patched}] :
              /\ \A f \in patched : body[f] \in E!Values(f)
              /\ profile' = [f \in E!Fields |-> IF f \in patched THEN body[f] ELSE profile[f]]
              /\ campaign' = [campaign EXCEPT !.kept = @ /\ E!Extends(profile, profile')]
              /\ UNCHANGED <<framework, dropped>>
      BY <2>1 DEF E!UpdateProfile
    <3>2. \A f \in E!Fields : profile'[f] \in E!Values(f)
      BY <1>2, <3>1 DEF E!TypeOK
    <3>3. profile' \in [E!Fields -> E!Answers]
      BY <3>1, <3>2 DEF E!Answers
    <3> QED
      BY <1>2, <3>1, <3>2, <3>3 DEF E!TypeOK
  <2>2. ASSUME E!CreateAudit PROVE E!TypeOK'
    BY <1>2, <2>2 DEF E!CreateAudit, E!TypeOK, E!OutOfScope
  <2>3. ASSUME E!RunAudit PROVE E!TypeOK'
    BY <1>2, <2>3 DEF E!RunAudit, E!TypeOK, E!Exempted
  <2>4. CASE UNCHANGED E!vars
    BY <1>2, <2>4 DEF E!vars, E!TypeOK
  <2> QED
    BY <1>2, <2>1, <2>2, <2>3, <2>4 DEF E!Next
<1> QED
  BY <1>1, <1>2

\* One rule at a time: with every answer the rule reads given, it decides as the
\* text of the law does.
LEMMA Decided == E!TypeOK => E!DecidedAsLaw
<1> SUFFICES ASSUME E!TypeOK PROVE E!DecidedAsLaw
  OBVIOUS
<1>1. ASSUME \A f \in E!Reads(30) : profile[f] # "unknown"
      PROVE  E!rgpd_art30(profile) = (IF E!Required(30, profile) THEN "applicable" ELSE "exempte")
  BY <1>1 DEF E!TypeOK, E!Fields, E!Values, E!Reads, E!Required, E!rgpd_art30
<1>2. ASSUME \A f \in E!Reads(37) : profile[f] # "unknown"
      PROVE  E!rgpd_art37(profile) = (IF E!Required(37, profile) THEN "applicable" ELSE "exempte")
  BY <1>2 DEF E!TypeOK, E!Fields, E!Values, E!Reads, E!Required, E!rgpd_art37, E!rgpd_art37_large
<1>3. ASSUME \A f \in E!Reads(49) : profile[f] # "unknown"
      PROVE  E!ai_act_enregistrement(profile) = (IF E!Required(49, profile) THEN "applicable" ELSE "exempte")
  BY <1>3 DEF E!TypeOK, E!Fields, E!Values, E!Reads, E!Required, E!ai_act_enregistrement
<1>4. framework = "rgpd" => /\ E!evaluer(framework, 30, profile) = E!rgpd_art30(profile)
                            /\ E!evaluer(framework, 37, profile) = E!rgpd_art37(profile)
  BY DEF E!evaluer, E!Ruled, E!Rule
<1>5. framework = "ai_act" => E!evaluer(framework, 49, profile) = E!ai_act_enregistrement(profile)
  <2>1. 49 \in E!Ruled["ai_act"]
    BY DEF E!Ruled
  <2> QED
    BY <2>1 DEF E!evaluer, E!Rule
<1> QED
  BY <1>1, <1>2, <1>3, <1>4, <1>5 DEF E!DecidedAsLaw

\* An exemption survives further answers, whatever they are, except those the
\* rule overlooks: it looked only at answers that were given.
LEMMA RuleKept ==
  ASSUME E!TypeOK, NEW q, Given(q), E!Extends(profile, q),
         NEW a, a \in E!Auditable(framework), \A f \in E!Overlooked(a) : q[f] = profile[f],
         E!evaluer(framework, a, profile) = "exempte"
  PROVE  E!evaluer(framework, a, q) = "exempte"
<1> USE DEF E!TypeOK, Given, E!Extends, E!Fields, E!Values
<1>1. CASE framework = "rgpd"
  <2>1. E!Ruled["rgpd"] = {13, 14, 30, 37}
    BY DEF E!Ruled
  <2>2. a \in {13, 14, 30, 37}
    BY <1>1, <2>1 DEF E!evaluer
  <2>3. CASE a \in {13, 14}
    BY <1>1, <2>3 DEF E!evaluer, E!Ruled, E!Rule, E!CollectedBy
  <2>4. CASE a = 30
    BY <1>1, <2>4 DEF E!evaluer, E!Ruled, E!Rule, E!rgpd_art30, E!Overlooked
  <2>5. CASE a = 37
    BY <1>1, <2>5 DEF E!evaluer, E!Ruled, E!Rule, E!rgpd_art37, E!rgpd_art37_large, E!Overlooked
  <2> QED
    BY <2>2, <2>3, <2>4, <2>5
<1>2. CASE framework = "nis2"
  BY <1>2 DEF E!evaluer, E!Rule, E!AtMost, E!nis2_entite
<1>3. CASE framework = "dora"
  BY <1>3 DEF E!evaluer, E!Rule, E!AtMost, E!Follows
<1>4. CASE framework = "ai_act"
  BY <1>4 DEF E!evaluer, E!Rule, E!AtMost, E!Follows, E!ai_act_enregistrement
<1>5. CASE framework = "csrd"
  BY <1>5 DEF E!evaluer, E!Ruled
<1> QED
  BY <1>1, <1>2, <1>3, <1>4, <1>5 DEF E!Frameworks

LEMMA GivenNext == E!TypeOK' => Given(profile')
  BY DEF Given, E!TypeOK

\* So does the warning that nothing of the framework applies: no rule of a
\* framework that can be out of scope as a whole overlooks an answer.
LEMMA ScopeKept ==
  ASSUME E!TypeOK, E!TypeOK', UNCHANGED framework, E!Extends(profile, profile'),
         E!OutOfScope(framework, profile)
  PROVE  E!OutOfScope(framework, profile')
<1>1. E!Auditable(framework) = E!Whitelists[framework] /\ framework # "csrd"
  BY DEF E!Auditable, E!OutOfScope
<1>2. framework \notin {"rgpd", "ai_act"}
  <2>1. 5 \in E!Whitelists["rgpd"] /\ 5 \in E!Whitelists["ai_act"]
    BY DEF E!Whitelists
  <2>2. E!evaluer("rgpd", 5, profile) = "applicable" /\ E!evaluer("ai_act", 5, profile) = "applicable"
    BY DEF E!evaluer, E!Ruled, E!Rule
  <2> QED
    BY <2>1, <2>2 DEF E!OutOfScope
<1>3. \A a : E!Overlooked(a) = {}
  BY <1>2 DEF E!Overlooked
<1>4. ASSUME NEW a \in E!Whitelists[framework]
      PROVE  E!evaluer(framework, a, profile') = "exempte"
  <2>1. E!evaluer(framework, a, profile) = "exempte"
    BY DEF E!OutOfScope
  <2> QED
    BY <1>1, <1>3, <2>1, RuleKept, GivenNext
<1> QED
  BY <1>1, <1>4 DEF E!OutOfScope

\* What a warning rests on still holds while answers are only added.
WarnInv ==
  /\ campaign.warned /\ campaign.kept => E!OutOfScope(framework, profile)
  /\ E!WarnedDropsAll

LEMMA WarnInductive ==
  E!TypeOK /\ E!TypeOK' /\ WarnInv /\ [E!Next]_E!vars => WarnInv'
<1> SUFFICES ASSUME E!TypeOK, E!TypeOK', WarnInv, [E!Next]_E!vars PROVE WarnInv'
  OBVIOUS
<1>1. ASSUME E!UpdateProfile PROVE WarnInv'
  <2>1. /\ campaign' = [campaign EXCEPT !.kept = @ /\ E!Extends(profile, profile')]
        /\ UNCHANGED <<framework, dropped>>
    BY <1>1 DEF E!UpdateProfile
  <2>2. /\ campaign'.warned = campaign.warned /\ campaign'.stage = campaign.stage
        /\ campaign'.kept => campaign.kept /\ E!Extends(profile, profile')
    BY <2>1 DEF E!TypeOK
  <2>3. campaign'.warned /\ campaign'.kept => E!OutOfScope(framework, profile')
    BY <2>1, <2>2, ScopeKept DEF WarnInv
  <2>4. E!WarnedDropsAll'
    BY <2>1, <2>2 DEF WarnInv, E!WarnedDropsAll, E!Auditable
  <2> QED
    BY <2>1, <2>3, <2>4 DEF WarnInv
<1>2. ASSUME E!CreateAudit PROVE WarnInv'
  BY <1>2 DEF E!CreateAudit, WarnInv, E!WarnedDropsAll
<1>3. ASSUME E!RunAudit PROVE WarnInv'
  <2>1. /\ campaign'.warned = campaign.warned /\ campaign'.kept = campaign.kept
        /\ UNCHANGED <<framework, profile>>
    BY <1>3 DEF E!RunAudit, E!TypeOK
  <2>2. ASSUME E!OutOfScope(framework, profile)
        PROVE  dropped' = E!Auditable(framework)
    <3>1. E!Exempted(framework, profile) = E!Auditable(framework)
      BY <2>2 DEF E!OutOfScope, E!Exempted, E!Auditable
    <3> QED
      BY <1>3, <3>1 DEF E!RunAudit
  <2> QED
    BY <2>1, <2>2 DEF WarnInv, E!WarnedDropsAll
<1>4. CASE UNCHANGED E!vars
  BY <1>4 DEF E!vars, WarnInv, E!WarnedDropsAll
<1> QED
  BY <1>1, <1>2, <1>3, <1>4 DEF E!Next

\* With every answer a rule reads given, the three rules that combine several
\* answers exempt exactly what the law does not require.
THEOREM RulesAsLaw == ASSUME KnownFrameworks PROVE E!Spec => []E!DecidedAsLaw
  BY EligibilityTypes, Decided, PTL DEF E!Spec

\* When the creation of a campaign warned that nothing applies, and answers were
\* only added since, the analysis leaves out every requirement.
THEOREM WarningTrue == ASSUME KnownFrameworks PROVE E!Spec => []E!WarnedDropsAll
<1>1. E!Init => WarnInv
  BY DEF E!Init, WarnInv, E!WarnedDropsAll
<1>2. WarnInv => E!WarnedDropsAll
  BY DEF WarnInv
<1> QED
  BY <1>1, <1>2, EligibilityTypes, WarnInductive, PTL DEF E!Spec

LEMMA ExemptionStep ==
  E!TypeOK /\ E!TypeOK' /\ [E!Next]_E!vars =>
    [\A a \in E!Exempted(framework, profile) :
       /\ E!Extends(profile, profile')
       /\ \A f \in E!Overlooked(a) : profile'[f] = profile[f]
       => E!evaluer(framework, a, profile') = "exempte"]_E!vars
<1> SUFFICES ASSUME E!TypeOK, E!TypeOK', E!Next,
                    NEW a \in E!Exempted(framework, profile), E!Extends(profile, profile'),
                    \A f \in E!Overlooked(a) : profile'[f] = profile[f]
             PROVE  E!evaluer(framework, a, profile') = "exempte"
  OBVIOUS
<1> QED
  BY RuleKept, GivenNext DEF E!Exempted

\* Answers that are added never bring an exempted requirement back, unless the
\* rule overlooked them.
THEOREM ExemptionsStand == ASSUME KnownFrameworks PROVE E!Spec => E!ExemptionKept
  BY EligibilityTypes, ExemptionStep, PTL DEF E!Spec, E!ExemptionKept
===============================================================================
