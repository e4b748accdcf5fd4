------------------------------ MODULE Evaluation ------------------------------
(***************************************************************************)
(* What an analysis does between its documents and its findings            *)
(* (services/audit_engine.py, services/llm.py): the threads that put every *)
(* requirement to the model, the attempts of a call, the breaker and the   *)
(* deadline, the vote of an unsure answer, the check of its citation, the  *)
(* lexical fallback, then the exclusion of dependent requirements, the     *)
(* findings and the score.                                                 *)
(*                                                                         *)
(* One action per access to what the threads share (the queue of the pool, *)
(* the breaker under its lock) and per answer of the model.  The wording   *)
(* of prompts, answers and findings is left out; the text of a citation is *)
(* kept as what its comparison with the passages yields.                   *)
(***************************************************************************)
EXTENDS Integers, Sequences, FiniteSets

CONSTANTS
  Count,        \* number of requirements in scope, numbered in order
  Master,       \* DEPENDENCIES: the requirement each one follows from, 0 for none
  Threads,      \* LLM_MAX_CONCURRENCY workers of the pool
  Threshold,    \* LLM_BREAKER_THRESHOLD
  MaxAttempts,  \* MAX_ATTEMPTS of a call
  Answers       \* what the model may answer

Reqs == 1..Count
Conformities == {"oui", "partiel", "non", "non_applicable", "indetermine"}
Severities == {"critical", "major", "minor", "info"}
\* A citation as a sequence of sentences, each found in a passage or not, or
\* too short to be looked for; "whole" when it is found in one piece.
Proof == [whole: BOOLEAN, sentences: Seq({"found", "missing", "short"})]
\* Below REVIEW_CONFIDENCE_THRESHOLD, below SECOND_OPINION_CONFIDENCE_THRESHOLD, above.
Confidences == {"low", "middle", "high"}
Answer == [conforme: Conformities, confiance: Confidences, severite: Severities, proof: Proof]

ASSUME EvaluationAssumption ==
  /\ Count \in Nat /\ Threshold \in Nat \ {0} /\ MaxAttempts \in Nat \ {0}
  /\ Master \in [Reqs -> 0..Count]
  /\ \A r \in Reqs : Master[r] # 0 => Master[Master[r]] = 0   \* no chains in the table
  /\ IsFiniteSet(Threads) /\ Threads # {}
  /\ Answers \subseteq Answer

VARIABLES
  phase,        \* "evaluate", "propagate", "findings", "done"
  queue,        \* requirements the pool has not handed out
  worker,       \* what each thread is doing
  consecutive,  \* Breaker._consecutive
  open,         \* Breaker._open
  expired,      \* the deadline of the campaign is past
  verdicts,     \* the verdict of each requirement
  score,        \* in tenths of a percent, NoScore when it is withdrawn
  late          \* history: requirements put to the model since the breaker opened
                \* or the deadline passed

vars == <<phase, queue, worker, consecutive, open, expired, verdicts, score, late>>

NoScore == -1
Verdict == [source: {"llm", "heuristique", "filtre_eligibilite"}, conforme: Conformities,
            severite: Severities, quoted: BOOLEAN, verified: BOOLEAN,
            confiance: Confidences, agreed: BOOLEAN]
Pending == [source |-> "none", conforme |-> "none"]
Steps == {"idle", "gate", "fallback", "ask", "call", "vote", "failure"}
Work == [step: Steps, req: 0..Count, avis: Seq(Answer), tries: 0..MaxAttempts]
Rest == [step |-> "idle", req |-> 0, avis |-> <<>>, tries |-> 0]

(***************************************************************************)
(* Citations                                                               *)
(***************************************************************************)
\* _passage_correspondant: in one piece, or every sentence long enough, two
\* at least.
Found(proof) ==
  LET long == {i \in DOMAIN proof.sentences : proof.sentences[i] # "short"} IN
  \/ proof.whole
  \/ Cardinality(long) >= 2 /\ \A i \in long : proof.sentences[i] = "found"

\* _verifier_citation and _ramener_a_indetermine
Conformant(c) == c \in {"oui", "partiel"}
Undetermined(a) == [a EXCEPT !.conforme = "indetermine", !.severite = "minor", !.confiance = "low"]
\* Variant: the citation of an answer is not looked for.
Believed(a) == a
Checked(a) == IF Conformant(a.conforme) /\ ~Found(a.proof) THEN Undetermined(a) ELSE a

(***************************************************************************)
(* Verdicts                                                                *)
(***************************************************************************)
\* "agreed" records whether more than half of the opinions carry the value.
FromModel(a, agreed) ==
  [source |-> "llm", conforme |-> a.conforme, severite |-> a.severite,
   quoted |-> a.proof.sentences # <<>>, verified |-> Found(a.proof),
   confiance |-> a.confiance, agreed |-> agreed]

Votes(avis, c) == Cardinality({i \in DOMAIN avis : avis[i].conforme = c})
Agree(avis, c) == 2 * Votes(avis, c) > Len(avis)

\* Variant: half of the opinions is enough.
Plurality(avis) ==
  LET c == CHOOSE v \in Conformities : \A u \in Conformities : Votes(avis, u) <= Votes(avis, v)
      a == avis[CHOOSE i \in DOMAIN avis : avis[i].conforme = c]
  IN FromModel(Checked(a), Agree(avis, c))

\* The vote: the first answer that carries the value most opinions agree on,
\* its own citation checked; undetermined when no value has a majority.
Majority(avis) ==
  IF \E c \in Conformities : Agree(avis, c)
  THEN LET c == CHOOSE v \in Conformities : Agree(avis, v)
           first == CHOOSE i \in DOMAIN avis :
                      avis[i].conforme = c /\ \A j \in 1..i - 1 : avis[j].conforme # c
       IN FromModel(Checked(avis[first]), TRUE)
  ELSE FromModel(Undetermined(avis[1]), FALSE)

\* _heuristic_evaluation, by the distance of the best passage retrieved.
Distances == {"none", "near", "related", "far"}
Heuristic(best) ==
  [source |-> "heuristique", agreed |-> TRUE,
   quoted |-> best # "none", verified |-> best # "none",
   confiance |-> IF best \in {"near", "related"} THEN "middle" ELSE "low",
   conforme |-> CASE best = "near" -> "oui" [] best = "related" -> "partiel" [] OTHER -> "non",
   severite |-> CASE best = "near" -> "info" [] best = "related" -> "minor" [] OTHER -> "major"]

Exempt == [source |-> "filtre_eligibilite", conforme |-> "non_applicable", severite |-> "info",
           quoted |-> FALSE, verified |-> FALSE, confiance |-> "high", agreed |-> TRUE]

(***************************************************************************)
(* The pool                                                                *)
(***************************************************************************)
Step(t, step) == worker[t].step = step
Goto(t, step) == worker' = [worker EXCEPT ![t].step = step]
Publish(t, v) ==
  /\ verdicts' = [verdicts EXCEPT ![worker[t].req] = v]
  /\ worker' = [worker EXCEPT ![t] = Rest]
Shared == <<phase, score>>

\* Variant: the deadline is read when the pool starts, once.
TakeAnyway(t) ==
  /\ phase = "evaluate" /\ Step(t, "idle")
  /\ \E r \in queue :
       /\ \A q \in queue : r <= q
       /\ queue' = queue \ {r}
       /\ worker' = [worker EXCEPT ![t] = [Rest EXCEPT !.req = r, !.step = "gate"]]
  /\ UNCHANGED <<consecutive, open, expired, verdicts, late, Shared>>

\* A thread takes the next requirement, in order; past the deadline the model
\* is not asked any more.
Take(t) ==
  /\ phase = "evaluate" /\ Step(t, "idle")
  /\ \E r \in queue :
       /\ \A q \in queue : r <= q
       /\ queue' = queue \ {r}
       /\ worker' = [worker EXCEPT ![t] = [Rest EXCEPT !.req = r,
                                             !.step = IF expired THEN "fallback" ELSE "gate"]]
  /\ UNCHANGED <<consecutive, open, expired, verdicts, late, Shared>>

\* Breaker.is_open
Gate(t) ==
  /\ Step(t, "gate")
  /\ Goto(t, IF open THEN "fallback" ELSE "ask")
  /\ UNCHANGED <<queue, consecutive, open, expired, verdicts, late, Shared>>

Fallback(t) ==
  /\ Step(t, "fallback")
  /\ \E best \in Distances : Publish(t, Heuristic(best))
  /\ UNCHANGED <<queue, consecutive, open, expired, late, Shared>>

\* complete_json starts; each call is attempted MaxAttempts times at most.
Ask(t) ==
  /\ Step(t, "ask")
  /\ worker' = [worker EXCEPT ![t].step = "call", ![t].tries = 1]
  /\ late' = IF open \/ expired THEN late \cup {worker[t].req} ELSE late
  /\ UNCHANGED <<queue, consecutive, open, expired, verdicts, Shared>>

\* A network error, 429 or 5xx is tried again after a pause.
Retry(t) ==
  /\ Step(t, "call") /\ worker[t].tries < MaxAttempts
  /\ worker' = [worker EXCEPT ![t].tries = @ + 1]
  /\ UNCHANGED <<queue, consecutive, open, expired, verdicts, late, Shared>>

\* The attempts are spent, the request is refused (4xx) or the answer cannot
\* be read.  The opinions collected decide; without one, the fallback.
CallFails(t) ==
  /\ Step(t, "call")
  /\ Goto(t, IF worker[t].avis = <<>> THEN "failure" ELSE "vote")
  /\ UNCHANGED <<queue, consecutive, open, expired, verdicts, late, Shared>>

\* A first answer that is sure of itself is final; any other asks for a
\* second opinion, and that one, if it differs, for a third.
CallAnswers(t, a) ==
  LET first == Checked(a)
      n == Len(worker[t].avis)
      avis == Append(worker[t].avis, IF n = 0 THEN first ELSE a)
      more == \/ n = 0 /\ first.confiance # "high"
              \/ n = 1 /\ a.conforme # worker[t].avis[1].conforme
  IN
  /\ Step(t, "call")
  /\ worker' = [worker EXCEPT ![t].avis = avis, ![t].tries = 0,
                              ![t].step = IF more THEN "ask" ELSE "vote"]
  /\ UNCHANGED <<queue, consecutive, open, expired, verdicts, late, Shared>>

\* Breaker.record_success: an open breaker stays open.
Succeed(t) ==
  /\ Step(t, "vote")
  /\ consecutive' = 0
  /\ Publish(t, Majority(worker[t].avis))
  /\ UNCHANGED <<queue, open, expired, late, Shared>>

\* Breaker.record_failure
Fail(t) ==
  /\ Step(t, "failure")
  /\ consecutive' = IF consecutive < Threshold THEN consecutive + 1 ELSE consecutive
  /\ open' = (open \/ consecutive' >= Threshold)
  /\ Goto(t, "fallback")
  /\ UNCHANGED <<queue, expired, verdicts, late, Shared>>

\* time.monotonic() passes started_at + AUDIT_MAX_SECONDS.
Expire ==
  /\ phase = "evaluate" /\ ~expired
  /\ expired' = TRUE
  /\ UNCHANGED <<queue, worker, consecutive, open, verdicts, late, Shared>>

(***************************************************************************)
(* The findings                                                            *)
(***************************************************************************)
Collected == queue = {} /\ \A t \in Threads : Step(t, "idle")
Excluded == {r \in Reqs : verdicts[r].conforme = "non_applicable"}

\* Variant: only what the eligibility filter excluded is propagated.
PropagateFilter ==
  /\ phase = "evaluate" /\ Collected
  /\ verdicts' = [r \in Reqs |->
       IF Master[r] # 0 /\ verdicts[Master[r]].source = "filtre_eligibilite"
       THEN [verdicts[r] EXCEPT !.conforme = "non_applicable", !.severite = "info"]
       ELSE verdicts[r]]
  /\ phase' = "findings"
  /\ UNCHANGED <<queue, worker, consecutive, open, expired, score, late>>

\* _propagate_dependencies, one pass over the verdicts.
Propagate ==
  /\ phase = "evaluate" /\ Collected
  /\ verdicts' = [r \in Reqs |->
       IF r \notin Excluded /\ Master[r] \in Excluded
       THEN [verdicts[r] EXCEPT !.conforme = "non_applicable", !.severite = "info"]
       ELSE verdicts[r]]
  /\ phase' = "findings"
  /\ UNCHANGED <<queue, worker, consecutive, open, expired, score, late>>

\* SEVERITY_WEIGHT and the penalties, in thousandths.
Weight == [critical |-> 1000, major |-> 850, minor |-> 300, info |-> 50]
Severity(v) == IF v.conforme = "indetermine" /\ v.severite = "info" THEN "minor" ELSE v.severite
\* Variant: what the model cannot decide weighs nothing.
PenaltyDecided(v) ==
  CASE v.conforme \in {"oui", "indetermine"} -> 0
    [] v.conforme = "partiel" -> Weight[Severity(v)] \div 2
    [] v.conforme = "non" -> Weight[Severity(v)]
Penalty(v) ==
  CASE v.conforme = "oui" -> 0
    [] v.conforme = "partiel" -> Weight[Severity(v)] \div 2
    [] v.conforme = "indetermine" -> 200
    [] v.conforme = "non" -> Weight[Severity(v)]

\* A running sum over the requirements, in order.
Total(penalty) ==
  LET sum[n \in 0..Count] == IF n = 0 THEN 0 ELSE sum[n - 1] + penalty[n] IN sum[Count]

Applicable == Reqs \ Excluded
Penalties == [r \in Reqs |-> IF r \in Applicable THEN Penalty(verdicts[r]) ELSE 0]
\* Rounded to a tenth of a percent, which is a thousandth of the total.
Score ==
  LET n == Cardinality(Applicable)
      lost == (2 * Total(Penalties) + n) \div (2 * n)
  IN CASE n = 0 -> 1000
       [] n > 0 /\ lost <= 1000 -> 1000 - lost
       [] n > 0 /\ lost > 1000 -> 0

\* More than 30 % of what was put to the model fell back: no score.
Evaluated == {r \in Reqs : verdicts[r].source # "filtre_eligibilite"}
Fallbacks == {r \in Evaluated : verdicts[r].source # "llm"}
Degraded == 100 * Cardinality(Fallbacks) > 30 * Cardinality(Evaluated)

Findings ==
  /\ phase = "findings"
  /\ score' = IF Degraded THEN NoScore ELSE Score
  /\ phase' = "done"
  /\ UNCHANGED <<queue, worker, consecutive, open, expired, verdicts, late>>

\* _verification_humaine
Reviewed(v) ==
  IF v.conforme = "non_applicable" THEN v.source = "heuristique"
  ELSE \/ v.source = "llm" /\ v.quoted /\ ~v.verified
       \/ v.conforme = "indetermine" \/ v.source = "heuristique"
       \/ v.confiance = "low"

\* The requirements the eligibility filter exempts are chosen with the profile.
Init ==
  /\ phase = "evaluate"
  /\ \E exempt \in SUBSET Reqs :
       /\ verdicts = [r \in Reqs |-> IF r \in exempt THEN Exempt ELSE Pending]
       /\ queue = Reqs \ exempt
  /\ worker = [t \in Threads |-> Rest]
  /\ consecutive = 0 /\ open = FALSE /\ expired = FALSE
  /\ score = NoScore /\ late = {}

Thread(t) ==
  \/ Take(t) \/ Gate(t) \/ Fallback(t) \/ Ask(t) \/ Retry(t) \/ CallFails(t)
  \/ \E a \in Answers : CallAnswers(t, a)
  \/ Succeed(t) \/ Fail(t)

Next == (\E t \in Threads : Thread(t)) \/ Expire \/ Propagate \/ Findings

Spec == Init /\ [][Next]_vars

(***************************************************************************)
(* Properties                                                              *)
(***************************************************************************)
TypeOK ==
  /\ phase \in {"evaluate", "findings", "done"}
  /\ queue \subseteq Reqs
  /\ worker \in [Threads -> Work]
  /\ consecutive \in 0..Threshold /\ open \in BOOLEAN /\ expired \in BOOLEAN
  /\ verdicts \in [Reqs -> Verdict \cup {Pending}]
  /\ score \in NoScore..1000 /\ late \subseteq Reqs

Done(r) == verdicts[r] # Pending

\* No conformity said by the model is published without its citation being
\* found in the passages, that of an answer adopted by the vote included
\* (docstring of _verifier_citation).
VerifiedConformity ==
  \A r \in Reqs : Done(r) /\ verdicts[r].source = "llm" /\ Conformant(verdicts[r].conforme)
                  => verdicts[r].verified

\* Several opinions on one requirement end with a value that more than half of
\* them carry, whatever calls failed in between, or with "indetermine" and a
\* review by a human.
MajorityOrReview ==
  \A r \in Reqs :
    Done(r) /\ ~verdicts[r].agreed =>
      \/ verdicts[r].conforme = "indetermine" /\ Reviewed(verdicts[r])
      \/ Master[r] \in Excluded

\* Once the breaker is open or the deadline past, the model is only asked about
\* the requirement each thread had in hand: the breaker never closes again,
\* whatever the calls still in flight answer.
LateCallsBounded == Cardinality(late) <= Cardinality(Threads)

\* A full score is only published when the model, or at most 30 % of fallbacks,
\* found every applicable requirement met: nothing undetermined, partial or
\* missing is lost in the weights, the rounding or the exclusions.
PerfectMeansMet ==
  phase = "done" /\ score = 1000 => \A r \in Applicable : verdicts[r].conforme = "oui"

\* In the findings no requirement applies whose master does not
\* (docstring of _propagate_dependencies).
DependentsExcluded ==
  phase \in {"findings", "done"} =>
    \A r \in Reqs : Master[r] \in Excluded => r \in Excluded
=============================================================================
