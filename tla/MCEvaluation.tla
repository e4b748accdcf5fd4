----------------------------- MODULE MCEvaluation -----------------------------
(* Instances of Evaluation for TLC. *)
EXTENDS Evaluation, TLC

\* Threads are interchangeable for a safety property.
ThreadsSymmetry == Permutations(Threads)

\* The second requirement follows from the first, as article 38 from 37.
MCMaster == <<0, 1, 0>>
MCAnswer(c, confiance, severite, whole, sentences) ==
  [conforme |-> c, confiance |-> confiance, severite |-> severite,
   proof |-> [whole |-> whole, sentences |-> sentences]]
MCAnswers == {
  MCAnswer("oui", "high", "info", FALSE, <<"found", "short", "found">>),
  MCAnswer("oui", "high", "info", FALSE, <<"found", "missing">>),
  MCAnswer("non", "middle", "critical", FALSE, <<>>),
  MCAnswer("non_applicable", "high", "info", FALSE, <<>>)}
=============================================================================
