------------------------------- MODULE Lifecycle -------------------------------
(***************************************************************************)
(* What a campaign promises to whoever looks at it between two requests:   *)
(* every request takes effect at once or not at all, an analysis replaces  *)
(* the findings of the one before as a whole, the reports are numbered     *)
(* without a gap, and a deleted campaign is gone for good.  Campaign, which *)
(* has the transactions, their statements and their locks, implements it.  *)
(***************************************************************************)
EXTENDS Naturals

CONSTANT Audits    \* campaign identifiers

VARIABLES
  state,       \* where the campaign is in its life
  documented,  \* it has at least one document
  analysis,    \* the number of the analysis its findings come from, if any
  published    \* the versions of its reports

vars == <<state, documented, analysis, published>>

Living == {"draft", "completed", "failed"}

Init ==
  /\ state = [a \in Audits |-> "none"]
  /\ documented = [a \in Audits |-> FALSE]
  /\ analysis = [a \in Audits |-> {}]
  /\ published = [a \in Audits |-> {}]

Create(a) ==
  /\ state[a] = "none"
  /\ state' = [state EXCEPT ![a] = "draft"]
  /\ UNCHANGED <<documented, analysis, published>>

Deposit(a) ==
  /\ state[a] \in Living
  /\ documented' = [documented EXCEPT ![a] = TRUE]
  /\ UNCHANGED <<state, analysis, published>>

\* An analysis that concludes: its findings, if it has any, take the place of
\* those of the analysis before.
Conclude(a) ==
  /\ state[a] \in Living
  /\ documented[a]
  /\ state' = [state EXCEPT ![a] = "completed"]
  /\ analysis' = [analysis EXCEPT ![a] = analysis'[a]]
  /\ analysis'[a] \intersect analysis[a] = {}
  /\ \A m, n \in analysis'[a] : m = n
  /\ UNCHANGED <<documented, published>>

\* An analysis that fails leaves the findings it found, or none.
Fail(a) ==
  /\ state[a] \in Living
  /\ state' = [state EXCEPT ![a] = "failed"]
  /\ \E left \in {analysis[a], {}} : analysis' = [analysis EXCEPT ![a] = left]
  /\ UNCHANGED <<documented, published>>

\* A report of a campaign that was analysed takes the next version.
Publish(a) ==
  /\ state[a] \in {"completed", "failed"}
  /\ \E last \in published[a] \union {0} :
       /\ \A v \in published[a] : v <= last
       /\ published' = [published EXCEPT ![a] = @ \union {last + 1}]
  /\ UNCHANGED <<state, documented, analysis>>

Delete(a) ==
  /\ state[a] \in Living
  /\ state' = [state EXCEPT ![a] = "deleted"]
  /\ documented' = [documented EXCEPT ![a] = FALSE]
  /\ analysis' = [analysis EXCEPT ![a] = {}]
  /\ published' = [published EXCEPT ![a] = {}]

Next ==
  \E a \in Audits :
    Create(a) \/ Deposit(a) \/ Conclude(a) \/ Fail(a) \/ Publish(a) \/ Delete(a)

Spec == Init /\ [][Next]_vars
================================================================================
