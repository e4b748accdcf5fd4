---------------------------- MODULE IngestionProofs ----------------------------
(***************************************************************************)
(* Proofs of the safety properties of Ingestion, for any frameworks and any*)
(* number of texts, of runs of the command line and of failures.           *)
(***************************************************************************)
EXTENDS Ingestion, TLAPS, FiniteSetTheorems, SequenceTheorems, WellFoundedInduction

(***************************************************************************)
(* The versions of a framework                                             *)
(***************************************************************************)
\* A label is free below the number of labels: one is the first that is.
LEMMA FirstFree ==
  ASSUME NEW taken, IsFiniteSet(taken)
  PROVE  \E n \in 0..Cardinality(taken) : n \notin taken /\ \A k \in 0..n - 1 : k \in taken
<1> DEFINE c == Cardinality(taken)
<1>1. c \in Nat
  BY FS_CardinalityType
<1> DEFINE free == {n \in 0..c : n \notin taken}
<1> HIDE DEF c
<1>2. free # {}
  <2>1. SUFFICES ASSUME 0..c \subseteq taken PROVE FALSE
    OBVIOUS
  <2>2. IsFiniteSet(0..c) /\ Cardinality(0..c) = c + 1
    BY <1>1, FS_Interval
  <2>3. Cardinality(0..c) <= c
    BY <2>1, FS_Subset DEF c
  <2> QED
    BY <1>1, <2>2, <2>3
<1>3. free \subseteq Nat
  BY <1>1
<1>4. PICK n \in free : \A k \in free : <<k, n>> \notin OpToRel(<, Nat)
  BY <1>2, <1>3, NatLessThanWellFounded, WFMin
<1>5. ASSUME NEW k \in 0..n - 1 PROVE k \in taken
  <2>1. n \in 0..c /\ k \in 0..c
    BY <1>1
  <2>2. k < n /\ k \in Nat /\ n \in Nat
    BY <1>1, <2>1
  <2>3. <<k, n>> \in OpToRel(<, Nat)
    BY <2>2 DEF OpToRel
  <2>4. k \notin free
    BY <1>4, <2>3
  <2> QED
    BY <2>1, <2>4
<1> QED
  BY <1>5 DEF c

LEMMA LabelsFinite ==
  ASSUME TypeOK, NEW f \in Frameworks PROVE IsFiniteSet(Labels(f))
<1>1. versions[f] \in Seq(Version)
  BY DEF TypeOK
<1>2. DOMAIN versions[f] = 1..Len(versions[f]) /\ Len(versions[f]) \in Nat
  BY <1>1
<1>3. IsFiniteSet(DOMAIN versions[f])
  BY <1>2, FS_Interval
<1> DEFINE g == [i \in DOMAIN versions[f] |-> versions[f][i].label]
<1>4. Labels(f) = {g[i] : i \in DOMAIN versions[f]}
  BY DEF Labels
<1>5. g \in Surjection(DOMAIN versions[f], Labels(f))
  BY <1>4 DEF Surjection
<1> QED
  BY <1>3, <1>5, FS_Surjection

\* The rows that a commit leaves: those there were, in the same order and with
\* the same texts, and the one flushed.
NewRow(s) == [label |-> s.label, text |-> s.text, current |-> TRUE, embedded |-> s.embedded]

Grows(rows, old, s) ==
  /\ Len(rows) = Len(old) + 1 /\ DOMAIN rows = 1..Len(rows)
  /\ rows[Len(rows)] = NewRow(s)
  /\ \A i \in DOMAIN old :
       /\ rows[i].text = old[i].text
       /\ rows[i].embedded = old[i].embedded
       /\ rows[i].current = (old[i].current /\ i # s.base)

LEMMA CommittedRows ==
  ASSUME TypeOK, NEW p \in Programs, NEW f \in Frameworks
  PROVE  /\ ~Flushed(p, f) => Committed(p, f) = versions[f]
         /\ Flushed(p, f) => Grows(Committed(p, f), versions[f], staged[p][f])
         /\ Flushed(p, f) /\ staged[p][f].label \in Nat /\ staged[p][f].text \in 1..MaxText
              => Committed(p, f) \in Seq(Version)
<1> DEFINE v == versions[f]
<1> DEFINE s == staged[p][f]
<1> DEFINE rest == [i \in DOMAIN v |->
                      IF i = s.base THEN [v[i] EXCEPT !.current = FALSE] ELSE v[i]]
<1> DEFINE new == NewRow(s)
<1>1. v \in Seq(Version) /\ s \in Staged
  BY DEF TypeOK
<1>2. Len(v) \in Nat /\ DOMAIN v = 1..Len(v) /\ \A i \in DOMAIN v : v[i] \in Version
  BY <1>1
<1>3. rest \in Seq(Version) /\ Len(rest) = Len(v)
  <2>1. \A i \in DOMAIN v : rest[i] \in Version
    BY <1>2 DEF Version
  <2>2. rest \in [1..Len(v) -> Version]
    BY <1>2, <2>1
  <2> QED
    BY <1>2, <2>2
<1>4. CASE ~Flushed(p, f)
  <2>1. s.base = 0
    BY <1>4 DEF Flushed, NoVersion
  <2>2. \A i \in DOMAIN v : rest[i] = v[i]
    BY <1>2, <2>1
  <2>3. v = [i \in DOMAIN v |-> v[i]]
    BY <1>1
  <2>4. rest = v
    BY <2>2, <2>3
  <2> QED
    BY <1>4, <2>4 DEF Committed
<1>5. CASE Flushed(p, f)
  <2>1. Committed(p, f) = Append(rest, new)
    BY <1>5 DEF Committed, NewRow
  <2>2. s.label \in Nat /\ s.text \in 1..MaxText => new \in Version
    BY <1>1 DEF Staged, Version, NewRow
  <2>3. rest \in Seq(Version \cup {new})
    BY <1>3
  <2>4. \A i \in DOMAIN v : /\ rest[i].text = v[i].text
                            /\ rest[i].embedded = v[i].embedded
                            /\ rest[i].current = (v[i].current /\ i # s.base)
    BY <1>2 DEF Version
  <2> DEFINE rows == Append(rest, new)
  <2> HIDE DEF new, rest, v
  <2>5. /\ Len(rows) = Len(v) + 1 /\ DOMAIN rows = 1..Len(rows) /\ rows[Len(rows)] = new
        /\ \A i \in DOMAIN v : rows[i] = rest[i]
    BY <1>2, <1>3, <2>3
  <2>6. new \in Version => rows \in Seq(Version)
    BY <1>3
  <2> HIDE DEF rows, s
  <2>7. Grows(rows, v, s)
    BY <2>4, <2>5 DEF Grows, new
  <2> QED
    BY <1>5, <2>1, <2>2, <2>6, <2>7 DEF rows, s, v
<1> QED
  BY <1>4, <1>5

(***************************************************************************)
(* Types                                                                   *)
(***************************************************************************)
InHand == {"read", "labels", "update", "insert", "embed"}

\* Where a program is tells what it has in hand: a framework it still has to
\* ingest, flushed from its first statement that writes to the end of the
\* transaction, with the text it fetched.
Stepping(p) ==
  /\ pc[p] \in {"idle", "commit"} => todo[p] = {}
  /\ pc[p] \in InHand => job[p].fw \in todo[p] /\ job[p].text # 0
  /\ \A f \in Frameworks : Flushed(p, f) =>
       /\ pc[p] # "idle"
       /\ f \in todo[p] => f = job[p].fw /\ pc[p] \in {"insert", "embed"}
       /\ \/ staged[p][f].label \in Nat /\ staged[p][f].text # 0
          \/ pc[p] = "insert" /\ job[p].fw = f
  /\ pc[p] \in {"insert", "embed"} /\ Flushed(p, job[p].fw) =>
       staged[p][job[p].fw].base = job[p].base
  /\ pc[p] = "embed" =>
       Flushed(p, job[p].fw) /\ staged[p][job[p].fw].text = job[p].text

StepInv == \A p \in Programs : Stepping(p)

\* The types of what belongs to the programs.
ProgramType ==
  /\ pc \in [Programs -> Steps]
  /\ todo \in [Programs -> SUBSET Frameworks]
  /\ job \in [Programs -> Job]
  /\ staged \in [Programs -> [Frameworks -> Staged]]
  /\ tick \in [seen : SUBSET Frameworks, told : SUBSET (Frameworks \X (1..MaxText))]

LEMMA NoneType == NoVersion \in Staged /\ NoJob \in Job
BY IngestionAssumption DEF NoVersion, Staged, NoJob, Job

LEMMA EndType ==
  ASSUME TypeOK, NEW p \in Programs, End(p) PROVE ProgramType'
<1>1. tick' \in [seen : SUBSET Frameworks, told : SUBSET (Frameworks \X (1..MaxText))]
  BY DEF End, NoTick, TypeOK
<1>2. pc' \in [Programs -> Steps] /\ todo' \in [Programs -> SUBSET Frameworks]
  BY DEF End, TypeOK, Steps
<1>3. job' \in [Programs -> Job] /\ staged' \in [Programs -> [Frameworks -> Staged]]
  BY NoneType DEF End, TypeOK
<1> QED
  BY <1>1, <1>2, <1>3 DEF ProgramType

LEMMA NextType ==
  ASSUME TypeOK, NEW p \in Programs, pc[p] \in InHand, StepInv,
         NEW news \in SUBSET (Frameworks \X (1..MaxText)), NextFramework(p, news),
         staged' \in [Programs -> [Frameworks -> Staged]]
  PROVE  ProgramType'
<1>1. job[p].fw \in Frameworks
  BY DEF StepInv, Stepping, TypeOK
<1>2. tick' \in [seen : SUBSET Frameworks, told : SUBSET (Frameworks \X (1..MaxText))]
  BY <1>1 DEF NextFramework, TypeOK
<1>3. pc' \in [Programs -> Steps] /\ todo' \in [Programs -> SUBSET Frameworks]
  BY DEF NextFramework, TypeOK, Steps
<1>4. job' \in [Programs -> Job]
  <2>1. job[p].force \in BOOLEAN
    BY DEF TypeOK, Job
  <2>2. \A b \in BOOLEAN : [NoJob EXCEPT !.force = b] \in Job
    BY NoneType DEF Job
  <2> QED
    BY <2>1, <2>2 DEF NextFramework, TypeOK
<1> QED
  BY <1>2, <1>3, <1>4 DEF ProgramType

LEMMA TypeInductive == TypeOK /\ StepInv /\ [Next]_vars => TypeOK'
<1> SUFFICES ASSUME TypeOK, StepInv, [Next]_vars PROVE TypeOK'
  OBVIOUS
<1> USE IngestionAssumption
<1>1. ASSUME ProgramType', UNCHANGED <<Lasting, overlapped>>,
             clis' \in 0..MaxCli, failures' \in 0..MaxFailures
      PROVE  TypeOK'
  BY <1>1 DEF ProgramType, TypeOK, Lasting
<1>2. ASSUME Fails PROVE failures' \in 0..MaxFailures
  BY <1>2 DEF Fails, TypeOK
<1>3. clis \in 0..MaxCli /\ failures \in 0..MaxFailures
  BY DEF TypeOK
<1>4. CASE TickStart
  <2>1. {f \in Frameworks : versions[f] # <<>> /\ ~checked[f]} \subseteq Frameworks
    OBVIOUS
  <2>2. ProgramType'
    BY <1>4, <2>1 DEF TickStart, TypeOK, ProgramType, Steps
  <2> QED
    BY <1>1, <1>3, <1>4, <2>2 DEF TickStart, Bounds
<1>5. ASSUME NEW codes \in SUBSET Frameworks, NEW force \in BOOLEAN, CliStart(codes, force)
      PROVE  TypeOK'
  <2>1. [NoJob EXCEPT !.force = force] \in Job
    BY NoneType DEF Job
  <2>2. ProgramType'
    BY <1>5, <2>1 DEF CliStart, TypeOK, ProgramType, Steps
  <2>3. clis' \in 0..MaxCli
    BY <1>5 DEF CliStart, TypeOK
  <2> QED
    BY <1>1, <1>3, <1>5, <2>2, <2>3 DEF CliStart
<1>6. ASSUME NEW p \in Programs, NEW f \in Frameworks, Fetch(p, f) PROVE TypeOK'
  <2>1. source[f] \in 0..MaxText
    BY DEF TypeOK
  <2>2. job' \in [Programs -> Job]
    <3>1. [job[p] EXCEPT !.fw = f, !.text = source[f]] \in Job
      <4>1. \A j \in Job, t \in 0..MaxText : [j EXCEPT !.fw = f, !.text = t] \in Job
        BY DEF Job
      <4> QED
        BY <2>1, <4>1 DEF TypeOK
    <3>2. job' = [job EXCEPT ![p] = [job[p] EXCEPT !.fw = f, !.text = source[f]]]
      BY <1>6 DEF Fetch, TypeOK
    <3> QED
      BY <3>1, <3>2 DEF TypeOK
  <2>3. ProgramType'
    BY <1>6, <2>2 DEF Fetch, TypeOK, ProgramType, Steps
  <2> QED
    BY <1>1, <1>3, <1>6, <2>3 DEF Fetch, Bounds
<1>7. ASSUME NEW p \in Programs, NEW f \in Frameworks, FetchFails(p, f) PROVE TypeOK'
  <2>1. tick' \in [seen : SUBSET Frameworks, told : SUBSET (Frameworks \X (1..MaxText))]
    BY <1>7 DEF FetchFails, TypeOK
  <2>2. ProgramType'
    BY <1>7, <2>1 DEF FetchFails, TypeOK, ProgramType, Steps
  <2> QED
    BY <1>1, <1>2, <1>3, <1>7, <2>2 DEF FetchFails
<1>8. ASSUME NEW p \in Programs, NEW base \in Nat, ReadUnchanged(p, base) PROVE TypeOK'
  <2>1. pc[p] \in InHand /\ NextFramework(p, {}) /\ {} \subseteq Frameworks \X (1..MaxText)
    BY <1>8 DEF ReadUnchanged, Reads, InHand
  <2>2. staged' \in [Programs -> [Frameworks -> Staged]]
    BY <1>8 DEF ReadUnchanged, TypeOK
  <2>3. ProgramType'
    BY <2>1, <2>2, NextType
  <2> QED
    BY <1>1, <1>3, <1>8, <2>3 DEF ReadUnchanged, Bounds
<1>9. ASSUME NEW p \in Programs, NEW base \in Nat, ReadChanged(p, base) PROVE TypeOK'
  <2>1. job[p].fw \in Frameworks
    BY <1>9 DEF ReadChanged, Reads, StepInv, Stepping, InHand, TypeOK
  <2>2. job' \in [Programs -> Job]
    BY <1>9 DEF ReadChanged, TypeOK, Job
  <2>3. ProgramType'
    BY <1>9, <2>2 DEF ReadChanged, TypeOK, ProgramType, Steps
  <2>4. overlapped' \subseteq Frameworks
    BY <1>9, <2>1 DEF ReadChanged, TypeOK
  <2> QED
    BY <1>3, <1>9, <2>3, <2>4 DEF ReadChanged, ProgramType, TypeOK, Lasting
<1>10. ASSUME NEW p \in Programs, ReadLabels(p) PROVE TypeOK'
  <2> DEFINE taken == Labels(job[p].fw)
  <2> DEFINE first == CHOOSE n \in 0..Cardinality(taken) :
                        n \notin taken /\ \A k \in 0..n - 1 : k \in taken
  <2>1. job[p].fw \in Frameworks
    BY <1>10 DEF ReadLabels, StepInv, Stepping, InHand, TypeOK
  <2>2. IsFiniteSet(taken) /\ Cardinality(taken) \in Nat
    BY <2>1, LabelsFinite, FS_CardinalityType
  <2>3. \E n \in 0..Cardinality(taken) : n \notin taken /\ \A k \in 0..n - 1 : k \in taken
    BY <2>2, FirstFree
  <2>4. first \in 0..Cardinality(taken)
    BY <2>3
  <2>5. first \in Nat
    BY <2>2, <2>4
  <2>6. job' = [job EXCEPT ![p].label = first]
    BY <1>10 DEF ReadLabels
  <2> HIDE DEF first, taken
  <2>7. job' \in [Programs -> Job]
    BY <2>5, <2>6 DEF TypeOK, Job
  <2>8. ProgramType'
    BY <1>10, <2>7 DEF ReadLabels, TypeOK, ProgramType, Steps
  <2> QED
    BY <1>1, <1>3, <1>10, <2>8 DEF ReadLabels, Bounds
<1>11. ASSUME NEW p \in Programs, Update(p) PROVE TypeOK'
  <2>1. [NoVersion EXCEPT !.base = job[p].base] \in Staged
    BY NoneType DEF TypeOK, Job, Staged
  <2>2. staged' \in [Programs -> [Frameworks -> Staged]]
    BY <1>11, <2>1 DEF Update, TypeOK
  <2>3. ProgramType'
    BY <1>11, <2>2 DEF Update, TypeOK, ProgramType, Steps
  <2> QED
    BY <1>1, <1>3, <1>11, <2>3 DEF Update, Bounds
<1>12. ASSUME NEW p \in Programs, Insert(p) PROVE TypeOK'
  <2>1. [base |-> job[p].base, label |-> job[p].label, text |-> job[p].text,
         embedded |-> FALSE] \in Staged
    BY DEF TypeOK, Job, Staged
  <2>2. staged' \in [Programs -> [Frameworks -> Staged]]
    BY <1>12, <2>1 DEF Insert, TypeOK
  <2>3. ProgramType'
    BY <1>12, <2>2 DEF Insert, TypeOK, ProgramType, Steps
  <2> QED
    BY <1>1, <1>3, <1>12, <2>3 DEF Insert, Bounds
<1>13. ASSUME NEW p \in Programs, Embed(p) PROVE TypeOK'
  <2>1. pc[p] \in InHand /\ NextFramework(p, News(p)) /\ Mail(p, News(p))
    BY <1>13 DEF Embed, InHand
  <2>2. job[p].fw \in Frameworks /\ job[p].text \in 1..MaxText
    BY <2>1 DEF StepInv, Stepping, TypeOK, Job
  <2>3. News(p) \subseteq Frameworks \X (1..MaxText)
    BY <2>2 DEF News
  <2>4. staged' \in [Programs -> [Frameworks -> Staged]]
    <3>1. [staged[p][job[p].fw] EXCEPT !.embedded = TRUE] \in Staged
      <4>1. \A s \in Staged : [s EXCEPT !.embedded = TRUE] \in Staged
        BY DEF Staged
      <4> QED
        BY <2>2, <4>1 DEF TypeOK
    <3> QED
      BY <1>13, <2>2, <3>1 DEF Embed, TypeOK
  <2>5. ProgramType'
    BY <2>1, <2>3, <2>4, NextType
  <2>6. mailed' \subseteq Frameworks \X (1..MaxText)
    BY <2>1, <2>3 DEF Mail, TypeOK
  <2> QED
    BY <1>3, <1>13, <2>5, <2>6 DEF Embed, Bounds, ProgramType, TypeOK
<1>14. ASSUME NEW p \in Programs, EmbedFails(p) PROVE TypeOK'
  <2>1. CASE p = "watch"
    <3>1. pc[p] \in InHand /\ NextFramework(p, {}) /\ {} \subseteq Frameworks \X (1..MaxText)
      BY <1>14, <2>1 DEF EmbedFails, InHand
    <3>2. staged' \in [Programs -> [Frameworks -> Staged]]
      BY <1>14, <2>1 DEF EmbedFails, TypeOK
    <3>3. ProgramType'
      BY <3>1, <3>2, NextType
    <3> QED
      BY <1>1, <1>2, <1>3, <1>14, <3>3 DEF EmbedFails
  <2>2. CASE p # "watch"
    BY <1>1, <1>2, <1>3, <1>14, <2>2, EndType DEF EmbedFails
  <2> QED
    BY <2>1, <2>2
<1>15. ASSUME NEW p \in Programs, Abort(p) \/ InsertFails(p) \/ Deadlock(p) PROVE TypeOK'
  BY <1>1, <1>2, <1>3, <1>15, EndType DEF Abort, InsertFails, Deadlock, Bounds
<1>16. ASSUME NEW p \in Programs, Commit(p) PROVE TypeOK'
  <2>1. ProgramType'
    BY <1>16, EndType DEF Commit
  <2>2. ASSUME NEW f \in Frameworks PROVE Committed(p, f) \in Seq(Version)
    <3>1. Flushed(p, f) => staged[p][f].label \in Nat /\ staged[p][f].text \in 1..MaxText
      <4>1. Flushed(p, f) => staged[p][f].label \in Nat /\ staged[p][f].text # 0
        BY <1>16 DEF Commit, StepInv, Stepping
      <4>2. staged[p][f].text \in 0..MaxText
        BY DEF TypeOK, Staged
      <4> QED
        BY <4>1, <4>2
    <3>2. versions[f] \in Seq(Version)
      BY DEF TypeOK
    <3> QED
      BY <3>1, <3>2, CommittedRows
  <2>3. versions' \in [Frameworks -> Seq(Version)]
    BY <1>16, <2>2 DEF Commit
  <2>4. checked' \in [Frameworks -> BOOLEAN]
    BY <1>16 DEF Commit, TypeOK
  <2>5. told' \subseteq Frameworks \X (1..MaxText)
    BY <1>16 DEF Commit, TypeOK
  <2> QED
    BY <1>3, <1>16, <2>1, <2>3, <2>4, <2>5 DEF Commit, ProgramType, TypeOK, Bounds
<1>17. ASSUME NEW f \in Frameworks, Publish(f) PROVE TypeOK'
  BY <1>17 DEF Publish, TypeOK, Bounds
<1>18. CASE Elapse
  BY <1>18 DEF Elapse, TypeOK, Bounds
<1>19. CASE UNCHANGED vars
  BY <1>19 DEF vars, TypeOK
<1>20. 0..1 + MaxText + MaxCli \subseteq Nat
  OBVIOUS
<1> QED
  BY <1>4, <1>5, <1>6, <1>7, <1>8, <1>9, <1>10, <1>11, <1>12, <1>13, <1>14, <1>15, <1>16, <1>17,
     <1>18, <1>19, <1>20 DEF Next, Proceed

(***************************************************************************)
(* The steps of a program                                                  *)
(***************************************************************************)
\* What a step of p leaves to the other program.
OthersKept(p) ==
  \A q \in Programs \ {p} : /\ pc'[q] = pc[q] /\ todo'[q] = todo[q]
                            /\ job'[q] = job[q] /\ staged'[q] = staged[q]

LEMMA SteppingOthers ==
  ASSUME StepInv, NEW p, OthersKept(p), NEW q \in Programs, q # p PROVE Stepping(q)'
BY DEF StepInv, Stepping, OthersKept, Flushed

LEMMA SteppingEnd ==
  ASSUME TypeOK, NEW p \in Programs, End(p) PROVE Stepping(p)' /\ OthersKept(p)
BY DEF TypeOK, End, Stepping, OthersKept, Flushed, InHand

\* p goes on with the next framework, what it flushed being kept.
LEMMA SteppingNext ==
  ASSUME TypeOK, StepInv, NEW p \in Programs, pc[p] \in InHand, NEW news, NextFramework(p, news),
         \A f \in Frameworks : /\ staged'[p][f].label = staged[p][f].label
                               /\ staged'[p][f].text = staged[p][f].text
                               /\ Flushed(p, f)' => Flushed(p, f) /\ staged[p][f].text # 0,
         pc[p] # "insert", \A q \in Programs \ {p} : staged'[q] = staged[q]
  PROVE  Stepping(p)' /\ OthersKept(p)
<1>1. Stepping(p) /\ job[p].fw \in todo[p] /\ job[p].fw \in Frameworks
  BY DEF StepInv, Stepping, TypeOK
<1>2. OthersKept(p)
  BY DEF TypeOK, NextFramework, OthersKept
<1>3. /\ pc'[p] = IF todo[p] = {job[p].fw} THEN "commit" ELSE "fetch"
      /\ todo'[p] = todo[p] \ {job[p].fw}
  BY DEF TypeOK, NextFramework
<1>4. ASSUME NEW f \in Frameworks, Flushed(p, f)'
      PROVE  /\ f \notin todo'[p]
             /\ staged'[p][f].label \in Nat /\ staged'[p][f].text # 0
  BY <1>1, <1>3, <1>4 DEF Stepping
<1>5. pc'[p] = "commit" => todo'[p] = {}
  BY <1>3
<1> QED
  BY <1>2, <1>3, <1>4, <1>5 DEF Stepping, InHand

LEMMA StepInductive == TypeOK /\ StepInv /\ [Next]_vars => StepInv'
<1> SUFFICES ASSUME TypeOK, StepInv, [Next]_vars PROVE StepInv'
  OBVIOUS
<1> USE IngestionAssumption
<1>1. ASSUME NEW p \in Programs, Stepping(p)', OthersKept(p) PROVE StepInv'
  BY <1>1, SteppingOthers DEF StepInv
<1>2. ASSUME UNCHANGED <<pc, todo, job, staged>> PROVE StepInv'
  BY <1>2 DEF StepInv, Stepping, Flushed
<1>3. "watch" \in Programs /\ "cli" \in Programs
  BY DEF Programs
<1>4. CASE TickStart
  BY <1>1, <1>3, <1>4 DEF TickStart, TypeOK, StepInv, Stepping, OthersKept, Flushed, InHand
<1>5. ASSUME NEW codes \in SUBSET Frameworks, NEW force \in BOOLEAN, CliStart(codes, force)
      PROVE  StepInv'
  BY <1>1, <1>3, <1>5 DEF CliStart, TypeOK, StepInv, Stepping, OthersKept, Flushed, InHand
<1>6. ASSUME NEW p \in Programs, NEW f \in Frameworks, Fetch(p, f) PROVE StepInv'
  <2>1. /\ pc[p] = "fetch" /\ pc'[p] = "read" /\ UNCHANGED <<staged, todo>> /\ f \in todo[p]
        /\ job'[p].fw = f /\ job'[p].text = source[f]
    BY <1>6 DEF Fetch, TypeOK, Job
  <2>2. source[f] # 0
    BY DEF TypeOK
  <2>3. OthersKept(p)
    BY <1>6 DEF Fetch, TypeOK, OthersKept
  <2>4. Stepping(p)'
    BY <2>1, <2>2 DEF StepInv, Stepping, Flushed, InHand
  <2> QED
    BY <1>1, <2>3, <2>4
<1>7. ASSUME NEW p \in Programs, NEW f \in Frameworks, FetchFails(p, f) PROVE StepInv'
  <2>1. /\ pc[p] = "fetch" /\ pc'[p] = (IF todo[p] = {f} THEN "commit" ELSE "fetch")
        /\ todo'[p] = todo[p] \ {f} /\ UNCHANGED <<staged, job>>
    BY <1>7 DEF FetchFails, TypeOK
  <2>2. OthersKept(p)
    BY <1>7 DEF FetchFails, TypeOK, OthersKept
  <2>3. Stepping(p)'
    BY <2>1 DEF StepInv, Stepping, Flushed, InHand
  <2> QED
    BY <1>1, <2>2, <2>3
<1>8. ASSUME NEW p \in Programs, NEW base \in Nat, ReadUnchanged(p, base) PROVE StepInv'
  <2>1. pc[p] = "read" /\ pc[p] \in InHand /\ NextFramework(p, {}) /\ UNCHANGED staged
    BY <1>8 DEF ReadUnchanged, Reads, InHand
  <2>2. \A f \in Frameworks : Flushed(p, f)' => Flushed(p, f) /\ staged[p][f].text # 0
    BY <2>1 DEF StepInv, Stepping, Flushed
  <2> QED
    BY <1>1, <2>1, <2>2, SteppingNext
<1>9. ASSUME NEW p \in Programs, NEW base \in Nat, ReadChanged(p, base) PROVE StepInv'
  <2>1. /\ pc[p] = "read" /\ pc'[p] \in {"insert", "labels"} /\ UNCHANGED <<staged, todo>>
        /\ job'[p].fw = job[p].fw /\ job'[p].text = job[p].text
    BY <1>9 DEF ReadChanged, Reads, TypeOK, Job
  <2>2. OthersKept(p)
    BY <1>9 DEF ReadChanged, TypeOK, OthersKept
  <2>3. job[p].fw \in Frameworks
    BY <2>1 DEF StepInv, Stepping, InHand, TypeOK
  <2>4. Stepping(p)'
    BY <2>1, <2>3 DEF StepInv, Stepping, Flushed, InHand
  <2> QED
    BY <1>1, <2>2, <2>4
<1>10. ASSUME NEW p \in Programs, ReadLabels(p) PROVE StepInv'
  <2>1. /\ pc[p] = "labels" /\ pc'[p] = "update" /\ UNCHANGED <<staged, todo>>
        /\ job'[p].fw = job[p].fw /\ job'[p].text = job[p].text
    BY <1>10 DEF ReadLabels, TypeOK, Job
  <2>2. OthersKept(p)
    BY <1>10 DEF ReadLabels, TypeOK, OthersKept
  <2>3. Stepping(p)'
    BY <2>1 DEF StepInv, Stepping, Flushed, InHand
  <2> QED
    BY <1>1, <2>2, <2>3
<1>11. ASSUME NEW p \in Programs, Update(p) PROVE StepInv'
  <2> DEFINE f == job[p].fw
  <2>1. pc[p] = "update" /\ pc'[p] = "insert" /\ UNCHANGED <<job, todo>>
    BY <1>11 DEF Update, TypeOK
  <2>2. f \in Frameworks
    BY <2>1 DEF StepInv, Stepping, InHand, TypeOK
  <2>3. /\ staged'[p][f].base = job[p].base
        /\ \A g \in Frameworks \ {f} : staged'[p][g] = staged[p][g]
    BY <1>11, <2>2 DEF Update, TypeOK, NoVersion
  <2>4. OthersKept(p)
    BY <1>11 DEF Update, TypeOK, OthersKept
  <2>5. Stepping(p)'
    BY <2>1, <2>2, <2>3 DEF StepInv, Stepping, Flushed, InHand
  <2> QED
    BY <1>1, <2>4, <2>5
<1>12. ASSUME NEW p \in Programs, Insert(p) PROVE StepInv'
  <2> DEFINE f == job[p].fw
  <2>1. pc[p] = "insert" /\ pc'[p] = "embed" /\ UNCHANGED <<job, todo>>
    BY <1>12 DEF Insert, KeyFree, TypeOK
  <2>2. f \in Frameworks /\ job[p].text # 0 /\ job[p].label \in Nat
    BY <2>1 DEF StepInv, Stepping, InHand, TypeOK, Job
  <2>3. /\ staged'[p][f].base = job[p].base /\ staged'[p][f].label = job[p].label
        /\ staged'[p][f].text = job[p].text
        /\ \A g \in Frameworks \ {f} : staged'[p][g] = staged[p][g]
    BY <1>12, <2>2 DEF Insert, TypeOK
  <2>4. OthersKept(p)
    BY <1>12 DEF Insert, TypeOK, OthersKept
  <2>5. Flushed(p, f)'
    BY <2>1, <2>2, <2>3 DEF Flushed, NoVersion
  <2>6. Stepping(p)'
    BY <2>1, <2>2, <2>3, <2>5 DEF StepInv, Stepping, Flushed, InHand
  <2> QED
    BY <1>1, <2>4, <2>6
<1>13. ASSUME NEW p \in Programs, Embed(p) PROVE StepInv'
  <2> DEFINE f == job[p].fw
  <2>1. pc[p] = "embed" /\ pc[p] \in InHand /\ NextFramework(p, News(p))
    BY <1>13 DEF Embed, InHand
  <2>2. /\ f \in Frameworks /\ Flushed(p, f) /\ f \in todo[p]
        /\ \A g \in Frameworks : Flushed(p, g) => staged[p][g].text # 0
    BY <2>1 DEF StepInv, Stepping, InHand, TypeOK
  <2>3. /\ \A g \in Frameworks : /\ staged'[p][g].label = staged[p][g].label
                                 /\ staged'[p][g].text = staged[p][g].text
        /\ \A g \in Frameworks \ {f} : staged'[p][g] = staged[p][g]
        /\ \A q \in Programs \ {p} : staged'[q] = staged[q]
    BY <1>13, <2>2 DEF Embed, TypeOK, Staged
  <2>4. \A g \in Frameworks : Flushed(p, g)' => Flushed(p, g) /\ staged[p][g].text # 0
    BY <2>2, <2>3 DEF Flushed
  <2> QED
    BY <1>1, <2>1, <2>3, <2>4, SteppingNext
<1>14. ASSUME NEW p \in Programs, EmbedFails(p) PROVE StepInv'
  <2>1. CASE p = "watch"
    <3>1. pc[p] = "embed" /\ pc[p] \in InHand /\ NextFramework(p, {}) /\ UNCHANGED staged
      BY <1>14, <2>1 DEF EmbedFails, InHand
    <3>2. \A f \in Frameworks : Flushed(p, f)' => Flushed(p, f) /\ staged[p][f].text # 0
      BY <3>1 DEF StepInv, Stepping, Flushed
    <3> QED
      BY <1>1, <3>1, <3>2, SteppingNext
  <2>2. CASE p # "watch"
    BY <1>1, <1>14, <2>2, SteppingEnd DEF EmbedFails
  <2> QED
    BY <2>1, <2>2
<1>15. ASSUME NEW p \in Programs, Abort(p) \/ InsertFails(p) \/ Deadlock(p) \/ Commit(p)
       PROVE  StepInv'
  BY <1>1, <1>15, SteppingEnd DEF Abort, InsertFails, Deadlock, Commit
<1>16. CASE (\E f \in Frameworks : Publish(f)) \/ Elapse \/ UNCHANGED vars
  BY <1>2, <1>16 DEF Publish, Elapse, vars
<1>17. 0..1 + MaxText + MaxCli \subseteq Nat
  OBVIOUS
<1> QED
  BY <1>4, <1>5, <1>6, <1>7, <1>8, <1>9, <1>10, <1>11, <1>12, <1>13, <1>14, <1>15, <1>16, <1>17
  DEF Next, Proceed

LEMMA Initially == Init => TypeOK /\ StepInv
<1> SUFFICES ASSUME Init PROVE TypeOK /\ StepInv
  OBVIOUS
<1> USE IngestionAssumption
<1>1. versions \in [Frameworks -> Seq(Version)]
  <2>1. [label |-> 0, text |-> 1, current |-> TRUE, embedded |-> TRUE] \in Version
    BY DEF Version
  <2>2. <<[label |-> 0, text |-> 1, current |-> TRUE, embedded |-> TRUE]>> \in Seq(Version)
    BY <2>1
  <2>3. <<>> \in Seq(Version)
    OBVIOUS
  <2> QED
    BY <2>2, <2>3 DEF Init
<1>2. source \in [Frameworks -> 1..MaxText] /\ checked \in [Frameworks -> BOOLEAN] /\ told = {}
      /\ mailed = {}
  BY DEF Init
<1>3. ProgramType
  BY NoneType DEF Init, ProgramType, Steps, NoTick
<1>4. clis \in 0..MaxCli /\ failures \in 0..MaxFailures /\ overlapped = {}
  BY DEF Init
<1>5. StepInv
  BY DEF Init, StepInv, Stepping, Flushed, InHand
<1> QED
  BY <1>1, <1>2, <1>3, <1>4, <1>5 DEF TypeOK, ProgramType

LEMMA TypeInv == Spec => [](TypeOK /\ StepInv)
BY Initially, TypeInductive, StepInductive, PTL DEF Spec

\* Every variable of the model keeps its type.
THEOREM TypeCorrect == Spec => []TypeOK
BY TypeInv, PTL

(***************************************************************************)
(* Versions in force                                                       *)
(***************************************************************************)
\* Only the commit of a program changes the versions, of what it flushed.
LEMMA VersionSteps ==
  ASSUME TypeOK, [Next]_vars, NEW f \in Frameworks
  PROVE  \/ versions'[f] = versions[f]
         \/ \E p \in Programs : /\ Commit(p) /\ Flushed(p, f)
                                /\ Grows(versions'[f], versions[f], staged[p][f])
<1>1. CASE UNCHANGED versions
  BY <1>1
<1>2. ASSUME NEW p \in Programs, Commit(p)
      PROVE  \/ versions'[f] = versions[f]
             \/ Flushed(p, f) /\ Grows(versions'[f], versions[f], staged[p][f])
  <2>1. versions'[f] = Committed(p, f)
    BY <1>2 DEF Commit
  <2> QED
    BY <2>1, CommittedRows
<1>3. UNCHANGED versions \/ \E p \in Programs : Commit(p)
  BY DEF Next, Proceed, TickStart, CliStart, Fetch, FetchFails, ReadUnchanged, ReadChanged,
         ReadLabels, Update, Insert, InsertFails, Embed, EmbedFails, Abort, Deadlock, Publish,
         Elapse, vars, Lasting
<1> QED
  BY <1>1, <1>2, <1>3

LEMMA GrowsInForce ==
  ASSUME TypeOK, NEW f \in Frameworks, NEW s, Grows(versions'[f], versions[f], s)
  PROVE  /\ Len(versions'[f]) \in InForce(f)'
         /\ \A i \in InForce(f)' : i = Len(versions'[f]) \/ (i \in InForce(f) /\ i # s.base)
         /\ \A i \in DOMAIN versions[f] : i \in DOMAIN versions'[f]
<1>1. /\ versions[f] \in Seq(Version) /\ Len(versions[f]) \in Nat
      /\ DOMAIN versions[f] = 1..Len(versions[f])
  BY DEF TypeOK
<1>2. NewRow(s).current
  BY DEF NewRow
<1>3. /\ Len(versions'[f]) = Len(versions[f]) + 1 /\ DOMAIN versions'[f] = 1..Len(versions'[f])
      /\ versions'[f][Len(versions'[f])].current
      /\ \A i \in DOMAIN versions[f] :
           versions'[f][i].current = (versions[f][i].current /\ i # s.base)
  BY <1>2 DEF Grows
<1>4. DOMAIN versions'[f] = DOMAIN versions[f] \cup {Len(versions'[f])}
  BY <1>1, <1>3
<1> QED
  BY <1>3, <1>4 DEF InForce

LEMMA AlwaysInductive == TypeOK /\ AlwaysInForce /\ [Next]_vars => AlwaysInForce'
<1> SUFFICES ASSUME TypeOK, AlwaysInForce, [Next]_vars, NEW f \in Frameworks,
                    versions'[f] # <<>>
             PROVE  InForce(f)' # {}
  BY DEF AlwaysInForce
<1>1. CASE versions'[f] = versions[f]
  BY <1>1 DEF AlwaysInForce, InForce
<1>2. ASSUME NEW p \in Programs, Grows(versions'[f], versions[f], staged[p][f])
      PROVE  InForce(f)' # {}
  BY <1>2, GrowsInForce
<1> QED
  BY <1>1, <1>2, VersionSteps

\* Once ingested, a framework has a version in force at every moment, whatever
\* fails in the middle of the switch.
THEOREM InForceAlways == Spec => []AlwaysInForce
<1>1. Init => AlwaysInForce
  <2> SUFFICES ASSUME Init, NEW f \in Frameworks, versions[f] # <<>> PROVE InForce(f) # {}
    BY DEF AlwaysInForce
  <2>1. versions[f] = <<[label |-> 0, text |-> 1, current |-> TRUE, embedded |-> TRUE]>>
    BY DEF Init
  <2>2. 1 \in DOMAIN versions[f] /\ versions[f][1].current
    BY <2>1
  <2> QED
    BY <2>2 DEF InForce
<1> QED
  BY <1>1, TypeInv, AlwaysInductive, PTL DEF Spec

\* The version in force that p read before it ingests f, 0 for none.
Base(p, f) == IF Flushed(p, f) THEN staged[p][f].base ELSE job[p].base

\* Unless two programs overlap on f, who ingests it is alone and replaces the
\* one version in force.
ForceInv ==
  \A f \in Frameworks \ overlapped :
    /\ \A i, j \in InForce(f) : i = j
    /\ \A p \in Programs : Ingesting(p, f) =>
         /\ \A i : i \in InForce(f) <=> Base(p, f) # 0 /\ i = Base(p, f)
         /\ ~Ingesting(Other(p), f)

\* Nobody starts to ingest f, or changes what it is to replace.
SameHands(f) ==
  \A p \in Programs : Ingesting(p, f)' => Ingesting(p, f) /\ Base(p, f)' = Base(p, f)

LEMMA HandsOthers ==
  ASSUME NEW p, OthersKept(p), NEW f \in Frameworks, NEW q \in Programs, q # p, Ingesting(q, f)'
  PROVE  Ingesting(q, f) /\ Base(q, f)' = Base(q, f)
BY DEF OthersKept, Ingesting, Base, Flushed

LEMMA HandsNext ==
  ASSUME TypeOK, StepInv, NEW p \in Programs, NEW news, NextFramework(p, news),
         NEW f \in Frameworks, Flushed(p, f)' => Flushed(p, f),
         staged'[p][f].base = staged[p][f].base, Ingesting(p, f)'
  PROVE  Ingesting(p, f) /\ Base(p, f)' = Base(p, f)
<1>1. pc'[p] \in {"commit", "fetch"}
  BY DEF NextFramework, TypeOK
<1> QED
  BY <1>1 DEF Ingesting, Base

LEMMA HandSteps ==
  ASSUME TypeOK, StepInv, [Next]_vars, NEW f \in Frameworks
  PROVE  \/ SameHands(f)
         \/ \E p \in Programs, base \in Nat : ReadChanged(p, base)
<1> USE IngestionAssumption
<1>1. ASSUME NEW p \in Programs, OthersKept(p),
             Ingesting(p, f)' => Ingesting(p, f) /\ Base(p, f)' = Base(p, f)
      PROVE  SameHands(f)
  BY <1>1, HandsOthers DEF SameHands
<1>2. ASSUME NEW p \in Programs, End(p) PROVE SameHands(f)
  <2>1. pc'[p] = "idle" /\ staged'[p][f] = NoVersion
    BY <1>2 DEF End, TypeOK
  <2>2. ~Ingesting(p, f)'
    BY <2>1 DEF Ingesting, Flushed
  <2> QED
    BY <1>1, <1>2, <2>2, SteppingEnd
<1>3. CASE TickStart
  BY <1>3 DEF TickStart, TypeOK, SameHands, Ingesting, Base, Flushed, Programs
<1>4. ASSUME NEW codes \in SUBSET Frameworks, NEW force \in BOOLEAN, CliStart(codes, force)
      PROVE  SameHands(f)
  BY <1>4 DEF CliStart, TypeOK, SameHands, Ingesting, Base, Flushed, Programs
<1>5. ASSUME NEW p \in Programs, NEW g \in Frameworks, Fetch(p, g) PROVE SameHands(f)
  BY <1>5 DEF Fetch, TypeOK, SameHands, Ingesting, Base, Flushed
<1>6. ASSUME NEW p \in Programs, NEW g \in Frameworks, FetchFails(p, g) PROVE SameHands(f)
  BY <1>6 DEF FetchFails, TypeOK, SameHands, Ingesting, Base, Flushed
<1>7. ASSUME NEW p \in Programs, NEW base \in Nat, ReadUnchanged(p, base) PROVE SameHands(f)
  <2>1. NextFramework(p, {}) /\ UNCHANGED staged
    BY <1>7 DEF ReadUnchanged
  <2>2. OthersKept(p)
    BY <2>1 DEF NextFramework, TypeOK, OthersKept
  <2> QED
    BY <1>1, <2>1, <2>2, HandsNext DEF Flushed
<1>8. ASSUME NEW p \in Programs, ReadLabels(p) PROVE SameHands(f)
  <2>1. /\ pc[p] = "labels" /\ UNCHANGED staged
        /\ job'[p].fw = job[p].fw /\ job'[p].base = job[p].base
    BY <1>8 DEF ReadLabels, TypeOK, Job
  <2>2. OthersKept(p)
    BY <1>8 DEF ReadLabels, TypeOK, OthersKept
  <2> QED
    BY <1>1, <2>1, <2>2 DEF Ingesting, Base, Flushed
<1>9. ASSUME NEW p \in Programs, Update(p) PROVE SameHands(f)
  <2>1. pc[p] = "update" /\ pc'[p] = "insert" /\ UNCHANGED job
    BY <1>9 DEF Update, TypeOK
  <2>2. job[p].fw \in Frameworks /\ ~Flushed(p, job[p].fw)
    BY <2>1 DEF StepInv, Stepping, InHand, TypeOK
  <2>3. /\ staged'[p][job[p].fw].base = job[p].base
        /\ \A g \in Frameworks \ {job[p].fw} : staged'[p][g] = staged[p][g]
    BY <1>9, <2>2 DEF Update, TypeOK, NoVersion
  <2>4. OthersKept(p)
    BY <1>9 DEF Update, TypeOK, OthersKept
  <2> QED
    BY <1>1, <2>1, <2>2, <2>3, <2>4 DEF Ingesting, Base, Flushed
<1>10. ASSUME NEW p \in Programs, Insert(p) PROVE SameHands(f)
  <2>1. pc[p] = "insert" /\ pc'[p] = "embed" /\ UNCHANGED job
    BY <1>10 DEF Insert, KeyFree, TypeOK
  <2>2. /\ job[p].fw \in Frameworks
        /\ Flushed(p, job[p].fw) => staged[p][job[p].fw].base = job[p].base
    BY <2>1 DEF StepInv, Stepping, InHand, TypeOK
  <2>3. /\ staged'[p][job[p].fw].base = job[p].base
        /\ \A g \in Frameworks \ {job[p].fw} : staged'[p][g] = staged[p][g]
    BY <1>10, <2>2 DEF Insert, TypeOK
  <2>4. OthersKept(p)
    BY <1>10 DEF Insert, TypeOK, OthersKept
  <2> QED
    BY <1>1, <2>1, <2>2, <2>3, <2>4 DEF Ingesting, Base, Flushed
<1>11. ASSUME NEW p \in Programs, Embed(p) PROVE SameHands(f)
  <2>1. pc[p] = "embed" /\ NextFramework(p, News(p))
    BY <1>11 DEF Embed
  <2>2. job[p].fw \in Frameworks /\ Flushed(p, job[p].fw)
    BY <2>1 DEF StepInv, Stepping, InHand, TypeOK
  <2>3. /\ \A g \in Frameworks : staged'[p][g].base = staged[p][g].base
        /\ \A g \in Frameworks \ {job[p].fw} : staged'[p][g] = staged[p][g]
    BY <1>11, <2>2 DEF Embed, TypeOK, Staged
  <2>4. OthersKept(p)
    BY <1>11 DEF Embed, NextFramework, TypeOK, OthersKept
  <2> QED
    BY <1>1, <2>1, <2>2, <2>3, <2>4, HandsNext DEF Flushed
<1>12. ASSUME NEW p \in Programs, EmbedFails(p) PROVE SameHands(f)
  <2>1. CASE p = "watch"
    <3>1. NextFramework(p, {}) /\ UNCHANGED staged
      BY <1>12, <2>1 DEF EmbedFails
    <3>2. OthersKept(p)
      BY <3>1 DEF NextFramework, TypeOK, OthersKept
    <3> QED
      BY <1>1, <3>1, <3>2, HandsNext DEF Flushed
  <2>2. CASE p # "watch"
    BY <1>2, <1>12, <2>2 DEF EmbedFails
  <2> QED
    BY <2>1, <2>2
<1>13. ASSUME NEW p \in Programs, Abort(p) \/ InsertFails(p) \/ Deadlock(p) \/ Commit(p)
       PROVE  SameHands(f)
  BY <1>2, <1>13 DEF Abort, InsertFails, Deadlock, Commit
<1>14. CASE (\E g \in Frameworks : Publish(g)) \/ Elapse \/ UNCHANGED vars
  BY <1>14 DEF Publish, Elapse, vars, SameHands, Ingesting, Base, Flushed
<1>15. 0..1 + MaxText + MaxCli \subseteq Nat
  OBVIOUS
<1> QED
  BY <1>3, <1>4, <1>5, <1>6, <1>7, <1>8, <1>9, <1>10, <1>11, <1>12, <1>13, <1>14, <1>15
  DEF Next, Proceed

LEMMA ForceInductive == TypeOK /\ StepInv /\ ForceInv /\ [Next]_vars => ForceInv'
<1> SUFFICES ASSUME TypeOK, StepInv, ForceInv, [Next]_vars,
                    NEW f \in Frameworks, f \notin overlapped'
             PROVE  /\ \A i, j \in InForce(f)' : i = j
                    /\ \A p \in Programs : Ingesting(p, f)' =>
                         /\ \A i : i \in InForce(f)' <=> Base(p, f)' # 0 /\ i = Base(p, f)'
                         /\ ~Ingesting(Other(p), f)'
  BY DEF ForceInv
<1>1. f \notin overlapped
  BY DEF Next, Proceed, TickStart, CliStart, Fetch, FetchFails, ReadUnchanged, ReadChanged,
         ReadLabels, Update, Insert, InsertFails, Embed, EmbedFails, Commit, Abort, Deadlock,
         Publish, Elapse, vars, Bounds
<1>2. \A p \in Programs : Other(p) \in Programs /\ Other(p) # p
        /\ \A q \in Programs : q = p \/ q = Other(p)
  BY DEF Programs, Other
<1>3. CASE SameHands(f) /\ versions'[f] = versions[f]
  <2>1. InForce(f)' = InForce(f)
    BY <1>3 DEF InForce
  <2> QED
    BY <1>1, <1>2, <1>3, <2>1 DEF ForceInv, SameHands
<1>4. ASSUME NEW p \in Programs, Commit(p), Flushed(p, f),
             Grows(versions'[f], versions[f], staged[p][f])
      PROVE  /\ \A i, j \in InForce(f)' : i = j
             /\ \A q \in Programs : ~Ingesting(q, f)'
  <2>1. Ingesting(p, f) /\ Base(p, f) = staged[p][f].base
    BY <1>4 DEF Ingesting, Base
  <2>2. \A i \in InForce(f) : i = staged[p][f].base
    BY <1>1, <2>1 DEF ForceInv
  <2>3. \A i \in InForce(f)' : i = Len(versions'[f])
    BY <1>4, <2>2, GrowsInForce
  <2>4. ~Ingesting(Other(p), f)
    BY <1>1, <2>1 DEF ForceInv
  <2>5. End(p) /\ OthersKept(p)
    BY <1>4, SteppingEnd DEF Commit
  <2>6. ~Ingesting(Other(p), f)'
    BY <1>2, <2>4, <2>5, HandsOthers
  <2>7. ~Ingesting(p, f)'
    BY <2>5 DEF End, TypeOK, Ingesting, Flushed
  <2> QED
    BY <1>2, <2>3, <2>6, <2>7
<1>5. ASSUME NEW p \in Programs, NEW base \in Nat, ReadChanged(p, base)
      PROVE  /\ \A i, j \in InForce(f)' : i = j
             /\ \A q \in Programs : Ingesting(q, f)' =>
                  /\ \A i : i \in InForce(f)' <=> Base(q, f)' # 0 /\ i = Base(q, f)'
                  /\ ~Ingesting(Other(q), f)'
  <2>1. /\ pc[p] = "read" /\ UNCHANGED <<staged, versions>>
        /\ job'[p].fw = job[p].fw /\ job'[p].base = base
    BY <1>5 DEF ReadChanged, Reads, TypeOK, Job, Lasting
  <2>2. OthersKept(p)
    BY <1>5 DEF ReadChanged, TypeOK, OthersKept
  <2>3. InForce(f)' = InForce(f) /\ \A i \in InForce(f) : i # 0
    BY <2>1 DEF InForce, TypeOK
  <2>4. CASE f = job[p].fw
    <3>1. ~Ingesting(Other(p), f)
      BY <1>5, <2>4 DEF ReadChanged
    <3>2. ~Ingesting(Other(p), f)'
      BY <1>2, <2>2, <3>1, HandsOthers
    <3>3. ~Flushed(p, f)
      BY <2>1, <2>4 DEF StepInv, Stepping, InHand
    <3>4. Base(p, f)' = base
      BY <2>1, <3>3 DEF Base, Flushed
    <3>5. IF InForce(f) = {} THEN base = 0 ELSE base \in InForce(f)
      BY <1>5, <2>4 DEF ReadChanged, Reads
    <3>6. \A i, j \in InForce(f) : i = j
      BY <1>1 DEF ForceInv
    <3>7. \A i : i \in InForce(f) <=> base # 0 /\ i = base
      BY <2>3, <3>5, <3>6
    <3> QED
      BY <1>2, <2>3, <3>2, <3>4, <3>6, <3>7
  <2>5. CASE f # job[p].fw
    <3>1. Ingesting(p, f)' => Ingesting(p, f) /\ Base(p, f)' = Base(p, f)
      BY <2>1, <2>5 DEF Ingesting, Base, Flushed
    <3>2. \A q \in Programs : Ingesting(q, f)' => Ingesting(q, f) /\ Base(q, f)' = Base(q, f)
      BY <2>2, <3>1, HandsOthers
    <3> QED
      BY <1>1, <1>2, <2>3, <3>2 DEF ForceInv
  <2> QED
    BY <2>4, <2>5
<1>6. CASE \E p \in Programs, base \in Nat : ReadChanged(p, base)
  BY <1>5, <1>6
<1>7. CASE versions'[f] # versions[f]
  <2>1. PICK p \in Programs : /\ Commit(p) /\ Flushed(p, f)
                              /\ Grows(versions'[f], versions[f], staged[p][f])
    BY <1>7, VersionSteps
  <2> QED
    BY <1>4, <2>1
<1> QED
  BY <1>3, <1>6, <1>7, HandSteps

\* Two versions of a framework are in force at once only after the watch and the
\* command line have ingested it at the same time.
THEOREM OneUnlessOverlapped == Spec => []OneInForceUnlessOverlapped
<1>1. Init => ForceInv
  <2> SUFFICES ASSUME Init, NEW f \in Frameworks
               PROVE  /\ \A i, j \in InForce(f) : i = j
                      /\ \A p \in Programs : ~Ingesting(p, f)
    BY DEF ForceInv
  <2>1. versions[f] = <<[label |-> 0, text |-> 1, current |-> TRUE, embedded |-> TRUE]>>
          \/ versions[f] = <<>>
    BY DEF Init
  <2>2. \A i \in DOMAIN versions[f] : i = 1
    BY <2>1
  <2>3. \A i, j \in InForce(f) : i = j
    BY <2>2 DEF InForce
  <2>4. \A p \in Programs : ~Ingesting(p, f)
    BY DEF Init, Ingesting, Flushed
  <2> QED
    BY <2>3, <2>4
<1>2. ForceInv => OneInForceUnlessOverlapped
  <2> SUFFICES ASSUME ForceInv, NEW f \in Frameworks \ overlapped
               PROVE  Cardinality(InForce(f)) <= 1
    BY DEF OneInForceUnlessOverlapped
  <2>1. \A i, j \in InForce(f) : i = j
    BY DEF ForceInv
  <2>2. CASE InForce(f) = {}
    BY <2>2, FS_EmptySet
  <2>3. CASE InForce(f) # {}
    <3>1. PICK i \in InForce(f) : InForce(f) = {i}
      BY <2>1, <2>3
    <3>2. Cardinality({i}) = 1
      BY FS_Singleton
    <3> QED
      BY <3>1, <3>2
  <2> QED
    BY <2>2, <2>3
<1> QED
  BY <1>1, <1>2, TypeInv, ForceInductive, PTL DEF Spec

(***************************************************************************)
(* Notifications                                                           *)
(***************************************************************************)
\* What the tick is going to tell is flushed with its embeddings, and the watch
\* is done with those frameworks.
TellInv ==
  /\ pc["watch"] = "idle" => tick.told = {}
  /\ \A t \in tick.told :
       /\ t[1] \notin todo["watch"]
       /\ Flushed("watch", t[1])
       /\ staged["watch"][t[1]].text = t[2] /\ staged["watch"][t[1]].embedded

LEMMA TellKept ==
  ASSUME TellInv, UNCHANGED tick,
         pc'["watch"] = "idle" => pc["watch"] = "idle",
         \A t \in tick.told : /\ t[1] \notin todo'["watch"]
                              /\ staged'["watch"][t[1]] = staged["watch"][t[1]]
  PROVE  TellInv'
BY DEF TellInv, Flushed

LEMMA TellNext ==
  ASSUME TypeOK, StepInv, TellInv, pc["watch"] \in InHand, NEW news,
         NextFramework("watch", news),
         \A f \in Frameworks \ {job["watch"].fw} : staged'["watch"][f] = staged["watch"][f],
         \A t \in news : /\ t[1] = job["watch"].fw /\ Flushed("watch", t[1])'
                         /\ staged'["watch"][t[1]].text = t[2]
                         /\ staged'["watch"][t[1]].embedded
  PROVE  TellInv'
<1>1. /\ tick'.told = tick.told \cup news
      /\ todo'["watch"] = todo["watch"] \ {job["watch"].fw}
      /\ pc'["watch"] \in {"commit", "fetch"}
  BY DEF NextFramework, TypeOK, Programs
<1>2. ASSUME NEW t \in tick.told
      PROVE  /\ t[1] \notin todo'["watch"]
             /\ Flushed("watch", t[1])'
             /\ staged'["watch"][t[1]].text = t[2] /\ staged'["watch"][t[1]].embedded
  <2>1. t[1] \in Frameworks
    BY DEF TypeOK
  <2>2. job["watch"].fw \in todo["watch"]
    BY DEF StepInv, Stepping, Programs
  <2> QED
    BY <1>1, <2>1, <2>2 DEF TellInv, Flushed
<1> QED
  BY <1>1, <1>2 DEF TellInv

LEMMA TellOther ==
  ASSUME TypeOK, TellInv, OthersKept("cli"), UNCHANGED tick PROVE TellInv'
BY TellKept DEF OthersKept, Programs, TellInv

LEMMA TellInductive == TypeOK /\ StepInv /\ TellInv /\ [Next]_vars => TellInv'
<1> SUFFICES ASSUME TypeOK, StepInv, TellInv, [Next]_vars PROVE TellInv'
  OBVIOUS
<1> USE IngestionAssumption
<1>1. "watch" \in Programs /\ "cli" \in Programs /\ \A p \in Programs : p \in {"watch", "cli"}
  BY DEF Programs
<1>2. ASSUME NEW p \in Programs, End(p) PROVE TellInv'
  <2>1. CASE p = "watch"
    BY <1>2, <2>1 DEF End, NoTick, TellInv
  <2>2. CASE p = "cli"
    BY <1>2, <2>2, SteppingEnd, TellOther DEF End
  <2> QED
    BY <1>1, <2>1, <2>2
<1>3. ASSUME UNCHANGED <<pc, todo, staged, tick>> PROVE TellInv'
  BY <1>3, TellKept DEF TellInv
<1>4. CASE TickStart
  BY <1>4 DEF TickStart, TellInv
<1>5. ASSUME NEW codes \in SUBSET Frameworks, NEW force \in BOOLEAN, CliStart(codes, force)
      PROVE  TellInv'
  BY <1>1, <1>5, TellKept DEF CliStart, TellInv, TypeOK
<1>6. ASSUME NEW p \in Programs, NEW f \in Frameworks, Fetch(p, f) PROVE TellInv'
  BY <1>1, <1>6, TellKept DEF Fetch, TellInv, TypeOK
<1>7. ASSUME NEW p \in Programs, NEW f \in Frameworks, FetchFails(p, f) PROVE TellInv'
  <2>1. tick'.told = tick.told /\ UNCHANGED staged
    BY <1>7 DEF FetchFails, TypeOK
  <2>2. todo'["watch"] \subseteq todo["watch"]
    BY <1>1, <1>7 DEF FetchFails, TypeOK
  <2>3. pc'["watch"] = "idle" => pc["watch"] = "idle"
    BY <1>1, <1>7 DEF FetchFails, TypeOK
  <2> QED
    BY <2>1, <2>2, <2>3 DEF TellInv, Flushed
<1>8. ASSUME NEW p \in Programs, NEW base \in Nat, ReadUnchanged(p, base) PROVE TellInv'
  <2>1. pc[p] \in InHand /\ NextFramework(p, {}) /\ UNCHANGED staged
    BY <1>8 DEF ReadUnchanged, Reads, InHand
  <2>2. CASE p = "watch"
    BY <2>1, <2>2, TellNext
  <2>3. CASE p = "cli"
    BY <2>1, <2>3, TellOther DEF NextFramework, TypeOK, OthersKept
  <2> QED
    BY <1>1, <2>2, <2>3
<1>9. ASSUME NEW p \in Programs, NEW base \in Nat, ReadChanged(p, base) PROVE TellInv'
  BY <1>1, <1>9, TellKept DEF ReadChanged, TellInv, TypeOK
<1>10. ASSUME NEW p \in Programs, ReadLabels(p) PROVE TellInv'
  BY <1>1, <1>10, TellKept DEF ReadLabels, TellInv, TypeOK
<1>11. ASSUME NEW p \in Programs, Update(p) \/ Insert(p) PROVE TellInv'
  <2>1. /\ pc[p] \in InHand /\ UNCHANGED <<tick, todo>>
        /\ pc'["watch"] = "idle" => pc["watch"] = "idle"
    BY <1>1, <1>11 DEF Update, Insert, KeyFree, InHand, TypeOK
  <2>2. job[p].fw \in todo[p] /\ job[p].fw \in Frameworks
    BY <2>1 DEF StepInv, Stepping, TypeOK
  <2>3. /\ \A g \in Frameworks \ {job[p].fw} : staged'[p][g] = staged[p][g]
        /\ \A q \in Programs \ {p} : staged'[q] = staged[q]
    BY <1>11, <2>2 DEF Update, Insert, TypeOK
  <2>4. ASSUME NEW t \in tick.told
        PROVE  /\ t[1] \notin todo'["watch"]
               /\ staged'["watch"][t[1]] = staged["watch"][t[1]]
    <3>1. t[1] \in Frameworks /\ t[1] \notin todo["watch"]
      BY DEF TypeOK, TellInv
    <3> QED
      BY <1>1, <2>1, <2>2, <2>3, <3>1
  <2> QED
    BY <2>1, <2>4, TellKept
<1>12. ASSUME NEW p \in Programs, Embed(p) PROVE TellInv'
  <2>0. PICK f, news : /\ f = job[p].fw
                       /\ news = IF job[p].base = 0 THEN {} ELSE {<<job[p].fw, job[p].text>>}
                       /\ news = News(p)
    BY DEF News
  <2>1. pc[p] = "embed" /\ pc[p] \in InHand /\ NextFramework(p, news)
    BY <1>12, <2>0 DEF Embed, InHand
  <2>2. f \in Frameworks /\ staged[p][f].text = job[p].text /\ job[p].text # 0
    BY <2>0, <2>1 DEF StepInv, Stepping, InHand, TypeOK
  <2>3. /\ staged'[p][f].text = job[p].text /\ staged'[p][f].embedded
        /\ \A g \in Frameworks \ {f} : staged'[p][g] = staged[p][g]
    BY <1>12, <2>0, <2>2 DEF Embed, TypeOK, Staged
  <2>4. Flushed(p, f)'
    BY <2>2, <2>3 DEF Flushed, NoVersion
  <2>5. CASE p = "watch"
    <3>1. \A t \in news : /\ t[1] = f /\ Flushed("watch", t[1])'
                          /\ staged'["watch"][t[1]].text = t[2]
                          /\ staged'["watch"][t[1]].embedded
      BY <2>0, <2>3, <2>4, <2>5
    <3> QED
      BY <2>0, <2>1, <2>3, <2>5, <3>1, TellNext
  <2>6. CASE p = "cli"
    BY <1>12, <2>1, <2>6, TellOther DEF NextFramework, Embed, TypeOK, OthersKept
  <2> QED
    BY <1>1, <2>5, <2>6
<1>13. ASSUME NEW p \in Programs, EmbedFails(p) PROVE TellInv'
  <2>1. CASE p = "watch"
    <3>1. pc[p] \in InHand /\ NextFramework(p, {}) /\ UNCHANGED staged
      BY <1>13, <2>1 DEF EmbedFails, InHand
    <3> QED
      BY <2>1, <3>1, TellNext
  <2>2. CASE p # "watch"
    BY <1>2, <1>13, <2>2 DEF EmbedFails
  <2> QED
    BY <2>1, <2>2
<1>14. ASSUME NEW p \in Programs, Abort(p) \/ InsertFails(p) \/ Deadlock(p) \/ Commit(p)
       PROVE  TellInv'
  BY <1>2, <1>14 DEF Abort, InsertFails, Deadlock, Commit
<1>15. CASE (\E f \in Frameworks : Publish(f)) \/ Elapse \/ UNCHANGED vars
  BY <1>3, <1>15 DEF Publish, Elapse, vars
<1>16. 0..1 + MaxText + MaxCli \subseteq Nat
  OBVIOUS
<1> QED
  BY <1>4, <1>5, <1>6, <1>7, <1>8, <1>9, <1>10, <1>11, <1>12, <1>13, <1>14, <1>15, <1>16
  DEF Next, Proceed

LEMMA StoredInductive ==
  TypeOK /\ StepInv /\ TellInv /\ ToldIsStored /\ [Next]_vars => ToldIsStored'
<1> SUFFICES ASSUME TypeOK, StepInv, TellInv, ToldIsStored, [Next]_vars, NEW t \in told'
             PROVE  \E i \in DOMAIN versions'[t[1]] :
                      versions'[t[1]][i].text = t[2] /\ versions'[t[1]][i].embedded
  BY DEF ToldIsStored
<1>1. told' = told \/ (Commit("watch") /\ told' = told \cup tick.told)
  <2>1. told' = told \/ \E p \in Programs : Commit(p)
    BY DEF Next, Proceed, TickStart, CliStart, Fetch, FetchFails, ReadUnchanged, ReadChanged,
           ReadLabels, Update, Insert, InsertFails, Embed, EmbedFails, Abort, Deadlock,
           Publish, Elapse, vars, Lasting
  <2>2. ASSUME NEW p \in Programs, Commit(p)
        PROVE  told' = told \/ (Commit("watch") /\ told' = told \cup tick.told)
    BY <2>2 DEF Commit, Programs
  <2> QED
    BY <2>1, <2>2
<1>2. CASE t \in told
  <2>1. t[1] \in Frameworks
    BY <1>2 DEF TypeOK
  <2>2. PICK i \in DOMAIN versions[t[1]] :
          versions[t[1]][i].text = t[2] /\ versions[t[1]][i].embedded
    BY <1>2 DEF ToldIsStored
  <2>3. CASE versions'[t[1]] = versions[t[1]]
    BY <2>2, <2>3
  <2>4. ASSUME NEW s, Grows(versions'[t[1]], versions[t[1]], s)
        PROVE  i \in DOMAIN versions'[t[1]] /\ versions'[t[1]][i].text = t[2]
               /\ versions'[t[1]][i].embedded
    BY <2>1, <2>2, <2>4, GrowsInForce DEF Grows
  <2> QED
    BY <2>1, <2>3, <2>4, VersionSteps
<1>3. CASE Commit("watch") /\ t \in tick.told
  <2>1. t[1] \in Frameworks
    BY <1>3 DEF TypeOK
  <2> DEFINE s == staged["watch"][t[1]]
  <2>2. Flushed("watch", t[1]) /\ s.text = t[2] /\ s.embedded
    BY <1>3 DEF TellInv
  <2>3. versions'[t[1]] = Committed("watch", t[1])
    BY <1>3, <2>1 DEF Commit
  <2>4. Grows(versions'[t[1]], versions[t[1]], s)
    BY <2>1, <2>2, <2>3, CommittedRows DEF Programs
  <2>5. versions'[t[1]][Len(versions'[t[1]])] = NewRow(s)
    BY <2>4 DEF Grows
  <2>6. Len(versions'[t[1]]) \in DOMAIN versions'[t[1]]
    BY <2>1, <2>4, GrowsInForce DEF InForce
  <2> QED
    BY <2>2, <2>5, <2>6 DEF NewRow
<1> QED
  BY <1>1, <1>2, <1>3

\* A change among the notifications of the application is one the watch has
\* stored, embeddings included: both are committed together, whatever failed
\* before.  E-mails have left by then: see the next theorem.
THEOREM ToldStored == Spec => []ToldIsStored
<1>1. Init => TellInv /\ ToldIsStored
  BY DEF Init, TellInv, ToldIsStored, NoTick
<1> QED
  BY <1>1, TypeInv, TellInductive, StoredInductive, PTL DEF Spec

\* The tick of the watch is rolled back.
RollsBack == Abort("watch") \/ InsertFails("watch") \/ Deadlock("watch")

\* A member has had an e-mail about a change that is not, and will not be, among
\* the notifications only when a tick was rolled back after it had written: as
\* long as none is, what an e-mail tells is told, and what is told is stored.
THEOREM MailedUnlessRolledBack == Spec /\ [][~RollsBack]_vars => []MailedIsTold
<1>1. Init => MailedIsTold
  BY DEF Init, MailedIsTold
<1>2. ASSUME TypeOK, StepInv, MailedIsTold, [Next]_vars, [~RollsBack]_vars PROVE MailedIsTold'
  <2> USE <1>2
  <2>1. ASSUME mailed' = mailed, told \subseteq told', tick.told \subseteq tick'.told \cup told'
        PROVE  MailedIsTold'
    BY <2>1 DEF MailedIsTold
  <2>2. ASSUME NEW p \in Programs, NEW news, NextFramework(p, news)
        PROVE  /\ tick.told \subseteq tick'.told
               /\ p = "watch" => news \subseteq tick'.told
    BY <2>2 DEF NextFramework
  <2>3. ASSUME NEW p \in Programs, Embed(p) PROVE MailedIsTold'
    <3>1. NextFramework(p, News(p)) /\ Mail(p, News(p)) /\ told' = told
      BY <2>3 DEF Embed
    <3> QED
      BY <2>2, <3>1 DEF Mail, MailedIsTold
  <2>4. ASSUME NEW p \in Programs, EmbedFails(p) PROVE MailedIsTold'
    <3>1. UNCHANGED <<told, mailed>>
      BY <2>4 DEF EmbedFails, Lasting
    <3>2. CASE p = "watch"
      BY <2>1, <2>2, <2>4, <3>1, <3>2 DEF EmbedFails
    <3>3. CASE p # "watch"
      BY <2>1, <2>4, <3>1, <3>3 DEF EmbedFails, End
    <3> QED
      BY <3>2, <3>3
  <2>5. ASSUME NEW p \in Programs, NEW base \in Nat, ReadUnchanged(p, base) PROVE MailedIsTold'
    <3>1. NextFramework(p, {}) /\ UNCHANGED <<told, mailed>>
      BY <2>5 DEF ReadUnchanged, Lasting
    <3> QED
      BY <2>1, <2>2, <3>1
  <2>6. ASSUME NEW p \in Programs, NEW f \in Frameworks, FetchFails(p, f) PROVE MailedIsTold'
    <3>1. tick'.told = tick.told /\ UNCHANGED <<told, mailed>>
      BY <2>6 DEF FetchFails, TypeOK, Lasting
    <3> QED
      BY <2>1, <3>1
  <2>7. ASSUME NEW p \in Programs, Abort(p) \/ InsertFails(p) \/ Deadlock(p) PROVE MailedIsTold'
    <3>1. UNCHANGED <<told, mailed>> /\ End(p)
      BY <2>7 DEF Abort, InsertFails, Deadlock, Lasting
    <3>2. CASE p = "watch"
      <4>1. UNCHANGED vars
        BY <2>7, <3>2 DEF RollsBack
      <4> QED
        BY <2>1, <4>1 DEF vars
    <3>3. CASE p # "watch"
      BY <2>1, <3>1, <3>3 DEF End
    <3> QED
      BY <3>2, <3>3
  <2>8. ASSUME NEW p \in Programs, Commit(p) PROVE MailedIsTold'
    <3>1. CASE p = "watch"
      BY <2>1, <2>8, <3>1 DEF Commit
    <3>2. CASE p # "watch"
      BY <2>1, <2>8, <3>2 DEF Commit, End
    <3> QED
      BY <3>1, <3>2
  <2>9. CASE UNCHANGED <<told, mailed, tick>>
    BY <2>1, <2>9
  <2>10. 0..1 + MaxText + MaxCli \subseteq Nat
    BY IngestionAssumption
  <2> QED
    BY <2>3, <2>4, <2>5, <2>6, <2>7, <2>8, <2>9, <2>10
    DEF Next, Proceed, TickStart, CliStart, Fetch, ReadChanged, ReadLabels, Update, Insert,
        Publish, Elapse, vars, Lasting
<1>3. MailedIsTold /\ TypeOK /\ StepInv /\ [Next]_vars /\ [~RollsBack]_vars => MailedIsTold'
  BY <1>2
<1> QED
  BY <1>1, <1>3, TypeInv, PTL DEF Spec
===============================================================================
