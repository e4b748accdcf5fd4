----------------------------- MODULE CampaignProofs -----------------------------
(***************************************************************************)
(* Proofs of the safety properties of Campaign, and of its refinement of   *)
(* Lifecycle, for any set of campaigns and of workers, any number of       *)
(* analyses, reports and documents.                                        *)
(***************************************************************************)
EXTENDS Campaign, TLAPS

(***************************************************************************)
(* Types                                                                   *)
(***************************************************************************)
\* Commit and rollback keep the lock table and the session well formed.
LEMMA FinishType ==
  ASSUME TypeOK, NEW w \in Workers, Finish(w)
  PROVE  /\ pc' \in [Workers -> Steps]
         /\ locks' \in [LockIds -> Workers \union {Nobody}]
         /\ on' \in [Workers -> Audits]
         /\ snap' \in [Workers -> Row]
         /\ seen' \in [Workers -> SUBSET Finding]
         /\ num' \in [Workers -> Nat]
         /\ nextRun' \in Nat \ {0}
<1>1. NoRow \in Row
  BY DEF NoRow, Row
<1>2. "idle" \in Steps /\ {} \in SUBSET Finding /\ 0 \in Nat
  BY DEF Steps
<1> QED
  BY <1>1, <1>2 DEF TypeOK, Finish, Release

LEMMA RollbackType ==
  ASSUME TypeOK, NEW w \in Workers, Rollback(w)
  PROVE  TypeOK'
<1>1. Finish(w) /\ UNCHANGED rows
  BY DEF Rollback
<1> QED
  BY <1>1, FinishType DEF TypeOK, rows

\* A request starts by copying the row of an existing campaign.
LEMMA LoadType ==
  ASSUME TypeOK, NEW w \in Workers, NEW a \in Audits, NEW step \in Steps,
         Load(w, a, step)
  PROVE  /\ pc' \in [Workers -> Steps]
         /\ on' \in [Workers -> Audits]
         /\ snap' \in [Workers -> Row]
         /\ UNCHANGED <<rows, locks>>
<1>1. AuditRow(a) \in Row
  BY DEF Load, TypeOK, AuditRow, Row, Exists
<1> QED
  BY <1>1 DEF Load, Goto, TypeOK

LEMMA StepsType ==
  /\ RunSteps \subseteq Steps
  /\ ReportSteps \subseteq Steps
  /\ DeleteSteps \subseteq Steps
  /\ "triage" \in Steps
BY DEF Steps

LEMMA AcquireType ==
  ASSUME TypeOK, NEW w \in Workers, NEW a \in Audits,
         NEW name \in {"run", "report", "row", "findings"},
         Acquire(w, name, a) \/ AcquireFindings(w, a)
  PROVE  locks' \in [LockIds -> Workers \union {Nobody}]
BY DEF TypeOK, Acquire, AcquireFindings, LockIds

LEMMA TypeInductive == TypeOK /\ [Next]_vars => TypeOK'
<1> SUFFICES ASSUME TypeOK, [Next]_vars PROVE TypeOK'
  OBVIOUS
<1> USE StepsType DEF RunSteps, ReportSteps, DeleteSteps
<1>1. ASSUME NEW a \in Audits, Create(a) PROVE TypeOK'
  BY <1>1 DEF Create, TypeOK, session, RowStatus
<1>2. ASSUME NEW a \in Audits, Upload(a) PROVE TypeOK'
  BY <1>2 DEF Upload, TypeOK, session
<1>3. ASSUME NEW w \in Workers, RunStep(w) PROVE TypeOK'
  <2>1. CASE RunTryLock(w)
    <3>1. CASE Rollback(w)
      BY <3>1, RollbackType
    <3>2. CASE Acquire(w, "run", on[w]) /\ Goto(w, "run_mark") /\ UNCHANGED <<rows, session, nextRun>>
      BY <3>2, AcquireType DEF Goto, TypeOK, rows, session
    <3> QED BY <2>1, <3>1, <3>2 DEF RunTryLock
  <2>2. CASE RunMark(w)
    <3>1. CASE Rollback(w)
      BY <3>1, RollbackType
    <3>2. CASE Acquire(w, "row", on[w]) /\ Goto(w, "run_docs") /\ UNCHANGED <<rows, session, nextRun>>
      BY <3>2, AcquireType DEF Goto, TypeOK, rows, session
    <3> QED BY <2>2, <3>1, <3>2 DEF RunMark
  <2>3. CASE RunFail(w)
    <3>1. Finish(w)
      BY <2>3 DEF RunFail
    <3>2. status' \in [Audits -> RowStatus \union {"none", "deleted"}]
      BY <2>3 DEF RunFail, TypeOK, RowStatus
    <3>3. findings' \in [Audits -> SUBSET Finding]
      BY <2>3 DEF RunFail, TypeOK
    <3> QED BY <2>3, <3>1, <3>2, <3>3, FinishType DEF RunFail, TypeOK
  <2>4. CASE RunDocs(w)
    BY <2>4 DEF RunDocs, Goto, TypeOK, rows, session
  <2>5. CASE RunPurge(w)
    <3>1. locks' \in [LockIds -> Workers \union {Nobody}]
      BY <2>5, AcquireType DEF RunPurge, TypeOK
    <3> QED BY <2>5, <3>1 DEF RunPurge, Goto, TypeOK, rows
  <2>6. CASE RunComplete(w)
    <3>1. Finish(w)
      BY <2>6 DEF RunComplete
    <3>2. /\ score' \in [Audits -> Scores \union {NoScore}]
          /\ degraded' \in [Audits -> BOOLEAN]
      <4>1. PICK o \in Outcomes :
              /\ score' = [score EXCEPT ![on[w]] = Written(o.score, snap[w].score, @)]
              /\ degraded' = [degraded EXCEPT ![on[w]] =
                                Written(o.degraded, snap[w].degraded, @)]
        BY <2>6 DEF RunComplete
      <4>2. o.score \in Scores \union {NoScore} /\ o.degraded \in BOOLEAN
        BY DEF Outcomes
      <4> QED BY <4>1, <4>2 DEF Written, TypeOK
    <3>3. findings' \in [Audits -> SUBSET Finding]
      <4>1. PICK new \in SUBSET [run: {num[w]}, triaged: {FALSE}] :
              findings' = [findings EXCEPT ![on[w]] = (@ \ seen[w]) \union new]
        BY <2>6 DEF RunComplete
      <4>2. new \in SUBSET Finding
        BY DEF TypeOK, Finding
      <4> QED BY <4>1, <4>2 DEF TypeOK
    <3>4. status' \in [Audits -> RowStatus \union {"none", "deleted"}]
      BY <2>6 DEF RunComplete, TypeOK, RowStatus
    <3> QED BY <2>6, <3>1, <3>2, <3>3, <3>4, FinishType DEF RunComplete, TypeOK
  <2> QED BY <1>3, <2>1, <2>2, <2>3, <2>4, <2>5, <2>6 DEF RunStep
<1>4. ASSUME NEW w \in Workers, ReportStep(w) PROVE TypeOK'
  <2>0. Rendered(w) \in Report
    BY DEF Rendered, Report, TypeOK, Row
  <2>1. CASE ReportLock(w)
    BY <2>1, AcquireType DEF ReportLock, Goto, TypeOK, rows, session
  <2>2. CASE ReportRead(w)
    BY <2>2 DEF ReportRead, Goto, TypeOK, rows
  <2>3. CASE ReportVersion(w)
    <3>1. PICK last \in {0} \union {r.version : r \in reports[on[w]]} :
            num' = [num EXCEPT ![w] = last + 1]
      BY <2>3 DEF ReportVersion
    <3>2. last \in Nat
      BY <3>1 DEF TypeOK, Report
    <3> QED BY <2>3, <3>1, <3>2 DEF ReportVersion, Goto, TypeOK, rows
  <2>4. CASE ReportWrite(w)
    BY <2>0, <2>4 DEF ReportWrite, Goto, TypeOK, session
  <2>5. CASE ReportCommit(w)
    <3>1. CASE Rollback(w)
      BY <3>1, RollbackType
    <3>2. CASE ~Rollback(w)
      <4>1. Finish(w)
        BY <2>5, <3>2 DEF ReportCommit
      <4> QED BY <2>0, <2>5, <3>2, <4>1, FinishType DEF ReportCommit, TypeOK
    <3> QED BY <3>1, <3>2
  <2> QED BY <1>4, <2>1, <2>2, <2>3, <2>4, <2>5 DEF ReportStep
<1>5. ASSUME NEW w \in Workers, Triage(w) PROVE TypeOK'
  <2>1. Finish(w)
    BY <1>5 DEF Triage
  <2>2. findings' \in [Audits -> SUBSET Finding]
    <3> DEFINE row == {f \in findings[on[w]] : \E g \in seen[w] : f.run = g.run}
               after == (findings[on[w]] \ row)
                          \union [run: {f.run : f \in row}, triaged: {TRUE}]
    <3>1. findings[on[w]] \subseteq Finding
      BY DEF TypeOK
    <3>2. {f.run : f \in row} \subseteq Nat
      BY <3>1 DEF Finding
    <3>3. after \subseteq Finding
      BY <3>1, <3>2 DEF Finding
    <3>4. findings' = [findings EXCEPT ![on[w]] = after]
      BY <1>5 DEF Triage
    <3> QED BY <3>3, <3>4 DEF TypeOK
  <2> QED BY <1>5, <2>1, <2>2, FinishType DEF Triage, TypeOK
<1>6. ASSUME NEW w \in Workers, DeleteStep(w) PROVE TypeOK'
  <2>1. CASE DeleteChildren(w)
    BY <2>1, AcquireType DEF DeleteChildren, Goto, TypeOK, rows, session
  <2>2. CASE DeleteRow(w)
    <3>1. Finish(w)
      BY <2>2 DEF DeleteRow
    <3> QED BY <2>2, <3>1, FinishType DEF DeleteRow, TypeOK
  <2> QED BY <1>6, <2>1, <2>2 DEF DeleteStep
<1>7. ASSUME NEW w \in Workers, NEW a \in Audits, Request(w, a) PROVE TypeOK'
  <2>1. CASE RunLoad(w, a)
    BY <2>1, LoadType DEF RunLoad, TypeOK, rows
  <2>2. CASE ReportLoad(w, a)
    BY <2>2, LoadType DEF ReportLoad, TypeOK, rows
  <2>3. CASE TriageLoad(w, a)
    BY <2>3, LoadType DEF TriageLoad, TypeOK, rows
  <2>4. CASE DeleteLoad(w, a)
    BY <2>4, LoadType DEF DeleteLoad, TypeOK, rows
  <2> QED BY <1>7, <2>1, <2>2, <2>3, <2>4 DEF Request
<1>8. ASSUME NEW w \in Workers, Abort(w) PROVE TypeOK'
  BY <1>8, RollbackType DEF Abort
<1>9. ASSUME NEW w \in Workers, NEW d \in Workers, DeadlockAbort(w, d) PROVE TypeOK'
  BY <1>9, RollbackType DEF DeadlockAbort
<1>10. CASE UNCHANGED vars
  BY <1>10 DEF vars, rows, session, TypeOK
<1> QED
  BY <1>1, <1>2, <1>3, <1>4, <1>5, <1>6, <1>7, <1>8, <1>9, <1>10 DEF Next, Step

LEMMA TypeInit == Init => TypeOK
BY DEF Init, TypeOK, LockIds, Steps, NoRow, Row

\* Every reachable state is well formed: in particular a status is always one of
\* the enumeration and a file always one that a report request rendered.
THEOREM TypeCorrect == Spec => []TypeOK
BY TypeInit, TypeInductive, PTL DEF Spec

(***************************************************************************)
(* The inductive invariant                                                 *)
(***************************************************************************)
Holds(w, name) == locks[<<name, on[w]>>] = w
Reporting(w) == pc[w] \in {"rep_read", "rep_version", "rep_write", "rep_commit"}

\* Who holds which lock is read from where each worker is.
LockOK(w) ==
  /\ pc[w] = "run_mark" \/ Analysing(w) => Holds(w, "run")
  /\ Analysing(w) => Holds(w, "row")
  /\ \A a \in Audits : locks[<<"row", a>>] = w => Analysing(w) /\ on[w] = a
  /\ Reporting(w) => Holds(w, "report")
LockInv == \A w \in Workers : LockOK(w)

\* An analysis keeps its campaign from being deleted, and from its DELETE on
\* the findings are the ones it saw.
RunOK(w) ==
  /\ Analysing(w) => Exists(on[w])
  /\ pc[w] \in {"run_purge", "run_eval"} => documents[on[w]] > 0
  /\ pc[w] = "run_eval" =>
       /\ findings[on[w]] = seen[w]
       /\ seen[w] # {} => Holds(w, "findings")
RunInv == \A w \in Workers : RunOK(w)

\* From the choice of the version on, no other report of the campaign takes it
\* and, once written, the file stays the one rendered.
ReportOK(w) ==
  /\ pc[w] \in {"rep_write", "rep_commit"} =>
       \A r \in reports[on[w]] : r.version # num[w]
  /\ pc[w] = "rep_commit" =>
       {f \in files[on[w]] : f.version = num[w]} = {Rendered(w)}
ReportInv == \A w \in Workers : ReportOK(w)

IInv ==
  /\ TypeOK
  /\ LockInv
  /\ RunInv
  /\ ReportInv
  /\ NoCommittedRunning
  /\ FindingsFromOneRun
  /\ NoOrphanRows
  /\ CompletedHasDocuments
  /\ ReportFileMatches

(***************************************************************************)
(* One worker at a time: what a step of w leaves to the others             *)
(***************************************************************************)
Turn(w) == Step(w) \/ Rollback(w) \/ \E a \in Audits : Request(w, a)

Untouched(v) ==
  /\ pc'[v] = pc[v] /\ on'[v] = on[v] /\ snap'[v] = snap[v]
  /\ seen'[v] = seen[v] /\ num'[v] = num[v]
  /\ \A l \in LockIds : locks'[l] = v <=> locks[l] = v

LEMMA FinishFrame ==
  ASSUME TypeOK, NEW w \in Workers, NEW v \in Workers \ {w}, Finish(w)
  PROVE  Untouched(v)
BY SentinelAssumption DEF Finish, Untouched, TypeOK, Release

\* A lock is only taken when nobody else holds it.
LEMMA AcquireFrame ==
  ASSUME TypeOK, NEW w \in Workers, NEW v \in Workers \ {w}, NEW a \in Audits,
         NEW name \in {"run", "report", "row", "findings"},
         Grantable(w, name, a), Acquire(w, name, a)
  PROVE  \A l \in LockIds : locks'[l] = v <=> locks[l] = v
<1>1. <<name, a>> \in LockIds
  BY DEF LockIds
<1>2. locks[<<name, a>>] # v
  BY SentinelAssumption DEF Grantable
<1> QED
  BY <1>1, <1>2 DEF Acquire, TypeOK

LEMMA AcquireFindingsFrame ==
  ASSUME TypeOK, NEW w \in Workers, NEW v \in Workers \ {w}, NEW a \in Audits,
         Grantable(w, "findings", a), AcquireFindings(w, a)
  PROVE  \A l \in LockIds : locks'[l] = v <=> locks[l] = v
<1>1. CASE UNCHANGED locks
  BY <1>1
<1>2. CASE Acquire(w, "findings", a)
  BY <1>2, AcquireFrame
<1> QED
  BY <1>1, <1>2 DEF AcquireFindings

LEMMA Frame ==
  ASSUME TypeOK, NEW w \in Workers, NEW v \in Workers \ {w}, Turn(w)
  PROVE  Untouched(v)
<1> USE DEF Untouched
<1>1. CASE Finish(w)
  BY <1>1, FinishFrame
<1>2. CASE RunStep(w) /\ ~Finish(w)
  <2>1. CASE RunTryLock(w)
    BY <1>2, <2>1, AcquireFrame DEF RunTryLock, Rollback, Goto, session, TypeOK
  <2>2. CASE RunMark(w)
    BY <1>2, <2>2, AcquireFrame DEF RunMark, Rollback, Goto, session, TypeOK
  <2>3. CASE RunDocs(w)
    BY <2>3 DEF RunDocs, Goto, session, TypeOK
  <2>4. CASE RunPurge(w)
    <3>1. \A l \in LockIds : locks'[l] = v <=> locks[l] = v
      BY <2>4, AcquireFindingsFrame DEF RunPurge, TypeOK
    <3> QED BY <2>4, <3>1 DEF RunPurge, Goto, TypeOK
  <2> QED BY <1>2, <2>1, <2>2, <2>3, <2>4 DEF RunStep, RunFail, RunComplete
<1>3. CASE ReportStep(w) /\ ~Finish(w)
  <2>1. CASE ReportLock(w)
    BY <2>1, AcquireFrame DEF ReportLock, Goto, session, TypeOK
  <2>2. CASE ReportRead(w)
    BY <2>2 DEF ReportRead, Goto, TypeOK
  <2>3. CASE ReportVersion(w)
    BY <2>3 DEF ReportVersion, Goto, TypeOK
  <2>4. CASE ReportWrite(w)
    BY <2>4 DEF ReportWrite, Goto, session, TypeOK
  <2> QED BY <1>3, <2>1, <2>2, <2>3, <2>4 DEF ReportStep, ReportCommit, Rollback
<1>4. CASE DeleteStep(w) /\ ~Finish(w)
  <2>1. CASE DeleteChildren(w)
    <3>1. \A l \in LockIds : locks'[l] = v <=> locks[l] = v
      BY <2>1, AcquireFindingsFrame DEF DeleteChildren, TypeOK
    <3> QED BY <2>1, <3>1 DEF DeleteChildren, Goto, session, TypeOK
  <2> QED BY <1>4, <2>1 DEF DeleteStep, DeleteRow
<1>5. ASSUME NEW a \in Audits, Request(w, a) PROVE Untouched(v)
  BY <1>5 DEF Request, RunLoad, ReportLoad, TriageLoad, DeleteLoad, Load, Goto, TypeOK
<1> QED
  BY <1>1, <1>2, <1>3, <1>4, <1>5 DEF Turn, Step, Triage, Rollback

\* Every step of the system is one of these.
LEMMA Turns ==
  [Next]_vars =>
    \/ \E a \in Audits : Create(a) \/ Upload(a)
    \/ \E w \in Workers : Turn(w)
    \/ UNCHANGED vars
BY DEF Next, Turn, Abort, DeadlockAbort

(***************************************************************************)
(* Locks                                                                   *)
(***************************************************************************)
LEMMA LockIdsMember ==
  \A a \in Audits, name \in {"run", "report", "row", "findings"} :
    <<name, a>> \in LockIds
BY DEF LockIds

LEMMA LockOthers ==
  ASSUME TypeOK, NEW v \in Workers, LockOK(v), Untouched(v)
  PROVE  LockOK(v)'
<1>1. on[v] \in Audits
  BY DEF TypeOK
<1> QED
  BY <1>1, LockIdsMember DEF LockOK, Untouched, Analysing, Reporting, Holds

LEMMA LockFinish ==
  ASSUME TypeOK, NEW w \in Workers, Finish(w)
  PROVE  LockOK(w)'
<1>1. pc'[w] = "idle"
  BY DEF Finish, TypeOK
<1>2. \A l \in LockIds : locks'[l] # w
  BY SentinelAssumption DEF Finish, Release
<1> QED
  BY <1>1, <1>2, LockIdsMember DEF LockOK, Analysing, Reporting

LEMMA AcquireEffect ==
  ASSUME TypeOK, NEW w \in Workers, NEW a \in Audits,
         NEW name \in {"run", "report", "row", "findings"}, Acquire(w, name, a)
  PROVE  \A n \in {"run", "report", "row", "findings"}, b \in Audits :
           locks'[<<n, b>>] = IF n = name /\ b = a THEN w ELSE locks[<<n, b>>]
BY LockIdsMember DEF Acquire, TypeOK

LEMMA LockSelf ==
  ASSUME TypeOK, NEW w \in Workers, LockOK(w), Turn(w)
  PROVE  LockOK(w)'
<1>0. on[w] \in Audits
  BY DEF TypeOK
<1> USE <1>0, LockIdsMember DEF LockOK, Analysing, Reporting, Holds
<1>1. CASE Finish(w)
  BY <1>1, LockFinish
<1>2. CASE RunStep(w) /\ ~Finish(w)
  <2>1. CASE RunTryLock(w)
    <3>1. /\ pc[w] = "run_lock" /\ pc'[w] = "run_mark" /\ on'[w] = on[w]
          /\ Acquire(w, "run", on[w])
      BY <1>2, <2>1 DEF RunTryLock, Rollback, Goto, session, TypeOK
    <3>2. locks'[<<"run", on[w]>>] = w
      BY <3>1, AcquireEffect
    <3>3. \A a \in Audits : locks'[<<"row", a>>] = locks[<<"row", a>>]
      BY <3>1 DEF Acquire, TypeOK
    <3> QED BY <3>1, <3>2, <3>3
  <2>2. CASE RunMark(w)
    <3>1. /\ pc[w] = "run_mark" /\ pc'[w] = "run_docs" /\ on'[w] = on[w]
          /\ Acquire(w, "row", on[w])
      BY <1>2, <2>2 DEF RunMark, Rollback, Goto, session, TypeOK
    <3>2. locks'[<<"row", on[w]>>] = w /\ locks'[<<"run", on[w]>>] = w
      BY <3>1, AcquireEffect
    <3>3. \A a \in Audits \ {on[w]} : locks'[<<"row", a>>] = locks[<<"row", a>>]
      BY <3>1 DEF Acquire, TypeOK
    <3> QED BY <3>1, <3>2, <3>3
  <2>3. CASE RunDocs(w)
    BY <2>3 DEF RunDocs, Goto, session, TypeOK
  <2>4. CASE RunPurge(w)
    <3>1. /\ pc[w] = "run_purge" /\ pc'[w] = "run_eval" /\ on'[w] = on[w]
          /\ Acquire(w, "findings", on[w]) \/ UNCHANGED locks
      BY <2>4 DEF RunPurge, AcquireFindings, Goto, TypeOK
    <3> QED BY <3>1, AcquireEffect
  <2> QED BY <1>2, <2>1, <2>2, <2>3, <2>4 DEF RunStep, RunFail, RunComplete
<1>3. CASE ReportStep(w) /\ ~Finish(w)
  <2>1. CASE ReportLock(w)
    BY <2>1 DEF ReportLock, Acquire, Goto, session, TypeOK
  <2>2. CASE ReportRead(w)
    BY <2>2 DEF ReportRead, Goto, TypeOK
  <2>3. CASE ReportVersion(w)
    BY <2>3 DEF ReportVersion, Goto, TypeOK
  <2>4. CASE ReportWrite(w)
    BY <2>4 DEF ReportWrite, Goto, session, TypeOK
  <2> QED BY <1>3, <2>1, <2>2, <2>3, <2>4 DEF ReportStep, ReportCommit, Rollback
<1>4. CASE DeleteStep(w) /\ ~Finish(w)
  <2>1. CASE DeleteChildren(w)
    BY <2>1 DEF DeleteChildren, AcquireFindings, Acquire, Goto, session, TypeOK
  <2> QED BY <1>4, <2>1 DEF DeleteStep, DeleteRow
<1>5. ASSUME NEW a \in Audits, Request(w, a) PROVE LockOK(w)'
  <2>1. pc[w] = "idle" /\ UNCHANGED locks
    BY <1>5 DEF Request, RunLoad, ReportLoad, TriageLoad, DeleteLoad, Load
  <2>2. pc'[w] \in {"run_lock", "rep_lock", "triage", "del_children"}
    BY <1>5 DEF Request, RunLoad, ReportLoad, TriageLoad, DeleteLoad, Load, Goto, TypeOK
  <2> QED BY <2>1, <2>2
<1> QED
  BY <1>1, <1>2, <1>3, <1>4, <1>5 DEF Turn, Step, Triage, Rollback

LEMMA LockInductive == TypeOK /\ LockInv /\ [Next]_vars => LockInv'
<1> SUFFICES ASSUME TypeOK, LockInv, [Next]_vars, NEW v \in Workers
             PROVE  LockOK(v)'
  BY DEF LockInv
<1>0. LockOK(v)
  BY DEF LockInv
<1>1. CASE \E a \in Audits : Create(a) \/ Upload(a)
  <2>1. Untouched(v)
    BY <1>1 DEF Create, Upload, session, Untouched
  <2> QED BY <1>0, <2>1, LockOthers
<1>2. ASSUME NEW w \in Workers, Turn(w) PROVE LockOK(v)'
  BY <1>0, <1>2, LockSelf, LockOthers, Frame
<1>3. CASE UNCHANGED vars
  BY <1>0, <1>3, LockOthers DEF vars, session, Untouched
<1> QED
  BY <1>1, <1>2, <1>3, Turns

\* The advisory lock separates the analyses of a campaign.
LEMMA LockExclusion == TypeOK /\ LockInv => RunExclusive
BY DEF LockInv, LockOK, RunExclusive, Holds

\* A worker that passed the try-lock finds the row free: whoever holds it is
\* analysing the campaign, so holds the advisory lock too.
LEMMA LockAnswer == TypeOK /\ LockInv => RunNeverWaits
<1> SUFFICES ASSUME TypeOK, LockInv, NEW w \in Workers, pc[w] = "run_mark"
             PROVE  Grantable(w, "row", on[w])
  BY DEF RunNeverWaits
<1>1. on[w] \in Audits /\ locks[<<"row", on[w]>>] \in Workers \union {Nobody}
  BY LockIdsMember DEF TypeOK
<1>2. SUFFICES ASSUME NEW v \in Workers, locks[<<"row", on[w]>>] = v
               PROVE  v = w
  BY <1>1 DEF Grantable
<1>3. Analysing(v) /\ on[v] = on[w]
  BY <1>1, <1>2 DEF LockInv, LockOK
<1> QED
  BY <1>3 DEF LockInv, LockOK, Holds

(***************************************************************************)
(* Committed rows                                                          *)
(***************************************************************************)
\* The steps of a worker that change a row or a file.
LEMMA Writers ==
  ASSUME NEW w \in Workers, Turn(w)
  PROVE  \/ UNCHANGED rows
         \/ RunFail(w) \/ RunComplete(w)
         \/ ReportWrite(w) \/ (ReportCommit(w) /\ ~Rollback(w))
         \/ Triage(w) \/ DeleteRow(w)
<1>1. CASE Rollback(w)
  BY <1>1 DEF Rollback
<1>2. CASE RunStep(w) /\ ~Rollback(w)
  BY <1>2 DEF RunStep, RunTryLock, RunMark, RunDocs, RunPurge
<1>3. CASE ReportStep(w) /\ ~Rollback(w)
  BY <1>3 DEF ReportStep, ReportLock, ReportRead, ReportVersion
<1>4. CASE DeleteStep(w)
  BY <1>4 DEF DeleteStep, DeleteChildren
<1>5. ASSUME NEW a \in Audits, Request(w, a) PROVE UNCHANGED rows
  BY <1>5 DEF Request, RunLoad, ReportLoad, TriageLoad, DeleteLoad, Load
<1> QED
  BY <1>1, <1>2, <1>3, <1>4, <1>5 DEF Turn, Step

Invs == TypeOK /\ LockInv /\ RunInv

\* While v analyses a campaign, no other worker deletes it, and once v has
\* deleted the findings no other worker changes them.
LEMMA RunUndisturbed ==
  ASSUME Invs, NEW w \in Workers, NEW v \in Workers \ {w}, Turn(w), Analysing(v)
  PROVE  /\ status'[on[v]] \in RowStatus
         /\ documents'[on[v]] = documents[on[v]]
         /\ pc[v] = "run_eval" => findings'[on[v]] = findings[on[v]]
<1> DEFINE a == on[v]
<1>1. a \in Audits /\ on[w] \in Audits /\ status[a] \in RowStatus
  BY DEF Invs, TypeOK, RunInv, RunOK, Exists
<1>2. locks[<<"row", a>>] = v /\ ~(Analysing(w) /\ on[w] = a)
  BY DEF Invs, LockInv, LockOK, Holds
<1>3. v # Nobody
  BY SentinelAssumption
<1>4. CASE UNCHANGED rows
  BY <1>1, <1>4 DEF rows
<1>5. CASE RunFail(w)
  <2>1. on[w] # a
    BY <1>2, <1>5 DEF RunFail
  <2> QED BY <1>1, <1>5, <2>1 DEF RunFail, Invs, TypeOK
<1>6. CASE RunComplete(w)
  <2>1. on[w] # a
    BY <1>2, <1>6 DEF RunComplete, Analysing
  <2> QED BY <1>1, <1>6, <2>1 DEF RunComplete, Invs, TypeOK
<1>7. CASE ReportWrite(w) \/ (ReportCommit(w) /\ ~Rollback(w))
  BY <1>1, <1>7 DEF ReportWrite, ReportCommit
<1>8. CASE Triage(w)
  <2> DEFINE row == {f \in findings[on[w]] : \E g \in seen[w] : f.run = g.run}
  <2>1. /\ Grantable(w, "findings", on[w])
        /\ status' = status /\ documents' = documents
        /\ findings' = [findings EXCEPT ![on[w]] =
             (@ \ row) \union [run: {f.run : f \in row}, triaged: {TRUE}]]
    BY <1>8 DEF Triage
  <2>2. CASE on[w] # a
    BY <1>1, <2>1, <2>2 DEF Invs, TypeOK
  <2>3. CASE on[w] = a /\ pc[v] = "run_eval"
    <3>0. /\ findings[a] = seen[v]
          /\ seen[v] # {} => locks[<<"findings", a>>] = v
      <4>1. RunOK(v)
        BY DEF Invs, RunInv
      <4> QED BY <2>3, <4>1 DEF RunOK, Holds
    <3>1. seen[v] = {} /\ findings[a] = {}
      <4>1. locks[<<"findings", a>>] # v
        BY <1>3, <2>1, <2>3 DEF Grantable
      <4> QED BY <3>0, <4>1
    <3>2. findings'[a] = ({} \ row) \union [run: {f.run : f \in row}, triaged: {TRUE}]
      BY <1>1, <2>1, <2>3, <3>1 DEF Invs, TypeOK
    <3>3. {f.run : f \in row} = {}
      BY <2>3, <3>1
    <3>4. findings'[a] = {}
      BY <3>2, <3>3
    <3> QED BY <1>1, <2>1, <3>1, <3>4
  <2> QED BY <1>1, <2>1, <2>2, <2>3
<1>9. CASE DeleteRow(w)
  <2>1. on[w] # a
    BY <1>2, <1>3, <1>9 DEF DeleteRow, Grantable
  <2> QED BY <1>1, <1>9, <2>1 DEF DeleteRow, Invs, TypeOK
<1> QED
  BY <1>4, <1>5, <1>6, <1>7, <1>8, <1>9, Writers

LEMMA RunSelf ==
  ASSUME Invs, NEW w \in Workers, Turn(w)
  PROVE  RunOK(w)'
<1>0. on[w] \in Audits /\ RunOK(w)
  BY DEF Invs, TypeOK, RunInv
<1> USE DEF Analysing
<1>1. CASE Finish(w)
  BY <1>1 DEF Finish, Invs, TypeOK, RunOK
<1>2. CASE RunStep(w) /\ ~Finish(w)
  <2>1. CASE RunTryLock(w)
    BY <1>2, <2>1 DEF RunTryLock, Rollback, Goto, Invs, TypeOK, RunOK
  <2>2. CASE RunMark(w)
    <3>1. /\ pc'[w] = "run_docs" /\ on'[w] = on[w] /\ Exists(on[w])
          /\ status' = status
      BY <1>2, <2>2 DEF RunMark, Rollback, Goto, Invs, TypeOK, rows, session
    <3> QED BY <3>1 DEF RunOK, Exists
  <2>3. CASE RunDocs(w)
    <3>1. /\ pc[w] = "run_docs" /\ pc'[w] = "run_purge" /\ on'[w] = on[w]
          /\ documents[on[w]] > 0 /\ UNCHANGED rows
      BY <2>3 DEF RunDocs, Goto, Invs, TypeOK, session
    <3> QED BY <1>0, <3>1 DEF RunOK, Exists, rows
  <2>4. CASE RunPurge(w)
    <3>1. /\ pc[w] = "run_purge" /\ pc'[w] = "run_eval" /\ on'[w] = on[w]
          /\ seen'[w] = findings[on[w]] /\ UNCHANGED rows
      BY <2>4 DEF RunPurge, Goto, Invs, TypeOK
    <3>2. findings[on[w]] # {} => locks'[<<"findings", on[w]>>] = w
      BY <1>0, <2>4, LockIdsMember
        DEF RunPurge, AcquireFindings, Acquire, Invs, TypeOK
    <3> QED BY <1>0, <3>1, <3>2 DEF RunOK, Exists, Holds, rows
  <2> QED BY <1>2, <2>1, <2>2, <2>3, <2>4 DEF RunStep, RunFail, RunComplete
<1>3. CASE (ReportStep(w) \/ DeleteStep(w)) /\ ~Finish(w)
  <2>1. pc'[w] \in {"rep_read", "rep_version", "rep_write", "rep_commit", "del_row"}
    BY <1>3 DEF ReportStep, ReportLock, ReportRead, ReportVersion, ReportWrite,
         ReportCommit, Rollback, DeleteStep, DeleteChildren, DeleteRow, Goto,
         Invs, TypeOK
  <2> QED BY <2>1 DEF RunOK
<1>4. ASSUME NEW a \in Audits, Request(w, a) PROVE RunOK(w)'
  <2>1. pc'[w] \in {"run_lock", "rep_lock", "triage", "del_children"}
    BY <1>4 DEF Request, RunLoad, ReportLoad, TriageLoad, DeleteLoad, Load, Goto,
         Invs, TypeOK
  <2> QED BY <2>1 DEF RunOK
<1> QED
  BY <1>1, <1>2, <1>3, <1>4 DEF Turn, Step, Triage, Rollback

LEMMA RunInductive == Invs /\ [Next]_vars => RunInv'
<1> SUFFICES ASSUME Invs, [Next]_vars, NEW v \in Workers
             PROVE  RunOK(v)'
  BY DEF RunInv
<1>0. on[v] \in Audits /\ RunOK(v)
  BY DEF Invs, TypeOK, RunInv
<1>1. ASSUME NEW a \in Audits, Create(a) PROVE RunOK(v)'
  BY <1>0, <1>1
    DEF Create, session, Invs, TypeOK, RunOK, Exists, RowStatus, Analysing, Holds
<1>2. ASSUME NEW a \in Audits, Upload(a) PROVE RunOK(v)'
  BY <1>0, <1>2
    DEF Upload, session, Invs, TypeOK, RunOK, Exists, Analysing, Holds
<1>3. ASSUME NEW w \in Workers \ {v}, Turn(w) PROVE RunOK(v)'
  <2>1. Untouched(v)
    BY <1>3, Frame DEF Invs
  <2>2. CASE ~Analysing(v)
    BY <2>1, <2>2 DEF RunOK, Untouched, Analysing
  <2>3. CASE Analysing(v)
    <3>1. /\ status'[on[v]] \in RowStatus
          /\ documents'[on[v]] = documents[on[v]]
          /\ pc[v] = "run_eval" => findings'[on[v]] = findings[on[v]]
      BY <1>3, <2>3, RunUndisturbed
    <3>2. locks[<<"findings", on[v]>>] = v => locks'[<<"findings", on[v]>>] = v
      BY <1>0, <2>1, LockIdsMember DEF Untouched
    <3> QED BY <1>0, <2>1, <3>1, <3>2 DEF RunOK, Untouched, Exists, Holds, Analysing
  <2> QED BY <2>2, <2>3
<1>4. CASE UNCHANGED vars
  BY <1>0, <1>4 DEF vars, rows, session, RunOK, Analysing, Exists, Holds
<1> QED
  BY <1>1, <1>2, <1>3, <1>4, RunSelf, Turns

(***************************************************************************)
(* Reports                                                                 *)
(***************************************************************************)
\* The advisory lock separates the generations of a campaign's reports.
LEMMA ReportExclusion ==
  ASSUME TypeOK, LockInv, NEW w \in Workers, NEW v \in Workers \ {w},
         Reporting(v), Reporting(w)
  PROVE  on[v] # on[w]
BY DEF LockInv, LockOK, Holds

\* What w does to reports and files while v generates a report.
LEMMA ReportUndisturbed ==
  ASSUME Invs, NEW w \in Workers, NEW v \in Workers \ {w}, Turn(w), Reporting(v)
  PROVE  /\ reports'[on[v]] \subseteq reports[on[v]]
         /\ files'[on[v]] = files[on[v]]
<1>1. on[v] \in Audits /\ on[w] \in Audits
  BY DEF Invs, TypeOK
<1>2. CASE UNCHANGED rows
  BY <1>2 DEF rows
<1>3. CASE RunFail(w) \/ RunComplete(w) \/ Triage(w)
  BY <1>3 DEF RunFail, RunComplete, Triage
<1>4. CASE ReportWrite(w)
  <2>1. on[w] # on[v]
    BY <1>4, ReportExclusion DEF ReportWrite, Reporting, Invs
  <2> QED BY <1>1, <1>4, <2>1 DEF ReportWrite, Invs, TypeOK
<1>5. CASE ReportCommit(w) /\ ~Rollback(w)
  <2>1. on[w] # on[v]
    BY <1>5, ReportExclusion DEF ReportCommit, Reporting, Invs
  <2> QED BY <1>1, <1>5, <2>1 DEF ReportCommit, Invs, TypeOK
<1>6. CASE DeleteRow(w)
  BY <1>1, <1>6 DEF DeleteRow, Invs, TypeOK
<1> QED
  BY <1>2, <1>3, <1>4, <1>5, <1>6, Writers

LEMMA ReportSelf ==
  ASSUME Invs, ReportInv, NEW w \in Workers, Turn(w)
  PROVE  ReportOK(w)'
<1>0. on[w] \in Audits /\ ReportOK(w)
  BY DEF Invs, TypeOK, ReportInv
<1>1. CASE Finish(w)
  BY <1>1 DEF Finish, Invs, TypeOK, ReportOK
<1>2. CASE (RunStep(w) \/ DeleteStep(w)) /\ ~Finish(w)
  <2>1. pc'[w] \in {"run_mark", "run_docs", "run_purge", "run_eval", "del_row"}
    BY <1>2 DEF RunStep, RunTryLock, RunMark, RunDocs, RunPurge, RunFail,
         RunComplete, Rollback, DeleteStep, DeleteChildren, DeleteRow, Goto,
         Invs, TypeOK
  <2> QED BY <2>1 DEF ReportOK
<1>3. CASE ReportStep(w) /\ ~Finish(w)
  <2>1. CASE ReportLock(w) \/ ReportRead(w)
    <3>1. pc'[w] \in {"rep_read", "rep_version"}
      BY <2>1 DEF ReportLock, ReportRead, Goto, Invs, TypeOK
    <3> QED BY <3>1 DEF ReportOK
  <2>2. CASE ReportVersion(w)
    <3> DEFINE versions == {0} \union {r.version : r \in reports[on[w]]}
    <3>1. PICK last \in versions :
            /\ \A v \in versions : v <= last
            /\ num' = [num EXCEPT ![w] = last + 1]
      BY <2>2 DEF ReportVersion
    <3>2. /\ pc'[w] = "rep_write" /\ on'[w] = on[w] /\ UNCHANGED rows
          /\ num'[w] = last + 1
      BY <2>2, <3>1 DEF ReportVersion, Goto, Invs, TypeOK
    <3>3. \A r \in reports[on[w]] : r.version \in Nat
      BY <1>0 DEF Invs, TypeOK, Report
    <3>4. last \in Nat
      BY <3>1, <3>3
    <3>5. \A r \in reports[on[w]] : r.version # last + 1
      BY <3>1, <3>3, <3>4
    <3> QED BY <3>2, <3>5 DEF ReportOK, rows
  <2>3. CASE ReportWrite(w)
    <3>1. /\ pc[w] = "rep_write" /\ pc'[w] = "rep_commit"
          /\ on' = on /\ num' = num /\ snap' = snap /\ seen' = seen
          /\ reports' = reports
      BY <2>3 DEF ReportWrite, Goto, session, Invs, TypeOK
    <3>2. files'[on[w]] = {f \in files[on[w]] : f.version # num[w]} \union {Rendered(w)}
      BY <1>0, <2>3 DEF ReportWrite, Invs, TypeOK
    <3>3. Rendered(w)' = Rendered(w) /\ Rendered(w).version = num[w]
      BY <3>1 DEF Rendered
    <3>4. {f \in files'[on[w]] : f.version = num[w]} = {Rendered(w)}
      BY <3>2, <3>3
    <3> QED BY <1>0, <3>1, <3>3, <3>4 DEF ReportOK
  <2> QED BY <1>3, <2>1, <2>2, <2>3 DEF ReportStep, ReportCommit, Rollback
<1>4. ASSUME NEW a \in Audits, Request(w, a) PROVE ReportOK(w)'
  <2>1. pc'[w] \in {"run_lock", "rep_lock", "triage", "del_children"}
    BY <1>4 DEF Request, RunLoad, ReportLoad, TriageLoad, DeleteLoad, Load, Goto,
         Invs, TypeOK
  <2> QED BY <2>1 DEF ReportOK
<1> QED
  BY <1>1, <1>2, <1>3, <1>4 DEF Turn, Step, Triage, Rollback

LEMMA ReportInductive == Invs /\ ReportInv /\ [Next]_vars => ReportInv'
<1> SUFFICES ASSUME Invs, ReportInv, [Next]_vars, NEW v \in Workers
             PROVE  ReportOK(v)'
  BY DEF ReportInv
<1>0. on[v] \in Audits /\ ReportOK(v)
  BY DEF Invs, TypeOK, ReportInv
<1>1. CASE \E a \in Audits : Create(a) \/ Upload(a)
  BY <1>0, <1>1 DEF Create, Upload, session, ReportOK, Rendered
<1>2. ASSUME NEW w \in Workers \ {v}, Turn(w) PROVE ReportOK(v)'
  <2>1. Untouched(v)
    BY <1>2, Frame DEF Invs
  <2>2. CASE ~Reporting(v)
    BY <2>1, <2>2 DEF ReportOK, Untouched, Reporting
  <2>3. CASE Reporting(v)
    <3>1. reports'[on[v]] \subseteq reports[on[v]] /\ files'[on[v]] = files[on[v]]
      BY <1>2, <2>3, ReportUndisturbed
    <3>2. Rendered(v)' = Rendered(v)
      BY <2>1 DEF Untouched, Rendered
    <3> QED BY <1>0, <2>1, <3>1, <3>2 DEF ReportOK, Untouched
  <2> QED BY <2>2, <2>3
<1>3. CASE UNCHANGED vars
  BY <1>0, <1>3 DEF vars, rows, session, ReportOK, Rendered
<1> QED
  BY <1>1, <1>2, <1>3, ReportSelf, Turns

\* The lock of generate_report makes the version of a report free at commit.
LEMMA ReportFree == ReportInv => ReportVersionFree
BY DEF ReportInv, ReportOK, ReportVersionFree

LEMMA ReportFilesInductive ==
  Invs /\ ReportInv /\ ReportFileMatches /\ [Next]_vars => ReportFileMatches'
<1> SUFFICES ASSUME Invs, ReportInv, ReportFileMatches, [Next]_vars,
                    NEW a \in Audits, NEW r \in reports'[a]
             PROVE  {f \in files'[a] : f.version = r.version} = {r}
  BY DEF ReportFileMatches
<1>0. r \in reports[a] => {f \in files[a] : f.version = r.version} = {r}
  BY DEF ReportFileMatches
<1>1. CASE UNCHANGED <<reports, files>>
  BY <1>0, <1>1
<1>2. ASSUME NEW w \in Workers, ReportWrite(w)
      PROVE  {f \in files'[a] : f.version = r.version} = {r}
  <2>1. reports' = reports /\ (a # on[w] => files'[a] = files[a])
    BY <1>2 DEF ReportWrite, Invs, TypeOK
  <2>2. CASE a = on[w]
    <3>1. files'[a] = {f \in files[a] : f.version # num[w]} \union {Rendered(w)}
      BY <1>2, <2>2 DEF ReportWrite, Invs, TypeOK
    <3>2. r.version # num[w]
      BY <1>2, <2>1, <2>2 DEF ReportWrite, ReportInv, ReportOK
    <3>3. Rendered(w).version = num[w]
      BY DEF Rendered
    <3> QED BY <1>0, <2>1, <3>1, <3>2, <3>3
  <2> QED BY <1>0, <2>1, <2>2
<1>3. ASSUME NEW w \in Workers, ReportCommit(w), ~Rollback(w)
      PROVE  {f \in files'[a] : f.version = r.version} = {r}
  <2>1. /\ files' = files /\ pc[w] = "rep_commit"
        /\ reports' = [reports EXCEPT ![on[w]] = @ \union {Rendered(w)}]
    BY <1>3 DEF ReportCommit
  <2>2. CASE r \in reports[a]
    BY <1>0, <2>1, <2>2
  <2>3. CASE r \notin reports[a]
    <3>1. a = on[w] /\ r = Rendered(w)
      BY <2>1, <2>3 DEF Invs, TypeOK
    <3>2. r.version = num[w]
      BY <3>1 DEF Rendered
    <3> QED BY <2>1, <3>1, <3>2 DEF ReportInv, ReportOK
  <2> QED BY <2>2, <2>3
<1>4. ASSUME NEW w \in Workers, DeleteRow(w)
      PROVE  {f \in files'[a] : f.version = r.version} = {r}
  <2>1. files' = files /\ reports'[a] \subseteq reports[a]
    BY <1>4 DEF DeleteRow, Invs, TypeOK
  <2> QED BY <1>0, <2>1
<1>5. CASE \E b \in Audits : Create(b) \/ Upload(b)
  BY <1>1, <1>5 DEF Create, Upload
<1>6. ASSUME NEW w \in Workers, Turn(w)
      PROVE  {f \in files'[a] : f.version = r.version} = {r}
  BY <1>1, <1>2, <1>3, <1>4, <1>6, Writers DEF rows, RunFail, RunComplete, Triage
<1>7. CASE UNCHANGED vars
  BY <1>1, <1>7 DEF vars, rows
<1> QED
  BY <1>5, <1>6, <1>7, Turns

(***************************************************************************)
(* Campaigns                                                               *)
(***************************************************************************)
LEMMA RowsInductive ==
  /\ Invs /\ FindingsFromOneRun /\ NoOrphanRows
  /\ NoCommittedRunning /\ CompletedHasDocuments /\ [Next]_vars
  => /\ FindingsFromOneRun' /\ NoOrphanRows'
     /\ NoCommittedRunning' /\ CompletedHasDocuments'
<1> DEFINE RowOK(a) ==
      /\ status[a] # "running"
      /\ \A f, g \in findings[a] : f.run = g.run
      /\ ~Exists(a) => documents[a] = 0 /\ findings[a] = {} /\ reports[a] = {}
      /\ status[a] = "completed" => documents[a] > 0
<1> SUFFICES ASSUME Invs, [Next]_vars, \A a \in Audits : RowOK(a), NEW a \in Audits
             PROVE  RowOK(a)'
  BY DEF FindingsFromOneRun, NoOrphanRows, NoCommittedRunning, CompletedHasDocuments
<1>0. RowOK(a) /\ TypeOK
  BY DEF Invs
<1>1. CASE UNCHANGED <<status, documents, findings, reports>>
  BY <1>0, <1>1 DEF Exists
<1>2. ASSUME NEW b \in Audits, Create(b) \/ Upload(b) PROVE RowOK(a)'
  <2>1. CASE Create(b)
    BY <1>0, <2>1 DEF Create, TypeOK, Exists, RowStatus
  <2>2. CASE Upload(b)
    BY <1>0, <2>2 DEF Upload, TypeOK, Exists
  <2> QED BY <1>2, <2>1, <2>2
<1>3. ASSUME NEW w \in Workers, Turn(w) PROVE RowOK(a)'
  <2>0. on[w] \in Audits /\ RunOK(w) /\ RowOK(on[w])
    BY <1>0 DEF Invs, TypeOK, RunInv
  <2>1. CASE on[w] # a
    <3>1. /\ status'[a] = status[a] /\ documents'[a] = documents[a]
          /\ findings'[a] = findings[a] /\ reports'[a] = reports[a]
      <4>1. CASE UNCHANGED rows \/ ReportWrite(w)
        BY <4>1 DEF rows, ReportWrite
      <4>2. CASE RunFail(w) \/ RunComplete(w)
        BY <1>0, <2>0, <2>1, <4>2 DEF RunFail, RunComplete, TypeOK
      <4>3. CASE ReportCommit(w) /\ ~Rollback(w)
        BY <1>0, <2>0, <2>1, <4>3 DEF ReportCommit, TypeOK
      <4>4. CASE Triage(w)
        BY <1>0, <2>0, <2>1, <4>4 DEF Triage, TypeOK
      <4>5. CASE DeleteRow(w)
        BY <1>0, <2>0, <2>1, <4>5 DEF DeleteRow, TypeOK
      <4> QED BY <1>3, <4>1, <4>2, <4>3, <4>4, <4>5, Writers
    <3> QED BY <1>0, <3>1 DEF Exists
  <2>2. CASE RunFail(w) /\ on[w] = a
    <3>1. /\ status'[a] = "failed" /\ documents' = documents /\ reports' = reports
          /\ findings'[a] \subseteq findings[a]
      BY <1>0, <2>2 DEF RunFail, TypeOK
    <3> QED BY <1>0, <3>1 DEF Exists, RowStatus
  <2>3. CASE RunComplete(w) /\ on[w] = a
    <3>1. PICK new \in SUBSET [run: {num[w]}, triaged: {FALSE}] :
            findings' = [findings EXCEPT ![a] = (@ \ seen[w]) \union new]
      BY <2>3 DEF RunComplete
    <3>2. /\ pc[w] = "run_eval" /\ status'[a] = "completed"
          /\ documents' = documents /\ reports' = reports
      BY <1>0, <2>3 DEF RunComplete, TypeOK
    <3>3. findings[a] = seen[w] /\ documents[a] > 0
      BY <2>0, <2>3, <3>2 DEF RunOK
    <3>4. findings'[a] = new
      BY <1>0, <3>1, <3>3 DEF TypeOK
    <3> QED BY <3>2, <3>3, <3>4 DEF Exists, RowStatus
  <2>4. CASE ReportCommit(w) /\ ~Rollback(w) /\ on[w] = a
    <3>1. /\ Exists(a) /\ status' = status /\ documents' = documents
          /\ findings' = findings
      BY <2>4 DEF ReportCommit, Insertable
    <3> QED BY <1>0, <3>1 DEF Exists
  <2>5. CASE Triage(w) /\ on[w] = a
    <3> DEFINE row == {f \in findings[a] : \E g \in seen[w] : f.run = g.run}
    <3>1. /\ status' = status /\ documents' = documents /\ reports' = reports
          /\ findings'[a] = (findings[a] \ row)
                              \union [run: {f.run : f \in row}, triaged: {TRUE}]
      BY <1>0, <2>5 DEF Triage, TypeOK
    <3>2. \A f \in findings'[a] : \E g \in findings[a] : f.run = g.run
      BY <3>1
    <3>3. \A f, g \in findings'[a] : f.run = g.run
      BY <1>0, <3>2
    <3>4. findings[a] = {} => findings'[a] = {}
      BY <3>2
    <3> QED BY <1>0, <3>1, <3>3, <3>4 DEF Exists
  <2>6. CASE DeleteRow(w) /\ on[w] = a
    <3>1. /\ status'[a] = "deleted" /\ documents'[a] = 0
          /\ findings'[a] = {} /\ reports'[a] = {}
      BY <1>0, <2>6 DEF DeleteRow, TypeOK
    <3> QED BY <3>1
  <2>7. CASE UNCHANGED rows \/ ReportWrite(w)
    BY <1>1, <2>7 DEF rows, ReportWrite
  <2> QED BY <1>3, <2>1, <2>2, <2>3, <2>4, <2>5, <2>6, <2>7, Writers
<1>4. CASE UNCHANGED vars
  BY <1>1, <1>4 DEF vars, rows
<1> QED
  BY <1>2, <1>3, <1>4, Turns

(***************************************************************************)
(* Theorems                                                                *)
(***************************************************************************)
LEMMA IInvInit == Init => IInv
<1> SUFFICES ASSUME Init PROVE IInv
  OBVIOUS
<1>1. LockInv
  BY SentinelAssumption, LockIdsMember
    DEF Init, LockInv, LockOK, Analysing, Reporting
<1>2. RunInv /\ ReportInv
  BY DEF Init, RunInv, RunOK, ReportInv, ReportOK, Analysing
<1>3. /\ NoCommittedRunning /\ FindingsFromOneRun /\ NoOrphanRows
      /\ CompletedHasDocuments /\ ReportFileMatches
  BY DEF Init, NoCommittedRunning, FindingsFromOneRun, NoOrphanRows,
         CompletedHasDocuments, ReportFileMatches
<1> QED
  BY <1>1, <1>2, <1>3, TypeInit DEF IInv

LEMMA IInvInductive == IInv /\ [Next]_vars => IInv'
BY TypeInductive, LockInductive, RunInductive, ReportInductive,
   ReportFilesInductive, RowsInductive
   DEF IInv, Invs

LEMMA Invariant == Spec => []IInv
BY IInvInit, IInvInductive, PTL DEF Spec

\* No two transactions ever analyse the same campaign.
THEOREM AnalysesExclusive == Spec => []RunExclusive
<1>1. IInv => RunExclusive
  BY LockExclusion DEF IInv
<1> QED
  BY <1>1, Invariant, PTL

\* A request to analyse a campaign is never left waiting for another analysis.
THEOREM AnalysisAnswered == Spec => []RunNeverWaits
<1>1. IInv => RunNeverWaits
  BY LockAnswer DEF IInv
<1> QED
  BY <1>1, Invariant, PTL

\* No crash leaves a campaign "running".
THEOREM RunningNotCommitted == Spec => []NoCommittedRunning
<1>1. IInv => NoCommittedRunning
  BY DEF IInv
<1> QED
  BY <1>1, Invariant, PTL

\* The findings of a campaign never mix two analyses.
THEOREM FindingsCoherent == Spec => []FindingsFromOneRun
<1>1. IInv => FindingsFromOneRun
  BY DEF IInv
<1> QED
  BY <1>1, Invariant, PTL

\* Deletion leaves no row behind, whatever was under way.
THEOREM DeletionComplete == Spec => []NoOrphanRows
<1>1. IInv => NoOrphanRows
  BY DEF IInv
<1> QED
  BY <1>1, Invariant, PTL

\* Only a campaign with a document is completed.
THEOREM CompletionNeedsDocuments == Spec => []CompletedHasDocuments
<1>1. IInv => CompletedHasDocuments
  BY DEF IInv
<1> QED
  BY <1>1, Invariant, PTL

\* Two requests never insert the same version of a report.
THEOREM ReportVersionsDistinct == Spec => []ReportVersionFree
<1>1. IInv => ReportVersionFree
  BY ReportFree DEF IInv
<1> QED
  BY <1>1, Invariant, PTL

\* The file of a committed report stays the one its digest was computed from.
THEOREM ReportFilesFaithful == Spec => []ReportFileMatches
<1>1. IInv => ReportFileMatches
  BY DEF IInv
<1> QED
  BY <1>1, Invariant, PTL

(***************************************************************************)
(* Refinement                                                              *)
(*                                                                         *)
(* Campaign implements Lifecycle: whatever the transactions of a campaign  *)
(* interleave, each commit is one step of the abstract life or none.       *)
(* Beyond the invariant above, this takes what a commit knows of the past: *)
(* the number of an analysis is that of no other, the version of a report  *)
(* still follows the last one, and the campaign a request loaded has been  *)
(* created, and analysed if the request is for a report.                   *)
(***************************************************************************)

\* The worker's request is an analysis, which has a number.
Running(w) == pc[w] \in RunSteps

\* A number is drawn once: two analyses never have the same, and no finding
\* carries that of an analysis that has not concluded.
NumberOK(w) ==
  Running(w) =>
    /\ num[w] < nextRun
    /\ \A v \in Workers \ {w} : Running(v) => num[v] # num[w]
    /\ \A a \in Audits : \A f \in findings[a] : f.run # num[w]
NumberInv ==
  /\ \A a \in Audits : \A f \in findings[a] : f.run < nextRun
  /\ \A w \in Workers : NumberOK(w)

\* A request is about a campaign that was created, a report about one that was
\* analysed; both may have been deleted since.
BegunOK(w) ==
  /\ pc[w] # "idle" => status[on[w]] # "none"
  /\ pc[w] \in ReportSteps => status[on[w]] # "draft"
BegunInv == \A w \in Workers : BegunOK(w)

\* m is one more than the version of the last report of a.
NextVersion(a, m) ==
  \E last \in {r.version : r \in reports[a]} \union {0} :
    /\ \A v \in {r.version : r \in reports[a]} : v <= last
    /\ m = last + 1

\* The version chosen under the report lock is still the next one at commit.
VersionOK(w) ==
  pc[w] \in {"rep_write", "rep_commit"} /\ Exists(on[w]) =>
    NextVersion(on[w], num[w])
VersionInv == \A w \in Workers : VersionOK(w)

(***************************************************************************)
(* How the committed rows move                                             *)
(***************************************************************************)
\* A turn leaves the status of a campaign, or concludes an analysis of one that
\* exists, or deletes it.
LEMMA StatusMoves ==
  ASSUME Invs, NEW w \in Workers, Turn(w), NEW a \in Audits
  PROVE  \/ status'[a] = status[a]
         \/ Exists(a) /\ status'[a] \in {"completed", "failed"}
         \/ status'[a] = "deleted"
<1>1. on[w] \in Audits /\ RunOK(w)
  BY DEF Invs, TypeOK, RunInv
<1>2. CASE UNCHANGED status
  BY <1>2
<1>3. CASE RunFail(w) \/ RunComplete(w)
  <2>1. /\ Exists(on[w])
        /\ \E new \in {"completed", "failed"} : status' = [status EXCEPT ![on[w]] = new]
    BY <1>1, <1>3 DEF RunFail, RunComplete, RunOK, Analysing
  <2> QED BY <1>1, <2>1 DEF Invs, TypeOK
<1>4. CASE DeleteRow(w)
  BY <1>1, <1>4 DEF DeleteRow, Invs, TypeOK
<1> QED
  BY <1>2, <1>3, <1>4, Writers DEF rows, ReportWrite, ReportCommit, Triage

LEMMA BegunInductive == Invs /\ BegunInv /\ [Next]_vars => BegunInv'
<1> SUFFICES ASSUME Invs, BegunInv, [Next]_vars, NEW v \in Workers
             PROVE  BegunOK(v)'
  BY DEF BegunInv
<1>0. on[v] \in Audits /\ BegunOK(v)
  BY DEF Invs, TypeOK, BegunInv
<1> USE DEF BegunOK, ReportSteps
<1>1. ASSUME NEW a \in Audits, Create(a) PROVE BegunOK(v)'
  <2>1. /\ pc' = pc /\ on' = on /\ status[a] = "none"
        /\ status' = [status EXCEPT ![a] = "draft"]
    BY <1>1 DEF Create, session
  <2> QED BY <1>0, <2>1 DEF Invs, TypeOK
<1>2. ASSUME NEW a \in Audits, Upload(a) PROVE BegunOK(v)'
  BY <1>0, <1>2 DEF Upload, session
<1>3. ASSUME NEW w \in Workers \ {v}, Turn(w) PROVE BegunOK(v)'
  <2>1. pc'[v] = pc[v] /\ on'[v] = on[v]
    BY <1>3, Frame DEF Invs, Untouched
  <2> QED BY <1>0, <1>3, <2>1, StatusMoves DEF Exists, RowStatus
<1>4. ASSUME NEW a \in Audits, Request(v, a) PROVE BegunOK(v)'
  <2>1. /\ pc'[v] \in {"run_lock", "rep_lock", "triage", "del_children"}
        /\ on'[v] = a /\ status' = status /\ Exists(a)
        /\ pc'[v] = "rep_lock" => status[a] = "completed"
    BY <1>4 DEF Request, RunLoad, ReportLoad, TriageLoad, DeleteLoad, Load, Goto,
         rows, Invs, TypeOK
  <2> QED BY <2>1 DEF Exists, RowStatus
<1>5. CASE Finish(v)
  BY <1>5 DEF Finish, Invs, TypeOK
<1>6. CASE Step(v) /\ ~Finish(v)
  <2>1. /\ pc[v] # "idle" /\ on'[v] = on[v] /\ status' = status
        /\ pc'[v] \in ReportSteps => pc[v] \in ReportSteps
    <3>1. CASE RunStep(v)
      BY <1>6, <3>1 DEF RunStep, RunTryLock, RunMark, RunDocs, RunPurge, RunFail,
           RunComplete, Rollback, Goto, rows, session, Invs, TypeOK
    <3>2. CASE ReportStep(v)
      BY <1>6, <3>2 DEF ReportStep, ReportLock, ReportRead, ReportVersion,
           ReportWrite, ReportCommit, Rollback, Goto, rows, session, Invs, TypeOK
    <3>3. CASE DeleteStep(v)
      BY <1>6, <3>3 DEF DeleteStep, DeleteChildren, DeleteRow, Goto, rows, session,
           Invs, TypeOK
    <3> QED BY <1>6, <3>1, <3>2, <3>3 DEF Step, Triage
  <2> QED BY <1>0, <2>1
<1>7. CASE UNCHANGED vars
  BY <1>0, <1>7 DEF vars, rows, session
<1> QED
  BY <1>1, <1>2, <1>3, <1>4, <1>5, <1>6, <1>7, Turns DEF Turn, Rollback

(***************************************************************************)
(* Numbers of analyses                                                     *)
(***************************************************************************)
\* The findings of a campaign come from an analysis whose findings it had, or
\* from the one that concludes in this turn.
LEMMA FindingsMove ==
  ASSUME Invs, NEW w \in Workers, Turn(w), NEW a \in Audits, NEW f \in findings'[a]
  PROVE  \/ \E g \in findings[a] : f.run = g.run
         \/ RunComplete(w) /\ f.run = num[w]
<1>1. on[w] \in Audits /\ (a # on[w] \/ UNCHANGED findings => findings'[a] = findings[a])
  <2>1. \/ UNCHANGED findings
        \/ \E new : findings' = [findings EXCEPT ![on[w]] = new]
    BY Writers DEF rows, RunFail, RunComplete, ReportWrite, ReportCommit, Triage, DeleteRow
  <2> QED BY <2>1 DEF Invs, TypeOK
<1>2. CASE a # on[w] \/ UNCHANGED findings
  BY <1>1, <1>2
<1>3. CASE RunComplete(w) /\ a = on[w]
  <2>1. PICK new \in SUBSET [run: {num[w]}, triaged: {FALSE}] :
          findings' = [findings EXCEPT ![a] = (@ \ seen[w]) \union new]
    BY <1>3 DEF RunComplete
  <2>2. findings'[a] = (findings[a] \ seen[w]) \union new
    BY <2>1 DEF Invs, TypeOK
  <2> QED BY <1>3, <2>1, <2>2
<1>4. CASE Triage(w) /\ a = on[w]
  <2> DEFINE row == {g \in findings[a] : \E h \in seen[w] : g.run = h.run}
  <2>1. findings'[a] = (findings[a] \ row) \union [run: {g.run : g \in row}, triaged: {TRUE}]
    BY <1>4 DEF Triage, Invs, TypeOK
  <2> QED BY <2>1
<1>5. CASE (RunFail(w) \/ DeleteRow(w)) /\ a = on[w]
  <2>1. findings'[a] \subseteq findings[a]
    BY <1>5 DEF RunFail, DeleteRow, Invs, TypeOK
  <2> QED BY <2>1
<1> QED
  BY <1>2, <1>3, <1>4, <1>5, Writers DEF rows, ReportWrite, ReportCommit

\* A worker has the number of an analysis since its turn before, or has just
\* drawn the next one.
LEMMA NumbersDrawn ==
  ASSUME Invs, NEW w \in Workers, Turn(w)
  PROVE  /\ nextRun <= nextRun'
         /\ \/ ~Running(w)'
            \/ Running(w) /\ num'[w] = num[w] /\ ~RunComplete(w)
            \/ num'[w] = nextRun /\ nextRun' = nextRun + 1 /\ ~RunComplete(w)
<1> USE DEF Running, RunSteps
<1> DEFINE Kept ==
      /\ nextRun' = nextRun
      /\ ~Running(w)' \/ (Running(w) /\ num'[w] = num[w] /\ ~RunComplete(w))
<1>1. ASSUME Finish(w) PROVE Kept
  BY <1>1 DEF Finish, Invs, TypeOK
<1>2. ASSUME RunStep(w), ~Finish(w) PROVE Kept
  <2>1. /\ pc[w] \in {"run_lock", "run_mark", "run_docs", "run_purge"}
        /\ num'[w] = num[w] /\ nextRun' = nextRun
    BY <1>2 DEF RunStep, RunTryLock, RunMark, RunDocs, RunPurge, RunFail,
         RunComplete, Rollback, session
  <2> QED BY <2>1 DEF RunComplete
<1>3. ASSUME ReportStep(w), ~Finish(w) PROVE Kept
  <2>1. /\ nextRun' = nextRun
        /\ pc'[w] \in {"rep_read", "rep_version", "rep_write", "rep_commit"}
    BY <1>3 DEF ReportStep, ReportLock, ReportRead, ReportVersion, ReportWrite,
         ReportCommit, Rollback, Goto, session, Invs, TypeOK
  <2> QED BY <2>1
<1>4. ASSUME DeleteStep(w), ~Finish(w) PROVE Kept
  BY <1>4 DEF DeleteStep, DeleteChildren, DeleteRow, Goto, session, Invs, TypeOK
<1>5. ASSUME NEW a \in Audits, RunLoad(w, a)
      PROVE  num'[w] = nextRun /\ nextRun' = nextRun + 1 /\ ~RunComplete(w)
  BY <1>5 DEF RunLoad, RunComplete, Load, Invs, TypeOK
<1>6. ASSUME NEW a \in Audits, ReportLoad(w, a) \/ TriageLoad(w, a) \/ DeleteLoad(w, a)
      PROVE  Kept
  BY <1>6 DEF ReportLoad, TriageLoad, DeleteLoad, Load, Goto, Invs, TypeOK
<1>7. Kept \/ (num'[w] = nextRun /\ nextRun' = nextRun + 1 /\ ~RunComplete(w))
  <2>1. Finish(w) \/ RunStep(w) \/ ReportStep(w) \/ DeleteStep(w)
          \/ \E a \in Audits : Request(w, a)
    BY DEF Turn, Step, Triage, Rollback
  <2>2. ASSUME NEW a \in Audits, Request(w, a)
        PROVE  Kept \/ (num'[w] = nextRun /\ nextRun' = nextRun + 1 /\ ~RunComplete(w))
    BY <1>5, <1>6, <2>2 DEF Request
  <2> QED BY <1>1, <1>2, <1>3, <1>4, <2>1, <2>2
<1> QED
  BY <1>7 DEF Invs, TypeOK

LEMMA NumberInductive == Invs /\ NumberInv /\ [Next]_vars => NumberInv'
<1> SUFFICES ASSUME Invs, NumberInv, [Next]_vars PROVE NumberInv'
  OBVIOUS
<1>0. /\ nextRun \in Nat
      /\ \A v \in Workers : num[v] \in Nat
      /\ \A a \in Audits : \A f \in findings[a] : f.run \in Nat
  BY DEF Invs, TypeOK, Finding
<1>1. CASE UNCHANGED <<findings, pc, num, nextRun>>
  BY <1>1 DEF NumberInv, NumberOK, Running
<1>2. ASSUME NEW w \in Workers, Turn(w) PROVE NumberInv'
  <2>1. /\ nextRun' \in Nat /\ nextRun <= nextRun'
        /\ \/ ~Running(w)'
           \/ Running(w) /\ num'[w] = num[w] /\ ~RunComplete(w)
           \/ num'[w] = nextRun /\ nextRun' = nextRun + 1 /\ ~RunComplete(w)
    BY <1>2, TypeInductive, NumbersDrawn DEF Invs, TypeOK
  <2>2. \A v \in Workers \ {w} : (Running(v)' <=> Running(v)) /\ num'[v] = num[v]
    BY <1>2, Frame DEF Invs, Untouched, Running
  <2>3. RunComplete(w) => Running(w)
    BY DEF RunComplete, Running, RunSteps
  <2>4. \A a \in Audits : \A f \in findings'[a] :
          \/ \E g \in findings[a] : f.run = g.run
          \/ RunComplete(w) /\ f.run = num[w]
    BY <1>2, FindingsMove
  <2>5. \A a \in Audits : \A f \in findings'[a] : f.run < nextRun'
    BY <1>0, <2>1, <2>3, <2>4 DEF NumberInv, NumberOK
  <2>6. ASSUME NEW v \in Workers, Running(v)' PROVE NumberOK(v)'
    <3>1. num'[v] < nextRun'
      BY <1>0, <2>1, <2>2, <2>6 DEF NumberInv, NumberOK
    <3>2. ASSUME NEW u \in Workers \ {v}, Running(u)' PROVE num'[v] # num'[u]
      BY <1>0, <2>1, <2>2, <2>6, <3>2 DEF NumberInv, NumberOK
    <3>3. ASSUME NEW a \in Audits, NEW f \in findings'[a] PROVE f.run # num'[v]
      <4>1. CASE \E g \in findings[a] : f.run = g.run
        BY <1>0, <2>1, <2>2, <2>6, <4>1 DEF NumberInv, NumberOK
      <4>2. CASE RunComplete(w) /\ f.run = num[w]
        BY <1>0, <2>1, <2>2, <2>3, <2>6, <4>2 DEF NumberInv, NumberOK
      <4> QED BY <2>4, <4>1, <4>2
    <3> QED BY <3>1, <3>2, <3>3 DEF NumberOK
  <2> QED BY <2>5, <2>6 DEF NumberInv, NumberOK
<1>3. CASE \E a \in Audits : Create(a) \/ Upload(a)
  BY <1>1, <1>3 DEF Create, Upload, session
<1>4. CASE UNCHANGED vars
  BY <1>1, <1>4 DEF vars, rows, session
<1> QED
  BY <1>2, <1>3, <1>4, Turns

(***************************************************************************)
(* Versions of reports                                                     *)
(***************************************************************************)
\* While v generates a report, no other worker changes the reports of its
\* campaign but by deleting it.
LEMMA ReportsUndisturbed ==
  ASSUME Invs, NEW w \in Workers, NEW v \in Workers \ {w}, Turn(w), Reporting(v)
  PROVE  reports'[on[v]] = reports[on[v]] \/ status'[on[v]] = "deleted"
<1>1. on[v] \in Audits /\ on[w] \in Audits
  BY DEF Invs, TypeOK
<1>2. CASE UNCHANGED reports
  BY <1>2
<1>3. CASE ReportCommit(w) /\ ~Rollback(w)
  <2>1. on[w] # on[v]
    BY <1>3, ReportExclusion DEF ReportCommit, Reporting, Invs
  <2> QED BY <1>1, <1>3, <2>1 DEF ReportCommit, Invs, TypeOK
<1>4. CASE DeleteRow(w)
  BY <1>1, <1>4 DEF DeleteRow, Invs, TypeOK
<1> QED
  BY <1>2, <1>3, <1>4, Writers DEF rows, RunFail, RunComplete, ReportWrite, Triage

LEMMA VersionInductive ==
  Invs /\ BegunInv /\ VersionInv /\ [Next]_vars => VersionInv'
<1> SUFFICES ASSUME Invs, BegunInv, VersionInv, [Next]_vars, NEW v \in Workers
             PROVE  VersionOK(v)'
  BY DEF VersionInv
<1>0. on[v] \in Audits /\ VersionOK(v) /\ BegunOK(v)
  BY DEF Invs, TypeOK, VersionInv, BegunInv
<1>1. ASSUME pc'[v] = pc[v], on'[v] = on[v], num'[v] = num[v],
             pc[v] \in {"rep_write", "rep_commit"} /\ Exists(on[v])'
               => Exists(on[v]) /\ reports'[on[v]] = reports[on[v]]
      PROVE  VersionOK(v)'
  BY <1>0, <1>1 DEF VersionOK, NextVersion, Exists
<1>2. ASSUME NEW a \in Audits, Create(a) PROVE VersionOK(v)'
  <2>1. /\ UNCHANGED <<pc, on, num, reports>> /\ status[a] = "none"
        /\ status' = [status EXCEPT ![a] = "draft"]
    BY <1>2 DEF Create, session
  <2>2. pc[v] \in {"rep_write", "rep_commit"} => on[v] # a
    BY <1>0, <2>1 DEF BegunOK
  <2>3. pc[v] \in {"rep_write", "rep_commit"} /\ Exists(on[v])' => Exists(on[v])
    BY <1>0, <2>1, <2>2 DEF Exists, Invs, TypeOK
  <2> QED BY <1>1, <2>1, <2>3
<1>3. CASE \E a \in Audits : Upload(a)
  BY <1>1, <1>3 DEF Upload, session, Exists
<1>4. ASSUME NEW w \in Workers \ {v}, Turn(w) PROVE VersionOK(v)'
  <2>1. pc'[v] = pc[v] /\ on'[v] = on[v] /\ num'[v] = num[v]
    BY <1>4, Frame DEF Invs, Untouched
  <2>2. Exists(on[v])' => Exists(on[v])
    BY <1>0, <1>4, <2>1, StatusMoves DEF Exists, RowStatus
  <2>3. Reporting(v) /\ Exists(on[v])' => reports'[on[v]] = reports[on[v]]
    BY <1>4, <2>1, ReportsUndisturbed DEF Exists, RowStatus
  <2> QED BY <1>1, <2>1, <2>2, <2>3 DEF Reporting
<1>5. CASE ReportVersion(v)
  <2>1. PICK last \in {0} \union {r.version : r \in reports[on[v]]} :
          /\ \A m \in {0} \union {r.version : r \in reports[on[v]]} : m <= last
          /\ num' = [num EXCEPT ![v] = last + 1]
    BY <1>5 DEF ReportVersion
  <2>2. on'[v] = on[v] /\ UNCHANGED rows /\ num'[v] = last + 1
    BY <1>5, <2>1 DEF ReportVersion, Invs, TypeOK
  <2> QED BY <2>1, <2>2 DEF VersionOK, NextVersion, rows
<1>6. CASE ReportWrite(v)
  BY <1>0, <1>6 DEF ReportWrite, Goto, session, VersionOK, NextVersion, Exists
<1>7. ASSUME Turn(v), ~ReportVersion(v), ~ReportWrite(v) PROVE VersionOK(v)'
  <2>1. pc'[v] \notin {"rep_write", "rep_commit"}
    <3>1. CASE Finish(v)
      BY <3>1 DEF Finish, Invs, TypeOK
    <3>2. CASE RunStep(v) /\ ~Finish(v)
      BY <3>2 DEF RunStep, RunTryLock, RunMark, RunDocs, RunPurge, RunFail,
           RunComplete, Rollback, Goto, Invs, TypeOK
    <3>3. CASE (ReportStep(v) \/ DeleteStep(v)) /\ ~Finish(v)
      BY <1>7, <3>3 DEF ReportStep, ReportLock, ReportRead, ReportCommit, Rollback,
           DeleteStep, DeleteChildren, DeleteRow, Goto, Invs, TypeOK
    <3>4. ASSUME NEW a \in Audits, Request(v, a) PROVE pc'[v] \notin {"rep_write", "rep_commit"}
      BY <3>4 DEF Request, RunLoad, ReportLoad, TriageLoad, DeleteLoad, Load, Goto,
           Invs, TypeOK
    <3> QED BY <1>7, <3>1, <3>2, <3>3, <3>4 DEF Turn, Step, Triage, Rollback
  <2> QED BY <2>1 DEF VersionOK
<1>8. CASE UNCHANGED vars
  BY <1>1, <1>8 DEF vars, rows, session, Exists
<1> QED
  BY <1>2, <1>3, <1>4, <1>5, <1>6, <1>7, <1>8, Turns

(***************************************************************************)
(* The refinement                                                          *)
(***************************************************************************)
AllInv == IInv /\ BegunInv /\ NumberInv /\ VersionInv

LEMMA AllInit == Init => AllInv
BY IInvInit DEF Init, AllInv, BegunInv, BegunOK, NumberInv, NumberOK, Running,
   VersionInv, VersionOK, ReportSteps, RunSteps

LEMMA AllInductive == AllInv /\ [Next]_vars => AllInv'
BY IInvInductive, BegunInductive, NumberInductive, VersionInductive
   DEF AllInv, IInv, Invs

\* The image of the committed rows.
Documented == [a \in Audits |-> documents[a] > 0]
Analysis == [a \in Audits |-> {f.run : f \in findings[a]}]
Published == [a \in Audits |-> {r.version : r \in reports[a]}]

LEMMA LifeInit == Init => Life!Init
<1> SUFFICES ASSUME Init PROVE Life!Init
  OBVIOUS
<1>1. \A a \in Audits : ~(documents[a] > 0)
  BY DEF Init
<1>2. Documented = [a \in Audits |-> FALSE]
  <2>1. ASSUME NEW a \in Audits PROVE (documents[a] > 0) = FALSE
    BY <1>1
  <2> QED BY <2>1, Zenon DEF Documented
<1>3. \A a \in Audits : findings[a] = {} /\ reports[a] = {}
  BY DEF Init
<1>4. /\ Analysis = [a \in Audits |-> {}]
      /\ Published = [a \in Audits |-> {}]
  BY <1>3 DEF Analysis, Published
<1> QED
  BY <1>2, <1>4 DEF Init, Documented, Analysis, Published, Life!Init

LEMMA LifeCreate ==
  ASSUME NEW a \in Audits, Create(a)
  PROVE  Life!Create(a)
BY DEF Create, Life!Create

\* Documents matter to the life of a campaign by being there or not.
LEMMA DocumentedMoves ==
  ASSUME NEW a \in Audits, \A b \in Audits \ {a} : documents'[b] = documents[b]
  PROVE  /\ documents'[a] > 0 => Documented' = [Documented EXCEPT ![a] = TRUE]
         /\ ~(documents'[a] > 0) => Documented' = [Documented EXCEPT ![a] = FALSE]
<1>1. \A b \in Audits : Documented'[b] = (documents'[b] > 0)
  BY Zenon DEF Documented
<1>2. \A b \in Audits \ {a} : Documented'[b] = Documented[b]
  BY Zenon DEF Documented
<1>3. documents'[a] > 0 => Documented'[a] = TRUE
  BY <1>1, Zenon
<1>4. ~(documents'[a] > 0) => Documented'[a] = FALSE
  <2>1. ~(documents'[a] > 0) => (documents'[a] > 0) = FALSE
    OBVIOUS
  <2> QED BY <1>1, <2>1, Zenon
<1> QED
  BY <1>2, <1>3, <1>4 DEF Documented

LEMMA LifeUpload ==
  ASSUME AllInv, NEW a \in Audits, Upload(a)
  PROVE  Life!Deposit(a)
<1>1. status[a] \in Life!Living
  BY DEF Upload, Exists, RowStatus, AllInv, IInv, NoCommittedRunning, Life!Living
<1>2. /\ documents'[a] > 0
      /\ \A b \in Audits \ {a} : documents'[b] = documents[b]
  BY DEF Upload, AllInv, IInv, TypeOK
<1>3. Documented' = [Documented EXCEPT ![a] = TRUE]
  BY <1>2, DocumentedMoves
<1> QED
  BY <1>1, <1>3 DEF Upload, Documented, Life!Deposit

\* An analysis that concludes is one step of the life: its findings replace
\* those it deleted, and its number is none of theirs.
LEMMA LifeConclude ==
  ASSUME AllInv, NEW w \in Workers, NEW a \in Audits, on[w] = a, RunComplete(w)
  PROVE  Life!Conclude(a)
<1>1. a \in Audits /\ TypeOK /\ RunOK(w) /\ NumberOK(w) /\ pc[w] = "run_eval"
  BY DEF AllInv, IInv, TypeOK, RunInv, NumberInv, RunComplete
<1>2. status[a] \in Life!Living /\ documents[a] > 0 /\ findings[a] = seen[w]
  BY <1>1 DEF RunOK, Analysing, Exists, RowStatus, AllInv, IInv, NoCommittedRunning,
       Life!Living
<1>3. PICK new \in SUBSET [run: {num[w]}, triaged: {FALSE}] :
        findings' = [findings EXCEPT ![a] = (@ \ seen[w]) \union new]
  BY DEF RunComplete
<1>4. findings' = [findings EXCEPT ![a] = new]
  BY <1>1, <1>2, <1>3 DEF TypeOK
<1>5. \A f \in new : f.run = num[w]
  BY <1>3
<1>6. Analysis' = [Analysis EXCEPT ![a] = Analysis'[a]]
  BY <1>1, <1>4 DEF Analysis, TypeOK
<1>7. Analysis'[a] = {f.run : f \in new} /\ Analysis[a] = {f.run : f \in findings[a]}
  BY <1>1, <1>4 DEF Analysis, TypeOK
<1>8. \A f \in findings[a] : f.run # num[w]
  BY <1>1 DEF NumberOK, Running, RunSteps
<1>9. /\ Analysis'[a] \intersect Analysis[a] = {}
      /\ \A m, n \in Analysis'[a] : m = n
  BY <1>5, <1>7, <1>8
<1>10. /\ status' = [status EXCEPT ![a] = "completed"]
       /\ UNCHANGED <<documents, reports>>
  BY DEF RunComplete
<1> QED
  BY <1>1, <1>2, <1>6, <1>9, <1>10 DEF Analysis, Life!Conclude

LEMMA LifeFail ==
  ASSUME AllInv, NEW w \in Workers, NEW a \in Audits, on[w] = a, RunFail(w)
  PROVE  Life!Fail(a)
<1>1. a \in Audits /\ TypeOK /\ RunOK(w) /\ Analysing(w)
  BY DEF AllInv, IInv, TypeOK, RunInv, RunFail
<1>2. status[a] \in Life!Living
  BY <1>1 DEF RunOK, Exists, RowStatus, AllInv, IInv, NoCommittedRunning, Life!Living
<1>3. PICK left \in {findings[a], {}} : findings' = [findings EXCEPT ![a] = left]
  BY <1>1 DEF RunFail, RunOK, TypeOK
<1>4. Analysis' = [Analysis EXCEPT ![a] = {f.run : f \in left}]
  BY <1>1, <1>3 DEF Analysis, TypeOK
<1>5. {f.run : f \in left} \in {Analysis[a], {}}
  BY <1>1, <1>3 DEF Analysis
<1>6. /\ status' = [status EXCEPT ![a] = "failed"]
      /\ UNCHANGED <<documents, reports>>
  BY DEF RunFail
<1> QED
  BY <1>2, <1>4, <1>5, <1>6 DEF Analysis, Life!Fail

\* The version of a committed report follows the last one, and its campaign was
\* analysed.
LEMMA LifePublish ==
  ASSUME AllInv, NEW w \in Workers, NEW a \in Audits, on[w] = a, ReportCommit(w), ~Rollback(w)
  PROVE  Life!Publish(a)
<1>1. /\ a \in Audits /\ TypeOK /\ pc[w] = "rep_commit" /\ Exists(a)
      /\ BegunOK(w) /\ VersionOK(w) /\ status[a] # "running"
      /\ reports' = [reports EXCEPT ![a] = @ \union {Rendered(w)}]
      /\ UNCHANGED <<status, documents, findings>>
  BY DEF AllInv, IInv, TypeOK, BegunInv, VersionInv, NoCommittedRunning,
         ReportCommit, Insertable
<1>2. status[a] \in {"completed", "failed"}
  BY <1>1 DEF BegunOK, ReportSteps, Exists, RowStatus
<1>3. PICK last \in Published[a] \union {0} :
        (\A v \in Published[a] : v <= last) /\ num[w] = last + 1
  BY <1>1 DEF VersionOK, NextVersion, Published
<1>4. Published'[a] = Published[a] \union {num[w]}
  <2>1. reports'[a] = reports[a] \union {Rendered(w)} /\ Rendered(w).version = num[w]
    BY <1>1 DEF Rendered, TypeOK
  <2> QED BY <2>1 DEF Published
<1>5. Published' = [Published EXCEPT ![a] = @ \union {num[w]}]
  BY <1>1, <1>4 DEF Published, TypeOK
<1> QED
  BY <1>1, <1>2, <1>3, <1>5 DEF Published, Life!Publish

\* Triage marks findings without moving them to another analysis.
LEMMA LifeTriage ==
  ASSUME AllInv, NEW w \in Workers, Triage(w)
  PROVE  UNCHANGED Life!vars
<1> DEFINE a == on[w]
           row == {f \in findings[a] : \E g \in seen[w] : f.run = g.run}
<1>1. /\ a \in Audits /\ TypeOK
      /\ findings' = [findings EXCEPT ![a] =
           (findings[a] \ row) \union [run: {f.run : f \in row}, triaged: {TRUE}]]
      /\ UNCHANGED <<status, documents, reports>>
  BY DEF AllInv, IInv, TypeOK, Triage
<1>2. {f.run : f \in findings'[a]} = {f.run : f \in findings[a]}
  <2>1. findings'[a] =
          (findings[a] \ row) \union [run: {f.run : f \in row}, triaged: {TRUE}]
    BY <1>1 DEF TypeOK
  <2>2. ASSUME NEW g \in findings[a] PROVE \E f \in findings'[a] : f.run = g.run
    <3>1. CASE g \in row
      <4>1. [run |-> g.run, triaged |-> TRUE] \in findings'[a]
        BY <2>1, <3>1
      <4> QED BY <4>1
    <3> QED BY <2>1, <2>2, <3>1
  <2>3. \A f \in findings'[a] : \E g \in findings[a] : f.run = g.run
    BY <2>1
  <2> QED BY <2>2, <2>3
<1>3. Analysis' = Analysis
  BY <1>1, <1>2 DEF Analysis, TypeOK
<1> QED
  BY <1>1, <1>3 DEF Analysis, Life!vars

\* The second of two deletions finds nothing left to delete.
LEMMA LifeDelete ==
  ASSUME AllInv, NEW w \in Workers, NEW a \in Audits, on[w] = a, DeleteRow(w)
  PROVE  Life!Delete(a) \/ UNCHANGED Life!vars
<1>1. /\ a \in Audits /\ TypeOK /\ status[a] \in RowStatus \union {"deleted"}
      /\ status[a] # "running"
      /\ status' = [status EXCEPT ![a] = "deleted"]
      /\ documents' = [documents EXCEPT ![a] = 0]
      /\ findings' = [findings EXCEPT ![a] = {}]
      /\ reports' = [reports EXCEPT ![a] = {}]
  BY DEF AllInv, IInv, TypeOK, BegunInv, BegunOK, NoCommittedRunning, DeleteRow
<1>2. /\ Documented' = [Documented EXCEPT ![a] = FALSE]
      /\ Analysis' = [Analysis EXCEPT ![a] = {}]
      /\ Published' = [Published EXCEPT ![a] = {}]
  <2>1. /\ ~(documents'[a] > 0)
        /\ \A b \in Audits \ {a} : documents'[b] = documents[b]
    BY <1>1 DEF TypeOK
  <2>2. Documented' = [Documented EXCEPT ![a] = FALSE]
    BY <2>1, DocumentedMoves
  <2>3. /\ findings'[a] = {} /\ reports'[a] = {}
        /\ \A b \in Audits \ {a} : findings'[b] = findings[b] /\ reports'[b] = reports[b]
    BY <1>1 DEF TypeOK
  <2> QED BY <2>2, <2>3 DEF Analysis, Published
<1>3. CASE status[a] \in Life!Living
  BY <1>1, <1>2, <1>3 DEF Documented, Analysis, Published, Life!Delete
<1>4. CASE status[a] = "deleted"
  <2>1. documents[a] = 0 /\ findings[a] = {} /\ reports[a] = {}
    BY <1>1, <1>4 DEF AllInv, IInv, NoOrphanRows, Exists, RowStatus
  <2>2. UNCHANGED <<status, documents, findings, reports>>
    BY <1>1, <1>4, <2>1 DEF TypeOK
  <2> QED BY <2>2 DEF Life!vars
<1> QED
  BY <1>1, <1>3, <1>4 DEF RowStatus, Life!Living

LEMMA LifeStep == AllInv /\ [Next]_vars => [Life!Next]_(Life!vars)
<1> SUFFICES ASSUME AllInv, [Next]_vars PROVE Life!Next \/ UNCHANGED Life!vars
  OBVIOUS
<1>1. CASE UNCHANGED <<status, documents, findings, reports>>
  BY <1>1 DEF Life!vars
<1>2. CASE \E a \in Audits : Create(a) \/ Upload(a)
  BY <1>2, LifeCreate, LifeUpload DEF Life!Next
<1>3. ASSUME NEW w \in Workers, Turn(w) PROVE Life!Next \/ UNCHANGED Life!vars
  <2>0. PICK a \in Audits : on[w] = a
    BY DEF AllInv, IInv, TypeOK
  <2>1. CASE RunComplete(w) \/ RunFail(w)
    BY <2>0, <2>1, LifeConclude, LifeFail DEF Life!Next
  <2>2. CASE ReportCommit(w) /\ ~Rollback(w)
    BY <2>0, <2>2, LifePublish DEF Life!Next
  <2>3. CASE Triage(w)
    BY <2>3, LifeTriage
  <2>4. CASE DeleteRow(w)
    BY <2>0, <2>4, LifeDelete DEF Life!Next
  <2>5. CASE UNCHANGED rows \/ ReportWrite(w)
    BY <1>1, <2>5 DEF rows, ReportWrite
  <2> QED BY <1>3, <2>1, <2>2, <2>3, <2>4, <2>5, Writers
<1>4. CASE UNCHANGED vars
  BY <1>1, <1>4 DEF vars, rows
<1> QED
  BY <1>2, <1>3, <1>4, Turns

\* What other requests see of a campaign is the life of Lifecycle: each request
\* takes effect at once or not at all, an analysis replaces the findings as a
\* whole, reports are numbered without a gap, deletion is for good.
THEOREM Refines == Spec => Implements
<1>1. Init => Life!Init
  BY LifeInit
<1>2. Spec => []AllInv
  BY AllInit, AllInductive, PTL DEF Spec
<1>3. AllInv /\ [Next]_vars => [Life!Next]_(Life!vars)
  BY LifeStep
<1> QED
  BY <1>1, <1>2, <1>3, PTL DEF Spec, Implements, Life!Spec

(***************************************************************************)
(* Requests served one at a time                                           *)
(***************************************************************************)
Serial == \A v, w \in Workers : v = w

\* The campaign a request loaded is still what the database has, and still
\* completed while a report of it is made.
LoadedOK(w) ==
  pc[w] # "idle" =>
    /\ Exists(on[w]) /\ snap[w] = AuditRow(on[w])
    /\ pc[w] \in ReportSteps => status[on[w]] = "completed"
SerialInv == DegradedWithoutScore /\ \A w \in Workers : LoadedOK(w)

LEMMA LoadedRequest ==
  ASSUME Serial, TypeOK, SerialInv, NEW w \in Workers, NEW a \in Audits, Request(w, a)
  PROVE  SerialInv'
<1>1. /\ UNCHANGED rows /\ Exists(a)
      /\ pc'[w] \in {"run_lock", "rep_lock", "triage", "del_children"}
      /\ on'[w] = a /\ snap'[w] = AuditRow(a)
      /\ pc'[w] = "rep_lock" => status[a] = "completed"
  BY DEF Request, RunLoad, ReportLoad, TriageLoad, DeleteLoad, Load, Goto, TypeOK
<1>2. LoadedOK(w)'
  BY <1>1 DEF LoadedOK, Exists, AuditRow, ReportSteps, rows
<1> QED
  BY <1>1, <1>2 DEF SerialInv, DegradedWithoutScore, Serial, rows

LEMMA LoadedStep ==
  ASSUME Serial, TypeOK, SerialInv, NEW w \in Workers, Step(w), ~Finish(w)
  PROVE  SerialInv'
<1>1. /\ pc[w] # "idle" /\ UNCHANGED <<on, snap, status, score, degraded>>
      /\ pc'[w] \in ReportSteps => pc[w] \in ReportSteps
  <2> USE DEF Rollback, Goto, rows, session, TypeOK, ReportSteps
  <2>1. CASE RunStep(w)
    BY <2>1 DEF RunStep, RunTryLock, RunMark, RunDocs, RunPurge, RunFail, RunComplete
  <2>2. CASE ReportStep(w)
    BY <2>2 DEF ReportStep, ReportLock, ReportRead, ReportVersion, ReportWrite, ReportCommit
  <2>3. CASE DeleteStep(w)
    BY <2>3 DEF DeleteStep, DeleteChildren, DeleteRow
  <2> QED
    BY <2>1, <2>2, <2>3 DEF Step, Triage
<1>2. LoadedOK(w)'
  BY <1>1 DEF SerialInv, LoadedOK, Exists, AuditRow
<1> QED
  BY <1>1, <1>2 DEF SerialInv, DegradedWithoutScore, Serial

LEMMA LoadedFinish ==
  ASSUME Serial, TypeOK, RunInv, SerialInv, NEW w \in Workers, Turn(w), Finish(w)
  PROVE  SerialInv'
<1>1. \A v \in Workers : pc'[v] = "idle"
  BY DEF Finish, Serial, TypeOK
<1>2. on[w] \in Audits /\ LoadedOK(w)
  BY DEF TypeOK, SerialInv
<1>3. DegradedWithoutScore'
  <2>1. CASE RunComplete(w)
    <3>1. PICK o \in Outcomes :
            /\ score' = [score EXCEPT ![on[w]] = Written(o.score, snap[w].score, @)]
            /\ degraded' = [degraded EXCEPT ![on[w]] =
                              Written(o.degraded, snap[w].degraded, @)]
      BY <2>1 DEF RunComplete
    <3>2. snap[w] = AuditRow(on[w])
      BY <1>2, <2>1 DEF LoadedOK, RunComplete
    <3>3. score'[on[w]] = o.score /\ degraded'[on[w]] = o.degraded
      BY <1>2, <3>1, <3>2 DEF Written, AuditRow, TypeOK
    <3>4. o.degraded => o.score = NoScore
      BY DEF Outcomes
    <3> QED
      BY <3>1, <3>3, <3>4 DEF SerialInv, DegradedWithoutScore, TypeOK
  <2>2. CASE DeleteRow(w)
    BY <2>2 DEF DeleteRow, SerialInv, DegradedWithoutScore, TypeOK
  <2>3. CASE UNCHANGED <<score, degraded>>
    BY <2>3 DEF SerialInv, DegradedWithoutScore
  <2> QED
    BY <2>1, <2>2, <2>3, Writers DEF rows, RunFail, ReportWrite, ReportCommit, Rollback, Triage
<1> QED
  BY <1>1, <1>3 DEF SerialInv, LoadedOK

LEMMA SerialInductive == Serial /\ Invs /\ SerialInv /\ [Next]_vars => SerialInv'
<1> SUFFICES ASSUME Serial, Invs, SerialInv, [Next]_vars PROVE SerialInv'
  OBVIOUS
<1> USE DEF Invs
<1>1. ASSUME NEW a \in Audits, Create(a) PROVE SerialInv'
  <2>1. /\ UNCHANGED <<pc, on, snap, score, degraded>> /\ status[a] = "none"
        /\ \A b \in Audits \ {a} : status'[b] = status[b]
    BY <1>1 DEF Create, session, TypeOK
  <2>2. ASSUME NEW w \in Workers PROVE LoadedOK(w)'
    BY <2>1 DEF SerialInv, LoadedOK, Exists, AuditRow, RowStatus, TypeOK
  <2> QED
    BY <2>1, <2>2 DEF SerialInv, DegradedWithoutScore
<1>2. CASE UNCHANGED <<pc, on, snap, status, score, degraded>>
  BY <1>2 DEF SerialInv, DegradedWithoutScore, LoadedOK, Exists, AuditRow
<1>3. ASSUME NEW w \in Workers, Turn(w) PROVE SerialInv'
  <2>1. CASE Finish(w)
    BY <1>3, <2>1, LoadedFinish
  <2>2. CASE ~Finish(w)
    BY <1>3, <2>2, LoadedStep, LoadedRequest DEF Turn, Rollback
  <2> QED
    BY <2>1, <2>2
<1> QED
  BY <1>1, <1>2, <1>3, Turns DEF Upload, session, vars, rows

LEMMA SerialInvariant == ASSUME Serial PROVE Spec => [](TypeOK /\ SerialInv)
<1>1. Init => SerialInv
  BY DEF Init, SerialInv, DegradedWithoutScore, LoadedOK
<1>2. IInv => Invs
  BY DEF IInv, Invs
<1>3. Invs => TypeOK
  BY DEF Invs
<1> QED
  BY <1>1, <1>2, <1>3, Invariant, SerialInductive, PTL DEF Spec

\* Requests served one at a time publish no score of a degraded analysis: the
\* score that contradicts models/audit.py takes an analysis that loaded the
\* campaign before another one committed.
THEOREM DegradedSerial == ASSUME Serial PROVE Spec => []DegradedWithoutScore
<1>1. SerialInv => DegradedWithoutScore
  BY DEF SerialInv
<1> QED
  BY <1>1, SerialInvariant, PTL

\* Requests served one at a time report on completed campaigns only: the status
\* create_report read is stale only if another request changed it meanwhile.
THEOREM ReportSerial == ASSUME Serial PROVE Spec => ReportOfCompleted
<1>1. SerialInv => \A w \in Workers : ReportRead(w) => status[on[w]] = "completed"
  BY DEF SerialInv, LoadedOK, ReportRead, ReportSteps
<1>2. SerialInv /\ [Next]_vars =>
        [\A w \in Workers : ReportRead(w) => status[on[w]] = "completed"]_vars
  BY <1>1
<1> QED
  BY <1>2, SerialInvariant, PTL DEF Spec, ReportOfCompleted
===============================================================================
