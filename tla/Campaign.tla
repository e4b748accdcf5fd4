------------------------------- MODULE Campaign -------------------------------
(***************************************************************************)
(* The life of an audit campaign behind the HTTP API (api/v1/audits.py,    *)
(* services/audit_engine.py, services/reports.py): creation, deposit of    *)
(* documents, analysis, triage of the findings, reports and deletion.      *)
(*                                                                         *)
(* Every request is one PostgreSQL transaction at READ COMMITTED: it sees  *)
(* what was committed when each of its statements starts, what it writes   *)
(* is visible to others from its commit on, and the advisory and row locks *)
(* it took go at commit or rollback.  A request is cut where another one   *)
(* can slip in between two of its statements; statements that nothing can  *)
(* tell apart are one step.                                                *)
(*                                                                         *)
(* The rows one analysis writes into "findings" are represented by one     *)
(* row carrying the number of that analysis.                               *)
(***************************************************************************)
EXTENDS Naturals, FiniteSets

CONSTANTS
  Audits,      \* campaign identifiers
  Workers,     \* threads that serve requests, one transaction at a time each
  Scores,      \* published compliance scores
  NoScore,     \* compliance_score IS NULL
  Nobody,      \* no transaction holds the lock
  MaxRuns,     \* bound: analyses ever requested
  MaxReports,  \* bound: a report is requested while there are fewer of them
  MaxDocs      \* bound: documents deposited in a campaign

ASSUME BoundsAssumption ==
  /\ MaxRuns \in Nat
  /\ MaxReports \in Nat
  /\ MaxDocs \in Nat
ASSUME SentinelAssumption ==
  /\ NoScore \notin Scores
  /\ Nobody \notin Workers

VARIABLES
  (* committed rows and files *)
  status,      \* audits.status of each campaign, "none" and "deleted" without a row
  score,       \* audits.compliance_score
  degraded,    \* audits.degraded
  documents,   \* number of rows of documents
  findings,    \* rows of findings
  reports,     \* rows of reports
  files,       \* report files the storage holds
  (* transactions in progress *)
  locks,       \* PostgreSQL's lock table: advisory locks and row locks
  pc,          \* the statement each worker executes next
  on,          \* the campaign its request is about
  snap,        \* the audits row as _get_audit loaded it into the session
  seen,        \* findings rows deleted (analysis) or read (report, triage)
  num,         \* number of the analysis, version of the report
  nextRun      \* number of the next analysis

rows == <<status, score, degraded, documents, findings, reports, files>>
session == <<on, snap, seen, num>>
vars == <<rows, locks, pc, session, nextRun>>

RowStatus == {"draft", "running", "completed", "failed"}
Row == [status: RowStatus \union {"none"},
        score: Scores \union {NoScore}, degraded: BOOLEAN]
NoRow == [status |-> "none", score |-> NoScore, degraded |-> FALSE]
Finding == [run: Nat, triaged: BOOLEAN]
\* A row of reports stands for the content its sha256 is the digest of, a file
\* for <audit>-v<version>.html.
Report == [version: Nat, score: Scores \union {NoScore}, findings: SUBSET Finding]
LockIds == {"run", "report", "row", "findings"} \X Audits

RunSteps == {"run_lock", "run_mark", "run_docs", "run_purge", "run_eval"}
ReportSteps == {"rep_lock", "rep_read", "rep_version", "rep_write", "rep_commit"}
DeleteSteps == {"del_children", "del_row"}
Steps == {"idle", "triage"} \union RunSteps \union ReportSteps \union DeleteSteps

Exists(a) == status[a] \in RowStatus
\* The statements executed between the UPDATE to "running" and the commit.
Analysing(w) == pc[w] \in {"run_docs", "run_purge", "run_eval"}
AuditRow(a) == [status |-> status[a], score |-> score[a], degraded |-> degraded[a]]

(***************************************************************************)
(* Transactions                                                            *)
(***************************************************************************)
\* A row lock or an advisory lock that w holds or can take without waiting.
Grantable(w, name, a) == locks[<<name, a>>] \in {w, Nobody}
Acquire(w, name, a) == locks' = [locks EXCEPT ![<<name, a>>] = w]
\* A DELETE locks the rows it removes, none if it finds none.
AcquireFindings(w, a) ==
  IF findings[a] = {} THEN UNCHANGED locks ELSE Acquire(w, "findings", a)

\* Variant: session-level advisory locks (pg_advisory_lock) outlive the commit.
ReleaseRowLocks(w) ==
  [l \in LockIds |-> IF locks[l] = w /\ l[1] \in {"row", "findings"}
                       THEN Nobody ELSE locks[l]]

\* Commit and rollback both give back every lock of the transaction, and the
\* session is closed.
Release(w) == [l \in LockIds |-> IF locks[l] = w THEN Nobody ELSE locks[l]]
Finish(w) ==
  /\ pc' = [pc EXCEPT ![w] = "idle"]
  /\ locks' = Release(w)
  /\ snap' = [snap EXCEPT ![w] = NoRow]
  /\ seen' = [seen EXCEPT ![w] = {}]
  /\ num' = [num EXCEPT ![w] = 0]
  /\ UNCHANGED <<on, nextRun>>

Rollback(w) == Finish(w) /\ UNCHANGED rows
Goto(w, step) == pc' = [pc EXCEPT ![w] = step]

\* _get_audit: an identifier without a row is answered 404.
Load(w, a, step) ==
  /\ pc[w] = "idle"
  /\ Exists(a)
  /\ Goto(w, step)
  /\ on' = [on EXCEPT ![w] = a]
  /\ snap' = [snap EXCEPT ![w] = AuditRow(a)]
  /\ UNCHANGED <<rows, locks>>

\* SQLAlchemy's UPDATE names a column only if the attribute differs from the
\* value the session loaded.
Written(new, loaded, current) == IF new = loaded THEN current ELSE new

(***************************************************************************)
(* create_audit, upload_document                                           *)
(***************************************************************************)
Create(a) ==
  /\ status[a] = "none"
  /\ status' = [status EXCEPT ![a] = "draft"]
  /\ UNCHANGED <<score, degraded, documents, findings, reports, files,
                 locks, pc, session, nextRun>>

\* The row's foreign key takes a share lock on the campaign, compatible with
\* the UPDATE of an analysis.
Upload(a) ==
  /\ Exists(a)
  /\ documents[a] < MaxDocs
  /\ documents' = [documents EXCEPT ![a] = @ + 1]
  /\ UNCHANGED <<status, score, degraded, findings, reports, files,
                 locks, pc, session, nextRun>>

(***************************************************************************)
(* run_audit: the endpoint, then audit_engine.run_audit                    *)
(***************************************************************************)
RunLoad(w, a) ==
  /\ nextRun <= MaxRuns
  /\ Load(w, a, "run_lock")
  /\ num' = [num EXCEPT ![w] = nextRun]
  /\ nextRun' = nextRun + 1
  /\ UNCHANGED seen

\* Variant: without the lock, only the status loaded before is checked.
RunCheckStatus(w) ==
  /\ pc[w] = "run_lock"
  /\ snap[w].status # "running"
  /\ Goto(w, "run_mark")
  /\ UNCHANGED <<rows, locks, session, nextRun>>

\* pg_try_advisory_xact_lock, then the check of the status loaded before it:
\* either refusal is a 409.
RunTryLock(w) ==
  /\ pc[w] = "run_lock"
  /\ IF Grantable(w, "run", on[w]) /\ snap[w].status # "running"
       THEN /\ Acquire(w, "run", on[w])
            /\ Goto(w, "run_mark")
            /\ UNCHANGED <<rows, session, nextRun>>
       ELSE Rollback(w)

\* Variant: a commit shows the progress to other requests.
RunMarkCommit(w) ==
  /\ pc[w] = "run_mark"
  /\ Exists(on[w])
  /\ status' = [status EXCEPT ![on[w]] = "running"]
  /\ locks' = Release(w)
  /\ Goto(w, "run_docs")
  /\ UNCHANGED <<score, degraded, documents, findings, reports, files,
                 session, nextRun>>

\* UPDATE audits SET status = 'running': takes the row, and finds it gone if
\* the campaign was deleted since (StaleDataError, a 500).
RunMark(w) ==
  /\ pc[w] = "run_mark"
  /\ Grantable(w, "row", on[w])
  /\ IF Exists(on[w])
       THEN /\ Acquire(w, "row", on[w])
            /\ Goto(w, "run_docs")
            /\ UNCHANGED <<rows, session, nextRun>>
       ELSE Rollback(w)

\* What the except branch commits: the score of an earlier analysis stays, and
\* the findings stay or go according to the step that failed.
RunFail(w) ==
  LET a == on[w] IN
  /\ Analysing(w)
  /\ status' = [status EXCEPT ![a] = "failed"]
  /\ findings' = [findings EXCEPT ![a] =
                    IF pc[w] = "run_eval" THEN @ \ seen[w] ELSE @]
  /\ Finish(w)
  /\ UNCHANGED <<score, degraded, documents, reports, files>>

\* The documents are listed and indexed, the requirements loaded.  A campaign
\* without a document can only fail.
RunDocs(w) ==
  /\ pc[w] = "run_docs"
  /\ documents[on[w]] > 0
  /\ Goto(w, "run_purge")
  /\ UNCHANGED <<rows, locks, session, nextRun>>

\* Variant: an analysis adds its findings to those of the previous one.
RunKeep(w) ==
  /\ pc[w] = "run_purge"
  /\ Goto(w, "run_eval")
  /\ UNCHANGED <<rows, locks, session, nextRun>>

\* DELETE FROM findings: the rows visible now, waiting for whoever is
\* changing them.
RunPurge(w) ==
  LET a == on[w] IN
  /\ pc[w] = "run_purge"
  /\ Grantable(w, "findings", a)
  /\ seen' = [seen EXCEPT ![w] = findings[a]]
  /\ AcquireFindings(w, a)
  /\ Goto(w, "run_eval")
  /\ UNCHANGED <<rows, on, snap, num, nextRun>>

\* The requirements are evaluated, the findings inserted and the outcome
\* committed: no row when every requirement is met.  The score is withheld
\* from a degraded analysis and from one made without the model.
Outcomes ==
  [score: Scores, degraded: {FALSE}] \union [score: {NoScore}, degraded: BOOLEAN]

RunComplete(w) ==
  LET a == on[w] IN
  /\ pc[w] = "run_eval"
  /\ \E o \in Outcomes :
       /\ score' = [score EXCEPT ![a] = Written(o.score, snap[w].score, @)]
       /\ degraded' = [degraded EXCEPT ![a] =
                         Written(o.degraded, snap[w].degraded, @)]
  /\ status' = [status EXCEPT ![a] = "completed"]
  /\ \E new \in SUBSET [run: {num[w]}, triaged: {FALSE}] :
       findings' = [findings EXCEPT ![a] = (@ \ seen[w]) \union new]
  /\ Finish(w)
  /\ UNCHANGED <<documents, reports, files>>

(***************************************************************************)
(* create_report: the endpoint, then reports.generate_report               *)
(***************************************************************************)
\* A campaign that is not completed is answered 409.
ReportLoad(w, a) ==
  /\ status[a] = "completed"
  /\ Cardinality(reports[a]) < MaxReports
  /\ Load(w, a, "rep_lock")
  /\ UNCHANGED <<seen, num, nextRun>>

\* Variant: two requests generate a report at the same time.
ReportUnlocked(w) ==
  /\ pc[w] = "rep_lock"
  /\ Goto(w, "rep_read")
  /\ UNCHANGED <<rows, locks, session, nextRun>>

\* pg_advisory_xact_lock waits for its turn.
ReportLock(w) ==
  /\ pc[w] = "rep_lock"
  /\ Grantable(w, "report", on[w])
  /\ Acquire(w, "report", on[w])
  /\ Goto(w, "rep_read")
  /\ UNCHANGED <<rows, session, nextRun>>

ReportRead(w) ==
  /\ pc[w] = "rep_read"
  /\ seen' = [seen EXCEPT ![w] = findings[on[w]]]
  /\ Goto(w, "rep_version")
  /\ UNCHANGED <<rows, locks, on, snap, num, nextRun>>

\* One more than the version of the last committed report.
ReportVersion(w) ==
  LET versions == {0} \union {r.version : r \in reports[on[w]]} IN
  /\ pc[w] = "rep_version"
  /\ \E last \in versions :
       /\ \A v \in versions : v <= last
       /\ num' = [num EXCEPT ![w] = last + 1]
  /\ Goto(w, "rep_write")
  /\ UNCHANGED <<rows, locks, on, snap, seen, nextRun>>

\* What w renders: the score of the row it loaded, the findings it read.
Rendered(w) ==
  [version |-> num[w], score |-> snap[w].score, findings |-> seen[w]]

\* The file replaces the one of that name and outlives a rollback.
ReportWrite(w) ==
  LET a == on[w] IN
  /\ pc[w] = "rep_write"
  /\ files' = [files EXCEPT ![a] =
                 {f \in @ : f.version # num[w]} \union {Rendered(w)}]
  /\ Goto(w, "rep_commit")
  /\ UNCHANGED <<status, score, degraded, documents, findings, reports,
                 locks, session, nextRun>>

\* INSERT INTO reports, refused by the foreign key if the campaign is gone and
\* by uq_report_version if the version is taken.
Insertable(w) ==
  /\ Exists(on[w])
  /\ \A r \in reports[on[w]] : r.version # num[w]

ReportCommit(w) ==
  /\ pc[w] = "rep_commit"
  /\ IF Insertable(w)
       THEN /\ reports' = [reports EXCEPT ![on[w]] = @ \union {Rendered(w)}]
            /\ Finish(w)
            /\ UNCHANGED <<status, score, degraded, documents, findings, files>>
       ELSE Rollback(w)

(***************************************************************************)
(* update_finding                                                          *)
(***************************************************************************)
TriageLoad(w, a) ==
  /\ findings[a] # {}
  /\ Load(w, a, "triage")
  /\ seen' = [seen EXCEPT ![w] = findings[a]]
  /\ UNCHANGED <<num, nextRun>>

\* UPDATE findings SET status ... WHERE id: a row deleted since matches nothing
\* (StaleDataError, a 500).
Triage(w) ==
  LET a == on[w]
      row == {f \in findings[a] : \E g \in seen[w] : f.run = g.run} IN
  /\ pc[w] = "triage"
  /\ Grantable(w, "findings", a)
  /\ findings' = [findings EXCEPT ![a] =
                    (@ \ row) \union [run: {f.run : f \in row}, triaged: {TRUE}]]
  /\ Finish(w)
  /\ UNCHANGED <<status, score, degraded, documents, reports, files>>

(***************************************************************************)
(* delete_audit                                                            *)
(***************************************************************************)
DeleteLoad(w, a) ==
  /\ Load(w, a, "del_children")
  /\ UNCHANGED <<seen, num, nextRun>>

\* The unit of work deletes the findings before the campaign they belong to.
DeleteChildren(w) ==
  /\ pc[w] = "del_children"
  /\ Grantable(w, "findings", on[w])
  /\ AcquireFindings(w, on[w])
  /\ Goto(w, "del_row")
  /\ UNCHANGED <<rows, session, nextRun>>

\* ON DELETE CASCADE takes the rows added since; the files stay.
DeleteRow(w) ==
  LET a == on[w] IN
  /\ pc[w] = "del_row"
  /\ Grantable(w, "row", a)
  /\ status' = [status EXCEPT ![a] = "deleted"]
  /\ documents' = [documents EXCEPT ![a] = 0]
  /\ findings' = [findings EXCEPT ![a] = {}]
  /\ reports' = [reports EXCEPT ![a] = {}]
  /\ score' = [score EXCEPT ![a] = NoScore]
  /\ degraded' = [degraded EXCEPT ![a] = FALSE]
  /\ Finish(w)
  /\ UNCHANGED files

(***************************************************************************)
(* Failures                                                                *)
(***************************************************************************)
\* The process or its connection is lost, or the handler raises.
Abort(w) ==
  /\ pc[w] # "idle"
  /\ Rollback(w)

\* A run waits for the findings that d deletes while d waits for the campaign
\* the run updated: PostgreSQL cancels either.
Deadlocked(w, d) ==
  /\ pc[w] = "run_purge"
  /\ pc[d] = "del_row"
  /\ on[w] = on[d]
  /\ locks[<<"row", on[w]>>] = w
  /\ locks[<<"findings", on[w]>>] = d

DeadlockAbort(w, d) ==
  /\ Deadlocked(w, d)
  /\ \/ Rollback(d)
     \/ Rollback(w)

-----------------------------------------------------------------------------
Init ==
  /\ status = [a \in Audits |-> "none"]
  /\ score = [a \in Audits |-> NoScore]
  /\ degraded = [a \in Audits |-> FALSE]
  /\ documents = [a \in Audits |-> 0]
  /\ findings = [a \in Audits |-> {}]
  /\ reports = [a \in Audits |-> {}]
  /\ files = [a \in Audits |-> {}]
  /\ locks = [l \in LockIds |-> Nobody]
  /\ pc = [w \in Workers |-> "idle"]
  /\ on \in [Workers -> Audits]
  /\ snap = [w \in Workers |-> NoRow]
  /\ seen = [w \in Workers |-> {}]
  /\ num = [w \in Workers |-> 0]
  /\ nextRun = 1

RunStep(w) ==
  RunTryLock(w) \/ RunMark(w) \/ RunDocs(w) \/ RunPurge(w) \/ RunComplete(w) \/ RunFail(w)
ReportStep(w) ==
  ReportLock(w) \/ ReportRead(w) \/ ReportVersion(w) \/ ReportWrite(w) \/ ReportCommit(w)
DeleteStep(w) == DeleteChildren(w) \/ DeleteRow(w)
Step(w) == RunStep(w) \/ ReportStep(w) \/ Triage(w) \/ DeleteStep(w)

Request(w, a) == RunLoad(w, a) \/ ReportLoad(w, a) \/ TriageLoad(w, a) \/ DeleteLoad(w, a)

Next ==
  \/ \E a \in Audits : Create(a) \/ Upload(a)
  \/ \E w \in Workers : Step(w) \/ Abort(w) \/ \E a \in Audits : Request(w, a)
  \/ \E w, d \in Workers : DeadlockAbort(w, d)

Spec == Init /\ [][Next]_vars

(***************************************************************************)
(* Fairness: a thread executes the statement it is at, the evaluation ends *)
(* (AUDIT_MAX_SECONDS bounds it), PostgreSQL serves the queue of a lock in *)
(* order and resolves a deadlock.  Nothing obliges a client to send a      *)
(* request, an analysis to fail or a process to crash.                     *)
(***************************************************************************)
Proceed(w) ==
  \/ RunTryLock(w) \/ RunDocs(w) \/ RunComplete(w)
  \/ documents[on[w]] = 0 /\ RunFail(w)
  \/ ReportRead(w) \/ ReportVersion(w) \/ ReportWrite(w) \/ ReportCommit(w)
Await(w) ==
  RunMark(w) \/ RunPurge(w) \/ ReportLock(w) \/ Triage(w) \/ DeleteStep(w)

Fairness ==
  \A w \in Workers :
    /\ WF_vars(Proceed(w))
    /\ SF_vars(Await(w))
    /\ WF_vars(\E d \in Workers : DeadlockAbort(w, d))

FairSpec == Spec /\ Fairness

(***************************************************************************)
(* Properties                                                              *)
(***************************************************************************)
TypeOK ==
  /\ status \in [Audits -> RowStatus \union {"none", "deleted"}]
  /\ score \in [Audits -> Scores \union {NoScore}]
  /\ degraded \in [Audits -> BOOLEAN]
  /\ documents \in [Audits -> Nat]
  /\ findings \in [Audits -> SUBSET Finding]
  /\ reports \in [Audits -> SUBSET Report]
  /\ files \in [Audits -> SUBSET Report]
  /\ locks \in [LockIds -> Workers \union {Nobody}]
  /\ pc \in [Workers -> Steps]
  /\ on \in [Workers -> Audits]
  /\ snap \in [Workers -> Row]
  /\ seen \in [Workers -> SUBSET Finding]
  /\ num \in [Workers -> Nat]
  /\ nextRun \in Nat \ {0}

\* No two transactions analyse the same campaign: run_audit's advisory lock
\* and the status check are not atomic with the reading of the campaign, yet
\* two requests sent together never evaluate the referential side by side.
RunExclusive ==
  \A v, w \in Workers : Analysing(v) /\ Analysing(w) /\ on[v] = on[w] => v = w

\* A request to analyse is answered at once: having passed the try-lock, its
\* UPDATE never waits for the row of a campaign that another analysis updated.
RunNeverWaits ==
  \A w \in Workers : pc[w] = "run_mark" => Grantable(w, "row", on[w])

\* "running" is visible to no other transaction than the analysis itself, so a
\* crash leaves no campaign that every later request refuses to analyse.
NoCommittedRunning == \A a \in Audits : status[a] # "running"

\* The findings of a campaign all come from one analysis, whatever was
\* interrupted, retried or triaged while another was under way.
FindingsFromOneRun ==
  \A a \in Audits : \A f, g \in findings[a] : f.run = g.run

\* No finding, document or report outlives its campaign, even written by a
\* transaction that loaded the campaign before it was deleted.
NoOrphanRows ==
  \A a \in Audits :
    ~Exists(a) => documents[a] = 0 /\ findings[a] = {} /\ reports[a] = {}

\* Only a campaign with a document is ever completed.
CompletedHasDocuments ==
  \A a \in Audits : status[a] = "completed" => documents[a] > 0

\* The advisory lock of generate_report leaves nothing to uq_report_version:
\* the version a request is about to insert is free.
ReportVersionFree ==
  \A w \in Workers :
    pc[w] = "rep_commit" => \A r \in reports[on[w]] : r.version # num[w]

\* The file under the name of a committed report is the one its sha256 was
\* computed from, whatever concurrent, failed or repeated requests wrote.
ReportFileMatches ==
  \A a \in Audits : \A r \in reports[a] :
    {f \in files[a] : f.version = r.version} = {r}

\* models/audit.py: "degraded : score retire car trop d'evaluations sont
\* retombees sur l'heuristique".
DegradedWithoutScore == \A a \in Audits : degraded[a] => score[a] = NoScore

\* create_report: "Le rapport ne peut etre genere que pour un audit termine."
ReportOfCompleted ==
  [][\A w \in Workers :
       ReportRead(w) => status[on[w]] = "completed"]_vars

\* What other requests see of a campaign is the life of Lifecycle: whatever the
\* transactions interleave, lose or leave to a deadlock, each request takes
\* effect at once or not at all.
Life == INSTANCE Lifecycle WITH
  state <- status,
  documented <- [a \in Audits |-> documents[a] > 0],
  analysis <- [a \in Audits |-> {f.run : f \in findings[a]}],
  published <- [a \in Audits |-> {r.version : r \in reports[a]}]

Implements == Life!Spec

\* Every request ends: a wait for a lock is never for ever, and the deadlock of
\* an analysis with a deletion is broken.
RequestsEnd == \A w \in Workers : pc[w] # "idle" ~> pc[w] = "idle"
=============================================================================
