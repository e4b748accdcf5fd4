# ComplianceAI Studio in TLA+

Formal models of ComplianceAI Studio, the TLC runs that check them on small
instances and the TLAPS proofs that hold for every instance. File names below
are relative to `src/backend/app`, those of the laboratory (`evaluation/`,
`validation/`, `referentiel/`) to `src`.

## 1. The system

A FastAPI server over PostgreSQL. Endpoints are plain `def` functions: FastAPI
runs each of them in a thread of its pool, with one SQLAlchemy session, that
is one transaction at READ COMMITTED, committed when the endpoint returns and
rolled back when it raises (`db/session.py`). Several requests, the scheduler's
thread and, in production, several processes work on the same rows; the only
mutual exclusion is what PostgreSQL gives: row locks of UPDATE and DELETE,
unique and foreign keys, and the advisory locks the code asks for.

| Component | State | Operations | Hard because |
|---|---|---|---|
| Campaigns: `api/v1/audits.py`, `services/audit_engine.py`, `services/reports.py` | `audits`, `documents`, `findings`, `reports`, report files | create, upload, analyse, triage, report, delete | analyses last minutes and hold one transaction; rows are read before a lock and written after; files are not transactional; two lock orders |
| Organizations: `api/v1/organizations.py`, `api/deps.py`, `services/quotas.py`, `api/v1/privacy.py` | `organizations`, `memberships`, `users` | create, add and remove members, change plan and retention, delete organization and account | every rule is a SELECT followed by a write, with no lock between |
| Storage and retention: `services/documents.py`, `services/retention.py` | files named by the digest of their content, `content_purged_at`, chunks | save, read, index, purge | files shared by several rows, written and unlinked outside the transaction |
| Scheduler: `services/scheduler.py`, `services/scheduling.py` | `audit_schedules`, one transaction per tick | watch, run due schedules, purge | one step of several fails inside one transaction; cloned campaigns; e-mails before the commit |
| Evaluation: `services/audit_engine.py`, `services/llm.py` | verdicts, breaker, deadline, score | vote, citation check, fallback, propagation, scoring | threads share the queue, the breaker and the deadline; some of several calls fail; boundary cases of the score |
| Applicability: `services/eligibilite.py`, `ingestion/scoping.py` | the questionnaire (columns of `organizations`) | three-valued rules, warning at creation, articles dropped | unknown answers; a profile that changes between a warning and an analysis |
| Retrieval: `services/rag.py`, `rag/` | chunks | chunking, ranking, fusion | boundaries, ties |
| Ingestion: `ingestion/`, the watch of `services/scheduler.py` | framework versions, `is_current`, notifications | fetch, compare, switch, embed, tell | two programs in one transaction each; failures swallowed in the middle |
| Sessions: `api/v1/auth.py`, `api/deps.py`, `models/user.py` | refresh tokens, failure counter and lock, one-time tokens, the cookie of the browser | register, login, rotation, sign-out, change and reset of the password, deletion | overlapping uses of one token; answers that are lost |
| Journal, notifications: `services/activity.py`, `services/notifications.py` | append-only rows | insert | e-mails are sent before the commit |
| Laboratory: `evaluation/`, `validation/`, `referentiel/` | a run of the harness | retries, extraction, verdict, vote, score, metrics, thresholds | every malformed or partial answer of a model must end in a verdict the document supports |
| Frontend, migrations, sample documents | static | | |

How they interact: an endpoint calls services in its own transaction; the
scheduler's thread calls the same services (`run_audit`, `generate_report`,
`purge_expired_documents`) in one transaction per tick; evaluation uses a pool
of threads inside one analysis; organizations, campaigns and schedules meet
through foreign keys (ON DELETE CASCADE or SET NULL).

What makes each of them correct, as far as it is stated now: analyses of one
campaign exclude each other and a request for one never queues; findings come
from one analysis; nothing survives its campaign; a report row and its file
agree; an organization has an owner with an account, within its quota, and its
deletion cuts nobody off; a deposited file is kept for as long as promised and
what is purged does not come back; a due schedule is served, once, and one that
was cancelled is not; a PDF is converted once; a verdict of conformity rests on
a citation found in the document and a vote on a majority; the model is left
alone once it fails; a requirement is dropped only by an answer the law knows; a
regulation always has one version in force and a change among the
notifications is a change stored; a refresh token has one successor and its replay ends the family;
revocation leaves nothing; a build that passes has met its thresholds.

## 2. Modules

| Module | Models | Lines of code it stands for |
|---|---|---|
| `Campaign` | campaigns behind the API | `api/v1/audits.py`, `services/audit_engine.py` (control of `run_audit`), `services/reports.py` (`generate_report`) |
| `CampaignProofs` | theorems about `Campaign`, that it implements `Lifecycle` among them | |
| `Lifecycle` | abstract specification: the life of a campaign as other requests see it | the same, without their statements |
| `MCCampaign` | instances for TLC | |
| `Organization` | one tenant, its members, plan and deletion | `api/v1/organizations.py`, `api/deps.py`, `services/quotas.py`, `delete_my_account` |
| `OrganizationProofs` | theorems about `Organization` | |
| `MCOrganization` | instances for TLC | |
| `Storage` | deposited files, indexed text, purge | `services/documents.py`, `services/retention.py`, `index_document`, `upload_document`, `delete_audit` |
| `StorageProofs` | theorems about `Storage` and `ReportPdf` | |
| `MCStorage` | instances for TLC | |
| `Scheduler` | schedules and the ticks that run them | `services/scheduler.py`, `services/scheduling.py`, `create_schedule`, `cancel_schedule` |
| `SchedulerProofs` | theorems about `Scheduler` | |
| `MCScheduler` | instances for TLC | |
| `ReportPdf` | the PDF of a report | `download_report_pdf`, `services/pdf.py` |
| `MCReportPdf` | instances for TLC | |
| `Sessions`, `MCSessions` | one account and its sessions | `api/v1/auth.py`, `api/deps.py`, `models/user.py`, `delete_my_account` |
| `SessionsProofs` | theorems about `Sessions`, that it implements `Families` among them | |
| `Families` | abstract specification: what the tokens of an account promise to whoever holds one | the same, without their requests |
| `Evaluation`, `MCEvaluation` | the evaluation of the requirements inside an analysis | `services/audit_engine.py`, `services/llm.py` |
| `EvaluationProofs` | theorems about `Evaluation` and `Eligibility` | |
| `Eligibility`, `MCEligibility` | applicability of every regulation | `services/eligibilite.py`, `ingestion/scoping.py`, `update_profile`, `create_audit` |
| `Ingestion`, `MCIngestion` | versions of the regulations | `ingestion/runner.py`, `ingestion/eurlex.py`, `ingestion/cli.py`, the watch of `services/scheduler.py`, `models/framework.py` |
| `IngestionProofs` | theorems about `Ingestion` | |
| `Grids` | the grids of the laboratory as data | `referentiel/` |
| `Laboratory`, `MCLaboratory` | a run of the validation harness | `evaluation/`, `validation/run_validation.py`, `validation/harnais.py` |
| `LaboratoryProofs` | theorems about `Laboratory` | |

The modules look at the same program from different sides: `Campaign` has the
locks and the rows of an analysis and takes the files of its documents for
granted, `Storage` has the files and takes from `Campaign` that analyses of one
campaign exclude each other and hold its row (`Analysed`), `Scheduler` takes an
analysis as one step and lets the purge of `Storage` make any campaign
unreadable. `Evaluation` is what `RunComplete` of `Campaign` leaves open,
`Eligibility` gives `Evaluation` the requirements it exempts at its start,
`Ingestion` is the watch that a tick of `Scheduler` runs, `Sessions` decides
who sends the requests of all the others. `Laboratory` stands alone: it is a
second evaluator, run by hand, with its own grids.

### Transactions

A worker is a thread that serves one request at a time. `pc[w]` names the
statement it executes next. A request is cut wherever another transaction can
change something between two of its statements; consecutive statements whose
result nothing else can change are one action. An action reads what is
committed when it runs, as READ COMMITTED does for one statement.

Writes become visible at commit. In these modules a transaction that writes
before its last statement has taken a lock that keeps the others from seeing
or changing the row, so the writes are put in the action that commits (the
tables `status`, `findings`, ... hold committed rows), and the locks are taken
where the code takes them.

SQLAlchemy's UPDATE names only the attributes whose value differs from the one
the session loaded (`expire_on_commit=False` and no refresh in between):
operator `Written`. This is why a request that loaded a row long ago may leave
a column of another request in place.

`Abort` is a lost process, a lost connection or an exception of the handler:
the transaction is rolled back at any statement, its locks are released, files
stay.

### Campaign

| Variable | Code |
|---|---|
| `status`, `score`, `degraded` | columns of `audits` (`models/audit.py`) |
| `documents` | number of rows of `documents` |
| `findings` | rows of `findings`; the rows one analysis inserts are one row with the number of that analysis and its triage |
| `reports`, `files` | rows of `reports`, HTML files of the storage |
| `locks` | advisory locks `audit-run:<id>` and `report:<id>`, row locks on `audits` and `findings` |
| `snap`, `seen`, `num` | what the session of the request has read |

| Action | Statement |
|---|---|
| `RunLoad`, `RunTryLock`, `RunMark` | `_get_audit`; `pg_try_advisory_xact_lock` and the status check; UPDATE to `running` |
| `RunDocs`, `RunPurge`, `RunComplete` | list and index documents; DELETE of the findings; evaluation, INSERT, commit |
| `RunFail` | the `except` branch of `audit_engine.run_audit`, whose effect depends on the step that raised |
| `ReportLoad`, `ReportLock`, `ReportRead`, `ReportVersion`, `ReportWrite`, `ReportCommit` | `create_report` and `generate_report` |
| `TriageLoad`, `Triage` | `update_finding` |
| `DeleteLoad`, `DeleteChildren`, `DeleteRow` | `delete_audit`: the unit of work deletes findings first, the campaign last |
| `DeadlockAbort` | PostgreSQL breaks the cycle of an analysis and a deletion |

### Organization

One organization, so that the quantity of interest is the interleaving of the
requests on it. `ctx` is what `get_org_context` loaded (role, plan, retention),
`arg` what the request asks for, `read` the membership it loaded. Memberships
carry the identifier of their row because `remove_member` deletes by it: a
membership removed and given again in between is another row. The role
`auditor` is left out: no operation of this module asks for it and it ranks
like `viewer` where a role is compared to `admin` and `owner`.

### Storage

| Variable | Code |
|---|---|
| `campaign`, `content`, `old`, `purgedAt` | `documents.audit_id`, `sha256` (of which `storage_key` is made), `created_at`, `content_purged_at` |
| `text` | rows of `document_chunks`: the number of the analysis that wrote them |
| `files` | what the storage directory holds |
| `todo`, `held` | documents an analysis has loaded, and those whose chunks it has replaced without having committed |
| `due`, `purging`, `doomed` | documents the purge selected, those it unlinked, the chunks its DELETE saw |
| `expired` | history: contents of which some document has outlived the retention |

`UploadSave`/`UploadCommit` are `save_document` and the commit of the row;
`RunList`, `RunRead`, `RunChunks`, `RunEnd` the loop over `index_document` and
the commit of the analysis, completed or failed; `Delete` is `delete_audit`,
which leaves the files; `TickList`, `TickUnlink`, `TickCommit` are
`purge_expired_documents` in the transaction of a tick. Files change at once
and are not restored by a rollback. DELETE statements of chunks wait for each
other (`LockedByTick`, `TickWaits`) and PostgreSQL breaks the cycle
(`DeadlockAbort`). A time is abstracted to the order with respect to analyses:
`purgedAt` is the number of the next analysis at the time of the purge. Every
document has some text; a content is deposited with one suffix.

### Scheduler

| Variable | Code |
|---|---|
| `exists`, `source`, `active`, `due` | rows of `audit_schedules`, `source_audit_id`, `is_active`, `next_run_at <= now` |
| `status`, `readable` | the source campaign, and whether the files of its documents are stored |
| `done`, `drafts` | clones committed since the last due date: run to their end, or left as drafts |
| `unrecorded` | schedules an e-mail was sent about by a tick that was rolled back |
| `lock`, `phase`, `todo`, `listed`, `pend` | a tick: advisory lock, step, list of due schedules as loaded, and what it will commit |

A tick is `TickLock`, `TickList`, one `TickRun` for every schedule listed (with
the outcome `Runs`: disabled without a source, draft when a file is missing
and the exception is swallowed, done otherwise), `TickPurge`, `TickCommit`. The
order in which due schedules are run is left open, as the SELECT has no ORDER
BY. `TickAbort` is an exception that reaches `_run_due_jobs` or a process that
dies. `Load` and `Insert`, `Update` or `Cancel` are the statements of the two
endpoints; `Update` and `Cancel` write `is_active` only if it differs from what
was loaded, and wait for a tick that has updated the row (`Locked`).

### ReportPdf

One action per step of `download_report_pdf`: `Lock` waits for
`report-pdf:<id>`, `Cached` serves the file that exists, `Missing`, `Convert`,
`Write` make it. `Convert` ends with the creation of the empty file by
`write_bytes`, `Write` with its last byte; `Raise` and `Crash` can come between.

### Lifecycle

`Campaign!Life` maps `Campaign` onto it: the committed status, whether there is
a document, the numbers of the analyses the findings come from, the versions of
the reports. `Lifecycle` has no transactions, locks, files or workers: an
analysis concludes, replacing all findings, or fails, keeping or losing all of
them; a report takes the version after the last; a deletion empties
everything. `Implements` (the abstract specification as a property) therefore
says that every interleaving, crash and deadlock of `Campaign` looks like
requests served at once; it subsumes that `running` is never committed, that
findings are of one analysis, that nothing outlives a campaign and that a
completed campaign has a document.

### Sessions

| Variable | Code |
|---|---|
| `account` | `users`: status, `email_verified`, `failed_login_count`, `locked_until` (to come, past, none) |
| `sessions` | `user_sessions`: the state of a refresh token and its family |
| `mails` | `one_time_tokens` |
| `cookie`, `access` | the refresh token each browser holds, the browsers with an access token |
| `req` | the request of each worker and the row it loaded |
| `epoch`, `replayed`, `excused`, `wrong`, `overlap` | history, for the properties |

A request whose write depends on what it loaded is cut between the SELECTs and
the commit (`LoginLoad`/`LoginCommit`, `RefreshLoad`/`Rotate`,
`ConfirmLoad`/`ConfirmReset`), the others are one action. `arrives` says
whether the answer reaches the browser. Deleting the cookie never does
(`Cleared` leaves the cookie alone): FastAPI drops the headers of the injected
response when the handler raises, or returns a response of its own.

### Families

`Sessions!Fam` maps `Sessions` onto it: the family of each token that was
issued, the live tokens that are no late successors (`heads`), those that are
(`strays`), `replayed` and `epoch`. `Families` has no browsers, requests, mails
or lock-out: a login opens a family, a refresh hands its head on to a token never
used before, a refusal or a sign-out ends a token, a replay a family, a
revocation everything. The one thing it allows that a reader of the endpoint would
not is `Stray`, the successor of a token that was spent or revoked after the
refresh had loaded it. `HandsOn` (the abstract specification as a property) says
that no overlap of requests, lost answer or deletion gives a client more; since
a step replaces a head by one token, a family never has two (`OneLivePerFamily`,
also proved).

### Evaluation

`queue` and `worker` are the pool of `_evaluate_all`, `consecutive` and `open`
the breaker, `expired` the deadline. One action for each access to what the
threads share and for each answer of a call: `Take` (with the deadline), `Gate`
(the breaker), `Ask`, `Retry`, `CallFails`, `CallAnswers`, then `Succeed` or
`Fail` and `Fallback`. The pure part is operators: `Found` and `Checked` for the
citation, `Majority` for the vote, `Propagate`, `Penalty` and `Score` (integers,
in tenths of a percent), `Degraded`, `Reviewed`. The queue is a set from which
the requirements are taken in order, and sums run over the requirements one
after the other (`Total`; `Sum` in `Laboratory`), which is also what can be
reasoned about. A citation is what its
comparison with the passages yields, sentence by sentence; a passage's
similarity is one of four `Distances`.

### Eligibility

The rules are operators over a profile whose answers are yes, no or unknown,
one per article or group of articles that share a rule. `UpdateProfile`,
`CreateAudit` (with its warning) and `RunAudit` (with the articles it marks as
not applicable) interleave. `DecidedAsLaw` compares the cascades with a
reference definition (`Required`), taken from the docstrings, on every complete
profile; `ExemptionKept` and `ExemptionFinal` are about profiles completed
later. `asked` is what the requests of a behavior fill in: a questionnaire per
group of rules keeps the instance small without losing a combination, since no
rule reads outside its group.

### Ingestion

Two programs, the watch (one transaction per tick) and the command line (one
per run), work through `todo` with the statements of `ingest`: `Fetch`,
`ReadUnchanged` or `ReadChanged`, `ReadLabels`, `Update`, `Insert`, `Embed`, and
`Commit` for all frameworks at the end. `staged` is what is flushed and not
committed; `Update` waits for the row another program has updated, `Insert` for
the unique key. The watch swallows the exception of one framework and goes on;
what it flushed before the exception is committed with the rest. A text is a
number. `told` are the changes among the in-app notifications, rows of the
transaction of the tick; `mailed` those the members had an e-mail about, which
`notify` sends at once (`services/notifications.py:37`): `Embed` adds to `mailed`
when the framework is done, `Commit` to `told`, and a rollback keeps `mailed`.

### Grids and Laboratory

`Grids` is data: per article its weight, the numbers of blocking and other
elements, of derogations that make the processing lawful or take it out of
scope, and whether its exclusion must be quoted. `Laboratory` runs the command
line `launch` from its first document to `exit`: evaluations are `jobs`
(`<<article, vote>>`) whose `step` follows `evaluer_article`
(`Applicable`, `Extract`, `Derogate`, with `Retry`, `GiveUp` and `Crash`, which is
a list of elements that is no list, or a citation that is no string, in any of the
three passes). `EvaluateDocument` starts the evaluations of a document that has a
passage, `RefuseBlank` ends the command on one that has none, `Abort` does when the
exception of an evaluation reaches `pool.map`: what was not begun is cancelled,
what was is waited for. `Elected`, `Credit`, `Score`, `Compared`, `ThresholdsMet` are
operators. A quoted sentence is known by its length class and by whether the
document holds it.

## 3. Runs

| Run | Instance | Question |
|---|---|---|
| `campaign` | 1 campaign, 2 workers, 2 analyses, 1 report, 1 document, fairness | does `Campaign` implement `Lifecycle`; do analyses exclude each other without queueing, do files match rows, does every request end |
| `organization_interleaved` | 2 users, 2 workers, 3 memberships | what concurrency never breaks |
| `organization_serial` | 4 users, 1 worker | what the checks guarantee when requests do not overlap |
| `storage` | 2 documents, 2 contents, 2 campaigns, 1 worker and the tick, 2 analyses, fairness | what the purge never takes too early, what never comes back, is an expired document purged in the end |
| `scheduler` | 1 schedule, 2 workers, 2 processes, fairness | do ticks and clients together ever serve a date twice or revive a schedule; is a due schedule handled |
| `pdf` | 2 reports, 3 workers, fairness | complete files are kept, every download is answered |
| `sessions` | 1 browser, 2 workers, 3 refresh tokens, lock after 2 failures, 1 revocation of everything | does `Sessions` implement `Families`; replay, revocation and lock-out under overlap and lost answers |
| `evaluation` | 3 requirements, the second depending on the first, 2 threads, breaker at 2, 2 attempts, 4 kinds of answers | what is published, counted and scored for every course of the calls |
| `eligibility` | 7 questionnaires over 5 regulations, one field per request | are complete profiles decided as the law says; is an exemption kept; is a warning kept |
| `ingestion` | 2 regulations, 2 texts each, the watch, 1 run of the command line, 1 failure, fairness | versions in force, notifications, catching up |
| `laboratory` | 16 command lines: a vote of 3, repetitions (one where a verdict may change and one where none may), derogations, a missing or blank document | from any answer of the model to a verdict, a score and an exit code |
| `eligibility_final` | as `eligibility` | unknown answers never exempt: **violated** |

Other counterexamples come from the same modules and are kept as
configurations (`tlc -config <cfg> <module>`):

| Configuration | Module | Property, which TLC violates |
|---|---|---|
| `MCCampaignDegraded.cfg` | `MCCampaign` | `DegradedWithoutScore`: an analysis that loaded the campaign before another committed leaves that one's score next to its own `degraded` (`services/audit_engine.py:1205`, against `models/audit.py:62`) |
| `MCCampaignReport.cfg` | `MCCampaign` | `ReportOfCompleted`: the status is checked before the report's lock is waited for (`services/reports.py:240`) |
| `MCOrganizationRaces.cfg` | `MCOrganization` | `HasOwner`, `WithinQuota`, `RetentionOnCabinet`, `OwnersActive`, `DeletionCutsNobody`: the roles, the plan, the account or the members change between a check and the write that relies on it (`api/v1/organizations.py:397`, `:315`, `:152`, `api/v1/privacy.py:106`, `api/v1/organizations.py:270`); `BlockersListed`: deleted accounts count as members and are not listed (`api/v1/organizations.py:288`); to be checked one at a time |
| `MCStorageKept.cfg` | `MCStorage` | `ContentKept`: the purge of one document unlinks the file of a later one of equal content (`services/retention.py:72`, against `models/audit.py:107`) |
| `MCStorageText.cfg` | `MCStorage` | `PurgedTextGone`: an analysis under way commits the text of a document purged since (`services/audit_engine.py:188`, against `services/retention.py:3`) |
| `MCSchedulerOne.cfg` | `MCScheduler` | `OneScheduleEach`: two requests insert a schedule (`api/v1/audits.py:536`, against the docstring at 526) |
| `MCSchedulerDate.cfg` | `MCScheduler` | `OneCampaignPerDate`: a source whose file was purged leaves a draft clone at every tick (`services/scheduling.py:95`) |
| `MCSchedulerMail.cfg` | `MCScheduler` | `MailedIsRecorded`: e-mails leave before the commit (`services/notifications.py:37`) |
| `MCReportPdfWhole.cfg` | `MCReportPdf` | `ServedWhole`: an interrupted `write_bytes` is served (`api/v1/audits.py:506`) |
| `MCSessionsFinal.cfg` | `MCSessions` | `RevocationFinal`: a refresh that loaded its token before a sign-out issues a successor after it (`api/v1/auth.py:346`, against the docstring at 383) |
| `MCIngestionClaims.cfg` | `MCIngestion` | `OneInForce`: the watch and the command line leave two versions in force; `InForceEmbedded`: a version whose embedding failed is committed with the tick (`ingestion/runner.py:120`, `services/scheduler.py:92`) |
| `MCIngestionMail.cfg` | `MCIngestion` | `MailedIsTold`: the members have an e-mail about a version that a later failure of the same tick rolls back, with its notification (`services/scheduler.py:113`, against `services/notifications.py:59`, which sends them to the history in the application) |
| `MCLaboratoryRepeated.cfg` | `MCLaboratory` | `PassedExcludesNone`: a build passes although the second evaluation of a document excluded an obligation that is due; only `rapports[0]` is compared (`validation/run_validation.py:189`, against `validation/harnais.py:6` and `:50`, where no exclusion passes) |
| `MCLaboratoryClaims.cfg` | `MCLaboratory` | `SystematicReviewed` (an article out of scope returns before the rule, `evaluation/evaluateur.py:398`), `NeverCrashes` (a list of elements that is no list, `:256`, a citation that is no string, `evaluation/verificateur.py:66`, a document without a passage, `evaluation/evaluateur.py:546`), `PassedIsComplete` (a missing document is only named, `validation/run_validation.py:163`) |

`MCCampaignThree.cfg` holds on a larger instance of `Campaign`: three workers
(with symmetry), all its invariants, no liveness.

Bounds. One campaign is enough: locks and rows of different campaigns do not
meet in any statement of the model. Two workers let an analysis and a deletion,
or two analyses, or two reports, overlap (three in `MCCampaignThree.cfg`: an
analysis, a report or triage and a deletion); two analyses let findings of an
older one be there, and be triaged, while a newer one runs; `MaxReports` only
limits requests, so a second version is still produced by a request under way
and version numbers collide if the lock is missing. `MaxRows = 3` for two members lets a
membership be removed and given again while a third request holds the old
identifier. Four users exceed the limits of both `essentiel` (1) and `pro` (3).
Two documents are what it takes to share a file, to be indexed in the opposite
order of the purge, and to make a tick fail on one after the other was unlinked;
the worker and the tick overlap at every statement, and `MaxRuns = 2` gives an
analysis before and one after a purge. One schedule is enough for the
scheduler, whose properties speak of one schedule each; two processes compete
for its lock and two clients for its row; counters of campaigns stop at
`MaxCount = 2`, one more than any property allows (`MCSchedulerOne.cfg` has the
two schedules that two requests make of one campaign). All safety
properties of the passing runs are also proved for every instance (section 5). Three downloads
let one wait while two others race. Three refresh tokens are a login, its
rotation and the successor a late or second refresh adds, or two logins; one
revocation separates sessions before from sessions after. Two threads are what
the breaker needs to be opened by one while the other is calling; three
requirements leave one in the queue; four kinds of answers give a sure one, an
unsure one, one whose citation is half missing and an exclusion, so that votes
of one to three opinions agree, differ and fail. The questionnaires cover every
rule. Two regulations are what a failure in the middle of a tick needs; a second
run of the command line would find what the watch finds. The command lines of
the laboratory have one or two articles, chosen for what their rows in `Grids`
differ in; an evaluation of one article never reads another's. Two documents of two
articles, twice, are four verdicts of which one may change under the 30 % of NIS 2:
the smallest instance in which the tolerance on unstable verdicts lets anything
pass (one article or document less and it lets nothing). The thresholds are whole
percentages; where a measure is exactly at its threshold the floats of the code
may fall on the refusing side, which only makes fewer builds pass.
Workers (and users before a request names them) are interchangeable: symmetry
is used for safety only, never in a run with a liveness property.

Deadlock checking is off: a system whose campaign or organization is deleted
and whose bounds are used up has nothing left to do. That no *request* is stuck
is what `RequestsEnd` says.

Fairness (`FairSpec`). A thread executes the statement it is at (weak
fairness), PostgreSQL serves those who wait for a lock in order, so whoever is
granted the lock again and again gets it in the end (strong fairness), and
breaks deadlocks (`deadlock_timeout`). Evaluation is bounded by
`AUDIT_MAX_SECONDS`. A failure is never required to happen, except that an
analysis of a campaign without documents can only fail; no client is required
to send a request. In `Storage` and `Scheduler` every process polls, and ticks
that fail do so only finitely often (`<>[][~TickAbort]_vars`): a tick that failed
for ever would rightly never purge or run anything. In `Ingestion` the scheduler
ticks, time passes, and a program under way proceeds, strongly fairly because
PostgreSQL serves those who wait for a row in order; failures are finitely many
by their bound. `Laboratory` is one program: it only has to go on. A tick that fails by itself,
because a document was deleted under it, is *not* assumed away.

## 4. What the runs show

Held: analyses exclude each other although the campaign is loaded and its status
checked outside the lock (the second caller fails the try-lock, or starts after
the first committed); `running` is never committed, so a crash never blocks a
campaign; findings never mix two analyses; report versions are unique without
the help of the unique key, and a file always matches its row even when a
crashed request left a file behind; foreign keys keep rows from outliving
campaigns and organizations; the deadlock between an analysis (campaign, then
findings) and a deletion (findings, then campaign) is real and is broken.

Also held: a file is missing only if some document of its content has outlived
the retention, through rollbacks, deletions and refused uploads; an analysis
that starts after a purge never indexes the document again, even when an equal
content has been deposited since; the purge comes to an end although it shares
files and locks with others; a due date is served at most once by any number
of processes; no tick that listed a schedule before revives it once a client has
cancelled it, or disables it while its campaign is there; a complete PDF is
never converted again, and every download is answered or lost with the server.

Also held, in the other modules: whatever calls fail, no conformity of the
model is published without its citation in the document, no vote without a
majority or a human review, and once the breaker opened or the time ran out the
model is only asked about the requirement each thread had in hand; an article
excluded takes its dependents along, and a full score means that everything
applicable is met (up to 49 requirements: see section 5). Complete profiles are
decided as the docstrings word the law; a campaign created with the warning
"does not apply" drops every requirement, also when the questionnaire was completed before the analysis. A
regulation never loses its version in force, has one unless two programs
overlap, what the in-app notifications tell is stored, and a published text is in
force in the end.
Refresh tokens have one live successor, replay detection never punishes a
holder whose answers all arrive and who refreshes a token once at a time, a
revocation is immediate, and failures lock the account unless logins overlap.
The laboratory never declares conform or out of scope what the document does
not support, always ends, and passes a build only within its thresholds: over all
repetitions the due articles excluded are at most the exclusions tolerated plus
the verdicts that may change (`PassedIsSound`).

Not held, by the runs and by the configurations listed after them: an answer
still unknown does exempt from articles 30 and 37, although the module
announces the contrary, and the exemption is taken back when the profile is
completed (`eligibility_final`). `Overlooked` names the answers, and
`ExemptionKept` shows that they are the only ones: for article 37 whether the body
is public, once the professional works alone (`services/eligibilite.py:275`), and
the monitoring and the sensitive and criminal categories, for a large scale core
activity (`:309`); for article 30 the criminal categories, which the list of
missing answers leaves out (`:235`). The exemptions for a small scale and for a
secondary activity are final. Further: members are e-mailed about a version of a
regulation that is then rolled back (`MailedIsTold`); a build passes although a
later evaluation of a document excluded an obligation that is due, because only the
first one is compared with what is expected (`PassedExcludesNone`); a sign-out
everywhere is survived by a refresh under way; a version of a regulation can be in force without
embeddings, or twice; the laboratory skips the systematic review of articles
out of scope, stops on a malformed list or citation and on a blank document, and
passes a corpus with a document missing; the purge of
one document takes the file of a later one of equal content, whose campaign can
no longer be analysed; an analysis under way during the purge brings the text
of a purged document back for good; a campaign can get two schedules; a source
whose file was purged makes every tick leave one more draft campaign; e-mails
are sent about notifications that are rolled back; an interrupted PDF is served
for ever; a degraded campaign can keep the score of an overlapping analysis; a report can be made
of a campaign that failed since it was loaded; concurrent requests can leave
an organization without an owner, over its quota, with a custom retention on a
plan that has none, owned by a deleted account, or deleted under a member who
has just joined. The same promises do hold when requests are served one after
the other (run `organization_serial`, theorems `SerialPromises` and
`SerialDeletions`), so what is missing is isolation, not a check. For most of the
other claims that are not held a theorem likewise names the only thing that
breaks them:

| Claim | Theorem | Holds as long as |
|---|---|---|
| `DegradedWithoutScore`, `ReportOfCompleted` | `DegradedSerial`, `ReportSerial` | requests on campaigns do not overlap |
| `OneScheduleEach` | `OneScheduleSerial` | requests on schedules do not overlap, whatever the ticks do |
| `OneCampaignPerDate` | `OneCampaignReadable` | no purge takes the file of a source |
| `PurgedTextGone` | `PurgeIsolated` | no analysis under way works on a document the purge has selected |
| `ServedWhole` | `PdfWholeUnlessCut` | no writing of a PDF is interrupted |
| `RevocationFinal` | `FinalUndisturbed` | no token is revoked between the two statements of its refresh |
| `MailedIsTold` | `MailedUnlessRolledBack` | no tick of the watch is rolled back |

One disagreement needs no concurrency: a deleted account keeps its membership,
blocks the deletion of the organization and is not listed on the team page.

## 5. Proofs

All proofs are checked by TLAPS for any set of campaigns, users, workers,
browsers, regulations, requirements and command lines and any bounds; the
theorems of a module are at the end of its `...Proofs`. Assumptions:
`BoundsAssumption`, `SentinelAssumption`, `OrganizationAssumption`,
`StorageAssumption`, `SchedulerAssumption`, `SessionsAssumption`,
`IngestionAssumption` (bounds are naturals, sentinels are not members, users and
regulations are finite), `EvaluationAssumption` (bounds, kinds of answers, and
that a requirement others depend on depends on none, as in the code's
`DEPENDENCIES`), `LaboratoryAssumption` (what a row of `Grids` and a command
line are made of) and `CorpusAssumption` (a grid holds an article once; an article
never to be excluded has an expected verdict, which
`validation/verifier_verite_terrain.py:149` checks of every corpus). The
theorems called `...Serial...` also assume `Serial`, that there is at most one worker,
`FullScoreMet` that there are fewer than fifty requirements, those about
`Eligibility` `KnownFrameworks` (a questionnaire is about one of the five
frameworks that are ingested; `FrameworkCode` also names NIST CSF and ANSSI, which
have no rule and no requirements, so that nothing about them is exempted), and
those about `ReportPdf` that `Nobody` is no worker. The last two are hypotheses of the
theorems because an ASSUME of a module that is instantiated, unlike that of a module
that is extended, is not available to a proof; TLC evaluates `EligibilityAssumption`
and `ReportPdfAssumption` in the runs. `PdfConvertedOnce`, `RulesAsLaw`, `WarningTrue`
and `ExemptionsStand` state `ConvertedOnce`, `DecidedAsLaw`, `WarnedDropsAll` and
`ExemptionKept` through an instance (`P!`, `E!`) of the module whose run checks them.

*Campaign.* None of the invariants is inductive alone: that two analyses
exclude each other needs to know who holds which lock. The inductive invariant
`IInv` is

- `TypeOK`,
- `LockInv`: a worker past a locking statement holds the lock of its campaign,
  an idle worker holds none;
- `RunInv`: what an analysis knows of the rows (its campaign is there, it has
  documents, its findings are those deleted);
- `ReportInv`: under the report's lock, the version chosen is still free and
  the file written is still the one of that version;
- the row invariants (`NoCommittedRunning`, `FindingsFromOneRun`,
  `NoOrphanRows`, `CompletedHasDocuments`, `ReportFileMatches`).

Each action is shown to preserve each part it can disturb; exclusion, versions
and files then follow from the locks.

*Refinement.* `Refines` (the last part of `CampaignProofs`) is `Spec => Implements`: every
commit of `Campaign` is one step of `Lifecycle`, every other step a stutter.
`IInv` is not enough for it, since a commit relies on what was read before it.
Three more invariants say what is still true then: `NumberInv` (the number of
an analysis is that of no other analysis and of no finding, so that its findings
are new), `VersionInv` (the version chosen is not only free but the one after
the last, unless the campaign was deleted) and `BegunInv` (the campaign of a
request was created, that of a report analysed; either may have been deleted).
One lemma per writing action then maps it to `Conclude`, `Fail`, `Publish`,
`Delete` or, for a triage and for the second of two deletions, to a stutter.

*One request at a time.* `DegradedSerial` and `ReportSerial` rest on `SerialInv`:
the campaign a request loaded is still what the database has, and stays completed
while a report of it is made (`LoadedOK`). That is the sentence concurrency makes
false, as `Written` and the late check of `create_report` do not re-read.

*Organization.* `IInv` adds to the types that a membership id in use is below
`nextRow` and that the owner whose membership a request is about to remove was
read by the request of an owner, unless the row was replaced since
(`RemovalOK`). With `Serial`, `SerialInv` adds that what the one worker checked
is still true when it writes (`CheckedOK`), which is exactly what concurrency
takes away.

*Storage.* `FileInv` says that what the purge has selected has outlived the
retention, so that all it unlinks is in `expired`, and that whatever was received
is stored or expired; `IndexInv` that an analysis under way only holds documents
that were not purged when it was numbered, so that what it writes is older than
any later purge. `PurgeIsolated` needs `GoneInv`: as long as `Overlapping` is false
in every state, a purged document has no text, none waiting in an analysis and none
that the DELETE of the tick has missed.

*ReportPdf.* `PdfInv`: whoever converts or writes holds the lock, so that the
file it found missing is still missing, and one under way is the only one.
`ConvertedOnce` follows. `WholeInv` adds that what is stored is complete unless
its writer is still at it, which only `CutsWrite` (a stop or an exception during `Write`) breaks.

*Scheduler.* `LockInv`: a tick under way holds the lock, one that has not
listed anything owes nothing. `ServeInv`: what is due, listed or about to be
committed has not been served since its due date; with the lock, a commit then
serves it for the first time. `SourceInv`: a schedule keeps the campaign it was
listed with or loses it for good. `CancelledStays` needs types only, but each
action that writes `is_active`. `OneCampaignReadable` uses `DraftInv` (no clone is a
draft and no tick is about to leave one) next to `ServeInv`; `OneScheduleSerial`
uses `SoleInv`: a campaign has one schedule, active or not, and none while the request that
will insert one is under way, since nothing but a request gives it one.

*Sessions.* `RevokedAtOnce` and `OneLivePerFamily` are inductive with
`FamilyInv` (the token a request loaded and the ones the browsers hold were
issued): a revocation of everything is one UPDATE over all live rows, and a
rotation that finds its token revoked in the meantime marks its successor `late`,
the exception that `OneLivePerFamily` makes. `CountInv` relates the counter of the
row to the wrong passwords given and to what the logins under way have loaded,
until two of them overlap. `HolderInv` says that the tokens of a family are in
the hands of one browser, in its cookie or in a refresh under way; `ReplayInv`
that whoever holds a dead or late token holds the last of its family, unless an
answer was lost or two refreshes of one token overlapped: what a replay then
revokes is late itself, or nothing.

*Refinement of Families.* `Delegation` is `Spec => HandsOn`, with one lemma for
each kind of commit (login, rotation, refusal, replay, sign-out, revocation of
everything) and `FamilyInv` for the rest: it gives the family of a token that a
request holds, and that the successor of a rotation was never issued. `EndsForGood`
is then proved of the abstract steps alone: a family without a head never gets
one again. `FinalInv`, behind `FinalUndisturbed`, says that unless a step `Disturbs` (it
revokes a token that a refresh under way has loaded) what a refresh has loaded is
still live; no successor is late then, and a revocation leaves nothing behind.

*Ingestion.* `StepInv` says what a program at each statement has staged;
`ForceInv` that, unless a regulation was overlapped, the program that has staged
a version of it is alone and replaces the one version in force; `TellInv` that
what a tick will tell is staged with its embeddings, by a watch that is done with
the regulation, so that the commit stores what it tells. `MailedIsTold` is inductive
but for the three steps that roll a tick back (`RollsBack`), since a tick has mailed
exactly what it is about to tell. `AlwaysInForce` needs no such exception: a commit inserts a version in force for every one it
switches off.

*Evaluation.* `PoolInv`: a requirement without a verdict is in the queue or in
the hands of a thread, a thread that votes has an opinion (`Sane`), and nobody has
anything left once the verdicts are propagated; `VerdictInv`: every verdict stored
is `Sound`, verified if it conforms,
agreed or undetermined for review, unless it was excluded with its master;
`LateInv`: the late calls and the threads that may still make one are together
no more than the threads. `MajorityUnique` (two answers cannot both have more
than half of the opinions) makes the CHOOSE of the vote mean what the code does.
`OnePassSuffices` is where the assumption on dependencies is used: with a chain
of dependencies one pass in the order of the list would miss the last link.
`FullScoreMet` is about rounding: the lightest thing that is not met costs 25
thousandths of a requirement (half of the weight of an "info"), the rounding to
a tenth of a percent hides less than `n`/2 thousandths among `n`
applicable ones, so up to 49 of them nothing can hide, and at fifty it would. An
analysis has at most 45 (the RGPD once scoped: `backend/tests/test_scoping.py:47`).

*Eligibility.* `Decided` goes through the three rules that combine answers and
compares each with `Required`. `RuleKept` is the lemma behind the rest: an article exempted
by a profile is exempted by any profile that extends it and leaves its
`Overlooked` answers alone, one case per article with a rule; `ExemptionsStand`
is the step by step form. `WarningTrue` needs `WarnInv`, that what a warning rests
on still holds while answers are only added: no answer it reads is overlooked.

*Laboratory.* `JobsInv`: an evaluation that has proved an element was given a
sentence of the document, a finished one is `Justified`; `ReportsInv`: so is every
result of a report, and its votes elect it. `MostCommonVoted` and
`ElectedSound` are the lemmas on the vote, `SumBounds` the one behind a score
that stays between 0 and 100 %. `MeasureInv` is what a passing build relies on: a
document has all its reports or none, except the one being measured, and the
metrics count at least the due articles that the first reports excluded. A due
article excluded by a later report only has a verdict that differs between two
reports, so that `PassedIsSound` adds the unstable verdicts to those.
`comparer` walks over the expected verdicts by their numbers, so `ComparedAbusive`
maps the excluded articles into them one to one, which is where
`CorpusAssumption` is used; a due article without an expected verdict would be
excluded unnoticed.

Sums and counts. The prover has no induction on data. A running sum
(`Total`, `Sum`) is shown to exist, to be a natural and to be bounded by its
terms by taking the least index at which that fails (`WFMin`, a case of the
well-foundedness of the naturals that the library proves).

Only model-checked:

- liveness (`RequestsEnd`, `ExpiredPurged`, `DueHandled`, `DownloadsEnd`,
  `SourceCaughtUp`, `Ends`): fairness and ENABLED are out of reach of the prover;
- the violations.

## 6. What is not modelled

Retrieval (floating-point similarity, inside SQL for the vectors), parsing of
documents and of the EUR-Lex pages, the similarity of texts behind a citation
(kept as its outcome), prompts and the wording of findings, reports and e-mails,
hashing and JWT encoding, rate limits, the monthly campaign quota, consents and
the export of personal data, the comparison of two campaigns,
`validation/evaluate.py` (confusion matrices of a recorded run), the offline
prototypes and the frontend. PostgreSQL, SQLAlchemy, FastAPI and the file system
are modelled by the guarantees the code relies on (locks, foreign and unique
keys, cascade, READ COMMITTED, changed columns only). The components table of
`PROJECT.json` gives the reason for each part.

## 7. Plan

1. `Quotas` (the monthly campaigns of `create_audit`), with the transactions of
   `Organization`.
2. `Retrieval`: chunking and rank fusion as pure operators.
3. `Evaluation` with `Eligibility` composed inside the analysis of `Campaign`.
