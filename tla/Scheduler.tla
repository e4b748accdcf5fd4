------------------------------- MODULE Scheduler -------------------------------
(***************************************************************************)
(* Recurring campaigns: the schedules clients set on a campaign            *)
(* (create_schedule, cancel_schedule) and the ticks that run them          *)
(* (services/scheduler.py, services/scheduling.py).                        *)
(*                                                                         *)
(* A tick is one transaction, which runs every due schedule and then the   *)
(* purge; it writes at its commit, sends e-mails and unlinks files before. *)
(* The campaigns a schedule makes are counted from its last due date on.   *)
(***************************************************************************)
EXTENDS Naturals, FiniteSets

CONSTANTS
  Schedules,   \* identifiers of rows of audit_schedules
  Audits,      \* campaigns made by clients
  Workers,     \* threads that serve requests
  Tickers,     \* processes, each with its scheduler
  NoAudit,     \* source_audit_id IS NULL
  NoSchedule,  \* a campaign without a schedule
  Nobody,      \* the advisory lock is free
  MaxCount     \* bound: counters stop there

ASSUME SchedulerAssumption ==
  /\ NoAudit \notin Audits
  /\ NoSchedule \notin Schedules
  /\ Nobody \notin Tickers
  /\ MaxCount \in Nat \ {0, 1}

VARIABLES
  (* committed rows, files and what left by e-mail *)
  status,     \* "none", "completed" or "deleted"
  readable,   \* the files of the documents of a campaign are stored
  exists,     \* schedules inserted
  source,     \* audit_schedules.source_audit_id
  active,     \* audit_schedules.is_active
  due,        \* next_run_at <= now
  done,       \* campaigns finished for a schedule since its last due date
  drafts,     \* clones left as drafts since then
  unrecorded, \* schedules e-mailed about by a tick that was rolled back
  (* requests *)
  pc,         \* "idle", "schedule" or "cancel"
  on,         \* campaign of the request
  target,     \* schedule it found
  was,        \* is_active of that schedule as loaded
  (* ticks *)
  lock,       \* holder of the advisory lock complianceai_scheduler
  phase,      \* "idle", "list", "run" or "commit"
  todo,       \* schedules listed and not run yet
  listed,     \* source_audit_id of each schedule as listed
  pend        \* what the tick will commit for each schedule

schedules == <<exists, source, active, due>>
counts == <<done, drafts, unrecorded>>
requests == <<pc, on, target, was>>
ticks == <<lock, phase, todo, listed, pend>>
vars == <<status, readable, schedules, counts, requests, ticks>>

Outcomes == {"disabled", "draft", "done"}
NoPend == [s \in Schedules |-> "none"]

More(count, set) ==
  [s \in Schedules |-> IF s \in set /\ count[s] < MaxCount THEN count[s] + 1 ELSE count[s]]
\* A tick that notified has flushed its UPDATE of the schedule.
Locked(s) == \E k \in Tickers : pend[k][s] \in {"disabled", "done"}

(***************************************************************************)
(* Campaigns, and the passing of time                                      *)
(***************************************************************************)
Complete(a) ==
  /\ status[a] = "none"
  /\ status' = [status EXCEPT ![a] = "completed"]
  /\ UNCHANGED <<readable, schedules, counts, requests, ticks>>

\* ON DELETE SET NULL
Delete(a) ==
  /\ status[a] = "completed"
  /\ \A s \in exists : source[s] = a => ~Locked(s)
  /\ status' = [status EXCEPT ![a] = "deleted"]
  /\ source' = [s \in Schedules |-> IF source[s] = a THEN NoAudit ELSE source[s]]
  /\ UNCHANGED <<readable, exists, active, due, counts, requests, ticks>>

\* An equal content deposited anywhere in the organization restores the files.
Deposit(a) ==
  /\ ~readable[a]
  /\ readable' = [readable EXCEPT ![a] = TRUE]
  /\ UNCHANGED <<status, schedules, counts, requests, ticks>>

\* next_run_at is reached.
Elapse(s) ==
  /\ s \in exists /\ ~due[s]
  /\ due' = [due EXCEPT ![s] = TRUE]
  /\ done' = [done EXCEPT ![s] = 0]
  /\ drafts' = [drafts EXCEPT ![s] = 0]
  /\ UNCHANGED <<status, readable, exists, source, active, unrecorded, requests, ticks>>

(***************************************************************************)
(* create_schedule, cancel_schedule                                        *)
(***************************************************************************)
Idle(w) ==
  /\ pc' = [pc EXCEPT ![w] = "idle"]
  /\ target' = [target EXCEPT ![w] = NoSchedule]
  /\ was' = [was EXCEPT ![w] = FALSE]
  /\ UNCHANGED on

\* The campaign exists and is completed; db.scalar returns any of its schedules.
Load(w, a, request) ==
  LET found == {s \in exists : source[s] = a} IN
  /\ pc[w] = "idle" /\ status[a] = "completed"
  /\ request = "cancel" => found # {}
  /\ \E s \in IF found = {} THEN {NoSchedule} ELSE found :
       /\ target' = [target EXCEPT ![w] = s]
       /\ was' = [was EXCEPT ![w] = s # NoSchedule /\ active[s]]
  /\ on' = [on EXCEPT ![w] = a]
  /\ pc' = [pc EXCEPT ![w] = request]
  /\ UNCHANGED <<status, readable, schedules, counts, ticks>>

\* No unique constraint: a second schedule of the campaign is inserted as well.
\* The foreign key refuses a campaign deleted since.
Insert(w) ==
  /\ pc[w] = "schedule" /\ target[w] = NoSchedule
  /\ status[on[w]] = "completed"
  /\ \E s \in Schedules \ exists :
       /\ exists' = exists \union {s}
       /\ source' = [source EXCEPT ![s] = on[w]]
       /\ active' = [active EXCEPT ![s] = TRUE]
  /\ Idle(w)
  /\ UNCHANGED <<status, readable, due, counts, ticks>>

\* UPDATE names the columns whose value differs from the one loaded: is_active
\* is written only if it changes, next_run_at always.
Update(w) ==
  LET s == target[w] IN
  /\ pc[w] = "schedule" /\ s # NoSchedule /\ ~Locked(s)
  /\ active' = [active EXCEPT ![s] = @ \/ ~was[w]]
  /\ due' = [due EXCEPT ![s] = FALSE]
  /\ Idle(w)
  /\ UNCHANGED <<status, readable, exists, source, counts, ticks>>

Cancel(w) ==
  LET s == target[w] IN
  /\ pc[w] = "cancel" /\ ~Locked(s)
  /\ active' = [active EXCEPT ![s] = @ /\ ~was[w]]
  /\ Idle(w)
  /\ UNCHANGED <<status, readable, exists, source, due, counts, ticks>>

Refuse(w) ==
  /\ pc[w] # "idle"
  /\ Idle(w)
  /\ UNCHANGED <<status, readable, schedules, counts, ticks>>

(***************************************************************************)
(* _run_due_jobs                                                           *)
(***************************************************************************)
\* Variant: the lock is not asked for.
TickUnlocked(k) ==
  /\ phase[k] = "idle"
  /\ phase' = [phase EXCEPT ![k] = "list"]
  /\ UNCHANGED <<status, readable, schedules, counts, requests, lock, todo, listed, pend>>

\* pg_try_advisory_xact_lock: a tick that does not get it does nothing.
TickLock(k) ==
  /\ phase[k] = "idle" /\ lock = Nobody
  /\ lock' = k
  /\ phase' = [phase EXCEPT ![k] = "list"]
  /\ UNCHANGED <<status, readable, schedules, counts, requests, todo, listed, pend>>

\* Schedules due now; their rows are not read again.
TickList(k) ==
  /\ phase[k] = "list"
  /\ phase' = [phase EXCEPT ![k] = "run"]
  /\ todo' = [todo EXCEPT ![k] = {s \in exists : active[s] /\ due[s]}]
  /\ listed' = [listed EXCEPT ![k] = source]
  /\ UNCHANGED <<status, readable, schedules, counts, requests, lock, pend>>

\* run_schedule.  Without a source the schedule is disabled; a file that is
\* missing raises once the clone is flushed, and the exception is swallowed.
Runs(k, s) ==
  LET a == listed[k][s] IN
  IF a = NoAudit \/ status[a] = "deleted" THEN "disabled"
  ELSE IF readable[a] THEN "done" ELSE "draft"

TickRun(k, s) ==
  /\ phase[k] = "run" /\ s \in todo[k]
  /\ pend' = [pend EXCEPT ![k][s] = Runs(k, s)]
  /\ todo' = [todo EXCEPT ![k] = @ \ {s}]
  /\ UNCHANGED <<status, readable, schedules, counts, requests, lock, phase, listed>>

\* purge_expired_documents unlinks the files of expired documents.
TickPurge(k) ==
  /\ phase[k] = "run" /\ todo[k] = {}
  /\ phase' = [phase EXCEPT ![k] = "commit"]
  /\ \E gone \in SUBSET Audits :
       readable' = [a \in Audits |-> readable[a] /\ a \notin gone]
  /\ UNCHANGED <<status, schedules, counts, requests, lock, todo, listed, pend>>

TickEnd(k) ==
  /\ phase' = [phase EXCEPT ![k] = "idle"]
  /\ lock' = IF lock = k THEN Nobody ELSE lock
  /\ todo' = [todo EXCEPT ![k] = {}]
  /\ listed' = [listed EXCEPT ![k] = [s \in Schedules |-> NoAudit]]
  /\ pend' = [pend EXCEPT ![k] = NoPend]
  /\ UNCHANGED <<status, readable, exists, source, requests>>

With(k, outcome) == {s \in Schedules : pend[k][s] = outcome}

\* Variant: is_active is written for every schedule that ran.
TickCommitAll(k) ==
  /\ phase[k] = "commit"
  /\ active' = [s \in Schedules |->
                  pend[k][s] = "done" \/ (active[s] /\ pend[k][s] # "disabled")]
  /\ due' = [s \in Schedules |-> due[s] /\ pend[k][s] # "done"]
  /\ done' = More(done, With(k, "done"))
  /\ drafts' = More(drafts, With(k, "draft"))
  /\ TickEnd(k)
  /\ UNCHANGED unrecorded

\* Variant: the next date is not set.
TickCommitSame(k) ==
  /\ phase[k] = "commit"
  /\ active' = [s \in Schedules |-> active[s] /\ pend[k][s] # "disabled"]
  /\ done' = More(done, With(k, "done"))
  /\ drafts' = More(drafts, With(k, "draft"))
  /\ TickEnd(k)
  /\ UNCHANGED <<due, unrecorded>>

TickCommit(k) ==
  /\ phase[k] = "commit"
  /\ active' = [s \in Schedules |-> active[s] /\ pend[k][s] # "disabled"]
  /\ due' = [s \in Schedules |-> due[s] /\ pend[k][s] # "done"]
  /\ done' = More(done, With(k, "done"))
  /\ drafts' = More(drafts, With(k, "draft"))
  /\ TickEnd(k)
  /\ UNCHANGED unrecorded

\* An exception or a crash: unlinked files are not restored, and the e-mails
\* notify sent for the schedules that ran are not taken back.
TickAbort(k) ==
  /\ phase[k] # "idle"
  /\ unrecorded' = unrecorded \union With(k, "done") \union With(k, "disabled")
  /\ TickEnd(k)
  /\ UNCHANGED <<active, due, done, drafts>>

-----------------------------------------------------------------------------
Init ==
  /\ status = [a \in Audits |-> "none"]
  /\ readable = [a \in Audits |-> TRUE]
  /\ exists = {}
  /\ source = [s \in Schedules |-> NoAudit]
  /\ active = [s \in Schedules |-> FALSE]
  /\ due = [s \in Schedules |-> FALSE]
  /\ done = [s \in Schedules |-> 0]
  /\ drafts = [s \in Schedules |-> 0]
  /\ unrecorded = {}
  /\ pc = [w \in Workers |-> "idle"]
  /\ on \in [Workers -> Audits]
  /\ target = [w \in Workers |-> NoSchedule]
  /\ was = [w \in Workers |-> FALSE]
  /\ lock = Nobody
  /\ phase = [k \in Tickers |-> "idle"]
  /\ todo = [k \in Tickers |-> {}]
  /\ listed = [k \in Tickers |-> [s \in Schedules |-> NoAudit]]
  /\ pend = [k \in Tickers |-> NoPend]

Tick(k) ==
  TickLock(k) \/ TickList(k) \/ TickPurge(k) \/ TickCommit(k)
  \/ \E s \in Schedules : TickRun(k, s)

Next ==
  \/ \E a \in Audits : Complete(a) \/ Delete(a) \/ Deposit(a)
  \/ \E s \in Schedules : Elapse(s)
  \/ \E w \in Workers :
       \/ Insert(w) \/ Update(w) \/ Cancel(w) \/ Refuse(w)
       \/ \E a \in Audits, request \in {"schedule", "cancel"} : Load(w, a, request)
  \/ \E k \in Tickers : Tick(k) \/ TickAbort(k)

Spec == Init /\ [][Next]_vars

\* Every process polls and goes through its ticks, which are not interrupted
\* for ever.
Fairness ==
  \A k \in Tickers : WF_vars(Tick(k)) /\ <>[][~TickAbort(k)]_vars

FairSpec == Spec /\ Fairness

(***************************************************************************)
(* Properties                                                              *)
(***************************************************************************)
Counts == 0 .. MaxCount

TypeOK ==
  /\ status \in [Audits -> {"none", "completed", "deleted"}]
  /\ readable \in [Audits -> BOOLEAN]
  /\ exists \subseteq Schedules
  /\ source \in [Schedules -> Audits \union {NoAudit}]
  /\ active \in [Schedules -> BOOLEAN]
  /\ due \in [Schedules -> BOOLEAN]
  /\ done \in [Schedules -> Counts]
  /\ drafts \in [Schedules -> Counts]
  /\ unrecorded \subseteq Schedules
  /\ pc \in [Workers -> {"idle", "schedule", "cancel"}]
  /\ on \in [Workers -> Audits]
  /\ target \in [Workers -> Schedules \union {NoSchedule}]
  /\ was \in [Workers -> BOOLEAN]
  /\ lock \in Tickers \union {Nobody}
  /\ phase \in [Tickers -> {"idle", "list", "run", "commit"}]
  /\ todo \in [Tickers -> SUBSET Schedules]
  /\ listed \in [Tickers -> [Schedules -> Audits \union {NoAudit}]]
  /\ pend \in [Tickers -> [Schedules -> Outcomes \union {"none"}]]

\* A due date is never served twice, however many processes poll, ticks are
\* rolled back and clients change the schedule meanwhile.
ServedOnce == \A s \in Schedules : done[s] <= 1

\* What a client cancelled stays so until a client schedules it again, even
\* while a tick that listed the schedule before is running it.
CancelledStays ==
  [][\A s \in exists :
       ~active[s] /\ active'[s] => \E w \in Workers : Update(w) /\ target[w] = s]_vars

\* run_schedule: a schedule is disabled because its campaign is gone, never
\* because a run of it failed.
DisabledWithoutSource ==
  [][\A s \in exists :
       active[s] /\ ~active'[s] =>
         source[s] = NoAudit \/ \E w \in Workers : Cancel(w) /\ target[w] = s]_vars

\* A due schedule whose documents can be read is run in the end, or is no longer
\* due, or no longer active, because a client or the purge decided otherwise.
DueHandled ==
  \A s \in Schedules :
    due[s] /\ active[s] ~>
      \/ ~due[s] \/ ~active[s]
      \/ source[s] # NoAudit /\ ~readable[source[s]]

\* create_schedule: "Une seule planification active par campagne source".
OneScheduleEach ==
  \A s, t \in exists :
    active[s] /\ active[t] /\ source[s] = source[t] /\ source[s] # NoAudit => s = t

\* compute_next_run: "environ chaque mois": one campaign per due date.
OneCampaignPerDate == \A s \in Schedules : done[s] + drafts[s] <= 1

\* notifications.py, in every e-mail: "Retrouvez l'historique complet dans
\* Notifications".
MailedIsRecorded == unrecorded = {}
=============================================================================
