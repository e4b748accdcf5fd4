---------------------------- MODULE SchedulerProofs ----------------------------
(***************************************************************************)
(* Proofs of the safety properties of Scheduler, for any schedules,        *)
(* campaigns, workers and processes.                                       *)
(***************************************************************************)
EXTENDS Scheduler, TLAPS

(***************************************************************************)
(* Types                                                                   *)
(***************************************************************************)
LEMMA MoreType ==
  ASSUME NEW count \in [Schedules -> Counts], NEW set
  PROVE  More(count, set) \in [Schedules -> Counts]
  BY SchedulerAssumption DEF More, Counts

LEMMA RunsType == \A k \in Tickers, s \in Schedules : Runs(k, s) \in Outcomes
  BY DEF Runs, Outcomes

LEMMA TypeInductive == TypeOK /\ [Next]_vars => TypeOK'
<1> SUFFICES ASSUME TypeOK, [Next]_vars PROVE TypeOK'
  OBVIOUS
<1> USE SchedulerAssumption DEF schedules, counts, requests, ticks, Counts
<1>1. ASSUME NEW a \in Audits, Complete(a) PROVE TypeOK'
  BY <1>1 DEF Complete, TypeOK
<1>2. ASSUME NEW a \in Audits, Delete(a) PROVE TypeOK'
  BY <1>2 DEF Delete, TypeOK
<1>3. ASSUME NEW a \in Audits, Deposit(a) PROVE TypeOK'
  BY <1>3 DEF Deposit, TypeOK
<1>4. ASSUME NEW s \in Schedules, Elapse(s) PROVE TypeOK'
  BY <1>4 DEF Elapse, TypeOK
<1>5. ASSUME NEW w \in Workers, NEW a \in Audits,
             NEW request \in {"schedule", "cancel"}, Load(w, a, request)
      PROVE  TypeOK'
  BY <1>5 DEF Load, TypeOK
<1>6. ASSUME NEW w \in Workers, Insert(w) PROVE TypeOK'
  BY <1>6 DEF Insert, Idle, TypeOK
<1>7. ASSUME NEW w \in Workers, Update(w) PROVE TypeOK'
  BY <1>7 DEF Update, Idle, TypeOK
<1>8. ASSUME NEW w \in Workers, Cancel(w) PROVE TypeOK'
  BY <1>8 DEF Cancel, Idle, TypeOK
<1>9. ASSUME NEW w \in Workers, Refuse(w) PROVE TypeOK'
  BY <1>9 DEF Refuse, Idle, TypeOK
<1>10. ASSUME NEW k \in Tickers, TickLock(k) PROVE TypeOK'
  BY <1>10 DEF TickLock, TypeOK
<1>11. ASSUME NEW k \in Tickers, TickList(k) PROVE TypeOK'
  BY <1>11 DEF TickList, TypeOK
<1>12. ASSUME NEW k \in Tickers, NEW s \in Schedules, TickRun(k, s) PROVE TypeOK'
  BY <1>12, RunsType DEF TickRun, TypeOK
<1>13. ASSUME NEW k \in Tickers, TickPurge(k) PROVE TypeOK'
  BY <1>13 DEF TickPurge, TypeOK
<1>14. ASSUME NEW k \in Tickers, TickCommit(k) PROVE TypeOK'
  BY <1>14, MoreType DEF TickCommit, TickEnd, NoPend, TypeOK
<1>15. ASSUME NEW k \in Tickers, TickAbort(k) PROVE TypeOK'
  BY <1>15 DEF TickAbort, TickEnd, With, NoPend, TypeOK
<1>16. CASE UNCHANGED vars
  BY <1>16 DEF vars, TypeOK
<1> QED
  BY <1>1, <1>2, <1>3, <1>4, <1>5, <1>6, <1>7, <1>8, <1>9, <1>10, <1>11, <1>12,
     <1>13, <1>14, <1>15, <1>16 DEF Next, Tick

LEMMA TypeInit == Init => TypeOK
<1> SUFFICES ASSUME Init PROVE TypeOK
  OBVIOUS
<1> USE SchedulerAssumption DEF Counts
<1>1. /\ status \in [Audits -> {"none", "completed", "deleted"}]
      /\ readable \in [Audits -> BOOLEAN]
      /\ exists \subseteq Schedules
      /\ source \in [Schedules -> Audits \union {NoAudit}]
      /\ active \in [Schedules -> BOOLEAN] /\ due \in [Schedules -> BOOLEAN]
  BY DEF Init
<1>2. /\ done \in [Schedules -> Counts] /\ drafts \in [Schedules -> Counts]
      /\ unrecorded \subseteq Schedules
  BY DEF Init
<1>3. /\ pc \in [Workers -> {"idle", "schedule", "cancel"}]
      /\ on \in [Workers -> Audits]
      /\ target \in [Workers -> Schedules \union {NoSchedule}]
      /\ was \in [Workers -> BOOLEAN]
  BY DEF Init
<1>4. /\ lock \in Tickers \union {Nobody}
      /\ phase \in [Tickers -> {"idle", "list", "run", "commit"}]
      /\ todo \in [Tickers -> SUBSET Schedules]
      /\ listed \in [Tickers -> [Schedules -> Audits \union {NoAudit}]]
      /\ pend \in [Tickers -> [Schedules -> Outcomes \union {"none"}]]
  BY DEF Init, NoPend
<1> QED
  BY <1>1, <1>2, <1>3, <1>4 DEF TypeOK

\* Every variable of the model keeps its type.
THEOREM TypeCorrect == Spec => []TypeOK
<1> QED
  BY TypeInit, TypeInductive, PTL DEF Spec

(***************************************************************************)
(* One tick at a time, one run per due date                                *)
(***************************************************************************)
\* A tick under way holds the lock; before it lists anything it owes nothing.
LockInv ==
  \A k \in Tickers :
    /\ phase[k] # "idle" => lock = k
    /\ phase[k] \in {"idle", "list"} => todo[k] = {} /\ pend[k] = NoPend

\* What is due, or about to be run or committed, was not served yet.
ServeInv ==
  \A s \in Schedules :
    /\ done[s] <= 1
    /\ due[s] => done[s] = 0
    /\ \A k \in Tickers : s \in todo[k] \/ pend[k][s] = "done" => done[s] = 0

LEMMA LockInductive == TypeOK /\ LockInv /\ [Next]_vars => LockInv'
<1> SUFFICES ASSUME TypeOK, LockInv, [Next]_vars PROVE LockInv'
  OBVIOUS
<1> USE SchedulerAssumption DEF schedules, counts, requests, ticks
<1>1. CASE UNCHANGED ticks
  BY <1>1 DEF LockInv
<1>2. ASSUME NEW k \in Tickers, TickLock(k) PROVE LockInv'
  BY <1>2 DEF TickLock, LockInv, TypeOK
<1>3. ASSUME NEW k \in Tickers, TickList(k) PROVE LockInv'
  BY <1>3 DEF TickList, LockInv, TypeOK
<1>4. ASSUME NEW k \in Tickers, NEW s \in Schedules, TickRun(k, s) PROVE LockInv'
  BY <1>4 DEF TickRun, LockInv, TypeOK
<1>5. ASSUME NEW k \in Tickers, TickPurge(k) PROVE LockInv'
  BY <1>5 DEF TickPurge, LockInv, TypeOK
<1>6. ASSUME NEW k \in Tickers, phase[k] # "idle", TickEnd(k) PROVE LockInv'
  BY <1>6 DEF TickEnd, LockInv, TypeOK
<1> QED
  BY <1>1, <1>2, <1>3, <1>4, <1>5, <1>6
     DEF Next, Tick, Complete, Delete, Deposit, Elapse, Load, Insert, Update, Cancel,
         Refuse, TickCommit, TickAbort, vars

LEMMA MoreServed ==
  ASSUME NEW count \in [Schedules -> Counts], NEW set, NEW s \in Schedules
  PROVE  /\ s \notin set => More(count, set)[s] = count[s]
         /\ count[s] = 0 => More(count, set)[s] <= 1
  BY SchedulerAssumption DEF More, Counts

LEMMA ServeInductive == TypeOK /\ LockInv /\ ServeInv /\ [Next]_vars => ServeInv'
<1> SUFFICES ASSUME TypeOK, LockInv, ServeInv, [Next]_vars PROVE ServeInv'
  OBVIOUS
<1> USE SchedulerAssumption DEF schedules, counts, requests, ticks
<1>1. CASE UNCHANGED <<due, done, ticks>>
  BY <1>1 DEF ServeInv
<1>2. ASSUME NEW s \in Schedules, Elapse(s) PROVE ServeInv'
  BY <1>2 DEF Elapse, ServeInv, TypeOK
<1>3. ASSUME NEW w \in Workers, Update(w) PROVE ServeInv'
  BY <1>3 DEF Update, ServeInv, TypeOK
<1>4. ASSUME NEW k \in Tickers, TickLock(k) PROVE ServeInv'
  BY <1>4 DEF TickLock, ServeInv
<1>5. ASSUME NEW k \in Tickers, TickList(k) PROVE ServeInv'
  BY <1>5 DEF TickList, ServeInv, TypeOK
<1>6. ASSUME NEW k \in Tickers, NEW s \in Schedules, TickRun(k, s) PROVE ServeInv'
  BY <1>6 DEF TickRun, ServeInv, TypeOK
<1>7. ASSUME NEW k \in Tickers, TickPurge(k) PROVE ServeInv'
  BY <1>7 DEF TickPurge, ServeInv
<1>8. ASSUME NEW k \in Tickers, TickCommit(k) PROVE ServeInv'
  <2>1. \A j \in Tickers \ {k} : todo[j] = {} /\ pend[j] = NoPend
    BY <1>8 DEF TickCommit, LockInv, TypeOK
  <2>2. \A j \in Tickers, s \in Schedules :
          s \notin todo'[j] /\ pend'[j][s] # "done"
    BY <1>8, <2>1 DEF TickCommit, TickEnd, NoPend, TypeOK
  <2>3. ASSUME NEW s \in Schedules
        PROVE  done'[s] <= 1 /\ (due'[s] => done'[s] = 0)
    <3>1. CASE pend[k][s] = "done"
      <4>1. done[s] = 0
        BY <3>1 DEF ServeInv
      <4> QED
        BY <1>8, <3>1, <4>1, MoreServed DEF TickCommit, TypeOK
    <3>2. CASE pend[k][s] # "done"
      <4>1. done'[s] = done[s]
        <5>1. s \notin With(k, "done")
          BY <3>2 DEF With
        <5>2. done' = More(done, With(k, "done")) /\ done \in [Schedules -> Counts]
          BY <1>8 DEF TickCommit, TypeOK
        <5> QED
          BY <5>1, <5>2, MoreServed
      <4> QED
        BY <1>8, <4>1 DEF TickCommit, ServeInv, TypeOK
    <3> QED
      BY <3>1, <3>2
  <2> QED
    BY <2>2, <2>3 DEF ServeInv
<1>9. ASSUME NEW k \in Tickers, TickAbort(k) PROVE ServeInv'
  BY <1>9 DEF TickAbort, TickEnd, NoPend, ServeInv, TypeOK
<1> QED
  BY <1>1, <1>2, <1>3, <1>4, <1>5, <1>6, <1>7, <1>8, <1>9
     DEF Next, Tick, Complete, Delete, Deposit, Load, Insert, Cancel, Refuse, Idle, vars

LEMMA ServeInit == Init => LockInv /\ ServeInv
  BY SchedulerAssumption DEF Init, LockInv, ServeInv, NoPend

\* However many processes poll, whatever is rolled back and whatever clients
\* change meanwhile, a due date is served at most once.
THEOREM DatesServedOnce == Spec => []ServedOnce
<1>1. ServeInv => ServedOnce
  BY DEF ServeInv, ServedOnce
<1> QED
  BY <1>1, TypeInit, TypeInductive, LockInductive, ServeInductive, ServeInit, PTL
     DEF Spec

(***************************************************************************)
(* Schedules that are switched off                                         *)
(***************************************************************************)
\* Commits of ticks and cancellations only ever switch a schedule off.
LEMMA CancelledStep ==
  TypeOK /\ [Next]_vars =>
    [\A s \in exists :
       ~active[s] /\ active'[s] => \E w \in Workers : Update(w) /\ target[w] = s]_vars
<1> SUFFICES ASSUME TypeOK, Next, NEW s \in exists, ~active[s], active'[s]
             PROVE  \E w \in Workers : Update(w) /\ target[w] = s
  OBVIOUS
<1> USE SchedulerAssumption DEF schedules, counts, requests, ticks
<1>0. s \in Schedules
  BY DEF TypeOK
<1>1. ~UNCHANGED active
  OBVIOUS
<1>2. ASSUME NEW w \in Workers, Insert(w) PROVE FALSE
  BY <1>0, <1>2 DEF Insert, TypeOK
<1>3. ASSUME NEW w \in Workers, Cancel(w) PROVE FALSE
  BY <1>0, <1>3 DEF Cancel, TypeOK
<1>4. ASSUME NEW k \in Tickers, TickCommit(k) PROVE FALSE
  BY <1>0, <1>4 DEF TickCommit, TypeOK
<1>5. ASSUME NEW w \in Workers, Update(w) PROVE target[w] = s
  BY <1>0, <1>5 DEF Update, TypeOK
<1> QED
  BY <1>1, <1>2, <1>3, <1>4, <1>5
     DEF Next, Tick, Complete, Delete, Deposit, Elapse, Load, Refuse, TickLock, TickList,
         TickRun, TickPurge, TickAbort

\* Only a client switches a cancelled schedule on again, never a tick that
\* listed it while it was active.
THEOREM CancellationsHold == Spec => CancelledStays
<1> QED
  BY TypeInit, TypeInductive, CancelledStep, PTL DEF Spec, CancelledStays

\* The campaign of a schedule is in the database; a schedule that a tick has
\* listed keeps the campaign listed with it, or loses it for good.
SourceInv ==
  /\ \A s \in Schedules : source[s] # NoAudit => status[source[s]] = "completed"
  /\ \A k \in Tickers, s \in Schedules :
       /\ s \in todo[k] => s \in exists /\ source[s] \in {listed[k][s], NoAudit}
       /\ pend[k][s] = "disabled" => s \in exists /\ source[s] = NoAudit

LEMMA SourceInductive == TypeOK /\ SourceInv /\ [Next]_vars => SourceInv'
<1> SUFFICES ASSUME TypeOK, SourceInv, [Next]_vars PROVE SourceInv'
  OBVIOUS
<1> USE SchedulerAssumption DEF schedules, counts, requests, ticks
<1>1. CASE UNCHANGED <<status, exists, source, ticks>>
  BY <1>1 DEF SourceInv
<1>2. ASSUME NEW a \in Audits, Complete(a) PROVE SourceInv'
  BY <1>2 DEF Complete, SourceInv, TypeOK
<1>3. ASSUME NEW a \in Audits, Delete(a) PROVE SourceInv'
  BY <1>3 DEF Delete, SourceInv, TypeOK
<1>4. ASSUME NEW w \in Workers, Insert(w) PROVE SourceInv'
  BY <1>4 DEF Insert, Idle, SourceInv, TypeOK
<1>5. ASSUME NEW k \in Tickers, TickLock(k) PROVE SourceInv'
  BY <1>5 DEF TickLock, SourceInv
<1>6. ASSUME NEW k \in Tickers, TickList(k) PROVE SourceInv'
  BY <1>6 DEF TickList, SourceInv, TypeOK
<1>7. ASSUME NEW k \in Tickers, NEW s \in Schedules, TickRun(k, s) PROVE SourceInv'
  <2>1. Runs(k, s) = "disabled" => source[s] = NoAudit
    BY <1>7 DEF TickRun, Runs, SourceInv, TypeOK
  <2> QED
    BY <1>7, <2>1 DEF TickRun, SourceInv, TypeOK
<1>8. ASSUME NEW k \in Tickers, TickPurge(k) PROVE SourceInv'
  BY <1>8 DEF TickPurge, SourceInv
<1>9. ASSUME NEW k \in Tickers, TickEnd(k) PROVE SourceInv'
  BY <1>9 DEF TickEnd, NoPend, SourceInv, TypeOK
<1> QED
  BY <1>1, <1>2, <1>3, <1>4, <1>5, <1>6, <1>7, <1>8, <1>9
     DEF Next, Tick, Deposit, Elapse, Load, Update, Cancel, Refuse, Idle, TickCommit,
         TickAbort, vars

LEMMA SourceInit == Init => SourceInv
  BY DEF Init, SourceInv, NoPend

LEMMA DisabledStep ==
  TypeOK /\ SourceInv /\ [Next]_vars =>
    [\A s \in exists :
       active[s] /\ ~active'[s] =>
         source[s] = NoAudit \/ \E w \in Workers : Cancel(w) /\ target[w] = s]_vars
<1> SUFFICES ASSUME TypeOK, SourceInv, Next, NEW s \in exists, active[s], ~active'[s]
             PROVE  source[s] = NoAudit \/ \E w \in Workers : Cancel(w) /\ target[w] = s
  OBVIOUS
<1> USE SchedulerAssumption DEF schedules, counts, requests, ticks
<1>0. s \in Schedules
  BY DEF TypeOK
<1>1. ~UNCHANGED active
  OBVIOUS
<1>2. ASSUME NEW w \in Workers, Insert(w) PROVE FALSE
  BY <1>0, <1>2 DEF Insert, TypeOK
<1>3. ASSUME NEW w \in Workers, Update(w) PROVE FALSE
  BY <1>0, <1>3 DEF Update, TypeOK
<1>4. ASSUME NEW k \in Tickers, TickCommit(k) PROVE source[s] = NoAudit
  BY <1>0, <1>4 DEF TickCommit, SourceInv, TypeOK
<1>5. ASSUME NEW w \in Workers, Cancel(w) PROVE target[w] = s
  BY <1>0, <1>5 DEF Cancel, TypeOK
<1> QED
  BY <1>1, <1>2, <1>3, <1>4, <1>5
     DEF Next, Tick, Complete, Delete, Deposit, Elapse, Load, Refuse, TickLock, TickList,
         TickRun, TickPurge, TickAbort

\* A tick disables a schedule only once its campaign is gone for good, although
\* it looks at schedules and campaigns at different times.
THEOREM DisabledForGood == Spec => DisabledWithoutSource
<1> QED
  BY TypeInit, TypeInductive, SourceInit, SourceInductive, DisabledStep, PTL
     DEF Spec, DisabledWithoutSource

(***************************************************************************)
(* Drafts                                                                  *)
(***************************************************************************)
\* The documents of every campaign can be read: no purge took them.
AllReadable == \A a \in Audits : readable[a]

\* No clone is left as a draft, and no tick is about to leave one.
DraftInv ==
  \A s \in Schedules : drafts[s] = 0 /\ \A k \in Tickers : pend[k][s] # "draft"

LEMMA DraftInductive ==
  TypeOK /\ DraftInv /\ AllReadable /\ [Next]_vars => DraftInv'
<1> SUFFICES ASSUME TypeOK, DraftInv, AllReadable, [Next]_vars PROVE DraftInv'
  OBVIOUS
<1> USE SchedulerAssumption DEF schedules, counts, requests, ticks
<1>1. CASE UNCHANGED <<drafts, pend>>
  BY <1>1 DEF DraftInv
<1>2. ASSUME NEW s \in Schedules, Elapse(s) PROVE DraftInv'
  BY <1>2 DEF Elapse, DraftInv, TypeOK
<1>3. ASSUME NEW k \in Tickers, NEW s \in Schedules, TickRun(k, s) PROVE DraftInv'
  <2>1. Runs(k, s) # "draft"
    BY DEF Runs, AllReadable, TypeOK
  <2> QED
    BY <1>3, <2>1 DEF TickRun, DraftInv, TypeOK
<1>4. ASSUME NEW k \in Tickers, TickCommit(k) PROVE DraftInv'
  <2>1. With(k, "draft") = {}
    BY DEF With, DraftInv
  <2>2. \A s \in Schedules : drafts'[s] = drafts[s]
    <3>1. drafts' = More(drafts, With(k, "draft")) /\ drafts \in [Schedules -> Counts]
      BY <1>4 DEF TickCommit, TypeOK
    <3> QED
      BY <2>1, <3>1, MoreServed
  <2> QED
    BY <1>4, <2>2 DEF TickCommit, TickEnd, NoPend, DraftInv, TypeOK
<1>5. ASSUME NEW k \in Tickers, TickAbort(k) PROVE DraftInv'
  BY <1>5 DEF TickAbort, TickEnd, NoPend, DraftInv, TypeOK
<1> QED
  BY <1>1, <1>2, <1>3, <1>4, <1>5
     DEF Next, Tick, Complete, Delete, Deposit, Load, Insert, Update, Cancel, Refuse, Idle,
         TickLock, TickList, TickPurge, vars

\* As long as no purge takes the documents of a campaign, a due date makes one
\* campaign and no draft, whatever is rolled back or rescheduled.
THEOREM OneCampaignReadable == Spec /\ []AllReadable => []OneCampaignPerDate
<1>1. Init => DraftInv
  BY DEF Init, DraftInv, NoPend
<1>2. TypeOK /\ ServedOnce /\ DraftInv => OneCampaignPerDate
  BY SchedulerAssumption DEF ServedOnce, DraftInv, OneCampaignPerDate, TypeOK, Counts
<1>3. Spec => []TypeOK
  BY TypeCorrect
<1> QED
  BY <1>1, <1>2, <1>3, DatesServedOnce, DraftInductive, PTL DEF Spec

(***************************************************************************)
(* Requests served one at a time                                           *)
(***************************************************************************)
Serial == \A v, w \in Workers : v = w

\* A campaign has one schedule at most, active or not, and none while the
\* request that will insert one is under way.
SoleInv ==
  /\ \A s, t \in exists : source[s] = source[t] /\ source[s] # NoAudit => s = t
  /\ \A w \in Workers, s \in exists :
       pc[w] = "schedule" /\ target[w] = NoSchedule => source[s] # on[w]

LEMMA SoleInductive == Serial /\ TypeOK /\ SoleInv /\ [Next]_vars => SoleInv'
<1> SUFFICES ASSUME Serial, TypeOK, SoleInv, [Next]_vars PROVE SoleInv'
  OBVIOUS
<1> USE SchedulerAssumption DEF schedules, counts, requests, ticks
<1>1. CASE UNCHANGED <<exists, source, pc, on, target>>
  BY <1>1 DEF SoleInv
<1>2. ASSUME NEW a \in Audits, Delete(a) PROVE SoleInv'
  BY <1>2 DEF Delete, SoleInv, TypeOK
<1>3. ASSUME NEW w \in Workers, NEW a \in Audits,
             NEW request \in {"schedule", "cancel"}, Load(w, a, request)
      PROVE  SoleInv'
  <2>1. PICK s \in IF {t \in exists : source[t] = a} = {} THEN {NoSchedule}
                   ELSE {t \in exists : source[t] = a} :
          target' = [target EXCEPT ![w] = s]
    BY <1>3 DEF Load
  <2>2. s = NoSchedule => \A t \in exists : source[t] # a
    BY DEF TypeOK
  <2> QED
    BY <1>3, <2>1, <2>2 DEF Load, SoleInv, TypeOK
<1>4. ASSUME NEW w \in Workers, Insert(w) PROVE SoleInv'
  <2>1. PICK s \in Schedules \ exists : /\ exists' = exists \union {s}
                                        /\ source' = [source EXCEPT ![s] = on[w]]
    BY <1>4 DEF Insert
  <2>2. \A t \in exists : source[t] # on[w]
    BY <1>4 DEF Insert, SoleInv
  <2>3. \A v \in Workers : pc'[v] = "idle"
    BY <1>4 DEF Insert, Idle, TypeOK, Serial
  <2> QED
    BY <2>1, <2>2, <2>3 DEF SoleInv, TypeOK
<1>5. ASSUME NEW w \in Workers, Idle(w), UNCHANGED <<exists, source>> PROVE SoleInv'
  BY <1>5 DEF Idle, SoleInv, TypeOK
<1> QED
  BY <1>1, <1>2, <1>3, <1>4, <1>5
     DEF Next, Tick, Complete, Deposit, Elapse, Update, Cancel, Refuse, TickLock, TickList,
         TickRun, TickPurge, TickEnd, TickCommit, TickAbort, vars

\* Requests served one at a time leave a campaign with one schedule at most: the
\* second that create_schedule can make comes from two requests at once, never
\* from a cancellation, a deletion or a tick.
THEOREM OneScheduleSerial == ASSUME Serial PROVE Spec => []OneScheduleEach
<1>1. Init => SoleInv
  BY DEF Init, SoleInv
<1>2. SoleInv => OneScheduleEach
  BY DEF SoleInv, OneScheduleEach
<1> QED
  BY <1>1, <1>2, TypeInit, TypeInductive, SoleInductive, PTL DEF Spec
===============================================================================
