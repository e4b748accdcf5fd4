------------------------------- MODULE Ingestion -------------------------------
(***************************************************************************)
(* The versions of the regulations (ingestion/, the regulatory watch of    *)
(* services/scheduler.py): a text is fetched, compared by its digest with  *)
(* the version in force and, when it differs, stored as a new version in   *)
(* place of that one.                                                      *)
(*                                                                         *)
(* Two programs ingest: the watch, in the tick of the scheduler that holds *)
(* the advisory lock, and the command line.  Each works in one transaction *)
(* for all its frameworks; a statement reads what is committed when it     *)
(* starts, an UPDATE or INSERT waits for the transaction that holds the    *)
(* row or the unique key.  A text is a number; parsing is left out.        *)
(***************************************************************************)
EXTENDS Integers, Sequences, FiniteSets, SequencesExt

CONSTANTS
  Frameworks,  \* codes of the frameworks ingested
  MaxText,     \* bound: number of texts EUR-Lex publishes for a framework
  MaxCli,      \* bound: number of runs of the command line
  MaxFailures  \* bound: failures of downloads, of the embedder and of programs

ASSUME IngestionAssumption ==
  /\ IsFiniteSet(Frameworks) /\ MaxText \in Nat \ {0} /\ MaxCli \in Nat /\ MaxFailures \in Nat

VARIABLES
  source,      \* text EUR-Lex serves of each framework
  versions,    \* committed FrameworkVersion rows of each framework, oldest first
  checked,     \* Framework.watch_checked_at is recent
  told,        \* texts whose change is among the notifications of the organizations
  mailed,      \* texts whose change was e-mailed to their members
  pc,          \* statement each program is at
  todo,        \* frameworks each program still has to ingest
  job,         \* what it knows of the one under way
  staged,      \* the version it has flushed for each framework, or NoVersion
  tick,        \* what the watch notes to commit: frameworks seen, texts told
  clis,        \* history: runs of the command line
  failures,    \* history: failures so far
  overlapped   \* history: frameworks two programs ingested at the same time

vars == <<source, versions, checked, told, mailed, pc, todo, job, staged, tick, clis, failures,
          overlapped>>

Programs == {"watch", "cli"}
Other(p) == IF p = "watch" THEN "cli" ELSE "watch"
NoVersion == [base |-> 0, label |-> -1, text |-> 0, embedded |-> FALSE]
NoJob == [fw |-> "none", text |-> 0, base |-> 0, label |-> 0, force |-> FALSE]
NoTick == [seen |-> {}, told |-> {}]

Version == [label : Nat, text : 1..MaxText, current : BOOLEAN, embedded : BOOLEAN]
Steps == {"idle", "fetch", "read", "labels", "update", "insert", "embed", "commit"}
Staged == [base : Nat, label : Nat \cup {-1}, text : 0..MaxText, embedded : BOOLEAN]
Job == [fw : Frameworks \cup {"none"}, text : 0..MaxText, base : Nat, label : Nat, force : BOOLEAN]
InForce(f) == {i \in DOMAIN versions[f] : versions[f][i].current}
Labels(f) == {versions[f][i].label : i \in DOMAIN versions[f]}
Flushed(p, f) == staged[p][f] # NoVersion
\* p has read the version in force of f and not ended since.
Ingesting(p, f) ==
  \/ Flushed(p, f)
  \/ job[p].fw = f /\ pc[p] \in {"labels", "update", "insert", "embed"}

Bounds == <<clis, failures, overlapped>>
Fails == failures < MaxFailures /\ failures' = failures + 1
\* What outlives the transaction of a program.
Lasting == <<source, versions, checked, told, mailed>>

\* The transaction of p ends; nothing it flushed is kept.
End(p) ==
  /\ pc' = [pc EXCEPT ![p] = "idle"]
  /\ todo' = [todo EXCEPT ![p] = {}]
  /\ job' = [job EXCEPT ![p] = NoJob]
  /\ staged' = [staged EXCEPT ![p] = [f \in Frameworks |-> NoVersion]]
  /\ tick' = IF p = "watch" THEN NoTick ELSE tick

\* p is done with the framework under way; the watch notes that it checked it.
NextFramework(p, news) ==
  /\ pc' = [pc EXCEPT ![p] = IF todo[p] = {job[p].fw} THEN "commit" ELSE "fetch"]
  /\ todo' = [todo EXCEPT ![p] = @ \ {job[p].fw}]
  /\ job' = [job EXCEPT ![p] = [NoJob EXCEPT !.force = job[p].force]]
  /\ tick' = IF p = "watch"
             THEN [seen |-> tick.seen \cup {job[p].fw}, told |-> tick.told \cup news]
             ELSE tick

\* notify() writes to the members at once, inside the transaction of the tick.
Mail(p, news) == mailed' = IF p = "watch" THEN mailed \cup news ELSE mailed

(***************************************************************************)
(* The steps of an ingestion                                               *)
(***************************************************************************)
\* A tick of the scheduler with frameworks to check; a row exists once a
\* version of the framework does.
TickStart ==
  LET due == {f \in Frameworks : versions[f] # <<>> /\ ~checked[f]} IN
  /\ pc["watch"] = "idle" /\ due # {}
  /\ pc' = [pc EXCEPT !["watch"] = "fetch"]
  /\ todo' = [todo EXCEPT !["watch"] = due]
  /\ UNCHANGED <<Lasting, job, staged, tick, Bounds>>

\* cli.main, with --only and --force or without
CliStart(codes, force) ==
  /\ pc["cli"] = "idle" /\ clis < MaxCli
  /\ pc' = [pc EXCEPT !["cli"] = "fetch"]
  /\ todo' = [todo EXCEPT !["cli"] = codes]
  /\ job' = [job EXCEPT !["cli"] = [NoJob EXCEPT !.force = force]]
  /\ clis' = clis + 1
  /\ UNCHANGED <<Lasting, staged, tick, failures, overlapped>>

\* The connector has the text.
Fetch(p, f) ==
  /\ pc[p] = "fetch" /\ f \in todo[p]
  /\ pc' = [pc EXCEPT ![p] = "read"]
  /\ job' = [job EXCEPT ![p].fw = f, ![p].text = source[f]]
  /\ UNCHANGED <<Lasting, todo, staged, tick, Bounds>>

\* EUR-Lex answers 202 four times or an error, or no article is found: the
\* report says "failed" and the next framework is taken.
FetchFails(p, f) ==
  /\ pc[p] = "fetch" /\ f \in todo[p] /\ Fails
  /\ pc' = [pc EXCEPT ![p] = IF todo[p] = {f} THEN "commit" ELSE "fetch"]
  /\ todo' = [todo EXCEPT ![p] = @ \ {f}]
  /\ tick' = IF p = "watch" THEN [tick EXCEPT !.seen = @ \cup {f}] ELSE tick
  /\ UNCHANGED <<Lasting, job, staged, clis, overlapped>>

\* The SELECT of the version in force, one of them when there are several.
Reads(p, base) ==
  LET f == job[p].fw IN
  /\ pc[p] = "read"
  /\ IF InForce(f) = {} THEN base = 0 ELSE base \in InForce(f)

\* Variant: a version in force is enough.
UnchangedInForce(p, base) == base # 0 /\ ~job[p].force
Unchanged(p, base) ==
  base # 0 /\ versions[job[p].fw][base].text = job[p].text /\ ~job[p].force

ReadUnchanged(p, base) ==
  /\ Reads(p, base) /\ Unchanged(p, base)
  /\ NextFramework(p, {})
  /\ UNCHANGED <<Lasting, staged, Bounds>>

ReadChanged(p, base) ==
  /\ Reads(p, base) /\ ~Unchanged(p, base)
  /\ job' = [job EXCEPT ![p].base = base]
  /\ pc' = [pc EXCEPT ![p] = IF base = 0 THEN "insert" ELSE "labels"]
  /\ overlapped' = IF Ingesting(Other(p), job[p].fw) THEN overlapped \cup {job[p].fw} ELSE overlapped
  /\ UNCHANGED <<Lasting, todo, staged, tick, clis, failures>>

\* framework.versions is loaded and the first label that is free taken; nothing
\* is flushed before the new version is (autoflush is off).
ReadLabels(p) ==
  LET taken == Labels(job[p].fw) IN
  /\ pc[p] = "labels"
  /\ job' = [job EXCEPT ![p].label = CHOOSE n \in 0..Cardinality(taken) :
                                       n \notin taken /\ \A k \in 0..n - 1 : k \in taken]
  /\ pc' = [pc EXCEPT ![p] = "update"]
  /\ UNCHANGED <<Lasting, todo, staged, tick, Bounds>>

\* Variant: the old version is taken out of force in a transaction of its own.
UpdateAlone(p) ==
  LET f == job[p].fw IN
  /\ pc[p] = "update" /\ staged[Other(p)][f].base # job[p].base
  /\ versions' = [versions EXCEPT ![f][job[p].base].current = FALSE]
  /\ staged' = [staged EXCEPT ![p][f] = [NoVersion EXCEPT !.base = job[p].base]]
  /\ pc' = [pc EXCEPT ![p] = "insert"]
  /\ UNCHANGED <<source, checked, told, mailed, todo, job, tick, Bounds>>

\* The flush updates is_current of the version read, then inserts.
Update(p) ==
  LET f == job[p].fw IN
  /\ pc[p] = "update" /\ staged[Other(p)][f].base # job[p].base
  /\ staged' = [staged EXCEPT ![p][f] = [NoVersion EXCEPT !.base = job[p].base]]
  /\ pc' = [pc EXCEPT ![p] = "insert"]
  /\ UNCHANGED <<Lasting, todo, job, tick, Bounds>>

KeyFree(p) ==
  /\ pc[p] = "insert"
  /\ staged[Other(p)][job[p].fw].label # job[p].label

\* The new version and its requirements are flushed, in force.
Insert(p) ==
  LET f == job[p].fw IN
  /\ KeyFree(p) /\ job[p].label \notin Labels(f)
  /\ staged' = [staged EXCEPT ![p][f] = [base |-> job[p].base, label |-> job[p].label,
                                          text |-> job[p].text, embedded |-> FALSE]]
  /\ pc' = [pc EXCEPT ![p] = "embed"]
  /\ UNCHANGED <<Lasting, todo, job, tick, Bounds>>

\* A unique key taken meanwhile leaves a session that can only be rolled back:
\* the tick, or the command, fails as a whole.
InsertFails(p) ==
  /\ KeyFree(p) /\ job[p].label \in Labels(job[p].fw)
  /\ End(p)
  /\ UNCHANGED <<Lasting, Bounds>>

\* The change to tell of the framework under way: the report says "updated"
\* when there was a version before.
News(p) == IF job[p].base = 0 THEN {} ELSE {<<job[p].fw, job[p].text>>}

\* Variant: the notification is committed when it is made.
EmbedTells(p) ==
  /\ pc[p] = "embed"
  /\ staged' = [staged EXCEPT ![p][job[p].fw].embedded = TRUE]
  /\ NextFramework(p, {}) /\ Mail(p, News(p))
  /\ told' = IF p = "watch" THEN told \cup News(p) ELSE told
  /\ UNCHANGED <<source, versions, checked, Bounds>>

\* The requirements have their embeddings; the watch notifies the organizations
\* that have a campaign on the framework, and their members have the e-mail
\* before the notification is committed.
Embed(p) ==
  /\ pc[p] = "embed"
  /\ staged' = [staged EXCEPT ![p][job[p].fw].embedded = TRUE]
  /\ NextFramework(p, News(p)) /\ Mail(p, News(p))
  /\ UNCHANGED <<source, versions, checked, told, Bounds>>

\* The embedder raises after the flush.  The watch catches it and goes on with
\* the same session; the command ends.
EmbedFails(p) ==
  /\ pc[p] = "embed" /\ Fails
  /\ IF p = "watch" THEN NextFramework(p, {}) /\ UNCHANGED staged ELSE End(p)
  /\ UNCHANGED <<Lasting, clis, overlapped>>

\* Variant: the version in force before stays so.
CommittedBeside(p, f) ==
  LET s == staged[p][f] IN
  IF Flushed(p, f)
  THEN Append(versions[f], [label |-> s.label, text |-> s.text, current |-> TRUE, embedded |-> s.embedded])
  ELSE versions[f]

\* The rows of f after the commit of p.
Committed(p, f) ==
  LET s == staged[p][f]
      rest == [i \in DOMAIN versions[f] |->
                 IF i = s.base THEN [versions[f][i] EXCEPT !.current = FALSE] ELSE versions[f][i]]
  IN IF Flushed(p, f)
     THEN Append(rest, [label |-> s.label, text |-> s.text, current |-> TRUE, embedded |-> s.embedded])
     ELSE rest

Commit(p) ==
  /\ pc[p] = "commit"
  /\ versions' = [f \in Frameworks |-> Committed(p, f)]
  /\ checked' = IF p = "watch" THEN [f \in Frameworks |-> checked[f] \/ f \in tick.seen] ELSE checked
  /\ told' = IF p = "watch" THEN told \cup tick.told ELSE told
  /\ End(p)
  /\ UNCHANGED <<source, mailed, Bounds>>

\* The process stops, the commit fails or another part of the tick raises:
\* rolled back; the e-mails are not.
Abort(p) ==
  /\ pc[p] # "idle" /\ Fails
  /\ End(p)
  /\ UNCHANGED <<Lasting, clis, overlapped>>

\* Two programs wait for each other's rows: PostgreSQL ends one transaction.
Waits(p) == \/ pc[p] = "update" /\ staged[Other(p)][job[p].fw].base = job[p].base
            \/ pc[p] = "insert" /\ ~KeyFree(p)
Deadlock(p) ==
  /\ Waits("watch") /\ Waits("cli")
  /\ End(p)
  /\ UNCHANGED <<Lasting, Bounds>>

(***************************************************************************)
(* Outside                                                                 *)
(***************************************************************************)
Publish(f) ==
  /\ source[f] < MaxText
  /\ source' = [source EXCEPT ![f] = @ + 1]
  /\ UNCHANGED <<versions, checked, told, mailed, pc, todo, job, staged, tick, Bounds>>

\* REGULATORY_WATCH_INTERVAL_HOURS pass, for every framework checked so far.
Elapse ==
  /\ \E f \in Frameworks : checked[f]
  /\ checked' = [f \in Frameworks |-> FALSE]
  /\ UNCHANGED <<source, versions, told, mailed, pc, todo, job, staged, tick, Bounds>>

\* Some frameworks have been ingested before.
Init ==
  /\ source = [f \in Frameworks |-> 1]
  /\ \E ingested \in SUBSET Frameworks :
       versions = [f \in Frameworks |->
         IF f \in ingested THEN <<[label |-> 0, text |-> 1, current |-> TRUE, embedded |-> TRUE]>>
                           ELSE <<>>]
  /\ checked = [f \in Frameworks |-> FALSE]
  /\ told = {} /\ mailed = {}
  /\ pc = [p \in Programs |-> "idle"]
  /\ todo = [p \in Programs |-> {}]
  /\ job = [p \in Programs |-> NoJob]
  /\ staged = [p \in Programs |-> [f \in Frameworks |-> NoVersion]]
  /\ tick = NoTick
  /\ clis = 0 /\ failures = 0 /\ overlapped = {}

Proceed(p) ==
  \/ \E f \in Frameworks : Fetch(p, f)
  \/ \E base \in 0..1 + MaxText + MaxCli : ReadUnchanged(p, base) \/ ReadChanged(p, base)
  \/ ReadLabels(p) \/ Update(p) \/ Insert(p) \/ InsertFails(p) \/ Embed(p) \/ Commit(p)

Next ==
  \/ TickStart
  \/ \E codes \in SUBSET Frameworks \ {{}}, force \in BOOLEAN : CliStart(codes, force)
  \/ \E p \in Programs : \/ Proceed(p) \/ EmbedFails(p) \/ Abort(p) \/ Deadlock(p)
                         \/ \E f \in Frameworks : FetchFails(p, f)
  \/ \E f \in Frameworks : Publish(f)
  \/ Elapse

Spec == Init /\ [][Next]_vars

\* The scheduler ticks, time passes and a program that runs proceeds; that
\* EUR-Lex and the embedder do not fail for ever is the bound on failures.  Strong
\* fairness: who waits for a row has it before who asks later.
Fairness ==
  /\ WF_vars(TickStart) /\ WF_vars(Elapse)
  /\ \A p \in Programs : SF_vars(Proceed(p)) /\ WF_vars(Deadlock(p))

FairSpec == Spec /\ Fairness

(***************************************************************************)
(* Properties                                                              *)
(***************************************************************************)
TypeOK ==
  /\ source \in [Frameworks -> 1..MaxText]
  /\ versions \in [Frameworks -> Seq(Version)]
  /\ checked \in [Frameworks -> BOOLEAN]
  /\ told \subseteq Frameworks \X (1..MaxText) /\ mailed \subseteq Frameworks \X (1..MaxText)
  /\ pc \in [Programs -> Steps]
  /\ todo \in [Programs -> SUBSET Frameworks]
  /\ job \in [Programs -> Job]
  /\ staged \in [Programs -> [Frameworks -> Staged]]
  /\ tick \in [seen : SUBSET Frameworks, told : SUBSET (Frameworks \X (1..MaxText))]
  /\ clis \in 0..MaxCli /\ failures \in 0..MaxFailures /\ overlapped \subseteq Frameworks

\* Once ingested, a framework has a version in force at every moment, whatever
\* fails in the middle of the switch: no analysis answers that it "n'a pas
\* encore ete ingere".
AlwaysInForce == \A f \in Frameworks : versions[f] # <<>> => InForce(f) # {}

\* Two versions of a framework are in force at once only after the watch and
\* the command line have ingested it at the same time.
OneInForceUnlessOverlapped ==
  \A f \in Frameworks \ overlapped : Cardinality(InForce(f)) <= 1

\* Unqualified, it does not hold: an analysis takes either version.
OneInForce == \A f \in Frameworks : Cardinality(InForce(f)) <= 1

\* A change among the notifications of the application is one the watch has
\* stored, embeddings included: both are committed together, whatever failed
\* before.  E-mails have left by then and are MailedIsTold's.
ToldIsStored ==
  \A t \in told : \E i \in DOMAIN versions[t[1]] :
    versions[t[1]][i].text = t[2] /\ versions[t[1]][i].embedded

\* "Retrouvez l'historique complet dans Notifications", says the e-mail: the
\* change it tells of is there, or is committed there by the tick under way.
\* It does not hold when that tick is rolled back: the members were told of a
\* version that does not exist.
MailedIsTold == \A t \in mailed : t \in told \/ t \in tick.told

\* No version is in force whose requirements have no embedding.
InForceEmbedded ==
  \A f \in Frameworks : \A i \in InForce(f) : versions[f][i].embedded

\* A text published is in force in the end, whatever downloads, embeddings and
\* ticks failed before.
SourceCaughtUp ==
  \A f \in Frameworks :
    versions[f] # <<>> ~> \E i \in InForce(f) : versions[f][i].text = source[f]
=============================================================================
