-------------------------------- MODULE Storage --------------------------------
(***************************************************************************)
(* The deposited documents of one organization: rows of "documents", the   *)
(* text indexed for the search ("document_chunks") and the files           *)
(* (services/documents.py, services/retention.py, audit_engine's           *)
(* index_document, upload_document and delete_audit).                      *)
(*                                                                         *)
(* A file is named by the digest of its content: rows of equal content     *)
(* share it.  Files are written and unlinked at once, rows change at the   *)
(* commit of the request, of the analysis or of the scheduler's tick.      *)
(***************************************************************************)
EXTENDS Naturals, FiniteSets

CONSTANTS
  Documents,  \* identifiers of rows of documents
  Contents,   \* contents of files, that is their digests
  Audits,     \* campaigns
  Workers,    \* threads that serve requests
  NoAudit,    \* a document that is not deposited, or whose campaign is deleted
  MaxRuns     \* bound: analyses ever requested

ASSUME StorageAssumption ==
  /\ NoAudit \notin Audits
  /\ MaxRuns \in Nat

VARIABLES
  (* committed rows and files *)
  campaign,   \* documents.audit_id, NoAudit without a row
  content,    \* documents.sha256, and the storage key made of it
  old,        \* created_at is older than the retention
  purgedAt,   \* content_purged_at: 0 for NULL, else the next analysis then
  text,       \* number of the analysis that wrote its chunks, 0 without chunks
  deleted,    \* campaigns deleted
  retention,  \* document_retention_days IS NOT NULL
  files,      \* contents the storage holds
  (* requests *)
  pc,         \* the statement each worker executes next
  on,         \* the campaign its request is about
  cur,        \* the document it deposits or indexes
  todo,       \* documents its analysis loaded, not purged then, not yet indexed
  held,       \* documents it indexed: their old chunks deleted, new ones inserted
  num,        \* number of its analysis
  nextRun,
  (* the tick of the scheduler *)
  tick,       \* "idle", or "purge" from its SELECT on
  due,        \* documents its purge selected and has not unlinked yet
  purging,    \* documents it unlinked
  doomed,     \* chunks its DELETE saw
  (* history *)
  expired     \* contents of which a document has outlived the retention

rows == <<campaign, content, old, purgedAt, text, deleted, retention>>
requests == <<pc, on, cur, todo, held, num, nextRun>>
ticking == <<tick, due, purging, doomed>>
vars == <<rows, files, requests, ticking, expired>>

Live == {d \in Documents : campaign[d] # NoAudit}
Analysing(w) == pc[w] \in {"read", "chunks"}
Analysed(a) == \E w \in Workers : Analysing(w) /\ on[w] = a

Goto(w, step) == pc' = [pc EXCEPT ![w] = step]
\* Commit or rollback of a request: its session is closed.
Finish(w) ==
  /\ Goto(w, "idle")
  /\ todo' = [todo EXCEPT ![w] = {}]
  /\ held' = [held EXCEPT ![w] = {}]
  /\ UNCHANGED <<on, cur, num, nextRun, ticking, expired>>

\* Commit or rollback of a tick.
FinishTick ==
  /\ tick' = "idle"
  /\ due' = {}
  /\ purging' = {}
  /\ doomed' = [d \in Documents |-> 0]
  /\ UNCHANGED <<files, requests, expired>>

\* Whoever deletes rows of document_chunks keeps the others from deleting them
\* until it commits.
LockedByTick(d) == d \in purging /\ doomed[d] # 0 /\ doomed[d] = text[d]
TickWaits(w) == \E d \in held[w] : LockedByTick(d)

(***************************************************************************)
(* upload_document: save_document, then the row                            *)
(***************************************************************************)
UploadSave(w, a, d, c) ==
  /\ pc[w] = "idle"
  /\ a \notin deleted /\ content[d] = {}
  /\ content' = [content EXCEPT ![d] = {c}]
  /\ files' = files \union {c}
  /\ Goto(w, "insert")
  /\ on' = [on EXCEPT ![w] = a]
  /\ cur' = [cur EXCEPT ![w] = d]
  /\ UNCHANGED <<campaign, old, purgedAt, text, deleted, retention,
                 todo, held, num, nextRun, ticking, expired>>

\* The foreign key refuses a campaign deleted since; the file stays.
UploadCommit(w) ==
  /\ pc[w] = "insert"
  /\ campaign' = IF on[w] \in deleted THEN campaign
                 ELSE [campaign EXCEPT ![cur[w]] = on[w]]
  /\ Finish(w)
  /\ UNCHANGED <<content, old, purgedAt, text, deleted, retention, files>>

(***************************************************************************)
(* run_audit: index_document for every document of the campaign            *)
(***************************************************************************)
\* Variant: documents already purged are indexed like the others.
RunListAll(w, a) ==
  /\ pc[w] = "idle"
  /\ a \notin deleted /\ ~Analysed(a) /\ nextRun <= MaxRuns
  /\ Goto(w, "read")
  /\ on' = [on EXCEPT ![w] = a]
  /\ todo' = [todo EXCEPT ![w] = {d \in Documents : campaign[d] = a}]
  /\ num' = [num EXCEPT ![w] = nextRun]
  /\ nextRun' = nextRun + 1
  /\ UNCHANGED <<rows, files, cur, held, ticking, expired>>

\* The rows are loaded once: content_purged_at is not read again.
RunList(w, a) ==
  /\ pc[w] = "idle"
  /\ a \notin deleted /\ ~Analysed(a) /\ nextRun <= MaxRuns
  /\ Goto(w, "read")
  /\ on' = [on EXCEPT ![w] = a]
  /\ todo' = [todo EXCEPT ![w] = {d \in Documents : campaign[d] = a /\ purgedAt[d] = 0}]
  /\ num' = [num EXCEPT ![w] = nextRun]
  /\ nextRun' = nextRun + 1
  /\ UNCHANGED <<rows, files, cur, held, ticking, expired>>

\* read_document: without its file the analysis can only fail.
RunRead(w, d) ==
  /\ pc[w] = "read"
  /\ d \in todo[w] /\ content[d] \subseteq files
  /\ Goto(w, "chunks")
  /\ cur' = [cur EXCEPT ![w] = d]
  /\ todo' = [todo EXCEPT ![w] = @ \ {d}]
  /\ UNCHANGED <<rows, files, on, held, num, nextRun, ticking, expired>>

RunChunks(w) ==
  /\ pc[w] = "chunks"
  /\ ~LockedByTick(cur[w])
  /\ held' = [held EXCEPT ![w] = @ \union {cur[w]}]
  /\ Goto(w, "read")
  /\ UNCHANGED <<rows, files, on, cur, todo, num, nextRun, ticking, expired>>

\* "completed" and "failed" are both committed, the chunks written so far too.
RunEnd(w) ==
  /\ pc[w] = "read"
  /\ text' = [d \in Documents |-> IF d \in held[w] THEN num[w] ELSE text[d]]
  /\ Finish(w)
  /\ UNCHANGED <<campaign, content, old, purgedAt, deleted, retention, files>>

(***************************************************************************)
(* delete_audit, update_retention and the passing of time                  *)
(***************************************************************************)
\* Variant: the files of the campaign are unlinked with it.
DeleteFiles(a) ==
  /\ a \notin deleted /\ ~Analysed(a)
  /\ \A d \in Documents : campaign[d] = a => ~LockedByTick(d)
  /\ files' = files \ UNION {content[d] : d \in {e \in Documents : campaign[e] = a}}
  /\ deleted' = deleted \union {a}
  /\ campaign' = [d \in Documents |-> IF campaign[d] = a THEN NoAudit ELSE campaign[d]]
  /\ text' = [d \in Documents |-> IF campaign[d] = a THEN 0 ELSE text[d]]
  /\ UNCHANGED <<content, old, purgedAt, retention, requests, ticking, expired>>

\* It waits for the row an analysis updated and for the chunks a purge deletes;
\* the files stay.
Delete(a) ==
  /\ a \notin deleted /\ ~Analysed(a)
  /\ \A d \in Documents : campaign[d] = a => ~LockedByTick(d)
  /\ deleted' = deleted \union {a}
  /\ campaign' = [d \in Documents |-> IF campaign[d] = a THEN NoAudit ELSE campaign[d]]
  /\ text' = [d \in Documents |-> IF campaign[d] = a THEN 0 ELSE text[d]]
  /\ UNCHANGED <<content, old, purgedAt, retention, files, requests, ticking, expired>>

SetRetention(b) ==
  /\ retention # b
  /\ retention' = b
  /\ UNCHANGED <<campaign, content, old, purgedAt, text, deleted, files,
                 requests, ticking, expired>>

Age(d) ==
  /\ d \in Live /\ ~old[d]
  /\ old' = [old EXCEPT ![d] = TRUE]
  /\ expired' = expired \union content[d]
  /\ UNCHANGED <<campaign, content, purgedAt, text, deleted, retention, files,
                 requests, ticking>>

(***************************************************************************)
(* purge_expired_documents, last step of a tick                            *)
(***************************************************************************)
TickList ==
  /\ tick = "idle" /\ retention
  /\ tick' = "purge"
  /\ due' = {d \in Live : old[d] /\ purgedAt[d] = 0}
  /\ due' # {}
  /\ UNCHANGED <<rows, files, requests, purging, doomed, expired>>

\* Variant: a file that is gone already stops the purge.
TickUnlinkStrict(d) ==
  /\ d \in due /\ ~(\E w \in Workers : TickWaits(w))
  /\ content[d] \subseteq files
  /\ files' = files \ content[d]
  /\ due' = due \ {d}
  /\ purging' = purging \union {d}
  /\ doomed' = [doomed EXCEPT ![d] = text[d]]
  /\ UNCHANGED <<rows, requests, tick, expired>>

\* unlink(missing_ok=True), then DELETE of the chunks committed by now.
TickUnlink(d) ==
  /\ d \in due /\ ~(\E w \in Workers : TickWaits(w))
  /\ files' = files \ content[d]
  /\ due' = due \ {d}
  /\ purging' = purging \union {d}
  /\ doomed' = [doomed EXCEPT ![d] = text[d]]
  /\ UNCHANGED <<rows, requests, tick, expired>>

\* The UPDATE of a row deleted since makes the whole tick fail (StaleDataError).
TickCommit ==
  /\ tick = "purge" /\ due = {} /\ ~(\E w \in Workers : TickWaits(w))
  /\ IF purging \subseteq Live
       THEN /\ purgedAt' = [d \in Documents |->
                              IF d \in purging THEN nextRun ELSE purgedAt[d]]
            /\ text' = [d \in Documents |->
                          IF d \in purging /\ text[d] = doomed[d] THEN 0 ELSE text[d]]
            /\ UNCHANGED <<campaign, content, old, deleted, retention>>
       ELSE UNCHANGED rows
  /\ FinishTick

(***************************************************************************)
(* Failures                                                                *)
(***************************************************************************)
\* The request is lost or raises: what it wrote to the storage stays.
Abort(w) ==
  /\ pc[w] # "idle"
  /\ Finish(w)
  /\ UNCHANGED <<rows, files>>

TickAbort ==
  /\ tick = "purge"
  /\ FinishTick
  /\ UNCHANGED rows

\* The tick waits for chunks w deleted, w for chunks the tick deleted:
\* PostgreSQL cancels either.
DeadlockAbort(w) ==
  /\ TickWaits(w) /\ pc[w] = "chunks" /\ LockedByTick(cur[w])
  /\ Abort(w) \/ TickAbort

-----------------------------------------------------------------------------
Init ==
  /\ campaign = [d \in Documents |-> NoAudit]
  /\ content = [d \in Documents |-> {}]
  /\ old = [d \in Documents |-> FALSE]
  /\ purgedAt = [d \in Documents |-> 0]
  /\ text = [d \in Documents |-> 0]
  /\ deleted = {} /\ retention = FALSE /\ files = {}
  /\ pc = [w \in Workers |-> "idle"]
  /\ on \in [Workers -> Audits]
  /\ cur \in [Workers -> Documents]
  /\ todo = [w \in Workers |-> {}]
  /\ held = [w \in Workers |-> {}]
  /\ num = [w \in Workers |-> 0]
  /\ nextRun = 1
  /\ tick = "idle" /\ due = {} /\ purging = {}
  /\ doomed = [d \in Documents |-> 0]
  /\ expired = {}

Request(w, a) ==
  \/ \E d \in Documents, c \in Contents : UploadSave(w, a, d, c)
  \/ RunList(w, a)
Step(w) ==
  UploadCommit(w) \/ RunChunks(w) \/ RunEnd(w) \/ \E d \in Documents : RunRead(w, d)
Tick == TickList \/ TickCommit \/ \E d \in Documents : TickUnlink(d)

Next ==
  \/ \E w \in Workers : Step(w) \/ Abort(w) \/ DeadlockAbort(w)
                        \/ \E a \in Audits : Request(w, a)
  \/ \E a \in Audits : Delete(a)
  \/ \E b \in BOOLEAN : SetRetention(b)
  \/ \E d \in Documents : Age(d)
  \/ Tick \/ TickAbort

Spec == Init /\ [][Next]_vars

\* Requests go on, deadlocks are broken, the scheduler polls, and from some time
\* on its ticks are not interrupted.
Fairness ==
  /\ \A w \in Workers :
       /\ WF_vars(RunEnd(w))
       /\ SF_vars(RunChunks(w))
       /\ WF_vars(DeadlockAbort(w))
  /\ WF_vars(Tick)
  /\ <>[][~TickAbort]_vars

FairSpec == Spec /\ Fairness

(***************************************************************************)
(* Properties                                                              *)
(***************************************************************************)
TypeOK ==
  /\ campaign \in [Documents -> Audits \union {NoAudit}]
  /\ content \in [Documents -> SUBSET Contents]
  /\ old \in [Documents -> BOOLEAN]
  /\ purgedAt \in [Documents -> Nat]
  /\ text \in [Documents -> Nat]
  /\ deleted \subseteq Audits
  /\ retention \in BOOLEAN
  /\ files \subseteq Contents
  /\ pc \in [Workers -> {"idle", "insert", "read", "chunks"}]
  /\ on \in [Workers -> Audits]
  /\ cur \in [Workers -> Documents]
  /\ todo \in [Workers -> SUBSET Documents]
  /\ held \in [Workers -> SUBSET Documents]
  /\ num \in [Workers -> Nat]
  /\ nextRun \in Nat \ {0}
  /\ tick \in {"idle", "purge"}
  /\ due \subseteq Documents
  /\ purging \subseteq Documents
  /\ doomed \in [Documents -> Nat]
  /\ expired \subseteq Contents

\* A document whose content was never deposited a retention period ago keeps its
\* file, whatever else is purged, deleted, refused or interrupted.
MissingWasExpired ==
  \A d \in Live : content[d] \subseteq files \union expired

\* An analysis that starts after a document was purged never brings its text
\* back, even when an equal content was deposited since and the file is there.
PurgedNotIndexedAgain ==
  \A d \in Live : purgedAt[d] # 0 => text[d] < purgedAt[d]

\* models/audit.py on content_purged_at: "NULL tant que le contenu est encore
\* present" (and only then: a document without its file fails the analysis).
ContentKept == \A d \in Live : purgedAt[d] = 0 => content[d] \subseteq files

\* services/retention.py: the purge removes the file "+ texte extrait indexe
\* pour la recherche".
PurgedTextGone == \A d \in Live : purgedAt[d] # 0 => text[d] = 0

\* A document past the retention is purged in the end, through failed ticks,
\* shared files and analyses that hold its chunks.
ExpiredPurged ==
  \A d \in Documents :
    d \in Live /\ old[d] ~> d \notin Live \/ purgedAt[d] # 0 \/ ~retention
=============================================================================
