----------------------------- MODULE StorageProofs -----------------------------
(***************************************************************************)
(* Proofs of the safety properties of Storage, for any documents, contents,*)
(* campaigns and workers and any number of analyses, and, at the end, of   *)
(* ReportPdf, whose files lie beside the documents.                        *)
(***************************************************************************)
EXTENDS Storage, TLAPS

(***************************************************************************)
(* Types                                                                   *)
(***************************************************************************)
LEMMA TypeInductive == TypeOK /\ [Next]_vars => TypeOK'
<1> SUFFICES ASSUME TypeOK, [Next]_vars PROVE TypeOK'
  OBVIOUS
<1> USE StorageAssumption DEF Goto
<1>1. ASSUME NEW w \in Workers, NEW a \in Audits, NEW d \in Documents,
             NEW c \in Contents, UploadSave(w, a, d, c)
      PROVE  TypeOK'
  BY <1>1 DEF UploadSave, TypeOK, ticking
<1>2. ASSUME NEW w \in Workers, NEW a \in Audits, RunList(w, a) PROVE TypeOK'
  BY <1>2 DEF RunList, TypeOK, rows, ticking
<1>3. ASSUME NEW w \in Workers, UploadCommit(w) PROVE TypeOK'
  BY <1>3 DEF UploadCommit, Finish, TypeOK, ticking
<1>4. ASSUME NEW w \in Workers, RunChunks(w) PROVE TypeOK'
  BY <1>4 DEF RunChunks, TypeOK, rows, ticking
<1>5. ASSUME NEW w \in Workers, RunEnd(w) PROVE TypeOK'
  BY <1>5 DEF RunEnd, Finish, TypeOK, ticking
<1>6. ASSUME NEW w \in Workers, NEW d \in Documents, RunRead(w, d) PROVE TypeOK'
  BY <1>6 DEF RunRead, TypeOK, rows, ticking
<1>7. ASSUME NEW w \in Workers, Abort(w) PROVE TypeOK'
  BY <1>7 DEF Abort, Finish, TypeOK, rows, ticking
<1>8. ASSUME TickAbort PROVE TypeOK'
  BY <1>8 DEF TickAbort, FinishTick, TypeOK, rows, requests
<1>9. ASSUME NEW a \in Audits, Delete(a) PROVE TypeOK'
  BY <1>9 DEF Delete, TypeOK, requests, ticking
<1>10. ASSUME NEW b \in BOOLEAN, SetRetention(b) PROVE TypeOK'
  BY <1>10 DEF SetRetention, TypeOK, requests, ticking
<1>11. ASSUME NEW d \in Documents, Age(d) PROVE TypeOK'
  BY <1>11 DEF Age, TypeOK, requests, ticking
<1>12. ASSUME TickList PROVE TypeOK'
  BY <1>12 DEF TickList, Live, TypeOK, rows, requests
<1>13. ASSUME TickCommit PROVE TypeOK'
  BY <1>13 DEF TickCommit, FinishTick, TypeOK, rows, requests
<1>14. ASSUME NEW d \in Documents, TickUnlink(d) PROVE TypeOK'
  BY <1>14 DEF TickUnlink, TypeOK, rows, requests
<1>15. CASE UNCHANGED vars
  BY <1>15 DEF vars, rows, requests, ticking, TypeOK
<1> QED
  BY <1>1, <1>2, <1>3, <1>4, <1>5, <1>6, <1>7, <1>8, <1>9, <1>10, <1>11, <1>12,
     <1>13, <1>14, <1>15 DEF Next, Step, Request, Tick, DeadlockAbort

LEMMA TypeInit == Init => TypeOK
<1> SUFFICES ASSUME Init PROVE TypeOK
  OBVIOUS
<1>1. /\ campaign \in [Documents -> Audits \union {NoAudit}]
      /\ content \in [Documents -> SUBSET Contents]
      /\ old \in [Documents -> BOOLEAN]
      /\ purgedAt \in [Documents -> Nat]
      /\ text \in [Documents -> Nat]
      /\ deleted \subseteq Audits /\ retention \in BOOLEAN
      /\ files \subseteq Contents /\ expired \subseteq Contents
  BY DEF Init
<1>2. /\ pc \in [Workers -> {"idle", "insert", "read", "chunks"}]
      /\ on \in [Workers -> Audits] /\ cur \in [Workers -> Documents]
      /\ todo \in [Workers -> SUBSET Documents]
      /\ held \in [Workers -> SUBSET Documents]
      /\ num \in [Workers -> Nat] /\ nextRun \in Nat \ {0}
  BY DEF Init
<1>3. /\ tick \in {"idle", "purge"}
      /\ due \subseteq Documents /\ purging \subseteq Documents
      /\ doomed \in [Documents -> Nat]
  BY DEF Init
<1> QED
  BY <1>1, <1>2, <1>3 DEF TypeOK

\* Every variable of the model keeps its type.
THEOREM TypeCorrect == Spec => []TypeOK
<1> QED
  BY TypeInit, TypeInductive, PTL DEF Spec

(***************************************************************************)
(* Files                                                                   *)
(***************************************************************************)
\* What a purge may unlink has outlived the retention, and whatever was
\* received is stored or has outlived it too.
FileInv ==
  /\ \A d \in Documents : content[d] \subseteq files \union expired
  /\ \A d \in Documents : old[d] => content[d] # {} /\ content[d] \subseteq expired
  /\ \A d \in due : old[d]
  /\ \A d \in Live : content[d] # {}
  /\ \A w \in Workers : pc[w] = "insert" => content[cur[w]] # {}

LEMMA FileInductive == TypeOK /\ FileInv /\ [Next]_vars => FileInv'
<1> SUFFICES ASSUME TypeOK, FileInv, [Next]_vars PROVE FileInv'
  OBVIOUS
<1> USE StorageAssumption DEF Goto
<1>1. ASSUME NEW w \in Workers, NEW a \in Audits, NEW d \in Documents,
             NEW c \in Contents, UploadSave(w, a, d, c)
      PROVE  FileInv'
  BY <1>1 DEF UploadSave, TypeOK, FileInv, Live, ticking
<1>2. ASSUME NEW w \in Workers, NEW a \in Audits, RunList(w, a) PROVE FileInv'
  BY <1>2 DEF RunList, TypeOK, FileInv, Live, rows, ticking
<1>3. ASSUME NEW w \in Workers, UploadCommit(w) PROVE FileInv'
  BY <1>3 DEF UploadCommit, Finish, TypeOK, FileInv, Live, ticking
<1>4. ASSUME NEW w \in Workers, RunChunks(w) PROVE FileInv'
  BY <1>4 DEF RunChunks, TypeOK, FileInv, Live, rows, ticking
<1>5. ASSUME NEW w \in Workers, RunEnd(w) PROVE FileInv'
  BY <1>5 DEF RunEnd, Finish, TypeOK, FileInv, Live, ticking
<1>6. ASSUME NEW w \in Workers, NEW d \in Documents, RunRead(w, d) PROVE FileInv'
  BY <1>6 DEF RunRead, TypeOK, FileInv, Live, rows, ticking
<1>7. ASSUME NEW w \in Workers, Abort(w) PROVE FileInv'
  BY <1>7 DEF Abort, Finish, TypeOK, FileInv, Live, rows, ticking
<1>8. ASSUME TickAbort PROVE FileInv'
  BY <1>8 DEF TickAbort, FinishTick, TypeOK, FileInv, Live, rows, requests
<1>9. ASSUME NEW a \in Audits, Delete(a) PROVE FileInv'
  BY <1>9 DEF Delete, TypeOK, FileInv, Live, requests, ticking
<1>10. ASSUME NEW b \in BOOLEAN, SetRetention(b) PROVE FileInv'
  BY <1>10 DEF SetRetention, TypeOK, FileInv, Live, requests, ticking
<1>11. ASSUME NEW d \in Documents, Age(d) PROVE FileInv'
  BY <1>11 DEF Age, TypeOK, FileInv, Live, requests, ticking
<1>12. ASSUME TickList PROVE FileInv'
  BY <1>12 DEF TickList, TypeOK, FileInv, Live, rows, requests
<1>13. ASSUME TickCommit PROVE FileInv'
  BY <1>13 DEF TickCommit, FinishTick, TypeOK, FileInv, Live, rows, requests
<1>14. ASSUME NEW d \in Documents, TickUnlink(d) PROVE FileInv'
  BY <1>14 DEF TickUnlink, TypeOK, FileInv, Live, rows, requests
<1>15. CASE UNCHANGED vars
  BY <1>15 DEF vars, rows, requests, ticking, FileInv, Live
<1> QED
  BY <1>1, <1>2, <1>3, <1>4, <1>5, <1>6, <1>7, <1>8, <1>9, <1>10, <1>11, <1>12,
     <1>13, <1>14, <1>15 DEF Next, Step, Request, Tick, DeadlockAbort

(***************************************************************************)
(* Purged text                                                             *)
(***************************************************************************)
\* Documents whose chunks the analysis of w may still write.
Work(w) == todo[w] \union held[w] \union (IF pc[w] = "chunks" THEN {cur[w]} ELSE {})
Before(n, d) == purgedAt[d] = 0 \/ n < purgedAt[d]

\* An analysis works on documents that were not purged when it was numbered.
IndexInv ==
  /\ \A w \in Workers : ~Analysing(w) => todo[w] = {} /\ held[w] = {}
  /\ \A w \in Workers : Analysing(w) =>
       num[w] < nextRun /\ \A d \in Work(w) : Before(num[w], d)
  /\ \A d \in Documents : text[d] < nextRun /\ Before(text[d], d)

LEMMA IndexInductive == TypeOK /\ IndexInv /\ [Next]_vars => IndexInv'
<1> SUFFICES ASSUME TypeOK, IndexInv, [Next]_vars PROVE IndexInv'
  OBVIOUS
<1> USE StorageAssumption DEF Goto, Analysing, Work, Before
<1>1. ASSUME NEW w \in Workers, NEW a \in Audits, NEW d \in Documents,
             NEW c \in Contents, UploadSave(w, a, d, c)
      PROVE  IndexInv'
  BY <1>1 DEF UploadSave, TypeOK, IndexInv, ticking
<1>2. ASSUME NEW w \in Workers, NEW a \in Audits, RunList(w, a) PROVE IndexInv'
  <2>1. /\ todo'[w] = {d \in Documents : campaign[d] = a /\ purgedAt[d] = 0}
        /\ num'[w] = nextRun /\ nextRun' = nextRun + 1
        /\ held'[w] = {} /\ pc'[w] = "read"
    BY <1>2 DEF RunList, TypeOK, IndexInv
  <2>2. \A v \in Workers \ {w} :
          todo'[v] = todo[v] /\ held'[v] = held[v] /\ num'[v] = num[v]
          /\ cur'[v] = cur[v] /\ pc'[v] = pc[v]
    BY <1>2 DEF RunList, TypeOK
  <2>3. text' = text /\ purgedAt' = purgedAt /\ nextRun \in Nat
    BY <1>2 DEF RunList, rows, TypeOK
  <2>4. \A v \in Workers : num[v] \in Nat
    BY DEF TypeOK
  <2>5. \A d \in Documents : text[d] \in Nat /\ purgedAt[d] \in Nat
    BY DEF TypeOK
  <2> QED BY <2>1, <2>2, <2>3, <2>4, <2>5 DEF IndexInv
<1>3. ASSUME NEW w \in Workers, UploadCommit(w) PROVE IndexInv'
  BY <1>3 DEF UploadCommit, Finish, TypeOK, IndexInv, ticking
<1>4. ASSUME NEW w \in Workers, RunChunks(w) PROVE IndexInv'
  BY <1>4 DEF RunChunks, TypeOK, IndexInv, rows, ticking
<1>5. ASSUME NEW w \in Workers, RunEnd(w) PROVE IndexInv'
  BY <1>5 DEF RunEnd, Finish, TypeOK, IndexInv, ticking
<1>6. ASSUME NEW w \in Workers, NEW d \in Documents, RunRead(w, d) PROVE IndexInv'
  BY <1>6 DEF RunRead, TypeOK, IndexInv, rows, ticking
<1>7. ASSUME NEW w \in Workers, Abort(w) PROVE IndexInv'
  BY <1>7 DEF Abort, Finish, TypeOK, IndexInv, rows, ticking
<1>8. ASSUME TickAbort PROVE IndexInv'
  BY <1>8 DEF TickAbort, FinishTick, TypeOK, IndexInv, rows, requests
<1>9. ASSUME NEW a \in Audits, Delete(a) PROVE IndexInv'
  BY <1>9 DEF Delete, TypeOK, IndexInv, requests, ticking
<1>10. ASSUME NEW b \in BOOLEAN, SetRetention(b) PROVE IndexInv'
  BY <1>10 DEF SetRetention, TypeOK, IndexInv, requests, ticking
<1>11. ASSUME NEW d \in Documents, Age(d) PROVE IndexInv'
  BY <1>11 DEF Age, TypeOK, IndexInv, requests, ticking
<1>12. ASSUME TickList PROVE IndexInv'
  BY <1>12 DEF TickList, TypeOK, IndexInv, rows, requests
<1>13. ASSUME TickCommit PROVE IndexInv'
  BY <1>13 DEF TickCommit, FinishTick, TypeOK, IndexInv, rows, requests
<1>14. ASSUME NEW d \in Documents, TickUnlink(d) PROVE IndexInv'
  BY <1>14 DEF TickUnlink, TypeOK, IndexInv, rows, requests
<1>15. CASE UNCHANGED vars
  BY <1>15 DEF vars, rows, requests, ticking, IndexInv
<1> QED
  BY <1>1, <1>2, <1>3, <1>4, <1>5, <1>6, <1>7, <1>8, <1>9, <1>10, <1>11, <1>12,
     <1>13, <1>14, <1>15 DEF Next, Step, Request, Tick, DeadlockAbort

(***************************************************************************)
(* The invariant                                                           *)
(***************************************************************************)
IInv == TypeOK /\ FileInv /\ IndexInv

LEMMA IInvInit == Init => IInv
<1> SUFFICES ASSUME Init PROVE IInv
  OBVIOUS
<1>1. TypeOK
  BY TypeInit
<1>2. FileInv
  BY StorageAssumption DEF Init, FileInv, Live
<1>3. IndexInv
  BY StorageAssumption DEF Init, IndexInv, Analysing, Before
<1> QED BY <1>1, <1>2, <1>3 DEF IInv

LEMMA Invariant == Spec => []IInv
<1>1. IInv /\ [Next]_vars => IInv'
  BY TypeInductive, FileInductive, IndexInductive DEF IInv
<1> QED BY IInvInit, <1>1, PTL DEF Spec

\* A content nobody deposited a retention period ago is never lost.
THEOREM FreshContentsKept == Spec => []MissingWasExpired
<1>1. IInv => MissingWasExpired
  BY DEF IInv, FileInv, MissingWasExpired, Live
<1> QED BY Invariant, <1>1, PTL

\* A document's text never comes back by an analysis started after its purge.
THEOREM PurgeFinal == Spec => []PurgedNotIndexedAgain
<1>1. IInv => PurgedNotIndexedAgain
  BY DEF IInv, IndexInv, Before, PurgedNotIndexedAgain, Live
<1> QED BY Invariant, <1>1, PTL

\* An analysis under way works on a document that the purge under way has
\* selected.
Overlapping == \E w \in Workers : Analysing(w) /\ Work(w) \intersect (due \union purging) # {}

\* Without that, an analysis works on documents that are not purged, and the
\* chunks a purge has seen are the ones it deletes.
GoneInv ==
  /\ \A d \in Documents : purgedAt[d] # 0 => text[d] = 0
  /\ \A w \in Workers : Analysing(w) => \A d \in Work(w) : purgedAt[d] = 0
  /\ \A d \in purging : text[d] \in {0, doomed[d]}

LEMMA GoneInductive ==
  TypeOK /\ IndexInv /\ GoneInv /\ ~Overlapping /\ [Next]_vars => GoneInv'
<1> SUFFICES ASSUME TypeOK, IndexInv, GoneInv, ~Overlapping, [Next]_vars PROVE GoneInv'
  OBVIOUS
<1> USE StorageAssumption DEF Goto, Analysing, Work
<1>1. ASSUME NEW w \in Workers, NEW a \in Audits, NEW d \in Documents,
             NEW c \in Contents, UploadSave(w, a, d, c)
      PROVE  GoneInv'
  BY <1>1 DEF UploadSave, TypeOK, GoneInv, ticking
<1>2. ASSUME NEW w \in Workers, NEW a \in Audits, RunList(w, a) PROVE GoneInv'
  BY <1>2 DEF RunList, TypeOK, IndexInv, GoneInv, rows, ticking
<1>3. ASSUME NEW w \in Workers, UploadCommit(w) PROVE GoneInv'
  BY <1>3 DEF UploadCommit, Finish, TypeOK, GoneInv, ticking
<1>4. ASSUME NEW w \in Workers, RunChunks(w) PROVE GoneInv'
  BY <1>4 DEF RunChunks, TypeOK, GoneInv, rows, ticking
<1>5. ASSUME NEW w \in Workers, RunEnd(w) PROVE GoneInv'
  <2>1. \A d \in held[w] : purgedAt[d] = 0 /\ d \notin purging
    BY <1>5 DEF RunEnd, GoneInv, Overlapping
  <2> QED
    BY <1>5, <2>1 DEF RunEnd, Finish, TypeOK, GoneInv, ticking
<1>6. ASSUME NEW w \in Workers, NEW d \in Documents, RunRead(w, d) PROVE GoneInv'
  BY <1>6 DEF RunRead, TypeOK, GoneInv, rows, ticking
<1>7. ASSUME NEW w \in Workers, Abort(w) PROVE GoneInv'
  BY <1>7 DEF Abort, Finish, TypeOK, GoneInv, rows, ticking
<1>8. ASSUME TickAbort PROVE GoneInv'
  BY <1>8 DEF TickAbort, FinishTick, TypeOK, GoneInv, rows, requests
<1>9. ASSUME NEW a \in Audits, Delete(a) PROVE GoneInv'
  BY <1>9 DEF Delete, TypeOK, GoneInv, requests, ticking
<1>10. ASSUME NEW b \in BOOLEAN, SetRetention(b) PROVE GoneInv'
  BY <1>10 DEF SetRetention, TypeOK, GoneInv, requests, ticking
<1>11. ASSUME NEW d \in Documents, Age(d) PROVE GoneInv'
  BY <1>11 DEF Age, TypeOK, GoneInv, requests, ticking
<1>12. ASSUME TickList PROVE GoneInv'
  BY <1>12 DEF TickList, TypeOK, GoneInv, rows, requests
<1>13. ASSUME TickCommit PROVE GoneInv'
  <2>1. \A w \in Workers : Analysing(w) => Work(w) \intersect purging = {}
    BY DEF Overlapping
  <2> QED
    BY <1>13, <2>1 DEF TickCommit, FinishTick, TypeOK, GoneInv, rows, requests
<1>14. ASSUME NEW d \in Documents, TickUnlink(d) PROVE GoneInv'
  BY <1>14 DEF TickUnlink, TypeOK, GoneInv, rows, requests
<1>15. CASE UNCHANGED vars
  BY <1>15 DEF vars, rows, requests, ticking, GoneInv
<1> QED
  BY <1>1, <1>2, <1>3, <1>4, <1>5, <1>6, <1>7, <1>8, <1>9, <1>10, <1>11, <1>12,
     <1>13, <1>14, <1>15 DEF Next, Step, Request, Tick, DeadlockAbort

\* The purge takes the text with the file as long as no analysis under way works
\* on a document it has selected: the text that stays comes from that overlap
\* alone, never from a deletion, a rolled back tick or a shared file.
THEOREM PurgeIsolated == Spec /\ []~Overlapping => []PurgedTextGone
<1>1. Init => GoneInv
  BY DEF Init, GoneInv, Analysing
<1>2. GoneInv => PurgedTextGone
  BY DEF GoneInv, PurgedTextGone, Live
<1>3. IInv => TypeOK /\ IndexInv
  BY DEF IInv
<1> QED
  BY <1>1, <1>2, <1>3, Invariant, GoneInductive, PTL DEF Spec

(***************************************************************************)
(* The PDF of a report (ReportPdf)                                         *)
(***************************************************************************)
CONSTANTS Reports, Nobody
VARIABLES cache, lock, step, wanted, answer
P == INSTANCE ReportPdf WITH pc <- step, on <- wanted

\* A request past the lock holds it; one that converts found no PDF.
PdfInv ==
  \A w \in Workers :
    /\ step[w] \in {"look", "convert", "write"} => lock[wanted[w]] = w
    /\ step[w] = "convert" => cache[wanted[w]] = "absent"
    /\ step[w] = "write" => cache[wanted[w]] = "partial"

LEMMA PdfTypes ==
  /\ P!Init => P!TypeOK /\ PdfInv
  /\ P!TypeOK /\ [P!Next]_P!vars => P!TypeOK'
<1>1. P!Init => P!TypeOK /\ PdfInv
  BY DEF P!Init, P!TypeOK, PdfInv
<1>2. ASSUME P!TypeOK, [P!Next]_P!vars PROVE P!TypeOK'
  <2> USE <1>2 DEF P!TypeOK, P!Goto, P!Finish
  <2>1. ASSUME NEW w \in Workers, NEW r \in Reports, P!Request(w, r) PROVE P!TypeOK'
    BY <2>1 DEF P!Request
  <2>2. ASSUME NEW w \in Workers, P!Step(w) \/ P!Raise(w) PROVE P!TypeOK'
    BY <2>2 DEF P!Step, P!Lock, P!Cached, P!Missing, P!Convert, P!Write, P!Raise
  <2>3. CASE P!Crash \/ UNCHANGED P!vars
    BY <2>3 DEF P!Crash, P!vars
  <2> QED
    BY <2>1, <2>2, <2>3 DEF P!Next
<1> QED
  BY <1>1, <1>2

LEMMA PdfInductive ==
  Nobody \notin Workers /\ P!TypeOK /\ PdfInv /\ [P!Next]_P!vars => PdfInv'
<1> SUFFICES ASSUME Nobody \notin Workers, P!TypeOK, PdfInv, [P!Next]_P!vars PROVE PdfInv'
  OBVIOUS
<1> USE DEF P!TypeOK, P!Goto, P!Finish, PdfInv
<1>1. ASSUME NEW w \in Workers, NEW r \in Reports, P!Request(w, r) PROVE PdfInv'
  BY <1>1 DEF P!Request
<1>2. ASSUME NEW w \in Workers, P!Lock(w) PROVE PdfInv'
  BY <1>2 DEF P!Lock
<1>3. ASSUME NEW w \in Workers, P!Cached(w) \/ P!Missing(w) \/ P!Raise(w) PROVE PdfInv'
  BY <1>3 DEF P!Cached, P!Missing, P!Raise
<1>4. ASSUME NEW w \in Workers, P!Convert(w) \/ P!Write(w) PROVE PdfInv'
  BY <1>4 DEF P!Convert, P!Write
<1>5. CASE P!Crash \/ UNCHANGED P!vars
  BY <1>5 DEF P!Crash, P!vars
<1> QED
  BY <1>1, <1>2, <1>3, <1>4, <1>5 DEF P!Next, P!Step

\* A request that writes found its PDF missing or partial under the lock.
LEMMA PdfStep ==
  P!TypeOK /\ PdfInv /\ [P!Next]_P!vars =>
    [\A r \in Reports : cache[r] = "whole" => cache'[r] = "whole"]_P!vars
<1> SUFFICES ASSUME P!TypeOK, PdfInv, P!Next, NEW r \in Reports, cache[r] = "whole"
             PROVE  cache'[r] = "whole"
  OBVIOUS
<1> USE DEF P!TypeOK, PdfInv
<1>1. ASSUME NEW w \in Workers, P!Convert(w) \/ P!Write(w) PROVE cache'[r] = "whole"
  BY <1>1 DEF P!Convert, P!Write
<1>2. ASSUME UNCHANGED cache PROVE cache'[r] = "whole"
  BY <1>2
<1> QED
  BY <1>1, <1>2 DEF P!Next, P!Step, P!Lock, P!Cached, P!Missing, P!Raise, P!Request, P!Crash

\* A PDF that is whole stays so: no request converts the report again, and none
\* writes over the file that others are served from.  Nobody only has to be
\* different from every worker, so that a free lock is held by none.
THEOREM PdfConvertedOnce == ASSUME Nobody \notin Workers PROVE P!Spec => P!ConvertedOnce
  BY PdfTypes, PdfInductive, PdfStep, PTL DEF P!Spec, P!ConvertedOnce

\* The server stops, or a write raises, between the creation of a PDF and its
\* end.
CutsWrite == \E w \in Workers : step[w] = "write" /\ (P!Raise(w) \/ P!Crash)

\* Only a file that is being written is partial.
WholeInv ==
  /\ P!ServedWhole
  /\ \A r \in Reports :
       cache[r] = "partial" => \E w \in Workers : step[w] = "write" /\ wanted[w] = r

LEMMA WholeInductive ==
  /\ Nobody \notin Workers /\ P!TypeOK /\ PdfInv /\ WholeInv
  /\ [P!Next]_P!vars /\ [~CutsWrite]_P!vars
  => WholeInv'
<1> SUFFICES ASSUME Nobody \notin Workers, P!TypeOK, PdfInv, WholeInv, P!Next, ~CutsWrite
             PROVE  WholeInv'
  BY DEF P!vars, WholeInv, P!ServedWhole
<1> USE DEF P!TypeOK, P!Goto, P!Finish, PdfInv, WholeInv, P!ServedWhole
<1>1. ASSUME NEW w \in Workers, NEW r \in Reports, P!Request(w, r) PROVE WholeInv'
  BY <1>1 DEF P!Request
<1>2. ASSUME NEW w \in Workers, P!Lock(w) \/ P!Missing(w) PROVE WholeInv'
  BY <1>2 DEF P!Lock, P!Missing
<1>3. ASSUME NEW w \in Workers, P!Cached(w) PROVE WholeInv'
  <2>1. cache[wanted[w]] # "partial"
    BY <1>3 DEF P!Cached
  <2> QED
    BY <1>3, <2>1 DEF P!Cached
<1>4. ASSUME NEW w \in Workers, P!Convert(w) PROVE WholeInv'
  BY <1>4 DEF P!Convert
<1>5. ASSUME NEW w \in Workers, P!Write(w) PROVE WholeInv'
  BY <1>5 DEF P!Write
<1>6. ASSUME NEW w \in Workers, P!Raise(w) PROVE WholeInv'
  BY <1>6 DEF P!Raise, CutsWrite
<1>7. CASE P!Crash
  BY <1>7 DEF P!Crash, CutsWrite
<1> QED
  BY <1>1, <1>2, <1>3, <1>4, <1>5, <1>6, <1>7 DEF P!Next, P!Step

\* A download gives the whole PDF however requests overlap, and whatever fails
\* elsewhere: only a stop in the middle of a write leaves a part to be served.
THEOREM PdfWholeUnlessCut ==
  ASSUME Nobody \notin Workers
  PROVE  P!Spec /\ [][~CutsWrite]_P!vars => []P!ServedWhole
<1>1. P!Init => WholeInv
  BY DEF P!Init, WholeInv, P!ServedWhole
<1>2. WholeInv => P!ServedWhole
  BY DEF WholeInv
<1> QED
  BY <1>1, <1>2, PdfTypes, PdfInductive, WholeInductive, PTL DEF P!Spec
===============================================================================
