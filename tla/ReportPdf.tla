------------------------------- MODULE ReportPdf -------------------------------
(***************************************************************************)
(* The PDF of a report (download_report_pdf): converted by a browser on the*)
(* first download, kept next to the HTML of the report and read back by    *)
(* the next ones, under an advisory lock of the report.                    *)
(***************************************************************************)
EXTENDS FiniteSets

CONSTANTS
  Reports,  \* identifiers of rows of reports
  Workers,  \* threads that serve requests
  Nobody    \* the lock of a report is free

ASSUME ReportPdfAssumption == Nobody \notin Workers

VARIABLES
  cache,  \* the PDF file of each report: "absent", "partial" or "whole"
  lock,   \* holder of the advisory lock report-pdf:<id>
  pc,     \* "idle", "wait", "look", "convert" or "write"
  on,     \* report of the request
  answer  \* what the last request answered: "none", "error" or a state of the file

vars == <<cache, lock, pc, on, answer>>

Goto(w, step) == pc' = [pc EXCEPT ![w] = step]
\* The end of the transaction releases the lock.
Finish(w, result) ==
  /\ answer' = [answer EXCEPT ![w] = result]
  /\ lock' = [r \in Reports |-> IF lock[r] = w THEN Nobody ELSE lock[r]]
  /\ Goto(w, "idle")
  /\ UNCHANGED on

Request(w, r) ==
  /\ pc[w] = "idle"
  /\ Goto(w, "wait")
  /\ on' = [on EXCEPT ![w] = r]
  /\ answer' = [answer EXCEPT ![w] = "none"]
  /\ UNCHANGED <<cache, lock>>

\* Variant: the lock is not waited for.
TryLock(w) ==
  /\ pc[w] = "wait"
  /\ lock' = [lock EXCEPT ![on[w]] = IF @ = Nobody THEN w ELSE @]
  /\ Goto(w, "look")
  /\ UNCHANGED <<cache, on, answer>>

Lock(w) ==
  /\ pc[w] = "wait" /\ lock[on[w]] = Nobody
  /\ lock' = [lock EXCEPT ![on[w]] = w]
  /\ Goto(w, "look")
  /\ UNCHANGED <<cache, on, answer>>

\* What the file holds is not looked at, only that it exists.
Cached(w) ==
  /\ pc[w] = "look" /\ cache[on[w]] # "absent"
  /\ Finish(w, cache[on[w]])
  /\ UNCHANGED cache

Missing(w) ==
  /\ pc[w] = "look" /\ cache[on[w]] = "absent"
  /\ Goto(w, "convert")
  /\ UNCHANGED <<cache, lock, on, answer>>

\* write_bytes creates an empty file, then fills it.
Convert(w) ==
  /\ pc[w] = "convert"
  /\ cache' = [cache EXCEPT ![on[w]] = "partial"]
  /\ Goto(w, "write")
  /\ UNCHANGED <<lock, on, answer>>

\* Variant: the request keeps its session open.
WriteKeep(w) ==
  /\ pc[w] = "write"
  /\ cache' = [cache EXCEPT ![on[w]] = "whole"]
  /\ answer' = [answer EXCEPT ![w] = "whole"]
  /\ Goto(w, "idle")
  /\ UNCHANGED <<lock, on>>

Write(w) ==
  /\ pc[w] = "write"
  /\ cache' = [cache EXCEPT ![on[w]] = "whole"]
  /\ Finish(w, "whole")

\* The browser, a HTML file that is missing or a full disk raises.
Raise(w) ==
  /\ pc[w] \in {"convert", "write"}
  /\ Finish(w, "error")
  /\ UNCHANGED cache

\* The server stops: the database ends its sessions, the disk keeps its files.
Crash ==
  /\ pc' = [w \in Workers |-> "idle"]
  /\ lock' = [r \in Reports |-> Nobody]
  /\ answer' = [w \in Workers |-> "none"]
  /\ UNCHANGED <<cache, on>>

-----------------------------------------------------------------------------
Init ==
  /\ cache = [r \in Reports |-> "absent"]
  /\ lock = [r \in Reports |-> Nobody]
  /\ pc = [w \in Workers |-> "idle"]
  /\ on \in [Workers -> Reports]
  /\ answer = [w \in Workers |-> "none"]

Step(w) == Lock(w) \/ Cached(w) \/ Missing(w) \/ Convert(w) \/ Write(w)

Next ==
  \/ \E w \in Workers : Step(w) \/ Raise(w) \/ \E r \in Reports : Request(w, r)
  \/ Crash

Spec == Init /\ [][Next]_vars

\* A thread goes on with its request; waiters of a lock are served in the order
\* they came, so that one for whom it is free again and again gets it.
Fairness ==
  \A w \in Workers :
    /\ SF_vars(Lock(w))
    /\ WF_vars(Cached(w) \/ Missing(w) \/ Convert(w) \/ Write(w) \/ Raise(w))

FairSpec == Spec /\ Fairness

(***************************************************************************)
(* Properties                                                              *)
(***************************************************************************)
TypeOK ==
  /\ cache \in [Reports -> {"absent", "partial", "whole"}]
  /\ lock \in [Reports -> Workers \union {Nobody}]
  /\ pc \in [Workers -> {"idle", "wait", "look", "convert", "write"}]
  /\ on \in [Workers -> Reports]
  /\ answer \in [Workers -> {"none", "error", "partial", "whole"}]

\* A PDF that is complete is never converted or written over, a request that
\* looked before another finished included.
ConvertedOnce ==
  [][\A r \in Reports : cache[r] = "whole" => cache'[r] = "whole"]_vars

\* Every download is answered or lost with the server, whoever waits for whom.
DownloadsEnd == \A w \in Workers : pc[w] # "idle" ~> pc[w] = "idle"

\* download_report_pdf: "Meme rapport que /download, mis en page pour
\* l'impression": all of it.
ServedWhole == \A w \in Workers : answer[w] # "partial"
=============================================================================
