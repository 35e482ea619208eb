---------------------------- MODULE Documents ----------------------------
(* The document and ingestion-job lifecycle of domain/documents.py, and    *)
(* what a save() of one of their rows does to the row another transaction  *)
(* may have changed meanwhile (persistence/repositories.py, models.py).    *)
(* A row is its status: the failure code is NULL exactly when the status   *)
(* is not "failed" (the CHECK constraint), and no property tells two codes *)
(* apart.  NoRow is a row that does not exist.                             *)

NoRow == "none"

DocumentStatus == {"uploaded", "queued", "processing", "ready", "failed", "deleting"}

IngestionJobStatus == {"queued", "running", "succeeded", "failed"}

DOCUMENT_TRANSITIONS ==
    [s \in DocumentStatus |->
        CASE s = "uploaded"   -> {"queued"}
          [] s = "queued"     -> {"processing", "failed"}
          [] s = "processing" -> {"ready", "failed"}
          [] s = "ready"      -> {"deleting"}
          [] s = "failed"     -> {"queued", "deleting"}
          [] s = "deleting"   -> {}]

JOB_TRANSITIONS ==
    [s \in IngestionJobStatus |->
        CASE s = "queued"    -> {"running", "failed"}
          [] s = "running"   -> {"succeeded", "failed"}
          [] s = "succeeded" -> {}
          [] s = "failed"    -> {"queued"}]

\* Document._transition and IngestionJob._transition raise unless these hold.
DocumentMay(status, target) ==
    status \in DocumentStatus /\ target \in DOCUMENT_TRANSITIONS[status]

JobMay(status, target) ==
    status \in IngestionJobStatus /\ target \in JOB_TRANSITIONS[status]

(* save() selects the row again before it writes it, whatever its caller   *)
(* has read, and the UPDATE names the columns in which that later row, of  *)
(* status seen, differs from the new one.  There is no version column and  *)
(* no lock from the SELECT to the UPDATE, which finds the row at status    *)
(* now.  Between two failures the code is written if the codes differ.     *)
WritesCode(seen, new, recodes) ==
    (seen = "failed") # (new = "failed") \/ (new = "failed" /\ recodes)

\* the status of the row after the UPDATE
Updated(now, seen, new) == IF seen = new THEN now ELSE new

\* mutant: a row that is gone is written again
UpdateCommitsAgain(now, seen, new, recodes) ==
    LET hasCode == IF WritesCode(seen, new, recodes) THEN new = "failed" ELSE now = "failed"
    IN  hasCode <=> Updated(now, seen, new) = "failed"

\* A row that is gone raises StaleDataError; the CHECK constraint rejects a
\* row whose failure code does not go with its status.
UpdateCommits(now, seen, new, recodes) ==
    LET hasCode == IF WritesCode(seen, new, recodes) THEN new = "failed" ELSE now = "failed"
    IN  now # NoRow /\ (hasCode <=> Updated(now, seen, new) = "failed")
==========================================================================
