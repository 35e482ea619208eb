------------------------- MODULE DocumentWorkflow -------------------------
(* The life of documents from upload to deletion: the API's submission and *)
(* deletion handlers (application/documents.py) and the worker's ingestion *)
(* attempts (application/ingestion.py), interleaved over the PostgreSQL    *)
(* rows, the Qdrant points, the stored files and the RQ queue they share.  *)
(*                                                                         *)
(* A transaction is a step for each SELECT of a document or a job, those   *)
(* of get(), which the handler decides from, and those of save(), which    *)
(* the UPDATE is made from, and a last step that writes and commits.       *)
(* PostgreSQL runs at READ COMMITTED and no SELECT locks a document or a   *)
(* job, so any other step may come between.  Every submission creates one  *)
(* document and one job with fresh identifiers, so both go by the identity *)
(* of the document.                                                        *)
EXTENDS Documents, Naturals

CONSTANTS
    Docs,          \* the submissions, hence the documents and their jobs
    NoDoc,         \* the document of an actor that has none
    Contents,      \* what can be uploaded
    Sha,           \* the content of each submission
    Workers,       \* RQ work-horses
    Deleters,      \* concurrent requests to delete
    MaxRetries,    \* Retry(max=3) of redis_queue.py
    Crashes,       \* bound: of the attempts on a job, the first Crashes may be killed
    Faults         \* the faults of the environment that may happen

FaultKinds ==
    {"api_crash",     \* the API process stops in the middle of a submission
     "ack_lost",      \* Redis accepts the job, the API sees an error
     "late_error",    \* an exception after the commit of any transaction took effect
     "db_error",      \* a transaction fails and is rolled back, at any of its steps
     "abandon",       \* RQ gives up a live attempt and queues the job again
     "store_error"}   \* unlinking a stored file fails

ASSUME WorkflowAssumption ==
    /\ NoDoc \notin Docs
    /\ Sha \in [Docs -> Contents]
    /\ MaxRetries \in Nat /\ Crashes \in Nat
    /\ Faults \subseteq FaultKinds

VARIABLES
    docRow, jobRow,   \* status of the committed rows, or NoRow
    chunks,           \* documents with chunk rows
    revision,         \* the corpus revision singleton
    points,           \* documents with points in Qdrant
    files,            \* documents whose file is in the store
    queued, retries,  \* RQ: jobs waiting or scheduled, retries each has left
    sub, att, del,    \* the submissions, attempts and deletions in progress
    accepted          \* history: documents for which "deleting" was committed

db    == <<docRow, jobRow, chunks, revision, accepted>>
rq    == <<queued, retries>>
vars  == <<db, points, files, rq, sub, att, del>>

IdleAttempt == [pc |-> "idle", id |-> NoDoc, doc |-> NoRow, job |-> NoRow]
IdleDelete  == [pc |-> "idle", id |-> NoDoc, doc |-> NoRow]

Init ==
    /\ docRow = [d \in Docs |-> NoRow]
    /\ jobRow = [d \in Docs |-> NoRow]
    /\ chunks = {} /\ points = {} /\ files = {} /\ accepted = {}
    /\ revision = 0
    /\ queued = {}
    /\ retries = [d \in Docs |-> MaxRetries]
    /\ sub = [d \in Docs |-> [pc |-> "new", doc |-> NoRow, job |-> NoRow]]
    /\ att = [w \in Workers |-> IdleAttempt]
    /\ del = [x \in Deleters |-> IdleDelete]

SetBoth(d, doc, job) ==
    /\ docRow' = [docRow EXCEPT ![d] = doc]
    /\ jobRow' = [jobRow EXCEPT ![d] = job]

\* get_by_hash, and the UNIQUE constraint on documents.sha256
ContentTaken(d) == \E e \in Docs : docRow[e] # NoRow /\ Sha[e] = Sha[d]

---------------------------------------------------------------------------
(* DocumentSubmissionService.submit *)

SubHolds(d, pc, doc, job) == sub' = [sub EXCEPT ![d] = [pc |-> pc, doc |-> doc, job |-> job]]

\* what a transaction has read goes with it
SubGoto(d, pc) == SubHolds(d, pc, NoRow, NoRow)

\* the upload is refused before anything is stored, or saving it fails
Reject(d) ==
    /\ sub[d].pc = "new" /\ SubGoto(d, "done")
    /\ UNCHANGED <<db, points, files, rq, att, del>>

SaveFile(d) ==
    /\ sub[d].pc = "new" /\ SubGoto(d, "check")
    /\ files' = files \union {d}
    /\ UNCHANGED <<db, points, rq, att, del>>

\* mutant: a duplicate found before the insert leaves its file in the store
CheckHashKeepsFile(d) ==
    /\ sub[d].pc = "check"
    /\ SubGoto(d, IF ContentTaken(d) THEN "done" ELSE "insert")
    /\ UNCHANGED <<db, points, files, rq, att, del>>

CheckHash(d) ==
    /\ sub[d].pc = "check"
    /\ SubGoto(d, IF ContentTaken(d) THEN "unstore" ELSE "insert")
    /\ UNCHANGED <<db, points, files, rq, att, del>>

\* mutant: no UNIQUE constraint
InsertUnchecked(d) ==
    /\ sub[d].pc = "insert"
    /\ SetBoth(d, "queued", "queued")
    /\ SubGoto(d, "enqueue")
    /\ UNCHANGED <<chunks, revision, accepted, points, files, rq, att, del>>

\* the rows are written, already past Document.create().queue()
Insert(d) ==
    /\ sub[d].pc = "insert" /\ ~ContentTaken(d)
    /\ SetBoth(d, "queued", "queued")
    /\ \/ SubGoto(d, "enqueue")
       \/ "late_error" \in Faults /\ SubGoto(d, "unstore")
    /\ UNCHANGED <<chunks, revision, accepted, points, files, rq, att, del>>

\* mutant: the exception is swallowed and the submission goes on
InsertFailsSilently(d) ==
    /\ sub[d].pc = "insert" /\ SubGoto(d, "enqueue")
    /\ UNCHANGED <<db, points, files, rq, att, del>>

\* IntegrityError, or the transaction fails for any other reason
InsertFails(d) ==
    /\ sub[d].pc \in {"check", "insert"} /\ SubGoto(d, "unstore")
    /\ UNCHANGED <<db, points, files, rq, att, del>>

\* store.delete; the new lookup of the IntegrityError path only picks the reply
Unstore(d) ==
    /\ sub[d].pc = "unstore" /\ SubGoto(d, "done")
    /\ \/ files' = files \ {d}
       \/ "store_error" \in Faults /\ UNCHANGED files
    /\ UNCHANGED <<db, points, rq, att, del>>

\* mutant: an enqueue that fails is ignored
EnqueueUnchecked(d) ==
    /\ sub[d].pc = "enqueue" /\ SubGoto(d, "done")
    /\ queued' \in {queued, queued \union {d}}
    /\ UNCHANGED <<db, points, files, retries, att, del>>

Enqueue(d) ==
    /\ sub[d].pc = "enqueue"
    /\ \/ queued' = queued \union {d} /\ SubGoto(d, "done")
       \/ UNCHANGED queued /\ SubGoto(d, "dispatch_doc")
       \/ "ack_lost" \in Faults /\ queued' = queued \union {d} /\ SubGoto(d, "dispatch_doc")
    /\ UNCHANGED <<db, points, files, retries, att, del>>

\* _mark_dispatch_failed: an exception of its own replaces QueueDispatchError
DispatchPC == {"dispatch_doc", "dispatch_job", "dispatch_save_doc", "dispatch_save_job", "dispatch"}

DispatchReadDoc(d) ==
    /\ sub[d].pc = "dispatch_doc"
    /\ SubHolds(d, "dispatch_job", docRow[d], NoRow)
    /\ UNCHANGED <<db, points, files, rq, att, del>>

DispatchReadJob(d) ==
    /\ sub[d].pc = "dispatch_job"
    /\ LET legal == DocumentMay(sub[d].doc, "failed") /\ JobMay(jobRow[d], "failed")
       IN  SubGoto(d, IF legal THEN "dispatch_save_doc" ELSE "done")
    /\ UNCHANGED <<db, points, files, rq, att, del>>

\* save() raises LookupError if the row is gone
DispatchSaveDoc(d) ==
    /\ sub[d].pc = "dispatch_save_doc"
    /\ IF docRow[d] = NoRow
       THEN SubGoto(d, "done")
       ELSE SubHolds(d, "dispatch_save_job", docRow[d], NoRow)
    /\ UNCHANGED <<db, points, files, rq, att, del>>

DispatchSaveJob(d) ==
    /\ sub[d].pc = "dispatch_save_job"
    /\ IF jobRow[d] = NoRow
       THEN SubGoto(d, "done")
       ELSE SubHolds(d, "dispatch", sub[d].doc, jobRow[d])
    /\ UNCHANGED <<db, points, files, rq, att, del>>

\* mutant: the job row is not saved
DispatchFailedDocOnly(d) ==
    /\ sub[d].pc = "dispatch" /\ SubGoto(d, "done")
    /\ UpdateCommits(docRow[d], sub[d].doc, "failed", TRUE)
    /\ docRow' = [docRow EXCEPT ![d] = "failed"]
    /\ UNCHANGED <<jobRow, chunks, revision, accepted, points, files, rq, att, del>>

\* "queue_unavailable" is the code of no other failure
DispatchFailed(d) ==
    /\ sub[d].pc = "dispatch" /\ SubGoto(d, "done")
    /\ LET commits == /\ UpdateCommits(docRow[d], sub[d].doc, "failed", TRUE)
                      /\ UpdateCommits(jobRow[d], sub[d].job, "failed", TRUE)
       IN  IF commits
           THEN SetBoth(d, Updated(docRow[d], sub[d].doc, "failed"),
                           Updated(jobRow[d], sub[d].job, "failed"))
           ELSE UNCHANGED <<docRow, jobRow>>
    /\ UNCHANGED <<chunks, revision, accepted, points, files, rq, att, del>>

DispatchAborts(d) ==
    /\ "db_error" \in Faults
    /\ sub[d].pc \in DispatchPC /\ SubGoto(d, "done")
    /\ UNCHANGED <<db, points, files, rq, att, del>>

ApiCrash(d) ==
    /\ "api_crash" \in Faults
    /\ sub[d].pc \notin {"new", "done"} /\ SubGoto(d, "done")
    /\ UNCHANGED <<db, points, files, rq, att, del>>
---------------------------------------------------------------------------
(* The worker: RQ's delivery, IngestionJobProcessor.process *)

AttHolds(w, pc, doc, job) ==
    att' = [att EXCEPT ![w] = [pc |-> pc, id |-> att[w].id, doc |-> doc, job |-> job]]

AttGoto(w, pc) == AttHolds(w, pc, NoRow, NoRow)

\* RQ takes up the job again while it has retries left
RetryJob(d) ==
    IF retries[d] > 0
    THEN queued' = queued \union {d} /\ retries' = [retries EXCEPT ![d] = @ - 1]
    ELSE UNCHANGED rq

AttemptReturns(w) ==
    att' = [att EXCEPT ![w] = IdleAttempt] /\ UNCHANGED rq

AttemptRaises(w) ==
    att' = [att EXCEPT ![w] = IdleAttempt] /\ RetryJob(att[w].id)

Deliver(w, d) ==
    /\ d \in queued /\ att[w].pc = "idle"
    /\ queued' = queued \ {d}
    /\ att' = [att EXCEPT ![w] = [IdleAttempt EXCEPT !.pc = "start_job", !.id = d]]
    /\ UNCHANGED <<db, points, files, retries, sub, del>>

\* _start_job reads the job, then the document
StartPC == {"start_job", "start_doc", "start_save_doc", "start_save_job", "start"}

StartReadJob(w) ==
    /\ att[w].pc = "start_job"
    /\ IF jobRow[att[w].id] = NoRow
       THEN AttemptRaises(w)
       ELSE AttHolds(w, "start_doc", NoRow, jobRow[att[w].id]) /\ UNCHANGED rq
    /\ UNCHANGED <<db, points, files, sub, del>>

\* a failed pair goes through "queued" in memory only
Startable(doc, job) == <<doc, job>> \in {<<"queued", "queued">>, <<"failed", "failed">>}

StartReadDoc(w) ==
    LET doc == docRow[att[w].id]
        job == att[w].job
    IN  /\ att[w].pc = "start_doc"
        /\ CASE doc = "deleting" \/ (doc = "ready" /\ job = "succeeded") -> AttemptReturns(w)
             [] Startable(doc, job) -> AttGoto(w, "start_save_doc") /\ UNCHANGED rq
             [] OTHER -> AttemptRaises(w)
        /\ UNCHANGED <<db, points, files, sub, del>>

StartSaveDoc(w) ==
    LET doc == docRow[att[w].id]
    IN  /\ att[w].pc = "start_save_doc"
        /\ IF doc = NoRow
           THEN AttemptRaises(w)
           ELSE AttHolds(w, "start_save_job", doc, NoRow) /\ UNCHANGED rq
        /\ UNCHANGED <<db, points, files, sub, del>>

StartSaveJob(w) ==
    LET job == jobRow[att[w].id]
    IN  /\ att[w].pc = "start_save_job"
        /\ IF job = NoRow
           THEN AttemptRaises(w)
           ELSE AttHolds(w, "start", att[w].doc, job) /\ UNCHANGED rq
        /\ UNCHANGED <<db, points, files, sub, del>>

StartJob(w) ==
    LET d       == att[w].id
        commits == /\ UpdateCommits(docRow[d], att[w].doc, "processing", FALSE)
                   /\ UpdateCommits(jobRow[d], att[w].job, "running", FALSE)
    IN  /\ att[w].pc = "start"
        /\ \/ /\ commits
              /\ SetBoth(d, Updated(docRow[d], att[w].doc, "processing"),
                            Updated(jobRow[d], att[w].job, "running"))
              /\ \/ AttGoto(w, "prepare") /\ UNCHANGED rq
                 \/ "late_error" \in Faults /\ AttemptRaises(w)
           \/ ~commits /\ UNCHANGED <<docRow, jobRow>> /\ AttemptRaises(w)
        /\ UNCHANGED <<chunks, revision, accepted, points, files, sub, del>>

\* The document is read, its file opened, chunked and embedded.  The file is
\* always removed before the row, so one step sees what the two reads see.
Prepare(w) ==
    /\ att[w].pc = "prepare"
    /\ \/ docRow[att[w].id] # NoRow /\ att[w].id \in files /\ AttGoto(w, "upsert")
       \/ AttGoto(w, "fail_doc")
    /\ UNCHANGED <<db, points, files, rq, sub, del>>

\* mutant: a failed upsert is ignored
UpsertUnchecked(w) ==
    /\ att[w].pc = "upsert" /\ AttGoto(w, "final_doc")
    /\ points' \in {points, points \union {att[w].id}}
    /\ UNCHANGED <<db, files, rq, sub, del>>

\* an upsert that fails may have been applied
Upsert(w) ==
    /\ att[w].pc = "upsert"
    /\ \/ points' = points \union {att[w].id} /\ AttGoto(w, "final_doc")
       \/ points' \in {points, points \union {att[w].id}} /\ AttGoto(w, "fail_doc")
    /\ UNCHANGED <<db, files, rq, sub, del>>

FinalPC == {"final_doc", "final_job", "final_save_doc", "final_save_job", "final"}

FinalReadDoc(w) ==
    /\ att[w].pc = "final_doc"
    /\ AttHolds(w, "final_job", docRow[att[w].id], NoRow)
    /\ UNCHANGED <<db, points, files, rq, sub, del>>

FinalReadJob(w) ==
    /\ att[w].pc = "final_job"
    /\ LET legal == DocumentMay(att[w].doc, "ready") /\ JobMay(jobRow[att[w].id], "succeeded")
       IN  AttGoto(w, IF legal THEN "final_save_doc" ELSE "fail_doc")
    /\ UNCHANGED <<db, points, files, rq, sub, del>>

FinalSaveDoc(w) ==
    LET doc == docRow[att[w].id]
    IN  /\ att[w].pc = "final_save_doc"
        /\ IF doc = NoRow THEN AttGoto(w, "fail_doc") ELSE AttHolds(w, "final_save_job", doc, NoRow)
        /\ UNCHANGED <<db, points, files, rq, sub, del>>

FinalSaveJob(w) ==
    LET job == jobRow[att[w].id]
    IN  /\ att[w].pc = "final_save_job"
        /\ IF job = NoRow THEN AttGoto(w, "fail_doc") ELSE AttHolds(w, "final", att[w].doc, job)
        /\ UNCHANGED <<db, points, files, rq, sub, del>>

\* mutant: the revision is not incremented
PublishQuietly(w) ==
    LET d == att[w].id
    IN  /\ att[w].pc = "final"
        /\ UpdateCommits(docRow[d], att[w].doc, "ready", FALSE)
        /\ UpdateCommits(jobRow[d], att[w].job, "succeeded", FALSE)
        /\ SetBoth(d, Updated(docRow[d], att[w].doc, "ready"),
                      Updated(jobRow[d], att[w].job, "succeeded"))
        /\ chunks' = chunks \union {d} /\ AttemptReturns(w)
        /\ UNCHANGED <<revision, accepted, points, files, sub, del>>

\* chunks, statuses and revision in one commit; whatever fails is rolled back
Publish(w) ==
    LET d == att[w].id
    IN  /\ att[w].pc = "final"
        /\ \/ /\ UpdateCommits(docRow[d], att[w].doc, "ready", FALSE)
              /\ UpdateCommits(jobRow[d], att[w].job, "succeeded", FALSE)
              /\ SetBoth(d, Updated(docRow[d], att[w].doc, "ready"),
                            Updated(jobRow[d], att[w].job, "succeeded"))
              /\ chunks' = chunks \union {d} /\ revision' = revision + 1
              /\ \/ AttemptReturns(w)
                 \/ "late_error" \in Faults /\ AttGoto(w, "fail_doc") /\ UNCHANGED rq
           \/ AttGoto(w, "fail_doc") /\ UNCHANGED <<docRow, jobRow, chunks, revision, rq>>
        /\ UNCHANGED <<accepted, points, files, sub, del>>

\* _mark_failed saves what it reads as "processing" and "running"
FailPC == {"fail_doc", "fail_job", "fail_save_doc", "fail_save_job", "fail"}

FailReadDoc(w) ==
    /\ att[w].pc = "fail_doc"
    /\ AttHolds(w, "fail_job", docRow[att[w].id], NoRow)
    /\ UNCHANGED <<db, points, files, rq, sub, del>>

FailReadJob(w) ==
    /\ att[w].pc = "fail_job"
    /\ AttHolds(w, "fail_save_doc", att[w].doc, jobRow[att[w].id])
    /\ UNCHANGED <<db, points, files, rq, sub, del>>

\* from here on NoRow is a row that is not saved
FailSaveDoc(w) ==
    LET doc == docRow[att[w].id]
        a   == att[w]
    IN  /\ a.pc = "fail_save_doc"
        /\ CASE a.doc # "processing" -> AttHolds(w, "fail_save_job", NoRow, a.job) /\ UNCHANGED rq
             [] a.doc = "processing" /\ doc # NoRow -> AttHolds(w, "fail_save_job", doc, a.job) /\ UNCHANGED rq
             [] OTHER -> AttemptRaises(w)
        /\ UNCHANGED <<db, points, files, sub, del>>

FailSaveJob(w) ==
    LET job == jobRow[att[w].id]
        a   == att[w]
    IN  /\ a.pc = "fail_save_job"
        /\ CASE a.job # "running" -> AttHolds(w, "fail", a.doc, NoRow) /\ UNCHANGED rq
             [] a.job = "running" /\ job # NoRow -> AttHolds(w, "fail", a.doc, job) /\ UNCHANGED rq
             [] OTHER -> AttemptRaises(w)
        /\ UNCHANGED <<db, points, files, sub, del>>

\* mutant: the statuses are failed whatever was read
MarkFailedAlways(w) ==
    /\ att[w].pc = "fail" /\ SetBoth(att[w].id, "failed", "failed") /\ AttGoto(w, "cleanup")
    /\ UNCHANGED <<chunks, revision, accepted, points, files, rq, sub, del>>

\* mutant: nothing is failed
MarkFailedNever(w) ==
    /\ att[w].pc = "fail" /\ AttGoto(w, "cleanup")
    /\ UNCHANGED <<db, points, files, rq, sub, del>>

MarkFailed(w) ==
    /\ att[w].pc = "fail"
    /\ \E docRecodes, jobRecodes \in BOOLEAN :
        LET d        == att[w].id
            a        == att[w]
            failsDoc == a.doc # NoRow
            failsJob == a.job # NoRow
            commits  == /\ failsDoc => UpdateCommits(docRow[d], a.doc, "failed", docRecodes)
                        /\ failsJob => UpdateCommits(jobRow[d], a.job, "failed", jobRecodes)
        IN  \/ /\ commits
               /\ SetBoth(d, IF failsDoc THEN Updated(docRow[d], a.doc, "failed") ELSE docRow[d],
                             IF failsJob THEN Updated(jobRow[d], a.job, "failed") ELSE jobRow[d])
               /\ \/ AttGoto(w, "cleanup") /\ UNCHANGED rq
                  \/ "late_error" \in Faults /\ AttemptRaises(w)
            \/ ~commits /\ UNCHANGED <<docRow, jobRow>> /\ AttemptRaises(w)
    /\ UNCHANGED <<chunks, revision, accepted, points, files, sub, del>>

\* the transactions of _start_job and _mark_failed are outside the try
AttemptAborts(w) ==
    /\ "db_error" \in Faults
    /\ att[w].pc \in StartPC \union FailPC /\ AttemptRaises(w)
    /\ UNCHANGED <<db, points, files, sub, del>>

\* the error of the cleanup is suppressed; the attempt raises either way
Cleanup(w) ==
    /\ att[w].pc = "cleanup"
    /\ points' \in {points, points \ {att[w].id}}
    /\ AttemptRaises(w)
    /\ UNCHANGED <<db, files, sub, del>>

\* the work-horse is killed in the middle of an attempt
WorkerCrash(w) ==
    /\ att[w].pc # "idle" /\ MaxRetries < Crashes + retries[att[w].id]
    /\ AttemptRaises(w)
    /\ UNCHANGED <<db, points, files, sub, del>>

\* the job is delivered again although its attempt is still running
Abandon(w) ==
    /\ "abandon" \in Faults
    /\ att[w].pc # "idle" /\ retries[att[w].id] > 0 /\ RetryJob(att[w].id)
    /\ UNCHANGED <<db, points, files, sub, att, del>>
---------------------------------------------------------------------------
(* DocumentDeletionService.delete.  A request that ends in 404 or 409      *)
(* changes nothing and is no step.                                         *)

DelHolds(x, pc, d, doc) == del' = [del EXCEPT ![x] = [pc |-> pc, id |-> d, doc |-> doc]]

DelGoto(x, pc) == DelHolds(x, pc, del[x].id, NoRow)

\* mutant: a document already being deleted is refused
DeleteReadOnce(x, d) ==
    /\ del[x].pc = "idle" /\ docRow[d] \in {"ready", "failed"} /\ DelHolds(x, "save", d, NoRow)
    /\ UNCHANGED <<db, points, files, rq, sub, att>>

DeleteRead(x, d) ==
    /\ del[x].pc = "idle"
    /\ \/ docRow[d] = "deleting" /\ DelHolds(x, "cancel", d, NoRow)
       \/ docRow[d] \in {"ready", "failed"} /\ DelHolds(x, "save", d, NoRow)
    /\ UNCHANGED <<db, points, files, rq, sub, att>>

\* a row that is gone raises LookupError: DeleteFails
DeleteSave(x) ==
    LET d == del[x].id
    IN  /\ del[x].pc = "save" /\ docRow[d] # NoRow /\ DelHolds(x, "mark", d, docRow[d])
        /\ UNCHANGED <<db, points, files, rq, sub, att>>

DeleteMark(x) ==
    LET d == del[x].id
    IN  /\ del[x].pc = "mark"
        /\ UpdateCommits(docRow[d], del[x].doc, "deleting", FALSE)
        /\ docRow' = [docRow EXCEPT ![d] = Updated(@, del[x].doc, "deleting")]
        /\ revision' = revision + 1
        /\ accepted' = accepted \union {d}
        /\ \/ DelGoto(x, "cancel")
           \/ "late_error" \in Faults /\ del' = [del EXCEPT ![x] = IdleDelete]
        /\ UNCHANGED <<jobRow, chunks, points, files, rq, sub, att>>

\* cancel_job takes a waiting job out of the queue; it does not stop a running one
DeleteCancel(x) ==
    /\ del[x].pc = "cancel" /\ DelGoto(x, "vectors")
    /\ queued' = queued \ {del[x].id}
    /\ UNCHANGED <<db, points, files, retries, sub, att>>

DeleteVectors(x) ==
    /\ del[x].pc = "vectors" /\ DelGoto(x, "file")
    /\ points' = points \ {del[x].id}
    /\ UNCHANGED <<db, files, rq, sub, att>>

DeleteFile(x) ==
    /\ del[x].pc = "file" /\ DelGoto(x, "row")
    /\ files' = files \ {del[x].id}
    /\ UNCHANGED <<db, points, rq, sub, att>>

\* the foreign keys cascade to the job and the chunks
DeleteRow(x) ==
    /\ del[x].pc = "row"
    /\ del' = [del EXCEPT ![x] = IdleDelete]
    /\ SetBoth(del[x].id, NoRow, NoRow)
    /\ chunks' = chunks \ {del[x].id}
    /\ UNCHANGED <<revision, accepted, points, files, rq, sub, att>>

\* A step of the deletion fails and the request ends with an error, or the
\* API stops.  A failed call to Qdrant may have been applied.
DeleteFails(x) ==
    /\ del[x].pc # "idle"
    /\ del' = [del EXCEPT ![x] = IdleDelete]
    /\ points' \in {points, IF del[x].pc = "vectors" THEN points \ {del[x].id} ELSE points}
    /\ UNCHANGED <<db, files, rq, sub, att>>
---------------------------------------------------------------------------
SubmitStep(d) ==
    \/ SaveFile(d) \/ CheckHash(d) \/ Insert(d) \/ InsertFails(d) \/ Unstore(d) \/ Enqueue(d)
    \/ DispatchReadDoc(d) \/ DispatchReadJob(d) \/ DispatchSaveDoc(d) \/ DispatchSaveJob(d)
    \/ DispatchFailed(d) \/ DispatchAborts(d)

AttemptStep(w) ==
    \/ StartReadJob(w) \/ StartReadDoc(w) \/ StartSaveDoc(w) \/ StartSaveJob(w) \/ StartJob(w)
    \/ Prepare(w) \/ Upsert(w)
    \/ FinalReadDoc(w) \/ FinalReadJob(w) \/ FinalSaveDoc(w) \/ FinalSaveJob(w) \/ Publish(w)
    \/ FailReadDoc(w) \/ FailReadJob(w) \/ FailSaveDoc(w) \/ FailSaveJob(w) \/ MarkFailed(w)
    \/ Cleanup(w) \/ AttemptAborts(w)

DeleteStep(x) ==
    \/ DeleteSave(x) \/ DeleteMark(x) \/ DeleteCancel(x) \/ DeleteVectors(x) \/ DeleteFile(x) \/ DeleteRow(x)
    \/ DeleteFails(x)

Next ==
    \/ \E d \in Docs : Reject(d) \/ SubmitStep(d) \/ ApiCrash(d)
    \/ \E w \in Workers : AttemptStep(w) \/ WorkerCrash(w) \/ Abandon(w)
    \/ \E w \in Workers, d \in Docs : Deliver(w, d)
    \/ \E x \in Deleters : DeleteStep(x)
    \/ \E x \in Deleters, d \in Docs : DeleteRead(x, d)

Spec == Init /\ [][Next]_vars

(* An actor that can take a step takes it, RQ hands out a waiting job, and  *)
(* a submission in progress goes on: each is a thread or process of its own. *)
Fairness ==
    /\ \A d \in Docs : WF_vars(SubmitStep(d))
    /\ \A w \in Workers : WF_vars(AttemptStep(w))
    /\ \A w \in Workers, d \in Docs : WF_vars(Deliver(w, d))
    /\ \A x \in Deleters : WF_vars(DeleteStep(x))

(* The client repeats a deletion until it is done, as a 503 reply asks, and *)
(* the steps of the cleanup do not fail for ever.                            *)
RetriedDeletion ==
    \A x \in Deleters :
        /\ \A d \in Docs : WF_vars(d \in accepted /\ DeleteRead(x, d))
        /\ <>[][~DeleteFails(x)]_vars

FairSpec == Spec /\ Fairness
RetryingSpec == FairSpec /\ RetriedDeletion
---------------------------------------------------------------------------
SubPC == DispatchPC \union {"new", "check", "insert", "unstore", "enqueue", "done"}
AttPC == StartPC \union FinalPC \union FailPC \union {"prepare", "upsert", "cleanup"}
DelPC == {"save", "mark", "cancel", "vectors", "file", "row"}

DocRow == DocumentStatus \union {NoRow}
JobRow == IngestionJobStatus \union {NoRow}

Submission == [pc : SubPC, doc : DocRow, job : JobRow]
Attempt    == [pc : AttPC, id : Docs, doc : DocRow, job : JobRow] \union {IdleAttempt}
Deletion   == [pc : DelPC, id : Docs, doc : DocRow] \union {IdleDelete}

\* The variables range over what the code stores and what its threads hold.
TypeOK ==
    /\ docRow \in [Docs -> DocRow] /\ jobRow \in [Docs -> JobRow]
    /\ chunks \subseteq Docs /\ points \subseteq Docs
    /\ files \subseteq Docs /\ accepted \subseteq Docs
    /\ revision \in Nat
    /\ queued \subseteq Docs /\ retries \in [Docs -> Nat]
    /\ sub \in [Docs -> Submission]
    /\ att \in [Workers -> Attempt]
    /\ del \in [Deleters -> Deletion]

(* The document row and the job row tell the same story, although four     *)
(* handlers write them from values read before others committed: a lost    *)
(* update must overwrite both or neither.  Only a deletion writes one.     *)
StatusPairs ==
    {<<NoRow, NoRow>>, <<"queued", "queued">>, <<"processing", "running">>,
     <<"ready", "succeeded">>, <<"failed", "failed">>,
     <<"deleting", "running">>, <<"deleting", "succeeded">>, <<"deleting", "failed">>}

StatusAgreement == \A d \in Docs : <<docRow[d], jobRow[d]>> \in StatusPairs

(* A document that was never asked to be deleted is searchable only with   *)
(* its chunks, its vectors and its file in place (the consistency model of *)
(* the architecture), whatever order retries, failed dispatches and        *)
(* suppressed cleanups come in.                                            *)
ReadyIsComplete ==
    \A d \in Docs \ accepted :
        docRow[d] = "ready" => d \in chunks /\ d \in points /\ d \in files

(* Two documents in the database never have the same content: the lookup   *)
(* by hash is not atomic with the insert, the constraint is.               *)
ContentIsUnique ==
    \A d, e \in Docs : d # e /\ Sha[d] = Sha[e] => docRow[d] = NoRow \/ docRow[e] = NoRow

(* Searches see a corpus: documents enter it only with a new revision, and *)
(* whatever the handlers interleave to, its steps are those of Corpus.     *)
Searchable == {d \in Docs : docRow[d] = "ready"}
Seen == INSTANCE Corpus WITH searchable <- Searchable
ImplementsCorpus == Seen!Spec

(* A cached result is never older than the corpus: what is searchable      *)
(* changes only together with the revision in the cache key.               *)
EveryChangeIsAnnounced == [][Searchable' # Searchable => revision' # revision]_vars

(* Every accepted upload ends up indexed, failed or deleted.               *)
Unsettled(d) == docRow[d] \in {"queued", "processing"}
Settles == \A d \in Docs : Unsettled(d) ~> ~Unsettled(d)

(* Once a deletion is accepted the document goes, however often its        *)
(* cleanup fails and whatever a late attempt writes over the row.          *)
DeletionCompletes == \A d \in Docs : d \in accepted ~> docRow[d] = NoRow
===========================================================================
