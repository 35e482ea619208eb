-------------------------------- MODULE Api --------------------------------
(* What the HTTP API tells its clients (api/routes/documents.py and        *)
(* api/errors.py) while the workflow goes on: the exception each upload    *)
(* ends with, the reply it becomes, and the replies to requests to delete. *)
(* Every step is one of DocumentWorkflow or changes replies only.          *)
EXTENDS DocumentWorkflow

VARIABLES
    error,    \* the exception in flight while an upload cleans up
    reply,    \* the reply to each upload
    told      \* the last reply to the requests to delete each document

replies == <<error, reply, told>>
apiVars == <<vars, replies>>

NoError == "none"
\* no status: not answered yet, and never to be since the API stopped
NoReply == 0
Lost == 1

\* IngestionError is 413 or 415 for some of its codes
UploadStatus ==
    [IngestionError |-> 400, DuplicateDocumentError |-> 409, QueueDispatchError |-> 503,
     Unhandled |-> 500]

DeletionStatus ==
    [DocumentNotFoundError |-> 404, DocumentDeletionConflictError |-> 409,
     DocumentCleanupError |-> 503, Unhandled |-> 500]

Accepted == 202
NoContent == 204

IsRefusal(status) == status \in 400 .. 499

ApiInit ==
    /\ Init
    /\ error = [d \in Docs |-> NoError]
    /\ reply = [d \in Docs |-> NoReply]
    /\ told = [d \in Docs |-> NoReply]

Raises(d, exception) == error' = [error EXCEPT ![d] = exception] /\ UNCHANGED <<reply, told>>

Replies(d, status) ==
    /\ reply' = [reply EXCEPT ![d] = status]
    /\ error' = [error EXCEPT ![d] = NoError]
    /\ UNCHANGED told

Tells(d, status) == told' = [told EXCEPT ![d] = status] /\ UNCHANGED <<error, reply>>
---------------------------------------------------------------------------
(* POST /documents *)

Rejected(d) ==
    /\ Reject(d)
    /\ \E exception \in {"IngestionError", "Unhandled"} : Replies(d, UploadStatus[exception])

Looked(d) ==
    /\ CheckHash(d)
    /\ IF sub'[d].pc = "unstore" THEN Raises(d, "DuplicateDocumentError") ELSE UNCHANGED replies

\* mutant: whatever the transaction raises is taken for a lost race
InsertedBroadly(d) ==
    /\ Insert(d)
    /\ IF sub'[d].pc = "unstore" THEN Raises(d, "IntegrityError") ELSE UNCHANGED replies

Inserted(d) ==
    /\ Insert(d)
    /\ IF sub'[d].pc = "unstore" THEN Raises(d, "Unhandled") ELSE UNCHANGED replies

NotInserted(d) ==
    /\ InsertFails(d)
    /\ \/ sub[d].pc = "insert" /\ ContentTaken(d) /\ Raises(d, "IntegrityError")
       \/ Raises(d, "Unhandled")

\* an error of the clean-up replaces the one that led to it
Unstored(d) ==
    /\ Unstore(d)
    /\ \/ d \in files' /\ Replies(d, UploadStatus["Unhandled"])
       \/ d \notin files' /\ error[d] = "IntegrityError" /\ UNCHANGED replies
       \/ d \notin files' /\ error[d] # "IntegrityError" /\ Replies(d, UploadStatus[error[d]])

\* the lookup after a lost race, in a transaction of its own
LookedAgain(d) ==
    /\ sub[d].pc = "done" /\ error[d] = "IntegrityError"
    /\ \/ ContentTaken(d) /\ Replies(d, UploadStatus["DuplicateDocumentError"])
       \/ (~ContentTaken(d) \/ "db_error" \in Faults) /\ Replies(d, UploadStatus["Unhandled"])
    /\ UNCHANGED vars

Enqueued(d) ==
    /\ Enqueue(d)
    /\ IF sub'[d].pc = "done" THEN Replies(d, Accepted) ELSE UNCHANGED replies

\* without rows _mark_dispatch_failed returns; a transition they refuse raises
NotDispatched(d) ==
    /\ DispatchReadJob(d)
    /\ IF sub'[d].pc # "done"
       THEN UNCHANGED replies
       ELSE Replies(d, UploadStatus[IF NoRow \in {sub[d].doc, jobRow[d]}
                                    THEN "QueueDispatchError" ELSE "Unhandled"])

DispatchSaved(d) ==
    /\ DispatchSaveDoc(d) \/ DispatchSaveJob(d)
    /\ IF sub'[d].pc = "done" THEN Replies(d, UploadStatus["Unhandled"]) ELSE UNCHANGED replies

DispatchAborted(d) == DispatchAborts(d) /\ Replies(d, UploadStatus["Unhandled"])

DispatchMarked(d) ==
    /\ DispatchFailed(d)
    /\ \/ <<docRow'[d], jobRow'[d]>> = <<"failed", "failed">>
          /\ \/ Replies(d, UploadStatus["QueueDispatchError"])
             \/ "late_error" \in Faults /\ Replies(d, UploadStatus["Unhandled"])
       \/ docRow' = docRow /\ jobRow' = jobRow /\ Replies(d, UploadStatus["Unhandled"])

\* nobody is answered any more
Stopped(d) ==
    /\ Replies(d, Lost)
    /\ \/ ApiCrash(d)
       \/ "api_crash" \in Faults /\ sub[d].pc = "done" /\ error[d] # NoError /\ UNCHANGED vars
---------------------------------------------------------------------------
(* DELETE /documents/{document_id}, for a document that has been one *)

Unknown(d) ==
    /\ d \in accepted /\ docRow[d] = NoRow
    /\ Tells(d, DeletionStatus["DocumentNotFoundError"]) /\ UNCHANGED vars

Conflict(d) ==
    /\ docRow[d] \in {"uploaded", "queued", "processing"}
    /\ Tells(d, DeletionStatus["DocumentDeletionConflictError"]) /\ UNCHANGED vars

\* an exception after the commit ends the request at once
Marked(x) ==
    /\ DeleteMark(x)
    /\ IF del'[x] = IdleDelete
       THEN Tells(del[x].id, DeletionStatus["Unhandled"])
       ELSE UNCHANGED replies

Removed(x) ==
    /\ DeleteRow(x)
    /\ \/ Tells(del[x].id, NoContent)
       \/ "late_error" \in Faults /\ Tells(del[x].id, DeletionStatus["Unhandled"])

\* only the calls outside the transactions are wrapped; an API that stops tells nothing
NotRemoved(x) ==
    /\ DeleteFails(x)
    /\ \/ UNCHANGED replies
       \/ Tells(del[x].id, DeletionStatus[IF del[x].pc \in {"cancel", "vectors", "file"}
                                          THEN "DocumentCleanupError" ELSE "Unhandled"])
---------------------------------------------------------------------------
Answers(d) ==
    \/ Rejected(d) \/ Looked(d) \/ Inserted(d) \/ NotInserted(d) \/ Unstored(d) \/ LookedAgain(d)
    \/ Enqueued(d) \/ NotDispatched(d) \/ DispatchSaved(d) \/ DispatchAborted(d)
    \/ DispatchMarked(d) \/ Stopped(d) \/ Unknown(d) \/ Conflict(d)

Silent ==
    \/ \E d \in Docs : SaveFile(d) \/ DispatchReadDoc(d)
    \/ \E w \in Workers : AttemptStep(w) \/ WorkerCrash(w) \/ Abandon(w)
    \/ \E w \in Workers, d \in Docs : Deliver(w, d)
    \/ \E x \in Deleters : DeleteSave(x) \/ DeleteCancel(x) \/ DeleteVectors(x) \/ DeleteFile(x)
    \/ \E x \in Deleters, d \in Docs : DeleteRead(x, d)

ApiNext ==
    \/ \E d \in Docs : Answers(d)
    \/ \E x \in Deleters : Marked(x) \/ Removed(x) \/ NotRemoved(x)
    \/ Silent /\ UNCHANGED replies

ApiSpec == ApiInit /\ [][ApiNext]_apiVars
---------------------------------------------------------------------------
\* what an upload may clean up after
Exceptions == {"DuplicateDocumentError", "IntegrityError", "Unhandled"}

ReplyStatus == {400, 409, 500, 503, Accepted, NoReply, Lost}
ToldStatus  == {404, 409, 500, 503, NoContent, NoReply}

ApiTypeOK ==
    /\ error \in [Docs -> Exceptions \union {NoError}]
    /\ reply \in [Docs -> ReplyStatus] /\ told \in [Docs -> ToldStatus]

(* An upload that is refused leaves nothing: no row, no file, no job, no   *)
(* point, at the time of the reply and ever after, so that the client may  *)
(* take the reply at its word.                                              *)
RefusedLeavesNothing ==
    \A d \in Docs : IsRefusal(reply[d]) =>
        /\ docRow[d] = NoRow /\ d \notin files \union queued \union points
        /\ \A w \in Workers : att[w].id # d

(* Uploads of one content do not refuse each other: when one is answered   *)
(* as a duplicate there is another that was not and is not refused.        *)
NotAllAreDuplicates ==
    \A d \in Docs : reply[d] = UploadStatus["DuplicateDocumentError"] =>
        \E e \in Docs \ {d} :
            Sha[e] = Sha[d] /\ sub[e].pc \notin {"new", "check", "insert"} /\ ~IsRefusal(reply[e])

(* A document of which the client was told that it is stored, scheduled or *)
(* not ("The document was stored but could not be scheduled"), is there    *)
(* until its deletion is accepted.                                         *)
StoredIsKept ==
    \A d \in Docs : reply[d] \in {Accepted, UploadStatus["QueueDispatchError"]} =>
        docRow[d] # NoRow \/ d \in accepted

(* An upload answered with 202 never waits for nothing: while it is queued *)
(* RQ has its job, waiting or under way, or has used up every retry.  The  *)
(* API may stop between the commit and the enqueue, but then it has        *)
(* promised nothing.                                                        *)
AcceptedIsSent ==
    \A d \in Docs : reply[d] = Accepted /\ docRow[d] = "queued" =>
        d \in queued \/ retries[d] = 0 \/ \E w \in Workers : att[w].id = d

(* A stored file without a row belongs to an upload that still runs, or    *)
(* that the API stopped in the middle of: neither a duplicate nor a failed *)
(* transaction nor a deletion leaves its file behind.                      *)
NoOrphanFile ==
    \A d \in files :
        \/ docRow[d] # NoRow
        \/ sub[d].pc \in {"check", "insert", "unstore"}
        \/ reply[d] = Lost

(* A job that succeeded stays so until its document is deleted, whatever   *)
(* is delivered again.  Only an upload whose job Redis took without saying *)
(* so may fail it, in the step that answers the client with an error: 503, *)
(* or 500 when the commit took effect and raised all the same.             *)
SuccessIsFinal ==
    [][\A d \in Docs : jobRow[d] = "succeeded" =>
        \/ jobRow'[d] \in {"succeeded", NoRow}
        \/ /\ jobRow'[d] = "failed" /\ reply[d] = NoReply
           /\ \/ reply'[d] = UploadStatus["QueueDispatchError"]
              \/ "late_error" \in Faults /\ reply'[d] = UploadStatus["Unhandled"]]_apiVars

(* A deletion answered with 204, or with 404 afterwards, is final: no      *)
(* attempt that was under way brings the row, its chunks or its file back. *)
DeletedIsGone ==
    \A d \in Docs : told[d] \in {NoContent, DeletionStatus["DocumentNotFoundError"]} =>
        docRow[d] = NoRow /\ jobRow[d] = NoRow /\ d \notin chunks \union files
===========================================================================
