----------------------------- MODULE ApiProofs -----------------------------
(* What a client was told stays true, for any number of clients, workers   *)
(* and deletions and, unless a theorem says otherwise, every fault.        *)
EXTENDS Api, DocumentWorkflowProofs

(* A step of the API is a step of the workflow or changes replies only.    *)
LEMMA ApiStepIsStep ==
    ASSUME [ApiNext]_apiVars
    PROVE  [Next]_vars
<1>1. ASSUME NEW d \in Docs, Answers(d) PROVE [Next]_vars
  BY <1>1 DEF Answers, Rejected, Looked, Inserted, NotInserted, Unstored, LookedAgain, Enqueued,
     NotDispatched, DispatchSaved, DispatchAborted, DispatchMarked, Stopped, Unknown, Conflict,
     Next, SubmitStep
<1>2. ASSUME NEW x \in Deleters, Marked(x) \/ Removed(x) \/ NotRemoved(x) PROVE [Next]_vars
  BY <1>2 DEF Marked, Removed, NotRemoved, Next, DeleteStep
<1>3. CASE Silent
  BY <1>3 DEF Silent, Next, SubmitStep, DeleteStep
<1>4. CASE UNCHANGED apiVars
  BY <1>4 DEF apiVars
<1> QED BY <1>1, <1>2, <1>3, <1>4 DEF ApiNext

(* The API serves the workflow of DocumentWorkflow and no other: whatever  *)
(* holds of Spec holds of ApiSpec.                                         *)
THEOREM ApiRunsTheWorkflow == ApiSpec => Spec
<1>1. ApiInit => Init
  BY DEF ApiInit
<1> QED BY <1>1, ApiStepIsStep, PTL DEF ApiSpec, Spec

LEMMA ApiTypes == ApiSpec => []TypeOK
BY ApiRunsTheWorkflow, TypeCorrect, PTL

LEMMA ApiCleanups == ApiSpec => []CleanupIsAccepted
<1>1. ApiInit => CleanupIsAccepted
  BY DEF ApiInit, Init, CleanupIsAccepted, IdleDelete, NoRow
<1>2. TypeOK /\ CleanupIsAccepted /\ [ApiNext]_apiVars => CleanupIsAccepted'
  BY ApiStepIsStep, CleanupIsAcceptedStep
<1> QED BY <1>1, <1>2, ApiTypes, PTL DEF ApiSpec

LEMMA Statuses ==
    /\ UploadStatus["IngestionError"] = 400 /\ UploadStatus["DuplicateDocumentError"] = 409
    /\ UploadStatus["QueueDispatchError"] = 503 /\ UploadStatus["Unhandled"] = 500
    /\ DeletionStatus["DocumentNotFoundError"] = 404
    /\ DeletionStatus["DocumentDeletionConflictError"] = 409
    /\ DeletionStatus["DocumentCleanupError"] = 503 /\ DeletionStatus["Unhandled"] = 500
BY DEF UploadStatus, DeletionStatus
---------------------------------------------------------------------------
(* Rows and acceptances *)

\* a document that is stored, or was until its deletion was accepted
Kept(d) == docRow[d] # NoRow \/ d \in accepted

LEMMA AcceptedGrows ==
    ASSUME TypeOK, [Next]_vars
    PROVE  /\ accepted \subseteq accepted'
           /\ \A d \in accepted' \ accepted : docRow[d] # NoRow
<1>1. ASSUME NEW x \in Deleters, DeleteStep(x)
      PROVE  \/ accepted' = accepted
             \/ accepted' = accepted \union {del[x].id} /\ docRow[del[x].id] # NoRow
  <2>1. CASE DeleteMark(x)
    BY <2>1 DEF DeleteMark, UpdateCommits
  <2>2. CASE ~DeleteMark(x)
    BY <1>1, <2>2
       DEF DeleteStep, DeleteSave, DeleteCancel, DeleteVectors, DeleteFile, DeleteRow,
           DeleteFails, db
  <2> QED BY <2>1, <2>2
<1>2. ASSUME NEW w \in Workers, Abandon(w) PROVE accepted' = accepted
  BY <1>2 DEF Abandon, db
<1>3. ASSUME NEW w \in Workers, NEW d \in Docs, Deliver(w, d) PROVE accepted' = accepted
  BY <1>3 DEF Deliver, db
<1>4. ASSUME NEW x \in Deleters, NEW d \in Docs, DeleteRead(x, d) PROVE accepted' = accepted
  BY <1>4 DEF DeleteRead, db
<1>5. CASE UNCHANGED vars
  BY <1>5 DEF vars, db
<1> QED BY <1>1, <1>2, <1>3, <1>4, <1>5, SubmissionFrame, AttemptFrame DEF Next

(* Only the last step of a deletion removes rows. *)
LEMMA RowsGo ==
    ASSUME TypeOK, [Next]_vars, NEW d \in Docs, docRow[d] # NoRow, docRow'[d] = NoRow
    PROVE  \E x \in Deleters : DeleteRow(x) /\ del[x].id = d
<1> USE DEF TypeOK
<1>1. ASSUME NEW e \in Docs, Reject(e) \/ SubmitStep(e) \/ ApiCrash(e) PROVE FALSE
  BY <1>1, SubmissionRows, SubmissionFrame DEF OthersKept, NoRow
<1>2. ASSUME NEW w \in Workers, AttemptStep(w) \/ WorkerCrash(w) PROVE FALSE
  BY <1>2, AttemptRows, AttemptFrame, BusyAttempt DEF OthersKept, DocMoves, NoRow
<1>3. ASSUME NEW w \in Workers, Abandon(w) PROVE FALSE
  BY <1>3 DEF Abandon, db
<1>4. ASSUME NEW w \in Workers, NEW e \in Docs, Deliver(w, e) PROVE FALSE
  BY <1>4 DEF Deliver, db
<1>5. ASSUME NEW x \in Deleters, NEW e \in Docs, DeleteRead(x, e) PROVE FALSE
  BY <1>5 DEF DeleteRead, db
<1>6. ASSUME NEW x \in Deleters, DeleteStep(x) PROVE DeleteRow(x) /\ del[x].id = d
  <2>1. d = del[x].id
    BY <1>6, DeletionFrame DEF OthersKept
  <2>2. CASE DeleteMark(x)
    BY <2>1, <2>2, UpdatedRow DEF DeleteMark, NoRow
  <2>3. CASE DeleteSave(x) \/ DeleteCancel(x) \/ DeleteVectors(x) \/ DeleteFile(x) \/ DeleteFails(x)
    BY <2>3 DEF DeleteSave, DeleteCancel, DeleteVectors, DeleteFile, DeleteFails, db
  <2> QED BY <1>6, <2>1, <2>2, <2>3 DEF DeleteStep
<1>7. ~UNCHANGED vars
  BY DEF vars, db
<1> QED BY <1>1, <1>2, <1>3, <1>4, <1>5, <1>6, <1>7 DEF Next

LEMMA KeptStays ==
    ASSUME TypeOK, CleanupIsAccepted, [Next]_vars, NEW d \in Docs, Kept(d)
    PROVE  Kept(d)'
<1>1. CASE docRow[d] # NoRow /\ docRow'[d] = NoRow
  <2>1. PICK x \in Deleters : DeleteRow(x) /\ del[x].id = d
    BY <1>1, RowsGo
  <2> QED BY <2>1, AcceptedGrows DEF DeleteRow, CleanupIsAccepted, Kept
<1> QED BY <1>1, AcceptedGrows DEF Kept
---------------------------------------------------------------------------
(* StoredIsKept *)

\* a submission that has committed its rows
Committed == {"enqueue"} \union DispatchPC

\* one that has not, and nobody else touches
Uncommitted == {"new", "check", "insert"}

CommittedIsKept == \A d \in Docs : sub[d].pc \in Committed => Kept(d)

\* an upload cleans up because of an exception
CleansUpAfter == \A d \in Docs : sub[d].pc = "unstore" => error[d] # NoError

(* How a submission whose job was not sent goes on. *)
LEMMA DispatchGoes ==
    ASSUME TypeOK, NEW d \in Docs
    PROVE  /\ DispatchReadDoc(d) => sub[d].pc = "dispatch_doc" /\ sub'[d].pc = "dispatch_job"
           /\ DispatchReadJob(d) =>
                sub[d].pc = "dispatch_job" /\ sub'[d].pc \in {"dispatch_save_doc", "done"}
           /\ DispatchSaveDoc(d) =>
                sub[d].pc = "dispatch_save_doc" /\ sub'[d].pc \in {"dispatch_save_job", "done"}
           /\ DispatchSaveJob(d) =>
                sub[d].pc = "dispatch_save_job" /\ sub'[d].pc \in {"dispatch", "done"}
           /\ DispatchFailed(d) => sub[d].pc = "dispatch" /\ sub'[d].pc = "done"
           /\ DispatchAborts(d) => sub[d].pc \in DispatchPC /\ sub'[d].pc = "done"
<1>1. ASSUME NEW pc, NEW doc, NEW job, SubHolds(d, pc, doc, job) PROVE sub'[d].pc = pc
  BY <1>1 DEF SubHolds, TypeOK
<1> QED BY <1>1 DEF SubGoto, DispatchReadDoc, DispatchReadJob, DispatchSaveDoc, DispatchSaveJob,
     DispatchFailed, DispatchAborts

(* How a submission moves on: it commits only by its insert. *)
LEMMA SubmissionMoves ==
    ASSUME TypeOK, [Next]_vars, NEW d \in Docs
    PROVE  /\ sub'[d].pc \in Committed => sub[d].pc \in Committed \/ docRow'[d] # NoRow
           /\ sub'[d].pc \in Uncommitted => sub[d].pc \in Uncommitted
<1> USE DEF TypeOK, SubGoto, SubHolds, Committed, DispatchPC, Uncommitted
<1>1. ASSUME sub'[d] # sub[d] PROVE Reject(d) \/ SubmitStep(d) \/ ApiCrash(d)
  <2>1. ASSUME NEW e \in Docs, e # d, Reject(e) \/ SubmitStep(e) \/ ApiCrash(e) PROVE FALSE
    BY <1>1, <2>1, SubmissionFrame
  <2>2. ASSUME NEW w \in Workers, AttemptStep(w) \/ WorkerCrash(w) PROVE FALSE
    BY <1>1, <2>2, AttemptFrame
  <2>3. ASSUME NEW x \in Deleters, DeleteStep(x) PROVE FALSE
    BY <1>1, <2>3, DeletionFrame
  <2>4. ASSUME NEW w \in Workers, Abandon(w) PROVE FALSE
    BY <1>1, <2>4 DEF Abandon
  <2>5. ASSUME NEW w \in Workers, NEW e \in Docs, Deliver(w, e) PROVE FALSE
    BY <1>1, <2>5 DEF Deliver
  <2>6. ASSUME NEW x \in Deleters, NEW e \in Docs, DeleteRead(x, e) PROVE FALSE
    BY <1>1, <2>6 DEF DeleteRead
  <2>7. ~UNCHANGED vars
    BY <1>1 DEF vars
  <2> QED BY <2>1, <2>2, <2>3, <2>4, <2>5, <2>6, <2>7 DEF Next
<1>2. CASE sub'[d] = sub[d]
  BY <1>2
<1>3. CASE Insert(d)
  <2>1. sub'[d].pc \notin {"new", "check", "insert"} /\ sub[d].pc = "insert"
    BY <1>3 DEF Insert
  <2>2. sub'[d].pc \in Committed => docRow'[d] # NoRow
    BY <1>3 DEF Insert, SetBoth, NoRow
  <2> QED BY <1>3, <2>1, <2>2
<1>4. CASE CheckHash(d)
  BY <1>4 DEF CheckHash
<1>5. CASE InsertFails(d)
  BY <1>5 DEF InsertFails
<1>6. CASE Reject(d) \/ SaveFile(d) \/ Unstore(d) \/ ApiCrash(d)
  BY <1>6 DEF Reject, SaveFile, Unstore, ApiCrash
<1>7. CASE Enqueue(d)
  BY <1>7 DEF Enqueue
<1>8. CASE DispatchReadDoc(d) \/ DispatchReadJob(d) \/ DispatchSaveDoc(d) \/ DispatchSaveJob(d)
             \/ DispatchFailed(d) \/ DispatchAborts(d)
  <2>1. sub[d].pc \in DispatchPC /\ sub'[d].pc \in DispatchPC \union {"done"}
    BY <1>8, DispatchGoes
  <2> QED BY <2>1
<1> QED BY <1>1, <1>2, <1>3, <1>4, <1>5, <1>6, <1>7, <1>8 DEF SubmitStep

(* What a step of the upload of d, or a request to delete d that changes   *)
(* nothing, answers.                                                        *)
LEMMA AnswerForm ==
    ASSUME TypeOK, ApiTypeOK, CleansUpAfter, NEW d \in Docs, Answers(d)
    PROVE  \/ UNCHANGED replies /\ sub'[d].pc # "unstore"
           \/ \E e \in Exceptions : Raises(d, e)
           \/ \E s \in ReplyStatus :
                 /\ Replies(d, s) /\ sub'[d].pc # "unstore"
                 /\ s \in {202, 503} => sub[d].pc \in Committed
           \/ \E t \in ToldStatus :
                 /\ Tells(d, t) /\ UNCHANGED vars /\ t # NoContent
                 /\ t = 404 => d \in accepted /\ docRow[d] = NoRow
<1> USE Statuses
    DEF Exceptions, ReplyStatus, ToldStatus, Committed, DispatchPC, TypeOK, SubGoto, SubHolds
<1>1. CASE Rejected(d)
  <2>1. sub'[d].pc = "done"
    BY <1>1 DEF Rejected, Reject
  <2>2. \E s \in {400, 500} : Replies(d, s)
    BY <1>1 DEF Rejected
  <2> QED BY <2>1, <2>2
<1>2. CASE Looked(d)
  BY <1>2 DEF Looked
<1>3. CASE Inserted(d)
  BY <1>3 DEF Inserted
<1>4. CASE NotInserted(d)
  BY <1>4 DEF NotInserted
<1>5. CASE Unstored(d)
  <2>1. sub'[d].pc = "done" /\ error[d] \in Exceptions
    BY <1>5 DEF Unstored, Unstore, CleansUpAfter, ApiTypeOK
  <2>2. \/ UNCHANGED replies
        \/ Replies(d, 500) \/ Replies(d, 409)
    BY <1>5, <2>1 DEF Unstored
  <2> QED BY <2>1, <2>2
<1>6. CASE LookedAgain(d)
  <2>1. sub'[d].pc = "done"
    BY <1>6 DEF LookedAgain, vars
  <2>2. Replies(d, 409) \/ Replies(d, 500)
    BY <1>6 DEF LookedAgain
  <2> QED BY <2>1, <2>2
<1>7. CASE Enqueued(d)
  <2>1. sub'[d].pc # "unstore" /\ sub[d].pc = "enqueue"
    BY <1>7 DEF Enqueued, Enqueue
  <2> QED BY <1>7, <2>1 DEF Enqueued, Accepted
<1>8. CASE NotDispatched(d)
  <2>1. sub'[d].pc # "unstore" /\ sub[d].pc = "dispatch_job"
    BY <1>8, DispatchGoes DEF NotDispatched
  <2>2. UNCHANGED replies \/ Replies(d, 503) \/ Replies(d, 500)
    BY <1>8 DEF NotDispatched
  <2> QED BY <2>1, <2>2
<1>9. CASE DispatchSaved(d) \/ DispatchAborted(d) \/ DispatchMarked(d)
  <2>1. sub'[d].pc # "unstore" /\ sub[d].pc \in DispatchPC
    BY <1>9, DispatchGoes DEF DispatchSaved, DispatchAborted, DispatchMarked
  <2>2. UNCHANGED replies \/ Replies(d, 503) \/ Replies(d, 500)
    BY <1>9 DEF DispatchSaved, DispatchAborted, DispatchMarked
  <2> QED BY <2>1, <2>2
<1>10. CASE Stopped(d)
  <2>1. sub'[d].pc = "done"
    BY <1>10 DEF Stopped, ApiCrash, vars
  <2> QED BY <1>10, <2>1 DEF Stopped, Lost
<1>11. CASE Unknown(d)
  BY <1>11 DEF Unknown, NoContent
<1>12. CASE Conflict(d)
  BY <1>12 DEF Conflict, NoContent
<1> QED BY <1>1, <1>2, <1>3, <1>4, <1>5, <1>6, <1>7, <1>8, <1>9, <1>10, <1>11, <1>12 DEF Answers

(* The replies of a deletion. *)
LEMMA DeletionAnswers ==
    ASSUME NEW x \in Deleters, Marked(x) \/ Removed(x) \/ NotRemoved(x)
    PROVE  \/ UNCHANGED replies
           \/ \E t \in {500, 503} : Tells(del[x].id, t)
           \/ DeleteRow(x) /\ Tells(del[x].id, NoContent)
BY Statuses DEF Marked, Removed, NotRemoved

(* The invariants of the replies. *)
RepliesInv == ApiTypeOK /\ CleansUpAfter

LEMMA SilentStarts ==
    ASSUME TypeOK, Silent \/ \E x \in Deleters : Marked(x) \/ Removed(x) \/ NotRemoved(x), NEW d \in Docs,
           sub'[d].pc = "unstore"
    PROVE  sub[d].pc = "unstore"
<1> USE DEF TypeOK, SubGoto, SubHolds
<1>1. ASSUME NEW e \in Docs, SaveFile(e) \/ DispatchReadDoc(e) PROVE sub[d].pc = "unstore"
  <2>1. SubHolds(e, "check", NoRow, NoRow) \/ SubHolds(e, "dispatch_job", docRow[e], NoRow)
    BY <1>1 DEF SaveFile, DispatchReadDoc
  <2> QED BY <2>1
<1>2. ASSUME NEW w \in Workers, AttemptStep(w) \/ WorkerCrash(w) \/ Abandon(w)
      PROVE  sub' = sub
  BY <1>2, AttemptFrame DEF Abandon
<1>3. ASSUME NEW w \in Workers, NEW e \in Docs, Deliver(w, e) PROVE sub' = sub
  BY <1>3 DEF Deliver
<1>4. ASSUME NEW x \in Deleters, DeleteStep(x) \/ \E e \in Docs : DeleteRead(x, e)
      PROVE  sub' = sub
  BY <1>4, DeletionFrame DEF DeleteRead
<1> QED BY <1>1, <1>2, <1>3, <1>4 DEF Silent, DeleteStep, Marked, Removed, NotRemoved

LEMMA RepliesStep ==
    ASSUME TypeOK, CleanupIsAccepted, RepliesInv, [ApiNext]_apiVars
    PROVE  RepliesInv'
<1> USE DEF RepliesInv, ApiTypeOK, CleansUpAfter, TypeOK
<1>1. ASSUME NEW d \in Docs, Answers(d) PROVE RepliesInv'
  <2>1. \A e \in Docs : e # d => sub'[e] = sub[e]
    <3>1. [Next]_vars
      BY ApiStepIsStep
    <3> QED BY <1>1, SubmissionFrame
        DEF Answers, Rejected, Looked, Inserted, NotInserted, Unstored, LookedAgain, Enqueued,
            NotDispatched, DispatchSaved, DispatchAborted, DispatchMarked, Stopped, Unknown,
            Conflict, SubmitStep, vars
  <2>2. CASE UNCHANGED replies /\ sub'[d].pc # "unstore"
    BY <2>1, <2>2 DEF replies
  <2>3. ASSUME NEW e \in Exceptions, Raises(d, e) PROVE RepliesInv'
    BY <2>1, <2>3 DEF Raises, Exceptions, NoError
  <2>4. ASSUME NEW r \in ReplyStatus, Replies(d, r), sub'[d].pc # "unstore" PROVE RepliesInv'
    BY <2>1, <2>4 DEF Replies
  <2>5. ASSUME NEW t \in ToldStatus, Tells(d, t), UNCHANGED vars PROVE RepliesInv'
    BY <2>5 DEF Tells, vars
  <2> QED BY <1>1, <2>2, <2>3, <2>4, <2>5, AnswerForm
<1>2. ASSUME NEW x \in Deleters, Marked(x) \/ Removed(x) \/ NotRemoved(x) PROVE RepliesInv'
  <2>1. \/ UNCHANGED replies
        \/ \E t \in ToldStatus : Tells(del[x].id, t)
    BY <1>2, DeletionAnswers DEF ToldStatus
  <2>2. ApiTypeOK' /\ error' = error
    BY <2>1 DEF Tells, replies
  <2> QED BY <1>2, <2>2, SilentStarts
<1>3. CASE Silent /\ UNCHANGED replies
  BY <1>3, SilentStarts DEF replies
<1>4. CASE UNCHANGED apiVars
  BY <1>4 DEF apiVars, vars, replies
<1> QED BY <1>1, <1>2, <1>3, <1>4 DEF ApiNext

LEMMA RepliesAlways == ApiSpec => []RepliesInv
<1>1. ApiInit => RepliesInv
  BY DEF ApiInit, Init, RepliesInv, ApiTypeOK, CleansUpAfter, ReplyStatus, ToldStatus
<1>2. TypeOK /\ CleanupIsAccepted /\ RepliesInv /\ [ApiNext]_apiVars => RepliesInv'
  BY RepliesStep
<1> QED BY <1>1, <1>2, ApiTypes, ApiCleanups, PTL DEF ApiSpec

(* What was committed, and what a client was told is stored, is kept. *)
LEMMA StoredStep ==
    ASSUME TypeOK, CleanupIsAccepted, RepliesInv, [ApiNext]_apiVars, CommittedIsKept, StoredIsKept
    PROVE  CommittedIsKept' /\ StoredIsKept'
<1>1. [Next]_vars
  BY ApiStepIsStep
<1>2. CommittedIsKept'
  BY <1>1, SubmissionMoves, KeptStays DEF CommittedIsKept, Kept
<1>3. ASSUME NEW d \in Docs, reply'[d] \in {Accepted, UploadStatus["QueueDispatchError"]},
             reply'[d] # reply[d]
      PROVE  sub[d].pc \in Committed
  <2> USE Statuses DEF RepliesInv, ApiTypeOK, Accepted
  <2>1. ASSUME NEW e \in Docs, Answers(e) PROVE sub[d].pc \in Committed
    BY <1>3, <2>1, AnswerForm DEF replies, Raises, Replies, Tells
  <2>2. ASSUME NEW x \in Deleters, Marked(x) \/ Removed(x) \/ NotRemoved(x) PROVE FALSE
    BY <1>3, <2>2, DeletionAnswers DEF replies, Tells
  <2>3. ~(UNCHANGED replies) /\ ~(UNCHANGED apiVars)
    BY <1>3 DEF replies, apiVars
  <2> QED BY <2>1, <2>2, <2>3 DEF ApiNext
<1>4. StoredIsKept'
  <2> SUFFICES ASSUME NEW d \in Docs, reply'[d] \in {Accepted, UploadStatus["QueueDispatchError"]}
               PROVE  Kept(d)'
    BY DEF StoredIsKept, Kept, UploadStatus
  <2>1. Kept(d)
    BY <1>3 DEF StoredIsKept, CommittedIsKept, Kept
  <2> QED BY <1>1, <2>1, KeptStays
<1> QED BY <1>2, <1>4

(* A document of which the client was told that it is stored is there      *)
(* until its deletion is accepted, under every fault.                      *)
THEOREM StoredDocumentsStay == ApiSpec => []StoredIsKept
<1>1. ApiInit => CommittedIsKept /\ StoredIsKept
  BY Statuses DEF ApiInit, Init, CommittedIsKept, Committed, DispatchPC, StoredIsKept, NoReply, Accepted
<1>2. TypeOK /\ CleanupIsAccepted /\ RepliesInv /\ [ApiNext]_apiVars /\ CommittedIsKept /\ StoredIsKept
        => CommittedIsKept' /\ StoredIsKept'
  BY StoredStep
<1> QED BY <1>1, <1>2, ApiTypes, ApiCleanups, RepliesAlways, PTL DEF ApiSpec
---------------------------------------------------------------------------
(* DeletedIsGone *)

PairedRows == \A d \in Docs : docRow[d] = NoRow <=> jobRow[d] = NoRow

ChunksHaveRows == \A d \in chunks : docRow[d] # NoRow

\* a document that is or was one is inserted no more
InsertedOnce == \A d \in Docs : Kept(d) => sub[d].pc \notin Uncommitted

\* a deletion gets to the row only without the file
FilesGoFirst ==
    /\ \A x \in Deleters : del[x].pc = "row" => del[x].id \notin files
    /\ \A d \in accepted : docRow[d] = NoRow => d \notin files

TheToldAreGone ==
    \A d \in Docs : told[d] \in {204, 404} => d \in accepted /\ docRow[d] = NoRow

GoneInv == PairedRows /\ ChunksHaveRows /\ InsertedOnce /\ FilesGoFirst /\ TheToldAreGone

(* Rows appear by an insert only. *)
LEMMA RowAppears ==
    ASSUME TypeOK, [Next]_vars, NEW d \in Docs, docRow[d] = NoRow, docRow'[d] # NoRow
    PROVE  Insert(d)
<1>1. PICK e \in Docs : Insert(e)
  BY RowsAppear
<1>2. e = d
  BY <1>1 DEF Insert, SetBoth, TypeOK
<1> QED BY <1>1, <1>2

LEMMA PairedRowsStep ==
    ASSUME TypeOK, PairedRows, [Next]_vars
    PROVE  PairedRows'
<1> USE DEF TypeOK, PairedRows
<1>1. ASSUME NEW d \in Docs, Reject(d) \/ SubmitStep(d) \/ ApiCrash(d) PROVE PairedRows'
  BY <1>1, SubmissionRows DEF NoRow
<1>3. ASSUME NEW w \in Workers, AttemptStep(w) \/ WorkerCrash(w) PROVE PairedRows'
  BY <1>3, AttemptRows DEF DocMoves, JobMoves, NoRow
<1>4. ASSUME NEW w \in Workers, Abandon(w) PROVE PairedRows'
  BY <1>4 DEF Abandon, db
<1>5. ASSUME NEW w \in Workers, NEW d \in Docs, Deliver(w, d) PROVE PairedRows'
  BY <1>5 DEF Deliver, db
<1>6. ASSUME NEW x \in Deleters, DeleteStep(x) PROVE PairedRows'
  <2>1. del[x].id \in Docs
    BY <1>6, DeletionFrame, BusyDelete
  <2> QED BY <1>6, <2>1, DeletionRows DEF DocMoves, NoRow
<1>7. ASSUME NEW x \in Deleters, NEW d \in Docs, DeleteRead(x, d) PROVE PairedRows'
  BY <1>7 DEF DeleteRead, db
<1>8. CASE UNCHANGED vars
  BY <1>8 DEF vars, db
<1> QED BY <1>1, <1>3, <1>4, <1>5, <1>6, <1>7, <1>8 DEF Next

LEMMA ChunksHaveRowsStep ==
    ASSUME TypeOK, ChunksHaveRows, [Next]_vars
    PROVE  ChunksHaveRows'
<1> USE DEF TypeOK, ChunksHaveRows
<1>1. ASSUME NEW d \in chunks' PROVE d \in chunks \/ docRow'[d] # NoRow
  <2>1. ASSUME NEW w \in Workers, Publish(w) PROVE d \in chunks \/ docRow'[d] # NoRow
    <3>1. CASE chunks' = chunks
      BY <1>1, <3>1
    <3>2. CASE chunks' # chunks
      <4>1. /\ SetBoth(att[w].id, Updated(docRow[att[w].id], att[w].doc, "ready"),
                                  Updated(jobRow[att[w].id], att[w].job, "succeeded"))
            /\ docRow[att[w].id] # NoRow /\ chunks' = chunks \union {att[w].id}
        BY <2>1, <3>2 DEF Publish, UpdateCommits
      <4>2. att[w].id \in Docs
        BY <2>1, BusyAttempt DEF Publish
      <4>3. docRow'[att[w].id] # NoRow
        BY <4>1, <4>2, BothFrame, UpdatedRow DEF NoRow
      <4> QED BY <1>1, <4>1, <4>3
    <3> QED BY <3>1, <3>2
  <2>2. ASSUME NEW w \in Workers, AttemptStep(w) \/ WorkerCrash(w), ~Publish(w) PROVE chunks' = chunks
    <3>1. CASE Quiet(w)
      BY <3>1, QuietFrame DEF db
    <3>2. CASE StartJob(w) \/ Upsert(w) \/ MarkFailed(w) \/ Cleanup(w)
      BY <3>2 DEF StartJob, Upsert, MarkFailed, Cleanup, db
    <3> QED BY <2>2, <3>1, <3>2 DEF AttemptStep, Quiet
  <2>3. ASSUME NEW x \in Deleters, DeleteStep(x) PROVE chunks' \subseteq chunks
    BY <2>3 DEF DeleteStep, DeleteSave, DeleteMark, DeleteCancel, DeleteVectors, DeleteFile,
       DeleteRow, DeleteFails, db
  <2>4. ASSUME NEW w \in Workers, Abandon(w) PROVE chunks' = chunks
    BY <2>4 DEF Abandon, db
  <2>5. ASSUME NEW w \in Workers, NEW e \in Docs, Deliver(w, e) PROVE chunks' = chunks
    BY <2>5 DEF Deliver, db
  <2>6. ASSUME NEW x \in Deleters, NEW e \in Docs, DeleteRead(x, e) PROVE chunks' = chunks
    BY <2>6 DEF DeleteRead, db
  <2>7. CASE UNCHANGED vars
    BY <2>7 DEF vars, db
  <2> QED BY <1>1, <2>1, <2>2, <2>3, <2>4, <2>5, <2>6, <2>7, SubmissionFrame DEF Next
<1>2. ASSUME NEW d \in chunks, docRow'[d] = NoRow PROVE d \notin chunks'
  <2>1. PICK x \in Deleters : DeleteRow(x) /\ del[x].id = d
    BY <1>2, RowsGo
  <2> QED BY <2>1 DEF DeleteRow
<1> QED BY <1>1, <1>2

LEMMA InsertedOnceStep ==
    ASSUME TypeOK, InsertedOnce, [Next]_vars
    PROVE  InsertedOnce'
<1> SUFFICES ASSUME NEW d \in Docs, Kept(d)', sub'[d].pc \in Uncommitted PROVE FALSE
  BY DEF InsertedOnce
<1>1. sub[d].pc \in Uncommitted /\ ~Kept(d)
  BY SubmissionMoves DEF InsertedOnce
<1>2. docRow[d] = NoRow /\ docRow'[d] # NoRow
  BY <1>1, AcceptedGrows DEF Kept
<1>3. Insert(d)
  BY <1>2, RowAppears
<1> QED BY <1>3 DEF Insert, SubGoto, SubHolds, TypeOK, Uncommitted

(* Files appear by an upload that has no row yet. *)
LEMMA FileAppears ==
    ASSUME TypeOK, [Next]_vars, NEW d \in files', d \notin files
    PROVE  d \in Docs /\ SaveFile(d)
<1>1. ASSUME NEW e \in Docs, Reject(e) \/ SubmitStep(e) \/ ApiCrash(e)
      PROVE  d \in Docs /\ SaveFile(d)
  <2>1. CASE SaveFile(e)
    <3>1. d = e
      BY <2>1 DEF SaveFile
    <3> QED BY <2>1, <3>1
  <2>2. CASE ~SaveFile(e)
    BY <1>1, <2>2 DEF SubmitStep, Reject, CheckHash, Insert, InsertFails, Unstore, Enqueue,
       DispatchReadDoc, DispatchReadJob, DispatchSaveDoc, DispatchSaveJob, DispatchFailed,
       DispatchAborts, ApiCrash
  <2> QED BY <2>1, <2>2
<1>2. ASSUME NEW w \in Workers, AttemptStep(w) \/ WorkerCrash(w) PROVE FALSE
  BY <1>2, AttemptFrame
<1>3. ASSUME NEW w \in Workers, Abandon(w) PROVE FALSE
  BY <1>3 DEF Abandon
<1>4. ASSUME NEW w \in Workers, NEW e \in Docs, Deliver(w, e) PROVE FALSE
  BY <1>4 DEF Deliver
<1>5. ASSUME NEW x \in Deleters, DeleteStep(x) PROVE FALSE
  BY <1>5 DEF DeleteStep, DeleteSave, DeleteMark, DeleteCancel, DeleteVectors, DeleteFile,
     DeleteRow, DeleteFails
<1>6. ASSUME NEW x \in Deleters, NEW e \in Docs, DeleteRead(x, e) PROVE FALSE
  BY <1>6 DEF DeleteRead
<1>7. ~UNCHANGED vars
  BY DEF vars
<1> QED BY <1>1, <1>2, <1>3, <1>4, <1>5, <1>6, <1>7 DEF Next

(* A deletion reaches its last step from the removal of the file only. *)
LEMMA DeletionReachesRow ==
    ASSUME TypeOK, [Next]_vars, NEW x \in Deleters, del'[x].pc = "row"
    PROVE  \/ del[x].pc = "row" /\ del'[x].id = del[x].id
           \/ del'[x].id \notin files'
<1> USE DEF TypeOK, DelGoto, DelHolds
<1>1. ASSUME NEW y \in Deleters, DeleteStep(y), y # x PROVE del'[x] = del[x]
  BY <1>1, DeletionFrame
<1>2. CASE DeleteStep(x)
  <2>1. CASE DeleteFile(x)
    BY <2>1 DEF DeleteFile
  <2>2. CASE DeleteSave(x) \/ DeleteMark(x) \/ DeleteCancel(x) \/ DeleteVectors(x)
    <3>1. ASSUME NEW pc, NEW d, NEW doc, DelHolds(x, pc, d, doc) PROVE del'[x].pc = pc
      BY <3>1
    <3>2. CASE DeleteMark(x)
      <4>1. DelHolds(x, "cancel", del[x].id, NoRow) \/ del' = [del EXCEPT ![x] = IdleDelete]
        BY <3>2 DEF DeleteMark
      <4> QED BY <3>1, <4>1 DEF IdleDelete
    <3>3. CASE DeleteSave(x) \/ DeleteCancel(x) \/ DeleteVectors(x)
      <4>1. \/ DelHolds(x, "mark", del[x].id, docRow[del[x].id])
            \/ DelGoto(x, "vectors") \/ DelGoto(x, "file")
        BY <3>3 DEF DeleteSave, DeleteCancel, DeleteVectors
      <4> QED BY <3>1, <4>1
    <3> QED BY <2>2, <3>2, <3>3
  <2>3. CASE DeleteRow(x) \/ DeleteFails(x)
    BY <2>3 DEF DeleteRow, DeleteFails, IdleDelete
  <2> QED BY <1>2, <2>1, <2>2, <2>3 DEF DeleteStep
<1>3. ASSUME NEW y \in Deleters, NEW e \in Docs, DeleteRead(y, e) PROVE del'[x] = del[x]
  BY <1>3 DEF DeleteRead
<1>4. ASSUME NEW w \in Workers, Abandon(w) PROVE del' = del
  BY <1>4 DEF Abandon
<1>5. ASSUME NEW w \in Workers, NEW e \in Docs, Deliver(w, e) PROVE del' = del
  BY <1>5 DEF Deliver
<1>6. CASE UNCHANGED vars
  BY <1>6 DEF vars
<1> QED BY <1>1, <1>2, <1>3, <1>4, <1>5, <1>6, SubmissionFrame, AttemptFrame DEF Next

LEMMA FilesGoFirstStep ==
    ASSUME TypeOK, CleanupIsAccepted, InsertedOnce, FilesGoFirst, [Next]_vars
    PROVE  FilesGoFirst'
<1> USE DEF FilesGoFirst
<1>1. ASSUME NEW x \in Deleters, del'[x].pc = "row" PROVE del'[x].id \notin files'
  <2>1. CASE del[x].pc = "row" /\ del'[x].id = del[x].id
    <3>1. del[x].id \in accepted /\ del[x].id \notin files
      BY <2>1 DEF CleanupIsAccepted
    <3>2. sub[del[x].id].pc # "new"
      BY <3>1 DEF InsertedOnce, Kept, Uncommitted, TypeOK
    <3> QED BY <2>1, <3>1, <3>2, FileAppears DEF SaveFile
  <2> QED BY <1>1, <2>1, DeletionReachesRow
<1>2. ASSUME NEW d \in accepted', docRow'[d] = NoRow PROVE d \notin files'
  <2>1. d \in Docs
    BY TypeStep DEF TypeOK
  <2>2. Kept(d)
    BY AcceptedGrows DEF Kept
  <2>3. d \notin files
    <3>1. CASE docRow[d] # NoRow
      BY <1>2, <2>1, <3>1, RowsGo DEF DeleteRow
    <3>2. CASE docRow[d] = NoRow
      BY <2>2, <3>2 DEF Kept
    <3> QED BY <3>1, <3>2
  <2> QED BY <2>1, <2>2, <2>3, FileAppears DEF InsertedOnce, Uncommitted, SaveFile
<1> QED BY <1>1, <1>2

LEMMA TheToldAreGoneStep ==
    ASSUME TypeOK, CleanupIsAccepted, RepliesInv, InsertedOnce, TheToldAreGone, [ApiNext]_apiVars
    PROVE  TheToldAreGone'
<1> SUFFICES ASSUME NEW d \in Docs, told'[d] \in {204, 404}
             PROVE  d \in accepted' /\ docRow'[d] = NoRow
  BY DEF TheToldAreGone
<1>1. [Next]_vars
  BY ApiStepIsStep
<1>2. ASSUME d \in accepted, docRow[d] = NoRow PROVE d \in accepted' /\ docRow'[d] = NoRow
  <2>1. sub[d].pc # "insert"
    BY <1>2 DEF InsertedOnce, Kept, Uncommitted
  <2>2. docRow'[d] = NoRow
    BY <1>1, <1>2, <2>1, RowAppears DEF Insert
  <2> QED BY <1>1, <1>2, <2>2, AcceptedGrows
<1>3. ASSUME told'[d] # told[d] PROVE d \in accepted' /\ docRow'[d] = NoRow
  <2> USE Statuses DEF RepliesInv, ApiTypeOK
  <2>1. ASSUME NEW e \in Docs, Answers(e) PROVE d \in accepted /\ docRow[d] = NoRow
    BY <1>3, <2>1, AnswerForm DEF replies, Raises, Replies, Tells, NoContent
  <2>2. ASSUME NEW x \in Deleters, Marked(x) \/ Removed(x) \/ NotRemoved(x)
        PROVE  DeleteRow(x) /\ del[x].id = d
    BY <1>3, <2>2, DeletionAnswers DEF replies, Tells, NoContent
  <2>3. ASSUME NEW x \in Deleters, DeleteRow(x), del[x].id = d
        PROVE  d \in accepted' /\ docRow'[d] = NoRow
    BY <2>3 DEF DeleteRow, SetBoth, CleanupIsAccepted, TypeOK
  <2>4. ~(UNCHANGED replies) /\ ~(UNCHANGED apiVars)
    BY <1>3 DEF replies, apiVars
  <2> QED BY <1>2, <2>1, <2>2, <2>3, <2>4 DEF ApiNext
<1> QED BY <1>2, <1>3 DEF TheToldAreGone

LEMMA GoneStep ==
    ASSUME TypeOK, CleanupIsAccepted, RepliesInv, GoneInv, [ApiNext]_apiVars
    PROVE  GoneInv'
<1>1. [Next]_vars
  BY ApiStepIsStep
<1> QED BY <1>1, PairedRowsStep, ChunksHaveRowsStep, InsertedOnceStep, FilesGoFirstStep,
        TheToldAreGoneStep DEF GoneInv

LEMMA GoneAlways == ApiSpec => []GoneInv
<1>1. ApiInit => GoneInv
  BY DEF ApiInit, Init, GoneInv, PairedRows, ChunksHaveRows, InsertedOnce, Kept, FilesGoFirst,
     TheToldAreGone, IdleDelete, NoReply
<1>2. TypeOK /\ CleanupIsAccepted /\ RepliesInv /\ GoneInv /\ [ApiNext]_apiVars => GoneInv'
  BY GoneStep
<1> QED BY <1>1, <1>2, ApiTypes, ApiCleanups, RepliesAlways, PTL DEF ApiSpec

(* A deletion answered with 204, or with 404 afterwards, is final: no      *)
(* fault and no attempt still under way brings the document back.          *)
THEOREM DeletionIsFinal == ApiSpec => []DeletedIsGone
<1>1. GoneInv => DeletedIsGone
  BY Statuses DEF GoneInv, PairedRows, ChunksHaveRows, FilesGoFirst, TheToldAreGone, DeletedIsGone,
     NoContent
<1> QED BY <1>1, GoneAlways, PTL
---------------------------------------------------------------------------
(* RefusedLeavesNothing *)

\* nothing of a document is anywhere but in the store, nor on its way there
Clean(d) ==
    /\ docRow[d] = NoRow /\ d \notin queued \union points
    /\ \A w \in Workers : att[w].id # d
    /\ \A x \in Deleters : del[x].id # d

\* what an upload that lost to another of the same content ends with
Losing == {"DuplicateDocumentError", "IntegrityError"}

\* how far an upload has come, and what its client was told
UploadIsClean(d) ==
    /\ sub[d].pc = "new" => d \notin files
    /\ sub[d].pc \in Uncommitted => Clean(d)
    /\ reply[d] # NoReply <=> sub[d].pc = "done" /\ error[d] = NoError
    /\ error[d] # NoError => sub[d].pc \in {"unstore", "done"}
    /\ error[d] \in Losing => Clean(d)
    /\ sub[d].pc = "done" /\ error[d] # NoError => error[d] = "IntegrityError" /\ d \notin files
    /\ IsRefusal(reply[d]) => Clean(d) /\ d \notin files

UploadInv == \A d \in Docs : UploadIsClean(d)

(* A document that is nowhere stays so until it is inserted or enqueued. *)
LEMMA CleanStays ==
    ASSUME TypeOK, [Next]_vars, NEW d \in Docs, Clean(d), ~Insert(d), ~Enqueue(d)
    PROVE  Clean(d)'
<1>1. docRow'[d] = NoRow
  BY RowAppears DEF Clean
<1>2. ASSUME NEW e \in Docs, Reject(e) \/ SubmitStep(e) \/ ApiCrash(e) PROVE Clean(d)'
  <2>1. UNCHANGED <<att, del, points>>
    BY <1>2, SubmissionFrame
  <2>2. CASE e = d
    <3>1. UNCHANGED queued
      BY <1>2, <2>2 DEF SubmitStep, Reject, SaveFile, CheckHash, Insert, InsertFails, Unstore, Enqueue,
         DispatchReadDoc, DispatchReadJob, DispatchSaveDoc, DispatchSaveJob, DispatchFailed,
         DispatchAborts, ApiCrash, rq
    <3> QED BY <1>1, <2>1, <3>1 DEF Clean
  <2>3. CASE e # d
    BY <1>1, <1>2, <2>1, <2>3, SubmissionFrame DEF Clean, OthersKept
  <2> QED BY <2>2, <2>3
<1>3. ASSUME NEW w \in Workers, AttemptStep(w) \/ WorkerCrash(w) PROVE Clean(d)'
  <2>1. att[w].id # d
    BY DEF Clean
  <2>2. del' = del /\ \A v \in Workers : att'[v] = att[v] \/ att'[v].id \in {att[w].id, NoDoc}
    BY <1>3, AttemptFrame DEF IdleAttempt
  <2> QED BY <1>1, <1>3, <2>1, <2>2, AttemptFrame, WorkflowAssumption DEF Clean, OthersKept
<1>4. ASSUME NEW w \in Workers, Abandon(w) PROVE Clean(d)'
  <2>1. queued' = queued \union {att[w].id} /\ UNCHANGED <<points, att, del>>
    BY <1>4 DEF Abandon, RetryJob
  <2> QED BY <1>1, <2>1 DEF Clean
<1>5. ASSUME NEW w \in Workers, NEW e \in Docs, Deliver(w, e) PROVE Clean(d)'
  BY <1>1, <1>5 DEF Deliver, Clean, TypeOK, IdleAttempt
<1>6. ASSUME NEW x \in Deleters, DeleteStep(x) PROVE Clean(d)'
  <2>1. del[x].id # d
    BY DEF Clean
  <2>2. \A y \in Deleters : del'[y] = del[y] \/ del'[y].id \in {del[x].id, NoDoc}
    BY <1>6, DeletionFrame DEF IdleDelete
  <2> QED BY <1>1, <1>6, <2>1, <2>2, DeletionFrame, WorkflowAssumption DEF Clean, OthersKept
<1>7. ASSUME NEW x \in Deleters, NEW e \in Docs, DeleteRead(x, e) PROVE Clean(d)'
  <2>1. e # d /\ UNCHANGED <<points, rq, att>>
    BY <1>7 DEF DeleteRead, Clean, NoRow
  <2>2. \A y \in Deleters : del'[y].id \in {del[y].id, e}
    BY <1>7 DEF DeleteRead, DelHolds, TypeOK
  <2> QED BY <1>1, <2>1, <2>2 DEF Clean, rq
<1>8. CASE UNCHANGED vars
  BY <1>1, <1>8 DEF Clean, vars, rq
<1> QED BY <1>2, <1>3, <1>4, <1>5, <1>6, <1>7, <1>8 DEF Next

(* Only its own steps move an upload or answer it. *)
LEMMA UploadKept ==
    ASSUME TypeOK, ApiTypeOK, [ApiNext]_apiVars, NEW d \in Docs, ~Answers(d)
    PROVE  /\ error'[d] = error[d] /\ reply'[d] = reply[d]
           /\ sub'[d] = sub[d] \/ SaveFile(d) \/ DispatchReadDoc(d)
<1>1. ASSUME NEW e \in Docs, e # d, Answers(e)
      PROVE  sub'[d] = sub[d] /\ error'[d] = error[d] /\ reply'[d] = reply[d]
  <2>1. sub'[d] = sub[d]
    BY <1>1, SubmissionFrame
       DEF Answers, Rejected, Looked, Inserted, NotInserted, Unstored, LookedAgain, Enqueued,
           NotDispatched, DispatchSaved, DispatchAborted, DispatchMarked, Stopped, Unknown,
           Conflict, SubmitStep, vars
  <2>2. \/ UNCHANGED replies
        \/ \E x : Raises(e, x) \/ Replies(e, x) \/ Tells(e, x)
    <3>1. CASE Rejected(e) \/ Stopped(e) \/ Unknown(e) \/ Conflict(e)
      BY <3>1, Zenon DEF Rejected, Stopped, Unknown, Conflict
    <3>2. CASE Looked(e) \/ Inserted(e) \/ NotInserted(e)
      BY <3>2, Zenon DEF Looked, Inserted, NotInserted
    <3>3. CASE Unstored(e) \/ LookedAgain(e)
      BY <3>3, Zenon DEF Unstored, LookedAgain
    <3>4. CASE Enqueued(e) \/ NotDispatched(e)
      BY <3>4, Zenon DEF Enqueued, NotDispatched
    <3>5. CASE DispatchSaved(e) \/ DispatchAborted(e) \/ DispatchMarked(e)
      BY <3>5, Zenon DEF DispatchSaved, DispatchAborted, DispatchMarked
    <3> QED BY <1>1, <3>1, <3>2, <3>3, <3>4, <3>5 DEF Answers
  <2> QED BY <1>1, <2>1, <2>2 DEF Replies, Raises, Tells, replies, ApiTypeOK
<1>2. ASSUME NEW x \in Deleters, Marked(x) \/ Removed(x) \/ NotRemoved(x)
      PROVE  sub' = sub /\ error' = error /\ reply' = reply
  BY <1>2, DeletionAnswers, DeletionFrame DEF Marked, Removed, NotRemoved, DeleteStep, Tells, replies
<1>3. ASSUME Silent
      PROVE  sub'[d] = sub[d] \/ SaveFile(d) \/ DispatchReadDoc(d)
  <2>1. ASSUME NEW e \in Docs, e # d, SaveFile(e) \/ DispatchReadDoc(e) PROVE sub'[d] = sub[d]
    BY <2>1, SubmissionFrame DEF SubmitStep
  <2>2. ASSUME NEW w \in Workers, AttemptStep(w) \/ WorkerCrash(w) \/ Abandon(w) PROVE sub' = sub
    BY <2>2, AttemptFrame DEF Abandon
  <2>3. ASSUME NEW w \in Workers, NEW e \in Docs, Deliver(w, e) PROVE sub' = sub
    BY <2>3 DEF Deliver
  <2>4. ASSUME NEW x \in Deleters, DeleteStep(x) \/ \E e \in Docs : DeleteRead(x, e) PROVE sub' = sub
    BY <2>4, DeletionFrame DEF DeleteRead
  <2> QED BY <1>3, <2>1, <2>2, <2>3, <2>4 DEF Silent, DeleteStep
<1>4. CASE UNCHANGED apiVars
  BY <1>4 DEF apiVars, vars, replies
<1> QED BY <1>1, <1>2, <1>3, <1>4 DEF ApiNext, replies

\* how a step takes an upload on, and what becomes of its client and its exception
Moves(d, from, to) == sub[d].pc = from /\ sub'[d].pc = to
Unanswered(d) == error'[d] = error[d] /\ reply'[d] = reply[d]
Fails(d, exceptions) == error'[d] \in exceptions /\ reply'[d] = reply[d]
Ends(d, statuses) == error'[d] = NoError /\ reply'[d] \in statuses

(* What each answer does to its upload. *)
LEMMA UploadMoves ==
    ASSUME TypeOK, RepliesInv, NEW d \in Docs
    PROVE  /\ Rejected(d) => Reject(d) /\ Moves(d, "new", "done") /\ Ends(d, {400, 500})
           /\ Looked(d) =>
                \/ Moves(d, "check", "insert") /\ Unanswered(d)
                \/ /\ ContentTaken(d) /\ UNCHANGED docRow
                   /\ Moves(d, "check", "unstore") /\ Fails(d, {"DuplicateDocumentError"})
           /\ Inserted(d) =>
                /\ Insert(d)
                /\ \/ Moves(d, "insert", "enqueue") /\ Unanswered(d)
                   \/ Moves(d, "insert", "unstore") /\ Fails(d, {"Unhandled"})
           /\ NotInserted(d) =>
                /\ InsertFails(d) /\ (Moves(d, "check", "unstore") \/ Moves(d, "insert", "unstore"))
                /\ Fails(d, {"IntegrityError", "Unhandled"})
           /\ Unstored(d) =>
                /\ Unstore(d) /\ Moves(d, "unstore", "done")
                /\ \/ Ends(d, {500})
                   \/ d \notin files' /\ error[d] = "IntegrityError" /\ Unanswered(d)
                   \/ d \notin files' /\ error[d] = "DuplicateDocumentError" /\ Ends(d, {409})
           /\ LookedAgain(d) =>
                /\ UNCHANGED vars /\ Moves(d, "done", "done") /\ error[d] = "IntegrityError"
                /\ Ends(d, {500}) \/ (ContentTaken(d) /\ Ends(d, {409}))
           /\ Enqueued(d) =>
                /\ Enqueue(d)
                /\ \/ Moves(d, "enqueue", "dispatch_doc") /\ Unanswered(d)
                   \/ Moves(d, "enqueue", "done") /\ Ends(d, {202}) /\ d \in queued'
           /\ NotDispatched(d) =>
                \/ Moves(d, "dispatch_job", "dispatch_save_doc") /\ Unanswered(d)
                \/ Moves(d, "dispatch_job", "done") /\ Ends(d, {500, 503})
           /\ DispatchSaved(d) =>
                \/ Moves(d, "dispatch_save_doc", "dispatch_save_job") /\ Unanswered(d)
                \/ Moves(d, "dispatch_save_job", "dispatch") /\ Unanswered(d)
                \/ sub[d].pc \in DispatchPC /\ sub'[d].pc = "done" /\ Ends(d, {500})
           /\ DispatchAborted(d) =>
                sub[d].pc \in DispatchPC /\ sub'[d].pc = "done" /\ Ends(d, {500}) /\ UNCHANGED db
           /\ DispatchMarked(d) =>
                /\ Moves(d, "dispatch", "done")
                /\ \/ Ends(d, {503})
                   \/ Ends(d, {500}) /\ UNCHANGED <<docRow, jobRow>>
                   \/ Ends(d, {500}) /\ "late_error" \in Faults
                /\ UNCHANGED <<docRow, jobRow>> \/ jobRow'[d] = "failed"
           /\ Stopped(d) => sub'[d].pc = "done" /\ Ends(d, {Lost}) /\ UNCHANGED <<db, rq>>
           /\ Unknown(d) \/ Conflict(d) => UNCHANGED vars /\ Unanswered(d)
<1> USE Statuses
    DEF TypeOK, RepliesInv, ApiTypeOK, SubGoto, SubHolds, Moves, Unanswered, Fails, Ends
<1>1. Rejected(d) => Reject(d) /\ Moves(d, "new", "done") /\ Ends(d, {400, 500})
  BY DEF Rejected, Reject, Replies
<1>2. ASSUME Looked(d)
      PROVE  \/ Moves(d, "check", "insert") /\ Unanswered(d)
             \/ /\ ContentTaken(d) /\ UNCHANGED docRow
                /\ Moves(d, "check", "unstore") /\ Fails(d, {"DuplicateDocumentError"})
  BY <1>2 DEF Looked, CheckHash, Raises, replies, db
<1>3. ASSUME Inserted(d)
      PROVE  /\ Insert(d)
             /\ \/ Moves(d, "insert", "enqueue") /\ Unanswered(d)
                \/ Moves(d, "insert", "unstore") /\ Fails(d, {"Unhandled"})
  BY <1>3 DEF Inserted, Insert, Raises, replies
<1>4. ASSUME NotInserted(d)
      PROVE  /\ InsertFails(d) /\ (Moves(d, "check", "unstore") \/ Moves(d, "insert", "unstore"))
             /\ Fails(d, {"IntegrityError", "Unhandled"})
  BY <1>4 DEF NotInserted, InsertFails, Raises
<1>5. ASSUME Unstored(d)
      PROVE  /\ Unstore(d) /\ Moves(d, "unstore", "done")
             /\ \/ Ends(d, {500})
                \/ d \notin files' /\ error[d] = "IntegrityError" /\ Unanswered(d)
                \/ d \notin files' /\ error[d] = "DuplicateDocumentError" /\ Ends(d, {409})
  <2>1. Unstore(d) /\ Moves(d, "unstore", "done") /\ error[d] \in Exceptions
    BY <1>5 DEF Unstored, Unstore, CleansUpAfter
  <2>2. UploadStatus[error[d]] \in
          IF error[d] = "DuplicateDocumentError" THEN {409} ELSE
          IF error[d] = "Unhandled" THEN {500} ELSE {UploadStatus[error[d]]}
    OBVIOUS
  <2> QED BY <1>5, <2>1, <2>2 DEF Unstored, Replies, replies, Exceptions
<1>6. ASSUME LookedAgain(d)
      PROVE  /\ UNCHANGED vars /\ Moves(d, "done", "done") /\ error[d] = "IntegrityError"
             /\ Ends(d, {500}) \/ (ContentTaken(d) /\ Ends(d, {409}))
  <2>1. UNCHANGED vars /\ Moves(d, "done", "done") /\ error[d] = "IntegrityError"
    BY <1>6 DEF LookedAgain, vars
  <2>2. Replies(d, 500) \/ (ContentTaken(d) /\ Replies(d, 409))
    BY <1>6 DEF LookedAgain
  <2> QED BY <2>1, <2>2 DEF Replies
<1>7. ASSUME Enqueued(d)
      PROVE  /\ Enqueue(d)
             /\ \/ Moves(d, "enqueue", "dispatch_doc") /\ Unanswered(d)
                \/ Moves(d, "enqueue", "done") /\ Ends(d, {202}) /\ d \in queued'
  BY <1>7 DEF Enqueued, Enqueue, Replies, replies, Accepted
<1>8. ASSUME NotDispatched(d)
      PROVE  \/ Moves(d, "dispatch_job", "dispatch_save_doc") /\ Unanswered(d)
             \/ Moves(d, "dispatch_job", "done") /\ Ends(d, {500, 503})
  <2>1. sub[d].pc = "dispatch_job" /\ sub'[d].pc \in {"dispatch_save_doc", "done"}
    BY <1>8, DispatchGoes DEF NotDispatched
  <2> QED BY <1>8, <2>1 DEF NotDispatched, Replies, replies
<1>9. ASSUME DispatchSaved(d)
      PROVE  \/ Moves(d, "dispatch_save_doc", "dispatch_save_job") /\ Unanswered(d)
             \/ Moves(d, "dispatch_save_job", "dispatch") /\ Unanswered(d)
             \/ sub[d].pc \in DispatchPC /\ sub'[d].pc = "done" /\ Ends(d, {500})
  <2>1. \/ sub[d].pc = "dispatch_save_doc" /\ sub'[d].pc \in {"dispatch_save_job", "done"}
        \/ sub[d].pc = "dispatch_save_job" /\ sub'[d].pc \in {"dispatch", "done"}
    BY <1>9, DispatchGoes DEF DispatchSaved
  <2> QED BY <1>9, <2>1 DEF DispatchSaved, Replies, replies, DispatchPC
<1>12. ASSUME DispatchAborted(d)
       PROVE  sub[d].pc \in DispatchPC /\ sub'[d].pc = "done" /\ Ends(d, {500}) /\ UNCHANGED db
  BY <1>12, DispatchGoes DEF DispatchAborted, DispatchAborts, Replies
<1>13. ASSUME DispatchMarked(d)
       PROVE  /\ Moves(d, "dispatch", "done")
              /\ \/ Ends(d, {503})
                 \/ Ends(d, {500}) /\ UNCHANGED <<docRow, jobRow>>
                 \/ Ends(d, {500}) /\ "late_error" \in Faults
              /\ UNCHANGED <<docRow, jobRow>> \/ jobRow'[d] = "failed"
  BY <1>13, DispatchGoes DEF DispatchMarked, Replies
<1>10. ASSUME Stopped(d) PROVE sub'[d].pc = "done" /\ Ends(d, {Lost}) /\ UNCHANGED <<db, rq>>
  BY <1>10 DEF Stopped, ApiCrash, Replies, vars
<1>11. ASSUME Unknown(d) \/ Conflict(d) PROVE UNCHANGED vars /\ Unanswered(d)
  BY <1>11 DEF Unknown, Conflict, Tells
<1> QED BY <1>1, <1>2, <1>3, <1>4, <1>5, <1>6, <1>7, <1>8, <1>9, <1>10, <1>11, <1>12, <1>13,
        ZenonT(30)

(* Of the silent steps, only two move an upload. *)
LEMMA SilentMoves ==
    ASSUME TypeOK, RepliesInv, [ApiNext]_apiVars, NEW d \in Docs, ~Answers(d)
    PROVE  /\ Unanswered(d)
           /\ \/ sub'[d] = sub[d]
              \/ SaveFile(d) /\ Moves(d, "new", "check")
              \/ DispatchReadDoc(d) /\ Moves(d, "dispatch_doc", "dispatch_job")
<1> USE DEF TypeOK, RepliesInv, SubGoto, SubHolds, Moves, Unanswered
<1>1. ASSUME SaveFile(d) PROVE Moves(d, "new", "check")
  BY <1>1 DEF SaveFile
<1>2. ASSUME DispatchReadDoc(d) PROVE Moves(d, "dispatch_doc", "dispatch_job")
  <2>1. SubHolds(d, "dispatch_job", docRow[d], NoRow) /\ sub[d].pc = "dispatch_doc"
    BY <1>2 DEF DispatchReadDoc
  <2> QED BY <2>1
<1> QED BY <1>1, <1>2, UploadKept

LEMMA UploadStep ==
    ASSUME TypeOK, RepliesInv, UploadInv, [ApiNext]_apiVars
    PROVE  UploadInv'
<1> SUFFICES ASSUME NEW d \in Docs PROVE UploadIsClean(d)'
  BY DEF UploadInv
<1>1. [Next]_vars /\ UploadIsClean(d)
  BY ApiStepIsStep DEF UploadInv
<1>2. Clean(d) /\ ~Insert(d) /\ ~Enqueue(d) => Clean(d)'
  BY <1>1, CleanStays
<1>3. d \notin files /\ ~SaveFile(d) => d \notin files'
  BY <1>1, FileAppears
<1>4. /\ Insert(d) => sub[d].pc = "insert" /\ docRow'[d] # NoRow
      /\ Enqueue(d) => sub[d].pc = "enqueue"
      /\ SaveFile(d) => sub[d].pc = "new"
  BY DEF Insert, Enqueue, SaveFile, SetBoth, TypeOK, NoRow
<1>5. Insert(d) \/ Enqueue(d) \/ SaveFile(d) => sub'[d] # sub[d]
  BY DEF Insert, Enqueue, SaveFile, SubGoto, SubHolds, TypeOK
<1> USE DEF Moves, Unanswered, Fails, Ends, UploadIsClean, Uncommitted, Losing, IsRefusal, NoError,
        NoReply, Lost
<1>6. CASE Rejected(d)
  <2>1. Moves(d, "new", "done") /\ Ends(d, {400, 500}) /\ files' = files
    BY <1>6, UploadMoves DEF Reject
  <2> QED BY <1>1, <1>2, <1>4, <2>1
<1>7. CASE Looked(d)
  BY <1>1, <1>2, <1>4, <1>7, UploadMoves
<1>8. CASE Inserted(d) \/ Enqueued(d) \/ NotDispatched(d) \/ DispatchSaved(d)
             \/ DispatchAborted(d) \/ DispatchMarked(d)
  <2>1. /\ sub[d].pc \in {"insert", "enqueue"} \union DispatchPC
        /\ sub'[d].pc \in {"enqueue", "unstore", "done"} \union DispatchPC
    BY <1>8, UploadMoves DEF DispatchPC
  <2>2. \/ sub'[d].pc \in {"enqueue"} \union DispatchPC /\ Unanswered(d)
        \/ sub'[d].pc = "unstore" /\ Fails(d, {"Unhandled"})
        \/ sub'[d].pc = "done" /\ Ends(d, {202, 500, 503})
    BY <1>8, UploadMoves DEF DispatchPC
  <2> QED BY <1>1, <2>1, <2>2 DEF DispatchPC
<1>9. CASE NotInserted(d)
  <2>1. docRow'[d] = docRow[d]
    BY <1>9, UploadMoves DEF InsertFails, db
  <2> QED BY <1>1, <1>2, <1>4, <1>9, <2>1, UploadMoves DEF Clean
<1>10. CASE Unstored(d) \/ LookedAgain(d)
  BY <1>1, <1>2, <1>3, <1>4, <1>10, UploadMoves
<1>11. CASE Stopped(d)
  BY <1>11, UploadMoves
<1>12. CASE ~Answers(d)
  BY <1>1, <1>2, <1>3, <1>4, <1>5, <1>12, SilentMoves
<1>13. CASE Unknown(d) \/ Conflict(d)
  <2>1. UNCHANGED <<sub, files>> /\ Unanswered(d)
    BY <1>13, UploadMoves DEF vars
  <2> QED BY <1>1, <1>2, <1>5, <2>1
<1> QED BY <1>6, <1>7, <1>8, <1>9, <1>10, <1>11, <1>12, <1>13 DEF Answers

LEMMA UploadsAlways == ApiSpec => []UploadInv
<1>1. ApiInit => UploadInv
  BY WorkflowAssumption
     DEF ApiInit, Init, UploadInv, UploadIsClean, Uncommitted, Clean, Losing, IsRefusal, NoError,
         NoReply, IdleAttempt, IdleDelete
<1>2. TypeOK /\ RepliesInv /\ UploadInv /\ [ApiNext]_apiVars => UploadInv'
  BY UploadStep
<1> QED BY <1>1, <1>2, ApiTypes, RepliesAlways, PTL DEF ApiSpec

(* An upload that is refused leaves nothing behind, then and ever after:   *)
(* only a submission that may still commit could bring its document back,  *)
(* and every other handler works on documents that have a row.             *)
THEOREM RefusalsLeaveNothing == ApiSpec => []RefusedLeavesNothing
<1>1. UploadInv => RefusedLeavesNothing
  BY DEF UploadInv, UploadIsClean, Clean, RefusedLeavesNothing
<1> QED BY <1>1, UploadsAlways, PTL
---------------------------------------------------------------------------
(* NotAllAreDuplicates *)

\* an upload that committed or may not be refused any more
NeverRefused(e) == sub[e].pc \notin Uncommitted /\ ~IsRefusal(reply[e]) /\ error[e] \notin Losing

DuplicateOf(d) == \E e \in Docs \ {d} : Sha[e] = Sha[d] /\ NeverRefused(e)

DuplicatesInv == \A d \in Docs : error[d] = "DuplicateDocumentError" \/ reply[d] = 409 => DuplicateOf(d)

LEMMA NeverRefusedStays ==
    ASSUME TypeOK, RepliesInv, [ApiNext]_apiVars, NEW e \in Docs, NeverRefused(e)
    PROVE  NeverRefused(e)'
<1> USE DEF NeverRefused, Moves, Unanswered, Fails, Ends, Uncommitted, Losing, IsRefusal, NoError, Lost
<1>1. CASE Rejected(e) \/ Looked(e) \/ NotInserted(e) \/ LookedAgain(e)
  BY <1>1, UploadMoves
<1>2. CASE Inserted(e) \/ Enqueued(e) \/ NotDispatched(e)
  BY <1>2, UploadMoves
<1>6. CASE DispatchSaved(e) \/ DispatchAborted(e) \/ DispatchMarked(e)
  BY <1>6, UploadMoves
<1>3. CASE Unstored(e) \/ Stopped(e)
  BY <1>3, UploadMoves
<1>4. CASE Unknown(e) \/ Conflict(e)
  BY <1>4, UploadMoves DEF vars
<1>5. CASE ~Answers(e)
  BY <1>5, SilentMoves
<1> QED BY <1>1, <1>2, <1>3, <1>4, <1>5, <1>6 DEF Answers

(* A row of the same content belongs to an upload that is not refused. *)
LEMMA TakenByAnother ==
    ASSUME UploadInv, NEW d \in Docs, Clean(d), ContentTaken(d)
    PROVE  DuplicateOf(d)
<1>1. PICK e \in Docs : docRow[e] # NoRow /\ Sha[e] = Sha[d]
  BY DEF ContentTaken
<1>2. e # d /\ ~Clean(e)
  BY <1>1 DEF Clean
<1>3. NeverRefused(e)
  BY <1>2 DEF UploadInv, UploadIsClean, NeverRefused
<1> QED BY <1>1, <1>2, <1>3 DEF DuplicateOf

LEMMA DuplicatesStep ==
    ASSUME TypeOK, RepliesInv, UploadInv, DuplicatesInv, [ApiNext]_apiVars
    PROVE  DuplicatesInv'
<1> SUFFICES ASSUME NEW d \in Docs, error'[d] = "DuplicateDocumentError" \/ reply'[d] = 409
             PROVE  DuplicateOf(d)'
  BY DEF DuplicatesInv
<1>1. DuplicateOf(d) => DuplicateOf(d)'
  BY NeverRefusedStays DEF DuplicateOf
<1> USE DEF Moves, Unanswered, Fails, Ends, NoError, Lost
<1>2. DuplicateOf(d)
  <2>1. CASE Looked(d)
    <3>1. sub[d].pc = "check"
      BY <2>1, UploadMoves
    <3>2. Clean(d)
      BY <3>1 DEF UploadInv, UploadIsClean, Uncommitted
    <3> QED BY <2>1, <3>2, UploadMoves, TakenByAnother DEF DuplicatesInv
  <2>2. CASE LookedAgain(d)
    <3>1. Clean(d)
      BY <2>2, UploadMoves DEF UploadInv, UploadIsClean, Losing
    <3> QED BY <2>2, <3>1, UploadMoves, TakenByAnother DEF DuplicatesInv
  <2>3. CASE Unstored(d) \/ Rejected(d) \/ Inserted(d) \/ NotInserted(d)
    BY <2>3, UploadMoves DEF DuplicatesInv
  <2>4. CASE Enqueued(d) \/ NotDispatched(d) \/ Stopped(d)
    BY <2>4, UploadMoves DEF DuplicatesInv
  <2>7. CASE DispatchSaved(d) \/ DispatchAborted(d) \/ DispatchMarked(d)
    BY <2>7, UploadMoves DEF DuplicatesInv
  <2>5. CASE Unknown(d) \/ Conflict(d)
    BY <2>5, UploadMoves DEF DuplicatesInv
  <2>6. CASE ~Answers(d)
    BY <2>6, SilentMoves DEF DuplicatesInv
  <2> QED BY <2>1, <2>2, <2>3, <2>4, <2>5, <2>6, <2>7 DEF Answers
<1> QED BY <1>1, <1>2

(* Uploads of one content do not refuse each other, in whatever order they *)
(* look the hash up, lose the race for the insert and clean up: the one    *)
(* whose row was in the way is never refused.                              *)
THEOREM DuplicatesHaveAnOriginal == ApiSpec => []NotAllAreDuplicates
<1>1. ApiInit => DuplicatesInv
  BY DEF ApiInit, DuplicatesInv, NoError, NoReply
<1>2. TypeOK /\ RepliesInv /\ UploadInv /\ DuplicatesInv /\ [ApiNext]_apiVars => DuplicatesInv'
  BY DuplicatesStep
<1>3. DuplicatesInv => NotAllAreDuplicates
  BY Statuses DEF DuplicatesInv, DuplicateOf, NeverRefused, NotAllAreDuplicates, Uncommitted
<1> QED BY <1>1, <1>2, <1>3, ApiTypes, RepliesAlways, UploadsAlways, PTL DEF ApiSpec
---------------------------------------------------------------------------
(* AcceptedIsSent *)

\* RQ has the job of a document, or has used up its retries
Sent(d) == d \in queued \/ retries[d] = 0 \/ \E w \in Workers : att[w].id = d

LEMMA ApiUnsent == ApiSpec => [](UnsentIsUntouched /\ DeletionIsLate)
<1>1. Init => UnsentIsUntouched /\ DeletionIsLate
  BY WorkflowAssumption DEF Init, UnsentIsUntouched, DeletionIsLate, IdleAttempt, IdleDelete
<1>2. TypeOK /\ UnsentIsUntouched /\ DeletionIsLate /\ [Next]_vars
        => UnsentIsUntouched' /\ DeletionIsLate'
  BY UnsentStep, DeletionIsLateStep
<1> QED BY <1>1, <1>2, ApiRunsTheWorkflow, TypeCorrect, PTL DEF Spec

(* No row becomes "queued" but by an insert. *)
LEMMA QueuedByInsert ==
    ASSUME TypeOK, [Next]_vars, NEW d \in Docs, docRow'[d] = "queued", docRow[d] # "queued"
    PROVE  Insert(d)
<1> USE DEF TypeOK
<1>1. ASSUME NEW e \in Docs, Reject(e) \/ SubmitStep(e) \/ ApiCrash(e) PROVE Insert(d)
  <2>1. CASE Insert(e)
    BY <2>1 DEF Insert, SetBoth
  <2>2. CASE ~Insert(e)
    BY <1>1, <2>2 DEF SubmitStep, Reject, SaveFile, CheckHash, InsertFails, Unstore, Enqueue,
       DispatchReadDoc, DispatchReadJob, DispatchSaveDoc, DispatchSaveJob, DispatchFailed,
       DispatchAborts, ApiCrash, SetBoth, Updated, db
  <2> QED BY <2>1, <2>2
<1>2. ASSUME NEW w \in Workers, AttemptStep(w) \/ WorkerCrash(w) PROVE FALSE
  BY <1>2, AttemptRows DEF DocMoves
<1>3. ASSUME NEW w \in Workers, Abandon(w) PROVE FALSE
  BY <1>3 DEF Abandon, db
<1>4. ASSUME NEW w \in Workers, NEW e \in Docs, Deliver(w, e) PROVE FALSE
  BY <1>4 DEF Deliver, db
<1>5. ASSUME NEW x \in Deleters, DeleteStep(x) PROVE FALSE
  BY <1>5, DeletionRows DEF DocMoves, NoRow
<1>6. ASSUME NEW x \in Deleters, NEW e \in Docs, DeleteRead(x, e) PROVE FALSE
  BY <1>6 DEF DeleteRead, db
<1>7. ~UNCHANGED vars
  BY DEF vars, db
<1> QED BY <1>1, <1>2, <1>3, <1>4, <1>5, <1>6, <1>7 DEF Next

\* what publishes a document that is still queued has found it queued
QueuedIsSeen ==
    \A w \in Workers :
        att[w].pc \in {"final_save_job", "final"} /\ docRow[att[w].id] = "queued"
            => att[w].doc = "queued"

(* Only its own steps move an attempt on. *)
LEMMA AttemptKept ==
    ASSUME TypeOK, [Next]_vars, NEW w \in Workers, ~AttemptStep(w), ~WorkerCrash(w)
    PROVE  att'[w] = att[w] \/ att'[w].pc = "start_job"
<1>1. ASSUME NEW d \in Docs, Reject(d) \/ SubmitStep(d) \/ ApiCrash(d) PROVE att' = att
  BY <1>1, SubmissionFrame
<1>2. ASSUME NEW v \in Workers, AttemptStep(v) \/ WorkerCrash(v) PROVE att'[w] = att[w]
  BY <1>2, AttemptFrame
<1>3. ASSUME NEW v \in Workers, Abandon(v) PROVE att' = att
  BY <1>3 DEF Abandon
<1>4. ASSUME NEW v \in Workers, NEW d \in Docs, Deliver(v, d)
      PROVE  att'[w] = att[w] \/ att'[w].pc = "start_job"
  BY <1>4 DEF Deliver, TypeOK
<1>5. ASSUME NEW x \in Deleters, DeleteStep(x) \/ \E d \in Docs : DeleteRead(x, d) PROVE att' = att
  BY <1>5, DeletionFrame DEF DeleteRead
<1>6. CASE UNCHANGED vars
  BY <1>6 DEF vars
<1> QED BY <1>1, <1>2, <1>3, <1>4, <1>5, <1>6 DEF Next

LEMMA QueuedIsSeenStep ==
    ASSUME TypeOK, UnsentIsUntouched, QueuedIsSeen, [Next]_vars
    PROVE  QueuedIsSeen'
<1> SUFFICES ASSUME NEW w \in Workers, att'[w].pc \in {"final_save_job", "final"},
                    docRow'[att'[w].id] = "queued"
             PROVE  att'[w].doc = "queued"
  BY DEF QueuedIsSeen
<1>1. CASE AttemptStep(w)
  BY <1>1, AttemptMoves, NowHolds, EndFrame DEF Goes, AttGoto, IdleAttempt, QueuedIsSeen
<1>2. ~WorkerCrash(w)
  BY EndFrame DEF WorkerCrash, IdleAttempt
<1>3. CASE att'[w] = att[w]
  <2>1. att[w].id \in Docs /\ sub[att[w].id].pc # "insert"
    BY <1>3, BusyAttempt DEF UnsentIsUntouched, Unsent
  <2>2. docRow[att[w].id] = "queued"
    BY <1>3, <2>1, QueuedByInsert DEF Insert
  <2> QED BY <1>3, <2>2 DEF QueuedIsSeen
<1> QED BY <1>1, <1>2, <1>3, AttemptKept

LEMMA QueuedAreSeen == ApiSpec => []QueuedIsSeen
<1>1. Init => QueuedIsSeen
  BY DEF Init, QueuedIsSeen, IdleAttempt
<1>2. TypeOK /\ UnsentIsUntouched /\ QueuedIsSeen /\ [Next]_vars => QueuedIsSeen'
  BY QueuedIsSeenStep
<1> QED BY <1>1, <1>2, ApiRunsTheWorkflow, ApiUnsent, TypeCorrect, PTL DEF Spec

(* An attempt that ends without an exception leaves a row that is not       *)
(* queued: it was published, it was ready before, or it is being deleted.   *)
LEMMA EndedIsStarted ==
    ASSUME TypeOK, QueuedIsSeen, NEW w \in Workers, AttemptStep(w) \/ WorkerCrash(w)
    PROVE  \/ att'[w].id = att[w].id /\ UNCHANGED rq
           \/ AttemptRaises(w)
           \/ docRow'[att[w].id] # "queued"
<1> USE HoldsFrame DEF AttGoto
<1>1. CASE StartReadJob(w) \/ StartSaveDoc(w) \/ StartSaveJob(w)
  BY <1>1 DEF StartReadJob, StartSaveDoc, StartSaveJob
<1>2. CASE StartReadDoc(w)
  BY <1>2 DEF StartReadDoc, db
<1>3. CASE StartJob(w)
  BY <1>3 DEF StartJob
<1>4. CASE Prepare(w) \/ Upsert(w)
  BY <1>4 DEF Prepare, Upsert
<1>5. CASE FinalReadDoc(w) \/ FinalReadJob(w) \/ FinalSaveDoc(w) \/ FinalSaveJob(w)
  BY <1>5 DEF FinalReadDoc, FinalReadJob, FinalSaveDoc, FinalSaveJob
<1>6. CASE Publish(w)
  <2>1. CASE AttGoto(w, "fail_doc") /\ UNCHANGED rq
    BY <2>1
  <2>2. CASE ~(AttGoto(w, "fail_doc") /\ UNCHANGED rq)
    <3>1. SetBoth(att[w].id, Updated(docRow[att[w].id], att[w].doc, "ready"),
                             Updated(jobRow[att[w].id], att[w].job, "succeeded"))
      BY <1>6, <2>2 DEF Publish
    <3>2. att[w].id \in Docs /\ att[w].pc = "final"
      BY <1>6, BusyAttempt DEF Publish
    <3>3. docRow'[att[w].id] = Updated(docRow[att[w].id], att[w].doc, "ready")
      BY <3>1, <3>2, BothFrame
    <3>4. att[w].doc = "ready" => docRow[att[w].id] # "queued"
      BY <3>2 DEF QueuedIsSeen
    <3> QED BY <3>3, <3>4 DEF Updated
  <2> QED BY <2>1, <2>2
<1>7. CASE FailReadDoc(w) \/ FailReadJob(w) \/ FailSaveDoc(w) \/ FailSaveJob(w)
  BY <1>7 DEF FailReadDoc, FailReadJob, FailSaveDoc, FailSaveJob
<1>8. CASE MarkFailed(w)
  <2>1. (AttGoto(w, "cleanup") /\ UNCHANGED rq) \/ AttemptRaises(w)
    BY <1>8 DEF MarkFailed
  <2> QED BY <2>1
<1>9. CASE Cleanup(w) \/ AttemptAborts(w) \/ WorkerCrash(w)
  BY <1>9 DEF Cleanup, AttemptAborts, WorkerCrash
<1> QED BY <1>1, <1>2, <1>3, <1>4, <1>5, <1>6, <1>7, <1>8, <1>9 DEF AttemptStep

(* Only a job's own attempt uses up its retries. *)
LEMMA RetriesFrame ==
    ASSUME TypeOK, NEW w \in Workers, AttemptStep(w) \/ WorkerCrash(w),
           NEW d \in Docs, d # att[w].id
    PROVE  retries'[d] = retries[d]
<1>1. UNCHANGED retries \/ AttemptRaises(w)
  <2>1. CASE Quiet(w)
    BY <2>1 DEF Quiet, StartReadJob, StartReadDoc, StartSaveDoc, StartSaveJob, Prepare,
       FinalReadDoc, FinalReadJob, FinalSaveDoc, FinalSaveJob, FailReadDoc, FailReadJob,
       FailSaveDoc, FailSaveJob, AttemptAborts, WorkerCrash, AttemptReturns, rq
  <2>2. CASE StartJob(w) \/ Upsert(w) \/ Publish(w)
    BY <2>2 DEF StartJob, Upsert, Publish, AttemptReturns, rq
  <2>3. CASE MarkFailed(w) \/ Cleanup(w)
    BY <2>3 DEF MarkFailed, Cleanup, rq
  <2> QED BY <2>1, <2>2, <2>3 DEF AttemptStep, Quiet
<1> QED BY <1>1 DEF AttemptRaises, RetryJob, rq, TypeOK

(* RQ drops no job that waits to be started. *)
LEMMA SentStays ==
    ASSUME TypeOK, DeletionIsLate, QueuedIsSeen, [Next]_vars, NEW d \in Docs, Sent(d),
           docRow[d] = "queued", docRow'[d] = "queued"
    PROVE  Sent(d)'
<1> USE DEF Sent
<1>1. ASSUME NEW e \in Docs, Reject(e) \/ SubmitStep(e) \/ ApiCrash(e) PROVE Sent(d)'
  <2>1. att' = att /\ queued \subseteq queued' /\ retries' = retries
    <3>1. CASE Enqueue(e)
      BY <3>1 DEF Enqueue
    <3>2. CASE ~Enqueue(e)
      BY <1>1, <3>2 DEF SubmitStep, Reject, SaveFile, CheckHash, Insert, InsertFails, Unstore,
         DispatchReadDoc, DispatchReadJob, DispatchSaveDoc, DispatchSaveJob, DispatchFailed,
         DispatchAborts, ApiCrash, rq
    <3> QED BY <3>1, <3>2
  <2> QED BY <2>1
<1>2. ASSUME NEW w \in Workers, AttemptStep(w) \/ WorkerCrash(w) PROVE Sent(d)'
  <2>1. att[w].id \in Docs /\ \A v \in Workers : v # w => att'[v] = att[v]
    BY <1>2, AttemptFrame, BusyAttempt
  <2>2. CASE att'[w].id = att[w].id /\ UNCHANGED rq
    BY <2>1, <2>2 DEF rq
  <2>3. CASE AttemptRaises(w)
    BY <2>1, <2>3 DEF AttemptRaises, RetryJob, rq, TypeOK
  <2>4. CASE docRow'[att[w].id] # "queued"
    <3>1. att[w].id # d
      BY <2>4
    <3>2. d \in queued' <=> d \in queued
      BY <1>2, <3>1, AttemptFrame DEF OthersKept
    <3>3. retries'[d] = retries[d]
      BY <1>2, <2>1, <3>1, RetriesFrame
    <3> QED BY <2>1, <3>1, <3>2, <3>3
  <2> QED BY <1>2, <2>2, <2>3, <2>4, EndedIsStarted
<1>3. ASSUME NEW w \in Workers, Abandon(w) PROVE Sent(d)'
  <2>1. queued \subseteq queued' /\ att' = att
    BY <1>3 DEF Abandon, RetryJob
  <2>2. att[w].id \in queued' /\ \A e \in Docs : e # att[w].id => retries'[e] = retries[e]
    BY <1>3, BusyAttempt DEF Abandon, RetryJob, TypeOK
  <2> QED BY <2>1, <2>2
<1>4. ASSUME NEW w \in Workers, NEW e \in Docs, Deliver(w, e) PROVE Sent(d)'
  <2>1. att'[w].id = e /\ queued' = queued \ {e} /\ retries' = retries
    BY <1>4 DEF Deliver, TypeOK
  <2>2. \A v \in Workers : v # w => att'[v] = att[v]
    BY <1>4 DEF Deliver, TypeOK
  <2>3. att[w].id = NoDoc
    BY <1>4 DEF Deliver, TypeOK, Attempt, AttPC, StartPC, FinalPC, FailPC, IdleAttempt
  <2> QED BY <2>1, <2>2, <2>3, WorkflowAssumption
<1>5. ASSUME NEW x \in Deleters, DeleteStep(x) PROVE Sent(d)'
  <2>1. del[x].id # d
    BY <1>5, DeletionFrame DEF DeletionIsLate
  <2>2. att' = att /\ (d \in queued' <=> d \in queued)
    BY <1>5, <2>1, DeletionFrame DEF OthersKept
  <2>3. retries' = retries
    BY <1>5 DEF DeleteStep, DeleteSave, DeleteMark, DeleteCancel, DeleteVectors, DeleteFile,
       DeleteRow, DeleteFails, rq
  <2> QED BY <2>2, <2>3
<1>6. ASSUME NEW x \in Deleters, NEW e \in Docs, DeleteRead(x, e) PROVE Sent(d)'
  BY <1>6 DEF DeleteRead, rq
<1>7. CASE UNCHANGED vars
  BY <1>7 DEF vars, rq
<1> QED BY <1>1, <1>2, <1>3, <1>4, <1>5, <1>6, <1>7 DEF Next

LEMMA AcceptedIsSentStep ==
    ASSUME TypeOK, DeletionIsLate, QueuedIsSeen, RepliesInv, UploadInv, AcceptedIsSent,
           [ApiNext]_apiVars
    PROVE  AcceptedIsSent'
<1> SUFFICES ASSUME NEW d \in Docs, reply'[d] = 202, docRow'[d] = "queued" PROVE Sent(d)'
  BY DEF AcceptedIsSent, Sent, Accepted
<1>1. [Next]_vars
  BY ApiStepIsStep
<1> USE DEF Moves, Unanswered, Fails, Ends, NoError, Lost
<1>2. ASSUME reply'[d] = reply[d] PROVE Sent(d)'
  <2>1. sub[d].pc # "insert"
    BY <1>2 DEF UploadInv, UploadIsClean, NoReply
  <2>2. docRow[d] = "queued"
    BY <1>1, <2>1, QueuedByInsert DEF Insert
  <2>3. Sent(d)
    BY <1>2, <2>2 DEF AcceptedIsSent, Accepted, Sent
  <2> QED BY <1>1, <2>2, <2>3, SentStays
<1>3. CASE Enqueued(d)
  <2>1. d \in queued' \/ reply'[d] = reply[d]
    BY <1>3, UploadMoves
  <2> QED BY <1>2, <2>1 DEF Sent
<1>4. CASE Rejected(d) \/ Looked(d) \/ Inserted(d) \/ NotInserted(d)
  BY <1>2, <1>4, UploadMoves
<1>5. CASE Unstored(d) \/ LookedAgain(d) \/ NotDispatched(d)
  BY <1>2, <1>5, UploadMoves
<1>8. CASE DispatchSaved(d) \/ DispatchAborted(d) \/ DispatchMarked(d)
  BY <1>2, <1>8, UploadMoves
<1>6. CASE Stopped(d) \/ Unknown(d) \/ Conflict(d)
  BY <1>2, <1>6, UploadMoves
<1>7. CASE ~Answers(d)
  BY <1>2, <1>7, SilentMoves
<1> QED BY <1>3, <1>4, <1>5, <1>6, <1>7, <1>8 DEF Answers

(* An upload answered with 202 never waits for nothing: no crash, retry,   *)
(* abandoned attempt or deletion takes the job of a queued document from   *)
(* RQ before it is started, but using up the retries.                      *)
THEOREM AcceptedJobsAreSent == ApiSpec => []AcceptedIsSent
<1>1. ApiInit => AcceptedIsSent
  BY DEF ApiInit, Init, AcceptedIsSent, NoReply, Accepted
<1>2. /\ TypeOK /\ DeletionIsLate /\ QueuedIsSeen /\ RepliesInv /\ UploadInv
      /\ AcceptedIsSent /\ [ApiNext]_apiVars
      => AcceptedIsSent'
  BY AcceptedIsSentStep
<1> QED BY <1>1, <1>2, ApiTypes, ApiUnsent, QueuedAreSeen, RepliesAlways, UploadsAlways, PTL DEF ApiSpec
---------------------------------------------------------------------------
(* NoOrphanFile *)

\* the file of d has a row, an upload that will see to it, or an API that stopped
FileIsOwned(d) ==
    docRow[d] # NoRow \/ sub[d].pc \in {"check", "insert", "unstore"} \/ reply[d] = Lost

LEMMA NoOrphanFileStep ==
    ASSUME TypeOK, RepliesInv, UploadInv, GoneInv, NoOrphanFile, [ApiNext]_apiVars,
           "store_error" \notin Faults
    PROVE  NoOrphanFile'
<1> SUFFICES ASSUME NEW d \in files' PROVE FileIsOwned(d)'
  BY DEF NoOrphanFile, FileIsOwned
<1>1. [Next]_vars
  BY ApiStepIsStep
<1> USE DEF FileIsOwned, TypeOK, SubGoto, SubHolds
<1>2. CASE d \notin files
  BY <1>1, <1>2, FileAppears DEF SaveFile
<1>3. CASE d \in files
  <2>0. d \in Docs /\ FileIsOwned(d)
    BY <1>3 DEF NoOrphanFile
  <2>1. CASE docRow[d] # NoRow
    <3>1. ASSUME docRow'[d] = NoRow PROVE FALSE
      <4>1. PICK x \in Deleters : DeleteRow(x) /\ del[x].id = d
        BY <1>1, <2>0, <2>1, <3>1, RowsGo
      <4> QED BY <1>3, <4>1 DEF DeleteRow, GoneInv, FilesGoFirst
    <3> QED BY <3>1
  <2>2. CASE reply[d] = Lost
    <3>1. sub[d].pc = "done" /\ error[d] = NoError
      BY <2>0, <2>2 DEF UploadInv, UploadIsClean, Lost, NoReply
    <3> USE DEF Moves, Unanswered, Fails, Ends, NoError
    <3>2. CASE Rejected(d) \/ Looked(d) \/ Inserted(d) \/ NotInserted(d)
      BY <2>0, <2>2, <3>1, <3>2, UploadMoves
    <3>3. CASE Unstored(d) \/ LookedAgain(d) \/ Enqueued(d)
      BY <2>0, <2>2, <3>1, <3>3, UploadMoves
    <3>4. CASE NotDispatched(d) \/ DispatchSaved(d) \/ DispatchAborted(d) \/ DispatchMarked(d)
      BY <2>0, <2>2, <3>1, <3>4, UploadMoves DEF DispatchPC
    <3>5. CASE Stopped(d) \/ Unknown(d) \/ Conflict(d)
      BY <2>0, <2>2, <3>1, <3>5, UploadMoves
    <3>6. CASE ~Answers(d)
      BY <2>0, <2>2, <3>6, SilentMoves
    <3> QED BY <3>2, <3>3, <3>4, <3>5, <3>6 DEF Answers
  <2>3. CASE sub[d].pc \in {"check", "insert", "unstore"}
    <3> USE DEF Moves, Unanswered, Fails, Ends, NoError
    <3>1. CASE Inserted(d)
      <4>1. docRow'[d] # NoRow
        BY <2>0, <3>1 DEF Inserted, Insert, SetBoth, NoRow
      <4> QED BY <4>1
    <3>2. CASE Unstored(d)
      BY <2>0, <3>2 DEF Unstored, Unstore
    <3>3. CASE Rejected(d) \/ Looked(d) \/ NotInserted(d)
      BY <2>0, <2>3, <3>3, UploadMoves
    <3>4. CASE LookedAgain(d) \/ Enqueued(d) \/ NotDispatched(d)
      BY <2>0, <2>3, <3>4, UploadMoves
    <3>8. CASE DispatchSaved(d) \/ DispatchAborted(d) \/ DispatchMarked(d)
      BY <2>0, <2>3, <3>8, UploadMoves DEF DispatchPC
    <3>5. CASE Stopped(d)
      BY <2>0, <3>5, UploadMoves
    <3>6. CASE Unknown(d) \/ Conflict(d)
      BY <2>0, <2>3, <3>6, UploadMoves DEF vars
    <3>7. CASE ~Answers(d)
      BY <2>0, <2>3, <3>7, SilentMoves
    <3> QED BY <3>1, <3>2, <3>3, <3>4, <3>5, <3>6, <3>7, <3>8 DEF Answers
  <2> QED BY <2>0, <2>1, <2>2, <2>3
<1> QED BY <1>2, <1>3

(* A stored file without a row belongs to an upload that still runs or     *)
(* that the API stopped in the middle of, unless the store fails to unlink *)
(* it.                                                                      *)
THEOREM FilesAreOwned ==
    ASSUME "store_error" \notin Faults
    PROVE  ApiSpec => []NoOrphanFile
<1>1. ApiInit => NoOrphanFile
  BY DEF ApiInit, Init, NoOrphanFile
<1>2. TypeOK /\ RepliesInv /\ UploadInv /\ GoneInv /\ NoOrphanFile /\ [ApiNext]_apiVars
        => NoOrphanFile'
  BY NoOrphanFileStep
<1> QED BY <1>1, <1>2, ApiTypes, RepliesAlways, UploadsAlways, GoneAlways, PTL DEF ApiSpec
---------------------------------------------------------------------------
(* SuccessIsFinal *)

\* what _mark_failed has still to fail is no job that succeeded
FailsNoSuccessOf(w) ==
    att[w].pc \in {"fail_save_doc", "fail_save_job", "fail"} /\ SavesJob(att[w])
        => jobRow[att[w].id] # "succeeded"

FailsNoSuccess == \A w \in Workers : FailsNoSuccessOf(w)

LEMMA FailsNoSuccessStep ==
    ASSUME DeliveryInv, FailsNoSuccess, [Next]_vars, "abandon" \notin Faults
    PROVE  FailsNoSuccess'
<1> USE DEF DeliveryInv
<1> SUFFICES ASSUME NEW w \in Workers, att'[w].pc \in {"fail_save_doc", "fail_save_job", "fail"}
             PROVE  FailsNoSuccessOf(w)'
  BY DEF FailsNoSuccess, FailsNoSuccessOf
<1>1. FailsNoSuccessOf(w)
  BY DEF FailsNoSuccess
<1>2. CASE AttemptStep(w)
  BY <1>1, <1>2, AttemptMoves, NowHolds, EndFrame, BusyAttempt, AttemptFrame
     DEF Goes, AttGoto, IdleAttempt, FailsNoSuccessOf, SavesJob
<1>3. CASE att'[w] = att[w] /\ jobRow'[att[w].id] \in {jobRow[att[w].id], "failed", NoRow}
  BY <1>1, <1>3 DEF FailsNoSuccessOf, SavesJob, NoRow
<1> QED BY <1>2, <1>3, OthersSteps

(* A worker fails no job that succeeded, and no handler restarts it. *)
LEMMA SuccessStays ==
    ASSUME AgreementInv, FailsNoSuccess, [Next]_vars, NEW d \in Docs,
           jobRow[d] = "succeeded", jobRow'[d] \notin {"succeeded", NoRow}
    PROVE  DispatchFailed(d)
<1> USE DEF AgreementInv, DeliveryInv, TypeOK
<1>1. ASSUME NEW e \in Docs, Reject(e) \/ SubmitStep(e) \/ ApiCrash(e) PROVE DispatchFailed(d)
  <2>1. e = d
    BY <1>1, SubmissionFrame DEF OthersKept
  <2>2. ~Insert(d)
    BY DEF Insert, ContentTaken, StatusAgreement, StatusPairs, NoRow
  <2> QED BY <1>1, <2>1, <2>2 DEF SubmitStep, Reject, SaveFile, CheckHash, InsertFails, Unstore,
     Enqueue, DispatchReadDoc, DispatchReadJob, DispatchSaveDoc, DispatchSaveJob, DispatchAborts,
     ApiCrash, db
<1>2. ASSUME NEW w \in Workers, AttemptStep(w) \/ WorkerCrash(w) PROVE FALSE
  <2>1. att[w].id = d
    BY <1>2, AttemptFrame DEF OthersKept
  <2>2. ~StartJob(w)
    BY <2>1 DEF StartJob, SoleWriterOfJob, Starting
  <2>3. ~MarkFailed(w)
    <3>1. ASSUME MarkFailed(w) PROVE att[w].pc = "fail" /\ (att[w].job # NoRow \/ jobRow' = jobRow)
      BY <3>1, <2>1 DEF MarkFailed, SetBoth
    <3> QED BY <2>1, <3>1 DEF FailsNoSuccess, FailsNoSuccessOf, SavesJob
  <2> QED BY <1>2, <2>1, <2>2, <2>3, AttemptRows DEF JobMoves
<1>3. ASSUME NEW w \in Workers, Abandon(w) PROVE FALSE
  BY <1>3 DEF Abandon, db
<1>4. ASSUME NEW w \in Workers, NEW e \in Docs, Deliver(w, e) PROVE FALSE
  BY <1>4 DEF Deliver, db
<1>5. ASSUME NEW x \in Deleters, DeleteStep(x) PROVE FALSE
  BY <1>5, DeletionRows
<1>6. ASSUME NEW x \in Deleters, NEW e \in Docs, DeleteRead(x, e) PROVE FALSE
  BY <1>6 DEF DeleteRead, db
<1>7. ~UNCHANGED vars
  BY DEF vars, db
<1> QED BY <1>1, <1>2, <1>3, <1>4, <1>5, <1>6, <1>7 DEF Next

(* Only the upload itself fails the rows it could not send, and its client *)
(* is answered with an error in the same step. *)
LEMMA DispatchFailedAnswers ==
    ASSUME TypeOK, RepliesInv, UploadInv, [ApiNext]_apiVars, NEW d \in Docs, DispatchFailed(d),
           jobRow'[d] # jobRow[d]
    PROVE  /\ jobRow'[d] = "failed" /\ reply[d] = NoReply
           /\ \/ reply'[d] = UploadStatus["QueueDispatchError"]
              \/ "late_error" \in Faults /\ reply'[d] = UploadStatus["Unhandled"]
<1> USE Statuses DEF Moves, Unanswered, Ends
<1>1. sub[d].pc = "dispatch" /\ sub'[d].pc = "done"
  BY DispatchGoes
<1>2. reply[d] = NoReply
  BY <1>1 DEF UploadInv, UploadIsClean
<1>3. CASE DispatchMarked(d)
  BY <1>2, <1>3, UploadMoves
<1>4. CASE Rejected(d) \/ Looked(d) \/ Inserted(d) \/ NotInserted(d)
  BY <1>1, <1>4, UploadMoves
<1>5. CASE Unstored(d) \/ LookedAgain(d) \/ Enqueued(d) \/ NotDispatched(d)
  BY <1>1, <1>5, UploadMoves
<1>6. CASE DispatchSaved(d) \/ DispatchAborted(d)
  BY <1>6 DEF DispatchSaved, DispatchSaveDoc, DispatchSaveJob, DispatchAborted, DispatchAborts, db
<1>7. CASE Stopped(d) \/ Unknown(d) \/ Conflict(d)
  BY <1>7, UploadMoves DEF db, vars
<1>8. CASE ~Answers(d)
  BY <1>1, <1>8, SilentMoves
<1> QED BY <1>3, <1>4, <1>5, <1>6, <1>7, <1>8 DEF Answers

(* A job that succeeded stays so until its document is deleted: while RQ   *)
(* abandons no live attempt, no second delivery, lost update or late       *)
(* _mark_failed takes the success back.  The API alone may, when it takes  *)
(* a job that Redis did accept for one that was not sent.                  *)
THEOREM SuccessesAreFinal ==
    ASSUME "abandon" \notin Faults
    PROVE  ApiSpec => SuccessIsFinal
<1>1. Init => FailsNoSuccess
  BY DEF Init, FailsNoSuccess, FailsNoSuccessOf, IdleAttempt
<1>2. AgreementInv /\ FailsNoSuccess /\ [Next]_vars => FailsNoSuccess'
  BY FailsNoSuccessStep DEF AgreementInv
<1>3. AgreementInv /\ FailsNoSuccess /\ RepliesInv /\ UploadInv /\ [ApiNext]_apiVars
        => [\A d \in Docs : jobRow[d] = "succeeded" =>
              \/ jobRow'[d] \in {"succeeded", NoRow}
              \/ /\ jobRow'[d] = "failed" /\ reply[d] = NoReply
                 /\ \/ reply'[d] = UploadStatus["QueueDispatchError"]
                    \/ "late_error" \in Faults /\ reply'[d] = UploadStatus["Unhandled"]]_apiVars
  BY ApiStepIsStep, SuccessStays, DispatchFailedAnswers DEF AgreementInv, DeliveryInv
<1>4. Spec => []FailsNoSuccess
  BY <1>1, <1>2, AgreementIsInductive, PTL DEF Spec
<1> QED BY <1>3, <1>4, ApiRunsTheWorkflow, AgreementIsInductive, RepliesAlways, UploadsAlways, PTL
        DEF ApiSpec, SuccessIsFinal
=============================================================================
