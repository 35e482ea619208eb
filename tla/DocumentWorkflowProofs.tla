---------------------- MODULE DocumentWorkflowProofs ----------------------
(* What every step of DocumentWorkflow does to the types and to the        *)
(* documents of other actors, the theorems that hold under any faults, and *)
(* those that need some of them excluded: see README.md.                   *)
EXTENDS DocumentWorkflowInv, TLAPS

(* The names the code uses are statuses.                                   *)
LEMMA NamesAreTyped ==
    /\ NoRow \in DocRow /\ NoRow \in JobRow
    /\ {"queued", "processing", "ready", "failed", "deleting"} \subseteq DocRow
    /\ {"queued", "running", "succeeded", "failed"} \subseteq JobRow
  BY DEF DocRow, JobRow, DocumentStatus, IngestionJobStatus

(* The places the actions go to are places.                                *)
LEMMA PlacesAreTyped ==
    /\ {"check", "insert", "unstore", "enqueue", "done"} \subseteq SubPC
    /\ {"dispatch_doc", "dispatch_job", "dispatch_save_doc", "dispatch_save_job", "dispatch"}
           \subseteq SubPC
    /\ {"start_job", "start_doc", "start_save_doc", "start_save_job", "start"} \subseteq AttPC
    /\ {"final_doc", "final_job", "final_save_doc", "final_save_job", "final"} \subseteq AttPC
    /\ {"fail_doc", "fail_job", "fail_save_doc", "fail_save_job", "fail"} \subseteq AttPC
    /\ {"prepare", "upsert", "cleanup"} \subseteq AttPC
  BY DEF SubPC, DispatchPC, AttPC, StartPC, FinalPC, FailPC

(* What save() leaves in a row is what was there or what it writes.        *)
LEMMA UpdatedRow ==
    ASSUME NEW now, NEW seen, NEW new
    PROVE  Updated(now, seen, new) \in {now, new}
  BY DEF Updated

(* A commit of both rows writes statuses.                                  *)
LEMMA RowsTyped ==
    ASSUME TypeOK, NEW d \in Docs, NEW doc \in DocRow, NEW job \in JobRow, SetBoth(d, doc, job)
    PROVE  docRow' \in [Docs -> DocRow] /\ jobRow' \in [Docs -> JobRow]
  BY DEF TypeOK, SetBoth

(* So does a commit of rows that save() has compared with what it selected. *)
LEMMA SavedTyped ==
    ASSUME TypeOK, NEW d \in Docs, NEW doc \in DocRow, NEW job \in JobRow, NEW seen, NEW held,
           SetBoth(d, Updated(docRow[d], seen, doc), Updated(jobRow[d], held, job))
    PROVE  docRow' \in [Docs -> DocRow] /\ jobRow' \in [Docs -> JobRow]
<1>1. Updated(docRow[d], seen, doc) \in DocRow
  BY UpdatedRow DEF TypeOK
<1>2. Updated(jobRow[d], held, job) \in JobRow
  BY UpdatedRow DEF TypeOK
<1> QED
  BY <1>1, <1>2, RowsTyped

(* A submission that goes on keeps its type.                               *)
LEMMA SubmissionTyped ==
    ASSUME TypeOK, NEW d \in Docs, NEW pc \in SubPC, NEW doc \in DocRow, NEW job \in JobRow,
           SubHolds(d, pc, doc, job)
    PROVE  sub' \in [Docs -> Submission]
  BY DEF TypeOK, SubHolds, Submission

(* An attempt that goes on keeps its type.                                 *)
LEMMA AttemptTyped ==
    ASSUME TypeOK, NEW w \in Workers, att[w].pc # "idle",
           NEW pc \in AttPC, NEW doc \in DocRow, NEW job \in JobRow,
           AttHolds(w, pc, doc, job)
    PROVE  att' \in [Workers -> Attempt]
  BY DEF TypeOK, AttHolds, Attempt, IdleAttempt

(* A running attempt has a document, and what it has read are statuses.    *)
LEMMA BusyAttempt ==
    ASSUME TypeOK, NEW w \in Workers, att[w].pc # "idle"
    PROVE  /\ att[w].id \in Docs /\ att[w].doc \in DocRow /\ att[w].job \in JobRow
           /\ att[w].pc \in AttPC
  BY DEF TypeOK, Attempt, IdleAttempt

(* So has a deletion in progress.                                          *)
LEMMA BusyDelete ==
    ASSUME TypeOK, NEW x \in Deleters, del[x].pc # "idle"
    PROVE  del[x].id \in Docs /\ del[x].doc \in DocRow /\ del[x].pc \in DelPC
  BY DEF TypeOK, Deletion, IdleDelete

(* RQ queues a job again, or does nothing.                                 *)
LEMMA RetryTyped ==
    ASSUME TypeOK, NEW d \in Docs, RetryJob(d)
    PROVE  queued' \subseteq Docs /\ retries' \in [Docs -> Nat]
  BY DEF TypeOK, RetryJob, rq

(* An attempt that ends leaves an idle worker and a well-formed queue.     *)
LEMMA EndTyped ==
    ASSUME TypeOK, NEW w \in Workers, att[w].pc # "idle", AttemptReturns(w) \/ AttemptRaises(w)
    PROVE  /\ att' \in [Workers -> Attempt]
           /\ queued' \subseteq Docs /\ retries' \in [Docs -> Nat]
  BY BusyAttempt, RetryTyped DEF AttemptReturns, AttemptRaises, TypeOK, Attempt, rq

(* A deletion that goes on keeps its type.                                 *)
LEMMA DeletionTyped ==
    ASSUME TypeOK, NEW x \in Deleters, NEW pc \in DelPC, NEW d \in Docs, NEW doc \in DocRow,
           DelHolds(x, pc, d, doc)
    PROVE  del' \in [Deleters -> Deletion]
  BY DEF TypeOK, DelHolds, Deletion

(* The initial state has the types.                                        *)
LEMMA TypeInit == Init => TypeOK
  BY WorkflowAssumption
     DEF Init, TypeOK, IdleAttempt, IdleDelete, Submission, Attempt, Deletion, DocRow, JobRow, SubPC, DispatchPC

(* Every step keeps the types.                                             *)
LEMMA TypeStep ==
    ASSUME TypeOK, [Next]_vars
    PROVE  TypeOK'
<1> USE NamesAreTyped, PlacesAreTyped DEF db, rq
<1>1. ASSUME NEW d \in Docs, Reject(d) PROVE TypeOK'
  BY <1>1, SubmissionTyped DEF SubGoto, Reject, TypeOK
<1>2. ASSUME NEW d \in Docs, SaveFile(d) PROVE TypeOK'
  BY <1>2, SubmissionTyped DEF SubGoto, SaveFile, TypeOK
<1>3. ASSUME NEW d \in Docs, CheckHash(d) PROVE TypeOK'
  BY <1>3, SubmissionTyped DEF SubGoto, CheckHash, TypeOK
<1>4. ASSUME NEW d \in Docs, Insert(d) PROVE TypeOK'
  BY <1>4, SubmissionTyped, RowsTyped DEF SubGoto, Insert, TypeOK
<1>5. ASSUME NEW d \in Docs, InsertFails(d) PROVE TypeOK'
  BY <1>5, SubmissionTyped DEF SubGoto, InsertFails, TypeOK
<1>6. ASSUME NEW d \in Docs, Unstore(d) PROVE TypeOK'
  BY <1>6, SubmissionTyped DEF SubGoto, Unstore, TypeOK
<1>7. ASSUME NEW d \in Docs, Enqueue(d) PROVE TypeOK'
  BY <1>7, SubmissionTyped DEF SubGoto, Enqueue, TypeOK
<1>8. ASSUME NEW d \in Docs, DispatchReadDoc(d) PROVE TypeOK'
  BY <1>8, SubmissionTyped DEF SubGoto, DispatchReadDoc, TypeOK
<1>9. ASSUME NEW d \in Docs, DispatchReadJob(d) PROVE TypeOK'
  BY <1>9, SubmissionTyped DEF SubGoto, DispatchReadJob, TypeOK, Submission
<1>10. ASSUME NEW d \in Docs, DispatchSaveDoc(d) PROVE TypeOK'
  BY <1>10, SubmissionTyped DEF SubGoto, DispatchSaveDoc, TypeOK
<1>11. ASSUME NEW d \in Docs, DispatchSaveJob(d) PROVE TypeOK'
  BY <1>11, SubmissionTyped DEF SubGoto, DispatchSaveJob, TypeOK, Submission
<1>12. ASSUME NEW d \in Docs, DispatchFailed(d) PROVE TypeOK'
  <2>1. docRow' \in [Docs -> DocRow] /\ jobRow' \in [Docs -> JobRow]
    BY <1>12, SavedTyped DEF DispatchFailed, TypeOK
  <2> QED
    BY <1>12, <2>1, SubmissionTyped DEF SubGoto, DispatchFailed, TypeOK
<1>13. ASSUME NEW d \in Docs, DispatchAborts(d) PROVE TypeOK'
  BY <1>13, SubmissionTyped DEF SubGoto, DispatchAborts, TypeOK
<1>14. ASSUME NEW d \in Docs, ApiCrash(d) PROVE TypeOK'
  BY <1>14, SubmissionTyped DEF SubGoto, ApiCrash, TypeOK
<1>15. ASSUME NEW w \in Workers, StartReadJob(w) PROVE TypeOK'
  BY <1>15, BusyAttempt, AttemptTyped, EndTyped DEF AttGoto, StartReadJob, TypeOK
<1>16. ASSUME NEW w \in Workers, StartReadDoc(w) PROVE TypeOK'
  BY <1>16, BusyAttempt, AttemptTyped, EndTyped DEF AttGoto, StartReadDoc, TypeOK
<1>17. ASSUME NEW w \in Workers, StartSaveDoc(w) PROVE TypeOK'
  BY <1>17, BusyAttempt, AttemptTyped, EndTyped DEF AttGoto, StartSaveDoc, TypeOK
<1>18. ASSUME NEW w \in Workers, StartSaveJob(w) PROVE TypeOK'
  BY <1>18, BusyAttempt, AttemptTyped, EndTyped DEF AttGoto, StartSaveJob, TypeOK
<1>19. ASSUME NEW w \in Workers, StartJob(w) PROVE TypeOK'
  <2>1. att[w].pc # "idle" /\ att[w].id \in Docs
    BY <1>19, BusyAttempt DEF StartJob
  <2>2. docRow' \in [Docs -> DocRow] /\ jobRow' \in [Docs -> JobRow]
    BY <1>19, <2>1, SavedTyped DEF StartJob, TypeOK
  <2>3. /\ att' \in [Workers -> Attempt]
        /\ queued' \subseteq Docs /\ retries' \in [Docs -> Nat]
    BY <1>19, <2>1, AttemptTyped, EndTyped DEF AttGoto, StartJob, TypeOK
  <2> QED
    BY <1>19, <2>2, <2>3 DEF StartJob, TypeOK
<1>20. ASSUME NEW w \in Workers, Prepare(w) PROVE TypeOK'
  BY <1>20, BusyAttempt, AttemptTyped, EndTyped DEF AttGoto, Prepare, TypeOK
<1>21. ASSUME NEW w \in Workers, Upsert(w) PROVE TypeOK'
  BY <1>21, BusyAttempt, AttemptTyped, EndTyped DEF AttGoto, Upsert, TypeOK
<1>22. ASSUME NEW w \in Workers, FinalReadDoc(w) PROVE TypeOK'
  BY <1>22, BusyAttempt, AttemptTyped, EndTyped DEF AttGoto, FinalReadDoc, TypeOK
<1>23. ASSUME NEW w \in Workers, FinalReadJob(w) PROVE TypeOK'
  BY <1>23, BusyAttempt, AttemptTyped, EndTyped DEF AttGoto, FinalReadJob, TypeOK
<1>24. ASSUME NEW w \in Workers, FinalSaveDoc(w) PROVE TypeOK'
  BY <1>24, BusyAttempt, AttemptTyped, EndTyped DEF AttGoto, FinalSaveDoc, TypeOK
<1>25. ASSUME NEW w \in Workers, FinalSaveJob(w) PROVE TypeOK'
  BY <1>25, BusyAttempt, AttemptTyped, EndTyped DEF AttGoto, FinalSaveJob, TypeOK
<1>26. ASSUME NEW w \in Workers, Publish(w) PROVE TypeOK'
  <2>1. att[w].pc # "idle" /\ att[w].id \in Docs
    BY <1>26, BusyAttempt DEF Publish
  <2>2. docRow' \in [Docs -> DocRow] /\ jobRow' \in [Docs -> JobRow]
    BY <1>26, <2>1, SavedTyped DEF Publish, TypeOK
  <2>3. /\ att' \in [Workers -> Attempt]
        /\ queued' \subseteq Docs /\ retries' \in [Docs -> Nat]
    <3>1. AttemptReturns(w) \/ (AttGoto(w, "fail_doc") /\ UNCHANGED rq)
      BY <1>26 DEF Publish
    <3>2. CASE AttemptReturns(w)
      BY <2>1, <3>2, EndTyped
    <3>3. CASE AttGoto(w, "fail_doc") /\ UNCHANGED rq
      BY <2>1, <3>3, AttemptTyped DEF AttGoto, TypeOK
    <3> QED
      BY <3>1, <3>2, <3>3
  <2>4. /\ chunks' \in {chunks, chunks \union {att[w].id}} /\ revision' \in {revision, revision + 1}
        /\ UNCHANGED <<accepted, points, files, sub, del>>
    BY <1>26 DEF Publish
  <2> QED
    BY <2>1, <2>2, <2>3, <2>4 DEF TypeOK
<1>27. ASSUME NEW w \in Workers, FailReadDoc(w) PROVE TypeOK'
  BY <1>27, BusyAttempt, AttemptTyped, EndTyped DEF AttGoto, FailReadDoc, TypeOK
<1>28. ASSUME NEW w \in Workers, FailReadJob(w) PROVE TypeOK'
  BY <1>28, BusyAttempt, AttemptTyped, EndTyped DEF AttGoto, FailReadJob, TypeOK
<1>29. ASSUME NEW w \in Workers, FailSaveDoc(w) PROVE TypeOK'
  BY <1>29, BusyAttempt, AttemptTyped, EndTyped DEF AttGoto, FailSaveDoc, TypeOK
<1>30. ASSUME NEW w \in Workers, FailSaveJob(w) PROVE TypeOK'
  BY <1>30, BusyAttempt, AttemptTyped, EndTyped DEF AttGoto, FailSaveJob, TypeOK
<1>31. ASSUME NEW w \in Workers, MarkFailed(w) PROVE TypeOK'
  <2>1. att[w].pc # "idle" /\ att[w].id \in Docs
    BY <1>31, BusyAttempt DEF MarkFailed
  <2>2. docRow' \in [Docs -> DocRow] /\ jobRow' \in [Docs -> JobRow]
    <3> DEFINE d   == att[w].id
               doc == IF att[w].doc # NoRow THEN Updated(docRow[d], att[w].doc, "failed") ELSE docRow[d]
               job == IF att[w].job # NoRow THEN Updated(jobRow[d], att[w].job, "failed") ELSE jobRow[d]
    <3>1. doc \in DocRow /\ job \in JobRow
      BY <2>1, UpdatedRow DEF TypeOK
    <3>2. UNCHANGED <<docRow, jobRow>> \/ SetBoth(d, doc, job)
      BY <1>31 DEF MarkFailed
    <3> QED
      BY <2>1, <3>1, <3>2, RowsTyped DEF TypeOK
  <2>3. /\ att' \in [Workers -> Attempt]
        /\ queued' \subseteq Docs /\ retries' \in [Docs -> Nat]
    BY <1>31, <2>1, AttemptTyped, EndTyped DEF AttGoto, MarkFailed, TypeOK
  <2> QED
    BY <1>31, <2>2, <2>3 DEF MarkFailed, TypeOK
<1>32. ASSUME NEW w \in Workers, Cleanup(w) PROVE TypeOK'
  BY <1>32, BusyAttempt, AttemptTyped, EndTyped DEF AttGoto, Cleanup, TypeOK
<1>33. ASSUME NEW w \in Workers, AttemptAborts(w) PROVE TypeOK'
  BY <1>33, BusyAttempt, AttemptTyped, EndTyped DEF AttGoto, AttemptAborts, TypeOK, StartPC, FailPC
<1>34. ASSUME NEW w \in Workers, WorkerCrash(w) PROVE TypeOK'
  BY <1>34, BusyAttempt, AttemptTyped, EndTyped DEF AttGoto, WorkerCrash, TypeOK
<1>35. ASSUME NEW w \in Workers, Abandon(w) PROVE TypeOK'
  BY <1>35, BusyAttempt, RetryTyped DEF Abandon, TypeOK
<1>36. ASSUME NEW w \in Workers, NEW d \in Docs, Deliver(w, d) PROVE TypeOK'
  BY <1>36, PlacesAreTyped DEF IdleAttempt, Attempt, Deliver, TypeOK
<1>37. ASSUME NEW x \in Deleters, DeleteSave(x) PROVE TypeOK'
  BY <1>37, BusyDelete, DeletionTyped DEF DelGoto, DelPC, DeleteSave, TypeOK
<1>38. ASSUME NEW x \in Deleters, DeleteMark(x) PROVE TypeOK'
  <2>1. del[x].id \in Docs /\ docRow' \in [Docs -> DocRow]
    BY <1>38, BusyDelete, UpdatedRow DEF DeleteMark, TypeOK
  <2>2. del' \in [Deleters -> Deletion]
    BY <1>38, <2>1, DeletionTyped DEF DelGoto, DelPC, DeleteMark, TypeOK, Deletion
  <2> QED
    BY <1>38, <2>1, <2>2 DEF DeleteMark, TypeOK
<1>39. ASSUME NEW x \in Deleters, DeleteCancel(x) PROVE TypeOK'
  BY <1>39, BusyDelete, DeletionTyped DEF DelGoto, DelPC, DeleteCancel, TypeOK
<1>40. ASSUME NEW x \in Deleters, DeleteVectors(x) PROVE TypeOK'
  BY <1>40, BusyDelete, DeletionTyped DEF DelGoto, DelPC, DeleteVectors, TypeOK
<1>41. ASSUME NEW x \in Deleters, DeleteFile(x) PROVE TypeOK'
  BY <1>41, BusyDelete, DeletionTyped DEF DelGoto, DelPC, DeleteFile, TypeOK
<1>42. ASSUME NEW x \in Deleters, DeleteRow(x) PROVE TypeOK'
  BY <1>42, BusyDelete, RowsTyped DEF Deletion, DelPC, DeleteRow, TypeOK
<1>43. ASSUME NEW x \in Deleters, DeleteFails(x) PROVE TypeOK'
  BY <1>43, BusyDelete, RowsTyped DEF Deletion, DelPC, DeleteFails, TypeOK
<1>44. ASSUME NEW x \in Deleters, NEW d \in Docs, DeleteRead(x, d) PROVE TypeOK'
  BY <1>44, DeletionTyped DEF DelPC, DeleteRead, TypeOK
<1>s. CASE UNCHANGED vars
  BY <1>s DEF vars, TypeOK
<1> QED
  BY <1>1, <1>2, <1>3, <1>4, <1>5, <1>6, <1>7, <1>8, <1>9, <1>10, <1>11, <1>12, <1>13,
     <1>14, <1>15, <1>16, <1>17, <1>18, <1>19, <1>20, <1>21, <1>22, <1>23, <1>24, <1>25,
     <1>26, <1>27, <1>28, <1>29, <1>30, <1>31, <1>32, <1>33, <1>34, <1>35, <1>36, <1>37,
     <1>38, <1>39, <1>40, <1>41, <1>42, <1>43, <1>44, <1>s DEF Next, SubmitStep,
     AttemptStep, DeleteStep

(* The rows, the queue and what each thread holds have their types: every  *)
(* handler of documents.py and ingestion.py writes a status of the enums   *)
(* and reads what another may have written.                                *)
THEOREM TypeCorrect == Spec => []TypeOK
<1> QED
  BY TypeInit, TypeStep, PTL DEF Spec
---------------------------------------------------------------------------
\* a step leaves what belongs to the documents other than d alone
OthersKept(d) ==
    \A e \in Docs : e # d =>
        /\ docRow'[e] = docRow[e] /\ jobRow'[e] = jobRow[e]
        /\ e \in chunks' <=> e \in chunks
        /\ e \in points' <=> e \in points
        /\ e \in files' <=> e \in files
        /\ e \in accepted' <=> e \in accepted
        /\ e \in queued' <=> e \in queued

(* A submission touches its own document only, no worker and no deletion.  *)
LEMMA SubmissionFrame ==
    ASSUME TypeOK, NEW d \in Docs, Reject(d) \/ SubmitStep(d) \/ ApiCrash(d)
    PROVE  /\ OthersKept(d) /\ UNCHANGED <<att, del, chunks, points, accepted>>
           /\ \A e \in Docs : e # d => sub'[e] = sub[e]
<1> USE DEF TypeOK, OthersKept, SubGoto, SubHolds, SetBoth, db, rq
<1>1. CASE Reject(d)
  BY <1>1 DEF Reject
<1>2. CASE SaveFile(d)
  BY <1>2 DEF SaveFile
<1>3. CASE CheckHash(d)
  BY <1>3 DEF CheckHash
<1>4. CASE Insert(d)
  BY <1>4 DEF Insert
<1>5. CASE InsertFails(d)
  BY <1>5 DEF InsertFails
<1>6. CASE Unstore(d)
  BY <1>6 DEF Unstore
<1>7. CASE Enqueue(d)
  BY <1>7 DEF Enqueue
<1>8. CASE DispatchReadDoc(d)
  BY <1>8 DEF DispatchReadDoc
<1>9. CASE DispatchReadJob(d)
  BY <1>9 DEF DispatchReadJob
<1>10. CASE DispatchSaveDoc(d)
  BY <1>10 DEF DispatchSaveDoc
<1>11. CASE DispatchSaveJob(d)
  BY <1>11 DEF DispatchSaveJob
<1>12. CASE DispatchFailed(d)
  BY <1>12 DEF DispatchFailed
<1>13. CASE DispatchAborts(d)
  BY <1>13 DEF DispatchAborts
<1>14. CASE ApiCrash(d)
  BY <1>14 DEF ApiCrash
<1> QED
  BY <1>1, <1>2, <1>3, <1>4, <1>5, <1>6, <1>7, <1>8, <1>9, <1>10, <1>11, <1>12, <1>13, <1>14
     DEF SubmitStep

(* An attempt that goes on stays with its job; other workers do not move.  *)
LEMMA HoldsFrame ==
    ASSUME TypeOK, NEW w \in Workers, NEW pc, NEW doc, NEW job, AttHolds(w, pc, doc, job)
    PROVE  att'[w].id = att[w].id /\ \A v \in Workers : v # w => att'[v] = att[v]
  BY DEF TypeOK, AttHolds

(* An attempt that ends leaves its worker idle, its job perhaps queued.    *)
LEMMA EndFrame ==
    ASSUME TypeOK, NEW w \in Workers, AttemptReturns(w) \/ AttemptRaises(w)
    PROVE  /\ att'[w] = IdleAttempt /\ \A v \in Workers : v # w => att'[v] = att[v]
           /\ queued' \in {queued, queued \union {att[w].id}}
  BY DEF TypeOK, AttemptReturns, AttemptRaises, RetryJob, rq

\* the steps of an attempt that write nothing but the place it is at
Quiet(w) ==
    \/ StartReadJob(w) \/ StartReadDoc(w) \/ StartSaveDoc(w) \/ StartSaveJob(w) \/ Prepare(w)
    \/ FinalReadDoc(w) \/ FinalReadJob(w) \/ FinalSaveDoc(w) \/ FinalSaveJob(w)
    \/ FailReadDoc(w) \/ FailReadJob(w) \/ FailSaveDoc(w) \/ FailSaveJob(w)
    \/ AttemptAborts(w) \/ WorkerCrash(w)

(* They move one worker, which keeps its job or lets RQ have it back.      *)
LEMMA QuietFrame ==
    ASSUME TypeOK, NEW w \in Workers, Quiet(w)
    PROVE  /\ att[w].pc # "idle" /\ UNCHANGED <<db, points, files, sub, del>>
           /\ \A v \in Workers : v # w => att'[v] = att[v]
           /\ \/ att'[w].id = att[w].id /\ UNCHANGED rq
              \/ att'[w] = IdleAttempt /\ queued' \in {queued, queued \union {att[w].id}}
<1> USE HoldsFrame, EndFrame DEF AttGoto
<1>1. CASE StartReadJob(w)
  BY <1>1 DEF StartReadJob
<1>2. CASE StartReadDoc(w)
  BY <1>2 DEF StartReadDoc
<1>3. CASE StartSaveDoc(w)
  BY <1>3 DEF StartSaveDoc
<1>4. CASE StartSaveJob(w)
  BY <1>4 DEF StartSaveJob
<1>5. CASE Prepare(w)
  BY <1>5 DEF Prepare, db, rq
<1>6. CASE FinalReadDoc(w)
  BY <1>6 DEF FinalReadDoc, rq
<1>7. CASE FinalReadJob(w)
  BY <1>7 DEF FinalReadJob, rq
<1>8. CASE FinalSaveDoc(w)
  BY <1>8 DEF FinalSaveDoc, rq
<1>9. CASE FinalSaveJob(w)
  BY <1>9 DEF FinalSaveJob, rq
<1>10. CASE FailReadDoc(w)
  BY <1>10 DEF FailReadDoc, rq
<1>11. CASE FailReadJob(w)
  BY <1>11 DEF FailReadJob, rq
<1>12. CASE FailSaveDoc(w)
  BY <1>12 DEF FailSaveDoc
<1>13. CASE FailSaveJob(w)
  BY <1>13 DEF FailSaveJob
<1>14. CASE AttemptAborts(w)
  BY <1>14 DEF AttemptAborts, StartPC, FailPC
<1>15. CASE WorkerCrash(w)
  BY <1>15 DEF WorkerCrash
<1> QED
  BY <1>1, <1>2, <1>3, <1>4, <1>5, <1>6, <1>7, <1>8, <1>9,
     <1>10, <1>11, <1>12, <1>13, <1>14, <1>15 DEF Quiet

(* A commit of both rows touches no other document's.                      *)
LEMMA BothFrame ==
    ASSUME TypeOK, NEW d \in Docs, NEW doc, NEW job, SetBoth(d, doc, job)
    PROVE  /\ docRow'[d] = doc /\ jobRow'[d] = job
           /\ \A e \in Docs : e # d => docRow'[e] = docRow[e] /\ jobRow'[e] = jobRow[e]
  BY DEF TypeOK, SetBoth

(* An attempt touches its own document only, no submission and no file.    *)
LEMMA AttemptFrame ==
    ASSUME TypeOK, NEW w \in Workers, AttemptStep(w) \/ WorkerCrash(w)
    PROVE  /\ att[w].pc # "idle" /\ OthersKept(att[w].id)
           /\ UNCHANGED <<sub, del, files, accepted>>
           /\ \A v \in Workers : v # w => att'[v] = att[v]
           /\ (att'[w].id = att[w].id /\ queued' = queued) \/ att'[w] = IdleAttempt
<1> USE BusyAttempt, HoldsFrame, EndFrame DEF OthersKept, AttGoto
<1>1. CASE Quiet(w)
  BY <1>1, QuietFrame DEF db, rq
<1>2. CASE StartJob(w)
  <2>1. /\ att[w].pc # "idle" /\ att[w].id \in Docs
        /\ UNCHANGED <<chunks, accepted, points, files, sub, del>>
    BY <1>2 DEF StartJob
  <2>2. \A e \in Docs : e # att[w].id => docRow'[e] = docRow[e] /\ jobRow'[e] = jobRow[e]
    BY <1>2, <2>1, BothFrame DEF StartJob
  <2>3. (AttGoto(w, "prepare") /\ UNCHANGED rq) \/ AttemptRaises(w)
    BY <1>2 DEF StartJob
  <2> QED
    BY <2>1, <2>2, <2>3 DEF rq
<1>3. CASE Upsert(w)
  BY <1>3 DEF Upsert, db, rq
<1>4. CASE Publish(w)
  <2>1. /\ att[w].pc # "idle" /\ att[w].id \in Docs
        /\ UNCHANGED <<accepted, points, files, sub, del>>
    BY <1>4 DEF Publish
  <2>2. \A e \in Docs : e # att[w].id => docRow'[e] = docRow[e] /\ jobRow'[e] = jobRow[e]
    BY <1>4, <2>1, BothFrame DEF Publish
  <2>3. chunks' \in {chunks, chunks \union {att[w].id}}
    BY <1>4 DEF Publish
  <2>4. (AttGoto(w, "fail_doc") /\ UNCHANGED rq) \/ AttemptReturns(w)
    BY <1>4 DEF Publish
  <2>5. UNCHANGED queued \/ att'[w] = IdleAttempt
    BY <2>4 DEF rq
  <2>6. \A e \in Docs : e # att[w].id => (e \in queued' <=> e \in queued)
    BY <2>4 DEF rq
  <2> QED
    BY <2>1, <2>2, <2>3, <2>4, <2>5, <2>6
<1>5. CASE MarkFailed(w)
  <2>1. /\ att[w].pc # "idle" /\ att[w].id \in Docs
        /\ UNCHANGED <<sub, del, files, accepted, chunks, points>>
    BY <1>5 DEF MarkFailed
  <2>2. \A e \in Docs : e # att[w].id => docRow'[e] = docRow[e] /\ jobRow'[e] = jobRow[e]
    BY <1>5, <2>1, BothFrame DEF MarkFailed
  <2>3. (AttGoto(w, "cleanup") /\ UNCHANGED rq) \/ AttemptRaises(w)
    BY <1>5 DEF MarkFailed
  <2> QED
    BY <2>1, <2>2, <2>3 DEF rq
<1>6. CASE Cleanup(w)
  BY <1>6 DEF Cleanup, db
<1> QED
  BY <1>1, <1>2, <1>3, <1>4, <1>5, <1>6 DEF AttemptStep, Quiet

(* A deletion touches its own document only, no submission, no attempt.    *)
LEMMA DeletionFrame ==
    ASSUME TypeOK, NEW x \in Deleters, DeleteStep(x)
    PROVE  /\ del[x].pc # "idle" /\ OthersKept(del[x].id)
           /\ UNCHANGED <<sub, att>> /\ queued' \subseteq queued
           /\ \A y \in Deleters : y # x => del'[y] = del[y]
           /\ del'[x].id = del[x].id \/ del'[x] = IdleDelete
<1> USE BusyDelete DEF TypeOK, OthersKept, DelGoto, DelHolds, SetBoth, db, rq
<1>1. CASE DeleteSave(x)
  BY <1>1 DEF DeleteSave
<1>2. CASE DeleteMark(x)
  BY <1>2 DEF DeleteMark
<1>3. CASE DeleteCancel(x)
  BY <1>3 DEF DeleteCancel
<1>4. CASE DeleteVectors(x)
  BY <1>4 DEF DeleteVectors
<1>5. CASE DeleteFile(x)
  BY <1>5 DEF DeleteFile
<1>6. CASE DeleteRow(x)
  BY <1>6 DEF DeleteRow
<1>7. CASE DeleteFails(x)
  BY <1>7 DEF DeleteFails
<1> QED
  BY <1>1, <1>2, <1>3, <1>4, <1>5, <1>6, <1>7 DEF DeleteStep

(* A save() leaves the row of d as it is, or writes it where it exists.    *)
DocMoves(d, doc) ==
    docRow' = docRow \/ (docRow[d] # NoRow /\ docRow' = [docRow EXCEPT ![d] = doc])

JobMoves(d, job) ==
    jobRow' = jobRow \/ (jobRow[d] # NoRow /\ jobRow' = [jobRow EXCEPT ![d] = job])

(* Updated leaves it so.                                                   *)
LEMMA SavedMoves ==
    ASSUME TypeOK, NEW d \in Docs, NEW seen, NEW doc, NEW held, NEW job,
           docRow[d] # NoRow, jobRow[d] # NoRow,
           SetBoth(d, Updated(docRow[d], seen, doc), Updated(jobRow[d], held, job))
    PROVE  DocMoves(d, doc) /\ JobMoves(d, job)
  BY DEF TypeOK, SetBoth, Updated, DocMoves, JobMoves

(* A submission inserts its rows as queued, or fails rows that exist.      *)
LEMMA SubmissionRows ==
    ASSUME NEW d \in Docs, Reject(d) \/ SubmitStep(d) \/ ApiCrash(d)
    PROVE  \/ UNCHANGED <<docRow, jobRow>>
           \/ /\ sub[d].pc \in Unsent /\ docRow' = [docRow EXCEPT ![d] = "queued"]
              /\ jobRow' = [jobRow EXCEPT ![d] = "queued"]
           \/ /\ docRow[d] # NoRow /\ docRow' = [docRow EXCEPT ![d] = "failed"]
              /\ jobRow' = [jobRow EXCEPT ![d] = "failed"]
<1> USE DEF SetBoth, db
<1>1. CASE Insert(d)
  BY <1>1 DEF Insert, Unsent
<1>2. CASE DispatchFailed(d)
  \* a write that differs from "failed" in nothing else still carries the code
  <2>1. ASSUME NEW now, NEW seen, UpdateCommits(now, seen, "failed", TRUE)
        PROVE  now # NoRow /\ Updated(now, seen, "failed") = "failed"
    BY <2>1 DEF UpdateCommits, WritesCode
  <2> QED
    BY <1>2, <2>1 DEF DispatchFailed
<1>3. CASE ~Insert(d) /\ ~DispatchFailed(d)
  BY <1>3 DEF SubmitStep, Reject, SaveFile, CheckHash, InsertFails, Unstore, Enqueue,
     DispatchReadDoc, DispatchReadJob, DispatchSaveDoc, DispatchSaveJob, DispatchAborts, ApiCrash
<1> QED
  BY <1>1, <1>2, <1>3

(* An attempt starts, publishes or fails the rows of its job.              *)
LEMMA AttemptRows ==
    ASSUME TypeOK, NEW w \in Workers, AttemptStep(w) \/ WorkerCrash(w)
    PROVE  \/ UNCHANGED <<docRow, jobRow>>
           \/ StartJob(w) /\ DocMoves(att[w].id, "processing") /\ JobMoves(att[w].id, "running")
           \/ Publish(w) /\ DocMoves(att[w].id, "ready") /\ JobMoves(att[w].id, "succeeded")
           \/ MarkFailed(w) /\ DocMoves(att[w].id, "failed") /\ JobMoves(att[w].id, "failed")
<1>1. CASE StartJob(w)
  BY <1>1, BusyAttempt, SavedMoves DEF StartJob, UpdateCommits
<1>2. CASE Publish(w)
  <2>1. att[w].id \in Docs
    BY <1>2, BusyAttempt DEF Publish
  <2>2. CASE UNCHANGED <<docRow, jobRow>>
    BY <2>2
  <2>3. CASE /\ docRow[att[w].id] # NoRow /\ jobRow[att[w].id] # NoRow
             /\ SetBoth(att[w].id, Updated(docRow[att[w].id], att[w].doc, "ready"),
                                   Updated(jobRow[att[w].id], att[w].job, "succeeded"))
    BY <1>2, <2>1, <2>3, SavedMoves
  <2> QED
    BY <1>2, <2>2, <2>3 DEF Publish, UpdateCommits
<1>3. CASE MarkFailed(w)
  <2> DEFINE d == att[w].id
  <2>1. d \in Docs
    BY <1>3, BusyAttempt DEF MarkFailed
  <2>2. CASE UNCHANGED <<docRow, jobRow>>
    BY <2>2
  <2>3. CASE /\ att[w].doc # NoRow => docRow[d] # NoRow
             /\ att[w].job # NoRow => jobRow[d] # NoRow
             /\ SetBoth(d, IF att[w].doc # NoRow THEN Updated(docRow[d], att[w].doc, "failed") ELSE docRow[d],
                           IF att[w].job # NoRow THEN Updated(jobRow[d], att[w].job, "failed") ELSE jobRow[d])
    <3>1. DocMoves(d, "failed")
      BY <2>1, <2>3 DEF TypeOK, SetBoth, Updated, DocMoves
    <3>2. JobMoves(d, "failed")
      BY <2>1, <2>3 DEF TypeOK, SetBoth, Updated, JobMoves
    <3> QED
      BY <1>3, <3>1, <3>2
  <2> QED
    BY <1>3, <2>2, <2>3 DEF MarkFailed, UpdateCommits
<1>4. CASE Quiet(w)
  BY <1>4, QuietFrame DEF db
<1>5. CASE Upsert(w) \/ Cleanup(w)
  BY <1>5 DEF Upsert, Cleanup, db
<1> QED
  BY <1>1, <1>2, <1>3, <1>4, <1>5 DEF AttemptStep, Quiet

(* A deletion marks the document row, or removes both rows.                *)
LEMMA DeletionRows ==
    ASSUME TypeOK, NEW x \in Deleters, DeleteStep(x)
    PROVE  \/ UNCHANGED jobRow /\ DocMoves(del[x].id, "deleting")
           \/ /\ docRow' = [docRow EXCEPT ![del[x].id] = NoRow]
              /\ jobRow' = [jobRow EXCEPT ![del[x].id] = NoRow]
<1>1. CASE DeleteMark(x)
  BY <1>1, BusyDelete DEF DeleteMark, UpdateCommits, Updated, DocMoves, TypeOK
<1>2. CASE DeleteRow(x)
  BY <1>2 DEF DeleteRow, SetBoth
<1>3. CASE ~DeleteMark(x) /\ ~DeleteRow(x)
  BY <1>3 DEF DeleteStep, DeleteSave, DeleteCancel, DeleteVectors, DeleteFile, DeleteFails, DocMoves, db
<1> QED
  BY <1>1, <1>2, <1>3

(* Nobody touches a document before its job is sent, under every fault.    *)
LEMMA UnsentStep ==
    ASSUME TypeOK, UnsentIsUntouched, [Next]_vars
    PROVE  UnsentIsUntouched'
<1> USE DEF UnsentIsUntouched
<1>1. ASSUME NEW d \in Docs, Reject(d) \/ SubmitStep(d) \/ ApiCrash(d) PROVE UnsentIsUntouched'
  <2>1. CASE Enqueue(d)
    BY <2>1, SubmissionFrame DEF Enqueue, SubGoto, SubHolds, TypeOK, Unsent, db
  <2>2. CASE ~Enqueue(d)
    <3>1. UNCHANGED queued
      BY <1>1, <2>2 DEF SubmitStep, Reject, SaveFile, CheckHash, Insert, InsertFails, Unstore,
         DispatchReadDoc, DispatchReadJob, DispatchSaveDoc, DispatchSaveJob, DispatchFailed, DispatchAborts, ApiCrash, rq
    <3>2. sub'[d].pc \in Unsent => sub[d].pc \in Unsent /\ docRow'[d] \in {NoRow, "queued"}
      <4> USE DEF SubGoto, SubHolds, SetBoth, Unsent, TypeOK, db
      <4>1. CASE Reject(d) BY <4>1 DEF Reject
      <4>2. CASE SaveFile(d) BY <4>2 DEF SaveFile
      <4>3. CASE CheckHash(d) BY <4>3 DEF CheckHash
      <4>4. CASE Insert(d) BY <4>4 DEF Insert
      <4>5. CASE InsertFails(d) BY <4>5 DEF InsertFails
      <4>6. CASE Unstore(d) BY <4>6 DEF Unstore
      <4>7. CASE DispatchReadDoc(d) BY <4>7 DEF DispatchReadDoc
      <4>8. CASE DispatchReadJob(d) BY <4>8 DEF DispatchReadJob
      <4>9. CASE DispatchSaveDoc(d) BY <4>9 DEF DispatchSaveDoc
      <4>10. CASE DispatchSaveJob(d) BY <4>10 DEF DispatchSaveJob
      <4>11. CASE DispatchFailed(d) BY <4>11 DEF DispatchFailed
      <4>12. CASE DispatchAborts(d) BY <4>12 DEF DispatchAborts, DispatchPC
      <4>13. CASE ApiCrash(d) BY <4>13 DEF ApiCrash
      <4> QED
        BY <1>1, <2>2, <4>1, <4>2, <4>3, <4>4, <4>5, <4>6, <4>7, <4>8, <4>9,
           <4>10, <4>11, <4>12, <4>13 DEF SubmitStep
    <3> QED BY <1>1, <3>1, <3>2, SubmissionFrame DEF OthersKept
  <2> QED BY <2>1, <2>2
<1>2. ASSUME NEW w \in Workers, AttemptStep(w) \/ WorkerCrash(w) PROVE UnsentIsUntouched'
  <2>1. att[w].id \in Docs /\ UNCHANGED <<sub, del>>
    BY <1>2, AttemptFrame, BusyAttempt
  <2>2. \A v \in Workers : att'[v] = att[v] \/ att'[v].id \in {att[w].id, NoDoc}
    BY <1>2, AttemptFrame DEF IdleAttempt
  <2>3. queued' \subseteq queued \union {att[w].id}
    BY <1>2, <2>1, AttemptFrame, EndFrame, TypeStep DEF OthersKept, TypeOK
  <2>4. \A e \in Docs : e # att[w].id => docRow'[e] = docRow[e]
    BY <1>2, AttemptFrame DEF OthersKept
  <2> QED BY <2>1, <2>2, <2>3, <2>4, WorkflowAssumption
<1>3. ASSUME NEW w \in Workers, NEW d \in Docs, Deliver(w, d) PROVE UnsentIsUntouched'
  BY <1>3 DEF TypeOK, Deliver, IdleAttempt, db
<1>4. ASSUME NEW x \in Deleters, DeleteStep(x) PROVE UnsentIsUntouched'
  BY <1>4, DeletionFrame, BusyDelete, WorkflowAssumption DEF OthersKept, IdleDelete
<1>5. ASSUME NEW x \in Deleters, NEW d \in Docs, DeleteRead(x, d) PROVE UnsentIsUntouched'
  <2>1. docRow[d] \notin {NoRow, "queued"} /\ UNCHANGED <<docRow, queued, sub, att>>
    BY <1>5 DEF DeleteRead, db, rq, NoRow
  <2>2. \A y \in Deleters : del'[y].id \in {del[y].id, d}
    BY <1>5 DEF DeleteRead, DelHolds, TypeOK
  <2> QED BY <2>1, <2>2
<1>6. ASSUME NEW w \in Workers, Abandon(w) PROVE UnsentIsUntouched'
  <2>1. queued' = queued \union {att[w].id} /\ UNCHANGED <<docRow, sub, att, del>>
    BY <1>6 DEF Abandon, RetryJob, db
  <2> QED BY <2>1
<1>7. CASE UNCHANGED vars
  BY <1>7 DEF vars, db, rq
<1> QED
  BY <1>1, <1>2, <1>3, <1>4, <1>5, <1>6, <1>7 DEF Next

(* A job keeps one delivery at a time, while RQ abandons no live attempt.  *)
LEMMA SoleAttemptStep ==
    ASSUME DeliveryInv, TypeOK', [Next]_vars, "abandon" \notin Faults
    PROVE  SoleAttempt'
<1> USE WorkflowAssumption DEF DeliveryInv, SoleAttempt
<1>1. ASSUME NEW d \in Docs, Reject(d) \/ SubmitStep(d) \/ ApiCrash(d) PROVE SoleAttempt'
  <2>1. CASE Enqueue(d)
    BY <2>1, SubmissionFrame DEF Enqueue, TypeOK, UnsentIsUntouched, Unsent
  <2>2. CASE ~Enqueue(d)
    BY <1>1, <2>2 DEF SubmitStep, Reject, SaveFile, CheckHash, Insert, InsertFails, Unstore,
       DispatchReadDoc, DispatchReadJob, DispatchSaveDoc, DispatchSaveJob, DispatchFailed,
       DispatchAborts, ApiCrash, rq
  <2> QED BY <2>1, <2>2
<1>2. ASSUME NEW w \in Workers, AttemptStep(w) \/ WorkerCrash(w) PROVE SoleAttempt'
  <2>1. att[w].pc # "idle" /\ att[w].id \in Docs
    BY <1>2, AttemptFrame, BusyAttempt
  <2>2. \A v \in Workers : v # w => att'[v] = att[v]
    BY <1>2, AttemptFrame
  <2>3. (att'[w].id = att[w].id /\ queued' = queued) \/ att'[w].id = NoDoc
    BY <1>2, AttemptFrame DEF IdleAttempt
  <2>4. queued' \subseteq queued \union {att[w].id}
    BY <1>2, <2>1, AttemptFrame DEF OthersKept, TypeOK
  <2>5. NoDoc \notin queued'
    BY DEF TypeOK
  <2> QED BY <2>1, <2>2, <2>3, <2>4, <2>5
<1>3. ASSUME NEW w \in Workers, NEW d \in Docs, Deliver(w, d) PROVE SoleAttempt'
  BY <1>3 DEF TypeOK, Deliver, IdleAttempt
<1>4. ASSUME NEW x \in Deleters, DeleteStep(x) PROVE SoleAttempt'
  BY <1>4, DeletionFrame
<1>5. ASSUME NEW x \in Deleters, NEW d \in Docs, DeleteRead(x, d) PROVE SoleAttempt'
  BY <1>5 DEF DeleteRead, rq
<1>6. ASSUME NEW w \in Workers, Abandon(w) PROVE FALSE
  BY <1>6 DEF Abandon
<1>7. ASSUME UNCHANGED vars PROVE SoleAttempt'
  BY <1>7 DEF vars, rq
<1> QED
  BY <1>1, <1>2, <1>3, <1>4, <1>5, <1>6, <1>7 DEF Next

(* An attempt moves by a step of its own, or begins, or finds its rows as  *)
(* they were, failed or on their way to deletion.                          *)
LEMMA OthersSteps ==
    ASSUME DeliveryInv, [Next]_vars, "abandon" \notin Faults,
           NEW v \in Workers, att'[v].pc # "idle"
    PROVE  \/ AttemptStep(v)
           \/ att'[v].pc = "start_job"
           \/ /\ att'[v] = att[v] /\ att[v].id \in Docs
              /\ docRow'[att[v].id] \in {docRow[att[v].id], "failed", "deleting", NoRow}
              /\ jobRow'[att[v].id] \in {jobRow[att[v].id], "failed", NoRow}
<1> DEFINE Kept == /\ att'[v] = att[v] /\ att[v].id \in Docs
                   /\ docRow'[att[v].id] \in {docRow[att[v].id], "failed", "deleting", NoRow}
                   /\ jobRow'[att[v].id] \in {jobRow[att[v].id], "failed", NoRow}
<1> USE DEF DeliveryInv
<1>0. att'[v] = att[v] => att[v].id \in Docs
  BY BusyAttempt
<1>1. ASSUME NEW d \in Docs, Reject(d) \/ SubmitStep(d) \/ ApiCrash(d) PROVE Kept
  <2>1. att' = att
    BY <1>1, SubmissionFrame
  <2>2. sub[d].pc \in Unsent => att[v].id # d
    BY DEF UnsentIsUntouched
  <2> QED
    BY <1>0, <1>1, <2>1, <2>2, SubmissionRows DEF TypeOK
<1>2. ASSUME NEW w \in Workers, w # v, AttemptStep(w) \/ WorkerCrash(w) PROVE Kept
  <2>1. att'[v] = att[v] /\ att[v].id \in Docs /\ att[w].id \in Docs
    BY <1>0, <1>2, AttemptFrame, BusyAttempt
  <2>2. att[v].id # att[w].id
    BY <1>2, <2>1, WorkflowAssumption DEF SoleAttempt
  <2> QED
    BY <1>2, <2>1, <2>2, AttemptFrame DEF OthersKept
<1>3. ~WorkerCrash(v)
  BY EndFrame DEF WorkerCrash, IdleAttempt
<1>4. ASSUME NEW w \in Workers, NEW d \in Docs, Deliver(w, d) PROVE att'[v].pc = "start_job" \/ Kept
  BY <1>0, <1>4 DEF Deliver, IdleAttempt, TypeOK, db
<1>5. ASSUME NEW x \in Deleters, DeleteStep(x) PROVE Kept
  <2>1. att' = att
    BY <1>5, DeletionFrame
  <2> QED
    BY <1>0, <1>5, <2>1, DeletionRows, SMTT(40) DEF TypeOK, DocMoves
<1>6. ASSUME NEW x \in Deleters, NEW d \in Docs, DeleteRead(x, d) PROVE Kept
  BY <1>0, <1>6 DEF DeleteRead, db
<1>7. ASSUME NEW w \in Workers, Abandon(w) PROVE FALSE
  BY <1>7 DEF Abandon
<1>8. CASE UNCHANGED vars
  BY <1>0, <1>8 DEF vars, db
<1> QED
  BY <1>1, <1>2, <1>3, <1>4, <1>5, <1>6, <1>7, <1>8 DEF Next

\* an attempt goes on to another place with what it has read
Goes(w, from, to, doc, job) ==
    att[w].pc = from /\ UNCHANGED <<docRow, jobRow>> /\ AttHolds(w, to, doc, job)

(* Every step ends an attempt, or leads from a place of _start_job, of the *)
(* indexing, of the final transaction or of _mark_failed to the next.      *)
LEMMA AttemptMoves ==
    ASSUME TypeOK, NEW w \in Workers, AttemptStep(w)
    PROVE  LET a   == att[w]
               doc == docRow[a.id]
               job == jobRow[a.id]
           IN  \/ AttemptReturns(w) \/ AttemptRaises(w)
               \/ Goes(w, "start_job", "start_doc", NoRow, job)
               \/ doc \in {"queued", "failed"} /\ Goes(w, "start_doc", "start_save_doc", NoRow, NoRow)
               \/ Goes(w, "start_save_doc", "start_save_job", doc, NoRow)
               \/ Goes(w, "start_save_job", "start", a.doc, job)
               \/ StartJob(w) /\ AttGoto(w, "prepare")
               \/ Goes(w, "prepare", "upsert", NoRow, NoRow)
               \/ Goes(w, "upsert", "final_doc", NoRow, NoRow) /\ a.id \in points'
               \/ Goes(w, "final_doc", "final_job", doc, NoRow)
               \/ Goes(w, "final_job", "final_save_doc", NoRow, NoRow)
               \/ Goes(w, "final_save_doc", "final_save_job", doc, NoRow)
               \/ Goes(w, "final_save_job", "final", a.doc, job)
               \/ \E from \in Indexing : Goes(w, from, "fail_doc", NoRow, NoRow)
               \/ "late_error" \in Faults /\ Publish(w) /\ AttGoto(w, "fail_doc")
               \/ Goes(w, "fail_doc", "fail_job", doc, NoRow)
               \/ Goes(w, "fail_job", "fail_save_doc", a.doc, job)
               \/ a.doc # "processing" /\ Goes(w, "fail_save_doc", "fail_save_job", NoRow, a.job)
               \/ a.doc = "processing" /\ doc # NoRow /\ Goes(w, "fail_save_doc", "fail_save_job", doc, a.job)
               \/ a.job # "running" /\ Goes(w, "fail_save_job", "fail", a.doc, NoRow)
               \/ a.job = "running" /\ job # NoRow /\ Goes(w, "fail_save_job", "fail", a.doc, job)
               \/ MarkFailed(w) /\ AttGoto(w, "cleanup")
<1> USE DEF AttGoto, Goes, db, Indexing, FinalPC
<1>1. CASE StartReadJob(w)
  BY <1>1 DEF StartReadJob
<1>2. CASE StartReadDoc(w)
  BY <1>2 DEF StartReadDoc, Startable
<1>3. CASE StartSaveDoc(w)
  BY <1>3 DEF StartSaveDoc
<1>4. CASE StartSaveJob(w)
  BY <1>4 DEF StartSaveJob
<1>5. CASE StartJob(w)
  BY <1>5 DEF StartJob
<1>6. CASE Prepare(w)
  BY <1>6 DEF Prepare
<1>7. CASE Upsert(w)
  BY <1>7 DEF Upsert
<1>8. CASE FinalReadDoc(w)
  BY <1>8 DEF FinalReadDoc
<1>9. CASE FinalReadJob(w)
  BY <1>9 DEF FinalReadJob
<1>10. CASE FinalSaveDoc(w)
  BY <1>10 DEF FinalSaveDoc
<1>11. CASE FinalSaveJob(w)
  BY <1>11 DEF FinalSaveJob
<1>12. CASE Publish(w)
  BY <1>12 DEF Publish
<1>13. CASE FailReadDoc(w)
  BY <1>13 DEF FailReadDoc
<1>14. CASE FailReadJob(w)
  BY <1>14 DEF FailReadJob
<1>15. CASE FailSaveDoc(w)
  BY <1>15 DEF FailSaveDoc
<1>16. CASE FailSaveJob(w)
  BY <1>16 DEF FailSaveJob
<1>17. CASE MarkFailed(w)
  BY <1>17 DEF MarkFailed
<1>18. CASE Cleanup(w)
  BY <1>18 DEF Cleanup
<1>19. CASE AttemptAborts(w)
  BY <1>19 DEF AttemptAborts
<1> QED
  BY <1>1, <1>2, <1>3, <1>4, <1>5, <1>6, <1>7, <1>8, <1>9, <1>10, <1>11,
     <1>12, <1>13, <1>14, <1>15, <1>16, <1>17, <1>18, <1>19, ZenonT(30) DEF AttemptStep

(* What the worker then holds.                                             *)
LEMMA NowHolds ==
    ASSUME TypeOK, NEW w \in Workers, NEW pc, NEW doc, NEW job, AttHolds(w, pc, doc, job)
    PROVE  att'[w].pc = pc /\ att'[w].id = att[w].id /\ att'[w].doc = doc /\ att'[w].job = job
  BY DEF TypeOK, AttHolds

(* Nobody else starts or publishes the document of an attempt.             *)
LEMMA SoleWriterOfDocStep ==
    ASSUME DeliveryInv, [Next]_vars, "abandon" \notin Faults
    PROVE  SoleWriterOfDoc'
<1> USE DEF DeliveryInv, Starting, Indexing, SavingDoc, FinalPC
<1>0. SUFFICES ASSUME NEW v \in Workers, att'[v].pc \in Starting \union Indexing
               PROVE  SoleWriterOfDoc!(v)'
  BY DEF SoleWriterOfDoc
<1>1. CASE AttemptStep(v)
  <2>1. att[v].id \in Docs /\ att'[v].pc # "idle"
    BY <1>0, <1>1, AttemptFrame, BusyAttempt
  <2>2. CASE StartJob(v) /\ AttGoto(v, "prepare")
    <3>1. ~AttemptRaises(v)
      BY <2>1, EndFrame DEF IdleAttempt
    <3>2. docRow'[att[v].id] = Updated(docRow[att[v].id], att[v].doc, "processing")
      <4>1. SetBoth(att[v].id, Updated(docRow[att[v].id], att[v].doc, "processing"),
                               Updated(jobRow[att[v].id], att[v].job, "running"))
        BY <2>2, <3>1 DEF StartJob
      <4> QED
        BY <2>1, <4>1, BothFrame
    <3>3. att[v].doc # "processing"
      BY <2>2 DEF StartJob, SoleWriterOfDoc
    <3>4. docRow'[att[v].id] = "processing"
      BY <3>2, <3>3 DEF Updated
    <3> QED
      BY <2>2, <3>4, NowHolds DEF AttGoto, SoleWriterOfDoc
  <2> QED
    BY <1>0, <1>1, <2>1, <2>2, AttemptMoves, NowHolds, EndFrame
       DEF Goes, AttGoto, IdleAttempt, SoleWriterOfDoc
<1>2. CASE att'[v].pc = "start_job"
  BY <1>0, <1>2
<1>3. CASE att'[v] = att[v] /\ docRow'[att[v].id] \in {docRow[att[v].id], "failed", "deleting", NoRow}
  BY <1>3 DEF NoRow, SoleWriterOfDoc
<1> QED
  BY <1>0, <1>1, <1>2, <1>3, OthersSteps
---------------------------------------------------------------------------
(* Only Insert makes a row appear.                                         *)
LEMMA RowsAppear ==
    ASSUME TypeOK, [Next]_vars, ~\E d \in Docs : Insert(d)
    PROVE  \A e \in Docs : docRow'[e] # NoRow => docRow[e] # NoRow
<1> USE DEF TypeOK
<1>1. ASSUME NEW d \in Docs, Reject(d) \/ SubmitStep(d) \/ ApiCrash(d)
      PROVE  \A e \in Docs : docRow'[e] # NoRow => docRow[e] # NoRow
  <2>1. CASE DispatchFailed(d)
    BY <2>1 DEF DispatchFailed, SetBoth, UpdateCommits
  <2>2. CASE ~DispatchFailed(d)
    BY <1>1, <2>2 DEF SubmitStep, Reject, SaveFile, CheckHash, InsertFails, Unstore, Enqueue,
       DispatchReadDoc, DispatchReadJob, DispatchSaveDoc, DispatchSaveJob, DispatchAborts,
       ApiCrash, db
  <2> QED
    BY <2>1, <2>2
<1>2. ASSUME NEW w \in Workers, AttemptStep(w) \/ WorkerCrash(w)
      PROVE  \A e \in Docs : docRow'[e] # NoRow => docRow[e] # NoRow
  BY <1>2, AttemptRows DEF DocMoves
<1>3. ASSUME NEW w \in Workers, Abandon(w) PROVE UNCHANGED docRow
  BY <1>3 DEF Abandon, db
<1>4. ASSUME NEW w \in Workers, NEW d \in Docs, Deliver(w, d) PROVE UNCHANGED docRow
  BY <1>4 DEF Deliver, db
<1>5. ASSUME NEW x \in Deleters, DeleteStep(x)
      PROVE  \A e \in Docs : docRow'[e] # NoRow => docRow[e] # NoRow
  BY <1>5, DeletionRows DEF DocMoves
<1>6. ASSUME NEW x \in Deleters, NEW d \in Docs, DeleteRead(x, d) PROVE UNCHANGED docRow
  BY <1>6 DEF DeleteRead, db
<1>7. CASE UNCHANGED vars
  BY <1>7 DEF vars, db
<1> QED
  BY <1>1, <1>2, <1>3, <1>4, <1>5, <1>6, <1>7 DEF Next

(* No two documents in the database have the same content, whatever races  *)
(* between get_by_hash and the insert of documents.py: every other handler *)
(* writes rows that exist.                                                 *)
THEOREM UniqueContent == Spec => []ContentIsUnique
<1>1. Init => ContentIsUnique
  BY DEF Init, ContentIsUnique
<1>2. TypeOK /\ ContentIsUnique /\ [Next]_vars => ContentIsUnique'
  <2> SUFFICES ASSUME TypeOK, ContentIsUnique, [Next]_vars PROVE ContentIsUnique'
    OBVIOUS
  <2>1. CASE \E d \in Docs : Insert(d)
    <3>1. PICK d \in Docs : Insert(d)
      BY <2>1
    <3>2. \A e \in Docs : Sha[e] = Sha[d] => docRow[e] = NoRow
      BY <3>1 DEF Insert, ContentTaken
    <3>3. \A e \in Docs : e # d => docRow'[e] = docRow[e]
      BY <3>1 DEF Insert, SetBoth, TypeOK
    <3> QED
      BY <3>2, <3>3 DEF ContentIsUnique
  <2>2. CASE ~\E d \in Docs : Insert(d)
    BY <2>2, RowsAppear DEF ContentIsUnique
  <2> QED
    BY <2>1, <2>2
<1> QED
  BY <1>1, <1>2, TypeCorrect, PTL DEF Spec
---------------------------------------------------------------------------
(* A row that becomes anything but "ready" under the same revision lapses. *)
LEMMA Lapses ==
    ASSUME NEW d \in Docs, NEW row, row # "ready", UNCHANGED revision,
           docRow' = [docRow EXCEPT ![d] = row], TypeOK
    PROVE  Seen!Lapse(d)
  BY DEF Seen!Lapse, Searchable, TypeOK

(* Publish and DeleteMark are the only steps that announce a revision.     *)
LEMMA RevisionKept ==
    ASSUME TypeOK, [Next]_vars,
           ~\E w \in Workers : Publish(w), ~\E x \in Deleters : DeleteMark(x)
    PROVE  UNCHANGED revision
<1> USE DEF db
<1>1. ASSUME NEW d \in Docs, Reject(d) \/ SubmitStep(d) \/ ApiCrash(d) PROVE UNCHANGED revision
  BY <1>1 DEF SubmitStep, Reject, SaveFile, CheckHash, Insert, InsertFails, Unstore, Enqueue,
     DispatchReadDoc, DispatchReadJob, DispatchSaveDoc, DispatchSaveJob, DispatchFailed,
     DispatchAborts, ApiCrash
<1>2. ASSUME NEW w \in Workers, AttemptStep(w) \/ WorkerCrash(w) \/ Abandon(w)
      PROVE  UNCHANGED revision
  <2>1. CASE Quiet(w)
    BY <2>1, QuietFrame
  <2>2. CASE StartJob(w) \/ Upsert(w) \/ MarkFailed(w) \/ Cleanup(w) \/ Abandon(w)
    BY <2>2 DEF StartJob, Upsert, MarkFailed, Cleanup, Abandon
  <2> QED
    BY <1>2, <2>1, <2>2 DEF AttemptStep, Quiet
<1>3. ASSUME NEW w \in Workers, NEW d \in Docs, Deliver(w, d) PROVE UNCHANGED revision
  BY <1>3 DEF Deliver
<1>4. ASSUME NEW x \in Deleters, DeleteStep(x) PROVE UNCHANGED revision
  BY <1>4 DEF DeleteStep, DeleteSave, DeleteCancel, DeleteVectors, DeleteFile, DeleteRow, DeleteFails
<1>5. ASSUME NEW x \in Deleters, NEW d \in Docs, DeleteRead(x, d) PROVE UNCHANGED revision
  BY <1>5 DEF DeleteRead
<1>6. CASE UNCHANGED vars
  BY <1>6 DEF vars
<1> QED
  BY <1>1, <1>2, <1>3, <1>4, <1>5, <1>6 DEF Next

(* Every step is a step of Corpus, or leaves what searches see.            *)
LEMMA CorpusStep ==
    ASSUME TypeOK, [Next]_vars
    PROVE  [Seen!Next]_(Seen!corpusVars)
<1> DEFINE Kept == UNCHANGED docRow /\ UNCHANGED revision
<1>1. Kept => UNCHANGED Seen!corpusVars
  BY DEF Seen!corpusVars, Searchable
<1>2. ASSUME NEW d \in Docs, revision' = revision + 1,
             NEW row, docRow' = docRow \/ docRow' = [docRow EXCEPT ![d] = row]
      PROVE  [Seen!Next]_(Seen!corpusVars)
  <2>1. CASE docRow'[d] = "ready"
    <3>1. Searchable' = Searchable \union {d}
      BY <1>2, <2>1 DEF Searchable, TypeOK
    <3> QED
      BY <1>2, <3>1 DEF Seen!Next, Seen!Announced, Seen!Publish
  <2>2. CASE docRow'[d] # "ready"
    <3>1. Searchable' = Searchable \ {d}
      BY <1>2, <2>2 DEF Searchable, TypeOK
    <3> QED
      BY <1>2, <3>1 DEF Seen!Next, Seen!Announced, Seen!Retire
  <2> QED
    BY <2>1, <2>2
<1>3. ASSUME NEW w \in Workers, Publish(w) PROVE [Seen!Next]_(Seen!corpusVars)
  <2>1. att[w].id \in Docs
    BY <1>3, BusyAttempt DEF Publish
  <2>2. CASE Kept
    BY <1>1, <2>2
  <2>3. CASE revision' = revision + 1 /\ \E row : docRow' = [docRow EXCEPT ![att[w].id] = row]
    BY <1>2, <2>1, <2>3
  <2> QED
    BY <1>3, <2>2, <2>3 DEF Publish, SetBoth
<1>d. ASSUME NEW x \in Deleters, DeleteMark(x) PROVE [Seen!Next]_(Seen!corpusVars)
  <2>1. del[x].id \in Docs
    BY <1>d, BusyDelete DEF DeleteMark
  <2>2. revision' = revision + 1 /\ \E row : docRow' = [docRow EXCEPT ![del[x].id] = row]
    BY <1>d DEF DeleteMark
  <2> QED
    BY <1>2, <2>1, <2>2
<1>4. CASE (~\E w \in Workers : Publish(w)) /\ (~\E x \in Deleters : DeleteMark(x))
  <2>1. UNCHANGED revision
    BY <1>4, RevisionKept
  <2>2. UNCHANGED docRow \/ \E d \in Docs : \E row \in DocRow \ {"ready"} :
            docRow' = [docRow EXCEPT ![d] = row]
    <3> USE NamesAreTyped
    <3>1. ASSUME NEW d \in Docs, Reject(d) \/ SubmitStep(d) \/ ApiCrash(d) PROVE <2>2
      BY <3>1, SubmissionRows
    <3>2. ASSUME NEW w \in Workers, AttemptStep(w) \/ WorkerCrash(w) PROVE <2>2
      <4>1. att[w].id \in Docs
        BY <3>2, AttemptFrame, BusyAttempt
      <4> QED
        BY <1>4, <3>2, <4>1, AttemptRows DEF DocMoves
    <3>3. ASSUME NEW w \in Workers, Abandon(w) PROVE UNCHANGED docRow
      BY <3>3 DEF Abandon, db
    <3>4. ASSUME NEW w \in Workers, NEW d \in Docs, Deliver(w, d) PROVE UNCHANGED docRow
      BY <3>4 DEF Deliver, db
    <3>5. ASSUME NEW x \in Deleters, DeleteStep(x) PROVE <2>2
      <4>1. del[x].id \in Docs
        BY <3>5, DeletionFrame, BusyDelete
      <4> QED
        BY <3>5, <4>1, DeletionRows DEF NoRow, DocMoves
    <3>6. ASSUME NEW x \in Deleters, NEW d \in Docs, DeleteRead(x, d) PROVE UNCHANGED docRow
      BY <3>6 DEF DeleteRead, db
    <3>7. CASE UNCHANGED vars
      BY <3>7 DEF vars, db
    <3> QED
      BY <3>1, <3>2, <3>3, <3>4, <3>5, <3>6, <3>7 DEF Next
  <2>3. CASE UNCHANGED docRow
    BY <1>1, <2>1, <2>3
  <2>4. ASSUME NEW d \in Docs, NEW row \in DocRow \ {"ready"}, docRow' = [docRow EXCEPT ![d] = row]
        PROVE  [Seen!Next]_(Seen!corpusVars)
    BY <2>1, <2>4, Lapses DEF Seen!Next
  <2> QED
    BY <2>2, <2>3, <2>4
<1> QED
  BY <1>3, <1>d, <1>4

(* What searches see of the workflow is a Corpus, under any interleaving   *)
(* and any faults: documents become searchable only with a new revision.   *)
THEOREM CorpusRefined == Spec => ImplementsCorpus
<1>1. Init => Seen!Init
  BY DEF Init, Seen!Init, Searchable, NoRow
<1> QED
  BY <1>1, CorpusStep, TypeCorrect, PTL DEF Spec, ImplementsCorpus, Seen!Spec

(* What both invariants rest on is inductive by itself.                    *)
LEMMA DeliveryStep ==
    ASSUME DeliveryInv, [Next]_vars, "abandon" \notin Faults
    PROVE  DeliveryInv'
<1>1. TypeOK /\ UnsentIsUntouched /\ TypeOK'
  BY TypeStep DEF DeliveryInv
<1> QED
  BY <1>1, UnsentStep, SoleAttemptStep, SoleWriterOfDocStep DEF DeliveryInv
---------------------------------------------------------------------------
(* StatusAgreement, while RQ abandons no live attempt: two attempts on one *)
(* job could each write a half of the pair.                                *)

(* _start_job and the final transaction write both rows: save() found each *)
(* of them other than what it writes, as nobody else writes that.          *)
LEMMA WritesBoth ==
    ASSUME AgreementInv, NEW w \in Workers
    PROVE  /\ StartJob(w) => UNCHANGED <<docRow, jobRow>> \/ SetBoth(att[w].id, "processing", "running")
           /\ Publish(w) => UNCHANGED <<docRow, jobRow>> \/ SetBoth(att[w].id, "ready", "succeeded")
<1> USE DEF AgreementInv, DeliveryInv, SoleWriterOfDoc, SoleWriterOfJob, SavingDoc, SavingJob, Starting
<1>1. CASE StartJob(w)
  BY <1>1 DEF StartJob, Updated, Publish
<1>2. CASE Publish(w)
  BY <1>2 DEF StartJob, Updated, Publish
<1> QED
  BY <1>1, <1>2

(* _mark_failed may write one row only; the reads it did bound the other. *)
LEMMA MarkFailedAgrees ==
    ASSUME AgreementInv, NEW w \in Workers, MarkFailed(w)
    PROVE  StatusAgreement'
<1> DEFINE d   == att[w].id
           doc == IF att[w].doc # NoRow THEN Updated(docRow[d], att[w].doc, "failed") ELSE docRow[d]
           job == IF att[w].job # NoRow THEN Updated(jobRow[d], att[w].job, "failed") ELSE jobRow[d]
<1> USE DEF AgreementInv, DeliveryInv
<1>1. d \in Docs /\ att[w].pc = "fail"
  BY BusyAttempt DEF MarkFailed
<1>2. CASE UNCHANGED <<docRow, jobRow>>
  BY <1>2 DEF StatusAgreement
<1>3. CASE /\ att[w].doc # NoRow => docRow[d] # NoRow
           /\ att[w].job # NoRow => jobRow[d] # NoRow
           /\ SetBoth(d, doc, job)
  <2>1. /\ att[w].doc = NoRow /\ att[w].job # NoRow => docRow[d] \in {"deleting", "failed", NoRow}
        /\ att[w].doc # NoRow /\ att[w].job = NoRow => jobRow[d] \in {"failed", NoRow}
        /\ att[w].doc = "failed" \/ att[w].job = "failed" => jobRow[d] \in {"failed", NoRow}
    BY <1>1 DEF FailureReads, FailureReadsOf, SavesDoc, SavesJob
  <2>2. <<docRow[d], jobRow[d]>> \in StatusPairs
    BY <1>1 DEF StatusAgreement
  <2>3. docRow[d] = NoRow <=> jobRow[d] = NoRow
    BY <2>2 DEF StatusPairs, NoRow
  <2>4. <<doc, job>> \in StatusPairs
    <3>1. CASE att[w].doc = NoRow /\ att[w].job = NoRow
      BY <2>2, <3>1
    <3>2. CASE att[w].doc # NoRow /\ att[w].job = NoRow
      <4>1. jobRow[d] = "failed" /\ docRow[d] # NoRow
        BY <1>3, <2>1, <2>3, <3>2
      <4> QED
        BY <2>2, <3>2, <4>1 DEF Updated, StatusPairs
    <3>3. CASE att[w].doc = NoRow /\ att[w].job # NoRow
      <4>1. docRow[d] \in {"deleting", "failed"} /\ jobRow[d] # NoRow
        BY <1>3, <2>1, <2>3, <3>3
      <4> QED
        BY <2>2, <3>3, <4>1 DEF Updated, StatusPairs
    <3>4. CASE att[w].doc # NoRow /\ att[w].job # NoRow
      <4>1. CASE att[w].doc = "failed" \/ att[w].job = "failed"
        <5>1. jobRow[d] = "failed"
          BY <1>3, <2>1, <3>4, <4>1
        <5> QED
          BY <2>2, <3>4, <5>1 DEF Updated, StatusPairs
      <4>2. CASE att[w].doc # "failed" /\ att[w].job # "failed"
        BY <3>4, <4>2 DEF Updated, StatusPairs
      <4> QED
        BY <4>1, <4>2
    <3> QED
      BY <3>1, <3>2, <3>3, <3>4
  <2> QED
    BY <1>1, <1>3, <2>4, BothFrame DEF StatusAgreement
<1> QED
  BY <1>2, <1>3 DEF MarkFailed, UpdateCommits

(* Every handler leaves the two rows of a document in agreement.           *)
LEMMA AgreementStep ==
    ASSUME AgreementInv, [Next]_vars, "abandon" \notin Faults
    PROVE  StatusAgreement'
<1> USE DEF AgreementInv, DeliveryInv
<1>1. ASSUME NEW d \in Docs, Reject(d) \/ SubmitStep(d) \/ ApiCrash(d) PROVE StatusAgreement'
  BY <1>1, SubmissionRows DEF StatusAgreement, StatusPairs, TypeOK
<1>2. ASSUME NEW w \in Workers, AttemptStep(w) \/ WorkerCrash(w) PROVE StatusAgreement'
  <2>1. CASE UNCHANGED <<docRow, jobRow>>
    BY <2>1 DEF StatusAgreement
  <2>2. CASE SetBoth(att[w].id, "processing", "running") \/ SetBoth(att[w].id, "ready", "succeeded")
    BY <2>2 DEF SetBoth, StatusAgreement, StatusPairs, TypeOK
  <2> QED
    BY <1>2, <2>1, <2>2, AttemptRows, WritesBoth, MarkFailedAgrees
<1>3. ASSUME NEW w \in Workers, NEW d \in Docs, Deliver(w, d) PROVE StatusAgreement'
  BY <1>3 DEF Deliver, StatusAgreement, db
<1>4. ASSUME NEW x \in Deleters, DeleteStep(x) PROVE StatusAgreement'
  <2>1. del[x].id \in Docs /\ docRow[del[x].id] # "queued"
    BY <1>4, DeletionFrame, BusyDelete DEF DeletionIsLate
  <2> QED
    BY <1>4, <2>1, DeletionRows DEF DocMoves, StatusAgreement, StatusPairs, TypeOK, NoRow
<1>5. ASSUME NEW x \in Deleters, NEW d \in Docs, DeleteRead(x, d) PROVE StatusAgreement'
  BY <1>5 DEF DeleteRead, StatusAgreement, db
<1>6. ASSUME NEW w \in Workers, Abandon(w) PROVE FALSE
  BY <1>6 DEF Abandon
<1>7. CASE UNCHANGED vars
  BY <1>7 DEF StatusAgreement, vars, db
<1> QED
  BY <1>1, <1>2, <1>3, <1>4, <1>5, <1>6, <1>7 DEF Next

(* No row goes back to "queued" once a deletion holds its document.        *)
LEMMA DeletionIsLateStep ==
    ASSUME TypeOK, UnsentIsUntouched, DeletionIsLate, [Next]_vars
    PROVE  DeletionIsLate'
<1> USE DEF DeletionIsLate
<1>1. ASSUME NEW d \in Docs, Reject(d) \/ SubmitStep(d) \/ ApiCrash(d) PROVE DeletionIsLate'
  <2>1. del' = del
    BY <1>1, SubmissionFrame
  <2>2. sub[d].pc \in Unsent => \A x \in Deleters : del[x].id # d
    BY DEF UnsentIsUntouched
  <2> QED
    BY <1>1, <2>1, <2>2, SubmissionRows, BusyDelete DEF TypeOK
<1>2. ASSUME NEW w \in Workers, AttemptStep(w) \/ WorkerCrash(w) PROVE DeletionIsLate'
  <2>1. del' = del
    BY <1>2, AttemptFrame
  <2>2. ASSUME NEW x \in Deleters, del[x].pc # "idle" PROVE docRow'[del[x].id] # "queued"
    BY <1>2, <2>2, BusyDelete, AttemptRows DEF DocMoves, TypeOK
  <2> QED
    BY <2>1, <2>2
<1>3. ASSUME NEW w \in Workers, NEW d \in Docs, Deliver(w, d) PROVE DeletionIsLate'
  BY <1>3 DEF Deliver, db
<1>4. ASSUME NEW x \in Deleters, DeleteStep(x) PROVE DeletionIsLate'
  <2>1. \A y \in Deleters : del'[y].pc # "idle" => del[y].pc # "idle" /\ del'[y].id = del[y].id
    BY <1>4, DeletionFrame DEF IdleDelete
  <2> QED
    BY <1>4, <2>1, DeletionRows, BusyDelete DEF DocMoves, TypeOK, NoRow
<1>5. ASSUME NEW x \in Deleters, NEW d \in Docs, DeleteRead(x, d) PROVE DeletionIsLate'
  <2>1. docRow' = docRow /\ docRow[d] # "queued"
    BY <1>5 DEF DeleteRead, db
  <2>2. \A y \in Deleters : del'[y] = del[y] \/ del'[y].id = d
    BY <1>5 DEF DeleteRead, DelHolds, TypeOK
  <2> QED
    BY <2>1, <2>2
<1>6. ASSUME NEW w \in Workers, Abandon(w) PROVE DeletionIsLate'
  BY <1>6 DEF Abandon, db
<1>7. CASE UNCHANGED vars
  BY <1>7 DEF vars, db
<1> QED
  BY <1>1, <1>2, <1>3, <1>4, <1>5, <1>6, <1>7 DEF Next

(* Nobody else starts or publishes the job of an attempt.                  *)
LEMMA SoleWriterOfJobStep ==
    ASSUME AgreementInv, [Next]_vars, "abandon" \notin Faults
    PROVE  SoleWriterOfJob'
<1> USE DEF AgreementInv, DeliveryInv, Starting, Indexing, SavingJob, FinalPC
<1>0. SUFFICES ASSUME NEW v \in Workers, att'[v].pc \in Starting \union Indexing
               PROVE  SoleWriterOfJob!(v)'
  BY DEF SoleWriterOfJob
<1>1. CASE AttemptStep(v)
  <2>1. att[v].id \in Docs /\ att'[v].pc # "idle"
    BY <1>0, <1>1, AttemptFrame, BusyAttempt
  <2>2. CASE StartJob(v) /\ AttGoto(v, "prepare")
    <3>1. ~AttemptRaises(v)
      BY <2>1, EndFrame DEF IdleAttempt
    <3>2. jobRow'[att[v].id] = Updated(jobRow[att[v].id], att[v].job, "running")
      <4>1. SetBoth(att[v].id, Updated(docRow[att[v].id], att[v].doc, "processing"),
                               Updated(jobRow[att[v].id], att[v].job, "running"))
        BY <2>2, <3>1 DEF StartJob
      <4> QED
        BY <2>1, <4>1, BothFrame
    <3>3. att[v].job # "running"
      BY <2>2 DEF StartJob, SoleWriterOfJob
    <3>4. jobRow'[att[v].id] = "running"
      BY <3>2, <3>3 DEF Updated
    <3> QED
      BY <2>2, <3>4, NowHolds DEF AttGoto, SoleWriterOfJob
  <2>3. docRow[att[v].id] \in {"queued", "failed"} => jobRow[att[v].id] \in {"queued", "failed"}
    BY <2>1 DEF StatusAgreement, StatusPairs
  <2> QED
    BY <1>0, <1>1, <2>1, <2>2, <2>3, AttemptMoves, NowHolds, EndFrame
       DEF Goes, AttGoto, IdleAttempt, SoleWriterOfJob
<1>2. CASE att'[v].pc = "start_job"
  BY <1>0, <1>2
<1>3. CASE att'[v] = att[v] /\ jobRow'[att[v].id] \in {jobRow[att[v].id], "failed", NoRow}
  BY <1>3 DEF NoRow, SoleWriterOfJob
<1> QED
  BY <1>0, <1>1, <1>2, <1>3, OthersSteps

(* What _mark_failed has read stays a bound on the rows until it writes.   *)
LEMMA FailureReadsStep ==
    ASSUME AgreementInv, [Next]_vars, "abandon" \notin Faults
    PROVE  FailureReads'
<1> USE DEF AgreementInv, DeliveryInv, SavesDoc, SavesJob
<1> DEFINE Failing == {"fail_job", "fail_save_doc", "fail_save_job", "fail"}
<1>0. SUFFICES ASSUME NEW v \in Workers, att'[v].pc \in Failing PROVE FailureReadsOf(v)'
  BY DEF FailureReads, FailureReadsOf
<1>1. CASE AttemptStep(v)
  <2> DEFINE d == att[v].id
             a == att[v]
  <2>1. d \in Docs /\ att'[v].pc # "idle"
    BY <1>0, <1>1, AttemptFrame, BusyAttempt
  <2>2. /\ docRow[d] = "processing" => jobRow[d] = "running"
        /\ docRow[d] = "failed" => jobRow[d] = "failed"
        /\ jobRow[d] = "running" => docRow[d] \in {"processing", "deleting"}
    BY <2>1 DEF StatusAgreement, StatusPairs, NoRow
  <2>3. FailureReadsOf(v)
    BY DEF FailureReads
  <2> USE <2>2, <2>3, NowHolds DEF FailureReadsOf, Goes, NoRow
  <2>4. CASE Goes(v, "fail_doc", "fail_job", docRow[d], NoRow)
    BY <2>4
  <2>5. CASE Goes(v, "fail_job", "fail_save_doc", a.doc, jobRow[d])
    BY <2>5
  <2>6. CASE a.doc # "processing" /\ Goes(v, "fail_save_doc", "fail_save_job", NoRow, a.job)
    BY <2>6
  <2>7. CASE a.doc = "processing" /\ docRow[d] # NoRow /\ Goes(v, "fail_save_doc", "fail_save_job", docRow[d], a.job)
    BY <2>7
  <2>8. CASE a.job # "running" /\ Goes(v, "fail_save_job", "fail", a.doc, NoRow)
    BY <2>8
  <2>9. CASE a.job = "running" /\ jobRow[d] # NoRow /\ Goes(v, "fail_save_job", "fail", a.doc, jobRow[d])
    BY <2>9
  <2> HIDE <2>2, <2>3 DEF FailureReadsOf
  <2> QED
    BY <1>0, <1>1, <2>1, <2>4, <2>5, <2>6, <2>7, <2>8, <2>9, AttemptMoves, EndFrame DEF AttGoto, IdleAttempt
<1>2. CASE att'[v].pc = "start_job"
  BY <1>0, <1>2
<1>3. CASE /\ att'[v] = att[v]
           /\ docRow'[att[v].id] \in {docRow[att[v].id], "failed", "deleting", NoRow}
           /\ jobRow'[att[v].id] \in {jobRow[att[v].id], "failed", NoRow}
  BY <1>3 DEF FailureReads, FailureReadsOf, NoRow
<1> QED
  BY <1>0, <1>1, <1>2, <1>3, OthersSteps

(* The invariant behind it: what an attempt or a deletion holds bounds what *)
(* the rows can have become since it read them, for any number of           *)
(* documents, workers, requests and retries and every fault but "abandon".  *)
THEOREM AgreementIsInductive ==
    ASSUME "abandon" \notin Faults
    PROVE  Spec => []AgreementInv
<1>1. Init => AgreementInv
  BY TypeInit, WorkflowAssumption DEF Init, AgreementInv, DeliveryInv, SoleAttempt, UnsentIsUntouched,
     SoleWriterOfDoc, SoleWriterOfJob, Starting, Indexing, SavingDoc, SavingJob, FinalPC,
     StatusAgreement, StatusPairs, DeletionIsLate, FailureReads, FailureReadsOf, IdleAttempt,
     IdleDelete
<1>2. AgreementInv /\ [Next]_vars => AgreementInv'
  <2> SUFFICES ASSUME AgreementInv, [Next]_vars PROVE AgreementInv'
    OBVIOUS
  <2>1. DeliveryInv'
    BY DeliveryStep DEF AgreementInv
  <2>2. TypeOK /\ UnsentIsUntouched /\ DeletionIsLate
    BY DEF AgreementInv, DeliveryInv
  <2>3. StatusAgreement' /\ DeletionIsLate'
    BY <2>2, AgreementStep, DeletionIsLateStep
  <2>4. SoleWriterOfJob' /\ FailureReads'
    BY SoleWriterOfJobStep, FailureReadsStep
  <2> QED
    BY <2>1, <2>3, <2>4 DEF AgreementInv
<1> QED
  BY <1>1, <1>2, PTL DEF Spec

(* The document row and the job row always tell the same story: the lost   *)
(* updates of submit, process, _mark_failed and delete overwrite both rows *)
(* or neither, unless RQ abandons a live attempt.                          *)
THEOREM Agreement ==
    ASSUME "abandon" \notin Faults
    PROVE  Spec => []StatusAgreement
<1>1. AgreementInv => StatusAgreement
  BY DEF AgreementInv
<1> QED
  BY <1>1, AgreementIsInductive, PTL
---------------------------------------------------------------------------
(* ReadyIsComplete, while RQ abandons no live attempt and no error follows *)
(* a commit: a ready document has no attempt left that could clean it up.  *)

(* A document marked for deletion, or in cleanup, stays accepted.          *)
LEMMA CleanupIsAcceptedStep ==
    ASSUME TypeOK, CleanupIsAccepted, [Next]_vars
    PROVE  CleanupIsAccepted'
<1> USE DEF CleanupIsAccepted, TypeOK
<1>1. ASSUME NEW d \in Docs, Reject(d) \/ SubmitStep(d) \/ ApiCrash(d) PROVE CleanupIsAccepted'
  <2>1. UNCHANGED <<del, accepted>>
    BY <1>1, SubmissionFrame
  <2> QED
    BY <1>1, <2>1, SubmissionRows
<1>2. ASSUME NEW w \in Workers, AttemptStep(w) \/ WorkerCrash(w) PROVE CleanupIsAccepted'
  <2>1. UNCHANGED <<del, accepted>>
    BY <1>2, AttemptFrame
  <2> QED
    BY <1>2, <2>1, AttemptRows DEF DocMoves
<1>3. ASSUME NEW w \in Workers, Abandon(w) PROVE CleanupIsAccepted'
  BY <1>3 DEF Abandon, db
<1>4. ASSUME NEW w \in Workers, NEW d \in Docs, Deliver(w, d) PROVE CleanupIsAccepted'
  BY <1>4 DEF Deliver, db
<1>5. ASSUME NEW x \in Deleters, DeleteStep(x) PROVE CleanupIsAccepted'
  <2> USE BusyDelete DEF DelGoto, DelHolds, db
  <2>1. CASE DeleteMark(x)
    <3>1. /\ docRow' \in {docRow, [docRow EXCEPT ![del[x].id] = "deleting"]}
          /\ accepted' = accepted \union {del[x].id}
          /\ DelGoto(x, "cancel") \/ del' = [del EXCEPT ![x] = IdleDelete]
      BY <2>1, DeletionRows DEF DeleteMark, DeleteStep, DocMoves, Updated
    <3> QED
      BY <3>1 DEF IdleDelete
  <2>7. CASE DeleteSave(x)
    BY <2>7 DEF DeleteSave
  <2>2. CASE DeleteCancel(x)
    BY <2>2 DEF DeleteCancel
  <2>3. CASE DeleteVectors(x)
    BY <2>3 DEF DeleteVectors
  <2>4. CASE DeleteFile(x)
    BY <2>4 DEF DeleteFile
  <2>5. CASE DeleteRow(x)
    BY <2>5 DEF DeleteRow, SetBoth, IdleDelete, NoRow
  <2>6. CASE DeleteFails(x)
    BY <2>6 DEF DeleteFails, IdleDelete
  <2> QED
    BY <1>5, <2>1, <2>2, <2>3, <2>4, <2>5, <2>6, <2>7 DEF DeleteStep
<1>6. ASSUME NEW x \in Deleters, NEW d \in Docs, DeleteRead(x, d) PROVE CleanupIsAccepted'
  BY <1>6 DEF DeleteRead, DelHolds, db
<1>7. CASE UNCHANGED vars
  BY <1>7 DEF vars, db
<1> QED
  BY <1>1, <1>2, <1>3, <1>4, <1>5, <1>6, <1>7 DEF Next

(* A submission stores its file before the rows exist, and removes it only *)
(* while they do not.                                                      *)
LEMMA SubmissionFiles ==
    ASSUME TypeOK, FileOutlivesRow, UnsentIsUntouched, "late_error" \notin Faults,
           NEW d \in Docs, Reject(d) \/ SubmitStep(d) \/ ApiCrash(d)
    PROVE  FileOutlivesRow'
<1>1. \A e \in Docs : e # d =>
          /\ sub'[e] = sub[e] /\ docRow'[e] = docRow[e] /\ accepted' = accepted
          /\ e \in files' <=> e \in files
  BY SubmissionFrame DEF OthersKept
<1>2. FileOutlivesRow!(d)'
  <2> USE DEF FileOutlivesRow, TypeOK, SubGoto, SubHolds, SetBoth, UpdateCommits, db
  <2>1. CASE Reject(d) BY <2>1 DEF Reject
  <2>2. CASE SaveFile(d) BY <2>2 DEF SaveFile
  <2>3. CASE CheckHash(d) BY <2>3 DEF CheckHash
  <2>4. CASE Insert(d) BY <2>4 DEF Insert
  <2>5. CASE InsertFails(d) BY <2>5 DEF InsertFails
  <2>6. CASE Unstore(d) BY <2>6 DEF Unstore
  <2>7. CASE Enqueue(d) BY <2>7 DEF Enqueue
  <2>8. CASE DispatchReadDoc(d) BY <2>8 DEF DispatchReadDoc
  <2>9. CASE DispatchReadJob(d) BY <2>9 DEF DispatchReadJob
  <2>10. CASE DispatchSaveDoc(d) BY <2>10 DEF DispatchSaveDoc
  <2>11. CASE DispatchSaveJob(d) BY <2>11 DEF DispatchSaveJob
  <2>12. CASE DispatchFailed(d) BY <2>12 DEF DispatchFailed
  <2>13. CASE DispatchAborts(d) BY <2>13 DEF DispatchAborts, DispatchPC
  <2>14. CASE ApiCrash(d) BY <2>14 DEF ApiCrash
  <2> QED
    BY <2>1, <2>2, <2>3, <2>4, <2>5, <2>6, <2>7, <2>8, <2>9, <2>10,
       <2>11, <2>12, <2>13, <2>14 DEF SubmitStep
<1> QED
  BY <1>1, <1>2 DEF FileOutlivesRow

(* The file of a document outlives its row until a deletion is accepted.   *)
LEMMA FileOutlivesRowStep ==
    ASSUME CompletenessInv, [Next]_vars, "abandon" \notin Faults, "late_error" \notin Faults
    PROVE  FileOutlivesRow'
<1> USE DEF CompletenessInv, DeliveryInv
<1>1. ASSUME NEW d \in Docs, Reject(d) \/ SubmitStep(d) \/ ApiCrash(d) PROVE FileOutlivesRow'
  BY <1>1, SubmissionFiles
<1>2. ASSUME NEW w \in Workers, AttemptStep(w) \/ WorkerCrash(w) PROVE FileOutlivesRow'
  <2>1. UNCHANGED <<sub, files, accepted>> /\ att[w].id \in Docs
    BY <1>2, AttemptFrame, BusyAttempt
  <2>2. sub[att[w].id].pc \notin Unsent
    BY <2>1 DEF UnsentIsUntouched
  <2>3. \A e \in Docs : e # att[w].id => docRow'[e] = docRow[e]
    BY <1>2, AttemptFrame DEF OthersKept
  <2>4. docRow'[att[w].id] # NoRow => docRow[att[w].id] # NoRow
    BY <1>2, <2>1, AttemptRows DEF DocMoves
  <2> QED
    BY <2>1, <2>2, <2>3, <2>4 DEF FileOutlivesRow, Unsent
<1>3. ASSUME NEW w \in Workers, NEW d \in Docs, Deliver(w, d) PROVE FileOutlivesRow'
  BY <1>3 DEF Deliver, FileOutlivesRow, db
<1>4. ASSUME NEW x \in Deleters, DeleteStep(x) PROVE FileOutlivesRow'
  <2>1. del[x].id \in Docs /\ sub' = sub
    BY <1>4, DeletionFrame, BusyDelete
  <2>2. sub[del[x].id].pc \notin Unsent
    BY <2>1 DEF UnsentIsUntouched
  <2>3. \A e \in Docs : e # del[x].id =>
            /\ docRow'[e] = docRow[e]
            /\ e \in files' <=> e \in files
            /\ e \in accepted' <=> e \in accepted
    BY <1>4, DeletionFrame DEF OthersKept
  <2>4. docRow'[del[x].id] # NoRow /\ del[x].id \notin accepted' => del[x].id \in files'
    <3> USE <2>1 DEF FileOutlivesRow, CleanupIsAccepted, TypeOK, db
    <3>1. CASE DeleteMark(x) BY <3>1 DEF DeleteMark
    <3>2. CASE DeleteCancel(x) BY <3>2 DEF DeleteCancel
    <3>3. CASE DeleteVectors(x) BY <3>3 DEF DeleteVectors
    <3>4. CASE DeleteFile(x) BY <3>4 DEF DeleteFile
    <3>5. CASE DeleteRow(x) BY <3>5 DEF DeleteRow, SetBoth
    <3>6. CASE DeleteFails(x) BY <3>6 DEF DeleteFails
    <3>7. CASE DeleteSave(x) BY <3>7 DEF DeleteSave
    <3> QED
      BY <1>4, <3>1, <3>2, <3>3, <3>4, <3>5, <3>6, <3>7 DEF DeleteStep
  <2> QED
    BY <2>1, <2>2, <2>3, <2>4 DEF FileOutlivesRow, Unsent
<1>5. ASSUME NEW x \in Deleters, NEW d \in Docs, DeleteRead(x, d) PROVE FileOutlivesRow'
  BY <1>5 DEF DeleteRead, FileOutlivesRow, db
<1>6. ASSUME NEW w \in Workers, Abandon(w) PROVE FALSE
  BY <1>6 DEF Abandon
<1>7. CASE UNCHANGED vars
  BY <1>7 DEF vars, FileOutlivesRow, db
<1> QED
  BY <1>1, <1>2, <1>3, <1>4, <1>5, <1>6, <1>7 DEF Next

(* An attempt indexes the document before it publishes it, and nobody has  *)
(* published the document that it marks failed.                            *)
LEMMA AttemptIndexes ==
    ASSUME CompletenessInv, NEW w \in Workers, AttemptStep(w) \/ WorkerCrash(w),
           "late_error" \notin Faults
    PROVE  AttemptIndexesFirst!(w)'
<1> DEFINE d == att[w].id
<1> USE DEF CompletenessInv, DeliveryInv, FinalPC, FailPC
<1>0. SUFFICES ASSUME att'[w].pc \in FinalPC \union FailPC \union {"cleanup"}
               PROVE  AttemptIndexesFirst!(w)'
  BY DEF AttemptIndexesFirst
<1>1. d \in Docs /\ att'[w].pc # "idle" /\ accepted' = accepted
  BY <1>0, AttemptFrame, BusyAttempt
<1>2. AttemptStep(w)
  BY <1>1, EndFrame DEF WorkerCrash, IdleAttempt
<1>3. CASE att'[w].pc \in FinalPC
  <2>1. ~AttemptReturns(w) /\ ~AttemptRaises(w)
    BY <1>1, EndFrame DEF IdleAttempt
  <2>2. CASE att'[w].pc = "final_doc"
    <3>1. d \in points' /\ att'[w].id = d
      BY <1>2, <2>1, <2>2, AttemptMoves, NowHolds DEF Goes, AttGoto
    <3> QED
      BY <2>2, <3>1 DEF AttemptIndexesFirst
  <2>3. CASE att'[w].pc # "final_doc"
    <3>1. att[w].pc \in FinalPC /\ att'[w].id = d
      BY <1>2, <1>3, <2>1, <2>3, AttemptMoves, NowHolds DEF Goes, AttGoto
    <3>2. Quiet(w) \/ Publish(w)
      BY <1>2, <3>1 DEF AttemptStep, StartJob, Upsert, MarkFailed, Cleanup, Quiet
    <3>3. UNCHANGED points
      BY <3>2, QuietFrame DEF Publish
    <3> QED
      BY <1>1, <1>3, <3>1, <3>3 DEF AttemptIndexesFirst
  <2> QED
    BY <2>2, <2>3
<1>4. CASE att'[w].pc \in FailPC \union {"cleanup"}
  <2>1. CASE MarkFailed(w) /\ AttGoto(w, "cleanup")
    <3>1. docRow[d] # "ready" /\ docRow \in [Docs -> DocRow]
      BY <2>1 DEF MarkFailed, AttemptIndexesFirst, TypeOK
    <3>2. DocMoves(d, "failed")
      BY <1>2, <2>1, AttemptRows DEF MarkFailed, DocMoves, StartJob, Publish
    <3> QED
      BY <1>1, <2>1, <3>1, <3>2, NowHolds DEF AttGoto, DocMoves, AttemptIndexesFirst
  <2>2. ASSUME NEW from \in Indexing, Goes(w, from, "fail_doc", NoRow, NoRow)
        PROVE  AttemptIndexesFirst!(w)'
    BY <2>2, NowHolds DEF Goes, SoleWriterOfDoc, AttemptIndexesFirst
  <2> QED
    BY <1>1, <1>2, <1>4, <2>1, <2>2, AttemptMoves, NowHolds, EndFrame
       DEF Goes, AttGoto, IdleAttempt, AttemptIndexesFirst
<1> QED
  BY <1>0, <1>3, <1>4

(* What the other workers have indexed stays so.                           *)
LEMMA AttemptIndexesFirstStep ==
    ASSUME CompletenessInv, [Next]_vars, "abandon" \notin Faults, "late_error" \notin Faults
    PROVE  AttemptIndexesFirst'
<1> USE DEF CompletenessInv, DeliveryInv, FinalPC, FailPC
<1> SUFFICES ASSUME NEW v \in Workers PROVE AttemptIndexesFirst!(v)'
  BY DEF AttemptIndexesFirst
<1>0. ASSUME UNCHANGED <<att[v].pc, att[v].id>>, accepted \subseteq accepted',
             att[v].pc # "idle" /\ docRow'[att[v].id] = "ready" => docRow[att[v].id] = "ready",
             att[v].pc # "idle" /\ att[v].id \in points => att[v].id \in accepted \/ att[v].id \in points'
      PROVE  AttemptIndexesFirst!(v)'
  BY <1>0 DEF AttemptIndexesFirst
<1>1. ASSUME NEW d \in Docs, Reject(d) \/ SubmitStep(d) \/ ApiCrash(d) PROVE AttemptIndexesFirst!(v)'
  <2>1. UNCHANGED <<att, points, accepted>>
    BY <1>1, SubmissionFrame
  <2>2. att[v].pc # "idle" /\ docRow'[att[v].id] = "ready" => docRow[att[v].id] = "ready"
    BY <1>1, SubmissionRows, BusyAttempt DEF TypeOK
  <2> QED
    BY <1>0, <2>1, <2>2
<1>2. ASSUME NEW w \in Workers, w # v, AttemptStep(w) \/ WorkerCrash(w) PROVE AttemptIndexesFirst!(v)'
  <2>1. att'[v] = att[v] /\ accepted' = accepted /\ att[w].id \in Docs
    BY <1>2, AttemptFrame, BusyAttempt
  <2>2. att[v].pc # "idle" => att[v].id \in Docs /\ att[v].id # att[w].id
    BY <1>2, <2>1, BusyAttempt, WorkflowAssumption DEF SoleAttempt
  <2>3. OthersKept(att[w].id)
    BY <1>2, AttemptFrame
  <2> QED
    BY <1>0, <2>1, <2>2, <2>3 DEF OthersKept
<1>3. ASSUME AttemptStep(v) \/ WorkerCrash(v) PROVE AttemptIndexesFirst!(v)'
  BY <1>3, AttemptIndexes
<1>4. ASSUME NEW w \in Workers, NEW d \in Docs, Deliver(w, d) PROVE AttemptIndexesFirst!(v)'
  BY <1>4 DEF Deliver, AttemptIndexesFirst, IdleAttempt, TypeOK, db
<1>5. ASSUME NEW x \in Deleters, DeleteStep(x) PROVE AttemptIndexesFirst!(v)'
  <2>1. del[x].id \in Docs /\ att' = att
    BY <1>5, DeletionFrame, BusyDelete
  <2>2. att[v].pc # "idle" /\ docRow'[att[v].id] = "ready" => docRow[att[v].id] = "ready"
    BY <1>5, <2>1, DeletionRows, BusyAttempt DEF DocMoves, TypeOK, NoRow
  <2>3. accepted \subseteq accepted' /\ points \subseteq points' \union accepted
    <3> USE DEF CleanupIsAccepted, db
    <3>1. CASE DeleteMark(x) BY <3>1 DEF DeleteMark
    <3>2. CASE DeleteCancel(x) BY <3>2 DEF DeleteCancel
    <3>3. CASE DeleteVectors(x) BY <3>3 DEF DeleteVectors
    <3>4. CASE DeleteFile(x) BY <3>4 DEF DeleteFile
    <3>5. CASE DeleteRow(x) BY <3>5 DEF DeleteRow
    <3>6. CASE DeleteFails(x) BY <3>6 DEF DeleteFails
    <3>7. CASE DeleteSave(x) BY <3>7 DEF DeleteSave
    <3> QED
      BY <1>5, <3>1, <3>2, <3>3, <3>4, <3>5, <3>6, <3>7 DEF DeleteStep
  <2> QED
    BY <1>0, <2>1, <2>2, <2>3
<1>6. ASSUME NEW x \in Deleters, NEW d \in Docs, DeleteRead(x, d) PROVE AttemptIndexesFirst!(v)'
  BY <1>0, <1>6 DEF DeleteRead, db
<1>7. ASSUME NEW w \in Workers, Abandon(w) PROVE FALSE
  BY <1>7 DEF Abandon
<1>8. CASE UNCHANGED vars
  BY <1>0, <1>8 DEF vars, db
<1> QED
  BY <1>1, <1>2, <1>3, <1>4, <1>5, <1>6, <1>7, <1>8 DEF Next

(* No step takes away what a ready document needs.                         *)
LEMMA ReadyIsCompleteStep ==
    ASSUME CompletenessInv, [Next]_vars, FileOutlivesRow', "abandon" \notin Faults
    PROVE  ReadyIsComplete'
<1> USE DEF CompletenessInv, DeliveryInv
<1>0. ASSUME NEW d \in Docs \ accepted', docRow'[d] = "ready",
             accepted \subseteq accepted', docRow[d] = "ready",
             d \in chunks => d \in chunks', d \in points => d \in points'
      PROVE  d \in chunks' /\ d \in points' /\ d \in files'
  BY <1>0 DEF ReadyIsComplete, FileOutlivesRow, NoRow
<1>1. ASSUME NEW d \in Docs, Reject(d) \/ SubmitStep(d) \/ ApiCrash(d) PROVE ReadyIsComplete'
  <2>1. UNCHANGED <<chunks, points, accepted>>
    BY <1>1, SubmissionFrame
  <2>2. \A e \in Docs : docRow'[e] = "ready" => docRow[e] = "ready"
    BY <1>1, SubmissionRows DEF TypeOK
  <2> QED
    BY <1>0, <2>1, <2>2 DEF ReadyIsComplete
<1>2. ASSUME NEW w \in Workers, AttemptStep(w) \/ WorkerCrash(w) PROVE ReadyIsComplete'
  <2> DEFINE d == att[w].id
  <2>1. accepted' = accepted /\ att[w].pc # "idle" /\ d \in Docs
    BY <1>2, AttemptFrame, BusyAttempt
  <2>2. ASSUME NEW e \in Docs \ accepted', docRow'[e] = "ready", e # d
        PROVE  e \in chunks' /\ e \in points' /\ e \in files'
    BY <1>0, <1>2, <2>1, <2>2, AttemptFrame DEF OthersKept
  <2>3. ASSUME d \notin accepted', docRow'[d] = "ready"
        PROVE  d \in chunks' /\ d \in points' /\ d \in files'
    <3>1. CASE Publish(w) /\ chunks' = chunks \union {d}
      BY <2>1, <2>3, <3>1 DEF Publish, AttemptIndexesFirst, FinalPC, FileOutlivesRow, NoRow
    <3>2. CASE docRow[d] = "ready"
      <4>1. att[w].pc \in {"start_job", "start_doc"}
        BY <2>1, <3>2, BusyAttempt
           DEF AttemptIndexesFirst, SoleWriterOfDoc, Starting, Indexing, AttPC, StartPC
      <4>2. Quiet(w)
        BY <1>2, <4>1 DEF AttemptStep, StartJob, Upsert, Publish, MarkFailed, Cleanup, Quiet
      <4>3. UNCHANGED <<chunks, points>>
        BY <4>2, QuietFrame DEF db
      <4> QED
        BY <1>0, <2>1, <2>3, <3>2, <4>3
    <3>3. CASE docRow[d] # "ready"
      <4>1. Publish(w)
        BY <1>2, <2>1, <2>3, <3>3, AttemptRows DEF DocMoves, TypeOK
      <4>2. chunks' = chunks \union {d}
        BY <2>3, <3>3, <4>1 DEF Publish
      <4> QED
        BY <3>1, <4>1, <4>2
    <3> QED
      BY <3>2, <3>3
  <2> QED
    BY <2>2, <2>3 DEF ReadyIsComplete
<1>3. ASSUME NEW w \in Workers, NEW d \in Docs, Deliver(w, d) PROVE ReadyIsComplete'
  BY <1>3 DEF Deliver, ReadyIsComplete, db
<1>4. ASSUME NEW x \in Deleters, DeleteStep(x) PROVE ReadyIsComplete'
  <2>1. del[x].id \in Docs
    BY <1>4, DeletionFrame, BusyDelete
  <2>2. accepted \subseteq accepted' /\ (del[x].id \in accepted' \/ UNCHANGED <<docRow, chunks, points>>)
    <3> USE DEF CleanupIsAccepted, db
    <3>1. CASE DeleteMark(x) BY <2>1, <3>1 DEF DeleteMark
    <3>2. CASE DeleteCancel(x) BY <3>2 DEF DeleteCancel
    <3>3. CASE DeleteVectors(x) BY <3>3 DEF DeleteVectors
    <3>4. CASE DeleteFile(x) BY <3>4 DEF DeleteFile
    <3>5. CASE DeleteRow(x) BY <3>5 DEF DeleteRow
    <3>6. CASE DeleteFails(x) BY <3>6 DEF DeleteFails
    <3>7. CASE DeleteSave(x) BY <3>7 DEF DeleteSave
    <3> QED
      BY <1>4, <3>1, <3>2, <3>3, <3>4, <3>5, <3>6, <3>7 DEF DeleteStep
  <2>3. ASSUME NEW e \in Docs \ accepted', docRow'[e] = "ready", e # del[x].id
        PROVE  e \in chunks' /\ e \in points' /\ e \in files'
    BY <1>0, <1>4, <2>2, <2>3, DeletionFrame DEF OthersKept
  <2>4. ASSUME del[x].id \notin accepted', docRow'[del[x].id] = "ready"
        PROVE  del[x].id \in chunks' /\ del[x].id \in points' /\ del[x].id \in files'
    BY <1>0, <2>1, <2>2, <2>4
  <2> QED
    BY <2>3, <2>4 DEF ReadyIsComplete
<1>5. ASSUME NEW x \in Deleters, NEW d \in Docs, DeleteRead(x, d) PROVE ReadyIsComplete'
  BY <1>5 DEF DeleteRead, ReadyIsComplete, db
<1>6. ASSUME NEW w \in Workers, Abandon(w) PROVE FALSE
  BY <1>6 DEF Abandon
<1>7. CASE UNCHANGED vars
  BY <1>7 DEF vars, ReadyIsComplete, db
<1> QED
  BY <1>1, <1>2, <1>3, <1>4, <1>5, <1>6, <1>7 DEF Next

(* The invariant behind it: the file outlives its row, and an attempt past *)
(* its start has a document nobody else publishes and indexes it before it *)
(* publishes it, unless RQ abandons a live attempt or an error follows a   *)
(* commit.                                                                  *)
THEOREM CompletenessIsInductive ==
    ASSUME "abandon" \notin Faults, "late_error" \notin Faults
    PROVE  Spec => []CompletenessInv
<1>1. Init => CompletenessInv
  BY TypeInit, WorkflowAssumption DEF Init, CompletenessInv, DeliveryInv, SoleAttempt,
     UnsentIsUntouched, SoleWriterOfDoc, Starting, Indexing, SavingDoc, FinalPC, FailPC, CleanupIsAccepted, FileOutlivesRow, AttemptIndexesFirst, ReadyIsComplete,
     IdleAttempt, IdleDelete, NoRow
<1>2. CompletenessInv /\ [Next]_vars => CompletenessInv'
  <2> SUFFICES ASSUME CompletenessInv, [Next]_vars PROVE CompletenessInv'
    OBVIOUS
  <2>2. DeliveryInv'
    BY DeliveryStep DEF CompletenessInv
  <2>3. CleanupIsAccepted'
    BY CleanupIsAcceptedStep DEF CompletenessInv, DeliveryInv
  <2>4. FileOutlivesRow'
    BY FileOutlivesRowStep
  <2> QED
    BY <2>2, <2>3, <2>4, AttemptIndexesFirstStep, ReadyIsCompleteStep DEF CompletenessInv
<1> QED
  BY <1>1, <1>2, PTL DEF Spec

(* A document that was never asked to be deleted is searchable only with   *)
(* its chunks, its vectors and its file in place, for any number of        *)
(* documents, workers, requests and retries: no retry, lost update or      *)
(* suppressed cleanup of ingestion.py takes them from a ready document.    *)
THEOREM Completeness ==
    ASSUME "abandon" \notin Faults, "late_error" \notin Faults
    PROVE  Spec => []ReadyIsComplete
<1>1. CompletenessInv => ReadyIsComplete
  BY DEF CompletenessInv
<1> QED
  BY <1>1, CompletenessIsInductive, PTL
===========================================================================
