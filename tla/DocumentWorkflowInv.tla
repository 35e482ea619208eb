----------------------- MODULE DocumentWorkflowInv -----------------------
(* The inductive invariants behind the safety properties of                *)
(* DocumentWorkflow: checked by TLC, proved in DocumentWorkflowProofs.     *)
EXTENDS DocumentWorkflow

\* a job has one delivery at a time: it waits, or one work-horse has it
SoleAttempt ==
    /\ \A w \in Workers : att[w].id \notin queued
    /\ \A v, w \in Workers : v # w /\ att[v].id = att[w].id => att[v].id = NoDoc

\* nobody else touches a document before its job is sent
Unsent == {"new", "check", "insert", "unstore", "enqueue"}

UnsentIsUntouched ==
    \A d \in Docs : sub[d].pc \in Unsent =>
        /\ docRow[d] \in {NoRow, "queued"} /\ d \notin queued
        /\ \A w \in Workers : att[w].id # d
        /\ \A x \in Deleters : del[x].id # d

\* a deletion gets past its first read only for a document that was processed
DeletionIsLate == \A x \in Deleters : del[x].pc # "idle" => docRow[del[x].id] # "queued"

\* Nobody else starts or publishes the document of an attempt: while it starts
\* it, none has, and until it publishes it, none has.
Starting  == {"start_save_doc", "start_save_job", "start"}
Indexing  == FinalPC \union {"prepare", "upsert"}
SavingDoc == {"start_save_job", "start", "final_save_job", "final"}
SavingJob == {"start", "final"}

SoleWriterOfDoc ==
    \A w \in Workers :
        LET a == att[w]
        IN  /\ a.pc \in Starting \union Indexing => docRow[a.id] # "ready"
            /\ a.pc \in Starting => docRow[a.id] # "processing"
            /\ a.pc \in SavingDoc => a.doc # "ready"
            /\ a.pc \in SavingDoc \intersect Starting => a.doc # "processing"

SoleWriterOfJob ==
    \A w \in Workers :
        LET a == att[w]
        IN  /\ a.pc \in Starting \union Indexing => jobRow[a.id] # "succeeded"
            /\ a.pc \in Starting => jobRow[a.id] # "running"
            /\ a.pc \in SavingJob => a.job # "succeeded"
            /\ a.pc = "start" => a.job # "running"

\* What _mark_failed has read, and what of it its saves have found again, bounds
\* what others can have committed since.  SavesDoc and SavesJob are the rows it
\* saves or has still to save.
SavesDoc(a) == IF a.pc = "fail_save_doc" THEN a.doc = "processing" ELSE a.doc # NoRow
SavesJob(a) == IF a.pc = "fail" THEN a.job # NoRow ELSE a.job = "running"

FailureReadsOf(w) ==
    LET a == att[w]
        Saving == {"fail_save_doc", "fail_save_job", "fail"}
    IN  /\ a.pc = "fail_job" /\ a.doc # "processing" => docRow[a.id] # "processing"
        /\ a.pc = "fail_job" /\ a.doc = "processing" =>
               jobRow[a.id] \in {"running", "failed", NoRow}
        /\ a.pc \in Saving /\ ~SavesDoc(a) /\ SavesJob(a) =>
               docRow[a.id] \in {"deleting", "failed", NoRow}
        /\ a.pc \in Saving /\ SavesDoc(a) /\ ~SavesJob(a) =>
               jobRow[a.id] \in {"failed", NoRow}
        /\ a.pc \in {"fail_save_job", "fail"} /\ a.doc = "failed" =>
               jobRow[a.id] \in {"failed", NoRow}
        /\ a.pc = "fail" /\ a.job = "failed" => jobRow[a.id] \in {"failed", NoRow}

FailureReads == \A w \in Workers : FailureReadsOf(w)

\* what both invariants below rest on, while RQ abandons no attempt
DeliveryInv == TypeOK /\ SoleAttempt /\ UnsentIsUntouched /\ SoleWriterOfDoc

\* StatusAgreement, made inductive
AgreementInv ==
    DeliveryInv /\ StatusAgreement /\ DeletionIsLate /\ SoleWriterOfJob /\ FailureReads

\* a document that is "deleting", or that a request is cleaning up, was accepted
CleanupIsAccepted ==
    /\ \A d \in Docs : docRow[d] = "deleting" => d \in accepted
    /\ \A x \in Deleters : del[x].pc \in {"cancel", "vectors", "file", "row"} => del[x].id \in accepted

\* the file is stored before the row and outlives it unless a deletion is accepted
FileOutlivesRow ==
    \A d \in Docs :
        /\ sub[d].pc \in {"check", "insert"} => d \in files
        /\ sub[d].pc \in {"new", "check", "insert", "unstore"} => docRow[d] = NoRow
        /\ docRow[d] # NoRow /\ d \notin accepted => d \in files

\* an attempt indexes its document before it publishes it, and marks it failed
\* only if it is not ready
AttemptIndexesFirst ==
    \A w \in Workers :
        /\ att[w].pc \in FailPC \union {"cleanup"} => docRow[att[w].id] # "ready"
        /\ att[w].pc \in FinalPC => att[w].id \in accepted \/ att[w].id \in points

\* ReadyIsComplete, made inductive, while no error comes after a commit
CompletenessInv ==
    /\ DeliveryInv /\ CleanupIsAccepted /\ FileOutlivesRow /\ AttemptIndexesFirst /\ ReadyIsComplete
===========================================================================
