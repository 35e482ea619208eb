--------------------------- MODULE DocumentStore ---------------------------
(* What the rest of the system takes a document store to be: the protocol  *)
(* of ingestion/ports.py, over a disk that lags behind.  A document is     *)
(* saved at once, whole and at most once; it goes only when it was asked   *)
(* to be deleted, or with a loss of power, which takes the store back to   *)
(* what the disk had.  DocumentWorkflow keeps the documents stored in its  *)
(* variable files.  LocalStore implements Spec.                            *)
CONSTANTS
    Docs,
    Lengths,      \* an upload may have
    Acceptable    \* those a document may have

VARIABLES
    length,     \* of each upload
    stored,     \* what can be opened: documents, each with the length of its file
    onDisk,     \* what a loss of power would leave of that
    saved,      \* documents whose save succeeded
    unwanted    \* documents whose deletion began

storeVars == <<length, stored, onDisk, saved, unwanted>>

Init ==
    /\ length \in [Docs -> Lengths]
    /\ stored = {} /\ onDisk = {} /\ saved = {} /\ unwanted = {}

Save(d) ==
    /\ d \notin saved /\ length[d] \in Acceptable
    /\ saved' = saved \union {d}
    /\ stored' = stored \union {<<d, length[d]>>}
    /\ UNCHANGED <<length, onDisk, unwanted>>

AskToDelete(d) ==
    /\ d \in saved
    /\ unwanted' = unwanted \union {d}
    /\ UNCHANGED <<length, stored, onDisk, saved>>

Delete(d) ==
    /\ d \in unwanted
    /\ stored' = stored \ {<<d, length[d]>>}
    /\ UNCHANGED <<length, onDisk, saved, unwanted>>

Settle(d) ==
    /\ onDisk' = IF <<d, length[d]>> \in stored
                 THEN onDisk \union {<<d, length[d]>>}
                 ELSE onDisk \ {<<d, length[d]>>}
    /\ UNCHANGED <<length, stored, saved, unwanted>>

LosePower ==
    /\ stored' = onDisk
    /\ UNCHANGED <<length, onDisk, saved, unwanted>>

Next ==
    \/ \E d \in Docs : Save(d) \/ AskToDelete(d) \/ Delete(d) \/ Settle(d)
    \/ LosePower

Spec == Init /\ [][Next]_storeVars
============================================================================
