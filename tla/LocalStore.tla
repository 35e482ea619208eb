----------------------------- MODULE LocalStore -----------------------------
(* LocalDocumentStore (providers/local_files.py), system call by system    *)
(* call: an upload is written under a temporary name in a directory of its *)
(* own, synced and renamed; a deletion unlinks the file and then tries to  *)
(* remove the directory.  The API and the worker share the volume.  Any    *)
(* call may fail, the API may stop between two of them, and the host may   *)
(* lose power, which leaves of each directory an older version and of each *)
(* file what was synced and some of what was not.  document_id is a fresh  *)
(* uuid, so no other save finds its directory taken.  A length counts      *)
(* blocks of COPY_BUFFER_BYTES.                                            *)
EXTENDS Naturals

CONSTANTS
    Docs,
    NoDoc,        \* the document of a reader or a deletion that has none
    MaxBlocks,    \* max_upload_bytes, in blocks
    Readers,      \* attempts of the worker that read a file
    Deleters      \* requests to delete, and uploads that remove their file again

ASSUME LocalStoreAssumption == NoDoc \notin Docs /\ MaxBlocks \in Nat \ {0}

VARIABLES
    length,        \* blocks of each upload
    entry,         \* what the directory of a document holds: see Entries
    blocks,        \* written to the file, whatever its name
    entryOnDisk, blocksOnDisk,    \* what a loss of power leaves at the least
    save,          \* the calls to save
    read,          \* the open files of the readers
    del,           \* the calls to delete
    asked          \* history: documents for which delete was called

files == <<entry, blocks>>
disk  == <<entryOnDisk, blocksOnDisk>>
vars  == <<length, files, disk, save, read, del, asked>>

\* no directory, an empty one, one with the file being uploaded, with the file
Entries == {"none", "empty", "uploading", "source"}

NotReading  == [doc |-> NoDoc, got |-> 0, eof |-> FALSE]
NotDeleting == [doc |-> NoDoc, pc |-> "idle"]

Lengths == 0 .. MaxBlocks + 1

Acceptable == 1 .. MaxBlocks

Init ==
    /\ length \in [Docs -> Lengths]
    /\ entry = [d \in Docs |-> "none"] /\ entryOnDisk = entry
    /\ blocks = [d \in Docs |-> 0] /\ blocksOnDisk = blocks
    /\ save = [d \in Docs |-> [pc |-> "mkdir", raises |-> "none"]]
    /\ read = [r \in Readers |-> NotReading]
    /\ del = [x \in Deleters |-> NotDeleting]
    /\ asked = {}
---------------------------------------------------------------------------
(* save: IngestionError ends it "refused", OSError "failed" *)

SaveGoto(d, pc) == save' = [save EXCEPT ![d].pc = pc]

\* into the except clause, which raises the exception again at its end
SaveRaises(d, exception) == save' = [save EXCEPT ![d] = [pc |-> "unlink", raises |-> exception]]

MakeDirectory(d) ==
    /\ save[d].pc = "mkdir"
    /\ \/ entry' = [entry EXCEPT ![d] = "empty"] /\ SaveGoto(d, "open")
       \/ SaveGoto(d, "failed") /\ UNCHANGED entry
    /\ UNCHANGED <<length, blocks, disk, read, del, asked>>

\* source.seek is not covered by the except clause
OpenPartial(d) ==
    /\ save[d].pc = "open"
    /\ \/ entry' = [entry EXCEPT ![d] = "uploading"] /\ SaveGoto(d, "write")
       \/ SaveGoto(d, "failed") /\ UNCHANGED entry
       \/ SaveRaises(d, "failed") /\ UNCHANGED entry
    /\ UNCHANGED <<length, blocks, disk, read, del, asked>>

\* mutant: the limit is checked after the file is complete
WriteBlockUnchecked(d) ==
    /\ save[d].pc = "write"
    /\ IF blocks[d] < length[d]
       THEN blocks' = [blocks EXCEPT ![d] = @ + 1] /\ UNCHANGED save
       ELSE SaveGoto(d, "sync") /\ UNCHANGED blocks
    /\ UNCHANGED <<length, entry, disk, read, del, asked>>

WriteBlock(d) ==
    /\ save[d].pc = "write"
    /\ \/ blocks[d] < length[d] /\ blocks[d] < MaxBlocks
          /\ blocks' = [blocks EXCEPT ![d] = @ + 1] /\ UNCHANGED save
       \/ blocks[d] < length[d] /\ blocks[d] = MaxBlocks
          /\ SaveRaises(d, "refused") /\ UNCHANGED blocks
       \/ blocks[d] = length[d] /\ SaveGoto(d, "sync") /\ UNCHANGED blocks
       \/ SaveRaises(d, "failed") /\ UNCHANGED blocks
    /\ UNCHANGED <<length, entry, disk, read, del, asked>>

\* mutant: no fsync
SyncNothing(d) ==
    /\ save[d].pc = "sync"
    /\ IF blocks[d] = 0 THEN SaveRaises(d, "refused") ELSE SaveGoto(d, "rename")
    /\ UNCHANGED <<length, files, disk, read, del, asked>>

Sync(d) ==
    /\ save[d].pc = "sync"
    /\ \/ /\ blocksOnDisk' = [blocksOnDisk EXCEPT ![d] = blocks[d]]
          /\ IF blocks[d] = 0 THEN SaveRaises(d, "refused") ELSE SaveGoto(d, "rename")
       \/ SaveRaises(d, "failed") /\ UNCHANGED blocksOnDisk
    /\ UNCHANGED <<length, files, entryOnDisk, read, del, asked>>

Rename(d) ==
    /\ save[d].pc = "rename"
    /\ \/ entry' = [entry EXCEPT ![d] = "source"] /\ SaveGoto(d, "saved")
       \/ SaveRaises(d, "failed") /\ UNCHANGED entry
    /\ UNCHANGED <<length, blocks, disk, read, del, asked>>

\* mutant: only the directory is removed, which fails while the file is in it
UnlinkNothing(d) ==
    /\ save[d].pc = "unlink" /\ SaveGoto(d, "rmdir")
    /\ UNCHANGED <<length, files, disk, read, del, asked>>

\* an error of unlink replaces the exception and skips the rest
UnlinkPartial(d) ==
    /\ save[d].pc = "unlink"
    /\ \/ entry' = [entry EXCEPT ![d] = "empty"] /\ SaveGoto(d, "rmdir")
       \/ SaveGoto(d, "failed") /\ UNCHANGED entry
    /\ UNCHANGED <<length, blocks, disk, read, del, asked>>

\* errors of rmdir are suppressed
RemoveDirectory(d) ==
    /\ save[d].pc = "rmdir" /\ SaveGoto(d, save[d].raises)
    /\ entry' \in {entry, [entry EXCEPT ![d] = IF @ = "empty" THEN "none" ELSE @]}
    /\ UNCHANGED <<length, blocks, disk, read, del, asked>>
---------------------------------------------------------------------------
(* open *)

\* Every reader has a storage key only from a save that returned.  A file that
\* is gone raises, which is no step.
Open(r, d) ==
    /\ read[r] = NotReading /\ save[d].pc = "saved" /\ entry[d] = "source"
    /\ read' = [read EXCEPT ![r].doc = d]
    /\ UNCHANGED <<length, files, disk, save, del, asked>>

\* the open file stays readable when it is unlinked
ReadBlock(r) ==
    /\ read[r].doc # NoDoc /\ ~read[r].eof
    /\ IF read[r].got < blocks[read[r].doc]
       THEN read' = [read EXCEPT ![r].got = @ + 1]
       ELSE read' = [read EXCEPT ![r].eof = TRUE]
    /\ UNCHANGED <<length, files, disk, save, del, asked>>

Close(r) ==
    /\ read[r].eof
    /\ read' = [read EXCEPT ![r] = NotReading]
    /\ UNCHANGED <<length, files, disk, save, del, asked>>
---------------------------------------------------------------------------
(* delete *)

DelGoto(x, pc) == del' = [del EXCEPT ![x].pc = pc]

Delete(x, d) ==
    /\ del[x].pc = "idle" /\ save[d].pc = "saved"
    /\ del' = [del EXCEPT ![x] = [doc |-> d, pc |-> "unlink"]]
    /\ asked' = asked \union {d}
    /\ UNCHANGED <<length, files, disk, save, read>>

\* mutant: the error of unlink is suppressed too
UnlinkSourceQuietly(x) ==
    LET d == del[x].doc
    IN  /\ del[x].pc = "unlink" /\ DelGoto(x, "rmdir")
        /\ entry' \in {entry, [entry EXCEPT ![d] = IF @ = "source" THEN "empty" ELSE @]}
        /\ UNCHANGED <<length, blocks, disk, save, read, asked>>

\* a missing file is no error
UnlinkSource(x) ==
    LET d == del[x].doc
    IN  /\ del[x].pc = "unlink"
        /\ \/ entry' = [entry EXCEPT ![d] = IF @ = "source" THEN "empty" ELSE @] /\ DelGoto(x, "rmdir")
           \/ DelGoto(x, "failed") /\ UNCHANGED entry
        /\ UNCHANGED <<length, blocks, disk, save, read, asked>>

RemoveEmptied(x) ==
    LET d == del[x].doc
    IN  /\ del[x].pc = "rmdir" /\ DelGoto(x, "deleted")
        /\ entry' \in {entry, [entry EXCEPT ![d] = IF @ = "empty" THEN "none" ELSE @]}
        /\ UNCHANGED <<length, blocks, disk, save, read, asked>>

DelReturns(x) ==
    /\ del[x].pc \in {"deleted", "failed"}
    /\ del' = [del EXCEPT ![x] = NotDeleting]
    /\ UNCHANGED <<length, files, disk, save, read, asked>>
---------------------------------------------------------------------------
(* The environment *)

Saving(d) == save[d].pc \in {"open", "write", "sync", "rename", "unlink", "rmdir"}

StopSaving == save' = [d \in Docs |-> IF Saving(d) THEN [save[d] EXCEPT !.pc = "stopped"] ELSE save[d]]

\* the API process stops: every save and deletion in progress with it
ApiStops ==
    /\ StopSaving
    /\ del' = [x \in Deleters |-> NotDeleting]
    /\ UNCHANGED <<length, files, disk, read, asked>>

\* the file system writes a directory back to the disk, when it likes to
Journal(d) ==
    /\ entryOnDisk' = [entryOnDisk EXCEPT ![d] = entry[d]]
    /\ UNCHANGED <<length, files, blocksOnDisk, save, read, del, asked>>

\* blocks that were not synced may have reached the disk or not
PowerLoss ==
    /\ entry' = entryOnDisk
    /\ blocks' \in [Docs -> 0 .. MaxBlocks]
    /\ \A d \in Docs : blocksOnDisk[d] <= blocks'[d] /\ blocks'[d] <= blocks[d]
    /\ blocksOnDisk' = blocks'
    /\ StopSaving
    /\ read' = [r \in Readers |-> NotReading]
    /\ del' = [x \in Deleters |-> NotDeleting]
    /\ UNCHANGED <<length, entryOnDisk, asked>>
---------------------------------------------------------------------------
SaveStep(d) ==
    \/ MakeDirectory(d) \/ OpenPartial(d) \/ WriteBlock(d) \/ Sync(d) \/ Rename(d)
    \/ UnlinkPartial(d) \/ RemoveDirectory(d)

Next ==
    \/ \E d \in Docs : SaveStep(d) \/ Journal(d)
    \/ \E r \in Readers : ReadBlock(r) \/ Close(r)
    \/ \E r \in Readers, d \in Docs : Open(r, d)
    \/ \E x \in Deleters : UnlinkSource(x) \/ RemoveEmptied(x) \/ DelReturns(x)
    \/ \E x \in Deleters, d \in Docs : Delete(x, d)
    \/ ApiStops \/ PowerLoss

Spec == Init /\ [][Next]_vars
---------------------------------------------------------------------------
SavePC == {"mkdir", "open", "write", "sync", "rename", "unlink", "rmdir",
           "saved", "refused", "failed", "stopped"}
DelPC  == {"idle", "unlink", "rmdir", "deleted", "failed"}

Saves     == [pc : SavePC, raises : {"none", "refused", "failed"}]
Deletions == [doc : Docs \union {NoDoc}, pc : DelPC]
Reads     == [doc : Docs \union {NoDoc}, got : 0 .. MaxBlocks, eof : BOOLEAN]

TypeOK ==
    /\ length \in [Docs -> Lengths]
    /\ entry \in [Docs -> Entries] /\ entryOnDisk \in [Docs -> Entries]
    /\ blocks \in [Docs -> 0 .. MaxBlocks] /\ blocksOnDisk \in [Docs -> 0 .. MaxBlocks]
    /\ save \in [Docs -> Saves]
    /\ read \in [Readers -> Reads]
    /\ del \in [Deleters -> Deletions]
    /\ asked \subseteq Docs

(* Whatever fails or stops, the calls above are those of a store that      *)
(* saves a document in one step, whole, once and within the limits, and    *)
(* loses it only to a deletion or, as far as the disk was behind, to a     *)
(* loss of power: a torn or partial file never has the name of a document. *)
StoredIn(entries, lengths) == {<<d, lengths[d]>> : d \in {e \in Docs : entries[e] = "source"}}

Store ==
    INSTANCE DocumentStore WITH
        stored   <- StoredIn(entry, blocks),
        onDisk   <- StoredIn(entryOnDisk, blocksOnDisk),
        saved    <- {d \in Docs : save[d].pc = "saved"},
        unwanted <- asked

ImplementsStore == Store!Spec

(* An attempt that opened a file reads all of it, although a deletion may  *)
(* unlink it and remove its directory meanwhile.                           *)
ReadersGetWholeFiles ==
    \A r \in Readers : read[r].eof => read[r].got = length[read[r].doc]

(* A refused upload, too long or empty, leaves no file under any name: the *)
(* cleanup that the refusal goes through can fail only aloud.              *)
RefusedLeavesNoFile ==
    [][\A d \in Docs :
        save'[d].pc = "refused" /\ save[d].pc # "refused" => entry'[d] \in {"none", "empty"}]_vars

(* A deletion that returns has removed the file, also when another one was *)
(* faster with the file or with its directory.                             *)
DeletedIsRemoved ==
    \A x \in Deleters : del[x].pc = "deleted" => entry[del[x].doc] # "source"
============================================================================
