-------------------------- MODULE LocalStoreProofs --------------------------
(* LocalStore implements DocumentStore, and its readers and deletions get  *)
(* what they were promised, for any number of documents, readers and       *)
(* deletions and any size of a file.                                       *)
EXTENDS LocalStore, TLAPS

\* A file gets the name of its document only after all of it was synced.
FileInv ==
    \A d \in Docs :
        /\ entry[d] = "source" \/ entryOnDisk[d] = "source" => save[d].pc = "saved"
        /\ save[d].pc \in {"unlink", "rmdir"} => save[d].raises # "none"
        /\ save[d].pc = "rmdir" => entry[d] \in {"none", "empty"}
        /\ save[d].pc = "sync" => blocks[d] = length[d]
        /\ save[d].pc \in {"rename", "saved"} =>
              length[d] \in Acceptable /\ blocks[d] = length[d] /\ blocksOnDisk[d] = length[d]

ReaderInv ==
    \A r \in Readers :
        /\ read[r].doc # NoDoc => save[read[r].doc].pc = "saved"
        /\ read[r].doc # NoDoc => read[r].got <= length[read[r].doc]
        /\ read[r].eof => read[r].doc # NoDoc /\ read[r].got = length[read[r].doc]

DeleterInv ==
    \A x \in Deleters :
        /\ del[x].pc # "idle" => /\ del[x].doc \in asked
                                 /\ save[del[x].doc].pc = "saved"
        /\ del[x].pc \in {"rmdir", "deleted"} => entry[del[x].doc] # "source"

Inv == TypeOK /\ FileInv /\ ReaderInv /\ DeleterInv
---------------------------------------------------------------------------
(* What a step may do to what others rely on *)

LEMMA InitInv == Init => Inv
BY LocalStoreAssumption, SMTT(30)
DEF Init, Inv, TypeOK, FileInv, ReaderInv, DeleterInv, Lengths, Entries, SavePC, DelPC, Saves, Deletions, Reads, NotReading, NotDeleting

LEMMA SaveGotoSays ==
    ASSUME NEW d \in Docs, NEW pc \in SavePC, save \in [Docs -> Saves], SaveGoto(d, pc)
    PROVE  /\ save' \in [Docs -> Saves]
           /\ save'[d].pc = pc /\ save'[d].raises = save[d].raises
           /\ \A e \in Docs \ {d} : save'[e] = save[e]
BY DEF SaveGoto, Saves

LEMMA SaveRaisesSays ==
    ASSUME NEW d \in Docs, NEW e \in {"refused", "failed"}, save \in [Docs -> Saves], SaveRaises(d, e)
    PROVE  /\ save' \in [Docs -> Saves]
           /\ save'[d].pc = "unlink" /\ save'[d].raises # "none"
           /\ \A c \in Docs \ {d} : save'[c] = save[c]
BY DEF SaveRaises, Saves, SavePC

LEMMA StopSavingSays ==
    ASSUME save \in [Docs -> Saves], StopSaving
    PROVE  /\ save' \in [Docs -> Saves]
           /\ \A d \in Docs : save'[d].pc \in {save[d].pc, "stopped"}
           /\ \A d \in Docs : save[d].pc = "saved" => save'[d].pc = "saved"
           /\ \A d \in Docs : save'[d].pc \notin {"sync", "rename", "unlink", "rmdir"}
BY DEF StopSaving, Saving, Saves, SavePC

LEMMA DelGotoSays ==
    ASSUME NEW x \in Deleters, NEW pc \in DelPC, del \in [Deleters -> Deletions], DelGoto(x, pc)
    PROVE  /\ del' \in [Deleters -> Deletions]
           /\ del'[x].pc = pc /\ del'[x].doc = del[x].doc
           /\ \A y \in Deleters \ {x} : del'[y] = del[y]
BY DEF DelGoto, Deletions, DelPC

\* Where the file of d stands after a step of its save.
FileAfter(d) ==
    /\ save'[d].pc = "saved" <=> entry'[d] = "source"
    /\ save'[d].pc \in {"unlink", "rmdir"} => save'[d].raises # "none"
    /\ save'[d].pc = "rmdir" => entry'[d] \in {"none", "empty"}
    /\ save'[d].pc = "sync" => blocks'[d] = length[d]
    /\ save'[d].pc \in {"rename", "saved"} =>
          length[d] \in Acceptable /\ blocks'[d] = length[d] /\ blocksOnDisk'[d] = length[d]

\* A step of a save is about a document that nobody else knows of.
LEMMA SaveStepSays ==
    ASSUME TypeOK, FileInv, NEW d \in Docs, SaveStep(d)
    PROVE  /\ save[d].pc # "saved" /\ save' \in [Docs -> Saves]
           /\ entry' \in [Docs -> Entries]
           /\ blocks' \in [Docs -> 0 .. MaxBlocks] /\ blocksOnDisk' \in [Docs -> 0 .. MaxBlocks]
           /\ \A e \in Docs \ {d} : /\ save'[e] = save[e] /\ entry'[e] = entry[e]
                                     /\ blocks'[e] = blocks[e] /\ blocksOnDisk'[e] = blocksOnDisk[e]
           /\ FileAfter(d)
           /\ UNCHANGED <<length, entryOnDisk, read, del, asked>>
<1> USE SaveGotoSays, SaveRaisesSays, LocalStoreAssumption
    DEF TypeOK, FileInv, FileAfter, files, disk, SavePC, Entries
<1>1. CASE MakeDirectory(d)
  BY <1>1 DEF MakeDirectory
<1>2. CASE OpenPartial(d)
  BY <1>2 DEF OpenPartial
<1>3. CASE WriteBlock(d)
  BY <1>3 DEF WriteBlock
<1>4. CASE Sync(d)
  BY <1>4 DEF Sync, Acceptable
<1>5. CASE Rename(d)
  BY <1>5 DEF Rename
<1>6. CASE UnlinkPartial(d)
  BY <1>6 DEF UnlinkPartial
<1>7. CASE RemoveDirectory(d)
  <2>1. save[d].raises \in {"refused", "failed"} /\ save[d].pc = "rmdir" /\ entry[d] # "source"
    BY <1>7 DEF RemoveDirectory, Saves
  <2>2. /\ save' \in [Docs -> Saves] /\ save'[d].pc \in {"refused", "failed"}
        /\ \A e \in Docs \ {d} : save'[e] = save[e]
    BY <1>7, <2>1 DEF RemoveDirectory
  <2> QED BY <1>7, <2>1, <2>2 DEF RemoveDirectory
<1> QED BY <1>1, <1>2, <1>3, <1>4, <1>5, <1>6, <1>7 DEF SaveStep
---------------------------------------------------------------------------
(* The invariant is inductive *)

LEMMA SaveStepPreserves ==
    ASSUME Inv, NEW d \in Docs, SaveStep(d)
    PROVE  Inv'
<1>1. TypeOK /\ FileInv /\ ReaderInv /\ DeleterInv
  BY DEF Inv
<1>2. TypeOK'
  BY <1>1, SaveStepSays DEF TypeOK
<1>3. FileInv'
  BY <1>1, SaveStepSays DEF FileInv, FileAfter, TypeOK
<1>4. ReaderInv'
  BY <1>1, SaveStepSays DEF ReaderInv, TypeOK, Reads
<1>5. DeleterInv'
  BY <1>1, SaveStepSays DEF DeleterInv, TypeOK, Deletions
<1> QED BY <1>2, <1>3, <1>4, <1>5 DEF Inv

LEMMA ReaderPreserves ==
    ASSUME Inv, NEW r \in Readers, ReadBlock(r) \/ Close(r) \/ \E d \in Docs : Open(r, d)
    PROVE  Inv'
<1>1. TypeOK /\ FileInv /\ ReaderInv /\ DeleterInv
  BY DEF Inv
<1>2. UNCHANGED <<length, entry, blocks, entryOnDisk, blocksOnDisk, save, del, asked>>
  BY DEF ReadBlock, Close, Open, files, disk
<1>3. FileInv' /\ DeleterInv'
  BY <1>1, <1>2 DEF FileInv, DeleterInv
<1>4. \A q \in Readers \ {r} : read'[q] = read[q]
  BY <1>1 DEF ReadBlock, Close, Open, TypeOK
<1>5. CASE ReadBlock(r)
  <2>1. /\ read[r] \in Reads /\ read[r].doc \in Docs /\ save[read[r].doc].pc = "saved"
        /\ blocks[read[r].doc] = length[read[r].doc] /\ blocks[read[r].doc] \in 0 .. MaxBlocks
    BY <1>1, <1>5, LocalStoreAssumption DEF ReadBlock, Reads, ReaderInv, FileInv, TypeOK
  <2>2. read[r].got \in 0 .. MaxBlocks /\ read[r].got <= length[read[r].doc]
    BY <1>1, <2>1, LocalStoreAssumption DEF Reads, ReaderInv
  <2>3. /\ read' \in [Readers -> Reads] /\ read'[r].doc = read[r].doc
        /\ read'[r].got <= length[read[r].doc]
        /\ read'[r].eof => read'[r].got = length[read[r].doc]
    <3>1. CASE read[r].got < blocks[read[r].doc]
      <4>1. read' = [read EXCEPT ![r].got = @ + 1] /\ ~read[r].eof
        BY <1>5, <3>1 DEF ReadBlock
      <4>2. read[r].got + 1 \in 0 .. MaxBlocks /\ read[r].got + 1 <= length[read[r].doc]
        BY <2>1, <2>2, <3>1, LocalStoreAssumption
      <4> QED BY <1>1, <2>1, <4>1, <4>2 DEF Reads, TypeOK
    <3>2. CASE ~(read[r].got < blocks[read[r].doc])
      <4>1. read' = [read EXCEPT ![r].eof = TRUE] /\ read[r].got = length[read[r].doc]
        BY <1>5, <2>1, <2>2, <3>2, LocalStoreAssumption DEF ReadBlock
      <4> QED BY <1>1, <2>1, <2>2, <4>1 DEF Reads, TypeOK
    <3> QED BY <3>1, <3>2
  <2>4. ReaderInv'
    <3>1. ASSUME NEW q \in Readers \ {r}
          PROVE  /\ read'[q].doc # NoDoc => save'[read'[q].doc].pc = "saved"
                 /\ read'[q].doc # NoDoc => read'[q].got <= length'[read'[q].doc]
                 /\ read'[q].eof => read'[q].doc # NoDoc /\ read'[q].got = length'[read'[q].doc]
      BY <1>1, <1>2, <1>4 DEF ReaderInv
    <3> QED BY <1>2, <2>1, <2>3, <3>1, LocalStoreAssumption DEF ReaderInv
  <2> QED BY <1>1, <1>2, <1>3, <2>3, <2>4 DEF Inv, TypeOK
<1>6. CASE Close(r)
  <2>1. read' \in [Readers -> Reads] /\ read'[r] = NotReading
    BY <1>1, <1>6, LocalStoreAssumption DEF Close, NotReading, Reads, TypeOK
  <2> QED BY <1>1, <1>2, <1>3, <1>4, <2>1 DEF Inv, TypeOK, ReaderInv, NotReading
<1>7. ASSUME NEW d \in Docs, Open(r, d) PROVE Inv'
  <2>1. /\ read' \in [Readers -> Reads]
        /\ read'[r].doc = d /\ read'[r].got = 0 /\ ~read'[r].eof
    <3>1. read[r] \in Reads /\ read[r] = NotReading /\ read' = [read EXCEPT ![r] = [@ EXCEPT !.doc = d]]
      BY <1>1, <1>7 DEF Open, TypeOK
    <3>2. [read[r] EXCEPT !.doc = d] \in Reads
      BY <3>1 DEF Reads
    <3> QED BY <1>1, <3>1, <3>2 DEF NotReading, TypeOK
  <2>2. save[d].pc = "saved" /\ 0 <= length[d]
    BY <1>1, <1>7 DEF Open, TypeOK, Lengths
  <2> QED BY <1>1, <1>2, <1>3, <1>4, <2>1, <2>2 DEF Inv, TypeOK, ReaderInv
<1> QED BY <1>5, <1>6, <1>7

LEMMA DeleterPreserves ==
    ASSUME Inv, NEW x \in Deleters,
           \/ UnlinkSource(x) \/ RemoveEmptied(x) \/ DelReturns(x)
           \/ \E d \in Docs : Delete(x, d)
    PROVE  Inv'
<1>1. TypeOK /\ FileInv /\ ReaderInv /\ DeleterInv
  BY DEF Inv
<1>2. UNCHANGED <<length, blocks, entryOnDisk, blocksOnDisk, save, read>>
  BY DEF UnlinkSource, RemoveEmptied, DelReturns, Delete, files, disk
<1>3. /\ entry' \in [Docs -> Entries]
      /\ \A d \in Docs : entry'[d] = "source" => entry[d] = "source"
  BY <1>1 DEF UnlinkSource, RemoveEmptied, DelReturns, Delete, Entries, TypeOK, files, disk
<1>4. FileInv' /\ ReaderInv'
  <2>1. \A d \in Docs : entry[d] \in {"none", "empty"} => entry'[d] \in {"none", "empty"}
    BY <1>1 DEF UnlinkSource, RemoveEmptied, DelReturns, Delete, Entries, TypeOK, files, disk
  <2>. QED  BY <1>1, <1>2, <1>3, <2>1 DEF FileInv, ReaderInv
<1>5. SUFFICES ASSUME TRUE
               PROVE  /\ del' \in [Deleters -> Deletions] /\ asked' \subseteq Docs
                      /\ DeleterInv'
  BY <1>1, <1>2, <1>3, <1>4 DEF Inv, TypeOK
<1>6. \A y \in Deleters \ {x} : del'[y] = del[y]
  BY <1>1 DEF UnlinkSource, RemoveEmptied, DelReturns, Delete, DelGoto, TypeOK
<1>7. CASE UnlinkSource(x)
  <2>1. /\ del[x].doc \in asked /\ del[x].doc \in Docs /\ save[del[x].doc].pc = "saved"
    BY <1>1, <1>7 DEF UnlinkSource, DeleterInv, TypeOK
  <2>2. \/ DelGoto(x, "failed")
        \/ DelGoto(x, "rmdir") /\ entry'[del[x].doc] # "source"
    BY <1>1, <1>7, <2>1 DEF UnlinkSource, TypeOK
  <2>3. /\ del' \in [Deleters -> Deletions] /\ del'[x].doc = del[x].doc
        /\ del'[x].pc \in {"failed", "rmdir"}
        /\ del'[x].pc = "rmdir" => entry'[del[x].doc] # "source"
    BY <1>1, <2>2, DelGotoSays DEF DelPC, TypeOK
  <2>4. asked' = asked
    BY <1>7 DEF UnlinkSource
  <2> QED BY <1>1, <1>2, <1>3, <1>6, <2>1, <2>3, <2>4 DEF DeleterInv, TypeOK, Deletions
<1>8. CASE RemoveEmptied(x)
  <2>1. /\ del' \in [Deleters -> Deletions] /\ del'[x].doc = del[x].doc
        /\ del[x].pc = "rmdir" /\ del'[x].pc = "deleted"
    BY <1>1, <1>8, DelGotoSays DEF RemoveEmptied, DelPC, TypeOK
  <2>2. asked' = asked
    BY <1>8 DEF RemoveEmptied
  <2> QED BY <1>1, <1>2, <1>3, <1>6, <2>1, <2>2 DEF DeleterInv, TypeOK, Deletions
<1>9. CASE DelReturns(x)
  <2>1. del' \in [Deleters -> Deletions] /\ del'[x].pc = "idle" /\ asked' = asked
    BY <1>1, <1>9 DEF DelReturns, NotDeleting, Deletions, DelPC, TypeOK
  <2> QED BY <1>1, <1>2, <1>3, <1>6, <2>1 DEF DeleterInv, TypeOK, Deletions
<1>10. ASSUME NEW d \in Docs, Delete(x, d)
       PROVE  del' \in [Deleters -> Deletions] /\ asked' \subseteq Docs /\ DeleterInv'
  <2>1. /\ del' \in [Deleters -> Deletions] /\ del'[x] = [doc |-> d, pc |-> "unlink"]
        /\ asked' = asked \union {d} /\ save[d].pc = "saved"
    BY <1>1, <1>10 DEF Delete, Deletions, DelPC, TypeOK
  <2> QED BY <1>1, <1>2, <1>3, <1>6, <2>1, SMTT(20) DEF DeleterInv, TypeOK, Deletions
<1> QED BY <1>7, <1>8, <1>9, <1>10

LEMMA EnvironmentPreserves ==
    ASSUME Inv, ApiStops \/ PowerLoss \/ \E d \in Docs : Journal(d)
    PROVE  Inv'
<1>1. TypeOK /\ FileInv /\ ReaderInv /\ DeleterInv
  BY DEF Inv
<1>2. ASSUME NEW d \in Docs, Journal(d) PROVE Inv'
  BY <1>1, <1>2 DEF Journal, Inv, TypeOK, FileInv, ReaderInv, DeleterInv, files
<1>3. CASE ApiStops
  <2>1. /\ del' \in [Deleters -> Deletions] /\ \A x \in Deleters : del'[x].pc = "idle"
        /\ UNCHANGED <<length, entry, blocks, entryOnDisk, blocksOnDisk, read, asked>>
    BY <1>3 DEF ApiStops, NotDeleting, Deletions, DelPC, files, disk
  <2>2. save \in [Docs -> Saves] /\ StopSaving
    BY <1>1, <1>3 DEF ApiStops, TypeOK
  <2>3. TypeOK'
    BY <1>1, <2>1, <2>2, StopSavingSays DEF TypeOK
  <2>4. FileInv'
    BY <1>1, <2>1, <2>2, StopSavingSays DEF FileInv, TypeOK
  <2>5. ReaderInv' /\ DeleterInv'
    BY <1>1, <2>1, <2>2, StopSavingSays DEF ReaderInv, DeleterInv, TypeOK, Reads
  <2> QED BY <2>3, <2>4, <2>5 DEF Inv
<1>4. CASE PowerLoss
  <2>1. /\ del' \in [Deleters -> Deletions] /\ \A x \in Deleters : del'[x].pc = "idle"
        /\ read' \in [Readers -> Reads] /\ \A r \in Readers : read'[r] = NotReading
        /\ UNCHANGED <<length, entryOnDisk, asked>>
    BY <1>4, LocalStoreAssumption
       DEF PowerLoss, NotDeleting, Deletions, DelPC, NotReading, Reads
  <2>2. save \in [Docs -> Saves] /\ StopSaving
    BY <1>1, <1>4 DEF PowerLoss, TypeOK
  <2>3. /\ entry' = entryOnDisk /\ blocks' \in [Docs -> 0 .. MaxBlocks] /\ blocksOnDisk' = blocks'
        /\ \A d \in Docs : blocksOnDisk[d] <= blocks'[d] /\ blocks'[d] <= blocks[d]
    BY <1>4 DEF PowerLoss
  <2>4. TypeOK'
    BY <1>1, <2>1, <2>2, <2>3, StopSavingSays DEF TypeOK
  <2>5. FileInv'
    <3>1. ASSUME NEW d \in Docs, save'[d].pc = "saved"
          PROVE  length[d] \in Acceptable /\ blocks'[d] = length[d]
      <4>1. save[d].pc = "saved"
        BY <2>2, <3>1, StopSavingSays
      <4>2. length[d] \in Acceptable /\ blocks[d] = length[d] /\ blocksOnDisk[d] = length[d]
        BY <1>1, <4>1 DEF FileInv
      <4> QED BY <2>3, <4>2, LocalStoreAssumption DEF Acceptable
    <3> QED BY <1>1, <2>1, <2>2, <2>3, <3>1, StopSavingSays DEF FileInv, TypeOK
  <2>6. ReaderInv' /\ DeleterInv'
    BY <2>1 DEF ReaderInv, DeleterInv, NotReading
  <2> QED BY <2>4, <2>5, <2>6 DEF Inv
<1> QED BY <1>2, <1>3, <1>4

LEMMA InvInductive == Inv /\ [Next]_vars => Inv'
<1>1. ASSUME Inv, UNCHANGED vars PROVE Inv'
  BY <1>1 DEF Inv, TypeOK, FileInv, ReaderInv, DeleterInv, vars, files, disk
<1> QED BY <1>1, SaveStepPreserves, ReaderPreserves, DeleterPreserves, EnvironmentPreserves DEF Next
(* The invariant always holds. *)
THEOREM InvAlways == Spec => []Inv
BY InitInv, InvInductive, PTL DEF Spec

(* The state of the store always has the form the code gives it. *)
THEOREM TypeCorrect == Spec => []TypeOK
<1>1. Inv => TypeOK
  BY DEF Inv
<1> QED BY <1>1, InvAlways, PTL

(* An attempt that opened a file reads all of it, whatever deletions and   *)
(* losses of power do meanwhile.                                           *)
THEOREM WholeFilesAreRead == Spec => []ReadersGetWholeFiles
<1>1. Inv => ReadersGetWholeFiles
  BY DEF Inv, ReaderInv, ReadersGetWholeFiles
<1> QED BY <1>1, InvAlways, PTL

(* A deletion that returns has removed the file. *)
THEOREM DeletionsRemove == Spec => []DeletedIsRemoved
<1>1. Inv => DeletedIsRemoved
  BY DEF Inv, DeleterInv, DeletedIsRemoved
<1> QED BY <1>1, InvAlways, PTL
(* A refused upload leaves no file: only a cleanup that emptied the        *)
(* directory of the document gets as far as to answer with the refusal.    *)
THEOREM RefusalsLeaveNoFile == Spec => RefusedLeavesNoFile
<1>1. ASSUME Inv, [Next]_vars, NEW d \in Docs, save'[d].pc = "refused", save[d].pc # "refused"
      PROVE  entry'[d] \in {"none", "empty"}
  <2>1. TypeOK /\ FileInv
    BY <1>1 DEF Inv
  <2>2. ASSUME UNCHANGED save PROVE FALSE
    BY <1>1, <2>2
  <2>3. ASSUME StopSaving PROVE FALSE
    BY <1>1, <2>1, <2>3, StopSavingSays DEF TypeOK
  <2>4. PICK e \in Docs : SaveStep(e)
    BY <1>1, <2>2, <2>3
       DEF Next, Journal, ReadBlock, Close, Open, UnlinkSource, RemoveEmptied, DelReturns, Delete,
           ApiStops, PowerLoss, vars
  <2>5. e = d
    BY <1>1, <2>1, <2>4, SaveStepSays
  <2>6. RemoveDirectory(d) /\ entry[d] \in {"none", "empty"}
    BY <1>1, <2>1, <2>4, <2>5, SaveGotoSays, SaveRaisesSays
       DEF SaveStep, MakeDirectory, OpenPartial, WriteBlock, Sync, Rename, UnlinkPartial, RemoveDirectory,
           FileInv, TypeOK, SavePC
  <2>7. entry' = entry \/ entry' = [entry EXCEPT ![d] = IF @ = "empty" THEN "none" ELSE @]
    BY <2>6 DEF RemoveDirectory
  <2>. QED  BY <2>1, <2>6, <2>7 DEF TypeOK
<1>2. Inv /\ [Next]_vars =>
        [\A d \in Docs :
            save'[d].pc = "refused" /\ save[d].pc # "refused" => entry'[d] \in {"none", "empty"}]_vars
  BY <1>1
<1>. QED  BY <1>2, InvAlways, PTL DEF Spec, RefusedLeavesNoFile
---------------------------------------------------------------------------
(* The refinement *)

\* What is stored, when every named file has the length of its upload.
LEMMA StoredAreWhole ==
    ASSUME NEW e, NEW b, NEW l, \A d \in Docs : e[d] = "source" => b[d] = l[d]
    PROVE  StoredIn(e, b) = StoredIn(e, l)
BY DEF StoredIn

LEMMA NamedFilesAreWhole ==
    ASSUME Inv
    PROVE  /\ StoredIn(entry, blocks) = StoredIn(entry, length)
           /\ StoredIn(entryOnDisk, blocksOnDisk) = StoredIn(entryOnDisk, length)
<1>1. \A d \in Docs : entry[d] = "source" => blocks[d] = length[d]
  BY DEF Inv, FileInv
<1>2. \A d \in Docs : entryOnDisk[d] = "source" => blocksOnDisk[d] = length[d]
  BY DEF Inv, FileInv
<1> QED BY <1>1, <1>2, StoredAreWhole

LEMMA NamedFilesStayWhole ==
    ASSUME Inv'
    PROVE  /\ StoredIn(entry', blocks') = StoredIn(entry', length')
           /\ StoredIn(entryOnDisk', blocksOnDisk') = StoredIn(entryOnDisk', length')
<1>1. \A d \in Docs : entry'[d] = "source" => blocks'[d] = length'[d]
  BY DEF Inv, FileInv
<1>2. \A d \in Docs : entryOnDisk'[d] = "source" => blocksOnDisk'[d] = length'[d]
  BY DEF Inv, FileInv
<1> QED BY <1>1, <1>2, StoredAreWhole

LEMMA InitRefines == Init => Store!Init
BY DEF Init, Store!Init, StoredIn

\* The step of the store that a step of the files is, in terms of the
\* directory entries alone.
LEMMA StepRefines ==
    ASSUME Inv, Inv', [Next]_vars
    PROVE  [Store!Next]_(Store!storeVars)
<1> DEFINE saved   == {d \in Docs : save[d].pc = "saved"}
           stored  == StoredIn(entry, length)
           onDisk  == StoredIn(entryOnDisk, length)
<1>1. TypeOK /\ FileInv /\ DeleterInv
  BY DEF Inv
<1>2. length' = length
  BY SaveStepSays, <1>1
     DEF Next, Journal, ReadBlock, Close, Open, UnlinkSource, RemoveEmptied, DelReturns, Delete,
         ApiStops, PowerLoss, vars
<1>3. /\ StoredIn(entry, blocks) = stored /\ StoredIn(entryOnDisk, blocksOnDisk) = onDisk
      /\ StoredIn(entry', blocks') = stored' /\ StoredIn(entryOnDisk', blocksOnDisk') = onDisk'
  BY NamedFilesAreWhole, NamedFilesStayWhole
<1> HIDE DEF stored, onDisk, saved
<1>4. ASSUME asked' = asked, stored' = stored, onDisk' = onDisk, saved' = saved
      PROVE  UNCHANGED Store!storeVars
  BY <1>2, <1>3, <1>4 DEF Store!storeVars, saved
<1>5. ASSUME NEW d \in Docs, SaveStep(d) PROVE [Store!Next]_(Store!storeVars)
  <2>1. /\ UNCHANGED <<length, entryOnDisk, asked>> /\ save[d].pc # "saved" /\ entry[d] # "source"
        /\ \A e \in Docs \ {d} : save'[e] = save[e] /\ entry'[e] = entry[e]
        /\ FileAfter(d)
    BY <1>1, <1>5, SaveStepSays DEF FileInv
  <2>2. onDisk' = onDisk
    BY <2>1 DEF onDisk, StoredIn
  <2>3. CASE save'[d].pc = "saved"
    <3>1. saved' = saved \union {d} /\ d \notin saved /\ length[d] \in Acceptable
      BY <2>1, <2>3 DEF FileAfter, saved
    <3>2. stored' = stored \union {<<d, length[d]>>}
      BY <2>1, <2>3 DEF StoredIn, FileAfter, stored
    <3>3. Store!Save(d)
      BY <1>3, <2>1, <2>2, <3>1, <3>2 DEF Store!Save, saved
    <3> QED BY <3>3 DEF Store!Next
  <2>4. CASE save'[d].pc # "saved"
    <3>1. saved' = saved
      BY <2>1, <2>4 DEF saved
    <3>2. stored' = stored
      BY <2>1, <2>4 DEF StoredIn, FileAfter, stored
    <3> QED BY <1>4, <2>1, <2>2, <3>1, <3>2
  <2> QED BY <2>3, <2>4
<1>6. ASSUME NEW d \in Docs, Journal(d) PROVE [Store!Next]_(Store!storeVars)
  <2>1. /\ entryOnDisk' = [entryOnDisk EXCEPT ![d] = entry[d]]
        /\ UNCHANGED <<length, entry, blocks, save, asked>>
    BY <1>6 DEF Journal, files
  <2>2. stored' = stored /\ saved' = saved
    BY <2>1 DEF stored, saved
  <2>3. onDisk' = IF <<d, length[d]>> \in stored
                  THEN onDisk \union {<<d, length[d]>>} ELSE onDisk \ {<<d, length[d]>>}
    <3>1. <<d, length[d]>> \in stored <=> entry[d] = "source"
      BY DEF stored, StoredIn
    <3>2. CASE entry[d] = "source"
      BY <1>1, <2>1, <3>1, <3>2 DEF onDisk, StoredIn, TypeOK
    <3>3. CASE entry[d] # "source"
      BY <1>1, <2>1, <3>1, <3>3 DEF onDisk, StoredIn, TypeOK
    <3> QED BY <3>2, <3>3
  <2>4. Store!Settle(d)
    BY <1>3, <2>1, <2>2, <2>3 DEF Store!Settle, saved
  <2> QED BY <2>4 DEF Store!Next
<1>7. ASSUME NEW r \in Readers, ReadBlock(r) \/ Close(r) \/ \E d \in Docs : Open(r, d)
      PROVE  UNCHANGED Store!storeVars
  <2>1. UNCHANGED <<length, entry, entryOnDisk, save, asked>>
    BY <1>7 DEF ReadBlock, Close, Open, files, disk
  <2> QED BY <1>4, <2>1 DEF stored, onDisk, saved
<1>8. ASSUME NEW x \in Deleters, NEW d \in Docs, Delete(x, d) PROVE [Store!Next]_(Store!storeVars)
  <2>1. /\ asked' = asked \union {d} /\ save[d].pc = "saved"
        /\ UNCHANGED <<length, entry, entryOnDisk, save>>
    BY <1>8 DEF Delete, files, disk
  <2>2. stored' = stored /\ onDisk' = onDisk /\ saved' = saved
    BY <2>1 DEF stored, onDisk, saved
  <2>3. Store!AskToDelete(d)
    BY <1>3, <2>1, <2>2 DEF Store!AskToDelete, saved
  <2> QED BY <2>3 DEF Store!Next
<1>9. ASSUME NEW x \in Deleters, UnlinkSource(x) PROVE [Store!Next]_(Store!storeVars)
  <2> DEFINE d == del[x].doc
  <2>1. d \in asked /\ d \in Docs /\ UNCHANGED <<length, entryOnDisk, save, asked>>
    BY <1>1, <1>9 DEF UnlinkSource, DeleterInv, TypeOK, disk
  <2>2. onDisk' = onDisk /\ saved' = saved
    BY <2>1 DEF onDisk, saved
  <2>3. CASE entry' = entry
    BY <1>4, <2>1, <2>2, <2>3 DEF stored
  <2>4. CASE entry' = [entry EXCEPT ![d] = "empty"]
    <3>1. stored' = stored \ {<<d, length[d]>>}
      BY <1>1, <2>1, <2>4 DEF stored, StoredIn, TypeOK
    <3>2. Store!Delete(d)
      BY <1>3, <2>1, <2>2, <3>1 DEF Store!Delete, saved
    <3> QED BY <2>1, <3>2 DEF Store!Next
  <2>5. entry' = entry \/ entry' = [entry EXCEPT ![d] = "empty"]
    BY <1>1, <1>9, <2>1 DEF UnlinkSource, TypeOK
  <2> QED BY <2>3, <2>4, <2>5
<1>10. ASSUME NEW x \in Deleters, RemoveEmptied(x) \/ DelReturns(x) PROVE UNCHANGED Store!storeVars
  <2>1. /\ UNCHANGED <<length, entryOnDisk, save, asked>>
        /\ \A d \in Docs : entry'[d] = "source" <=> entry[d] = "source"
    BY <1>1, <1>10 DEF RemoveEmptied, DelReturns, TypeOK, Entries, files, disk
  <2> QED BY <1>4, <2>1 DEF stored, StoredIn, onDisk, saved
<1>11. CASE ApiStops
  <2>1. UNCHANGED <<length, entry, entryOnDisk, asked>> /\ saved' = saved
    BY <1>1, <1>11, StopSavingSays DEF ApiStops, TypeOK, files, disk, saved
  <2> QED BY <1>4, <2>1 DEF stored, onDisk
<1>12. CASE PowerLoss
  <2>1. entry' = entryOnDisk /\ UNCHANGED <<length, entryOnDisk, asked>> /\ saved' = saved
    BY <1>1, <1>12, StopSavingSays DEF PowerLoss, TypeOK, saved
  <2>2. stored' = onDisk /\ onDisk' = onDisk
    BY <2>1 DEF stored, onDisk
  <2>3. Store!LosePower
    BY <1>3, <2>1, <2>2 DEF Store!LosePower, saved
  <2> QED BY <2>3 DEF Store!Next
<1>13. CASE UNCHANGED vars
  <2>1. UNCHANGED <<length, entry, entryOnDisk, save, asked>>
    BY <1>13 DEF vars, files, disk
  <2> QED BY <1>4, <2>1 DEF stored, onDisk, saved
<1> QED BY <1>5, <1>6, <1>7, <1>8, <1>9, <1>10, <1>11, <1>12, <1>13 DEF Next

(* The system calls of the store, failing, stopped and lost in any order,  *)
(* implement a store that saves in one step and deletes only when asked.   *)
THEOREM StoreImplemented == Spec => ImplementsStore
<1>1. Inv /\ Inv' /\ [Next]_vars => [Store!Next]_(Store!storeVars)
  BY StepRefines
<1> QED BY <1>1, InitRefines, InvAlways, PTL DEF Spec, ImplementsStore, Store!Spec
=============================================================================
