-------------------------- MODULE StoreReaderProofs --------------------------
(***************************************************************************)
(* Proofs about StoreReader, for any number of families, changes, faults,   *)
(* deaths of the store and attempts: the retry rule of Store::ReadFamilies  *)
(* rests on what StoreProofs shows of the slot.                             *)
(***************************************************************************)
EXTENDS StoreReader, StoreProofs

-----------------------------------------------------------------------------
(* What the store does to the slot beside a reader                          *)

\* A file of a generation that was already committed is never written anew, nor
\* does the slot go back or its record change without a new generation.
LEMMA SlotMovesOn ==
  ASSUME StoreInv, StemsDistinct, Powered
  PROVE  /\ disk.gen \in Nat /\ disk'.gen \in Nat /\ disk.gen <= disk'.gen
         /\ disk'.gen = disk.gen => disk'.refs = disk.refs
         /\ \A e \in disk'.files : e.name.gen <= disk.gen => e \in disk.files
<1>1. [Next]_vars /\ disk \in Slot /\ disk.gen \in Nat
  BY DEF Next, StoreInv, TypeOK, DiskType, Slot
<1>2. CASE disk' = disk
  BY <1>1, <1>2
<1>3. CASE KeepsRecord
  <2>1. disk'.gen = disk.gen /\ disk'.refs = disk.refs
    BY <1>3 DEF KeepsRecord
  <2>2. \A e \in disk'.files : e.name.gen <= disk.gen => e \in disk.files
    <3>1. CASE disk'.files \subseteq disk.files
      BY <3>1
    <3>2. ASSUME NEW x \in File, x.name.gen > disk.gen, disk'.files = Put(disk.files, x)
          PROVE  \A e \in disk'.files : e.name.gen <= disk.gen => e \in disk.files
      <4>1. x.name.gen \in Nat
        BY DEF File, FileName
      <4>2. ~(x.name.gen <= disk.gen)
        BY <1>1, <3>2, <4>1
      <4> QED
        BY <3>2, <4>2 DEF Put
    <3> QED
      BY <1>3, <3>1, <3>2 DEF KeepsRecord
  <2> QED
    BY <1>1, <2>1, <2>2
<1>4. CASE Rename
  <2>1. disk' = [disk EXCEPT !.gen = NextGeneration, !.refs = NextRefs, !.temps = @ \ {NextGeneration}]
    BY <1>4 DEF Rename, ChangeDisk
  <2>2. disk'.files = disk.files /\ disk'.gen = gen + 1
    BY <1>1, <2>1 DEF Slot, NextGeneration
  <2>3. disk.gen = gen
    BY <1>4 DEF StoreInv, Rename, MirrorOK, DrainOK, IsOpen, Renamed
  <2> QED
    BY <1>1, <2>2, <2>3
<1>5. ~PowerLoss \/ disk' = disk \/ KeepsRecord \/ Rename
  <2>1. CASE Powered /\ crashes' = crashes
    BY <2>1 DEF PowerLoss, StoreInv, TypeOK
  <2>2. CASE ProcessDeath
    BY <2>2 DEF ProcessDeath, diskVars
  <2>3. Powered => crashes' = crashes \/ ProcessDeath
    BY DEF Powered, Opening, Calling, Submitting, Waiting, Draining, WriteSteps, Open, Sweep, Opened,
           RegisterFamily, Write, EraseAll, ChangeTables, Flush, StartWait, CheckIdle, Join, HandOff,
           Spawn, Waited, TakeAll, DrainInline, Close, StartJob, OpenFile, SyncFile, WriteTemp, Rename,
           FailWrite, SyncDirectory, DeleteSuperseded, Settle, DrainLeaves
  <2> QED
    BY <2>1, <2>2, <2>3
<1> QED
  BY <1>1, <1>2, <1>3, <1>4, <1>5, DirectoryStep

-----------------------------------------------------------------------------
(* The invariant                                                            *)

ReaderTypeOK ==
  /\ rpc \in {"idle", "commit", "files", "recheck", "ok", "error"}
  /\ record.gen \in Nat /\ record.refs \in Refs
  /\ unread \subseteq Families
  /\ entries \in [Families -> Nat] /\ image \in [Families -> Nat]
  /\ attempt \in Nat /\ attempt < ReadFamiliesAttempts

\* An attempt has a record.
HasRecord == rpc \in {"files", "recheck", "ok", "error"}

\* The record of an attempt is of a generation that was committed: the slot's own,
\* unless that has moved on.
RecordOK == HasRecord => /\ record.gen <= disk.gen
                         /\ record.gen = disk.gen => record.refs = disk.refs

\* What the record's names stood for when it was read they stand for as long as they
\* stand for anything.
ImageOK == HasRecord => \A f \in Families :
  IF record.refs[f].gen = 0
  THEN image[f] = 0
  ELSE record.refs[f].gen <= record.gen /\ \A e \in Found(f) : e.val = image[f]

\* What has been read is the record's.
EntriesOK == /\ rpc \in {"files", "ok"} =>
                  \A f \in Families : entries[f] = IF f \in unread THEN 0 ELSE image[f]
             /\ rpc = "ok" => unread = {}

\* A file was missing because the record is of the past.
OvertakenOK == rpc = "recheck" => disk.gen > record.gen

ReaderInv == /\ StoreInv /\ FilesOK
             /\ ReaderTypeOK /\ RecordOK /\ ImageOK /\ EntriesOK /\ OvertakenOK
             /\ FailsOnlyOvertaken

LEMMA InitReader == StemsDistinct /\ RInit => ReaderInv
<1> SUFFICES ASSUME RInit PROVE ReaderInv
  OBVIOUS
<1>1. StoreInv
  BY InvInit DEF RInit
<1>2. FilesOK
  BY DEF RInit, Init, FilesOK, Views, Saved, Committed
<1>3. NoRecord.gen = 0 /\ NoRecord.refs \in Refs /\ Nothing \in [Families -> Nat]
  BY StemAssumption DEF NoRecord, NoFile, Refs, FileName, Nothing
<1>4. ReaderTypeOK
  BY <1>3, AttemptsAssumption DEF RInit, ReaderTypeOK
<1>5. rpc = "idle"
  BY DEF RInit
<1> QED
  BY <1>1, <1>2, <1>4, <1>5
  DEF ReaderInv, RecordOK, ImageOK, EntriesOK, OvertakenOK, FailsOnlyOvertaken, HasRecord

\* The store's steps leave the reader in order.
LEMMA StoreKeepsReader ==
  ASSUME StemsDistinct, RegistersFirst, ReaderInv, Powered, UNCHANGED readerVars
  PROVE  ReaderInv'
<1>1. StoreInv' /\ FilesOK'
  <2>1. [Next]_vars
    BY DEF Next
  <2> QED
    BY <2>1, InvStep, FilesStep DEF ReaderInv
<1>2. /\ disk.gen \in Nat /\ disk'.gen \in Nat /\ disk.gen <= disk'.gen
      /\ disk'.gen = disk.gen => disk'.refs = disk.refs
      /\ \A e \in disk'.files : e.name.gen <= disk.gen => e \in disk.files
  BY SlotMovesOn DEF ReaderInv
<1>3. ReaderTypeOK' /\ EntriesOK'
  BY DEF readerVars, ReaderInv, ReaderTypeOK, EntriesOK
<1>4. record.gen \in Nat /\ record.refs \in Refs /\ HasRecord' = HasRecord
      /\ UNCHANGED <<rpc, record, image, attempt>>
  BY DEF readerVars, ReaderInv, ReaderTypeOK, HasRecord
<1>5. RecordOK'
  BY <1>2, <1>4 DEF ReaderInv, RecordOK
<1>6. ImageOK'
  <2> SUFFICES ASSUME HasRecord, NEW f \in Families, record.refs[f].gen # 0
               PROVE  \A e \in Found(f)' : e.val = image[f]
    BY <1>4 DEF ReaderInv, ImageOK
  <2>1. record.refs[f].gen \in Nat /\ record.refs[f].gen <= record.gen /\ record.gen <= disk.gen
    BY <1>4 DEF Refs, FileName, ReaderInv, ImageOK, RecordOK
  <2>2. record.refs[f].gen <= disk.gen
    BY <1>2, <1>4, <2>1
  <2>3. Found(f)' \subseteq Found(f)
    BY <1>2, <1>4, <2>2 DEF Found
  <2> QED
    BY <2>3 DEF ReaderInv, ImageOK
<1>7. OvertakenOK' /\ FailsOnlyOvertaken'
  BY <1>2, <1>4 DEF ReaderInv, OvertakenOK, FailsOnlyOvertaken
<1> QED
  BY <1>1, <1>3, <1>5, <1>6, <1>7 DEF ReaderInv

\* A record just read is the slot's, and the files it names are there.
LEMMA RecordRead ==
  ASSUME ReaderInv, StemsDistinct
  PROVE  /\ LegalRecord(disk)
         /\ disk.gen \in Nat /\ disk.refs \in Refs /\ Saved(disk) \in [Families -> Nat]
         /\ \A f \in Families :
              IF disk.refs[f].gen = 0
              THEN Saved(disk)[f] = 0
              ELSE /\ disk.refs[f].gen <= disk.gen /\ Committed(disk, f) # {}
                   /\ \A e \in Committed(disk, f) : e.val = Saved(disk)[f]
<1>1. ViewOK(disk) /\ disk \in Slot /\ disk \in Views
  BY DEF ReaderInv, StoreInv, ViewsOK, Views, TypeOK, DiskType
<1>2. LegalRecord(disk)
  BY <1>1, ViewReadable DEF Readable
<1>3. disk.gen \in Nat /\ disk.refs \in Refs
  BY <1>1 DEF Slot
<1>4. Saved(disk) \in [Families -> Nat]
  BY <1>1, SavedType
<1>5. ASSUME NEW f \in Families, disk.refs[f].gen = 0 PROVE Saved(disk)[f] = 0
  BY <1>5 DEF Saved, Committed
<1>6. ASSUME NEW f \in Families, disk.refs[f].gen # 0
      PROVE  /\ disk.refs[f].gen <= disk.gen /\ Committed(disk, f) # {}
             /\ \A e \in Committed(disk, f) : e.val = Saved(disk)[f]
  <2>1. disk.refs[f].gen \in 1 .. disk.gen /\ Committed(disk, f) # {}
    BY <1>1, <1>6 DEF ViewOK, RefOK, NoFile
  <2>2. \A y, z \in disk.files : y.name = z.name => y = z
    BY <1>1 DEF ReaderInv, FilesOK
  <2>3. \A e \in Committed(disk, f) : e.val = Saved(disk)[f]
    BY <2>2, SavedFile
  <2> QED
    BY <1>3, <2>1, <2>3
<1> QED
  BY <1>2, <1>3, <1>4, <1>5, <1>6

\* The reader's own steps.
LEMMA ReaderKeeps ==
  ASSUME StemsDistinct, ReaderInv, ReaderStep, UNCHANGED vars
  PROVE  ReaderInv'
<1> USE DEF ReaderInv
<1>1. StoreInv' /\ FilesOK' /\ disk' = disk
  <2>1. disk' = disk
    BY DEF vars
  <2>2. StoreInv'
    BY DEF vars, StoreInv, TypeOK, DiskType, AppType, CallType, WriterType, DrainType, IsSnapshot,
           ViewsOK, ViewOK, Views, RefOK, Committed, StemsOK, IsOpen, Snaps, MirrorOK, Renamed, NextRefs,
           NewRef, NextGeneration, Ids, WrittenOK, WholeFile, NextFile, DrainOK
  <2>3. FilesOK'
    BY DEF vars, FilesOK, Views, Saved, Committed
  <2> QED
    BY <2>1, <2>2, <2>3
<1>2. disk.gen \in Nat /\ record.gen \in Nat /\ record.refs \in Refs /\ attempt \in Nat
      /\ ReadFamiliesAttempts \in Nat \ {0}
  BY RecordRead, AttemptsAssumption DEF ReaderTypeOK
<1>3. CASE StartRead
  BY <1>1, <1>3 DEF StartRead, ReaderTypeOK, RecordOK, HasRecord, ImageOK, EntriesOK, OvertakenOK,
                    FailsOnlyOvertaken
<1>4. CASE ReadCommit
  <2>1. /\ rpc' = "files" /\ record' = [gen |-> disk.gen, refs |-> disk.refs]
        /\ unread' = Families /\ entries' = Nothing /\ image' = Saved(disk) /\ attempt' = attempt
    BY <1>4, RecordRead DEF ReadCommit
  <2>2. record'.gen = disk.gen /\ record'.refs = disk.refs
    BY <2>1
  <2>3. Nothing \in [Families -> Nat] /\ \A f \in Families : Nothing[f] = 0
    BY DEF Nothing
  <2>4. ReaderTypeOK'
    BY <2>1, <2>2, <2>3, RecordRead DEF ReaderTypeOK
  <2>5. RecordOK'
    BY <1>1, <1>2, <2>2 DEF RecordOK
  <2>6. ImageOK'
    <3> SUFFICES ASSUME NEW f \in Families
                 PROVE  IF disk.refs[f].gen = 0
                        THEN Saved(disk)[f] = 0
                        ELSE disk.refs[f].gen <= disk.gen /\ \A e \in Found(f)' : e.val = Saved(disk)[f]
      BY <2>1, <2>2 DEF ImageOK
    <3>1. disk.refs[f].gen # 0 => Found(f)' = Committed(disk, f)
      BY <1>1, <2>2 DEF Found, Committed
    <3> QED
      BY <3>1, RecordRead
  <2>7. EntriesOK' /\ OvertakenOK' /\ FailsOnlyOvertaken'
    BY <2>1, <2>3 DEF EntriesOK, OvertakenOK, FailsOnlyOvertaken
  <2> QED
    BY <1>1, <2>4, <2>5, <2>6, <2>7
<1>5. CASE ReadFamily
  <2>0. rpc = "files" /\ UNCHANGED <<record, attempt, image>>
    BY <1>5 DEF ReadFamily
  <2>1. RecordOK' /\ ImageOK'
    <3>1. \A f \in Families : Found(f)' = Found(f)
      BY <1>1, <2>0 DEF Found
    <3> QED
      BY <1>1, <2>0, <3>1 DEF RecordOK, ImageOK, HasRecord
  <2>2. PICK f \in unread :
          \/ ReadAbsent(f)
          \/ /\ record.refs[f].gen # 0
             /\ \E e \in Found(f) : entries' = [entries EXCEPT ![f] = e.val]
             /\ unread' = unread \ {f} /\ rpc' = rpc
          \/ /\ record.refs[f].gen # 0 /\ Found(f) = {}
             /\ rpc' = "recheck" /\ UNCHANGED <<unread, entries>>
    BY <1>5 DEF ReadFamily
  <2>3. f \in Families /\ image \in [Families -> Nat] /\ entries \in [Families -> Nat]
    BY DEF ReaderTypeOK
  <2>4. CASE ReadAbsent(f)
    <3>1. rpc' = "files" /\ entries' = entries /\ unread' = unread \ {f} /\ record.refs[f].gen = 0
      BY <2>0, <2>4 DEF ReadAbsent
    <3>2. image[f] = 0
      BY <2>0, <2>3, <3>1 DEF ImageOK, HasRecord
    <3>3. EntriesOK'
      BY <2>0, <2>2, <3>1, <3>2 DEF EntriesOK
    <3> QED
      BY <1>1, <2>0, <2>1, <3>1, <3>3 DEF ReaderTypeOK, OvertakenOK, FailsOnlyOvertaken
  <2>5. ASSUME NEW e \in Found(f), record.refs[f].gen # 0, entries' = [entries EXCEPT ![f] = e.val],
               unread' = unread \ {f}, rpc' = rpc
        PROVE  ReaderInv'
    <3>1. e.val = image[f]
      BY <2>0, <2>3, <2>5 DEF ImageOK, HasRecord
    <3>2. entries' \in [Families -> Nat]
      BY <2>3, <2>5, <3>1
    <3>3. EntriesOK'
      BY <2>0, <2>3, <2>5, <3>1 DEF EntriesOK
    <3> QED
      BY <1>1, <2>0, <2>1, <2>5, <3>2, <3>3 DEF ReaderTypeOK, OvertakenOK, FailsOnlyOvertaken
  <2>6. CASE /\ record.refs[f].gen # 0 /\ Found(f) = {}
             /\ rpc' = "recheck" /\ UNCHANGED <<unread, entries>>
    <3>1. disk.gen # record.gen
      <4> SUFFICES ASSUME disk.gen = record.gen PROVE FALSE
        OBVIOUS
      <4>1. disk.refs = record.refs
        BY <2>0 DEF RecordOK, HasRecord
      <4>2. Committed(disk, f) # {}
        BY <2>3, <2>6, <4>1, RecordRead
      <4> QED
        BY <2>6, <4>1, <4>2 DEF Found, Committed
    <3>2. disk.gen > record.gen
      BY <1>2, <2>0, <3>1 DEF RecordOK, HasRecord
    <3> QED
      BY <1>1, <2>0, <2>1, <2>6, <3>2 DEF ReaderTypeOK, EntriesOK, OvertakenOK, FailsOnlyOvertaken
  <2> QED
    BY <2>2, <2>4, <2>5, <2>6
<1>6. CASE Recheck
  <2>0. rpc = "recheck" /\ disk.gen > record.gen /\ UNCHANGED <<record, unread, entries, image>>
    BY <1>6 DEF Recheck, OvertakenOK
  <2>1. MovedOn
    BY <1>2, <2>0, RecordRead DEF MovedOn
  <2>2. CASE MayRetry
    BY <1>1, <1>2, <1>6, <2>0, <2>1, <2>2
    DEF Recheck, MayRetry, ReaderTypeOK, RecordOK, HasRecord, ImageOK, EntriesOK, OvertakenOK,
        FailsOnlyOvertaken
  <2>3. CASE ~MayRetry
    <3>1. rpc' = "error" /\ attempt' = attempt
      BY <1>6, <2>3 DEF Recheck
    <3>2. attempt + 1 = ReadFamiliesAttempts
      BY <1>2, <2>3 DEF MayRetry, ReaderTypeOK
    <3>3. \A f \in Families : Found(f)' = Found(f)
      BY <1>1, <2>0 DEF Found
    <3> QED
      BY <1>1, <2>0, <3>1, <3>2, <3>3
      DEF ReaderTypeOK, RecordOK, HasRecord, ImageOK, EntriesOK, OvertakenOK, FailsOnlyOvertaken
  <2> QED
    BY <2>2, <2>3
<1>7. CASE FinishRead
  <2>1. \A f \in Families : Found(f)' = Found(f)
    BY <1>1, <1>7 DEF Found, FinishRead
  <2> QED
    BY <1>1, <1>7, <2>1
    DEF FinishRead, ReaderTypeOK, RecordOK, HasRecord, ImageOK, EntriesOK, OvertakenOK, FailsOnlyOvertaken
<1>8. CASE Return
  <2>1. /\ rpc' = "idle" /\ record' = NoRecord /\ unread' = {} /\ attempt' = 0
        /\ entries' = Nothing /\ image' = Nothing
    BY <1>8 DEF Return, ResetReader
  <2>2. NoRecord.gen = 0 /\ NoRecord.refs \in Refs /\ Nothing \in [Families -> Nat]
    BY StemAssumption DEF NoRecord, NoFile, Refs, FileName, Nothing
  <2>3. ReaderTypeOK'
    BY <1>2, <2>1, <2>2 DEF ReaderTypeOK
  <2> QED
    BY <1>1, <2>1, <2>3
    DEF RecordOK, HasRecord, ImageOK, EntriesOK, OvertakenOK, FailsOnlyOvertaken
<1> QED
  BY <1>3, <1>4, <1>5, <1>6, <1>7, <1>8 DEF ReaderStep

LEMMA StepReader ==
  ASSUME StemsDistinct, RegistersFirst
  PROVE  ReaderInv /\ [RNext]_rvars => ReaderInv'
<1> SUFFICES ASSUME ReaderInv, [RNext]_rvars PROVE ReaderInv'
  OBVIOUS
<1>1. CASE Powered /\ UNCHANGED readerVars
  BY <1>1, StoreKeepsReader
<1>2. CASE ReaderStep /\ UNCHANGED vars
  BY <1>2, ReaderKeeps
<1>3. CASE UNCHANGED rvars
  <2>1. UNCHANGED vars /\ UNCHANGED readerVars
    BY <1>3 DEF rvars
  <2>2. [Next]_vars /\ disk' = disk
    BY <2>1 DEF vars
  <2>3. StoreInv' /\ FilesOK'
    BY <2>2, InvStep, FilesStep DEF ReaderInv
  <2>4. \A f \in Families : Found(f)' = Found(f)
    BY <2>1, <2>2 DEF readerVars, Found
  <2> QED
    BY <2>1, <2>2, <2>3, <2>4
    DEF readerVars, ReaderInv, ReaderTypeOK, RecordOK, HasRecord, ImageOK, EntriesOK, OvertakenOK,
        FailsOnlyOvertaken
<1> QED
  BY <1>1, <1>2, <1>3 DEF RNext

-----------------------------------------------------------------------------
(* The theorems                                                             *)

\* A read that succeeds holds one committed generation, whole, however the store
\* commits, deletes, sweeps, dies and opens again while the files are read.
THEOREM OneGenerationRead ==
  ASSUME StemsDistinct, RegistersFirst
  PROVE  RSpec => []ReadsOneGeneration
<1>1. ReaderInv => ReadsOneGeneration
  <2> SUFFICES ASSUME ReaderInv, rpc = "ok" PROVE entries = image
    BY DEF ReadsOneGeneration
  <2>1. \A f \in Families : entries[f] = image[f]
    BY DEF ReaderInv, EntriesOK
  <2>2. entries \in [Families -> Nat] /\ image \in [Families -> Nat]
    BY DEF ReaderInv, ReaderTypeOK
  <2> QED
    BY <2>1, <2>2
<1> QED
  BY <1>1, InitReader, StepReader, PTL DEF RSpec

\* A read fails only when commits overtook every attempt it is allowed.
THEOREM OvertakenReadFails ==
  ASSUME StemsDistinct, RegistersFirst
  PROVE  RSpec => []FailsOnlyOvertaken
<1>1. ReaderInv => FailsOnlyOvertaken
  BY DEF ReaderInv
<1> QED
  BY <1>1, InitReader, StepReader, PTL DEF RSpec
=============================================================================
