---------------------------- MODULE StoreProofs ----------------------------
(***************************************************************************)
(* What holds of Store for every set of families, every choice of stems and *)
(* every bound.                                                             *)
(***************************************************************************)
EXTENDS StoreInvariant, TLAPS

-----------------------------------------------------------------------------
(* The operators on data keep the types. *)

\* Merging two snapshots that name each family at most once gives another.
LEMMA OverlayIsSnapshot ==
  ASSUME NEW a, NEW b, IsSnapshot(a), IsSnapshot(b)
  PROVE  IsSnapshot(Overlay(a, b))
BY DEF IsSnapshot, Overlay, Ids

\* Open loads a table for every family.
LEMMA SavedType ==
  ASSUME NEW d \in Slot
  PROVE  Saved(d) \in [Families -> Nat]
<1> SUFFICES ASSUME NEW f \in Families, Committed(d, f) # {}
             PROVE  (CHOOSE e \in Committed(d, f) : TRUE).val \in Nat
  BY DEF Saved
<1>1. (CHOOSE e \in Committed(d, f) : TRUE) \in Committed(d, f)
  OBVIOUS
<1>2. Committed(d, f) \subseteq File
  BY DEF Committed, Slot
<1> QED
  BY <1>1, <1>2 DEF File

\* The commit record a drain builds names a file per family.
LEMMA NextRefsType ==
  ASSUME TypeOK
  PROVE  NextRefs \in Refs
<1> SUFFICES ASSUME NEW f \in Families, f \in Ids(inflight)
             PROVE  NewRef(f) \in FileName
  BY DEF NextRefs, TypeOK, WriterType, Refs
<1> DEFINE s == CHOOSE s \in inflight : s.id = f
<1>1. s \in inflight
  BY DEF Ids
<1>2. s \in Taken
  BY <1>1 DEF TypeOK, DrainType, IsSnapshot
<1> HIDE DEF s
<1> QED
  BY <1>2 DEF NewRef, Taken, FileName, NextGeneration, TypeOK, WriterType, s

\* A file a drain writes is a file.
LEMMA FileType ==
  ASSUME TypeOK, NEW s \in Taken, NEW whole \in BOOLEAN
  PROVE  NextFile(s, whole) \in File
<1>1. [stem |-> s.stem, gen |-> NextGeneration] \in FileName
  BY DEF TypeOK, WriterType, Taken, FileName, NextGeneration
<1> QED
  BY <1>1 DEF NextFile, File, Taken

\* A slot directory stays one when its files become another set of files.
LEMMA FilesType ==
  ASSUME DiskType, NEW F \in SUBSET File
  PROVE  [disk EXCEPT !.files = F] \in Slot
BY DEF DiskType, Slot

\* A step to another slot directory keeps the directories' type.
LEMMA ChangeDiskType ==
  ASSUME DiskType, NEW d \in Slot, ChangeDisk(d)
  PROVE  DiskType'
BY DEF ChangeDisk, DiskType

\* A flush's snapshot of some families names each of them once.
LEMMA TakenType ==
  ASSUME AppType, NEW S \in SUBSET Families
  PROVE  IsSnapshot({[id |-> f, stem |-> stem[f], val |-> table[f]] : f \in S})
BY DEF AppType, IsSnapshot, Taken

\* A process that ends leaves a typed state over any typed directory.
LEMMA ForgetType ==
  ASSUME TypeOK, NEW d \in Slot, Forget(d), DiskType', crashes' \in Nat
  PROVE  TypeOK'
<1>1. Saved(d) \in [Families -> Nat]
  BY SavedType
<1> QED
  BY <1>1, StemAssumption
  DEF Forget, TypeOK, AppType, CallType, WriterType, DrainType, Refs, FileName, NoFile, IsSnapshot,
      Threads
-----------------------------------------------------------------------------
(* Type correctness *)

LEMMA TypeInit == Init => TypeOK
<1> SUFFICES ASSUME Init PROVE TypeOK
  OBVIOUS
<1>1. [f \in Families |-> NoFile] \in Refs
  BY StemAssumption DEF Refs, FileName, NoFile
<1>2. DiskType
  BY <1>1 DEF Init, DiskType, Slot
<1> QED
  BY <1>1, <1>2 DEF Init, TypeOK, AppType, CallType, WriterType, DrainType, IsSnapshot, Threads

LEMMA TypeStep == TypeOK /\ [Next]_vars => TypeOK'
<1> SUFFICES ASSUME TypeOK, [Next]_vars PROVE TypeOK'
  OBVIOUS
<1> USE DEF diskVars, appVars, callVars, writerVars, drainVars, DrainLeaves
<1>1. CASE Open
  <2>1. disk.gen \in Nat /\ disk.refs \in Refs /\ Saved(disk) \in [Families -> Nat]
    BY SavedType DEF TypeOK, DiskType, Slot
  <2>2. [f \in Families |-> disk.refs[f].stem] \in [Families -> Stems \cup {NoStem}]
    BY <2>1 DEF Refs, FileName
  <2> QED
    BY <1>1, <2>1, <2>2
    DEF Open, TypeOK, DiskType, AppType, CallType, WriterType, DrainType
<1>2. CASE Sweep
  <2>1. DiskType'
    BY <1>2 DEF Sweep, ChangeDisk, TypeOK, DiskType, Slot
  <2> QED
    BY <1>2, <2>1 DEF Sweep, TypeOK, AppType, CallType, WriterType, DrainType
<1>3. CASE Opened
  BY <1>3 DEF Opened, TypeOK, DiskType, AppType, CallType, WriterType, DrainType
<1>4. ASSUME NEW f \in Families, RegisterFamily(f) PROVE TypeOK'
  BY <1>4, StemAssumption
  DEF RegisterFamily, TypeOK, DiskType, AppType, CallType, WriterType, DrainType
<1>5. ASSUME NEW S \in SUBSET Families, ChangeTables(S) PROVE TypeOK'
  BY <1>5 DEF ChangeTables, TypeOK, DiskType, AppType, CallType, WriterType, DrainType
<1>6. CASE Flush
  <2>1. PICK late \in SUBSET Lazy : RedirtyAndTake(Marked \cap (DueNow \cup late))
    BY <1>6 DEF Flush
  <2>2. Marked \subseteq Families
    BY DEF Marked, TypeOK, AppType, WriterType
  <2>3. IsSnapshot(handed')
    BY <2>1, <2>2, TakenType DEF RedirtyAndTake, TypeOK
  <2> QED
    BY <1>6, <2>1, <2>2, <2>3
    DEF Flush, Submit, RedirtyAndTake, TypeOK, DiskType, AppType, CallType, WriterType, DrainType
<1>7. CASE TakeAll
  <2>1. Marked \subseteq Families
    BY DEF Marked, TypeOK, AppType, WriterType
  <2>2. IsSnapshot(handed')
    BY <1>7, <2>1, TakenType DEF TakeAll, RedirtyAndTake, TypeOK
  <2> QED
    BY <1>7, <2>1, <2>2
    DEF TakeAll, Submit, RedirtyAndTake, TypeOK, DiskType, AppType, CallType, WriterType, DrainType
<1>8. CASE CheckIdle \/ Join \/ Spawn \/ StartWait
  BY <1>8 DEF CheckIdle, Join, Spawn, StartWait, AfterSubmit, TypeOK, DiskType, AppType, CallType,
              WriterType, DrainType
<1>9. CASE HandOff
  <2>1. IsSnapshot(MergeNewer(next, handed))
    BY OverlayIsSnapshot DEF MergeNewer, TypeOK, WriterType, CallType
  <2>2. IsSnapshot({})
    BY DEF IsSnapshot
  <2> QED
    BY <1>9, <2>1, <2>2
    DEF HandOff, AfterSubmit, TypeOK, DiskType, AppType, CallType, WriterType, DrainType
<1>10. CASE Waited
  BY <1>10 DEF Waited, TypeOK, DiskType, AppType, CallType, WriterType, DrainType
<1>11. ASSUME NEW thread \in Threads, Claim(thread) PROVE WriterType' /\ DrainType'
  BY <1>11 DEF Claim, Take, TypeOK, WriterType, DrainType, IsSnapshot
<1>12. CASE StartJob
  <2>1. WriterType' /\ DrainType'
    BY <1>11, <1>12 DEF StartJob, Threads, TypeOK, WriterType, DrainType
  <2> QED
    BY <1>12, <2>1 DEF StartJob, TypeOK, DiskType, AppType, CallType
<1>13. CASE DrainInline
  BY <1>11, <1>13 DEF DrainInline, Threads, TypeOK, DiskType, AppType, CallType
<1>14. CASE OpenFile
  <2>1. PICK s \in todo : ChangeDisk([disk EXCEPT !.files = Put(@, NextFile(s, FALSE))])
    BY <1>14 DEF OpenFile, TornFile
  <2>2. NextFile(s, FALSE) \in File
    BY FileType DEF TypeOK, DrainType, IsSnapshot
  <2>3. DiskType'
    BY <2>1, <2>2, FilesType, ChangeDiskType DEF Put, TypeOK, DiskType, Slot
  <2> QED
    BY <1>14, <2>3 DEF OpenFile, TypeOK, AppType, CallType, WriterType, DrainType
<1>15. CASE SyncFile
  <2>1. PICK s \in todo : /\ ChangeDisk([disk EXCEPT !.files = Put(@, NextFile(s, TRUE))])
                          /\ todo' = todo \ {s}
    BY <1>15 DEF SyncFile, WholeFile
  <2>2. NextFile(s, TRUE) \in File
    BY FileType DEF TypeOK, DrainType, IsSnapshot
  <2>3. DiskType'
    BY <2>1, <2>2, FilesType, ChangeDiskType DEF Put, TypeOK, DiskType, Slot
  <2> QED
    BY <1>15, <2>1, <2>3 DEF SyncFile, TypeOK, AppType, CallType, WriterType, DrainType
<1>16. CASE WriteTemp
  <2>1. DiskType'
    BY <1>16 DEF WriteTemp, ChangeDisk, NextGeneration, TypeOK, DiskType, WriterType, Slot
  <2> QED
    BY <1>16, <2>1 DEF WriteTemp, TypeOK, AppType, CallType, WriterType, DrainType
<1>17. CASE Rename
  <2>1. NextRefs \in Refs /\ NextGeneration \in Nat
    BY NextRefsType DEF TypeOK, WriterType, NextGeneration
  <2>2. DiskType'
    BY <1>17, <2>1 DEF Rename, ChangeDisk, TypeOK, DiskType, Slot
  <2> QED
    BY <1>17, <2>2 DEF Rename, TypeOK, AppType, CallType, WriterType, DrainType
<1>18. CASE FailWrite \/ SyncDirectory
  BY <1>18 DEF FailWrite, SyncDirectory, TypeOK, DiskType, AppType, CallType, WriterType, DrainType
<1>19. CASE DeleteSuperseded
  <2>1. DiskType'
    BY <1>19 DEF DeleteSuperseded, ChangeDisk, TypeOK, DiskType, Slot
  <2> QED
    BY <1>19, <2>1 DEF DeleteSuperseded, TypeOK, AppType, CallType, WriterType, DrainType
<1>20. CASE Settle
  <2>1. NextRefs \in Refs /\ NextGeneration \in Nat
    BY NextRefsType DEF TypeOK, WriterType, NextGeneration
  <2>2. IsSnapshot(MergeOlder(next, inflight)) /\ IsSnapshot({})
    BY OverlayIsSnapshot DEF MergeOlder, TypeOK, WriterType, DrainType, IsSnapshot
  <2>3. Ids(inflight) \subseteq Families
    BY DEF Ids, TypeOK, DrainType, IsSnapshot, Taken
  <2>4. WriterType'
    BY <1>20, <2>1, <2>2, <2>3 DEF Settle, Take, GoIdle, Threads, TypeOK, WriterType
  <2>5. DrainType'
    BY <1>20, <2>2 DEF Settle, Take, GoIdle, TypeOK, WriterType, DrainType
  <2> QED
    BY <1>20, <2>4, <2>5 DEF Settle, TypeOK, DiskType, AppType, CallType
<1>21. CASE Close \/ ProcessDeath
  BY <1>21, ForgetType DEF Close, ProcessDeath, TypeOK, DiskType
<1>22. CASE PowerLoss
  <2>1. disk' \in Slot /\ DiskType' /\ crashes' \in Nat
    BY <1>22 DEF PowerLoss, TypeOK, DiskType
  <2> QED
    BY <1>22, <2>1, ForgetType DEF PowerLoss
<1>23. CASE UNCHANGED vars
  BY <1>23 DEF vars, TypeOK, DiskType, AppType, CallType, WriterType, DrainType
<1> QED
  BY <1>1, <1>2, <1>3, <1>4, <1>5, <1>6, <1>7, <1>8, <1>9, <1>10, <1>12, <1>13, <1>14, <1>15,
     <1>16, <1>17, <1>18, <1>19, <1>20, <1>21, <1>22, <1>23
  DEF Next, Powered, Opening, Calling, Submitting, Waiting, Draining, WriteSteps, Write, EraseAll

\* Every state of the store has its types, and every snapshot, taken, queued,
\* coalesced or merged under a newer one, names each family at most once.
THEOREM TypeCorrect == Spec => []TypeOK
BY TypeInit, TypeStep, PTL DEF Spec
-----------------------------------------------------------------------------
(* The slot is always readable *)

\* The program registers every family under a stem of its own, before it writes
\* it: what RegisterFamily's assertion and the guides ask of it.
StemsDistinct == \A f, g \in Families : f # g => StemOf[f] # StemOf[g]

\* The invariant gives the property: distinct families have distinct stems.
LEMMA ViewReadable ==
  ASSUME StemsDistinct, NEW d, ViewOK(d)
  PROVE  Readable(d)
BY StemAssumption DEF StemsDistinct, ViewOK, RefOK, NoFile, Readable, LegalRecord

\* Files of distinct families never share a name.
LEMMA NamesDiffer ==
  ASSUME StemsDistinct, StemsOK, TypeOK, NEW s \in inflight, NEW t \in inflight, s # t, NEW w, NEW x
  PROVE  NextFile(s, w).name # NextFile(t, x).name
<1>1. s.id # t.id /\ s.id \in Families /\ t.id \in Families
  BY DEF TypeOK, DrainType, IsSnapshot, Taken
<1>2. s.stem = StemOf[s.id] /\ t.stem = StemOf[t.id]
  BY DEF StemsOK, Snaps
<1> QED
  BY <1>1, <1>2 DEF StemsDistinct, NextFile

\* The families of a merged snapshot come from the two it merges.
LEMMA OverlayFrom ==
  ASSUME NEW a, NEW b
  PROVE  Overlay(a, b) \subseteq a \cup b
BY DEF Overlay

\* A step to a directory that opens keeps the views in order.
LEMMA ViewsStep ==
  ASSUME ViewsOK, NEW d, ChangeDisk(d), ViewOK(d), disk.gen <= d.gen, d.gen \in Nat, TypeOK
  PROVE  ViewsOK'
<1> SUFFICES ASSUME NEW e \in Views'
             PROVE  ViewOK(e) /\ e.gen <= d.gen
  BY DEF ViewsOK, ViewOK, ChangeDisk, Committed
<1>1. CASE e = d
  BY <1>1
<1>2. CASE e \in Views
  <2>1. e.gen \in Nat /\ disk.gen \in Nat
    BY <1>2 DEF Views, TypeOK, DiskType, Slot
  <2> QED
    BY <1>2, <2>1 DEF ViewsOK
<1> QED
  BY <1>1, <1>2 DEF Views, ChangeDisk

\* Steps that leave the directories alone keep the views.
LEMMA ViewsUnchanged ==
  ASSUME ViewsOK, UNCHANGED diskVars
  PROVE  ViewsOK'
BY DEF ViewsOK, ViewOK, Views, Committed, diskVars

LEMMA InvInit == Init => StoreInv
<1> SUFFICES ASSUME Init PROVE StoreInv
  OBVIOUS
<1>1. ViewsOK
  BY DEF Init, ViewsOK, Views, ViewOK, RefOK, NoFile, Committed
<1> QED
  BY <1>1, TypeInit DEF Init, StoreInv, StemsOK, Snaps, MirrorOK, IsOpen, WrittenOK, DrainOK, RefOK

\* The end of the process leaves the invariant over any directory that opens.
LEMMA ForgetInv ==
  ASSUME StemsOK, NEW d, Forget(d)
  PROVE  StemsOK' /\ MirrorOK' /\ WrittenOK' /\ DrainOK'
BY DEF Forget, StemsOK, Snaps, MirrorOK, IsOpen, WrittenOK, DrainOK

\* The directory's family files of some name.
Named(d, name) == {x \in d.files : x.name = name}

\* A change of the directory that leaves the commit record and every file it names
\* alone, gives no name to two files and writes for a later generation only.
KeepsRecord == /\ durable' = durable \cup {disk'}
               /\ disk'.gen = disk.gen /\ disk'.refs = disk.refs
               /\ \A f \in Families :
                    disk.refs[f].gen # 0 => Named(disk', disk.refs[f]) = Named(disk, disk.refs[f])
               /\ \/ disk'.files \subseteq disk.files
                  \/ \E x \in File : x.name.gen > disk.gen /\ disk'.files = Put(disk.files, x)

\* Neither a sweep nor a write that has not reached its rename, nor the removal of
\* replaced files, touches a file the commit record names.
LEMMA RecordKept ==
  ASSUME StoreInv, StemsDistinct,
         Sweep \/ OpenFile \/ SyncFile \/ WriteTemp \/ DeleteSuperseded
  PROVE  KeepsRecord
<1> USE DEF StoreInv
<1>0. /\ disk \in Slot /\ gen \in Nat /\ committed \in Refs
      /\ disk.gen \in Nat /\ disk.refs \in Refs
  BY DEF TypeOK, DiskType, WriterType, Slot
<1>1. dpc # "idle" => IsOpen
  BY DEF DrainOK, IsOpen
<1>2. ASSUME NEW e \in disk.files, ChangeDisk([disk EXCEPT !.files = @ \ {e}]),
             \A f \in Families : disk.refs[f].gen # 0 => disk.refs[f] # e.name
      PROVE  KeepsRecord
  <2> DEFINE d == [disk EXCEPT !.files = @ \ {e}]
  <2>1. d.gen = disk.gen /\ d.refs = disk.refs /\ d.files = disk.files \ {e}
    BY <1>0 DEF Slot
  <2>2. disk' = d /\ durable' = durable \cup {d}
    BY <1>2 DEF ChangeDisk
  <2> HIDE DEF d
  <2> QED
    BY <1>2, <2>1, <2>2 DEF KeepsRecord, Named
<1>3. ASSUME NEW T, ChangeDisk([disk EXCEPT !.temps = T])
      PROVE  KeepsRecord
  <2> DEFINE d == [disk EXCEPT !.temps = T]
  <2>1. d.gen = disk.gen /\ d.refs = disk.refs /\ d.files = disk.files
    BY <1>0 DEF Slot
  <2>2. disk' = d /\ durable' = durable \cup {d}
    BY <1>3 DEF ChangeDisk
  <2> HIDE DEF d
  <2> QED
    BY <2>1, <2>2 DEF KeepsRecord, Named
<1>4. CASE Sweep
  <2>1. disk.refs = committed
    BY <1>4 DEF Sweep, IsOpen, DrainOK, Renamed, MirrorOK
  <2> QED
    BY <1>2, <1>3, <1>4, <2>1 DEF Sweep
<1>5. CASE WriteTemp
  BY <1>3, <1>5 DEF WriteTemp
<1>6. CASE OpenFile \/ SyncFile
  <2>1. PICK s \in todo, w \in BOOLEAN : ChangeDisk([disk EXCEPT !.files = Put(@, NextFile(s, w))])
    BY <1>6 DEF OpenFile, SyncFile, TornFile, WholeFile
  <2>2. IsOpen /\ ~Renamed /\ s \in Taken
    BY <1>1, <1>6 DEF OpenFile, SyncFile, Renamed, TypeOK, DrainType, IsSnapshot
  <2> DEFINE x == NextFile(s, w)
             d == [disk EXCEPT !.files = Put(@, x)]
  <2>3. d.gen = disk.gen /\ d.refs = disk.refs /\ d.files = Put(disk.files, x)
    BY <1>0 DEF Slot
  <2>4. disk' = d /\ durable' = durable \cup {d}
    BY <2>1 DEF ChangeDisk
  <2>5. x \in File /\ x.name.gen = gen + 1
    BY <2>2, FileType DEF NextFile, NextGeneration
  <2> HIDE DEF x, d
  <2>6. ASSUME NEW f \in Families, disk.refs[f].gen # 0
        PROVE  disk.refs[f] # x.name
    <3>1. disk.gen = gen
      BY <2>2 DEF MirrorOK
    <3>2. disk.refs[f].gen \in 1 .. gen
      BY <2>6, <3>1 DEF ViewsOK, Views, ViewOK, RefOK, NoFile
    <3> QED
      BY <1>0, <2>5, <3>2
  <2>7. x.name.gen > disk.gen
    BY <1>0, <2>2, <2>5 DEF MirrorOK
  <2> QED
    BY <2>3, <2>4, <2>5, <2>6, <2>7 DEF KeepsRecord, Named, Put
<1>7. CASE DeleteSuperseded
  <2>1. PICK e \in disk.files : e.name \in Superseded /\ ChangeDisk([disk EXCEPT !.files = @ \ {e}])
    BY <1>7 DEF DeleteSuperseded
  <2>2. IsOpen /\ Renamed
    BY <1>1, <1>7 DEF DeleteSuperseded, Renamed
  <2>3. disk.refs = NextRefs
    BY <2>2 DEF MirrorOK
  <2>4. PICK g \in Ids(inflight) : e.name = committed[g] /\ committed[g].gen # 0
    BY <2>1 DEF Superseded
  <2>5. g \in Families
    BY DEF Ids, TypeOK, DrainType, IsSnapshot, Taken
  <2>6. committed[g].gen \in 1 .. gen /\ committed[g].stem = StemOf[g]
    BY <2>2, <2>4, <2>5 DEF MirrorOK, RefOK, NoFile
  <2>7. ASSUME NEW f \in Families, NextRefs[f].gen # 0
        PROVE  NextRefs[f] # e.name
    <3>1. CASE f \in Ids(inflight)
      BY <1>0, <2>4, <2>6, <3>1 DEF NextRefs, NewRef, NextGeneration
    <3>2. CASE f \notin Ids(inflight)
      <4>1. NextRefs[f] = committed[f] /\ f # g
        BY <2>4, <3>2 DEF NextRefs
      <4>2. committed[f].stem = StemOf[f]
        BY <2>2, <2>7, <4>1 DEF MirrorOK, RefOK, NoFile
      <4> QED
        BY <2>4, <2>5, <2>6, <4>1, <4>2 DEF StemsDistinct
    <3> QED
      BY <3>1, <3>2
  <2> QED
    BY <1>2, <2>1, <2>3, <2>7
<1> QED
  BY <1>4, <1>5, <1>6, <1>7

\* Such a change keeps every directory in order.
LEMMA RecordKeptViews ==
  ASSUME StoreInv, KeepsRecord
  PROVE  ViewsOK'
<1> USE DEF StoreInv
<1>1. \A f \in Families : disk.refs[f].gen # 0 => Committed(disk', f) = Committed(disk, f)
  BY DEF KeepsRecord, Named, Committed
<1>2. ViewOK(disk')
  BY <1>1 DEF ViewsOK, Views, ViewOK, KeepsRecord
<1>3. disk.gen <= disk'.gen /\ disk'.gen \in Nat /\ ChangeDisk(disk')
  BY DEF KeepsRecord, ChangeDisk, TypeOK, DiskType, Slot
<1> QED
  BY <1>2, <1>3, ViewsStep

\* What a directory holds for a family is the one file of the committed name.
LEMMA SavedFile ==
  ASSUME NEW d, NEW f \in Families, NEW x \in Committed(d, f),
         \A y, z \in d.files : y.name = z.name => y = z
  PROVE  Saved(d)[f] = x.val
<1>1. \A y \in Committed(d, f) : y = x
  BY DEF Committed
<1> QED
  BY <1>1 DEF Saved

\* Two directories whose committed files for a family are the same load the same.
LEMMA SavedSame ==
  ASSUME NEW d, NEW e, NEW f \in Families, d.refs[f] = e.refs[f],
         d.refs[f].gen # 0 => Named(d, d.refs[f]) = Named(e, d.refs[f])
  PROVE  Saved(d)[f] = Saved(e)[f]
<1>1. Committed(d, f) = Committed(e, f)
  BY DEF Committed, Named
<1> QED
  BY <1>1 DEF Saved

\* So a change that keeps the record keeps what the disk holds.
LEMMA RecordKeptSaved ==
  ASSUME KeepsRecord
  PROVE  \A f \in Families : Saved(disk')[f] = Saved(disk)[f]
<1> SUFFICES ASSUME NEW f \in Families PROVE Saved(disk')[f] = Saved(disk)[f]
  OBVIOUS
<1>1. disk'.refs = disk.refs
  BY DEF KeepsRecord
<1>2. disk.refs[f].gen # 0 => Named(disk', disk.refs[f]) = Named(disk, disk.refs[f])
  BY DEF KeepsRecord
<1> QED
  BY <1>1, <1>2, SavedSame

\* The drain's bookkeeping stays put while its snapshot, the generation and the
\* committed files do.
LEMMA DrainUnchanged ==
  ASSUME UNCHANGED <<inflight, todo, dpc, gen, committed, disk>>, MirrorOK, WrittenOK,
         IsOpen' => IsOpen
  PROVE  MirrorOK' /\ WrittenOK'
BY DEF MirrorOK, WrittenOK, Renamed, NextRefs, NewRef, NextGeneration, WholeFile, NextFile, RefOK

\* Opening, registering and changing tables keep the invariant.
LEMMA TableInv ==
  ASSUME StoreInv, RegistersFirst,
         Open \/ Opened \/ (\E f \in Families : RegisterFamily(f) \/ Write(f)) \/ EraseAll
  PROVE  ViewsOK' /\ StemsOK' /\ MirrorOK' /\ WrittenOK' /\ DrainOK'
<1> USE DEF StoreInv
<1>0. ViewsOK'
  BY ViewsUnchanged DEF Open, Opened, RegisterFamily, Write, EraseAll, ChangeTables
<1>1. CASE Open
  <2>1. DrainOK' /\ WrittenOK'
    BY <1>1 DEF Open, DrainOK, WrittenOK, drainVars
  <2>2. ~Renamed'
    BY <1>1 DEF Open, DrainOK, drainVars, Renamed
  <2>3. \A f \in Families : RefOK(f, disk.refs[f], disk.gen)
    BY DEF ViewsOK, Views, ViewOK
  <2>4. MirrorOK'
    BY <1>1, <2>2, <2>3 DEF Open, MirrorOK, IsOpen, diskVars, RefOK
  <2>5. ASSUME NEW f \in Families, Readable(disk)
        PROVE  /\ stem'[f] \in {NoStem, StemOf[f]}
               /\ table'[f] # 0 => stem'[f] = StemOf[f]
    <3>1. stem'[f] = disk.refs[f].stem
      BY <1>1, <2>5 DEF Open
    <3>2. table'[f] # 0 => disk.refs[f].gen # 0
      BY <1>1, <2>5 DEF Open, Saved, Committed
    <3> QED
      BY <2>3, <3>1, <3>2 DEF RefOK, NoFile
  <2>6. dirty' = {} /\ failed' = {} /\ Snaps' = {}
    BY <1>1 DEF Open, StemsOK, IsOpen, Snaps, drainVars
  <2>7. StemsOK'
    BY <1>1, <2>5, <2>6 DEF Open, StemsOK, IsOpen
  <2> QED
    BY <1>0, <2>1, <2>4, <2>7
<1>2. CASE Opened
  <2>1. MirrorOK' /\ WrittenOK'
    BY <1>2, DrainUnchanged DEF Opened, IsOpen, diskVars, writerVars, drainVars
  <2> QED
    BY <1>0, <1>2, <2>1
    DEF Opened, StemsOK, DrainOK, IsOpen, Snaps, appVars, writerVars, drainVars
<1>3. ASSUME NEW f \in Families, RegisterFamily(f)
      PROVE  StemsOK' /\ MirrorOK' /\ WrittenOK' /\ DrainOK'
  <2>1. MirrorOK' /\ WrittenOK'
    BY <1>3, DrainUnchanged DEF RegisterFamily, IsOpen, diskVars, callVars, writerVars, drainVars
  <2>2. \A g \in Families : stem'[g] = IF g = f /\ stem[g] = NoStem THEN StemOf[g] ELSE stem[g]
    BY <1>3 DEF RegisterFamily, TypeOK, AppType
  <2>3. dirty \cup failed \subseteq Families /\ \A s \in Snaps : s.id \in Families
    BY DEF TypeOK, AppType, WriterType, CallType, DrainType, IsSnapshot, Snaps, Taken
  <2>4. StemsOK'
    BY <1>3, <2>2, <2>3, StemAssumption
    DEF RegisterFamily, StemsOK, IsOpen, Snaps, callVars, writerVars, drainVars
  <2> QED
    BY <1>3, <2>1, <2>4 DEF RegisterFamily, DrainOK, callVars, writerVars, drainVars
<1>4. ASSUME NEW S \in SUBSET Families, ChangeTables(S), \A f \in S : stem[f] = StemOf[f]
      PROVE  StemsOK' /\ MirrorOK' /\ WrittenOK' /\ DrainOK'
  <2>1. MirrorOK' /\ WrittenOK'
    BY <1>4, DrainUnchanged DEF ChangeTables, IsOpen, diskVars, callVars, writerVars, drainVars
  <2> QED
    BY <1>4, <2>1
    DEF ChangeTables, StemsOK, DrainOK, IsOpen, Snaps, callVars, writerVars, drainVars
<1>5. ASSUME NEW f \in Families, Write(f)
      PROVE  StemsOK' /\ MirrorOK' /\ WrittenOK' /\ DrainOK'
  <2>1. stem[f] = StemOf[f]
    BY <1>5 DEF Write, StemsOK
  <2> QED
    BY <1>4, <1>5, <2>1 DEF Write
<1>6. CASE EraseAll
  <2>1. PICK S \in SUBSET {f \in Families : table[f] # 0} : ChangeTables(S)
    BY <1>6 DEF EraseAll
  <2>2. \A f \in S : stem[f] = StemOf[f]
    BY <2>1 DEF ChangeTables, IsOpen, StemsOK
  <2> QED
    BY <1>0, <1>4, <2>1, <2>2
<1> QED
  BY <1>0, <1>1, <1>2, <1>3, <1>5, <1>6

\* The calls of the store's thread keep the invariant.
LEMMA CallInv ==
  ASSUME StoreInv, Flush \/ TakeAll \/ Submitting \/ StartWait \/ Waited \/ DrainInline \/ StartJob
  PROVE  ViewsOK' /\ StemsOK' /\ MirrorOK' /\ WrittenOK' /\ DrainOK'
<1> USE DEF StoreInv, diskVars, appVars, callVars, writerVars, drainVars
<1>0. ViewsOK'
  BY ViewsUnchanged
  DEF Flush, TakeAll, Submitting, CheckIdle, Join, HandOff, Spawn, StartWait, Waited, DrainInline,
      StartJob
<1>1. ASSUME NEW taken \in SUBSET Marked, RedirtyAndTake(taken), IsOpen, IsOpen',
             pc' \notin {"closed", "refused", "sweep"},
             UNCHANGED <<disk, table, stem, current, next, inflight, todo, dpc, gen, committed,
                         busy, drainer>>
      PROVE  StemsOK' /\ MirrorOK' /\ WrittenOK' /\ DrainOK'
  <2>1. MirrorOK' /\ WrittenOK'
    BY <1>1, DrainUnchanged
  <2>2. \A s \in handed' : s.stem = StemOf[s.id] /\ stem[s.id] = StemOf[s.id]
    BY <1>1 DEF RedirtyAndTake, Marked, StemsOK
  <2>3. dirty' \cup failed' \subseteq Marked
    BY <1>1 DEF RedirtyAndTake
  <2> QED
    BY <1>1, <2>1, <2>2, <2>3 DEF StemsOK, DrainOK, Snaps, IsOpen, Marked
<1>2. CASE Flush
  <2>1. PICK late \in SUBSET Lazy : RedirtyAndTake(Marked \cap (DueNow \cup late))
    BY <1>2 DEF Flush
  <2>2. pc' \in {"idle", "check", "handoff"}
    BY <1>2 DEF Flush, Submit
  <2> QED
    BY <1>0, <1>1, <1>2, <2>1, <2>2 DEF Flush, IsOpen
<1>3. CASE TakeAll
  <2>1. pc' \in {"idle", "check", "handoff"}
    BY <1>3 DEF TakeAll, Submit
  <2> QED
    BY <1>0, <1>1, <1>3, <2>1 DEF TakeAll, IsOpen
<1>4. ASSUME IsOpen, IsOpen', pc' # "sweep",
             \A f \in (dirty \cup failed)' : f \in dirty \cup failed,
             \A s \in Snaps' : s \in Snaps,
             UNCHANGED <<disk, table, stem, inflight, todo, dpc, gen, committed, drainer>>
      PROVE  StemsOK' /\ MirrorOK' /\ WrittenOK' /\ DrainOK'
  <2>1. MirrorOK' /\ WrittenOK'
    BY <1>4, DrainUnchanged
  <2> QED
    BY <1>4, <2>1 DEF StemsOK, DrainOK, IsOpen
<1>5. CASE CheckIdle \/ Join \/ Spawn \/ StartWait
  BY <1>0, <1>4, <1>5
  DEF CheckIdle, Join, Spawn, StartWait, AfterSubmit, IsOpen, Snaps
<1>6. CASE HandOff
  <2>1. MergeNewer(next, handed) \subseteq next \cup handed
    BY OverlayFrom DEF MergeNewer
  <2>2. \A s \in Snaps' : s \in Snaps
    BY <1>6, <2>1 DEF HandOff, Snaps
  <2> QED
    BY <1>0, <1>4, <1>6, <2>2 DEF HandOff, AfterSubmit, IsOpen
<1>7. CASE Waited
  BY <1>0, <1>4, <1>7 DEF Waited, IsOpen, Snaps
<1>8. ASSUME NEW thread \in {"job", "app"}, Claim(thread), IsOpen, IsOpen', pc' # "sweep",
             drainer = "none", UNCHANGED <<disk, table, stem, dirty, handed>>
      PROVE  StemsOK' /\ MirrorOK' /\ WrittenOK' /\ DrainOK'
  <2>1. dpc = "idle" /\ dpc' = "files" /\ inflight' = current /\ todo' = current /\ current' = {}
    BY <1>8 DEF DrainOK, Claim, Take
  <2>2. StemsOK'
    BY <1>8, <2>1 DEF StemsOK, Snaps, Claim, IsOpen
  <2>3. MirrorOK'
    BY <1>8, <2>1 DEF MirrorOK, Renamed, Claim, RefOK
  <2>4. WrittenOK'
    BY <2>1 DEF WrittenOK
  <2>5. DrainOK'
    BY <1>8, <2>1 DEF DrainOK, Claim, IsOpen
  <2> QED
    BY <2>2, <2>3, <2>4, <2>5
<1>9. CASE DrainInline
  BY <1>0, <1>8, <1>9 DEF DrainInline, IsOpen
<1>10. CASE StartJob
  <2>1. CASE busy /\ drainer = "none"
    <3>1. IsOpen /\ pc # "sweep"
      BY <2>1 DEF DrainOK, IsOpen
    <3> QED
      BY <1>0, <1>8, <1>10, <2>1, <3>1 DEF StartJob, IsOpen
  <2>2. CASE ~(busy /\ drainer = "none")
    <3>1. MirrorOK' /\ WrittenOK'
      BY <1>10, <2>2, DrainUnchanged DEF StartJob, IsOpen
    <3> QED
      BY <1>0, <1>10, <2>2, <3>1 DEF StartJob, StemsOK, DrainOK, Snaps, IsOpen
  <2> QED
    BY <2>1, <2>2
<1> QED
  BY <1>2, <1>3, <1>5, <1>6, <1>7, <1>9, <1>10 DEF Submitting

\* The drain and the sweep keep the invariant.
LEMMA DrainInv ==
  ASSUME StoreInv, StemsDistinct, Sweep \/ Draining
  PROVE  ViewsOK' /\ StemsOK' /\ MirrorOK' /\ WrittenOK' /\ DrainOK'
<1> USE DEF StoreInv, diskVars, appVars, callVars, writerVars, drainVars, DrainLeaves
<1>0. /\ disk \in Slot /\ gen \in Nat /\ committed \in Refs
      /\ disk.gen \in Nat /\ disk.refs \in Refs /\ disk.files \subseteq File
  BY DEF TypeOK, DiskType, WriterType, Slot
<1>1. dpc # "idle" => IsOpen
  BY DEF DrainOK, IsOpen
<1>2. Sweep \/ OpenFile \/ SyncFile \/ WriteTemp \/ DeleteSuperseded => ViewsOK'
  BY RecordKept, RecordKeptViews
<1>3. CASE Sweep
  <2>1. IsOpen /\ ~Renamed /\ dpc = "idle"
    BY <1>3 DEF Sweep, IsOpen, DrainOK, Renamed
  <2>3. ViewsOK'
    BY <1>2, <1>3
  <2>4. disk'.gen = disk.gen /\ disk'.refs = disk.refs
    BY <1>0, <1>3 DEF Sweep, ChangeDisk, Slot
  <2>5. StemsOK' /\ DrainOK'
    BY <1>3 DEF Sweep, StemsOK, DrainOK, Snaps, IsOpen
  <2>6. MirrorOK' /\ WrittenOK'
    BY <1>3, <2>1, <2>4 DEF Sweep, MirrorOK, WrittenOK, Renamed, IsOpen, RefOK
  <2> QED
    BY <2>3, <2>5, <2>6
<1>4. ASSUME Draining, UNCHANGED <<stem, table, dirty, failed, handed, current, next, inflight, pc,
                                   busy, drainer>>
      PROVE  StemsOK' /\ DrainOK'
  <2>1. dpc # "idle"
    BY <1>4 DEF Draining, WriteSteps, OpenFile, SyncFile, WriteTemp, Rename, FailWrite,
                SyncDirectory, DeleteSuperseded, Settle
  <2> QED
    BY <1>4, <2>1 DEF StemsOK, DrainOK, Snaps, IsOpen
<1>5. CASE OpenFile \/ SyncFile
  <2>1. PICK s \in todo, w \in BOOLEAN :
          /\ ChangeDisk([disk EXCEPT !.files = Put(@, NextFile(s, w))])
          /\ todo' = IF w THEN todo \ {s} ELSE todo
    BY <1>5 DEF OpenFile, SyncFile, TornFile, WholeFile
  <2>2. dpc = "files" /\ IsOpen /\ ~Renamed /\ s \in inflight
    BY <1>1, <1>5 DEF OpenFile, SyncFile, Renamed, TypeOK, DrainType
  <2>3. ViewsOK'
    BY <1>2, <1>5
  <2>4. StemsOK' /\ DrainOK'
    BY <1>4, <1>5 DEF OpenFile, SyncFile, Draining, WriteSteps
  <2>5. disk'.gen = disk.gen /\ disk'.refs = disk.refs /\ disk'.files = Put(disk.files, NextFile(s, w))
    BY <1>0, <2>1 DEF ChangeDisk, Slot
  <2>6. UNCHANGED <<gen, committed, inflight, dpc, pc>>
    BY <1>5 DEF OpenFile, SyncFile
  <2>7. MirrorOK'
    BY <2>2, <2>5, <2>6 DEF MirrorOK, Renamed, IsOpen, RefOK
  <2>8. ASSUME NEW t \in inflight, t \notin todo'
        PROVE  WholeFile(t)' \in disk'.files
    <3>1. WholeFile(t)' = NextFile(t, TRUE)
      BY <2>6 DEF WholeFile, NextFile, NextGeneration
    <3>2. CASE t = s
      BY <2>1, <2>5, <2>8, <3>1, <3>2 DEF Put
    <3>3. CASE t # s
      <4>1. NextFile(t, TRUE) \in disk.files
        BY <2>1, <2>2, <2>8, <3>3 DEF WrittenOK, WholeFile
      <4>2. NextFile(t, TRUE).name # NextFile(s, w).name
        BY <2>2, <3>3, NamesDiffer
      <4> QED
        BY <2>5, <3>1, <4>1, <4>2 DEF Put
    <3> QED
      BY <3>2, <3>3
  <2>9. WrittenOK'
    BY <2>2, <2>6, <2>8 DEF WrittenOK
  <2> QED
    BY <2>3, <2>4, <2>7, <2>9
<1>6. CASE WriteTemp
  <2> DEFINE d == [disk EXCEPT !.temps = @ \cup {NextGeneration}]
  <2>1. d.gen = disk.gen /\ d.refs = disk.refs /\ d.files = disk.files /\ ChangeDisk(d)
    BY <1>0, <1>6 DEF Slot, WriteTemp
  <2>2. disk' = d
    BY <1>6 DEF WriteTemp, ChangeDisk
  <2>3. dpc = "files" /\ dpc' = "rename" /\ todo = {} /\ IsOpen
    BY <1>1, <1>6 DEF WriteTemp
  <2> HIDE DEF d
  <2>4. ViewsOK'
    BY <1>2, <1>6
  <2>5. StemsOK' /\ DrainOK'
    BY <1>4, <1>6 DEF WriteTemp, Draining, WriteSteps
  <2>6. MirrorOK'
    BY <1>6, <2>1, <2>2, <2>3 DEF WriteTemp, MirrorOK, Renamed, IsOpen, RefOK
  <2>7. WrittenOK'
    BY <1>6, <2>1, <2>2, <2>3 DEF WriteTemp, WrittenOK, WholeFile, NextFile, NextGeneration
  <2> QED
    BY <2>4, <2>5, <2>6, <2>7
<1>7. CASE Rename
  <2> DEFINE d == [disk EXCEPT !.gen = NextGeneration, !.refs = NextRefs, !.temps = @ \ {NextGeneration}]
  <2>1. d.gen = gen + 1 /\ d.refs = NextRefs /\ d.files = disk.files /\ ChangeDisk(d)
    BY <1>0, <1>7 DEF Slot, Rename, NextGeneration
  <2>2. disk' = d
    BY <1>7 DEF Rename, ChangeDisk
  <2>3. dpc = "rename" /\ dpc' = "sync" /\ IsOpen /\ ~Renamed /\ Renamed' /\ todo = {}
    BY <1>1, <1>7 DEF Rename, Renamed, WrittenOK
  <2> HIDE DEF d
  <2>4. disk.gen = gen /\ disk.refs = committed
    BY <2>3 DEF MirrorOK
  <2>5. ASSUME NEW f \in Families
        PROVE  RefOK(f, NextRefs[f], gen + 1) /\ (NextRefs[f].gen # 0 => Committed(d, f) # {})
    <3>1. CASE f \in Ids(inflight)
      <4> DEFINE s == CHOOSE s \in inflight : s.id = f
      <4>1. s \in inflight /\ s.id = f
        BY <3>1 DEF Ids
      <4>2. NextRefs[f] = [stem |-> s.stem, gen |-> gen + 1]
        BY <3>1 DEF NextRefs, NewRef, NextGeneration
      <4> HIDE DEF s
      <4>3. s.stem = StemOf[f]
        BY <4>1 DEF StemsOK, Snaps
      <4>4. WholeFile(s) \in d.files
        BY <2>1, <2>3, <4>1 DEF WrittenOK
      <4>5. WholeFile(s) \in Committed(d, f)
        BY <1>0, <2>1, <4>1, <4>2, <4>4 DEF Committed, WholeFile, NextFile, NextGeneration
      <4> QED
        BY <1>0, <4>2, <4>3, <4>5 DEF RefOK
    <3>2. CASE f \notin Ids(inflight)
      <4>1. NextRefs[f] = committed[f]
        BY <3>2 DEF NextRefs
      <4>2. RefOK(f, committed[f], gen) /\ (committed[f].gen # 0 => Committed(disk, f) # {})
        BY <2>4 DEF ViewsOK, Views, ViewOK
      <4>3. committed[f].gen # 0 => Committed(d, f) # {}
        BY <2>1, <2>4, <4>1, <4>2 DEF Committed
      <4> QED
        BY <1>0, <4>1, <4>2, <4>3 DEF RefOK
    <3> QED
      BY <3>1, <3>2
  <2>6. ViewOK(d)
    BY <2>1, <2>5 DEF ViewOK
  <2>7. ViewsOK'
    BY <1>0, <2>1, <2>4, <2>6, ViewsStep
  <2>8. StemsOK' /\ DrainOK'
    BY <1>4, <1>7 DEF Rename, Draining, WriteSteps
  <2>9. NextRefs' = NextRefs /\ gen' = gen
    BY <1>7 DEF Rename, NextRefs, NewRef, NextGeneration
  <2>10. MirrorOK'
    BY <1>7, <2>1, <2>2, <2>3, <2>9 DEF Rename, MirrorOK, RefOK
  <2>11. WrittenOK'
    BY <2>3 DEF WrittenOK
  <2> QED
    BY <2>7, <2>8, <2>10, <2>11
<1>8. CASE FailWrite
  <2>1. StemsOK' /\ DrainOK'
    BY <1>4, <1>8 DEF FailWrite, Draining, WriteSteps
  <2> QED
    BY <1>8, <2>1, ViewsUnchanged DEF FailWrite, MirrorOK, Renamed, IsOpen, RefOK, WrittenOK
<1>9. CASE SyncDirectory
  <2>1. StemsOK' /\ DrainOK'
    BY <1>4, <1>9 DEF SyncDirectory, Draining
  <2>2. NextRefs' = NextRefs /\ dpc = "sync" /\ dpc' = "committed"
    BY <1>9 DEF SyncDirectory, NextRefs, NewRef, NextGeneration
  <2>3. ViewsOK'
    BY <1>0, <1>9 DEF SyncDirectory, ViewsOK, Views, ViewOK, Committed
  <2> QED
    BY <1>9, <2>1, <2>2, <2>3 DEF SyncDirectory, MirrorOK, Renamed, IsOpen, RefOK, WrittenOK
<1>10. CASE DeleteSuperseded
  <2>1. PICK e \in disk.files : e.name \in Superseded /\ ChangeDisk([disk EXCEPT !.files = @ \ {e}])
    BY <1>10 DEF DeleteSuperseded
  <2> DEFINE d == [disk EXCEPT !.files = @ \ {e}]
  <2>2. d.gen = disk.gen /\ d.refs = disk.refs /\ d.files = disk.files \ {e} /\ ChangeDisk(d)
    BY <1>0, <2>1 DEF Slot
  <2>3. disk' = d
    BY <2>1 DEF ChangeDisk
  <2> HIDE DEF d
  <2>4. IsOpen /\ dpc = "committed" /\ dpc' = dpc /\ Renamed
    BY <1>1, <1>10 DEF DeleteSuperseded, Renamed
  <2>9. ViewsOK'
    BY <1>2, <1>10
  <2>10. StemsOK' /\ DrainOK'
    BY <1>4, <1>10 DEF DeleteSuperseded, Draining
  <2>11. NextRefs' = NextRefs /\ UNCHANGED <<gen, committed, pc>>
    BY <1>10 DEF DeleteSuperseded, NextRefs, NewRef, NextGeneration
  <2> QED
    BY <2>2, <2>3, <2>4, <2>9, <2>10, <2>11 DEF MirrorOK, Renamed, IsOpen, RefOK, WrittenOK
<1>11. CASE Settle
  <2>1. /\ dpc \in {"committed", "failed"} /\ IsOpen
        /\ UNCHANGED <<disk, durable, stem, table, dirty, handed, current, pc>>
    BY <1>1, <1>11 DEF Settle
  <2>2. ViewsOK'
    BY <1>11, ViewsUnchanged DEF Settle
  <2>3. MergeOlder(next, inflight) \subseteq next \cup inflight
    BY OverlayFrom DEF MergeOlder
  <2>4. inflight' \subseteq next \cup inflight /\ todo' = inflight' /\ next' = {}
    BY <1>11, <2>3 DEF Settle, Take, GoIdle
  <2>5. \A f \in failed' : f \in failed \/ f \in Ids(inflight)
    BY <1>11 DEF Settle
  <2>6. \A f \in Ids(inflight) : stem[f] = StemOf[f]
    BY DEF Ids, StemsOK, Snaps
  <2>7. StemsOK'
    <3>1. \A f \in dirty' \cup failed' : stem'[f] = StemOf[f]
      BY <2>1, <2>5, <2>6 DEF StemsOK
    <3>2. \A s \in Snaps' : s \in Snaps
      BY <2>1, <2>4 DEF Snaps
    <3> QED
      BY <2>1, <3>1, <3>2 DEF StemsOK, IsOpen
  <2>8. dpc' \in {"files", "idle"} /\ (dpc' = "files" => drainer' = drainer)
    BY <1>11 DEF Settle, Take, GoIdle
  <2>9. DrainOK'
    BY <1>11, <2>1, <2>8 DEF DrainOK, IsOpen, Settle, Take, GoIdle
  <2>10. WrittenOK'
    BY <2>4, <2>8 DEF WrittenOK
  <2>11. disk.gen = gen' /\ disk.refs = committed'
    BY <1>11, <2>1 DEF Settle, MirrorOK, Renamed, NextGeneration
  <2>12. \A f \in Families : RefOK(f, disk.refs[f], disk.gen)
    BY DEF ViewsOK, Views, ViewOK
  <2>13. MirrorOK'
    BY <2>1, <2>8, <2>11, <2>12 DEF MirrorOK, Renamed, IsOpen
  <2> QED
    BY <2>2, <2>7, <2>9, <2>10, <2>13
<1> QED
  BY <1>3, <1>5, <1>6, <1>7, <1>8, <1>9, <1>10, <1>11 DEF Draining, WriteSteps

LEMMA InvStep ==
  ASSUME StemsDistinct, RegistersFirst
  PROVE  StoreInv /\ [Next]_vars => StoreInv'
<1> SUFFICES ASSUME StoreInv, [Next]_vars PROVE StoreInv'
  OBVIOUS
<1>1. TypeOK'
  BY TypeStep DEF StoreInv
<1>2. CASE Close \/ ProcessDeath
  <2>1. ViewsOK'
    BY <1>2, ViewsUnchanged DEF Close, ProcessDeath, StoreInv
  <2> QED
    BY <1>1, <1>2, <2>1, ForgetInv DEF Close, ProcessDeath, StoreInv
<1>3. CASE PowerLoss
  <2>1. disk' \in Views /\ Views' = {disk'}
    BY <1>3 DEF PowerLoss, Views
  <2>2. disk'.gen \in Nat
    BY <1>1 DEF TypeOK, DiskType, Slot
  <2>3. ViewsOK'
    BY <2>1, <2>2 DEF StoreInv, ViewsOK, ViewOK, Committed
  <2>4. Forget(disk')
    BY <1>3 DEF PowerLoss
  <2> QED
    BY <1>1, <2>3, <2>4, ForgetInv DEF StoreInv
<1>4. CASE UNCHANGED vars
  BY <1>1, <1>4, ViewsUnchanged, DrainUnchanged
  DEF vars, diskVars, StoreInv, StemsOK, DrainOK, Snaps, IsOpen
<1> QED
  BY <1>1, <1>2, <1>3, <1>4, TableInv, CallInv, DrainInv
  DEF Next, Powered, Opening, Calling, Waiting, StoreInv

\* A program that registers each family under a stem of its own before writing it
\* can always reopen its slot: whatever step a process dies at, whatever directory
\* a power loss leaves, the commit record is legal and every file it names is
\* whole.
THEOREM SlotAlwaysReadable ==
  ASSUME StemsDistinct, RegistersFirst
  PROVE  Spec => []AlwaysReadable
<1>1. StoreInv => AlwaysReadable
  BY ViewReadable DEF StoreInv, ViewsOK, Views, AlwaysReadable
<1> QED
  BY <1>1, InvInit, InvStep, PTL DEF Spec
-----------------------------------------------------------------------------
(* A submit never waits for the thread that has its write *)

LEMMA ThreadInit == Init => ThreadInv
BY TypeInit DEF Init, ThreadInv, DrainOK, DrainerOK, OneThread

\* A job or a wait that claims the writer is the one that may.
LEMMA ClaimThreads ==
  ASSUME ThreadInv, StartJob \/ DrainInline
  PROVE  DrainOK' /\ DrainerOK' /\ OneThread'
<1>1. jobs \in Nat
  BY DEF ThreadInv, TypeOK, CallType
<1>2. CASE StartJob
  BY <1>1, <1>2
  DEF ThreadInv, DrainOK, DrainerOK, OneThread, ThreadDone, StartJob, Claim, Take, writerVars, drainVars
<1>3. CASE DrainInline
  BY <1>3
  DEF ThreadInv, DrainOK, DrainerOK, OneThread, ThreadDone, DrainInline, Claim, Take, callVars
<1> QED
  BY <1>2, <1>3

\* A call of the store's thread hands over to a thread that is done.
LEMMA CallThreads ==
  ASSUME ThreadInv, Opening \/ Calling \/ Submitting \/ Waited \/ TakeAll
  PROVE  DrainOK' /\ DrainerOK' /\ OneThread'
<1> USE DEF ThreadInv, DrainOK, DrainerOK, OneThread, ThreadDone, appVars, callVars, writerVars, drainVars
<1>1. jobs \in Nat
  BY DEF TypeOK, CallType
<1>2. CASE Opening
  BY <1>2 DEF Opening, Open, Sweep, Opened
<1>3. CASE Calling
  BY <1>3 DEF Calling, RegisterFamily, Write, EraseAll, ChangeTables, Flush, RedirtyAndTake, Submit,
              StartWait
<1>4. CASE Submitting
  BY <1>1, <1>4 DEF Submitting, CheckIdle, Join, HandOff, Spawn, AfterSubmit
<1>5. CASE Waited \/ TakeAll
  BY <1>5 DEF Waited, TakeAll, RedirtyAndTake, Submit
<1> QED
  BY <1>2, <1>3, <1>4, <1>5

LEMMA ThreadStep == ThreadInv /\ [Next]_vars => ThreadInv'
<1> SUFFICES ASSUME ThreadInv, [Next]_vars PROVE ThreadInv'
  OBVIOUS
<1> USE DEF ThreadInv
<1>1. TypeOK'
  BY TypeStep
<1>2. CASE Draining
  <2>1. dpc # "idle" /\ UNCHANGED callVars
    BY <1>2 DEF Draining, WriteSteps, DrainLeaves, OpenFile, SyncFile, WriteTemp, Rename, FailWrite,
                SyncDirectory, DeleteSuperseded, Settle
  <2>2. UNCHANGED <<busy, drainer>> \/ (~busy' /\ drainer' = "none" /\ dpc' = "idle")
    BY <1>2 DEF Draining, WriteSteps, DrainLeaves, OpenFile, SyncFile, WriteTemp, Rename, FailWrite,
                SyncDirectory, DeleteSuperseded, Settle, Take, GoIdle, writerVars
  <2>3. drainer \in Threads
    BY DEF TypeOK, WriterType
  <2> QED
    BY <1>1, <2>1, <2>2, <2>3 DEF Threads, DrainOK, DrainerOK, OneThread, ThreadDone, callVars
<1>3. CASE Close \/ ProcessDeath \/ PowerLoss
  BY <1>1, <1>3
  DEF DrainOK, DrainerOK, OneThread, ThreadDone, Close, ProcessDeath, PowerLoss, Forget
<1>4. CASE UNCHANGED vars
  BY <1>1, <1>4 DEF DrainOK, DrainerOK, OneThread, ThreadDone, vars
<1>5. CASE StartJob \/ DrainInline
  BY <1>1, <1>5, ClaimThreads
<1>6. CASE Opening \/ Calling \/ Submitting \/ Waited \/ TakeAll
  BY <1>1, <1>6, CallThreads
<1> QED
  BY <1>2, <1>3, <1>4, <1>5, <1>6 DEF Next, Powered, Waiting

\* On the store's own thread, a submit that finds the writer idle starts a new
\* thread without waiting: the previous one was joined before the hand-over, or had
\* the write the submit then saw end, so the join never waits for a thread that may
\* have taken the write just handed over.
THEOREM SubmitNeverWaits == Spec => []JoinNeverWaits
<1>1. ThreadInv => JoinNeverWaits
  BY DEF ThreadInv, OneThread, JoinNeverWaits
<1> QED
  BY <1>1, ThreadInit, ThreadStep, PTL DEF Spec
-----------------------------------------------------------------------------
(* A committed file is never rewritten *)

\* What a step may do to the directories: nothing but forget how they were, keep the
\* commit record, commit, or lose power.
LEMMA DirectoryStep ==
  ASSUME StoreInv, StemsDistinct, [Next]_vars
  PROVE  \/ disk' = disk /\ durable' \subseteq Views
         \/ KeepsRecord
         \/ Rename
         \/ PowerLoss
<1>1. CASE Open \/ Opened \/ Calling \/ Submitting \/ Waiting \/ StartJob \/ ProcessDeath \/ UNCHANGED vars
  BY <1>1
  DEF Views, diskVars, vars, Open, Opened, Calling, RegisterFamily, Write, EraseAll, ChangeTables, Flush,
      StartWait, Submitting, CheckIdle, Join, HandOff, Spawn, Waiting, Waited, TakeAll, DrainInline,
      Close, StartJob, ProcessDeath
<1>2. CASE SyncDirectory \/ Settle \/ FailWrite
  BY <1>2 DEF SyncDirectory, Settle, FailWrite, diskVars, Views
<1>3. CASE Sweep \/ OpenFile \/ SyncFile \/ WriteTemp \/ DeleteSuperseded
  BY <1>3, RecordKept
<1> QED
  BY <1>1, <1>2, <1>3 DEF Next, Powered, Opening, Draining, WriteSteps

LEMMA NoRewrite ==
  ASSUME StoreInv, StemsDistinct, [Next]_vars,
         NEW f \in Families, disk.refs[f].gen # 0, crashes' = crashes,
         NEW e \in disk'.files, e.name = disk.refs[f]
  PROVE  e \in disk.files
<1>1. CASE KeepsRecord
  BY <1>1 DEF KeepsRecord, Named
<1>2. CASE Rename
  <2>1. disk' = [disk EXCEPT !.gen = NextGeneration, !.refs = NextRefs, !.temps = @ \ {NextGeneration}]
    BY <1>2 DEF Rename, ChangeDisk
  <2>2. disk'.files = disk.files
    BY <2>1 DEF StoreInv, TypeOK, DiskType, Slot
  <2> QED
    BY <2>2
<1>3. ~PowerLoss
  BY DEF PowerLoss, StoreInv, TypeOK
<1> QED
  BY <1>1, <1>2, <1>3, DirectoryStep

\* While the power lasts no step, of a drain writing the next generation, a sweep or
\* a removal, changes the bytes of a file the commit record names: what a reader that
\* has read the record opens is what the record meant.
THEOREM CommittedFilesStay ==
  ASSUME StemsDistinct, RegistersFirst
  PROVE  Spec => NeverRewritten
<1>1. StoreInv /\ [Next]_vars =>
        [\A f \in Families : disk.refs[f].gen # 0 /\ crashes' = crashes =>
           \A e \in disk'.files : e.name = disk.refs[f] => e \in disk.files]_vars
  BY NoRewrite
<1> QED
  BY <1>1, InvInit, InvStep, PTL DEF Spec, NeverRewritten
-----------------------------------------------------------------------------
(* What is on its way is what the program asked for *)

\* Every snapshot holds numbered tables of known families, and so does every
\* directory.
Numbered == /\ writes \in Nat
            /\ \A f \in Families : table[f] \in Nat /\ acked[f] \in Nat
            /\ \A s \in Snaps : s.id \in Families /\ s.val \in Nat
            /\ \A d \in Views : \A f \in Families : Saved(d)[f] \in Nat

LEMMA ContentNumbered == TypeOK => Numbered
<1> SUFFICES ASSUME TypeOK PROVE Numbered
  OBVIOUS
<1>1. Snaps \subseteq Taken
  BY DEF Snaps, TypeOK, CallType, WriterType, DrainType, IsSnapshot
<1>2. Views \subseteq Slot
  BY DEF Views, TypeOK, DiskType
<1>3. \A d \in Views : Saved(d) \in [Families -> Nat]
  BY <1>2, SavedType
<1> QED
  BY <1>1, <1>3 DEF Numbered, TypeOK, AppType, Taken

\* The commit puts the snapshot's tables on disk, and leaves the other families'.
LEMMA RenameSaved ==
  ASSUME StoreInv, FilesOK, Rename
  PROVE  /\ durable' = durable \cup {disk'}
         /\ disk'.refs = NextRefs /\ disk'.files = disk.files
         /\ \A s \in inflight : Saved(disk')[s.id] = s.val
         /\ \A f \in Families \ Ids(inflight) : Saved(disk')[f] = Saved(disk)[f]
<1> USE DEF StoreInv
<1>1. disk' = [disk EXCEPT !.gen = NextGeneration, !.refs = NextRefs, !.temps = @ \ {NextGeneration}]
  BY DEF Rename, ChangeDisk
<1>2. disk'.refs = NextRefs /\ disk'.files = disk.files
  BY <1>1 DEF TypeOK, DiskType, Slot
<1>3. dpc = "rename" /\ durable' = durable \cup {disk'}
  BY DEF Rename, ChangeDisk
<1>4. disk.refs = committed
  BY <1>3 DEF DrainOK, MirrorOK, IsOpen, Renamed
<1>5. ASSUME NEW s \in inflight PROVE Saved(disk')[s.id] = s.val
  <2>1. s.id \in Families /\ s.id \in Ids(inflight)
    BY DEF Ids, TypeOK, DrainType, IsSnapshot, Taken
  <2>2. (CHOOSE t \in inflight : t.id = s.id) = s
    BY DEF TypeOK, DrainType, IsSnapshot
  <2>3. NextRefs[s.id] = [stem |-> s.stem, gen |-> gen + 1] /\ gen + 1 # 0
    BY <2>1, <2>2 DEF NextRefs, NewRef, NextGeneration, TypeOK, WriterType
  <2>4. WholeFile(s) \in disk'.files
    BY <1>2, <1>3 DEF WrittenOK
  <2>5. WholeFile(s) \in Committed(disk', s.id) /\ WholeFile(s).val = s.val
    BY <1>2, <2>3, <2>4 DEF Committed, WholeFile, NextFile, NextGeneration
  <2>6. \A y, z \in disk'.files : y.name = z.name => y = z
    BY <1>2 DEF FilesOK, Views
  <2> HIDE DEF WholeFile
  <2> QED
    BY <2>1, <2>5, <2>6, SavedFile
<1>6. ASSUME NEW f \in Families \ Ids(inflight) PROVE Saved(disk')[f] = Saved(disk)[f]
  <2>1. disk'.refs[f] = disk.refs[f]
    BY <1>2, <1>4 DEF NextRefs
  <2>2. Named(disk', disk.refs[f]) = Named(disk, disk.refs[f])
    BY <1>2 DEF Named
  <2> QED
    BY <2>1, <2>2, SavedSame
<1> QED
  BY <1>2, <1>3, <1>5, <1>6

LEMMA FilesStep ==
  ASSUME StoreInv, StemsDistinct, FilesOK, [Next]_vars
  PROVE  FilesOK'
<1> USE DEF StoreInv
<1>1. CASE (disk' = disk /\ durable' \subseteq Views) \/ PowerLoss
  <2>1. Views' \subseteq Views
    BY <1>1 DEF Views, PowerLoss
  <2> QED
    BY <2>1 DEF FilesOK
<1>2. CASE KeepsRecord
  <2>1. Views' \subseteq Views \cup {disk'} /\ disk'.refs = disk.refs /\ disk \in Views
    BY <1>2 DEF Views, KeepsRecord
  <2>2. \A f \in Families : Saved(disk')[f] = Saved(disk)[f]
    BY <1>2, RecordKeptSaved
  <2>3. \A x, y \in disk'.files : x.name = y.name => x = y
    BY <1>2, <2>1 DEF KeepsRecord, FilesOK, Put
  <2>4. ASSUME NEW d \in Views', NEW e \in Views', NEW f \in Families, d.refs[f] = e.refs[f]
        PROVE  Saved(d)[f] = Saved(e)[f]
    <3>1. \A x \in Views' : \E y \in Views : y.refs = x.refs /\ Saved(y)[f] = Saved(x)[f]
      BY <2>1, <2>2
    <3> QED
      BY <2>4, <3>1 DEF FilesOK
  <2> QED
    BY <2>1, <2>3, <2>4 DEF FilesOK
<1>3. CASE Rename
  <2>1. /\ Views' \subseteq Views \cup {disk'} /\ disk \in Views
        /\ disk'.refs = NextRefs /\ disk'.files = disk.files
        /\ \A f \in Families \ Ids(inflight) : Saved(disk')[f] = Saved(disk)[f]
    BY <1>3, RenameSaved DEF Views
  <2>2. disk.refs = committed /\ disk.gen = gen
    BY <1>3 DEF Rename, DrainOK, MirrorOK, IsOpen, Renamed
  <2>3. ASSUME NEW d \in Views, NEW f \in Families, d.refs[f] = NextRefs[f]
        PROVE  Saved(d)[f] = Saved(disk')[f]
    <3>1. CASE f \in Ids(inflight)
      <4>1. NextRefs[f].gen = gen + 1 /\ gen \in Nat
        BY <3>1 DEF NextRefs, NewRef, NextGeneration, TypeOK, WriterType
      <4>2. d.gen <= gen /\ d.gen \in Nat /\ (d.refs[f].gen = 0 \/ d.refs[f].gen \in 1 .. d.gen)
        BY <2>2 DEF ViewsOK, ViewOK, RefOK, NoFile, Views, TypeOK, DiskType, Slot
      <4> QED
        BY <2>3, <4>1, <4>2
    <3>2. CASE f \notin Ids(inflight)
      <4>1. d.refs[f] = disk.refs[f]
        BY <2>2, <2>3, <3>2 DEF NextRefs
      <4> QED
        BY <2>1, <3>2, <4>1 DEF FilesOK
    <3> QED
      BY <3>1, <3>2
  <2> QED
    BY <2>1, <2>3 DEF FilesOK
<1> QED
  BY <1>1, <1>2, <1>3, DirectoryStep

\* A step that neither commits nor loses power changes neither what the disk holds
\* nor what a power loss may leave of it.
LEMMA SavedStep ==
  ASSUME StoreInv, StemsDistinct, [Next]_vars, ~Rename, ~PowerLoss
  PROVE  /\ \A f \in Families : Saved(disk')[f] = Saved(disk)[f]
         /\ \A d \in Views' : \E e \in Views : /\ d.refs = e.refs
                                               /\ \A f \in Families : Saved(d)[f] = Saved(e)[f]
<1>1. CASE disk' = disk /\ durable' \subseteq Views
  BY <1>1 DEF Views
<1>2. CASE KeepsRecord
  <2>1. \A f \in Families : Saved(disk')[f] = Saved(disk)[f]
    BY <1>2, RecordKeptSaved
  <2>2. Views' \subseteq Views \cup {disk'} /\ disk \in Views /\ disk'.refs = disk.refs
    BY <1>2 DEF Views, KeepsRecord
  <2> QED
    BY <2>1, <2>2
<1> QED
  BY <1>1, <1>2, DirectoryStep

\* Each snapshot is in the place its stage says.
LEMMA QueueStep ==
  ASSUME ThreadInv, QueueOK, [Next]_vars
  PROVE  QueueOK'
<1> USE DEF QueueOK, ThreadInv, DrainOK, DrainerOK, appVars, callVars, writerVars, drainVars
<1>1. CASE Opening \/ Calling
  BY <1>1 DEF Opening, Open, Sweep, Opened, Calling, RegisterFamily, Write, EraseAll, ChangeTables,
              Flush, RedirtyAndTake, Submit, StartWait
<1>2. CASE Submitting
  BY <1>2 DEF Submitting, CheckIdle, Join, HandOff, Spawn
<1>3. CASE Waited \/ TakeAll
  BY <1>3 DEF Waited, TakeAll, RedirtyAndTake, Submit
<1>4. CASE StartJob \/ DrainInline
  BY <1>4 DEF StartJob, DrainInline, Claim, Take
<1>5. CASE WriteSteps \/ SyncDirectory \/ DeleteSuperseded
  BY <1>5 DEF WriteSteps, OpenFile, SyncFile, WriteTemp, Rename, FailWrite, SyncDirectory,
              DeleteSuperseded, DrainLeaves
<1>6. CASE Settle
  BY <1>6 DEF Settle, Take, GoIdle
<1>7. CASE Close \/ ProcessDeath \/ PowerLoss
  BY <1>7 DEF Close, ProcessDeath, PowerLoss, Forget
<1>8. CASE UNCHANGED vars
  BY <1>8 DEF vars
<1> QED
  BY <1>1, <1>2, <1>3, <1>4, <1>5, <1>6, <1>7, <1>8 DEF Next, Powered, Waiting, Draining

\* Only a flush takes tables, only the program changes them, and only a drain or an
\* end of the process drops a snapshot.
LEMMA SnapsStep ==
  ASSUME StoreInv, ThreadInv, QueueOK, [Next]_vars
  PROVE  \/ Snaps' \subseteq Snaps
         \/ /\ UNCHANGED <<table, stem, inflight, current, next>>
            /\ \A s \in handed' : s.val = table[s.id] /\ s.stem = stem[s.id]
<1> USE DEF Snaps, StoreInv, ThreadInv, QueueOK, appVars, callVars, writerVars, drainVars
<1>1. CASE Flush \/ TakeAll
  BY <1>1 DEF Flush, TakeAll, RedirtyAndTake
<1>2. CASE HandOff
  BY <1>2, OverlayFrom DEF HandOff, MergeNewer
<1>3. CASE Settle
  BY <1>3, OverlayFrom DEF Settle, Take, GoIdle, MergeOlder
<1>4. CASE StartJob \/ DrainInline
  BY <1>4 DEF StartJob, DrainInline, Claim, Take
<1>5. CASE Opening
  BY <1>5 DEF Opening, Open, Sweep, Opened
<1>6. CASE (\E f \in Families : RegisterFamily(f) \/ Write(f)) \/ EraseAll \/ StartWait
  BY <1>6 DEF RegisterFamily, Write, EraseAll, ChangeTables, StartWait
<1>7. CASE CheckIdle \/ Join \/ Spawn \/ Waited
  BY <1>7 DEF CheckIdle, Join, Spawn, Waited
<1>8. CASE WriteSteps \/ SyncDirectory \/ DeleteSuperseded
  BY <1>8 DEF WriteSteps, OpenFile, SyncFile, WriteTemp, Rename, FailWrite, SyncDirectory,
              DeleteSuperseded, DrainLeaves
<1>9. CASE Close \/ ProcessDeath \/ PowerLoss
  BY <1>9 DEF Close, ProcessDeath, PowerLoss, Forget
<1>10. CASE UNCHANGED vars
  BY <1>10 DEF vars
<1> QED
  BY <1>1, <1>2, <1>3, <1>4, <1>5, <1>6, <1>7, <1>8, <1>9, <1>10
  DEF Next, Powered, Calling, Submitting, Waiting, Draining

\* The program's tables only grow while the store is open, and start from the disk's.
LEMMA TableStep ==
  ASSUME StoreInv, FilesOK, OrderOK, [Next]_vars, StemsDistinct
  PROVE  \/ UNCHANGED <<table, writes>>
         \/ /\ writes' = writes + 1 /\ UNCHANGED <<disk, durable, inflight, current, next, handed>>
            /\ pc = "idle"
            /\ \A f \in Families : table'[f] \in {table[f], writes + 1}
         \/ /\ writes' = writes /\ Snaps' = {} /\ disk' \in Views
            /\ \A f \in Families : table'[f] = Saved(disk')[f]
<1> USE DEF appVars, callVars, writerVars, drainVars
<1>1. CASE Opened \/ Sweep \/ (\E f \in Families : RegisterFamily(f)) \/ Flush \/ StartWait \/ Submitting
  BY <1>1 DEF Opened, Sweep, RegisterFamily, Flush, RedirtyAndTake, StartWait, Submitting, CheckIdle,
              Join, HandOff, Spawn
<1>2. CASE Waited \/ TakeAll \/ DrainInline \/ StartJob
  BY <1>2 DEF Waited, TakeAll, RedirtyAndTake, DrainInline, StartJob
<1>3. CASE Draining
  BY <1>3 DEF Draining, WriteSteps, OpenFile, SyncFile, WriteTemp, Rename, FailWrite, SyncDirectory,
              DeleteSuperseded, Settle, DrainLeaves
<1>4. ASSUME NEW S \in SUBSET Families, ChangeTables(S)
      PROVE  /\ writes' = writes + 1 /\ UNCHANGED <<disk, durable, inflight, current, next, handed>>
             /\ pc = "idle"
             /\ \A f \in Families : table'[f] \in {table[f], writes + 1}
  BY <1>4 DEF ChangeTables, diskVars
<1>5. CASE Open
  BY <1>5 DEF Open, StoreInv, StemsOK, IsOpen, Snaps, diskVars, Views
<1>6. CASE Close \/ ProcessDeath \/ PowerLoss
  BY <1>6 DEF Close, ProcessDeath, PowerLoss, Forget, Snaps, diskVars, Views
<1>7. CASE UNCHANGED vars
  BY <1>7 DEF vars
<1> QED
  BY <1>1, <1>2, <1>3, <1>4, <1>5, <1>6, <1>7
  DEF Next, Powered, Opening, Calling, Waiting, Write, EraseAll

\* A commit moves every table forward, no further than the program's.
LEMMA RenameOrder ==
  ASSUME StoreInv, FilesOK, OrderOK, Rename, NEW f \in Families
  PROVE  Saved(disk)[f] <= Saved(disk')[f] /\ Saved(disk')[f] <= table[f]
<1>1. CASE f \in Ids(inflight)
  <2>1. PICK s \in inflight : s.id = f
    BY <1>1 DEF Ids
  <2>2. Saved(disk')[f] = s.val
    BY <2>1, RenameSaved
  <2> QED
    BY <2>1, <2>2 DEF OrderOK, Snaps
<1>2. CASE f \notin Ids(inflight)
  <2>1. Saved(disk')[f] = Saved(disk)[f]
    BY <1>2, RenameSaved
  <2>2. Saved(disk)[f] \in Nat
    BY ContentNumbered DEF StoreInv, Numbered, Views
  <2> QED
    BY <2>1, <2>2 DEF OrderOK
<1> QED
  BY <1>1, <1>2

\* The order of the tables from the disk to the program.
LEMMA OrderStep ==
  ASSUME StoreInv, ThreadInv, QueueOK, FilesOK, OrderOK, ExactOK, StemsDistinct, [Next]_vars
  PROVE  OrderOK'
<1> USE DEF StoreInv, ThreadInv
<1>0. Numbered /\ disk \in Views /\ disk' \in Views'
  BY ContentNumbered DEF Views
<1>1. Numbered'
  BY TypeStep, ContentNumbered, PTL
<1>2. CASE Rename
  <2>1. /\ durable' = durable \cup {disk'}
        /\ \A s \in inflight : Saved(disk')[s.id] = s.val
        /\ \A f \in Families \ Ids(inflight) : Saved(disk')[f] = Saved(disk)[f]
    BY <1>2, RenameSaved
  <2>2. /\ UNCHANGED <<table, writes, inflight, current, next, handed>>
        /\ current = {}
    BY <1>2 DEF Rename, DrainLeaves, appVars, callVars, writerVars, QueueOK, DrainOK
  <2>3. \A f \in Families : Saved(disk)[f] <= Saved(disk')[f] /\ Saved(disk')[f] <= table[f]
    BY <1>2, RenameOrder
  <2>4. \A s \in Snaps : Saved(disk')[s.id] <= s.val
    <3>1. ASSUME NEW s \in Snaps, s.id \in Ids(inflight)
          PROVE  Saved(disk')[s.id] <= s.val
      <4>1. PICK t \in inflight : t.id = s.id
        BY <3>1 DEF Ids
      <4>2. Saved(disk')[s.id] = t.val /\ t.val \in Nat /\ t.val <= table[s.id]
        BY <1>0, <2>1, <4>1 DEF Numbered, Snaps, OrderOK
      <4>3. CASE s \in inflight
        BY <1>0, <2>1, <3>1, <4>3 DEF Numbered
      <4>4. CASE s \in next
        BY <4>1, <4>2, <4>4 DEF OrderOK
      <4>5. CASE s \in handed
        BY <4>2, <4>5 DEF ExactOK
      <4> QED
        BY <2>2, <4>3, <4>4, <4>5 DEF Snaps
    <3> QED
      BY <1>0, <2>1, <3>1 DEF OrderOK, Numbered
  <2>5. \A d \in Views' : \A f \in Families : Saved(d)[f] <= Saved(disk')[f]
    <3> SUFFICES ASSUME NEW d \in Views', NEW f \in Families PROVE Saved(d)[f] <= Saved(disk')[f]
      OBVIOUS
    <3>1. CASE d \in Views
      BY <1>0, <1>1, <2>3, <3>1 DEF OrderOK, Numbered
    <3>2. CASE d = disk'
      BY <1>1, <3>2 DEF Numbered
    <3> QED
      BY <2>1, <3>1, <3>2 DEF Views
  <2> QED
    BY <2>2, <2>3, <2>4, <2>5 DEF OrderOK, Snaps
<1>3. ASSUME ~Rename
      PROVE  /\ \A d \in Views' : \A f \in Families : Saved(d)[f] <= Saved(disk')[f]
             /\ PowerLoss \/ \A f \in Families : Saved(disk')[f] = Saved(disk)[f]
  <2>1. CASE PowerLoss
    <3>1. Views' = {disk'}
      BY <2>1 DEF PowerLoss, Views
    <3> QED
      BY <1>1, <2>1, <3>1 DEF Numbered
  <2>2. CASE ~PowerLoss
    BY <1>3, <2>2, SavedStep DEF OrderOK
  <2> QED
    BY <2>1, <2>2
<1>4. ASSUME ~Rename
      PROVE  /\ \A f \in Families : Saved(disk')[f] <= table'[f] /\ table'[f] <= writes'
             /\ \A s \in Snaps' : Saved(disk')[s.id] <= s.val /\ s.val <= table'[s.id]
  <2>1. CASE UNCHANGED <<table, writes>> /\ ~PowerLoss
    <3>1. Snaps' \subseteq Snaps \/ (\A s \in Snaps' : s \in Snaps \/ s.val = table[s.id])
      BY SnapsStep DEF Snaps
    <3> QED
      BY <1>1, <1>3, <1>4, <2>1, <3>1 DEF OrderOK, Numbered
  <2>2. CASE /\ writes' = writes + 1 /\ UNCHANGED <<disk, durable, inflight, current, next, handed>>
             /\ \A f \in Families : table'[f] \in {table[f], writes + 1}
    <3>1. Snaps' = Snaps /\ disk' = disk
      BY <2>2 DEF Snaps
    <3> QED
      BY <1>0, <1>1, <2>2, <3>1 DEF OrderOK, Numbered
  <2>3. CASE /\ writes' = writes /\ Snaps' = {} /\ disk' \in Views
             /\ \A f \in Families : table'[f] = Saved(disk')[f]
    BY <1>0, <1>1, <2>3 DEF OrderOK, Numbered
  <2>4. PowerLoss => /\ Snaps' = {} /\ disk' \in Views /\ writes' = writes
                     /\ \A f \in Families : table'[f] = Saved(disk')[f]
    BY DEF PowerLoss, Forget, Snaps, Views
  <2> QED
    BY <2>1, <2>2, <2>3, <2>4, TableStep
<1>5. ASSUME ~Rename, NEW s \in (inflight \cup current)', NEW t \in next', s.id = t.id
      PROVE  s.val <= t.val
  <2>1. CASE HandOff
    <3>1. busy /\ next' = MergeNewer(next, handed) /\ s \in inflight \cup current
      BY <1>5, <2>1 DEF HandOff, QueueOK, drainVars
    <3>2. CASE t \in next
      BY <1>5, <3>1, <3>2 DEF OrderOK
    <3>3. CASE t \in handed
      BY <1>5, <3>1, <3>3 DEF OrderOK, ExactOK, Snaps
    <3> QED
      BY <3>1, <3>2, <3>3, OverlayFrom DEF MergeNewer
  <2>2. CASE StartJob \/ DrainInline
    <3>1. s \in inflight \cup current /\ t \in next
      BY <1>5, <2>2 DEF StartJob, DrainInline, Claim, Take, writerVars, drainVars
    <3> QED
      BY <1>5, <3>1 DEF OrderOK
  <2>3. CASE Settle \/ Close \/ ProcessDeath \/ PowerLoss
    BY <1>5, <2>3 DEF Settle, Close, ProcessDeath, PowerLoss, Forget
  <2>4. CASE UNCHANGED <<inflight, current, next>>
    BY <1>5, <2>4 DEF OrderOK
  <2>5. \/ HandOff \/ StartJob \/ DrainInline \/ Settle \/ Close \/ ProcessDeath \/ PowerLoss
        \/ UNCHANGED <<inflight, current, next>>
    BY DEF Next, Powered, Opening, Open, Sweep, Opened, Calling, RegisterFamily, Write, EraseAll,
           ChangeTables, Flush, StartWait, Submitting, CheckIdle, Join, Spawn, Waiting, Waited,
           TakeAll, Draining, WriteSteps, OpenFile, SyncFile, WriteTemp, Rename, FailWrite,
           SyncDirectory, DeleteSuperseded, DrainLeaves, vars, appVars, callVars, writerVars, drainVars
  <2> QED
    BY <2>1, <2>2, <2>3, <2>4, <2>5
<1> QED
  BY <1>2, <1>3, <1>4, <1>5 DEF OrderOK

LEMMA SavedEqual ==
  ASSUME NEW d, NEW e, \A f \in Families : Saved(d)[f] = Saved(e)[f]
  PROVE  Saved(d) = Saved(e)
<1>1. Saved(d) = [f \in Families |-> Saved(d)[f]] /\ Saved(e) = [f \in Families |-> Saved(e)[f]]
  BY DEF Saved
<1> QED
  BY <1>1

\* The snapshots at the two ends, and the table of a store that is opening.
LEMMA ExactStep ==
  ASSUME StoreInv, ThreadInv, QueueOK, FilesOK, ExactOK, StemsDistinct, [Next]_vars
  PROVE  ExactOK'
<1> USE DEF StoreInv, ThreadInv
<1>1. \A s \in handed' : s.val = table'[s.id] /\ s.stem = stem'[s.id]
  <2>1. CASE Open \/ (\E f \in Families : RegisterFamily(f) \/ Write(f)) \/ EraseAll
    BY <2>1 DEF QueueOK, Open, RegisterFamily, Write, EraseAll, ChangeTables, callVars
  <2>2. CASE Flush \/ TakeAll
    BY <2>2 DEF Flush, TakeAll, RedirtyAndTake
  <2>3. CASE Close \/ ProcessDeath \/ PowerLoss
    BY <2>3 DEF Close, ProcessDeath, PowerLoss, Forget
  <2>4. CASE UNCHANGED <<table, stem>> /\ handed' \in {{}, handed}
    BY <2>4 DEF ExactOK
  <2>5. CASE Sweep \/ Opened \/ StartWait \/ Submitting \/ Waited \/ DrainInline \/ StartJob
    BY <2>4, <2>5 DEF Sweep, Opened, StartWait, Submitting, CheckIdle, Join, HandOff, Spawn, Waited,
                      DrainInline, StartJob, appVars, callVars
  <2>6. CASE Draining \/ UNCHANGED vars
    BY <2>4, <2>6 DEF Draining, WriteSteps, OpenFile, SyncFile, WriteTemp, Rename, FailWrite,
                      SyncDirectory, DeleteSuperseded, Settle, DrainLeaves, vars, appVars, callVars
  <2> QED
    BY <2>1, <2>2, <2>3, <2>5, <2>6 DEF Next, Powered, Opening, Calling, Waiting
<1>2. ASSUME Renamed', NEW s \in inflight'
      PROVE  Saved(disk')[s.id] = s.val
  <2>1. CASE Rename
    BY <1>2, <2>1, RenameSaved DEF Rename
  <2>2. CASE ~Rename
    <3>1. Renamed /\ inflight' = inflight /\ ~PowerLoss
      BY <1>2, <2>2
      DEF Renamed, Next, Powered, Opening, Open, Sweep, Opened, Calling, RegisterFamily, Write, EraseAll,
          ChangeTables, Flush, StartWait, Submitting, CheckIdle, Join, HandOff, Spawn, Waiting, Waited,
          TakeAll, DrainInline, Close, StartJob, Claim, Take, Draining, WriteSteps, OpenFile, SyncFile,
          WriteTemp, FailWrite, SyncDirectory, DeleteSuperseded, Settle, GoIdle, DrainLeaves,
          ProcessDeath, PowerLoss, Forget, vars, drainVars
    <3>2. s.id \in Families
      BY <3>1, ContentNumbered DEF Numbered, Snaps
    <3> QED
      BY <1>2, <2>2, <3>1, <3>2, SavedStep DEF ExactOK
  <2> QED
    BY <2>1, <2>2
<1>3. ASSUME pc' \in {"closed", "sweep"} PROVE table' = Saved(disk')
  <2>1. CASE Open
    BY <1>3, <2>1 DEF Open, diskVars
  <2>2. CASE Sweep
    <3>1. ~Rename /\ ~PowerLoss
      BY <2>2 DEF Sweep, Rename, PowerLoss, DrainOK, Forget, callVars
    <3> QED
      BY <2>2, <3>1, SavedStep, SavedEqual DEF Sweep, ExactOK, appVars
  <2>3. CASE Close \/ ProcessDeath \/ PowerLoss
    BY <2>3 DEF Close, ProcessDeath, PowerLoss, Forget, diskVars
  <2>4. CASE UNCHANGED <<pc, disk, table>>
    BY <1>3, <2>4 DEF ExactOK
  <2>5. CASE Opened \/ Calling \/ Submitting \/ Waited \/ TakeAll \/ DrainInline \/ StartJob \/ UNCHANGED vars
    BY <1>3, <2>4, <2>5
    DEF Opened, Calling, RegisterFamily, Write, EraseAll, ChangeTables, Flush, Submit, StartWait,
        Submitting, CheckIdle, Join, HandOff, AfterSubmit, Spawn, Waited, TakeAll, DrainInline, StartJob,
        vars, callVars, appVars, diskVars
  <2>6. ~Draining
    BY <1>3 DEF DrainOK, Draining, WriteSteps, OpenFile, SyncFile, WriteTemp, Rename, FailWrite,
                SyncDirectory, DeleteSuperseded, Settle, DrainLeaves, callVars
  <2> QED
    BY <2>1, <2>2, <2>3, <2>5, <2>6 DEF Next, Powered, Opening, Waiting
<1> QED
  BY <1>1, <1>2, <1>3 DEF ExactOK

\* A merge takes a family's newer table, and the older one's where there is none.
LEMMA OverlayMembers ==
  ASSUME NEW a, NEW b
  PROVE  /\ Ids(Overlay(a, b)) = Ids(a) \cup Ids(b)
         /\ \A s : s \in Overlay(a, b) <=> s \in b \/ (s \in a /\ s.id \notin Ids(b))
BY DEF Overlay, Ids

\* Nothing waits for a drain but what one claims.
LEMMA QueuedWhole ==
  ASSUME ThreadInv, QueueOK
  PROVE  /\ ~busy => Queued = {}
         /\ drainer = "none" => inflight = {}
         /\ drainer # "none" => current = {}
BY DEF ThreadInv, DrainOK, DrainerOK, QueueOK, Queued, Overlay, Ids

\* Steps that leave the table, its snapshots and the disk's tables alone forget nothing.
LEMMA NothingMoved ==
  ASSUME NothingForgotten, IsOpen, \A f \in Families : f \in Marked => f \in Marked',
         UNCHANGED <<table, stem, handed, Queued>>,
         \A f \in Families \ Ids(Queued) : Saved(disk')[f] = Saved(disk)[f]
  PROVE  NothingForgotten'
BY DEF NothingForgotten, OnItsWay, IsOpen

\* Every change is committed, marked, or in the newest snapshot on its way.
LEMMA ForgottenStep ==
  ASSUME StoreInv, ThreadInv, QueueOK, FilesOK, ExactOK, StemsDistinct, NothingForgotten, [Next]_vars
  PROVE  NothingForgotten'
<1> USE DEF StoreInv, ThreadInv
<1>1. CASE Open
  <2>1. Queued = {} /\ handed = {} /\ UNCHANGED <<Queued, handed, disk>>
    BY <1>1, QueuedWhole DEF Open, DrainOK, QueueOK, Queued, drainVars, callVars, diskVars
  <2>2. IsOpen' => table' = Saved(disk')
    BY <1>1, <2>1 DEF Open, IsOpen
  <2> QED
    BY <2>1, <2>2 DEF NothingForgotten, OnItsWay, IsOpen, Ids
<1>2. CASE Close \/ ProcessDeath \/ PowerLoss
  BY <1>2 DEF Close, ProcessDeath, PowerLoss, Forget, NothingForgotten
<1>3. ASSUME NEW f \in Families, RegisterFamily(f) PROVE NothingForgotten'
  <2>1. handed = {} /\ handed' = {} /\ Queued' = Queued /\ Marked' = Marked /\ disk' = disk /\ table' = table
    BY <1>3 DEF RegisterFamily, QueueOK, callVars, drainVars, writerVars, diskVars, Queued, Marked
  <2> QED
    BY <1>3, <2>1 DEF RegisterFamily, NothingForgotten, OnItsWay, Ids
<1>4. ASSUME NEW S \in SUBSET Families, ChangeTables(S) PROVE NothingForgotten'
  <2>1. /\ handed = {} /\ handed' = {} /\ Queued' = Queued /\ Marked' = Marked \cup S /\ disk' = disk
        /\ \A f \in Families \ S : table'[f] = table[f]
        /\ pc = "idle"
    BY <1>4 DEF ChangeTables, QueueOK, callVars, drainVars, writerVars, diskVars, Queued, Marked
  <2> QED
    BY <2>1 DEF NothingForgotten, OnItsWay, Ids
<1>5. ASSUME NEW taken \in SUBSET Families, RedirtyAndTake(taken), handed = {}, IsOpen,
             UNCHANGED <<table, stem, disk, Queued>>
      PROVE  NothingForgotten'
  <2>1. \A f \in taken : \E s \in handed' : s = [id |-> f, stem |-> stem[f], val |-> table[f]]
    BY <1>5 DEF RedirtyAndTake
  <2>2. \A f \in Families \ taken : f \notin Ids(handed') /\ (f \in Marked => f \in Marked')
    BY <1>5 DEF RedirtyAndTake, Marked, Ids
  <2> QED
    BY <1>5, <2>1, <2>2 DEF NothingForgotten, OnItsWay, IsOpen, Ids
<1>6. CASE Flush \/ TakeAll
  <2>1. handed = {} /\ UNCHANGED <<table, stem, disk, Queued>> /\ IsOpen
    BY <1>6 DEF Flush, TakeAll, QueueOK, Queued, diskVars, drainVars, IsOpen
  <2>2. PICK taken \in SUBSET Marked : RedirtyAndTake(taken)
    BY <1>6 DEF Flush, TakeAll
  <2>3. Marked \subseteq Families
    BY DEF Marked, TypeOK, AppType, WriterType
  <2> QED
    BY <1>5, <2>1, <2>2, <2>3
<1>7. CASE HandOff
  <2>1. /\ UNCHANGED <<table, stem, disk, inflight, Marked>> /\ handed' = {} /\ IsOpen
    BY <1>7 DEF HandOff, Marked, IsOpen, diskVars, appVars, drainVars
  <2>2. /\ Ids(Queued') = Ids(Queued) \cup Ids(handed)
        /\ \A s \in Queued : s.id \notin Ids(handed) => s \in Queued'
        /\ handed \subseteq Queued'
    <3>1. CASE busy
      <4>1. current' = current /\ next' = Overlay(next, handed)
        BY <1>7, <3>1 DEF HandOff, MergeNewer
      <4> QED
        BY <2>1, <4>1, OverlayMembers DEF Queued
    <3>2. CASE ~busy
      <4>1. Queued = {} /\ next' = {} /\ inflight' = {} /\ current' = handed
        BY <1>7, <2>1, <3>2, QueuedWhole DEF HandOff, QueueOK, DrainerOK
      <4>2. Queued' = handed
        BY <4>1 DEF Queued, Overlay, Ids
      <4> QED
        BY <4>1, <4>2 DEF Ids
    <3> QED
      BY <3>1, <3>2
  <2> QED
    BY <2>1, <2>2 DEF NothingForgotten, OnItsWay, IsOpen, Ids
<1>8. CASE StartJob \/ DrainInline
  <2>1. /\ UNCHANGED <<table, stem, handed, disk, Marked, next>>
        /\ \/ UNCHANGED <<inflight, current>>
           \/ drainer = "none" /\ inflight' = current /\ current' = {}
    BY <1>8 DEF StartJob, DrainInline, Claim, Take, appVars, callVars, diskVars, writerVars, drainVars, Marked
  <2>2. Queued' = Queued
    BY <2>1, QueuedWhole DEF Queued, Overlay, Ids
  <2>3. IsOpen
    BY <1>8 DEF StartJob, DrainInline, DrainerOK, IsOpen, TypeOK, CallType
  <2> QED
    BY <2>1, <2>2, <2>3, NothingMoved
<1>9. CASE Rename
  <2>1. UNCHANGED <<table, stem, handed, Queued, Marked>> /\ IsOpen
    BY <1>9 DEF Rename, DrainLeaves, appVars, callVars, writerVars, Queued, Marked, IsOpen, DrainOK
  <2>2. Ids(inflight) \subseteq Ids(Queued)
    BY OverlayMembers DEF Queued
  <2>3. \A f \in Families \ Ids(inflight) : Saved(disk')[f] = Saved(disk)[f]
    BY <1>9, RenameSaved
  <2> QED
    BY <2>1, <2>2, <2>3, NothingMoved
<1>10. CASE Settle
  <2>1. UNCHANGED <<table, stem, handed, disk, dirty, current>> /\ IsOpen /\ current = {} /\ next' = {}
    BY <1>10, QueuedWhole DEF Settle, appVars, callVars, diskVars, DrainOK, IsOpen
  <2>2. Queued = Overlay(inflight, next) /\ Queued' = inflight'
    BY <2>1 DEF Queued, Overlay, Ids
  <2>3. CASE dpc = "committed"
    <3>1. inflight' = next /\ failed' = failed
      BY <1>10, <2>3 DEF Settle, Take, GoIdle
    <3>2. \A s \in inflight : Saved(disk)[s.id] = s.val
      BY <2>3 DEF ExactOK, Renamed
    <3>3. ASSUME NEW f \in Families, f \notin Ids(next), f \in Ids(inflight),
                 \E s \in Queued : s.id = f /\ s.val = table[f]
          PROVE  Saved(disk)[f] = table[f]
      BY <2>2, <3>2, <3>3, OverlayMembers DEF Ids
    <3>4. \A s \in next : s \in Queued
      BY <2>2, OverlayMembers
    <3>5. ASSUME NEW f \in Families, f \notin Marked, f \notin Ids(handed),
                 \/ \E s \in Queued : s.id = f /\ s.val = table[f]
                 \/ f \notin Ids(Queued) /\ Saved(disk)[f] = table[f]
          PROVE  \/ \E s \in next : s.id = f /\ s.val = table[f]
                 \/ f \notin Ids(next) /\ Saved(disk)[f] = table[f]
      BY <2>2, <3>3, <3>5, OverlayMembers DEF Ids
    <3> QED
      BY <2>1, <2>2, <3>1, <3>5 DEF NothingForgotten, OnItsWay, Marked, IsOpen
  <2>4. CASE dpc # "committed" /\ next # {}
    <3>1. Overlay(inflight, next) # {}
      BY <2>4, OverlayMembers DEF Ids
    <3>2. inflight' = Overlay(inflight, next) /\ failed' = failed
      BY <1>10, <2>4, <3>1 DEF Settle, Take, MergeOlder
    <3> QED
      BY <2>1, <2>2, <3>2, NothingMoved DEF Marked
  <2>5. CASE dpc # "committed" /\ next = {}
    <3>1. inflight' = {} /\ failed' = failed \cup Ids(inflight)
      BY <1>10, <2>5 DEF Settle, GoIdle
    <3>2. Queued = inflight
      BY <2>2, <2>5 DEF Overlay, Ids
    <3> QED
      BY <2>1, <2>2, <3>1, <3>2 DEF NothingForgotten, OnItsWay, Marked, IsOpen, Ids
  <2> QED
    BY <2>3, <2>4, <2>5
<1>11. CASE Sweep \/ OpenFile \/ SyncFile \/ WriteTemp \/ DeleteSuperseded
  <2>1. \A f \in Families : Saved(disk')[f] = Saved(disk)[f]
    BY <1>11, RecordKept, RecordKeptSaved
  <2>2. UNCHANGED <<table, stem, handed, Queued, Marked>> /\ IsOpen
    BY <1>11 DEF Sweep, OpenFile, SyncFile, WriteTemp, DeleteSuperseded, DrainLeaves, appVars, callVars,
                 writerVars, drainVars, Queued, Marked, IsOpen, DrainOK
  <2> QED
    BY <2>1, <2>2, NothingMoved
<1>12. CASE \/ Opened \/ StartWait \/ CheckIdle \/ Join \/ Spawn \/ Waited
            \/ FailWrite \/ SyncDirectory \/ UNCHANGED vars
  <2>1. UNCHANGED <<table, stem, handed, Queued, Marked, disk>> /\ (IsOpen' => IsOpen)
    BY <1>12 DEF Opened, StartWait, CheckIdle, Join, Spawn, Waited, FailWrite, SyncDirectory, vars,
                 DrainLeaves, appVars, callVars, writerVars, drainVars, diskVars, Queued, Marked, IsOpen
  <2>2. CASE ~IsOpen'
    BY <2>2 DEF NothingForgotten, IsOpen
  <2> QED
    BY <2>1, <2>2, NothingMoved
<1> QED
  BY <1>1, <1>2, <1>3, <1>4, <1>6, <1>7, <1>8, <1>9, <1>10, <1>11, <1>12
  DEF Next, Powered, Opening, Calling, Submitting, Waiting, Draining, WriteSteps, Write, EraseAll

\* A waited flush has the writer to itself.
LEMMA FlushStep ==
  ASSUME TypeOK, ThreadInv, QueueOK, FlushOK, DurableOK, [Next]_vars
  PROVE  FlushOK'
<1> USE DEF ThreadInv, DrainOK, DrainerOK, FlushOK, appVars, callVars, writerVars, drainVars
<1>1. CASE Opening \/ Flush \/ StartWait \/ (\E f \in Families : RegisterFamily(f))
  BY <1>1 DEF Opening, Open, Sweep, Opened, Flush, RedirtyAndTake, Submit, StartWait, RegisterFamily
<1>2. CASE (\E f \in Families : Write(f)) \/ EraseAll
  <2>1. call = "none" /\ call' = call /\ pc' = pc /\ pc = "idle"
    BY <1>2 DEF Write, EraseAll, ChangeTables
  <2> QED
    BY <2>1
<1>3. CASE Submitting
  BY <1>3 DEF Submitting, CheckIdle, Join, HandOff, Spawn, AfterSubmit
<1>4. CASE Waited
  BY <1>4 DEF Waited
<1>5. CASE TakeAll
  <2>1. (pc' = "idle" /\ call' = "none") \/ (pc' \in {"check", "handoff"} /\ call' = "FlushAndWait")
    BY <1>5 DEF TakeAll, Submit
  <2>2. dirty' = {} /\ failed' = {} /\ ~busy' /\ next' = next
    BY <1>5 DEF TakeAll, RedirtyAndTake
  <2>3. next = {}
    BY <1>5 DEF TakeAll, QueueOK
  <2> QED
    BY <2>1, <2>2, <2>3
<1>6. CASE StartJob \/ DrainInline
  BY <1>6 DEF StartJob, DrainInline, Claim, Take
<1>7. CASE WriteSteps \/ SyncDirectory \/ DeleteSuperseded
  BY <1>7 DEF WriteSteps, OpenFile, SyncFile, WriteTemp, Rename, FailWrite, SyncDirectory,
              DeleteSuperseded, DrainLeaves
<1>8. CASE Settle
  <2>1. dpc # "idle" /\ busy /\ UNCHANGED <<pc, call, dirty, loaded>> /\ next' = {} /\ IsOpen
    BY <1>8 DEF Settle, IsOpen
  <2>2. loaded <= gen /\ loaded \in Nat /\ gen \in Nat
    BY <2>1 DEF DurableOK, TypeOK, AppType, WriterType
  <2>3. ASSUME call = "FlushAndWait", pc \in {"spawn", "wait"}
        PROVE  /\ busy' => failed' = {}
               /\ ~busy' /\ result' => failed' = {} /\ gen' # loaded
    <3>1. next = {} /\ failed = {}
      BY <2>1, <2>3
    <3>2. ~busy'
      BY <1>8, <3>1 DEF Settle, GoIdle
    <3>3. CASE dpc = "committed"
      <4>1. failed' = failed /\ gen' = gen + 1
        BY <1>8, <3>3 DEF Settle, NextGeneration
      <4> QED
        BY <2>2, <3>1, <3>2, <4>1
    <3>4. CASE dpc # "committed"
      <4>1. result' = FALSE
        BY <1>8, <3>4 DEF Settle
      <4> QED
        BY <3>2, <4>1
    <3> QED
      BY <3>3, <3>4
  <2>4. call = "FlushAndWait" => pc \in {"spawn", "wait"}
    BY <2>1 DEF TypeOK, CallType
  <2> QED
    BY <2>1, <2>3, <2>4
<1>9. CASE Close \/ ProcessDeath \/ PowerLoss
  BY <1>9 DEF Close, ProcessDeath, PowerLoss, Forget
<1>10. CASE UNCHANGED vars
  BY <1>10 DEF vars
<1> QED
  BY <1>1, <1>2, <1>3, <1>4, <1>5, <1>6, <1>7, <1>8, <1>9, <1>10
  DEF Next, Powered, Calling, Waiting, Draining

\* After a commit of this session, what a power loss may leave is that commit.
LEMMA DurableStep ==
  ASSUME StoreInv, ThreadInv, FilesOK, DurableOK, StemsDistinct, [Next]_vars
  PROVE  DurableOK'
<1> USE DEF StoreInv, IsOpen
<1>0. loaded \in Nat /\ gen \in Nat
  BY DEF TypeOK, AppType, WriterType
<1>1. CASE Open
  <2>1. dpc' = "idle" /\ (IsOpen' => gen' = disk.gen /\ loaded' = disk.gen)
    BY <1>1 DEF Open, DrainOK, drainVars
  <2>2. disk.gen \in Nat
    BY DEF TypeOK, DiskType, Slot
  <2> QED
    BY <2>1, <2>2 DEF DurableOK
<1>2. CASE Close \/ ProcessDeath \/ PowerLoss
  BY <1>2 DEF Close, ProcessDeath, PowerLoss, Forget, DurableOK
<1>3. CASE Rename
  <2>1. dpc = "rename" /\ dpc' = "sync" /\ IsOpen /\ UNCHANGED <<loaded, gen, committed>>
    BY <1>3 DEF Rename, DrainOK, DrainLeaves, appVars, writerVars
  <2>2. durable' = durable \cup {disk'} /\ disk.refs = committed
    BY <1>3, <2>1, RenameSaved DEF MirrorOK, Renamed
  <2> QED
    BY <2>1, <2>2 DEF DurableOK, Views
<1>4. CASE SyncDirectory
  <2>1. /\ dpc = "sync" /\ dpc' = "committed" /\ IsOpen
        /\ UNCHANGED <<loaded, gen, committed, disk>> /\ Views' = {disk}
    BY <1>4 DEF SyncDirectory, DrainOK, DrainLeaves, appVars, writerVars, Views
  <2> QED
    BY <2>1 DEF DurableOK
<1>5. CASE Settle
  <2>1. /\ UNCHANGED <<loaded, disk, durable>> /\ IsOpen /\ dpc' \in {"files", "idle"}
        /\ IF dpc = "committed" THEN gen' = gen + 1 /\ committed' = NextRefs ELSE UNCHANGED <<gen, committed>>
    BY <1>5 DEF Settle, Take, GoIdle, NextGeneration, diskVars, appVars, DrainOK
  <2>2. CASE dpc = "committed"
    <3>1. disk.refs = NextRefs
      BY <2>1, <2>2 DEF MirrorOK, Renamed
    <3> QED
      BY <1>0, <2>1, <2>2, <3>1 DEF DurableOK, Views
  <2>3. CASE dpc # "committed"
    BY <2>1, <2>3 DEF DurableOK, Views
  <2> QED
    BY <2>2, <2>3
<1>6. ASSUME ~Rename, ~PowerLoss, UNCHANGED <<loaded, gen, committed>>, IsOpen' => IsOpen,
             dpc' = "committed" => dpc = "committed"
      PROVE  DurableOK'
  <2>1. \A d \in Views' : \E e \in Views : d.refs = e.refs
    BY <1>6, SavedStep
  <2>2. disk'.refs = disk.refs
    BY <1>6, DirectoryStep DEF KeepsRecord
  <2> QED
    BY <1>6, <2>1, <2>2 DEF DurableOK
<1>7. CASE Sweep \/ Opened \/ Calling \/ Submitting \/ Waited \/ TakeAll
  <2>1. UNCHANGED <<loaded, gen, committed, dpc>> /\ pc \notin {"closed", "refused"}
    BY <1>7
    DEF Sweep, Opened, Calling, RegisterFamily, Write, EraseAll, ChangeTables, Flush, StartWait,
        Submitting, CheckIdle, Join, HandOff, Spawn, Waited, TakeAll, appVars, writerVars, drainVars
  <2>2. ~Rename
    BY <1>7
    DEF Rename, DrainLeaves, appVars, callVars, writerVars, Sweep, Opened, Calling, RegisterFamily, Write,
        EraseAll, ChangeTables, Flush, StartWait, Submitting, CheckIdle, Join, HandOff, Spawn, Waited,
        TakeAll, drainVars
  <2>3. ~PowerLoss \/ DurableOK'
    BY <1>2
  <2> QED
    BY <1>6, <2>1, <2>2, <2>3
<1>8. CASE \/ StartJob \/ DrainInline \/ OpenFile \/ SyncFile \/ WriteTemp \/ FailWrite
           \/ DeleteSuperseded \/ UNCHANGED vars
  <2>1. UNCHANGED <<loaded, gen, committed, pc>> /\ (dpc' = "committed" => dpc = "committed")
    BY <1>8
    DEF StartJob, DrainInline, Claim, Take, OpenFile, SyncFile, WriteTemp, FailWrite, DeleteSuperseded,
        DrainLeaves, appVars, callVars, writerVars, drainVars, vars
  <2>2. ~Rename \/ DurableOK'
    BY <1>3
  <2>3. ~PowerLoss \/ DurableOK'
    BY <1>2
  <2> QED
    BY <1>6, <2>1, <2>2, <2>3
<1> QED
  BY <1>1, <1>2, <1>3, <1>4, <1>5, <1>7, <1>8
  DEF Next, Powered, Opening, Waiting, Draining, WriteSteps

\* A writer that is idle with nothing marked or on its way has put every table on
\* disk, and made them durable if this session committed.
LEMMA Settled ==
  ASSUME ContentInv, IsOpen, ~busy, handed = {}, Marked = {}
  PROVE  /\ \A f \in Families : Saved(disk)[f] = table[f]
         /\ gen # loaded => \A d \in Views : \A f \in Families : Saved(d)[f] = table[f]
<1> USE DEF ContentInv
<1>1. Queued = {} /\ dpc = "idle"
  BY QueuedWhole DEF ThreadInv, DrainOK, DrainerOK
<1>2. \A f \in Families : Saved(disk)[f] = table[f]
  BY <1>1 DEF NothingForgotten, OnItsWay, IsOpen, Ids
<1>3. ASSUME gen # loaded, NEW d \in Views PROVE d.refs = disk.refs
  BY <1>1, <1>3 DEF DurableOK, StoreInv, MirrorOK, Renamed
<1> QED
  BY <1>2, <1>3 DEF FilesOK, Views

\* A vouched-for table: either nothing new is, or everything is and all of it is on
\* disk.
LEMMA AckedNow ==
  ASSUME ContentInv, [Next]_vars
  PROVE  \/ acked' = acked
         \/ /\ acked' = table /\ UNCHANGED <<table, disk, durable>>
            /\ \A d \in Views : \A f \in Families : Saved(d)[f] = table[f]
<1> USE DEF ContentInv
<1>1. CASE Waited
  <2>1. IsOpen /\ ~busy /\ handed = {} /\ UNCHANGED <<table, disk, durable>>
    BY <1>1 DEF Waited, IsOpen, QueueOK, diskVars
  <2>2. CASE call = "FlushAndWait" /\ result
    <3>1. Marked = {} /\ gen # loaded
      BY <1>1, <2>2 DEF Waited, FlushOK, Marked
    <3> QED
      BY <1>1, <2>1, <2>2, <3>1, Settled DEF Waited
  <2> QED
    BY <1>1, <2>2 DEF Waited
<1>2. CASE TakeAll
  <2>1. IsOpen /\ ~busy /\ handed = {} /\ UNCHANGED <<table, disk, durable>>
    BY <1>2 DEF TakeAll, IsOpen, QueueOK, diskVars
  <2>2. CASE Marked = {} /\ gen # loaded
    BY <1>2, <2>1, <2>2, Settled DEF TakeAll
  <2> QED
    BY <1>2, <2>2 DEF TakeAll
<1>3. CASE Opening \/ Calling \/ Submitting \/ DrainInline \/ Close \/ StartJob
  BY <1>3
  DEF Opening, Open, Sweep, Opened, Calling, RegisterFamily, Write, EraseAll, ChangeTables, Flush,
      StartWait, Submitting, CheckIdle, Join, HandOff, Spawn, DrainInline, Close, StartJob, Forget, appVars
<1>4. CASE Draining \/ ProcessDeath \/ PowerLoss \/ UNCHANGED vars
  BY <1>4
  DEF Draining, WriteSteps, OpenFile, SyncFile, WriteTemp, Rename, FailWrite, SyncDirectory,
      DeleteSuperseded, Settle, DrainLeaves, ProcessDeath, PowerLoss, Forget, vars, appVars
<1> QED
  BY <1>1, <1>2, <1>3, <1>4 DEF Next, Powered, Waiting

\* Nothing vouched for leaves any directory.
LEMMA AckedStep ==
  ASSUME ContentInv, StemsDistinct, [Next]_vars
  PROVE  AckedOK'
<1> USE DEF ContentInv
<1>0. Numbered /\ disk \in Views
  BY ContentNumbered DEF StoreInv, Views
<1>1. CASE /\ acked' = table /\ UNCHANGED <<table, disk, durable>>
           /\ \A d \in Views : \A f \in Families : Saved(d)[f] = table[f]
  BY <1>0, <1>1 DEF AckedOK, Views, Numbered
<1>2. CASE acked' = acked
  <2>1. CASE PowerLoss
    <3>1. Views' \subseteq Views
      BY <2>1 DEF PowerLoss, Views
    <3> QED
      BY <1>2, <3>1 DEF AckedOK
  <2>2. CASE Rename
    <3>1. Views' \subseteq Views \cup {disk'}
      BY <2>2, RenameSaved DEF Views
    <3>2. Numbered'
      BY TypeStep, ContentNumbered, PTL DEF StoreInv
    <3>3. \A f \in Families : Saved(disk)[f] <= Saved(disk')[f]
      BY <2>2, RenameOrder
    <3> QED
      BY <1>0, <1>2, <3>1, <3>2, <3>3 DEF AckedOK, Numbered, Views
  <2>3. CASE ~PowerLoss /\ ~Rename
    BY <1>2, <2>3, SavedStep DEF AckedOK
  <2> QED
    BY <2>1, <2>2, <2>3
<1> QED
  BY <1>1, <1>2, AckedNow

LEMMA ContentInit == Init => ContentInv
<1> SUFFICES ASSUME Init PROVE ContentInv
  OBVIOUS
<1>1. StoreInv /\ ThreadInv
  BY InvInit, ThreadInit
<1>2. \A f \in Families : Saved(disk)[f] = 0
  BY DEF Init, Saved, Committed
<1>3. Views = {disk} /\ Snaps = {} /\ pc = "closed" /\ dpc = "idle"
  BY DEF Init, Views, Snaps
<1>4. table = Saved(disk)
  <2>1. Saved(disk) = [f \in Families |-> Saved(disk)[f]]
    BY DEF Saved
  <2> QED
    BY <1>2, <2>1 DEF Init
<1>5. FilesOK
  BY <1>3 DEF FilesOK, Init
<1>6. OrderOK
  <2>1. \A f \in Families : table[f] = 0
    BY <1>2, <1>4
  <2>2. writes = 0 /\ next = {}
    BY DEF Init
  <2> QED
    BY <1>2, <1>3, <2>1, <2>2 DEF OrderOK
<1>7. NothingForgotten /\ DurableOK
  BY <1>3 DEF NothingForgotten, DurableOK, IsOpen
<1>8. AckedOK
  BY <1>2, <1>3 DEF Init, AckedOK
<1>9. QueueOK /\ ExactOK /\ FlushOK
  BY <1>3, <1>4 DEF Init, QueueOK, ExactOK, Renamed, FlushOK
<1> QED
  BY <1>1, <1>5, <1>6, <1>7, <1>8, <1>9 DEF ContentInv

LEMMA ContentStep ==
  ASSUME StemsDistinct, RegistersFirst
  PROVE  ContentInv /\ [Next]_vars => ContentInv'
<1> SUFFICES ASSUME ContentInv, [Next]_vars PROVE ContentInv'
  OBVIOUS
<1>1. StoreInv' /\ ThreadInv'
  BY InvStep, ThreadStep DEF ContentInv
<1>2. QueueOK' /\ FilesOK' /\ OrderOK' /\ ExactOK'
  BY QueueStep, FilesStep, OrderStep, ExactStep DEF ContentInv
<1>3. NothingForgotten'
  BY ForgottenStep DEF ContentInv
<1>4. FlushOK' /\ DurableOK' /\ AckedOK'
  BY FlushStep, DurableStep, AckedStep DEF ContentInv, StoreInv
<1> QED
  BY <1>1, <1>2, <1>3, <1>4 DEF ContentInv

\* Whatever is written, erased, coalesced or fails, a family's latest table is
\* committed, in the newest snapshot on its way, or marked for the next flush.
THEOREM ChangesKept ==
  ASSUME StemsDistinct, RegistersFirst
  PROVE  Spec => []NothingForgotten
<1>1. ContentInv => NothingForgotten
  BY DEF ContentInv
<1> QED
  BY <1>1, ContentInit, ContentStep, PTL DEF Spec

\* When IsDirty says no between two calls, the disk holds every table as the program
\* sees it.
THEOREM CleanIsSaved ==
  ASSUME StemsDistinct, RegistersFirst
  PROVE  Spec => []CleanMeansSaved
<1>1. ContentInv => CleanMeansSaved
  <2> SUFFICES ASSUME ContentInv, pc = "idle", ~IsDirty PROVE table = Saved(disk)
    BY DEF CleanMeansSaved
  <2>1. \A f \in Families : Saved(disk)[f] = table[f]
    BY Settled DEF IsDirty, IsOpen, Marked, ContentInv, QueueOK
  <2>2. table \in [Families -> Nat] /\ Saved(disk) = [f \in Families |-> Saved(disk)[f]]
    BY DEF Saved, ContentInv, StoreInv, TypeOK, AppType
  <2> QED
    BY <2>1, <2>2
<1> QED
  BY <1>1, ContentInit, ContentStep, PTL DEF Spec

\* A successful FlushAndWait is a promise no end of the process breaks: every
\* directory a death or a power loss can leave holds each table as it was vouched
\* for, or a later one.
THEOREM FlushedIsDurable ==
  ASSUME StemsDistinct, RegistersFirst
  PROVE  Spec => []AckedIsDurable
<1>1. ContentInv => AckedIsDurable
  BY DEF ContentInv, AckedOK, AckedIsDurable, Views
<1> QED
  BY <1>1, ContentInit, ContentStep, PTL DEF Spec
-----------------------------------------------------------------------------
(* The store keeps the slot's promise *)

\* Each step is a step of the promise, or none.
LEMMA PromiseStep ==
  ASSUME ContentInv, StemsDistinct, [Next]_vars
  PROVE  [Implements!Next]_<<table, Saved(disk), acked>>
<1> USE DEF ContentInv
<1>0. Numbered /\ disk \in Views /\ TypeOK
  BY ContentNumbered DEF StoreInv, Views
<1>1. TypeOK'
  BY <1>0, TypeStep
<1>2. /\ table \in Implements!Tables /\ table' \in Implements!Tables
      /\ Saved(disk') \in Implements!Tables
  BY <1>0, <1>1, SavedType DEF Implements!Tables, TypeOK, DiskType, AppType
<1>3. CASE Rename
  <2>1. UNCHANGED <<table, acked>>
    BY <1>3 DEF Rename, DrainLeaves, appVars
  <2>2. Implements!NotNewer(Saved(disk), Saved(disk')) /\ Implements!NotNewer(Saved(disk'), table)
    BY <1>3, RenameOrder DEF Implements!NotNewer
  <2> QED
    BY <1>2, <2>1, <2>2 DEF Implements!Next, Implements!Commit
<1>4. CASE Close \/ ProcessDeath \/ PowerLoss
  <2>1. acked' = acked /\ table' = Saved(disk') /\ disk' \in Views
    BY <1>4 DEF Close, ProcessDeath, PowerLoss, Forget, Views, diskVars
  <2>2. Implements!NotNewer(acked, Saved(disk')) /\ Implements!NotNewer(Saved(disk'), Saved(disk))
    BY <2>1 DEF Implements!NotNewer, AckedOK, OrderOK
  <2> QED
    BY <1>2, <2>1, <2>2 DEF Implements!Next, Implements!End
<1>5. ASSUME NEW S \in SUBSET Families, ChangeTables(S)
      PROVE  Implements!Next
  <2>1. UNCHANGED <<disk, acked>> /\ \A f \in Families : table'[f] \in {table[f], writes + 1}
    BY <1>5 DEF ChangeTables, diskVars
  <2>2. Implements!NotNewer(table, table')
    BY <1>0, <2>1 DEF Implements!NotNewer, OrderOK, Numbered
  <2> QED
    BY <1>2, <2>1, <2>2 DEF Implements!Next, Implements!Change
<1>6. CASE ~Rename /\ ~PowerLoss
  <2>1. Saved(disk') = Saved(disk)
    BY <1>6, SavedStep, SavedEqual DEF StoreInv
  <2>2. CASE /\ acked' = table /\ UNCHANGED <<table, disk, durable>>
             /\ \A d \in Views : \A f \in Families : Saved(d)[f] = table[f]
    <3>1. Saved(disk) = table
      BY <1>0, <2>2 DEF Saved, TypeOK, AppType
    <3> QED
      BY <2>1, <2>2, <3>1 DEF Implements!Next, Implements!Acknowledge
  <2>3. CASE acked' = acked /\ table' = table
    BY <2>1, <2>3
  <2>4. CASE Open
    <3>1. table = Saved(disk) /\ acked' = acked
      BY <2>4 DEF Open, ExactOK
    <3> QED
      BY <2>1, <2>4, <3>1 DEF Open
  <2>5. \/ UNCHANGED table \/ Open \/ Close \/ ProcessDeath
        \/ \E S \in SUBSET Families : ChangeTables(S)
    BY <1>6
    DEF Next, Powered, Opening, Sweep, Opened, Calling, RegisterFamily, Write, EraseAll, Flush,
        StartWait, Submitting, CheckIdle, Join, HandOff, Spawn, Waiting, Waited, TakeAll, DrainInline,
        StartJob, Draining, WriteSteps, OpenFile, SyncFile, WriteTemp, FailWrite, SyncDirectory,
        DeleteSuperseded, Settle, DrainLeaves, vars, appVars
  <2> QED
    BY <1>4, <1>5, <2>2, <2>3, <2>4, <2>5, AckedNow
<1> QED
  BY <1>3, <1>4, <1>6

\* Files, generations, threads and failures all implement the slot a program thinks
\* it has: whole tables become newer on disk at once, never newer than the program's,
\* a vouched-for flush finds them equal, and an end of the process loses nothing
\* vouched for.
THEOREM StoreKeepsPromise ==
  ASSUME StemsDistinct, RegistersFirst
  PROVE  Spec => Promise
<1>1. Init => Implements!Init
  <2> SUFFICES ASSUME Init PROVE Implements!Init
    OBVIOUS
  <2>1. table = Saved(disk)
    BY ContentInit DEF ContentInv, ExactOK, Init
  <2> QED
    BY <2>1 DEF Init, Implements!Init
<1>2. ContentInv /\ [Next]_vars => [Implements!Next]_<<table, Saved(disk), acked>>
  BY PromiseStep
<1> QED
  BY <1>1, <1>2, ContentInit, ContentStep, PTL DEF Spec, Promise, Implements!Spec
=============================================================================
