------------------------------- MODULE Store -------------------------------
(***************************************************************************)
(* engine/src/Persistence/Store.cpp: one slot directory, the Store that     *)
(* holds it open, and the background write that persists it.                *)
(*                                                                         *)
(* Two threads share the Writer: the store's own thread (every public       *)
(* method) and whichever thread drains a write, a job or the store's thread *)
(* while it waits.  An action is a stretch of code that runs under the      *)
(* writer's mutex, or one file-system call; between two actions the other   *)
(* thread may run, the process may die and the machine may lose power.      *)
(*                                                                         *)
(* A family's record table is abstracted to the number of its latest        *)
(* change, and a flush's snapshot of it to that number.  An optional        *)
(* FlushSnapshot is a set of family snapshots, empty when there is none: no *)
(* caller submits an empty one.                                             *)
(***************************************************************************)
EXTENDS Naturals, FiniteSets

CONSTANTS
  Families,        \* the family ids in play
  Stems,           \* the file stems in play
  NoStem,          \* the empty stem of a family no registration has named
  StemOf,          \* the stem the program registers each family under
  Lazy,            \* the families registered with a flush interval
  RegistersFirst,  \* whether the program registers a family before it writes it
  OwnThread,       \* whether writes run on the store's own thread, not an executor
  MaxWrites,       \* bound: changes made to tables
  MaxFaults,       \* bound: failed file operations
  MaxCrashes       \* bound: process deaths and power losses

ASSUME StemAssumption == /\ StemOf \in [Families -> Stems]
                         /\ NoStem \notin Stems
                         /\ Lazy \subseteq Families
ASSUME ModeAssumption == RegistersFirst \in BOOLEAN /\ OwnThread \in BOOLEAN
ASSUME BoundAssumption == MaxWrites \in Nat /\ MaxFaults \in Nat /\ MaxCrashes \in Nat

VARIABLES
  disk,       \* the slot directory as the running system sees it
  durable,    \* the directories a power loss may leave behind
  table,      \* each family's table, as the store's thread sees it
  stem,       \* FamilyState::FileStem
  registered, \* FamilyState::Registered
  dirty,      \* FamilyState::Dirty
  overdue,    \* families whose TakenAt is minus infinity
  gen,        \* Writer::Generation
  committed,  \* Writer::Committed
  current,    \* Writer::Current
  next,       \* Writer::Next
  busy,       \* Writer::Busy
  drainer,    \* the thread Writer::Draining stands for: "none", "job" or "app"
  failed,     \* Writer::Failed
  result,     \* whether Writer::LastResult is a success
  dpc,        \* where the drain is
  inflight,   \* the drain's snapshot
  todo,       \* the part of it WriteGeneration has not written yet
  pc,         \* where the store's thread is
  call,       \* the public method it is in
  handed,     \* the snapshot Submit was called with
  jobs,       \* write jobs submitted and not started
  loaded,     \* the generation Open found
  acked,      \* the tables the last successful FlushAndWait vouched for
  writes, faults, crashes   \* what the bounds count

appVars    == <<table, stem, registered, dirty, overdue, loaded, acked, writes>>
callVars   == <<pc, call, handed, jobs>>
writerVars == <<gen, committed, current, next, busy, drainer, failed, result>>
drainVars  == <<dpc, inflight, todo>>
diskVars   == <<disk, durable>>
vars == <<disk, durable, table, stem, registered, dirty, overdue, gen, committed, current, next,
          busy, drainer, failed, result, dpc, inflight, todo, pc, call, handed, jobs, loaded,
          acked, writes, faults, crashes>>
-----------------------------------------------------------------------------
(* Data *)

FileName == [stem : Stems \cup {NoStem}, gen : Nat]
NoFile   == [stem |-> NoStem, gen |-> 0]         \* a CommittedFile of generation 0: none
\* One family file; `whole' once its bytes are synced.
File     == [name : FileName, id : Families, val : Nat, whole : BOOLEAN]
Refs     == [Families -> FileName]
\* A slot directory: the commit record (generation and committed files), the
\* family files, and the generations of the commit temporaries lying about.
Slot     == [gen : Nat, refs : Refs, files : SUBSET File, temps : SUBSET Nat]
\* One family's table as a flush took it.
Taken    == [id : Families, stem : Stems \cup {NoStem}, val : Nat]

Ids(snapshot) == {s.id : s \in snapshot}

\* What CommitRecord parsing accepts: legal stems, none named twice.
LegalRecord(d) ==
  /\ \A f \in Families : d.refs[f].gen # 0 => d.refs[f].stem # NoStem
  /\ \A f, g \in Families :
       f # g /\ d.refs[f].gen # 0 /\ d.refs[g].gen # 0 => d.refs[f].stem # d.refs[g].stem

\* The files a family's committed name denotes that decode as that family's.
Committed(d, f) == {e \in d.files : d.refs[f].gen # 0 /\ e.name = d.refs[f] /\ e.id = f /\ e.whole}

\* Open succeeds: the record is legal and every file it names decodes.
Readable(d) == LegalRecord(d) /\ \A f \in Families : d.refs[f].gen # 0 => Committed(d, f) # {}

\* The tables Open loads.
Saved(d) == [f \in Families |->
               IF Committed(d, f) = {} THEN 0 ELSE (CHOOSE e \in Committed(d, f) : TRUE).val]

\* A write of file e: O_TRUNC replaces whatever the name held.
Put(files, e) == {x \in files : x.name # e.name} \cup {e}

\* Snapshot newer over snapshot older, each family once.
Overlay(older, newer) == {s \in older : s.id \notin Ids(newer)} \cup newer

\* Folds a newer snapshot into a queued one.
MergeNewer(queued, newer) == Overlay(queued, newer)

\* Mutant: the failed write's tables win over the queued ones.
MergeOlderOverrides(queued, older) == Overlay(queued, older)
\* Folds an older snapshot under a queued one.
MergeOlder(queued, older) == Overlay(older, queued)

\* Mutant: the generation already committed is written again.
NextGenerationReuses == IF gen = 0 THEN 1 ELSE gen
\* The generation a drain writes.
NextGeneration == gen + 1

\* The file WriteGeneration writes for a family of its snapshot.
NextFile(s, whole) == [name |-> [stem |-> s.stem, gen |-> NextGeneration], id |-> s.id,
                       val |-> s.val, whole |-> whole]
TornFile(s)  == NextFile(s, FALSE)
WholeFile(s) == NextFile(s, TRUE)

NewRef(f) == [stem |-> (CHOOSE s \in inflight : s.id = f).stem, gen |-> NextGeneration]
\* Mutant: the commit record names the snapshot's families only.
NextRefsForget == [f \in Families |-> IF f \in Ids(inflight) THEN NewRef(f) ELSE NoFile]
\* The commit record WriteGeneration builds: the snapshot's families at the
\* next generation, the rest keeping their file.
NextRefs == [f \in Families |-> IF f \in Ids(inflight) THEN NewRef(f) ELSE committed[f]]

\* Mutant: every file of the previous generation is taken for replaced.
SupersededAll == {committed[f] : f \in {g \in Families : committed[g].gen # 0}}
\* The family files the commit replaces.
Superseded == {committed[f] : f \in {g \in Ids(inflight) : committed[g].gen # 0}}
-----------------------------------------------------------------------------
Init ==
  /\ disk = [gen |-> 0, refs |-> [f \in Families |-> NoFile], files |-> {}, temps |-> {}]
  /\ durable = {disk}
  /\ table = [f \in Families |-> 0]
  /\ acked = table
  /\ stem = [f \in Families |-> NoStem]
  /\ registered = {} /\ dirty = {} /\ overdue = {}
  /\ gen = 0 /\ committed = [f \in Families |-> NoFile]
  /\ current = {} /\ next = {} /\ busy = FALSE /\ drainer = "none"
  /\ failed = {} /\ result = TRUE
  /\ dpc = "idle" /\ inflight = {} /\ todo = {}
  /\ pc = "closed" /\ call = "none" /\ handed = {} /\ jobs = 0
  /\ loaded = 0 /\ writes = 0 /\ faults = 0 /\ crashes = 0

\* The directory changes: a power loss may from now on leave the new one too.
ChangeDisk(d) == /\ disk' = d
                 /\ durable' = durable \cup {d}
-----------------------------------------------------------------------------
(* Opening *)

\* Store::Open up to the sweep: the lock, the commit record, every file it names.
Open ==
  /\ pc = "closed"
  /\ IF Readable(disk)
     THEN /\ pc' = "sweep"
          /\ gen' = disk.gen
          /\ committed' = disk.refs
          /\ stem' = [f \in Families |-> disk.refs[f].stem]
          /\ table' = Saved(disk)
          /\ loaded' = disk.gen
     ELSE /\ pc' = "refused"
          /\ UNCHANGED <<gen, committed, stem, table, loaded>>
  /\ UNCHANGED <<diskVars, drainVars, registered, dirty, overdue, acked, writes, current, next,
                 busy, drainer, failed, result, call, handed, jobs, faults, crashes>>

\* Open removes one of the store's own files the commit record does not name.
Sweep ==
  /\ pc = "sweep"
  /\ \/ \E e \in disk.files :
          /\ \A f \in Families : committed[f] # e.name
          /\ ChangeDisk([disk EXCEPT !.files = @ \ {e}])
     \/ \E t \in disk.temps : ChangeDisk([disk EXCEPT !.temps = @ \ {t}])
  /\ UNCHANGED <<appVars, callVars, writerVars, drainVars, faults, crashes>>

\* Open returns; a removal that failed is ignored, so stragglers may remain.
Opened ==
  /\ pc = "sweep"
  /\ pc' = "idle"
  /\ UNCHANGED <<diskVars, appVars, writerVars, drainVars, call, handed, jobs, faults, crashes>>
-----------------------------------------------------------------------------
(* The table, on the store's thread *)

\* RegisterFamily, its assertion as the guard.
RegisterFamily(f) ==
  /\ pc = "idle"
  /\ f \notin registered
  /\ \A g \in registered : g # f => stem[g] # StemOf[f]
  /\ registered' = registered \cup {f}
  /\ stem' = [stem EXCEPT ![f] = IF @ = NoStem THEN StemOf[f] ELSE @]
  /\ UNCHANGED <<diskVars, callVars, writerVars, drainVars, table, dirty, overdue, loaded, acked,
                 writes, faults, crashes>>

\* The tables of the families in S change, and the families are marked dirty.
ChangeTables(S) ==
  /\ pc = "idle"
  /\ writes < MaxWrites
  /\ writes' = writes + 1
  /\ table' = [f \in Families |-> IF f \in S THEN writes + 1 ELSE table[f]]
  /\ dirty' = dirty \cup S
  /\ UNCHANGED <<diskVars, callVars, writerVars, drainVars, stem, registered, overdue, loaded,
                 acked, faults, crashes>>

\* Write or Erase of one of a family's records.
Write(f) == (RegistersFirst => stem[f] # NoStem) /\ ChangeTables({f})

\* EraseAll: every family that holds records.
EraseAll == \E S \in SUBSET {f \in Families : table[f] # 0} : S # {} /\ ChangeTables(S)
-----------------------------------------------------------------------------
(* Flushing, on the store's thread *)

\* RedirtyFailed, then TakeSnapshot of the families `taken' out of the marked
\* ones: both touch the writer only under its mutex, to empty Failed.
Marked == dirty \cup failed
RedirtyAndTake(taken) ==
  /\ failed' = {}
  /\ dirty' = Marked \ taken
  /\ overdue' = (overdue \cup failed) \ taken
  /\ handed' = {[id |-> f, stem |-> stem[f], val |-> table[f]] : f \in taken}

\* Where Submit starts.
Submit == IF OwnThread THEN "check" ELSE "handoff"

\* The families an unforced flush may take: one whose interval has not passed
\* is held out, and the clock may read anything.
DueNow == {f \in Families : f \in Lazy \cap registered => f \in overdue \cup failed}

\* Store::Flush up to Submit; nothing due is a no-op.
Flush ==
  /\ pc = "idle"
  /\ \E late \in SUBSET Lazy :
       LET taken == Marked \cap (DueNow \cup late) IN
         /\ RedirtyAndTake(taken)
         /\ pc' = IF taken = {} THEN "idle" ELSE Submit
  /\ UNCHANGED <<diskVars, drainVars, table, stem, registered, loaded, acked, writes, gen,
                 committed, current, next, busy, drainer, result, call, jobs, faults, crashes>>

\* Mutant: the write is handed over before the previous thread is joined.
CheckIdleSkipped ==
  /\ pc = "check"
  /\ pc' = "handoff"
  /\ UNCHANGED <<diskVars, appVars, writerVars, drainVars, call, handed, jobs, faults, crashes>>
\* Submit, own thread: the previous thread is joined when the writer is idle.
CheckIdle ==
  /\ pc = "check"
  /\ pc' = IF busy THEN "handoff" ELSE "join"
  /\ UNCHANGED <<diskVars, appVars, writerVars, drainVars, call, handed, jobs, faults, crashes>>

\* A thread is joinable at once when its job has run and drains nothing.
ThreadDone == jobs = 0 /\ drainer # "job"

Join ==
  /\ pc = "join"
  /\ ThreadDone
  /\ pc' = "handoff"
  /\ UNCHANGED <<diskVars, appVars, writerVars, drainVars, call, handed, jobs, faults, crashes>>

\* Where a call stands once its snapshot is handed over.
AfterSubmit == IF call = "FlushAndWait" THEN "wait" ELSE "idle"

\* Submit's hand-over, under the writer's mutex: coalesced behind a write in
\* flight, or the next write.
HandOff ==
  /\ pc = "handoff"
  /\ handed' = {}
  /\ IF busy
     THEN /\ next' = MergeNewer(next, handed)
          /\ pc' = AfterSubmit
          /\ UNCHANGED <<current, busy>>
     ELSE /\ current' = handed
          /\ busy' = TRUE
          /\ pc' = "spawn"
          /\ UNCHANGED next
  /\ UNCHANGED <<diskVars, appVars, drainVars, gen, committed, drainer, failed, result, call, jobs,
                 faults, crashes>>

\* Submit's last part: the job goes to the executor, or to a new thread once
\* the previous one is joined.
Spawn ==
  /\ pc = "spawn"
  /\ OwnThread => ThreadDone
  /\ jobs' = jobs + 1
  /\ pc' = AfterSubmit
  /\ UNCHANGED <<diskVars, appVars, writerVars, drainVars, call, handed, faults, crashes>>

\* FlushAndWait, WaitForWrites and the destructor all start by waiting.
StartWait ==
  /\ pc = "idle"
  /\ pc' = "wait"
  /\ call' \in {"BeforeFlush", "WaitForWrites", "Close"}
  /\ UNCHANGED <<diskVars, appVars, writerVars, drainVars, handed, jobs, faults, crashes>>

\* The wait is over: RedirtyFailed, and the call returns.
Waited ==
  /\ pc = "wait"
  /\ ~busy
  /\ call \in {"WaitForWrites", "FlushAndWait"}
  /\ failed' = {}
  /\ dirty' = dirty \cup failed
  /\ overdue' = overdue \cup failed
  /\ acked' = IF call = "FlushAndWait" /\ result THEN table ELSE acked
  /\ pc' = "idle"
  /\ call' = "none"
  /\ UNCHANGED <<diskVars, drainVars, table, stem, registered, loaded, writes, gen, committed,
                 current, next, busy, drainer, result, handed, jobs, faults, crashes>>

\* FlushAndWait between its two waits: a full snapshot, or success at once when
\* no family is dirty.  That success vouches for this session's writes; when
\* there were none it says nothing of what Open found, which a process that died
\* before its SyncDirectory may have left undone.
TakeAll ==
  /\ pc = "wait"
  /\ ~busy
  /\ call = "BeforeFlush"
  /\ RedirtyAndTake(Marked)
  /\ IF Marked = {}
     THEN /\ pc' = "idle" /\ call' = "none"
          /\ acked' = IF gen = loaded THEN acked ELSE table
     ELSE pc' = Submit /\ call' = "FlushAndWait" /\ UNCHANGED acked
  /\ UNCHANGED <<diskVars, drainVars, table, stem, registered, loaded, writes, gen, committed,
                 current, next, busy, drainer, result, jobs, faults, crashes>>
-----------------------------------------------------------------------------
(* The drain, on whichever thread claims it *)

\* Drain takes the write handed off, under the mutex.
Take(snapshot) == /\ inflight' = snapshot
                  /\ todo' = snapshot
                  /\ dpc' = "files"

\* Drain claims the writer.
Claim(thread) ==
  /\ drainer' = thread
  /\ Take(current)
  /\ current' = {}
  /\ UNCHANGED <<gen, committed, next, busy, failed, result>>

\* A submitted job starts: it drains, or finds the write done or claimed.
StartJob ==
  /\ jobs > 0
  /\ jobs' = jobs - 1
  /\ IF busy /\ drainer = "none" THEN Claim("job") ELSE UNCHANGED <<writerVars, drainVars>>
  /\ UNCHANGED <<diskVars, appVars, pc, call, handed, faults, crashes>>

\* Mutant: a write is left to the job submitted for it.
DrainInlineLeavesJobs ==
  /\ pc = "wait"
  /\ busy /\ drainer = "none" /\ jobs = 0
  /\ Claim("app")
  /\ UNCHANGED <<diskVars, appVars, callVars, faults, crashes>>
\* WaitForWrites runs a write no job has started.
DrainInline ==
  /\ pc = "wait"
  /\ busy /\ drainer = "none"
  /\ Claim("app")
  /\ UNCHANGED <<diskVars, appVars, callVars, faults, crashes>>

DrainLeaves == <<appVars, callVars, writerVars, crashes>>

\* WriteFileSynced opens and truncates one family file of the next generation.
OpenFile ==
  /\ dpc = "files"
  /\ \E s \in todo : /\ TornFile(s) \notin disk.files
                     /\ ChangeDisk([disk EXCEPT !.files = Put(@, TornFile(s))])
  /\ UNCHANGED <<DrainLeaves, drainVars, faults>>

\* ... and has written and synced its bytes.
SyncFile ==
  /\ dpc = "files"
  /\ \E s \in todo : /\ TornFile(s) \in disk.files
                     /\ ChangeDisk([disk EXCEPT !.files = Put(@, WholeFile(s))])
                     /\ todo' = todo \ {s}
  /\ UNCHANGED <<DrainLeaves, dpc, inflight, faults>>

\* The commit record is written and synced as a temporary.
WriteTemp ==
  /\ dpc = "files"
  /\ todo = {}
  /\ ChangeDisk([disk EXCEPT !.temps = @ \cup {NextGeneration}])
  /\ dpc' = "rename"
  /\ UNCHANGED <<DrainLeaves, inflight, todo, faults>>

\* The rename: the commit point of the whole slot.
Rename ==
  /\ dpc = "rename"
  /\ ChangeDisk([disk EXCEPT !.gen = NextGeneration, !.refs = NextRefs, !.temps = @ \ {NextGeneration}])
  /\ dpc' = "sync"
  /\ UNCHANGED <<DrainLeaves, inflight, todo, faults>>

\* A write or the rename fails, whatever it left behind.
FailWrite ==
  /\ dpc \in {"files", "rename"}
  /\ faults < MaxFaults
  /\ faults' = faults + 1
  /\ dpc' = "failed"
  /\ UNCHANGED <<DrainLeaves, diskVars, inflight, todo>>

\* Mutant: the directory is not synced.
SyncDirectorySkipped ==
  /\ dpc = "sync"
  /\ dpc' = "committed"
  /\ UNCHANGED <<DrainLeaves, diskVars, inflight, todo, faults>>
\* SyncDirectory: a power loss can no longer undo the rename.
SyncDirectory ==
  /\ dpc = "sync"
  /\ durable' = {disk}
  /\ dpc' = "committed"
  /\ UNCHANGED <<DrainLeaves, disk, inflight, todo, faults>>

\* A file the commit replaced is removed, best effort.
DeleteSuperseded ==
  /\ dpc = "committed"
  /\ \E e \in disk.files : /\ e.name \in Superseded
                           /\ ChangeDisk([disk EXCEPT !.files = @ \ {e}])
  /\ UNCHANGED <<DrainLeaves, drainVars, faults>>

\* Mutant: the writer stays busy.
GoIdleStaysBusy == /\ UNCHANGED busy
                   /\ drainer' = "none"
                   /\ dpc' = "idle" /\ inflight' = {} /\ todo' = {}
\* The drain ends.
GoIdle == /\ busy' = FALSE
          /\ drainer' = "none"
          /\ dpc' = "idle" /\ inflight' = {} /\ todo' = {}

\* Drain's bookkeeping once a write has ended, under the mutex: it goes on to
\* the queued write, or leaves the writer idle.
Settle ==
  /\ dpc \in {"committed", "failed"}
  /\ LET ok     == dpc = "committed"
         queued == IF ok \/ next = {} THEN next ELSE MergeOlder(next, inflight)
     IN  /\ gen' = IF ok THEN NextGeneration ELSE gen
         /\ committed' = IF ok THEN NextRefs ELSE committed
         /\ failed' = IF ok \/ next # {} THEN failed ELSE failed \cup Ids(inflight)
         /\ result' = ok
         /\ IF queued # {}
            THEN Take(queued) /\ UNCHANGED <<busy, drainer>>
            ELSE GoIdle
  /\ next' = {}
  /\ UNCHANGED <<diskVars, appVars, callVars, current, faults, crashes>>
-----------------------------------------------------------------------------
(* Ends *)

\* The process is gone: what remains is directory d.  A job of the old store
\* keeps the old, idle Writer alive and does nothing.
Forget(d) ==
  /\ table' = Saved(d)
  /\ stem' = [f \in Families |-> NoStem]
  /\ registered' = {} /\ dirty' = {} /\ overdue' = {}
  /\ gen' = 0 /\ committed' = [f \in Families |-> NoFile]
  /\ current' = {} /\ next' = {} /\ busy' = FALSE /\ drainer' = "none"
  /\ failed' = {} /\ result' = TRUE /\ loaded' = 0
  /\ dpc' = "idle" /\ inflight' = {} /\ todo' = {}
  /\ pc' = "closed" /\ call' = "none" /\ handed' = {} /\ jobs' = 0
  /\ UNCHANGED <<acked, writes, faults>>

\* The destructor, its waits over.
Close ==
  /\ pc = "wait"
  /\ ~busy
  /\ call = "Close"
  /\ OwnThread => ThreadDone
  /\ Forget(disk)
  /\ UNCHANGED <<diskVars, crashes>>

\* The process dies between two steps.
ProcessDeath ==
  /\ pc \notin {"closed", "refused"}
  /\ crashes < MaxCrashes
  /\ crashes' = crashes + 1
  /\ Forget(disk)
  /\ UNCHANGED diskVars

\* The machine loses power: directory changes since the last SyncDirectory
\* survive up to some point of their order.
PowerLoss ==
  /\ crashes < MaxCrashes
  /\ crashes' = crashes + 1
  /\ disk' \in durable
  /\ durable' = {disk'}
  /\ Forget(disk')
-----------------------------------------------------------------------------
Opening == Open \/ Sweep \/ Opened
Calling == \/ \E f \in Families : RegisterFamily(f) \/ Write(f)
           \/ EraseAll
           \/ Flush
           \/ StartWait
Submitting == CheckIdle \/ Join \/ HandOff \/ Spawn
Waiting == Waited \/ TakeAll \/ DrainInline \/ Close
WriteSteps == OpenFile \/ SyncFile \/ WriteTemp \/ Rename \/ FailWrite
Draining == WriteSteps \/ SyncDirectory \/ DeleteSuperseded \/ Settle
Powered == Opening \/ Calling \/ Submitting \/ Waiting \/ StartJob \/ Draining \/ ProcessDeath

Next == Powered \/ PowerLoss

Spec == Init /\ [][Next]_vars

\* A thread that can run does, and a call in progress goes on; nothing makes an
\* executor run a job it was given.
Fairness == /\ WF_vars(Submitting)
            /\ WF_vars(Waiting)
            /\ WF_vars(Draining)
FairSpec == Spec /\ Fairness
-----------------------------------------------------------------------------
(* Properties *)

Threads == {"none", "job", "app"}
\* "The families to write, each at most once" (Store.cpp:290).
IsSnapshot(S) == S \subseteq Taken /\ \A s, t \in S : s.id = t.id => s = t
DiskType == disk \in Slot /\ durable \subseteq Slot
AppType == /\ table \in [Families -> Nat] /\ acked \in [Families -> Nat]
           /\ stem \in [Families -> Stems \cup {NoStem}]
           /\ registered \subseteq Families /\ dirty \subseteq Families /\ overdue \subseteq Families
           /\ loaded \in Nat /\ writes \in Nat
CallType == /\ pc \in {"closed", "refused", "sweep", "idle", "check", "join", "handoff", "spawn", "wait"}
            /\ call \in {"none", "BeforeFlush", "FlushAndWait", "WaitForWrites", "Close"}
            /\ IsSnapshot(handed)
            /\ jobs \in Nat
WriterType == /\ gen \in Nat /\ committed \in Refs
              /\ IsSnapshot(current) /\ IsSnapshot(next)
              /\ busy \in BOOLEAN /\ result \in BOOLEAN /\ drainer \in Threads
              /\ failed \subseteq Families
DrainType == /\ dpc \in {"idle", "files", "rename", "sync", "committed", "failed"}
             /\ IsSnapshot(inflight) /\ todo \subseteq inflight
TypeOK == /\ DiskType /\ AppType /\ CallType /\ WriterType /\ DrainType
          /\ faults \in Nat /\ crashes \in Nat

\* "A crash anywhere in the flush leaves the prior generation fully readable"
\* (Store.h:170): every directory a process death or a power loss can leave
\* opens, whole and with legal stems.
AlwaysReadable == \A d \in durable \cup {disk} : Readable(d)

\* Whatever a process death or a power loss leaves, it holds nothing older than
\* what the last successful FlushAndWait vouched for
\* ("on return everything written before the call is committed", Store.h:303).
AckedIsDurable == \A d \in durable \cup {disk} : \A f \in Families : acked[f] <= Saved(d)[f]

\* What is handed over and not yet settled, each family's newest table: a queued
\* snapshot is never older than the one in flight.
Queued == Overlay(Overlay(inflight, current), next)
\* Family f's latest table is the newest on its way to the disk, or is there.
OnItsWay(f) == \/ \E s \in handed : s = [id |-> f, stem |-> stem[f], val |-> table[f]]
               \/ /\ f \notin Ids(handed)
                  /\ \/ \E s \in Queued : s.id = f /\ s.val = table[f]
                     \/ f \notin Ids(Queued) /\ Saved(disk)[f] = table[f]
\* No change is forgotten: a family whose latest table is neither committed nor
\* in the newest snapshot under way is marked dirty or failed, so that the next
\* flush takes it, whatever writes failed and coalesced meanwhile.
NothingForgotten ==
  pc \notin {"closed", "refused"} => \A f \in Families : f \in Marked \/ OnItsWay(f)

\* IsDirty (Store.h:334): when it answers no, the disk holds what the program sees.
IsDirty == busy \/ failed # {} \/ dirty # {}
CleanMeansSaved == pc = "idle" /\ ~IsDirty => table = Saved(disk)

\* A submit that finds the writer idle never joins a thread that has taken the
\* write being handed over (Store.cpp:943 says why the idle join comes first).
JoinNeverWaits == pc = "spawn" /\ OwnThread => ThreadDone

\* While the power lasts, a family file the commit record names is never
\* rewritten in place ("a committed file is never rewritten in place",
\* Store.cpp:1211): the reader's retry rule rests on it.
NeverRewritten ==
  [][\A f \in Families : disk.refs[f].gen # 0 /\ crashes' = crashes =>
       \A e \in disk'.files : e.name = disk.refs[f] => e \in disk.files]_vars

\* The store implements the promise: every commit moves whole tables forward
\* at once, a success of FlushAndWait vouches for what the disk holds, and an end
\* of the process, however it comes, loses nothing vouched for.
Implements == INSTANCE SlotPromise WITH mem <- table, saved <- Saved(disk)
Promise == Implements!Spec

\* Store::Open never meets a slot it wrote and refuses: neither a commit record
\* with an illegal or repeated stem nor a missing or foreign family file.
SlotReopens == pc # "refused"

\* A waiting call returns even when the executor never runs a job it was given
\* ("a job never run is not lost", Store.h:159).
CallReturns == pc \in {"check", "join", "handoff", "spawn", "wait"} ~> pc \in {"idle", "closed"}

\* Every flush's write ends, committed or failed, once the pool or the thread does
\* run its jobs.
WriterSettles == WF_vars(StartJob) => (busy ~> ~busy)
=============================================================================
