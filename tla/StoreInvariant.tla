--------------------------- MODULE StoreInvariant ---------------------------
(***************************************************************************)
(* The inductive invariants behind Store's properties.  A directory is      *)
(* readable because of what happened before it: which files the drain had   *)
(* synced, which generation it may reuse, whose stem is whose (StoreInv).   *)
(* What it holds is what the program asked for because every change is on   *)
(* its way in one order, from the table to the disk (ContentInv).           *)
(***************************************************************************)
EXTENDS Store

\* A Store holds the slot open.
IsOpen == pc \notin {"closed", "refused"}
Views == durable \cup {disk}
Snaps == handed \cup current \cup next \cup inflight

\* Family f's entry in a commit record of generation g: none, or a file of its
\* own stem no newer than the record.
RefOK(f, ref, g) == ref = NoFile \/ (ref.gen \in 1 .. g /\ ref.stem = StemOf[f])

\* A directory that opens: every entry is in order and its file decodes.
ViewOK(d) == \A f \in Families : /\ RefOK(f, d.refs[f], d.gen)
                                 /\ d.refs[f].gen # 0 => Committed(d, f) # {}
ViewsOK == \A d \in Views : ViewOK(d) /\ d.gen <= disk.gen

\* Whatever holds records, is dirty or failed, or is on its way has its own stem,
\* and a closed store has nothing of the kind.
StemsOK == /\ \A f \in Families : stem[f] \in {NoStem, StemOf[f]}
           /\ IsOpen => \A f \in Families : table[f] # 0 => stem[f] = StemOf[f]
           /\ ~IsOpen => dirty = {} /\ failed = {} /\ Snaps = {}
           /\ \A f \in dirty \cup failed : stem[f] = StemOf[f]
           /\ \A s \in Snaps : s.stem = StemOf[s.id] /\ stem[s.id] = StemOf[s.id]

\* The writer knows the commit record on disk, save between a rename and the
\* bookkeeping after it.
Renamed == dpc \in {"sync", "committed"}
MirrorOK == IsOpen => /\ disk.gen = IF Renamed THEN gen + 1 ELSE gen
                      /\ disk.refs = IF Renamed THEN NextRefs ELSE committed
                      /\ \A f \in Families : RefOK(f, committed[f], gen)

\* What the drain has been through is whole on disk before the record names it.
WrittenOK == /\ dpc \in {"files", "rename"} =>
                  \A s \in inflight \ todo : WholeFile(s) \in disk.files
             /\ dpc = "rename" => todo = {}

\* Nothing drains before the store is open, and one thread at a time.
DrainOK == /\ pc \in {"closed", "refused", "sweep"} => dpc = "idle" /\ ~busy
           /\ dpc # "idle" => drainer # "none"

StoreInv == TypeOK /\ ViewsOK /\ StemsOK /\ MirrorOK /\ WrittenOK /\ DrainOK
-----------------------------------------------------------------------------
(* Who drains, and who may be joined *)

\* Where the write is tells who has it, and the store's thread drains only while it
\* waits.
DrainerOK == /\ drainer # "none" => busy
             /\ drainer = "app" => pc = "wait"
             /\ pc \in {"closed", "refused", "sweep"} => jobs = 0

\* On the store's own thread there is one job at a time: a submit that finds the
\* writer idle has joined the previous one, and one that found it busy when it
\* looked knows that the previous job has the write.
OneThread == OwnThread => /\ jobs <= 1
                          /\ drainer = "job" => jobs = 0
                          /\ pc = "spawn" => ThreadDone
                          /\ pc = "handoff" /\ ~busy => ThreadDone

ThreadInv == TypeOK /\ DrainOK /\ DrainerOK /\ OneThread
-----------------------------------------------------------------------------
(* What is on its way *)

\* Where a snapshot can be: with the store's thread until it is handed over, waiting
\* for a drain to claim it, queued behind one, or in it.
QueueOK == /\ handed # {} => pc \in {"check", "join", "handoff"}
           /\ current # {} => busy /\ drainer = "none"
           /\ next # {} => busy
           /\ inflight # {} => dpc # "idle"

\* A directory holds one file of a name, and what a committed name stands for does
\* not depend on the directory.
FilesOK == /\ \A d \in Views : \A x, y \in d.files : x.name = y.name => x = y
           /\ \A d, e \in Views : \A f \in Families :
                d.refs[f] = e.refs[f] => Saved(d)[f] = Saved(e)[f]

\* The tables on the way to the disk are in order, the newest the furthest from it.
OrderOK == /\ \A d \in Views : \A f \in Families : Saved(d)[f] <= Saved(disk)[f]
           /\ \A f \in Families : Saved(disk)[f] <= table[f] /\ table[f] <= writes
           /\ \A s \in Snaps : Saved(disk)[s.id] <= s.val /\ s.val <= table[s.id]
           /\ \A s \in inflight \cup current : \A t \in next : s.id = t.id => s.val <= t.val

\* A snapshot not handed over is the table's as it stands, one renamed is on disk,
\* and a closed or opening store sees what the disk holds.
ExactOK == /\ \A s \in handed : s.val = table[s.id] /\ s.stem = stem[s.id]
           /\ Renamed => \A s \in inflight : Saved(disk)[s.id] = s.val
           /\ pc \in {"closed", "sweep"} => table = Saved(disk)

\* A waited flush has taken every change, and has the writer to itself: when it
\* succeeds, a new generation is committed and nothing is left.
FlushOK == /\ pc \in {"closed", "refused", "sweep", "idle"} => call = "none"
           /\ pc \in {"check", "join", "handoff", "spawn"} => call \in {"none", "FlushAndWait"}
           /\ call = "FlushAndWait" =>
                /\ dirty = {} /\ next = {}
                /\ pc \in {"check", "join", "handoff"} => ~busy /\ failed = {}
                /\ busy => failed = {}
                /\ pc \in {"spawn", "wait"} /\ ~busy /\ result => failed = {} /\ gen # loaded

\* Once this session has committed, every directory a power loss may leave holds its
\* last commit or the one just renamed; once the directory is synced, the latter.
DurableOK == IsOpen =>
  /\ loaded <= gen
  /\ gen # loaded => \A d \in Views : d.refs \in {committed, disk.refs}
  /\ dpc = "committed" => \A d \in Views : d.refs = disk.refs

\* Nothing vouched for is missing from any of those directories.
AckedOK == \A d \in Views : \A f \in Families : acked[f] <= Saved(d)[f]

ContentInv == /\ StoreInv /\ ThreadInv /\ QueueOK
              /\ FilesOK /\ OrderOK /\ ExactOK
              /\ NothingForgotten
              /\ FlushOK /\ DurableOK /\ AckedOK
=============================================================================
