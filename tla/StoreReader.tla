---------------------------- MODULE StoreReader ----------------------------
(***************************************************************************)
(* Store::ReadFamilies (engine/src/Persistence/Store.cpp), the lock-free    *)
(* reader of a slot, against the Store that holds the slot open: the reader *)
(* runs in a thread or a process of its own, and every file it opens is a   *)
(* step between which the store commits, sweeps and deletes.                *)
(***************************************************************************)
EXTENDS Store

CONSTANT ReadFamiliesAttempts     \* commit records read before a missing file is an error
ASSUME AttemptsAssumption == ReadFamiliesAttempts \in Nat \ {0}

VARIABLES
  rpc,        \* "idle", "commit", "files", "recheck", "ok" or "error"
  record,     \* the commit record of this attempt: its generation and its files
  unread,     \* the requested families it has not read
  entries,    \* the tables read, 0 for a family the slot has no file for
  attempt,    \* the attempt it is in
  image       \* the tables the commit record named when this attempt read it

readerVars == <<rpc, record, unread, entries, attempt, image>>
rvars == <<vars, readerVars>>

NoRecord == [gen |-> 0, refs |-> [f \in Families |-> NoFile]]
Nothing == [f \in Families |-> 0]

RInit == /\ Init
         /\ rpc = "idle" /\ record = NoRecord /\ unread = {} /\ attempt = 0
         /\ entries = Nothing /\ image = Nothing

\* The reader is back where it started.
ResetReader == /\ rpc' = "idle" /\ record' = NoRecord /\ unread' = {} /\ attempt' = 0
               /\ entries' = Nothing /\ image' = Nothing

\* A call starts.
StartRead == /\ rpc = "idle"
             /\ rpc' = "commit"
             /\ UNCHANGED <<record, unread, entries, attempt, image>>

\* ReadCommitRecord at the head of an attempt; the families are all requested.
ReadCommit == /\ rpc = "commit"
              /\ IF LegalRecord(disk)
                 THEN /\ rpc' = "files"
                      /\ record' = [gen |-> disk.gen, refs |-> disk.refs]
                      /\ unread' = Families
                      /\ entries' = Nothing
                      /\ image' = Saved(disk)
                 ELSE rpc' = "error" /\ UNCHANGED <<record, unread, entries, image>>
              /\ UNCHANGED attempt

\* Mutant: any generation of the family's file will do.
FoundAnyGeneration(f) ==
  {e \in disk.files : e.name.stem = record.refs[f].stem /\ e.id = f /\ e.whole}
\* The decodable file an attempt's record names for a family.
Found(f) == {e \in disk.files : e.name = record.refs[f] /\ e.id = f /\ e.whole}

\* A family the record names no file for stays empty.
ReadAbsent(f) == /\ record.refs[f].gen = 0
                 /\ unread' = unread \ {f}
                 /\ UNCHANGED <<rpc, entries>>

\* ReadCommittedFamily of the next family.
ReadFamily ==
  /\ rpc = "files"
  /\ \E f \in unread :
       \/ ReadAbsent(f)
       \/ /\ record.refs[f].gen # 0
          /\ \E e \in Found(f) : entries' = [entries EXCEPT ![f] = e.val]
          /\ unread' = unread \ {f}
          /\ UNCHANGED rpc
       \/ /\ record.refs[f].gen # 0
          /\ Found(f) = {}
          /\ rpc' = "recheck"
          /\ UNCHANGED <<unread, entries>>
  /\ UNCHANGED <<record, attempt, image>>

\* Mutant: a record that has moved on is not told from one that has not.
MovedOnNever == FALSE
\* The commit record, read again after a failed read, has moved on.
MovedOn == LegalRecord(disk) /\ disk.gen # record.gen

\* Whether another attempt is allowed.
MayRetry == attempt + 1 < ReadFamiliesAttempts

\* A failed read: retried against the newer record, or an error.
Recheck == /\ rpc = "recheck"
           /\ IF MayRetry /\ MovedOn
              THEN rpc' = "commit" /\ attempt' = attempt + 1
              ELSE rpc' = "error" /\ UNCHANGED attempt
           /\ UNCHANGED <<record, unread, entries, image>>

FinishRead == /\ rpc = "files"
              /\ unread = {}
              /\ rpc' = "ok"
              /\ UNCHANGED <<record, unread, entries, attempt, image>>

\* The caller has the answer.
Return == rpc \in {"ok", "error"} /\ ResetReader

ReaderStep == StartRead \/ ReadCommit \/ ReadFamily \/ Recheck \/ FinishRead \/ Return

\* The store's steps touch nothing of the reader's, its death included; a power
\* loss would end the reader too, and is left to Store's own runs.
RNext == \/ Powered /\ UNCHANGED readerVars
         \/ ReaderStep /\ UNCHANGED vars

RSpec == RInit /\ [][RNext]_rvars
-----------------------------------------------------------------------------
\* A successful read is one committed generation, whole: every family's entry is
\* the one that generation's commit named, never a mix of two commits or bytes a
\* write in progress left ("reads a slot another process or Store holds open",
\* Store.h:208).
ReadsOneGeneration ==
  rpc = "ok" => entries = image

\* "Only a file missing under an unchanged commit is an error" (Store.cpp:1186):
\* over a slot the store wrote, a read fails only when commits overtook every
\* attempt it is allowed.
FailsOnlyOvertaken ==
  rpc = "error" => attempt + 1 = ReadFamiliesAttempts /\ disk.gen > record.gen
=============================================================================
