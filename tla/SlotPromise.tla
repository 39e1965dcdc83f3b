---------------------------- MODULE SlotPromise ----------------------------
(***************************************************************************)
(* What a durable slot promises its owner, with no files, no threads and    *)
(* no generations: `mem' is what the program reads and writes, `saved' is   *)
(* what a reopen after a crash now would load, and `acked' is what a        *)
(* successful Store::FlushAndWait has vouched for.  Every family's table is *)
(* abstracted to the number of its latest change.                           *)
(***************************************************************************)
EXTENDS Naturals

CONSTANT Families           \* the family ids of the slot

VARIABLES mem, saved, acked

Tables == [Families -> Nat]

\* Table a holds nothing newer than table b.
NotNewer(a, b) == \A f \in Families : a[f] <= b[f]

Init == /\ mem = [f \in Families |-> 0]
        /\ saved = mem
        /\ acked = mem

\* The program changes some tables.
Change == /\ mem' \in Tables
          /\ NotNewer(mem, mem')
          /\ UNCHANGED <<saved, acked>>

\* A commit makes whole tables newer on disk, all of them at once, and never
\* puts anything on disk that the program has not written.
Commit == /\ saved' \in Tables
          /\ NotNewer(saved, saved')
          /\ NotNewer(saved', mem)
          /\ UNCHANGED <<mem, acked>>

\* A waited flush reports success: the disk holds exactly what the program sees.
Acknowledge == /\ saved = mem
               /\ acked' = mem
               /\ UNCHANGED <<mem, saved>>

\* The program ends, by a close, a crash or a power loss: what no flush took
\* is lost, a commit the device had not made durable may be lost, and nothing
\* acknowledged is.
End == /\ saved' \in Tables
       /\ NotNewer(acked, saved')
       /\ NotNewer(saved', saved)
       /\ mem' = saved'
       /\ UNCHANGED acked

Next == Change \/ Commit \/ Acknowledge \/ End

Spec == Init /\ [][Next]_<<mem, saved, acked>>
=============================================================================
