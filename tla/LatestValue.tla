---------------------------- MODULE LatestValue ----------------------------
(***************************************************************************)
(* What a snapshot bridge promises its two threads: the reader holds one     *)
(* published frame at a time, and whenever it asks for a newer one it gets  *)
(* the newest there is, never an older.                                     *)
(***************************************************************************)
EXTENDS Naturals

VARIABLES latest,   \* the number of the newest frame published
          held      \* the number of the frame the reader holds

Init == latest = 0 /\ held = 0

Publish == latest' = latest + 1 /\ held' = held
Fetch == held' = latest /\ latest' = latest

Next == Publish \/ Fetch
Spec == Init /\ [][Next]_<<latest, held>>
=============================================================================
