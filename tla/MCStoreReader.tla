--------------------------- MODULE MCStoreReader ---------------------------
(* Values for the constants of StoreReader. *)
EXTENDS StoreReader

CONSTANTS f1, f2, s1, s2

\* Each family registered under a stem of its own.
OwnStems == [f \in Families |-> IF f = f1 THEN s1 ELSE s2]
=============================================================================
