------------------------------- MODULE MCHost -------------------------------
(* A small instance of Host for TLC. *)
EXTENDS Host

CONSTANTS h, a, b, c1, c2, NoDwell

MCKeys == {h, a, b}
MCAccounts == {c1, c2}
MCDwellOf == [k \in MCKeys |-> NoDwell]
=============================================================================
