--------------------------- MODULE MCPresentation ---------------------------
(* A small instance of Presentation for TLC. *)
EXTENDS Presentation, TLC

CONSTANTS h, a, b, me, v1, v2

MCKeys == {h, a, b}
MCAccounts == {me}
MCViewports == {v1, v2}

\* World a closes as soon as its last occupant leaves; b keeps the default.
MCDwellOf == (a :> 0) @@ (b :> NoTime) @@ (h :> NoTime)

MCSaved == {[cached |-> TRUE, standing |-> {a, b}, game |-> b]}
=============================================================================
