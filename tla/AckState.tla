------------------------------ MODULE AckState ------------------------------
(***************************************************************************)
(* engine/include/Veng/Net/Protocol.h: arithmetic on sequences that wrap,   *)
(* and AckState, the sliding window of received sequences whose content a   *)
(* packet header sends back.                                                *)
(***************************************************************************)
EXTENDS Naturals, FiniteSets

CONSTANTS SeqSpace,   \* sequences are counted modulo this (2^16)
          Window    \* bits of AckBits (32)
WindowAssumption == /\ Window \in Nat \ {0}
                    /\ SeqSpace \in Nat /\ SeqSpace % 2 = 0
                    /\ 2 * Window < SeqSpace
-----------------------------------------------------------------------------
(* Operators *)

Half == SeqSpace \div 2
Seqs == 0 .. SeqSpace - 1

\* Mutant: plain comparison, deaf to the wrap.
NewerUnwrapped(a, b) == a > b
\* SequenceGreaterThan: a leads b by no more than half the circle.
Newer(a, b) == (a > b /\ a - b <= Half) \/ (a < b /\ b - a > Half)

\* a - b as a u16.
Back(a, b) == (a + SeqSpace - b) % SeqSpace

\* An AckState: `bits' holds the distances behind `remote' marked received.
NoAcks == [heard |-> FALSE, remote |-> 0, bits |-> {}]

\* Mutant: the sequence the window leaves is not marked.
SlideForgets(w, shift) == {d + shift : d \in w.bits} \cap 1 .. Window
\* The bits once the newest sequence has moved on by shift; past the end of the
\* window only it remains.
Slide(w, shift) == IF shift >= Window THEN {}
                   ELSE ({d + shift : d \in w.bits} \cup {shift}) \cap 1 .. Window

\* AckState::Receive.
Received(w, seq) ==
  IF ~w.heard THEN [heard |-> TRUE, remote |-> seq, bits |-> {}]
  ELSE IF Newer(seq, w.remote)
       THEN [heard |-> TRUE, remote |-> seq, bits |-> Slide(w, Back(seq, w.remote))]
       ELSE [w EXCEPT !.bits = @ \cup ({Back(w.remote, seq)} \cap 1 .. Window)]

\* AckState::IsAcked, and what a header carrying the window acknowledges.
Acked(w) == IF w.heard THEN {w.remote} \cup {Back(w.remote, d) : d \in w.bits} ELSE {}
=============================================================================
