----------------------------- MODULE AckWindow -----------------------------
(***************************************************************************)
(* An AckState (engine/include/Veng/Net/Protocol.h) at the receiver of one  *)
(* sender's packets, whose sequence wraps, over a network that loses,       *)
(* repeats and reorders.                                                    *)
(***************************************************************************)
EXTENDS AckState

CONSTANTS Jumps,    \* how far ahead of the newest one the next packet may be
          MaxSeq    \* bound: packets sent, counted without the wrap
ASSUME JumpsAssumption == WindowAssumption /\ Jumps \subseteq 1 .. Half - 1 /\ MaxSeq \in Nat

VARIABLES window,   \* the receiver's AckState
          top,      \* the newest packet received, counted without the wrap
          got       \* the packets received that the window could still hold

ackVars == <<window, top, got>>

AckInit == window = NoAcks /\ top = 0 /\ got = {}

\* Packet n arrives, for the first time or again.
Arrive(n) == /\ window' = Received(window, n % SeqSpace)
             /\ top' = IF n > top THEN n ELSE top
             /\ got' = {g \in got \cup {n} : g + Window >= top'}

\* A newer packet arrives, whatever was lost before it.
Ahead == \E j \in Jumps : top + j <= MaxSeq /\ Arrive(top + j)
\* The first packet, or one the newest has overtaken, by any of the jumps.
Behind == \/ got = {} /\ Arrive(0)
          \/ got # {} /\ \E j \in Jumps \cup {0} : j <= top /\ Arrive(top - j)

AckNext == Ahead \/ Behind
AckSpec == AckInit /\ [][AckNext]_ackVars
-----------------------------------------------------------------------------
(* Properties *)

\* The window never acknowledges a packet that has not arrived, across the wrap:
\* what a sender retires on an acknowledgement was received.
Truthful == window.heard => /\ window.remote = top % SeqSpace /\ top \in got
                            /\ \A d \in window.bits : d <= top /\ top - d \in got

\* ... and it holds every packet received less than its width behind the newest.
Complete == \A d \in 1 .. Window - 1 : d <= top /\ top - d \in got => d \in window.bits
=============================================================================
