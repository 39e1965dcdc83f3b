---------------------------- MODULE FifoPromise ----------------------------
(***************************************************************************)
(* What a reliable channel promises the two endpoints of a connection, with *)
(* no packets, acknowledgements or timers: every message one queued reaches *)
(* the other whole, once and in the order it was queued.                    *)
(***************************************************************************)
EXTENDS Sequences, SequencesExt

CONSTANTS Ends,     \* the endpoints
          Peer,     \* the other endpoint of each
          Message   \* what an endpoint may send

VARIABLES sent,     \* the messages an endpoint has queued
          inbox     \* the messages it has been delivered

Init == /\ sent = [e \in Ends |-> <<>>]
        /\ inbox = [e \in Ends |-> <<>>]

Send(e) == /\ \E m \in Message : sent' = [sent EXCEPT ![e] = Append(@, m)]
           /\ UNCHANGED inbox

\* One datagram may complete several messages.
Deliver(e) == /\ inbox'[e] # inbox[e]
              /\ IsPrefix(inbox[e], inbox'[e])
              /\ IsPrefix(inbox'[e], sent[Peer[e]])
              /\ inbox' = [inbox EXCEPT ![e] = inbox'[e]]
              /\ UNCHANGED sent

Next == \E e \in Ends : Send(e) \/ Deliver(e)

Spec == Init /\ [][Next]_<<sent, inbox>>
=============================================================================
