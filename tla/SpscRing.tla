------------------------------ MODULE SpscRing ------------------------------
(***************************************************************************)
(* engine/src/Audio/SpscRing.h: the bounded single-producer                *)
(* single-consumer ring every audio thread talks over.  Each load, store    *)
(* and slot access is a step.  The producer asks Free and then pushes so    *)
(* many without a look at the result (TopUpStream); the consumer asks       *)
(* Available and then pops so many (RenderBufferedChunk).                   *)
(***************************************************************************)
EXTENDS Integers

CONSTANTS Capacity,   \* slots, one of which stays empty
          MaxItems    \* bound: items pushed
ASSUME RingAssumption == Capacity \in Nat \ {0, 1} /\ MaxItems \in Nat

VARIABLES
  slots,      \* m_Slots
  head,       \* m_Head
  tail,       \* m_Tail
  producer,   \* where Push is
  consumer,   \* where Pop is
  room,       \* what is left of the producer's last Free
  ready,      \* what is left of the consumer's last Available
  pushed,     \* items pushed so far: the next one is pushed + 1
  popped,     \* items popped so far
  out         \* the item the last Pop took out

producerVars == <<head, producer, room, pushed>>
consumerVars == <<tail, consumer, ready, popped, out>>
ringVars == <<slots, producerVars, consumerVars>>
-----------------------------------------------------------------------------
Cells == 0 .. Capacity - 1

\* & kMask.
Wrap(i) == i % Capacity

RingInit ==
  /\ slots = [c \in Cells |-> 0]
  /\ head = 0 /\ tail = 0
  /\ producer = "idle" /\ consumer = "idle"
  /\ room = 0 /\ ready = 0
  /\ pushed = 0 /\ popped = 0 /\ out = 0
-----------------------------------------------------------------------------
(* The producer *)

\* Mutant: no slot kept empty.
FreeOfAll == Capacity - Wrap(head + Capacity - tail)
\* Free.
Free == Capacity - 1 - Wrap(head + Capacity - tail)

AskFree ==
  /\ producer = "idle"
  /\ room' = Free
  /\ UNCHANGED <<slots, head, producer, pushed, consumerVars>>

\* Mutant: the check for a full ring is left out.
FullNever == FALSE
\* The load of the consumer's tail: no free slot but the one kept empty, and the
\* push is refused.
Full == Wrap(head + 1) = Wrap(tail)

StartPush ==
  /\ producer = "idle" /\ pushed < MaxItems
  /\ ~Full
  /\ producer' = "storing"
  /\ UNCHANGED <<slots, head, room, pushed, consumerVars>>

StoreSlot ==
  /\ producer = "storing"
  /\ slots' = [slots EXCEPT ![head] = pushed + 1]
  /\ producer' = "publishing"
  /\ UNCHANGED <<head, room, pushed, consumerVars>>

PublishHead ==
  /\ producer = "publishing"
  /\ head' = Wrap(head + 1)
  /\ pushed' = pushed + 1
  /\ room' = IF room > 0 THEN room - 1 ELSE 0
  /\ producer' = "idle"
  /\ UNCHANGED <<slots, consumerVars>>
-----------------------------------------------------------------------------
(* The consumer *)

\* Available.
Available == Wrap(head + Capacity - tail)

AskAvailable ==
  /\ consumer = "idle"
  /\ ready' = Available
  /\ UNCHANGED <<slots, producerVars, tail, consumer, popped, out>>

\* The load of the producer's head; the pop of an empty ring does nothing.
StartPop ==
  /\ consumer = "idle"
  /\ tail # head
  /\ consumer' = "copying"
  /\ UNCHANGED <<slots, producerVars, tail, ready, popped, out>>

CopySlot ==
  /\ consumer = "copying"
  /\ out' = slots[tail]
  /\ consumer' = "freeing"
  /\ UNCHANGED <<slots, producerVars, tail, ready, popped>>

FreeSlot ==
  /\ consumer = "freeing"
  /\ tail' = Wrap(tail + 1)
  /\ popped' = popped + 1
  /\ ready' = IF ready > 0 THEN ready - 1 ELSE 0
  /\ consumer' = "idle"
  /\ UNCHANGED <<slots, producerVars, out>>

RingNext == \/ AskFree \/ StartPush \/ StoreSlot \/ PublishHead
        \/ AskAvailable \/ StartPop \/ CopySlot \/ FreeSlot
RingSpec == RingInit /\ [][RingNext]_ringVars
-----------------------------------------------------------------------------
(* Properties *)

RingTypeOK ==
  /\ slots \in [Cells -> Nat]
  /\ head \in Cells /\ tail \in Cells
  /\ producer \in {"idle", "storing", "publishing"}
  /\ consumer \in {"idle", "copying", "freeing"}
  /\ room \in Nat /\ ready \in Nat
  /\ pushed \in Nat /\ popped \in Nat /\ out \in Nat

\* How far a cell is from the next one to pop, and how many cells are taken.
Dist(c) == Wrap(c + Capacity - tail)
Taken == Dist(head)

\* What makes the rest hold: the cursors are as far apart as the items in
\* flight, each of them is in its cell, and neither thread is past the other.
RingInv ==
  /\ RingTypeOK
  /\ pushed = popped + Taken
  /\ \A c \in Cells : Dist(c) < Taken => slots[c] = popped + Dist(c) + 1
  /\ producer # "idle" => Taken < Capacity - 1
  /\ producer = "publishing" => slots[head] = pushed + 1
  /\ consumer # "idle" => Taken > 0
  /\ out = IF consumer = "freeing" THEN popped + 1 ELSE popped
  /\ room + Taken < Capacity /\ ready <= Taken

\* The two threads are never in one slot: the item is whole.
NoSharedSlot == ~(producer = "storing" /\ consumer = "copying" /\ head = tail)

\* Items come out in the order they went in, none lost, none twice.
InOrder == /\ popped <= pushed
           /\ consumer = "freeing" => out = popped + 1
           /\ consumer = "idle" => out = popped

\* "a subsequent Push of at most this many items is guaranteed to succeed"
\* (SpscRing.h:46), and so TopUpStream drops nothing it decoded.
RoomIsReal == room > 0 /\ producer = "idle" => ~Full

\* "a subsequent Pop of at most this many items is guaranteed to succeed"
\* (SpscRing.h:60), and so a stereo pair is popped whole.
ReadyIsReal == ready > 0 /\ consumer = "idle" => tail # head
=============================================================================
