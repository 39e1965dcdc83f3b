---------------------------- MODULE ChannelProofs ----------------------------
(***************************************************************************)
(* Proofs about the channels of one producer and one consumer: the snapshot *)
(* bridge, the ring, the window of acknowledged packets and the streamed     *)
(* clip, for any sizes.                                                      *)
(***************************************************************************)
EXTENDS TripleBuffer, SpscRing, AckWindow, StreamVoice, SequenceTheorems, TLAPS

-----------------------------------------------------------------------------
(* The snapshot bridge, for any number of frames of any size.               *)

LEMMA InitBridge == BridgeInit => BridgeInv
<1> SUFFICES ASSUME BridgeInit PROVE BridgeInv
  OBVIOUS
<1>1. Holds(0, 0) /\ Holds(1, 0)
  BY DEF BridgeInit, Holds, BufferSlots
<1>2. frame - 1 = 0 /\ 0 \in 0 .. frame - 1
  BY DEF BridgeInit
<1> QED
  BY <1>1, <1>2 DEF BridgeInit, BridgeInv, BridgeTypeOK, ThreeSlots, BufferSlots

\* A write disturbs the producer's slot only, which holds neither the front nor
\* the middle frame.
LEMMA WriteKeeps ==
  ASSUME BridgeInv, NEW w \in Words, Write(w)
  PROVE  BridgeInv'
<1>1. BridgeTypeOK'
  BY DEF BridgeInv, BridgeTypeOK, Write, BufferSlots
<1>2. ThreeSlots'
  BY DEF BridgeInv, ThreeSlots, Write
<1>3. \A s \in BufferSlots : s # writeIndex => buffers'[s] = buffers[s]
  BY DEF BridgeInv, BridgeTypeOK, Write
<1>4. readIndex # writeIndex /\ middle.index # writeIndex /\ readIndex \in BufferSlots /\ middle.index \in BufferSlots
  BY DEF BridgeInv, BridgeTypeOK, ThreeSlots
<1>5. \A n \in Nat : /\ Holds(readIndex, n) <=> Holds(readIndex, n)'
                     /\ Holds(middle.index, n) <=> Holds(middle.index, n)'
  BY <1>3, <1>4 DEF Write, Holds
<1>6. frame \in Nat \ {0} /\ frame - 1 \in Nat /\ \A n \in 0 .. frame - 1 : n \in Nat
  BY DEF BridgeInv, BridgeTypeOK
<1>7. \A x \in Words \ unwritten' : buffers'[writeIndex'][x] = frame'
  BY DEF BridgeInv, BridgeTypeOK, Write
<1> QED
  BY <1>1, <1>2, <1>5, <1>6, <1>7 DEF BridgeInv, Write

\* Publish moves the complete back buffer to the middle.
LEMMA PublishKeeps ==
  ASSUME BridgeInv, Publish
  PROVE  BridgeInv'
<1>1. BridgeTypeOK'
  BY DEF BridgeInv, BridgeTypeOK, Publish, TakenBack, BufferSlots
<1>2. ThreeSlots'
  BY DEF BridgeInv, ThreeSlots, BridgeTypeOK, Publish, TakenBack
<1>3. frame \in Nat \ {0} /\ frame' = frame + 1 /\ frame' - 1 = frame
  BY DEF BridgeInv, BridgeTypeOK, Publish
<1>4. \A w \in Words : buffers[writeIndex][w] = frame
  BY DEF BridgeInv, Publish
<1>5. buffers[writeIndex] = [w \in Words |-> frame]
  <2>1. buffers[writeIndex] \in [Words -> Nat]
    BY DEF BridgeInv, BridgeTypeOK
  <2> QED
    BY <1>4, <2>1
<1>6. Holds(middle.index, frame - 1)'
  BY <1>3, <1>5 DEF Publish, Holds
<1>7. \E n \in 0 .. frame' - 1 : Holds(readIndex, n)'
  <2>1. PICK n \in 0 .. frame - 1 : Holds(readIndex, n)
    BY DEF BridgeInv
  <2>2. n \in 0 .. frame' - 1
    BY <1>3
  <2>3. Holds(readIndex, n)'
    BY <2>1 DEF Holds, Publish
  <2> QED
    BY <2>2, <2>3
<1>8. middle'.dirty /\ Words \ unwritten' = {}
  BY DEF Publish
<1> QED
  BY <1>1, <1>2, <1>6, <1>7, <1>8 DEF BridgeInv

\* The consumer's exchange takes the fresh frame and leaves its old one.
LEMMA LatchKeeps ==
  ASSUME BridgeInv, Latch
  PROVE  BridgeInv'
<1>1. BridgeTypeOK'
  BY DEF BridgeInv, BridgeTypeOK, Latch, BufferSlots
<1>2. ThreeSlots'
  BY DEF BridgeInv, ThreeSlots, BridgeTypeOK, Latch
<1>3. Holds(middle.index, frame - 1)
  BY DEF BridgeInv, Latch
<1>4. Holds(readIndex, frame - 1)'
  BY <1>3 DEF Latch, Holds
<1>5. frame' - 1 \in 0 .. frame' - 1
  BY DEF BridgeInv, BridgeTypeOK, Latch
<1>6. \E n \in 0 .. frame' - 1 : Holds(readIndex, n)'
  BY <1>4, <1>5 DEF Latch
<1>7. ~middle'.dirty /\ reader' # "latching"
  BY DEF Latch
<1>8. \A w \in Words \ unwritten' : buffers'[writeIndex'][w] = frame'
  BY DEF BridgeInv, Latch
<1> QED
  BY <1>1, <1>2, <1>4, <1>6, <1>7, <1>8 DEF BridgeInv

LEMMA StepBridge == BridgeInv /\ [BridgeNext]_bridgeVars => BridgeInv'
<1> SUFFICES ASSUME BridgeInv, [BridgeNext]_bridgeVars PROVE BridgeInv'
  OBVIOUS
<1>1. CASE \E w \in Words : Write(w)
  BY <1>1, WriteKeeps
<1>2. CASE Publish
  BY <1>2, PublishKeeps
<1>3. CASE Look
  BY <1>3 DEF BridgeInv, BridgeTypeOK, ThreeSlots, Look, Fresh, Holds
<1>4. CASE Latch
  BY <1>4, LatchKeeps
<1>5. CASE Release
  BY <1>5 DEF BridgeInv, BridgeTypeOK, ThreeSlots, Release, Holds
<1>6. CASE UNCHANGED bridgeVars
  BY <1>6 DEF BridgeInv, BridgeTypeOK, ThreeSlots, Holds, bridgeVars
<1> QED
  BY <1>1, <1>2, <1>3, <1>4, <1>5, <1>6 DEF BridgeNext

\* TripleBuffer.h:30: the three indices stay distinct, the middle is the newest
\* frame while it is fresh, the front is complete.
THEOREM BridgeHolds == BridgeSpec => []BridgeInv
<1> QED
  BY InitBridge, StepBridge, PTL DEF BridgeSpec

\* TripleBuffer.h:14: the reader "never sees a torn frame".
THEOREM NeverTorn == BridgeSpec => []FrontIsWhole
<1>1. BridgeInv => FrontIsWhole
  BY DEF BridgeInv, FrontIsWhole
<1> QED
  BY <1>1, BridgeHolds, PTL

\* The number stamped on a slot that holds one frame.
LEMMA StampOf ==
  ASSUME BufferAssumption, NEW slot, NEW n, Holds(slot, n)
  PROVE  buffers[slot][CHOOSE w \in Words : TRUE] = n
<1>1. (CHOOSE w \in Words : TRUE) \in Words
  BY DEF BufferAssumption
<1> QED
  BY <1>1 DEF Holds

\* FetchNewest latches the newest published frame, never an older one than the
\* reader has.
THEOREM FetchesTheNewest ==
  ASSUME BufferAssumption
  PROVE  BridgeSpec => Newest
<1>1. BridgeInit => Bridge!Init
  <2> SUFFICES ASSUME BridgeInit PROVE Bridge!Init
    OBVIOUS
  <2>1. Holds(readIndex, 0)
    BY DEF BridgeInit, Holds, BufferSlots
  <2>2. Held = 0
    BY <2>1, StampOf DEF Held
  <2>3. frame - 1 = 0
    BY DEF BridgeInit
  <2> QED
    BY <2>2, <2>3 DEF Bridge!Init
<1>2. BridgeInv /\ BridgeInv' /\ [BridgeNext]_bridgeVars => [Bridge!Next]_<<frame - 1, Held>>
  <2> SUFFICES ASSUME BridgeInv, BridgeInv', [BridgeNext]_bridgeVars
               PROVE  Bridge!Next \/ (frame' - 1 = frame - 1 /\ Held' = Held)
    OBVIOUS
  <2>1. CASE \E w \in Words : Write(w)
    <3>1. PICK w \in Words : Write(w)
      BY <2>1
    <3>2. buffers'[readIndex'] = buffers[readIndex]
      BY <3>1 DEF BridgeInv, BridgeTypeOK, ThreeSlots, Write
    <3> QED
      BY <3>1, <3>2 DEF Held, Write
  <2>2. CASE Publish
    BY <2>2 DEF BridgeInv, BridgeTypeOK, Publish, Held, Bridge!Next, Bridge!Publish
  <2>3. CASE Look \/ Release \/ UNCHANGED bridgeVars
    BY <2>3 DEF Look, Release, bridgeVars, Held
  <2>4. CASE Latch
    <3>1. Holds(middle.index, frame - 1)
      BY <2>4 DEF BridgeInv, Latch
    <3>2. buffers[middle.index][CHOOSE w \in Words : TRUE] = frame - 1
      BY <3>1, StampOf
    <3>3. Held' = frame - 1 /\ frame' = frame
      BY <2>4, <3>2 DEF Latch, Held
    <3> QED
      BY <3>3 DEF Bridge!Next, Bridge!Fetch
  <2> QED
    BY <2>1, <2>2, <2>3, <2>4 DEF BridgeNext
<1> QED
  BY <1>1, <1>2, BridgeHolds, PTL DEF BridgeSpec, Newest, Bridge!Spec

-----------------------------------------------------------------------------
(* The ring, for any capacity.  Everything turns on one fact: a cursor and a *)
(* distance are each less than the capacity, so the wrap takes the capacity  *)
(* off at most once.                                                         *)

LEMMA WrapOnce ==
  ASSUME NEW i \in Nat, i < 2 * Capacity
  PROVE  Wrap(i) = IF i < Capacity THEN i ELSE i - Capacity
<1>1. CASE i < Capacity
  BY <1>1, RingAssumption, SMT DEF Wrap
<1>2. CASE i >= Capacity
  BY <1>2, RingAssumption, SMT DEF Wrap
<1> QED
  BY <1>1, <1>2, RingAssumption

\* The distance of a cell, without the wrap.
LEMMA DistOf ==
  ASSUME NEW c \in Cells, tail \in Cells
  PROVE  Dist(c) = IF c >= tail THEN c - tail ELSE c + Capacity - tail
<1>1. c + Capacity - tail \in Nat /\ c + Capacity - tail < 2 * Capacity
  BY RingAssumption DEF Cells
<1> QED
  BY <1>1, WrapOnce, RingAssumption DEF Dist, Cells

LEMMA NextOf ==
  ASSUME NEW c \in Cells
  PROVE  Wrap(c + 1) = IF c + 1 = Capacity THEN 0 ELSE c + 1
<1>1. c + 1 \in Nat /\ c + 1 < 2 * Capacity
  BY RingAssumption DEF Cells
<1> QED
  BY <1>1, WrapOnce, RingAssumption DEF Cells

LEMMA WrapCell == ASSUME NEW c \in Cells PROVE Wrap(c) = c
<1>1. c \in Nat /\ c < Capacity
  BY RingAssumption DEF Cells
<1> QED
  BY <1>1, WrapOnce, RingAssumption

LEMMA InitRing == RingInit => RingInv
<1> SUFFICES ASSUME RingInit PROVE RingInv
  OBVIOUS
<1>1. 0 \in Cells
  BY RingAssumption DEF Cells
<1>2. RingTypeOK
  BY <1>1 DEF RingInit, RingTypeOK
<1>3. Taken = 0
  BY <1>1, DistOf DEF RingInit, Taken
<1>4. \A c \in Cells : Dist(c) \in Nat
  BY <1>1, DistOf, RingAssumption DEF RingInit, Cells
<1> QED
  BY <1>2, <1>3, <1>4, RingAssumption DEF RingInit, RingInv

\* Distances as numbers, in the state before a step and after it.
LEMMA Distances ==
  ASSUME RingTypeOK
  PROVE  /\ Taken = IF head >= tail THEN head - tail ELSE head + Capacity - tail
         /\ Taken \in Cells
         /\ \A c \in Cells : /\ Dist(c) = IF c >= tail THEN c - tail ELSE c + Capacity - tail
                             /\ Dist(c) \in Cells
<1>1. head \in Cells /\ tail \in Cells
  BY DEF RingTypeOK
<1>2. \A c \in Cells : /\ Dist(c) = IF c >= tail THEN c - tail ELSE c + Capacity - tail
                       /\ Dist(c) \in Cells
  BY <1>1, DistOf, RingAssumption DEF Cells
<1> QED
  BY <1>1, <1>2 DEF Taken

LEMMA DistancesAfter ==
  ASSUME RingTypeOK'
  PROVE  \A c \in Cells : Dist(c)' = IF c >= tail' THEN c - tail' ELSE c + Capacity - tail'
<1> SUFFICES ASSUME NEW c \in Cells
             PROVE  Dist(c)' = IF c >= tail' THEN c - tail' ELSE c + Capacity - tail'
  OBVIOUS
<1>1. tail' \in Cells
  BY DEF RingTypeOK
<1>2. c + Capacity - tail' \in Nat /\ c + Capacity - tail' < 2 * Capacity
  <2> DEFINE t == tail'
  <2>1. t \in 0 .. Capacity - 1 /\ c \in 0 .. Capacity - 1
    BY <1>1 DEF Cells
  <2> HIDE DEF t
  <2>2. c + Capacity - t \in Nat /\ c + Capacity - t < 2 * Capacity
    BY <2>1, RingAssumption
  <2> QED
    BY <2>2 DEF t
<1>3. Dist(c)' = Wrap(c + Capacity - tail')
  BY DEF Dist
<1> QED
  BY <1>1, <1>2, <1>3, WrapOnce, RingAssumption DEF Cells

LEMMA StepRing == RingInv /\ [RingNext]_ringVars => RingInv'
<1> SUFFICES ASSUME RingInv, [RingNext]_ringVars PROVE RingInv'
  OBVIOUS
<1> USE RingAssumption
<1>0. RingTypeOK /\ head \in Cells /\ tail \in Cells
  BY DEF RingInv, RingTypeOK
<1>1. CASE AskFree
  <2>1. Free = Capacity - 1 - Taken
    BY DEF Free, Taken, Dist
  <2>2. room' + Taken < Capacity /\ room' \in Nat
    BY <1>0, <1>1, <2>1, Distances DEF AskFree, Cells
  <2> QED
    BY <1>1, <2>2 DEF RingInv, RingTypeOK, AskFree, Taken, Dist, consumerVars
<1>2. CASE StartPush
  <2>1. Wrap(head + 1) # tail
    BY <1>0, <1>2, WrapCell DEF StartPush, Full
  <2>2. Taken < Capacity - 1
    BY <1>0, <2>1, NextOf, Distances DEF Cells
  <2> QED
    BY <1>2, <2>2 DEF RingInv, RingTypeOK, StartPush, Taken, Dist, consumerVars
<1>3. CASE StoreSlot
  <2>1. \A c \in Cells : Dist(c) < Taken => c # head
    <3>1. Taken = Dist(head) /\ Taken \in Nat
      BY <1>0, Distances DEF Taken, Cells
    <3> QED
      BY <3>1
  <2>2. slots' \in [Cells -> Nat] /\ slots'[head] = pushed + 1
    BY <1>0, <1>3 DEF RingTypeOK, StoreSlot
  <2>3. \A c \in Cells : Dist(c) < Taken => slots'[c] = slots[c]
    BY <1>0, <1>3, <2>1 DEF RingTypeOK, StoreSlot
  <2> QED
    BY <1>3, <2>2, <2>3 DEF RingInv, RingTypeOK, StoreSlot, Taken, Dist, consumerVars
<1>4. CASE PublishHead
  <2>1. head' \in Cells /\ head' = IF head + 1 = Capacity THEN 0 ELSE head + 1
    BY <1>0, <1>4, NextOf DEF PublishHead, Cells
  <2>2. Taken < Capacity - 1 /\ slots[head] = pushed + 1 /\ pushed = popped + Taken
    BY <1>4 DEF RingInv, PublishHead
  <2>3. RingTypeOK'
    BY <1>0, <1>4, <2>1 DEF RingTypeOK, PublishHead, consumerVars
  <2>4. tail' = tail /\ \A c \in Cells : Dist(c)' = Dist(c)
    BY <1>4 DEF PublishHead, consumerVars, Dist
  <2>5. Taken' = Taken + 1
    BY <1>0, <2>1, <2>2, <2>3, <2>4, Distances DEF Taken, Cells
  <2>6. \A c \in Cells : Dist(c) = Taken => c = head
    BY <1>0, Distances DEF Cells
  <2>7. \A c \in Cells : Dist(c)' < Taken' => slots'[c] = popped' + Dist(c)' + 1
    <3> SUFFICES ASSUME NEW c \in Cells, Dist(c) < Taken + 1
                 PROVE  slots[c] = popped + Dist(c) + 1
      BY <1>4, <2>4, <2>5 DEF PublishHead, consumerVars
    <3>1. CASE Dist(c) < Taken
      BY <3>1 DEF RingInv
    <3>2. CASE Dist(c) = Taken
      BY <2>2, <2>6, <3>2
    <3>3. Dist(c) \in Nat /\ Taken \in Nat
      BY <1>0, Distances DEF Cells
    <3> QED
      BY <3>1, <3>2, <3>3
  <2>8. Taken \in Nat /\ popped \in Nat /\ room \in Nat /\ ready \in Nat
    BY <1>0, Distances DEF RingTypeOK, Cells
  <2> QED
    BY <1>4, <2>2, <2>3, <2>5, <2>7, <2>8 DEF RingInv, PublishHead, consumerVars
<1>5. CASE AskAvailable
  <2>1. Available = Taken
    BY DEF Available, Taken, Dist
  <2>2. ready' <= Taken /\ ready' \in Nat
    BY <1>0, <1>5, <2>1, Distances DEF AskAvailable, Cells
  <2> QED
    BY <1>5, <2>2 DEF RingInv, RingTypeOK, AskAvailable, Taken, Dist, producerVars
<1>6. CASE StartPop
  <2>1. Taken > 0
    BY <1>0, <1>6, Distances DEF StartPop, Cells
  <2> QED
    BY <1>6, <2>1 DEF RingInv, RingTypeOK, StartPop, Taken, Dist, producerVars
<1>7. CASE CopySlot
  <2>1. Dist(tail) = 0 /\ Taken > 0
    BY <1>0, <1>7, Distances DEF RingInv, CopySlot, Cells
  <2>2. slots[tail] = popped + 1
    BY <1>0, <2>1 DEF RingInv, RingTypeOK
  <2> QED
    BY <1>7, <2>2 DEF RingInv, RingTypeOK, CopySlot, Taken, Dist, producerVars
<1>8. CASE FreeSlot
  <2>1. tail' \in Cells /\ tail' = IF tail + 1 = Capacity THEN 0 ELSE tail + 1
    BY <1>0, <1>8, NextOf DEF FreeSlot, Cells
  <2>2. Taken > 0 /\ pushed = popped + Taken /\ out = popped + 1
    BY <1>8 DEF RingInv, FreeSlot
  <2>3. RingTypeOK'
    BY <1>0, <1>8, <2>1 DEF RingTypeOK, FreeSlot, producerVars
  <2>4. head' = head /\ popped' = popped + 1 /\ pushed' = pushed /\ slots' = slots
    BY <1>8 DEF FreeSlot, producerVars
  <2>5. Taken' = IF head' >= tail' THEN head' - tail' ELSE head' + Capacity - tail'
    <3>1. Taken' = Dist(head)'
      BY DEF Taken
    <3>2. Dist(head)' = Wrap(head + Capacity - tail')
      BY <2>4 DEF Dist
    <3>3. head + Capacity - tail' \in Nat /\ head + Capacity - tail' < 2 * Capacity
      BY <1>0, <2>1 DEF Cells
    <3> QED
      BY <1>0, <2>1, <2>4, <3>1, <3>2, <3>3, WrapOnce DEF Cells
  <2>6. Taken' = Taken - 1
    BY <1>0, <2>1, <2>2, <2>4, <2>5, Distances DEF Cells
  <2>7. \A c \in Cells : Dist(c)' = IF c >= tail' THEN c - tail' ELSE c + Capacity - tail'
    BY <2>3, DistancesAfter
  <2>8. \A c \in Cells : Dist(c)' = IF c = tail THEN Capacity - 1 ELSE Dist(c) - 1
    BY <1>0, <2>1, <2>7, Distances DEF Cells
  <2>9. Taken \in Cells /\ popped \in Nat /\ room \in Nat /\ ready \in Nat
    BY <1>0, Distances DEF RingTypeOK
  <2>10. \A c \in Cells : Dist(c)' < Taken' => slots'[c] = popped' + Dist(c)' + 1
    <3> SUFFICES ASSUME NEW c \in Cells, Dist(c)' < Taken'
                 PROVE  slots[c] = popped + 1 + Dist(c)' + 1
      BY <2>4
    <3>1. c # tail /\ Dist(c)' = Dist(c) - 1 /\ Dist(c) \in Cells
      BY <1>0, <2>6, <2>8, <2>9, Distances DEF Cells
    <3>2. Dist(c) < Taken
      BY <2>6, <2>9, <3>1 DEF Cells
    <3>3. slots[c] = popped + Dist(c) + 1
      BY <3>2 DEF RingInv
    <3> QED
      BY <2>9, <3>1, <3>3 DEF Cells
  <2> QED
    BY <1>8, <2>2, <2>3, <2>4, <2>6, <2>9, <2>10 DEF RingInv, FreeSlot, producerVars, Cells
<1>9. CASE UNCHANGED ringVars
  BY <1>9 DEF RingInv, RingTypeOK, ringVars, producerVars, consumerVars, Taken, Dist
<1> QED
  BY <1>1, <1>2, <1>3, <1>4, <1>5, <1>6, <1>7, <1>8, <1>9 DEF RingNext

THEOREM RingHolds == RingSpec => []RingInv
<1> QED
  BY InitRing, StepRing, PTL DEF RingSpec

\* The producer and the consumer are never at work in one slot.
THEOREM NeverSharesASlot == RingSpec => []NoSharedSlot
<1>1. RingInv => NoSharedSlot
  <2> SUFFICES ASSUME RingInv, head = tail PROVE consumer = "idle"
    BY DEF NoSharedSlot
  <2>1. Taken = 0
    BY Distances DEF RingInv, RingTypeOK, Cells
  <2> QED
    BY <2>1 DEF RingInv
<1> QED
  BY <1>1, RingHolds, PTL

\* The ring is a queue.
THEOREM FirstInFirstOut == RingSpec => []InOrder
<1>1. RingInv => InOrder
  <2> SUFFICES ASSUME RingInv PROVE InOrder
    OBVIOUS
  <2>1. Taken \in Nat /\ popped \in Nat
    BY Distances, RingAssumption DEF RingInv, RingTypeOK, Cells
  <2> QED
    BY <2>1 DEF RingInv, InOrder
<1> QED
  BY <1>1, RingHolds, PTL

\* SpscRing.h:46 and 60: what Free and Available promise still holds when it is
\* used, however the other thread has moved since.
THEOREM PromisesHold == RingSpec => [](RoomIsReal /\ ReadyIsReal)
<1>1. RingInv => RoomIsReal /\ ReadyIsReal
  <2> SUFFICES ASSUME RingInv PROVE RoomIsReal /\ ReadyIsReal
    OBVIOUS
  <2>1. /\ head \in Cells /\ tail \in Cells /\ Taken \in Nat
        /\ Taken = IF head >= tail THEN head - tail ELSE head + Capacity - tail
    BY Distances, RingAssumption DEF RingInv, RingTypeOK, Cells
  <2>2. room \in Nat /\ ready \in Nat /\ room + Taken < Capacity /\ ready <= Taken
    BY DEF RingInv, RingTypeOK
  <2>3. RoomIsReal
    BY <2>1, <2>2, NextOf, WrapCell, RingAssumption DEF RoomIsReal, Full, Cells
  <2>4. ReadyIsReal
    BY <2>1, <2>2, RingAssumption DEF ReadyIsReal, Cells
  <2> QED
    BY <2>3, <2>4
<1> QED
  BY <1>1, RingHolds, PTL

-----------------------------------------------------------------------------
(* The window of acknowledged packets, for any width and any sequence space  *)
(* more than twice as wide.  Packets are counted without the wrap; less than *)
(* half a turn apart, the wrapped sequences compare and subtract as the      *)
(* counts do.                                                                *)

-----------------------------------------------------------------------------
(* Sequences less than half a turn apart.                                   *)

LEMMA Widths ==
  /\ SeqSpace \in Nat /\ Half \in Nat /\ SeqSpace = Half + Half /\ Half > Window
  /\ Window \in Nat \ {0} /\ Jumps \subseteq 1 .. Half - 1 /\ MaxSeq \in Nat
BY JumpsAssumption DEF WindowAssumption, Half

\* Dividing by a number of any size.
LEMMA Quotient ==
  ASSUME NEW m \in Nat, m > 0, NEW a \in Nat
  PROVE  /\ a % m \in 0 .. m - 1 /\ a \div m \in Nat
         /\ a = m * (a \div m) + (a % m)
OBVIOUS

LEMMA Remainder ==
  ASSUME NEW m \in Nat, m > 0, NEW q \in Nat, NEW r \in 0 .. m - 1
  PROVE  (m * q + r) % m = r
OBVIOUS

\* A count wraps to a sequence, and a little further on to one that has wrapped at
\* most once more.
LEMMA WrapAhead ==
  ASSUME NEW m \in Nat, NEW n \in Nat, NEW d \in 0 .. m - 1
  PROVE  (n + d) % m = IF (n % m) + d < m THEN (n % m) + d ELSE (n % m) + d - m
<1> DEFINE r == n % m
           q == n \div m
<1>1. m > 0 /\ r \in 0 .. m - 1 /\ q \in Nat /\ n = m * q + r
  BY Quotient
<1> HIDE DEF r, q
<1>2. CASE r + d < m
  <2>1. n + d = m * q + (r + d) /\ r + d \in 0 .. m - 1
    BY <1>1, <1>2
  <2> QED
    BY <1>1, <1>2, <2>1, Remainder DEF r
<1>3. CASE r + d >= m
  <2>1. m * (q + 1) = m * q + m
    BY <1>1
  <2>2. n + d = m * (q + 1) + (r + d - m) /\ r + d - m \in 0 .. m - 1
    BY <1>1, <1>3, <2>1
  <2> DEFINE p == q + 1
             e == r + d - m
  <2>3. p \in Nat /\ e \in 0 .. m - 1 /\ n + d = m * p + e
    BY <1>1, <2>2
  <2> HIDE DEF p, e
  <2>4. (n + d) % m = e
    BY <1>1, <2>3, Remainder
  <2>5. (n % m) + d >= m /\ e = (n % m) + d - m /\ (n % m) \in Nat
    BY <1>1, <1>3 DEF e, r
  <2> QED
    BY <2>4, <2>5
<1> QED
  BY <1>1, <1>2, <1>3 DEF r

\* Less than half a turn apart, the later of two counts has the newer sequence, and
\* the sequences are as far apart as the counts.
LEMMA Compare ==
  ASSUME NEW n \in Nat, NEW d \in 0 .. Half - 1
  PROVE  /\ d > 0 => Newer((n + d) % SeqSpace, n % SeqSpace)
         /\ ~Newer(n % SeqSpace, (n + d) % SeqSpace)
         /\ Back((n + d) % SeqSpace, n % SeqSpace) = d
<1> DEFINE r == n % SeqSpace
           s == (n + d) % SeqSpace
<1>1. SeqSpace \in Nat /\ Half \in Nat /\ SeqSpace = Half + Half /\ d \in 0 .. SeqSpace - 1
  BY Widths
<1>2. r \in 0 .. SeqSpace - 1
  BY <1>1, Quotient
<1>3. s = IF r + d < SeqSpace THEN r + d ELSE r + d - SeqSpace
  BY <1>1, WrapAhead
<1> HIDE DEF r, s
<1>4. d > 0 => Newer(s, r)
  BY <1>1, <1>2, <1>3 DEF Newer
<1>5. ~Newer(r, s)
  BY <1>1, <1>2, <1>3 DEF Newer
<1>6. Back(s, r) = d
  <2>1. CASE r + d < SeqSpace
    <3>1. s + SeqSpace - r = SeqSpace * 1 + d
      BY <1>1, <1>2, <1>3, <2>1
    <3> QED
      BY <1>1, <3>1, Remainder DEF Back
  <2>2. CASE r + d >= SeqSpace
    <3>1. s + SeqSpace - r = SeqSpace * 0 + d
      BY <1>1, <1>2, <1>3, <2>2
    <3> QED
      BY <1>1, <3>1, Remainder DEF Back
  <2> QED
    BY <1>1, <1>2, <2>1, <2>2
<1> QED
  BY <1>4, <1>5, <1>6 DEF r, s

-----------------------------------------------------------------------------
(* The invariant.                                                           *)

WindowTypeOK ==
  /\ top \in Nat /\ got \subseteq 0 .. top
  /\ window = [heard |-> window.heard, remote |-> window.remote, bits |-> window.bits]
  /\ window.heard \in BOOLEAN /\ window.bits \subseteq 1 .. Window

AckInv ==
  /\ WindowTypeOK /\ Truthful /\ Complete
  /\ \A g \in got : g + Window >= top
  /\ ~window.heard <=> got = {}
  /\ got = {} => top = 0 /\ window.bits = {}

LEMMA InitAckInv == AckInit => AckInv
<1> SUFFICES ASSUME AckInit PROVE AckInv
  OBVIOUS
<1>1. window.heard = FALSE /\ window.bits = {} /\ got = {} /\ top = 0
  BY DEF AckInit, NoAcks
<1>2. WindowTypeOK
  BY DEF AckInit, NoAcks, WindowTypeOK
<1> QED
  BY <1>1, <1>2 DEF AckInv, Truthful, Complete

\* The first packet, whichever it is.
LEMMA FirstKeeps ==
  ASSUME AckInv, got = {}, NEW n \in Nat, Arrive(n)
  PROVE  AckInv'
<1>1. top = 0 /\ ~window.heard
  BY DEF AckInv
<1>2. window' = [heard |-> TRUE, remote |-> n % SeqSpace, bits |-> {}]
  BY <1>1 DEF Arrive, Received
<1>3. top' = n /\ got' = {n}
  BY <1>1, Widths DEF Arrive
<1>4. window'.heard /\ window'.remote = n % SeqSpace /\ window'.bits = {}
  BY <1>2
<1>5. WindowTypeOK'
  BY <1>2, <1>3, <1>4 DEF WindowTypeOK
<1>6. Truthful' /\ Complete'
  BY <1>3, <1>4, Widths DEF Truthful, Complete
<1> QED
  BY <1>3, <1>4, <1>5, <1>6, Widths DEF AckInv

\* A newer packet moves the window on.  At exactly its width the window forgets the
\* packet that was the newest; past it, everything.
LEMMA NewerKeeps ==
  ASSUME AckInv, got # {}, NEW j \in 1 .. Half - 1, Arrive(top + j)
  PROVE  AckInv'
<1>1. /\ top \in Nat /\ got \subseteq 0 .. top /\ window.heard /\ window.remote = top % SeqSpace
      /\ window.bits \subseteq 1 .. Window /\ top \in got
      /\ \A d \in window.bits : d <= top /\ top - d \in got
      /\ \A d \in 1 .. Window - 1 : d <= top /\ top - d \in got => d \in window.bits
  BY DEF AckInv, WindowTypeOK, Truthful, Complete
<1>2. Newer((top + j) % SeqSpace, top % SeqSpace) /\ Back((top + j) % SeqSpace, top % SeqSpace) = j
  <2>1. top \in Nat /\ j \in 0 .. Half - 1 /\ j > 0
    BY <1>1, Widths
  <2> QED
    BY <2>1, Compare
<1>3. window' = [heard |-> TRUE, remote |-> (top + j) % SeqSpace, bits |-> Slide(window, j)]
  BY <1>1, <1>2 DEF Arrive, Received
<1>4. /\ top' = top + j /\ got' = {g \in got \cup {top + j} : g + Window >= top + j}
      /\ window'.heard /\ window'.remote = top' % SeqSpace /\ window'.bits = Slide(window, j)
  BY <1>1, <1>3, Widths DEF Arrive
<1>5. \A d \in window'.bits : d \in 1 .. Window /\ d <= top' /\ top' - d \in got'
  <2> SUFFICES ASSUME NEW d \in window'.bits PROVE d \in 1 .. Window /\ d <= top' /\ top' - d \in got'
    OBVIOUS
  <2>1. j < Window /\ d \in 1 .. Window /\ (d = j \/ \E b \in window.bits : d = b + j)
    BY <1>4, Widths DEF Slide
  <2>2. CASE d = j
    BY <1>1, <1>4, <2>1, <2>2, Widths
  <2>3. ASSUME NEW b \in window.bits, d = b + j PROVE d <= top' /\ top' - d \in got'
    <3>1. b \in Nat /\ b <= top /\ top - b \in got
      BY <1>1, <2>3, Widths
    <3>2. b \in Nat /\ b <= top /\ top - b \in got /\ top' - d = top - b
      BY <1>1, <1>4, <2>3, <3>1, Widths
    <3> QED
      BY <1>1, <1>4, <2>1, <2>3, <3>2, Widths
  <2> QED
    BY <2>1, <2>2, <2>3
<1>6. ASSUME NEW d \in 1 .. Window - 1, d <= top', top' - d \in got'
      PROVE  d \in window'.bits
  <2>1. top + j - d \in got
    BY <1>1, <1>4, <1>6, Widths
  <2>2. d >= j /\ j < Window
    BY <1>1, <1>6, <2>1, Widths
  <2>3. CASE d = j
    BY <1>4, <1>6, <2>2, <2>3, Widths DEF Slide
  <2>4. CASE d > j
    <3>1. d - j \in 1 .. Window - 1 /\ d - j <= top /\ top - (d - j) \in got
      BY <1>1, <1>4, <1>6, <2>1, <2>2, <2>4, Widths
    <3>2. d - j \in window.bits /\ d = (d - j) + j /\ d \in 1 .. Window
      BY <1>1, <1>6, <3>1, Widths
    <3> QED
      BY <1>4, <2>2, <3>2, Widths DEF Slide
  <2> QED
    BY <1>6, <2>2, <2>3, <2>4, Widths
<1>7. top' \in got' /\ got' \subseteq 0 .. top' /\ top' \in Nat
  <2>1. top' = top + j /\ top + j \in Nat /\ top + j + Window >= top + j
    <3>1. top \in Nat /\ j \in Nat /\ Window \in Nat
      BY <1>1, Widths
    <3> QED
      BY <1>4, <3>1
  <2>2. \A g \in got \cup {top + j} : g \in 0 .. top + j
    BY <1>1, Widths
  <2>3. top' \in got'
    BY <1>4, <2>1
  <2>4. got' \subseteq 0 .. top'
    BY <1>4, <2>1, <2>2
  <2> QED
    BY <2>1, <2>3, <2>4
<1>8. WindowTypeOK'
  BY <1>3, <1>4, <1>5, <1>7 DEF WindowTypeOK
<1>9. Truthful' /\ Complete'
  BY <1>4, <1>5, <1>6, <1>7 DEF Truthful, Complete
<1> QED
  BY <1>4, <1>7, <1>8, <1>9 DEF AckInv

\* An older packet, or the newest again, is marked if the window still reaches it.
LEMMA OlderKeeps ==
  ASSUME AckInv, got # {}, NEW j \in 0 .. Half - 1, j <= top, Arrive(top - j)
  PROVE  AckInv'
<1>1. /\ top \in Nat /\ got \subseteq 0 .. top /\ window.heard /\ window.remote = top % SeqSpace
      /\ window.bits \subseteq 1 .. Window /\ top \in got
      /\ \A d \in window.bits : d <= top /\ top - d \in got
      /\ \A d \in 1 .. Window - 1 : d <= top /\ top - d \in got => d \in window.bits
      /\ \A g \in got : g + Window >= top
      /\ window = [heard |-> window.heard, remote |-> window.remote, bits |-> window.bits]
  BY DEF AckInv, WindowTypeOK, Truthful, Complete
<1> DEFINE n == top - j
           reached == {j} \cap 1 .. Window
<1>2. n \in Nat /\ n + j = top
  BY <1>1, Widths
<1>3. ~Newer(n % SeqSpace, top % SeqSpace) /\ Back(top % SeqSpace, n % SeqSpace) = j
  <2> HIDE DEF n
  <2> QED
    BY <1>2, Compare
<1>4. window' = [window EXCEPT !.bits = window.bits \cup reached]
  BY <1>1, <1>3 DEF Arrive, Received
<1>5. window'.heard = window.heard /\ window'.remote = window.remote
      /\ window'.bits = window.bits \cup reached
      /\ window' = [heard |-> window'.heard, remote |-> window'.remote, bits |-> window'.bits]
  BY <1>1, <1>4
<1>6. top' = top /\ got' = {g \in got \cup {n} : g + Window >= top}
  BY <1>1, <1>2 DEF Arrive
<1>7. top' \in got' /\ got' \subseteq 0 .. top' /\ got \subseteq got'
  BY <1>1, <1>2, <1>6, Widths
<1>8. \A d \in window'.bits : d \in 1 .. Window /\ d <= top' /\ top' - d \in got'
  BY <1>1, <1>2, <1>5, <1>6, <1>7, Widths
<1>9. \A d \in 1 .. Window - 1 : d <= top' /\ top' - d \in got' => d \in window'.bits
  BY <1>1, <1>2, <1>5, <1>6, Widths
<1>10. WindowTypeOK'
  BY <1>1, <1>5, <1>6, <1>7, <1>8 DEF WindowTypeOK
<1>11. Truthful' /\ Complete'
  BY <1>1, <1>5, <1>6, <1>7, <1>8, <1>9 DEF Truthful, Complete
<1> QED
  BY <1>1, <1>5, <1>6, <1>7, <1>10, <1>11 DEF AckInv

LEMMA StepAckInv == AckInv /\ [AckNext]_ackVars => AckInv'
<1> SUFFICES ASSUME AckInv, [AckNext]_ackVars PROVE AckInv'
  OBVIOUS
<1>1. top \in Nat /\ Jumps \subseteq 1 .. Half - 1 /\ Half \in Nat
  BY Widths DEF AckInv, WindowTypeOK
<1>2. ASSUME NEW j \in Jumps, Arrive(top + j) PROVE AckInv'
  <2>1. CASE got = {}
    BY <1>1, <1>2, <2>1, FirstKeeps
  <2>2. CASE got # {}
    BY <1>1, <1>2, <2>2, NewerKeeps
  <2> QED
    BY <2>1, <2>2
<1>3. ASSUME got = {}, Arrive(0) PROVE AckInv'
  BY <1>3, FirstKeeps
<1>4. ASSUME got # {}, NEW j \in Jumps \cup {0}, j <= top, Arrive(top - j) PROVE AckInv'
  BY <1>1, <1>4, OlderKeeps, Widths
<1>5. CASE UNCHANGED ackVars
  BY <1>5 DEF ackVars, AckInv, WindowTypeOK, Truthful, Complete
<1> QED
  BY <1>2, <1>3, <1>4, <1>5 DEF AckNext, Ahead, Behind

-----------------------------------------------------------------------------
(* The theorems.                                                            *)

\* What a header acknowledges has arrived, for every width, every sequence space
\* and every order in which less than half a turn of packets is lost, repeated or
\* overtaken.
THEOREM AcksAreTrue == AckSpec => []Truthful
<1>1. AckInv => Truthful
  BY DEF AckInv
<1> QED
  BY InitAckInv, StepAckInv, <1>1, PTL DEF AckSpec

\* ... and all that arrived less than the window's width behind the newest packet is
\* acknowledged.
THEOREM AcksAreComplete == AckSpec => []Complete
<1>1. AckInv => Complete
  BY DEF AckInv
<1> QED
  BY InitAckInv, StepAckInv, <1>1, PTL DEF AckSpec
-----------------------------------------------------------------------------
(* The streamed clip, of any length, through a ring of any size.  Samples    *)
(* are counted round the clip.                                               *)

LEMMA Sizes == ClipLength \in Nat \ {0} /\ Usable \in Nat \ {0} /\ Chunk \in Nat \ {0}
BY StreamAssumption

\* A distance added before the turn is taken, or after.
LEMMA TurnTwice ==
  ASSUME NEW m \in Nat \ {0}, NEW n \in Nat, NEW d \in Nat
  PROVE  ((n % m) + d) % m = (n + d) % m
<1> DEFINE r == n % m
           q == n \div m
           s == (r + d) % m
           p == (r + d) \div m
<1>1. r \in 0 .. m - 1 /\ q \in Nat /\ n = m * q + r
  BY Quotient
<1>2. r + d \in Nat
  BY <1>1
<1> HIDE DEF r, q
<1>3. s \in 0 .. m - 1 /\ p \in Nat /\ r + d = m * p + s
  <2> DEFINE a == r + d
  <2>1. a \in Nat
    BY <1>2
  <2> HIDE DEF a
  <2>2. a % m \in 0 .. m - 1 /\ a \div m \in Nat /\ a = m * (a \div m) + (a % m)
    BY <2>1, Quotient
  <2> QED
    BY <2>2 DEF a
<1> HIDE DEF s, p
<1>4. m * (q + p) = m * q + m * p
  BY <1>1, <1>3
<1>5. n + d = m * (q + p) + s
  BY <1>1, <1>3, <1>4
<1> DEFINE t == q + p
<1>6. t \in Nat /\ n + d = m * t + s
  BY <1>1, <1>3, <1>5
<1> HIDE DEF t
<1>7. (n + d) % m = s
  <2>1. m \in Nat /\ m > 0 /\ t \in Nat /\ s \in 0 .. m - 1
    BY <1>3, <1>6
  <2>2. (m * t + s) % m = s
    BY <2>1, Remainder
  <2> QED
    BY <1>6, <2>2
<1> QED
  BY <1>7 DEF s, r

\* A count within the clip is its own place.
LEMMA TurnNone ==
  ASSUME NEW m \in Nat \ {0}, NEW r \in 0 .. m - 1
  PROVE  r % m = r
<1>1. r = m * 0 + r
  OBVIOUS
<1> QED
  BY <1>1, Remainder

\* Types, and what makes the rest hold: while samples are decoded and pushed,
\* the room that was counted is there, since only the callback touches the ring
\* and it makes more; in hand are no more samples than there is room for.
StreamTypeOK ==
  /\ ring \in Seq(Nat) /\ batch \in Seq(Nat)
  /\ free \in Nat /\ position \in 0 .. ClipLength /\ due \in Nat
  /\ filler \in {"asleep", "reading", "pushing"}

StreamInv ==
  /\ StreamTypeOK
  /\ Gapless
  /\ filler # "asleep" => free + Len(ring) <= Usable
  /\ Len(batch) <= free
  /\ filler # "pushing" => batch = <<>>

LEMMA InitStream == StreamInit => StreamInv
<1> SUFFICES ASSUME StreamInit PROVE StreamInv
  OBVIOUS
<1>1. ring = <<>> /\ batch = <<>> /\ free = 0 /\ position = 0 /\ due = 0 /\ filler = "asleep"
  BY DEF StreamInit
<1>2. StreamTypeOK
  BY <1>1, Sizes DEF StreamTypeOK
<1>3. ring \o batch = <<>>
  BY <1>1
<1>4. Gapless
  BY <1>1, <1>3 DEF Gapless
<1> QED
  BY <1>1, <1>2, <1>4 DEF StreamInv

\* A sample handed from one sequence to the next, and one taken off the front.
LEMMA HandedOn ==
  ASSUME NEW s \in Seq(Nat), NEW t \in Seq(Nat), t # <<>>
  PROVE  Append(s, Head(t)) \o Tail(t) = s \o t
<1>1. /\ Head(t) \in Nat /\ Tail(t) \in Seq(Nat) /\ Len(t) \in Nat \ {0} /\ Len(Tail(t)) = Len(t) - 1
      /\ \A i \in 1 .. Len(t) - 1 : Tail(t)[i] = t[i + 1]
      /\ Head(t) = t[1]
  BY EmptySeq, HeadTailProperties
<1>2. /\ Append(s, Head(t)) \in Seq(Nat) /\ Len(s) \in Nat /\ Len(Append(s, Head(t))) = Len(s) + 1
      /\ \A i \in 1 .. Len(s) : Append(s, Head(t))[i] = s[i]
      /\ Append(s, Head(t))[Len(s) + 1] = Head(t)
  BY <1>1
<1> DEFINE a == Append(s, Head(t))
           r == Tail(t)
<1> HIDE DEF a, r
<1>3. /\ a \o r \in Seq(Nat) /\ Len(a \o r) = Len(s) + Len(t)
      /\ \A i \in 1 .. Len(s) + Len(t) :
           (a \o r)[i] = IF i <= Len(s) + 1 THEN a[i] ELSE r[i - (Len(s) + 1)]
  BY <1>1, <1>2, ConcatProperties DEF a, r
<1>4. /\ s \o t \in Seq(Nat) /\ Len(s \o t) = Len(s) + Len(t)
      /\ \A i \in 1 .. Len(s) + Len(t) : (s \o t)[i] = IF i <= Len(s) THEN s[i] ELSE t[i - Len(s)]
  BY ConcatProperties
<1>5. \A i \in 1 .. Len(s) + Len(t) : (a \o r)[i] = (s \o t)[i]
  <2> SUFFICES ASSUME NEW i \in 1 .. Len(s) + Len(t) PROVE (a \o r)[i] = (s \o t)[i]
    OBVIOUS
  <2>1. CASE i <= Len(s)
    BY <1>2, <1>3, <1>4, <2>1 DEF a
  <2>2. CASE i = Len(s) + 1
    BY <1>1, <1>2, <1>3, <1>4, <2>2 DEF a
  <2>3. CASE i > Len(s) + 1
    <3>1. /\ i - (Len(s) + 1) \in 1 .. Len(t) - 1
          /\ (i - (Len(s) + 1)) + 1 = i - Len(s)
      BY <1>1, <1>2, <2>3
    <3>2. r[i - (Len(s) + 1)] = t[i - Len(s)]
      BY <1>1, <3>1 DEF r
    <3> QED
      BY <1>2, <1>3, <1>4, <2>3, <3>2
  <2>4. i <= Len(s) \/ i = Len(s) + 1 \/ i > Len(s) + 1
    <3>1. Len(s) \in Nat /\ i \in Nat
      BY <1>1, <1>2
    <3> QED
      BY <3>1
  <2> QED
    BY <2>1, <2>2, <2>3, <2>4, Zenon
<1>6. a \o r = s \o t
  BY <1>3, <1>4, <1>5, SeqEqual
<1> QED
  BY <1>6 DEF a, r

LEMMA TakenOff ==
  ASSUME NEW s \in Seq(Nat), NEW t \in Seq(Nat), s # <<>>
  PROVE  Tail(s) \o t = Tail(s \o t) /\ s \o t # <<>>
<1>1. /\ Tail(s) \in Seq(Nat) /\ Len(s) \in Nat \ {0} /\ Len(Tail(s)) = Len(s) - 1 /\ Len(t) \in Nat
      /\ \A i \in 1 .. Len(s) - 1 : Tail(s)[i] = s[i + 1]
  BY EmptySeq, HeadTailProperties, LenProperties
<1>2. /\ s \o t \in Seq(Nat) /\ Len(s \o t) = Len(s) + Len(t)
      /\ \A i \in 1 .. Len(s) + Len(t) : (s \o t)[i] = IF i <= Len(s) THEN s[i] ELSE t[i - Len(s)]
  BY ConcatProperties
<1> DEFINE a == Tail(s)
           c == s \o t
<1> HIDE DEF a, c
<1>3. c # <<>>
  BY <1>1, <1>2, EmptySeq DEF c
<1>4. /\ Tail(c) \in Seq(Nat) /\ Len(Tail(c)) = Len(s) + Len(t) - 1
      /\ \A i \in 1 .. Len(s) + Len(t) - 1 : Tail(c)[i] = c[i + 1]
  BY <1>2, <1>3, HeadTailProperties DEF c
<1>5. /\ a \o t \in Seq(Nat) /\ Len(a \o t) = Len(s) - 1 + Len(t)
      /\ \A i \in 1 .. Len(s) - 1 + Len(t) :
           (a \o t)[i] = IF i <= Len(s) - 1 THEN a[i] ELSE t[i - (Len(s) - 1)]
  BY <1>1, ConcatProperties DEF a
<1>6. \A i \in 1 .. Len(s) - 1 + Len(t) : (a \o t)[i] = Tail(c)[i]
  <2> SUFFICES ASSUME NEW i \in 1 .. Len(s) - 1 + Len(t) PROVE (a \o t)[i] = Tail(c)[i]
    OBVIOUS
  <2>1. i + 1 \in 1 .. Len(s) + Len(t) /\ i - (Len(s) - 1) = (i + 1) - Len(s)
    BY <1>1
  <2>2. c[i + 1] = IF i + 1 <= Len(s) THEN s[i + 1] ELSE t[(i + 1) - Len(s)]
    BY <1>2, <2>1 DEF c
  <2>3. Tail(c)[i] = c[i + 1]
    BY <1>1, <1>4
  <2>4. (a \o t)[i] = IF i <= Len(s) - 1 THEN a[i] ELSE t[i - (Len(s) - 1)]
    BY <1>5
  <2>5. CASE i <= Len(s) - 1
    <3>1. i \in 1 .. Len(s) - 1 /\ i + 1 <= Len(s)
      BY <1>1, <2>5
    <3>2. a[i] = s[i + 1]
      BY <1>1, <3>1 DEF a
    <3> QED
      BY <2>2, <2>3, <2>4, <2>5, <3>1, <3>2
  <2>6. CASE ~(i <= Len(s) - 1)
    <3>1. ~(i + 1 <= Len(s))
      BY <1>1, <2>6
    <3> QED
      BY <2>1, <2>2, <2>3, <2>4, <2>6, <3>1
  <2> QED
    BY <2>5, <2>6
<1>7. Len(a \o t) = Len(Tail(c))
  BY <1>1, <1>4, <1>5
<1>8. a \o t = Tail(c)
  BY <1>4, <1>5, <1>6, <1>7, SeqEqual
<1> QED
  BY <1>3, <1>8 DEF a, c

\* What is still to be heard is what the ring holds and what is in hand.
Coming == ring \o batch

LEMMA ComingIs ==
  ASSUME StreamTypeOK
  PROVE  /\ Coming \in Seq(Nat) /\ Len(Coming) = Len(ring) + Len(batch)
         /\ Len(ring) \in Nat /\ Len(batch) \in Nat
         /\ \A i \in 1 .. Len(ring) : Coming[i] = ring[i]
         /\ \A i \in 1 .. Len(batch) : Coming[Len(ring) + i] = batch[i]
BY DEF Coming, StreamTypeOK

LEMMA StepStream == StreamInv /\ [StreamNext]_streamVars => StreamInv'
<1> SUFFICES ASSUME StreamInv, [StreamNext]_streamVars PROVE StreamInv'
  OBVIOUS
<1> USE Sizes
<1>0. /\ StreamTypeOK
      /\ \A i \in 1 .. Len(Coming) : Coming[i] = (due + i - 1) % ClipLength
      /\ position % ClipLength = (due + Len(Coming)) % ClipLength
      /\ Len(ring) \in Nat /\ Len(batch) \in Nat /\ Len(Coming) = Len(ring) + Len(batch)
  <2>1. StreamTypeOK /\ Gapless
    BY DEF StreamInv
  <2>2. DOMAIN Coming = 1 .. Len(Coming)
    BY <2>1, ComingIs
  <2> QED
    BY <2>1, <2>2, ComingIs DEF Gapless, Coming
\* What is to be heard stays as it is, and the decoder with it.
<1>1. ASSUME UNCHANGED <<ring, batch, due>>, position' % ClipLength = position % ClipLength
      PROVE  Gapless'
  BY <1>1 DEF StreamInv, Gapless
<1>2. CASE TopUp
  BY <1>0, <1>1, <1>2 DEF TopUp, Room, StreamInv, StreamTypeOK, callbackVars
<1>3. CASE Decode
  <2>1. PICK k \in 1 .. Chunk : /\ k <= free /\ position + k <= ClipLength
                                /\ batch' = [i \in 1 .. k |-> position + i - 1]
                                /\ position' = position + k
    BY <1>3 DEF Decode
  <2>2. batch = <<>> /\ ring' = ring /\ due' = due /\ free' = free /\ position < ClipLength
        /\ filler = "reading" /\ filler' = "pushing"
    BY <1>3 DEF Decode, StreamInv, callbackVars
  <2>3. k \in Nat \ {0} /\ position \in Nat /\ due \in Nat /\ free \in Nat
    BY <1>0, <2>1 DEF StreamTypeOK
  <2>4. \A i \in 1 .. k : position + i - 1 \in 0 .. ClipLength - 1
    BY <2>1, <2>3
  <2>5. batch' \in Seq(Nat) /\ Len(batch') = k /\ \A i \in 1 .. k : batch'[i] = position + i - 1
    BY <2>1, <2>3, <2>4
  <2>6. StreamTypeOK'
    BY <1>0, <2>1, <2>2, <2>3, <2>5 DEF StreamTypeOK
  <2>7. /\ Len(Coming') = Len(ring) + k
        /\ \A i \in 1 .. Len(ring) : Coming'[i] = ring[i]
        /\ \A i \in 1 .. k : Coming'[Len(ring) + i] = batch'[i]
    BY <2>2, <2>5, <2>6, ComingIs DEF StreamTypeOK, Coming
  <2>8. position = (due + Len(ring)) % ClipLength
    <3>1. Len(Coming) = Len(ring)
      BY <1>0, <2>2
    <3>2. position % ClipLength = position
      BY <2>2, <2>3, TurnNone
    <3> QED
      BY <1>0, <3>1, <3>2
  <2>9. \A d \in 0 .. k : (position + d) % ClipLength = (due + Len(ring) + d) % ClipLength
    <3> SUFFICES ASSUME NEW d \in 0 .. k
                 PROVE  (position + d) % ClipLength = (due + Len(ring) + d) % ClipLength
      OBVIOUS
    <3> DEFINE n == due + Len(ring)
    <3>1. n \in Nat /\ d \in Nat
      BY <1>0, <2>3
    <3>2. position = n % ClipLength
      BY <2>8
    <3> HIDE DEF n
    <3>3. (position + d) % ClipLength = (n + d) % ClipLength
      BY <3>1, <3>2, TurnTwice
    <3> QED
      BY <3>3 DEF n
  <2>10. \A i \in 1 .. Len(Coming') : Coming'[i] = (due + i - 1) % ClipLength
    <3> SUFFICES ASSUME NEW i \in 1 .. Len(Coming')
                 PROVE  Coming'[i] = (due + i - 1) % ClipLength
      OBVIOUS
    <3>1. CASE i <= Len(ring)
      <4>1. ring[i] = (due + i - 1) % ClipLength
        BY <1>0, <2>7, <3>1, ComingIs
      <4> QED
        BY <1>0, <2>7, <3>1, <4>1
    <3>2. CASE i > Len(ring)
      <4> DEFINE d == i - Len(ring) - 1
      <4>1. d \in 0 .. k - 1 /\ i = Len(ring) + (d + 1) /\ d + 1 \in 1 .. k
        BY <1>0, <2>3, <2>7, <3>2
      <4>2. Coming'[i] = position + d
        <5>1. Coming'[i] = batch'[d + 1]
          BY <2>7, <4>1
        <5>2. batch'[d + 1] = position + (d + 1) - 1
          BY <2>5, <4>1
        <5> QED
          BY <2>3, <4>1, <5>1, <5>2
      <4>3. position + d = (position + d) % ClipLength
        <5>1. position + d \in 0 .. ClipLength - 1
          BY <2>1, <2>3, <4>1
        <5> QED
          BY <5>1, TurnNone
      <4>4. (position + d) % ClipLength = (due + Len(ring) + d) % ClipLength
        <5>1. d \in 0 .. k
          BY <2>3, <4>1
        <5> HIDE DEF d
        <5> QED
          BY <2>9, <5>1
      <4>5. due + Len(ring) + d = due + i - 1
        BY <1>0, <2>3, <4>1
      <4> QED
        BY <4>2, <4>3, <4>4, <4>5
    <3> QED
      BY <1>0, <2>3, <2>7, <3>1, <3>2
  <2>11. position' % ClipLength = (due' + Len(Coming')) % ClipLength
    <3>1. k \in 0 .. k /\ due + Len(ring) + k = due + Len(Coming')
      BY <1>0, <2>3, <2>7
    <3> QED
      BY <2>1, <2>2, <2>9, <3>1
  <2>12. Gapless'
    BY <2>2, <2>7, <2>10, <2>11 DEF Gapless, Coming
  <2> QED
    BY <2>1, <2>2, <2>3, <2>5, <2>6, <2>12 DEF StreamInv
<1>4. CASE Push
  <2>1. filler = "pushing" /\ UNCHANGED <<loop, atEnd, position, progressed, mixer, due, finished>>
    BY <1>4 DEF Push, callbackVars
  <2>2. CASE batch = <<>>
    BY <1>0, <1>1, <1>4, <2>1, <2>2 DEF Push, StreamInv, StreamTypeOK
  <2>3. CASE batch # <<>>
    <3>1. Len(batch) > 0 /\ Len(ring) < Usable /\ free > 0
      BY <1>0, <2>1, <2>3 DEF StreamInv, StreamTypeOK
    <3>2. /\ ring' = Append(ring, Head(batch)) /\ batch' = Tail(batch) /\ free' = free - 1
          /\ filler' = "pushing"
      BY <1>4, <2>1, <2>3, <3>1 DEF Push
    <3>3. /\ ring' \in Seq(Nat) /\ batch' \in Seq(Nat) /\ free' \in Nat
          /\ Len(ring') = Len(ring) + 1 /\ Len(batch') = Len(batch) - 1
      BY <1>0, <3>1, <3>2 DEF StreamTypeOK
    <3>4. Coming' = Coming
      BY <2>3, <3>2, HandedOn DEF StreamTypeOK, Coming
    <3>5. StreamTypeOK'
      BY <1>0, <2>1, <3>2, <3>3 DEF StreamTypeOK
    <3>6. Gapless'
      BY <2>1, <3>4 DEF StreamInv, Gapless, Coming
    <3> QED
      BY <1>0, <2>1, <3>1, <3>2, <3>3, <3>5, <3>6 DEF StreamInv, StreamTypeOK
  <2> QED
    BY <2>2, <2>3
<1>5. CASE Rewind
  <2>1. /\ UNCHANGED <<ring, batch, due, free, filler>> /\ position = ClipLength /\ position' = 0
    BY <1>5 DEF Rewind, SeekStart, callbackVars
  <2>2. ClipLength % ClipLength = 0 /\ 0 % ClipLength = 0
    <3>1. ClipLength = ClipLength * 1 + 0 /\ 0 = ClipLength * 0 + 0 /\ 0 \in 0 .. ClipLength - 1
      OBVIOUS
    <3>2. ClipLength % ClipLength = 0
      BY <3>1, Remainder
    <3> QED
      BY <3>1, <3>2, TurnNone
  <2> QED
    BY <1>0, <1>1, <2>1, <2>2 DEF StreamInv, StreamTypeOK
<1>6. CASE MarkEnd
  BY <1>0, <1>1, <1>6 DEF MarkEnd, StreamInv, StreamTypeOK, callbackVars
<1>7. CASE Filled
  BY <1>0, <1>1, <1>7 DEF Filled, StreamInv, StreamTypeOK, callbackVars
<1>8. CASE Pop
  <2>1. /\ ring # <<>> /\ due' = (Head(ring) + 1) % ClipLength /\ ring' = Tail(ring)
        /\ UNCHANGED <<batch, position, filler, free>>
    BY <1>8 DEF Pop, fillerVars
  <2>2. /\ Len(ring) > 0 /\ ring' \in Seq(Nat) /\ Len(ring') = Len(ring) - 1
        /\ due \in Nat /\ free \in Nat
    BY <1>0, <2>1 DEF StreamTypeOK
  <2>3. Coming' = Tail(Coming) /\ Coming # <<>>
    BY <1>0, <2>1, TakenOff DEF StreamTypeOK, Coming
  <2>4. Head(ring) = due % ClipLength
    <3>1. Head(ring) = Coming[1]
      BY <1>0, <2>2, ComingIs DEF StreamTypeOK
    <3>2. Coming[1] = (due + 1 - 1) % ClipLength
      BY <1>0, <2>2
    <3>3. due + 1 - 1 = due
      BY <2>2
    <3> QED
      BY <3>1, <3>2, <3>3
  <2>5. \A d \in Nat : (due' + d) % ClipLength = (due + 1 + d) % ClipLength
    <3> SUFFICES ASSUME NEW d \in Nat PROVE (due' + d) % ClipLength = (due + 1 + d) % ClipLength
      OBVIOUS
    <3>1. due' = (due + 1) % ClipLength
      BY <2>1, <2>2, <2>4, TurnTwice
    <3> DEFINE n == due + 1
    <3>2. n \in Nat /\ due' = n % ClipLength
      BY <2>2, <3>1
    <3> HIDE DEF n
    <3>3. ((n % ClipLength) + d) % ClipLength = (n + d) % ClipLength
      BY <3>2, TurnTwice
    <3> QED
      BY <3>2, <3>3 DEF n
  <2>6. due' \in Nat
    <3>1. due' = (due + 1) % ClipLength
      BY <2>1, <2>2, <2>4, TurnTwice
    <3> DEFINE n == due + 1
    <3>2. n \in Nat
      BY <2>2
    <3> HIDE DEF n
    <3>3. n % ClipLength \in Nat
      BY <3>2, Quotient
    <3> QED
      BY <3>1, <3>3 DEF n
  <2>7. StreamTypeOK'
    BY <1>0, <2>1, <2>2, <2>6 DEF StreamTypeOK
  <2>8. /\ Coming \in Seq(Nat) /\ Len(Coming') = Len(Coming) - 1
        /\ \A i \in 1 .. Len(Coming') : Coming'[i] = Coming[i + 1]
    BY <1>0, <2>3, ComingIs
  <2>9. \A i \in 1 .. Len(Coming') : Coming'[i] = (due' + i - 1) % ClipLength
    <3> SUFFICES ASSUME NEW i \in 1 .. Len(Coming')
                 PROVE  Coming'[i] = (due' + i - 1) % ClipLength
      OBVIOUS
    <3>1. i \in Nat \ {0} /\ i + 1 \in 1 .. Len(Coming)
      BY <1>0, <2>8
    <3>2. Coming'[i] = (due + (i + 1) - 1) % ClipLength
      BY <1>0, <2>8, <3>1
    <3>3. (due' + (i - 1)) % ClipLength = (due + 1 + (i - 1)) % ClipLength
      BY <2>5, <3>1
    <3>4. due + (i + 1) - 1 = due + 1 + (i - 1) /\ due' + (i - 1) = due' + i - 1
      BY <2>2, <2>6, <3>1
    <3> QED
      BY <3>2, <3>3, <3>4
  <2>10. position' % ClipLength = (due' + Len(Coming')) % ClipLength
    <3>1. Len(Coming') \in Nat /\ due + 1 + Len(Coming') = due + Len(Coming)
      BY <1>0, <2>2, <2>8
    <3> QED
      BY <1>0, <2>1, <2>5, <3>1
  <2>11. Gapless'
    <3>1. DOMAIN Coming' = 1 .. Len(Coming')
      BY <1>0, <2>3, <2>8, HeadTailProperties
    <3> QED
      BY <2>9, <2>10, <3>1 DEF Gapless, Coming
  <2> QED
    BY <1>0, <2>1, <2>2, <2>7, <2>11 DEF StreamInv
<1>9. CASE Starve \/ CheckEnd
  BY <1>0, <1>1, <1>9 DEF Starve, CheckEnd, StreamInv, StreamTypeOK, fillerVars
<1>10. CASE UNCHANGED streamVars
  BY <1>0, <1>1, <1>10 DEF streamVars, StreamInv, StreamTypeOK, fillerVars, callbackVars
<1> QED
  BY <1>2, <1>3, <1>4, <1>5, <1>6, <1>7, <1>8, <1>9, <1>10 DEF StreamNext, Fill, Play

\* Nothing is skipped, dropped or played twice, for any clip, ring and decoder,
\* wherever blocks and batches end: TopUpStream may push without a look at the
\* result.
THEOREM NoGap == StreamSpec => []Gapless
<1>1. StreamInv => Gapless
  BY DEF StreamInv
<1> QED
  BY InitStream, StepStream, <1>1, PTL DEF StreamSpec
=============================================================================
