---------------------------- MODULE TripleBuffer ----------------------------
(***************************************************************************)
(* engine/include/Veng/Audio/TripleBuffer.h: the bridge over which the main *)
(* thread hands mix snapshots (AudioDevice) and synthesis parameters        *)
(* (GeneratorParams) to the real-time callback.  A frame is written one     *)
(* word at a time, so a reader that shared its slot would see it torn.      *)
(***************************************************************************)
EXTENDS Naturals

CONSTANTS Words,      \* the parts of a frame
          MaxFrames   \* bound: frames published
ASSUME BufferAssumption == Words # {} /\ MaxFrames \in Nat

VARIABLES
  buffers,     \* m_Buffers: what each word of each slot was last written for
  writeIndex,  \* m_WriteIndex
  readIndex,   \* m_ReadIndex
  middle,      \* m_Middle: the index and the dirty bit
  unwritten,   \* the words of the back buffer the producer has still to write
  frame,       \* the frame it is writing
  reader       \* where the consumer is

bridgeVars == <<buffers, writeIndex, readIndex, middle, unwritten, frame, reader>>
-----------------------------------------------------------------------------
BufferSlots == 0 .. 2

BridgeInit ==
  /\ buffers = [s \in BufferSlots |-> [w \in Words |-> 0]]
  /\ writeIndex = 0 /\ readIndex = 1
  /\ middle = [index |-> 2, dirty |-> FALSE]
  /\ unwritten = Words /\ frame = 1
  /\ reader = "idle"

\* The producer writes a part of the next frame through BackBuffer.
Write(w) ==
  /\ w \in unwritten /\ frame <= MaxFrames
  /\ buffers' = [buffers EXCEPT ![writeIndex][w] = frame]
  /\ unwritten' = unwritten \ {w}
  /\ UNCHANGED <<writeIndex, readIndex, middle, frame, reader>>

\* Mutant: the producer goes on writing the slot it has published.
TakenBackKept == writeIndex
\* The next back buffer: what the middle held.
TakenBack == middle.index

\* Publish: one exchange.
Publish ==
  /\ unwritten = {}
  /\ middle' = [index |-> writeIndex, dirty |-> TRUE]
  /\ writeIndex' = TakenBack
  /\ unwritten' = Words /\ frame' = frame + 1
  /\ UNCHANGED <<buffers, readIndex, reader>>

\* Mutant: the fresh flag is not looked at.
FreshAlways == TRUE
\* What the consumer's load tells it.
Fresh == middle.dirty

\* FetchNewest, its load: without a fresh frame the front buffer stays.
Look ==
  /\ reader = "idle"
  /\ reader' = IF Fresh THEN "latching" ELSE "reading"
  /\ UNCHANGED <<buffers, writeIndex, readIndex, middle, unwritten, frame>>

\* ... and its exchange, whatever was published since the load.
Latch ==
  /\ reader = "latching"
  /\ middle' = [index |-> readIndex, dirty |-> FALSE]
  /\ readIndex' = middle.index
  /\ reader' = "reading"
  /\ UNCHANGED <<buffers, writeIndex, unwritten, frame>>

\* The consumer is through with FrontBuffer until it next asks.
Release ==
  /\ reader = "reading" /\ reader' = "idle"
  /\ UNCHANGED <<buffers, writeIndex, readIndex, middle, unwritten, frame>>

BridgeNext == (\E w \in Words : Write(w)) \/ Publish \/ Look \/ Latch \/ Release
BridgeSpec == BridgeInit /\ [][BridgeNext]_bridgeVars
-----------------------------------------------------------------------------
(* Properties *)

BridgeTypeOK ==
  /\ buffers \in [BufferSlots -> [Words -> Nat]]
  /\ writeIndex \in BufferSlots /\ readIndex \in BufferSlots
  /\ middle \in [index : BufferSlots, dirty : BOOLEAN]
  /\ unwritten \subseteq Words /\ frame \in Nat \ {0}
  /\ reader \in {"idle", "latching", "reading"}

\* "the producer's back slot, the shared middle, and the consumer's front slot
\* stay three distinct indices" (TripleBuffer.h:30).
ThreeSlots == writeIndex # readIndex /\ writeIndex # middle.index /\ readIndex # middle.index

\* Every word of a slot was written for frame n.
Holds(slot, n) == buffers[slot] = [w \in Words |-> n]

\* What the reader has not fetched is whole and the newest in the middle; a
\* reader on its way to fetch will find it there.
BridgeInv ==
  /\ BridgeTypeOK
  /\ ThreeSlots
  /\ middle.dirty => Holds(middle.index, frame - 1)
  /\ ~middle.dirty => Holds(readIndex, frame - 1)
  /\ \E n \in 0 .. frame - 1 : Holds(readIndex, n)
  /\ \A w \in Words \ unwritten : buffers[writeIndex][w] = frame
  /\ reader = "latching" => middle.dirty

\* The front buffer is one published frame, never a torn one, and no frame still
\* being written, whatever the producer does while it is read.
FrontIsWhole == \E n \in 0 .. frame - 1 : Holds(readIndex, n)

\* The bridge keeps the promise: a fetch gets the newest frame, and the reader
\* never goes back to an older one.
Held == buffers[readIndex][CHOOSE w \in Words : TRUE]
Bridge == INSTANCE LatestValue WITH latest <- frame - 1, held <- Held
Newest == Bridge!Spec
=============================================================================
