----------------------------- MODULE StreamVoice -----------------------------
(***************************************************************************)
(* engine/src/Audio/AudioDevice.cpp: one streamed clip, decoded into a ring *)
(* by the fill thread (TopUpStream) and drained by the real-time callback   *)
(* (RenderStreamChunk), which retires the voice once the clip has ended.    *)
(* The ring is the queue SpscRing implements.  Resampling decides how many  *)
(* samples a frame takes and blocks end anywhere, so the callback pops      *)
(* whenever it likes.                                                       *)
(***************************************************************************)
EXTENDS Naturals, Sequences

CONSTANTS ClipLength,   \* samples of the clip
          Usable,       \* samples the ring holds
          Chunk         \* most samples one Read decodes (StreamDecodeChunkFrames)
ASSUME StreamAssumption == {ClipLength, Usable, Chunk} \subseteq Nat \ {0}

VARIABLES
  loop,         \* Loop, fixed when the stream starts
  ring,         \* Ring
  atEnd,        \* AtEnd
  position,     \* the decoder's
  filler,       \* where the fill thread is in TopUpStream
  free,         \* its count of the room left
  batch,        \* DecodeScratch: samples decoded and not yet pushed
  progressed,   \* progressedSinceSeek
  mixer,        \* where the callback is in RenderStreamChunk
  due,          \* the sample that must be heard next
  finished      \* RtVoice::Finished: the callback has posted the retirement

fillerVars == <<loop, position, filler, free, batch, progressed>>
callbackVars == <<mixer, due, finished>>
streamVars == <<ring, atEnd, fillerVars, callbackVars>>
-----------------------------------------------------------------------------
Samples == 0 .. ClipLength - 1

StreamInit ==
  /\ loop \in BOOLEAN
  /\ ring = <<>> /\ atEnd = FALSE
  /\ position = 0 /\ filler = "asleep" /\ free = 0 /\ batch = <<>> /\ progressed = TRUE
  /\ mixer = "idle" /\ due = 0 /\ finished = FALSE
-----------------------------------------------------------------------------
(* The fill thread *)

\* Mutant: one slot more than the ring can hold.
RoomPlusOne == Usable - Len(ring) + 1
Room == Usable - Len(ring)

\* Its loop comes to the voice, at the latest when its 2 ms sleep ends.
TopUp ==
  /\ filler = "asleep" /\ ~atEnd /\ Room > 0
  /\ free' = Room /\ progressed' = TRUE
  /\ filler' = "reading"
  /\ UNCHANGED <<loop, ring, atEnd, position, batch, callbackVars>>

\* Read: any part of what is wanted and left.
Decode ==
  /\ filler = "reading" /\ free > 0 /\ position < ClipLength
  /\ \E got \in 1 .. Chunk :
       /\ got <= free /\ position + got <= ClipLength
       /\ batch' = [i \in 1 .. got |-> position + i - 1]
       /\ position' = position + got
  /\ progressed' = TRUE /\ filler' = "pushing"
  /\ UNCHANGED <<loop, ring, atEnd, free, callbackVars>>

\* Push, whose refusal nobody looks at.
Push ==
  /\ filler = "pushing"
  /\ IF batch # <<>>
     THEN /\ ring' = IF Len(ring) < Usable THEN Append(ring, Head(batch)) ELSE ring
          /\ batch' = Tail(batch) /\ free' = free - 1
          /\ UNCHANGED filler
     ELSE filler' = "reading" /\ UNCHANGED <<ring, batch, free>>
  /\ UNCHANGED <<loop, atEnd, position, progressed, callbackVars>>

\* SeekStart.
SeekStart == 0

Rewind ==
  /\ filler = "reading" /\ free > 0 /\ position = ClipLength /\ loop /\ progressed
  /\ position' = SeekStart /\ progressed' = FALSE
  /\ UNCHANGED <<loop, ring, atEnd, filler, free, batch, callbackVars>>

\* Mutant: the end is not announced.
EndUnmarked == FALSE
\* Whether reading nothing more is the end of the stream.
EndsHere == ~loop

MarkEnd ==
  /\ filler = "reading" /\ free > 0 /\ position = ClipLength /\ ~(loop /\ progressed)
  /\ atEnd' = EndsHere
  /\ filler' = "asleep"
  /\ UNCHANGED <<loop, ring, position, free, batch, progressed, callbackVars>>

Filled ==
  /\ filler = "reading" /\ free = 0
  /\ filler' = "asleep"
  /\ UNCHANGED <<loop, ring, atEnd, position, free, batch, progressed, callbackVars>>
-----------------------------------------------------------------------------
(* The callback *)

\* Pop finds a sample.
Pop ==
  /\ mixer = "idle" /\ ~finished /\ ring # <<>>
  /\ due' = (Head(ring) + 1) % ClipLength
  /\ ring' = Tail(ring)
  /\ UNCHANGED <<atEnd, fillerVars, mixer, finished>>

\* Pop finds none: the rest of the block is silence.
Starve ==
  /\ mixer = "idle" /\ ~finished /\ ring = <<>>
  /\ mixer' = "starved"
  /\ UNCHANGED <<ring, atEnd, fillerVars, due, finished>>

\* ... and AtEnd is read after that: the voice is exhausted, or goes on later.
Exhausted == atEnd

CheckEnd ==
  /\ mixer = "starved"
  /\ finished' = Exhausted
  /\ mixer' = "idle"
  /\ UNCHANGED <<ring, atEnd, fillerVars, due>>

Fill == TopUp \/ Decode \/ Push \/ Rewind \/ MarkEnd \/ Filled
Play == Pop \/ Starve \/ CheckEnd
StreamNext == Fill \/ Play
\* The fill thread never sleeps longer than 2 ms, the device calls back every block.
StreamSpec == StreamInit /\ [][StreamNext]_streamVars /\ WF_streamVars(Fill) /\ WF_streamVars(Play)
-----------------------------------------------------------------------------
(* Properties *)

\* "The ring has room for every sample decoded this pass" (AudioDevice.cpp:618)
\* and "the loop point carries no gap" (AudioDevice.cpp:571): what is still to be
\* heard follows what was heard, without a gap, over every turn of the loop.
Gapless ==
  LET coming == ring \o batch IN
    /\ \A i \in DOMAIN coming : coming[i] = (due + i - 1) % ClipLength
    /\ position % ClipLength = (due + Len(coming)) % ClipLength

\* A finite stream retires, whatever underruns it meets.
Retires == ~loop => <>finished

\* "marks AtEnd on a finite stream so the callback retires it once the ring
\* drains" (StreamVoice.h:31): what was decoded is heard before the voice ends.
HeardOut == finished => ring = <<>>
=============================================================================
