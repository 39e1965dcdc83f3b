---------------------------- MODULE VoiceReclaim ----------------------------
(***************************************************************************)
(* engine/src/Audio/AudioDevice.cpp: how the sources of stopped voices are  *)
(* given back.  The main thread owns the voices and publishes snapshots of  *)
(* them; the real-time callback mixes the newest snapshot; the fill thread  *)
(* keeps a working set of the streams and buffered generators.  Nothing     *)
(* locks: a source is freed once the callback has consumed a later frame    *)
(* and the fill thread has acknowledged its removal.                        *)
(*                                                                         *)
(* The bridge of snapshots is the one TripleBuffer implements, the rings    *)
(* are the bounded queues SpscRing implements, and the decode and buffered  *)
(* command rings, which work alike, are one.                                *)
(***************************************************************************)
EXTENDS Naturals, Sequences

CONSTANTS
  MaxVoices,      \* voice slots (128)
  CommandRoom,    \* commands the rings to the fill thread hold (511)
  RetiredRoom,    \* retirements the ring to the main thread holds (255)
  MaxSources,     \* bound: voices started
  MaxSerial       \* bound: the serial stops there, and what is retired then is kept
ASSUME ReclaimAssumption == {MaxVoices, CommandRoom, RetiredRoom, MaxSources, MaxSerial} \subseteq Nat

VARIABLES
  voices,     \* m_Voices
  started,    \* sources created; each is known by its number
  filled,     \* those a thread fills: streams and buffered generators
  alive,      \* those not freed
  deferred,   \* m_Deferred
  serial,     \* m_PublishedSerial
  pump,       \* where the main thread is in AudioDevice::Pump
  driven,     \* the main thread mixes: m_Driven, or the null backend
  newest,     \* Snapshots: the newest frame published
  front,      \* ... and the one the callback holds
  at,         \* the slot it mixes next; 0 between blocks
  rt,         \* RtVoices
  consumed,   \* ConsumedSerial
  retired,    \* Retired
  commands,   \* DecodeCommands and BufferedCommands
  working,    \* the fill thread's working set
  released    \* the sources with ReleasedByDecoder set

engineVars == <<voices, started, filled, alive, deferred, serial, newest>>
mixVars == <<front, at, rt, consumed>>
fillVars == <<working, released>>
vars == <<engineVars, pump, driven, mixVars, retired, commands, fillVars>>
-----------------------------------------------------------------------------
Slots == 1 .. MaxVoices
Source == 1 .. MaxSources
Voice == [active : BOOLEAN, gen : Nat, source : Source \cup {0}]
NoVoice == [active |-> FALSE, gen |-> 0, source |-> 0]
Frame == [serial : 0 .. MaxSerial, voices : [Slots -> Voice]]
NoFrame == [serial |-> 0, voices |-> [s \in Slots |-> NoVoice]]

\* SpscRing::Push: dropped when full.
Pushed(ring, item, room) == IF Len(ring) < room THEN Append(ring, item) ELSE ring

Init ==
  /\ voices = [s \in Slots |-> NoVoice]
  /\ started = 0 /\ filled = {} /\ alive = {} /\ deferred = {} /\ serial = 0
  /\ pump = "done" /\ driven \in BOOLEAN
  /\ newest = NoFrame /\ front = NoFrame /\ at = 0
  /\ rt = [s \in Slots |-> [gen |-> 0, finished |-> FALSE]] /\ consumed = 0
  /\ retired = <<>> /\ commands = <<>>
  /\ working = {} /\ released = {}
-----------------------------------------------------------------------------
(* The main thread between two pumps *)

\* Mutant: safe as soon as the newest frame has been consumed.
SafeAfterEarly == IF serial = 0 THEN 0 ELSE serial - 1
\* The frame a source may still be in.
SafeAfter == serial

\* Mutant: the fill thread is not told.
RemovedQuietly(slot) == commands
\* The Remove command, for a source the fill thread knows.
Removed(slot) == IF voices[slot].source \in filled
                 THEN Pushed(commands, [op |-> "remove", source |-> voices[slot].source], CommandRoom)
                 ELSE commands

\* RetireSlot: what is left of the voice, its source waiting to be freed.
Deferred(slot) == deferred \cup {[source |-> voices[slot].source, after |-> SafeAfter]}

\* Mutant: the slot is not cleared.
EmptiedLater(slot) == voices[slot]
\* ... and the slot without it.
Emptied(slot) == [voices[slot] EXCEPT !.active = FALSE, !.source = 0]

StopVoice(slot) ==
  /\ pump = "done" /\ voices[slot].active
  /\ deferred' = Deferred(slot)
  /\ commands' = Removed(slot)
  /\ voices' = [voices EXCEPT ![slot] = Emptied(slot)]
  /\ UNCHANGED <<started, filled, alive, serial, newest, pump, driven, mixVars, retired, fillVars>>

\* AddVoice, AddStreamVoice and PlayGenerator, in the first free slot or in that
\* of a quieter voice, which is retired.
AddVoice ==
  /\ pump = "done" /\ started < MaxSources
  /\ \E slot \in Slots, fill \in BOOLEAN :
       LET source == started + 1
           told == IF voices[slot].active THEN Removed(slot) ELSE commands
       IN  /\ IF voices[slot].active THEN \A s \in Slots : voices[s].active
              ELSE \A s \in 1 .. slot - 1 : voices[s].active
           /\ deferred' = IF voices[slot].active THEN Deferred(slot) ELSE deferred
           /\ voices' = [voices EXCEPT ![slot] = [active |-> TRUE, gen |-> @.gen + 1, source |-> source]]
           /\ commands' = IF fill THEN Pushed(told, [op |-> "add", source |-> source], CommandRoom)
                          ELSE told
           /\ filled' = IF fill THEN filled \cup {source} ELSE filled
           /\ started' = source
           /\ alive' = alive \cup {source}
  /\ UNCHANGED <<serial, newest, pump, driven, mixVars, retired, fillVars>>

\* SetDriven: stopping the device waits for the callback to return.
SetDriven ==
  /\ pump = "done" /\ (~driven => at = 0)
  /\ driven' = ~driven
  /\ UNCHANGED <<engineVars, pump, mixVars, retired, commands, fillVars>>
-----------------------------------------------------------------------------
(* The main thread in Pump *)

\* PublishSnapshot: every slot as it is now.
PublishSnapshot ==
  /\ pump = "done"
  /\ serial' = IF serial < MaxSerial THEN serial + 1 ELSE serial
  /\ newest' = [serial |-> serial', voices |-> voices]
  /\ pump' = IF driven THEN "mixing" ELSE "draining"
  /\ UNCHANGED <<voices, started, filled, alive, deferred, driven, mixVars, retired, commands, fillVars>>

\* A driven pump of no length mixes nothing.
SkipMix ==
  /\ pump = "mixing" /\ at = 0
  /\ pump' = "draining"
  /\ UNCHANGED <<engineVars, driven, mixVars, retired, commands, fillVars>>

\* Mutant: the generation is not compared.
StillThatAny(r) == voices[r.slot].active
\* The voice a retirement names is still the one in its slot.
StillThat(r) == voices[r.slot].active /\ voices[r.slot].gen = r.gen

\* DrainRetired, one retirement.
DrainRetired ==
  /\ pump = "draining" /\ retired # <<>>
  /\ LET r == Head(retired) IN
       IF StillThat(r)
       THEN /\ deferred' = Deferred(r.slot)
            /\ commands' = Removed(r.slot)
            /\ voices' = [voices EXCEPT ![r.slot] = Emptied(r.slot)]
       ELSE UNCHANGED <<deferred, commands, voices>>
  /\ retired' = Tail(retired)
  /\ UNCHANGED <<started, filled, alive, serial, newest, pump, driven, mixVars, fillVars>>

\* Both threads are past it.
Safe(d) == consumed > d.after /\ (d.source \in filled => d.source \in released)

\* CollectDeferred, once the ring is empty.  What it reads of the other threads
\* only grows, so reading it entry by entry makes no difference.
CollectDeferred ==
  /\ pump = "draining" /\ retired = <<>>
  /\ LET safe == {d \in deferred : Safe(d)} IN
       /\ deferred' = deferred \ safe
       /\ alive' = alive \ {d.source : d \in safe}
  /\ pump' = "done"
  /\ UNCHANGED <<voices, started, filled, serial, newest, driven, mixVars, retired, commands, fillVars>>
-----------------------------------------------------------------------------
(* The callback, or a driven pump *)

\* RenderBlock latches the newest frame.
StartBlock ==
  /\ at = 0 /\ (driven => pump = "mixing")
  /\ front' = newest
  /\ at' = 1
  /\ UNCHANGED <<engineVars, pump, driven, rt, consumed, retired, commands, fillVars>>

\* MixChunk, one slot: the source is read, and may be exhausted.
MixSlot ==
  /\ at \in Slots
  /\ LET voice == front.voices[at]
         state == IF rt[at].gen = voice.gen THEN rt[at] ELSE [gen |-> voice.gen, finished |-> FALSE]
     IN  IF ~voice.active THEN UNCHANGED <<rt, retired>>
         ELSE \E exhausted \in {FALSE, ~state.finished} :
                /\ rt' = [rt EXCEPT ![at] = [state EXCEPT !.finished = @ \/ exhausted]]
                /\ retired' = IF exhausted THEN Pushed(retired, [slot |-> at, gen |-> voice.gen], RetiredRoom)
                              ELSE retired
  /\ at' = at + 1
  /\ UNCHANGED <<engineVars, pump, driven, front, consumed, commands, fillVars>>

\* The block is done with its frame.
EndBlock ==
  /\ at = MaxVoices + 1
  /\ consumed' = front.serial
  /\ at' = 0
  /\ pump' = IF driven THEN "draining" ELSE pump
  /\ UNCHANGED <<engineVars, driven, front, rt, retired, commands, fillVars>>
-----------------------------------------------------------------------------
(* The fill thread *)

\* DecodeThreadMain, one command; between commands it fills its working set.
TakeCommand ==
  /\ commands # <<>>
  /\ LET c == Head(commands) IN
       IF c.op = "add"
       THEN working' = working \cup {c.source} /\ UNCHANGED released
       ELSE working' = working \ {c.source} /\ released' = released \cup {c.source}
  /\ commands' = Tail(commands)
  /\ UNCHANGED <<engineVars, pump, driven, mixVars, retired>>

Game == AddVoice \/ SetDriven \/ \E slot \in Slots : StopVoice(slot)
Pump == PublishSnapshot \/ SkipMix \/ DrainRetired \/ CollectDeferred
Mix == StartBlock \/ MixSlot \/ EndBlock
Next == Game \/ Pump \/ Mix \/ TakeCommand
Spec == Init /\ [][Next]_vars

\* The application pumps every frame, the device calls back every block and the
\* fill thread sleeps 2 ms at most.  A driven pump has a length again and again.
Fairness == WF_vars(Pump) /\ WF_vars(MixSlot \/ EndBlock) /\ SF_vars(StartBlock) /\ WF_vars(TakeCommand)
FairSpec == Spec /\ Fairness
-----------------------------------------------------------------------------
(* Properties *)

TypeOK ==
  /\ voices \in [Slots -> Voice] /\ started \in 0 .. MaxSources
  /\ alive \subseteq Source /\ filled \subseteq Source
  /\ deferred \subseteq [source : Source, after : 0 .. MaxSerial]
  /\ serial \in 0 .. MaxSerial /\ consumed \in 0 .. MaxSerial
  /\ pump \in {"done", "mixing", "draining"} /\ driven \in BOOLEAN
  /\ newest \in Frame /\ front \in Frame /\ at \in 0 .. MaxVoices + 1
  /\ rt \in [Slots -> [gen : Nat, finished : BOOLEAN]]
  /\ retired \in Seq([slot : Slots, gen : Nat]) /\ Len(retired) <= RetiredRoom
  /\ commands \in Seq([op : {"add", "remove"}, source : Source]) /\ Len(commands) <= CommandRoom
  /\ working \subseteq Source /\ released \subseteq Source

InFrame(n, frame) == \E s \in Slots : frame.voices[s].active /\ frame.voices[s].source = n
InCommands(n) == \E i \in 1 .. Len(commands) : commands[i].source = n
InVoices(n) == \E s \in Slots : voices[s].active /\ voices[s].source = n
InDeferred(n) == \E d \in deferred : d.source = n

\* Whatever a thread can still reach is allocated: a source in the frame the
\* callback mixes or is about to latch (MixChunk), and one the fill thread tops up
\* or is told of (DecodeThreadMain).  Even when commands and retirements are dropped.
NoUseAfterFree ==
  \A n \in Source :
    InFrame(n, newest) \/ InFrame(n, front) \/ n \in working \/ InCommands(n) => n \in alive

\* Every allocated source has exactly one owner, a voice or the deferred list, so
\* that nothing is freed twice or forgotten (RetireSlot, CollectDeferred).
OneOwner ==
  /\ \A n \in Source : n \in alive <=> (InVoices(n) \/ InDeferred(n))
  /\ \A s, t \in Slots :
       voices[s].active /\ voices[t].active /\ voices[s].source = voices[t].source => s = t
  /\ \A d \in deferred : ~InVoices(d.source) /\ \A e \in deferred : d.source = e.source => d = e

\* What makes these hold, part by part: a consumed frame is not newer than the one
\* held, nor that than the newest;
Serials == consumed <= front.serial /\ front.serial <= newest.serial /\ newest.serial = serial
\* every source has been started;
Known == /\ \A n \in alive \cup filled \cup released : n <= started
         /\ \A s \in Slots : voices[s].active => voices[s].source \in Source
\* what a frame names is deferred no further back than that frame;
Covered(frame) ==
  \A s \in Slots : frame.voices[s].active =>
    /\ frame.voices[s].source \in alive
    /\ \A d \in deferred : d.source = frame.voices[s].source => d.after >= frame.serial
\* the fill thread is told of a source only before its removal, and releases it last;
Orderly(q) == \A i, j \in 1 .. Len(q) : i < j /\ q[i].op = "remove" => q[j].source # q[i].source
Unremoved(q, slot) == \A i \in 1 .. Len(q) : q[i].op = "remove" => q[i].source # voices[slot].source
Fillable == (alive \cap filled) \ released
Told ==
  /\ working \subseteq Fillable
  /\ \A i \in 1 .. Len(commands) : commands[i].source \in Fillable
  /\ Orderly(commands)
  /\ \A s \in Slots : voices[s].active => voices[s].source \notin released /\ Unremoved(commands, s)
\* and the generations of a slot never run ahead of the voice in it.
Generations ==
  /\ \A s \in Slots : /\ rt[s].gen <= front.voices[s].gen
                      /\ front.voices[s].gen <= newest.voices[s].gen
                      /\ newest.voices[s].gen <= voices[s].gen
  /\ \A i \in 1 .. Len(retired) :
       LET r == retired[i] IN r.gen <= rt[r.slot].gen /\ (r.gen = rt[r.slot].gen => rt[r.slot].finished)
\* The inductive invariant.
ReclaimInv == /\ TypeOK /\ OneOwner /\ Serials /\ Known
              /\ Covered(newest) /\ Covered(front) /\ Told /\ Generations

\* The main thread takes from its slot, unasked, only the very voice the callback
\* has finished: what reused the slot before the retirement was read stays.
ReapsOnlyFinished ==
  [][\A s \in Slots :
       pump = "draining" /\ voices[s].active /\ ~voices'[s].active
         => rt[s].finished /\ rt[s].gen = voices[s].gen]_vars

\* A source given up is freed, in the end (CollectDeferred), if the ring of
\* commands never fills.
Reclaimed ==
  [](Len(commands) < CommandRoom) =>
    \A n \in Source : (\E d \in deferred : d.source = n /\ d.after < MaxSerial) ~> n \notin alive
=============================================================================
