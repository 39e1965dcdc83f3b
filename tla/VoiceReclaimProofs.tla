------------------------- MODULE VoiceReclaimProofs -------------------------
(***************************************************************************)
(* Proofs about VoiceReclaim, for any number of voice slots and rings of    *)
(* any size, however much they drop: nothing is used after it is freed, a   *)
(* source has one owner, and a retirement reaps only the voice it names.    *)
(***************************************************************************)
EXTENDS VoiceReclaim, TLAPS

Command == [op : {"add", "remove"}, source : Source]
Retirement == [slot : Slots, gen : Nat]

\* What a push leaves in a ring.
LEMMA PushedFacts ==
  ASSUME NEW S, NEW q \in Seq(S), NEW e \in S, NEW room \in Nat, Len(q) <= room
  PROVE  /\ Pushed(q, e, room) \in Seq(S) /\ Len(Pushed(q, e, room)) <= room
         /\ \/ Pushed(q, e, room) = q
            \/ /\ Len(Pushed(q, e, room)) = Len(q) + 1
               /\ Pushed(q, e, room)[Len(q) + 1] = e
               /\ \A i \in 1 .. Len(q) : Pushed(q, e, room)[i] = q[i]
<1>1. CASE Len(q) < room
  <2>1. Pushed(q, e, room) = Append(q, e)
    BY <1>1 DEF Pushed
  <2> QED
    BY <1>1, <2>1
<1>2. CASE ~(Len(q) < room)
  BY <1>2 DEF Pushed
<1> QED
  BY <1>1, <1>2

\* What a pop leaves in a ring.
LEMMA TailFacts ==
  ASSUME NEW S, NEW q \in Seq(S), q # <<>>
  PROVE  /\ Tail(q) \in Seq(S) /\ Len(Tail(q)) = Len(q) - 1 /\ Len(q) \in Nat \ {0}
         /\ Head(q) = q[1] /\ Head(q) \in S
         /\ \A i \in 1 .. Len(Tail(q)) : i + 1 \in 1 .. Len(q) /\ Tail(q)[i] = q[i + 1]
  OBVIOUS

\* A push keeps the commands orderly if what it pushes has not been removed.
LEMMA PushedOrderly ==
  ASSUME NEW q \in Seq(Command), NEW e \in Command, Len(q) <= CommandRoom, Orderly(q),
         \A i \in 1 .. Len(q) : q[i].op = "remove" => q[i].source # e.source
  PROVE  Orderly(Pushed(q, e, CommandRoom))
<1> DEFINE p == Pushed(q, e, CommandRoom)
<1>1. \/ p = q
      \/ Len(p) = Len(q) + 1 /\ p[Len(q) + 1] = e /\ \A i \in 1 .. Len(q) : p[i] = q[i]
  <2>1. CASE Len(q) < CommandRoom
    <3>1. p = Append(q, e)
      BY <2>1 DEF Pushed
    <3> QED
      BY <3>1
  <2>2. CASE ~(Len(q) < CommandRoom)
    BY <2>2 DEF Pushed
  <2> QED
    BY <2>1, <2>2
<1>2. Len(q) \in Nat
  OBVIOUS
<1> HIDE DEF p
<1>3. Orderly(p)
  BY <1>1, <1>2 DEF Orderly
<1> QED
  BY <1>3 DEF p

\* Everything that RetireSlot does to a voice, whoever asks for it.
LEMMA Retiring ==
  ASSUME ReclaimInv, NEW slot \in Slots, voices[slot].active
  PROVE  /\ Removed(slot) \in Seq(Command) /\ Len(Removed(slot)) <= CommandRoom
         /\ \A i \in 1 .. Len(Removed(slot)) : Removed(slot)[i].source \in Fillable
         /\ Orderly(Removed(slot))
         /\ \A s \in Slots \ {slot} : voices[s].active => Unremoved(Removed(slot), s)
<1> DEFINE n == voices[slot].source
           e == [op |-> "remove", source |-> n]
<1>1. /\ commands \in Seq(Command) /\ Len(commands) <= CommandRoom /\ Len(commands) \in Nat
      /\ \A i \in 1 .. Len(commands) : commands[i].source \in Fillable
      /\ Orderly(commands)
      /\ n \in Source /\ n \notin released /\ Unremoved(commands, slot)
      /\ \A s \in Slots : voices[s].active => Unremoved(commands, s)
  BY DEF ReclaimInv, TypeOK, Told, Known, Command
<1>2. n \in alive
  BY <1>1 DEF ReclaimInv, OneOwner, InVoices
<1>3. CASE n \in filled
  <2> DEFINE p == Pushed(commands, e, CommandRoom)
  <2>1. Removed(slot) = p
    BY <1>3 DEF Removed
  <2>2. e \in Command /\ e.source = n /\ e.op = "remove"
    BY <1>1 DEF Command
  <2>3. /\ p \in Seq(Command) /\ Len(p) <= CommandRoom
        /\ \/ p = commands
           \/ /\ Len(p) = Len(commands) + 1 /\ p[Len(commands) + 1] = e
              /\ \A i \in 1 .. Len(commands) : p[i] = commands[i]
    BY <1>1, <2>2, PushedFacts, ReclaimAssumption
  <2>4. Orderly(p)
    BY <1>1, <2>2, PushedOrderly DEF Unremoved
  <2>5. e.source \in Fillable
    BY <1>1, <1>2, <1>3, <2>2 DEF Fillable
  <2>6. \A s \in Slots \ {slot} : voices[s].active => voices[s].source # n
    BY DEF ReclaimInv, OneOwner
  <2> HIDE DEF p, e, n
  <2>7. \A i \in 1 .. Len(p) : p[i].source \in Fillable
    BY <1>1, <2>3, <2>5
  <2>8. \A s \in Slots \ {slot} : voices[s].active => Unremoved(p, s)
    BY <1>1, <2>2, <2>3, <2>6 DEF Unremoved
  <2> QED
    BY <2>1, <2>3, <2>4, <2>7, <2>8
<1>4. CASE n \notin filled
  BY <1>1, <1>4 DEF Removed
<1> QED
  BY <1>3, <1>4

\* ... and what it leaves behind.
LEMMA Retires ==
  ASSUME ReclaimInv, NEW slot \in Slots, voices[slot].active,
         deferred' = Deferred(slot), commands' = Removed(slot),
         voices' = [voices EXCEPT ![slot] = Emptied(slot)],
         UNCHANGED <<started, filled, alive, serial, newest, front, consumed, fillVars>>
  PROVE  /\ deferred' \subseteq [source : Source, after : 0 .. MaxSerial]
         /\ voices' \in [Slots -> Voice]
         /\ commands' \in Seq(Command) /\ Len(commands') <= CommandRoom
         /\ OneOwner' /\ Serials' /\ Known'
         /\ Covered(newest)' /\ Covered(front)' /\ Told'
         /\ \A s \in Slots : voices'[s].gen = voices[s].gen
<1> DEFINE n == voices[slot].source
           d0 == [source |-> n, after |-> serial]
<1>1. /\ voices \in [Slots -> Voice] /\ deferred \subseteq [source : Source, after : 0 .. MaxSerial]
      /\ serial \in 0 .. MaxSerial /\ MaxSerial \in Nat
      /\ newest \in Frame /\ front \in Frame /\ consumed \in 0 .. MaxSerial
  BY ReclaimAssumption DEF ReclaimInv, TypeOK
<1>2. n \in Source /\ n \in alive
  BY DEF ReclaimInv, Known, OneOwner, InVoices
<1>3. deferred' = deferred \cup {d0}
  BY DEF Deferred, SafeAfter
<1>4. /\ voices' \in [Slots -> Voice]
      /\ ~voices'[slot].active
      /\ \A s \in Slots : voices'[s].gen = voices[s].gen
      /\ \A s \in Slots : voices'[s].active => s # slot /\ voices'[s] = voices[s]
      /\ \A s \in Slots \ {slot} : voices'[s] = voices[s]
  BY <1>1 DEF Emptied, Voice
<1>5. d0 \in [source : Source, after : 0 .. MaxSerial] /\ d0.source = n /\ d0.after = serial
  BY <1>1, <1>2
<1>6. \A s \in Slots : voices[s].active /\ voices[s].source = n => s = slot
  BY DEF ReclaimInv, OneOwner
<1>7. \A d \in deferred : d.source # n
  BY DEF ReclaimInv, OneOwner, InVoices
<1> HIDE DEF d0, n
<1>8. OneOwner'
  <2>1. \A m \in Source : InVoices(m)' <=> InVoices(m) /\ m # n
    BY <1>4, <1>6 DEF InVoices, n
  <2>2. \A m \in Source : InDeferred(m)' <=> InDeferred(m) \/ m = n
    BY <1>3, <1>5 DEF InDeferred
  <2>3. \A m \in Source : m \in alive' <=> (InVoices(m)' \/ InDeferred(m)')
    BY <1>2, <2>1, <2>2 DEF ReclaimInv, OneOwner
  <2>4. \A s, t \in Slots :
          voices'[s].active /\ voices'[t].active /\ voices'[s].source = voices'[t].source => s = t
    BY <1>4 DEF ReclaimInv, OneOwner
  <2>5. \A d \in deferred' : ~InVoices(d.source)'
    BY <1>1, <1>2, <1>3, <1>5, <2>1 DEF ReclaimInv, OneOwner
  <2>6. \A d, e \in deferred' : d.source = e.source => d = e
    BY <1>3, <1>5, <1>7 DEF ReclaimInv, OneOwner
  <2> QED
    BY <2>3, <2>4, <2>5, <2>6 DEF OneOwner
<1>9. Serials'
  BY DEF ReclaimInv, Serials
<1>10. Known'
  BY <1>4 DEF ReclaimInv, Known, fillVars
<1>11. ASSUME NEW frame \in Frame, Covered(frame), frame.serial <= serial,
              NEW s \in Slots, frame.voices[s].active
       PROVE  /\ frame.voices[s].source \in alive
              /\ \A d \in deferred' : d.source = frame.voices[s].source => d.after >= frame.serial
  BY <1>1, <1>3, <1>5, <1>11 DEF Covered, Frame
<1>12. newest.serial <= serial /\ front.serial <= serial
  BY <1>1 DEF ReclaimInv, Serials, Frame
<1>13. Covered(newest)' /\ Covered(front)'
  BY <1>1, <1>11, <1>12 DEF ReclaimInv, Covered
<1>14. Told'
  <2>1. Fillable' = Fillable
    BY DEF Fillable, fillVars
  <2>2. \A s \in Slots : voices'[s].active => voices'[s].source \notin released' /\ Unremoved(commands, s)'
    BY <1>4, Retiring DEF ReclaimInv, Told, Unremoved, fillVars
  <2> QED
    BY <2>1, <2>2, Retiring DEF ReclaimInv, Told, fillVars, Orderly
<1> QED
  BY <1>3, <1>1, <1>5, <1>4, <1>8, <1>9, <1>10, <1>13, <1>14, Retiring
-----------------------------------------------------------------------------
(* Each action keeps the invariant *)

LEMMA InitReclaim == Init => ReclaimInv
<1> SUFFICES ASSUME Init PROVE ReclaimInv
  OBVIOUS
<1> USE ReclaimAssumption DEF Init
<1>1. voices \in [Slots -> Voice] /\ newest \in Frame /\ front \in Frame
  BY DEF NoVoice, NoFrame, Voice, Frame
<1>2. TypeOK
  BY <1>1 DEF TypeOK
<1>3. OneOwner
  BY DEF OneOwner, NoVoice, InVoices, InDeferred
<1>4. Serials /\ Known
  BY DEF Serials, Known, NoFrame, NoVoice
<1>5. Covered(newest) /\ Covered(front) /\ Told
  BY DEF Covered, NoFrame, NoVoice, Told, Orderly, Unremoved
<1>6. Generations
  BY DEF Generations, NoFrame, NoVoice
<1> QED
  BY <1>2, <1>3, <1>4, <1>5, <1>6 DEF ReclaimInv

LEMMA StopKeeps == ASSUME ReclaimInv, NEW slot \in Slots, StopVoice(slot) PROVE ReclaimInv'
<1> USE DEF StopVoice, mixVars, fillVars
<1>1. /\ deferred' \subseteq [source : Source, after : 0 .. MaxSerial]
      /\ voices' \in [Slots -> Voice]
      /\ commands' \in Seq(Command) /\ Len(commands') <= CommandRoom
      /\ OneOwner' /\ Serials' /\ Known' /\ Covered(newest)' /\ Covered(front)' /\ Told'
      /\ \A s \in Slots : voices'[s].gen = voices[s].gen
  BY Retires
<1>2. TypeOK'
  BY <1>1 DEF ReclaimInv, TypeOK, Command
<1>3. Generations'
  BY <1>1 DEF ReclaimInv, Generations
<1> QED
  BY <1>1, <1>2, <1>3 DEF ReclaimInv

LEMMA DrainKeeps == ASSUME ReclaimInv, DrainRetired PROVE ReclaimInv'
<1> USE DEF mixVars, fillVars
<1> DEFINE r == Head(retired)
<1>1. /\ retired \in Seq(Retirement) /\ Len(retired) <= RetiredRoom /\ RetiredRoom \in Nat
      /\ retired # <<>> /\ retired' = Tail(retired)
  BY ReclaimAssumption DEF ReclaimInv, TypeOK, DrainRetired, Retirement
<1>2. /\ retired' \in Seq(Retirement) /\ Len(retired') <= RetiredRoom
      /\ r \in Retirement
      /\ \A i \in 1 .. Len(retired') : i + 1 \in 1 .. Len(retired) /\ retired'[i] = retired[i + 1]
  BY <1>1, TailFacts
<1>3. /\ deferred' \subseteq [source : Source, after : 0 .. MaxSerial]
      /\ voices' \in [Slots -> Voice]
      /\ commands' \in Seq(Command) /\ Len(commands') <= CommandRoom
      /\ OneOwner' /\ Serials' /\ Known' /\ Covered(newest)' /\ Covered(front)' /\ Told'
      /\ \A s \in Slots : voices'[s].gen = voices[s].gen
  <2>1. CASE StillThat(r)
    <3>1. r.slot \in Slots /\ voices[r.slot].active
      BY <1>2, <2>1 DEF StillThat, Retirement
    <3>2. /\ deferred' = Deferred(r.slot) /\ commands' = Removed(r.slot)
          /\ voices' = [voices EXCEPT ![r.slot] = Emptied(r.slot)]
          /\ UNCHANGED <<started, filled, alive, serial, newest, front, consumed, fillVars>>
      BY <2>1 DEF DrainRetired
    <3> HIDE DEF r
    <3> QED
      BY <3>1, <3>2, Retires
  <2>2. CASE ~StillThat(r)
    <3>1. UNCHANGED <<voices, deferred, commands, started, filled, alive, serial, newest, front, consumed, fillVars>>
      BY <2>2 DEF DrainRetired
    <3>2. OneOwner' /\ Serials' /\ Known' /\ Covered(newest)' /\ Covered(front)' /\ Told'
      BY <3>1 DEF ReclaimInv, OneOwner, InVoices, InDeferred, Serials, Known, Covered, Told,
                  Fillable, Orderly, Unremoved
    <3> QED
      BY <3>1, <3>2 DEF ReclaimInv, TypeOK, Command
  <2> QED
    BY <2>1, <2>2
<1>4. TypeOK'
  BY <1>2, <1>3 DEF ReclaimInv, TypeOK, Command, Retirement, DrainRetired
<1>5. Generations'
  <2>1. UNCHANGED <<rt, front, newest>>
    BY DEF DrainRetired
  <2> QED
    BY <1>2, <1>3, <2>1 DEF ReclaimInv, Generations
<1> QED
  BY <1>3, <1>4, <1>5 DEF ReclaimInv

\* Starting a voice, in a slot that is free or taken from another.
LEMMA AddKeeps == ASSUME ReclaimInv, AddVoice PROVE ReclaimInv'
<1> USE DEF mixVars, fillVars
<1> DEFINE n == started + 1
<1>1. PICK slot \in Slots, fill \in BOOLEAN :
        LET told == IF voices[slot].active THEN Removed(slot) ELSE commands IN
        /\ deferred' = IF voices[slot].active THEN Deferred(slot) ELSE deferred
        /\ voices' = [voices EXCEPT ![slot] = [active |-> TRUE, gen |-> @.gen + 1, source |-> n]]
        /\ commands' = IF fill THEN Pushed(told, [op |-> "add", source |-> n], CommandRoom) ELSE told
        /\ filled' = IF fill THEN filled \cup {n} ELSE filled
        /\ started' = n
        /\ alive' = alive \cup {n}
  BY DEF AddVoice
<1> DEFINE told == IF voices[slot].active THEN Removed(slot) ELSE commands
           old == voices[slot].source
           d0 == [source |-> old, after |-> serial]
           e == [op |-> "add", source |-> n]
<1>2. /\ UNCHANGED <<serial, newest, pump, driven, front, at, rt, consumed, retired, working, released>>
      /\ started < MaxSources
  BY DEF AddVoice
<1>3. /\ voices \in [Slots -> Voice] /\ deferred \subseteq [source : Source, after : 0 .. MaxSerial]
      /\ serial \in 0 .. MaxSerial /\ MaxSerial \in Nat /\ started \in 0 .. MaxSources /\ MaxSources \in Nat
      /\ newest \in Frame /\ front \in Frame
      /\ alive \subseteq Source /\ filled \subseteq Source /\ released \subseteq Source
      /\ commands \in Seq(Command) /\ Len(commands) <= CommandRoom /\ CommandRoom \in Nat
  BY ReclaimAssumption DEF ReclaimInv, TypeOK, Command
<1>4. /\ n \in Source /\ started' \in 0 .. MaxSources
      /\ n \notin alive /\ n \notin filled /\ n \notin released
  BY <1>1, <1>2, <1>3 DEF ReclaimInv, Known, Source
<1>5. e \in Command /\ e.source = n /\ e.op = "add"
  BY <1>4 DEF Command
<1>6. /\ voices' \in [Slots -> Voice]
      /\ voices'[slot].active /\ voices'[slot].source = n /\ voices'[slot].gen = voices[slot].gen + 1
      /\ \A s \in Slots \ {slot} : voices'[s] = voices[s]
  BY <1>1, <1>3, <1>4 DEF Voice
<1>7. /\ told \in Seq(Command) /\ Len(told) <= CommandRoom /\ Len(told) \in Nat
      /\ \A i \in 1 .. Len(told) : told[i].source \in Fillable
      /\ Orderly(told)
      /\ \A s \in Slots \ {slot} : voices[s].active => Unremoved(told, s)
  <2>1. CASE voices[slot].active
    BY <2>1, Retiring
  <2>2. CASE ~voices[slot].active
    BY <1>3, <2>2 DEF ReclaimInv, Told
  <2> QED
    BY <2>1, <2>2
<1>8. deferred' = IF voices[slot].active THEN deferred \cup {d0} ELSE deferred
  BY <1>1 DEF Deferred, SafeAfter
<1>9. voices[slot].active => old \in Source /\ old \in alive /\ d0 \in [source : Source, after : 0 .. MaxSerial]
                             /\ d0.source = old /\ d0.after = serial
  BY <1>3 DEF ReclaimInv, Known, OneOwner, InVoices
<1>10. commands' = IF fill THEN Pushed(told, e, CommandRoom) ELSE told
  BY <1>1
<1>11. \A s \in Slots \ {slot} : voices[s].active =>
         voices[s].source \in alive /\ (voices[slot].active => voices[s].source # old)
  BY <1>3 DEF ReclaimInv, Known, OneOwner, InVoices
<1>12. \A d \in deferred : d.source \in alive /\ (voices[slot].active => d.source # old)
  BY <1>3 DEF ReclaimInv, Known, OneOwner, InVoices, InDeferred
<1>13. /\ filled' = IF fill THEN filled \cup {n} ELSE filled
       /\ started' = n /\ alive' = alive \cup {n} /\ n > started
  BY <1>1, <1>3
<1> HIDE DEF told, d0, e, n, old
<1>14. OneOwner'
  <2>1. \A m \in Source : InVoices(m)' <=> m = n \/ (InVoices(m) /\ ~(voices[slot].active /\ m = old))
    BY <1>6, <1>11, <1>9 DEF InVoices, old
  <2>2. \A m \in Source : InDeferred(m)' <=> InDeferred(m) \/ (voices[slot].active /\ m = old)
    BY <1>8, <1>9 DEF InDeferred
  <2>3. \A m \in Source : m \in alive' <=> (InVoices(m)' \/ InDeferred(m)')
    BY <1>13, <1>9, <2>1, <2>2 DEF ReclaimInv, OneOwner
  <2>4. \A s, t \in Slots :
          voices'[s].active /\ voices'[t].active /\ voices'[s].source = voices'[t].source => s = t
    BY <1>4, <1>6, <1>11 DEF ReclaimInv, OneOwner
  <2>5. \A d \in deferred' : ~InVoices(d.source)'
    BY <1>3, <1>4, <1>8, <1>9, <1>12, <2>1 DEF ReclaimInv, OneOwner
  <2>6. \A d, c \in deferred' : d.source = c.source => d = c
    BY <1>8, <1>9, <1>12 DEF ReclaimInv, OneOwner
  <2> QED
    BY <2>3, <2>4, <2>5, <2>6 DEF OneOwner
<1>15. Serials'
  BY <1>2 DEF ReclaimInv, Serials
<1>16. Known'
  <2>1. \A m \in alive' \cup filled' \cup released' : m \in Source /\ m <= started'
    BY <1>2, <1>3, <1>4, <1>13 DEF ReclaimInv, Known, Source
  <2>2. \A s \in Slots : voices'[s].active => voices'[s].source \in Source
    BY <1>4, <1>6 DEF ReclaimInv, Known
  <2> QED
    BY <2>1, <2>2 DEF Known
<1>17. ASSUME NEW frame \in Frame, Covered(frame), frame.serial <= serial,
              NEW s \in Slots, frame.voices[s].active
       PROVE  /\ frame.voices[s].source \in alive'
              /\ \A d \in deferred' : d.source = frame.voices[s].source => d.after >= frame.serial
  BY <1>3, <1>8, <1>9, <1>13, <1>17 DEF Covered, Frame
<1>18. Covered(newest)' /\ Covered(front)'
  <2>1. newest.serial <= serial /\ front.serial <= serial
    BY <1>3 DEF ReclaimInv, Serials, Frame
  <2> QED
    BY <1>2, <1>3, <1>17, <2>1 DEF ReclaimInv, Covered
<1>19. /\ commands' \in Seq(Command) /\ Len(commands') <= CommandRoom
       /\ \/ commands' = told
          \/ /\ fill /\ Len(commands') = Len(told) + 1 /\ commands'[Len(told) + 1] = e
             /\ \A i \in 1 .. Len(told) : commands'[i] = told[i]
  BY <1>3, <1>5, <1>7, <1>10, PushedFacts
<1>20. Told'
  <2>1. Fillable \subseteq Fillable' /\ (fill => n \in Fillable') /\ n \notin Fillable
    BY <1>2, <1>4, <1>13 DEF Fillable
  <2>2. \A i \in 1 .. Len(commands') : commands'[i].source \in Fillable'
    BY <1>5, <1>7, <1>19, <2>1
  <2>3. Orderly(commands')
    <3>1. \A i \in 1 .. Len(told) : told[i].op = "remove" => told[i].source # e.source
      BY <1>5, <1>7, <2>1
    <3>2. Orderly(Pushed(told, e, CommandRoom))
      BY <1>5, <1>7, <3>1, PushedOrderly
    <3> QED
      BY <1>7, <1>10, <3>2
  <2>4. \A s \in Slots : voices'[s].active => Unremoved(commands, s)'
    <3>1. \A s \in Slots \ {slot} : voices[s].active => Unremoved(commands', s)
      BY <1>5, <1>7, <1>19 DEF Unremoved
    <3>2. Unremoved(commands, slot)'
      BY <1>5, <1>6, <1>7, <1>19, <2>1 DEF Unremoved
    <3> QED
      BY <1>6, <3>1, <3>2 DEF Unremoved
  <2>5. \A s \in Slots : voices'[s].active => voices'[s].source \notin released'
    BY <1>2, <1>4, <1>6 DEF ReclaimInv, Told
  <2>6. working' \subseteq Fillable'
    BY <1>2, <2>1 DEF ReclaimInv, Told
  <2> QED
    BY <2>2, <2>3, <2>4, <2>5, <2>6 DEF Told, Orderly
<1>21. TypeOK'
  <2>1. deferred' \subseteq [source : Source, after : 0 .. MaxSerial]
    BY <1>3, <1>8, <1>9
  <2>2. alive' \subseteq Source /\ filled' \subseteq Source
    BY <1>3, <1>4, <1>13
  <2> QED
    BY <1>2, <1>4, <1>6, <1>19, <2>1, <2>2 DEF ReclaimInv, TypeOK, Command
<1>22. Generations'
  <2>1. \A s \in Slots : voices[s].gen \in Nat /\ newest.voices[s].gen \in Nat /\ voices'[s].gen >= voices[s].gen
                         /\ voices'[s].gen \in Nat
    BY <1>3, <1>6 DEF Voice, Frame
  <2> QED
    BY <1>2, <2>1 DEF ReclaimInv, Generations
<1> QED
  BY <1>14, <1>15, <1>16, <1>18, <1>20, <1>21, <1>22 DEF ReclaimInv

\* Who mixes, and a pump that mixes nothing, are no concern of the sources.
LEMMA QuietKeeps == ASSUME ReclaimInv, SetDriven \/ SkipMix PROVE ReclaimInv'
<1>1. /\ UNCHANGED <<engineVars, mixVars, retired, commands, fillVars>>
      /\ pump' \in {"done", "mixing", "draining"} /\ driven' \in BOOLEAN
  BY DEF SetDriven, SkipMix, ReclaimInv, TypeOK
<1> USE <1>1 DEF engineVars, mixVars, fillVars
<1>2. TypeOK'
  BY DEF ReclaimInv, TypeOK
<1>3. OneOwner' /\ Serials' /\ Known' /\ Covered(newest)' /\ Covered(front)' /\ Told' /\ Generations'
  BY DEF ReclaimInv, OneOwner, InVoices, InDeferred, Serials, Known, Covered, Told, Fillable,
         Orderly, Unremoved, Generations
<1> QED
  BY <1>2, <1>3 DEF ReclaimInv

LEMMA PublishKeeps == ASSUME ReclaimInv, PublishSnapshot PROVE ReclaimInv'
<1> USE DEF mixVars, fillVars
<1>1. /\ UNCHANGED <<voices, started, filled, alive, deferred, driven, front, at, rt, consumed,
                     retired, commands, working, released>>
      /\ serial' = (IF serial < MaxSerial THEN serial + 1 ELSE serial)
      /\ newest' = [serial |-> serial', voices |-> voices]
      /\ pump' \in {"done", "mixing", "draining"}
  BY DEF PublishSnapshot
<1>2. /\ voices \in [Slots -> Voice] /\ serial \in 0 .. MaxSerial /\ MaxSerial \in Nat
      /\ front \in Frame /\ newest \in Frame /\ consumed \in 0 .. MaxSerial
  BY ReclaimAssumption DEF ReclaimInv, TypeOK
<1>3. serial' \in 0 .. MaxSerial /\ serial' >= serial
  BY <1>1, <1>2
<1>4. newest' \in Frame /\ newest'.serial = serial' /\ newest'.voices = voices
  BY <1>1, <1>2, <1>3 DEF Frame
<1>5. TypeOK'
  BY <1>1, <1>3, <1>4 DEF ReclaimInv, TypeOK
<1>6. OneOwner' /\ Known' /\ Told'
  BY <1>1 DEF ReclaimInv, OneOwner, InVoices, InDeferred, Known, Told, Fillable, Orderly, Unremoved
<1>7. Serials'
  BY <1>1, <1>2, <1>3, <1>4 DEF ReclaimInv, Serials, Frame
<1>8. Covered(front)'
  BY <1>1 DEF ReclaimInv, Covered
<1>9. Covered(newest)'
  <2>1. \A s \in Slots : voices[s].active =>
          voices[s].source \in alive /\ \A d \in deferred : d.source # voices[s].source
    BY DEF ReclaimInv, Known, OneOwner, InVoices
  <2> QED
    BY <1>1, <1>4, <2>1 DEF Covered
<1>10. Generations'
  <2>1. \A s \in Slots : /\ voices[s].gen \in Nat /\ newest.voices[s].gen \in Nat
                         /\ front.voices[s].gen \in Nat
    BY <1>2 DEF Voice, Frame
  <2> QED
    BY <1>1, <1>4, <2>1 DEF ReclaimInv, Generations
<1> QED
  BY <1>5, <1>6, <1>7, <1>8, <1>9, <1>10 DEF ReclaimInv

\* Freeing what both threads are past.
LEMMA CollectKeeps == ASSUME ReclaimInv, CollectDeferred PROVE ReclaimInv'
<1> USE DEF mixVars, fillVars
<1> DEFINE safe == {d \in deferred : Safe(d)}
           gone == {d.source : d \in safe}
<1>1. /\ UNCHANGED <<voices, started, filled, serial, newest, driven, front, at, rt, consumed,
                     retired, commands, working, released>>
      /\ deferred' = deferred \ safe /\ alive' = alive \ gone
      /\ pump' \in {"done", "mixing", "draining"}
  BY DEF CollectDeferred
<1>2. /\ deferred \subseteq [source : Source, after : 0 .. MaxSerial] /\ MaxSerial \in Nat
      /\ front \in Frame /\ newest \in Frame /\ consumed \in 0 .. MaxSerial /\ serial \in 0 .. MaxSerial
      /\ front.serial \in 0 .. MaxSerial /\ newest.serial \in 0 .. MaxSerial
  BY ReclaimAssumption DEF ReclaimInv, TypeOK, Frame
<1>3. \A d \in safe : d \in deferred /\ consumed > d.after /\ (d.source \in filled => d.source \in released)
  BY DEF Safe
<1>4. \A m : m \in gone <=> \E d \in safe : d.source = m
  OBVIOUS
<1> HIDE DEF safe, gone
<1>5. TypeOK'
  BY <1>1 DEF ReclaimInv, TypeOK
<1>6. OneOwner'
  <2>1. \A m \in Source : m \in gone => ~InVoices(m) /\ ~InDeferred(m)'
    BY <1>1, <1>3, <1>4 DEF ReclaimInv, OneOwner, InDeferred
  <2>2. \A m \in Source : m \notin gone => (InDeferred(m)' <=> InDeferred(m))
    BY <1>1, <1>4 DEF InDeferred
  <2>3. \A m : InVoices(m)' <=> InVoices(m)
    BY <1>1 DEF InVoices
  <2>4. \A m \in Source : m \in alive' <=> (InVoices(m)' \/ InDeferred(m)')
    BY <1>1, <2>1, <2>2, <2>3 DEF ReclaimInv, OneOwner
  <2> QED
    BY <1>1, <2>3, <2>4 DEF ReclaimInv, OneOwner
<1>7. Serials' /\ Known' /\ Generations'
  BY <1>1 DEF ReclaimInv, Serials, Known, Generations
<1>8. ASSUME NEW frame \in Frame, Covered(frame), consumed <= frame.serial,
             NEW s \in Slots, frame.voices[s].active
      PROVE  frame.voices[s].source \notin gone
  BY <1>2, <1>3, <1>4, <1>8 DEF Covered, Frame
<1>9. Covered(newest)' /\ Covered(front)'
  <2>1. consumed <= newest.serial /\ consumed <= front.serial
    BY <1>2 DEF ReclaimInv, Serials
  <2> QED
    BY <1>1, <1>2, <1>8, <2>1 DEF ReclaimInv, Covered
<1>10. Told'
  <2>1. Fillable' = Fillable
    BY <1>1, <1>3, <1>4 DEF Fillable
  <2> QED
    BY <1>1, <2>1 DEF ReclaimInv, Told, Orderly, Unremoved
<1> QED
  BY <1>5, <1>6, <1>7, <1>9, <1>10 DEF ReclaimInv

\* The callback latches a frame, or is done with one.
LEMMA LatchKeeps == ASSUME ReclaimInv, StartBlock \/ EndBlock PROVE ReclaimInv'
<1> USE DEF engineVars, fillVars
<1>1. /\ UNCHANGED <<voices, started, filled, alive, deferred, serial, newest, driven, rt,
                     retired, commands, working, released>>
      /\ front' \in {front, newest} /\ consumed' \in {consumed, front.serial}
      /\ (front' = newest /\ consumed' = consumed) \/ front' = front
      /\ at' \in {0, 1}
      /\ pump' \in {pump, "draining"}
  BY DEF StartBlock, EndBlock
<1>2. /\ front \in Frame /\ newest \in Frame /\ consumed \in 0 .. MaxSerial
      /\ front.serial \in 0 .. MaxSerial /\ newest.serial \in 0 .. MaxSerial
      /\ MaxSerial \in Nat /\ MaxVoices \in Nat
  BY ReclaimAssumption DEF ReclaimInv, TypeOK, Frame
<1>3. TypeOK'
  BY <1>1, <1>2 DEF ReclaimInv, TypeOK
<1>4. OneOwner' /\ Known' /\ Told'
  BY <1>1 DEF ReclaimInv, OneOwner, InVoices, InDeferred, Known, Told, Fillable, Orderly, Unremoved
<1>5. Serials'
  BY <1>1, <1>2 DEF ReclaimInv, Serials
<1>6. Covered(newest)' /\ Covered(front)'
  BY <1>1 DEF ReclaimInv, Covered
<1>7. Generations'
  <2>1. \A s \in Slots : newest.voices[s].gen \in Nat /\ front.voices[s].gen \in Nat /\ rt[s].gen \in Nat
    BY <1>2 DEF ReclaimInv, TypeOK, Voice, Frame
  <2> QED
    BY <1>1, <2>1 DEF ReclaimInv, Generations
<1> QED
  BY <1>3, <1>4, <1>5, <1>6, <1>7 DEF ReclaimInv

\* The callback mixes one slot and may post its retirement.
LEMMA MixKeeps == ASSUME ReclaimInv, MixSlot PROVE ReclaimInv'
<1> USE DEF engineVars, fillVars
<1> DEFINE voice == front.voices[at]
           state == IF rt[at].gen = voice.gen THEN rt[at] ELSE [gen |-> voice.gen, finished |-> FALSE]
<1>1. /\ UNCHANGED <<voices, started, filled, alive, deferred, serial, newest, pump, driven, front,
                     consumed, commands, working, released>>
      /\ at \in Slots /\ at' = at + 1
  BY DEF MixSlot
<1>2. /\ front \in Frame /\ newest \in Frame /\ MaxVoices \in Nat
      /\ rt \in [Slots -> [gen : Nat, finished : BOOLEAN]]
      /\ retired \in Seq(Retirement) /\ Len(retired) <= RetiredRoom /\ RetiredRoom \in Nat /\ Len(retired) \in Nat
  BY ReclaimAssumption DEF ReclaimInv, TypeOK, Retirement
<1>3. /\ voice \in Voice /\ voice.gen \in Nat /\ rt[at].gen \in Nat /\ rt[at].gen <= voice.gen
      /\ state.gen = voice.gen /\ state \in [gen : Nat, finished : BOOLEAN]
      /\ (rt[at].gen = voice.gen => state = rt[at])
  BY <1>1, <1>2 DEF ReclaimInv, Generations, Frame, Voice
<1>4. /\ rt' \in [Slots -> [gen : Nat, finished : BOOLEAN]]
      /\ \A s \in Slots \ {at} : rt'[s] = rt[s]
      /\ rt'[at].gen >= rt[at].gen /\ rt'[at].gen <= voice.gen
      /\ rt'[at].gen = rt[at].gen /\ rt[at].finished => rt'[at].finished
      /\ retired' \in Seq(Retirement) /\ Len(retired') <= RetiredRoom
      /\ \/ retired' = retired
         \/ /\ Len(retired') = Len(retired) + 1
            /\ retired'[Len(retired) + 1] = [slot |-> at, gen |-> voice.gen]
            /\ \A i \in 1 .. Len(retired) : retired'[i] = retired[i]
            /\ rt'[at].gen = voice.gen /\ rt'[at].finished
  <2>1. CASE ~voice.active
    <3>1. UNCHANGED <<rt, retired>>
      BY <2>1 DEF MixSlot
    <3> QED
      BY <1>1, <1>2, <1>3, <3>1
  <2>2. CASE voice.active
    <3> DEFINE r == [slot |-> at, gen |-> voice.gen]
    <3>1. PICK exhausted \in {FALSE, ~state.finished} :
            /\ rt' = [rt EXCEPT ![at] = [state EXCEPT !.finished = @ \/ exhausted]]
            /\ retired' = IF exhausted THEN Pushed(retired, r, RetiredRoom) ELSE retired
      BY <2>2 DEF MixSlot
    <3>2. exhausted \in BOOLEAN /\ r \in Retirement
      BY <1>1, <1>3 DEF Retirement
    <3> HIDE DEF state, voice
    <3>3. /\ rt' \in [Slots -> [gen : Nat, finished : BOOLEAN]]
          /\ \A s \in Slots \ {at} : rt'[s] = rt[s]
          /\ rt'[at].gen = voice.gen
          /\ rt'[at].finished <=> state.finished \/ exhausted
      BY <1>1, <1>2, <1>3, <3>1, <3>2
    <3>4. /\ retired' \in Seq(Retirement) /\ Len(retired') <= RetiredRoom
          /\ \/ retired' = retired
             \/ /\ Len(retired') = Len(retired) + 1
                /\ retired'[Len(retired) + 1] = r
                /\ \A i \in 1 .. Len(retired) : retired'[i] = retired[i]
                /\ exhausted
      <4>1. CASE exhausted
        <5>1. retired' = Pushed(retired, r, RetiredRoom)
          BY <3>1, <4>1
        <5> HIDE DEF r
        <5> QED
          BY <1>2, <3>2, <4>1, <5>1, PushedFacts
      <4>2. CASE ~exhausted
        BY <1>2, <3>1, <4>2
      <4> QED
        BY <4>1, <4>2
    <3> QED
      BY <1>3, <3>3, <3>4
  <2> QED
    BY <2>1, <2>2
<1>5. TypeOK'
  <2>1. at' \in 0 .. MaxVoices + 1
    BY <1>1, <1>2 DEF Slots
  <2> QED
    BY <1>1, <1>4, <2>1 DEF ReclaimInv, TypeOK, Retirement
<1>6. OneOwner' /\ Serials' /\ Known' /\ Covered(newest)' /\ Covered(front)' /\ Told'
  BY <1>1 DEF ReclaimInv, OneOwner, InVoices, InDeferred, Serials, Known, Covered, Told, Fillable,
              Orderly, Unremoved
<1> HIDE DEF state
<1>7. Generations'
  <2>1. \A i \in 1 .. Len(retired) :
          /\ retired[i] \in Retirement /\ retired[i].slot \in Slots /\ retired[i].gen \in Nat
          /\ retired[i].gen <= rt[retired[i].slot].gen
          /\ (retired[i].gen = rt[retired[i].slot].gen => rt[retired[i].slot].finished)
    <3> TAKE i \in 1 .. Len(retired)
    <3>1. retired[i] \in Retirement
      BY <1>2
    <3>2. retired[i].slot \in Slots /\ retired[i].gen \in Nat
      BY <3>1 DEF Retirement
    <3> QED
      BY <3>1, <3>2 DEF ReclaimInv, Generations
  <2>2. \A s \in Slots : rt[s].gen \in Nat /\ rt'[s].gen \in Nat /\ rt'[s].gen >= rt[s].gen
                         /\ (rt'[s].gen = rt[s].gen /\ rt[s].finished => rt'[s].finished)
    <3> TAKE s \in Slots
    <3>1. rt[s] \in [gen : Nat, finished : BOOLEAN] /\ rt'[s] \in [gen : Nat, finished : BOOLEAN]
      BY <1>2, <1>4
    <3>2. rt[s].gen \in Nat /\ rt'[s].gen \in Nat
      BY <3>1
    <3>3. CASE s = at
      BY <1>4, <3>2, <3>3
    <3>4. CASE s # at
      <4>1. rt'[s] = rt[s]
        BY <1>4, <3>4
      <4> QED
        BY <3>2, <4>1
    <3> QED
      BY <3>3, <3>4
  <2>3. \A i \in 1 .. Len(retired) :
          /\ retired[i].gen <= rt'[retired[i].slot].gen
          /\ (retired[i].gen = rt'[retired[i].slot].gen => rt'[retired[i].slot].finished)
    BY <2>1, <2>2
  <2>4. \A i \in 1 .. Len(retired') :
          /\ retired'[i].gen <= rt'[retired'[i].slot].gen
          /\ (retired'[i].gen = rt'[retired'[i].slot].gen => rt'[retired'[i].slot].finished)
    BY <1>2, <1>3, <1>4, <2>3
  <2>5. \A s \in Slots : rt'[s].gen <= front.voices[s].gen
    BY <1>1, <1>4 DEF ReclaimInv, Generations
  <2> QED
    BY <1>1, <2>4, <2>5 DEF ReclaimInv, Generations
<1> QED
  BY <1>5, <1>6, <1>7 DEF ReclaimInv

\* The fill thread enrolls or releases a source.
LEMMA CommandKeeps == ASSUME ReclaimInv, TakeCommand PROVE ReclaimInv'
<1> USE DEF engineVars, mixVars
<1> DEFINE c == Head(commands)
<1>1. /\ UNCHANGED <<voices, started, filled, alive, deferred, serial, newest, pump, driven, front,
                     at, rt, consumed, retired>>
      /\ commands # <<>> /\ commands' = Tail(commands)
      /\ \/ c.op = "add" /\ working' = working \cup {c.source} /\ released' = released
         \/ c.op # "add" /\ working' = working \ {c.source} /\ released' = released \cup {c.source}
  BY DEF TakeCommand
<1>2. commands \in Seq(Command) /\ Len(commands) <= CommandRoom /\ CommandRoom \in Nat
  BY ReclaimAssumption DEF ReclaimInv, TypeOK, Command
<1>3. /\ commands' \in Seq(Command) /\ Len(commands') = Len(commands) - 1 /\ Len(commands) \in Nat \ {0}
      /\ c = commands[1] /\ c \in Command
      /\ \A i \in 1 .. Len(commands') : i + 1 \in 1 .. Len(commands) /\ commands'[i] = commands[i + 1]
  BY <1>1, <1>2, TailFacts
<1>4. c.op \in {"add", "remove"} /\ c.source \in Source /\ c.source \in Fillable /\ 1 \in 1 .. Len(commands)
  BY <1>3 DEF ReclaimInv, Told, Command
<1> HIDE DEF c
<1>5. TypeOK'
  BY <1>1, <1>2, <1>3, <1>4 DEF ReclaimInv, TypeOK, Command
<1>6. OneOwner' /\ Serials' /\ Covered(newest)' /\ Covered(front)' /\ Generations'
  BY <1>1 DEF ReclaimInv, OneOwner, InVoices, InDeferred, Serials, Covered, Generations
<1>7. Known'
  BY <1>1, <1>4 DEF ReclaimInv, Known, Fillable
<1>8. Told'
  <2>1. \A i \in 1 .. Len(commands') : c.op = "remove" => commands'[i].source # c.source
    <3> SUFFICES ASSUME NEW i \in 1 .. Len(commands'), c.op = "remove"
                 PROVE  commands'[i].source # c.source
      OBVIOUS
    <3>1. i + 1 \in 1 .. Len(commands) /\ 1 < i + 1 /\ commands'[i] = commands[i + 1]
      BY <1>3
    <3> QED
      BY <1>3, <1>4, <3>1 DEF ReclaimInv, Told, Orderly
  <2>2. \A s \in Slots : voices[s].active => voices[s].source \notin released'
    BY <1>1, <1>3, <1>4 DEF ReclaimInv, Told, Unremoved
  <2>3. \A s \in Slots : voices[s].active => Unremoved(commands, s)'
    BY <1>1, <1>3 DEF ReclaimInv, Told, Unremoved
  <2>4. Orderly(commands)'
    <3>1. \A i, j \in 1 .. Len(commands') : i < j => i + 1 < j + 1
      BY <1>3
    <3> QED
      BY <1>3, <3>1 DEF ReclaimInv, Told, Orderly
  <2>5. Fillable' = IF c.op = "remove" THEN Fillable \ {c.source} ELSE Fillable
    BY <1>1, <1>4 DEF Fillable
  <2>6. \A i \in 1 .. Len(commands') : commands'[i].source \in Fillable'
    BY <1>3, <2>1, <2>5 DEF ReclaimInv, Told
  <2>7. working' \subseteq Fillable'
    BY <1>1, <1>4, <2>5 DEF ReclaimInv, Told
  <2> QED
    BY <1>1, <2>2, <2>3, <2>4, <2>6, <2>7 DEF Told
<1> QED
  BY <1>5, <1>6, <1>7, <1>8 DEF ReclaimInv

LEMMA StepReclaim == ReclaimInv /\ [Next]_vars => ReclaimInv'
<1> SUFFICES ASSUME ReclaimInv, [Next]_vars PROVE ReclaimInv'
  OBVIOUS
<1>1. ASSUME NEW slot \in Slots, StopVoice(slot) PROVE ReclaimInv'
  BY <1>1, StopKeeps
<1>2. CASE AddVoice
  BY <1>2, AddKeeps
<1>3. CASE SetDriven \/ SkipMix
  BY <1>3, QuietKeeps
<1>4. CASE PublishSnapshot
  BY <1>4, PublishKeeps
<1>5. CASE DrainRetired
  BY <1>5, DrainKeeps
<1>6. CASE CollectDeferred
  BY <1>6, CollectKeeps
<1>7. CASE StartBlock \/ EndBlock
  BY <1>7, LatchKeeps
<1>8. CASE MixSlot
  BY <1>8, MixKeeps
<1>9. CASE TakeCommand
  BY <1>9, CommandKeeps
<1>10. CASE UNCHANGED vars
  <2> USE <1>10 DEF vars, engineVars, mixVars, fillVars
  <2>1. TypeOK' /\ OneOwner' /\ Serials' /\ Known'
    BY DEF ReclaimInv, TypeOK, OneOwner, InVoices, InDeferred, Serials, Known
  <2>2. Covered(newest)' /\ Covered(front)' /\ Told' /\ Generations'
    BY DEF ReclaimInv, Covered, Told, Fillable, Orderly, Unremoved, Generations
  <2> QED
    BY <2>1, <2>2 DEF ReclaimInv
<1> QED
  BY <1>1, <1>2, <1>3, <1>4, <1>5, <1>6, <1>7, <1>8, <1>9, <1>10 DEF Next, Game, Pump, Mix
-----------------------------------------------------------------------------
(* The theorems *)

\* The inductive invariant of the three threads.
THEOREM Reclaiming == Spec => []ReclaimInv
<1> QED
  BY InitReclaim, StepReclaim, PTL DEF Spec

\* No thread can reach a source that has been freed, whatever the rings drop.
THEOREM NothingUsedAfterFree == Spec => []NoUseAfterFree
<1>1. ReclaimInv => NoUseAfterFree
  <2> SUFFICES ASSUME ReclaimInv, NEW n \in Source,
                      InFrame(n, newest) \/ InFrame(n, front) \/ n \in working \/ InCommands(n)
               PROVE  n \in alive
    BY DEF NoUseAfterFree
  <2> QED
    BY DEF ReclaimInv, Covered, InFrame, Told, Fillable, InCommands
<1> QED
  BY <1>1, Reclaiming, PTL

\* Every source has one owner until it is freed, and so is freed once.
THEOREM SingleOwner == Spec => []OneOwner
<1>1. ReclaimInv => OneOwner
  BY DEF ReclaimInv
<1> QED
  BY <1>1, Reclaiming, PTL

\* A retirement that comes late never takes the voice that reused the slot.
THEOREM RetirementsAreExact == Spec => ReapsOnlyFinished
<1> DEFINE Exact == \A s \in Slots :
                      pump = "draining" /\ voices[s].active /\ ~voices'[s].active
                        => rt[s].finished /\ rt[s].gen = voices[s].gen
<1>1. ReclaimInv /\ [Next]_vars => [Exact]_vars
  <2> SUFFICES ASSUME ReclaimInv, Next, NEW s \in Slots,
                      pump = "draining", voices[s].active, ~voices'[s].active
               PROVE  rt[s].finished /\ rt[s].gen = voices[s].gen
    OBVIOUS
  <2> DEFINE r == Head(retired)
  <2>1. DrainRetired /\ voices' # voices
    BY DEF Next, Game, Pump, Mix, AddVoice, SetDriven, StopVoice, PublishSnapshot, SkipMix, CollectDeferred,
           StartBlock, MixSlot, EndBlock, TakeCommand, engineVars
  <2>2. retired # <<>> /\ StillThat(r) /\ voices' = [voices EXCEPT ![r.slot] = Emptied(r.slot)]
    BY <2>1 DEF DrainRetired
  <2>3. retired \in Seq(Retirement) /\ voices \in [Slots -> Voice]
    BY DEF ReclaimInv, TypeOK, Retirement
  <2>4. r = retired[1] /\ 1 \in 1 .. Len(retired) /\ r \in Retirement
    BY <2>2, <2>3, TailFacts
  <2> HIDE DEF r
  <2>5. r.slot = s
    BY <2>2, <2>3
  <2>6. r.gen = voices[s].gen
    BY <2>2, <2>5 DEF StillThat
  <2>7. /\ r.gen <= rt[s].gen /\ (r.gen = rt[s].gen => rt[s].finished)
        /\ rt[s].gen <= voices[s].gen
        /\ r.gen \in Nat /\ rt[s].gen \in Nat
    <3>1. /\ r.gen <= rt[s].gen /\ (r.gen = rt[s].gen => rt[s].finished)
      BY <2>4, <2>5 DEF ReclaimInv, Generations
    <3>2. /\ rt[s].gen \in Nat /\ front.voices[s].gen \in Nat /\ newest.voices[s].gen \in Nat
          /\ voices[s].gen \in Nat /\ r.gen \in Nat
      BY <2>3, <2>4 DEF ReclaimInv, TypeOK, Frame, Voice, Retirement
    <3>3. rt[s].gen <= voices[s].gen
      BY <3>2 DEF ReclaimInv, Generations
    <3> QED
      BY <3>1, <3>2, <3>3
  <2> QED
    BY <2>6, <2>7
<1> QED
  BY <1>1, Reclaiming, PTL DEF Spec, ReapsOnlyFinished
=============================================================================
