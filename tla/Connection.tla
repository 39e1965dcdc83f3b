----------------------------- MODULE Connection -----------------------------
(***************************************************************************)
(* engine/src/Net/Connection.cpp, the reliable channel: the two Connections *)
(* of a pair of endpoints over a network that loses, repeats and reorders   *)
(* datagrams (FaultInjectionTransport).                                     *)
(*                                                                         *)
(* Update is two kinds of step, one per datagram ReceivePump hands to       *)
(* HandleDatagram and one for the transmissions after them; only Send could *)
(* come between them, and does not.  Time is abstracted: a                  *)
(* message is due, or a connection idle, whenever the clock says so.  A     *)
(* message is a sequence of pieces, one per unit (a whole message or one    *)
(* fragment); a piece is the message's number and the fragment's index.     *)
(***************************************************************************)
EXTENDS Naturals, Sequences, SequencesExt, FiniteSets

CONSTANTS
  Ends,           \* the two endpoints
  Answering,      \* those that say nothing before they are spoken to (the server's)
  Senders,        \* bound: those that send messages
  SeqSpace,       \* sequences and message ids are counted modulo this (2^16)
  Window,         \* width of the acknowledgement bitfield (32)
  MaxFragments,   \* bound: fragments of a message
  MaxMessages,    \* bound: messages an endpoint sends
  MaxOutstanding, \* bound: units sent from the oldest unacknowledged one on
  Starts,         \* the sequences and ids a pair may start at: 0 for a new connection
  MaxPackets      \* bound: datagrams an endpoint sends

A == INSTANCE AckState

ASSUME CircleAssumption == A!WindowAssumption
ASSUME EndsAssumption == /\ \E e, f \in Ends : e # f /\ Ends = {e, f}
                         /\ Answering \cup Senders \subseteq Ends
ASSUME BoundAssumption == {MaxFragments, MaxMessages, MaxOutstanding, MaxPackets} \subseteq Nat
\* No datagram, and no acknowledgement in one, outlives half a turn of the sequence.
ASSUME NetworkAssumption == MaxPackets + Window < A!Half /\ MaxOutstanding < A!Half
ASSUME StartAssumption == Starts \subseteq A!Seqs
Other(e) == CHOOSE f \in Ends : f # e

VARIABLES
  sent,        \* the messages the program has queued
  nextId,      \* NextMessageId
  outbox,      \* ReliableOutbox
  local,       \* LocalSequence
  records,     \* ReliableSentPackets, as pairs of sequence and message id
  acks,        \* the channel's AckState
  owed,        \* ReliableAckPending
  spoken,      \* whether the endpoint has transmitted anything
  expected,    \* ReliableExpectedId
  reorder,     \* ReliableReorder
  partial,     \* Reassembly, ReassemblyCount and ReassemblyNext
  inbox,       \* every message pushed on ReliableInbox
  net          \* every datagram sent: it may never arrive, or arrive at any time, again and again

sendVars == <<sent, nextId, outbox, local, records, spoken>>
recvVars == <<acks, owed, expected, reorder, partial, inbox>>
vars == <<sent, nextId, outbox, local, records, acks, owed, spoken, expected, reorder, partial,
          inbox, net>>
-----------------------------------------------------------------------------
(* Data *)

Piece == (1 .. MaxMessages) \X (0 .. MaxFragments)
Message == UNION {[1 .. n -> Piece] : n \in 1 .. MaxFragments}
\* A unit on the wire: its message id, the count and index of its fragment (a count
\* of zero for a whole message), and the piece it carries, <<message, fragment>>.
NoUnit == [id |-> 0, count |-> 0, index |-> 0, piece |-> <<0, 0>>]
NoPartial == [bytes |-> <<>>, count |-> 0, next |-> 0]

\* A u16 n further on.
Plus(a, n) == (a + n) % SeqSpace

\* The n-th message in k units.
MessageOf(n, k) == [i \in 1 .. k |-> <<n, IF k = 1 THEN 0 ELSE i - 1>>]

\* The units a message is split into.
UnitsOf(n, k, id) ==
  [i \in 1 .. k |-> [id |-> Plus(id, i - 1), count |-> IF k = 1 THEN 0 ELSE k,
                     index |-> i - 1, piece |-> MessageOf(n, k)[i]]]

Ids(units) == {u.id : u \in units}

\* A set of numbers, in increasing order.
Sorted(S) == CHOOSE f \in [1 .. Cardinality(S) -> S] : \A i, j \in DOMAIN f : i < j => f[i] < f[j]

\* The units sent since the oldest unacknowledged one.
Span(e) == IF outbox[e] = <<>> THEN 0 ELSE A!Back(nextId[e], outbox[e][1].unit.id)

\* Mutant: the bits are read one sequence too low.
AckedByShifted(p) == {p.ack} \cup {A!Back(p.ack, d + 1) : d \in p.bits}
\* ProcessAcks: the sequences a header acknowledges, whoever filled it.
AckedBy(p) == {p.ack} \cup {A!Back(p.ack, d) : d \in p.bits}
-----------------------------------------------------------------------------
\* A connection whose ends have each sent so many messages, every one delivered
\* and acknowledged; a new one when that is none.
StartAt(start) ==
  /\ sent = [e \in Ends |-> <<>>]
  /\ nextId = [e \in Ends |-> start]
  /\ outbox = [e \in Ends |-> <<>>]
  /\ local = [e \in Ends |-> start]
  /\ records = [e \in Ends |-> {}]
  /\ acks = [e \in Ends |-> IF start = 0 THEN A!NoAcks
                          ELSE [heard |-> TRUE, remote |-> A!Back(start, 1),
                                bits |-> {d \in 1 .. Window : d < start}]]
  /\ owed = [e \in Ends |-> FALSE]
  /\ spoken = [e \in Ends |-> start # 0]
  /\ expected = [e \in Ends |-> start]
  /\ reorder = [e \in Ends |-> {}]
  /\ partial = [e \in Ends |-> NoPartial]
  /\ inbox = [e \in Ends |-> <<>>]
  /\ net = {}
Init == \E start \in Starts : StartAt(start)

\* Connection::Send on the reliable channel, never within an Update: an
\* acknowledgement is owed only between its two kinds of step.  The server sends
\* its first message in answer to one.
Send(e) ==
  /\ e \in Senders /\ Len(sent[e]) < MaxMessages
  /\ ~owed[e]
  /\ e \in Answering => spoken[e]
  /\ \E k \in 1 .. MaxFragments :
       LET n == Len(sent[e]) + 1
           units == UnitsOf(n, k, nextId[e])
       IN  /\ Span(e) + k <= MaxOutstanding
           /\ sent' = [sent EXCEPT ![e] = Append(@, MessageOf(n, k))]
           /\ outbox' = [outbox EXCEPT ![e] = @ \o [i \in 1 .. k |-> [unit |-> units[i], tried |-> FALSE]]]
           /\ nextId' = [nextId EXCEPT ![e] = Plus(@, k)]
  /\ UNCHANGED <<local, records, spoken, recvVars, net>>
-----------------------------------------------------------------------------
(* Receiving *)

\* ProcessAcks: what is left of the outbox and of the records once the messages
\* of the acknowledged packets are retired.
Retired(e, p) == {r[2] : r \in {s \in records[e] : s[1] \in AckedBy(p)}}

\* An outbox without the messages of some ids.
Without(queue, ids) ==
  LET left == Sorted({i \in DOMAIN queue : queue[i].unit.id \notin ids})
  IN  [j \in DOMAIN left |-> queue[left[j]]]

\* Mutant: a fragment replaces the bytes before it.
AcceptOverwrites(st, u) ==
  IF u.count = 0 \/ u.index + 1 = u.count
  THEN [inbox |-> Append(st.inbox, <<u.piece>>), partial |-> NoPartial]
  ELSE [st EXCEPT !.partial = [bytes |-> <<u.piece>>, count |-> u.count, next |-> u.index + 1]]
\* AcceptUnit, on the inbox and the message being reassembled.
Accept(st, u) ==
  IF u.count = 0
  THEN [inbox |-> Append(st.inbox, <<u.piece>>), partial |-> NoPartial]
  ELSE LET p == st.partial
           bytes == Append(p.bytes, u.piece)
       IN  IF \/ p.count = 0 /\ u.index = 0
              \/ p.count = u.count /\ p.next = u.index
           THEN IF u.index + 1 = u.count
                THEN [inbox |-> Append(st.inbox, bytes), partial |-> NoPartial]
                ELSE [st EXCEPT !.partial = [bytes |-> bytes, count |-> u.count, next |-> u.index + 1]]
           ELSE [st EXCEPT !.partial = NoPartial]

\* ... of one unit after the other.
AcceptAll(st, units) ==
  LET after[i \in 0 .. Len(units)] == IF i = 0 THEN st ELSE Accept(after[i - 1], units[i])
  IN  after[Len(units)]

\* Mutant: the units held behind the expected one stay held.
RunOfOne(e, units) == 1
\* How many of the units held are contiguous from the expected one.
Run(e, units) == CHOOSE n \in 0 .. Cardinality(units) :
                   /\ \A i \in 0 .. n - 1 : Plus(expected[e], i) \in Ids(units)
                   /\ Plus(expected[e], n) \notin Ids(units)
UnitAt(e, units, i) == CHOOSE u \in units : u.id = Plus(expected[e], i - 1)

\* A unit from beyond the expected one.
HeldBack(e, u) == A!Newer(u.id, expected[e])

\* DeliverReliable: the expected unit and the held ones it makes contiguous are
\* accepted, a later one is held once, an older one dropped.
DeliverReliable(e, u) ==
  IF u.id = expected[e]
  THEN LET held == reorder[e] \cup {u}
           n == Run(e, held)
           units == [i \in 1 .. n |-> UnitAt(e, held, i)]
           st == AcceptAll([inbox |-> inbox[e], partial |-> partial[e]], units)
       IN  /\ expected' = [expected EXCEPT ![e] = Plus(@, n)]
           /\ reorder' = [reorder EXCEPT ![e] = held \ Range(units)]
           /\ inbox' = [inbox EXCEPT ![e] = st.inbox]
           /\ partial' = [partial EXCEPT ![e] = st.partial]
  ELSE /\ reorder' = IF HeldBack(e, u) /\ u.id \notin Ids(reorder[e])
                     THEN [reorder EXCEPT ![e] = @ \cup {u}] ELSE reorder
       /\ UNCHANGED <<expected, inbox, partial>>

\* HandleDatagram.
HandleDatagram(e) ==
  \E p \in net :
    /\ p.to = e
    /\ acks' = [acks EXCEPT ![e] = A!Received(@, p.seq)]
    /\ outbox' = [outbox EXCEPT ![e] = Without(@, Retired(e, p))]
    /\ records' = [records EXCEPT ![e] = {r \in @ : r[2] \notin Retired(e, p)}]
    /\ IF p.unit = NoUnit
       THEN UNCHANGED <<owed, expected, reorder, inbox, partial>>
       ELSE DeliverReliable(e, p.unit) /\ owed' = [owed EXCEPT ![e] = TRUE]
    /\ UNCHANGED <<sent, nextId, local, spoken, net>>
-----------------------------------------------------------------------------
(* Transmitting *)

\* SendPacket: the i-th datagram of an Update, with what it acknowledges.
Packet(e, i, unit) ==
  [to |-> Other(e), seq |-> Plus(local[e], i - 1),
   ack |-> IF acks[e].heard THEN acks[e].remote ELSE 0, bits |-> acks[e].bits, unit |-> unit]

\* The packets of one Update enter the network.
Transmit(e, units) ==
  LET n == Len(units) IN
    /\ Cardinality({p \in net : p.to # e}) + n <= MaxPackets
    /\ net' = net \cup {Packet(e, i, units[i]) : i \in 1 .. n}
    /\ local' = [local EXCEPT ![e] = Plus(@, n)]
    /\ records' = [records EXCEPT ![e] = @ \cup
                     {<<Plus(local[e], i - 1), units[i].id>> : i \in {j \in 1 .. n : units[j] # NoUnit}}]
    /\ spoken' = [spoken EXCEPT ![e] = TRUE]
    /\ owed' = [owed EXCEPT ![e] = FALSE]

\* TransmitReliable, on the outbox: the messages sent now have been tried.
Tried(queue, now) == [i \in DOMAIN queue |-> [queue[i] EXCEPT !.tried = @ \/ i \in now]]

\* Update after ReceivePump: the messages never sent and those due, in queue order;
\* an acknowledgement owed rides on one of them.
SendDue(e) ==
  \E due \in SUBSET {i \in DOMAIN outbox[e] : outbox[e][i].tried} :
    LET now == due \cup {i \in DOMAIN outbox[e] : ~outbox[e][i].tried}
        order == Sorted(now)
    IN  /\ now # {}
        /\ e \in Answering => acks[e].heard
        /\ Transmit(e, [i \in DOMAIN order |-> outbox[e][order[i]].unit])
        /\ outbox' = [outbox EXCEPT ![e] = Tried(@, now)]
        /\ UNCHANGED <<sent, nextId, acks, expected, reorder, partial, inbox>>

\* ... or a bare packet: an acknowledgement owed, or a keepalive.
SendBare(e) ==
  /\ \A i \in DOMAIN outbox[e] : outbox[e][i].tried
  /\ e \in Answering => acks[e].heard
  /\ Transmit(e, <<NoUnit>>)
  /\ UNCHANGED <<sent, nextId, outbox, acks, expected, reorder, partial, inbox>>
-----------------------------------------------------------------------------
Next == \E e \in Ends : Send(e) \/ HandleDatagram(e) \/ SendDue(e) \/ SendBare(e)
Spec == Init /\ [][Next]_vars
-----------------------------------------------------------------------------
(* Properties *)

\* "Resent until acked, delivered in order exactly once" (Connection.h:78): the
\* pair of connections implements the promise.
Fifo == INSTANCE FifoPromise WITH Peer <- [e \in Ends |-> Other(e)]
InOrderOnce == Fifo!Spec

\* The pieces the peer of an endpoint has taken in, delivered or held.
Pieces(messages) == UNION {Range(messages[i]) : i \in DOMAIN messages}
Arrived(f) == Pieces(inbox[f]) \cup Range(partial[f].bytes) \cup {u.piece : u \in reorder[f]}

\* ... and a message leaves the outbox only when its peer has it.
RetiredHasArrived ==
  \A e \in Ends : \A x \in Pieces(sent[e]) :
    \/ \E i \in DOMAIN outbox[e] : outbox[e][i].unit.piece = x
    \/ x \in Arrived(Other(e))

\* The unit a receiver waits for is never one it already holds.
NothingStuck == \A e \in Ends : expected[e] \notin Ids(reorder[e])
=============================================================================
