----------------------------- MODULE HostProofs -----------------------------
(***************************************************************************)
(* Host, for any accounts, worlds and numbers of requests: the tags of the  *)
(* two ends agree, a travel never leaves a client without a world, every    *)
(* request has one answer, no seat is left behind, a reattach keeps the     *)
(* pose, and the directory counts who is there.                             *)
(***************************************************************************)
EXTENDS Host, SequenceTheorems, FiniteSetTheorems, FunctionTheorems, WellFoundedInduction, TLAPS

\* A sequence of whatever it holds.
Queue(q) == q \in Seq(ToSet(q))

-----------------------------------------------------------------------------
(* What the queues hold.                                                    *)

LEMMA QueueIsSeq ==
  ASSUME NEW S, NEW q \in Seq(S)
  PROVE  Queue(q) /\ ToSet(q) \subseteq S
<1>1. /\ Len(q) \in Nat /\ q \in [1 .. Len(q) -> S] /\ DOMAIN q = 1 .. Len(q)
  BY LenProperties
<1>2. ToSet(q) \subseteq S
  BY <1>1 DEF ToSet
<1>3. q \in [1 .. Len(q) -> ToSet(q)]
  BY <1>1 DEF ToSet
<1> QED
  BY <1>1, <1>2, <1>3, SeqDef DEF Queue

LEMMA QueueEmpty == Queue(<<>>) /\ ToSet(<<>>) = {}
<1> SUFFICES ASSUME NEW q, q = <<>> PROVE Queue(q) /\ ToSet(q) = {}
  OBVIOUS
<1> DEFINE none == {}
<1>1. q \in Seq(none)
  BY EmptySeq
<1> HIDE DEF none
<1>2. Queue(q) /\ ToSet(q) \subseteq none
  BY <1>1, QueueIsSeq
<1> QED
  BY <1>2 DEF none

LEMMA QueueHead ==
  ASSUME NEW q, Queue(q), q # <<>>
  PROVE  Head(q) \in ToSet(q) /\ Queue(Tail(q)) /\ ToSet(Tail(q)) \subseteq ToSet(q)
<1>1. Head(q) \in ToSet(q) /\ Tail(q) \in Seq(ToSet(q))
  BY HeadTailProperties DEF Queue
<1> QED
  BY <1>1, QueueIsSeq

LEMMA QueueConcat ==
  ASSUME NEW q, Queue(q), NEW r, Queue(r)
  PROVE  Queue(q \o r) /\ ToSet(q \o r) \subseteq ToSet(q) \cup ToSet(r)
<1> DEFINE S == ToSet(q) \cup ToSet(r)
<1>1. q \in Seq(S) /\ r \in Seq(S)
  BY SeqMonotonic DEF Queue
<1>2. q \o r \in Seq(S)
  BY <1>1, ConcatProperties
<1> QED
  BY <1>2, QueueIsSeq

LEMMA QueueAppend ==
  ASSUME NEW q, Queue(q), NEW e
  PROVE  Queue(Append(q, e)) /\ ToSet(Append(q, e)) \subseteq ToSet(q) \cup {e}
<1> DEFINE S == ToSet(q) \cup {e}
<1>1. q \in Seq(S)
  BY SeqMonotonic DEF Queue
<1>2. Append(q, e) \in Seq(S)
  BY <1>1
<1> QED
  BY <1>2, QueueIsSeq

LEMMA QueueOne ==
  ASSUME NEW e
  PROVE  Queue(<<e>>) /\ ToSet(<<e>>) \subseteq {e}
<1>1. <<e>> \in Seq({e})
  OBVIOUS
<1> QED
  BY <1>1, QueueIsSeq

\* The list of a record without one of its keys.
LEMMA QueueRemove ==
  ASSUME NEW q, Queue(q), NEW i \in DOMAIN q
  PROVE  Queue(RemoveAt(q, i))
<1>1. Len(q) \in Nat /\ DOMAIN q = 1 .. Len(q) /\ \A n \in 1 .. Len(q) : q[n] \in ToSet(q)
  BY LenProperties DEF Queue, ToSet
<1>2. SubSeq(q, 1, i - 1) \in Seq(ToSet(q)) /\ SubSeq(q, i + 1, Len(q)) \in Seq(ToSet(q))
  BY <1>1, SubSeqProperties
<1>3. RemoveAt(q, i) \in Seq(ToSet(q))
  BY <1>2, ConcatProperties DEF RemoveAt
<1> QED
  BY <1>3, QueueIsSeq

-----------------------------------------------------------------------------
(* The invariant.                                                           *)

IsRecord(rec) == rec = [standing |-> rec.standing, game |-> rec.game] /\ Queue(rec.standing)

IsPending(p) == p = [key |-> p.key, leave |-> p.leave, mode |-> p.mode, sent |-> p.sent]

IsClient(cl) ==
  /\ cl = [joined |-> cl.joined, pending |-> cl.pending, tokens |-> cl.tokens, out |-> cl.out]
  /\ cl.tokens \in Nat /\ DOMAIN cl.pending \subseteq 1 .. cl.tokens
  /\ \A t \in DOMAIN cl.pending : IsPending(cl.pending[t])

IsConnection(conn) ==
  /\ conn = [joins |-> conn.joins, next |-> conn.next, reattach |-> conn.reattach,
             been |-> conn.been]
  /\ conn.next \in Nat \ {0} /\ DOMAIN conn.joins \subseteq 1 .. conn.next - 1

\* A request on its way asks for the key that its token stands for.
Asks(cl, m) ==
  /\ m.type # "bye"
  /\ m.type = "join" => /\ m.token \in 1 .. cl.tokens
                        /\ m.token \in DOMAIN cl.pending => m.key = cl.pending[m.token].key

\* An answer on its way names a join in the world of the key its token stands for.
Answers(cl, conn, m) ==
  /\ m.type \in {"accept", "deny", "directed"}
  /\ m.type = "accept" =>
       /\ m.token \in 1 .. cl.tokens /\ m.join \in 1 .. conn.next - 1
       /\ (m.token \in DOMAIN cl.pending /\ m.join \in DOMAIN conn.joins)
            => conn.joins[m.join].key = cl.pending[m.token].key

Agree(cl, conn) ==
  /\ DOMAIN cl.joined \subseteq 1 .. conn.next - 1
  /\ \A j \in DOMAIN cl.joined \cap DOMAIN conn.joins : cl.joined[j] = conn.joins[j].key

\* A client, its connection, and what is under way between them.
Sound(cl, conn, up, down) ==
  /\ IsClient(cl) /\ cl.out = <<>> /\ Agree(cl, conn)
  /\ \A m \in up : Asks(cl, m)
  /\ \A m \in down : Answers(cl, conn, m)

AccountInv(c) ==
  /\ Queue(toServer[c]) /\ Queue(toClient[c]) /\ IsRecord(records[c])
  /\ c \in Up => c \in Established
  /\ c \in Established => IsConnection(conns[c])
  /\ c \notin Established => toServer[c] = <<>>
  /\ c \in Up => Sound(client[c], conns[c], ToSet(toServer[c]), ToSet(toClient[c]))

Domains ==
  /\ DOMAIN toServer = Accounts /\ DOMAIN toClient = Accounts /\ DOMAIN records = Accounts
  /\ Up \subseteq Accounts /\ Established \subseteq Accounts

TagInv == Domains /\ \A c \in Accounts : AccountInv(c)

LEMMA InitTagInv == Init => TagInv
<1> SUFFICES ASSUME Init PROVE TagInv
  OBVIOUS
<1>1. DOMAIN <<>> = {}
  OBVIOUS
<1>2. Domains /\ Up = {} /\ Established = {}
  BY <1>1 DEF Init, Domains, Up, Established
<1>3. ASSUME NEW c \in Accounts PROVE AccountInv(c)
  BY <1>2, QueueEmpty DEF Init, AccountInv, IsRecord
<1> QED
  BY <1>2, <1>3 DEF TagInv

\* A step that is one account's leaves the others as they were.
Others(c) ==
  /\ Domains'
  /\ \A d \in Accounts \ {c} :
       /\ toServer'[d] = toServer[d] /\ toClient'[d] = toClient[d] /\ records'[d] = records[d]
       /\ d \in Up' <=> d \in Up
       /\ d \in Established' <=> d \in Established
       /\ d \in Up => client'[d] = client[d]
       /\ d \in Established => conns'[d] = conns[d]

LEMMA OneAccount ==
  ASSUME TagInv, NEW c \in Accounts, Others(c), AccountInv(c)'
  PROVE  TagInv'
<1>1. ASSUME NEW d \in Accounts, d # c PROVE AccountInv(d)'
  <2>1. AccountInv(d)
    BY DEF TagInv
  <2>2. /\ toServer'[d] = toServer[d] /\ toClient'[d] = toClient[d] /\ records'[d] = records[d]
        /\ (d \in Up' <=> d \in Up) /\ (d \in Established' <=> d \in Established)
        /\ (d \in Up => client'[d] = client[d]) /\ (d \in Established => conns'[d] = conns[d])
    BY <1>1 DEF Others
  <2> QED
    BY <2>1, <2>2 DEF AccountInv
<1> QED
  BY <1>1 DEF TagInv, Others

-----------------------------------------------------------------------------
(* The server.                                                              *)

\* The server takes a message of an account and may answer it with e.
LEMMA ServerStep ==
  ASSUME TagInv, NEW c \in Accounts, c \in Established, toServer[c] # <<>>, NEW e,
         toServer' = [toServer EXCEPT ![c] = Tail(toServer[c])], UNCHANGED client,
         toClient' = toClient \/ toClient' = [toClient EXCEPT ![c] = Append(toClient[c], e)],
         NEW conn, conns' = [conns EXCEPT ![c] = conn], IsConnection(conn),
         NEW rec, IsRecord(rec), DOMAIN records' = Accounts, records'[c] = rec,
         \A d \in Accounts \ {c} : records'[d] = records[d],
         c \in Up => /\ Agree(client[c], conn) /\ Answers(client[c], conn, e)
                     /\ \A m \in ToSet(toClient[c]) : Answers(client[c], conn, m)
  PROVE  TagInv'
<1>1. AccountInv(c) /\ Domains
  BY DEF TagInv
<1>2. Others(c)
  BY <1>1 DEF Others, Domains, Established, Up
<1>3. toServer'[c] = Tail(toServer[c]) /\ conns'[c] = conn /\ records'[c] = rec
  BY <1>1 DEF Domains, Established
<1>4. Queue(toServer'[c]) /\ ToSet(toServer'[c]) \subseteq ToSet(toServer[c])
  BY <1>1, <1>3, QueueHead DEF AccountInv
<1>5. Queue(toClient'[c]) /\ ToSet(toClient'[c]) \subseteq ToSet(toClient[c]) \cup {e}
  <2>1. toClient'[c] = toClient[c] \/ toClient'[c] = Append(toClient[c], e)
    BY <1>1 DEF Domains
  <2>2. Queue(toClient[c])
    BY <1>1 DEF AccountInv
  <2>3. /\ Queue(Append(toClient[c], e))
        /\ ToSet(Append(toClient[c], e)) \subseteq ToSet(toClient[c]) \cup {e}
    BY <2>2, QueueAppend
  <2> QED
    BY <2>1, <2>2, <2>3
<1>6. (c \in Up' <=> c \in Up) /\ c \in Established' /\ client' = client
  BY DEF Up, Established
<1>7. ASSUME c \in Up
      PROVE  Sound(client[c], conn, ToSet(toServer'[c]), ToSet(toClient'[c]))
  BY <1>1, <1>4, <1>5, <1>7 DEF AccountInv, Sound
<1>8. AccountInv(c)'
  BY <1>3, <1>4, <1>5, <1>6, <1>7 DEF AccountInv
<1> QED
  BY <1>2, <1>8, OneAccount

\* ... without a change of the connection or the record.
LEMMA ServerReply ==
  ASSUME TagInv, NEW c \in Accounts, c \in Established, toServer[c] # <<>>, NEW e,
         toServer' = [toServer EXCEPT ![c] = Tail(toServer[c])],
         UNCHANGED <<client, conns, records>>,
         toClient' = toClient \/ toClient' = [toClient EXCEPT ![c] = Append(toClient[c], e)],
         c \in Up => Answers(client[c], conns[c], e)
  PROVE  TagInv'
<1>1. AccountInv(c) /\ Domains
  BY DEF TagInv
<1>2. Others(c)
  BY <1>1 DEF Others, Domains, Established, Up
<1>3. toServer'[c] = Tail(toServer[c])
  BY <1>1 DEF Domains
<1>4. Queue(toServer'[c]) /\ ToSet(toServer'[c]) \subseteq ToSet(toServer[c])
  BY <1>1, <1>3, QueueHead DEF AccountInv
<1>5. Queue(toClient'[c]) /\ ToSet(toClient'[c]) \subseteq ToSet(toClient[c]) \cup {e}
  <2>1. toClient'[c] = toClient[c] \/ toClient'[c] = Append(toClient[c], e)
    BY <1>1 DEF Domains
  <2>2. Queue(toClient[c])
    BY <1>1 DEF AccountInv
  <2>3. /\ Queue(Append(toClient[c], e))
        /\ ToSet(Append(toClient[c], e)) \subseteq ToSet(toClient[c]) \cup {e}
    BY <2>2, QueueAppend
  <2> QED
    BY <2>1, <2>2, <2>3
<1>6. ASSUME c \in Up
      PROVE  Sound(client[c], conns[c], ToSet(toServer'[c]), ToSet(toClient'[c]))
  BY <1>1, <1>4, <1>5, <1>6 DEF AccountInv, Sound
<1>7. AccountInv(c)'
  BY <1>1, <1>4, <1>5, <1>6 DEF AccountInv, Up, Established
<1> QED
  BY <1>2, <1>7, OneAccount

\* The message at the head of an account's queue.
LEMMA ArrivedFacts ==
  ASSUME TagInv, NEW c \in Accounts, NEW type, Arrived(c, type)
  PROVE  /\ c \in Established /\ toServer[c] # <<>> /\ Head(toServer[c]).type = type
         /\ toServer' = [toServer EXCEPT ![c] = Tail(toServer[c])]
         /\ c \in Up => Asks(client[c], Head(toServer[c]))
<1>1. AccountInv(c)
  BY DEF TagInv
<1>2. toServer[c] # <<>> /\ Queue(toServer[c])
  BY <1>1 DEF Arrived, AccountInv
<1>3. Head(toServer[c]) \in ToSet(toServer[c])
  BY <1>2, QueueHead
<1> QED
  BY <1>1, <1>3 DEF Arrived, AccountInv, Sound

LEMMA RejoinStep ==
  ASSUME TagInv, NEW c \in Accounts, ServerRejoin(c)
  PROVE  TagInv'
<1> DEFINE m == Head(toServer[c])
<1>1. PICK j \in JoinsOf(conns[c], m.key) :
        toClient' = [toClient EXCEPT ![c] = Append(toClient[c], JoinAccept(m.token, j))]
  BY DEF ServerRejoin, Send
<1>2. Arrived(c, "join") /\ UNCHANGED <<client, conns, records>>
  BY DEF ServerRejoin, serverVars
<1>3. AccountInv(c)
  BY DEF TagInv
<1>4. ASSUME c \in Up PROVE Answers(client[c], conns[c], JoinAccept(m.token, j))
  <2>1. m.token \in 1 .. client[c].tokens
        /\ (m.token \in DOMAIN client[c].pending => m.key = client[c].pending[m.token].key)
    BY <1>2, <1>4, ArrivedFacts DEF Asks
  <2>2. j \in 1 .. conns[c].next - 1 /\ conns[c].joins[j].key = m.key
    BY <1>1, <1>2, <1>3, ArrivedFacts DEF JoinsOf, AccountInv, IsConnection
  <2> HIDE DEF m
  <2> QED
    BY <2>1, <2>2 DEF Answers, JoinAccept
<1> QED
  BY <1>1, <1>2, <1>4, ArrivedFacts, ServerReply

LEMMA DenyOrTravelStep ==
  ASSUME TagInv, NEW c \in Accounts, ServerDeny(c) \/ ServerTravel(c)
  PROVE  TagInv'
<1> DEFINE m == Head(toServer[c])
<1>1. CASE ServerDeny(c)
  <2>1. /\ Arrived(c, "join") /\ UNCHANGED <<client, conns, records>>
        /\ toClient' = [toClient EXCEPT ![c] = Append(toClient[c], JoinDeny(m.token))]
    BY <1>1 DEF ServerDeny, Send
  <2>2. ASSUME c \in Up PROVE Answers(client[c], conns[c], JoinDeny(m.token))
    BY DEF Answers, JoinDeny
  <2> QED
    BY <2>1, <2>2, ArrivedFacts, ServerReply
<1>2. CASE ServerTravel(c)
  <2> DEFINE e == DirectedTravel(CurrentJoin(conns[c]), m.key, m.mode)
  <2>1. /\ Arrived(c, "travel") /\ UNCHANGED <<client, conns, records>>
        /\ toClient' = toClient \/ toClient' = [toClient EXCEPT ![c] = Append(toClient[c], e)]
    BY <1>2 DEF ServerTravel, Send, serverVars
  <2>2. ASSUME c \in Up PROVE Answers(client[c], conns[c], e)
    BY DEF Answers, DirectedTravel
  <2> QED
    BY <2>1, <2>2, ArrivedFacts, ServerReply
<1> QED
  BY <1>1, <1>2

\* The operators on records keep their shape.
LEMMA RecordsKept ==
  ASSUME NEW rec, IsRecord(rec), NEW k, NEW conn, NEW mode
  PROVE  /\ IsRecord(RecordStandingJoin(rec, k)) /\ IsRecord(RemoveStandingJoin(rec, k))
         /\ IsRecord(Recorded(rec, conn, k, mode)) /\ IsRecord(ClearGameplay(rec))
         /\ IsRecord(CaptureGameplayPose(rec, k))
<1>1. IsRecord(RecordStandingJoin(rec, k))
  <2>1. Queue(Append(rec.standing, k))
    BY QueueAppend DEF IsRecord
  <2> QED
    BY <2>1 DEF IsRecord, RecordStandingJoin
<1>2. IsRecord(RemoveStandingJoin(rec, k))
  <2>1. CASE k \in ToSet(rec.standing)
    <3> DEFINE i == CHOOSE i \in DOMAIN rec.standing : rec.standing[i] = k
    <3>1. i \in DOMAIN rec.standing
      BY <2>1 DEF ToSet
    <3> HIDE DEF i
    <3>2. Queue(RemoveAt(rec.standing, i))
      BY <3>1, QueueRemove DEF IsRecord
    <3>3. RemoveStandingJoin(rec, k) = [rec EXCEPT !.standing = RemoveAt(rec.standing, i)]
      BY <2>1 DEF RemoveStandingJoin, i
    <3> QED
      BY <3>2, <3>3 DEF IsRecord
  <2>2. CASE k \notin ToSet(rec.standing)
    BY <2>2 DEF RemoveStandingJoin
  <2> QED
    BY <2>1, <2>2
<1>3. ASSUME NEW pose PROVE IsRecord(RecordGameplay(rec, k, pose))
  BY DEF IsRecord, RecordGameplay
<1>4. IsRecord(Recorded(rec, conn, k, mode))
  BY <1>1, <1>3 DEF Recorded
<1>5. IsRecord(ClearGameplay(rec))
  BY DEF IsRecord, ClearGameplay
<1>6. IsRecord(CaptureGameplayPose(rec, k))
  BY DEF IsRecord, CaptureGameplayPose
<1> QED
  BY <1>1, <1>2, <1>4, <1>5, <1>6

\* A new join has a number that nothing knows yet.
LEMMA GrantStep ==
  ASSUME TagInv, NEW c \in Accounts, ServerGrant(c)
  PROVE  TagInv'
<1> DEFINE m == Head(toServer[c])
           r == Resolution(c, m.key)
           old == conns[c]
           conn == WithJoin(old, r.world, m.key, m.mode)
           rec == Recorded(records[c], old, m.key, m.mode)
           e == JoinAccept(m.token, old.next)
<1>1. AccountInv(c) /\ Domains
  BY DEF TagInv
<1>2. /\ Arrived(c, "join") /\ UNCHANGED client
      /\ conns' = [conns EXCEPT ![c] = conn] /\ records' = [records EXCEPT ![c] = rec]
      /\ toClient' = [toClient EXCEPT ![c] = Append(toClient[c], e)]
  BY DEF ServerGrant, Send
<1>3. IsConnection(old) /\ IsRecord(records[c])
  BY <1>1, <1>2, ArrivedFacts DEF AccountInv
<1>4. IsRecord(rec)
  BY <1>3, RecordsKept
<1>5. /\ conn.next = old.next + 1 /\ DOMAIN conn.joins = DOMAIN old.joins \cup {old.next}
      /\ conn.joins[old.next].key = m.key
      /\ \A j \in DOMAIN old.joins : conn.joins[j] = old.joins[j] /\ j # old.next
      /\ IsConnection(conn)
  <2> HIDE DEF m, r
  <2>1. old.next \notin DOMAIN old.joins /\ old.next \in Nat
    BY <1>3 DEF IsConnection
  <2> QED
    BY <1>3, <2>1 DEF WithJoin, Extend, IsConnection
<1>6. ASSUME c \in Up
      PROVE  /\ Agree(client[c], conn) /\ Answers(client[c], conn, e)
             /\ \A a \in ToSet(toClient[c]) : Answers(client[c], conn, a)
  <2>1. /\ m.token \in 1 .. client[c].tokens
        /\ (m.token \in DOMAIN client[c].pending => m.key = client[c].pending[m.token].key)
    BY <1>2, <1>6, ArrivedFacts DEF Asks
  <2>2. /\ Agree(client[c], old) /\ old.next \in Nat \ {0}
        /\ \A a \in ToSet(toClient[c]) : Answers(client[c], old, a)
    BY <1>1, <1>3, <1>6 DEF AccountInv, Sound, IsConnection
  <2> HIDE DEF m, conn, old
  <2>3. Agree(client[c], conn)
    BY <1>5, <2>2 DEF Agree
  <2>4. Answers(client[c], conn, e)
    BY <1>5, <2>1, <2>2 DEF Answers, JoinAccept
  <2>5. ASSUME NEW a \in ToSet(toClient[c]) PROVE Answers(client[c], conn, a)
    BY <1>5, <2>2 DEF Answers
  <2> QED
    BY <2>3, <2>4, <2>5
<1> HIDE DEF conn, rec, e
<1>7. /\ DOMAIN records' = Accounts /\ records'[c] = rec
      /\ \A d \in Accounts \ {c} : records'[d] = records[d]
  BY <1>1, <1>2 DEF Domains
<1> QED
  BY <1>2, <1>4, <1>5, <1>6, <1>7, ArrivedFacts, ServerStep

\* A connection with a join less.
LEMMA LessJoins ==
  ASSUME NEW conn, IsConnection(conn), NEW j
  PROVE  /\ IsConnection(WithoutJoin(conn, j))
         /\ \A cl : Agree(cl, conn) => Agree(cl, WithoutJoin(conn, j))
         /\ \A cl, m : Answers(cl, conn, m) => Answers(cl, WithoutJoin(conn, j), m)
<1> DEFINE less == WithoutJoin(conn, j)
<1>1. /\ less = [joins |-> less.joins, next |-> conn.next, reattach |-> conn.reattach,
                 been |-> conn.been]
      /\ less.joins = [i \in DOMAIN conn.joins \ {j} |-> conn.joins[i]]
  BY DEF WithoutJoin, Without, Restrict, IsConnection
<1> HIDE DEF less
<1>2. less.next = conn.next /\ DOMAIN less.joins = DOMAIN conn.joins \ {j}
      /\ \A i \in DOMAIN less.joins : less.joins[i] = conn.joins[i]
  BY <1>1
<1>3. IsConnection(less)
  BY <1>1, <1>2 DEF IsConnection
<1>4. \A cl : Agree(cl, conn) => Agree(cl, less)
  BY <1>2 DEF Agree
<1>5. \A cl, m : Answers(cl, conn, m) => Answers(cl, less, m)
  BY <1>2 DEF Answers
<1> QED
  BY <1>3, <1>4, <1>5 DEF less

LEMMA LeaveStep ==
  ASSUME TagInv, NEW c \in Accounts, ServerLeave(c)
  PROVE  TagInv'
<1> DEFINE j == Head(toServer[c]).join
           none == JoinDeny(Control)
<1>1. AccountInv(c) /\ Domains
  BY DEF TagInv
<1>2. Arrived(c, "leave") /\ UNCHANGED <<client, toClient>>
  BY DEF ServerLeave
<1>3. \A conn : Answers(client[c], conn, none)
  BY DEF Answers, JoinDeny
<1> HIDE DEF none
<1>4. CASE j \notin DOMAIN conns[c].joins
  <2>1. UNCHANGED <<conns, records>>
    BY <1>4 DEF ServerLeave
  <2> QED
    BY <1>2, <1>3, <2>1, ArrivedFacts, ServerReply
<1>5. CASE j \in DOMAIN conns[c].joins
  <2> DEFINE join == conns[c].joins[j]
             conn == WithoutJoin(conns[c], j)
             rec == IF join.mode = "standing" THEN RemoveStandingJoin(records[c], join.key)
                                              ELSE records[c]
  <2>1. conns' = [conns EXCEPT ![c] = conn]
    BY <1>5 DEF ServerLeave
  <2>2. IsRecord(rec)
    BY <1>1, RecordsKept DEF AccountInv
  <2>3. /\ DOMAIN records' = Accounts /\ records'[c] = rec
        /\ \A d \in Accounts \ {c} : records'[d] = records[d]
    <3>1. records' = IF join.mode = "standing"
                     THEN [records EXCEPT ![c] = RemoveStandingJoin(@, join.key)] ELSE records
      BY <1>5 DEF ServerLeave
    <3> QED
      BY <1>1, <3>1 DEF Domains
  <2>4. IsConnection(conns[c])
    BY <1>1, <1>2, ArrivedFacts DEF AccountInv
  <2>5. /\ IsConnection(conn)
        /\ \A cl : Agree(cl, conns[c]) => Agree(cl, conn)
        /\ \A cl, m : Answers(cl, conns[c], m) => Answers(cl, conn, m)
    BY <2>4, LessJoins
  <2>6. ASSUME c \in Up
        PROVE  /\ Agree(client[c], conn)
               /\ \A m \in ToSet(toClient[c]) : Answers(client[c], conn, m)
    BY <1>1, <2>5, <2>6 DEF AccountInv, Sound
  <2> HIDE DEF conn, rec
  <2> QED
    BY <1>2, <1>3, <2>1, <2>2, <2>3, <2>5, <2>6, ArrivedFacts, ServerStep
<1> QED
  BY <1>4, <1>5

\* A client that is there is one whose goodbye is not under way.
LEMMA DisconnectedStep ==
  ASSUME TagInv, NEW c \in Accounts, ServerGoodbye(c) \/ ServerTimeout(c)
  PROVE  TagInv'
<1>1. AccountInv(c) /\ Domains /\ Disconnected(c) /\ c \in Established
  BY DEF TagInv, ServerGoodbye, ServerTimeout
<1>2. c \notin Up
  BY <1>1 DEF ServerGoodbye, ServerTimeout, AccountInv, Sound, Asks, Goodbye
<1>3. PICK last : records' = [records EXCEPT ![c] = Captured(records[c], conns[c], last)]
  BY <1>1 DEF Disconnected
<1>4. IsRecord(Captured(records[c], conns[c], last))
  BY <1>1, RecordsKept DEF Captured, AccountInv
<1>5. /\ conns' = [d \in Established \ {c} |-> conns[d]] /\ client' = client
      /\ toServer' = [toServer EXCEPT ![c] = <<>>] /\ toClient' = [toClient EXCEPT ![c] = <<>>]
  BY <1>1 DEF Disconnected, Without, Restrict, Established
<1>6. Others(c)
  BY <1>1, <1>3, <1>5 DEF Others, Domains, Established, Up
<1>7. AccountInv(c)'
  <2>1. c \notin Up' /\ c \notin Established'
    BY <1>2, <1>5 DEF Up, Established
  <2>2. toServer'[c] = <<>> /\ toClient'[c] = <<>> /\ IsRecord(records'[c])
    BY <1>1, <1>3, <1>4, <1>5 DEF Domains
  <2> QED
    BY <2>1, <2>2, QueueEmpty DEF AccountInv
<1> QED
  BY <1>6, <1>7, OneAccount

LEMMA RestoredFacts ==
  ASSUME NEW standing, Queue(standing)
  PROVE  /\ Queue(Restored(standing))
         /\ \A m \in ToSet(Restored(standing)) : m.type = "directed"
<1> DEFINE S == {DirectedTravel(Control, k, "standing") : k \in ToSet(standing)}
<1>1. Len(standing) \in Nat /\ DOMAIN standing = 1 .. Len(standing)
      /\ \A i \in 1 .. Len(standing) : standing[i] \in ToSet(standing)
  BY LenProperties DEF Queue, ToSet
<1>2. Restored(standing) \in [1 .. Len(standing) -> S]
  BY <1>1 DEF Restored
<1>3. Restored(standing) \in Seq(S)
  BY <1>1, <1>2, SeqDef
<1>4. \A m \in S : m.type = "directed"
  BY DEF DirectedTravel
<1> HIDE DEF S
<1> QED
  BY <1>3, <1>4, QueueIsSeq

\* A new connection has no joins, and all that is under way tells the client to
\* join.
LEMMA ConnectStep ==
  ASSUME TagInv, NEW c \in Accounts, Connect(c)
  PROVE  TagInv'
<1>1. AccountInv(c) /\ Domains
  BY DEF TagInv
<1>2. c \notin Established /\ c \notin Up /\ toServer[c] = <<>> /\ toServer' = toServer
  BY <1>1 DEF Connect, AccountInv
<1>3. client' = [d \in Up \cup {c} |-> IF d = c THEN NewClient ELSE client[d]]
  BY DEF Connect, Extend, Up
<1>4. PICK back : conns' = [d \in Established \cup {c} |->
                              IF d = c THEN [NewConnection EXCEPT !.reattach = back] ELSE conns[d]]
  BY DEF Connect, Extend, Established
<1>5. /\ DOMAIN records' = Accounts /\ IsRecord(records'[c])
      /\ \A d \in Accounts \ {c} : records'[d] = records[d]
  <2>1. records' = records \/ records' = [records EXCEPT ![c] = ClearGameplay(@)]
    BY DEF Connect
  <2>2. IsRecord(records[c]) /\ IsRecord(ClearGameplay(records[c]))
    BY <1>1, RecordsKept DEF AccountInv
  <2> QED
    BY <1>1, <2>1, <2>2 DEF Domains
<1>6. PICK rest : /\ toClient' = [toClient EXCEPT ![c] = Restored(records[c].standing) \o rest]
                  /\ \/ rest = <<>>
                     \/ rest = <<DirectedTravel(Control, records[c].game.key, "gameplay")>>
  BY DEF Connect
<1>7. Queue(rest) /\ \A m \in ToSet(rest) : m.type = "directed"
  BY <1>6, QueueEmpty, QueueOne DEF DirectedTravel
<1>8. Queue(toClient'[c]) /\ \A m \in ToSet(toClient'[c]) : m.type = "directed"
  <2>1. /\ Queue(Restored(records[c].standing))
        /\ \A m \in ToSet(Restored(records[c].standing)) : m.type = "directed"
    BY <1>1, RestoredFacts DEF AccountInv, IsRecord
  <2>2. toClient'[c] = Restored(records[c].standing) \o rest
    BY <1>1, <1>6 DEF Domains
  <2> QED
    BY <1>7, <2>1, <2>2, QueueConcat
<1>9. Others(c)
  BY <1>1, <1>2, <1>3, <1>4, <1>5, <1>6 DEF Others, Domains, Established, Up
<1>10. c \in Up' /\ c \in Established' /\ client'[c] = NewClient
       /\ conns'[c] = [NewConnection EXCEPT !.reattach = back]
  BY <1>3, <1>4 DEF Up, Established
<1>11. DOMAIN <<>> = {}
  OBVIOUS
<1>12. IsConnection(conns'[c])
  <2> DEFINE none == <<>>
  <2>1. conns'[c] = [joins |-> none, next |-> 1, reattach |-> back, been |-> {}]
    BY <1>10 DEF NewConnection
  <2>2. DOMAIN none = {}
    BY <1>11
  <2> HIDE DEF none
  <2> QED
    BY <2>1, <2>2 DEF IsConnection
<1>13. IsClient(client'[c]) /\ client'[c].out = <<>> /\ Agree(client'[c], conns'[c])
  BY <1>10, <1>11 DEF NewClient, IsClient, Agree
<1>14. Sound(client'[c], conns'[c], ToSet(toServer'[c]), ToSet(toClient'[c]))
  BY <1>2, <1>8, <1>13, QueueEmpty DEF Sound, Answers
<1>15. AccountInv(c)'
  BY <1>1, <1>2, <1>5, <1>8, <1>10, <1>12, <1>14 DEF AccountInv
<1> QED
  BY <1>9, <1>15, OneAccount

\* An idle world goes: no end hears of it.
LEMMA ReapStep ==
  ASSUME TagInv, NEW ws, ServerReap(ws)
  PROVE  TagInv'
<1>1. UNCHANGED <<conns, records, client, toServer, toClient>>
  BY DEF ServerReap
<1>2. Domains' /\ \A c \in Accounts : AccountInv(c)'
  BY <1>1 DEF TagInv, Domains, AccountInv, Up, Established
<1> QED
  BY <1>2 DEF TagInv

-----------------------------------------------------------------------------
(* The client.                                                              *)

\* A client after a call: tokens are only added, and a token that is still
\* pending stands for the key it stood for.
Grows(cl, new) ==
  /\ new.tokens \in Nat /\ cl.tokens <= new.tokens
  /\ \A t \in DOMAIN new.pending :
       t \in 1 .. cl.tokens => /\ t \in DOMAIN cl.pending
                               /\ new.pending[t].key = cl.pending[t].key

\* A client within a call, before the connection has taken what it sends.
Fits(cl, conn) ==
  /\ IsClient(cl) /\ Agree(cl, conn) /\ Queue(cl.out)
  /\ \A m \in ToSet(cl.out) : Asks(cl, m)

LEMMA GrowsKeeps ==
  ASSUME NEW cl, IsClient(cl), NEW new, Grows(cl, new), NEW conn, NEW m
  PROVE  /\ Asks(cl, m) => Asks(new, m)
         /\ Answers(cl, conn, m) => Answers(new, conn, m)
<1>1. 1 .. cl.tokens \subseteq 1 .. new.tokens
  BY DEF IsClient, Grows
<1>2. Asks(cl, m) => Asks(new, m)
  BY <1>1 DEF Grows, Asks
<1>3. Answers(cl, conn, m) => Answers(new, conn, m)
  BY <1>1 DEF Grows, Answers
<1> QED
  BY <1>2, <1>3

LEMMA GrowsReflexive ==
  ASSUME NEW cl, IsClient(cl) PROVE Grows(cl, cl)
BY DEF IsClient, Grows

LEMMA GrowsOn ==
  ASSUME NEW cl, IsClient(cl), NEW new, Grows(cl, new), NEW newer, Grows(new, newer)
  PROVE  Grows(cl, newer)
BY DEF IsClient, Grows

LEMMA ClientStep ==
  ASSUME TagInv, NEW c \in Accounts, c \in Up, UNCHANGED <<conns, records>>,
         NEW cl, ClientCalls(c, cl), Fits(cl, conns[c]), Grows(client[c], cl),
         toClient' = toClient \/ ( toClient[c] # <<>>
                                   /\ toClient' = [toClient EXCEPT ![c] = Tail(@)] )
  PROVE  /\ TagInv' /\ client'[c].joined = cl.joined
         /\ \A d \in Up \ {c} : client'[d] = client[d]
<1> DEFINE new == [cl EXCEPT !.out = <<>>]
<1>1. AccountInv(c) /\ Domains /\ Sound(client[c], conns[c], ToSet(toServer[c]), ToSet(toClient[c]))
  BY DEF TagInv, AccountInv
<1>2. /\ client' = [client EXCEPT ![c] = new]
      /\ toServer' = [toServer EXCEPT ![c] = toServer[c] \o cl.out]
  BY DEF ClientCalls
<1>3. Others(c)
  BY <1>1, <1>2 DEF Others, Domains, Established, Up
<1>4. Queue(toServer[c] \o cl.out)
      /\ ToSet(toServer[c] \o cl.out) \subseteq ToSet(toServer[c]) \cup ToSet(cl.out)
  BY <1>1, QueueConcat DEF AccountInv, Fits
<1>5. Queue(toClient'[c]) /\ ToSet(toClient'[c]) \subseteq ToSet(toClient[c])
  BY <1>1, QueueHead DEF AccountInv, Domains
<1>6. /\ new = [joined |-> cl.joined, pending |-> cl.pending, tokens |-> cl.tokens, out |-> <<>>]
      /\ client'[c] = new /\ toServer'[c] = toServer[c] \o cl.out
  <2>1. new = [joined |-> cl.joined, pending |-> cl.pending, tokens |-> cl.tokens, out |-> <<>>]
    BY DEF Fits, IsClient
  <2> QED
    BY <1>1, <1>2, <2>1 DEF Domains, Up
<1> HIDE DEF new
<1>7. new.joined = cl.joined /\ new.pending = cl.pending /\ new.tokens = cl.tokens /\ new.out = <<>>
  BY <1>6
<1>8. IsClient(new) /\ Agree(new, conns[c]) /\ Grows(client[c], new) /\ Grows(cl, new)
  BY <1>6, <1>7, GrowsReflexive DEF Fits, IsClient, Agree, Grows
<1>9. \A m \in ToSet(toServer'[c]) : Asks(new, m)
  BY <1>1, <1>4, <1>6, <1>8, GrowsKeeps DEF Fits, Sound
<1>10. \A m \in ToSet(toClient'[c]) : Answers(new, conns[c], m)
  BY <1>1, <1>5, <1>8, GrowsKeeps DEF Sound
<1>11. Sound(new, conns[c], ToSet(toServer'[c]), ToSet(toClient'[c]))
  BY <1>7, <1>8, <1>9, <1>10 DEF Sound
<1>12. (c \in Up)' /\ c \in Established /\ (c \in Established)' /\ conns' = conns /\ records' = records
  BY <1>1, <1>2 DEF AccountInv, Up, Established
<1>13. AccountInv(c)'
  BY <1>1, <1>4, <1>5, <1>6, <1>11, <1>12 DEF AccountInv
<1> QED
  BY <1>1, <1>3, <1>6, <1>7, <1>13, OneAccount DEF Others, Domains

LEMMA AtRest ==
  ASSUME TagInv, NEW c \in Accounts, c \in Up
  PROVE  /\ Fits(client[c], conns[c]) /\ Grows(client[c], client[c]) /\ client[c].out = <<>>
         /\ IsConnection(conns[c])
<1>1. IsClient(client[c]) /\ client[c].out = <<>> /\ Agree(client[c], conns[c])
      /\ IsConnection(conns[c])
  BY DEF TagInv, AccountInv, Sound
<1> QED
  BY <1>1, QueueEmpty, GrowsReflexive DEF Fits

LEMMA QueuedFits ==
  ASSUME NEW cl, NEW conn, Fits(cl, conn), NEW k, NEW leave, NEW mode
  PROVE  /\ Fits(Queued(cl, k, leave, mode), conn) /\ Grows(cl, Queued(cl, k, leave, mode))
         /\ Queued(cl, k, leave, mode).joined = cl.joined
<1> DEFINE new == Queued(cl, k, leave, mode)
           t == cl.tokens + 1
           p == [key |-> k, leave |-> leave, mode |-> mode, sent |-> FALSE]
<1>1. cl.tokens \in Nat /\ t \notin DOMAIN cl.pending /\ IsClient(cl)
  BY DEF Fits, IsClient
<1>2. new = [joined |-> cl.joined, pending |-> Extend(cl.pending, t, p), tokens |-> t,
             out |-> cl.out]
  <2> DEFINE more == Extend(cl.pending, t, p)
  <2>1. new = [cl EXCEPT !.tokens = t, !.pending = more]
    BY DEF Queued
  <2>2. cl = [joined |-> cl.joined, pending |-> cl.pending, tokens |-> cl.tokens, out |-> cl.out]
    BY <1>1 DEF IsClient
  <2> HIDE DEF new, more, t
  <2>3. new = [joined |-> cl.joined, pending |-> more, tokens |-> t, out |-> cl.out]
    BY <2>1, <2>2
  <2> QED
    BY <2>3 DEF more
<1>3. IsPending(p)
  BY DEF IsPending
<1> HIDE DEF new, p
<1>4. /\ DOMAIN new.pending = DOMAIN cl.pending \cup {t} /\ new.pending[t] = p
      /\ \A u \in DOMAIN cl.pending : new.pending[u] = cl.pending[u]
  BY <1>1, <1>2 DEF Extend
<1>5. IsClient(new) /\ Agree(new, conn) /\ Grows(cl, new) /\ new.out = cl.out
  <2>1. new.joined = cl.joined /\ new.tokens = t /\ new.out = cl.out /\ t \in Nat
    BY <1>1, <1>2
  <2>2. new = [joined |-> new.joined, pending |-> new.pending, tokens |-> new.tokens,
               out |-> new.out]
    BY <1>2
  <2>3. DOMAIN new.pending \subseteq 1 .. t
    BY <1>1, <1>4 DEF IsClient
  <2>4. IsClient(new)
    BY <1>1, <1>3, <1>4, <2>1, <2>2, <2>3 DEF IsClient
  <2>5. Agree(new, conn)
    BY <2>1 DEF Fits, Agree
  <2>6. Grows(cl, new)
    BY <1>1, <1>4, <2>1 DEF Grows
  <2> QED
    BY <2>1, <2>4, <2>5, <2>6
<1>6. \A m \in ToSet(new.out) : Asks(new, m)
  BY <1>1, <1>5, GrowsKeeps DEF Fits
<1> QED
  BY <1>2, <1>5, <1>6 DEF Fits, new

LEMMA LeaveJoinFits ==
  ASSUME NEW cl, NEW conn, Fits(cl, conn), NEW j
  PROVE  /\ Fits(LeaveJoin(cl, j), conn) /\ Grows(cl, LeaveJoin(cl, j))
         /\ DOMAIN LeaveJoin(cl, j).joined = DOMAIN cl.joined \ {j}
<1> DEFINE new == LeaveJoin(cl, j)
<1>1. IsClient(cl) /\ Grows(cl, cl)
  BY GrowsReflexive DEF Fits
<1>2. CASE j \notin DOMAIN cl.joined
  BY <1>1, <1>2 DEF LeaveJoin
<1>3. CASE j \in DOMAIN cl.joined
  <2>1. new = [joined |-> [i \in DOMAIN cl.joined \ {j} |-> cl.joined[i]],
               pending |-> cl.pending, tokens |-> cl.tokens,
               out |-> Append(cl.out, LeaveNotice(j))]
    <3> DEFINE less == [i \in DOMAIN cl.joined \ {j} |-> cl.joined[i]]
               more == Append(cl.out, LeaveNotice(j))
    <3>1. new = [cl EXCEPT !.joined = less, !.out = more]
      BY <1>3 DEF LeaveJoin, Without, Restrict
    <3>2. cl = [joined |-> cl.joined, pending |-> cl.pending, tokens |-> cl.tokens,
                out |-> cl.out]
      BY <1>1 DEF IsClient
    <3> HIDE DEF new, less, more
    <3>3. new = [joined |-> less, pending |-> cl.pending, tokens |-> cl.tokens, out |-> more]
      BY <3>1, <3>2
    <3> QED
      BY <3>3 DEF less, more
  <2> HIDE DEF new
  <2>2. Queue(new.out) /\ ToSet(new.out) \subseteq ToSet(cl.out) \cup {LeaveNotice(j)}
    BY <2>1, QueueAppend DEF Fits
  <2>3. /\ new.pending = cl.pending /\ new.tokens = cl.tokens
        /\ DOMAIN new.joined = DOMAIN cl.joined \ {j}
        /\ \A i \in DOMAIN new.joined : new.joined[i] = cl.joined[i]
        /\ new = [joined |-> new.joined, pending |-> new.pending, tokens |-> new.tokens,
                  out |-> new.out]
    BY <2>1
  <2>4. IsClient(new) /\ Agree(new, conn) /\ Grows(cl, new)
    BY <1>1, <2>3 DEF Fits, IsClient, Agree, Grows
  <2>5. Asks(new, LeaveNotice(j))
    BY DEF Asks, LeaveNotice
  <2>6. \A m \in ToSet(new.out) : Asks(new, m)
    BY <1>1, <2>2, <2>4, <2>5, GrowsKeeps DEF Fits
  <2> QED
    BY <2>2, <2>3, <2>4, <2>6 DEF Fits, new
<1> QED
  BY <1>2, <1>3

\* A token that has had its answer.
Answered(cl, t) == [cl EXCEPT !.pending = Without(@, t)]

LEMMA AnsweredFits ==
  ASSUME NEW cl, NEW conn, Fits(cl, conn), cl.out = <<>>, NEW t
  PROVE  /\ Fits(Answered(cl, t), conn) /\ Grows(cl, Answered(cl, t))
         /\ Answered(cl, t) = [joined |-> cl.joined, pending |-> Answered(cl, t).pending,
                               tokens |-> cl.tokens, out |-> <<>>]
<1> DEFINE new == Answered(cl, t)
<1>1. IsClient(cl)
  BY DEF Fits
<1>2. new = [joined |-> cl.joined, tokens |-> cl.tokens, out |-> <<>>,
             pending |-> [u \in DOMAIN cl.pending \ {t} |-> cl.pending[u]]]
  BY <1>1 DEF Answered, Without, Restrict, IsClient
<1> HIDE DEF new
<1>3. /\ new = [joined |-> new.joined, pending |-> new.pending, tokens |-> new.tokens,
                out |-> new.out]
      /\ new.joined = cl.joined /\ new.tokens = cl.tokens /\ new.out = <<>>
      /\ DOMAIN new.pending = DOMAIN cl.pending \ {t}
      /\ \A u \in DOMAIN new.pending : new.pending[u] = cl.pending[u]
  BY <1>2
<1>4. IsClient(new) /\ Agree(new, conn) /\ Grows(cl, new)
  BY <1>1, <1>3 DEF Fits, IsClient, Agree, Grows
<1>5. Fits(new, conn)
  BY <1>3, <1>4, QueueEmpty DEF Fits
<1> QED
  BY <1>3, <1>4, <1>5 DEF new

\* The join that is installed is in the world its token asked for.
LEMMA AcceptFits ==
  ASSUME NEW cl, NEW conn, Fits(cl, conn), cl.out = <<>>,
         NEW m, m.type = "accept", Answers(cl, conn, m)
  PROVE  /\ Fits(HandleJoinAccept(cl, m), conn) /\ Grows(cl, HandleJoinAccept(cl, m))
         /\ DOMAIN cl.joined # {} => DOMAIN HandleJoinAccept(cl, m).joined # {}
<1> DEFINE p == cl.pending[m.token]
           answered == Answered(cl, m.token)
<1>1. IsClient(cl) /\ Grows(cl, cl)
  BY GrowsReflexive DEF Fits
<1>2. Fits(answered, conn) /\ Grows(cl, answered)
      /\ answered = [joined |-> cl.joined, pending |-> answered.pending, tokens |-> cl.tokens,
                     out |-> <<>>]
  BY AnsweredFits
<1>3. CASE m.token \notin DOMAIN cl.pending
  BY <1>1, <1>3 DEF HandleJoinAccept
<1>4. CASE m.token \in DOMAIN cl.pending /\ (m.join \in DOMAIN cl.joined \/ p.key \in Unloadable)
  <2>1. HandleJoinAccept(cl, m) = answered
    BY <1>4 DEF HandleJoinAccept, Answered
  <2> HIDE DEF answered
  <2> QED
    BY <1>2, <2>1
<1>5. CASE /\ m.token \in DOMAIN cl.pending
           /\ ~(m.join \in DOMAIN cl.joined \/ p.key \in Unloadable)
  <2> DEFINE installed == [answered EXCEPT !.joined = Extend(@, m.join, p.key)]
  <2>1. HandleJoinAccept(cl, m) = LeaveJoin(installed, p.leave)
    BY <1>5 DEF HandleJoinAccept, Answered
  <2>2. m.join \in 1 .. conn.next - 1
        /\ (m.join \in DOMAIN conn.joins => conn.joins[m.join].key = p.key)
    BY <1>5 DEF Answers
  <2> HIDE DEF answered, p
  <2>3. installed = [joined |-> Extend(cl.joined, m.join, p.key), pending |-> answered.pending,
                     tokens |-> cl.tokens, out |-> <<>>]
    BY <1>2
  <2> HIDE DEF installed
  <2>4. /\ installed = [joined |-> installed.joined, pending |-> installed.pending,
                        tokens |-> installed.tokens, out |-> installed.out]
        /\ installed.pending = answered.pending /\ installed.tokens = cl.tokens
        /\ answered.tokens = cl.tokens /\ installed.out = <<>>
        /\ DOMAIN installed.joined = DOMAIN cl.joined \cup {m.join}
        /\ installed.joined[m.join] = p.key
        /\ \A j \in DOMAIN cl.joined : installed.joined[j] = cl.joined[j]
    BY <1>2, <1>5, <2>3 DEF Extend
  <2>5. IsClient(installed) /\ Grows(cl, installed)
    BY <1>2, <2>4 DEF Fits, IsClient, Grows
  <2>6. Agree(installed, conn)
    BY <2>2, <2>4 DEF Fits, Agree
  <2>7. Fits(installed, conn)
    BY <2>4, <2>5, <2>6, QueueEmpty DEF Fits
  <2>8. /\ Fits(LeaveJoin(installed, p.leave), conn)
        /\ Grows(installed, LeaveJoin(installed, p.leave))
        /\ DOMAIN LeaveJoin(installed, p.leave).joined = DOMAIN installed.joined \ {p.leave}
    BY <2>7, LeaveJoinFits
  <2>9. Grows(cl, LeaveJoin(installed, p.leave))
    BY <2>5, <2>8, <1>1, GrowsOn
  <2>10. DOMAIN cl.joined # {} => DOMAIN LeaveJoin(installed, p.leave).joined # {}
    BY <1>5, <2>4, <2>8
  <2> QED
    BY <2>1, <2>8, <2>9, <2>10
<1> QED
  BY <1>3, <1>4, <1>5

\* Whatever a client handles, it stays sound, and with a world if it has one.
LEMMA HandledFits ==
  ASSUME NEW cl, NEW conn, Fits(cl, conn), cl.out = <<>>, NEW m, Answers(cl, conn, m)
  PROVE  /\ Fits(Handled(cl, m), conn) /\ Grows(cl, Handled(cl, m))
         /\ DOMAIN cl.joined # {} => DOMAIN Handled(cl, m).joined # {}
<1>1. CASE m.type = "accept"
  BY <1>1, AcceptFits DEF Handled
<1>2. CASE m.type = "deny"
  <2>1. Handled(cl, m) = Answered(cl, m.token)
    BY <1>2 DEF Handled, Answered
  <2> QED
    BY <2>1, AnsweredFits
<1>3. CASE m.type = "directed"
  <2>1. Handled(cl, m) = Queued(cl, m.key, m.leave, m.mode)
    BY <1>3 DEF Handled
  <2> QED
    BY <2>1, QueuedFits
<1> QED
  BY <1>1, <1>2, <1>3 DEF Answers

\* The natural numbers are well-founded, so the oldest token is one of them.
LEMMA OldestToken ==
  ASSUME NEW ts, ts \subseteq Nat, ts # {}
  PROVE  Min(ts) \in ts
<1> DEFINE R == OpToRel(<, Nat)
<1>1. IsWellFoundedOn(R, Nat)
  BY NatLessThanWellFounded, Zenon
<1>2. PICK t \in ts : \A u \in ts : ~(<<u, t>> \in R)
  <2> HIDE DEF R
  <2> QED
    BY <1>1, WFMin, Zenon
<1>3. ASSUME NEW u \in ts PROVE t =< u
  <2>1. <<u, t>> \in Nat \X Nat /\ <<u, t>>[1] = u /\ <<u, t>>[2] = t
    OBVIOUS
  <2>2. ~(u < t)
    BY <1>2, <2>1 DEF OpToRel
  <2> QED
    BY <2>2
<1> QED
  BY <1>3 DEF Min

\* No client that stays loses its last world.
KeepsWorlds ==
  \A c \in Up \cap Up' : DOMAIN client[c].joined # {} => DOMAIN client'[c].joined # {}

LEMMA SentPending ==
  ASSUME NEW p, IsPending(p)
  PROVE  [p EXCEPT !.sent = TRUE] = [key |-> p.key, leave |-> p.leave, mode |-> p.mode, sent |-> TRUE]
<1> DEFINE yes == TRUE
<1> HIDE DEF yes
<1>1. p = [key |-> p.key, leave |-> p.leave, mode |-> p.mode, sent |-> p.sent]
  BY DEF IsPending
<1>2. [p EXCEPT !.sent = yes] = [key |-> p.key, leave |-> p.leave, mode |-> p.mode, sent |-> yes]
  BY <1>1
<1> QED
  BY <1>2, Zenon DEF yes

\* A request that is sent asks for its key.
LEMMA SendStep ==
  ASSUME TagInv, NEW c \in Accounts, ClientSend(c)
  PROVE  TagInv' /\ KeepsWorlds
<1> DEFINE cl == client[c]
           t == Min(Unsent(cl))
           p == cl.pending[t]
           q == [p EXCEPT !.sent = TRUE]
           m == JoinRequest(p.key, t, p.mode)
           new == [cl EXCEPT !.pending[t].sent = TRUE, !.out = <<m>>]
<1>1. /\ c \in Up /\ Unsent(cl) # {} /\ ClientCalls(c, new)
      /\ UNCHANGED <<conns, records, toClient>>
  BY DEF ClientSend, serverVars
<1>2. Fits(cl, conns[c]) /\ IsClient(cl)
  BY <1>1, AtRest DEF Fits
<1>3. t \in DOMAIN cl.pending
  <2>1. Unsent(cl) \subseteq Nat
    BY <1>2 DEF IsClient, Unsent
  <2>2. t \in Unsent(cl)
    BY <1>1, <2>1, OldestToken
  <2> QED
    BY <2>2 DEF Unsent
<1>4. IsPending(p) /\ q = [key |-> p.key, leave |-> p.leave, mode |-> p.mode, sent |-> TRUE]
  <2>1. IsPending(p)
    <3>1. \A u \in DOMAIN cl.pending : IsPending(cl.pending[u])
      BY <1>2 DEF IsClient
    <3> HIDE DEF t, cl
    <3> QED
      BY <1>3, <3>1
  <2> QED
    BY <2>1, SentPending
<1>5. new = [joined |-> cl.joined, pending |-> [cl.pending EXCEPT ![t] = q],
             tokens |-> cl.tokens, out |-> <<m>>]
  <2>1. cl = [joined |-> cl.joined, pending |-> cl.pending, tokens |-> cl.tokens, out |-> cl.out]
    BY <1>2 DEF IsClient
  <2>2. [cl.pending EXCEPT ![t].sent = TRUE] = [cl.pending EXCEPT ![t] = q]
    <3> HIDE DEF t
    <3> QED
      OBVIOUS
  <2> DEFINE more == [cl.pending EXCEPT ![t] = q]
             sends == <<m>>
  <2>3. new = [cl EXCEPT !.pending = more, !.out = sends]
    BY <2>2
  <2> HIDE DEF new, more, sends
  <2>4. new = [joined |-> cl.joined, pending |-> more, tokens |-> cl.tokens, out |-> sends]
    BY <2>1, <2>3
  <2> QED
    BY <2>4 DEF more, sends
<1> HIDE DEF new, q, t
<1>6. /\ new = [joined |-> new.joined, pending |-> new.pending, tokens |-> new.tokens,
                out |-> new.out]
      /\ new.joined = cl.joined /\ new.tokens = cl.tokens /\ new.out = <<m>>
      /\ DOMAIN new.pending = DOMAIN cl.pending /\ new.pending[t] = q
      /\ \A u \in DOMAIN cl.pending \ {t} : new.pending[u] = cl.pending[u]
  BY <1>3, <1>5
<1>7. IsPending(q) /\ q.key = p.key
  BY <1>4 DEF IsPending
<1>8. IsClient(new) /\ Agree(new, conns[c]) /\ Grows(cl, new)
  BY <1>2, <1>3, <1>6, <1>7 DEF Fits, IsClient, Agree, Grows
<1>9. Asks(new, m)
  <2>1. m.type = "join" /\ m.token = t /\ m.key = p.key
    BY DEF JoinRequest
  <2>2. t \in 1 .. new.tokens /\ new.pending[t].key = p.key
    BY <1>2, <1>3, <1>6, <1>7 DEF IsClient
  <2> QED
    BY <2>1, <2>2 DEF Asks
<1>10. Fits(new, conns[c])
  BY <1>6, <1>8, <1>9, QueueOne DEF Fits
<1>11. new.joined = cl.joined
  BY <1>6
<1> QED
  BY <1>1, <1>8, <1>10, <1>11, ClientStep DEF KeepsWorlds

LEMMA HandleStep ==
  ASSUME TagInv, NEW c \in Accounts, ClientHandle(c)
  PROVE  TagInv' /\ KeepsWorlds
<1> DEFINE m == Head(toClient[c])
<1>1. /\ c \in Up /\ ClientCalls(c, Handled(client[c], m)) /\ UNCHANGED <<conns, records>>
      /\ toClient[c] # <<>> /\ toClient' = [toClient EXCEPT ![c] = Tail(@)]
  BY DEF ClientHandle, serverVars
<1>2. Answers(client[c], conns[c], m)
  BY <1>1, QueueHead DEF TagInv, AccountInv, Sound
<1>3. /\ Fits(Handled(client[c], m), conns[c]) /\ Grows(client[c], Handled(client[c], m))
      /\ DOMAIN client[c].joined # {} => DOMAIN Handled(client[c], m).joined # {}
  BY <1>1, <1>2, AtRest, HandledFits
<1> HIDE DEF m
<1> QED
  BY <1>1, <1>3, ClientStep DEF KeepsWorlds

LEMMA AskStep ==
  ASSUME TagInv, NEW c \in Accounts,
         \/ \E k \in Keys, mode \in Modes : AskJoin(c, k, mode) \/ AskTravel(c, k, mode)
         \/ c \in Up /\ \E j \in DOMAIN client[c].joined : AskLeave(c, j)
  PROVE  TagInv'
<1>1. ASSUME NEW k \in Keys, NEW mode \in Modes, AskJoin(c, k, mode) PROVE TagInv'
  <2>1. /\ c \in Up /\ UNCHANGED <<conns, records, toClient>>
        /\ ClientCalls(c, Queued(client[c], k, Control, mode))
    BY <1>1 DEF AskJoin, Asking, serverVars
  <2> QED
    BY <2>1, AtRest, QueuedFits, ClientStep
<1>2. ASSUME NEW k \in Keys, NEW mode \in Modes, AskTravel(c, k, mode) PROVE TagInv'
  <2> DEFINE cl == client[c]
             m == TravelRequest(k, mode)
             new == [cl EXCEPT !.out = <<m>>]
  <2>1. c \in Up /\ UNCHANGED <<conns, records, toClient>> /\ ClientCalls(c, new)
    BY <1>2 DEF AskTravel, Asking, serverVars
  <2>2. Fits(cl, conns[c]) /\ IsClient(cl)
    BY <2>1, AtRest DEF Fits
  <2>3. new = [joined |-> cl.joined, pending |-> cl.pending, tokens |-> cl.tokens,
               out |-> <<m>>]
    BY <2>2 DEF IsClient
  <2>4. Asks(new, m)
    BY DEF Asks, TravelRequest
  <2> HIDE DEF new
  <2>5. /\ new = [joined |-> new.joined, pending |-> new.pending, tokens |-> new.tokens,
                  out |-> new.out]
        /\ new.joined = cl.joined /\ new.pending = cl.pending /\ new.tokens = cl.tokens
        /\ new.out = <<m>>
    BY <2>3
  <2>6. IsClient(new) /\ Agree(new, conns[c]) /\ Grows(cl, new)
    BY <2>2, <2>5 DEF Fits, IsClient, Agree, Grows
  <2>7. Fits(new, conns[c])
    BY <2>4, <2>5, <2>6, QueueOne DEF Fits
  <2> QED
    BY <2>1, <2>6, <2>7, ClientStep
<1>3. ASSUME c \in Up, NEW j \in DOMAIN client[c].joined, AskLeave(c, j) PROVE TagInv'
  <2>1. c \in Up /\ UNCHANGED <<conns, records, toClient>> /\ ClientCalls(c, LeaveJoin(client[c], j))
    BY <1>3 DEF AskLeave, Asking, serverVars
  <2> QED
    BY <2>1, AtRest, LeaveJoinFits, ClientStep
<1> QED
  BY <1>1, <1>2, <1>3

\* A client that goes leaves a connection that nothing comes to.
LEMMA GoneStep ==
  ASSUME TagInv, NEW c \in Accounts, Quit(c) \/ Cut(c)
  PROVE  TagInv'
<1>1. AccountInv(c) /\ Domains /\ c \in Up /\ c \in Established
  BY DEF TagInv, AccountInv, Quit, Cut
<1>2. /\ client' = [d \in Up \ {c} |-> client[d]] /\ UNCHANGED <<conns, records>>
      /\ toClient' = [toClient EXCEPT ![c] = <<>>]
      /\ \/ toServer' = [toServer EXCEPT ![c] = <<>>]
         \/ toServer' = [toServer EXCEPT ![c] = Append(@, Goodbye)]
  BY DEF Quit, Cut, Without, Restrict, Up, serverVars
<1>3. Others(c)
  BY <1>1, <1>2 DEF Others, Domains, Established, Up
<1>4. Queue(toServer'[c]) /\ Queue(toClient'[c])
  <2>1. Queue(toServer[c]) /\ Queue(Append(toServer[c], Goodbye))
    BY <1>1, QueueAppend DEF AccountInv
  <2> QED
    BY <1>1, <1>2, <2>1, QueueEmpty DEF Domains
<1>5. (c \notin Up)' /\ (c \in Established)'
  BY <1>1, <1>2 DEF Up, Established
<1>6. AccountInv(c)'
  BY <1>1, <1>2, <1>4, <1>5 DEF AccountInv
<1> QED
  BY <1>3, <1>6, OneAccount

-----------------------------------------------------------------------------
(* The theorems.                                                            *)

LEMMA StepTagInv == TagInv /\ [Next]_vars => TagInv'
<1> SUFFICES ASSUME TagInv, [Next]_vars PROVE TagInv'
  OBVIOUS
<1>1. ASSUME NEW c \in Accounts, User(c) PROVE TagInv'
  BY <1>1, ConnectStep, AskStep, GoneStep DEF User
<1>2. ASSUME NEW c \in Accounts, ClientSend(c) \/ ClientHandle(c) PROVE TagInv'
  BY <1>2, SendStep, HandleStep
<1>3. ASSUME NEW c \in Accounts, ServerPump(c) PROVE TagInv'
  BY <1>3, RejoinStep, DenyOrTravelStep, GrantStep, LeaveStep, DisconnectedStep DEF ServerPump
<1>4. ASSUME NEW ws \in SUBSET Idle(dir), ServerReap(ws) PROVE TagInv'
  BY <1>4, ReapStep
<1>5. CASE UNCHANGED vars
  BY <1>5 DEF vars, TagInv, Domains, AccountInv, Up, Established
<1> QED
  BY <1>1, <1>2, <1>3, <1>4, <1>5 DEF Next

\* A tag never names one world on the server and another on its client, for any
\* accounts and worlds, and however many requests, answers and leaves cross.
THEOREM TagsHold == Spec => []TagsAgree
<1>1. TagInv => TagsAgree
  <2> SUFFICES ASSUME TagInv, NEW c \in Up, NEW j \in DOMAIN client[c].joined \cap DOMAIN conns[c].joins
               PROVE  client[c].joined[j] = conns[c].joins[j].key
    BY DEF TagsAgree
  <2> QED
    BY DEF TagInv, Domains, AccountInv, Sound, Agree
<1> QED
  BY InitTagInv, StepTagInv, <1>1, PTL DEF Spec

AsksCounted == asks \in Nat

LEMMA AsksCount ==
  /\ Init => AsksCounted
  /\ AsksCounted /\ [Next]_vars => AsksCounted'
<1>1. Init => asks \in Nat
  BY DEF Init
<1>2. ASSUME asks \in Nat, [Next]_vars PROVE asks' \in Nat
  <2>1. asks' = asks \/ asks' = asks + 1
    BY <1>2 DEF Next, vars, User, ServerPump, Connect, AskJoin, AskTravel, AskLeave, Asking, Quit,
       Cut, ClientSend, ClientHandle, ServerRejoin, ServerDeny, ServerGrant, ServerTravel,
       ServerLeave, ServerGoodbye, ServerTimeout, Disconnected, ServerReap
  <2> QED
    BY <1>2, <2>1
<1> QED
  BY <1>1, <1>2 DEF AsksCounted

\* Only a leave the user asks for takes a client's last world, for any accounts and
\* worlds: a travel leaves the old world after the new one is installed.
THEOREM NoneStranded == Spec => NeverStranded
<1> DEFINE Kept == \A c \in Accounts :
                     (/\ c \in Up /\ c \in Up'
                      /\ DOMAIN client[c].joined # {} /\ DOMAIN client'[c].joined = {})
                       => asks' # asks
<1>1. TagInv /\ AsksCounted /\ [Next]_vars => [Kept]_vars
  <2> SUFFICES ASSUME TagInv, AsksCounted, Next PROVE Kept
    OBVIOUS
  <2>1. ASSUME NEW c \in Accounts, ClientSend(c) \/ ClientHandle(c) PROVE Kept
    BY <2>1, SendStep, HandleStep DEF KeepsWorlds
  <2>2. ASSUME NEW c \in Accounts, User(c) PROVE Kept
    <3>1. CASE asks' = asks + 1
      BY <3>1 DEF AsksCounted
    <3>2. CASE asks' # asks + 1
      <4>1. Connect(c) \/ Quit(c) \/ Cut(c)
        BY <2>2, <3>2 DEF User, AskJoin, AskTravel, AskLeave, Asking
      <4>2. \A d \in Up \cap Up' : client'[d] = client[d]
        BY <4>1 DEF Connect, Quit, Cut, Extend, Without, Restrict, Up
      <4> QED
        BY <4>2
    <3> QED
      BY <3>1, <3>2
  <2>3. ASSUME NEW c \in Accounts, ServerPump(c) PROVE Kept
    <3>1. client' = client
      BY <2>3 DEF ServerPump, ServerRejoin, ServerDeny, ServerGrant, ServerTravel, ServerLeave,
         ServerGoodbye, ServerTimeout, Disconnected
    <3> QED
      BY <3>1
  <2>4. ASSUME NEW ws \in SUBSET Idle(dir), ServerReap(ws) PROVE Kept
    BY <2>4 DEF ServerReap
  <2> QED
    BY <2>1, <2>2, <2>3, <2>4 DEF Next
<1>2. Spec => []TagInv
  BY InitTagInv, StepTagInv, PTL DEF Spec
<1>3. Spec => []AsksCounted
  BY AsksCount, PTL DEF Spec
<1>4. Spec => [][Kept]_vars
  BY <1>1, <1>2, <1>3, PTL DEF Spec
<1> QED
  BY <1>4 DEF NeverStranded

-----------------------------------------------------------------------------
(* Requests and answers, counted.                                           *)

\* Message m is the request of token t, or an answer to it.
IsAbout(m, t) == m.type \in {"join", "accept", "deny"} /\ m.token = t
About(q, t) == {i \in DOMAIN q : q[i].type \in {"join", "accept", "deny"} /\ q[i].token = t}
Weight(m, t) == IF IsAbout(m, t) THEN 1 ELSE 0

\* The number of messages about t in a queue.
LEMMA AboutType ==
  ASSUME NEW q, Queue(q), NEW t
  PROVE  /\ IsFiniteSet(About(q, t)) /\ Cardinality(About(q, t)) \in Nat
         /\ q = <<>> => Cardinality(About(q, t)) = 0
         /\ \A i \in DOMAIN q : IsAbout(q[i], t) => Cardinality(About(q, t)) > 0
<1>1. DOMAIN q = 1 .. Len(q) /\ Len(q) \in Nat
  BY DEF Queue
<1>2. IsFiniteSet(1 .. Len(q)) /\ About(q, t) \in SUBSET (1 .. Len(q))
  BY <1>1, FS_Interval DEF About
<1>3. IsFiniteSet(About(q, t))
  BY <1>2, FS_Subset
<1>4. Cardinality(About(q, t)) \in Nat /\ (Cardinality(About(q, t)) = 0 <=> About(q, t) = {})
  BY <1>3, FS_EmptySet, FS_CardinalityType
<1>5. q = <<>> => About(q, t) = {}
  BY <1>1 DEF About
<1>6. ASSUME NEW i \in DOMAIN q, IsAbout(q[i], t) PROVE About(q, t) # {}
  BY <1>6 DEF About, IsAbout
<1> HIDE DEF Weight
<1> QED
  BY <1>3, <1>4, <1>5, <1>6

\* A message more counts if it is about t ...
LEMMA AboutAppend ==
  ASSUME NEW q, Queue(q), NEW e, NEW t
  PROVE  Cardinality(About(Append(q, e), t)) = Cardinality(About(q, t)) + Weight(e, t)
<1> DEFINE r == Append(q, e)
           n == Len(q) + 1
           S == ToSet(q) \cup {e}
<1>1. q \in Seq(S)
  BY SeqMonotonic DEF Queue
<1>2. /\ Len(q) \in Nat /\ DOMAIN q = 1 .. Len(q) /\ DOMAIN r = 1 .. n
      /\ r[n] = e /\ \A i \in 1 .. Len(q) : r[i] = q[i]
  BY <1>1
<1> HIDE DEF r
<1>3. About(r, t) = IF IsAbout(e, t) THEN About(q, t) \cup {n} ELSE About(q, t)
  BY <1>2 DEF About, IsAbout
<1>4. n \notin About(q, t)
  BY <1>2 DEF About
<1> HIDE DEF n
<1>5. IsFiniteSet(About(q, t)) /\ Cardinality(About(q, t)) \in Nat
  BY AboutType
<1>6. Cardinality(About(q, t) \cup {n}) = Cardinality(About(q, t)) + 1
  BY <1>4, <1>5, FS_AddElement
<1> QED
  BY <1>3, <1>5, <1>6 DEF r, Weight

\* ... and one less counts no more.
LEMMA AboutTail ==
  ASSUME NEW q, Queue(q), q # <<>>, NEW t
  PROVE  Cardinality(About(q, t)) = Cardinality(About(Tail(q), t)) + Weight(Head(q), t)
<1> DEFINE r == Tail(q)
           J == About(r, t)
           K == About(q, t) \ {1}
           f == [j \in J |-> j + 1]
<1>1. /\ Len(q) \in Nat \ {0} /\ Head(q) = q[1] /\ Len(r) = Len(q) - 1
      /\ DOMAIN q = 1 .. Len(q) /\ DOMAIN r = 1 .. Len(r)
      /\ \A i \in 1 .. Len(r) : r[i] = q[i + 1]
  BY DEF Queue
<1>2. Queue(r)
  BY QueueHead
<1> HIDE DEF r
<1>3. \A j \in J : j \in Int /\ j + 1 \in K
  BY <1>1 DEF About
<1>4. \A k \in K : k \in Int /\ k - 1 \in J
  BY <1>1 DEF About
<1>5. IsFiniteSet(J) /\ Cardinality(J) \in Nat
  BY <1>2, AboutType
<1>6. J = About(r, t) /\ K = About(q, t) \ {1}
  OBVIOUS
<1> HIDE DEF J, K
<1>7. f \in [J -> K] /\ (\A a, b \in J : f[a] = f[b] => a = b) /\ (\A k \in K : \E j \in J : f[j] = k)
  BY <1>3, <1>4
<1> HIDE DEF f
<1>8. f \in Bijection(J, K)
  BY <1>7, Fun_IsBij
<1>9. Cardinality(K) = Cardinality(J)
  BY <1>5, <1>8, FS_Bijection DEF ExistsBijection
<1>10. 1 \in About(q, t) <=> IsAbout(Head(q), t)
  BY <1>1 DEF About, IsAbout
<1>11. IsFiniteSet(About(q, t)) /\ Cardinality(About(q, t)) \in Nat
  BY AboutType
<1>12. Cardinality(K) = IF IsAbout(Head(q), t) THEN Cardinality(About(q, t)) - 1
                                               ELSE Cardinality(About(q, t))
  BY <1>6, <1>10, <1>11, FS_RemoveElement
<1> QED
  BY <1>5, <1>6, <1>9, <1>11, <1>12 DEF r, Weight

-----------------------------------------------------------------------------
(* One message about each request.                                          *)

\* A token that is out: asked for and not answered.
IsOut(cl, t) == t \in DOMAIN cl.pending \ Unsent(cl)

\* One message about a token that is out, and none about any other.
Balanced(cl, up, down) ==
  \A t : Cardinality(About(up, t)) + Cardinality(About(down, t)) = IF IsOut(cl, t) THEN 1 ELSE 0

AnswerOf(c) == c \in Up => Balanced(client[c], toServer[c], toClient[c])

AnswerInv == TagInv /\ \A c \in Accounts : AnswerOf(c)

\* The server takes a request and answers it, or another message and sends none of these.
LEMMA BalancedServer ==
  ASSUME NEW cl, NEW up, Queue(up), up # <<>>, NEW down, Queue(down), NEW new,
         Balanced(cl, up, down),
         \/ new = down /\ \A t : Weight(Head(up), t) = 0
         \/ \E e : new = Append(down, e) /\ \A t : Weight(Head(up), t) = Weight(e, t)
  PROVE  Balanced(cl, Tail(up), new)
<1> SUFFICES ASSUME NEW t
             PROVE  Cardinality(About(Tail(up), t)) + Cardinality(About(new, t))
                      = IF IsOut(cl, t) THEN 1 ELSE 0
  BY DEF Balanced
<1>1. /\ Cardinality(About(up, t)) = Cardinality(About(Tail(up), t)) + Weight(Head(up), t)
      /\ Cardinality(About(Tail(up), t)) \in Nat /\ Cardinality(About(down, t)) \in Nat
      /\ Weight(Head(up), t) \in Nat
  BY AboutTail, AboutType, QueueHead DEF Weight
<1>2. Cardinality(About(new, t)) = Cardinality(About(down, t)) + Weight(Head(up), t)
  <2>1. CASE new = down /\ Weight(Head(up), t) = 0
    BY <1>1, <2>1
  <2>2. ASSUME NEW e, new = Append(down, e), Weight(Head(up), t) = Weight(e, t)
        PROVE  Cardinality(About(new, t)) = Cardinality(About(down, t)) + Weight(Head(up), t)
    BY <2>2, AboutAppend
  <2> QED
    BY <2>1, <2>2
<1>3. Cardinality(About(up, t)) + Cardinality(About(down, t)) = IF IsOut(cl, t) THEN 1 ELSE 0
  BY DEF Balanced
<1> QED
  BY <1>1, <1>2, <1>3

\* Every request under way is of a token that is out, and so is every answer.
LEMMA BalancedOut ==
  ASSUME NEW cl, NEW up, Queue(up), NEW down, Queue(down), Balanced(cl, up, down), NEW t,
         \/ \E i \in DOMAIN up : IsAbout(up[i], t)
         \/ \E i \in DOMAIN down : IsAbout(down[i], t)
  PROVE  IsOut(cl, t)
<1>1. /\ Cardinality(About(up, t)) \in Nat /\ Cardinality(About(down, t)) \in Nat
      /\ \/ Cardinality(About(up, t)) > 0
         \/ Cardinality(About(down, t)) > 0
  BY AboutType
<1>2. Cardinality(About(up, t)) + Cardinality(About(down, t)) = IF IsOut(cl, t) THEN 1 ELSE 0
  BY DEF Balanced
<1> QED
  BY <1>1, <1>2

\* What one account's step leaves alone.
Acts(c) == User(c) \/ ClientSend(c) \/ ClientHandle(c) \/ ServerPump(c)

\* A step of one account leaves the others alone.
LEMMA ActsAlone ==
  ASSUME TagInv, TagInv', NEW c \in Accounts, Acts(c)
  PROVE  Others(c)
<1>1. Domains /\ Domains'
  BY DEF TagInv
<1> SUFFICES ASSUME NEW d \in Accounts \ {c}
             PROVE  /\ toServer'[d] = toServer[d] /\ toClient'[d] = toClient[d]
                    /\ records'[d] = records[d]
                    /\ d \in Up' <=> d \in Up
                    /\ d \in Established' <=> d \in Established
                    /\ d \in Up => client'[d] = client[d]
                    /\ d \in Established => conns'[d] = conns[d]
  BY <1>1 DEF Others
<1> USE <1>1 DEF Domains, Up, Established, serverVars
<1>2. CASE Connect(c)
  BY <1>2 DEF Connect, Extend
<1>3. ASSUME NEW k \in Keys, NEW mode \in Modes, AskJoin(c, k, mode) \/ AskTravel(c, k, mode)
      PROVE  UNCHANGED <<serverVars, toClient>> /\ \E cl : ClientCalls(c, cl)
  BY <1>3 DEF AskJoin, AskTravel
<1>4. ASSUME NEW j, AskLeave(c, j)
      PROVE  UNCHANGED <<serverVars, toClient>> /\ \E cl : ClientCalls(c, cl)
  BY <1>4 DEF AskLeave
<1>5. CASE Quit(c) \/ Cut(c)
  BY <1>5 DEF Quit, Cut, Without, Restrict
<1>6. CASE ClientSend(c)
  BY <1>6 DEF ClientSend, ClientCalls
<1>7. CASE ClientHandle(c)
  BY <1>7 DEF ClientHandle, ClientCalls
<1>8. CASE ServerRejoin(c) \/ ServerDeny(c) \/ ServerTravel(c)
  BY <1>8 DEF ServerRejoin, ServerDeny, ServerTravel, Arrived, Send
<1>9. CASE ServerGrant(c)
  BY <1>9 DEF ServerGrant, Arrived, Send
<1>10. CASE ServerLeave(c)
  BY <1>10 DEF ServerLeave, Arrived
<1>11. CASE Disconnected(c)
  BY <1>11 DEF Disconnected, Without, Restrict
<1>12. ASSUME UNCHANGED <<serverVars, toClient>>, NEW cl, ClientCalls(c, cl)
       PROVE  /\ toServer'[d] = toServer[d] /\ toClient'[d] = toClient[d]
              /\ records'[d] = records[d]
              /\ d \in Up' <=> d \in Up
              /\ d \in Established' <=> d \in Established
              /\ d \in Up => client'[d] = client[d]
              /\ d \in Established => conns'[d] = conns[d]
  BY <1>12 DEF ClientCalls
<1> QED
  BY <1>2, <1>3, <1>4, <1>5, <1>6, <1>7, <1>8, <1>9, <1>10, <1>11, <1>12
  DEF Acts, User, ServerPump, ServerGoodbye, ServerTimeout

\* What a step of the server does to the streams of the account, and to the requests
\* and answers in them.
LEMMA ServerTakes ==
  ASSUME TagInv, NEW c \in Accounts,
         ServerRejoin(c) \/ ServerDeny(c) \/ ServerGrant(c) \/ ServerTravel(c) \/ ServerLeave(c)
  PROVE  /\ c \in Established /\ toServer[c] # <<>> /\ toServer'[c] = Tail(toServer[c])
         /\ client' = client
         /\ \/ toClient'[c] = toClient[c] /\ \A t : Weight(Head(toServer[c]), t) = 0
            \/ \E e : /\ toClient'[c] = Append(toClient[c], e)
                      /\ \A t : Weight(Head(toServer[c]), t) = Weight(e, t)
<1> DEFINE m == Head(toServer[c])
<1>1. Domains
  BY DEF TagInv
<1>2. ASSUME NEW type, Arrived(c, type)
      PROVE  /\ c \in Established /\ toServer[c] # <<>> /\ toServer'[c] = Tail(toServer[c])
             /\ m.type = type
  BY <1>1, <1>2 DEF Arrived, Domains
<1>3. ASSUME NEW e, Send(c, e) PROVE toClient'[c] = Append(toClient[c], e)
  BY <1>1, <1>3 DEF Send, Domains
<1>4. CASE ServerRejoin(c)
  <2>1. PICK j : Send(c, JoinAccept(m.token, j))
    BY <1>4 DEF ServerRejoin
  <2>2. m.type = "join"
    BY <1>2, <1>4 DEF ServerRejoin
  <2>3. \A t : Weight(m, t) = Weight(JoinAccept(m.token, j), t)
    BY <2>2 DEF Weight, IsAbout, JoinAccept
  <2> QED
    BY <1>2, <1>3, <1>4, <2>1, <2>3 DEF ServerRejoin
<1>5. CASE ServerDeny(c)
  <2>1. m.type = "join" /\ Send(c, JoinDeny(m.token))
    BY <1>2, <1>5 DEF ServerDeny
  <2>3. \A t : Weight(m, t) = Weight(JoinDeny(m.token), t)
    BY <2>1 DEF Weight, IsAbout, JoinDeny
  <2> QED
    BY <1>2, <1>3, <1>5, <2>1, <2>3 DEF ServerDeny
<1>6. CASE ServerGrant(c)
  <2>1. m.type = "join" /\ Send(c, JoinAccept(m.token, conns[c].next))
    BY <1>2, <1>6 DEF ServerGrant
  <2>3. \A t : Weight(m, t) = Weight(JoinAccept(m.token, conns[c].next), t)
    BY <2>1 DEF Weight, IsAbout, JoinAccept
  <2> QED
    BY <1>2, <1>3, <1>6, <2>1, <2>3 DEF ServerGrant
<1>7. CASE ServerTravel(c)
  <2> DEFINE e == DirectedTravel(CurrentJoin(conns[c]), m.key, m.mode)
  <2>1. m.type = "travel" /\ (Send(c, e) \/ UNCHANGED toClient) /\ client' = client
    BY <1>2, <1>7 DEF ServerTravel
  <2>2. \A t : Weight(m, t) = 0
    BY <2>1 DEF Weight, IsAbout
  <2>3. \A t : Weight(e, t) = 0
    BY DEF Weight, IsAbout, DirectedTravel
  <2>4. Arrived(c, "travel")
    BY <1>7 DEF ServerTravel
  <2> HIDE DEF m, e
  <2>5. CASE Send(c, e)
    BY <1>2, <1>3, <2>1, <2>2, <2>3, <2>4, <2>5 DEF m
  <2>6. CASE UNCHANGED toClient
    BY <1>2, <2>1, <2>2, <2>4, <2>6 DEF m
  <2> QED
    BY <2>1, <2>5, <2>6
<1>8. CASE ServerLeave(c)
  <2>1. m.type = "leave" /\ UNCHANGED <<client, toClient>> /\ Arrived(c, "leave")
    BY <1>2, <1>8 DEF ServerLeave
  <2>2. \A t : Weight(m, t) = 0
    BY <2>1 DEF Weight, IsAbout
  <2> QED
    BY <1>2, <2>1, <2>2
<1> QED
  BY <1>4, <1>5, <1>6, <1>7, <1>8

\* The server answers what it takes.
LEMMA ServerBalanced ==
  ASSUME AnswerInv, NEW c \in Accounts,
         ServerRejoin(c) \/ ServerDeny(c) \/ ServerGrant(c) \/ ServerTravel(c) \/ ServerLeave(c)
  PROVE  AnswerOf(c)'
<1>1. TagInv /\ AnswerOf(c) /\ Queue(toServer[c]) /\ Queue(toClient[c])
  BY DEF AnswerInv, TagInv, AccountInv
<1>2. /\ toServer[c] # <<>> /\ toServer'[c] = Tail(toServer[c]) /\ client' = client
      /\ \/ toClient'[c] = toClient[c] /\ \A t : Weight(Head(toServer[c]), t) = 0
         \/ \E e : /\ toClient'[c] = Append(toClient[c], e)
                   /\ \A t : Weight(Head(toServer[c]), t) = Weight(e, t)
  BY <1>1, ServerTakes
<1>3. ASSUME Balanced(client[c], toServer[c], toClient[c])
      PROVE  Balanced(client[c], Tail(toServer[c]), toClient'[c])
  BY <1>1, <1>2, <1>3, BalancedServer
<1> QED
  BY <1>1, <1>2, <1>3 DEF AnswerOf, Up

\* Sending nothing, and sending one message.
LEMMA JoinOne ==
  ASSUME NEW q, Queue(q), NEW e
  PROVE  q \o <<>> = q /\ q \o <<e>> = Append(q, e)
<1> DEFINE S == ToSet(q) \cup {e}
<1>1. q \in Seq(S) /\ e \in S
  BY SeqMonotonic DEF Queue
<1> HIDE DEF S
<1>2. q \o <<>> = q
  BY <1>1
<1>3. q \o <<e>> = Append(q, e)
  BY <1>1
<1> QED
  BY <1>2, <1>3

\* A call moves a token that is out: its request goes to the server, or the answer that it
\* handles is gone from the stream.
OutCount(cl, t) == IF IsOut(cl, t) THEN 1 ELSE 0
Taken(down, rest, t) == IF rest = down THEN 0 ELSE Weight(Head(down), t)

Moves(cl, down, new, rest, out, e) ==
  /\ rest = down \/ (down # <<>> /\ rest = Tail(down))
  /\ \/ /\ out = <<>>
        /\ \A t : OutCount(new, t) + Taken(down, rest, t) = OutCount(cl, t)
     \/ /\ out = <<e>>
        /\ \A t : OutCount(new, t) + Taken(down, rest, t) = OutCount(cl, t) + Weight(e, t)

\* The arithmetic of a request that moves from the client to the stream, and of an answer.
LEMMA Sums ==
  ASSUME NEW up \in Nat, NEW down \in Nat, NEW rest \in Nat, NEW taken \in Nat, NEW sent \in Nat,
         NEW more, NEW old \in Nat, NEW new \in Nat, up + down = old, rest + taken = down,
         \/ more = up /\ new + taken = old
         \/ more = up + sent /\ new + taken = old + sent
  PROVE  more + rest = new
OBVIOUS

\* Whatever a call does, each token that is out keeps its one message.
LEMMA BalancedClient ==
  ASSUME NEW cl, NEW up, Queue(up), NEW down, Queue(down), Balanced(cl, up, down),
         NEW new, NEW rest, NEW out, NEW e, Moves(cl, down, new, rest, out, e)
  PROVE  Balanced(new, up \o out, rest)
<1> SUFFICES ASSUME NEW t
             PROVE  Cardinality(About(up \o out, t)) + Cardinality(About(rest, t)) = OutCount(new, t)
  BY DEF Balanced, OutCount
<1> USE DEF Moves
<1>1. /\ Cardinality(About(up, t)) \in Nat /\ Cardinality(About(down, t)) \in Nat
      /\ OutCount(new, t) \in Nat /\ OutCount(cl, t) \in Nat /\ Weight(e, t) \in Nat
      /\ Taken(down, rest, t) \in Nat
  BY AboutType DEF OutCount, Weight, Taken
<1>2. Cardinality(About(up, t)) + Cardinality(About(down, t)) = OutCount(cl, t)
  BY DEF Balanced, OutCount
<1>3. Cardinality(About(rest, t)) + Taken(down, rest, t) = Cardinality(About(down, t))
      /\ Cardinality(About(rest, t)) \in Nat
  <2>1. CASE rest = down
    BY <1>1, <2>1 DEF Taken
  <2>2. CASE rest # down
    <3>1. Cardinality(About(down, t)) = Cardinality(About(rest, t)) + Weight(Head(down), t)
      BY <2>2, AboutTail
    <3>2. Cardinality(About(rest, t)) \in Nat
      BY <2>2, QueueHead, AboutType
    <3> QED
      BY <1>1, <2>2, <3>1, <3>2 DEF Taken
  <2> QED
    BY <2>1, <2>2
<1>4. CASE out = <<>> /\ OutCount(new, t) + Taken(down, rest, t) = OutCount(cl, t)
  <2>1. up \o out = up
    BY <1>4, JoinOne
  <2> QED
    BY <1>1, <1>2, <1>3, <1>4, <2>1, Sums
<1>5. CASE out = <<e>> /\ OutCount(new, t) + Taken(down, rest, t) = OutCount(cl, t) + Weight(e, t)
  <2>1. up \o out = Append(up, e)
    BY <1>5, JoinOne
  <2> DEFINE more == Cardinality(About(up \o out, t))
             ups == Cardinality(About(up, t))
             downs == Cardinality(About(down, t))
             rests == Cardinality(About(rest, t))
  <2>2. more = ups + Weight(e, t)
    BY <2>1, AboutAppend
  <2>3. OutCount(new, t) + Taken(down, rest, t) = OutCount(cl, t) + Weight(e, t)
    BY <1>5
  <2>4. /\ ups \in Nat /\ downs \in Nat /\ rests \in Nat
        /\ ups + downs = OutCount(cl, t) /\ rests + Taken(down, rest, t) = downs
    BY <1>1, <1>2, <1>3
  <2> DEFINE gone == Taken(down, rest, t)
             sent == Weight(e, t)
             old == OutCount(cl, t)
             now == OutCount(new, t)
  <2>6. gone \in Nat /\ sent \in Nat /\ old \in Nat /\ now \in Nat
    BY <1>1
  <2> HIDE DEF more, ups, downs, rests, gone, sent, old, now
  <2>5. more + rests = now
    BY <2>2, <2>3, <2>4, <2>6, Sums DEF gone, sent, old, now
  <2> QED
    BY <2>5 DEF more, rests, now
<1> QED
  BY <1>4, <1>5

\* What the calls of a client do to its tokens and to what it sends.
LEMMA QueuedShape ==
  ASSUME NEW cl, IsClient(cl), NEW k, NEW leave, NEW mode
  PROVE  /\ Queued(cl, k, leave, mode).out = cl.out
         /\ Queued(cl, k, leave, mode).joined = cl.joined
         /\ DOMAIN Queued(cl, k, leave, mode).pending = DOMAIN cl.pending \cup {cl.tokens + 1}
         /\ \A t : OutCount(Queued(cl, k, leave, mode), t) = OutCount(cl, t)
<1> DEFINE new == Queued(cl, k, leave, mode)
           t == cl.tokens + 1
           p == [key |-> k, leave |-> leave, mode |-> mode, sent |-> FALSE]
           more == Extend(cl.pending, t, p)
<1>1. cl.tokens \in Nat /\ t \notin DOMAIN cl.pending
  BY DEF IsClient
<1>2. new = [joined |-> cl.joined, pending |-> more, tokens |-> t, out |-> cl.out]
  <2>1. new = [cl EXCEPT !.tokens = t, !.pending = more]
    BY DEF Queued
  <2>2. cl = [joined |-> cl.joined, pending |-> cl.pending, tokens |-> cl.tokens, out |-> cl.out]
    BY DEF IsClient
  <2> HIDE DEF new, more, t
  <2> QED
    BY <2>1, <2>2
<1> HIDE DEF new
<1>3. new.pending = more /\ new.out = cl.out /\ new.joined = cl.joined
  BY <1>2
<1>4. DOMAIN more = DOMAIN cl.pending \cup {t} /\ ~more[t].sent
      /\ \A u \in DOMAIN cl.pending : more[u] = cl.pending[u]
  <2> HIDE DEF t
  <2> QED
    BY <1>1 DEF Extend
<1>5. \A u : IsOut(new, u) <=> IsOut(cl, u)
  <2> HIDE DEF more, t
  <2> QED
    BY <1>1, <1>3, <1>4 DEF IsOut, Unsent
<1> QED
  BY <1>3, <1>4, <1>5 DEF new, OutCount

\* A leave is noticed if there is something to leave.
LEMMA LeaveShape ==
  ASSUME NEW cl, IsClient(cl), cl.out = <<>>, NEW j
  PROVE  /\ LeaveJoin(cl, j).pending = cl.pending
         /\ DOMAIN LeaveJoin(cl, j).joined = DOMAIN cl.joined \ {j}
         /\ LeaveJoin(cl, j).out = IF j \in DOMAIN cl.joined THEN <<LeaveNotice(j)>> ELSE <<>>
<1> DEFINE new == LeaveJoin(cl, j)
<1>1. CASE j \notin DOMAIN cl.joined
  BY <1>1 DEF LeaveJoin
<1>2. CASE j \in DOMAIN cl.joined
  <2> DEFINE less == [i \in DOMAIN cl.joined \ {j} |-> cl.joined[i]]
             more == Append(cl.out, LeaveNotice(j))
  <2>1. new = [cl EXCEPT !.joined = less, !.out = more]
    BY <1>2 DEF LeaveJoin, Without, Restrict
  <2>2. cl = [joined |-> cl.joined, pending |-> cl.pending, tokens |-> cl.tokens, out |-> cl.out]
    BY DEF IsClient
  <2>3. more = <<LeaveNotice(j)>>
    <3> DEFINE n == LeaveNotice(j)
    <3>1. Append(<<>>, n) = <<n>>
      <4> HIDE DEF n
      <4> QED
        OBVIOUS
    <3> QED
      BY <3>1
  <2> HIDE DEF new, less, more
  <2>4. new = [joined |-> less, pending |-> cl.pending, tokens |-> cl.tokens, out |-> more]
    BY <2>1, <2>2
  <2>5. new.joined = less /\ new.pending = cl.pending /\ new.out = more
    BY <2>4
  <2>6. DOMAIN less = DOMAIN cl.joined \ {j}
    BY DEF less
  <2> QED
    BY <1>2, <2>3, <2>5, <2>6 DEF new
<1> QED
  BY <1>1, <1>2

\* An answer takes its token, and no other.
LEMMA AnsweredShape ==
  ASSUME NEW cl, IsClient(cl), cl.out = <<>>, NEW t
  PROVE  /\ Answered(cl, t).joined = cl.joined /\ Answered(cl, t).out = <<>>
         /\ DOMAIN Answered(cl, t).pending = DOMAIN cl.pending \ {t}
         /\ \A u : IsOut(Answered(cl, t), u) <=> IsOut(cl, u) /\ u # t
         /\ IsClient(Answered(cl, t))
<1> DEFINE new == Answered(cl, t)
<1>2. new = [joined |-> cl.joined, tokens |-> cl.tokens, out |-> <<>>,
             pending |-> [u \in DOMAIN cl.pending \ {t} |-> cl.pending[u]]]
  BY DEF Answered, Without, Restrict, IsClient
<1> HIDE DEF new
<1>3. /\ new = [joined |-> new.joined, pending |-> new.pending, tokens |-> new.tokens,
                out |-> new.out]
      /\ new.joined = cl.joined /\ new.tokens = cl.tokens /\ new.out = <<>>
      /\ DOMAIN new.pending = DOMAIN cl.pending \ {t}
      /\ \A u \in DOMAIN new.pending : new.pending[u] = cl.pending[u]
  BY <1>2
<1>4. IsClient(new)
  BY <1>3 DEF IsClient
<1>5. \A u : IsOut(new, u) <=> IsOut(cl, u) /\ u # t
  BY <1>3 DEF IsOut, Unsent
<1> QED
  BY <1>3, <1>4, <1>5 DEF new

\* An answer is taken by its token, and what it sends, if anything, is a leave.
LEMMA AcceptShape ==
  ASSUME NEW cl, IsClient(cl), cl.out = <<>>, NEW m, m.token \in DOMAIN cl.pending
  PROVE  LET new == HandleJoinAccept(cl, m)
             p == cl.pending[m.token]
             installs == m.join \notin DOMAIN cl.joined /\ p.key \notin Unloadable
         IN  /\ DOMAIN new.pending = DOMAIN cl.pending \ {m.token}
             /\ \A u : IsOut(new, u) <=> IsOut(cl, u) /\ u # m.token
             /\ ~installs => new.joined = cl.joined /\ new.out = <<>>
             /\ installs =>
                  /\ DOMAIN new.joined = (DOMAIN cl.joined \cup {m.join}) \ {p.leave}
                  /\ new.out = IF p.leave \in DOMAIN cl.joined \cup {m.join}
                               THEN <<LeaveNotice(p.leave)>> ELSE <<>>
<1> DEFINE p == cl.pending[m.token]
           answered == Answered(cl, m.token)
           installs == m.join \notin DOMAIN cl.joined /\ p.key \notin Unloadable
           new == HandleJoinAccept(cl, m)
<1>1. /\ answered.joined = cl.joined /\ answered.out = <<>> /\ IsClient(answered)
      /\ DOMAIN answered.pending = DOMAIN cl.pending \ {m.token}
      /\ \A u : IsOut(answered, u) <=> IsOut(cl, u) /\ u # m.token
  BY AnsweredShape
<1>2. CASE ~installs
  <2>1. new = answered
    BY <1>2 DEF HandleJoinAccept, Answered
  <2> HIDE DEF answered, new
  <2> QED
    BY <1>1, <1>2, <2>1 DEF new
<1>3. CASE installs
  <2> DEFINE more == Extend(cl.joined, m.join, p.key)
             installed == [answered EXCEPT !.joined = more]
  <2>1. new = LeaveJoin(installed, p.leave)
    BY <1>1, <1>3 DEF HandleJoinAccept, Answered
  <2>2. DOMAIN more = DOMAIN cl.joined \cup {m.join}
    BY DEF Extend
  <2> HIDE DEF answered, new, more
  <2>3. /\ installed = [joined |-> more, pending |-> answered.pending,
                        tokens |-> answered.tokens, out |-> answered.out]
        /\ installed.joined = more /\ installed.pending = answered.pending
        /\ installed.tokens = answered.tokens /\ installed.out = <<>>
    BY <1>1 DEF IsClient
  <2> HIDE DEF installed
  <2>4. IsClient(installed)
    BY <1>1, <2>3 DEF IsClient
  <2>5. /\ new.pending = answered.pending
        /\ DOMAIN new.joined = (DOMAIN cl.joined \cup {m.join}) \ {p.leave}
        /\ new.out = IF p.leave \in DOMAIN cl.joined \cup {m.join}
                     THEN <<LeaveNotice(p.leave)>> ELSE <<>>
    BY <2>1, <2>2, <2>3, <2>4, LeaveShape
  <2>6. \A u : IsOut(new, u) <=> IsOut(answered, u)
    BY <2>5 DEF IsOut, Unsent
  <2> QED
    BY <1>1, <1>3, <2>5, <2>6 DEF new
<1> QED
  BY <1>2, <1>3

\* What handling a message does to the tokens, and what it sends.
LEMMA HandledShape ==
  ASSUME NEW cl, IsClient(cl), cl.out = <<>>, NEW m, m.type \in {"accept", "deny", "directed"},
         m.type = "accept" => m.token \in DOMAIN cl.pending
  PROVE  /\ \A u : IsOut(Handled(cl, m), u) <=> IsOut(cl, u) /\ ~IsAbout(m, u)
         /\ \/ Handled(cl, m).out = <<>>
            \/ \E j : Handled(cl, m).out = <<LeaveNotice(j)>>
<1>1. CASE m.type = "accept"
  <2>1. Handled(cl, m) = HandleJoinAccept(cl, m) /\ \A u : IsAbout(m, u) <=> u = m.token
    BY <1>1 DEF Handled, IsAbout
  <2> DEFINE new == HandleJoinAccept(cl, m)
             p == cl.pending[m.token]
  <2>2. /\ \A u : IsOut(new, u) <=> IsOut(cl, u) /\ u # m.token
        /\ new.out = <<>> \/ new.out = <<LeaveNotice(p.leave)>>
    BY <1>1, AcceptShape
  <2> HIDE DEF new, p
  <2> QED
    BY <2>1, <2>2 DEF new
<1>2. CASE m.type = "deny"
  <2>1. Handled(cl, m) = Answered(cl, m.token) /\ \A u : IsAbout(m, u) <=> u = m.token
    BY <1>2 DEF Handled, Answered, IsAbout
  <2> QED
    BY <2>1, AnsweredShape
<1>3. CASE m.type = "directed"
  <2>1. Handled(cl, m) = Queued(cl, m.key, m.leave, m.mode) /\ \A u : ~IsAbout(m, u)
    BY <1>3 DEF Handled, IsAbout
  <2> DEFINE new == Queued(cl, m.key, m.leave, m.mode)
  <2>2. new.out = <<>> /\ \A u : OutCount(new, u) = OutCount(cl, u)
    BY QueuedShape
  <2> HIDE DEF new
  <2>3. \A u : IsOut(new, u) <=> IsOut(cl, u)
    BY <2>2 DEF OutCount
  <2> QED
    BY <2>1, <2>2, <2>3 DEF new
<1> QED
  BY <1>1, <1>2, <1>3

\* The connection has taken over what a call sent.
LEMMA CallsTaken ==
  ASSUME TagInv, NEW c \in Accounts, c \in Up, NEW cl, IsClient(cl), ClientCalls(c, cl)
  PROVE  /\ c \in Up' /\ client'[c].joined = cl.joined /\ client'[c].pending = cl.pending
         /\ toServer'[c] = toServer[c] \o cl.out
<1>1. Domains
  BY DEF TagInv
<1>2. client'[c] = [cl EXCEPT !.out = <<>>] /\ c \in Up' /\ toServer'[c] = toServer[c] \o cl.out
  BY <1>1 DEF ClientCalls, Domains, Up
<1>3. [cl EXCEPT !.out = <<>>].pending = cl.pending /\ [cl EXCEPT !.out = <<>>].joined = cl.joined
  BY DEF IsClient
<1> QED
  BY <1>2, <1>3

\* A leave is about no request.
LEMMA LeaveWeighsNothing == \A j, t : Weight(LeaveNotice(j), t) = 0
BY DEF Weight, IsAbout, LeaveNotice

\* What is at the head of the stream to a client.
LEMMA HeadFacts ==
  ASSUME AnswerInv, NEW c \in Accounts, c \in Up, toClient[c] # <<>>
  PROVE  LET m == Head(toClient[c])
         IN  /\ Answers(client[c], conns[c], m)
             /\ \A t : IsAbout(m, t) => IsOut(client[c], t)
<1> DEFINE m == Head(toClient[c])
<1>1. /\ Queue(toServer[c]) /\ Queue(toClient[c])
      /\ Sound(client[c], conns[c], ToSet(toServer[c]), ToSet(toClient[c]))
      /\ Balanced(client[c], toServer[c], toClient[c])
  BY DEF AnswerInv, TagInv, AccountInv, AnswerOf
<1>2. m = toClient[c][1] /\ 1 \in DOMAIN toClient[c] /\ m \in ToSet(toClient[c])
  BY <1>1, QueueHead DEF Queue
<1>3. Answers(client[c], conns[c], m)
  BY <1>1, <1>2 DEF Sound
<1> HIDE DEF m
<1>4. \A t : IsAbout(m, t) => IsOut(client[c], t)
  BY <1>1, <1>2, BalancedOut
<1> QED
  BY <1>3, <1>4 DEF m

\* A client that handles a message takes its token with it.
LEMMA HandleBalanced ==
  ASSUME AnswerInv, NEW c \in Accounts, ClientHandle(c)
  PROVE  AnswerOf(c)'
<1> DEFINE m == Head(toClient[c])
           cl == client[c]
           new == Handled(cl, m)
           rest == Tail(toClient[c])
<1>1. /\ c \in Up /\ toClient[c] # <<>> /\ ClientCalls(c, new)
      /\ toClient' = [toClient EXCEPT ![c] = rest] /\ TagInv
  BY DEF ClientHandle, AnswerInv
<1>2. Fits(cl, conns[c]) /\ IsClient(cl) /\ cl.out = <<>>
  BY <1>1, AtRest DEF Fits
<1>3. Answers(cl, conns[c], m) /\ \A t : IsAbout(m, t) => IsOut(cl, t)
  BY <1>1, HeadFacts
<1>4. IsClient(new)
  BY <1>2, <1>3, HandledFits DEF Fits
<1>5. m.type \in {"accept", "deny", "directed"} /\ (m.type = "accept" => m.token \in DOMAIN cl.pending)
  BY <1>3 DEF Answers, IsAbout, IsOut
<1>6. /\ \A u : IsOut(new, u) <=> IsOut(cl, u) /\ ~IsAbout(m, u)
      /\ new.out = <<>> \/ \E j : new.out = <<LeaveNotice(j)>>
  BY <1>2, <1>5, HandledShape
<1>7. /\ c \in Up' /\ client'[c].pending = new.pending /\ toServer'[c] = toServer[c] \o new.out
      /\ toClient'[c] = rest
  BY <1>1, <1>4, CallsTaken DEF TagInv, Domains
<1>8. /\ Queue(toServer[c]) /\ Queue(toClient[c]) /\ Balanced(cl, toServer[c], toClient[c])
  BY <1>1 DEF AnswerInv, TagInv, AccountInv, AnswerOf
<1>9. rest # toClient[c]
  <2>1. Len(rest) = Len(toClient[c]) - 1 /\ Len(toClient[c]) \in Nat
    BY <1>1, <1>8 DEF Queue
  <2>2. rest = toClient[c] => Len(rest) = Len(toClient[c])
    OBVIOUS
  <2> DEFINE a == Len(rest)
             b == Len(toClient[c])
  <2> HIDE DEF a, b
  <2>3. a # b
    BY <2>1 DEF a, b
  <2> QED
    BY <2>2, <2>3 DEF a, b
<1>10. m = Head(toClient[c])
  OBVIOUS
<1> HIDE DEF new, m, cl, rest
<1>11. \A u : OutCount(client'[c], u) + Taken(toClient[c], rest, u) = OutCount(cl, u)
  <2> SUFFICES ASSUME NEW u
               PROVE  OutCount(client'[c], u) + Taken(toClient[c], rest, u) = OutCount(cl, u)
    OBVIOUS
  <2>1. Taken(toClient[c], rest, u) = IF IsAbout(m, u) THEN 1 ELSE 0
    BY <1>9, <1>10 DEF Taken, Weight
  <2>2. IsOut(client'[c], u) <=> IsOut(new, u)
    BY <1>7 DEF IsOut, Unsent
  <2> QED
    BY <1>3, <1>6, <2>1, <2>2 DEF OutCount
<1>12. PICK j : new.out = <<>> \/ new.out = <<LeaveNotice(j)>>
  BY <1>6
<1>13. \A u : OutCount(client'[c], u) + Taken(toClient[c], rest, u)
                 = OutCount(cl, u) + Weight(LeaveNotice(j), u)
  <2>1. \A u : OutCount(cl, u) + Weight(LeaveNotice(j), u) = OutCount(cl, u)
    BY LeaveWeighsNothing DEF OutCount
  <2> QED
    BY <1>11, <2>1
<1>14. Balanced(client'[c], toServer[c] \o new.out, rest)
  <2>1. rest = Tail(toClient[c])
    BY DEF rest
  <2>2. Moves(cl, toClient[c], client'[c], rest, new.out, LeaveNotice(j))
    BY <1>1, <1>11, <1>12, <1>13, <2>1 DEF Moves
  <2> QED
    BY <1>8, <2>2, BalancedClient
<1> QED
  BY <1>7, <1>14 DEF AnswerOf

\* A call of the game sends a leave, a travel or nothing, and adds at most a token that waits.
LEMMA AskBalanced ==
  ASSUME AnswerInv, NEW c \in Accounts, c \in Up, UNCHANGED toClient, NEW cl, IsClient(cl),
         ClientCalls(c, cl), \A t : OutCount(cl, t) = OutCount(client[c], t),
         NEW e, \A t : Weight(e, t) = 0, cl.out = <<>> \/ cl.out = <<e>>
  PROVE  AnswerOf(c)'
<1>1. TagInv
  BY DEF AnswerInv
<1>2. c \in Up' /\ client'[c].pending = cl.pending /\ toServer'[c] = toServer[c] \o cl.out
  BY <1>1, CallsTaken
<1>3. Queue(toServer[c]) /\ Queue(toClient[c]) /\ Balanced(client[c], toServer[c], toClient[c])
  BY DEF AnswerInv, TagInv, AccountInv, AnswerOf
<1>4. \A t : /\ OutCount(client'[c], t) + Taken(toClient[c], toClient[c], t) = OutCount(client[c], t)
             /\ OutCount(client'[c], t) + Taken(toClient[c], toClient[c], t)
                  = OutCount(client[c], t) + Weight(e, t)
  <2> SUFFICES ASSUME NEW t
               PROVE  /\ OutCount(client'[c], t) + Taken(toClient[c], toClient[c], t)
                           = OutCount(client[c], t)
                      /\ OutCount(client'[c], t) + Taken(toClient[c], toClient[c], t)
                           = OutCount(client[c], t) + Weight(e, t)
    OBVIOUS
  <2>1. OutCount(client'[c], t) = OutCount(cl, t)
    BY <1>2 DEF OutCount, IsOut, Unsent
  <2>2. OutCount(client[c], t) \in Nat /\ Weight(e, t) = 0 /\ Taken(toClient[c], toClient[c], t) = 0
        /\ OutCount(cl, t) = OutCount(client[c], t)
    BY DEF OutCount, Taken
  <2> QED
    BY <2>1, <2>2
<1>5. Balanced(client'[c], toServer[c] \o cl.out, toClient[c])
  <2>1. Moves(client[c], toClient[c], client'[c], toClient[c], cl.out, e)
    BY <1>4 DEF Moves
  <2> QED
    BY <1>3, <2>1, BalancedClient
<1> QED
  BY <1>2, <1>5 DEF AnswerOf

\* Sending a request makes its token one that is out.
LEMMA SendShape ==
  ASSUME TagInv, NEW c \in Accounts, ClientSend(c)
  PROVE  \E cl, t : /\ c \in Up /\ IsClient(cl) /\ ClientCalls(c, cl) /\ UNCHANGED toClient
                    /\ cl.joined = client[c].joined /\ DOMAIN cl.pending = DOMAIN client[c].pending
                    /\ \E e : cl.out = <<e>> /\ \A u : IsAbout(e, u) <=> u = t
                    /\ ~IsOut(client[c], t) /\ \A u : IsOut(cl, u) <=> IsOut(client[c], u) \/ u = t
<1> DEFINE cl == client[c]
           t == Min(Unsent(cl))
           p == cl.pending[t]
           q == [p EXCEPT !.sent = TRUE]
           m == JoinRequest(p.key, t, p.mode)
           new == [cl EXCEPT !.pending[t].sent = TRUE, !.out = <<m>>]
<1>1. c \in Up /\ Unsent(cl) # {} /\ ClientCalls(c, new) /\ UNCHANGED toClient
  BY DEF ClientSend
<1>2. IsClient(cl)
  BY <1>1, AtRest DEF Fits
<1>3. t \in DOMAIN cl.pending /\ t \in Unsent(cl)
  <2>1. Unsent(cl) \subseteq Nat
    BY <1>2 DEF IsClient, Unsent
  <2>2. t \in Unsent(cl)
    BY <1>1, <2>1, OldestToken
  <2> QED
    BY <2>2 DEF Unsent
<1>4. IsPending(p) /\ q = [key |-> p.key, leave |-> p.leave, mode |-> p.mode, sent |-> TRUE]
  <2>1. IsPending(p)
    <3>1. \A u \in DOMAIN cl.pending : IsPending(cl.pending[u])
      BY <1>2 DEF IsClient
    <3> HIDE DEF t, cl
    <3> QED
      BY <1>3, <3>1
  <2> QED
    BY <2>1, SentPending
<1>5. new = [joined |-> cl.joined, pending |-> [cl.pending EXCEPT ![t] = q],
             tokens |-> cl.tokens, out |-> <<m>>]
  <2>1. cl = [joined |-> cl.joined, pending |-> cl.pending, tokens |-> cl.tokens, out |-> cl.out]
    BY <1>2 DEF IsClient
  <2>2. [cl.pending EXCEPT ![t].sent = TRUE] = [cl.pending EXCEPT ![t] = q]
    <3> HIDE DEF t
    <3> QED
      OBVIOUS
  <2> DEFINE more == [cl.pending EXCEPT ![t] = q]
             sends == <<m>>
  <2>3. new = [cl EXCEPT !.pending = more, !.out = sends]
    BY <2>2
  <2> HIDE DEF new, more, sends
  <2>4. new = [joined |-> cl.joined, pending |-> more, tokens |-> cl.tokens, out |-> sends]
    BY <2>1, <2>3
  <2> QED
    BY <2>4 DEF more, sends
<1>6. \A u : IsAbout(m, u) <=> u = t
  <2> HIDE DEF t, p
  <2> QED
    BY DEF IsAbout, JoinRequest
<1> HIDE DEF new, q, t, m
<1>7. /\ new = [joined |-> new.joined, pending |-> new.pending, tokens |-> new.tokens,
                out |-> new.out]
      /\ new.joined = cl.joined /\ new.tokens = cl.tokens /\ new.out = <<m>>
      /\ DOMAIN new.pending = DOMAIN cl.pending /\ new.pending[t] = q
      /\ \A u \in DOMAIN cl.pending \ {t} : new.pending[u] = cl.pending[u]
  BY <1>3, <1>5
<1>8. IsPending(q) /\ q.sent
  BY <1>4 DEF IsPending
<1>9. IsClient(new)
  BY <1>2, <1>3, <1>7, <1>8 DEF IsClient
<1>10. ~IsOut(cl, t) /\ \A u : IsOut(new, u) <=> IsOut(cl, u) \/ u = t
  BY <1>3, <1>7, <1>8 DEF IsOut, Unsent
<1>11. \E e : new.out = <<e>> /\ \A u : IsAbout(e, u) <=> u = t
  BY <1>6, <1>7
<1> QED
  BY <1>1, <1>7, <1>9, <1>10, <1>11

\* A request that is sent is the one message about its token.
LEMMA SendBalanced ==
  ASSUME AnswerInv, NEW c \in Accounts, ClientSend(c)
  PROVE  AnswerOf(c)'
<1>1. TagInv
  BY DEF AnswerInv
<1>2. PICK cl, t : /\ c \in Up /\ IsClient(cl) /\ ClientCalls(c, cl) /\ UNCHANGED toClient
                   /\ \E e : cl.out = <<e>> /\ \A u : IsAbout(e, u) <=> u = t
                   /\ ~IsOut(client[c], t) /\ \A u : IsOut(cl, u) <=> IsOut(client[c], u) \/ u = t
  BY <1>1, SendShape
<1>3. PICK e : cl.out = <<e>> /\ \A u : IsAbout(e, u) <=> u = t
  BY <1>2
<1>4. c \in Up' /\ client'[c].pending = cl.pending /\ toServer'[c] = toServer[c] \o cl.out
  BY <1>1, <1>2, CallsTaken
<1>5. Queue(toServer[c]) /\ Queue(toClient[c]) /\ Balanced(client[c], toServer[c], toClient[c])
  BY <1>2 DEF AnswerInv, TagInv, AccountInv, AnswerOf
<1>6. ASSUME NEW u
      PROVE  OutCount(client'[c], u) + Taken(toClient[c], toClient[c], u)
               = OutCount(client[c], u) + Weight(e, u)
  <2>1. IsOut(client'[c], u) <=> IsOut(cl, u)
    BY <1>4 DEF IsOut, Unsent
  <2> QED
    BY <1>2, <1>3, <2>1 DEF OutCount, Weight, Taken
<1>7. Moves(client[c], toClient[c], client'[c], toClient[c], cl.out, e)
  BY <1>3, <1>6 DEF Moves
<1>8. Balanced(client'[c], toServer[c] \o cl.out, toClient[c])
  BY <1>5, <1>7, BalancedClient
<1> QED
  BY <1>2, <1>4, <1>8 DEF AnswerOf

\* What the user asks for waits as a token, or is no request.
LEMMA AsksBalanced ==
  ASSUME AnswerInv, NEW c \in Accounts,
         \/ \E k \in Keys, mode \in Modes : AskJoin(c, k, mode) \/ AskTravel(c, k, mode)
         \/ c \in Up /\ \E j \in DOMAIN client[c].joined : AskLeave(c, j)
  PROVE  AnswerOf(c)'
<1>1. TagInv
  BY DEF AnswerInv
<1>2. ASSUME c \in Up PROVE IsClient(client[c]) /\ client[c].out = <<>> /\ Fits(client[c], conns[c])
  BY <1>1, <1>2, AtRest DEF Fits
<1>3. ASSUME NEW k \in Keys, NEW mode \in Modes, AskJoin(c, k, mode) PROVE AnswerOf(c)'
  <2> DEFINE new == Queued(client[c], k, Control, mode)
  <2>1. c \in Up /\ UNCHANGED toClient /\ ClientCalls(c, new)
    BY <1>3 DEF AskJoin, Asking
  <2>2. IsClient(new)
    BY <1>2, <2>1, QueuedFits DEF Fits
  <2>3. new.out = <<>> /\ \A t : OutCount(new, t) = OutCount(client[c], t)
    BY <1>2, <2>1, QueuedShape
  <2> HIDE DEF new
  <2> QED
    BY <2>1, <2>2, <2>3, LeaveWeighsNothing, AskBalanced
<1>4. ASSUME NEW k \in Keys, NEW mode \in Modes, AskTravel(c, k, mode) PROVE AnswerOf(c)'
  <2> DEFINE cl == client[c]
             m == TravelRequest(k, mode)
             new == [cl EXCEPT !.out = <<m>>]
  <2>1. c \in Up /\ UNCHANGED toClient /\ ClientCalls(c, new)
    BY <1>4 DEF AskTravel, Asking
  <2>2. IsClient(cl)
    BY <1>2, <2>1
  <2>3. \A t : Weight(m, t) = 0
    BY DEF Weight, IsAbout, TravelRequest
  <2> HIDE DEF m
  <2>4. new = [joined |-> cl.joined, pending |-> cl.pending, tokens |-> cl.tokens,
               out |-> <<m>>]
    BY <2>2 DEF IsClient
  <2> HIDE DEF new
  <2>5. /\ new = [joined |-> new.joined, pending |-> new.pending, tokens |-> new.tokens,
                  out |-> new.out]
        /\ new.joined = cl.joined /\ new.pending = cl.pending /\ new.tokens = cl.tokens
        /\ new.out = <<m>>
    BY <2>4
  <2>6. IsClient(new) /\ \A t : OutCount(new, t) = OutCount(cl, t)
    BY <2>2, <2>5 DEF IsClient, OutCount, IsOut, Unsent
  <2> QED
    BY <2>1, <2>3, <2>5, <2>6, AskBalanced
<1>5. ASSUME c \in Up, NEW j \in DOMAIN client[c].joined, AskLeave(c, j) PROVE AnswerOf(c)'
  <2> DEFINE new == LeaveJoin(client[c], j)
  <2>1. UNCHANGED toClient /\ ClientCalls(c, new)
    BY <1>5 DEF AskLeave, Asking
  <2>2. IsClient(new)
    BY <1>2, <1>5, LeaveJoinFits DEF Fits
  <2>3. new.out = <<LeaveNotice(j)>> /\ new.pending = client[c].pending
    BY <1>2, <1>5, LeaveShape
  <2> HIDE DEF new
  <2>4. \A t : OutCount(new, t) = OutCount(client[c], t)
    BY <2>3 DEF OutCount, IsOut, Unsent
  <2> QED
    BY <1>5, <2>1, <2>2, <2>3, <2>4, LeaveWeighsNothing, AskBalanced
<1> QED
  BY <1>3, <1>4, <1>5

\* What a connection begins with.
LEMMA ConnectFacts ==
  ASSUME TagInv, TagInv', NEW c \in Accounts, Connect(c)
  PROVE  /\ client'[c] = NewClient /\ toServer'[c] = <<>> /\ Queue(toClient'[c])
         /\ \A m \in ToSet(toClient'[c]) : m.type = "directed"
         /\ \E back : conns'[c] = [joins |-> <<>>, next |-> 1, reattach |-> back, been |-> {}]
<1>1. AccountInv(c) /\ Domains
  BY DEF TagInv
<1>2. client'[c] = NewClient /\ toServer'[c] = <<>>
  BY <1>1 DEF Connect, AccountInv, Extend, Up
<1>3. PICK rest : /\ toClient' = [toClient EXCEPT ![c] = Restored(records[c].standing) \o rest]
                  /\ \/ rest = <<>>
                     \/ rest = <<DirectedTravel(Control, records[c].game.key, "gameplay")>>
  BY DEF Connect
<1>4. Queue(rest) /\ \A m \in ToSet(rest) : m.type = "directed"
  BY <1>3, QueueEmpty, QueueOne DEF DirectedTravel
<1>5. Queue(toClient'[c]) /\ \A m \in ToSet(toClient'[c]) : m.type = "directed"
  <2>1. /\ Queue(Restored(records[c].standing))
        /\ \A m \in ToSet(Restored(records[c].standing)) : m.type = "directed"
    BY <1>1, RestoredFacts DEF AccountInv, IsRecord
  <2>2. toClient'[c] = Restored(records[c].standing) \o rest
    BY <1>1, <1>3 DEF Domains
  <2> QED
    BY <1>4, <2>1, <2>2, QueueConcat
<1>6. PICK back : conns'[c] = [NewConnection EXCEPT !.reattach = back]
  BY DEF Connect, Extend, Established
<1>7. conns'[c] = [joins |-> <<>>, next |-> 1, reattach |-> back, been |-> {}]
  BY <1>6 DEF NewConnection
<1> QED
  BY <1>2, <1>5, <1>7

\* A queue with nothing about t.
LEMMA AboutNone ==
  ASSUME NEW q, Queue(q), NEW t, \A m \in ToSet(q) : ~IsAbout(m, t)
  PROVE  Cardinality(About(q, t)) = 0
<1>1. About(q, t) = {}
  BY DEF About, IsAbout, ToSet
<1> QED
  BY <1>1, FS_EmptySet

\* A connection begins with no token out and nothing about any.
LEMMA ConnectBalanced ==
  ASSUME AnswerInv, TagInv', NEW c \in Accounts, Connect(c)
  PROVE  AnswerOf(c)'
<1>1. /\ client'[c] = NewClient /\ toServer'[c] = <<>> /\ Queue(toClient'[c])
      /\ \A m \in ToSet(toClient'[c]) : m.type = "directed"
  BY ConnectFacts DEF AnswerInv
<1>2. \A t : ~IsOut(client'[c], t)
  <2> DEFINE none == <<>>
  <2>1. client'[c].pending = none
    BY <1>1 DEF NewClient
  <2>2. DOMAIN none = {}
    OBVIOUS
  <2> HIDE DEF none
  <2> QED
    BY <2>1, <2>2 DEF IsOut
<1>3. ASSUME NEW t
      PROVE  Cardinality(About(toServer'[c], t)) = 0 /\ Cardinality(About(toClient'[c], t)) = 0
  <2>1. Cardinality(About(toServer'[c], t)) = 0
    BY <1>1, QueueEmpty, AboutType
  <2>2. \A m \in ToSet(toClient'[c]) : ~IsAbout(m, t)
    BY <1>1 DEF IsAbout
  <2> QED
    BY <1>1, <2>1, <2>2, AboutNone
<1>4. Balanced(client'[c], toServer'[c], toClient'[c])
  BY <1>2, <1>3 DEF Balanced
<1> QED
  BY <1>4 DEF AnswerOf

\* An end that is gone has nothing to be answered.
LEMMA GoneBalanced ==
  ASSUME AnswerInv, NEW c \in Accounts,
         Quit(c) \/ Cut(c) \/ ServerGoodbye(c) \/ ServerTimeout(c)
  PROVE  AnswerOf(c)' /\ c \notin Up'
<1>1. CASE Quit(c) \/ Cut(c)
  BY <1>1 DEF Quit, Cut, Without, Restrict, Up, AnswerOf
<1>2. CASE ServerGoodbye(c) \/ ServerTimeout(c)
  <2>1. AccountInv(c)
    BY DEF AnswerInv, TagInv
  <2>2. c \notin Up
    BY <1>2, <2>1 DEF ServerGoodbye, ServerTimeout, AccountInv, Sound, Asks, Goodbye
  <2>3. client' = client
    BY <1>2 DEF ServerGoodbye, ServerTimeout, Disconnected
  <2> QED
    BY <2>2, <2>3 DEF AnswerOf, Up
<1> QED
  BY <1>1, <1>2

\* The balance holds at the start ...
LEMMA InitAnswerInv == Init => AnswerInv
<1> SUFFICES ASSUME Init PROVE AnswerInv
  OBVIOUS
<1>1. Up = {}
  BY DEF Init, Up
<1> QED
  BY <1>1, InitTagInv DEF AnswerInv, AnswerOf

\* ... and every step keeps it.
LEMMA StepAnswerInv == AnswerInv /\ [Next]_vars => AnswerInv'
<1> SUFFICES ASSUME AnswerInv, [Next]_vars PROVE AnswerInv'
  OBVIOUS
<1>1. TagInv /\ TagInv'
  BY StepTagInv DEF AnswerInv
<1>2. ASSUME NEW c \in Accounts, Acts(c) PROVE AnswerInv'
  <2>1. AnswerOf(c)'
    <3>1. CASE User(c)
      BY <1>1, <3>1, ConnectBalanced, AsksBalanced, GoneBalanced DEF User
    <3>2. CASE ClientSend(c) \/ ClientHandle(c)
      BY <3>2, SendBalanced, HandleBalanced
    <3>3. CASE ServerPump(c)
      BY <3>3, ServerBalanced, GoneBalanced DEF ServerPump
    <3> QED
      BY <1>2, <3>1, <3>2, <3>3 DEF Acts
  <2>2. Others(c)
    BY <1>1, <1>2, ActsAlone
  <2>3. ASSUME NEW d \in Accounts, d # c PROVE AnswerOf(d)'
    BY <2>2, <2>3 DEF Others, AnswerInv, AnswerOf
  <2> QED
    BY <1>1, <2>1, <2>3 DEF AnswerInv
<1>3. ASSUME NEW ws \in SUBSET Idle(dir), ServerReap(ws) PROVE AnswerInv'
  BY <1>1, <1>3 DEF ServerReap, AnswerInv, AnswerOf, Up
<1>4. CASE UNCHANGED vars
  BY <1>1, <1>4 DEF vars, AnswerInv, AnswerOf, Up
<1> QED
  BY <1>2, <1>3, <1>4 DEF Next, Acts

\* Every request that is out has one message about it under way, itself or its answer, for any
\* accounts and limits, however joins, denials, travels and directives cross.
THEOREM OneAnswerEach == Spec => []AnsweredOnce
<1>1. AnswerInv => AnsweredOnce
  <2> SUFFICES ASSUME AnswerInv, NEW c \in Up, NEW t \in DOMAIN client[c].pending \ Unsent(client[c])
               PROVE  Cardinality(About(toServer[c], t)) + Cardinality(About(toClient[c], t)) = 1
    BY DEF AnsweredOnce, About
  <2>1. c \in Accounts
    BY DEF AnswerInv, TagInv, Domains
  <2>2. Balanced(client[c], toServer[c], toClient[c])
    BY <2>1 DEF AnswerInv, AnswerOf
  <2> QED
    BY <2>2 DEF Balanced, IsOut
<1> QED
  BY InitAnswerInv, StepAnswerInv, <1>1, PTL DEF Spec

-----------------------------------------------------------------------------
(* No seat is left behind.                                                  *)

\* What stays in a queue.
LEMMA QueueKeeps ==
  ASSUME NEW q, Queue(q), NEW x \in ToSet(q)
  PROVE  /\ x # Head(q) => x \in ToSet(Tail(q))
         /\ \A e : x \in ToSet(Append(q, e))
         /\ \A r : Queue(r) => x \in ToSet(q \o r)
<1>1. PICK i \in DOMAIN q : q[i] = x
  BY DEF ToSet
<1>2. Len(q) \in Nat /\ DOMAIN q = 1 .. Len(q) /\ q # <<>>
  BY <1>1 DEF Queue
<1>3. ASSUME x # Head(q) PROVE x \in ToSet(Tail(q))
  <2>1. /\ Head(q) = q[1] /\ Len(Tail(q)) = Len(q) - 1 /\ DOMAIN Tail(q) = 1 .. Len(Tail(q))
        /\ \A k \in 1 .. Len(Tail(q)) : Tail(q)[k] = q[k + 1]
    BY <1>2 DEF Queue
  <2>2. i - 1 \in 1 .. Len(Tail(q)) /\ (i - 1) + 1 = i
    BY <1>1, <1>2, <1>3, <2>1
  <2>3. Tail(q)[i - 1] = x
    BY <1>1, <2>1, <2>2
  <2> QED
    BY <2>1, <2>2, <2>3 DEF ToSet
<1>4. ASSUME NEW e PROVE x \in ToSet(Append(q, e))
  <2> DEFINE S == ToSet(q) \cup {e}
  <2>1. q \in Seq(S) /\ e \in S
    BY SeqMonotonic DEF Queue
  <2> HIDE DEF S
  <2>2. i \in DOMAIN Append(q, e) /\ Append(q, e)[i] = x
    BY <1>1, <1>2, <2>1
  <2> QED
    BY <2>2 DEF ToSet
<1>5. ASSUME NEW r, Queue(r) PROVE x \in ToSet(q \o r)
  <2> DEFINE S == ToSet(q) \cup ToSet(r)
  <2>1. q \in Seq(S) /\ r \in Seq(S)
    BY <1>5, SeqMonotonic DEF Queue
  <2> HIDE DEF S
  <2>2. i \in DOMAIN (q \o r) /\ (q \o r)[i] = x
    BY <1>1, <1>2, <2>1, ConcatProperties
  <2> QED
    BY <2>2 DEF ToSet
<1> QED
  BY <1>3, <1>4, <1>5

\* What is sent is in the stream.
LEMMA QueueAdds ==
  ASSUME NEW q, Queue(q), NEW e
  PROVE  e \in ToSet(Append(q, e)) /\ e \in ToSet(q \o <<e>>)
<1> DEFINE S == ToSet(q) \cup {e}
<1>1. q \in Seq(S) /\ e \in S
  BY SeqMonotonic DEF Queue
<1> HIDE DEF S
<1>2. Len(q) + 1 \in DOMAIN Append(q, e) /\ Append(q, e)[Len(q) + 1] = e
  BY <1>1
<1>3. e \in ToSet(Append(q, e))
  BY <1>2 DEF ToSet
<1> QED
  BY <1>3, JoinOne

\* Where the seat of join j may be, for the client that has it or is to have it.
Placed(cl, key, up, down, j) ==
  \/ key \in Unloadable
  \/ j \in DOMAIN cl.joined
  \/ \E t \in DOMAIN cl.pending : JoinAccept(t, j) \in ToSet(down)
  \/ LeaveNotice(j) \in ToSet(up)

SeatOf(c) ==
  c \in Up => \A j \in DOMAIN conns[c].joins :
                Placed(client[c], conns[c].joins[j].key, toServer[c], toClient[c], j)

SeatInv == AnswerInv /\ \A c \in Accounts : SeatOf(c)

\* What the invariant says of the two streams.
LEMMA Streams ==
  ASSUME SeatInv, NEW c \in Accounts
  PROVE  /\ TagInv /\ AnswerInv /\ Queue(toServer[c]) /\ Queue(toClient[c])
         /\ c \in Up => c \in Established
         /\ c \in Established => IsConnection(conns[c])
BY DEF SeatInv, AnswerInv, TagInv, AccountInv

\* The server takes a message that is no leave of a join it still has.
LEMMA PlacedServer ==
  ASSUME NEW cl, NEW key, NEW up, Queue(up), NEW down, Queue(down), NEW j,
         Placed(cl, key, up, down, j), LeaveNotice(j) # Head(up),
         NEW new, new = down \/ \E e : new = Append(down, e)
  PROVE  Placed(cl, key, Tail(up), new, j)
<1>1. \A x \in ToSet(down) : x \in ToSet(new)
  BY QueueKeeps
<1>2. LeaveNotice(j) \in ToSet(up) => LeaveNotice(j) \in ToSet(Tail(up))
  BY QueueKeeps
<1> QED
  BY <1>1, <1>2 DEF Placed

\* An answer without a new join leaves every seat where it is.
LEMMA ReplyPlaced ==
  ASSUME SeatInv, NEW c \in Accounts, ServerRejoin(c) \/ ServerDeny(c) \/ ServerTravel(c)
  PROVE  SeatOf(c)'
<1>1. /\ TagInv /\ Queue(toServer[c]) /\ Queue(toClient[c])
      /\ toServer'[c] = Tail(toServer[c]) /\ client' = client
      /\ toClient'[c] = toClient[c] \/ \E e : toClient'[c] = Append(toClient[c], e)
  BY Streams, ServerTakes
<1>2. conns' = conns /\ Head(toServer[c]).type # "leave"
  BY DEF ServerRejoin, ServerDeny, ServerTravel, Arrived, serverVars
<1>3. ASSUME NEW j PROVE LeaveNotice(j) # Head(toServer[c])
  <2>1. LeaveNotice(j).type = "leave"
    BY DEF LeaveNotice
  <2> QED
    BY <1>2, <2>1
<1>4. ASSUME c \in Up, NEW j \in DOMAIN conns[c].joins
      PROVE  Placed(client[c], conns[c].joins[j].key, toServer'[c], toClient'[c], j)
  <2>1. Placed(client[c], conns[c].joins[j].key, toServer[c], toClient[c], j)
    BY <1>4 DEF SeatInv, SeatOf
  <2>2. Placed(client[c], conns[c].joins[j].key, Tail(toServer[c]), toClient'[c], j)
    BY <1>1, <1>3, <2>1, PlacedServer
  <2> QED
    BY <1>1, <2>2
<1> QED
  BY <1>1, <1>2, <1>4 DEF SeatOf, Up

\* What a grant does to the connection.
LEMMA GrantFacts ==
  ASSUME TagInv, NEW c \in Accounts, ServerGrant(c)
  PROVE  LET m == Head(toServer[c])
             r == Resolution(c, m.key)
             old == conns[c]
             new == conns'[c]
         IN  /\ c \in Established /\ m.type = "join" /\ JoinsOf(old, m.key) = {} /\ r.granted
             /\ new = WithJoin(old, r.world, m.key, m.mode)
             /\ toClient'[c] = Append(toClient[c], JoinAccept(m.token, old.next))
             /\ old.next \notin DOMAIN old.joins
             /\ DOMAIN new.joins = DOMAIN old.joins \cup {old.next}
             /\ new.joins[old.next] = [world |-> r.world, key |-> m.key, mode |-> m.mode]
             /\ \A j \in DOMAIN old.joins : new.joins[j] = old.joins[j]
<1> DEFINE m == Head(toServer[c])
           r == Resolution(c, m.key)
           old == conns[c]
           new == WithJoin(old, r.world, m.key, m.mode)
<1>1. AccountInv(c) /\ Domains
  BY DEF TagInv
<1>2. c \in Established /\ m.type = "join" /\ JoinsOf(old, m.key) = {} /\ r.granted
  BY DEF ServerGrant, Arrived
<1>3. conns'[c] = new
  BY <1>2 DEF ServerGrant, Established
<1>4. toClient'[c] = Append(toClient[c], JoinAccept(m.token, old.next))
  BY <1>1 DEF ServerGrant, Send, Domains
<1>5. old.next \notin DOMAIN old.joins
  BY <1>1, <1>2 DEF AccountInv, IsConnection
<1>6. /\ DOMAIN new.joins = DOMAIN old.joins \cup {old.next}
      /\ new.joins[old.next] = [world |-> r.world, key |-> m.key, mode |-> m.mode]
      /\ \A j \in DOMAIN old.joins : new.joins[j] = old.joins[j]
  <2> HIDE DEF m, r, old
  <2> QED
    BY <1>5 DEF WithJoin, Extend
<1> HIDE DEF new, old, r, m
<1> QED
  BY <1>2, <1>3, <1>4, <1>5, <1>6 DEF new, old, r, m

\* A new seat is on its way to the client, in the answer to a token that is out.
LEMMA GrantPlaced ==
  ASSUME SeatInv, NEW c \in Accounts, ServerGrant(c)
  PROVE  SeatOf(c)'
<1> DEFINE m == Head(toServer[c])
           old == conns[c]
           new == conns'[c]
           e == JoinAccept(m.token, old.next)
<1>1. /\ TagInv /\ AnswerInv /\ Queue(toServer[c]) /\ Queue(toClient[c])
      /\ toServer'[c] = Tail(toServer[c]) /\ client' = client /\ toServer[c] # <<>>
  BY Streams, ServerTakes
<1>2. /\ m.type = "join" /\ toClient'[c] = Append(toClient[c], e)
      /\ DOMAIN new.joins = DOMAIN old.joins \cup {old.next}
      /\ \A j \in DOMAIN old.joins : new.joins[j] = old.joins[j]
  BY <1>1, GrantFacts
<1>3. ASSUME NEW j PROVE LeaveNotice(j) # m
  <2>1. LeaveNotice(j).type = "leave"
    BY DEF LeaveNotice
  <2> QED
    BY <1>2, <2>1
<1>4. ASSUME c \in Up PROVE m.token \in DOMAIN client[c].pending
  <2>1. Balanced(client[c], toServer[c], toClient[c])
    BY <1>1, <1>4 DEF AnswerInv, AnswerOf
  <2>2. 1 \in DOMAIN toServer[c] /\ m = toServer[c][1]
    BY <1>1 DEF Queue
  <2>3. IsAbout(m, m.token)
    BY <1>2 DEF IsAbout
  <2> HIDE DEF m
  <2>4. IsOut(client[c], m.token)
    BY <1>1, <2>1, <2>2, <2>3, BalancedOut
  <2> QED
    BY <2>4 DEF IsOut
<1>5. e \in ToSet(toClient'[c])
  BY <1>1, <1>2, QueueAdds
<1>6. ASSUME c \in Up, NEW j \in DOMAIN new.joins
      PROVE  Placed(client[c], new.joins[j].key, toServer'[c], toClient'[c], j)
  <2>1. CASE j = old.next
    BY <1>4, <1>5, <1>6, <2>1 DEF Placed
  <2>2. CASE j # old.next
    <3>1. j \in DOMAIN old.joins /\ new.joins[j] = old.joins[j]
      BY <1>2, <1>6, <2>2
    <3>2. Placed(client[c], old.joins[j].key, toServer[c], toClient[c], j)
      BY <1>6, <3>1 DEF SeatInv, SeatOf
    <3>3. Placed(client[c], old.joins[j].key, Tail(toServer[c]), toClient'[c], j)
      BY <1>1, <1>2, <1>3, <3>2, PlacedServer
    <3> QED
      BY <1>1, <3>1, <3>3
  <2> QED
    BY <2>1, <2>2
<1> QED
  BY <1>1, <1>6 DEF SeatOf, Up

\* The seat of a leave is gone, and the others are where they were.
LEMMA LeavePlaced ==
  ASSUME SeatInv, NEW c \in Accounts, ServerLeave(c)
  PROVE  SeatOf(c)'
<1> DEFINE i == Head(toServer[c]).join
<1>1. /\ TagInv /\ Queue(toServer[c]) /\ Queue(toClient[c]) /\ c \in Established
      /\ toServer'[c] = Tail(toServer[c]) /\ client' = client /\ IsConnection(conns[c])
  BY Streams, ServerTakes
<1>2. toClient'[c] = toClient[c]
  BY DEF ServerLeave
<1>3. ASSUME NEW j \in DOMAIN conns'[c].joins
      PROVE  j \in DOMAIN conns[c].joins /\ conns'[c].joins[j] = conns[c].joins[j] /\ j # i
  <2>1. CASE i \notin DOMAIN conns[c].joins
    BY <1>3, <2>1 DEF ServerLeave
  <2>2. CASE i \in DOMAIN conns[c].joins
    <3>1. conns'[c] = WithoutJoin(conns[c], i)
      BY <1>1, <2>2 DEF ServerLeave, Established
    <3>2. WithoutJoin(conns[c], i).joins = [k \in DOMAIN conns[c].joins \ {i} |-> conns[c].joins[k]]
      BY <1>1 DEF WithoutJoin, Without, Restrict, IsConnection
    <3> QED
      BY <1>3, <3>1, <3>2
  <2> QED
    BY <2>1, <2>2
<1>4. ASSUME NEW j, j # i PROVE LeaveNotice(j) # Head(toServer[c])
  <2>1. LeaveNotice(j).join = j
    BY DEF LeaveNotice
  <2> QED
    BY <1>4, <2>1
<1>5. ASSUME c \in Up, NEW j \in DOMAIN conns'[c].joins
      PROVE  Placed(client[c], conns'[c].joins[j].key, toServer'[c], toClient'[c], j)
  <2>1. Placed(client[c], conns[c].joins[j].key, toServer[c], toClient[c], j)
    BY <1>3, <1>5 DEF SeatInv, SeatOf
  <2>2. Placed(client[c], conns[c].joins[j].key, Tail(toServer[c]), toClient'[c], j)
    BY <1>1, <1>2, <1>3, <1>4, <1>5, <2>1, PlacedServer
  <2> QED
    BY <1>1, <1>3, <1>5, <2>2
<1> QED
  BY <1>1, <1>5 DEF SeatOf, Up

\* A request has one answer at most.
LEMMA OnlyAnswer ==
  ASSUME NEW cl, NEW up, Queue(up), NEW down, Queue(down), down # <<>>, Balanced(cl, up, down),
         NEW t, IsAbout(Head(down), t), NEW x \in ToSet(Tail(down))
  PROVE  ~IsAbout(x, t)
<1> DEFINE ups == Cardinality(About(up, t))
           downs == Cardinality(About(down, t))
           rests == Cardinality(About(Tail(down), t))
<1>1. Queue(Tail(down))
  BY QueueHead
<1>2. ups \in Nat /\ rests \in Nat /\ (IsAbout(x, t) => rests > 0)
  BY <1>1, AboutType DEF ToSet
<1>3. downs = rests + Weight(Head(down), t)
  BY AboutTail
<1>4. Weight(Head(down), t) = 1
  BY DEF Weight
<1>5. ups + downs = 1 \/ ups + downs = 0
  BY DEF Balanced
<1> HIDE DEF ups, downs, rests
<1> QED
  BY <1>2, <1>3, <1>4, <1>5

\* A call of the game: the joins it drops are left with a notice.
LEMMA AskPlaced ==
  ASSUME SeatInv, NEW c \in Accounts, c \in Up, UNCHANGED <<toClient, conns>>, NEW cl, IsClient(cl),
         Queue(cl.out), ClientCalls(c, cl), DOMAIN client[c].pending \subseteq DOMAIN cl.pending,
         \A j \in DOMAIN client[c].joined :
           j \in DOMAIN cl.joined \/ cl.out = <<LeaveNotice(j)>>
  PROVE  SeatOf(c)'
<1>1. TagInv /\ Queue(toServer[c]) /\ Queue(toClient[c])
  BY Streams
<1>2. /\ c \in Up' /\ client'[c].joined = cl.joined /\ client'[c].pending = cl.pending
      /\ toServer'[c] = toServer[c] \o cl.out
  BY <1>1, CallsTaken
<1>3. ASSUME NEW j \in DOMAIN conns[c].joins
      PROVE  Placed(client'[c], conns[c].joins[j].key, toServer'[c], toClient[c], j)
  <2>1. Placed(client[c], conns[c].joins[j].key, toServer[c], toClient[c], j)
    BY <1>3 DEF SeatInv, SeatOf
  <2>2. LeaveNotice(j) \in ToSet(toServer[c]) => LeaveNotice(j) \in ToSet(toServer'[c])
    BY <1>1, <1>2, QueueKeeps
  <2>3. cl.out = <<LeaveNotice(j)>> => LeaveNotice(j) \in ToSet(toServer'[c])
    BY <1>1, <1>2, QueueAdds
  <2> QED
    BY <1>2, <2>1, <2>2, <2>3 DEF Placed
<1> QED
  BY <1>2, <1>3 DEF SeatOf

\* What the user asks for: a leave sends its notice, and nothing else drops a join.
LEMMA AsksPlaced ==
  ASSUME SeatInv, NEW c \in Accounts,
         \/ \E k \in Keys, mode \in Modes : AskJoin(c, k, mode) \/ AskTravel(c, k, mode)
         \/ c \in Up /\ \E j \in DOMAIN client[c].joined : AskLeave(c, j)
  PROVE  SeatOf(c)'
<1>1. TagInv
  BY Streams
<1>2. ASSUME c \in Up PROVE IsClient(client[c]) /\ client[c].out = <<>> /\ Fits(client[c], conns[c])
  BY <1>1, <1>2, AtRest DEF Fits
<1>3. ASSUME NEW k \in Keys, NEW mode \in Modes, AskJoin(c, k, mode) PROVE SeatOf(c)'
  <2> DEFINE new == Queued(client[c], k, Control, mode)
  <2>1. c \in Up /\ UNCHANGED <<toClient, conns>> /\ ClientCalls(c, new)
    BY <1>3 DEF AskJoin, Asking, serverVars
  <2>2. IsClient(new) /\ Queue(new.out)
    BY <1>2, <2>1, QueuedFits DEF Fits
  <2>3. new.joined = client[c].joined /\ DOMAIN client[c].pending \subseteq DOMAIN new.pending
    BY <1>2, <2>1, QueuedShape
  <2> HIDE DEF new
  <2> QED
    BY <2>1, <2>2, <2>3, AskPlaced
<1>4. ASSUME NEW k \in Keys, NEW mode \in Modes, AskTravel(c, k, mode) PROVE SeatOf(c)'
  <2> DEFINE cl == client[c]
             m == TravelRequest(k, mode)
             new == [cl EXCEPT !.out = <<m>>]
  <2>1. c \in Up /\ UNCHANGED <<toClient, conns>> /\ ClientCalls(c, new)
    BY <1>4 DEF AskTravel, Asking, serverVars
  <2>2. IsClient(cl)
    BY <1>2, <2>1
  <2> HIDE DEF m
  <2>4. new = [joined |-> cl.joined, pending |-> cl.pending, tokens |-> cl.tokens,
               out |-> <<m>>]
    BY <2>2 DEF IsClient
  <2> HIDE DEF new
  <2>5. /\ new = [joined |-> new.joined, pending |-> new.pending, tokens |-> new.tokens,
                  out |-> new.out]
        /\ new.joined = cl.joined /\ new.pending = cl.pending /\ new.tokens = cl.tokens
        /\ new.out = <<m>>
    BY <2>4
  <2>6. IsClient(new) /\ Queue(new.out)
    BY <2>2, <2>5, QueueOne DEF IsClient
  <2> QED
    BY <2>1, <2>5, <2>6, AskPlaced
<1>5. ASSUME c \in Up, NEW j \in DOMAIN client[c].joined, AskLeave(c, j) PROVE SeatOf(c)'
  <2> DEFINE new == LeaveJoin(client[c], j)
  <2>1. UNCHANGED <<toClient, conns>> /\ ClientCalls(c, new)
    BY <1>5 DEF AskLeave, Asking, serverVars
  <2>2. IsClient(new) /\ Queue(new.out)
    BY <1>2, <1>5, LeaveJoinFits DEF Fits
  <2>3. /\ new.out = <<LeaveNotice(j)>> /\ new.pending = client[c].pending
        /\ DOMAIN new.joined = DOMAIN client[c].joined \ {j}
    BY <1>2, <1>5, LeaveShape
  <2> HIDE DEF new
  <2> QED
    BY <1>5, <2>1, <2>2, <2>3, AskPlaced
<1> QED
  BY <1>3, <1>4, <1>5

\* Sending a request drops no join.
LEMMA SendPlaced ==
  ASSUME SeatInv, NEW c \in Accounts, ClientSend(c)
  PROVE  SeatOf(c)'
<1>1. TagInv
  BY Streams
<1>2. PICK cl : /\ c \in Up /\ IsClient(cl) /\ ClientCalls(c, cl) /\ UNCHANGED toClient
                /\ cl.joined = client[c].joined /\ DOMAIN cl.pending = DOMAIN client[c].pending
                /\ \E e : cl.out = <<e>>
  BY <1>1, SendShape
<1>3. Queue(cl.out)
  BY <1>2, QueueOne
<1>4. UNCHANGED conns
  BY DEF ClientSend, serverVars
<1> QED
  BY <1>2, <1>3, <1>4, AskPlaced

\* Handling a message: what it was about has its seat, and what it replaces is left.
LEMMA HandledPlaced ==
  ASSUME NEW cl, IsClient(cl), cl.out = <<>>, NEW conn, NEW up, Queue(up), NEW down, Queue(down),
         down # <<>>, Balanced(cl, up, down), Answers(cl, conn, Head(down)),
         \A t : IsAbout(Head(down), t) => IsOut(cl, t),
         NEW j \in DOMAIN conn.joins, Placed(cl, conn.joins[j].key, up, down, j)
  PROVE  Placed(Handled(cl, Head(down)), conn.joins[j].key,
                up \o Handled(cl, Head(down)).out, Tail(down), j)
<1> DEFINE m == Head(down)
           key == conn.joins[j].key
           new == Handled(cl, m)
           more == up \o new.out
<1>1. CASE m.type = "accept"
  <2> DEFINE p == cl.pending[m.token]
             installs == m.join \notin DOMAIN cl.joined /\ p.key \notin Unloadable
  <2>1. m.token \in DOMAIN cl.pending /\ IsAbout(m, m.token)
    BY <1>1 DEF IsAbout, IsOut
  <2>2. new = HandleJoinAccept(cl, m)
    BY <1>1 DEF Handled
  <2>3. /\ DOMAIN new.pending = DOMAIN cl.pending \ {m.token}
        /\ ~installs => new.joined = cl.joined /\ new.out = <<>>
        /\ installs =>
             /\ DOMAIN new.joined = (DOMAIN cl.joined \cup {m.join}) \ {p.leave}
             /\ new.out = IF p.leave \in DOMAIN cl.joined \cup {m.join}
                          THEN <<LeaveNotice(p.leave)>> ELSE <<>>
    BY <2>1, <2>2, AcceptShape
  <2>4. Queue(new.out)
    BY <2>3, QueueEmpty, QueueOne
  <2>5. LeaveNotice(j) \in ToSet(up) => LeaveNotice(j) \in ToSet(more)
    BY <2>4, QueueKeeps
  <2>6. new.out = <<LeaveNotice(j)>> => LeaveNotice(j) \in ToSet(more)
    BY QueueAdds
  <2>7. \A t : JoinAccept(t, j) \in ToSet(down) /\ JoinAccept(t, j) # m
                 => JoinAccept(t, j) \in ToSet(Tail(down))
    BY QueueKeeps
  <2>8. JoinAccept(m.token, j) \notin ToSet(Tail(down))
    <3>1. IsAbout(JoinAccept(m.token, j), m.token)
      BY DEF IsAbout, JoinAccept
    <3> QED
      BY <2>1, <3>1, OnlyAnswer
  <2>9. \A t : JoinAccept(t, j).token = t /\ JoinAccept(t, j).join = j
    BY DEF JoinAccept
  <2>10. m.join = j => key = p.key
    BY <1>1, <2>1 DEF Answers
  <2> HIDE DEF new, m, p, key, more
  <2>11. ASSUME j \in DOMAIN cl.joined PROVE Placed(new, key, more, Tail(down), j)
    BY <2>3, <2>6, <2>11 DEF Placed
  <2>12. ASSUME NEW t \in DOMAIN cl.pending, JoinAccept(t, j) \in ToSet(down)
         PROVE  Placed(new, key, more, Tail(down), j)
    <3>1. CASE JoinAccept(t, j) = m
      <4>1. m.join = j /\ key = p.key
        BY <2>9, <2>10, <3>1
      <4>2. CASE installs
        BY <2>3, <2>6, <4>1, <4>2 DEF Placed
      <4>3. CASE ~installs
        BY <2>3, <2>11, <4>1, <4>3 DEF Placed
      <4> QED
        BY <4>2, <4>3
    <3>2. CASE JoinAccept(t, j) # m
      <4>1. JoinAccept(t, j) \in ToSet(Tail(down))
        BY <2>7, <2>12, <3>2
      <4>2. t \in DOMAIN new.pending
        BY <2>3, <2>8, <2>12, <4>1
      <4> QED
        BY <4>1, <4>2 DEF Placed
    <3> QED
      BY <3>1, <3>2
  <2>13. Placed(cl, key, up, down, j)
    BY DEF key
  <2>14. Placed(new, key, more, Tail(down), j)
    BY <2>5, <2>11, <2>12, <2>13 DEF Placed
  <2> QED
    BY <2>14 DEF key, new, more, m
<1>2. CASE m.type # "accept"
  <2>1. /\ new.joined = cl.joined /\ new.out = <<>>
        /\ \A t \in DOMAIN cl.pending : t \in DOMAIN new.pending \/ IsAbout(m, t)
    <3>1. CASE m.type = "deny"
      <4>1. new = Answered(cl, m.token) /\ IsAbout(m, m.token)
        BY <3>1 DEF Handled, Answered, IsAbout
      <4> QED
        BY <4>1, AnsweredShape
    <3>2. CASE m.type = "directed"
      <4>1. new = Queued(cl, m.key, m.leave, m.mode)
        BY <3>2 DEF Handled
      <4> QED
        BY <4>1, QueuedShape
    <3> QED
      BY <1>2, <3>1, <3>2 DEF Answers
  <2>2. more = up
    BY <2>1, JoinOne
  <2>3. ASSUME NEW t \in DOMAIN cl.pending, JoinAccept(t, j) \in ToSet(down)
        PROVE  t \in DOMAIN new.pending /\ JoinAccept(t, j) \in ToSet(Tail(down))
    <3>1. JoinAccept(t, j).type = "accept" /\ IsAbout(JoinAccept(t, j), t)
      BY DEF JoinAccept, IsAbout
    <3>2. JoinAccept(t, j) \in ToSet(Tail(down))
      BY <1>2, <2>3, <3>1, QueueKeeps
    <3>3. ~IsAbout(m, t)
      BY <3>1, <3>2, OnlyAnswer
    <3> QED
      BY <2>1, <2>3, <3>2, <3>3
  <2> HIDE DEF new, more, m
  <2>4. Placed(new, key, more, Tail(down), j)
    BY <2>1, <2>2, <2>3 DEF Placed
  <2> QED
    BY <2>4 DEF more, new, m
<1> QED
  BY <1>1, <1>2

\* The client handles a message: no seat is lost.
LEMMA HandlePlaced ==
  ASSUME SeatInv, NEW c \in Accounts, ClientHandle(c)
  PROVE  SeatOf(c)'
<1> DEFINE m == Head(toClient[c])
           cl == client[c]
           new == Handled(cl, m)
           rest == Tail(toClient[c])
<1>1. /\ c \in Up /\ toClient[c] # <<>> /\ ClientCalls(c, new)
      /\ toClient' = [toClient EXCEPT ![c] = rest] /\ TagInv /\ AnswerInv /\ UNCHANGED conns
  BY DEF ClientHandle, AnswerInv, SeatInv, serverVars
<1>2. Fits(cl, conns[c]) /\ IsClient(cl) /\ cl.out = <<>>
  BY <1>1, AtRest DEF Fits
<1>3. Answers(cl, conns[c], m) /\ \A t : IsAbout(m, t) => IsOut(cl, t)
  BY <1>1, HeadFacts
<1>4. IsClient(new)
  BY <1>2, <1>3, HandledFits DEF Fits
<1>5. /\ c \in Up' /\ client'[c].pending = new.pending /\ client'[c].joined = new.joined
      /\ toServer'[c] = toServer[c] \o new.out /\ toClient'[c] = rest
  BY <1>1, <1>4, CallsTaken DEF TagInv, Domains
<1>6. Queue(toServer[c]) /\ Queue(toClient[c]) /\ Balanced(cl, toServer[c], toClient[c])
  BY <1>1 DEF AnswerInv, TagInv, AccountInv, AnswerOf
<1>7. ASSUME NEW j \in DOMAIN conns[c].joins
      PROVE  Placed(client'[c], conns[c].joins[j].key, toServer'[c], toClient'[c], j)
  <2>1. Placed(cl, conns[c].joins[j].key, toServer[c], toClient[c], j)
    BY <1>1, <1>7 DEF SeatInv, SeatOf
  <2>2. Placed(new, conns[c].joins[j].key, toServer[c] \o new.out, rest, j)
    <3> HIDE DEF cl
    <3> QED
      BY <1>1, <1>2, <1>3, <1>6, <1>7, <2>1, HandledPlaced
  <2> HIDE DEF new, rest
  <2> QED
    BY <1>5, <2>2 DEF Placed
<1> QED
  BY <1>1, <1>5, <1>7 DEF SeatOf

\* No seat is left behind at the start ...
LEMMA InitSeatInv == Init => SeatInv
<1> SUFFICES ASSUME Init PROVE SeatInv
  OBVIOUS
<1>1. Up = {}
  BY DEF Init, Up
<1> QED
  BY <1>1, InitAnswerInv DEF SeatInv, SeatOf

\* ... nor by any step.
LEMMA StepSeatInv == SeatInv /\ [Next]_vars => SeatInv'
<1> SUFFICES ASSUME SeatInv, [Next]_vars PROVE SeatInv'
  OBVIOUS
<1>1. TagInv /\ TagInv' /\ AnswerInv /\ AnswerInv'
  BY StepTagInv, StepAnswerInv DEF SeatInv, AnswerInv
<1>2. ASSUME NEW c \in Accounts, Acts(c) PROVE SeatInv'
  <2>1. SeatOf(c)'
    <3>1. CASE Connect(c)
      <4>1. \E back : conns'[c] = [joins |-> <<>>, next |-> 1, reattach |-> back, been |-> {}]
        BY <1>1, <3>1, ConnectFacts
      <4> DEFINE none == <<>>
      <4>2. conns'[c].joins = none
        BY <4>1
      <4>3. DOMAIN none = {}
        OBVIOUS
      <4> HIDE DEF none
      <4> QED
        BY <4>2, <4>3 DEF SeatOf
    <3>2. CASE User(c) /\ ~Connect(c)
      <4>1. CASE Quit(c) \/ Cut(c)
        BY <1>1, <4>1, GoneBalanced DEF SeatOf
      <4> QED
        BY <3>2, <4>1, AsksPlaced DEF User
    <3>3. CASE ClientSend(c) \/ ClientHandle(c)
      BY <3>3, SendPlaced, HandlePlaced
    <3>4. CASE ServerPump(c)
      <4>1. CASE ServerGoodbye(c) \/ ServerTimeout(c)
        BY <1>1, <4>1, GoneBalanced DEF SeatOf
      <4> QED
        BY <3>4, <4>1, ReplyPlaced, GrantPlaced, LeavePlaced DEF ServerPump
    <3> QED
      BY <1>2, <3>1, <3>2, <3>3, <3>4 DEF Acts
  <2>2. Others(c)
    BY <1>1, <1>2, ActsAlone
  <2>3. ASSUME NEW d \in Accounts, d # c PROVE SeatOf(d)'
    <3>1. /\ toServer'[d] = toServer[d] /\ toClient'[d] = toClient[d]
          /\ (d \in Up' <=> d \in Up) /\ (d \in Up => client'[d] = client[d])
          /\ (d \in Established => conns'[d] = conns[d])
      BY <2>2, <2>3 DEF Others
    <3>2. SeatOf(d) /\ (d \in Up => d \in Established)
      BY Streams DEF SeatInv
    <3> QED
      BY <3>1, <3>2 DEF SeatOf
  <2> QED
    BY <1>1, <2>1, <2>3 DEF SeatInv
<1>3. ASSUME NEW ws \in SUBSET Idle(dir), ServerReap(ws) PROVE SeatInv'
  BY <1>1, <1>3 DEF ServerReap, SeatInv, SeatOf, Up
<1>4. CASE UNCHANGED vars
  BY <1>1, <1>4 DEF vars, SeatInv, SeatOf, Up
<1> QED
  BY <1>2, <1>3, <1>4 DEF Next, Acts

\* Every join that the server holds for a connected client is on its way, installed or being left,
\* for any accounts and limits, unless the client cannot load its world.
THEOREM NoSeatLeftBehind == Spec => []NoOrphanSeat
<1>1. SeatInv => NoOrphanSeat
  <2> SUFFICES ASSUME SeatInv, NEW c \in Up, NEW j \in DOMAIN conns[c].joins
               PROVE  Placed(client[c], conns[c].joins[j].key, toServer[c], toClient[c], j)
    BY DEF NoOrphanSeat, Placed
  <2>1. c \in Accounts
    BY DEF SeatInv, AnswerInv, TagInv, Domains
  <2> QED
    BY <2>1 DEF SeatInv, SeatOf
<1> QED
  BY InitSeatInv, StepSeatInv, <1>1, PTL DEF Spec

-----------------------------------------------------------------------------
(* The pose of a reattach.                                                  *)

IsGame(game) == /\ game = [key |-> game.key, pose |-> game.pose]
                /\ game.key = NoKey => game.pose = NoKey

\* A connection that has not been in the gameplay world of its record still holds what the record
\* held when it began.
Remembers(rec, conn) ==
  /\ \A j \in DOMAIN conn.joins : conn.joins[j].key # NoKey
  /\ rec.game.key # NoKey /\ rec.game.key \notin conn.been => conn.reattach = rec.game

PoseOf(c) == IsGame(records[c].game) /\ (c \in Established => Remembers(records[c], conns[c]))

PoseInv == TagInv /\ \A c \in Accounts : PoseOf(c)

Keeps(c) ==
  (/\ records[c].game.pose # NoKey
   /\ records'[c].game.key = records[c].game.key
   /\ c \in Established => records[c].game.key \notin conns[c].been)
    => records'[c].game.pose # NoKey

\* A world that is granted has a key.
LEMMA GrantedKey ==
  ASSUME NEW d, NEW k, NEW held, NEW fresh, Resolve(d, k, held, fresh).granted
  PROVE  k \in Allowed /\ k \in Keys /\ k # NoKey
<1>1. k \in Allowed
  BY DEF Resolve
<1> QED
  BY <1>1, DirectoryAssumption

\* The standing list is beside the gameplay entry.
LEMMA StandingBeside ==
  ASSUME NEW rec, IsRecord(rec), NEW k
  PROVE  RecordStandingJoin(rec, k).game = rec.game /\ RemoveStandingJoin(rec, k).game = rec.game
<1>1. ASSUME NEW list PROVE [rec EXCEPT !.standing = list].game = rec.game
  BY DEF IsRecord
<1> QED
  BY <1>1 DEF RecordStandingJoin, RemoveStandingJoin

\* The gameplay entry of a record after a grant.
LEMMA GameplayRecorded ==
  ASSUME NEW rec, IsRecord(rec), NEW k, NEW pose
  PROVE  RecordGameplay(rec, k, pose).game = [key |-> k, pose |-> pose]
BY DEF RecordGameplay, IsRecord

\* The grant that a reattach asked for gives the pose back.
LEMMA GrantPose ==
  ASSUME PoseInv, NEW c \in Accounts, ServerGrant(c)
  PROVE  PoseOf(c)' /\ Keeps(c)
<1> DEFINE m == Head(toServer[c])
           r == Resolution(c, m.key)
           old == conns[c]
           new == conns'[c]
           rec == records[c]
           k == m.key
<1>1. TagInv /\ PoseOf(c) /\ IsRecord(rec) /\ Domains
  BY DEF PoseInv, TagInv, AccountInv
<1>2. /\ c \in Established /\ r.granted
      /\ new = WithJoin(old, r.world, k, m.mode)
      /\ DOMAIN new.joins = DOMAIN old.joins \cup {old.next}
      /\ new.joins[old.next] = [world |-> r.world, key |-> k, mode |-> m.mode]
      /\ \A j \in DOMAIN old.joins : new.joins[j] = old.joins[j]
  BY <1>1, GrantFacts
<1>3. k # NoKey
  BY <1>2, GrantedKey DEF Resolution
<1>4. records'[c] = Recorded(rec, old, k, m.mode)
  BY <1>1 DEF ServerGrant, Domains
<1>5. new.been = old.been \cup {k} /\ new.reattach = IF m.mode = "gameplay" THEN NoGame ELSE old.reattach
  <2> HIDE DEF r, m, old
  <2> QED
    BY <1>2 DEF WithJoin
<1>6. Remembers(rec, old) /\ IsGame(rec.game)
  BY <1>1, <1>2 DEF PoseOf
<1>7. \A j \in DOMAIN new.joins : new.joins[j].key # NoKey
  <2> HIDE DEF r, m, old, new
  <2> QED
    BY <1>2, <1>3, <1>6 DEF Remembers
<1>8. CASE m.mode = "gameplay"
  <2> DEFINE pose == IF old.reattach.key = k THEN old.reattach.pose ELSE NoKey
  <2>1. records'[c] = RecordGameplay(rec, k, pose)
    BY <1>4, <1>8 DEF Recorded
  <2>2. records'[c].game = [key |-> k, pose |-> pose]
    BY <1>1, <2>1, GameplayRecorded
  <2> HIDE DEF r, m, old, new, rec, k
  <2>3. records'[c].game.key = k /\ records'[c].game.pose = pose
    BY <2>2
  <2>4. IsGame(records'[c].game)
    BY <1>3, <2>2 DEF IsGame
  <2>5. Remembers(records'[c], new)
    BY <1>5, <1>7, <2>3 DEF Remembers
  <2>6. (c \in Established)'
    BY <1>2 DEF ServerGrant, Established
  <2>7. rec.game.pose # NoKey /\ rec.game.key = k /\ k \notin old.been => pose # NoKey
    BY <1>6 DEF Remembers, IsGame
  <2> QED
    BY <1>2, <2>3, <2>4, <2>5, <2>7 DEF PoseOf, Keeps, new, old, rec
<1>9. CASE m.mode # "gameplay"
  <2>1. records'[c] = rec \/ records'[c] = RecordStandingJoin(rec, k)
    BY <1>4, <1>9 DEF Recorded
  <2>2. records'[c].game = rec.game
    BY <1>1, <2>1, StandingBeside
  <2> HIDE DEF r, m, old, new, rec, k
  <2>3. Remembers(records'[c], new)
    BY <1>5, <1>6, <1>7, <1>9, <2>2 DEF Remembers
  <2> QED
    BY <1>6, <2>2, <2>3 DEF PoseOf, Keeps, new, rec
<1> QED
  BY <1>8, <1>9

\* A connection that keeps what it remembers, beside a record that keeps its gameplay entry.
LEMMA SamePose ==
  ASSUME PoseInv, NEW c \in Accounts, records'[c].game = records[c].game,
         c \in Established' =>
           /\ c \in Established
           /\ conns'[c].been = conns[c].been /\ conns'[c].reattach = conns[c].reattach
           /\ DOMAIN conns'[c].joins \subseteq DOMAIN conns[c].joins
           /\ \A j \in DOMAIN conns'[c].joins : conns'[c].joins[j] = conns[c].joins[j]
  PROVE  PoseOf(c)' /\ Keeps(c)
<1>1. PoseOf(c)
  BY DEF PoseInv
<1>2. PoseOf(c)'
  BY <1>1 DEF PoseOf, Remembers
<1> QED
  BY <1>2 DEF Keeps

\* A leave touches the standing list only.
LEMMA LeavePose ==
  ASSUME PoseInv, NEW c \in Accounts, ServerLeave(c)
  PROVE  PoseOf(c)' /\ Keeps(c)
<1> DEFINE j == Head(toServer[c]).join
           join == conns[c].joins[j]
<1>1. TagInv /\ IsRecord(records[c]) /\ Domains /\ c \in Established /\ IsConnection(conns[c])
  BY DEF PoseInv, TagInv, AccountInv, ServerLeave, Arrived
<1>2. CASE j \notin DOMAIN conns[c].joins
  BY <1>1, <1>2, SamePose DEF ServerLeave
<1>3. CASE j \in DOMAIN conns[c].joins
  <2>1. records'[c] = records[c] \/ records'[c] = RemoveStandingJoin(records[c], join.key)
    <3>1. records' = IF join.mode = "standing"
                     THEN [records EXCEPT ![c] = RemoveStandingJoin(@, join.key)] ELSE records
      BY <1>3 DEF ServerLeave
    <3> QED
      BY <1>1, <3>1 DEF Domains
  <2>2. records'[c].game = records[c].game
    BY <1>1, <2>1, StandingBeside
  <2>3. conns'[c] = WithoutJoin(conns[c], j)
    BY <1>1, <1>3 DEF ServerLeave, Established
  <2>4. WithoutJoin(conns[c], j)
          = [joins |-> [i \in DOMAIN conns[c].joins \ {j} |-> conns[c].joins[i]],
             next |-> conns[c].next, reattach |-> conns[c].reattach, been |-> conns[c].been]
    BY <1>1 DEF WithoutJoin, Without, Restrict, IsConnection
  <2> HIDE DEF j, join
  <2>5. /\ conns'[c].been = conns[c].been /\ conns'[c].reattach = conns[c].reattach
        /\ conns'[c].joins = [i \in DOMAIN conns[c].joins \ {j} |-> conns[c].joins[i]]
    BY <2>3, <2>4
  <2>6. /\ DOMAIN conns'[c].joins \subseteq DOMAIN conns[c].joins
        /\ \A i \in DOMAIN conns'[c].joins : conns'[c].joins[i] = conns[c].joins[i]
    BY <2>5
  <2> QED
    BY <1>1, <2>2, <2>5, <2>6, SamePose
<1> QED
  BY <1>2, <1>3

\* A disconnect captures a pose in a world that has a key, or none.
LEMMA DisconnectPose ==
  ASSUME PoseInv, NEW c \in Accounts, c \in Established, Disconnected(c)
  PROVE  PoseOf(c)' /\ Keeps(c)
<1>1. IsRecord(records[c]) /\ Domains /\ PoseOf(c)
  BY DEF PoseInv, TagInv, AccountInv
<1>2. PICK last \in {Control} \cup GameplayJoins(conns[c]) :
        records'[c] = Captured(records[c], conns[c], last)
  BY <1>1 DEF Disconnected, Domains
<1>3. (c \notin Established)'
  BY DEF Disconnected, Without, Restrict, Established
<1>4. CASE last = Control \/ records[c].game.key = NoKey
  <2>1. records'[c] = records[c]
    BY <1>2, <1>4 DEF Captured, CaptureGameplayPose
  <2> QED
    BY <1>3, <2>1, SamePose
<1>5. CASE last # Control /\ records[c].game.key # NoKey
  <2> DEFINE k == conns[c].joins[last].key
             rec == records[c]
  <2>1. records'[c] = [rec EXCEPT !.game.pose = k]
    BY <1>2, <1>5 DEF Captured, CaptureGameplayPose
  <2>2. k # NoKey
    BY <1>1, <1>2, <1>5 DEF PoseOf, Remembers, GameplayJoins
  <2>3. rec = [standing |-> rec.standing, game |-> rec.game]
        /\ rec.game = [key |-> rec.game.key, pose |-> rec.game.pose]
    BY <1>1 DEF IsRecord, PoseOf, IsGame
  <2>4. rec.game.key # NoKey
    BY <1>5
  <2>5. records'[c].game = [rec.game EXCEPT !.pose = k]
    <3> HIDE DEF k, rec
    <3> QED
      BY <2>1, <2>3
  <2>6. records'[c].game = [key |-> rec.game.key, pose |-> k]
    <3> DEFINE game == rec.game
    <3>1. game = [key |-> game.key, pose |-> game.pose] /\ records'[c].game = [game EXCEPT !.pose = k]
      BY <2>3, <2>5
    <3> HIDE DEF game, k, rec
    <3>2. records'[c].game = [key |-> game.key, pose |-> k]
      BY <3>1
    <3> QED
      BY <3>2 DEF game
  <2> HIDE DEF k, rec
  <2>7. IsGame(records'[c].game) /\ records'[c].game.pose # NoKey
    BY <2>2, <2>4, <2>6 DEF IsGame
  <2> QED
    BY <1>3, <2>7 DEF PoseOf, Keeps
<1> QED
  BY <1>4, <1>5

\* A reattach reads the record, or forgets the gameplay world that cannot be had.
LEMMA ConnectPose ==
  ASSUME PoseInv, TagInv', NEW c \in Accounts, Connect(c)
  PROVE  PoseOf(c)' /\ Keeps(c)
<1> DEFINE rec == records[c]
           back == rec.game.key # NoKey /\ Resolve(dir, rec.game.key, 0, minted + 1).granted
           game == IF back THEN rec.game ELSE NoGame
           none == <<>>
<1>1. TagInv /\ Domains /\ IsRecord(rec) /\ IsGame(rec.game) /\ c \notin Established
  BY DEF PoseInv, TagInv, AccountInv, PoseOf, Connect
<1>2. conns'[c] = [joins |-> none, next |-> 1, reattach |-> game, been |-> {}]
  <2>1. conns' = Extend(conns, c, [NewConnection EXCEPT !.reattach = game])
    BY DEF Connect
  <2>2. conns'[c] = [NewConnection EXCEPT !.reattach = game]
    BY <1>1, <2>1 DEF Extend, Established
  <2> HIDE DEF game, none
  <2> QED
    BY <2>2 DEF NewConnection, none
<1>3. records'[c] = IF back THEN rec ELSE ClearGameplay(rec)
  BY <1>1 DEF Connect, Domains
<1>4. ClearGameplay(rec).game = NoGame
  BY <1>1 DEF ClearGameplay, IsRecord
<1>5. records'[c].game = game
  BY <1>3, <1>4
<1>6. DOMAIN none = {}
  OBVIOUS
<1>7. NoGame.key = NoKey /\ IsGame(NoGame)
  BY DEF NoGame, IsGame
<1>8. IsGame(game) /\ (game = rec.game \/ game.key = NoKey)
  BY <1>1, <1>7
<1>9. rec.game.pose # NoKey => rec.game.key # NoKey
  BY <1>1 DEF IsGame
<1>10. records'[c].game.key = rec.game.key /\ rec.game.key # NoKey => records'[c].game = rec.game
  BY <1>5, <1>8
<1>11. Keeps(c)
  BY <1>9, <1>10 DEF Keeps
<1> HIDE DEF none, game, rec
<1>12. conns'[c].joins = none /\ conns'[c].reattach = game
  BY <1>2
<1>13. PoseOf(c)'
  BY <1>5, <1>6, <1>8, <1>12 DEF PoseOf, Remembers
<1> QED
  BY <1>11, <1>13

\* Every step keeps what is remembered and the pose.
LEMMA StepPose ==
  ASSUME PoseInv, [Next]_vars
  PROVE  PoseInv' /\ \A c \in Accounts : Keeps(c)
<1>1. TagInv /\ TagInv'
  BY StepTagInv DEF PoseInv
<1>2. ASSUME NEW c \in Accounts, records'[c] = records[c], conns' = conns
      PROVE  PoseOf(c)' /\ Keeps(c)
  BY <1>2, SamePose DEF Established
<1>3. ASSUME NEW c \in Accounts, Acts(c) PROVE PoseInv' /\ \A d \in Accounts : Keeps(d)
  <2>1. PoseOf(c)' /\ Keeps(c)
    <3>1. CASE Connect(c)
      BY <1>1, <3>1, ConnectPose
    <3>2. CASE User(c) /\ ~Connect(c)
      <4>1. UNCHANGED <<records, conns>>
        BY <3>2 DEF User, AskJoin, AskTravel, AskLeave, Quit, Cut, serverVars
      <4> QED
        BY <1>2, <4>1
    <3>3. CASE ClientSend(c) \/ ClientHandle(c)
      <4>1. UNCHANGED <<records, conns>>
        BY <3>3 DEF ClientSend, ClientHandle, serverVars
      <4> QED
        BY <1>2, <4>1
    <3>4. CASE ServerRejoin(c) \/ ServerDeny(c) \/ ServerTravel(c)
      <4>1. UNCHANGED <<records, conns>>
        BY <3>4 DEF ServerRejoin, ServerDeny, ServerTravel, serverVars
      <4> QED
        BY <1>2, <4>1
    <3>5. CASE ServerGrant(c) \/ ServerLeave(c)
      BY <3>5, GrantPose, LeavePose
    <3>6. CASE ServerGoodbye(c) \/ ServerTimeout(c)
      BY <3>6, DisconnectPose DEF ServerGoodbye, ServerTimeout
    <3> QED
      BY <1>3, <3>1, <3>2, <3>3, <3>4, <3>5, <3>6 DEF Acts, ServerPump
  <2>2. Others(c)
    BY <1>1, <1>3, ActsAlone
  <2>3. ASSUME NEW d \in Accounts, d # c PROVE PoseOf(d)' /\ Keeps(d)
    <3>1. /\ records'[d] = records[d] /\ (d \in Established' <=> d \in Established)
          /\ (d \in Established => conns'[d] = conns[d])
      BY <2>2, <2>3 DEF Others
    <3> QED
      BY <3>1, SamePose
  <2> QED
    BY <1>1, <2>1, <2>3 DEF PoseInv
<1>4. CASE (\E ws \in SUBSET Idle(dir) : ServerReap(ws)) \/ UNCHANGED vars
  <2>1. UNCHANGED <<records, conns>>
    BY <1>4 DEF ServerReap, vars
  <2>2. \A c \in Accounts : PoseOf(c)' /\ Keeps(c)
    BY <1>2, <2>1
  <2> QED
    BY <1>1, <2>2 DEF PoseInv
<1> QED
  BY <1>3, <1>4 DEF Next, Acts

\* There is no pose at the start.
LEMMA InitPoseInv == Init => PoseInv
<1> SUFFICES ASSUME Init PROVE PoseInv
  OBVIOUS
<1>1. Established = {}
  BY DEF Init, Established
<1>2. ASSUME NEW c \in Accounts PROVE IsGame(records[c].game)
  <2>1. records[c].game = NoGame
    BY DEF Init
  <2> QED
    BY <2>1 DEF NoGame, IsGame
<1> QED
  BY <1>1, <1>2, InitTagInv DEF PoseInv, PoseOf

\* A reattach gives back the captured pose, for any accounts, worlds and limits, whatever joins
\* come first and however often the connection is lost on the way.
THEOREM ReattachKeepsPose == Spec => PoseKept
<1> DEFINE Kept == \A c \in Accounts : Keeps(c)
<1>1. PoseInv /\ [Next]_vars => [Kept]_vars
  BY StepPose
<1>2. PoseInv /\ [Next]_vars => PoseInv'
  BY StepPose
<1>3. Spec => []PoseInv
  BY InitPoseInv, <1>2, PTL DEF Spec
<1>4. Spec => [][Kept]_vars
  BY <1>1, <1>3, PTL DEF Spec
<1> QED
  BY <1>4 DEF PoseKept, Keeps

-----------------------------------------------------------------------------
(* The directory counts who is there.                                       *)

\* The accounts with a join in world w, of the connections cs.
Seated(cs, w) == {c \in DOMAIN cs : \E j \in DOMAIN cs[c].joins : cs[c].joins[j].world = w}

\* A bucket counts the accounts that are seated in it.
BucketFits(b, seated) ==
  /\ IsFiniteSet(seated) /\ b.presence = Cardinality(seated)
  /\ \A c \in Accounts : b.members[c] = IF c \in seated THEN 1 ELSE 0

\* Every join is in a live world of its key, and a connection has one of a key.
Settled(d, conn) ==
  /\ \A j \in DOMAIN conn.joins : conn.joins[j].world \in Live(d)
                                  /\ d[conn.joins[j].world].key = conn.joins[j].key
  /\ \A i, j \in DOMAIN conn.joins : conn.joins[i].key = conn.joins[j].key => i = j

Counted(d, cs, n) ==
  /\ n \in Nat /\ Live(d) \subseteq 0 .. n
  /\ \A w \in Live(d) : BucketFits(d[w], Seated(cs, w))
  /\ \A c \in DOMAIN cs : Settled(d, cs[c])

CountInv == TagInv /\ IsFiniteSet(Established) /\ Counted(dir, conns, minted)

\* A new bucket counts nobody ...
LEMMA FreshFits ==
  ASSUME NEW k, NEW reapable, NEW dwell PROVE BucketFits(FreshBucket(k, reapable, dwell), {})
BY FS_EmptySet DEF BucketFits, FreshBucket

\* ... a bucket that is joined counts one account more ...
LEMMA JoinedFits ==
  ASSUME NEW b, NEW S, BucketFits(b, S), NEW c \in Accounts, c \notin S
  PROVE  BucketFits(Joined(b, c), S \cup {c}) /\ Joined(b, c).key = b.key
<1>1. IsFiniteSet(S \cup {c}) /\ Cardinality(S \cup {c}) = Cardinality(S) + 1
  BY FS_AddElement DEF BucketFits
<1>2. Joined(b, c).presence = Cardinality(S \cup {c})
  BY <1>1 DEF BucketFits, Joined
<1>3. ASSUME NEW a \in Accounts PROVE Joined(b, c).members[a] = IF a \in S \cup {c} THEN 1 ELSE 0
  <2>1. Joined(b, c).members[a] = b.members[a] + IF a = c THEN 1 ELSE 0
    BY DEF Joined
  <2>2. b.members[a] = IF a \in S THEN 1 ELSE 0
    BY DEF BucketFits
  <2> QED
    BY <2>1, <2>2
<1>4. Joined(b, c).key = b.key
  BY DEF Joined
<1> QED
  BY <1>1, <1>2, <1>3, <1>4 DEF BucketFits

\* ... and one that is left counts one less.
LEMMA PartedFits ==
  ASSUME NEW b, NEW S, BucketFits(b, S), NEW c \in Accounts, c \in S, NEW now
  PROVE  BucketFits(Parted(b, now, c), S \ {c}) /\ Parted(b, now, c).key = b.key
<1>1. IsFiniteSet(S \ {c}) /\ Cardinality(S \ {c}) = Cardinality(S) - 1
  BY FS_RemoveElement DEF BucketFits
<1>2. Cardinality(S) \in Nat /\ Cardinality(S \ {c}) \in Nat
  BY <1>1, FS_CardinalityType DEF BucketFits
<1>3. b.presence = Cardinality(S)
  BY DEF BucketFits
<1>4. Parted(b, now, c).presence = LessOne(b.presence)
  BY DEF Parted
<1>5. Parted(b, now, c).presence = Cardinality(S \ {c})
  BY <1>1, <1>2, <1>3, <1>4 DEF LessOne
<1>6. ASSUME NEW a \in Accounts PROVE Parted(b, now, c).members[a] = IF a \in S \ {c} THEN 1 ELSE 0
  <2>1. Parted(b, now, c).members[a] = IF a = c THEN LessOne(b.members[a]) ELSE b.members[a]
    BY DEF Parted
  <2>2. b.members[a] = IF a \in S THEN 1 ELSE 0
    BY DEF BucketFits
  <2> QED
    BY <2>1, <2>2 DEF LessOne
<1>7. Parted(b, now, c).key = b.key
  BY DEF Parted
<1> QED
  BY <1>1, <1>5, <1>6, <1>7 DEF BucketFits

\* Resolving a key opens at most a new, empty world of it.
LEMMA Resolved ==
  ASSUME NEW d, NEW cs, NEW n, Counted(d, cs, n), NEW k, NEW held, Resolve(d, k, held, n + 1).granted
  PROVE  LET r == Resolve(d, k, held, n + 1)
         IN  /\ Counted(r.dir, cs, IF r.opened THEN n + 1 ELSE n)
             /\ r.world \in Live(r.dir) /\ r.dir[r.world].key = k
<1> DEFINE r == Resolve(d, k, held, n + 1)
           fresh == FreshBucket(k, TRUE, DwellOf[k])
<1>1. CASE Placeable(d, k) # {}
  <2>1. /\ r.granted => r.world = Min(Placeable(d, k)) /\ r.dir = d /\ ~r.opened
    BY <1>1 DEF Resolve
  <2>2. Placeable(d, k) \subseteq Nat
    BY DEF Counted, Placeable
  <2>3. Min(Placeable(d, k)) \in Placeable(d, k)
    BY <1>1, <2>2, OldestToken
  <2> HIDE DEF r
  <2> QED
    BY <2>1, <2>3 DEF Placeable, r
<1>2. CASE Placeable(d, k) = {}
  <2>1. r.opened /\ r.world = n + 1 /\ r.dir = Extend(d, n + 1, fresh)
    BY <1>2 DEF Resolve
  <2>2. n \in Nat /\ n + 1 \notin Live(d) /\ Live(d) \subseteq 0 .. n + 1
    BY DEF Counted
  <2>3. fresh.key = k
    BY DEF FreshBucket
  <2> DEFINE e == Extend(d, n + 1, fresh)
  <2>4. /\ Live(e) = Live(d) \cup {n + 1} /\ e[n + 1] = fresh
        /\ \A w \in Live(d) : e[w] = d[w]
    <3> HIDE DEF fresh
    <3> QED
      BY <2>2 DEF Extend, Live
  <2>5. Seated(cs, n + 1) = {}
    BY <2>2 DEF Counted, Settled, Seated
  <2>6. BucketFits(fresh, {})
    BY FreshFits
  <2> HIDE DEF e, fresh
  <2>7. \A w \in Live(e) : BucketFits(e[w], Seated(cs, w))
    BY <2>4, <2>5, <2>6 DEF Counted
  <2>8. \A c \in DOMAIN cs : Settled(e, cs[c])
    BY <2>4 DEF Counted, Settled
  <2>9. Counted(e, cs, n + 1)
    BY <2>2, <2>4, <2>7, <2>8 DEF Counted
  <2> QED
    BY <2>1, <2>3, <2>4, <2>9 DEF e
<1> QED
  BY <1>1, <1>2

\* A join that is added to a live world of a new key.
LEMMA SeatAdded ==
  ASSUME NEW d, NEW cs, NEW n, Counted(d, cs, n), NEW c \in Accounts, c \in DOMAIN cs,
         NEW w \in Live(d), JoinsOf(cs[c], d[w].key) = {}, NEW new, NEW i,
         i \notin DOMAIN cs[c].joins, DOMAIN new.joins = DOMAIN cs[c].joins \cup {i},
         new.joins[i].world = w, new.joins[i].key = d[w].key,
         \A j \in DOMAIN cs[c].joins : new.joins[j] = cs[c].joins[j]
  PROVE  Counted(Acquire(d, w, c), [cs EXCEPT ![c] = new], n)
<1> DEFINE e == [d EXCEPT ![w] = Joined(d[w], c)]
           more == [cs EXCEPT ![c] = new]
<1>1. Acquire(d, w, c) = e
  BY DEF Acquire
<1>2. c \notin Seated(cs, w)
  BY DEF Counted, Settled, Seated, JoinsOf
<1>3. DOMAIN more = DOMAIN cs /\ more[c] = new /\ \A a \in DOMAIN cs \ {c} : more[a] = cs[a]
  OBVIOUS
<1>4. /\ Live(e) = Live(d) /\ e[w] = Joined(d[w], c)
      /\ \A v \in Live(d) \ {w} : e[v] = d[v]
  BY DEF Live
<1> HIDE DEF e, more
<1>5. Seated(more, w) = Seated(cs, w) \cup {c}
  BY <1>3 DEF Seated
<1>6. ASSUME NEW v, v # w PROVE Seated(more, v) = Seated(cs, v)
  <2>1. ASSUME NEW a \in DOMAIN cs PROVE a \in Seated(more, v) <=> a \in Seated(cs, v)
    <3>1. CASE a = c
      BY <1>3, <1>6, <3>1 DEF Seated
    <3>2. CASE a # c
      BY <1>3, <2>1, <3>2 DEF Seated
    <3> QED
      BY <3>1, <3>2
  <2> QED
    BY <1>3, <2>1 DEF Seated
<1>7. BucketFits(Joined(d[w], c), Seated(cs, w) \cup {c}) /\ Joined(d[w], c).key = d[w].key
  BY <1>2, JoinedFits DEF Counted
<1>8. \A v \in Live(e) : BucketFits(e[v], Seated(more, v)) /\ e[v].key = d[v].key
  BY <1>4, <1>5, <1>6, <1>7 DEF Counted
<1>9. Settled(e, new)
  <2>1. Settled(d, cs[c])
    BY DEF Counted
  <2> QED
    BY <1>4, <1>8, <2>1 DEF Settled, JoinsOf
<1>10. \A a \in DOMAIN more : Settled(e, more[a])
  <2>1. ASSUME NEW a \in DOMAIN cs, a # c PROVE Settled(e, cs[a])
    BY <1>4, <1>8, <2>1 DEF Counted, Settled
  <2> QED
    BY <1>3, <1>9, <2>1
<1> QED
  BY <1>1, <1>4, <1>8, <1>10 DEF Counted, more

\* A join that is taken from its world.
LEMMA SeatTaken ==
  ASSUME NEW d, NEW cs, NEW n, Counted(d, cs, n), NEW c \in Accounts, c \in DOMAIN cs,
         NEW i \in DOMAIN cs[c].joins, NEW new, DOMAIN new.joins = DOMAIN cs[c].joins \ {i},
         \A j \in DOMAIN new.joins : new.joins[j] = cs[c].joins[j]
  PROVE  Counted(Release(d, cs[c].joins[i].world, 0, c), [cs EXCEPT ![c] = new], n)
<1> DEFINE w == cs[c].joins[i].world
           e == [d EXCEPT ![w] = Parted(d[w], 0, c)]
           more == [cs EXCEPT ![c] = new]
<1>1. w \in Live(d) /\ Settled(d, cs[c])
  BY DEF Counted, Settled
<1>2. Release(d, w, 0, c) = e
  BY <1>1 DEF Release
<1>3. c \in Seated(cs, w)
  BY DEF Seated
<1>4. \A j \in DOMAIN new.joins : cs[c].joins[j].world # w
  BY <1>1 DEF Settled
<1>5. w = cs[c].joins[i].world
  OBVIOUS
<1>6. DOMAIN more = DOMAIN cs /\ more[c] = new /\ \A a \in DOMAIN cs \ {c} : more[a] = cs[a]
  OBVIOUS
<1> HIDE DEF w
<1>7. /\ Live(e) = Live(d) /\ e[w] = Parted(d[w], 0, c)
      /\ \A v \in Live(d) \ {w} : e[v] = d[v]
  BY <1>1 DEF Live
<1> HIDE DEF e, more
<1>8. Seated(more, w) = Seated(cs, w) \ {c}
  <2>1. c \notin Seated(more, w)
    BY <1>4, <1>6 DEF Seated
  <2>2. ASSUME NEW a \in DOMAIN cs, a # c PROVE a \in Seated(more, w) <=> a \in Seated(cs, w)
    BY <1>6, <2>2 DEF Seated
  <2> QED
    BY <1>6, <2>1, <2>2 DEF Seated
<1>9. ASSUME NEW v, v # w PROVE Seated(more, v) = Seated(cs, v)
  <2>1. ASSUME NEW a \in DOMAIN cs PROVE a \in Seated(more, v) <=> a \in Seated(cs, v)
    <3>1. CASE a = c
      BY <1>5, <1>6, <1>9, <3>1 DEF Seated
    <3>2. CASE a # c
      BY <1>6, <2>1, <3>2 DEF Seated
    <3> QED
      BY <3>1, <3>2
  <2> QED
    BY <1>6, <2>1 DEF Seated
<1>10. BucketFits(Parted(d[w], 0, c), Seated(cs, w) \ {c}) /\ Parted(d[w], 0, c).key = d[w].key
  BY <1>1, <1>3, PartedFits DEF Counted
<1>11. \A v \in Live(e) : BucketFits(e[v], Seated(more, v)) /\ e[v].key = d[v].key
  BY <1>7, <1>8, <1>9, <1>10 DEF Counted
<1>12. Settled(e, new)
  BY <1>1, <1>7, <1>11 DEF Settled
<1>13. \A a \in DOMAIN more : Settled(e, more[a])
  <2>1. ASSUME NEW a \in DOMAIN cs, a # c PROVE Settled(e, cs[a])
    BY <1>7, <1>11, <2>1 DEF Counted, Settled
  <2> QED
    BY <1>6, <1>12, <2>1
<1>14. Counted(e, more, n)
  BY <1>7, <1>11, <1>13 DEF Counted
<1> QED
  BY <1>2, <1>14 DEF w, more

\* A connection whose seats are all given up.
LEMMA SeatsVacated ==
  ASSUME NEW d, NEW cs, NEW n, Counted(d, cs, n), NEW c \in Accounts, c \in DOMAIN cs
  PROVE  Counted(Vacate(d, c, cs[c].joins, DOMAIN cs[c].joins), Without(cs, c), n)
<1> DEFINE e == Vacate(d, c, cs[c].joins, DOMAIN cs[c].joins)
           less == Without(cs, c)
<1>1. DOMAIN less = DOMAIN cs \ {c} /\ \A a \in DOMAIN less : less[a] = cs[a]
  BY DEF Without, Restrict
<1>2. Live(e) = Live(d)
  BY DEF Vacate, Live
<1>3. ASSUME NEW w \in Live(d)
      PROVE  e[w] = IF c \in Seated(cs, w) THEN Parted(d[w], 0, c) ELSE d[w]
  <2>1. e[w] = IF \E j \in DOMAIN cs[c].joins : cs[c].joins[j].world = w
               THEN Release(d, w, 0, c)[w] ELSE d[w]
    BY DEF Vacate
  <2>2. Release(d, w, 0, c)[w] = Parted(d[w], 0, c)
    BY DEF Release, Live
  <2> QED
    BY <2>1, <2>2 DEF Seated
<1> HIDE DEF e, less
<1>4. \A w : Seated(less, w) = Seated(cs, w) \ {c}
  BY <1>1 DEF Seated
<1>5. ASSUME NEW w \in Live(d) PROVE BucketFits(e[w], Seated(less, w)) /\ e[w].key = d[w].key
  <2>1. BucketFits(d[w], Seated(cs, w))
    BY DEF Counted
  <2>2. CASE c \in Seated(cs, w)
    BY <1>3, <1>4, <2>1, <2>2, PartedFits
  <2>3. CASE c \notin Seated(cs, w)
    <3>1. Seated(less, w) = Seated(cs, w)
      BY <1>4, <2>3
    <3> QED
      BY <1>3, <2>1, <2>3, <3>1
  <2> QED
    BY <2>2, <2>3
<1>6. \A a \in DOMAIN less : Settled(e, less[a])
  BY <1>1, <1>2, <1>5 DEF Counted, Settled
<1>7. Counted(e, less, n)
  BY <1>2, <1>5, <1>6 DEF Counted
<1> QED
  BY <1>7 DEF e, less

\* Nobody is in a world that is reaped.
LEMMA IdleDropped ==
  ASSUME NEW d, NEW cs, NEW n, Counted(d, cs, n), NEW ws, ws \subseteq Idle(d)
  PROVE  Counted(Drop(d, ws), cs, n)
<1> DEFINE e == Drop(d, ws)
<1>1. Live(e) = Live(d) \ ws /\ \A w \in Live(e) : e[w] = d[w]
  BY DEF Drop, Restrict, Live
<1> HIDE DEF e
<1>2. \A w \in ws : Seated(cs, w) = {}
  <2> SUFFICES ASSUME NEW w \in ws PROVE Seated(cs, w) = {}
    OBVIOUS
  <2>1. BucketFits(d[w], Seated(cs, w)) /\ d[w].presence = 0
    BY DEF Counted, Idle
  <2> QED
    BY <2>1, FS_EmptySet DEF BucketFits
<1>3. \A c \in DOMAIN cs : Settled(e, cs[c])
  BY <1>1, <1>2 DEF Counted, Settled, Seated
<1>4. Counted(e, cs, n)
  BY <1>1, <1>3 DEF Counted
<1> QED
  BY <1>4 DEF e

\* A connection that begins has no seats.
LEMMA Seatless ==
  ASSUME NEW d, NEW cs, NEW n, Counted(d, cs, n), NEW c, c \notin DOMAIN cs, NEW new,
         new.joins = <<>>
  PROVE  Counted(d, Extend(cs, c, new), n)
<1> DEFINE more == Extend(cs, c, new)
<1>1. DOMAIN more = DOMAIN cs \cup {c} /\ more[c] = new /\ \A a \in DOMAIN cs : more[a] = cs[a]
  BY DEF Extend
<1>2. DOMAIN new.joins = {}
  <2>1. DOMAIN <<>> = {}
    OBVIOUS
  <2> QED
    BY <2>1
<1> HIDE DEF more
<1>3. \A w : Seated(more, w) = Seated(cs, w)
  BY <1>1, <1>2 DEF Seated
<1>4. \A a \in DOMAIN more : Settled(d, more[a])
  BY <1>1, <1>2 DEF Counted, Settled
<1>5. Counted(d, more, n)
  BY <1>3, <1>4 DEF Counted
<1> QED
  BY <1>5 DEF more

-----------------------------------------------------------------------------
\* A grant seats the account in a world where it has no seat.
LEMMA GrantCounted ==
  ASSUME CountInv, NEW c \in Accounts, ServerGrant(c)
  PROVE  Counted(dir, conns, minted)' /\ DOMAIN conns' = DOMAIN conns
<1> DEFINE m == Head(toServer[c])
           r == Resolution(c, m.key)
           held == Cardinality(DOMAIN conns[c].joins)
           n == IF r.opened THEN minted + 1 ELSE minted
<1>1. TagInv /\ Counted(dir, conns, minted)
  BY DEF CountInv
<1>2. /\ c \in DOMAIN conns /\ JoinsOf(conns[c], m.key) = {} /\ r.granted
      /\ conns[c].next \notin DOMAIN conns[c].joins
      /\ DOMAIN conns'[c].joins = DOMAIN conns[c].joins \cup {conns[c].next}
      /\ conns'[c].joins[conns[c].next] = [world |-> r.world, key |-> m.key, mode |-> m.mode]
      /\ \A j \in DOMAIN conns[c].joins : conns'[c].joins[j] = conns[c].joins[j]
  BY <1>1, GrantFacts DEF Established
<1>3. /\ minted' = n /\ dir' = Acquire(r.dir, r.world, c)
      /\ conns' = [conns EXCEPT ![c] = WithJoin(conns[c], r.world, m.key, m.mode)]
  BY DEF ServerGrant
<1>4. conns' = [conns EXCEPT ![c] = conns'[c]]
  BY <1>2, <1>3
<1>5. r = Resolve(dir, m.key, held, minted + 1)
  BY DEF Resolution
<1> HIDE DEF r, m, held
<1>6. Counted(r.dir, conns, n) /\ r.world \in Live(r.dir) /\ r.dir[r.world].key = m.key
  BY <1>1, <1>2, <1>5, Resolved
<1>7. /\ conns'[c].joins[conns[c].next].world = r.world
      /\ conns'[c].joins[conns[c].next].key = m.key
  BY <1>2
<1> HIDE DEF n
<1>8. Counted(Acquire(r.dir, r.world, c), [conns EXCEPT ![c] = conns'[c]], n)
  BY <1>2, <1>6, <1>7, SeatAdded
<1> QED
  BY <1>3, <1>4, <1>8

\* A leave gives up the one seat of its join.
LEMMA LeaveCounted ==
  ASSUME CountInv, NEW c \in Accounts, ServerLeave(c)
  PROVE  Counted(dir, conns, minted)' /\ DOMAIN conns' = DOMAIN conns
<1> DEFINE j == Head(toServer[c]).join
           new == WithoutJoin(conns[c], j)
<1>1. /\ Counted(dir, conns, minted) /\ c \in DOMAIN conns /\ IsConnection(conns[c])
      /\ minted' = minted
  BY DEF CountInv, TagInv, AccountInv, ServerLeave, Arrived, Established
<1>2. CASE j \notin DOMAIN conns[c].joins
  <2>1. dir' = dir /\ conns' = conns
    BY <1>2 DEF ServerLeave
  <2> QED
    BY <1>1, <2>1
<1>3. CASE j \in DOMAIN conns[c].joins
  <2>1. /\ dir' = Release(dir, conns[c].joins[j].world, 0, c)
        /\ conns' = [conns EXCEPT ![c] = new]
    BY <1>3 DEF ServerLeave
  <2>2. new.joins = [i \in DOMAIN conns[c].joins \ {j} |-> conns[c].joins[i]]
    BY <1>1 DEF WithoutJoin, Without, Restrict, IsConnection
  <2> HIDE DEF new, j
  <2>3. /\ DOMAIN new.joins = DOMAIN conns[c].joins \ {j}
        /\ \A i \in DOMAIN new.joins : new.joins[i] = conns[c].joins[i]
    BY <2>2
  <2>4. Counted(Release(dir, conns[c].joins[j].world, 0, c), [conns EXCEPT ![c] = new], minted)
    BY <1>1, <1>3, <2>3, SeatTaken
  <2> QED
    BY <1>1, <2>1, <2>4
<1> QED
  BY <1>2, <1>3

\* A reattach may open the world that it leads to.
LEMMA ConnectCounted ==
  ASSUME CountInv, NEW c \in Accounts, Connect(c)
  PROVE  Counted(dir, conns, minted)' /\ DOMAIN conns' = DOMAIN conns \cup {c}
<1> DEFINE rec == records[c]
           r == Resolve(dir, rec.game.key, 0, minted + 1)
           back == rec.game.key # NoKey /\ r.granted
           game == IF back THEN rec.game ELSE NoGame
           new == [NewConnection EXCEPT !.reattach = game]
           n == IF back /\ r.opened THEN minted + 1 ELSE minted
           d == IF back THEN r.dir ELSE dir
<1>1. Counted(dir, conns, minted) /\ c \notin DOMAIN conns
  BY DEF CountInv, Connect, Established
<1>2. minted' = n /\ dir' = d /\ conns' = Extend(conns, c, new)
  BY DEF Connect
<1>3. new.joins = <<>>
  <2> HIDE DEF game
  <2> QED
    BY DEF NewConnection
<1>4. Counted(d, conns, n)
  <2>1. CASE back
    BY <1>1, <2>1, Resolved
  <2>2. CASE ~back
    BY <1>1, <2>2
  <2> QED
    BY <2>1, <2>2
<1> HIDE DEF new, n, d
<1>5. Counted(d, Extend(conns, c, new), n)
  BY <1>1, <1>3, <1>4, Seatless
<1>6. DOMAIN Extend(conns, c, new) = DOMAIN conns \cup {c}
  BY DEF Extend
<1> QED
  BY <1>2, <1>5, <1>6

\* Every step keeps the count ...
LEMMA StepCountInv == CountInv /\ [Next]_vars => CountInv'
<1> SUFFICES ASSUME CountInv, [Next]_vars PROVE CountInv'
  OBVIOUS
<1>1. TagInv' /\ IsFiniteSet(DOMAIN conns) /\ Counted(dir, conns, minted)
  BY StepTagInv DEF CountInv, Established
<1>2. ASSUME Counted(dir, conns, minted)', IsFiniteSet(DOMAIN conns') PROVE CountInv'
  BY <1>1, <1>2 DEF CountInv, Established
<1>3. CASE UNCHANGED <<dir, conns, minted>>
  BY <1>1, <1>2, <1>3
<1>4. ASSUME NEW c \in Accounts, Acts(c) PROVE CountInv'
  <2>1. CASE Connect(c)
    <3>1. Counted(dir, conns, minted)' /\ DOMAIN conns' = DOMAIN conns \cup {c}
      BY <2>1, ConnectCounted
    <3>2. IsFiniteSet(DOMAIN conns \cup {c})
      BY <1>1, FS_AddElement
    <3> QED
      BY <1>2, <3>1, <3>2
  <2>2. CASE User(c) /\ ~Connect(c)
    BY <1>3, <2>2 DEF User, AskJoin, AskTravel, AskLeave, Quit, Cut, serverVars
  <2>3. CASE ClientSend(c) \/ ClientHandle(c)
    BY <1>3, <2>3 DEF ClientSend, ClientHandle, serverVars
  <2>4. CASE ServerRejoin(c) \/ ServerDeny(c) \/ ServerTravel(c)
    BY <1>3, <2>4 DEF ServerRejoin, ServerDeny, ServerTravel, serverVars
  <2>5. CASE ServerGrant(c) \/ ServerLeave(c)
    <3>1. Counted(dir, conns, minted)' /\ DOMAIN conns' = DOMAIN conns
      BY <2>5, GrantCounted, LeaveCounted
    <3> QED
      BY <1>1, <1>2, <3>1
  <2>6. CASE ServerGoodbye(c) \/ ServerTimeout(c)
    <3>1. c \in DOMAIN conns /\ Disconnected(c)
      BY <2>6 DEF ServerGoodbye, ServerTimeout, Established
    <3>2. /\ dir' = Vacate(dir, c, conns[c].joins, DOMAIN conns[c].joins)
          /\ conns' = Without(conns, c) /\ minted' = minted
      BY <3>1 DEF Disconnected
    <3>3. Counted(Vacate(dir, c, conns[c].joins, DOMAIN conns[c].joins), Without(conns, c), minted)
      BY <1>1, <3>1, SeatsVacated
    <3>4. DOMAIN conns' = DOMAIN conns \ {c}
      BY <3>2 DEF Without, Restrict
    <3>5. IsFiniteSet(DOMAIN conns \ {c})
      BY <1>1, FS_RemoveElement
    <3> QED
      BY <1>2, <3>2, <3>3, <3>4, <3>5
  <2> QED
    BY <1>4, <2>1, <2>2, <2>3, <2>4, <2>5, <2>6 DEF Acts, ServerPump
<1>5. ASSUME NEW ws \in SUBSET Idle(dir), ServerReap(ws) PROVE CountInv'
  <2>1. dir' = Drop(dir, ws) /\ UNCHANGED <<conns, minted>>
    BY <1>5 DEF ServerReap
  <2>2. Counted(Drop(dir, ws), conns, minted)
    BY <1>1, <1>5, IdleDropped
  <2> QED
    BY <1>1, <1>2, <2>1, <2>2
<1>6. CASE UNCHANGED vars
  BY <1>3, <1>6 DEF vars
<1> QED
  BY <1>4, <1>5, <1>6 DEF Next, Acts

\* ... which holds at the start, of the primary world with nobody in it.
LEMMA InitCountInv == Init => CountInv
<1> SUFFICES ASSUME Init PROVE CountInv
  OBVIOUS
<1> DEFINE none == <<>>
           b == FreshBucket(Home, FALSE, NoTime)
<1>1. DOMAIN none = {}
  OBVIOUS
<1>2. conns = none /\ dir = Register(none, 0, Home) /\ minted = 0
  BY DEF Init
<1>3. BucketFits(b, {})
  BY FreshFits
<1> HIDE DEF none, b
<1>4. dir = Extend(none, 0, b)
  BY <1>1, <1>2 DEF Register, Live, b
<1>5. Live(dir) = {0} /\ dir[0] = b
  BY <1>1, <1>4 DEF Extend, Live
<1>6. \A w : Seated(conns, w) = {}
  BY <1>1, <1>2 DEF Seated
<1>7. Counted(dir, conns, minted)
  <2>1. minted \in Nat /\ Live(dir) \subseteq 0 .. minted
    BY <1>2, <1>5
  <2>2. \A w \in Live(dir) : BucketFits(dir[w], Seated(conns, w))
    BY <1>3, <1>5, <1>6
  <2>3. DOMAIN conns = {}
    BY <1>1, <1>2
  <2> QED
    BY <2>1, <2>2, <2>3 DEF Counted
<1>8. IsFiniteSet(Established)
  BY <1>1, <1>2, FS_EmptySet DEF Established
<1> QED
  BY <1>7, <1>8, InitTagInv DEF CountInv

\* A set of at most one element.
LEMMA OneOrNone ==
  ASSUME NEW S, \A x, y \in S : x = y
  PROVE  IsFiniteSet(S) /\ Cardinality(S) = IF S = {} THEN 0 ELSE 1
<1>1. CASE S = {}
  BY <1>1, FS_EmptySet
<1>2. CASE S # {}
  <2>1. PICK x \in S : TRUE
    BY <1>2
  <2>2. S = {x}
    BY <2>1
  <2> QED
    BY <1>2, <2>2, FS_Singleton
<1> QED
  BY <1>1, <1>2

\* The seats of an account in a world.
SeatsOf(c, w) ==
  IF c \in Established THEN {j \in DOMAIN conns[c].joins : conns[c].joins[j].world = w} ELSE {}

\* An account has at most one seat in a world, so the seats are as many as those who have one.
LEMMA SeatsCounted ==
  ASSUME CountInv, NEW w \in Live(dir)
  PROVE  /\ \A c \in Accounts : dir[w].members[c] = Cardinality(SeatsOf(c, w))
         /\ dir[w].presence = Cardinality(UNION {{c} \X SeatsOf(c, w) : c \in Accounts})
<1> DEFINE S == Seated(conns, w)
           all == UNION {{c} \X SeatsOf(c, w) : c \in Accounts}
<1>1. BucketFits(dir[w], S) /\ DOMAIN conns \subseteq Accounts
  BY DEF CountInv, Counted, TagInv, Domains, Established
<1>2. ASSUME NEW c, NEW i \in SeatsOf(c, w), NEW j \in SeatsOf(c, w) PROVE i = j
  <2>1. Settled(dir, conns[c]) /\ i \in DOMAIN conns[c].joins /\ j \in DOMAIN conns[c].joins
        /\ conns[c].joins[i].world = w /\ conns[c].joins[j].world = w
    BY <1>2 DEF SeatsOf, CountInv, Counted, Established
  <2> QED
    BY <2>1 DEF Settled
<1>3. \A c : c \in S <=> SeatsOf(c, w) # {}
  BY DEF Seated, SeatsOf, Established
<1>4. ASSUME NEW c \in Accounts PROVE dir[w].members[c] = Cardinality(SeatsOf(c, w))
  <2>1. Cardinality(SeatsOf(c, w)) = IF SeatsOf(c, w) = {} THEN 0 ELSE 1
    BY <1>2, OneOrNone
  <2> QED
    BY <1>1, <1>3, <2>1 DEF BucketFits
<1>5. Cardinality(all) = Cardinality(S)
  <2> DEFINE f == [c \in S |-> <<c, CHOOSE j \in SeatsOf(c, w) : TRUE>>]
  <2>1. ASSUME NEW c \in S PROVE c \in Accounts /\ (CHOOSE j \in SeatsOf(c, w) : TRUE) \in SeatsOf(c, w)
    BY <1>1, <1>3 DEF Seated
  <2>2. \A c \in S : f[c] \in {c} \X SeatsOf(c, w)
    BY <2>1
  <2>3. \A c \in S : f[c] \in all
    BY <2>1, <2>2
  <2>4. ASSUME NEW x \in all PROVE \E c \in S : f[c] = x
    <3>1. PICK c \in Accounts : x \in {c} \X SeatsOf(c, w)
      BY <2>4
    <3>2. PICK j \in SeatsOf(c, w) : x = <<c, j>>
      BY <3>1
    <3>3. c \in S
      BY <1>3, <3>2
    <3>4. (CHOOSE i \in SeatsOf(c, w) : TRUE) = j
      BY <1>2, <2>1, <3>2, <3>3
    <3> QED
      BY <3>2, <3>3, <3>4
  <2>5. \A a, b \in S : f[a] = f[b] => a = b
    OBVIOUS
  <2>6. DOMAIN f = S
    OBVIOUS
  <2> HIDE DEF f, S, all
  <2>7. f \in [S -> all]
    BY <2>3, <2>6 DEF f
  <2>8. f \in Bijection(S, all)
    BY <2>4, <2>5, <2>7, Fun_IsBij
  <2> QED
    BY <1>1, <2>8, FS_Bijection DEF ExistsBijection, BucketFits
<1> QED
  BY <1>1, <1>4, <1>5 DEF BucketFits

\* The directory counts the joins of every account in every world, for any accounts, worlds and
\* limits, whatever joins, leaves, losses of a connection and reaps follow each other.
THEOREM DirectoryCounts == Spec => []SeatsMatch
<1>1. CountInv => SeatsMatch
  <2> SUFFICES ASSUME CountInv PROVE SeatsMatch
    OBVIOUS
  <2>1. \A w \in Live(dir) :
          /\ \A c \in Accounts : dir[w].members[c] = Cardinality(SeatsOf(c, w))
          /\ dir[w].presence = Cardinality(UNION {{c} \X SeatsOf(c, w) : c \in Accounts})
    BY SeatsCounted
  <2>2. \A c \in Established : Settled(dir, conns[c])
    BY DEF CountInv, Counted, Established
  <2> QED
    BY <2>1, <2>2, Zenon DEF SeatsMatch, SeatsOf, Settled
<1> QED
  BY InitCountInv, StepCountInv, <1>1, PTL DEF Spec
=============================================================================
