-------------------------------- MODULE Host --------------------------------
(***************************************************************************)
(* ServerHost and the ClientHosts connected to it (engine/src/Net/Host.cpp),*)
(* with the session records of engine/src/Net/Session.cpp: joining, leaving *)
(* and travelling between hosted worlds, disconnecting, and the reattach    *)
(* that puts a returning account back where it was.                        *)
(*                                                                         *)
(* The two ends talk over reliable ordered queues (the module Connection    *)
(* shows what they rest on), and each action handles one message.  An        *)
(* account has at most one connection at a time, as Server admits it.  A      *)
(* payload is reduced to                                                    *)
(* what a pose tells apart: NoKey for the parameters of a travel, or the key *)
(* of the world the pose was captured in.                                   *)
(***************************************************************************)
EXTENDS WorldDirectory, Sequences, SequencesExt

CONSTANTS
  Home,          \* the key of the primary world, registered with world 0
  Modes,         \* the durabilities of the requests: gameplay, standing, none
  Unloadable,    \* the keys whose world a client fails to load or to verify
  MaxAsks,       \* bound: joins, travels and leaves the users ask for
  MaxConnects    \* bound: connections

Control == 0     \* ControlJoinId: no join

ASSUME HostAssumption ==
  /\ Home \in Keys /\ Unloadable \subseteq Keys
  /\ Modes \subseteq {"gameplay", "standing", "none"}
  /\ MaxAsks \in Nat /\ MaxConnects \in Nat

VARIABLES
  dir,           \* the directory (WorldDirectory)
  minted,        \* the worlds the runner has numbered so far
  conns,         \* the server's ConnectionState of each established account
  records,       \* the session record of each account
  client,        \* the ClientHost of each connected account
  toServer, toClient,   \* the reliable stream of each connection, both ways
  asks, connects,       \* counters of the bounds
  refused        \* history: the keys an account was denied on its connection

vars == <<dir, minted, conns, records, client, toServer, toClient, asks, connects, refused>>
serverVars == <<dir, minted, conns, records, refused>>

NoGame == [key |-> NoKey, pose |-> NoKey]
NewConnection == [joins |-> <<>>, next |-> 1, reattach |-> NoGame, been |-> {}]
NewClient == [joined |-> <<>>, pending |-> <<>>, tokens |-> 0, out |-> <<>>]

Established == DOMAIN conns
Up == DOMAIN client

Without(f, x) == Restrict(f, DOMAIN f \ {x})

JoinRequest(k, t, mode) == [type |-> "join", key |-> k, token |-> t, mode |-> mode]
TravelRequest(k, mode) == [type |-> "travel", key |-> k, mode |-> mode]
LeaveNotice(j) == [type |-> "leave", join |-> j]
JoinAccept(t, j) == [type |-> "accept", token |-> t, join |-> j]
JoinDeny(t) == [type |-> "deny", token |-> t]
DirectedTravel(leave, k, mode) ==
  [type |-> "directed", leave |-> leave, key |-> k, mode |-> mode]
Goodbye == [type |-> "bye"]

-----------------------------------------------------------------------------
(* The session records (Session.cpp).                                       *)

RecordStandingJoin(rec, k) ==
  [rec EXCEPT !.standing = IF k \in ToSet(@) THEN @ ELSE Append(@, k)]

\* The list holds a key at most once.
RemoveStandingJoin(rec, k) ==
  IF k \in ToSet(rec.standing)
  THEN [rec EXCEPT !.standing = RemoveAt(@, CHOOSE i \in DOMAIN @ : @[i] = k)]
  ELSE rec

RecordGameplay(rec, k, pose) == [rec EXCEPT !.game = [key |-> k, pose |-> pose]]

CaptureGameplayPose(rec, k) ==
  IF rec.game.key = NoKey THEN rec ELSE [rec EXCEPT !.game.pose = k]

ClearGameplay(rec) == [rec EXCEPT !.game = NoGame]

\* Mutant: the pose that a reattach read is not given back to the record.
RecordedAnew(rec, conn, k, mode) ==
  CASE mode = "standing" -> RecordStandingJoin(rec, k)
    [] mode = "gameplay" -> RecordGameplay(rec, k, NoKey)
    [] OTHER -> rec

\* What a granted join leaves in the record; the join that a reattach asked for
\* keeps the pose the reattach read.
Recorded(rec, conn, k, mode) ==
  CASE mode = "standing" -> RecordStandingJoin(rec, k)
    [] mode = "gameplay" -> RecordGameplay(rec, k, IF conn.reattach.key = k
                                                   THEN conn.reattach.pose ELSE NoKey)
    [] OTHER -> rec

GameplayJoins(conn) == {j \in DOMAIN conn.joins : conn.joins[j].mode = "gameplay"}

\* The record a disconnect saves.  Every gameplay join is asked for the pose of
\* its seat, in the order of the joins; `last` is the last one that has one to
\* give, or Control when no seat has anything newer than the record.
Captured(rec, conn, last) ==
  IF last = Control THEN rec ELSE CaptureGameplayPose(rec, conn.joins[last].key)

-----------------------------------------------------------------------------
(* The server.                                                              *)

JoinsOf(conn, k) == {j \in DOMAIN conn.joins : conn.joins[j].key = k}

\* The join the server calls current: the connection's lowest.
CurrentJoin(conn) == IF conn.joins = <<>> THEN Control ELSE Min(DOMAIN conn.joins)

Send(c, m) == toClient' = [toClient EXCEPT ![c] = Append(@, m)]

Arrived(c, type) ==
  /\ c \in Established /\ toServer[c] # <<>> /\ Head(toServer[c]).type = type
  /\ toServer' = [toServer EXCEPT ![c] = Tail(@)]

\* Mutant: a repeat join is taken for a duplicate and not answered.
ServerRejoinUnanswered(c) ==
  /\ Arrived(c, "join")
  /\ JoinsOf(conns[c], Head(toServer[c]).key) # {}
  /\ UNCHANGED <<serverVars, client, toClient, asks, connects>>

\* A repeat join of a held key is accepted again with the join it has.
ServerRejoin(c) ==
  LET m == Head(toServer[c])
  IN  /\ Arrived(c, "join")
      /\ \E j \in JoinsOf(conns[c], m.key) : Send(c, JoinAccept(m.token, j))
      /\ UNCHANGED <<serverVars, client, asks, connects>>

Resolution(c, k) == Resolve(dir, k, Cardinality(DOMAIN conns[c].joins), minted + 1)

ServerDeny(c) ==
  LET m == Head(toServer[c])
  IN  /\ Arrived(c, "join")
      /\ JoinsOf(conns[c], m.key) = {} /\ ~Resolution(c, m.key).granted
      /\ Send(c, JoinDeny(m.token))
      /\ refused' = [refused EXCEPT ![c] = @ \cup {m.key}]
      /\ UNCHANGED <<dir, minted, conns, records, client, asks, connects>>

\* Mutant: joins are numbered by how many there are, so a number is used again.
WithJoinReused(conn, w, k, mode) ==
  LET j == Min((1..Cardinality(DOMAIN conn.joins) + 1) \ DOMAIN conn.joins)
  IN  [joins |-> Extend(conn.joins, j, [world |-> w, key |-> k, mode |-> mode]),
       next |-> j, reattach |-> conn.reattach, been |-> conn.been \cup {k}]

\* The connection with its next join in world w; a gameplay join uses up what
\* the reattach left.
WithJoin(conn, w, k, mode) ==
  [joins |-> Extend(conn.joins, conn.next, [world |-> w, key |-> k, mode |-> mode]),
   next |-> conn.next + 1,
   reattach |-> IF mode = "gameplay" THEN NoGame ELSE conn.reattach,
   been |-> conn.been \cup {k}]

ServerGrant(c) ==
  LET m == Head(toServer[c])
      r == Resolution(c, m.key)
  IN  /\ Arrived(c, "join")
      /\ JoinsOf(conns[c], m.key) = {} /\ r.granted
      /\ minted' = IF r.opened THEN minted + 1 ELSE minted
      /\ dir' = Acquire(r.dir, r.world, c)
      /\ conns' = [conns EXCEPT ![c] = WithJoin(@, r.world, m.key, m.mode)]
      /\ records' = [records EXCEPT ![c] = Recorded(@, conns[c], m.key, m.mode)]
      /\ Send(c, JoinAccept(m.token, conns[c].next))
      /\ UNCHANGED <<client, asks, connects, refused>>

\* A travel the hook refuses is dropped without a word.
ServerTravel(c) ==
  LET m == Head(toServer[c])
  IN  /\ Arrived(c, "travel")
      /\ \/ Send(c, DirectedTravel(CurrentJoin(conns[c]), m.key, m.mode))
         \/ UNCHANGED toClient
      /\ UNCHANGED <<serverVars, client, asks, connects>>

\* Mutant: a disconnect gives up the current join's world only.
VacateCurrent(d, c, joins, js) ==
  IF js = {} THEN d ELSE Release(d, joins[Min(js)].world, 0, c)

Vacate(d, c, joins, js) ==
  [w \in Live(d) |-> IF \E j \in js : joins[j].world = w
                     THEN Release(d, w, 0, c)[w] ELSE d[w]]

WithoutJoin(conn, j) == [conn EXCEPT !.joins = Without(@, j)]

ServerLeave(c) ==
  LET j == Head(toServer[c]).join
  IN  /\ Arrived(c, "leave")
      /\ IF j \in DOMAIN conns[c].joins
         THEN LET join == conns[c].joins[j]
              IN  /\ records' = IF join.mode = "standing"
                                THEN [records EXCEPT ![c] = RemoveStandingJoin(@, join.key)]
                                ELSE records
                  /\ dir' = Release(dir, join.world, 0, c)
                  /\ conns' = [conns EXCEPT ![c] = WithoutJoin(@, j)]
         ELSE UNCHANGED <<records, dir, conns>>
      /\ UNCHANGED <<minted, client, toClient, asks, connects, refused>>

\* The server loses a connection: by the client's goodbye, with whatever came
\* before it in the same pump and was not handled yet, or by a timeout.
Disconnected(c) ==
  /\ \E last \in {Control} \cup GameplayJoins(conns[c]) :
       records' = [records EXCEPT ![c] = Captured(@, conns[c], last)]
  /\ dir' = Vacate(dir, c, conns[c].joins, DOMAIN conns[c].joins)
  /\ conns' = Without(conns, c)
  /\ toServer' = [toServer EXCEPT ![c] = <<>>]
  /\ toClient' = [toClient EXCEPT ![c] = <<>>]
  /\ UNCHANGED <<minted, client, asks, connects, refused>>

ServerGoodbye(c) == c \in Established /\ Goodbye \in ToSet(toServer[c]) /\ Disconnected(c)

ServerTimeout(c) ==
  c \in Established \ Up /\ Goodbye \notin ToSet(toServer[c]) /\ Disconnected(c)

\* Some of the idle worlds have been idle long enough (the module Presentation
\* has the clock).
ServerReap(ws) ==
  /\ ws \subseteq Idle(dir) /\ ws # {}
  /\ dir' = Drop(dir, ws)
  /\ UNCHANGED <<minted, conns, records, client, toServer, toClient, asks, connects, refused>>

\* An account comes in: it is told to join again what its record says, the
\* standing worlds first.  A gameplay world that cannot be had is forgotten.
Restored(standing) ==
  [i \in 1..Len(standing) |-> DirectedTravel(Control, standing[i], "standing")]

Connect(c) ==
  LET rec == records[c]
      r == Resolve(dir, rec.game.key, 0, minted + 1)
      back == rec.game.key # NoKey /\ r.granted
  IN  /\ c \notin Established \cup Up /\ connects < MaxConnects
      /\ connects' = connects + 1
      /\ client' = Extend(client, c, NewClient)
      /\ conns' = Extend(conns, c, [NewConnection EXCEPT !.reattach = IF back THEN rec.game
                                                                       ELSE NoGame])
      /\ dir' = IF back THEN r.dir ELSE dir
      /\ minted' = IF back /\ r.opened THEN minted + 1 ELSE minted
      /\ records' = IF back THEN records ELSE [records EXCEPT ![c] = ClearGameplay(@)]
      /\ toClient' = [toClient EXCEPT ![c] = Restored(rec.standing) \o
           IF back THEN <<DirectedTravel(Control, rec.game.key, "gameplay")>> ELSE <<>>]
      /\ refused' = [refused EXCEPT ![c] = {}]
      /\ UNCHANGED <<toServer, asks>>

-----------------------------------------------------------------------------
(* The client.  The operators below take a ClientHost and give it back after *)
(* a call; what the call sends is at the end of `out`.                       *)

Queued(cl, k, leave, mode) ==
  [cl EXCEPT !.tokens = @ + 1,
             !.pending = Extend(@, cl.tokens + 1, [key |-> k, leave |-> leave, mode |-> mode,
                                                   sent |-> FALSE])]

Unsent(cl) == {t \in DOMAIN cl.pending : ~cl.pending[t].sent}

LeaveJoin(cl, j) ==
  IF j \notin DOMAIN cl.joined THEN cl
  ELSE [cl EXCEPT !.joined = Without(@, j), !.out = Append(@, LeaveNotice(j))]

\* Mutant: the join that the new one replaces is dropped without a notice.
HandleJoinAcceptSilent(cl, m) ==
  IF m.token \notin DOMAIN cl.pending THEN cl
  ELSE LET p == cl.pending[m.token]
       IN  [cl EXCEPT !.pending = Without(@, m.token),
                      !.joined = Without(Extend(@, m.join, p.key), p.leave)]

\* The join is installed before the one it replaces is left.
HandleJoinAccept(cl, m) ==
  IF m.token \notin DOMAIN cl.pending THEN cl
  ELSE LET p == cl.pending[m.token]
           answered == [cl EXCEPT !.pending = Without(@, m.token)]
       IN  IF m.join \in DOMAIN cl.joined \/ p.key \in Unloadable THEN answered
           ELSE LeaveJoin([answered EXCEPT !.joined = Extend(@, m.join, p.key)], p.leave)

\* Mutant: a directed travel leaves the old world at once (break before make).
HandledAtOnce(cl, m) ==
  CASE m.type = "accept" -> HandleJoinAccept(cl, m)
    [] m.type = "deny" -> [cl EXCEPT !.pending = Without(@, m.token)]
    [] m.type = "directed" -> Queued(LeaveJoin(cl, m.leave), m.key, Control, m.mode)

Handled(cl, m) ==
  CASE m.type = "accept" -> HandleJoinAccept(cl, m)
    [] m.type = "deny" -> [cl EXCEPT !.pending = Without(@, m.token)]
    [] m.type = "directed" -> Queued(cl, m.key, m.leave, m.mode)

\* The connection takes over what a call sent.
ClientCalls(c, cl) ==
  /\ client' = [client EXCEPT ![c] = [cl EXCEPT !.out = <<>>]]
  /\ toServer' = [toServer EXCEPT ![c] = @ \o cl.out]

\* A Pump sends every request that is waiting, the oldest first, and then handles
\* what has come.  One request or message a step: what is asked meanwhile (by a
\* directed travel, or by the game in a callback) waits for the next Pump.
ClientSend(c) ==
  /\ c \in Up /\ Unsent(client[c]) # {}
  /\ LET t == Min(Unsent(client[c]))
         p == client[c].pending[t]
     IN  ClientCalls(c, [client[c] EXCEPT !.pending[t].sent = TRUE,
                                          !.out = <<JoinRequest(p.key, t, p.mode)>>])
  /\ UNCHANGED <<serverVars, toClient, asks, connects>>

ClientHandle(c) ==
  /\ c \in Up /\ toClient[c] # <<>>
  /\ ClientCalls(c, Handled(client[c], Head(toClient[c])))
  /\ toClient' = [toClient EXCEPT ![c] = Tail(@)]
  /\ UNCHANGED <<serverVars, asks, connects>>

Asking(c) == c \in Up /\ asks < MaxAsks /\ asks' = asks + 1

AskJoin(c, k, mode) ==
  /\ Asking(c)
  /\ ClientCalls(c, Queued(client[c], k, Control, mode))
  /\ UNCHANGED <<serverVars, toClient, connects>>

AskTravel(c, k, mode) ==
  /\ Asking(c)
  /\ ClientCalls(c, [client[c] EXCEPT !.out = <<TravelRequest(k, mode)>>])
  /\ UNCHANGED <<serverVars, toClient, connects>>

AskLeave(c, j) ==
  /\ Asking(c) /\ j \in DOMAIN client[c].joined
  /\ ClientCalls(c, LeaveJoin(client[c], j))
  /\ UNCHANGED <<serverVars, toClient, connects>>

\* The client goes: with a goodbye that will arrive, or cut off.
Quit(c) ==
  /\ c \in Up
  /\ client' = Without(client, c)
  /\ toServer' = [toServer EXCEPT ![c] = Append(@, Goodbye)]
  /\ toClient' = [toClient EXCEPT ![c] = <<>>]
  /\ UNCHANGED <<serverVars, asks, connects>>

Cut(c) ==
  /\ c \in Up
  /\ client' = Without(client, c)
  /\ toServer' = [toServer EXCEPT ![c] = <<>>]
  /\ toClient' = [toClient EXCEPT ![c] = <<>>]
  /\ UNCHANGED <<serverVars, asks, connects>>

-----------------------------------------------------------------------------
Init ==
  /\ dir = Register(<<>>, 0, Home)
  /\ minted = 0
  /\ conns = <<>> /\ client = <<>>
  /\ records = [c \in Accounts |-> [standing |-> <<>>, game |-> NoGame]]
  /\ toServer = [c \in Accounts |-> <<>>]
  /\ toClient = [c \in Accounts |-> <<>>]
  /\ asks = 0 /\ connects = 0
  /\ refused = [c \in Accounts |-> {}]

ServerPump(c) ==
  \/ ServerRejoin(c) \/ ServerDeny(c) \/ ServerGrant(c)
  \/ ServerTravel(c) \/ ServerLeave(c) \/ ServerGoodbye(c) \/ ServerTimeout(c)

User(c) ==
  \/ Connect(c)
  \/ \E k \in Keys, mode \in Modes : AskJoin(c, k, mode) \/ AskTravel(c, k, mode)
  \/ c \in Up /\ \E j \in DOMAIN client[c].joined : AskLeave(c, j)
  \/ Quit(c) \/ Cut(c)

Next ==
  \/ \E c \in Accounts : User(c) \/ ClientSend(c) \/ ClientHandle(c) \/ ServerPump(c)
  \/ \E ws \in SUBSET Idle(dir) : ServerReap(ws)

Spec == Init /\ [][Next]_vars

-----------------------------------------------------------------------------
(* Properties.                                                              *)

\* What the directory counts is who is there: the presence of every live world,
\* and each account's share of it, is the number of joins in it, and every join
\* is in a live world of its key.  A miscount would close a world under its
\* players, or keep an empty one for ever (WorldDirectory.h, "refcount").
SeatsMatch ==
  LET seats(c, w) == IF c \in Established
                     THEN {j \in DOMAIN conns[c].joins : conns[c].joins[j].world = w} ELSE {}
  IN  /\ \A w \in Live(dir) :
           /\ \A c \in Accounts : dir[w].members[c] = Cardinality(seats(c, w))
           /\ dir[w].presence = Cardinality(UNION {{c} \X seats(c, w) : c \in Accounts})
      /\ \A c \in Established : \A j \in DOMAIN conns[c].joins :
           LET join == conns[c].joins[j]
           IN  join.world \in Live(dir) /\ dir[join.world].key = join.key

\* No seat is left behind: a join the server holds for a connected client is on
\* its way to the client, installed there, or its leave is on the way back.  A
\* client that cannot load the world gives no notice (hazard list).
NoOrphanSeat ==
  \A c \in Up : \A j \in DOMAIN conns[c].joins :
    \/ conns[c].joins[j].key \in Unloadable
    \/ j \in DOMAIN client[c].joined
    \/ \E t \in DOMAIN client[c].pending : JoinAccept(t, j) \in ToSet(toClient[c])
    \/ LeaveNotice(j) \in ToSet(toServer[c])

\* A join number means the same world on both ends for as long as both know it,
\* however long either end's messages about it are under way: the tag on world
\* data never routes it into another world ("monotonic per connection, never
\* reused", Host.cpp:152).
TagsAgree ==
  \A c \in Up : \A j \in DOMAIN client[c].joined \cap DOMAIN conns[c].joins :
    client[c].joined[j] = conns[c].joins[j].key

\* Make before break: only the user's own leave takes a client's last world
\* away; a travel that is denied, that fails to load, or that another travel
\* overtakes does not.
NeverStranded ==
  [][\A c \in Accounts :
       (/\ c \in Up /\ c \in Up'
        /\ DOMAIN client[c].joined # {} /\ DOMAIN client'[c].joined = {})
         => asks' # asks]_vars

\* The round trip of a reattach does not lose the captured pose: until the
\* account has been back in its gameplay world, nothing but a change of the
\* gameplay world resets the pose to the parameters of the travel.
PoseKept ==
  [][\A c \in Accounts :
       (/\ records[c].game.pose # NoKey
        /\ records'[c].game.key = records[c].game.key
        /\ c \in Established => records[c].game.key \notin conns[c].been)
         => records'[c].game.pose # NoKey]_vars

\* No request is lost or answered twice: a request that is out has one message
\* about it in flight, itself or its answer, until the client has the answer
\* (the token lookup of HandleJoinAccept drops an "unknown or duplicate reply").
AnsweredOnce ==
  \A c \in Up : \A t \in DOMAIN client[c].pending \ Unsent(client[c]) :
    LET about(q) == {i \in DOMAIN q : q[i].type \in {"join", "accept", "deny"} /\ q[i].token = t}
    IN  Cardinality(about(toServer[c])) + Cardinality(about(toClient[c])) = 1

\* A travel leaves the world the client presents ("The connection leaves its
\* current (presenting) join once the new is ready", Host.cpp:1137).  The code
\* leaves the lowest join, presented or not.
TravelLeavesPresenting ==
  [][\A c \in Established :
       LET replied == Len(toClient'[c]) = Len(toClient[c]) + 1
           m == toClient'[c][Len(toClient'[c])]
       IN  (/\ replied /\ m.type = "directed" /\ m.leave # Control
            /\ GameplayJoins(conns[c]) # {})
             => m.leave \in GameplayJoins(conns[c])]_vars
=============================================================================
