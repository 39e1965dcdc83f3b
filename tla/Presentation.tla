---------------------------- MODULE Presentation ----------------------------
(***************************************************************************)
(* What holds a local world open: the worlds the managed viewports present  *)
(* (engine/src/ManagedViewports.cpp), the standing and warm holds, and the  *)
(* travels of the local player (engine/src/Application.cpp), all over the   *)
(* directory of WorldDirectory.  A frame applies the rebinds that are due,  *)
(* fires the arrivals, pins what is presented, reaps the idle worlds, and    *)
(* then carries out the requests; a listen host reaps in its network pump    *)
(* instead, after the requests.                                             *)
(*                                                                         *)
(* Time.  The directory compares an idle stamp with now and nothing else,    *)
(* so now stays at Horizon, no shorter than any dwell, and a frame in which   *)
(* time passes takes one from every stamp: a stamp of 0 is as old as matters. *)
(***************************************************************************)
EXTENDS WorldDirectory, Integers

CONSTANTS
  Hosting,       \* whether a ServerHost pumps in this process
  Viewports,     \* the managed viewports
  Home,          \* the key of the managed world, registered with world 0
  Primary,       \* managed viewport 0
  LocalAccount,  \* the account of the local player
  Horizon,       \* now
  ReadyTimeout,  \* PresentReadyTimeoutSeconds, in frames
  ReadyAttempts, \* PresentReadyAttempts
  Saved,         \* bound: the records the store that is open may hold for the account
  MaxAsks        \* bound: requests of the game and its player

ASSUME PresentationAssumption ==
  /\ Hosting \in BOOLEAN /\ Home \in Keys /\ Primary \in Viewports /\ LocalAccount \in Accounts
  /\ Horizon \in Nat /\ KeepWarm <= Horizon
  /\ \A k \in Keys : DwellOf[k] = NoTime \/ DwellOf[k] <= Horizon
  /\ ReadyTimeout \in Nat \ {0} /\ ReadyAttempts \in Nat \ {0} /\ MaxAsks \in Nat
  /\ \A r \in Saved : r.cached /\ r.standing \subseteq Keys /\ r.game \in Keys \cup {NoKey}

VARIABLES
  phase,         \* where the frame stands
  dir, minted,   \* the directory; the worlds numbered so far
  open,          \* the worlds the runner has
  shown,         \* the world each viewport's applied binding names
  pending,       \* each viewport's rebind in flight, if any
  arrivals,      \* m_PendingArrivals
  pinned,        \* m_PinnedWorlds
  standing,      \* m_LocalStandingWorlds: a world per key
  warm,          \* m_WarmPinnedWorlds: a world per key
  record,        \* the local account's entry in the session registry, if cached
  restoring,     \* the standing joins a restore has still to resolve
  asks,          \* counter of the bound
  reaped         \* history: the worlds a reap has closed

vars == <<phase, dir, minted, open, shown, pending, arrivals, pinned, standing, warm, record,
          restoring, asks, reaped>>
holds == <<standing, warm, record, restoring>>

NoWorld == -1
NoRebind == [world |-> NoWorld, ready |-> FALSE, waited |-> 0, attempts |-> 0]
NoRecord == [cached |-> FALSE, standing |-> {}, game |-> NoKey]
Rebind(w, whenReady) == [world |-> w, ready |-> ~whenReady, waited |-> 0, attempts |-> 0]

Then(from, to) == phase = from /\ phase' = to

-----------------------------------------------------------------------------
(* The frame.                                                               *)

\* Mutant: a wait that has run out starts over, every time.
WaitedAgain(p) == [p EXCEPT !.waited = (@ + 1) % ReadyTimeout]

\* A wait that has run out starts over until its attempts are used up.
Waited(p) ==
  IF p.waited + 1 < ReadyTimeout THEN [p EXCEPT !.waited = @ + 1]
  ELSE IF p.attempts + 1 < ReadyAttempts
       THEN [world |-> p.world, ready |-> p.ready, waited |-> 0, attempts |-> p.attempts + 1]
       ELSE NoRebind

\* Whether a rebind lands when the worlds in `ready` are presentable: one that
\* need not wait always does.
Lands(p, ready) ==
  p.world # NoWorld /\ (p.ready \/ (p.world \in open /\ p.world \in ready))

\* ApplyPendingReconfigure.  A destination that has closed is given up.
ApplyRebinds ==
  /\ Then("apply", "arrive")
  /\ \E ready \in SUBSET open :
       /\ shown' = [v \in Viewports |-> IF Lands(pending[v], ready) THEN pending[v].world
                                        ELSE shown[v]]
       /\ pending' = [v \in Viewports |->
                        IF pending[v].world \notin open \/ Lands(pending[v], ready)
                        THEN NoRebind ELSE Waited(pending[v])]
  /\ UNCHANGED <<dir, minted, open, arrivals, pinned, holds, asks, reaped>>

\* FireWorldArrivals: an arrival fires when its viewport shows the destination,
\* and is forgotten when the viewport no longer heads there.
FireArrivals ==
  /\ Then("arrive", "pin")
  /\ arrivals' = {a \in arrivals : /\ shown[a.index] # a.world
                                   /\ pending[a.index].world = a.world}
  /\ UNCHANGED <<dir, minted, open, shown, pending, pinned, holds, asks, reaped>>

\* Mutant: only what a viewport already shows is pinned.
PresentShown == {w \in Live(dir) : \E v \in Viewports : w = shown[v]}

Present == {w \in Live(dir) : \E v \in Viewports : w \in {shown[v], pending[v].world}}

Each(d, ws, Op(_, _)) == [w \in Live(d) |-> IF w \in ws THEN Op(d, w)[w] ELSE d[w]]

SyncPins ==
  /\ Then("pin", "reap")
  /\ LET held == Each(dir, Present \ pinned, LAMBDA d, w : Acquire(d, w, LocalAccount))
     IN  dir' = Each(held, pinned \ Present, LAMBDA d, w : Release(d, w, Horizon, LocalAccount))
  /\ pinned' = Present
  /\ UNCHANGED <<minted, open, shown, pending, arrivals, holds, asks, reaped>>

Reap ==
  LET left == ReapIdle(dir, Horizon)
      gone == Live(dir) \ Live(left)
  IN  dir' = left /\ open' = open \ gone /\ reaped' = reaped \cup gone

ReapDirectory ==
  /\ Then("reap", "requests")
  /\ IF Hosting THEN UNCHANGED <<dir, open, reaped>> ELSE Reap
  /\ UNCHANGED <<minted, shown, pending, arrivals, pinned, holds, asks>>

Aged(d) ==
  [w \in Live(d) |-> IF d[w].idle \in {NoTime, 0} THEN d[w] ELSE [d[w] EXCEPT !.idle = @ - 1]]

\* The requests are done; the network is pumped, and the next frame begins.
EndFrame ==
  /\ Then("requests", "pump")
  /\ IF Hosting THEN Reap ELSE UNCHANGED <<dir, open, reaped>>
  /\ UNCHANGED <<minted, shown, pending, arrivals, pinned, holds, asks>>

NextFrame(elapsed) ==
  /\ Then("pump", "apply")
  /\ dir' = IF elapsed THEN Aged(dir) ELSE dir
  /\ UNCHANGED <<minted, open, shown, pending, arrivals, pinned, holds, asks, reaped>>

-----------------------------------------------------------------------------
(* The requests.                                                            *)

Asking == phase = "requests" /\ asks < MaxAsks /\ asks' = asks + 1 /\ UNCHANGED phase

\* The directory opened or placed r for the request.
Resolved(r) ==
  /\ r.granted
  /\ minted' = IF r.opened THEN minted + 1 ELSE minted
  /\ open' = IF r.opened THEN open \cup {r.world} ELSE open

\* AcquireLocalStanding: one hold for each key.
Stand(d, k, w) ==
  /\ dir' = IF k \in DOMAIN standing THEN d ELSE Acquire(d, w, LocalAccount)
  /\ standing' = Extend(standing, k, w)

\* What the session record is told of a travel to k.
Recorded(k, durability) ==
  CASE durability = "gameplay" -> [record EXCEPT !.cached = TRUE, !.game = k]
    [] durability = "standing" -> [record EXCEPT !.cached = TRUE, !.standing = @ \cup {k}]
    [] durability = "none" -> record

\* TravelStandalone.  A standing travel holds its world; in the viewport it
\* presents in, if there is one, a rebind waits for the world and supersedes what
\* the viewport was waiting for.  Any durability goes with any presentation, the
\* caller may choose (ResolveSessionDurability).
Travel(k, durability, heads) ==
  LET r == Resolve(dir, k, 0, minted + 1)
  IN  /\ Asking /\ Resolved(r)
      /\ IF durability = "standing" THEN Stand(r.dir, k, r.world)
                                    ELSE dir' = r.dir /\ UNCHANGED standing
      /\ record' = Recorded(k, durability)
      /\ pending' = [v \in Viewports |-> IF v \in heads THEN Rebind(r.world, TRUE) ELSE pending[v]]
      /\ arrivals' = {a \in arrivals : a.index \notin heads}
                       \cup {[index |-> v, world |-> r.world] : v \in heads}
      /\ UNCHANGED <<shown, pinned, warm, restoring, reaped>>

\* Mutant: the hold is dropped and the world's presence stays.
LeaveStandingHeld(k) ==
  /\ Asking /\ k \in DOMAIN standing
  /\ standing' = Restrict(standing, DOMAIN standing \ {k})
  /\ record' = [record EXCEPT !.standing = @ \ {k}]
  /\ UNCHANGED <<dir, minted, open, shown, pending, arrivals, pinned, warm, restoring, reaped>>

LeaveStanding(k) ==
  /\ Asking /\ k \in DOMAIN standing
  /\ dir' = Release(dir, standing[k], Horizon, LocalAccount)
  /\ standing' = Restrict(standing, DOMAIN standing \ {k})
  /\ record' = [record EXCEPT !.standing = @ \ {k}]
  /\ UNCHANGED <<minted, open, shown, pending, arrivals, pinned, warm, restoring, reaped>>

HoldWorldWarm(k) ==
  LET r == Resolve(dir, k, 0, minted + 1)
  IN  /\ Asking /\ k \notin DOMAIN warm /\ Resolved(r)
      /\ dir' = Acquire(r.dir, r.world, NoAccount)
      /\ warm' = Extend(warm, k, r.world)
      /\ UNCHANGED <<shown, pending, arrivals, pinned, standing, record, restoring, reaped>>

ReleaseWorldWarm(k) ==
  /\ Asking /\ k \in DOMAIN warm
  /\ dir' = Release(dir, warm[k], Horizon, NoAccount)
  /\ warm' = Restrict(warm, DOMAIN warm \ {k})
  /\ UNCHANGED <<minted, open, shown, pending, arrivals, pinned, standing, record, restoring,
                 reaped>>

\* RestoreLocalSession: an account without an entry gets the record the open store
\* holds, if any; the standing joins recorded are resolved and held one by one, and
\* then the primary viewport heads for the gameplay world.  What does not resolve
\* is passed over and stays in the record.
Restore ==
  /\ Then("requests", "restore") /\ asks < MaxAsks /\ asks' = asks + 1
  /\ record' \in IF record.cached THEN {record} ELSE Saved \cup {NoRecord}
  /\ restoring' = record'.standing
  /\ UNCHANGED <<dir, minted, open, shown, pending, arrivals, pinned, standing, warm, reaped>>

RestoreStanding(k) ==
  LET r == Resolve(dir, k, 0, minted + 1)
  IN  /\ phase = "restore" /\ k \in restoring
      /\ IF r.granted THEN Resolved(r) /\ Stand(r.dir, k, r.world)
                      ELSE UNCHANGED <<dir, minted, open, standing>>
      /\ restoring' = restoring \ {k}
      /\ UNCHANGED <<phase, shown, pending, arrivals, pinned, warm, record, asks, reaped>>

RestoreGameplay ==
  LET r == Resolve(dir, record.game, 0, minted + 1)
  IN  /\ Then("restore", "requests") /\ restoring = {}
      /\ IF record.game # NoKey /\ r.granted
         THEN /\ Resolved(r) /\ dir' = r.dir
              /\ pending' = [pending EXCEPT ![Primary] = Rebind(r.world, TRUE)]
         ELSE UNCHANGED <<dir, minted, open, pending>>
      /\ UNCHANGED <<shown, arrivals, pinned, holds, asks, reaped>>

\* ReleaseLocalSession: the holds go (each of a world of its own key), and the
\* registry's entry, written to the store first.
ReleaseLocalSession ==
  /\ Asking
  /\ dir' = Each(dir, {standing[k] : k \in DOMAIN standing},
                 LAMBDA d, w : Release(d, w, Horizon, LocalAccount))
  /\ standing' = <<>> /\ record' = NoRecord
  /\ UNCHANGED <<minted, open, shown, pending, arrivals, pinned, warm, restoring, reaped>>

\* The game sends a viewport to a world it has, at once or when it is ready.
RebindWorld(v, w, whenReady) ==
  /\ Asking /\ w \in open
  /\ pending' = [pending EXCEPT ![v] = Rebind(w, whenReady)]
  /\ UNCHANGED <<dir, minted, open, shown, arrivals, pinned, holds, reaped>>

\* The game closes a world of the directory, whoever holds it.
Close(w) ==
  /\ Asking /\ w \in Closable(dir)
  /\ dir' = Drop(dir, {w})
  /\ open' = open \ {w}
  /\ UNCHANGED <<minted, shown, pending, arrivals, pinned, holds, reaped>>

Init ==
  /\ phase = "apply"
  /\ dir = Register(<<>>, 0, Home)
  /\ minted = 0 /\ open = {0}
  /\ shown = [v \in Viewports |-> 0]
  /\ pending = [v \in Viewports |-> NoRebind]
  /\ arrivals = {} /\ pinned = {} /\ standing = <<>> /\ warm = <<>> /\ restoring = {}
  /\ record = NoRecord
  /\ asks = 0 /\ reaped = {}

Restoring == RestoreGameplay \/ \E k \in restoring : RestoreStanding(k)

Frame == Restoring \/ ApplyRebinds \/ FireArrivals \/ SyncPins \/ ReapDirectory \/ EndFrame

Requests ==
  \/ \E k \in Keys : \/ \E durability \in {"gameplay", "standing", "none"},
                           heads \in {{}} \cup {{v} : v \in Viewports} :
                          Travel(k, durability, heads)
                     \/ LeaveStanding(k) \/ HoldWorldWarm(k) \/ ReleaseWorldWarm(k)
  \/ Restore \/ ReleaseLocalSession
  \/ \E v \in Viewports, w \in open, whenReady \in BOOLEAN : RebindWorld(v, w, whenReady)
  \/ \E w \in Live(dir) : Close(w)

Next == Frame \/ NextFrame(TRUE) \/ NextFrame(FALSE) \/ Requests

Spec == Init /\ [][Next]_vars

\* The loop runs frame after frame, and the clock moves on.
FairSpec == Spec /\ WF_vars(Frame) /\ SF_vars(NextFrame(TRUE))

-----------------------------------------------------------------------------
(* Properties.                                                              *)

\* A bucket's presence is the number of its local holders: the pin of its
\* presentation, its standing holds and its warm holds, and the account is a
\* member once for each but the warm ones ("it composes with the presence
\* refcount", Application.h:1444).  A count too many keeps a world for ever.
PresenceExact ==
  \A w \in Live(dir) :
    LET standings == {k \in DOMAIN standing : standing[k] = w}
        warms == {k \in DOMAIN warm : warm[k] = w}
        pins == pinned \cap {w}
    IN  /\ dir[w].members[LocalAccount] = Cardinality(pins) + Cardinality(standings)
        /\ dir[w].presence = dir[w].members[LocalAccount] + Cardinality(warms)

\* No reap takes a world that is presented, that a viewport is on its way to, or
\* that a hold names: "a presented world - pending destination included, so
\* never reaped in its own rebind gap - is held warm" (Application.h:1912).
NeverReapedInGap ==
  /\ \A v \in Viewports : {shown[v], pending[v].world} \cap reaped = {}
  /\ \A k \in DOMAIN standing : standing[k] \notin reaped
  /\ \A k \in DOMAIN warm : warm[k] \notin reaped

\* No wait lasts for ever: once the requests stop, each viewport's rebind lands
\* or is given up, and with it the arrival that goes with it ("so a never-ready
\* or reaped destination does not strand the viewport on the old world
\* forever", ManagedViewports.cpp:228).
Settles ==
  <>[](\A v \in Viewports : pending[v] = NoRebind /\ \A a \in arrivals : a.index # v)

\* A world nobody holds is reaped, also one that was opened and never held
\* ("leaking the bucket and its runner world for the process's life",
\* WorldDirectory.cpp:341), or somebody comes for it.
IdleReaped ==
  \A w \in 1..MaxAsks :
    (w \in Live(dir) /\ dir[w].presence = 0) ~> (w \notin Live(dir) \/ dir[w].presence > 0)
=============================================================================
