--------------------------- MODULE WorldDirectory ---------------------------
(***************************************************************************)
(* The get-or-place directory of engine/src/WorldDirectory.cpp, as the      *)
(* operators its owners call.  A directory is a function from the live      *)
(* worlds to their buckets.  Worlds are the numbers the consumer's runner   *)
(* mints, never reused, so the order of a key's buckets in KeyMap is the    *)
(* order of their numbers and the function stands for both maps.            *)
(***************************************************************************)
EXTENDS Naturals, FiniteSets, FiniteSetsExt, Functions

CONSTANTS
  Keys,          \* world keys
  NoKey,         \* the invalid key
  Accounts,      \* the accounts a presence can belong to
  NoAccount,     \* the invalid account: presence without a member
  NoTime,        \* an idle-since that is not set
  Allowed,       \* the keys the Authorize hook lets through
  Openable,      \* the keys the factory can open a world for
  DwellOf,       \* the idle dwell of each key's resolution, or NoTime
  KeepWarm,      \* IdleKeepWarmDwell
  MaxHosted,     \* MaxHostedWorlds
  MaxJoined,     \* MaxJoinedWorldsPerConnection
  MaxPlayers     \* MaxPlayersPerInstance; 0 converges every requester

ASSUME DirectoryAssumption ==
  /\ Allowed \subseteq Keys /\ Openable \subseteq Keys /\ NoKey \notin Keys
  /\ NoAccount \notin Accounts /\ NoTime \notin Nat
  /\ DwellOf \in [Keys -> Nat \cup {NoTime}] /\ KeepWarm \in Nat
  /\ {MaxHosted, MaxJoined, MaxPlayers} \subseteq Nat

\* The function f with x in its domain; a map's emplace, which keeps what is there.
\* (TLC's @@ says the same; the provers have no definition of it.)
Extend(f, x, v) == [y \in DOMAIN f \cup {x} |-> IF y \in DOMAIN f THEN f[y] ELSE v]

Live(dir) == DOMAIN dir

FreshBucket(k, reapable, dwell) ==
  [key |-> k, presence |-> 0, members |-> [a \in Accounts |-> 0],
   reapable |-> reapable, claimed |-> FALSE, idle |-> NoTime, dwell |-> dwell]

Register(dir, w, k) ==
  IF w \in Live(dir)
  THEN [dir EXCEPT ![w] = [@ EXCEPT !.reapable = FALSE, !.idle = NoTime]]
  ELSE Extend(dir, w, FreshBucket(k, FALSE, NoTime))

\* The buckets the built-in policy may place a requester of k in.
Placeable(dir, k) ==
  {w \in Live(dir) : dir[w].key = k /\ (MaxPlayers = 0 \/ dir[w].presence < MaxPlayers)}

\* Resolves k for a requester that holds `held` worlds: the world it lands in
\* and the directory afterwards, or no world.  `fresh` is the number the runner
\* gives a world opened now.
Resolve(dir, k, held, fresh) ==
  LET denied == [granted |-> FALSE, opened |-> FALSE, world |-> 0, dir |-> dir]
  IN  IF k \notin Allowed \/ held >= MaxJoined THEN denied
      ELSE IF Placeable(dir, k) # {}
      THEN [denied EXCEPT !.granted = TRUE, !.world = Min(Placeable(dir, k))]
      ELSE IF Cardinality(Live(dir)) >= MaxHosted \/ k \notin Openable THEN denied
      ELSE [granted |-> TRUE, opened |-> TRUE, world |-> fresh,
            dir |-> Extend(dir, fresh, FreshBucket(k, TRUE, DwellOf[k]))]

\* A bucket with one occupant more; NoAccount is nobody's membership.
Joined(b, a) ==
  [key |-> b.key, presence |-> b.presence + 1,
   members |-> [c \in Accounts |-> b.members[c] + IF c = a THEN 1 ELSE 0],
   reapable |-> b.reapable, claimed |-> TRUE, idle |-> NoTime, dwell |-> b.dwell]

LessOne(n) == IF n > 0 THEN n - 1 ELSE 0

\* ... and with one less; its dwell begins when the last one leaves.
Parted(b, now, a) ==
  LET left == LessOne(b.presence)
  IN  [key |-> b.key, presence |-> left,
       members |-> [c \in Accounts |-> IF c = a THEN LessOne(b.members[c]) ELSE b.members[c]],
       reapable |-> b.reapable, claimed |-> b.claimed,
       idle |-> IF left = 0 /\ b.reapable THEN now ELSE b.idle, dwell |-> b.dwell]

\* AddJoin and Pin.
Acquire(dir, w, a) ==
  IF w \in Live(dir) THEN [dir EXCEPT ![w] = Joined(dir[w], a)] ELSE dir

\* RemoveJoin and Unpin.
Release(dir, w, now, a) ==
  IF w \in Live(dir) THEN [dir EXCEPT ![w] = Parted(dir[w], now, a)] ELSE dir

Idle(dir) == {w \in Live(dir) : dir[w].reapable /\ dir[w].presence = 0}

\* The first reap pass that finds a bucket idle starts its dwell.
Stamped(dir, now) ==
  [w \in Live(dir) |-> IF w \in Idle(dir) /\ dir[w].idle = NoTime
                       THEN [dir[w] EXCEPT !.idle = now] ELSE dir[w]]

\* How long an idle bucket is kept: a per-world dwell shorter than the
\* directory's counts only once the bucket has been claimed.
Hold(b) ==
  LET dwell == IF b.dwell = NoTime THEN KeepWarm ELSE b.dwell
  IN  IF b.claimed \/ dwell > KeepWarm THEN dwell ELSE KeepWarm

\* The buckets a reap pass at `now` takes, of a directory it has stamped.
Due(dir, now) == {w \in Idle(dir) : now - dir[w].idle >= Hold(dir[w])}

Drop(dir, ws) == Restrict(dir, Live(dir) \ ws)

\* Mutant: a bucket that was never held is never stamped, and never due (the leak
\* that WorldDirectory.cpp:336 describes).
ReapIdleUnstamped(dir, now) ==
  Drop(dir, {w \in Idle(dir) : dir[w].idle # NoTime /\ now - dir[w].idle >= Hold(dir[w])})

ReapIdle(dir, now) == LET stamped == Stamped(dir, now) IN Drop(stamped, Due(stamped, now))

\* Close takes a factory-opened bucket down whatever its presence.
Closable(dir) == {w \in Live(dir) : dir[w].reapable}
=============================================================================
