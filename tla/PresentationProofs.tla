------------------------- MODULE PresentationProofs -------------------------
(***************************************************************************)
(* Presentation, for any keys, viewports and caps: the presence the          *)
(* directory counts is exactly the local holds, and a standalone process     *)
(* never reaps a world that is shown, headed for, or held.                   *)
(***************************************************************************)
EXTENDS Presentation, FiniteSetTheorems, WellFoundedInduction, TLAPS

Bucket == [key : Keys, presence : Nat, members : [Accounts -> Nat], reapable : BOOLEAN,
           claimed : BOOLEAN, idle : Nat \cup {NoTime}, dwell : Nat \cup {NoTime}]

\* A directory of worlds numbered up to n.
Directory(d, n) == DOMAIN d \subseteq 0 .. n /\ d \in [DOMAIN d -> Bucket]

\* The directory d with a world opened for k.
WithFresh(d, k, f) == Extend(d, f, FreshBucket(k, TRUE, DwellOf[k]))

-----------------------------------------------------------------------------
(* What the operators of WorldDirectory do to one.                          *)

\* A non-empty set of numbers has a least one.
LEMMA MinOfNats ==
  ASSUME NEW S, S \subseteq Nat, S # {}
  PROVE  Min(S) \in S
<1> DEFINE R == {ss \in Nat \X Nat : ss[1] < ss[2]}
<1>1. IsWellFoundedOn(R, Nat)
  BY NatLessThanWellFounded, Zenon DEF OpToRel
<1>2. PICK x \in S : \A y \in S : ~(<<y, x>> \in R)
  <2> HIDE DEF R
  <2> QED
    BY <1>1, WFMin, Zenon
<1>3. \A y \in S : x =< y
  <2> SUFFICES ASSUME NEW y \in S PROVE x =< y
    OBVIOUS
  <2>1. <<y, x>> \in Nat \X Nat /\ <<y, x>>[1] = y /\ <<y, x>>[2] = x
    OBVIOUS
  <2>2. ~(y < x)
    BY <1>2, <2>1
  <2> QED
    BY <2>2
<1> QED
  BY <1>3 DEF Min

\* A resolve that is granted lands in a live world of the key, or in a fresh one
\* that nobody is in yet.
LEMMA ResolveFacts ==
  ASSUME NEW d, NEW n \in Nat, Directory(d, n), NEW k, NEW held, NEW f,
         NEW r, r = Resolve(d, k, held, f), r.granted
  PROVE  /\ r.opened \in BOOLEAN
         /\ ~r.opened => r.dir = d /\ r.world \in DOMAIN d /\ d[r.world].key = k
         /\ r.opened => /\ k \in Keys /\ r.world = f
                        /\ r.dir = WithFresh(d, k, f)
<1>1. k \in Allowed /\ ~(held >= MaxJoined)
  BY DEF Resolve
<1>2. CASE Placeable(d, k) # {}
  <2>1. Placeable(d, k) \subseteq Nat
    BY DEF Placeable, Live, Directory
  <2>2. Min(Placeable(d, k)) \in Placeable(d, k)
    BY <1>2, <2>1, MinOfNats
  <2>3. r.opened = FALSE /\ r.dir = d /\ r.world = Min(Placeable(d, k))
    BY <1>1, <1>2 DEF Resolve
  <2> QED
    BY <2>2, <2>3 DEF Placeable, Live
<1>3. CASE Placeable(d, k) = {}
  <2>1. r.opened = TRUE /\ r.world = f /\ r.dir = WithFresh(d, k, f)
    BY <1>1, <1>3 DEF Resolve, WithFresh
  <2> QED
    BY <2>1, <1>1, DirectoryAssumption
<1> QED
  BY <1>2, <1>3

\* The world opened: it is new, empty and of its key, and the others stay.
LEMMA OpenedFacts ==
  ASSUME NEW d, NEW n \in Nat, Directory(d, n), NEW k \in Keys, NEW f, f = n + 1,
         NEW e, e = WithFresh(d, k, f)
  PROVE  /\ Directory(e, f) /\ DOMAIN e = DOMAIN d \cup {f} /\ f \notin DOMAIN d
         /\ \A w \in DOMAIN d : e[w] = d[w]
         /\ e[f].key = k /\ e[f].presence = 0
         /\ \A a \in Accounts : e[f].members[a] = 0
<1>1. FreshBucket(k, TRUE, DwellOf[k]) \in Bucket
  BY DirectoryAssumption DEF FreshBucket, Bucket
<1>2. f \notin DOMAIN d
  BY DEF Directory
<1> QED
  BY <1>1, <1>2 DEF WithFresh, Extend, Directory, FreshBucket

\* Another occupant of a bucket.
LEMMA JoinedFacts ==
  ASSUME NEW b \in Bucket, NEW a
  PROVE  /\ Joined(b, a) \in Bucket /\ Joined(b, a).key = b.key
         /\ Joined(b, a).presence = b.presence + 1
         /\ \A c \in Accounts : Joined(b, a).members[c] = b.members[c] + IF c = a THEN 1 ELSE 0
<1> DEFINE ms == [c \in Accounts |-> b.members[c] + IF c = a THEN 1 ELSE 0]
<1>1. ms \in [Accounts -> Nat]
  BY DEF Bucket
<1>2. Joined(b, a) = [key |-> b.key, presence |-> b.presence + 1, members |-> ms,
                      reapable |-> b.reapable, claimed |-> TRUE, idle |-> NoTime, dwell |-> b.dwell]
  BY DEF Joined
<1> HIDE DEF ms
<1>3. Joined(b, a) \in Bucket
  BY <1>1, <1>2 DEF Bucket
<1> QED
  BY <1>2, <1>3 DEF ms

\* One less.
LEMMA PartedFacts ==
  ASSUME NEW b \in Bucket, NEW a, NEW now \in Nat, b.presence > 0, a \in Accounts => b.members[a] > 0
  PROVE  /\ Parted(b, now, a) \in Bucket /\ Parted(b, now, a).key = b.key
         /\ Parted(b, now, a).presence = b.presence - 1
         /\ \A c \in Accounts : Parted(b, now, a).members[c] = b.members[c] - IF c = a THEN 1 ELSE 0
<1> DEFINE ms == [c \in Accounts |-> IF c = a THEN LessOne(b.members[c]) ELSE b.members[c]]
           left == b.presence - 1
           since == IF left = 0 /\ b.reapable THEN now ELSE b.idle
<1>1. ms \in [Accounts -> Nat] /\ since \in Nat \cup {NoTime} /\ left \in Nat
  BY DEF Bucket, LessOne
<1>2. Parted(b, now, a) = [key |-> b.key, presence |-> left, members |-> ms,
                           reapable |-> b.reapable, claimed |-> b.claimed, idle |-> since,
                           dwell |-> b.dwell]
  <2>1. LessOne(b.presence) = left
    BY DEF Bucket, LessOne
  <2> QED
    BY <2>1 DEF Parted
<1>3. \A c \in Accounts : ms[c] = b.members[c] - IF c = a THEN 1 ELSE 0
  BY DEF Bucket, LessOne
<1> HIDE DEF ms, since, left
<1>4. Parted(b, now, a) \in Bucket
  BY <1>1, <1>2 DEF Bucket
<1> QED
  BY <1>2, <1>3, <1>4 DEF left
-----------------------------------------------------------------------------
(* The holds.  They are all kept in three places: the pins p, the standing     *)
(* holds s and the warm holds h, beside the directory d of worlds up to n.     *)

\* A hold for each of some keys, on a world numbered up to n.
HoldMap(m, n) == DOMAIN m \subseteq Keys /\ m \in [DOMAIN m -> 0 .. n]

\* A hold names a world of its key, or one that has closed.
Keyed(d, m) == \A k \in DOMAIN m : m[k] \in DOMAIN d => d[m[k]].key = k

Pinned(p, w) == IF w \in p THEN 1 ELSE 0
HeldBy(d, m, w) == IF d[w].key \in DOMAIN m /\ m[d[w].key] = w THEN 1 ELSE 0

\* The count of a world is the count of its holds.
Exact(d, p, s, h, w) ==
  /\ d[w].members[LocalAccount] = Pinned(p, w) + HeldBy(d, s, w)
  /\ d[w].presence = Pinned(p, w) + HeldBy(d, s, w) + HeldBy(d, h, w)

Sound(d, n, p, s, h) ==
  /\ n \in Nat /\ Directory(d, n) /\ p \subseteq 0 .. n
  /\ HoldMap(s, n) /\ HoldMap(h, n) /\ Keyed(d, s) /\ Keyed(d, h)
  /\ \A w \in DOMAIN d : Exact(d, p, s, h, w)

\* A resolve adds no holder.
LEMMA SoundResolve ==
  ASSUME NEW d, NEW n, NEW p, NEW s, NEW h, Sound(d, n, p, s, h), NEW k, NEW f, f = n + 1,
         NEW r, r = Resolve(d, k, 0, f), r.granted
  PROVE  /\ r.opened \in BOOLEAN
         /\ Sound(r.dir, IF r.opened THEN f ELSE n, p, s, h)
         /\ DOMAIN r.dir = IF r.opened THEN DOMAIN d \cup {r.world} ELSE DOMAIN d
         /\ r.world \in DOMAIN r.dir /\ r.dir[r.world].key = k
         /\ r.opened => r.world = f
<1>1. n \in Nat /\ Directory(d, n)
  BY DEF Sound
<1>2. /\ r.opened \in BOOLEAN
      /\ ~r.opened => r.dir = d /\ r.world \in DOMAIN d /\ d[r.world].key = k
      /\ r.opened => /\ k \in Keys /\ r.world = f
                     /\ r.dir = WithFresh(d, k, f)
  BY <1>1, ResolveFacts
<1>3. CASE ~r.opened
  BY <1>2, <1>3
<1>4. CASE r.opened
  <2> DEFINE e == r.dir
  <2>0. e = WithFresh(d, k, f) /\ k \in Keys
    BY <1>2, <1>4
  <2> HIDE DEF e
  <2>1. /\ Directory(e, f) /\ DOMAIN e = DOMAIN d \cup {f} /\ f \notin DOMAIN d
        /\ \A w \in DOMAIN d : e[w] = d[w]
        /\ e[f].key = k /\ e[f].presence = 0
        /\ \A a \in Accounts : e[f].members[a] = 0
    BY <1>1, <2>0, OpenedFacts
  <2>2. HoldMap(s, f) /\ HoldMap(h, f) /\ p \subseteq 0 .. f
    BY <1>1 DEF Sound, HoldMap
  <2>3. Keyed(e, s) /\ Keyed(e, h)
    BY <1>1, <2>1 DEF Sound, HoldMap, Keyed
  <2>4. ASSUME NEW w \in DOMAIN d PROVE Exact(e, p, s, h, w)
    BY <2>1, <2>4 DEF Sound, Exact, HeldBy
  <2>5. Exact(e, p, s, h, f)
    <3>1. f \notin p /\ (k \in DOMAIN s => s[k] # f) /\ (k \in DOMAIN h => h[k] # f)
      BY <1>1 DEF Sound, HoldMap
    <3> QED
      BY <2>1, <3>1, PresentationAssumption DEF Exact, HeldBy, Pinned
  <2>6. Sound(e, f, p, s, h)
    BY <1>1, <2>1, <2>2, <2>3, <2>4, <2>5 DEF Sound
  <2> QED
    BY <1>2, <1>4, <2>1, <2>6 DEF e
<1> QED
  BY <1>2, <1>3, <1>4

\* A new standing hold.
LEMMA SoundStand ==
  ASSUME NEW d, NEW n, NEW p, NEW s, NEW h, Sound(d, n, p, s, h),
         NEW w \in DOMAIN d, d[w].key \notin DOMAIN s
  PROVE  /\ Sound(Acquire(d, w, LocalAccount), n, p, Extend(s, d[w].key, w), h)
         /\ DOMAIN Acquire(d, w, LocalAccount) = DOMAIN d
<1> DEFINE e == Acquire(d, w, LocalAccount)
           k == d[w].key
           t == Extend(s, k, w)
<1>1. d[w] \in Bucket /\ LocalAccount \in Accounts
  BY PresentationAssumption DEF Sound, Directory
<1>2. e = [d EXCEPT ![w] = Joined(d[w], LocalAccount)]
  BY DEF Acquire, Live
<1>3. /\ Joined(d[w], LocalAccount) \in Bucket /\ Joined(d[w], LocalAccount).key = k
      /\ Joined(d[w], LocalAccount).presence = d[w].presence + 1
      /\ Joined(d[w], LocalAccount).members[LocalAccount] = d[w].members[LocalAccount] + 1
  BY <1>1, JoinedFacts
<1>4. /\ DOMAIN e = DOMAIN d /\ \A u \in DOMAIN d \ {w} : e[u] = d[u]
      /\ e[w] = Joined(d[w], LocalAccount) /\ Directory(e, n)
  BY <1>2, <1>3 DEF Sound, Directory
<1>5. /\ HoldMap(t, n) /\ DOMAIN t = DOMAIN s \cup {k} /\ t[k] = w
      /\ \A x \in DOMAIN s : t[x] = s[x]
  BY <1>1 DEF Sound, HoldMap, Directory, Extend, Bucket
<1> HIDE DEF e, t
<1>6. \A u \in DOMAIN d : e[u].key = d[u].key
  BY <1>3, <1>4 DEF k
<1>7. Keyed(e, t) /\ Keyed(e, h)
  BY <1>4, <1>5, <1>6 DEF Sound, Keyed, k
<1>8. ASSUME NEW u \in DOMAIN d \ {w} PROVE Exact(e, p, t, h, u)
  <2>1. HeldBy(e, t, u) = HeldBy(d, s, u) /\ HeldBy(e, h, u) = HeldBy(d, h, u)
    BY <1>4, <1>5, <1>8 DEF HeldBy, k
  <2> QED
    BY <1>4, <1>8, <2>1 DEF Sound, Exact
<1>9. Exact(e, p, t, h, w)
  <2>1. HeldBy(e, t, w) = 1 /\ HeldBy(d, s, w) = 0 /\ HeldBy(e, h, w) = HeldBy(d, h, w)
    BY <1>4, <1>5, <1>6 DEF HeldBy, k
  <2>2. Exact(d, p, s, h, w) /\ Pinned(p, w) \in {0, 1} /\ HeldBy(d, h, w) \in {0, 1}
    BY DEF Sound, Pinned, HeldBy
  <2> QED
    BY <1>3, <1>4, <2>1, <2>2 DEF Exact
<1> QED
  BY <1>4, <1>5, <1>7, <1>8, <1>9 DEF Sound, e, t, k

\* A new warm hold.
LEMMA SoundWarm ==
  ASSUME NEW d, NEW n, NEW p, NEW s, NEW h, Sound(d, n, p, s, h),
         NEW w \in DOMAIN d, d[w].key \notin DOMAIN h
  PROVE  /\ Sound(Acquire(d, w, NoAccount), n, p, s, Extend(h, d[w].key, w))
         /\ DOMAIN Acquire(d, w, NoAccount) = DOMAIN d
<1> DEFINE e == Acquire(d, w, NoAccount)
           k == d[w].key
           t == Extend(h, k, w)
<1>1. d[w] \in Bucket /\ LocalAccount \in Accounts /\ LocalAccount # NoAccount
  BY PresentationAssumption, DirectoryAssumption DEF Sound, Directory
<1>2. e = [d EXCEPT ![w] = Joined(d[w], NoAccount)]
  BY DEF Acquire, Live
<1>3. /\ Joined(d[w], NoAccount) \in Bucket /\ Joined(d[w], NoAccount).key = k
      /\ Joined(d[w], NoAccount).presence = d[w].presence + 1
      /\ Joined(d[w], NoAccount).members[LocalAccount] = d[w].members[LocalAccount] + 0
  BY <1>1, JoinedFacts
<1>4. /\ DOMAIN e = DOMAIN d /\ \A u \in DOMAIN d \ {w} : e[u] = d[u]
      /\ e[w] = Joined(d[w], NoAccount) /\ Directory(e, n)
  BY <1>2, <1>3 DEF Sound, Directory
<1>5. /\ HoldMap(t, n) /\ DOMAIN t = DOMAIN h \cup {k} /\ t[k] = w
      /\ \A x \in DOMAIN h : t[x] = h[x]
  BY <1>1 DEF Sound, HoldMap, Directory, Extend, Bucket
<1> HIDE DEF e, t
<1>6. \A u \in DOMAIN d : e[u].key = d[u].key
  BY <1>3, <1>4 DEF k
<1>7. Keyed(e, s) /\ Keyed(e, t)
  BY <1>4, <1>5, <1>6 DEF Sound, Keyed, k
<1>8. ASSUME NEW u \in DOMAIN d \ {w} PROVE Exact(e, p, s, t, u)
  <2>1. HeldBy(e, s, u) = HeldBy(d, s, u) /\ HeldBy(e, t, u) = HeldBy(d, h, u)
    BY <1>4, <1>5, <1>8 DEF HeldBy, k
  <2> QED
    BY <1>4, <1>8, <2>1 DEF Sound, Exact
<1>9. Exact(e, p, s, t, w)
  <2>1. HeldBy(e, t, w) = 1 /\ HeldBy(d, h, w) = 0 /\ HeldBy(e, s, w) = HeldBy(d, s, w)
    BY <1>4, <1>5, <1>6 DEF HeldBy, k
  <2>2. Exact(d, p, s, h, w) /\ Pinned(p, w) \in {0, 1} /\ HeldBy(d, s, w) \in {0, 1}
    BY DEF Sound, Pinned, HeldBy
  <2> QED
    BY <1>3, <1>4, <2>1, <2>2 DEF Exact
<1> QED
  BY <1>4, <1>5, <1>7, <1>8, <1>9 DEF Sound, e, t, k

\* A standing hold given up.
LEMMA SoundUnstand ==
  ASSUME NEW d, NEW n, NEW p, NEW s, NEW h, Sound(d, n, p, s, h), NEW k \in DOMAIN s
  PROVE  /\ Sound(Release(d, s[k], Horizon, LocalAccount), n, p, Restrict(s, DOMAIN s \ {k}), h)
         /\ DOMAIN Release(d, s[k], Horizon, LocalAccount) = DOMAIN d
<1> DEFINE w == s[k]
           e == Release(d, w, Horizon, LocalAccount)
           t == Restrict(s, DOMAIN s \ {k})
<1>1. /\ HoldMap(t, n) /\ DOMAIN t = DOMAIN s \ {k}
      /\ \A x \in DOMAIN t : t[x] = s[x]
  BY DEF Sound, HoldMap, Restrict
<1>2. CASE w \notin DOMAIN d
  <2>1. e = d
    BY <1>2 DEF Release, Live
  <2> HIDE DEF e, t
  <2>2. Keyed(d, t) /\ Keyed(d, h)
    BY <1>1 DEF Sound, Keyed
  <2>3. ASSUME NEW u \in DOMAIN d PROVE Exact(d, p, t, h, u)
    <3>1. HeldBy(d, t, u) = HeldBy(d, s, u)
      BY <1>1, <1>2, <2>3 DEF HeldBy
    <3> QED
      BY <2>3, <3>1 DEF Sound, Exact
  <2> QED
    BY <1>1, <2>1, <2>2, <2>3 DEF Sound, e, t
<1>3. CASE w \in DOMAIN d
  <2>1. /\ d[w] \in Bucket /\ d[w].key = k /\ Horizon \in Nat
        /\ LocalAccount \in Accounts /\ LocalAccount # NoAccount /\ NoAccount \notin Accounts
    BY <1>3, PresentationAssumption, DirectoryAssumption DEF Sound, Directory, Keyed
  <2>2. /\ Pinned(p, w) \in {0, 1} /\ HeldBy(d, s, w) = 1 /\ HeldBy(d, h, w) \in {0, 1}
        /\ Exact(d, p, s, h, w)
    BY <1>3, <2>1 DEF Sound, Pinned, HeldBy
  <2>3. d[w].presence > 0 /\ (LocalAccount \in Accounts => d[w].members[LocalAccount] > 0)
    BY <2>1, <2>2 DEF Exact
  <2> DEFINE b == Parted(d[w], Horizon, LocalAccount)
  <2>4. /\ b \in Bucket /\ b.key = k /\ b.presence = d[w].presence - 1
        /\ b.members[LocalAccount] = d[w].members[LocalAccount] - 1
    BY <2>1, <2>3, PartedFacts
  <2>5. e = [d EXCEPT ![w] = b]
    BY <1>3 DEF Release, Live
  <2> HIDE DEF b
  <2>6. /\ DOMAIN e = DOMAIN d /\ (\A u \in DOMAIN d \ {w} : e[u] = d[u])
        /\ e[w] = b /\ Directory(e, n)
    BY <1>3, <2>4, <2>5 DEF Sound, Directory
  <2> HIDE DEF e, t, w
  <2>7. \A u \in DOMAIN d : e[u].key = d[u].key
    BY <2>1, <2>4, <2>6
  <2>8. Keyed(e, t) /\ Keyed(e, h)
    BY <1>1, <2>6, <2>7 DEF Sound, Keyed
  <2>9. ASSUME NEW u \in DOMAIN d \ {w} PROVE Exact(e, p, t, h, u)
    <3>1. HeldBy(e, t, u) = HeldBy(d, s, u) /\ HeldBy(e, h, u) = HeldBy(d, h, u)
      BY <1>1, <2>6, <2>9 DEF HeldBy, w
    <3> QED
      BY <2>6, <2>9, <3>1 DEF Sound, Exact
  <2>10. Exact(e, p, t, h, w)
    <3>1. HeldBy(e, t, w) = 0 /\ HeldBy(e, h, w) = HeldBy(d, h, w)
      BY <1>1, <1>3, <2>1, <2>7 DEF HeldBy
    <3> QED
      BY <2>1, <2>2, <2>4, <2>6, <3>1 DEF Exact
  <2> QED
    BY <1>1, <2>6, <2>8, <2>9, <2>10 DEF Sound, e, t, w
<1> QED
  BY <1>2, <1>3

\* A warm hold given up.
LEMMA SoundUnwarm ==
  ASSUME NEW d, NEW n, NEW p, NEW s, NEW h, Sound(d, n, p, s, h), NEW k \in DOMAIN h
  PROVE  /\ Sound(Release(d, h[k], Horizon, NoAccount), n, p, s, Restrict(h, DOMAIN h \ {k}))
         /\ DOMAIN Release(d, h[k], Horizon, NoAccount) = DOMAIN d
<1> DEFINE w == h[k]
           e == Release(d, w, Horizon, NoAccount)
           t == Restrict(h, DOMAIN h \ {k})
<1>1. /\ HoldMap(t, n) /\ DOMAIN t = DOMAIN h \ {k}
      /\ \A x \in DOMAIN t : t[x] = h[x]
  BY DEF Sound, HoldMap, Restrict
<1>2. CASE w \notin DOMAIN d
  <2>1. e = d
    BY <1>2 DEF Release, Live
  <2> HIDE DEF e, t
  <2>2. Keyed(d, t) /\ Keyed(d, s)
    BY <1>1 DEF Sound, Keyed
  <2>3. ASSUME NEW u \in DOMAIN d PROVE Exact(d, p, s, t, u)
    <3>1. HeldBy(d, t, u) = HeldBy(d, h, u)
      BY <1>1, <1>2, <2>3 DEF HeldBy
    <3> QED
      BY <2>3, <3>1 DEF Sound, Exact
  <2> QED
    BY <1>1, <2>1, <2>2, <2>3 DEF Sound, e, t
<1>3. CASE w \in DOMAIN d
  <2>1. /\ d[w] \in Bucket /\ d[w].key = k /\ Horizon \in Nat
        /\ LocalAccount \in Accounts /\ LocalAccount # NoAccount /\ NoAccount \notin Accounts
    BY <1>3, PresentationAssumption, DirectoryAssumption DEF Sound, Directory, Keyed
  <2>2. /\ Pinned(p, w) \in {0, 1} /\ HeldBy(d, h, w) = 1 /\ HeldBy(d, s, w) \in {0, 1}
        /\ Exact(d, p, s, h, w)
    BY <1>3, <2>1 DEF Sound, Pinned, HeldBy
  <2>3. d[w].presence > 0 /\ (NoAccount \in Accounts => d[w].members[NoAccount] > 0)
    BY <2>1, <2>2 DEF Exact
  <2> DEFINE b == Parted(d[w], Horizon, NoAccount)
  <2>4. /\ b \in Bucket /\ b.key = k /\ b.presence = d[w].presence - 1
        /\ b.members[LocalAccount] = d[w].members[LocalAccount] - 0
    BY <2>1, <2>3, PartedFacts
  <2>5. e = [d EXCEPT ![w] = b]
    BY <1>3 DEF Release, Live
  <2> HIDE DEF b
  <2>6. /\ DOMAIN e = DOMAIN d /\ (\A u \in DOMAIN d \ {w} : e[u] = d[u])
        /\ e[w] = b /\ Directory(e, n)
    BY <1>3, <2>4, <2>5 DEF Sound, Directory
  <2> HIDE DEF e, t, w
  <2>7. \A u \in DOMAIN d : e[u].key = d[u].key
    BY <2>1, <2>4, <2>6
  <2>8. Keyed(e, t) /\ Keyed(e, s)
    BY <1>1, <2>6, <2>7 DEF Sound, Keyed
  <2>9. ASSUME NEW u \in DOMAIN d \ {w} PROVE Exact(e, p, s, t, u)
    <3>1. HeldBy(e, t, u) = HeldBy(d, h, u) /\ HeldBy(e, s, u) = HeldBy(d, s, u)
      BY <1>1, <2>6, <2>9 DEF HeldBy, w
    <3> QED
      BY <2>6, <2>9, <3>1 DEF Sound, Exact
  <2>10. Exact(e, p, s, t, w)
    <3>1. HeldBy(e, t, w) = 0 /\ HeldBy(e, s, w) = HeldBy(d, s, w)
      BY <1>1, <1>3, <2>1, <2>7 DEF HeldBy
    <3> QED
      BY <2>1, <2>2, <2>4, <2>6, <3>1 DEF Exact
  <2> QED
    BY <1>1, <2>6, <2>8, <2>9, <2>10 DEF Sound, e, t, w
<1> QED
  BY <1>2, <1>3

\* Holders may go, worlds may close, and stamps may change.
LEMMA SoundFewer ==
  ASSUME NEW d, NEW n, NEW p, NEW s, NEW h, Sound(d, n, p, s, h),
         NEW e, Directory(e, n), DOMAIN e \subseteq DOMAIN d,
         \A u \in DOMAIN e : /\ e[u].key = d[u].key /\ e[u].presence = d[u].presence
                             /\ e[u].members = d[u].members
  PROVE  Sound(e, n, p, s, h)
<1>1. Keyed(e, s) /\ Keyed(e, h)
  BY DEF Sound, Keyed
<1>2. ASSUME NEW u \in DOMAIN e PROVE Exact(e, p, s, h, u)
  BY <1>2 DEF Sound, Exact, HeldBy
<1> QED
  BY <1>1, <1>2 DEF Sound

\* The directory once the pins are the worlds of q, and once those of ws have
\* lost their standing hold.
Repinned(d, p, q) ==
  [w \in DOMAIN d |-> IF w \in q \ p THEN Joined(d[w], LocalAccount)
                      ELSE IF w \in p \ q THEN Parted(d[w], Horizon, LocalAccount)
                      ELSE d[w]]

Unheld(d, ws) ==
  [w \in DOMAIN d |-> IF w \in ws THEN Parted(d[w], Horizon, LocalAccount) ELSE d[w]]

LEMMA EachUnpinned ==
  ASSUME NEW d, NEW p, NEW q
  PROVE  Each(Each(d, q \ p, LAMBDA x, w : Acquire(x, w, LocalAccount)), p \ q,
              LAMBDA x, w : Release(x, w, Horizon, LocalAccount)) = Repinned(d, p, q)
<1> DEFINE c == Each(d, q \ p, LAMBDA x, w : Acquire(x, w, LocalAccount))
<1>1. c = [w \in DOMAIN d |-> IF w \in q \ p THEN Joined(d[w], LocalAccount) ELSE d[w]]
  BY DEF Each, Acquire, Live
<1> HIDE DEF c
<1>2. Each(c, p \ q, LAMBDA x, w : Release(x, w, Horizon, LocalAccount)) = Repinned(d, p, q)
  BY <1>1 DEF Each, Release, Live, Repinned
<1> QED
  BY <1>2 DEF c

LEMMA EachUnheld ==
  ASSUME NEW d, NEW ws
  PROVE  Each(d, ws, LAMBDA x, w : Release(x, w, Horizon, LocalAccount)) = Unheld(d, ws)
BY DEF Each, Release, Live, Unheld

\* The pins are brought up to date.
LEMMA SoundPins ==
  ASSUME NEW d, NEW n, NEW p, NEW s, NEW h, Sound(d, n, p, s, h), NEW q \in SUBSET DOMAIN d,
         NEW e, e = Repinned(d, p, q)
  PROVE  Sound(e, n, q, s, h) /\ DOMAIN e = DOMAIN d
<1>1. LocalAccount \in Accounts /\ Horizon \in Nat /\ Directory(d, n) /\ q \subseteq 0 .. n
  BY PresentationAssumption DEF Sound, Directory
<1>2. e = [w \in DOMAIN d |-> e[w]]
  BY DEF Repinned
<1>3. /\ DOMAIN e = DOMAIN d
      /\ \A w \in DOMAIN d : e[w] = IF w \in q \ p THEN Joined(d[w], LocalAccount)
                                    ELSE IF w \in p \ q THEN Parted(d[w], Horizon, LocalAccount)
                                    ELSE d[w]
  BY DEF Repinned
<1>4. ASSUME NEW w \in DOMAIN d
      PROVE  e[w] \in Bucket /\ e[w].key = d[w].key /\ Exact(e, q, s, h, w)
  <2>1. /\ d[w] \in Bucket /\ Exact(d, p, s, h, w)
        /\ HeldBy(d, s, w) \in {0, 1} /\ HeldBy(d, h, w) \in {0, 1}
    BY <1>4 DEF Sound, Directory, HeldBy
  <2>2. e[w].key = d[w].key => HeldBy(e, s, w) = HeldBy(d, s, w) /\ HeldBy(e, h, w) = HeldBy(d, h, w)
    BY DEF HeldBy
  <2>3. CASE w \in q \ p
    <3>1. e[w] = Joined(d[w], LocalAccount)
      BY <1>3, <1>4, <2>3
    <3>3. Pinned(p, w) = 0 /\ Pinned(q, w) = 1
      BY <2>3 DEF Pinned
    <3>2. /\ e[w] \in Bucket /\ e[w].key = d[w].key /\ e[w].presence = d[w].presence + 1
          /\ e[w].members[LocalAccount] = d[w].members[LocalAccount] + 1
      BY <1>1, <2>1, <3>1, JoinedFacts
    <3> QED
      BY <2>1, <2>2, <3>3, <3>2 DEF Exact
  <2>4. CASE w \in p \ q
    <3>1. e[w] = Parted(d[w], Horizon, LocalAccount)
      BY <1>3, <1>4, <2>4
    <3>4. Pinned(p, w) = 1 /\ Pinned(q, w) = 0
      BY <2>4 DEF Pinned
    <3>2. d[w].presence > 0 /\ d[w].members[LocalAccount] > 0
      BY <2>1, <3>4 DEF Exact
    <3>3. /\ e[w] \in Bucket /\ e[w].key = d[w].key /\ e[w].presence = d[w].presence - 1
          /\ e[w].members[LocalAccount] = d[w].members[LocalAccount] - 1
      BY <1>1, <2>1, <3>1, <3>2, PartedFacts
    <3> QED
      BY <2>1, <2>2, <3>3, <3>4 DEF Exact
  <2>5. CASE (w \in p) = (w \in q)
    <3>1. e[w] = d[w] /\ Pinned(q, w) = Pinned(p, w)
      BY <1>3, <1>4, <2>5 DEF Pinned
    <3> QED
      BY <2>1, <2>2, <3>1 DEF Exact
  <2> QED
    BY <2>3, <2>4, <2>5
<1>5. Directory(e, n)
  BY <1>1, <1>2, <1>3, <1>4 DEF Directory
<1>6. Keyed(e, s) /\ Keyed(e, h)
  BY <1>3, <1>4 DEF Sound, Keyed
<1> QED
  BY <1>1, <1>3, <1>4, <1>5, <1>6 DEF Sound

\* All standing holds are given up at once.
LEMMA SoundUnstandAll ==
  ASSUME NEW d, NEW n, NEW p, NEW s, NEW h, Sound(d, n, p, s, h),
         NEW e, e = Unheld(d, {s[k] : k \in DOMAIN s})
  PROVE  Sound(e, n, p, <<>>, h) /\ DOMAIN e = DOMAIN d
<1> DEFINE ws == {s[k] : k \in DOMAIN s}
<1>1. LocalAccount \in Accounts /\ Horizon \in Nat /\ Directory(d, n)
  BY PresentationAssumption DEF Sound
<1>2. /\ DOMAIN e = DOMAIN d
      /\ \A w \in DOMAIN d : e[w] = IF w \in ws THEN Parted(d[w], Horizon, LocalAccount) ELSE d[w]
  BY DEF Unheld
<1>3. ASSUME NEW w \in DOMAIN d PROVE HeldBy(d, s, w) = IF w \in ws THEN 1 ELSE 0
  BY <1>3 DEF Sound, Keyed, HeldBy
<1> HIDE DEF ws
<1>4. ASSUME NEW w \in DOMAIN d
      PROVE  e[w] \in Bucket /\ e[w].key = d[w].key /\ Exact(e, p, <<>>, h, w)
  <2>1. /\ d[w] \in Bucket /\ Exact(d, p, s, h, w)
        /\ Pinned(p, w) \in {0, 1} /\ HeldBy(d, h, w) \in {0, 1}
    BY <1>4 DEF Sound, Directory, HeldBy, Pinned
  <2>2. HeldBy(e, <<>>, w) = 0 /\ (e[w].key = d[w].key => HeldBy(e, h, w) = HeldBy(d, h, w))
    BY DEF HeldBy
  <2>3. CASE w \in ws
    <3>1. e[w] = Parted(d[w], Horizon, LocalAccount) /\ HeldBy(d, s, w) = 1
      BY <1>2, <1>3, <1>4, <2>3
    <3>2. d[w].presence > 0 /\ d[w].members[LocalAccount] > 0
      BY <2>1, <3>1 DEF Exact
    <3>3. /\ e[w] \in Bucket /\ e[w].key = d[w].key /\ e[w].presence = d[w].presence - 1
          /\ e[w].members[LocalAccount] = d[w].members[LocalAccount] - 1
      BY <1>1, <2>1, <3>1, <3>2, PartedFacts
    <3> QED
      BY <2>1, <2>2, <3>1, <3>3 DEF Exact
  <2>4. CASE w \notin ws
    <3>1. e[w] = d[w] /\ HeldBy(d, s, w) = 0
      BY <1>2, <1>3, <1>4, <2>4
    <3> QED
      BY <2>1, <2>2, <3>1 DEF Exact
  <2> QED
    BY <2>3, <2>4
<1>5. Directory(e, n)
  <2>1. e = [w \in DOMAIN d |-> e[w]]
    BY <1>2 DEF Unheld
  <2> QED
    BY <1>1, <1>2, <1>4, <2>1 DEF Directory
<1>6. Keyed(e, <<>>) /\ Keyed(e, h) /\ HoldMap(<<>>, n)
  <2>1. Keyed(e, h)
    BY <1>2, <1>4 DEF Sound, Keyed
  <2>2. DOMAIN <<>> = {} /\ <<>> \in [DOMAIN <<>> -> 0 .. n]
    OBVIOUS
  <2> QED
    BY <2>1, <2>2 DEF Keyed, HoldMap
<1> QED
  BY <1>2, <1>4, <1>5, <1>6 DEF Sound

-----------------------------------------------------------------------------
(* The invariant of the directory, whoever reaps.                           *)

DirInv ==
  /\ Sound(dir, minted, pinned, standing, warm)
  /\ open = DOMAIN dir /\ reaped \subseteq 0 .. minted /\ reaped \cap DOMAIN dir = {}

LEMMA InitDirInv == Init => DirInv
<1> SUFFICES ASSUME Init PROVE DirInv
  OBVIOUS
<1> DEFINE b == FreshBucket(Home, FALSE, NoTime)
<1>1. /\ b \in Bucket /\ b.presence = 0 /\ b.members[LocalAccount] = 0
  BY PresentationAssumption DEF FreshBucket, Bucket
<1>2. dir = Extend(<<>>, 0, b)
  BY DEF Init, Register, Live
<1> HIDE DEF b
<1>3. DOMAIN dir = {0} /\ dir = [w \in {0} |-> b]
  <2>1. DOMAIN <<>> = {}
    OBVIOUS
  <2> QED
    BY <1>2, <2>1 DEF Extend
<1>4. Directory(dir, 0)
  BY <1>1, <1>3 DEF Directory
<1>5. HoldMap(<<>>, 0) /\ Keyed(dir, <<>>)
  BY DEF HoldMap, Keyed
<1>6. Exact(dir, {}, <<>>, <<>>, 0)
  BY <1>1, <1>3 DEF Exact, Pinned, HeldBy
<1> QED
  BY <1>3, <1>4, <1>5, <1>6 DEF Init, DirInv, Sound

\* A request whose key is resolved.
LEMMA ResolvedStep ==
  ASSUME DirInv, NEW k, NEW r, r = Resolve(dir, k, 0, minted + 1), Resolved(r)
  PROVE  /\ Sound(r.dir, minted', pinned, standing, warm)
         /\ open' = DOMAIN r.dir /\ reaped \subseteq 0 .. minted' /\ reaped \cap DOMAIN r.dir = {}
         /\ r.world \in DOMAIN r.dir /\ r.dir[r.world].key = k
         /\ DOMAIN dir \subseteq DOMAIN r.dir
<1> DEFINE f == minted + 1
<1>1. r.granted /\ minted' = (IF r.opened THEN f ELSE minted)
  BY DEF Resolved
<1>2. Sound(dir, minted, pinned, standing, warm) /\ minted \in Nat
  BY DEF DirInv, Sound
<1>3. /\ r.opened \in BOOLEAN
      /\ Sound(r.dir, IF r.opened THEN f ELSE minted, pinned, standing, warm)
      /\ DOMAIN r.dir = IF r.opened THEN DOMAIN dir \cup {r.world} ELSE DOMAIN dir
      /\ r.world \in DOMAIN r.dir /\ r.dir[r.world].key = k
      /\ r.opened => r.world = f
  <2> HIDE DEF f
  <2>1. f = minted + 1 /\ r = Resolve(dir, k, 0, f)
    BY DEF f
  <2> QED
    BY <1>1, <1>2, <2>1, SoundResolve
<1> QED
  BY <1>1, <1>2, <1>3 DEF DirInv, Resolved

\* A standing hold on the world a key was resolved to.
LEMMA StandStep ==
  ASSUME NEW d, NEW n, NEW p, NEW h, Sound(d, n, p, standing, h),
         NEW k, NEW w \in DOMAIN d, d[w].key = k, Stand(d, k, w)
  PROVE  Sound(dir', n, p, standing', h) /\ DOMAIN dir' = DOMAIN d
<1>1. CASE k \in DOMAIN standing
  <2>1. dir' = d /\ standing' = standing
    BY <1>1 DEF Stand, Extend, Sound, HoldMap
  <2> QED
    BY <2>1
<1>2. CASE k \notin DOMAIN standing
  <2>1. dir' = Acquire(d, w, LocalAccount) /\ standing' = Extend(standing, k, w)
    BY <1>2 DEF Stand
  <2> QED
    BY <1>2, <2>1, SoundStand
<1> QED
  BY <1>1, <1>2

\* What a reap leaves.
LEMMA ReapFacts ==
  ASSUME NEW d, NEW n, NEW p, NEW s, NEW h, Sound(d, n, p, s, h),
         NEW e, e = ReapIdle(d, Horizon)
  PROVE  /\ Sound(e, n, p, s, h) /\ DOMAIN e \subseteq DOMAIN d
         /\ \A w \in DOMAIN d \ DOMAIN e : d[w].presence = 0
<1> DEFINE c == Stamped(d, Horizon)
<1>1. Horizon \in Nat /\ Directory(d, n)
  BY PresentationAssumption DEF Sound
<1>2. /\ DOMAIN c = DOMAIN d /\ c = [w \in DOMAIN d |-> c[w]]
      /\ \A w \in DOMAIN d : c[w] = d[w] \/ c[w] = [d[w] EXCEPT !.idle = Horizon]
  BY DEF Stamped, Live
<1>3. ASSUME NEW w \in DOMAIN d
      PROVE  /\ c[w] \in Bucket /\ c[w].key = d[w].key /\ c[w].presence = d[w].presence
             /\ c[w].members = d[w].members
  <2>1. d[w] \in Bucket
    BY <1>1, <1>3 DEF Directory
  <2> QED
    BY <1>1, <1>2, <1>3, <2>1 DEF Bucket
<1>4. e = Drop(c, Due(c, Horizon))
  BY DEF ReapIdle
<1>5. Due(c, Horizon) \subseteq {w \in DOMAIN c : c[w].presence = 0}
  BY DEF Due, Idle, Live
<1> HIDE DEF c
<1>6. /\ DOMAIN e = DOMAIN d \ Due(c, Horizon)
      /\ e = [w \in DOMAIN d \ Due(c, Horizon) |-> c[w]]
  BY <1>2, <1>4 DEF Drop, Restrict, Live
<1>7. Directory(e, n)
  BY <1>1, <1>3, <1>6 DEF Directory
<1>8. Sound(e, n, p, s, h)
  BY <1>3, <1>6, <1>7, SoundFewer
<1> QED
  BY <1>2, <1>3, <1>5, <1>6, <1>8

\* The step of a reap, in either of its places.
LEMMA ReapStep ==
  ASSUME DirInv, Reap, UNCHANGED <<minted, pinned, standing, warm>>
  PROVE  DirInv' /\ \A w \in reaped' \ reaped : w \in DOMAIN dir /\ dir[w].presence = 0
<1> DEFINE e == ReapIdle(dir, Horizon)
<1>1. Sound(dir, minted, pinned, standing, warm)
  BY DEF DirInv
<1>2. /\ Sound(e, minted, pinned, standing, warm) /\ DOMAIN e \subseteq DOMAIN dir
      /\ \A w \in DOMAIN dir \ DOMAIN e : dir[w].presence = 0
  <2> HIDE DEF e
  <2>1. e = ReapIdle(dir, Horizon)
    BY DEF e
  <2> QED
    BY <1>1, <2>1, ReapFacts
<1>3. /\ dir' = e /\ open' = open \ (DOMAIN dir \ DOMAIN e)
      /\ reaped' = reaped \cup (DOMAIN dir \ DOMAIN e)
  BY DEF Reap, Live
<1> HIDE DEF e
<1>4. DOMAIN dir \subseteq 0 .. minted
  BY <1>1 DEF Sound, Directory
<1> QED
  BY <1>2, <1>3, <1>4 DEF DirInv

\* A change that leaves the worlds and the history alone.
LEMMA SameWorlds ==
  ASSUME DirInv, Sound(dir', minted', pinned', standing', warm'), DOMAIN dir' = DOMAIN dir,
         UNCHANGED <<minted, open, reaped>>
  PROVE  DirInv'
BY DEF DirInv

\* Every step of the model keeps the count.
LEMMA StepDirInv == DirInv /\ [Next]_vars => DirInv'
<1> SUFFICES ASSUME DirInv, [Next]_vars PROVE DirInv'
  OBVIOUS
<1>1. Sound(dir, minted, pinned, standing, warm)
  BY DEF DirInv
<1>2. ASSUME UNCHANGED <<dir, minted, open, pinned, standing, warm, reaped>> PROVE DirInv'
  BY <1>2 DEF DirInv
<1>3. CASE UNCHANGED vars
  BY <1>2, <1>3 DEF vars
<1>4. CASE ApplyRebinds \/ FireArrivals
  BY <1>2, <1>4 DEF ApplyRebinds, FireArrivals, holds
<1>5. CASE SyncPins
  <2> DEFINE e == Repinned(dir, pinned, Present)
  <2>1. dir' = e /\ pinned' = Present /\ UNCHANGED <<minted, open, standing, warm, reaped>>
    BY <1>5, EachUnpinned DEF SyncPins, holds
  <2>2. Present \subseteq DOMAIN dir
    BY DEF Present, Live
  <2> HIDE DEF e
  <2>3. e = Repinned(dir, pinned, Present)
    BY DEF e
  <2>4. Sound(e, minted, Present, standing, warm) /\ DOMAIN e = DOMAIN dir
    BY <1>1, <2>2, <2>3, SoundPins
  <2> QED
    BY <2>1, <2>4, SameWorlds
<1>6. CASE ReapDirectory
  <2>1. UNCHANGED <<minted, pinned, standing, warm>> /\ (Reap \/ UNCHANGED <<dir, open, reaped>>)
    BY <1>6 DEF ReapDirectory, holds
  <2> QED
    BY <1>2, <2>1, ReapStep
<1>7. CASE EndFrame
  <2>1. UNCHANGED <<minted, pinned, standing, warm>> /\ (Reap \/ UNCHANGED <<dir, open, reaped>>)
    BY <1>7 DEF EndFrame, holds
  <2> QED
    BY <1>2, <2>1, ReapStep
<1>8. CASE NextFrame(TRUE) \/ NextFrame(FALSE)
  <2>1. UNCHANGED <<minted, open, pinned, standing, warm, reaped>> /\ dir' \in {Aged(dir), dir}
    BY <1>8 DEF NextFrame, holds
  <2>2. CASE dir' = Aged(dir)
    <3>1. /\ DOMAIN dir' = DOMAIN dir /\ dir' = [w \in DOMAIN dir |-> dir'[w]]
          /\ \A w \in DOMAIN dir :
               dir'[w] = IF dir[w].idle \in {NoTime, 0} THEN dir[w]
                         ELSE [dir[w] EXCEPT !.idle = dir[w].idle - 1]
      BY <2>2 DEF Aged, Live
    <3>2. ASSUME NEW w \in DOMAIN dir
          PROVE  /\ dir'[w] \in Bucket /\ dir'[w].key = dir[w].key
                 /\ dir'[w].presence = dir[w].presence /\ dir'[w].members = dir[w].members
      <4>1. dir[w] \in Bucket
        BY <1>1, <3>2 DEF Sound, Directory
      <4> QED
        BY <3>1, <3>2, <4>1 DEF Bucket
    <3>3. Directory(dir', minted)
      BY <1>1, <3>1, <3>2 DEF Sound, Directory
    <3>4. Sound(dir', minted, pinned, standing, warm)
      BY <1>1, <3>1, <3>2, <3>3, SoundFewer
    <3> QED
      BY <2>1, <3>1, <3>4, SameWorlds
  <2> QED
    BY <1>2, <2>1, <2>2
<1>9. ASSUME NEW k, NEW durability, NEW heads, Travel(k, durability, heads) PROVE DirInv'
  <2> DEFINE r == Resolve(dir, k, 0, minted + 1)
  <2>1. /\ Resolved(r) /\ UNCHANGED <<pinned, warm, reaped>>
        /\ Stand(r.dir, k, r.world) \/ (dir' = r.dir /\ UNCHANGED standing)
    BY <1>9 DEF Travel
  <2> HIDE DEF r
  <2>2. r = Resolve(dir, k, 0, minted + 1)
    BY DEF r
  <2>3. /\ Sound(r.dir, minted', pinned, standing, warm)
        /\ open' = DOMAIN r.dir /\ reaped \subseteq 0 .. minted' /\ reaped \cap DOMAIN r.dir = {}
        /\ r.world \in DOMAIN r.dir /\ r.dir[r.world].key = k
    BY <2>1, <2>2, ResolvedStep
  <2>4. CASE Stand(r.dir, k, r.world)
    <3>1. Sound(dir', minted', pinned, standing', warm) /\ DOMAIN dir' = DOMAIN r.dir
      BY <2>3, <2>4, StandStep
    <3> QED
      BY <2>1, <2>3, <3>1 DEF DirInv
  <2>5. CASE dir' = r.dir /\ UNCHANGED standing
    BY <2>1, <2>3, <2>5 DEF DirInv
  <2> QED
    BY <2>1, <2>4, <2>5
<1>12. ASSUME NEW k, LeaveStanding(k) PROVE DirInv'
  BY <1>1, <1>12, SoundUnstand, SameWorlds DEF LeaveStanding
<1>13. ASSUME NEW k, HoldWorldWarm(k) PROVE DirInv'
  <2> DEFINE r == Resolve(dir, k, 0, minted + 1)
  <2>1. /\ Resolved(r) /\ k \notin DOMAIN warm /\ dir' = Acquire(r.dir, r.world, NoAccount)
        /\ warm' = Extend(warm, k, r.world) /\ UNCHANGED <<pinned, standing, reaped>>
    BY <1>13 DEF HoldWorldWarm
  <2> HIDE DEF r
  <2>2. r = Resolve(dir, k, 0, minted + 1)
    BY DEF r
  <2>3. /\ Sound(r.dir, minted', pinned, standing, warm)
        /\ open' = DOMAIN r.dir /\ reaped \subseteq 0 .. minted' /\ reaped \cap DOMAIN r.dir = {}
        /\ r.world \in DOMAIN r.dir /\ r.dir[r.world].key = k
    BY <2>1, <2>2, ResolvedStep
  <2>4. Sound(dir', minted', pinned, standing, warm') /\ DOMAIN dir' = DOMAIN r.dir
    BY <2>1, <2>3, SoundWarm
  <2> QED
    BY <2>1, <2>3, <2>4 DEF DirInv
<1>14. ASSUME NEW k, ReleaseWorldWarm(k) PROVE DirInv'
  BY <1>1, <1>14, SoundUnwarm, SameWorlds DEF ReleaseWorldWarm
<1>15. CASE Restore
  BY <1>2, <1>15 DEF Restore
<1>16. ASSUME NEW k, RestoreStanding(k) PROVE DirInv'
  <2> DEFINE r == Resolve(dir, k, 0, minted + 1)
  <2>1. /\ UNCHANGED <<pinned, warm, reaped>>
        /\ \/ UNCHANGED <<dir, minted, open, standing>>
           \/ Resolved(r) /\ Stand(r.dir, k, r.world)
    BY <1>16 DEF RestoreStanding
  <2>2. CASE UNCHANGED <<dir, minted, open, standing>>
    BY <1>2, <2>1, <2>2
  <2>3. CASE Resolved(r) /\ Stand(r.dir, k, r.world)
    <3> HIDE DEF r
    <3>1. r = Resolve(dir, k, 0, minted + 1)
      BY DEF r
    <3>2. /\ Sound(r.dir, minted', pinned, standing, warm)
          /\ open' = DOMAIN r.dir /\ reaped \subseteq 0 .. minted' /\ reaped \cap DOMAIN r.dir = {}
          /\ r.world \in DOMAIN r.dir /\ r.dir[r.world].key = k
      BY <2>3, <3>1, ResolvedStep
    <3>3. Sound(dir', minted', pinned, standing', warm) /\ DOMAIN dir' = DOMAIN r.dir
      BY <2>3, <3>2, StandStep
    <3> QED
      BY <2>1, <3>2, <3>3 DEF DirInv
  <2> QED
    BY <2>1, <2>2, <2>3
<1>17. CASE RestoreGameplay
  <2> DEFINE r == Resolve(dir, record.game, 0, minted + 1)
  <2>1. /\ UNCHANGED <<pinned, standing, warm, reaped>>
        /\ \/ UNCHANGED <<dir, minted, open>>
           \/ Resolved(r) /\ dir' = r.dir
    BY <1>17 DEF RestoreGameplay, holds
  <2>2. CASE Resolved(r) /\ dir' = r.dir
    BY <2>1, <2>2, ResolvedStep DEF DirInv
  <2> QED
    BY <1>2, <2>1, <2>2
<1>18. CASE ReleaseLocalSession
  <2> DEFINE e == Unheld(dir, {standing[k] : k \in DOMAIN standing})
  <2>1. dir' = e /\ standing' = <<>> /\ UNCHANGED <<minted, open, pinned, warm, reaped>>
    BY <1>18, EachUnheld DEF ReleaseLocalSession
  <2> HIDE DEF e
  <2>2. e = Unheld(dir, {standing[k] : k \in DOMAIN standing})
    BY DEF e
  <2>3. Sound(e, minted, pinned, <<>>, warm) /\ DOMAIN e = DOMAIN dir
    BY <1>1, <2>2, SoundUnstandAll
  <2> QED
    BY <2>1, <2>3, SameWorlds
<1>19. ASSUME NEW v, NEW w, NEW whenReady, RebindWorld(v, w, whenReady) PROVE DirInv'
  BY <1>2, <1>19 DEF RebindWorld, holds
<1>20. ASSUME NEW w, Close(w) PROVE DirInv'
  <2>1. /\ DOMAIN dir' = DOMAIN dir \ {w} /\ dir' = [u \in DOMAIN dir \ {w} |-> dir[u]]
        /\ open' = open \ {w} /\ UNCHANGED <<minted, pinned, standing, warm, reaped>>
    BY <1>20 DEF Close, Drop, Restrict, Live, holds
  <2>2. Directory(dir', minted)
    BY <1>1, <2>1 DEF Sound, Directory
  <2>3. \A u \in DOMAIN dir' : dir'[u] = dir[u]
    BY <2>1
  <2>4. Sound(dir', minted, pinned, standing, warm)
    BY <1>1, <2>1, <2>2, <2>3, SoundFewer
  <2> QED
    BY <2>1, <2>4 DEF DirInv
<1> QED
  BY <1>3, <1>4, <1>5, <1>6, <1>7, <1>8, <1>9, <1>12, <1>13, <1>14, <1>15, <1>16, <1>17,
     <1>18, <1>19, <1>20 DEF Next, Frame, Restoring, Requests

\* A world has one key, so the holds of one kind on it are one or none.
LEMMA HoldersCounted ==
  ASSUME NEW d, NEW m, Keyed(d, m), NEW w \in DOMAIN d
  PROVE  Cardinality({k \in DOMAIN m : m[k] = w}) = HeldBy(d, m, w)
<1>1. CASE d[w].key \in DOMAIN m /\ m[d[w].key] = w
  <2>1. {k \in DOMAIN m : m[k] = w} = {d[w].key}
    BY <1>1 DEF Keyed
  <2> QED
    BY <1>1, <2>1, FS_Singleton DEF HeldBy
<1>2. CASE ~(d[w].key \in DOMAIN m /\ m[d[w].key] = w)
  <2>1. {k \in DOMAIN m : m[k] = w} = {}
    BY <1>2 DEF Keyed
  <2> QED
    BY <1>2, <2>1, FS_EmptySet DEF HeldBy
<1> QED
  BY <1>1, <1>2

\* The presence of a bucket is the number of its local holders: the pin of its
\* presentation, its standing hold and its warm hold (Application.h:1444).
THEOREM PresenceCounted == Spec => []PresenceExact
<1>1. DirInv => PresenceExact
  <2> SUFFICES ASSUME DirInv, NEW w \in DOMAIN dir
               PROVE  /\ dir[w].members[LocalAccount] =
                           Cardinality(pinned \cap {w})
                             + Cardinality({k \in DOMAIN standing : standing[k] = w})
                      /\ dir[w].presence = dir[w].members[LocalAccount]
                           + Cardinality({k \in DOMAIN warm : warm[k] = w})
    BY DEF PresenceExact, Live
  <2>1. Keyed(dir, standing) /\ Keyed(dir, warm) /\ Exact(dir, pinned, standing, warm, w)
    BY DEF DirInv, Sound
  <2>2. Cardinality(pinned \cap {w}) = Pinned(pinned, w)
    <3>1. CASE w \in pinned
      BY <3>1, FS_Singleton, pinned \cap {w} = {w} DEF Pinned
    <3>2. CASE w \notin pinned
      BY <3>2, FS_EmptySet, pinned \cap {w} = {} DEF Pinned
    <3> QED
      BY <3>1, <3>2
  <2>3. /\ Cardinality({k \in DOMAIN standing : standing[k] = w}) = HeldBy(dir, standing, w)
        /\ Cardinality({k \in DOMAIN warm : warm[k] = w}) = HeldBy(dir, warm, w)
    BY <2>1, HoldersCounted
  <2>4. /\ Pinned(pinned, w) \in {0, 1} /\ HeldBy(dir, standing, w) \in {0, 1}
        /\ HeldBy(dir, warm, w) \in {0, 1}
    BY DEF Pinned, HeldBy
  <2> QED
    BY <2>1, <2>2, <2>3, <2>4 DEF Exact
<1> QED
  BY <1>1, InitDirInv, StepDirInv, PTL DEF Spec

-----------------------------------------------------------------------------
(* The reap of a process that hosts nobody comes right after the pins.        *)

RebindState == [world : Int, ready : BOOLEAN, waited : Nat, attempts : Nat]

GapInv ==
  /\ DirInv /\ pending \in [Viewports -> RebindState] /\ NeverReapedInGap
  /\ phase = "reap" => Present \subseteq pinned

LEMMA InitGapInv == Init => GapInv
<1> SUFFICES ASSUME Init PROVE GapInv
  OBVIOUS
<1>1. DOMAIN <<>> = {}
  OBVIOUS
<1>2. pending \in [Viewports -> RebindState]
  BY DEF Init, NoRebind, NoWorld, RebindState
<1> QED
  BY <1>1, <1>2, InitDirInv DEF Init, GapInv, NeverReapedInGap

\* What a travel or a restore puts in flight.
LEMMA RebindTyped ==
  ASSUME NEW w \in Int, NEW whenReady \in BOOLEAN
  PROVE  Rebind(w, whenReady) \in RebindState /\ Rebind(w, whenReady).world = w
BY DEF Rebind, RebindState

LEMMA WaitedTyped ==
  ASSUME NEW p \in RebindState
  PROVE  Waited(p) \in RebindState /\ Waited(p).world \in {p.world, NoWorld}
<1>1. p.world \in Int /\ p.ready \in BOOLEAN /\ p.waited \in Nat /\ p.attempts \in Nat
  BY DEF RebindState
<1>2. NoRebind \in RebindState /\ NoRebind.world = NoWorld
  BY DEF NoRebind, NoWorld, RebindState
<1> DEFINE again == [world |-> p.world, ready |-> p.ready, waited |-> 0, attempts |-> p.attempts + 1]
           later == [p EXCEPT !.waited = p.waited + 1]
<1>3. again \in RebindState /\ again.world = p.world
  BY <1>1 DEF RebindState
<1>4. later \in RebindState /\ later.world = p.world
  BY <1>1 DEF RebindState
<1>5. Waited(p) \in {later, again, NoRebind}
  BY DEF Waited
<1> HIDE DEF again, later
<1> QED
  BY <1>2, <1>3, <1>4, <1>5

\* What a step outside the reaps has to show: whatever it puts in flight or
\* holds has not been reaped.
LEMMA GapKept ==
  ASSUME GapInv, DirInv', reaped' = reaped, phase' # "reap",
         pending' \in [Viewports -> RebindState],
         \A v \in Viewports : shown'[v] \notin reaped /\ pending'[v].world \notin reaped,
         \A k \in DOMAIN standing' : standing'[k] \notin reaped,
         \A k \in DOMAIN warm' : warm'[k] \notin reaped
  PROVE  GapInv'
BY DEF GapInv, NeverReapedInGap

\* Every step of a process that hosts nobody keeps the invariant.
LEMMA StepGapInv == ~Hosting /\ GapInv /\ [Next]_vars => GapInv'
<1> SUFFICES ASSUME ~Hosting, GapInv, [Next]_vars PROVE GapInv'
  OBVIOUS
<1>0. /\ DirInv /\ DirInv' /\ Sound(dir, minted, pinned, standing, warm)
      /\ pending \in [Viewports -> RebindState] /\ NoWorld \in Int /\ NoWorld \notin reaped
      /\ reaped \subseteq Nat /\ reaped \cap open = {} /\ open \subseteq Nat
  BY StepDirInv DEF GapInv, DirInv, NoWorld, Sound, Directory
<1>1. /\ \A v \in Viewports : shown[v] \notin reaped /\ pending[v].world \notin reaped
      /\ \A k \in DOMAIN standing : standing[k] \notin reaped
      /\ \A k \in DOMAIN warm : warm[k] \notin reaped
  BY DEF GapInv, NeverReapedInGap
<1>2. ASSUME UNCHANGED <<shown, pending, reaped>>, phase' # "reap",
             \A k \in DOMAIN standing' : k \in DOMAIN standing /\ standing'[k] = standing[k],
             \A k \in DOMAIN warm' : k \in DOMAIN warm /\ warm'[k] = warm[k]
      PROVE  GapInv'
  BY <1>0, <1>1, <1>2, GapKept
\* A request resolves its key to a world no reap has taken.
<1>3. ASSUME NEW k, NEW r, r = Resolve(dir, k, 0, minted + 1), Resolved(r)
      PROVE  r.world \in Nat /\ r.world \notin reaped
  <2>1. /\ Sound(r.dir, minted', pinned, standing, warm)
        /\ reaped \cap DOMAIN r.dir = {} /\ r.world \in DOMAIN r.dir
    BY <1>0, <1>3, ResolvedStep
  <2> QED
    BY <2>1 DEF Sound, Directory
<1>4. ASSUME NEW m, NEW k, NEW w, w \notin reaped, \A x \in DOMAIN m : m[x] \notin reaped
      PROVE  \A x \in DOMAIN Extend(m, k, w) : Extend(m, k, w)[x] \notin reaped
  BY <1>4 DEF Extend
<1>5. ASSUME NEW v \in Viewports, NEW w \in Nat, w \notin reaped, NEW whenReady \in BOOLEAN,
             pending' = [pending EXCEPT ![v] = Rebind(w, whenReady)],
             UNCHANGED <<shown, standing, warm, reaped>>, phase' # "reap"
      PROVE  GapInv'
  <2>1. Rebind(w, whenReady) \in RebindState /\ Rebind(w, whenReady).world = w
    BY RebindTyped
  <2>2. /\ pending' \in [Viewports -> RebindState]
        /\ \A u \in Viewports : pending'[u] = pending[u] \/ pending'[u] = Rebind(w, whenReady)
    BY <1>0, <1>5, <2>1
  <2> QED
    BY <1>0, <1>1, <1>5, <2>1, <2>2, GapKept
<1>6. CASE UNCHANGED vars
  BY <1>0, <1>6 DEF vars, GapInv, NeverReapedInGap, Present, Live
<1>7. CASE ApplyRebinds
  <2>1. /\ phase' = "arrive" /\ UNCHANGED <<standing, warm, reaped>>
        /\ \A v \in Viewports : shown'[v] \in {shown[v], pending[v].world}
        /\ pending' = [v \in Viewports |-> pending'[v]]
        /\ \A v \in Viewports : pending'[v] \in {NoRebind, Waited(pending[v])}
    BY <1>7 DEF ApplyRebinds, Then, holds
  <2>2. ASSUME NEW v \in Viewports
        PROVE  pending'[v] \in RebindState /\ pending'[v].world \notin reaped
    <3>1. NoRebind \in RebindState /\ NoRebind.world = NoWorld
      BY DEF NoRebind, NoWorld, RebindState
    <3>2. Waited(pending[v]) \in RebindState /\ Waited(pending[v]).world \in {pending[v].world, NoWorld}
      BY <1>0, WaitedTyped
    <3> QED
      BY <1>0, <1>1, <2>1, <3>1, <3>2
  <2> QED
    BY <1>0, <1>1, <2>1, <2>2, GapKept
<1>8. CASE FireArrivals \/ NextFrame(TRUE) \/ NextFrame(FALSE) \/ EndFrame
  <2>1. phase' # "reap" /\ UNCHANGED <<shown, pending, standing, warm, reaped>>
    BY <1>8 DEF FireArrivals, NextFrame, EndFrame, Then, holds
  <2> QED
    BY <1>2, <2>1
<1>9. CASE SyncPins
  <2>1. /\ pinned' = Present /\ UNCHANGED <<shown, pending, standing, warm, reaped, open>>
    BY <1>9 DEF SyncPins, holds
  <2>2. DOMAIN dir' = DOMAIN dir
    BY <1>0, <2>1 DEF DirInv
  <2>3. Present' = Present
    BY <2>1, <2>2 DEF Present, Live
  <2> QED
    BY <1>0, <2>1, <2>3 DEF GapInv, NeverReapedInGap
\* Whatever a viewport shows or heads for is pinned, and whatever is held has
\* presence: the reap finds none of it idle.
<1>10. CASE ReapDirectory
  <2>1. /\ phase = "reap" /\ phase' # "reap" /\ Reap
        /\ UNCHANGED <<minted, shown, pending, pinned, standing, warm>>
    BY <1>10 DEF ReapDirectory, Then, holds
  <2>2. \A w \in reaped' \ reaped : w \in DOMAIN dir /\ dir[w].presence = 0
    BY <1>0, <2>1, ReapStep
  <2>3. ASSUME NEW w \in reaped' \ reaped
        PROVE  /\ w \notin pinned /\ HeldBy(dir, standing, w) = 0 /\ HeldBy(dir, warm, w) = 0
    <3>1. Exact(dir, pinned, standing, warm, w) /\ dir[w].presence = 0
      BY <1>0, <2>2, <2>3 DEF Sound
    <3>2. /\ Pinned(pinned, w) \in {0, 1} /\ HeldBy(dir, standing, w) \in {0, 1}
          /\ HeldBy(dir, warm, w) \in {0, 1} /\ (w \in pinned => Pinned(pinned, w) = 1)
      BY DEF Pinned, HeldBy
    <3> QED
      BY <3>1, <3>2 DEF Exact
  <2>4. \A v \in Viewports : shown[v] \notin reaped' /\ pending[v].world \notin reaped'
    BY <1>1, <2>1, <2>2, <2>3 DEF GapInv, Present, Live
  <2>5. ASSUME NEW k \in DOMAIN standing PROVE standing[k] \notin reaped'
    BY <1>0, <1>1, <2>2, <2>3, <2>5 DEF Sound, Keyed, HeldBy
  <2>6. ASSUME NEW k \in DOMAIN warm PROVE warm[k] \notin reaped'
    BY <1>0, <1>1, <2>2, <2>3, <2>6 DEF Sound, Keyed, HeldBy
  <2> QED
    BY <1>0, <2>1, <2>4, <2>5, <2>6 DEF GapInv, NeverReapedInGap
<1>11. ASSUME NEW k, NEW durability, NEW heads, Travel(k, durability, heads) PROVE GapInv'
  <2> DEFINE r == Resolve(dir, k, 0, minted + 1)
  <2>1. /\ Resolved(r) /\ UNCHANGED <<shown, warm, reaped>> /\ phase' # "reap"
        /\ UNCHANGED standing \/ standing' = Extend(standing, k, r.world)
        /\ pending' = [v \in Viewports |-> IF v \in heads THEN Rebind(r.world, TRUE)
                                           ELSE pending[v]]
    BY <1>11 DEF Travel, Asking, Stand
  <2>2. r.world \in Nat /\ r.world \notin reaped
    BY <1>3, <2>1
  <2> HIDE DEF r
  <2>3. Rebind(r.world, TRUE) \in RebindState /\ Rebind(r.world, TRUE).world = r.world
    <3>1. r.world \in Int /\ TRUE \in BOOLEAN
      BY <2>2
    <3> QED
      BY <3>1 DEF Rebind, RebindState
  <2>4. /\ pending' \in [Viewports -> RebindState]
        /\ \A v \in Viewports : pending'[v] = pending[v] \/ pending'[v] = Rebind(r.world, TRUE)
    BY <1>0, <2>1, <2>3
  <2>5. \A x \in DOMAIN standing' : standing'[x] \notin reaped
    BY <1>1, <1>4, <2>1, <2>2
  <2> QED
    BY <1>0, <1>1, <2>1, <2>2, <2>3, <2>4, <2>5, GapKept
<1>14. ASSUME NEW k, LeaveStanding(k) \/ ReleaseWorldWarm(k) PROVE GapInv'
  BY <1>2, <1>14 DEF LeaveStanding, ReleaseWorldWarm, Asking, Restrict
<1>15. ASSUME NEW k, HoldWorldWarm(k) PROVE GapInv'
  <2> DEFINE r == Resolve(dir, k, 0, minted + 1)
  <2>1. /\ Resolved(r) /\ warm' = Extend(warm, k, r.world)
        /\ UNCHANGED <<shown, pending, standing, reaped>> /\ phase' # "reap"
    BY <1>15 DEF HoldWorldWarm, Asking
  <2>2. r.world \in Nat /\ r.world \notin reaped
    BY <1>3, <2>1
  <2> QED
    BY <1>0, <1>1, <1>4, <2>1, <2>2, GapKept
<1>16. CASE Restore
  BY <1>2, <1>16 DEF Restore, Then
<1>17. ASSUME NEW k, RestoreStanding(k) PROVE GapInv'
  <2> DEFINE r == Resolve(dir, k, 0, minted + 1)
  <2>1. /\ UNCHANGED <<shown, pending, warm, reaped>> /\ phase' # "reap"
        /\ \/ UNCHANGED standing
           \/ Resolved(r) /\ standing' = Extend(standing, k, r.world)
    BY <1>17 DEF RestoreStanding, Stand
  <2>2. Resolved(r) => r.world \in Nat /\ r.world \notin reaped
    BY <1>3
  <2> QED
    BY <1>0, <1>1, <1>4, <2>1, <2>2, GapKept
<1>18. CASE RestoreGameplay
  <2> DEFINE r == Resolve(dir, record.game, 0, minted + 1)
  <2>1. /\ UNCHANGED <<shown, standing, warm, reaped>> /\ phase' # "reap"
        /\ \/ UNCHANGED pending
           \/ Resolved(r) /\ pending' = [pending EXCEPT ![Primary] = Rebind(r.world, TRUE)]
    BY <1>18 DEF RestoreGameplay, Then, holds
  <2>2. Resolved(r) => r.world \in Nat /\ r.world \notin reaped
    BY <1>3
  <2> QED
    BY <1>2, <1>5, <2>1, <2>2, PresentationAssumption
<1>19. CASE ReleaseLocalSession
  <2>1. DOMAIN <<>> = {}
    OBVIOUS
  <2> QED
    BY <1>2, <1>19, <2>1 DEF ReleaseLocalSession, Asking
<1>20. ASSUME NEW v \in Viewports, NEW w \in open, NEW whenReady \in BOOLEAN,
              RebindWorld(v, w, whenReady)
       PROVE  GapInv'
  BY <1>0, <1>5, <1>20 DEF RebindWorld, Asking, holds
<1>21. ASSUME NEW w, Close(w) PROVE GapInv'
  BY <1>2, <1>21 DEF Close, Asking, holds
<1> QED
  BY <1>6, <1>7, <1>8, <1>9, <1>10, <1>11, <1>14, <1>15, <1>16, <1>17, <1>18, <1>19,
     <1>20, <1>21 DEF Next, Frame, Restoring, Requests

\* A process that hosts nobody never reaps a world that is shown, headed for, or
\* held (Application.h:1912).
THEOREM SparedInGap == ASSUME ~Hosting PROVE Spec => []NeverReapedInGap
<1>1. GapInv => NeverReapedInGap
  BY DEF GapInv
<1> QED
  BY <1>1, InitGapInv, StepGapInv, PTL DEF Spec
=============================================================================
