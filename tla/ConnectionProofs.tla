--------------------------- MODULE ConnectionProofs ---------------------------
(***************************************************************************)
(* Proofs about Connection.tla: the messages arrive in order, each once; a   *)
(* message leaves the outbox only when the peer has it; nothing is stuck in  *)
(* the reorder buffer.  The hypothesis of all three is that one of the ends  *)
(* waits to be spoken to, as a server does: a header sent before anything    *)
(* was heard acknowledges packet 0 (Connection.cpp:119).                     *)
(*                                                                         *)
(* The code keeps no history, so the invariant says that one exists: for     *)
(* each direction the stream s of all units ever sent, the number d of them  *)
(* delivered, and the packets w that carried them.  Every variable of the    *)
(* two connections is then placed against it: the receiver expects unit      *)
(* d + 1 and holds later ones, the outbox holds whatever has not arrived,    *)
(* and a sequence that anyone may acknowledge is of a packet whose unit has. *)
(* What every step must keep is split into lemmas about one part of a link   *)
(* each, whose hypotheses are named (Streamed, Queued, Wire, Heard...).      *)
(***************************************************************************)
EXTENDS Connection, SequenceTheorems, FiniteSetTheorems, FunctionTheorems, WellFoundedInduction, TLAPS
-----------------------------------------------------------------------------
(* Counting round the circle.                                               *)

LEMMA Widths ==
  /\ SeqSpace \in Nat \ {0} /\ A!Half \in Nat /\ SeqSpace = A!Half + A!Half
  /\ Window \in Nat \ {0} /\ MaxPackets \in Nat /\ MaxOutstanding \in Nat
  /\ MaxPackets + Window < A!Half /\ MaxOutstanding < A!Half
  /\ MaxFragments \in Nat /\ MaxMessages \in Nat
<1>1. /\ Window \in Nat \ {0} /\ SeqSpace \in Nat /\ SeqSpace % 2 = 0 /\ 2 * Window < SeqSpace
  BY CircleAssumption DEF A!WindowAssumption
<1>2. A!Half \in Nat /\ SeqSpace = A!Half + A!Half
  BY <1>1 DEF A!Half
<1> QED
  BY <1>1, <1>2, NetworkAssumption, BoundAssumption

\* The two ends.
LEMMA Others ==
  ASSUME NEW e \in Ends
  PROVE  /\ Other(e) \in Ends /\ Other(e) # e /\ Other(Other(e)) = e
         /\ \A x \in Ends : x # e => x = Other(e)
<1>1. PICK a \in Ends, b \in Ends : a # b /\ Ends = {a, b}
  BY EndsAssumption
<1>2. \A x \in Ends : Other(x) \in Ends /\ Other(x) # x
  BY <1>1 DEF Other
<1> QED
  BY <1>1, <1>2

LEMMA Remainder ==
  ASSUME NEW m \in Nat, NEW q \in Nat, NEW r \in 0 .. m - 1
  PROVE  (m * q + r) % m = r
OBVIOUS

\* A sequence and less than a turn: the wrap takes a turn off at most once.
LEMMA PlusOnce ==
  ASSUME NEW a \in A!Seqs, NEW n \in 0 .. SeqSpace - 1
  PROVE  /\ Plus(a, n) = IF a + n < SeqSpace THEN a + n ELSE a + n - SeqSpace
         /\ Plus(a, n) \in A!Seqs
<1> DEFINE m == SeqSpace
<1>1. m \in Nat \ {0} /\ a \in 0 .. m - 1 /\ n \in 0 .. m - 1
  BY Widths DEF A!Seqs
<1>2. Plus(a, n) = (a + n) % m
  BY DEF Plus
<1> HIDE DEF m
<1>3. CASE a + n < m
  <2> DEFINE r == a + n
  <2>1. r \in 0 .. m - 1 /\ r = m * 0 + r
    BY <1>1, <1>3
  <2>2. (m * 0 + r) % m = r
    BY <1>1, <2>1, Remainder
  <2> QED
    BY <1>1, <1>2, <1>3, <2>1, <2>2 DEF A!Seqs, m
<1>4. CASE ~(a + n < m)
  <2> DEFINE r == a + n - m
  <2>1. r \in 0 .. m - 1 /\ a + n = m * 1 + r
    BY <1>1, <1>4
  <2>2. (m * 1 + r) % m = r
    BY <1>1, <2>1, Remainder
  <2> QED
    BY <1>1, <1>2, <1>4, <2>1, <2>2 DEF A!Seqs, m
<1> QED
  BY <1>3, <1>4

LEMMA BackOnce ==
  ASSUME NEW a \in A!Seqs, NEW b \in A!Seqs
  PROVE  /\ A!Back(a, b) = IF a >= b THEN a - b ELSE a + SeqSpace - b
         /\ A!Back(a, b) \in A!Seqs
<1> DEFINE m == SeqSpace
<1>1. m \in Nat \ {0} /\ a \in 0 .. m - 1 /\ b \in 0 .. m - 1
  BY Widths DEF A!Seqs
<1>2. A!Back(a, b) = (a + m - b) % m
  BY DEF A!Back
<1> HIDE DEF m
<1>3. CASE ~(a >= b)
  <2> DEFINE r == a + m - b
  <2>1. r \in 0 .. m - 1 /\ r = m * 0 + r
    BY <1>1, <1>3
  <2>2. (m * 0 + r) % m = r
    BY <1>1, <2>1, Remainder
  <2> QED
    BY <1>1, <1>2, <1>3, <2>1, <2>2 DEF A!Seqs, m
<1>4. CASE a >= b
  <2> DEFINE r == a - b
  <2>1. r \in 0 .. m - 1 /\ a + m - b = m * 1 + r
    BY <1>1, <1>4
  <2>2. (m * 1 + r) % m = r
    BY <1>1, <2>1, Remainder
  <2> QED
    BY <1>1, <1>2, <1>4, <2>1, <2>2 DEF A!Seqs, m
<1> QED
  BY <1>3, <1>4

\* Steps add up, and less than a turn of them can be told apart.
LEMMA PlusPlus ==
  ASSUME NEW a \in A!Seqs, NEW m \in Nat, NEW n \in Nat, m + n < SeqSpace
  PROVE  Plus(Plus(a, m), n) = Plus(a, m + n)
<1>1. m \in 0 .. SeqSpace - 1 /\ n \in 0 .. SeqSpace - 1 /\ m + n \in 0 .. SeqSpace - 1
  BY Widths
<1>2. /\ Plus(a, m) = IF a + m < SeqSpace THEN a + m ELSE a + m - SeqSpace
      /\ Plus(a, m) \in A!Seqs
  BY <1>1, PlusOnce
<1>3. Plus(a, m + n) = IF a + (m + n) < SeqSpace THEN a + (m + n) ELSE a + (m + n) - SeqSpace
  BY <1>1, PlusOnce
<1> DEFINE b == Plus(a, m)
<1>4. b \in A!Seqs
  BY <1>2
<1> HIDE DEF b
<1>5. Plus(b, n) = IF b + n < SeqSpace THEN b + n ELSE b + n - SeqSpace
  BY <1>1, <1>4, PlusOnce
<1>6. a \in Nat /\ a < SeqSpace
  BY Widths DEF A!Seqs
<1> QED
  BY <1>1, <1>2, <1>3, <1>5, <1>6, Widths DEF b

LEMMA PlusApart ==
  ASSUME NEW a \in A!Seqs, NEW x \in 0 .. SeqSpace - 1, NEW y \in 0 .. SeqSpace - 1
  PROVE  /\ Plus(a, x) = Plus(a, y) => x = y
         /\ y <= x => A!Back(Plus(a, x), Plus(a, y)) = x - y
         /\ y < x /\ x - y < A!Half => A!Newer(Plus(a, x), Plus(a, y))
         /\ y <= x /\ x - y < A!Half => ~A!Newer(Plus(a, y), Plus(a, x))
<1> DEFINE p == Plus(a, x)
           q == Plus(a, y)
<1>1. /\ p = IF a + x < SeqSpace THEN a + x ELSE a + x - SeqSpace
      /\ q = IF a + y < SeqSpace THEN a + y ELSE a + y - SeqSpace
      /\ p \in A!Seqs /\ q \in A!Seqs
  BY PlusOnce
<1> HIDE DEF p, q
<1>2. A!Back(p, q) = IF p >= q THEN p - q ELSE p + SeqSpace - q
  BY <1>1, BackOnce
<1>3. a \in 0 .. SeqSpace - 1 /\ p \in 0 .. SeqSpace - 1 /\ q \in 0 .. SeqSpace - 1
      /\ SeqSpace \in Nat \ {0} /\ A!Half \in Nat /\ SeqSpace = A!Half + A!Half
  BY <1>1, Widths DEF A!Seqs
<1>4. p = q => x = y
  BY <1>1, <1>3
<1>5. y <= x => A!Back(p, q) = x - y
  BY <1>1, <1>2, <1>3
<1>6. y < x /\ x - y < A!Half => A!Newer(p, q)
  BY <1>1, <1>3 DEF A!Newer
<1>7. y <= x /\ x - y < A!Half => ~A!Newer(q, p)
  BY <1>1, <1>3 DEF A!Newer
<1> QED
  BY <1>4, <1>5, <1>6, <1>7 DEF p, q

-----------------------------------------------------------------------------
(* The window of received sequences: it never acknowledges one it has not    *)
(* been given.  That is arithmetic on the circle, in any order of arrival.   *)

\* An AckState, by its fields.
IsAcks(w) == /\ w = [heard |-> w.heard, remote |-> w.remote, bits |-> w.bits]
             /\ w.heard \in BOOLEAN /\ w.remote \in A!Seqs /\ w.bits \subseteq 1 .. Window

LEMMA ReceivedAcks ==
  ASSUME NEW w, IsAcks(w), NEW seq \in A!Seqs
  PROVE  /\ IsAcks(A!Received(w, seq)) /\ A!Received(w, seq).heard
         /\ A!Acked(A!Received(w, seq)) \subseteq A!Acked(w) \cup {seq}
<1> DEFINE r == A!Received(w, seq)
<1>0. w.remote \in A!Seqs /\ w.bits \subseteq 1 .. Window /\ w.heard \in BOOLEAN
      /\ w = [heard |-> w.heard, remote |-> w.remote, bits |-> w.bits]
  BY DEF IsAcks
<1>1. CASE ~w.heard
  <2>1. r = [heard |-> TRUE, remote |-> seq, bits |-> {}]
    BY <1>1 DEF A!Received
  <2> HIDE DEF r
  <2>2. IsAcks(r) /\ r.heard /\ A!Acked(r) = {seq}
    BY <2>1 DEF IsAcks, A!Acked
  <2> QED
    BY <2>2 DEF r
<1>2. CASE w.heard /\ A!Newer(seq, w.remote)
  <2> DEFINE shift == A!Back(seq, w.remote)
             bits == A!Slide(w, shift)
  <2>1. r = [heard |-> TRUE, remote |-> seq, bits |-> bits]
    BY <1>2 DEF A!Received
  <2>2. shift \in A!Seqs /\ shift = IF seq >= w.remote THEN seq - w.remote ELSE seq + SeqSpace - w.remote
    BY <1>0, BackOnce
  <2>3. bits \subseteq 1 .. Window
        /\ \A b \in bits : shift < Window /\ (b = shift \/ \E d \in w.bits : b = d + shift)
    <3> HIDE DEF shift
    <3> QED
      BY <2>2, Widths DEF A!Slide, A!Seqs
  <2> HIDE DEF r, bits, shift
  <2>4. IsAcks(r) /\ r.heard /\ A!Acked(r) = {seq} \cup {A!Back(seq, b) : b \in bits}
    BY <2>1, <2>3 DEF IsAcks, A!Acked
  <2>5. ASSUME NEW b \in bits PROVE A!Back(seq, b) \in A!Acked(w)
    <3>1. b \in A!Seqs /\ b \in 1 .. Window /\ b < SeqSpace
      BY <2>3, Widths DEF A!Seqs
    <3>2. A!Back(seq, b) = IF seq >= b THEN seq - b ELSE seq + SeqSpace - b
      BY <3>1, BackOnce
    <3>3. CASE b = shift
      <4>1. A!Back(seq, b) = w.remote
        BY <1>0, <2>2, <3>2, <3>3, Widths DEF A!Seqs
      <4> QED
        BY <1>2, <4>1 DEF A!Acked
    <3>4. ASSUME NEW d \in w.bits, b = d + shift PROVE A!Back(seq, b) \in A!Acked(w)
      <4>1. d \in A!Seqs
        BY <1>0, Widths DEF A!Seqs
      <4>2. A!Back(w.remote, d) = IF w.remote >= d THEN w.remote - d ELSE w.remote + SeqSpace - d
        BY <1>0, <4>1, BackOnce
      <4>3. A!Back(seq, b) = A!Back(w.remote, d)
        BY <1>0, <2>2, <3>1, <3>2, <3>4, <4>1, <4>2, Widths DEF A!Seqs
      <4> QED
        BY <1>2, <4>3 DEF A!Acked
    <3> QED
      BY <2>3, <3>3, <3>4
  <2> QED
    BY <2>4, <2>5 DEF r
<1>3. CASE w.heard /\ ~A!Newer(seq, w.remote)
  <2> DEFINE back == A!Back(w.remote, seq)
             bits == w.bits \cup ({back} \cap 1 .. Window)
  <2>1. r = [w EXCEPT !.bits = bits]
    BY <1>3 DEF A!Received
  <2>2. back \in A!Seqs
        /\ back = IF w.remote >= seq THEN w.remote - seq ELSE w.remote + SeqSpace - seq
    BY <1>0, BackOnce
  <2>3. A!Back(w.remote, back) = seq
    <3> HIDE DEF back
    <3>1. A!Back(w.remote, back) = IF w.remote >= back THEN w.remote - back ELSE w.remote + SeqSpace - back
      BY <1>0, <2>2, BackOnce
    <3> QED
      BY <1>0, <2>2, <3>1, Widths DEF A!Seqs
  <2>4. bits \subseteq 1 .. Window /\ \A b \in bits : b \in w.bits \/ b = back
    BY <1>0
  <2>5. r = [heard |-> TRUE, remote |-> w.remote, bits |-> bits]
    <3> HIDE DEF bits
    <3> QED
      BY <1>0, <1>3, <2>1
  <2> HIDE DEF r, bits, back
  <2>6. IsAcks(r) /\ r.heard /\ A!Acked(r) = {w.remote} \cup {A!Back(w.remote, b) : b \in bits}
    BY <1>0, <2>4, <2>5 DEF IsAcks, A!Acked
  <2>7. A!Acked(w) = {w.remote} \cup {A!Back(w.remote, b) : b \in w.bits}
    BY <1>3 DEF A!Acked
  <2> QED
    BY <2>3, <2>4, <2>6, <2>7 DEF r
<1> QED
  BY <1>0, <1>1, <1>2, <1>3
-----------------------------------------------------------------------------
(* What CHOOSE and recursion build: enumerations, runs and folds.           *)

\* A non-empty set of numbers has a least one.
LEMMA LeastOf ==
  ASSUME NEW S, S \subseteq Nat, S # {}
  PROVE  \E x \in S : \A y \in S : x =< y
<1> DEFINE R == {ss \in Nat \X Nat : ss[1] < ss[2]}
<1>1. IsWellFoundedOn(R, Nat)
  BY NatLessThanWellFounded, Zenon DEF OpToRel
<1>2. PICK x \in S : \A y \in S : ~(<<y, x>> \in R)
  <2> HIDE DEF R
  <2> QED
    BY <1>1, WFMin, Zenon
<1>3. ASSUME NEW y \in S PROVE x =< y
  <2>1. <<y, x>> \in Nat \X Nat /\ <<y, x>>[1] = y /\ <<y, x>>[2] = x
    OBVIOUS
  <2>2. ~(y < x)
    BY <1>2, <2>1
  <2> QED
    BY <2>2
<1> QED
  BY <1>3

\* The numbers of a set of numbers, counted up.
Counts(S, m, f) == /\ m \in Nat /\ Cardinality(S) = m /\ f \in [1 .. m -> S]
                   /\ \A i, j \in 1 .. m : i < j => f[i] < f[j]
                   /\ \A x \in S : \E i \in 1 .. m : f[i] = x

LEMMA Counted ==
  ASSUME NEW S, NEW n \in Nat, \A x \in S : x \in 1 .. n
  PROVE  \E m, f : Counts(S, m, f)
<1> DEFINE Low(k) == {x \in S : x =< k}
           Bad == {k \in Nat : ~\E m, f : Counts(Low(k), m, f)}
<1>0. \A x \in S : x \in Nat /\ 1 =< x /\ x =< n
  OBVIOUS
<1> HIDE DEF Bad
<1>1. \A k \in Nat : IsFiniteSet(Low(k))
  <2> SUFFICES ASSUME NEW k \in Nat PROVE IsFiniteSet(Low(k))
    OBVIOUS
  <2>1. Low(k) \in SUBSET (1 .. n) /\ IsFiniteSet(1 .. n)
    BY <1>0, FS_Interval
  <2> QED
    BY <2>1, FS_Subset
<1>2. 0 \notin Bad
  <2>1. Low(0) = {}
    BY <1>0
  <2>2. Counts({}, 0, <<>>)
    BY FS_EmptySet DEF Counts
  <2> QED
    BY <2>1, <2>2 DEF Bad
<1>3. ASSUME NEW k \in Nat, k \notin Bad PROVE k + 1 \notin Bad
  <2>1. PICK m, f : Counts(Low(k), m, f)
    BY <1>3 DEF Bad
  <2> SUFFICES \E p, h : Counts(Low(k + 1), p, h)
    BY DEF Bad
  <2>2. CASE k + 1 \notin S
    <3>1. Low(k + 1) = Low(k)
      BY <1>0, <2>2
    <3> QED
      BY <2>1, <3>1
  <2>3. CASE k + 1 \in S
    <3> DEFINE g == [i \in 1 .. m + 1 |-> IF i =< m THEN f[i] ELSE k + 1]
               T == Low(k)
    <3>1. Low(k + 1) = T \cup {k + 1} /\ k + 1 \notin T /\ \A x \in T : x \in Nat /\ x =< k
      BY <1>0, <2>3
    <3>2. IsFiniteSet(T) /\ Counts(T, m, f)
      BY <1>1, <2>1
    <3> HIDE DEF T
    <3>3. m \in Nat /\ Cardinality(T) = m /\ f \in [1 .. m -> T]
          /\ (\A i, j \in 1 .. m : i < j => f[i] < f[j])
          /\ \A x \in T : \E i \in 1 .. m : f[i] = x
      BY <3>2 DEF Counts
    <3>4. Cardinality(T \cup {k + 1}) = m + 1
      BY <3>1, <3>2, <3>3, FS_AddElement
    <3>5. g \in [1 .. m + 1 -> T \cup {k + 1}]
      BY <3>3
    <3>6. \A i, j \in 1 .. m + 1 : i < j => g[i] < g[j]
      BY <3>1, <3>3
    <3>7. \A x \in T \cup {k + 1} : \E i \in 1 .. m + 1 : g[i] = x
      <4> SUFFICES ASSUME NEW x \in T \cup {k + 1} PROVE \E i \in 1 .. m + 1 : g[i] = x
        OBVIOUS
      <4>1. CASE x \in T
        <5>1. PICK i \in 1 .. m : f[i] = x
          BY <4>1, <3>3
        <5>2. i \in 1 .. m + 1 /\ g[i] = x
          BY <3>3, <5>1
        <5> QED
          BY <5>2
      <4>2. CASE x = k + 1
        <5>1. m + 1 \in 1 .. m + 1 /\ g[m + 1] = x
          BY <3>3, <4>2
        <5> QED
          BY <5>1
      <4> QED
        BY <4>1, <4>2
    <3> HIDE DEF g
    <3>8. Counts(T \cup {k + 1}, m + 1, g)
      BY <3>3, <3>4, <3>5, <3>6, <3>7 DEF Counts
    <3> QED
      BY <3>1, <3>8
  <2> QED
    BY <2>2, <2>3
<1>4. Bad = {}
  <2> SUFFICES ASSUME Bad # {} PROVE FALSE
    OBVIOUS
  <2>1. PICK k \in Bad : \A l \in Bad : k =< l
    <3>1. Bad \subseteq Nat
      BY DEF Bad
    <3> QED
      BY <3>1, LeastOf
  <2>2. k \in Nat /\ k # 0
    BY <1>2 DEF Bad
  <2>3. k - 1 \in Nat /\ k - 1 \notin Bad
    BY <2>1, <2>2
  <2>4. (k - 1) + 1 \notin Bad
    BY <1>3, <2>3
  <2> QED
    BY <2>1, <2>2, <2>4
<1>5. n \notin Bad
  BY <1>4
<1>6. Low(n) = S
  BY <1>0
<1> QED
  BY <1>5, <1>6 DEF Bad

LEMMA SortedCounts ==
  ASSUME NEW S, NEW n \in Nat, \A x \in S : x \in 1 .. n
  PROVE  Counts(S, Cardinality(S), Sorted(S))
<1>0. \A x \in S : x \in Int
  OBVIOUS
<1>1. PICK m, g : Counts(S, m, g)
  BY Counted
<1> DEFINE f == Sorted(S)
<1>2. m \in Nat /\ Cardinality(S) = m
  BY <1>1 DEF Counts
<1>3. /\ f \in [1 .. m -> S] /\ \A i, j \in 1 .. m : i < j => f[i] < f[j]
  <2>1. \E h \in [1 .. Cardinality(S) -> S] : \A i, j \in DOMAIN h : i < j => h[i] < h[j]
    BY <1>1 DEF Counts
  <2>2. f \in [1 .. Cardinality(S) -> S] /\ \A i, j \in DOMAIN f : i < j => f[i] < f[j]
    BY <2>1, Zenon DEF Sorted
  <2> QED
    BY <1>2, <2>2
<1> HIDE DEF f
<1>4. IsFiniteSet(S)
  <2>1. S \in SUBSET (1 .. n) /\ IsFiniteSet(1 .. n)
    BY FS_Interval
  <2> QED
    BY <2>1, FS_Subset
<1>5. f \in Injection(1 .. m, S)
  <2>1. \A i, j \in 1 .. m : f[i] = f[j] => i = j
    <3> SUFFICES ASSUME NEW i \in 1 .. m, NEW j \in 1 .. m, f[i] = f[j] PROVE i = j
      OBVIOUS
    <3>1. f[i] \in S /\ f[j] \in S
      BY <1>3
    <3>2. ~(i < j) /\ ~(j < i)
      BY <1>0, <1>3, <3>1
    <3> QED
      BY <1>2, <3>2
  <2> QED
    BY <1>3, <2>1 DEF Injection, IsInjective
<1>6. Cardinality(1 .. m) = m
  BY <1>2, FS_Interval
<1>7. f \in Surjection(1 .. m, S)
  BY <1>2, <1>4, <1>5, <1>6, FS_Injection
<1>8. \A x \in S : \E i \in 1 .. m : f[i] = x
  BY <1>7 DEF Surjection
<1> QED
  BY <1>2, <1>3, <1>8 DEF Counts, f

\* Accepting one unit after the other passes through one state per unit.
Steps(g, st, units, k) == g = [i \in 0 .. k |-> IF i = 0 THEN st ELSE Accept(g[i - 1], units[i])]

LEMMA AcceptSteps ==
  ASSUME NEW st, NEW units, Len(units) \in Nat
  PROVE  \E g : Steps(g, st, units, Len(units)) /\ AcceptAll(st, units) = g[Len(units)]
<1> DEFINE Bad == {k \in Nat : ~\E g : Steps(g, st, units, k)}
<1>1. 0 \notin Bad
  <2> DEFINE g == [i \in 0 .. 0 |-> st]
  <2>1. Steps(g, st, units, 0)
    BY DEF Steps
  <2> QED
    BY <2>1
<1>2. ASSUME NEW k \in Nat, k \notin Bad PROVE k + 1 \notin Bad
  <2>1. PICK g : Steps(g, st, units, k)
    BY <1>2
  <2> DEFINE h == [i \in 0 .. k + 1 |-> IF i =< k THEN g[i] ELSE Accept(g[k], units[k + 1])]
             b == [i \in 0 .. k + 1 |-> IF i = 0 THEN st ELSE Accept(h[i - 1], units[i])]
  <2>2. \A i \in 0 .. k : g[i] = IF i = 0 THEN st ELSE Accept(g[i - 1], units[i])
    BY <2>1, Zenon DEF Steps
  <2>3. \A i \in 0 .. k + 1 : h[i] = b[i]
    <3> SUFFICES ASSUME NEW i \in 0 .. k + 1 PROVE h[i] = b[i]
      OBVIOUS
    <3>1. CASE i = 0
      BY <2>2, <3>1
    <3>2. CASE i # 0 /\ i =< k
      <4>1. h[i] = g[i] /\ i - 1 \in 0 .. k + 1 /\ i - 1 =< k /\ i \in 0 .. k
        BY <3>2
      <4>2. h[i - 1] = g[i - 1]
        BY <4>1
      <4>3. b[i] = Accept(h[i - 1], units[i])
        BY <3>2
      <4>4. g[i] = Accept(g[i - 1], units[i])
        BY <2>2, <3>2, <4>1
      <4> QED
        BY <4>1, <4>2, <4>3, <4>4
    <3>3. CASE i = k + 1
      <4>1. h[i] = Accept(g[k], units[i]) /\ i - 1 = k /\ i # 0
        BY <3>3
      <4>2. h[k] = g[k]
        OBVIOUS
      <4>3. b[i] = Accept(h[k], units[i])
        BY <4>1
      <4> QED
        BY <4>1, <4>2, <4>3
    <3> QED
      BY <3>1, <3>2, <3>3
  <2>4. h = b
    BY <2>3
  <2>5. Steps(h, st, units, k + 1)
    BY <2>4 DEF Steps
  <2> QED
    BY <2>5
<1>3. Bad = {}
  <2> SUFFICES ASSUME Bad # {} PROVE FALSE
    OBVIOUS
  <2>1. PICK k \in Bad : \A l \in Bad : k =< l
    <3>1. Bad \subseteq Nat
      OBVIOUS
    <3> HIDE DEF Bad
    <3> QED
      BY <3>1, LeastOf
  <2>2. k \in Nat /\ k # 0
    BY <1>1
  <2>3. k - 1 \in Nat /\ k - 1 \notin Bad
    <3> HIDE DEF Bad
    <3> QED
      BY <2>1, <2>2
  <2> HIDE DEF Bad
  <2>4. (k - 1) + 1 \notin Bad
    BY <1>2, <2>3
  <2> QED
    BY <2>1, <2>2, <2>4
<1> DEFINE n == Len(units)
           after == CHOOSE g : g = [i \in 0 .. n |-> IF i = 0 THEN st ELSE Accept(g[i - 1], units[i])]
<1>4. \E g : g = [i \in 0 .. n |-> IF i = 0 THEN st ELSE Accept(g[i - 1], units[i])]
  BY <1>3 DEF Steps
<1>5. after = [i \in 0 .. n |-> IF i = 0 THEN st ELSE Accept(after[i - 1], units[i])]
  BY <1>4, Zenon
<1>6. AcceptAll(st, units) = after[n]
  BY DEF AcceptAll
<1>7. Steps(after, st, units, n)
  BY <1>5, Zenon DEF Steps
<1> QED
  BY <1>6, <1>7

\* Some unit of the run is missing: there are not enough of them to go round.
LEMMA RunEnds ==
  ASSUME NEW e, expected[e] \in A!Seqs, NEW held, IsFiniteSet(held), Cardinality(held) < SeqSpace
  PROVE  /\ Run(e, held) \in 0 .. Cardinality(held)
         /\ \A i \in 0 .. Run(e, held) - 1 : Plus(expected[e], i) \in Ids(held)
         /\ Plus(expected[e], Run(e, held)) \notin Ids(held)
<1> DEFINE c == Cardinality(held)
           x == expected[e]
           Missing == {i \in 0 .. c : Plus(x, i) \notin Ids(held)}
<1>1. c \in Nat /\ c < SeqSpace /\ SeqSpace \in Nat /\ x \in A!Seqs
  BY FS_CardinalityType, Widths
<1>2. Missing # {}
  <2> SUFFICES ASSUME Missing = {} PROVE FALSE
    OBVIOUS
  <2> DEFINE g == [i \in 0 .. c |-> CHOOSE u \in held : u.id = Plus(x, i)]
  <2>1. ASSUME NEW i \in 0 .. c PROVE g[i] \in held /\ g[i].id = Plus(x, i)
    <3>1. Plus(x, i) \in Ids(held)
      OBVIOUS
    <3>2. \E u \in held : u.id = Plus(x, i)
      BY <3>1 DEF Ids
    <3>3. g[i] = CHOOSE u \in held : u.id = Plus(x, i)
      OBVIOUS
    <3> QED
      BY <3>2, <3>3, Zenon
  <2>2. g \in [0 .. c -> held]
    BY <2>1
  <2> HIDE DEF g, x, c
  <2>3. \A i, j \in 0 .. c : g[i] = g[j] => i = j
    <3> SUFFICES ASSUME NEW i \in 0 .. c, NEW j \in 0 .. c, g[i] = g[j] PROVE i = j
      OBVIOUS
    <3>1. Plus(x, i) = Plus(x, j)
      BY <2>1
    <3>2. i \in 0 .. SeqSpace - 1 /\ j \in 0 .. SeqSpace - 1
      BY <1>1
    <3> QED
      BY <1>1, <3>1, <3>2, PlusApart
  <2>4. g \in Injection(0 .. c, held)
    BY <2>2, <2>3 DEF Injection, IsInjective
  <2>5. Cardinality(0 .. c) =< c
    BY <2>4, FS_Injection DEF c
  <2>6. Cardinality(0 .. c) = c + 1
    BY <1>1, FS_Interval
  <2> QED
    BY <1>1, <2>5, <2>6
<1>3. PICK n \in Missing : \A i \in Missing : n =< i
  <2>1. Missing \subseteq Nat
    BY <1>1
  <2> HIDE DEF Missing
  <2> QED
    BY <1>2, <2>1, LeastOf
<1>4. n \in 0 .. c /\ Plus(x, n) \notin Ids(held) /\ \A i \in 0 .. n - 1 : Plus(x, i) \in Ids(held)
  <2>1. n \in 0 .. c /\ Plus(x, n) \notin Ids(held)
    BY <1>3
  <2>2. ASSUME NEW i \in 0 .. n - 1 PROVE Plus(x, i) \in Ids(held)
    <3>1. i \in 0 .. c /\ ~(n =< i)
      BY <1>1, <2>1
    <3> QED
      BY <1>3, <3>1
  <2> QED
    BY <2>1, <2>2
<1>5. \E k \in 0 .. Cardinality(held) :
        /\ \A i \in 0 .. k - 1 : Plus(expected[e], i) \in Ids(held)
        /\ Plus(expected[e], k) \notin Ids(held)
  BY <1>4
<1> QED
  BY <1>5, Zenon DEF Run
-----------------------------------------------------------------------------
(* The stream of units a sender's messages become, and what accepting the    *)
(* first d of them delivers.                                                *)

Unit == [id : A!Seqs, count : Nat, index : Nat, piece : Nat \X Nat]

\* The message a unit is of, and whether it is the last of it.
Number(u) == u.piece[1]
Closes(u, queued) == u.index + 1 = Len(queued[Number(u)])

\* A unit of one of the messages queued.
FragmentOf(u, queued) ==
  /\ Number(u) \in 1 .. Len(queued) /\ u.index \in 0 .. Len(queued[Number(u)]) - 1
  /\ u.count = IF Len(queued[Number(u)]) = 1 THEN 0 ELSE Len(queued[Number(u)])
  /\ u.piece = queued[Number(u)][u.index + 1]

\* s is every unit of the messages queued, in order, numbered from start.
Streamed(start, s, queued, next) ==
  /\ s \in Seq(Unit) /\ queued \in Seq(Message) /\ next = Plus(start, Len(s))
  /\ \A k \in 1 .. Len(s) : s[k].id = Plus(start, k - 1) /\ FragmentOf(s[k], queued)
  /\ \A k \in 1 .. Len(s) : k = 1 => Number(s[k]) = 1 /\ s[k].index = 0
  /\ \A k \in 1 .. Len(s) - 1 :
       IF Closes(s[k], queued) THEN Number(s[k + 1]) = Number(s[k]) + 1 /\ s[k + 1].index = 0
       ELSE Number(s[k + 1]) = Number(s[k]) /\ s[k + 1].index = s[k].index + 1
  /\ IF Len(s) = 0 THEN queued = <<>>
     ELSE Number(s[Len(s)]) = Len(queued) /\ Closes(s[Len(s)], queued)
  /\ \A x \in Pieces(queued) : \E k \in 1 .. Len(s) : s[k].piece = x

\* What accepting the first d units leaves: the messages they complete, and the
\* pieces of the one they do not.
Delivered(s, queued, d, st) ==
  /\ d \in 0 .. Len(s) /\ st = [inbox |-> st.inbox, partial |-> st.partial]
  /\ d = 0 => st.inbox = <<>> /\ st.partial = NoPartial
  /\ d > 0 => LET u == s[d]
                  m == Number(u)
              IN  IF Closes(u, queued)
                  THEN st.inbox = SubSeq(queued, 1, m) /\ st.partial = NoPartial
                  ELSE /\ st.inbox = SubSeq(queued, 1, m - 1)
                       /\ st.partial = [bytes |-> SubSeq(queued[m], 1, u.index + 1),
                                        count |-> Len(queued[m]), next |-> u.index + 1]
  /\ \A k \in 1 .. d : s[k].piece \in Pieces(st.inbox) \cup Range(st.partial.bytes)

\* A prefix and the element after it.
LEMMA Longer ==
  ASSUME NEW X, NEW q \in Seq(X), NEW i \in 0 .. Len(q) - 1
  PROVE  /\ Append(SubSeq(q, 1, i), q[i + 1]) = SubSeq(q, 1, i + 1)
         /\ SubSeq(q, 1, i) \in Seq(X) /\ Len(SubSeq(q, 1, i)) = i
         /\ \A j \in 1 .. i : SubSeq(q, 1, i)[j] = q[j]
<1>1. Len(q) \in Nat /\ \A j \in 1 .. Len(q) : q[j] \in X
  BY LenProperties, ElementOfSeq
<1> DEFINE a == SubSeq(q, 1, i)
           b == SubSeq(q, 1, i + 1)
<1>2. a \in Seq(X) /\ Len(a) = i /\ \A j \in 1 .. i : a[j] = q[j]
  <2>1. \A j \in 1 .. i : q[j] \in X
    BY <1>1
  <2>2. i \in Int /\ 1 \in Int
    BY <1>1
  <2>3. /\ a \in Seq(X) /\ Len(a) = IF 1 <= i THEN i - 1 + 1 ELSE 0
        /\ \A j \in 1 .. i - 1 + 1 : a[j] = q[1 + j - 1]
    BY <2>1, <2>2, SubSeqProperties
  <2> QED
    BY <1>1, <2>3
<1>3. b \in Seq(X) /\ Len(b) = i + 1 /\ \A j \in 1 .. i + 1 : b[j] = q[j]
  <2>1. \A j \in 1 .. i + 1 : q[j] \in X
    BY <1>1
  <2>2. i + 1 \in Int /\ 1 \in Int
    BY <1>1
  <2>3. /\ b \in Seq(X) /\ Len(b) = IF 1 <= i + 1 THEN i + 1 - 1 + 1 ELSE 0
        /\ \A j \in 1 .. i + 1 - 1 + 1 : b[j] = q[1 + j - 1]
    BY <2>1, <2>2, SubSeqProperties
  <2> QED
    BY <1>1, <2>3
<1>4. q[i + 1] \in X
  BY <1>1
<1> HIDE DEF a, b
<1> DEFINE c == Append(a, q[i + 1])
<1>5. c \in Seq(X) /\ Len(c) = i + 1 /\ \A j \in 1 .. i + 1 : c[j] = IF j = i + 1 THEN q[i + 1] ELSE a[j]
  BY <1>1, <1>2, <1>4
<1> HIDE DEF c
<1>6. \A j \in 1 .. Len(c) : c[j] = b[j]
  BY <1>1, <1>2, <1>3, <1>5
<1>7. c = b
  BY <1>3, <1>5, <1>6, SeqEqual
<1> QED
  BY <1>2, <1>7 DEF a, b, c

\* A message is a sequence of pieces.
LEMMA MessageIs ==
  ASSUME NEW q \in Message
  PROVE  q \in Seq(Piece) /\ Len(q) \in 1 .. MaxFragments /\ DOMAIN q = 1 .. Len(q)
<1>1. PICK n \in 1 .. MaxFragments : q \in [1 .. n -> Piece]
  BY DEF Message
<1>2. n \in Nat
  BY Widths
<1>3. q \in Seq(Piece) /\ Len(q) = n
  BY <1>1, <1>2
<1> QED
  BY <1>1, <1>3

LEMMA MessageOfIs ==
  ASSUME NEW n \in 1 .. MaxMessages, NEW k \in 1 .. MaxFragments
  PROVE  /\ MessageOf(n, k) \in Message /\ Len(MessageOf(n, k)) = k
         /\ \A i \in 1 .. k : MessageOf(n, k)[i] = <<n, IF k = 1 THEN 0 ELSE i - 1>>
<1>1. MessageOf(n, k) \in [1 .. k -> Piece]
  BY Widths DEF MessageOf, Piece
<1>2. \A i \in 1 .. k : MessageOf(n, k)[i] = <<n, IF k = 1 THEN 0 ELSE i - 1>>
  BY DEF MessageOf
<1>3. MessageOf(n, k) \in Message
  BY <1>1 DEF Message
<1>4. DOMAIN MessageOf(n, k) = 1 .. k
  BY <1>1
<1> HIDE DEF MessageOf
<1>5. Len(MessageOf(n, k)) = k
  <2>1. k \in Nat /\ Len(MessageOf(n, k)) \in Nat /\ 1 .. k = 1 .. Len(MessageOf(n, k))
    BY <1>3, <1>4, MessageIs, Widths
  <2> QED
    BY <2>1
<1> QED
  BY <1>2, <1>3, <1>5

\* What a receiver has of the message the next unit is of.
LEMMA BeforeNext ==
  ASSUME NEW start, NEW s, NEW queued, NEW next, Streamed(start, s, queued, next),
         NEW d, NEW st, Delivered(s, queued, d, st), d < Len(s)
  PROVE  LET v == s[d + 1]
             m == Number(v)
         IN  /\ st.inbox = SubSeq(queued, 1, m - 1)
             /\ st.partial.bytes = SubSeq(queued[m], 1, v.index)
             /\ v.index = 0 => st.partial = NoPartial
             /\ v.index # 0 => st.partial.count = Len(queued[m]) /\ st.partial.next = v.index
<1> DEFINE v == s[d + 1]
           m == Number(v)
<1>1. Len(s) \in Nat /\ d \in 0 .. Len(s) /\ d + 1 \in 1 .. Len(s)
  BY LenProperties DEF Streamed, Delivered
<1>2. FragmentOf(v, queued)
  BY <1>1 DEF Streamed
<1>3. CASE d = 0
  <2>1. m = 1 /\ v.index = 0 /\ st.inbox = <<>> /\ st.partial = NoPartial
    BY <1>1, <1>3 DEF Streamed, Delivered
  <2>2. SubSeq(queued, 1, 0) = <<>> /\ SubSeq(queued[m], 1, 0) = <<>>
    BY SubSeqEmpty
  <2> HIDE DEF v, m
  <2> QED
    BY <2>1, <2>2 DEF NoPartial, v, m
<1>4. CASE d # 0
  <2> DEFINE u == s[d]
             l == Number(u)
  <2>1. d \in 1 .. Len(s) - 1 /\ d > 0
    BY <1>1, <1>4
  <2>2. FragmentOf(u, queued)
    BY <2>1 DEF Streamed
  <2>3. IF Closes(u, queued) THEN m = l + 1 /\ v.index = 0 ELSE m = l /\ v.index = u.index + 1
    BY <2>1 DEF Streamed
  <2>4. IF Closes(u, queued)
        THEN st.inbox = SubSeq(queued, 1, l) /\ st.partial = NoPartial
        ELSE /\ st.inbox = SubSeq(queued, 1, l - 1)
             /\ st.partial = [bytes |-> SubSeq(queued[l], 1, u.index + 1),
                              count |-> Len(queued[l]), next |-> u.index + 1]
    BY <2>1 DEF Delivered
  <2>5. l \in Nat /\ l >= 1 /\ u.index \in Nat
    <3>1. queued \in Seq(Message)
      BY DEF Streamed
    <3>2. queued[l] \in Message
      BY <2>2, <3>1, ElementOfSeq DEF FragmentOf
    <3>3. Len(queued) \in Nat /\ Len(queued[l]) \in Nat
      BY <3>1, <3>2, MessageIs, LenProperties, Widths
    <3> QED
      BY <2>2, <3>3 DEF FragmentOf
  <2>6. SubSeq(queued[m], 1, 0) = <<>>
    BY SubSeqEmpty
  <2> HIDE DEF u, l, v, m
  <2>7. CASE Closes(u, queued)
    <3>1. m - 1 = l /\ v.index = 0
      BY <2>3, <2>5, <2>7
    <3>2. st.inbox = SubSeq(queued, 1, m - 1) /\ st.partial = NoPartial
      BY <2>4, <2>7, <3>1
    <3>3. st.partial.bytes = SubSeq(queued[m], 1, v.index)
      BY <2>6, <3>1, <3>2 DEF NoPartial
    <3> QED
      BY <3>1, <3>2, <3>3 DEF v, m
  <2>8. CASE ~Closes(u, queued)
    BY <2>3, <2>4, <2>5, <2>8 DEF v, m
  <2> QED
    BY <2>7, <2>8
<1> QED
  BY <1>3, <1>4

LEMMA AcceptNext ==
  ASSUME NEW start, NEW s, NEW queued, NEW next, Streamed(start, s, queued, next),
         NEW d, NEW st, Delivered(s, queued, d, st), d < Len(s)
  PROVE  /\ Delivered(s, queued, d + 1, Accept(st, s[d + 1]))
         /\ Len(st.inbox) =< Len(Accept(st, s[d + 1]).inbox)
<1> DEFINE v == s[d + 1]
           m == Number(v)
           q == queued[m]
           r == Accept(st, v)
           box == SubSeq(queued, 1, m - 1)
           head == SubSeq(q, 1, v.index)
<1>1. Len(s) \in Nat /\ d \in 0 .. Len(s) /\ d + 1 \in 1 .. Len(s) /\ queued \in Seq(Message)
  BY LenProperties DEF Streamed, Delivered
<1>2. FragmentOf(v, queued)
  BY <1>1 DEF Streamed
<1>3. /\ m \in 1 .. Len(queued) /\ v.index \in 0 .. Len(q) - 1 /\ v.piece = q[v.index + 1]
      /\ v.count = IF Len(q) = 1 THEN 0 ELSE Len(q)
      /\ q \in Message /\ q \in Seq(Piece) /\ Len(q) \in Nat /\ Len(q) >= 1 /\ Len(queued) \in Nat
      /\ DOMAIN q = 1 .. Len(q)
  <2>1. q \in Message
    BY <1>1, <1>2, ElementOfSeq DEF FragmentOf
  <2>2. q \in Seq(Piece) /\ Len(q) \in 1 .. MaxFragments /\ DOMAIN q = 1 .. Len(q)
    BY <2>1, MessageIs
  <2>3. Len(queued) \in Nat
    BY <1>1, LenProperties
  <2> QED
    BY <1>2, <2>1, <2>2, <2>3, Widths DEF FragmentOf
<1>4. /\ st.inbox = box /\ st.partial.bytes = head
      /\ v.index = 0 => st.partial = NoPartial
      /\ v.index # 0 => st.partial.count = Len(q) /\ st.partial.next = v.index
  BY BeforeNext
<1>5. /\ Append(head, v.piece) = SubSeq(q, 1, v.index + 1)
      /\ head \in Seq(Piece) /\ Len(head) = v.index /\ \A j \in 1 .. v.index : head[j] = q[j]
  <2> HIDE DEF v, q
  <2> QED
    BY <1>3, Longer
<1>6. /\ Append(box, q) = SubSeq(queued, 1, m) /\ box \in Seq(Message) /\ Len(box) = m - 1
  <2> HIDE DEF m
  <2>1. m - 1 \in 0 .. Len(queued) - 1 /\ (m - 1) + 1 = m
    BY <1>3
  <2>2. /\ Append(box, queued[(m - 1) + 1]) = SubSeq(queued, 1, (m - 1) + 1)
        /\ box \in Seq(Message) /\ Len(box) = m - 1
    BY <1>1, <2>1, Longer
  <2> QED
    BY <2>1, <2>2
<1>7. SubSeq(q, 1, Len(q)) = q
  BY <1>3, SubSeqFull
<1>8. st = [inbox |-> st.inbox, partial |-> st.partial]
      /\ \A k \in 1 .. d : s[k].piece \in Pieces(st.inbox) \cup Range(st.partial.bytes)
  BY DEF Delivered
\* The unit completes its message, or adds to it.
<1>9. IF Closes(v, queued)
      THEN r = [inbox |-> Append(box, q), partial |-> NoPartial]
      ELSE r = [inbox |-> box,
                partial |-> [bytes |-> Append(head, v.piece), count |-> Len(q), next |-> v.index + 1]]
  <2> HIDE DEF v, q, box, head, r, m
  <2>1. Closes(v, queued) <=> v.index + 1 = Len(q)
    BY DEF Closes, q, m
  <2>2. CASE v.count = 0
    <3>1. Len(q) = 1 /\ v.index = 0
      BY <1>3, <2>2
    <3>2. <<v.piece>> = q
      <4>1. v.piece = q[1] /\ Len(q) = 1 /\ q \in Seq(Piece)
        BY <1>3, <3>1
      <4> QED
        BY <4>1
    <3>3. r = [inbox |-> Append(st.inbox, <<v.piece>>), partial |-> NoPartial]
      BY <2>2 DEF Accept, r
    <3>4. Closes(v, queued)
      BY <2>1, <3>1
    <3>5. r = [inbox |-> Append(box, q), partial |-> NoPartial]
      BY <1>4, <3>2, <3>3
    <3> QED
      BY <3>4, <3>5
  <2>3. CASE v.count # 0
    <3>1. v.count = Len(q)
      BY <1>3, <2>3
    <3>2. (st.partial.count = 0 /\ v.index = 0) \/ (st.partial.count = v.count /\ st.partial.next = v.index)
      BY <1>4, <3>1 DEF NoPartial
    <3>3. r = IF v.index + 1 = v.count
              THEN [inbox |-> Append(st.inbox, Append(st.partial.bytes, v.piece)), partial |-> NoPartial]
              ELSE [st EXCEPT !.partial = [bytes |-> Append(st.partial.bytes, v.piece),
                                           count |-> v.count, next |-> v.index + 1]]
      BY <2>3, <3>2 DEF Accept, r
    <3>4. CASE v.index + 1 = v.count
      <4>1. Append(head, v.piece) = q
        BY <1>5, <1>7, <3>1, <3>4
      <4> QED
        BY <1>4, <2>1, <3>1, <3>3, <3>4, <4>1
    <3>5. CASE v.index + 1 # v.count
      <4> DEFINE p == [bytes |-> Append(st.partial.bytes, v.piece), count |-> v.count, next |-> v.index + 1]
      <4>1. r = [st EXCEPT !.partial = p]
        BY <3>3, <3>5
      <4> HIDE DEF p
      <4>2. r = [inbox |-> st.inbox, partial |-> p]
        BY <1>8, <4>1
      <4> QED
        BY <1>4, <2>1, <3>1, <3>5, <4>2 DEF p
    <3> QED
      BY <3>4, <3>5
  <2> QED
    BY <2>2, <2>3
<1>10. Len(st.inbox) =< Len(r.inbox)
  <2> HIDE DEF v, q, box, head, r, m
  <2> QED
    BY <1>3, <1>4, <1>6, <1>9
<1>11. \A k \in 1 .. d + 1 : s[k].piece \in Pieces(r.inbox) \cup Range(r.partial.bytes)
  <2> DEFINE bytes == Append(head, v.piece)
  <2>0. Pieces(box) \subseteq Pieces(Append(box, q)) /\ Range(q) \subseteq Pieces(Append(box, q))
    <3> HIDE DEF box, q, m
    <3>1. Len(box) \in Nat /\ DOMAIN box = 1 .. Len(box)
      BY <1>6, LenProperties
    <3> DEFINE b == Append(box, q)
    <3>2. DOMAIN b = 1 .. Len(box) + 1 /\ b[Len(box) + 1] = q /\ \A i \in 1 .. Len(box) : b[i] = box[i]
      BY <1>3, <1>6, <3>1
    <3> HIDE DEF b
    <3>3. Len(box) + 1 \in DOMAIN b /\ \A i \in DOMAIN box : i \in DOMAIN b /\ b[i] = box[i]
      BY <3>1, <3>2
    <3> QED
      BY <3>2, <3>3 DEF Pieces, b
  <2>1. Range(bytes) = Range(head) \cup {v.piece}
    <3> HIDE DEF head, v, q
    <3>1. DOMAIN head = 1 .. v.index /\ v.index \in Nat /\ v.piece \in Piece
      <4>1. v.piece \in Piece
        BY <1>3, ElementOfSeq
      <4> QED
        BY <1>3, <1>5, <4>1, LenProperties
    <3>2. /\ DOMAIN bytes = 1 .. v.index + 1 /\ bytes[v.index + 1] = v.piece
          /\ \A i \in 1 .. v.index : bytes[i] = head[i]
      BY <1>5, <3>1
    <3> HIDE DEF bytes
    <3>3. \A i \in DOMAIN bytes : i = v.index + 1 \/ i \in DOMAIN head
      BY <3>1, <3>2
    <3>4. v.index + 1 \in DOMAIN bytes /\ \A i \in DOMAIN head : i \in DOMAIN bytes
      BY <3>1, <3>2
    <3> QED
      BY <3>1, <3>2, <3>3, <3>4 DEF Range
  <2>2. Pieces(box) \cup Range(head) \cup {v.piece} \subseteq Pieces(r.inbox) \cup Range(r.partial.bytes)
    <3>1. CASE Closes(v, queued)
      <4>1. r = [inbox |-> Append(box, q), partial |-> NoPartial]
        BY <1>9, <3>1
      <4>2. bytes = q
        <5>1. v.index + 1 = Len(q)
          BY <3>1 DEF Closes
        <5> QED
          BY <1>5, <1>7, <5>1
      <4> HIDE DEF r, bytes, box, head, q, v, m
      <4>3. r.inbox = Append(box, q)
        BY <4>1
      <4> QED
        BY <2>0, <2>1, <4>2, <4>3
    <3>2. CASE ~Closes(v, queued)
      <4>1. r = [inbox |-> box, partial |-> [bytes |-> bytes, count |-> Len(q), next |-> v.index + 1]]
        BY <1>9, <3>2
      <4> HIDE DEF r, bytes, box, head, q, v, m
      <4>2. r.inbox = box /\ r.partial.bytes = bytes
        BY <4>1
      <4> QED
        BY <2>1, <4>2
    <3> QED
      BY <3>1, <3>2
  <2> HIDE DEF r, bytes, box, head, q, m
  <2>3. SUFFICES ASSUME NEW k \in 1 .. d + 1
                 PROVE  s[k].piece \in Pieces(r.inbox) \cup Range(r.partial.bytes)
    OBVIOUS
  <2>4. k = d + 1 \/ k \in 1 .. d
    BY <1>1
  <2>5. CASE k = d + 1
    BY <2>2, <2>5
  <2>6. CASE k \in 1 .. d
    BY <1>4, <1>8, <2>2, <2>6
  <2> QED
    BY <2>4, <2>5, <2>6
<1>12. Delivered(s, queued, d + 1, r)
  <2>1. d + 1 \in 0 .. Len(s) /\ d + 1 # 0 /\ d + 1 > 0
    BY <1>1
  <2>2. IF Closes(v, queued)
        THEN r.inbox = SubSeq(queued, 1, m) /\ r.partial = NoPartial
        ELSE /\ r.inbox = SubSeq(queued, 1, m - 1)
             /\ r.partial = [bytes |-> SubSeq(q, 1, v.index + 1), count |-> Len(q), next |-> v.index + 1]
    <3> HIDE DEF r, v, m, q, box, head
    <3>1. CASE Closes(v, queued)
      <4>1. r = [inbox |-> Append(box, q), partial |-> NoPartial]
        BY <1>9, <3>1
      <4> QED
        BY <1>6, <3>1, <4>1
    <3>2. CASE ~Closes(v, queued)
      <4>1. r = [inbox |-> box,
                 partial |-> [bytes |-> Append(head, v.piece), count |-> Len(q), next |-> v.index + 1]]
        BY <1>9, <3>2
      <4>2. box = SubSeq(queued, 1, m - 1) /\ Append(head, v.piece) = SubSeq(q, 1, v.index + 1)
        BY <1>5 DEF box
      <4> QED
        BY <3>2, <4>1, <4>2
    <3> QED
      BY <3>1, <3>2
  <2>3. r = [inbox |-> r.inbox, partial |-> r.partial]
    <3> HIDE DEF r
    <3> QED
      BY <1>9
  <2> HIDE DEF r
  <2> QED
    BY <2>1, <2>2, <2>3, <1>11 DEF Delivered
<1> QED
  BY <1>10, <1>12
-----------------------------------------------------------------------------
\* What is delivered is a prefix of the messages queued.
LEMMA DeliveredPrefix ==
  ASSUME NEW start, NEW s, NEW queued, NEW next, Streamed(start, s, queued, next),
         NEW d, NEW st, Delivered(s, queued, d, st)
  PROVE  \E a \in 0 .. Len(queued) : st.inbox = SubSeq(queued, 1, a) /\ Len(st.inbox) = a
<1>1. Len(s) \in Nat /\ d \in 0 .. Len(s) /\ queued \in Seq(Message) /\ Len(queued) \in Nat
  BY LenProperties DEF Streamed, Delivered
<1>2. \A a \in 0 .. Len(queued) : Len(SubSeq(queued, 1, a)) = a
  <2> SUFFICES ASSUME NEW a \in 0 .. Len(queued) PROVE Len(SubSeq(queued, 1, a)) = a
    OBVIOUS
  <2>1. CASE a < Len(queued)
    BY <1>1, <2>1, Longer
  <2>2. CASE a = Len(queued)
    BY <1>1, <2>2, SubSeqFull
  <2> QED
    BY <1>1, <2>1, <2>2
<1>3. CASE d = 0
  <2>1. st.inbox = <<>> /\ SubSeq(queued, 1, 0) = <<>> /\ 0 \in 0 .. Len(queued)
    BY <1>1, <1>3, SubSeqEmpty DEF Delivered
  <2> QED
    BY <1>2, <2>1
<1>4. CASE d # 0
  <2> DEFINE m == Number(s[d])
  <2>1. d \in 1 .. Len(s) /\ d > 0
    BY <1>1, <1>4
  <2>2. m \in 1 .. Len(queued)
    BY <2>1 DEF Streamed, FragmentOf
  <2>3. st.inbox = SubSeq(queued, 1, m) \/ st.inbox = SubSeq(queued, 1, m - 1)
    BY <2>1 DEF Delivered
  <2> HIDE DEF m
  <2>4. m \in 0 .. Len(queued) /\ m - 1 \in 0 .. Len(queued)
    BY <1>1, <2>2
  <2> QED
    BY <1>2, <2>3, <2>4
<1> QED
  BY <1>3, <1>4

\* Accepting the next units in order delivers what they complete.
LEMMA AcceptRun ==
  ASSUME NEW start, NEW s, NEW queued, NEW next, Streamed(start, s, queued, next),
         NEW d, NEW st, Delivered(s, queued, d, st), NEW n \in Nat, d + n =< Len(s),
         NEW units, units = [i \in 1 .. n |-> s[d + i]]
  PROVE  /\ Delivered(s, queued, d + n, AcceptAll(st, units))
         /\ Len(st.inbox) =< Len(AcceptAll(st, units).inbox)
<1>1. Len(units) = n /\ Len(s) \in Nat /\ d \in 0 .. Len(s) /\ d \in Nat
  BY LenProperties DEF Streamed, Delivered
<1>2. PICK g : Steps(g, st, units, n) /\ AcceptAll(st, units) = g[n]
  BY <1>1, AcceptSteps
<1>3. \A i \in 0 .. n : g[i] = IF i = 0 THEN st ELSE Accept(g[i - 1], units[i])
  BY <1>2, Zenon DEF Steps
<1> DEFINE Good(i) == Delivered(s, queued, d + i, g[i]) /\ Len(st.inbox) =< Len(g[i].inbox)
           Bad == {i \in 0 .. n : ~Good(i)}
<1>4. Good(0)
  <2>1. g[0] = st /\ d + 0 = d
    BY <1>1, <1>3
  <2>2. Len(st.inbox) \in Nat
    BY DeliveredPrefix, <1>1
  <2> QED
    BY <2>1, <2>2
<1>5. ASSUME NEW i \in 1 .. n, Good(i - 1) PROVE Good(i)
  <2> DEFINE j == d + (i - 1)
             v == g[i - 1]
  <2>1. g[i] = Accept(v, units[i]) /\ units[i] = s[j + 1] /\ j + 1 = d + i /\ j < Len(s)
    <3>1. i \in 0 .. n /\ i # 0
      OBVIOUS
    <3>2. g[i] = Accept(v, units[i])
      BY <1>3, <3>1
    <3>3. j + 1 = d + i /\ j < Len(s)
      BY <1>1
    <3>4. units[i] = s[d + i]
      OBVIOUS
    <3> HIDE DEF j
    <3> QED
      BY <3>2, <3>3, <3>4
  <2>2. Delivered(s, queued, j, v) /\ Len(st.inbox) =< Len(v.inbox)
    BY <1>5
  <2> HIDE DEF j, v
  <2>3. Delivered(s, queued, j + 1, g[i]) /\ Len(v.inbox) =< Len(g[i].inbox)
    BY <2>1, <2>2, AcceptNext
  <2>4. Len(v.inbox) \in Nat /\ Len(g[i].inbox) \in Nat /\ Len(st.inbox) \in Nat
    BY <2>2, <2>3, DeliveredPrefix
  <2>5. Len(st.inbox) =< Len(g[i].inbox)
    BY <2>2, <2>3, <2>4
  <2> QED
    BY <2>1, <2>3, <2>5
<1>6. Bad = {}
  <2> SUFFICES ASSUME Bad # {} PROVE FALSE
    OBVIOUS
  <2> HIDE DEF Good
  <2>1. Bad \subseteq Nat
    OBVIOUS
  <2>2. PICK k \in Bad : \A l \in Bad : k =< l
    <3> HIDE DEF Bad
    <3> QED
      BY <2>1, LeastOf
  <2>3. k \in 0 .. n /\ ~Good(k) /\ k # 0
    BY <1>4
  <2>4. k \in 1 .. n /\ k - 1 \in 0 .. n /\ ~(k =< k - 1)
    BY <2>3
  <2>5. Good(k - 1)
    BY <2>2, <2>4
  <2> QED
    BY <1>5, <2>3, <2>4, <2>5
<1>7. Good(n)
  <2> HIDE DEF Good
  <2> QED
    BY <1>6
<1> QED
  BY <1>2, <1>7

-----------------------------------------------------------------------------
(* Sending adds the units of one more message.                              *)

LEMMA UnitsAre ==
  ASSUME NEW n \in 1 .. MaxMessages, NEW k \in 1 .. MaxFragments, NEW id \in A!Seqs
  PROVE  /\ UnitsOf(n, k, id) \in Seq(Unit) /\ Len(UnitsOf(n, k, id)) = k
         /\ \A i \in 1 .. k : UnitsOf(n, k, id)[i] =
              [id |-> Plus(id, i - 1), count |-> IF k = 1 THEN 0 ELSE k, index |-> i - 1,
               piece |-> <<n, IF k = 1 THEN 0 ELSE i - 1>>]
<1> DEFINE U(i) == [id |-> Plus(id, i - 1), count |-> IF k = 1 THEN 0 ELSE k, index |-> i - 1,
                    piece |-> MessageOf(n, k)[i]]
           P(i) == [id |-> Plus(id, i - 1), count |-> IF k = 1 THEN 0 ELSE k, index |-> i - 1,
                    piece |-> <<n, IF k = 1 THEN 0 ELSE i - 1>>]
           units == UnitsOf(n, k, id)
<1>1. units = [i \in 1 .. k |-> U(i)]
  BY DEF UnitsOf
<1>2. \A i \in 1 .. k : U(i) = P(i)
  BY MessageOfIs
<1>3. \A i \in 1 .. k : P(i) \in Unit
  <2> SUFFICES ASSUME NEW i \in 1 .. k PROVE P(i) \in Unit
    OBVIOUS
  <2>1. Plus(id, i - 1) \in A!Seqs
    BY Widths DEF Plus, A!Seqs
  <2>2. k \in Nat /\ n \in Nat /\ i - 1 \in Nat
    BY Widths
  <2>3. <<n, IF k = 1 THEN 0 ELSE i - 1>> \in Nat \X Nat
    BY <2>2
  <2> QED
    BY <2>1, <2>2, <2>3 DEF Unit
<1>4. k \in Nat
  BY Widths
<1> HIDE DEF units, U
<1>5. units = [i \in 1 .. k |-> units[i]] /\ \A i \in 1 .. k : units[i] = P(i)
  BY <1>1, <1>2
<1> HIDE DEF P
<1>6. units \in [1 .. k -> Unit]
  BY <1>3, <1>5
<1>7. units \in Seq(Unit) /\ Len(units) = k
  BY <1>4, <1>6
<1> QED
  BY <1>5, <1>7 DEF P, units

\* The messages queued before are where they were.
LEMMA QueueGrows ==
  ASSUME NEW queued \in Seq(Message), NEW msg \in Message
  PROVE  LET more == Append(queued, msg)
         IN  /\ more \in Seq(Message) /\ Len(more) = Len(queued) + 1 /\ more[Len(queued) + 1] = msg
             /\ \A m \in 1 .. Len(queued) : more[m] = queued[m]
             /\ \A a \in 0 .. Len(queued) : SubSeq(more, 1, a) = SubSeq(queued, 1, a)
             /\ Pieces(more) = Pieces(queued) \cup Range(msg)
<1> DEFINE more == Append(queued, msg)
<1>1. /\ more \in Seq(Message) /\ Len(more) = Len(queued) + 1 /\ more[Len(queued) + 1] = msg
      /\ \A m \in 1 .. Len(queued) : more[m] = queued[m]
      /\ Len(queued) \in Nat
  BY LenProperties
<1> HIDE DEF more
<1>2. ASSUME NEW a \in 0 .. Len(queued) PROVE SubSeq(more, 1, a) = SubSeq(queued, 1, a)
  <2>1. a \in 0 .. Len(more) - 1 /\ a \in Nat
    BY <1>1
  <2>2. SubSeq(more, 1, a) \in Seq(Message) /\ Len(SubSeq(more, 1, a)) = a
        /\ \A j \in 1 .. a : SubSeq(more, 1, a)[j] = more[j]
    BY <1>1, <2>1, Longer
  <2>3. SubSeq(queued, 1, a) \in Seq(Message) /\ Len(SubSeq(queued, 1, a)) = a
        /\ \A j \in 1 .. a : SubSeq(queued, 1, a)[j] = queued[j]
    <3>1. CASE a < Len(queued)
      BY <1>1, <3>1, Longer
    <3>2. CASE a = Len(queued)
      BY <1>1, <3>2, SubSeqFull
    <3> QED
      BY <1>1, <3>1, <3>2
  <2> DEFINE x == SubSeq(more, 1, a)
             y == SubSeq(queued, 1, a)
  <2>4. \A j \in 1 .. a : x[j] = y[j]
    BY <1>1, <2>2, <2>3
  <2> HIDE DEF x, y
  <2>5. Len(x) = Len(y) /\ x \in Seq(Message) /\ y \in Seq(Message) /\ \A j \in 1 .. Len(x) : x[j] = y[j]
    BY <2>2, <2>3, <2>4 DEF x, y
  <2>6. x = y
    BY <2>5, SeqEqual
  <2> QED
    BY <2>6 DEF x, y
<1>3. Pieces(more) = Pieces(queued) \cup Range(msg)
  <2>1. DOMAIN queued = 1 .. Len(queued) /\ DOMAIN more = 1 .. Len(queued) + 1
    BY <1>1, LenProperties
  <2>2. \A i \in DOMAIN more : i = Len(queued) + 1 \/ i \in DOMAIN queued
    BY <1>1, <2>1
  <2>3. Len(queued) + 1 \in DOMAIN more /\ \A i \in DOMAIN queued : i \in DOMAIN more
    BY <1>1, <2>1
  <2> QED
    BY <1>1, <2>1, <2>2, <2>3 DEF Pieces
<1> QED
  BY <1>1, <1>2, <1>3 DEF more

\* The units of one more message, after those of a stream.
UnitsAfter(queued, k, next) == UnitsOf(Len(queued) + 1, k, next)
MessageAfter(queued, k) == MessageOf(Len(queued) + 1, k)
Grown(s, units, t) ==
  /\ units \in Seq(Unit) /\ Len(t) = Len(s) + Len(units)
  /\ \A i \in 1 .. Len(s) : t[i] = s[i]
  /\ \A i \in 1 .. Len(units) : t[Len(s) + i] = units[i]

LEMMA StreamGrows ==
  ASSUME NEW start \in A!Seqs, NEW s, NEW queued, NEW next, Streamed(start, s, queued, next),
         NEW k \in 1 .. MaxFragments, Len(queued) < MaxMessages, Len(s) + k < SeqSpace
  PROVE  LET units == UnitsAfter(queued, k, next)
         IN  /\ Streamed(start, s \o units, Append(queued, MessageAfter(queued, k)), Plus(next, k))
             /\ Grown(s, units, s \o units) /\ Len(units) = k
             /\ MessageAfter(queued, k) \in Message
<1> DEFINE n == Len(queued) + 1
           units == UnitsAfter(queued, k, next)
           msg == MessageAfter(queued, k)
           more == Append(queued, msg)
           t == s \o units
           l == Len(s)
<1>1. /\ s \in Seq(Unit) /\ queued \in Seq(Message) /\ next = Plus(start, l)
      /\ l \in Nat /\ Len(queued) \in Nat /\ k \in Nat /\ k >= 1
      /\ \A i \in 1 .. l : s[i].id = Plus(start, i - 1) /\ FragmentOf(s[i], queued)
  BY LenProperties, Widths DEF Streamed
<1>2. n \in 1 .. MaxMessages
  BY <1>1, Widths
<1>3. msg \in Message /\ Len(msg) = k /\ \A i \in 1 .. k : msg[i] = <<n, IF k = 1 THEN 0 ELSE i - 1>>
  BY <1>2, MessageOfIs DEF MessageAfter
<1>4. next \in A!Seqs
  BY <1>1, Widths DEF Plus, A!Seqs
<1>5. /\ units \in Seq(Unit) /\ Len(units) = k
      /\ \A i \in 1 .. k : units[i] = [id |-> Plus(next, i - 1), count |-> IF k = 1 THEN 0 ELSE k,
                                       index |-> i - 1, piece |-> msg[i]]
  <2> HIDE DEF msg, n, units
  <2>1. /\ UnitsOf(n, k, next) \in Seq(Unit) /\ Len(UnitsOf(n, k, next)) = k
        /\ \A i \in 1 .. k : UnitsOf(n, k, next)[i] =
             [id |-> Plus(next, i - 1), count |-> IF k = 1 THEN 0 ELSE k, index |-> i - 1,
              piece |-> <<n, IF k = 1 THEN 0 ELSE i - 1>>]
    BY <1>2, <1>4, UnitsAre
  <2>2. units = UnitsOf(n, k, next)
    BY DEF UnitsAfter, units, n
  <2> QED
    BY <1>3, <2>1, <2>2
<1>19. units \in Seq(Unit) /\ Len(units) = k
  BY <1>5
<1> HIDE DEF units
<1>6. /\ t \in Seq(Unit) /\ Len(t) = l + k
      /\ \A i \in 1 .. l : t[i] = s[i]
      /\ \A i \in 1 .. k : t[l + i] = units[i]
  <2>1. /\ t \in Seq(Unit) /\ Len(t) = l + Len(units)
        /\ \A i \in 1 .. l + Len(units) : t[i] = IF i <= l THEN s[i] ELSE units[i - l]
    BY <1>1, <1>19, ConcatProperties
  <2> HIDE DEF t, l
  <2>2. \A i \in 1 .. k : l + i \in 1 .. l + k /\ ~(l + i <= l) /\ (l + i) - l = i
    BY <1>1
  <2>3. \A i \in 1 .. l : i \in 1 .. l + k /\ i <= l
    BY <1>1
  <2> QED
    BY <1>19, <2>1, <2>2, <2>3
<1>7. /\ more \in Seq(Message) /\ Len(more) = n /\ more[n] = msg
      /\ \A m \in 1 .. Len(queued) : more[m] = queued[m]
      /\ Pieces(more) = Pieces(queued) \cup Range(msg)
  <2>1. more = Append(queued, msg)
    OBVIOUS
  <2>2. queued \in Seq(Message) /\ msg \in Message
    BY <1>1, <1>3
  <2> HIDE DEF msg
  <2>3. /\ more \in Seq(Message) /\ Len(more) = Len(queued) + 1 /\ more[Len(queued) + 1] = msg
        /\ \A m \in 1 .. Len(queued) : more[m] = queued[m]
        /\ Pieces(more) = Pieces(queued) \cup Range(msg)
    BY <2>1, <2>2, QueueGrows
  <2> QED
    BY <2>3
<1> HIDE DEF t, msg, more
<1>17. \A i \in 1 .. k : /\ units[i].id = Plus(next, i - 1) /\ units[i].index = i - 1
                        /\ units[i].count = (IF k = 1 THEN 0 ELSE k) /\ units[i].piece = msg[i]
  <2> SUFFICES ASSUME NEW i \in 1 .. k
               PROVE  /\ units[i].id = Plus(next, i - 1) /\ units[i].index = i - 1
                      /\ units[i].count = (IF k = 1 THEN 0 ELSE k) /\ units[i].piece = msg[i]
    OBVIOUS
  <2> DEFINE count == IF k = 1 THEN 0 ELSE k
             id == Plus(next, i - 1)
             index == i - 1
             piece == msg[i]
  <2>1. units[i] = [id |-> id, count |-> count, index |-> index, piece |-> piece]
    BY <1>5
  <2> HIDE DEF count, id, index, piece
  <2>2. units[i].id = id /\ units[i].index = index /\ units[i].count = count /\ units[i].piece = piece
    BY <2>1
  <2> QED
    BY <2>2 DEF count, id, index, piece
\* The new units are fragments of the new message.
<1>8. \A i \in 1 .. k : Number(units[i]) = n /\ units[i].index = i - 1 /\ FragmentOf(units[i], more)
                        /\ (Closes(units[i], more) <=> i = k)
  <2> SUFFICES ASSUME NEW i \in 1 .. k
               PROVE  Number(units[i]) = n /\ units[i].index = i - 1 /\ FragmentOf(units[i], more)
                      /\ (Closes(units[i], more) <=> i = k)
    OBVIOUS
  <2>1. /\ units[i].count = (IF k = 1 THEN 0 ELSE k) /\ units[i].index = i - 1
        /\ units[i].piece = msg[i] /\ msg[i] = <<n, IF k = 1 THEN 0 ELSE i - 1>>
    BY <1>3, <1>17
  <2>2. Number(units[i]) = n
    BY <2>1 DEF Number
  <2>3. n \in 1 .. Len(more) /\ Len(more[n]) = k /\ more[n] = msg
    BY <1>2, <1>3, <1>7
  <2>4. (i - 1) + 1 = i /\ i - 1 \in 0 .. k - 1
    BY <1>1
  <2> QED
    BY <2>1, <2>2, <2>3, <2>4 DEF FragmentOf, Closes
\* The old ones are what they were.
<1>9. \A i \in 1 .. l : FragmentOf(s[i], more) /\ (Closes(s[i], more) <=> Closes(s[i], queued))
  <2> SUFFICES ASSUME NEW i \in 1 .. l
               PROVE  FragmentOf(s[i], more) /\ (Closes(s[i], more) <=> Closes(s[i], queued))
    OBVIOUS
  <2>1. FragmentOf(s[i], queued)
    BY <1>1
  <2>2. Number(s[i]) \in 1 .. Len(queued) /\ Number(s[i]) \in 1 .. Len(more)
        /\ more[Number(s[i])] = queued[Number(s[i])]
    BY <1>1, <1>7, <2>1 DEF FragmentOf
  <2> QED
    BY <2>1, <2>2 DEF FragmentOf, Closes
<1>10. ASSUME NEW i \in 1 .. l + k PROVE t[i].id = Plus(start, i - 1) /\ FragmentOf(t[i], more)
  <2>1. CASE i =< l
    <3>1. i \in 1 .. l /\ t[i] = s[i]
      BY <1>1, <1>6, <2>1
    <3> QED
      BY <1>1, <1>9, <3>1
  <2>2. CASE i > l
    <3> DEFINE j == i - l
    <3>1. j \in 1 .. k /\ i = l + j
      BY <1>1, <2>2
    <3> HIDE DEF j
    <3>2. t[i] = units[j]
      BY <1>6, <3>1
    <3>3. Plus(next, j - 1) = Plus(start, l + (j - 1)) /\ l + (j - 1) = i - 1
      <4>1. j - 1 \in Nat /\ l + (j - 1) < SeqSpace /\ l + (j - 1) = i - 1
        BY <1>1, <3>1, Widths
      <4> HIDE DEF l
      <4> QED
        BY <1>1, <4>1, PlusPlus
    <3>4. units[j].id = Plus(next, j - 1)
      BY <1>17, <3>1
    <3> QED
      BY <1>8, <3>1, <3>2, <3>3, <3>4
  <2> QED
    BY <1>1, <2>1, <2>2
<1>11. ASSUME NEW i \in 1 .. l + k, i = 1 PROVE Number(t[i]) = 1 /\ t[i].index = 0
  <2>1. CASE l = 0
    <3>1. t[1] = units[1] /\ 1 \in 1 .. k
      <4>1. l + 1 = 1 /\ 1 \in 1 .. k
        BY <1>1, <2>1
      <4> QED
        BY <1>6, <4>1
    <3>2. queued = <<>>
      BY <2>1 DEF Streamed
    <3>3. n = 1
      BY <3>2
    <3> QED
      BY <1>8, <1>11, <3>1, <3>3
  <2>2. CASE l # 0
    <3>1. 1 \in 1 .. l
      BY <1>1, <2>2
    <3> QED
      BY <1>6, <1>11, <3>1 DEF Streamed
  <2> QED
    BY <2>1, <2>2
<1>12. ASSUME NEW i \in 1 .. l + k - 1
       PROVE  IF Closes(t[i], more) THEN Number(t[i + 1]) = Number(t[i]) + 1 /\ t[i + 1].index = 0
              ELSE Number(t[i + 1]) = Number(t[i]) /\ t[i + 1].index = t[i].index + 1
  <2>1. CASE i < l
    <3>1. i \in 1 .. l /\ i + 1 \in 1 .. l /\ i \in 1 .. l - 1
      BY <1>1, <2>1
    <3>2. t[i] = s[i] /\ t[i + 1] = s[i + 1] /\ (Closes(s[i], more) <=> Closes(s[i], queued))
      BY <1>6, <1>9, <3>1
    <3>3. IF Closes(s[i], queued) THEN Number(s[i + 1]) = Number(s[i]) + 1 /\ s[i + 1].index = 0
          ELSE Number(s[i + 1]) = Number(s[i]) /\ s[i + 1].index = s[i].index + 1
      BY <3>1 DEF Streamed
    <3> QED
      BY <3>2, <3>3
  <2>2. CASE i = l
    <3>1. i \in 1 .. l /\ 1 \in 1 .. k /\ i # 0
      BY <1>1, <2>2
    <3>2. t[i] = s[i] /\ t[i + 1] = units[1]
      BY <1>6, <2>2, <3>1
    <3>3. Number(s[i]) = Len(queued) /\ Closes(s[i], queued)
      BY <2>2, <3>1 DEF Streamed
    <3>4. Closes(t[i], more)
      BY <1>9, <3>1, <3>2, <3>3
    <3>5. Number(t[i + 1]) = n /\ t[i + 1].index = 1 - 1
      BY <1>8, <3>1, <3>2
    <3>6. Number(t[i + 1]) = Number(t[i]) + 1 /\ t[i + 1].index = 0
      BY <3>2, <3>3, <3>5
    <3> QED
      BY <3>4, <3>6
  <2>3. CASE i > l
    <3> DEFINE j == i - l
    <3>1. j \in 1 .. k /\ j + 1 \in 1 .. k /\ i = l + j /\ i + 1 = l + (j + 1) /\ j # k
      BY <1>1, <2>3
    <3> HIDE DEF j
    <3>2. t[i] = units[j] /\ t[i + 1] = units[j + 1]
      BY <1>6, <3>1
    <3>3. ~Closes(t[i], more) /\ Number(t[i]) = n /\ t[i].index = j - 1
      BY <1>8, <3>1, <3>2
    <3>4. Number(t[i + 1]) = n /\ t[i + 1].index = (j + 1) - 1
      BY <1>8, <3>1, <3>2
    <3>5. t[i + 1].index = t[i].index + 1
      BY <3>1, <3>3, <3>4
    <3> QED
      BY <3>3, <3>4, <3>5
  <2> QED
    BY <1>1, <2>1, <2>2, <2>3
<1>13. l + k # 0 /\ Number(t[l + k]) = Len(more) /\ Closes(t[l + k], more)
  <2>1. k \in 1 .. k /\ t[l + k] = units[k]
    BY <1>1, <1>6
  <2> QED
    BY <1>1, <1>7, <1>8, <2>1
<1>14. ASSUME NEW x \in Pieces(more) PROVE \E i \in 1 .. l + k : t[i].piece = x
  <2>1. CASE x \in Pieces(queued)
    <3>1. PICK i \in 1 .. l : s[i].piece = x
      BY <2>1 DEF Streamed
    <3>2. i \in 1 .. l + k /\ t[i] = s[i]
      BY <1>1, <1>6
    <3> QED
      BY <3>1, <3>2
  <2>2. CASE x \in Range(msg)
    <3>1. PICK j \in DOMAIN msg : msg[j] = x
      BY <2>2 DEF Range
    <3>2. j \in 1 .. k
      BY <1>3, MessageIs
    <3>3. units[j].piece = msg[j] /\ t[l + j] = units[j] /\ l + j \in 1 .. l + k
      BY <1>1, <1>6, <1>17, <3>2
    <3> QED
      BY <3>1, <3>3
  <2> QED
    BY <1>7, <2>1, <2>2
<1>15. Plus(next, k) = Plus(start, Len(t))
  <2> HIDE DEF l
  <2> QED
    BY <1>1, <1>6, PlusPlus DEF l
<1>16. Streamed(start, t, more, Plus(next, k))
  BY <1>6, <1>7, <1>10, <1>11, <1>12, <1>13, <1>14, <1>15 DEF Streamed
<1>18. Grown(s, units, t)
  BY <1>6, <1>19 DEF Grown
<1> QED
  BY <1>3, <1>19, <1>16, <1>18 DEF t, more, msg, units
-----------------------------------------------------------------------------
\* ... and leaves what has been delivered a prefix.
LEMMA DeliveredGrows ==
  ASSUME NEW start, NEW s, NEW queued, NEW next, Streamed(start, s, queued, next),
         NEW d, NEW st, Delivered(s, queued, d, st), NEW msg \in Message,
         NEW t, Len(t) \in Nat, Len(s) =< Len(t), \A i \in 1 .. Len(s) : t[i] = s[i]
  PROVE  Delivered(t, Append(queued, msg), d, st)
<1> DEFINE more == Append(queued, msg)
<1>1. Len(s) \in Nat /\ d \in 0 .. Len(s) /\ queued \in Seq(Message) /\ Len(queued) \in Nat
  BY LenProperties DEF Streamed, Delivered
<1>2. /\ \A m \in 1 .. Len(queued) : more[m] = queued[m]
      /\ \A a \in 0 .. Len(queued) : SubSeq(more, 1, a) = SubSeq(queued, 1, a)
  BY <1>1, QueueGrows
<1> HIDE DEF more
<1>3. d \in 0 .. Len(t) /\ \A k \in 1 .. d : t[k] = s[k]
  BY <1>1
<1>4. ASSUME d > 0
      PROVE  LET u == t[d]
                 m == Number(u)
             IN  IF Closes(u, more)
                 THEN st.inbox = SubSeq(more, 1, m) /\ st.partial = NoPartial
                 ELSE /\ st.inbox = SubSeq(more, 1, m - 1)
                      /\ st.partial = [bytes |-> SubSeq(more[m], 1, u.index + 1),
                                       count |-> Len(more[m]), next |-> u.index + 1]
  <2> DEFINE u == s[d]
             m == Number(u)
  <2>1. d \in 1 .. Len(s) /\ t[d] = u
    BY <1>1, <1>3, <1>4
  <2>2. m \in 1 .. Len(queued)
    BY <2>1 DEF Streamed, FragmentOf
  <2>3. IF Closes(u, queued)
        THEN st.inbox = SubSeq(queued, 1, m) /\ st.partial = NoPartial
        ELSE /\ st.inbox = SubSeq(queued, 1, m - 1)
             /\ st.partial = [bytes |-> SubSeq(queued[m], 1, u.index + 1),
                              count |-> Len(queued[m]), next |-> u.index + 1]
    BY <1>4 DEF Delivered
  <2> HIDE DEF u
  <2>4. more[m] = queued[m] /\ (Closes(u, more) <=> Closes(u, queued))
    BY <1>2, <2>2 DEF Closes
  <2> HIDE DEF m
  <2>5. m \in 0 .. Len(queued) /\ m - 1 \in 0 .. Len(queued)
    BY <1>1, <2>2
  <2>6. SubSeq(more, 1, m) = SubSeq(queued, 1, m) /\ SubSeq(more, 1, m - 1) = SubSeq(queued, 1, m - 1)
    BY <1>2, <2>5
  <2>7. IF Closes(u, more)
        THEN st.inbox = SubSeq(more, 1, m) /\ st.partial = NoPartial
        ELSE /\ st.inbox = SubSeq(more, 1, m - 1)
             /\ st.partial = [bytes |-> SubSeq(more[m], 1, u.index + 1),
                              count |-> Len(more[m]), next |-> u.index + 1]
    BY <2>3, <2>4, <2>6
  <2> QED
    BY <2>1, <2>7 DEF m
<1>5. \A k \in 1 .. d : t[k].piece \in Pieces(st.inbox) \cup Range(st.partial.bytes)
  BY <1>3 DEF Delivered
<1>6. /\ st = [inbox |-> st.inbox, partial |-> st.partial]
      /\ d = 0 => st.inbox = <<>> /\ st.partial = NoPartial
  BY DEF Delivered
<1>7. Delivered(t, more, d, st)
  BY <1>3, <1>4, <1>5, <1>6 DEF Delivered
<1> QED
  BY <1>7 DEF more

-----------------------------------------------------------------------------
(* What is under way from e to the other end, when s is e's stream of units, *)
(* w the packets e has sent, d the units delivered and held those held.      *)

Entry == [unit : Unit, tried : BOOLEAN]
Datagram == [to : Ends, seq : A!Seqs, ack : A!Seqs, bits : SUBSET (1 .. Window), unit : Unit]

\* The outbox holds units of the stream, in their order.
Queued(s, queue) ==
  /\ queue \in Seq(Entry)
  /\ \A i \in 1 .. Len(queue) : \E k \in 1 .. Len(s) : queue[i].unit = s[k]
  /\ \A i, j \in 1 .. Len(queue) : i < j =>
       \A k, l \in 1 .. Len(s) : queue[i].unit = s[k] /\ queue[j].unit = s[l] => k < l

\* The k-th unit has arrived.
Here(s, d, held, k) == k =< d \/ s[k] \in held

\* What has not arrived is still in the outbox.
Pending(s, d, held, queue) ==
  \A k \in 1 .. Len(s) : Here(s, d, held, k) \/ \E i \in 1 .. Len(queue) : queue[i].unit = s[k]

\* What is held is beyond the expected unit.
Held(s, d, held) == \A u \in held : \E k \in d + 2 .. Len(s) : u = s[k]

\* The units are fewer than the ids can tell apart.
Limits(s, d) == d \in 0 .. Len(s) /\ d =< MaxPackets /\ Len(s) =< d + MaxOutstanding

\* The packets e has sent are numbered one after the other and carry units.
Wire(e, start, s, w) ==
  /\ w \in Seq(Datagram) /\ Len(w) =< MaxPackets
  /\ \A i \in 1 .. Len(w) : /\ w[i].to = Other(e) /\ w[i].seq = Plus(start, i - 1)
                            /\ w[i].unit = NoUnit \/ \E k \in 1 .. Len(s) : w[i].unit = s[k]

\* What has arrived came in one of them.
Brought(s, w, d, held) ==
  \A k \in 1 .. Len(s) : Here(s, d, held, k) => \E i \in 1 .. Len(w) : w[i].unit = s[k]

\* A record is of one of them.
Recorded(w, recs) ==
  \A r \in recs : \E i \in 1 .. Len(w) : r = <<w[i].seq, w[i].unit.id>> /\ w[i].unit # NoUnit

\* What a packet carries has arrived, or was nothing.
Taken(s, d, held, u) == u = NoUnit \/ \E k \in 1 .. Len(s) : u = s[k] /\ Here(s, d, held, k)

\* A sequence that may be acknowledged: of an earlier turn, or of packets that have
\* arrived; in either case of none yet to come.
Past(start) == {A!Back(start, j) : j \in 1 .. Window + 1}
Safe(start, s, w, d, held, x) ==
  /\ x \in Past(start) \/ \E i \in 1 .. Len(w) : x = w[i].seq
  /\ \A i \in 1 .. Len(w) : w[i].seq = x => Taken(s, d, held, w[i].unit)

\* A receiver acknowledges nothing else.
Heard(start, s, w, d, held, ack) ==
  /\ IsAcks(ack) /\ (~ack.heard => start = 0 /\ ack.bits = {})
  /\ \A x \in A!Acked(ack) : Safe(start, s, w, d, held, x)

\* Its packets neither; but one sent before it had heard anything names sequence 0,
\* and then the packet of that sequence is empty.
Quiet(e, start) == e \in Answering /\ start = 0
Answers(e, start, s, w, d, held, back) ==
  \A j \in 1 .. Len(back) : \A x \in AckedBy(back[j]) :
    Safe(start, s, w, d, held, x) \/ (Quiet(e, start) /\ x = 0)
First(e, start, w, queue, spoke) ==
  Quiet(e, start) => /\ Len(w) > 0 => w[1].unit = NoUnit
                     /\ Len(w) = 0 => queue = <<>> /\ ~spoke

-----------------------------------------------------------------------------
\* Ids tell the units of a stream apart.
LEMMA UnitsApart ==
  ASSUME NEW start \in A!Seqs, NEW s, NEW queued, NEW next, Streamed(start, s, queued, next),
         Len(s) =< SeqSpace
  PROVE  /\ \A k, l \in 1 .. Len(s) : s[k].id = s[l].id => k = l
         /\ \A k \in 1 .. Len(s) : s[k] # NoUnit /\ s[k] \in Unit
<1>1. Len(s) \in Nat
  BY LenProperties DEF Streamed
<1>2. ASSUME NEW k \in 1 .. Len(s), NEW l \in 1 .. Len(s), s[k].id = s[l].id PROVE k = l
  <2> DEFINE x == k - 1
             y == l - 1
  <2>1. x \in 0 .. SeqSpace - 1 /\ y \in 0 .. SeqSpace - 1
    BY <1>1, Widths
  <2>2. Plus(start, x) = Plus(start, y)
    BY <1>2 DEF Streamed
  <2> HIDE DEF x, y
  <2>3. x = y
    BY <2>1, <2>2, PlusApart
  <2> QED
    BY <1>1, <2>3 DEF x, y
<1>3. ASSUME NEW k \in 1 .. Len(s) PROVE s[k] # NoUnit /\ s[k] \in Unit
  <2>1. Number(s[k]) >= 1 /\ Number(s[k]) # 0
    <3>1. Number(s[k]) \in 1 .. Len(queued)
      BY DEF Streamed, FragmentOf
    <3> QED
      BY <3>1
  <2>2. Number(NoUnit) = 0
    BY DEF Number, NoUnit
  <2>3. s[k] \in Unit
    BY ElementOfSeq DEF Streamed
  <2> QED
    BY <2>1, <2>2, <2>3
<1> QED
  BY <1>2, <1>3

\* Limits keep a stream short of a turn.
LEMMA ShortStream ==
  ASSUME NEW s \in Seq(Unit), NEW d, Limits(s, d)
  PROVE  /\ Len(s) \in Nat /\ d \in Nat /\ d =< Len(s) /\ Len(s) < SeqSpace
         /\ Len(s) - d =< MaxOutstanding /\ d + MaxOutstanding < SeqSpace
<1>1. Len(s) \in Nat
  BY LenProperties
<1> QED
  BY <1>1, Widths DEF Limits

\* What is held, with the expected unit, is no more than what is not delivered.
LEMMA HeldFinite ==
  ASSUME NEW s \in Seq(Unit), NEW d \in 0 .. Len(s), NEW held,
         \A u \in held : \E k \in d + 1 .. Len(s) : u = s[k]
  PROVE  IsFiniteSet(held) /\ Cardinality(held) \in Nat /\ Cardinality(held) =< Len(s) - d
<1> DEFINE I == d + 1 .. Len(s)
           T == {s[k] : k \in I}
           g == [k \in I |-> s[k]]
<1>1. Len(s) \in Nat
  BY LenProperties
<1>2. IsFiniteSet(I) /\ Cardinality(I) = Len(s) - d
  <2>1. d + 1 \in Int /\ Len(s) \in Int
    BY <1>1
  <2>2. IsFiniteSet(I) /\ Cardinality(I) = IF d + 1 > Len(s) THEN 0 ELSE Len(s) - (d + 1) + 1
    BY <2>1, FS_Interval
  <2> HIDE DEF I
  <2> QED
    BY <1>1, <2>2
<1> HIDE DEF I
<1>3. g \in Surjection(I, T)
  BY DEF Surjection
<1>4. IsFiniteSet(T) /\ Cardinality(T) =< Cardinality(I)
  BY <1>2, <1>3, FS_Surjection
<1>5. held \in SUBSET T
  BY DEF I
<1> HIDE DEF T
<1>6. IsFiniteSet(held) /\ Cardinality(held) =< Cardinality(T)
  BY <1>4, <1>5, FS_Subset
<1>7. Cardinality(held) \in Nat /\ Cardinality(T) \in Nat
  BY <1>4, <1>6, FS_CardinalityType
<1> QED
  BY <1>1, <1>2, <1>4, <1>6, <1>7

\* Every packet is another one.
LEMMA WireCount ==
  ASSUME NEW e, NEW start \in A!Seqs, NEW s, NEW w, Wire(e, start, s, w)
  PROVE  /\ Len(w) \in Nat /\ DOMAIN w = 1 .. Len(w) /\ Cardinality(Range(w)) = Len(w)
         /\ \A i, j \in 1 .. Len(w) : w[i].seq = w[j].seq => i = j
<1>1. w \in Seq(Datagram) /\ Len(w) \in Nat /\ Len(w) =< MaxPackets /\ DOMAIN w = 1 .. Len(w)
      /\ w \in [1 .. Len(w) -> Datagram]
  BY LenProperties DEF Wire
<1>2. ASSUME NEW i \in 1 .. Len(w), NEW j \in 1 .. Len(w), w[i].seq = w[j].seq PROVE i = j
  <2> DEFINE x == i - 1
             y == j - 1
  <2>1. x \in 0 .. SeqSpace - 1 /\ y \in 0 .. SeqSpace - 1
    BY <1>1, Widths
  <2>2. Plus(start, x) = Plus(start, y)
    BY <1>2 DEF Wire
  <2> HIDE DEF x, y
  <2>3. x = y
    BY <2>1, <2>2, PlusApart
  <2> QED
    BY <1>1, <2>3 DEF x, y
<1>3. w \in Injection(1 .. Len(w), Range(w)) /\ w \in Surjection(1 .. Len(w), Range(w))
  <2>1. w \in [1 .. Len(w) -> Range(w)]
    BY <1>1 DEF Range
  <2>2. \A i, j \in 1 .. Len(w) : w[i] = w[j] => i = j
    BY <1>2
  <2>3. \A p \in Range(w) : \E i \in 1 .. Len(w) : w[i] = p
    BY <1>1 DEF Range
  <2> QED
    BY <2>1, <2>2, <2>3 DEF Injection, Surjection, IsInjective
<1>4. IsFiniteSet(1 .. Len(w)) /\ Cardinality(1 .. Len(w)) = Len(w)
  BY <1>1, FS_Interval
<1>5. Cardinality(Range(w)) = Len(w)
  BY <1>3, <1>4, FS_Surjection
<1> QED
  BY <1>1, <1>2, <1>5
-----------------------------------------------------------------------------
(* Sending.                                                                 *)

\* What waits in the outbox bounds what has been sent and not delivered.
LEMMA SpanBound ==
  ASSUME NEW e \in Ends, NEW start \in A!Seqs, NEW s, NEW d, NEW held,
         Streamed(start, s, sent[e], nextId[e]), Queued(s, outbox[e]),
         Pending(s, d, held, outbox[e]), Held(s, d, held), Limits(s, d),
         NEW k \in Nat, Span(e) + k =< MaxOutstanding
  PROVE  Len(s) + k =< d + MaxOutstanding
<1> DEFINE queue == outbox[e]
           next == nextId[e]
<1>1. s \in Seq(Unit) /\ next = Plus(start, Len(s)) /\ queue \in Seq(Entry)
  BY DEF Streamed, Queued
<1>2. /\ Len(s) \in Nat /\ d \in Nat /\ d =< Len(s) /\ Len(s) < SeqSpace
      /\ Len(s) - d =< MaxOutstanding
  BY <1>1, ShortStream
<1>3. \A i, j \in 1 .. Len(s) : s[i] = s[j] => i = j
  BY <1>2, UnitsApart, Widths
<1>4. ASSUME d < Len(s) PROVE \E i \in 1 .. Len(queue) : queue[i].unit = s[d + 1]
  <2>1. d + 1 \in 1 .. Len(s) /\ ~(d + 1 =< d)
    BY <1>2, <1>4
  <2>2. s[d + 1] \notin held
    <3> SUFFICES ASSUME s[d + 1] \in held PROVE FALSE
      OBVIOUS
    <3>1. PICK l \in d + 2 .. Len(s) : s[d + 1] = s[l]
      BY DEF Held
    <3>2. l \in 1 .. Len(s) /\ l # d + 1
      BY <1>2
    <3> QED
      BY <1>3, <2>1, <3>1, <3>2
  <2> QED
    BY <2>1, <2>2 DEF Pending, Here
<1>5. Len(queue) \in Nat
  BY <1>1, LenProperties
<1>6. CASE queue = <<>>
  <2>1. Len(queue) = 0 /\ Span(e) = 0
    BY <1>6 DEF Span
  <2>2. d = Len(s)
    BY <1>2, <1>4, <2>1
  <2> QED
    BY <1>2, <2>1, <2>2, Widths
<1>7. CASE queue # <<>>
  <2>1. 1 \in 1 .. Len(queue)
    BY <1>1, <1>7, EmptySeq
  <2>2. PICK h \in 1 .. Len(s) : queue[1].unit = s[h]
    BY <2>1 DEF Queued
  <2>3. h =< d + 1
    <3>1. CASE d < Len(s)
      <4>1. PICK i \in 1 .. Len(queue) : queue[i].unit = s[d + 1]
        BY <1>4, <3>1
      <4>2. d + 1 \in 1 .. Len(s)
        BY <1>2, <3>1
      <4>3. CASE i = 1
        BY <1>2, <1>3, <2>2, <4>1, <4>2, <4>3
      <4>4. CASE i # 1
        <5>1. 1 < i
          BY <1>5, <4>4
        <5>2. h < d + 1
          BY <2>1, <2>2, <4>1, <4>2, <5>1 DEF Queued
        <5> QED
          BY <1>2, <5>2
      <4> QED
        BY <4>3, <4>4
    <3>2. CASE ~(d < Len(s))
      BY <1>2, <3>2
    <3> QED
      BY <3>1, <3>2
  <2> DEFINE x == Len(s)
             y == h - 1
  <2>4. x \in 0 .. SeqSpace - 1 /\ y \in 0 .. SeqSpace - 1 /\ y =< x
    BY <1>2, Widths
  <2>5. Span(e) = A!Back(Plus(start, x), Plus(start, y))
    <3>1. queue[1].unit.id = Plus(start, h - 1)
      BY <2>2 DEF Streamed
    <3> QED
      BY <1>1, <1>7, <3>1 DEF Span
  <2> HIDE DEF x, y
  <2>6. Span(e) = x - y
    BY <2>4, <2>5, PlusApart
  <2> QED
    BY <1>2, <2>3, <2>6, Widths DEF x, y
<1> QED
  BY <1>6, <1>7

\* What has arrived stays so when there is more of the stream, or more arrives.
LEMMA SafeLater ==
  ASSUME NEW e, NEW start, NEW s, NEW t, NEW w, NEW d, NEW d2, NEW held, NEW held2, NEW ack, NEW back,
         \A i \in 1 .. Len(w) : Taken(s, d, held, w[i].unit) => Taken(t, d2, held2, w[i].unit)
  PROVE  /\ \A x : Safe(start, s, w, d, held, x) => Safe(start, t, w, d2, held2, x)
         /\ Heard(start, s, w, d, held, ack) => Heard(start, t, w, d2, held2, ack)
         /\ Answers(e, start, s, w, d, held, back) => Answers(e, start, t, w, d2, held2, back)
<1>1. ASSUME NEW x, Safe(start, s, w, d, held, x) PROVE Safe(start, t, w, d2, held2, x)
  BY <1>1 DEF Safe
<1>2. Heard(start, s, w, d, held, ack) => Heard(start, t, w, d2, held2, ack)
  BY <1>1 DEF Heard
<1>3. Answers(e, start, s, w, d, held, back) => Answers(e, start, t, w, d2, held2, back)
  BY <1>1 DEF Answers
<1> QED
  BY <1>1, <1>2, <1>3

\* Those units as entries of the outbox.
Entered(units, new) ==
  new \in Seq(Entry) /\ Len(new) = Len(units) /\ \A i \in 1 .. Len(units) : new[i].unit = units[i]

\* A longer stream with its new units in the outbox.
LEMMA SendLink ==
  ASSUME NEW e, NEW start \in A!Seqs, NEW s \in Seq(Unit), NEW t, NEW queued, NEW next,
         NEW units, Grown(s, units, t), Streamed(start, t, queued, next), Len(t) < SeqSpace,
         NEW d, NEW held, Limits(s, d), Len(t) =< d + MaxOutstanding, Held(s, d, held),
         NEW queue, Queued(s, queue), Pending(s, d, held, queue),
         NEW w, Wire(e, start, s, w), Brought(s, w, d, held),
         NEW ack, Heard(start, s, w, d, held, ack),
         NEW back, Answers(e, start, s, w, d, held, back),
         NEW new, Entered(units, new)
  PROVE  /\ Limits(t, d) /\ Held(t, d, held) /\ Queued(t, queue \o new)
         /\ Pending(t, d, held, queue \o new) /\ Wire(e, start, t, w) /\ Brought(t, w, d, held)
         /\ Heard(start, t, w, d, held, ack) /\ Answers(e, start, t, w, d, held, back)
<1> DEFINE l == Len(s)
           k == Len(units)
           more == queue \o new
<1>0. /\ units \in Seq(Unit) /\ k \in Nat /\ Len(t) = l + k
      /\ \A i \in 1 .. l : t[i] = s[i]
      /\ \A i \in 1 .. k : t[l + i] = units[i]
  BY LenProperties DEF Grown
<1>17. new \in Seq(Entry) /\ Len(new) = k /\ \A i \in 1 .. k : new[i].unit = units[i]
  BY DEF Entered
<1> HIDE DEF k
<1>1. l \in Nat /\ d \in 0 .. l /\ Len(t) = l + k /\ \A i \in 1 .. l : i \in 1 .. Len(t) /\ t[i] = s[i]
  BY <1>0, LenProperties DEF Limits
<1>2. /\ \A i, j \in 1 .. Len(t) : t[i].id = t[j].id => i = j
      /\ \A i \in 1 .. Len(t) : t[i] # NoUnit /\ t[i] \in Unit
  <2>1. Len(t) =< SeqSpace
    BY <1>1, Widths
  <2> QED
    BY <2>1, UnitsApart
<1>3. \A i \in 1 .. l : Here(t, d, held, i) <=> Here(s, d, held, i)
  BY <1>1 DEF Here
<1>4. ASSUME NEW u, Taken(s, d, held, u) PROVE Taken(t, d, held, u)
  <2>1. CASE u = NoUnit
    BY <2>1 DEF Taken
  <2>2. CASE \E j \in 1 .. l : u = s[j] /\ Here(s, d, held, j)
    BY <1>1, <1>3, <2>2 DEF Taken
  <2> QED
    BY <1>4, <2>1, <2>2 DEF Taken
<1>5. Limits(t, d)
  BY <1>1 DEF Limits
<1>6. Held(t, d, held)
  <2> SUFFICES ASSUME NEW u \in held PROVE \E i \in d + 2 .. Len(t) : u = t[i]
    BY DEF Held
  <2>1. PICK i \in d + 2 .. l : u = s[i]
    BY DEF Held
  <2>2. i \in 1 .. l /\ i \in d + 2 .. Len(t)
    BY <1>0, <1>1
  <2> QED
    BY <1>0, <2>1, <2>2
<1>7. queue \in Seq(Entry) /\ Len(queue) \in Nat /\ Len(new) = k
  BY <1>17, LenProperties DEF Queued
<1>8. more = queue \o new
  OBVIOUS
<1> HIDE DEF more
<1>9. /\ more \in Seq(Entry) /\ Len(more) = Len(queue) + k
      /\ \A i \in 1 .. Len(queue) : i \in 1 .. Len(more) /\ more[i] = queue[i]
      /\ \A i \in 1 .. k : Len(queue) + i \in 1 .. Len(more) /\ more[Len(queue) + i].unit = units[i]
  <2>1. /\ queue \o new \in Seq(Entry) /\ Len(queue \o new) = Len(queue) + Len(new)
        /\ \A i \in 1 .. Len(queue) + Len(new) :
             (queue \o new)[i] = IF i <= Len(queue) THEN queue[i] ELSE new[i - Len(queue)]
    BY <1>7, <1>17, ConcatProperties
  <2> DEFINE c == queue \o new
  <2> HIDE DEF c
  <2>2. /\ c \in Seq(Entry) /\ Len(c) = Len(queue) + k
        /\ \A i \in 1 .. Len(queue) + k : c[i] = IF i <= Len(queue) THEN queue[i] ELSE new[i - Len(queue)]
    BY <1>7, <1>0, <2>1 DEF c
  <2>3. ASSUME NEW i \in 1 .. Len(queue) PROVE i \in 1 .. Len(c) /\ c[i] = queue[i]
    BY <1>0, <1>7, <2>2
  <2>4. ASSUME NEW i \in 1 .. k PROVE Len(queue) + i \in 1 .. Len(c) /\ c[Len(queue) + i].unit = units[i]
    <3>1. Len(queue) + i \in 1 .. Len(queue) + k /\ ~(Len(queue) + i <= Len(queue))
          /\ (Len(queue) + i) - Len(queue) = i
      BY <1>0, <1>7
    <3>2. c[Len(queue) + i] = new[i]
      BY <2>2, <3>1
    <3> QED
      BY <1>0, <1>17, <2>2, <3>1, <3>2
  <2>5. c = more
    BY <1>8 DEF c
  <2> QED
    BY <2>2, <2>3, <2>4, <2>5
\* Each entry is a unit of the longer stream.
<1>10. ASSUME NEW i \in 1 .. Len(more)
       PROVE  \/ i \in 1 .. Len(queue) /\ \E j \in 1 .. l : queue[i].unit = s[j] /\ more[i].unit = t[j]
              \/ \E j \in 1 .. k : i = Len(queue) + j /\ more[i].unit = t[l + j] /\ l + j \in 1 .. Len(t)
  <2>1. CASE i \in 1 .. Len(queue)
    BY <1>0, <1>9, <2>1 DEF Queued
  <2>2. CASE i \notin 1 .. Len(queue)
    <3> DEFINE j == i - Len(queue)
    <3>1. j \in 1 .. k /\ i = Len(queue) + j
      BY <1>0, <1>7, <1>9, <2>2
    <3> HIDE DEF j
    <3>2. more[Len(queue) + j].unit = units[j]
      BY <1>9, <3>1
    <3>3. t[l + j] = units[j]
      BY <1>0, <3>1
    <3>4. l + j \in 1 .. Len(t)
      BY <1>0, <1>1, <3>1
    <3> QED
      BY <3>1, <3>2, <3>3, <3>4
  <2> QED
    BY <2>1, <2>2
<1>11. Queued(t, more)
  <2>1. \A i \in 1 .. Len(more) : \E j \in 1 .. Len(t) : more[i].unit = t[j]
    BY <1>1, <1>10
  <2>2. ASSUME NEW i \in 1 .. Len(more), NEW j \in 1 .. Len(more), i < j,
               NEW a \in 1 .. Len(t), NEW b \in 1 .. Len(t), more[i].unit = t[a], more[j].unit = t[b]
        PROVE  a < b
    <3>1. CASE j \in 1 .. Len(queue)
      <4>1. i \in 1 .. Len(queue)
        BY <1>7, <2>2, <3>1
      <4>2. PICK p \in 1 .. l : queue[i].unit = s[p] /\ more[i].unit = t[p]
        <5>1. ~\E q \in 1 .. k : i = Len(queue) + q
          BY <1>7, <4>1
        <5> QED
          BY <1>10, <5>1
      <4>3. PICK q \in 1 .. l : queue[j].unit = s[q] /\ more[j].unit = t[q]
        <5>1. ~\E r \in 1 .. k : j = Len(queue) + r
          BY <1>7, <3>1
        <5> QED
          BY <1>10, <5>1
      <4>4. p < q
        BY <2>2, <3>1, <4>1, <4>2, <4>3 DEF Queued
      <4>5. a = p /\ b = q
        BY <1>1, <1>2, <2>2, <4>2, <4>3
      <4> QED
        BY <4>4, <4>5
    <3>2. CASE j \notin 1 .. Len(queue)
      <4>1. PICK q \in 1 .. k : j = Len(queue) + q /\ more[j].unit = t[l + q] /\ l + q \in 1 .. Len(t)
        BY <1>10, <3>2
      <4>2. b = l + q
        BY <1>2, <2>2, <4>1
      <4>3. CASE i \in 1 .. Len(queue)
        <5>1. ~\E r \in 1 .. k : i = Len(queue) + r
          BY <1>7, <4>3
        <5>2. PICK p \in 1 .. l : more[i].unit = t[p]
          BY <1>10, <5>1
        <5>3. a = p
          BY <1>1, <1>2, <2>2, <5>2
        <5> QED
          BY <1>1, <4>2, <5>3
      <4>4. CASE i \notin 1 .. Len(queue)
        <5>1. PICK p \in 1 .. k : i = Len(queue) + p /\ more[i].unit = t[l + p] /\ l + p \in 1 .. Len(t)
          BY <1>10, <4>4
        <5>2. a = l + p
          BY <1>2, <2>2, <5>1
        <5>3. p < q
          BY <1>7, <2>2, <4>1, <5>1
        <5> QED
          BY <1>1, <4>2, <5>2, <5>3
      <4> QED
        BY <4>3, <4>4
    <3> QED
      BY <3>1, <3>2
  <2>3. \A i, j \in 1 .. Len(more) : i < j =>
          \A a, b \in 1 .. Len(t) : more[i].unit = t[a] /\ more[j].unit = t[b] => a < b
    BY <2>2
  <2>4. more \in Seq(Entry)
    BY <1>9
  <2> QED
    BY <2>1, <2>3, <2>4, Zenon DEF Queued
<1>12. Pending(t, d, held, more)
  <2> SUFFICES ASSUME NEW i \in 1 .. Len(t)
               PROVE  Here(t, d, held, i) \/ \E j \in 1 .. Len(more) : more[j].unit = t[i]
    BY DEF Pending
  <2>1. CASE i \in 1 .. l
    <3>1. Here(s, d, held, i) \/ \E j \in 1 .. Len(queue) : queue[j].unit = s[i]
      BY <2>1 DEF Pending
    <3> QED
      BY <1>0, <1>3, <1>9, <2>1, <3>1
  <2>2. CASE i \notin 1 .. l
    <3> DEFINE j == i - l
    <3>1. j \in 1 .. k /\ i = l + j
      BY <1>0, <1>1, <2>2
    <3> HIDE DEF j
    <3> QED
      BY <1>0, <1>9, <3>1
  <2> QED
    BY <2>1, <2>2
<1>13. Wire(e, start, t, w)
  <2> SUFFICES ASSUME NEW i \in 1 .. Len(w)
               PROVE  w[i].unit = NoUnit \/ \E j \in 1 .. Len(t) : w[i].unit = t[j]
    BY DEF Wire
  <2>1. w[i].unit = NoUnit \/ \E j \in 1 .. l : w[i].unit = s[j]
    BY DEF Wire
  <2> QED
    BY <1>1, <2>1
<1>14. Brought(t, w, d, held)
  <2> SUFFICES ASSUME NEW i \in 1 .. Len(t), Here(t, d, held, i)
               PROVE  \E j \in 1 .. Len(w) : w[j].unit = t[i]
    BY DEF Brought
  <2>1. i \in 1 .. l
    <3>1. CASE i =< d
      BY <1>1, <3>1
    <3>2. CASE t[i] \in held
      <4>1. PICK j \in d + 2 .. l : t[i] = s[j]
        BY <3>2 DEF Held
      <4>2. j \in 1 .. l /\ t[j] = s[j]
        BY <1>1
      <4> QED
        BY <1>1, <1>2, <4>1, <4>2
    <3> QED
      BY <3>1, <3>2 DEF Here
  <2> QED
    BY <1>0, <1>3, <2>1 DEF Brought
<1>15. Heard(start, t, w, d, held, ack) /\ Answers(e, start, t, w, d, held, back)
  <2>1. \A i \in 1 .. Len(w) : Taken(s, d, held, w[i].unit) => Taken(t, d, held, w[i].unit)
    BY <1>4
  <2> QED
    BY <2>1, SafeLater
<1> QED
  BY <1>5, <1>6, <1>11, <1>12, <1>13, <1>14, <1>15 DEF more
-----------------------------------------------------------------------------
(* Receiving an acknowledgement.                                            *)

\* Ids of units that have arrived.
AllHere(s, d, held, ids) == \A x \in ids : \E k \in 1 .. Len(s) : s[k].id = x /\ Here(s, d, held, k)

\* Only what has arrived leaves the outbox.
LEMMA RetireLink ==
  ASSUME NEW start \in A!Seqs, NEW s, NEW queued, NEW next, Streamed(start, s, queued, next),
         Len(s) =< SeqSpace, NEW d, NEW held, NEW queue, Queued(s, queue), Pending(s, d, held, queue),
         NEW ids, AllHere(s, d, held, ids)
  PROVE  /\ Queued(s, Without(queue, ids)) /\ Pending(s, d, held, Without(queue, ids))
         /\ queue = <<>> => Without(queue, ids) = <<>>
<1> DEFINE S == {i \in DOMAIN queue : queue[i].unit.id \notin ids}
           left == Sorted(S)
           m == Cardinality(S)
           rest == Without(queue, ids)
<1>1. /\ queue \in Seq(Entry) /\ Len(queue) \in Nat /\ DOMAIN queue = 1 .. Len(queue)
      /\ \A i \in 1 .. Len(queue) : queue[i] \in Entry
  BY LenProperties, ElementOfSeq DEF Queued
<1>2. \A k, l \in 1 .. Len(s) : s[k].id = s[l].id => k = l
  BY UnitsApart
<1>3. /\ m \in Nat /\ left \in [1 .. m -> S] /\ \A i, j \in 1 .. m : i < j => left[i] < left[j]
      /\ \A x \in S : \E i \in 1 .. m : left[i] = x
  <2>1. \A i \in S : i \in 1 .. Len(queue)
    BY <1>1
  <2> HIDE DEF S
  <2>2. Counts(S, Cardinality(S), Sorted(S))
    BY <1>1, <2>1, SortedCounts
  <2> QED
    BY <2>2 DEF Counts
<1>4. rest = [j \in DOMAIN left |-> queue[left[j]]]
  BY DEF Without
<1>5. \A i \in S : i \in 1 .. Len(queue) /\ queue[i].unit.id \notin ids
  BY <1>1
<1>6. \A i \in 1 .. Len(queue) : queue[i].unit.id \notin ids => i \in S
  BY <1>1
<1> HIDE DEF S, left, m
<1>7. /\ rest = [j \in 1 .. m |-> queue[left[j]]]
      /\ \A j \in 1 .. m : left[j] \in 1 .. Len(queue) /\ rest[j] = queue[left[j]]
  BY <1>3, <1>4, <1>5
<1> HIDE DEF rest
<1>8. rest \in Seq(Entry) /\ Len(rest) = m
  BY <1>1, <1>3, <1>7
<1>9. Queued(s, rest)
  <2>1. \A j \in 1 .. m : \E k \in 1 .. Len(s) : rest[j].unit = s[k]
    BY <1>7 DEF Queued
  <2>2. ASSUME NEW i \in 1 .. m, NEW j \in 1 .. m, i < j, NEW k \in 1 .. Len(s), NEW l \in 1 .. Len(s),
               rest[i].unit = s[k], rest[j].unit = s[l]
        PROVE  k < l
    <3>1. left[i] < left[j] /\ left[i] \in 1 .. Len(queue) /\ left[j] \in 1 .. Len(queue)
      BY <1>3, <1>7, <2>2
    <3>2. queue[left[i]].unit = s[k] /\ queue[left[j]].unit = s[l]
      BY <1>7, <2>2
    <3> QED
      BY <3>1, <3>2 DEF Queued
  <2>3. \A i, j \in 1 .. Len(rest) : i < j =>
          \A k, l \in 1 .. Len(s) : rest[i].unit = s[k] /\ rest[j].unit = s[l] => k < l
    BY <1>8, <2>2
  <2>4. \A j \in 1 .. Len(rest) : \E k \in 1 .. Len(s) : rest[j].unit = s[k]
    BY <1>8, <2>1
  <2> QED
    BY <1>8, <2>3, <2>4, Zenon DEF Queued
<1>10. Pending(s, d, held, rest)
  <2> SUFFICES ASSUME NEW k \in 1 .. Len(s), ~Here(s, d, held, k)
               PROVE  \E j \in 1 .. Len(rest) : rest[j].unit = s[k]
    BY DEF Pending
  <2>1. PICK i \in 1 .. Len(queue) : queue[i].unit = s[k]
    BY DEF Pending
  <2>2. queue[i].unit.id \notin ids
    BY <1>2, <2>1 DEF AllHere
  <2>3. PICK j \in 1 .. m : left[j] = i
    BY <1>3, <1>6, <2>2
  <2> QED
    BY <1>7, <1>8, <2>1, <2>3
<1>11. ASSUME queue = <<>> PROVE rest = <<>>
  <2>1. Len(queue) = 0
    BY <1>11
  <2>2. m = 0
    BY <1>3, <1>7, <2>1
  <2> QED
    BY <1>8, <2>2, EmptySeq
<1> QED
  BY <1>9, <1>10, <1>11 DEF rest

\* A packet acknowledges messages that have arrived.
LEMMA RetiredArrived ==
  ASSUME NEW e \in Ends, NEW start \in A!Seqs, NEW s, NEW d, NEW held, NEW w, Wire(e, start, s, w),
         Recorded(w, records[e]), NEW back, Answers(e, start, s, w, d, held, back),
         NEW queue, NEW spoke, First(e, start, w, queue, spoke),
         back \in Seq(Datagram), NEW p \in Range(back)
  PROVE  AllHere(s, d, held, Retired(e, p))
<1> SUFFICES ASSUME NEW x \in Retired(e, p)
             PROVE  \E k \in 1 .. Len(s) : s[k].id = x /\ Here(s, d, held, k)
  BY DEF AllHere
<1>0. PICK j \in 1 .. Len(back) : back[j] = p
  BY LenProperties DEF Range
<1>1. PICK r \in records[e] : r[1] \in AckedBy(p) /\ x = r[2]
  BY DEF Retired
<1>2. PICK i \in 1 .. Len(w) : r = <<w[i].seq, w[i].unit.id>> /\ w[i].unit # NoUnit
  BY DEF Recorded
<1>3. w[i].seq \in AckedBy(back[j]) /\ x = w[i].unit.id
  BY <1>0, <1>1, <1>2
<1>4. Len(w) \in Nat /\ Len(w) =< MaxPackets
  BY WireCount DEF Wire
<1>5. ~(Quiet(e, start) /\ w[i].seq = 0)
  <2> SUFFICES ASSUME Quiet(e, start), w[i].seq = 0 PROVE FALSE
    OBVIOUS
  <2>1. w[1].unit = NoUnit
    BY <1>4 DEF First
  <2>2. Plus(0, i - 1) = 0 /\ i - 1 \in 0 .. SeqSpace - 1 /\ 0 \in A!Seqs /\ 0 \in 0 .. SeqSpace - 1
    BY <1>4, Widths DEF Wire, Quiet, A!Seqs
  <2> DEFINE y == i - 1
  <2>3. Plus(0, 0) = 0
    BY <2>2, PlusOnce, Widths
  <2> HIDE DEF y
  <2>4. y = 0
    <3>1. y \in 0 .. SeqSpace - 1 /\ Plus(0, y) = Plus(0, 0)
      BY <2>2, <2>3 DEF y
    <3> QED
      BY <2>2, <3>1, PlusApart
  <2>5. i = 1
    BY <2>4 DEF y
  <2> QED
    BY <1>2, <2>1, <2>5
<1>6. Safe(start, s, w, d, held, w[i].seq)
  BY <1>3, <1>5 DEF Answers
<1>7. Taken(s, d, held, w[i].unit)
  BY <1>6 DEF Safe
<1> QED
  BY <1>2, <1>3, <1>7 DEF Taken

-----------------------------------------------------------------------------
(* Transmitting.                                                            *)

\* More packets, numbered on, and their records.
Numbered(e, start, s, w, new) ==
  /\ new \in Seq(Datagram) /\ Len(w) + Len(new) =< MaxPackets
  /\ \A i \in 1 .. Len(new) :
       /\ new[i].to = Other(e) /\ new[i].seq = Plus(Plus(start, Len(w)), i - 1)
       /\ new[i].unit = NoUnit \/ \E k \in 1 .. Len(s) : new[i].unit = s[k]
Filed(recs, new, more) ==
  \A r \in more : \/ r \in recs
                  \/ \E i \in 1 .. Len(new) : r = <<new[i].seq, new[i].unit.id>> /\ new[i].unit # NoUnit

Joined(w, new, v) == v = w \o new
After(w, new, v) == /\ Len(v) = Len(w) + Len(new)
                    /\ Len(w) > 0 => v[1] = w[1]
                    /\ Len(w) = 0 /\ Len(new) > 0 => v[1] = new[1]
                    /\ Range(v) = Range(w) \cup Range(new)

\* More packets, whose sequences nobody has acknowledged.
LEMMA TransmitLink ==
  ASSUME NEW e, NEW start \in A!Seqs, NEW s, NEW w, Wire(e, start, s, w),
         NEW new, Numbered(e, start, s, w, new),
         NEW d, NEW held, Brought(s, w, d, held), NEW recs, Recorded(w, recs),
         NEW more, Filed(recs, new, more), NEW v, Joined(w, new, v),
         NEW ack, Heard(start, s, w, d, held, ack), NEW back, Answers(e, start, s, w, d, held, back)
  PROVE  /\ Wire(e, start, s, v) /\ Brought(s, v, d, held) /\ Recorded(v, more)
         /\ Heard(start, s, v, d, held, ack) /\ Answers(e, start, s, v, d, held, back)
         /\ After(w, new, v)
<1> DEFINE l == Len(w)
           n == Len(new)
           at == Plus(start, l)
<1>0. /\ new \in Seq(Datagram) /\ l + n =< MaxPackets /\ n \in Nat
      /\ \A i \in 1 .. n :
           /\ new[i].to = Other(e) /\ new[i].seq = Plus(at, i - 1)
           /\ new[i].unit = NoUnit \/ \E k \in 1 .. Len(s) : new[i].unit = s[k]
  BY LenProperties DEF Numbered
<1>12. \A i \in 1 .. n : new[i].to = Other(e)
  BY <1>0
<1>13. \A i \in 1 .. n : new[i].seq = Plus(at, i - 1)
  BY <1>0
<1>14. \A i \in 1 .. n : new[i].unit = NoUnit \/ \E k \in 1 .. Len(s) : new[i].unit = s[k]
  BY <1>0
<1>1. w \in Seq(Datagram) /\ l \in Nat
  BY LenProperties DEF Wire
<1>2. /\ v \in Seq(Datagram) /\ Len(v) = l + n
      /\ \A i \in 1 .. l : i \in 1 .. Len(v) /\ v[i] = w[i]
      /\ \A i \in 1 .. n : l + i \in 1 .. Len(v) /\ v[l + i] = new[i]
  <2>1. /\ v \in Seq(Datagram) /\ Len(v) = l + Len(new)
        /\ \A i \in 1 .. l + Len(new) : v[i] = IF i <= l THEN w[i] ELSE new[i - l]
    BY <1>0, <1>1, ConcatProperties DEF Joined
  <2> HIDE DEF l
  <2>2. ASSUME NEW i \in 1 .. l PROVE i \in 1 .. Len(v) /\ v[i] = w[i]
    BY <1>0, <1>1, <2>1
  <2>3. ASSUME NEW i \in 1 .. n PROVE l + i \in 1 .. Len(v) /\ v[l + i] = new[i]
    <3>1. l + i \in 1 .. l + n /\ ~(l + i <= l) /\ (l + i) - l = i
      BY <1>0, <1>1
    <3> QED
      BY <1>0, <2>1, <3>1
  <2> QED
    BY <1>0, <2>1, <2>2, <2>3
<1>3. ASSUME NEW i \in 1 .. Len(v)
      PROVE  i \in 1 .. l \/ \E j \in 1 .. n : i = l + j /\ v[i] = new[j]
  <2> DEFINE j == i - l
  <2>1. i \in 1 .. l \/ (j \in 1 .. n /\ i = l + j)
    BY <1>0, <1>1, <1>2
  <2> HIDE DEF j
  <2> QED
    BY <1>2, <2>1
<1> HIDE DEF l, n, at
<1>4. ASSUME NEW i \in 1 .. Len(v) PROVE v[i].seq = Plus(start, i - 1)
  <2>1. CASE i \in 1 .. l
    BY <1>2, <2>1 DEF Wire, l
  <2>2. ASSUME NEW j \in 1 .. n, i = l + j, v[i] = new[j] PROVE v[i].seq = Plus(start, i - 1)
    <3>1. l + (j - 1) < SeqSpace /\ j - 1 \in Nat /\ l + (j - 1) = i - 1
      BY <1>0, <1>1, <2>2, Widths
    <3>2. new[j].seq = Plus(at, j - 1)
      BY <1>13
    <3>3. Plus(Plus(start, l), j - 1) = Plus(start, l + (j - 1))
      BY <1>1, <3>1, PlusPlus
    <3> QED
      BY <2>2, <3>1, <3>2, <3>3 DEF at
  <2> QED
    BY <1>3, <2>1, <2>2
<1>5. Wire(e, start, s, v)
  <2>1. ASSUME NEW i \in 1 .. Len(v)
        PROVE  v[i].to = Other(e) /\ (v[i].unit = NoUnit \/ \E k \in 1 .. Len(s) : v[i].unit = s[k])
    <3>1. CASE i \in 1 .. l
      BY <1>2, <3>1 DEF Wire, l
    <3>2. ASSUME NEW j \in 1 .. n, i = l + j, v[i] = new[j]
          PROVE  v[i].to = Other(e) /\ (v[i].unit = NoUnit \/ \E k \in 1 .. Len(s) : v[i].unit = s[k])
      BY <1>12, <1>14, <3>2
    <3> QED
      BY <1>3, <3>1, <3>2
  <2>2. Len(v) =< MaxPackets
    BY <1>0, <1>2
  <2> QED
    BY <1>2, <1>4, <2>1, <2>2 DEF Wire
<1>6. Brought(s, v, d, held)
  BY <1>2 DEF Brought, l
<1>7. Recorded(v, more)
  <2> SUFFICES ASSUME NEW r \in more
               PROVE  \E i \in 1 .. Len(v) : r = <<v[i].seq, v[i].unit.id>> /\ v[i].unit # NoUnit
    BY DEF Recorded
  <2>1. CASE r \in recs
    BY <1>2, <2>1 DEF Recorded, l
  <2>2. CASE r \notin recs
    <3>1. PICK i \in 1 .. n : new[i].unit # NoUnit /\ r = <<new[i].seq, new[i].unit.id>>
      BY <2>2 DEF Filed, n
    <3> QED
      BY <1>2, <3>1
  <2> QED
    BY <2>1, <2>2
\* A new sequence is none of those acknowledged.
<1>8. ASSUME NEW x, Safe(start, s, w, d, held, x) PROVE Safe(start, s, v, d, held, x)
  <2>1. x \in Past(start) \/ \E i \in 1 .. Len(v) : x = v[i].seq
    BY <1>2, <1>8 DEF Safe, l
  <2>2. ASSUME NEW i \in 1 .. Len(v), v[i].seq = x PROVE i \in 1 .. l
    <3> SUFFICES ASSUME i \notin 1 .. l PROVE FALSE
      OBVIOUS
    <3> DEFINE y == i - 1
    <3>1. y \in Nat /\ y >= l /\ y < MaxPackets /\ y \in 0 .. SeqSpace - 1 /\ x = Plus(start, y)
      <4>1. i > l /\ i =< MaxPackets
        BY <1>0, <1>1, <1>2, Widths
      <4> QED
        BY <1>1, <1>4, <2>2, <4>1, Widths
    <3> HIDE DEF y
    <3>2. CASE x \in Past(start)
      <4>1. PICK j \in 1 .. Window + 1 : x = A!Back(start, j)
        BY <3>2 DEF Past
      <4>2. j \in A!Seqs /\ j >= 1 /\ j =< Window + 1
        BY Widths DEF A!Seqs
      <4>3. x = IF start >= j THEN start - j ELSE start + SeqSpace - j
        BY <4>1, <4>2, BackOnce
      <4>4. x = IF start + y < SeqSpace THEN start + y ELSE start + y - SeqSpace
        BY <3>1, PlusOnce
      <4>5. start \in Nat /\ start < SeqSpace
        BY Widths DEF A!Seqs
      <4> QED
        BY <3>1, <4>2, <4>3, <4>4, <4>5, Widths
    <3>3. ASSUME NEW j \in 1 .. l, x = w[j].seq PROVE FALSE
      <4> DEFINE z == j - 1
      <4>1. x = Plus(start, z)
        BY <3>3 DEF Wire, l
      <4>2. z \in 0 .. SeqSpace - 1 /\ z < l
        BY <1>1, <3>1, Widths
      <4> HIDE DEF z
      <4>4. Plus(start, z) = Plus(start, y)
        BY <3>1, <4>1
      <4>3. z = y
        BY <3>1, <4>2, <4>4, PlusApart
      <4> QED
        BY <3>1, <4>2, <4>3, <1>1
    <3> QED
      BY <1>8, <3>2, <3>3 DEF Safe, l
  <2>3. ASSUME NEW i \in 1 .. Len(v), v[i].seq = x PROVE Taken(s, d, held, v[i].unit)
    <3>1. i \in 1 .. l
      BY <2>2, <2>3
    <3>2. v[i] = w[i]
      BY <1>2, <3>1
    <3> QED
      BY <1>8, <2>3, <3>1, <3>2 DEF Safe, l
  <2> QED
    BY <2>1, <2>3 DEF Safe
<1>9. Heard(start, s, v, d, held, ack) /\ Answers(e, start, s, v, d, held, back)
  BY <1>8 DEF Heard, Answers
<1>10. (l > 0 => v[1] = w[1]) /\ (l = 0 /\ n > 0 => v[1] = new[1])
  <2>1. l > 0 => 1 \in 1 .. l
    BY <1>1
  <2>2. l = 0 /\ n > 0 => 1 \in 1 .. n /\ l + 1 = 1
    BY <1>0, <1>1
  <2> QED
    BY <1>2, <2>1, <2>2
<1>11. Range(v) = Range(w) \cup Range(new)
  <2>1. DOMAIN v = 1 .. Len(v) /\ DOMAIN w = 1 .. l /\ DOMAIN new = 1 .. n
    BY <1>0, <1>1, <1>2, LenProperties DEF l, n
  <2>2. \A i \in 1 .. Len(v) : v[i] \in Range(w) \cup Range(new)
    <3> SUFFICES ASSUME NEW i \in 1 .. Len(v) PROVE v[i] \in Range(w) \cup Range(new)
      OBVIOUS
    <3>1. CASE i \in 1 .. l
      BY <1>2, <2>1, <3>1 DEF Range
    <3>2. ASSUME NEW j \in 1 .. n, v[i] = new[j] PROVE v[i] \in Range(w) \cup Range(new)
      BY <2>1, <3>2 DEF Range
    <3> QED
      BY <1>3, <3>1, <3>2
  <2>3. \A i \in 1 .. l : w[i] \in Range(v)
    BY <1>2, <2>1 DEF Range
  <2>4. \A i \in 1 .. n : new[i] \in Range(v)
    BY <1>2, <2>1 DEF Range
  <2> QED
    BY <2>1, <2>2, <2>3, <2>4 DEF Range
<1> QED
  BY <1>2, <1>5, <1>6, <1>7, <1>9, <1>10, <1>11 DEF l, n, After

\* Packets that acknowledge what an end has heard.
Echoes(ack, new) ==
  /\ new \in Seq(Datagram)
  /\ \A i \in 1 .. Len(new) :
       new[i].ack = (IF ack.heard THEN ack.remote ELSE 0) /\ new[i].bits = ack.bits

\* What the other end sends acknowledges what it has heard; nothing, when it has not.
LEMMA AnswerLink ==
  ASSUME NEW e, NEW start, NEW s, NEW w, NEW d, NEW held, NEW ack, Heard(start, s, w, d, held, ack),
         NEW back \in Seq(Datagram), Answers(e, start, s, w, d, held, back),
         NEW new, Echoes(ack, new), ack.heard \/ e \in Answering
  PROVE  Answers(e, start, s, w, d, held, back \o new)
<1> DEFINE b == back \o new
<1>1. /\ Len(back) \in Nat /\ Len(new) \in Nat /\ Len(b) = Len(back) + Len(new)
      /\ \A i \in 1 .. Len(b) : b[i] = IF i <= Len(back) THEN back[i] ELSE new[i - Len(back)]
  BY ConcatProperties, LenProperties DEF Echoes
<1> HIDE DEF b
<1>2. ASSUME NEW i \in 1 .. Len(new), NEW x \in AckedBy(new[i])
      PROVE  Safe(start, s, w, d, held, x) \/ (Quiet(e, start) /\ x = 0)
  <2>1. CASE ack.heard
    <3>1. x \in A!Acked(ack)
      BY <1>2, <2>1 DEF AckedBy, A!Acked, Echoes
    <3> QED
      BY <3>1 DEF Heard
  <2>2. CASE ~ack.heard
    <3>1. start = 0 /\ ack.bits = {} /\ e \in Answering
      BY <2>2 DEF Heard
    <3>2. x = 0
      BY <1>2, <2>2, <3>1 DEF AckedBy, Echoes
    <3> QED
      BY <3>1, <3>2 DEF Quiet
  <2> QED
    BY <2>1, <2>2
<1>3. ASSUME NEW i \in 1 .. Len(b), NEW x \in AckedBy(b[i])
      PROVE  Safe(start, s, w, d, held, x) \/ (Quiet(e, start) /\ x = 0)
  <2>1. CASE i <= Len(back)
    <3>1. i \in 1 .. Len(back) /\ b[i] = back[i]
      BY <1>1, <2>1
    <3> QED
      BY <1>3, <3>1 DEF Answers
  <2>2. CASE ~(i <= Len(back))
    <3> DEFINE j == i - Len(back)
    <3>1. j \in 1 .. Len(new) /\ b[i] = new[j]
      BY <1>1, <2>2
    <3> HIDE DEF j
    <3> QED
      BY <1>2, <1>3, <3>1
  <2> QED
    BY <2>1, <2>2
<1> QED
  BY <1>3 DEF Answers, b
-----------------------------------------------------------------------------
(* Receiving a unit.                                                        *)

\* The run from the expected unit on is a stretch of the stream.
LEMMA RunIs ==
  ASSUME NEW f, NEW start \in A!Seqs, NEW s, NEW queued, NEW next, Streamed(start, s, queued, next),
         NEW d, Limits(s, d), expected[f] = Plus(start, d),
         NEW held, \A u \in held : \E k \in d + 1 .. Len(s) : u = s[k],
         d + 1 =< Len(s), s[d + 1] \in held
  PROVE  LET n == Run(f, held)
         IN  /\ n \in 1 .. Len(s) - d
             /\ \A i \in 1 .. n : s[d + i] \in held /\ UnitAt(f, held, i) = s[d + i]
             /\ \A k \in 1 .. Len(s) : k = d + n + 1 => s[k] \notin held
<1> DEFINE n == Run(f, held)
           c == Cardinality(held)
           x == expected[f]
<1>1. /\ s \in Seq(Unit) /\ Len(s) \in Nat /\ d \in Nat /\ d =< Len(s) /\ Len(s) < SeqSpace
      /\ Len(s) - d =< MaxOutstanding /\ d + MaxOutstanding < SeqSpace /\ d \in 0 .. Len(s)
  BY ShortStream DEF Streamed, Limits
<1>2. /\ \A k, l \in 1 .. Len(s) : s[k].id = s[l].id => k = l
      /\ \A k \in 1 .. Len(s) : s[k].id = Plus(start, k - 1)
  <2>1. Len(s) =< SeqSpace
    BY <1>1, Widths
  <2> QED
    BY <2>1, UnitsApart DEF Streamed
<1>3. IsFiniteSet(held) /\ c \in Nat /\ c =< Len(s) - d
  BY <1>1, HeldFinite
<1>4. x \in A!Seqs
  <2>1. d \in 0 .. SeqSpace - 1
    BY <1>1, Widths
  <2> QED
    BY <2>1, PlusOnce
<1>5. c < SeqSpace
  BY <1>1, <1>3, Widths
<1>6. /\ n \in 0 .. c
      /\ \A i \in 0 .. n - 1 : Plus(x, i) \in Ids(held)
      /\ Plus(x, n) \notin Ids(held)
  BY <1>3, <1>4, <1>5, RunEnds
<1> HIDE DEF n
\* The id i on from the expected one is that of the unit i on.
<1>7. ASSUME NEW i \in 0 .. c PROVE Plus(x, i) = Plus(start, d + i) /\ d + i \in 0 .. SeqSpace - 1
  <2>1. i \in Nat /\ d + i < SeqSpace
    BY <1>1, <1>3, Widths
  <2> QED
    BY <1>1, <2>1, PlusPlus, Widths
<1>8. ASSUME NEW i \in 0 .. c, NEW v \in held, v.id = Plus(x, i)
      PROVE  d + i + 1 \in 1 .. Len(s) /\ v = s[d + i + 1]
  <2>1. PICK k \in d + 1 .. Len(s) : v = s[k]
    OBVIOUS
  <2>2. k \in 1 .. Len(s)
    BY <1>1
  <2> DEFINE y == k - 1
             z == d + i
  <2>3. Plus(start, y) = Plus(start, z)
    BY <1>2, <1>7, <1>8, <2>1, <2>2
  <2>4. y \in 0 .. SeqSpace - 1 /\ z \in 0 .. SeqSpace - 1
    BY <1>1, <1>7, <2>2, Widths
  <2> HIDE DEF y, z
  <2>5. y = z
    BY <2>3, <2>4, PlusApart
  <2> QED
    BY <1>1, <1>3, <2>1, <2>2, <2>5 DEF y, z
<1>9. n # 0
  <2>1. s[d + 1].id = Plus(x, 0)
    <3>1. d + 1 \in 1 .. Len(s) /\ (d + 1) - 1 = d /\ 0 \in 0 .. c /\ d + 0 = d
      BY <1>1, <1>3
    <3>2. s[d + 1].id = Plus(start, d)
      BY <1>2, <3>1
    <3>3. Plus(x, 0) = Plus(start, d)
      BY <1>7, <3>1
    <3> QED
      BY <3>2, <3>3
  <2>2. Plus(x, 0) \in Ids(held)
    BY <2>1 DEF Ids
  <2> QED
    BY <1>6, <2>2
<1>10. ASSUME NEW i \in 1 .. n
       PROVE  d + i \in 1 .. Len(s) /\ s[d + i] \in held /\ UnitAt(f, held, i) = s[d + i]
  <2> DEFINE j == i - 1
  <2>1. j \in 0 .. n - 1 /\ j \in 0 .. c /\ d + j + 1 = d + i
    BY <1>1, <1>3, <1>6
  <2>2. PICK v \in held : v.id = Plus(x, j)
    BY <1>6, <2>1 DEF Ids
  <2>3. \A v2 \in held : v2.id = Plus(x, j) => d + i \in 1 .. Len(s) /\ v2 = s[d + i]
    <3> HIDE DEF j
    <3> QED
      BY <1>8, <2>1
  <2>4. \E v2 \in held : v2.id = Plus(x, j)
    BY <2>2
  <2>5. UnitAt(f, held, i) \in held /\ UnitAt(f, held, i).id = Plus(x, j)
    BY <2>4, Zenon DEF UnitAt
  <2> QED
    BY <2>2, <2>3, <2>5
<1>11. n \in 1 .. Len(s) - d
  BY <1>1, <1>3, <1>6, <1>9
<1>12. ASSUME NEW k \in 1 .. Len(s), k = d + n + 1 PROVE s[k] \notin held
  <2>1. s[k].id = Plus(start, d + n)
    <3>1. k - 1 = d + n
      BY <1>1, <1>11, <1>12
    <3> QED
      BY <1>2, <3>1
  <2>2. Plus(x, n) = Plus(start, d + n)
    BY <1>6, <1>7
  <2> QED
    BY <1>6, <2>1, <2>2 DEF Ids
<1> QED
  BY <1>10, <1>11, <1>12 DEF n

\* As many units as are delivered, each in another packet.
LEMMA DeliveredFits ==
  ASSUME NEW e, NEW start \in A!Seqs, NEW s, NEW queued, NEW next, Streamed(start, s, queued, next),
         Len(s) =< SeqSpace, NEW w, Wire(e, start, s, w), NEW d \in 0 .. Len(s), NEW held,
         Brought(s, w, d, held)
  PROVE  d =< MaxPackets
<1> DEFINE g == [k \in 1 .. d |-> CHOOSE i \in 1 .. Len(w) : w[i].unit = s[k]]
<1>1. Len(w) \in Nat /\ Len(w) =< MaxPackets /\ Len(s) \in Nat /\ d \in Nat
  BY WireCount, LenProperties DEF Wire, Streamed
<1>2. ASSUME NEW k \in 1 .. d PROVE g[k] \in 1 .. Len(w) /\ w[g[k]].unit = s[k]
  <2>1. k \in 1 .. Len(s) /\ Here(s, d, held, k)
    BY <1>1 DEF Here
  <2>2. \E i \in 1 .. Len(w) : w[i].unit = s[k]
    BY <2>1 DEF Brought
  <2>3. g[k] = CHOOSE i \in 1 .. Len(w) : w[i].unit = s[k]
    OBVIOUS
  <2> QED
    BY <2>2, <2>3, Zenon
<1>3. g \in [1 .. d -> 1 .. Len(w)]
  BY <1>2
<1> HIDE DEF g
<1>4. \A k, l \in 1 .. d : g[k] = g[l] => k = l
  <2> SUFFICES ASSUME NEW k \in 1 .. d, NEW l \in 1 .. d, g[k] = g[l] PROVE k = l
    OBVIOUS
  <2>1. s[k] = s[l]
    BY <1>2
  <2>2. k \in 1 .. Len(s) /\ l \in 1 .. Len(s)
    BY <1>1
  <2> QED
    BY <2>1, <2>2, UnitsApart
<1>5. g \in Injection(1 .. d, 1 .. Len(w))
  BY <1>3, <1>4 DEF Injection, IsInjective
<1>6. /\ IsFiniteSet(1 .. Len(w)) /\ Cardinality(1 .. Len(w)) = Len(w) /\ Cardinality(1 .. d) = d
  <2>1. \A b \in Nat : IsFiniteSet(1 .. b) /\ Cardinality(1 .. b) = b
    <3> SUFFICES ASSUME NEW b \in Nat PROVE IsFiniteSet(1 .. b) /\ Cardinality(1 .. b) = b
      OBVIOUS
    <3> QED
      BY FS_Interval
  <2> QED
    BY <1>1, <2>1
<1>7. d =< Len(w)
  BY <1>5, <1>6, FS_Injection
<1> QED
  BY <1>1, <1>7, Widths

\* One of the packets carries the unit.
Carried(w, u) == \E j \in 1 .. Len(w) : w[j].unit = u

\* What DeliverReliable leaves at the receiver f.
Arrives(f, e, start, s, w, queued, d, d2, u) ==
  /\ Limits(s, d2) /\ Held(s, d2, reorder'[f]) /\ expected'[f] = Plus(start, d2)
  /\ Delivered(s, queued, d2, [inbox |-> inbox'[f], partial |-> partial'[f]])
  /\ Brought(s, w, d2, reorder'[f])
  /\ \A k \in 1 .. Len(s) : Here(s, d, reorder[f], k) => Here(s, d2, reorder'[f], k)
  /\ Taken(s, d2, reorder'[f], u)
  /\ Len(inbox[f]) =< Len(inbox'[f])

LEMMA DeliverLink ==
  ASSUME NEW f \in Ends, NEW e, NEW start \in A!Seqs, NEW s, NEW queued, NEW next,
         Streamed(start, s, queued, next),
         NEW d, Limits(s, d), Held(s, d, reorder[f]), expected[f] = Plus(start, d),
         Delivered(s, queued, d, [inbox |-> inbox[f], partial |-> partial[f]]),
         NEW w, Wire(e, start, s, w), Brought(s, w, d, reorder[f]),
         NEW u, Carried(w, u), u # NoUnit, DeliverReliable(f, u),
         DOMAIN expected = Ends, DOMAIN reorder = Ends, DOMAIN inbox = Ends, DOMAIN partial = Ends
  PROVE  \E d2 : Arrives(f, e, start, s, w, queued, d, d2, u)
<1> DEFINE held == reorder[f]
           st == [inbox |-> inbox[f], partial |-> partial[f]]
<1>0. PICK j \in 1 .. Len(w) : u = w[j].unit
  BY DEF Carried
<1>1. /\ s \in Seq(Unit) /\ Len(s) \in Nat /\ d \in Nat /\ d =< Len(s) /\ Len(s) < SeqSpace
      /\ Len(s) - d =< MaxOutstanding /\ d + MaxOutstanding < SeqSpace /\ d \in 0 .. Len(s)
      /\ Len(s) =< SeqSpace
  BY ShortStream, Widths DEF Streamed, Limits
<1>2. /\ \A k, l \in 1 .. Len(s) : s[k].id = s[l].id => k = l
      /\ \A k \in 1 .. Len(s) : s[k].id = Plus(start, k - 1)
  BY <1>1, UnitsApart DEF Streamed
<1>3. PICK a \in 1 .. Len(s) : u = s[a]
  BY <1>0 DEF Wire
<1>4. Len(st.inbox) \in Nat /\ st.inbox = inbox[f]
  <2> HIDE DEF st
  <2>1. Delivered(s, queued, d, st)
    BY DEF st
  <2>2. Len(queued) \in Nat
    BY LenProperties DEF Streamed
  <2>3. Len(st.inbox) \in Nat
    BY <2>1, <2>2, DeliveredPrefix
  <2> QED
    BY <2>3 DEF st
\* Which unit it is shows in its id.
<1>5. u.id = expected[f] <=> a = d + 1
  <2> DEFINE y == a - 1
  <2>1. y \in 0 .. SeqSpace - 1 /\ d \in 0 .. SeqSpace - 1 /\ u.id = Plus(start, y)
    BY <1>1, <1>2, <1>3, Widths
  <2> HIDE DEF y
  <2>2. Plus(start, y) = Plus(start, d) <=> y = d
    BY <2>1, PlusApart
  <2> QED
    BY <1>1, <2>1, <2>2 DEF y
<1>6. CASE a = d + 1
  <2> DEFINE held1 == held \cup {u}
             n == Run(f, held1)
             units == [i \in 1 .. n |-> UnitAt(f, held1, i)]
             all == AcceptAll(st, units)
             d2 == d + n
             held2 == held1 \ Range(units)
  <2>1. /\ expected' = [expected EXCEPT ![f] = Plus(@, n)]
        /\ reorder' = [reorder EXCEPT ![f] = held2]
        /\ inbox' = [inbox EXCEPT ![f] = all.inbox]
        /\ partial' = [partial EXCEPT ![f] = all.partial]
    BY <1>5, <1>6 DEF DeliverReliable
  <2>2. /\ expected'[f] = Plus(expected[f], n) /\ reorder'[f] = held2
        /\ inbox'[f] = all.inbox /\ partial'[f] = all.partial
    <3> HIDE DEF n, held2, all
    <3> QED
      BY <2>1
  <2>3. \A v \in held1 : \E k \in d + 1 .. Len(s) : v = s[k]
    <3> SUFFICES ASSUME NEW v \in held1 PROVE \E k \in d + 1 .. Len(s) : v = s[k]
      OBVIOUS
    <3>1. CASE v = u
      BY <1>1, <1>3, <1>6, <3>1
    <3>2. CASE v \in held
      <4>1. PICK k \in d + 2 .. Len(s) : v = s[k]
        BY <3>2 DEF Held
      <4>2. k \in d + 1 .. Len(s)
        BY <1>1
      <4> QED
        BY <4>1, <4>2
    <3> QED
      BY <3>1, <3>2
  <2>4. d + 1 =< Len(s) /\ s[d + 1] \in held1
    BY <1>3, <1>6
  <2> HIDE DEF held1
  <2>5. /\ n \in 1 .. Len(s) - d
        /\ \A i \in 1 .. n : s[d + i] \in held1 /\ UnitAt(f, held1, i) = s[d + i]
        /\ \A k \in 1 .. Len(s) : k = d + n + 1 => s[k] \notin held1
    BY <2>3, <2>4, RunIs
  <2> HIDE DEF n
  <2>6. units = [i \in 1 .. n |-> s[d + i]]
    BY <2>5
  <2>7. /\ n \in Nat /\ n >= 1 /\ d2 =< Len(s) /\ d2 \in Nat /\ d2 \in 0 .. Len(s) /\ d < d2
        /\ \A i \in 1 .. n : d + i \in 1 .. Len(s)
    BY <1>1, <2>5
  <2>8. Range(units) = {s[d + i] : i \in 1 .. n}
    BY <2>6 DEF Range
  <2> HIDE DEF units
  <2>9. /\ Delivered(s, queued, d2, all) /\ Len(st.inbox) =< Len(all.inbox)
    <3> HIDE DEF st
    <3>1. Delivered(s, queued, d, st)
      BY DEF st
    <3> QED
      BY <2>6, <2>7, <3>1, AcceptRun
  <2> HIDE DEF all
  <2>10. Delivered(s, queued, d2, [inbox |-> inbox'[f], partial |-> partial'[f]])
    <3>1. all = [inbox |-> all.inbox, partial |-> all.partial]
      BY <2>9 DEF Delivered
    <3> QED
      BY <2>2, <2>9, <3>1
  <2>11. \A k \in 1 .. Len(s) : s[k] \in Range(units) <=> k \in d + 1 .. d2
    <3> SUFFICES ASSUME NEW k \in 1 .. Len(s) PROVE s[k] \in Range(units) <=> k \in d + 1 .. d2
      OBVIOUS
    <3>1. ASSUME s[k] \in Range(units) PROVE k \in d + 1 .. d2
      <4>1. PICK i \in 1 .. n : s[k] = s[d + i]
        BY <2>8, <3>1
      <4>2. k = d + i
        BY <1>2, <2>7, <4>1
      <4> QED
        BY <1>1, <2>7, <4>2
    <3>2. ASSUME k \in d + 1 .. d2 PROVE s[k] \in Range(units)
      <4> DEFINE i == k - d
      <4>1. i \in 1 .. n /\ k = d + i
        BY <1>1, <2>7, <3>2
      <4> HIDE DEF i
      <4> QED
        BY <2>8, <4>1
    <3> QED
      BY <3>1, <3>2
  <2>12. Held(s, d2, held2)
    <3> SUFFICES ASSUME NEW v \in held2 PROVE \E k \in d2 + 2 .. Len(s) : v = s[k]
      BY DEF Held
    <3>1. v \in held1 /\ v \notin Range(units)
      OBVIOUS
    <3>2. PICK k \in d + 1 .. Len(s) : v = s[k]
      BY <2>3, <3>1
    <3>3. k \in 1 .. Len(s) /\ k \notin d + 1 .. d2
      BY <1>1, <2>11, <3>1, <3>2
    <3>4. k # d2 + 1
      BY <2>5, <3>1, <3>2, <3>3
    <3>5. k \in d2 + 2 .. Len(s)
      BY <1>1, <2>7, <3>2, <3>3, <3>4
    <3> QED
      BY <3>2, <3>5
  <2>13. \A k \in 1 .. Len(s) : s[k] \in held1 => Here(s, d2, held2, k)
    <3> SUFFICES ASSUME NEW k \in 1 .. Len(s), s[k] \in held1 PROVE Here(s, d2, held2, k)
      OBVIOUS
    <3>1. CASE k \in d + 1 .. d2
      BY <2>7, <3>1 DEF Here
    <3>2. CASE k \notin d + 1 .. d2
      BY <2>11, <3>2 DEF Here
    <3> QED
      BY <3>1, <3>2
  <2> HIDE DEF d2
  <2>14. \A k \in 1 .. Len(s) : Here(s, d, held, k) => Here(s, d2, held2, k)
    <3> SUFFICES ASSUME NEW k \in 1 .. Len(s), Here(s, d, held, k) PROVE Here(s, d2, held2, k)
      OBVIOUS
    <3>1. CASE k =< d
      BY <1>1, <2>7, <3>1 DEF Here
    <3>2. CASE s[k] \in held
      BY <2>13, <3>2 DEF held1
    <3> QED
      BY <3>1, <3>2 DEF Here
  <2>15. Taken(s, d2, held2, u)
    <3>1. u \in held1
      BY DEF held1
    <3> QED
      BY <1>3, <2>13, <3>1 DEF Taken
  <2>16. Brought(s, w, d2, held2)
    <3> SUFFICES ASSUME NEW k \in 1 .. Len(s), Here(s, d2, held2, k)
                 PROVE  \E i \in 1 .. Len(w) : w[i].unit = s[k]
      BY DEF Brought
    <3>1. CASE s[k] = u
      BY <1>0, <3>1
    <3>2. CASE s[k] # u /\ s[k] \in held1
      <4>1. Here(s, d, held, k)
        BY <3>2 DEF Here, held1
      <4> QED
        BY <4>1 DEF Brought
    <3>3. CASE s[k] \notin held1
      <4>1. k =< d2
        BY <3>3 DEF Here
      <4>2. k \notin d + 1 .. d2
        <5> SUFFICES ASSUME k \in d + 1 .. d2 PROVE FALSE
          OBVIOUS
        <5>1. s[k] \in Range(units)
          BY <2>11
        <5>2. s[k] \in held1
          BY <2>5, <2>8, <5>1
        <5> QED
          BY <3>3, <5>2
      <4>3. k =< d
        BY <1>1, <2>7, <4>1, <4>2
      <4> QED
        BY <4>3 DEF Brought, Here
    <3> QED
      BY <3>1, <3>2, <3>3
  <2>17. Limits(s, d2)
    <3>1. d2 =< MaxPackets
      BY <1>1, <2>7, <2>16, DeliveredFits
    <3>2. Len(s) =< d2 + MaxOutstanding
      BY <1>1, <2>7, Widths DEF Limits
    <3> QED
      BY <2>7, <3>1, <3>2 DEF Limits
  <2>18. expected'[f] = Plus(start, d2)
    <3>1. d + n < SeqSpace
      BY <1>1, <2>7, Widths DEF d2
    <3>2. Plus(Plus(start, d), n) = Plus(start, d + n)
      BY <1>1, <2>7, <3>1, PlusPlus
    <3> QED
      BY <2>2, <3>2 DEF d2
  <2>19. Len(inbox[f]) =< Len(inbox'[f])
    BY <1>4, <2>2, <2>9
  <2>20. Arrives(f, e, start, s, w, queued, d, d2, u)
    <3> HIDE DEF held2
    <3> QED
      BY <2>2, <2>10, <2>12, <2>14, <2>15, <2>16, <2>17, <2>18, <2>19 DEF Arrives
  <2> QED
    BY <2>20
<1>7. CASE a # d + 1
  <2>1. /\ reorder' = IF HeldBack(f, u) /\ u.id \notin Ids(held)
                      THEN [reorder EXCEPT ![f] = @ \cup {u}] ELSE reorder
        /\ UNCHANGED <<expected, inbox, partial>>
    BY <1>5, <1>7 DEF DeliverReliable
  <2> DEFINE held2 == reorder'[f]
  <2>2. held2 = IF HeldBack(f, u) /\ u.id \notin Ids(held) THEN held \cup {u} ELSE held
    BY <2>1
  <2> HIDE DEF held2
  <2>3. HeldBack(f, u) <=> a > d + 1
    <3> DEFINE y == a - 1
    <3>1. y \in 0 .. SeqSpace - 1 /\ d \in 0 .. SeqSpace - 1 /\ u.id = Plus(start, y)
          /\ y - d < A!Half /\ d - y < A!Half /\ y # d
      <4>1. d =< MaxPackets
        BY DEF Limits
      <4> QED
        BY <1>1, <1>2, <1>3, <1>7, <4>1, Widths
    <3> HIDE DEF y
    <3>2. d < y => A!Newer(Plus(start, y), Plus(start, d))
      BY <3>1, PlusApart
    <3>3. y <= d => ~A!Newer(Plus(start, y), Plus(start, d))
      BY <3>1, PlusApart
    <3>4. HeldBack(f, u) <=> d < y
      BY <3>1, <3>2, <3>3 DEF HeldBack
    <3> QED
      BY <1>1, <3>4 DEF y
  <2>4. Held(s, d, held2)
    <3> SUFFICES ASSUME NEW v \in held2 PROVE \E k \in d + 2 .. Len(s) : v = s[k]
      BY DEF Held
    <3>1. CASE v \in held
      BY <3>1 DEF Held
    <3>2. CASE v \notin held
      <4>1. v = u /\ HeldBack(f, u)
        BY <2>2, <3>2
      <4>2. a \in d + 2 .. Len(s)
        BY <1>1, <2>3, <4>1
      <4> QED
        BY <1>3, <4>1, <4>2
    <3> QED
      BY <3>1, <3>2
  <2>5. \A k \in 1 .. Len(s) : Here(s, d, held, k) => Here(s, d, held2, k)
    BY <2>2 DEF Here
  <2>6. Here(s, d, held2, a)
    <3>1. CASE ~HeldBack(f, u)
      BY <1>1, <1>7, <2>3, <3>1 DEF Here
    <3>2. CASE HeldBack(f, u) /\ u.id \notin Ids(held)
      BY <1>3, <2>2, <3>2 DEF Here
    <3>3. CASE HeldBack(f, u) /\ u.id \in Ids(held)
      <4>1. PICK v \in held : v.id = u.id
        BY <3>3 DEF Ids
      <4>2. PICK k \in d + 2 .. Len(s) : v = s[k]
        BY DEF Held
      <4>3. k \in 1 .. Len(s)
        BY <1>1
      <4>4. v = u
        BY <1>2, <1>3, <4>1, <4>2, <4>3
      <4> QED
        BY <1>3, <2>2, <4>4 DEF Here
    <3> QED
      BY <3>1, <3>2, <3>3
  <2>7. Taken(s, d, held2, u)
    BY <1>3, <2>6 DEF Taken
  <2>8. Brought(s, w, d, held2)
    <3> SUFFICES ASSUME NEW k \in 1 .. Len(s), Here(s, d, held2, k)
                 PROVE  \E i \in 1 .. Len(w) : w[i].unit = s[k]
      BY DEF Brought
    <3>1. CASE s[k] = u
      BY <1>0, <3>1
    <3>2. CASE s[k] # u
      <4>1. Here(s, d, held, k)
        BY <2>2, <3>2 DEF Here
      <4> QED
        BY <4>1 DEF Brought
    <3> QED
      BY <3>1, <3>2
  <2>9. expected'[f] = Plus(start, d) /\ inbox'[f] = inbox[f] /\ partial'[f] = partial[f]
    BY <2>1
  <2>10. Delivered(s, queued, d, [inbox |-> inbox'[f], partial |-> partial'[f]])
    BY <2>9
  <2>11. Len(inbox[f]) =< Len(inbox'[f])
    BY <1>4, <2>9
  <2>12. Arrives(f, e, start, s, w, queued, d, d, u)
    BY <2>4, <2>5, <2>7, <2>8, <2>9, <2>10, <2>11 DEF Arrives, held2
  <2> QED
    BY <2>12
<1> QED
  BY <1>6, <1>7
-----------------------------------------------------------------------------
(* The invariant.                                                           *)

\* From e to the other end: s is the stream of e, w the packets it has sent, d the
\* units delivered, back the packets of the other end.
Link(e, start, s, w, d, back) ==
  LET f == Other(e) IN
    /\ Streamed(start, s, sent[e], nextId[e])
    /\ Delivered(s, sent[e], d, [inbox |-> inbox[f], partial |-> partial[f]])
    /\ Limits(s, d) /\ expected[f] = Plus(start, d)
    /\ Held(s, d, reorder[f]) /\ Brought(s, w, d, reorder[f])
    /\ Queued(s, outbox[e]) /\ Pending(s, d, reorder[f], outbox[e])
    /\ Wire(e, start, s, w) /\ local[e] = Plus(start, Len(w)) /\ Recorded(w, records[e])
    /\ Heard(start, s, w, d, reorder[f], acks[f])
    /\ Answers(e, start, s, w, d, reorder[f], back)
    /\ First(e, start, w, outbox[e], spoken[e])

\* Every variable has a value for each end.
Shape ==
  /\ DOMAIN sent = Ends /\ DOMAIN nextId = Ends /\ DOMAIN outbox = Ends /\ DOMAIN local = Ends
  /\ DOMAIN records = Ends /\ DOMAIN acks = Ends /\ DOMAIN spoken = Ends /\ DOMAIN expected = Ends
  /\ DOMAIN reorder = Ends /\ DOMAIN partial = Ends /\ DOMAIN inbox = Ends

Links(start, s, w, d) == \A e \in Ends : Link(e, start, s[e], w[e], d[e], w[Other(e)])
\* The network is the packets of either end.
Posted(w) == \A e \in Ends : {p \in net : p.to # e} = Range(w[e])

ConnInv == Shape /\ \E start \in Starts : \E s, w, d : Links(start, s, w, d) /\ Posted(w)

\* The history, changed at one end.
At(g, e, v) == [x \in Ends |-> IF x = e THEN v ELSE g[x]]

\* From one history to the next.
LEMMA NewLinks ==
  ASSUME NEW e \in Ends, NEW start, NEW s, NEW w, NEW d, NEW t, NEW v, NEW d1, NEW d2,
         Link(e, start, t, v, d1, w[Other(e)])', Link(Other(e), start, s[Other(e)], w[Other(e)], d2, v)'
  PROVE  \E s2, w2, d3 : Links(start, s2, w2, d3)' /\ w2 = At(w, e, v)
<1> DEFINE f == Other(e)
           s2 == At(s, e, t)
           w2 == At(w, e, v)
           d3 == At(At(d, e, d1), f, d2)
<1>1. f \in Ends /\ f # e /\ Other(f) = e /\ \A x \in Ends : x = e \/ x = f
  BY Others
<1>2. /\ s2[e] = t /\ s2[f] = s[f] /\ w2[e] = v /\ w2[f] = w[f] /\ d3[e] = d1 /\ d3[f] = d2
  BY <1>1 DEF At
<1> HIDE DEF s2, w2, d3
<1>3. Link(e, start, s2[e], w2[e], d3[e], w2[Other(e)])'
  BY <1>2
<1>4. Link(f, start, s2[f], w2[f], d3[f], w2[Other(f)])'
  BY <1>1, <1>2
<1>5. Links(start, s2, w2, d3)'
  <2> SUFFICES ASSUME NEW x \in Ends PROVE Link(x, start, s2[x], w2[x], d3[x], w2[Other(x)])'
    BY DEF Links
  <2>1. x = e \/ x = f
    BY <1>1
  <2> QED
    BY <1>3, <1>4, <2>1
<1> QED
  BY <1>5 DEF w2

-----------------------------------------------------------------------------
LEMMA StartHeard ==
  ASSUME NEW start \in A!Seqs, NEW ack,
         ack = IF start = 0 THEN A!NoAcks
               ELSE [heard |-> TRUE, remote |-> A!Back(start, 1), bits |-> {b \in 1 .. Window : b < start}]
  PROVE  Heard(start, <<>>, <<>>, 0, {}, ack)
<1>1. CASE start = 0
  <2>1. ack = [heard |-> FALSE, remote |-> 0, bits |-> {}]
    BY <1>1 DEF A!NoAcks
  <2>2. 0 \in A!Seqs
    BY Widths DEF A!Seqs
  <2>3. ack.heard = FALSE /\ ack.remote = 0 /\ ack.bits = {}
    BY <2>1
  <2>4. IsAcks(ack)
    BY <2>1, <2>2, <2>3 DEF IsAcks
  <2>5. A!Acked(ack) = {}
    BY <2>3 DEF A!Acked
  <2> QED
    BY <1>1, <2>3, <2>4, <2>5 DEF Heard
<1>2. CASE start # 0
  <2> DEFINE r == A!Back(start, 1)
             bits == {b \in 1 .. Window : b < start}
  <2>1. start \in Nat /\ start >= 1 /\ start < SeqSpace /\ SeqSpace \in Nat /\ 1 \in A!Seqs
    BY <1>2, Widths DEF A!Seqs
  <2>2. r \in A!Seqs /\ r = start - 1
    BY <2>1, BackOnce
  <2>3. ack = [heard |-> TRUE, remote |-> r, bits |-> bits]
    BY <1>2
  <2>4. ASSUME NEW b \in bits PROVE A!Back(r, b) \in Past(start)
    <3>1. b \in A!Seqs /\ b + 1 \in 1 .. Window + 1 /\ b + 1 \in A!Seqs /\ b \in Nat
      BY Widths DEF A!Seqs
    <3> HIDE DEF r
    <3>2. A!Back(r, b) = IF r >= b THEN r - b ELSE r + SeqSpace - b
      BY <2>2, <3>1, BackOnce
    <3>3. A!Back(start, b + 1) = IF start >= b + 1 THEN start - (b + 1) ELSE start + SeqSpace - (b + 1)
      BY <3>1, BackOnce
    <3>4. A!Back(r, b) = A!Back(start, b + 1)
      BY <2>1, <2>2, <3>1, <3>2, <3>3
    <3> QED
      BY <3>1, <3>4 DEF Past
  <2>5. r \in Past(start)
    BY Widths DEF Past
  <2> HIDE DEF r
  <2>6. bits \subseteq 1 .. Window
    OBVIOUS
  <2> HIDE DEF bits
  <2>10. ack.heard = TRUE /\ ack.remote = r /\ ack.bits = bits
    BY <2>3
  <2>11. IsAcks(ack)
    BY <2>2, <2>3, <2>6, <2>10 DEF IsAcks
  <2>7. IsAcks(ack) /\ ack.heard /\ A!Acked(ack) = {r} \cup {A!Back(r, b) : b \in bits}
    BY <2>10, <2>11 DEF A!Acked
  <2>8. \A x \in A!Acked(ack) : x \in Past(start)
    BY <2>4, <2>5, <2>7
  <2>9. \A x \in A!Acked(ack) : Safe(start, <<>>, <<>>, 0, {}, x)
    BY <2>8 DEF Safe
  <2> QED
    BY <2>7, <2>9 DEF Heard
<1> QED
  BY <1>1, <1>2

LEMMA InitConn == Init => ConnInv
<1> SUFFICES ASSUME NEW start \in Starts, StartAt(start) PROVE ConnInv
  BY DEF Init
<1> DEFINE s == [e \in Ends |-> <<>>]
           d == [e \in Ends |-> 0]
<1>1. start \in A!Seqs
  BY StartAssumption
<1>2. Shape
  BY DEF StartAt, Shape
<1>3. Plus(start, 0) = start
  <2>1. 0 \in 0 .. SeqSpace - 1 /\ start \in Nat /\ start < SeqSpace
    BY <1>1, Widths DEF A!Seqs
  <2> QED
    BY <1>1, <2>1, PlusOnce
<1>4. <<>> \in Seq(Unit) /\ <<>> \in Seq(Message) /\ <<>> \in Seq(Entry) /\ <<>> \in Seq(Datagram)
      /\ Len(<<>>) = 0
  BY EmptySeq
<1>5. ASSUME NEW e \in Ends PROVE Link(e, start, <<>>, <<>>, 0, <<>>)
  <2> DEFINE f == Other(e)
  <2>1. f \in Ends
    BY Others
  <2>2. /\ sent[e] = <<>> /\ nextId[e] = start /\ outbox[e] = <<>> /\ local[e] = start
        /\ records[e] = {} /\ spoken[e] = (start # 0) /\ expected[f] = start /\ reorder[f] = {}
        /\ partial[f] = NoPartial /\ inbox[f] = <<>>
    BY <2>1 DEF StartAt
  <2>3. acks[f] = IF start = 0 THEN A!NoAcks
                  ELSE [heard |-> TRUE, remote |-> A!Back(start, 1), bits |-> {b \in 1 .. Window : b < start}]
    BY <2>1 DEF StartAt
  <2>4. Streamed(start, <<>>, <<>>, start)
    BY <1>3, <1>4 DEF Streamed, Pieces
  <2>5. Delivered(<<>>, <<>>, 0, [inbox |-> <<>>, partial |-> NoPartial])
    BY <1>4 DEF Delivered
  <2>6. Limits(<<>>, 0) /\ Held(<<>>, 0, {}) /\ Brought(<<>>, <<>>, 0, {})
    BY <1>4, Widths DEF Limits, Held, Brought
  <2>7. Queued(<<>>, <<>>) /\ Pending(<<>>, 0, {}, <<>>)
    BY <1>4 DEF Queued, Pending
  <2>8. Wire(e, start, <<>>, <<>>) /\ Recorded(<<>>, {})
    BY <1>4, Widths DEF Wire, Recorded
  <2>9. Heard(start, <<>>, <<>>, 0, {}, acks[f])
    BY <1>1, <2>3, StartHeard
  <2>10. Answers(e, start, <<>>, <<>>, 0, {}, <<>>) /\ First(e, start, <<>>, <<>>, start # 0)
    BY <1>4 DEF Answers, First, Quiet
  <2> QED
    BY <1>3, <1>4, <2>2, <2>4, <2>5, <2>6, <2>7, <2>8, <2>9, <2>10 DEF Link
<1>6. Links(start, s, s, d)
  BY <1>5, Others DEF Links
<1>7. Posted(s)
  <2>1. Range(<<>>) = {}
    BY DEF Range
  <2>2. net = {}
    BY DEF StartAt
  <2> QED
    BY <2>1, <2>2 DEF Posted
<1> QED
  BY <1>2, <1>6, <1>7 DEF ConnInv

-----------------------------------------------------------------------------
(* The steps.                                                               *)

\* What a direction is about.
About(e) == <<sent[e], nextId[e], outbox[e], local[e], records[e], spoken[e]>>
Beyond(f) == <<inbox[f], partial[f], expected[f], reorder[f], acks[f]>>

LEMMA LinkKept ==
  ASSUME NEW e, NEW start, NEW s, NEW w, NEW d, NEW back, Link(e, start, s, w, d, back),
         About(e)' = About(e), Beyond(Other(e))' = Beyond(Other(e))
  PROVE  Link(e, start, s, w, d, back)'
<1> DEFINE f == Other(e)
<1>1. /\ sent'[e] = sent[e] /\ nextId'[e] = nextId[e] /\ outbox'[e] = outbox[e] /\ local'[e] = local[e]
      /\ records'[e] = records[e] /\ spoken'[e] = spoken[e]
  BY DEF About
<1>2. /\ inbox'[f] = inbox[f] /\ partial'[f] = partial[f] /\ expected'[f] = expected[f]
      /\ reorder'[f] = reorder[f] /\ acks'[f] = acks[f]
  BY DEF Beyond
<1> QED
  BY <1>1, <1>2 DEF Link

LEMMA SendStep ==
  ASSUME ConnInv, NEW e \in Ends, Send(e)
  PROVE  ConnInv'
<1> DEFINE f == Other(e)
<1>1. PICK start \in Starts : \E s, w, d : Links(start, s, w, d) /\ Posted(w)
  BY DEF ConnInv
<1>2. PICK s, w, d : Links(start, s, w, d) /\ Posted(w)
  BY <1>1
<1>3. start \in A!Seqs /\ f \in Ends /\ f # e /\ Other(f) = e /\ \A x \in Ends : x = e \/ x = f
  BY StartAssumption, Others
<1>4. Link(e, start, s[e], w[e], d[e], w[f]) /\ Link(f, start, s[f], w[f], d[f], w[e])
  BY <1>2, <1>3 DEF Links
<1>22. PICK k \in 1 .. MaxFragments :
        LET n == Len(sent[e]) + 1
            new == UnitsOf(n, k, nextId[e])
        IN  /\ Span(e) + k <= MaxOutstanding
            /\ sent' = [sent EXCEPT ![e] = Append(@, MessageOf(n, k))]
            /\ outbox' = [outbox EXCEPT ![e] = @ \o [i \in 1 .. k |-> [unit |-> new[i], tried |-> FALSE]]]
            /\ nextId' = [nextId EXCEPT ![e] = Plus(@, k)]
  BY DEF Send
<1>23. PICK units : units = UnitsAfter(sent[e], k, nextId[e])
  OBVIOUS
<1>24. PICK msg : msg = MessageAfter(sent[e], k)
  OBVIOUS
<1>5. /\ Span(e) + k <= MaxOutstanding
      /\ sent' = [sent EXCEPT ![e] = Append(@, msg)]
      /\ outbox' = [outbox EXCEPT ![e] = @ \o [i \in 1 .. k |-> [unit |-> units[i], tried |-> FALSE]]]
      /\ nextId' = [nextId EXCEPT ![e] = Plus(@, k)]
  BY <1>22, <1>23, <1>24 DEF UnitsAfter, MessageAfter
<1>6. Len(sent[e]) < MaxMessages /\ (e \in Answering => spoken[e])
      /\ UNCHANGED <<local, records, spoken, acks, owed, expected, reorder, partial, inbox, net>>
  BY DEF Send, recvVars
<1> DEFINE entries == [i \in 1 .. k |-> [unit |-> units[i], tried |-> FALSE]]
           t == s[e] \o units
           held == reorder[f]
           more == Append(sent[e], msg)
           st == [inbox |-> inbox[f], partial |-> partial[f]]
<1>7. Shape
  BY DEF ConnInv
<1>8. /\ sent'[e] = more /\ outbox'[e] = outbox[e] \o entries /\ nextId'[e] = Plus(nextId[e], k)
      /\ sent'[f] = sent[f] /\ outbox'[f] = outbox[f] /\ nextId'[f] = nextId[f]
      /\ DOMAIN sent' = Ends /\ DOMAIN outbox' = Ends /\ DOMAIN nextId' = Ends
  <2> HIDE DEF entries, more
  <2>1. sent' = [sent EXCEPT ![e] = more] /\ outbox' = [outbox EXCEPT ![e] = @ \o entries]
    BY <1>5 DEF entries, more
  <2> QED
    BY <1>3, <1>5, <1>7, <2>1 DEF Shape
<1>9. /\ Streamed(start, s[e], sent[e], nextId[e]) /\ Limits(s[e], d[e]) /\ Held(s[e], d[e], held)
      /\ Queued(s[e], outbox[e]) /\ Pending(s[e], d[e], held, outbox[e])
      /\ Delivered(s[e], sent[e], d[e], st) /\ expected[f] = Plus(start, d[e])
      /\ Brought(s[e], w[e], d[e], held) /\ Wire(e, start, s[e], w[e]) /\ local[e] = Plus(start, Len(w[e]))
      /\ Recorded(w[e], records[e]) /\ Heard(start, s[e], w[e], d[e], held, acks[f])
      /\ Answers(e, start, s[e], w[e], d[e], held, w[f])
      /\ First(e, start, w[e], outbox[e], spoken[e])
  BY <1>4 DEF Link
<1>10. k \in Nat /\ Len(s[e]) + k =< d[e] + MaxOutstanding /\ Len(s[e]) + k < SeqSpace
       /\ s[e] \in Seq(Unit) /\ Len(s[e]) \in Nat
  <2>1. k \in Nat /\ s[e] \in Seq(Unit)
    BY <1>9, Widths DEF Streamed
  <2>2. Len(s[e]) + k =< d[e] + MaxOutstanding
    BY <1>3, <1>5, <1>9, <2>1, SpanBound
  <2>3. Len(s[e]) \in Nat /\ d[e] \in Nat /\ d[e] + MaxOutstanding < SeqSpace
    BY <1>9, <2>1, ShortStream
  <2> QED
    BY <2>1, <2>2, <2>3, Widths
<1>11. Streamed(start, t, more, Plus(nextId[e], k)) /\ Grown(s[e], units, t) /\ Len(units) = k
       /\ msg \in Message
  <2>1. units = UnitsAfter(sent[e], k, nextId[e]) /\ more = Append(sent[e], MessageAfter(sent[e], k))
        /\ msg = MessageAfter(sent[e], k)
    BY <1>23, <1>24
  <2>2. Streamed(start, s[e], sent[e], nextId[e]) /\ start \in A!Seqs
    BY <1>3, <1>9
  <2>3. Len(sent[e]) < MaxMessages /\ Len(s[e]) + k < SeqSpace
    BY <1>6, <1>10
  <2>4. /\ Streamed(start, s[e] \o UnitsAfter(sent[e], k, nextId[e]),
                    Append(sent[e], MessageAfter(sent[e], k)), Plus(nextId[e], k))
        /\ Grown(s[e], UnitsAfter(sent[e], k, nextId[e]), s[e] \o UnitsAfter(sent[e], k, nextId[e]))
        /\ Len(UnitsAfter(sent[e], k, nextId[e])) = k /\ MessageAfter(sent[e], k) \in Message
    BY <2>2, <2>3, StreamGrows
  <2>5. t = s[e] \o UnitsAfter(sent[e], k, nextId[e])
    BY <2>1
  <2> HIDE DEF more, t
  <2> QED
    BY <2>1, <2>4, <2>5
<1>12. /\ Len(t) = Len(s[e]) + k /\ units \in Seq(Unit)
       /\ \A i \in 1 .. Len(s[e]) : t[i] = s[e][i]
  BY <1>11 DEF Grown
<1>21. PICK r : r = t
  OBVIOUS
<1> HIDE DEF t, st
<1>13. Delivered(t, more, d[e], st)
  <2>1. Len(t) \in Nat /\ Len(s[e]) =< Len(t)
    BY <1>10, <1>12
  <2> QED
    BY <1>9, <1>11, <1>12, <2>1, DeliveredGrows
<1> HIDE DEF more
<1>14. /\ Limits(t, d[e]) /\ Held(t, d[e], held) /\ Queued(t, outbox[e] \o entries)
       /\ Pending(t, d[e], held, outbox[e] \o entries)
       /\ Wire(e, start, t, w[e]) /\ Brought(t, w[e], d[e], held)
       /\ Heard(start, t, w[e], d[e], held, acks[f]) /\ Answers(e, start, t, w[e], d[e], held, w[f])
  <2>1. Len(t) < SeqSpace /\ Len(t) =< d[e] + MaxOutstanding
    BY <1>10, <1>12
  <2>2. \A i \in 1 .. k : units[i] \in Unit
    BY <1>11, <1>12, ElementOfSeq
  <2>3. entries \in [1 .. k -> Entry] /\ \A i \in 1 .. k : entries[i].unit = units[i]
    BY <2>2 DEF Entry
  <2> HIDE DEF entries
  <2>4. entries \in Seq(Entry) /\ Len(entries) = k
    BY <1>10, <2>3
  <2>5. Entered(units, entries)
    BY <1>11, <2>3, <2>4 DEF Entered
  <2>6. /\ start \in A!Seqs /\ s[e] \in Seq(Unit) /\ Grown(s[e], units, t)
        /\ Streamed(start, t, more, Plus(nextId[e], k)) /\ Len(t) < SeqSpace
    BY <1>3, <1>10, <1>11, <2>1
  <2>7. /\ Limits(s[e], d[e]) /\ Len(t) =< d[e] + MaxOutstanding /\ Held(s[e], d[e], held)
        /\ Queued(s[e], outbox[e]) /\ Pending(s[e], d[e], held, outbox[e])
        /\ Wire(e, start, s[e], w[e]) /\ Brought(s[e], w[e], d[e], held)
        /\ Heard(start, s[e], w[e], d[e], held, acks[f])
        /\ Answers(e, start, s[e], w[e], d[e], held, w[f])
    BY <1>9, <2>1
  <2> HIDE DEF held, f
  <2> QED
    BY <2>5, <2>6, <2>7, SendLink
<1>15. First(e, start, w[e], outbox[e] \o entries, spoken[e])
  <2> SUFFICES ASSUME Quiet(e, start), Len(w[e]) = 0 PROVE FALSE
    BY <1>9 DEF First
  <2>1. ~spoken[e]
    BY <1>9 DEF First
  <2> QED
    BY <1>6, <2>1 DEF Quiet
<1> HIDE DEF entries
<1>16. Link(e, start, r, w[e], d[e], w[f])'
  <2>1. /\ inbox'[f] = inbox[f] /\ partial'[f] = partial[f] /\ expected'[f] = expected[f]
        /\ reorder'[f] = held /\ acks'[f] = acks[f] /\ local'[e] = local[e]
        /\ records'[e] = records[e] /\ spoken'[e] = spoken[e]
    BY <1>6
  <2>2. st = [inbox |-> inbox'[f], partial |-> partial'[f]]
    BY <2>1 DEF st
  <2> HIDE DEF held
  <2>3. /\ Streamed(start, r, sent'[e], nextId'[e])
        /\ Delivered(r, sent'[e], d[e], [inbox |-> inbox'[f], partial |-> partial'[f]])
    BY <1>8, <1>11, <1>13, <1>21, <2>2
  <2>4. /\ Limits(r, d[e]) /\ expected'[f] = Plus(start, d[e])
        /\ Held(r, d[e], reorder'[f]) /\ Brought(r, w[e], d[e], reorder'[f])
        /\ Queued(r, outbox'[e]) /\ Pending(r, d[e], reorder'[f], outbox'[e])
    BY <1>8, <1>9, <1>14, <1>21, <2>1
  <2>5. /\ Wire(e, start, r, w[e]) /\ local'[e] = Plus(start, Len(w[e])) /\ Recorded(w[e], records'[e])
        /\ Heard(start, r, w[e], d[e], reorder'[f], acks'[f])
        /\ Answers(e, start, r, w[e], d[e], reorder'[f], w[f])
        /\ First(e, start, w[e], outbox'[e], spoken'[e])
    BY <1>8, <1>9, <1>14, <1>15, <1>21, <2>1
  <2> QED
    BY <2>3, <2>4, <2>5 DEF Link
<1>17. Link(f, start, s[f], w[f], d[f], w[e])'
  <2>1. About(f)' = About(f) /\ Beyond(Other(f))' = Beyond(Other(f))
    BY <1>6, <1>8 DEF About, Beyond
  <2> QED
    BY <1>4, <2>1, LinkKept
<1>18. PICK s2, w2, d3 : Links(start, s2, w2, d3)' /\ w2 = At(w, e, w[e])
  BY <1>16, <1>17, NewLinks
<1>19. Posted(w2)'
  <2>1. \A x \in Ends : w2[x] = w[x]
    BY <1>18 DEF At
  <2> QED
    BY <1>2, <1>6, <2>1 DEF Posted
<1>20. Shape'
  BY <1>6, <1>7, <1>8 DEF Shape
<1> QED
  BY <1>18, <1>19, <1>20 DEF ConnInv
-----------------------------------------------------------------------------
\* A packet whose unit has arrived may be acknowledged.
LEMMA AckLink ==
  ASSUME NEW e, NEW start \in A!Seqs, NEW s, NEW w, Wire(e, start, s, w), NEW d, NEW held,
         NEW ack, Heard(start, s, w, d, held, ack),
         NEW p \in Range(w), Taken(s, d, held, p.unit)
  PROVE  Heard(start, s, w, d, held, A!Received(ack, p.seq))
<1> DEFINE new == A!Received(ack, p.seq)
<1>1. PICK i \in 1 .. Len(w) : w[i] = p
  BY WireCount DEF Range
<1>2. \A j \in 1 .. Len(w) : w[j].seq = p.seq => j = i
  BY <1>1, WireCount
<1>3. Safe(start, s, w, d, held, p.seq)
  BY <1>1, <1>2 DEF Safe
<1>4. p.seq \in A!Seqs
  <2>1. p \in Datagram
    BY <1>1, ElementOfSeq DEF Wire
  <2> QED
    BY <2>1 DEF Datagram
<1>5. IsAcks(new) /\ new.heard /\ A!Acked(new) \subseteq A!Acked(ack) \cup {p.seq}
  <2>1. IsAcks(ack)
    BY DEF Heard
  <2> QED
    BY <1>4, <2>1, ReceivedAcks
<1> HIDE DEF new
<1>6. \A x \in A!Acked(new) : Safe(start, s, w, d, held, x)
  BY <1>3, <1>5 DEF Heard
<1>7. Heard(start, s, w, d, held, new)
  BY <1>5, <1>6 DEF Heard
<1> QED
  BY <1>7 DEF new

\* What a link says once its receiver has taken a packet in.
LEMMA ReceiveLink ==
  ASSUME NEW g \in Ends, NEW h \in Ends, Other(h) = g, NEW start \in A!Seqs,
         NEW s, NEW w, NEW d, NEW back, Link(h, start, s, w, d, back), Shape,
         NEW p \in Range(w), acks' = [acks EXCEPT ![g] = A!Received(@, p.seq)],
         IF p.unit = NoUnit THEN UNCHANGED <<expected, reorder, inbox, partial>>
         ELSE DeliverReliable(g, p.unit),
         About(h)' = About(h)
  PROVE  \E d2 : Link(h, start, s, w, d2, back)' /\ Len(inbox[g]) =< Len(inbox'[g])
<1>1. /\ Streamed(start, s, sent[h], nextId[h])
      /\ Delivered(s, sent[h], d, [inbox |-> inbox[g], partial |-> partial[g]])
      /\ Limits(s, d) /\ expected[g] = Plus(start, d)
      /\ Held(s, d, reorder[g]) /\ Brought(s, w, d, reorder[g])
      /\ Queued(s, outbox[h]) /\ Pending(s, d, reorder[g], outbox[h])
      /\ Wire(h, start, s, w) /\ local[h] = Plus(start, Len(w)) /\ Recorded(w, records[h])
      /\ Heard(start, s, w, d, reorder[g], acks[g])
      /\ Answers(h, start, s, w, d, reorder[g], back)
      /\ First(h, start, w, outbox[h], spoken[h])
  BY DEF Link
<1>2. Carried(w, p.unit)
  BY <1>1, WireCount DEF Range, Carried
<1>3. /\ DOMAIN expected = Ends /\ DOMAIN reorder = Ends /\ DOMAIN inbox = Ends /\ DOMAIN partial = Ends
      /\ DOMAIN acks = Ends
  BY DEF Shape
<1>4. \E d2 : Arrives(g, h, start, s, w, sent[h], d, d2, p.unit)
  <2>1. CASE p.unit = NoUnit
    <3>1. /\ expected'[g] = expected[g] /\ reorder'[g] = reorder[g]
          /\ inbox'[g] = inbox[g] /\ partial'[g] = partial[g]
      BY <2>1
    <3>2. Taken(s, d, reorder'[g], p.unit)
      BY <2>1 DEF Taken
    <3>3. Len(inbox[g]) =< Len(inbox'[g])
      <4> DEFINE st == [inbox |-> inbox[g], partial |-> partial[g]]
      <4>1. Delivered(s, sent[h], d, st)
        BY <1>1
      <4>2. Len(sent[h]) \in Nat
        BY <1>1, LenProperties DEF Streamed
      <4> HIDE DEF st
      <4>3. Len(st.inbox) \in Nat
        BY <1>1, <4>1, <4>2, DeliveredPrefix
      <4>4. Len(inbox[g]) \in Nat
        BY <4>3 DEF st
      <4> QED
        BY <3>1, <4>4
    <3>4. Arrives(g, h, start, s, w, sent[h], d, d, p.unit)
      BY <1>1, <3>1, <3>2, <3>3 DEF Arrives
    <3> QED
      BY <3>4
  <2>2. CASE p.unit # NoUnit
    <3>1. DeliverReliable(g, p.unit)
      BY <2>2
    <3> QED
      BY <1>1, <1>2, <1>3, <2>2, <3>1, DeliverLink
  <2> QED
    BY <2>1, <2>2
<1>5. PICK d2 : Arrives(g, h, start, s, w, sent[h], d, d2, p.unit)
  BY <1>4
<1>6. /\ Limits(s, d2) /\ Held(s, d2, reorder'[g]) /\ expected'[g] = Plus(start, d2)
      /\ Delivered(s, sent[h], d2, [inbox |-> inbox'[g], partial |-> partial'[g]])
      /\ Brought(s, w, d2, reorder'[g])
      /\ Taken(s, d2, reorder'[g], p.unit) /\ Len(inbox[g]) =< Len(inbox'[g])
      /\ \A k \in 1 .. Len(s) : Here(s, d, reorder[g], k) => Here(s, d2, reorder'[g], k)
  BY <1>5 DEF Arrives
<1>7. Pending(s, d2, reorder'[g], outbox[h])
  BY <1>1, <1>6 DEF Pending
<1>8. /\ Heard(start, s, w, d2, reorder'[g], acks[g])
      /\ Answers(h, start, s, w, d2, reorder'[g], back)
  <2> DEFINE held == reorder[g]
             held2 == reorder'[g]
  <2>1. \A u : Taken(s, d, held, u) => Taken(s, d2, held2, u)
    BY <1>6 DEF Taken
  <2>2. \A i \in 1 .. Len(w) : Taken(s, d, held, w[i].unit) => Taken(s, d2, held2, w[i].unit)
    BY <2>1
  <2>3. Heard(start, s, w, d, held, acks[g]) /\ Answers(h, start, s, w, d, held, back)
    BY <1>1
  <2> HIDE DEF held, held2
  <2>4. Heard(start, s, w, d2, held2, acks[g]) /\ Answers(h, start, s, w, d2, held2, back)
    BY <2>2, <2>3, SafeLater
  <2> QED
    BY <2>4 DEF held2
<1>9. acks'[g] = A!Received(acks[g], p.seq)
  BY <1>3
<1>10. Heard(start, s, w, d2, reorder'[g], acks'[g])
  <2>1. Heard(start, s, w, d2, reorder'[g], A!Received(acks[g], p.seq))
    BY <1>1, <1>6, <1>8, AckLink
  <2> QED
    BY <1>9, <2>1
<1>11. /\ sent'[h] = sent[h] /\ nextId'[h] = nextId[h] /\ outbox'[h] = outbox[h] /\ local'[h] = local[h]
       /\ records'[h] = records[h] /\ spoken'[h] = spoken[h]
  BY DEF About
<1>12. Link(h, start, s, w, d2, back)'
  BY <1>1, <1>6, <1>7, <1>8, <1>10, <1>11 DEF Link
<1> QED
  BY <1>6, <1>12

\* What the other says once its sender has retired what the packet acknowledges.
LEMMA RetiringLink ==
  ASSUME NEW g \in Ends, NEW start \in A!Seqs,
         NEW s, NEW w, NEW d, NEW back, Link(g, start, s, w, d, back), Shape,
         back \in Seq(Datagram), NEW p \in Range(back),
         outbox' = [outbox EXCEPT ![g] = Without(@, Retired(g, p))],
         records' = [records EXCEPT ![g] = {r \in @ : r[2] \notin Retired(g, p)}],
         UNCHANGED <<sent, nextId, local, spoken>>, Beyond(Other(g))' = Beyond(Other(g))
  PROVE  Link(g, start, s, w, d, back)'
<1> DEFINE h == Other(g)
           ids == Retired(g, p)
<1>1. /\ Streamed(start, s, sent[g], nextId[g])
      /\ Delivered(s, sent[g], d, [inbox |-> inbox[h], partial |-> partial[h]])
      /\ Limits(s, d) /\ expected[h] = Plus(start, d)
      /\ Held(s, d, reorder[h]) /\ Brought(s, w, d, reorder[h])
      /\ Queued(s, outbox[g]) /\ Pending(s, d, reorder[h], outbox[g])
      /\ Wire(g, start, s, w) /\ local[g] = Plus(start, Len(w)) /\ Recorded(w, records[g])
      /\ Heard(start, s, w, d, reorder[h], acks[h])
      /\ Answers(g, start, s, w, d, reorder[h], back)
      /\ First(g, start, w, outbox[g], spoken[g])
  BY DEF Link
<1>2. /\ inbox'[h] = inbox[h] /\ partial'[h] = partial[h] /\ expected'[h] = expected[h]
      /\ reorder'[h] = reorder[h] /\ acks'[h] = acks[h]
  BY DEF Beyond
<1>3. /\ outbox'[g] = Without(outbox[g], ids)
      /\ \A r \in records'[g] : r \in records[g]
  <2>1. DOMAIN outbox = Ends /\ DOMAIN records = Ends
    BY DEF Shape
  <2> HIDE DEF ids
  <2>2. outbox' = [outbox EXCEPT ![g] = Without(@, ids)]
        /\ records' = [records EXCEPT ![g] = {r \in @ : r[2] \notin ids}]
    BY DEF ids
  <2> QED
    BY <2>1, <2>2
<1> HIDE DEF h
<1>4. AllHere(s, d, reorder[h], ids)
  BY <1>1, RetiredArrived
<1> HIDE DEF ids
<1>5. /\ Queued(s, outbox'[g]) /\ Pending(s, d, reorder[h], outbox'[g])
      /\ outbox[g] = <<>> => outbox'[g] = <<>>
  <2>1. Len(s) =< SeqSpace
    <3>1. s \in Seq(Unit)
      BY <1>1 DEF Streamed
    <3>2. Len(s) \in Nat /\ Len(s) < SeqSpace
      BY <1>1, <3>1, ShortStream
    <3> QED
      BY <3>2, Widths
  <2> QED
    BY <1>1, <1>3, <1>4, <2>1, RetireLink
<1>6. Recorded(w, records'[g])
  BY <1>1, <1>3 DEF Recorded
<1>7. First(g, start, w, outbox'[g], spoken'[g])
  BY <1>1, <1>5 DEF First
<1> QED
  BY <1>1, <1>2, <1>5, <1>6, <1>7 DEF Link, h

LEMMA HandleStep ==
  ASSUME ConnInv, NEW g \in Ends, HandleDatagram(g)
  PROVE  ConnInv' /\ Len(inbox[g]) =< Len(inbox'[g])
<1> DEFINE h == Other(g)
<1>1. PICK start \in Starts : \E s, w, d : Links(start, s, w, d) /\ Posted(w)
  BY DEF ConnInv
<1>2. PICK s, w, d : Links(start, s, w, d) /\ Posted(w)
  BY <1>1
<1>3. start \in A!Seqs /\ h \in Ends /\ h # g /\ Other(h) = g /\ \A x \in Ends : x = g \/ x = h
  BY StartAssumption, Others
<1>4. Link(g, start, s[g], w[g], d[g], w[h]) /\ Link(h, start, s[h], w[h], d[h], w[g])
  BY <1>2, <1>3 DEF Links
<1>5. PICK p \in net :
        /\ p.to = g
        /\ acks' = [acks EXCEPT ![g] = A!Received(@, p.seq)]
        /\ outbox' = [outbox EXCEPT ![g] = Without(@, Retired(g, p))]
        /\ records' = [records EXCEPT ![g] = {r \in @ : r[2] \notin Retired(g, p)}]
        /\ IF p.unit = NoUnit
           THEN UNCHANGED <<owed, expected, reorder, inbox, partial>>
           ELSE DeliverReliable(g, p.unit) /\ owed' = [owed EXCEPT ![g] = TRUE]
        /\ UNCHANGED <<sent, nextId, local, spoken, net>>
  BY DEF HandleDatagram
<1>6. p \in Range(w[h])
  BY <1>2, <1>3, <1>5 DEF Posted
<1>7. Shape
  BY DEF ConnInv
\* Nothing of the other end changes.
<1>8. /\ expected'[h] = expected[h] /\ reorder'[h] = reorder[h] /\ inbox'[h] = inbox[h]
      /\ partial'[h] = partial[h] /\ acks'[h] = acks[h]
      /\ outbox'[h] = outbox[h] /\ records'[h] = records[h]
      /\ DOMAIN expected' = Ends /\ DOMAIN reorder' = Ends /\ DOMAIN inbox' = Ends
      /\ DOMAIN partial' = Ends
  <2>1. CASE p.unit = NoUnit
    BY <1>3, <1>5, <1>7, <2>1 DEF Shape
  <2>2. CASE p.unit # NoUnit
    BY <1>3, <1>5, <1>7, <2>2 DEF DeliverReliable, Shape
  <2> QED
    BY <2>1, <2>2
<1>9. About(h)' = About(h) /\ Beyond(h)' = Beyond(h)
  BY <1>5, <1>8 DEF About, Beyond
<1>10. PICK d2 : Link(h, start, s[h], w[h], d2, w[g])' /\ Len(inbox[g]) =< Len(inbox'[g])
  <2>1. IF p.unit = NoUnit THEN UNCHANGED <<expected, reorder, inbox, partial>>
        ELSE DeliverReliable(g, p.unit)
    BY <1>5
  <2>2. acks' = [acks EXCEPT ![g] = A!Received(@, p.seq)]
    BY <1>5
  <2> HIDE DEF h
  <2> QED
    BY <1>3, <1>4, <1>6, <1>7, <1>9, <2>1, <2>2, ReceiveLink
<1>11. Link(g, start, s[g], w[g], d[g], w[h])'
  <2>1. /\ outbox' = [outbox EXCEPT ![g] = Without(@, Retired(g, p))]
        /\ records' = [records EXCEPT ![g] = {r \in @ : r[2] \notin Retired(g, p)}]
        /\ UNCHANGED <<sent, nextId, local, spoken>>
    BY <1>5
  <2>2. w[h] \in Seq(Datagram)
    BY <1>4 DEF Link, Wire
  <2>3. Beyond(Other(g))' = Beyond(Other(g))
    BY <1>9
  <2> QED
    BY <1>3, <1>4, <1>6, <1>7, <2>1, <2>2, <2>3, RetiringLink
<1>12. PICK s2, w2, d3 : Links(start, s2, w2, d3)' /\ w2 = At(w, h, w[h])
  <2>1. PICK o \in Ends : o = h
    BY <1>3
  <2>2. Link(o, start, s[o], w[o], d2, w[Other(o)])'
    BY <1>3, <1>10, <2>1
  <2>3. Link(Other(o), start, s[Other(o)], w[Other(o)], d[g], w[o])'
    BY <1>3, <1>11, <2>1
  <2>4. \E s2, w2, d3 : Links(start, s2, w2, d3)' /\ w2 = At(w, o, w[o])
    BY <2>2, <2>3, NewLinks
  <2> QED
    BY <2>1, <2>4
<1>13. Posted(w2)'
  <2>1. \A x \in Ends : w2[x] = w[x]
    BY <1>12 DEF At
  <2> QED
    BY <1>2, <1>5, <2>1 DEF Posted
<1>14. Shape'
  BY <1>5, <1>7, <1>8 DEF Shape
<1> QED
  BY <1>10, <1>12, <1>13, <1>14 DEF ConnInv
-----------------------------------------------------------------------------
\* The same units in the same order, whichever have been tried.
SameUnits(queue, now) ==
  /\ now \in Seq(Entry) /\ Len(now) = Len(queue)
  /\ \A i \in 1 .. Len(queue) : now[i].unit = queue[i].unit
Transmittable(units, queue) ==
  /\ Len(units) \in Nat /\ Len(units) > 0
  /\ \A i \in 1 .. Len(units) : \/ units[i] = NoUnit
                                \/ \E j \in 1 .. Len(queue) : units[i] = queue[j].unit

LEMMA SameLink ==
  ASSUME NEW s, NEW d, NEW held, NEW queue, Queued(s, queue), Pending(s, d, held, queue),
         NEW now, SameUnits(queue, now)
  PROVE  Queued(s, now) /\ Pending(s, d, held, now)
<1>1. Pending(s, d, held, now)
  BY DEF Pending, SameUnits
<1>2. \A i \in 1 .. Len(now) : \E k \in 1 .. Len(s) : now[i].unit = s[k]
  BY DEF Queued, SameUnits
<1>3. \A i, j \in 1 .. Len(now) : i < j =>
        \A k, l \in 1 .. Len(s) : now[i].unit = s[k] /\ now[j].unit = s[l] => k < l
  BY DEF Queued, SameUnits
<1>4. now \in Seq(Entry)
  BY DEF SameUnits
<1> QED
  BY <1>1, <1>2, <1>3, <1>4, Zenon DEF Queued

\* What a packet of the Update is.
LEMMA PacketIs ==
  ASSUME NEW e, NEW i, NEW unit
  PROVE  LET p == Packet(e, i, unit)
         IN  /\ p.to = Other(e) /\ p.seq = Plus(local[e], i - 1) /\ p.unit = unit
             /\ p.ack = (IF acks[e].heard THEN acks[e].remote ELSE 0) /\ p.bits = acks[e].bits
             /\ p = [to |-> p.to, seq |-> p.seq, ack |-> p.ack, bits |-> p.bits, unit |-> p.unit]
<1> DEFINE to == Other(e)
           seq == Plus(local[e], i - 1)
           ack == IF acks[e].heard THEN acks[e].remote ELSE 0
           bits == acks[e].bits
           p == Packet(e, i, unit)
<1>1. p = [to |-> to, seq |-> seq, ack |-> ack, bits |-> bits, unit |-> unit]
  BY DEF Packet
<1> HIDE DEF to, seq, ack, bits, p
<1>2. p.to = to /\ p.seq = seq /\ p.ack = ack /\ p.bits = bits /\ p.unit = unit
  BY <1>1
<1>3. p = [to |-> p.to, seq |-> p.seq, ack |-> p.ack, bits |-> p.bits, unit |-> p.unit]
  BY <1>1, <1>2
<1> QED
  BY <1>2, <1>3 DEF to, seq, ack, bits, p

\* The packets of an Update, one after the other.
PacketsOf(e, units) == [i \in 1 .. Len(units) |-> Packet(e, i, units[i])]

LEMMA PacketsAre ==
  ASSUME NEW e \in Ends, IsAcks(acks[e]), NEW start, NEW s, NEW w,
         local[e] = Plus(start, Len(w)), local[e] \in A!Seqs, NEW units, Len(units) \in Nat,
         Len(w) + Len(units) =< MaxPackets,
         \A i \in 1 .. Len(units) : units[i] = NoUnit \/ \E k \in 1 .. Len(s) : units[i] = s[k],
         s \in Seq(Unit)
  PROVE  /\ Numbered(e, start, s, w, PacketsOf(e, units)) /\ Echoes(acks[e], PacketsOf(e, units))
         /\ Len(PacketsOf(e, units)) = Len(units)
         /\ \A i \in 1 .. Len(units) : /\ PacketsOf(e, units)[i].unit = units[i]
                                       /\ PacketsOf(e, units)[i].seq = Plus(local[e], i - 1)
         /\ Range(PacketsOf(e, units)) = {Packet(e, i, units[i]) : i \in 1 .. Len(units)}
<1> DEFINE n == Len(units)
           new == PacketsOf(e, units)
<1>1. new = [i \in 1 .. n |-> Packet(e, i, units[i])]
  BY DEF PacketsOf
<1>2. ASSUME NEW i \in 1 .. n
      PROVE  /\ Packet(e, i, units[i]) \in Datagram
             /\ Packet(e, i, units[i]).to = Other(e)
             /\ Packet(e, i, units[i]).seq = Plus(local[e], i - 1)
             /\ Packet(e, i, units[i]).unit = units[i]
             /\ Packet(e, i, units[i]).ack = (IF acks[e].heard THEN acks[e].remote ELSE 0)
             /\ Packet(e, i, units[i]).bits = acks[e].bits
  <2> DEFINE p == Packet(e, i, units[i])
  <2>1. /\ p.to = Other(e) /\ p.seq = Plus(local[e], i - 1) /\ p.unit = units[i]
        /\ p.ack = (IF acks[e].heard THEN acks[e].remote ELSE 0) /\ p.bits = acks[e].bits
        /\ p = [to |-> p.to, seq |-> p.seq, ack |-> p.ack, bits |-> p.bits, unit |-> p.unit]
    BY PacketIs
  <2> HIDE DEF p
  <2>2. p.to \in Ends
    BY <2>1, Others
  <2>3. p.seq \in A!Seqs
    <3>1. local[e] \in Nat /\ i - 1 \in Nat /\ SeqSpace \in Nat \ {0}
      BY Widths DEF A!Seqs
    <3>2. Plus(local[e], i - 1) \in 0 .. SeqSpace - 1
      BY <3>1 DEF Plus
    <3> QED
      BY <2>1, <3>2 DEF A!Seqs
  <2>4. p.ack \in A!Seqs /\ p.bits \in SUBSET (1 .. Window)
    <3>1. acks[e].remote \in A!Seqs /\ acks[e].bits \subseteq 1 .. Window
      BY DEF IsAcks
    <3>2. 0 \in A!Seqs
      BY Widths DEF A!Seqs
    <3> QED
      BY <2>1, <3>1, <3>2
  <2>5. p.unit \in Unit
    <3>1. NoUnit \in Unit
      BY Widths DEF NoUnit, Unit, A!Seqs
    <3>2. \A k \in 1 .. Len(s) : s[k] \in Unit
      BY ElementOfSeq
    <3> QED
      BY <2>1, <3>1, <3>2
  <2>6. p \in Datagram
    BY <2>1, <2>2, <2>3, <2>4, <2>5 DEF Datagram
  <2> QED
    BY <2>1, <2>6 DEF p
<1> HIDE DEF new
<1>3. new \in [1 .. n -> Datagram] /\ \A i \in 1 .. n : new[i] = Packet(e, i, units[i])
  BY <1>1, <1>2
<1>4. new \in Seq(Datagram) /\ Len(new) = n /\ DOMAIN new = 1 .. n
  BY <1>3
<1>5. \A i \in 1 .. n : /\ new[i].to = Other(e) /\ new[i].seq = Plus(local[e], i - 1)
                        /\ new[i].unit = units[i] /\ new[i].bits = acks[e].bits
                        /\ new[i].ack = (IF acks[e].heard THEN acks[e].remote ELSE 0)
  BY <1>2, <1>3
<1>6. Numbered(e, start, s, w, new)
  BY <1>4, <1>5 DEF Numbered
<1>7. Echoes(acks[e], new)
  BY <1>4, <1>5 DEF Echoes
<1>8. Range(new) = {Packet(e, i, units[i]) : i \in 1 .. n}
  BY <1>3, <1>4 DEF Range
<1> QED
  BY <1>4, <1>5, <1>6, <1>7, <1>8 DEF new
-----------------------------------------------------------------------------
LEMMA TransmitStep ==
  ASSUME Answering # {}, ConnInv, NEW e \in Ends, NEW units, Transmittable(units, outbox[e]),
         e \in Answering => acks[e].heard, Transmit(e, units),
         SameUnits(outbox[e], outbox'[e]), outbox'[Other(e)] = outbox[Other(e)], DOMAIN outbox' = Ends,
         UNCHANGED <<sent, nextId, acks, expected, reorder, partial, inbox>>
  PROVE  ConnInv'
<1> DEFINE f == Other(e)
           n == Len(units)
<1>1. PICK start \in Starts : \E s, w, d : Links(start, s, w, d) /\ Posted(w)
  BY DEF ConnInv
<1>2. PICK s, w, d : Links(start, s, w, d) /\ Posted(w)
  BY <1>1
<1>3. start \in A!Seqs /\ f \in Ends /\ f # e /\ Other(f) = e /\ \A x \in Ends : x = e \/ x = f
  BY StartAssumption, Others
<1>4. Link(e, start, s[e], w[e], d[e], w[f]) /\ Link(f, start, s[f], w[f], d[f], w[e])
  BY <1>2, <1>3 DEF Links
<1>5. /\ Streamed(start, s[e], sent[e], nextId[e])
      /\ Delivered(s[e], sent[e], d[e], [inbox |-> inbox[f], partial |-> partial[f]])
      /\ Limits(s[e], d[e]) /\ expected[f] = Plus(start, d[e])
      /\ Held(s[e], d[e], reorder[f]) /\ Brought(s[e], w[e], d[e], reorder[f])
      /\ Queued(s[e], outbox[e]) /\ Pending(s[e], d[e], reorder[f], outbox[e])
      /\ Wire(e, start, s[e], w[e]) /\ local[e] = Plus(start, Len(w[e])) /\ Recorded(w[e], records[e])
      /\ Heard(start, s[e], w[e], d[e], reorder[f], acks[f])
      /\ Answers(e, start, s[e], w[e], d[e], reorder[f], w[f])
      /\ First(e, start, w[e], outbox[e], spoken[e])
  BY <1>4 DEF Link
<1>6. /\ Streamed(start, s[f], sent[f], nextId[f])
      /\ Delivered(s[f], sent[f], d[f], [inbox |-> inbox[e], partial |-> partial[e]])
      /\ Limits(s[f], d[f]) /\ expected[e] = Plus(start, d[f])
      /\ Held(s[f], d[f], reorder[e]) /\ Brought(s[f], w[f], d[f], reorder[e])
      /\ Queued(s[f], outbox[f]) /\ Pending(s[f], d[f], reorder[e], outbox[f])
      /\ Wire(f, start, s[f], w[f]) /\ local[f] = Plus(start, Len(w[f])) /\ Recorded(w[f], records[f])
      /\ Heard(start, s[f], w[f], d[f], reorder[e], acks[e])
      /\ Answers(f, start, s[f], w[f], d[f], reorder[e], w[e])
      /\ First(f, start, w[f], outbox[f], spoken[f])
  BY <1>3, <1>4 DEF Link
<1>7. Shape
  BY DEF ConnInv
<1>8. /\ Cardinality({p \in net : p.to # e}) + n <= MaxPackets
      /\ net' = net \cup {Packet(e, i, units[i]) : i \in 1 .. n}
      /\ local' = [local EXCEPT ![e] = Plus(@, n)]
      /\ records' = [records EXCEPT ![e] = @ \cup
                       {<<Plus(local[e], i - 1), units[i].id>> : i \in {j \in 1 .. n : units[j] # NoUnit}}]
      /\ spoken' = [spoken EXCEPT ![e] = TRUE]
      /\ owed' = [owed EXCEPT ![e] = FALSE]
  BY DEF Transmit
<1>9. n \in Nat /\ n > 0
  BY DEF Transmittable
<1> DEFINE filed == records[e] \cup
             {<<Plus(local[e], i - 1), units[i].id>> : i \in {j \in 1 .. n : units[j] # NoUnit}}
<1>10. /\ local'[e] = Plus(local[e], n) /\ records'[e] = filed /\ spoken'[e] = TRUE
       /\ local'[f] = local[f] /\ records'[f] = records[f] /\ spoken'[f] = spoken[f]
       /\ DOMAIN local' = Ends /\ DOMAIN records' = Ends /\ DOMAIN spoken' = Ends
  <2>1. records' = [records EXCEPT ![e] = filed]
    BY <1>8
  <2>2. DOMAIN local = Ends /\ DOMAIN records = Ends /\ DOMAIN spoken = Ends
    BY <1>7 DEF Shape
  <2> HIDE DEF filed, n
  <2> QED
    BY <1>3, <1>8, <2>1, <2>2
\* The new packets.
<1>11. PICK new : new = PacketsOf(e, units)
  OBVIOUS
<1>12. Len(w[e]) \in Nat /\ Len(w[e]) + n =< MaxPackets /\ Len(w[e]) < SeqSpace
  <2>1. {p \in net : p.to # e} = Range(w[e])
    BY <1>2 DEF Posted
  <2>2. Len(w[e]) \in Nat /\ Cardinality(Range(w[e])) = Len(w[e])
    BY <1>3, <1>5, WireCount
  <2> DEFINE P == {p \in net : p.to # e}
  <2>3. Cardinality(P) + n <= MaxPackets
    BY <1>8
  <2>4. P = Range(w[e])
    BY <2>1
  <2> HIDE DEF n, P
  <2>5. Len(w[e]) + n <= MaxPackets
    BY <2>2, <2>3, <2>4
  <2> QED
    BY <1>9, <2>2, <2>5, Widths
<1>13. /\ Numbered(e, start, s[e], w[e], new) /\ Echoes(acks[e], new) /\ Len(new) = n
       /\ \A i \in 1 .. n : new[i].unit = units[i] /\ new[i].seq = Plus(local[e], i - 1)
       /\ Range(new) = {Packet(e, i, units[i]) : i \in 1 .. n}
  <2>1. IsAcks(acks[e])
    BY <1>6 DEF Heard
  <2>2. local[e] \in A!Seqs
    <3>1. Len(w[e]) \in 0 .. SeqSpace - 1
      BY <1>12, Widths
    <3> QED
      BY <1>3, <1>5, <3>1, PlusOnce
  <2>3. \A i \in 1 .. n : units[i] = NoUnit \/ \E k \in 1 .. Len(s[e]) : units[i] = s[e][k]
    BY <1>5 DEF Transmittable, Queued
  <2>4. s[e] \in Seq(Unit)
    BY <1>5 DEF Streamed
  <2>5. local[e] = Plus(start, Len(w[e]))
    BY <1>5
  <2>6. /\ Numbered(e, start, s[e], w[e], PacketsOf(e, units)) /\ Echoes(acks[e], PacketsOf(e, units))
        /\ Len(PacketsOf(e, units)) = Len(units)
        /\ \A i \in 1 .. Len(units) : /\ PacketsOf(e, units)[i].unit = units[i]
                                      /\ PacketsOf(e, units)[i].seq = Plus(local[e], i - 1)
        /\ Range(PacketsOf(e, units)) = {Packet(e, i, units[i]) : i \in 1 .. Len(units)}
    BY <1>9, <1>12, <2>1, <2>2, <2>3, <2>4, <2>5, PacketsAre
  <2> QED
    BY <1>11, <2>6
<1>14. Filed(records[e], new, filed)
  <2> SUFFICES ASSUME NEW r \in filed, r \notin records[e]
               PROVE  \E i \in 1 .. Len(new) : r = <<new[i].seq, new[i].unit.id>> /\ new[i].unit # NoUnit
    BY DEF Filed
  <2>1. PICK i \in 1 .. n : units[i] # NoUnit /\ r = <<Plus(local[e], i - 1), units[i].id>>
    OBVIOUS
  <2>2. new[i].unit = units[i] /\ new[i].seq = Plus(local[e], i - 1) /\ i \in 1 .. Len(new)
    BY <1>13
  <2> QED
    BY <2>1, <2>2
<1> HIDE DEF filed
<1>15. PICK v : v = w[e] \o new
  OBVIOUS
<1>16. /\ Wire(e, start, s[e], v) /\ Brought(s[e], v, d[e], reorder[f]) /\ Recorded(v, filed)
       /\ Heard(start, s[e], v, d[e], reorder[f], acks[f])
       /\ Answers(e, start, s[e], v, d[e], reorder[f], w[f])
       /\ After(w[e], new, v)
  <2>1. start \in A!Seqs /\ Joined(w[e], new, v)
    BY <1>3, <1>15 DEF Joined
  <2>2. /\ Wire(e, start, s[e], w[e]) /\ Brought(s[e], w[e], d[e], reorder[f])
        /\ Recorded(w[e], records[e]) /\ Heard(start, s[e], w[e], d[e], reorder[f], acks[f])
        /\ Answers(e, start, s[e], w[e], d[e], reorder[f], w[f])
    BY <1>5
  <2>3. Numbered(e, start, s[e], w[e], new)
    BY <1>13
  <2> HIDE DEF f, n
  <2> QED
    BY <1>14, <2>1, <2>2, <2>3, TransmitLink
<1>27. /\ Len(v) = Len(w[e]) + n
       /\ Len(w[e]) > 0 => v[1] = w[e][1]
       /\ Len(w[e]) = 0 /\ n > 0 => v[1] = new[1]
       /\ Range(v) = Range(w[e]) \cup Range(new)
  BY <1>13, <1>16 DEF After
<1>17. local'[e] = Plus(start, Len(v))
  <2>1. Len(w[e]) + n < SeqSpace
    BY <1>9, <1>12, Widths
  <2> HIDE DEF n
  <2> QED
    BY <1>3, <1>5, <1>9, <1>10, <1>12, <1>27, <2>1, PlusPlus
<1>18. First(e, start, v, outbox'[e], spoken'[e])
  <2> SUFFICES ASSUME Quiet(e, start) PROVE v[1].unit = NoUnit
    BY <1>9, <1>12, <1>27 DEF First
  <2>1. CASE Len(w[e]) > 0
    BY <1>5, <1>27, <2>1 DEF First
  <2>2. CASE Len(w[e]) = 0
    <3>1. outbox[e] = <<>> /\ v[1] = new[1]
      BY <1>5, <1>9, <1>27, <2>2 DEF First
    <3>2. 1 \in 1 .. n /\ Len(outbox[e]) = 0
      BY <1>9, <3>1
    <3>3. units[1] = NoUnit
      BY <3>2 DEF Transmittable
    <3> QED
      BY <1>13, <3>1, <3>2, <3>3
  <2> QED
    BY <1>12, <2>1, <2>2
<1>19. Queued(s[e], outbox'[e]) /\ Pending(s[e], d[e], reorder[f], outbox'[e])
  BY <1>5, SameLink
<1>20. /\ sent'[e] = sent[e] /\ nextId'[e] = nextId[e] /\ inbox'[f] = inbox[f] /\ partial'[f] = partial[f]
       /\ expected'[f] = expected[f] /\ reorder'[f] = reorder[f] /\ acks'[f] = acks[f]
  OBVIOUS
<1>21. Link(e, start, s[e], v, d[e], w[f])'
  <2>1. records'[e] = filed
    BY <1>10
  <2> QED
    BY <1>5, <1>16, <1>17, <1>18, <1>19, <1>20, <2>1 DEF Link
\* What the other end receives of acknowledgements.
<1>22. Answers(f, start, s[f], w[f], d[f], reorder[e], v)
  <2>1. acks[e].heard \/ f \in Answering
    <3>1. Answering \subseteq Ends
      BY EndsAssumption
    <3> QED
      BY <1>3, <3>1
  <2>2. w[e] \in Seq(Datagram)
    BY <1>5 DEF Wire
  <2>3. Answers(f, start, s[f], w[f], d[f], reorder[e], w[e] \o new)
    <3>1. Heard(start, s[f], w[f], d[f], reorder[e], acks[e])
          /\ Answers(f, start, s[f], w[f], d[f], reorder[e], w[e])
      BY <1>6
    <3>2. Echoes(acks[e], new)
      BY <1>13
    <3> HIDE DEF f, n
    <3> QED
      BY <2>1, <2>2, <3>1, <3>2, AnswerLink
  <2> QED
    BY <1>15, <2>3
<1>23. Link(f, start, s[f], w[f], d[f], v)'
  <2>1. /\ sent'[f] = sent[f] /\ nextId'[f] = nextId[f] /\ inbox'[e] = inbox[e]
        /\ partial'[e] = partial[e] /\ expected'[e] = expected[e] /\ reorder'[e] = reorder[e]
        /\ acks'[e] = acks[e] /\ outbox'[f] = outbox[f] /\ local'[f] = local[f]
        /\ records'[f] = records[f] /\ spoken'[f] = spoken[f]
    BY <1>10
  <2> QED
    BY <1>3, <1>6, <1>22, <2>1 DEF Link
<1>24. PICK s2, w2, d3 : Links(start, s2, w2, d3)' /\ w2 = At(w, e, v)
  <2>1. Link(Other(e), start, s[Other(e)], w[Other(e)], d[f], v)'
    BY <1>23
  <2>2. Link(e, start, s[e], v, d[e], w[Other(e)])'
    BY <1>21
  <2> QED
    BY <2>1, <2>2, NewLinks
<1>25. Posted(w2)'
  <2>1. w2[e] = v /\ w2[f] = w[f]
    BY <1>3, <1>24 DEF At
  <2>2. net' = net \cup Range(new)
    BY <1>8, <1>13
  <2>3. \A p \in Range(new) : p.to = f
    <3>1. \A i \in 1 .. Len(new) : new[i].to = f
      BY <1>13 DEF Numbered
    <3>2. DOMAIN new = 1 .. Len(new)
      BY <1>13, LenProperties DEF Numbered
    <3> QED
      BY <3>1, <3>2 DEF Range
  <2>4. {p \in net' : p.to # e} = Range(v)
    BY <1>2, <1>3, <1>27, <2>2, <2>3 DEF Posted
  <2>5. {p \in net' : p.to # f} = Range(w[f])
    BY <1>2, <1>3, <2>2, <2>3 DEF Posted
  <2> SUFFICES ASSUME NEW x \in Ends PROVE {p \in net' : p.to # x} = Range(w2[x])
    BY DEF Posted
  <2>6. x = e \/ x = f
    BY <1>3
  <2> QED
    BY <2>1, <2>4, <2>5, <2>6
<1>26. Shape'
  BY <1>7, <1>10 DEF Shape
<1> QED
  BY <1>24, <1>25, <1>26 DEF ConnInv
-----------------------------------------------------------------------------
\* What the invariant says of an outbox.
LEMMA OutboxIs ==
  ASSUME ConnInv, NEW e \in Ends
  PROVE  outbox[e] \in Seq(Entry) /\ Len(outbox[e]) \in Nat /\ DOMAIN outbox[e] = 1 .. Len(outbox[e])
         /\ DOMAIN outbox = Ends
<1>1. PICK start \in Starts : \E s, w, d : Links(start, s, w, d) /\ Posted(w)
  BY DEF ConnInv
<1>2. PICK s, w, d : Links(start, s, w, d) /\ Posted(w)
  BY <1>1
<1>3. Link(e, start, s[e], w[e], d[e], w[Other(e)])
  BY <1>2 DEF Links
<1>4. outbox[e] \in Seq(Entry)
  BY <1>3 DEF Link, Queued
<1> QED
  BY <1>4, LenProperties DEF ConnInv, Shape

LEMMA SendBareStep ==
  ASSUME Answering # {}, ConnInv, NEW e \in Ends, SendBare(e)
  PROVE  ConnInv'
<1>1. /\ e \in Answering => acks[e].heard
      /\ Transmit(e, <<NoUnit>>)
      /\ UNCHANGED <<sent, nextId, outbox, acks, expected, reorder, partial, inbox>>
  BY DEF SendBare
<1>2. outbox[e] \in Seq(Entry) /\ Len(outbox[e]) \in Nat /\ DOMAIN outbox = Ends
  BY OutboxIs
<1>3. PICK units : units = <<NoUnit>>
  OBVIOUS
<1>4. Transmittable(units, outbox[e]) /\ Transmit(e, units)
  BY <1>1, <1>3 DEF Transmittable
<1>5. SameUnits(outbox[e], outbox'[e]) /\ outbox'[Other(e)] = outbox[Other(e)] /\ DOMAIN outbox' = Ends
  BY <1>1, <1>2 DEF SameUnits
<1> QED
  BY <1>1, <1>4, <1>5, TransmitStep

\* The units of some entries.
UnitsIn(queue, order) == [i \in DOMAIN order |-> queue[order[i]].unit]

LEMMA TriedIs ==
  ASSUME NEW queue \in Seq(Entry), NEW now
  PROVE  SameUnits(queue, Tried(queue, now))
<1> DEFINE l == Len(queue)
           q == Tried(queue, now)
<1>1. l \in Nat /\ DOMAIN queue = 1 .. l
  BY LenProperties
<1>2. ASSUME NEW i \in 1 .. l
      PROVE  [queue[i] EXCEPT !.tried = @ \/ i \in now] \in Entry
             /\ [queue[i] EXCEPT !.tried = @ \/ i \in now].unit = queue[i].unit
  <2>1. queue[i] \in Entry
    BY ElementOfSeq
  <2> DEFINE x == queue[i]
             y == x.tried \/ i \in now
  <2>2. y \in BOOLEAN
    OBVIOUS
  <2>3. x \in [unit : Unit, tried : BOOLEAN]
    BY <2>1 DEF Entry
  <2> HIDE DEF x, y
  <2>4. [x EXCEPT !.tried = y] \in [unit : Unit, tried : BOOLEAN] /\ [x EXCEPT !.tried = y].unit = x.unit
    BY <2>2, <2>3
  <2> QED
    BY <2>4 DEF x, y, Entry
<1>3. q = [i \in 1 .. l |-> [queue[i] EXCEPT !.tried = @ \/ i \in now]]
  BY <1>1 DEF Tried
<1> HIDE DEF q, l
<1>4. q \in [1 .. l -> Entry] /\ \A i \in 1 .. l : q[i].unit = queue[i].unit
  <2> DEFINE E(i) == [queue[i] EXCEPT !.tried = @ \/ i \in now]
  <2>1. \A i \in 1 .. l : E(i) \in Entry /\ E(i).unit = queue[i].unit
    BY <1>2
  <2>2. q = [i \in 1 .. l |-> E(i)]
    BY <1>3
  <2> HIDE DEF E
  <2> QED
    BY <2>1, <2>2
<1>5. q \in Seq(Entry) /\ Len(q) = l
  BY <1>1, <1>4
<1> QED
  BY <1>4, <1>5 DEF SameUnits, q, l

LEMMA UnitsInAre ==
  ASSUME NEW queue \in Seq(Entry), NEW now, now # {}, \A x \in now : x \in 1 .. Len(queue)
  PROVE  Transmittable(UnitsIn(queue, Sorted(now)), queue)
<1> DEFINE m == Cardinality(now)
           order == Sorted(now)
           units == UnitsIn(queue, order)
<1>1. Len(queue) \in Nat
  BY LenProperties
<1>2. Counts(now, m, order)
  BY <1>1, SortedCounts
<1> HIDE DEF order, m
<1>3. /\ m \in Nat /\ order \in [1 .. m -> now]
      /\ \A x \in now : \E i \in 1 .. m : order[i] = x
  BY <1>2 DEF Counts
<1>4. m > 0
  BY <1>3
<1>5. units = [i \in 1 .. m |-> queue[order[i]].unit]
  BY <1>3 DEF UnitsIn
<1> HIDE DEF units
<1>6. units \in [1 .. m -> {units[i] : i \in 1 .. m}] /\ \A i \in 1 .. m : units[i] = queue[order[i]].unit
  BY <1>5
<1>7. Len(units) = m
  BY <1>3, <1>6
<1>8. \A i \in 1 .. m : \E j \in 1 .. Len(queue) : units[i] = queue[j].unit
  BY <1>3, <1>6
<1> QED
  BY <1>3, <1>4, <1>7, <1>8 DEF Transmittable, units, order

LEMMA SendDueStep ==
  ASSUME Answering # {}, ConnInv, NEW e \in Ends, SendDue(e)
  PROVE  ConnInv'
<1> DEFINE Untried == {i \in DOMAIN outbox[e] : ~outbox[e][i].tried}
           Now(due) == due \cup Untried
<1>1. PICK due \in SUBSET {i \in DOMAIN outbox[e] : outbox[e][i].tried} :
        /\ Now(due) # {}
        /\ e \in Answering => acks[e].heard
        /\ Transmit(e, UnitsIn(outbox[e], Sorted(Now(due))))
        /\ outbox' = [outbox EXCEPT ![e] = Tried(@, Now(due))]
        /\ UNCHANGED <<sent, nextId, acks, expected, reorder, partial, inbox>>
  BY DEF SendDue, UnitsIn
<1> DEFINE now == Now(due)
<1>5. \A x \in now : x \in 1 .. Len(outbox[e])
  BY OutboxIs
<1> HIDE DEF now
<1>3. /\ now # {} /\ (e \in Answering => acks[e].heard)
      /\ Transmit(e, UnitsIn(outbox[e], Sorted(now)))
      /\ outbox' = [outbox EXCEPT ![e] = Tried(@, now)]
      /\ UNCHANGED <<sent, nextId, acks, expected, reorder, partial, inbox>>
  BY <1>1 DEF now
<1>4. outbox[e] \in Seq(Entry) /\ DOMAIN outbox[e] = 1 .. Len(outbox[e]) /\ DOMAIN outbox = Ends
  BY OutboxIs
<1>6. PICK units : units = UnitsIn(outbox[e], Sorted(now))
  OBVIOUS
<1>7. Transmittable(units, outbox[e]) /\ Transmit(e, units)
  BY <1>3, <1>4, <1>5, <1>6, UnitsInAre
<1>8. outbox'[e] = Tried(outbox[e], now) /\ outbox'[Other(e)] = outbox[Other(e)] /\ DOMAIN outbox' = Ends
  BY <1>3, <1>4, Others
<1>9. SameUnits(outbox[e], outbox'[e])
  BY <1>4, <1>8, TriedIs
<1> QED
  BY <1>3, <1>7, <1>8, <1>9, TransmitStep

-----------------------------------------------------------------------------
LEMMA StutterStep ==
  ASSUME ConnInv, UNCHANGED vars
  PROVE  ConnInv'
<1>1. PICK start \in Starts : \E s, w, d : Links(start, s, w, d) /\ Posted(w)
  BY DEF ConnInv
<1>2. PICK s, w, d : Links(start, s, w, d) /\ Posted(w)
  BY <1>1
<1>3. ASSUME NEW e \in Ends PROVE Link(e, start, s[e], w[e], d[e], w[Other(e)])'
  <2>1. Link(e, start, s[e], w[e], d[e], w[Other(e)])
    BY <1>2 DEF Links
  <2>2. About(e)' = About(e) /\ Beyond(Other(e))' = Beyond(Other(e))
    BY DEF vars, About, Beyond
  <2> QED
    BY <2>1, <2>2, LinkKept
<1>4. Links(start, s, w, d)' /\ Posted(w)' /\ Shape'
  <2>1. Shape
    BY DEF ConnInv
  <2> QED
    BY <1>2, <1>3, <2>1 DEF vars, Links, Posted, Shape
<1> QED
  BY <1>4 DEF ConnInv

LEMMA ConnNext ==
  ASSUME Answering # {}, ConnInv, [Next]_vars
  PROVE  ConnInv'
<1>1. ASSUME NEW e \in Ends, Send(e) PROVE ConnInv'
  BY <1>1, SendStep
<1>2. ASSUME NEW e \in Ends, HandleDatagram(e) PROVE ConnInv'
  BY <1>2, HandleStep
<1>3. ASSUME NEW e \in Ends, SendDue(e) PROVE ConnInv'
  BY <1>3, SendDueStep
<1>4. ASSUME NEW e \in Ends, SendBare(e) PROVE ConnInv'
  BY <1>4, SendBareStep
<1>5. CASE UNCHANGED vars
  BY <1>5, StutterStep
<1> QED
  BY <1>1, <1>2, <1>3, <1>4, <1>5 DEF Next

LEMMA ConnAlways ==
  ASSUME Answering # {}
  PROVE  Spec => []ConnInv
<1>1. Init => ConnInv
  BY InitConn
<1>2. ConnInv /\ [Next]_vars => ConnInv'
  BY ConnNext
<1> QED
  BY <1>1, <1>2, PTL DEF Spec
-----------------------------------------------------------------------------
\* A link at each end, whatever the history.
LEMMA LinkOf ==
  ASSUME ConnInv, NEW e \in Ends
  PROVE  \E start \in A!Seqs : \E s, w, d, back : Link(e, start, s, w, d, back)
<1>1. PICK start \in Starts : \E s, w, d : Links(start, s, w, d) /\ Posted(w)
  BY DEF ConnInv
<1>2. PICK s, w, d : Links(start, s, w, d) /\ Posted(w)
  BY <1>1
<1>3. Link(e, start, s[e], w[e], d[e], w[Other(e)])
  BY <1>2 DEF Links
<1> QED
  BY <1>3, StartAssumption

\* Every connection, from whichever sequence it starts, whatever is lost, repeated or
\* overtaken: the unit a receiver waits for is never one it already holds
\* (DeliverReliable drains the reorder buffer as far as it goes).
THEOREM NeverStuck ==
  ASSUME Answering # {}
  PROVE  Spec => []NothingStuck
<1>1. ASSUME ConnInv, NEW f \in Ends PROVE expected[f] \notin Ids(reorder[f])
  <2>1. PICK e \in Ends : Other(e) = f
    BY Others
  <2>2. PICK start \in A!Seqs : \E s, w, d, back : Link(e, start, s, w, d, back)
    BY <1>1, LinkOf
  <2>3. PICK s, w, d, back : Link(e, start, s, w, d, back)
    BY <2>2
  <2>4. /\ Streamed(start, s, sent[e], nextId[e]) /\ Limits(s, d)
        /\ expected[f] = Plus(start, d) /\ Held(s, d, reorder[f])
    BY <2>1, <2>3 DEF Link
  <2>5. Len(s) \in Nat /\ d \in Nat /\ Len(s) < SeqSpace
    BY <2>4, ShortStream DEF Streamed
  <2>6. ASSUME NEW u \in reorder[f], u.id = expected[f] PROVE FALSE
    <3>1. PICK k \in d + 2 .. Len(s) : u = s[k]
      BY <2>4 DEF Held
    <3> DEFINE y == k - 1
    <3>2. d \in 0 .. SeqSpace - 1 /\ y \in 0 .. SeqSpace - 1 /\ d # y /\ k \in 1 .. Len(s)
      BY <2>5, <3>1, Widths
    <3>3. Plus(start, d) = Plus(start, y)
      BY <2>4, <2>6, <3>1, <3>2 DEF Streamed
    <3> HIDE DEF y
    <3> QED
      BY <3>2, <3>3, PlusApart
  <2> QED
    BY <2>6 DEF Ids
<1>2. ConnInv => NothingStuck
  BY <1>1 DEF NothingStuck
<1> QED
  BY <1>2, ConnAlways, PTL

\* A message leaves the outbox only when its peer has every piece of it, delivered or
\* held: no acknowledgement, however old, repeated or reordered, retires a message that
\* was lost (ProcessAcks), as long as one of the two ends waits to be spoken to.
THEOREM RetiredArrives ==
  ASSUME Answering # {}
  PROVE  Spec => []RetiredHasArrived
<1>1. ASSUME ConnInv, NEW e \in Ends, NEW x \in Pieces(sent[e])
      PROVE  \/ \E i \in DOMAIN outbox[e] : outbox[e][i].unit.piece = x
             \/ x \in Arrived(Other(e))
  <2>1. PICK start \in A!Seqs : \E s, w, d, back : Link(e, start, s, w, d, back)
    BY <1>1, LinkOf
  <2>2. PICK s, w, d, back : Link(e, start, s, w, d, back)
    BY <2>1
  <2>3. PICK f : f = Other(e)
    OBVIOUS
  <2>4. PICK st : st = [inbox |-> inbox[f], partial |-> partial[f]]
    OBVIOUS
  <2>5. /\ Streamed(start, s, sent[e], nextId[e]) /\ Limits(s, d)
        /\ Delivered(s, sent[e], d, st) /\ Pending(s, d, reorder[f], outbox[e])
    BY <2>2, <2>3, <2>4 DEF Link
  <2>6. PICK k \in 1 .. Len(s) : s[k].piece = x
    BY <1>1, <2>5 DEF Streamed
  <2>7. CASE \E i \in 1 .. Len(outbox[e]) : outbox[e][i].unit = s[k]
    BY <1>1, <2>6, <2>7, OutboxIs
  <2>8. CASE s[k] \in reorder[f]
    BY <2>3, <2>6, <2>8 DEF Arrived
  <2>9. CASE k =< d
    <3>1. Len(s) \in Nat /\ d \in Nat
      BY <2>5, ShortStream DEF Streamed
    <3>2. k \in 1 .. d
      BY <2>9, <3>1
    <3>3. x \in Pieces(st.inbox) \cup Range(st.partial.bytes)
      BY <2>5, <2>6, <3>2 DEF Delivered
    <3>4. st.inbox = inbox[f] /\ st.partial = partial[f]
      BY <2>4
    <3> QED
      BY <2>3, <3>3, <3>4 DEF Arrived
  <2> QED
    BY <2>5, <2>7, <2>8, <2>9 DEF Pending, Here
<1>2. ConnInv => RetiredHasArrived
  BY <1>1 DEF RetiredHasArrived
<1> QED
  BY <1>2, ConnAlways, PTL

-----------------------------------------------------------------------------
(* The pair implements the promise *)

\* The first messages of those queued.
Begins(q, t) == \E a \in 0 .. Len(t) : q = SubSeq(t, 1, a) /\ Len(q) = a

LEMMA BeginsPrefix ==
  ASSUME NEW X, NEW t \in Seq(X), NEW q, NEW r, Begins(q, t), Begins(r, t), Len(q) =< Len(r)
  PROVE  IsPrefix(q, r) /\ IsPrefix(r, t)
<1>1. PICK a \in 0 .. Len(t) : q = SubSeq(t, 1, a) /\ Len(q) = a
  BY DEF Begins
<1>2. PICK b \in 0 .. Len(t) : r = SubSeq(t, 1, b) /\ Len(r) = b
  BY DEF Begins
<1>3. Len(t) \in Nat /\ a =< b
  BY <1>1, <1>2, LenProperties
<1>4. SubSeq(q, 1, a) = SubSeq(t, 1, a) /\ SubSeq(r, 1, b) = SubSeq(t, 1, b)
      /\ SubSeq(r, 1, a) = SubSeq(t, 1, a)
  <2>1. ASSUME NEW i \in 0 .. Len(t), NEW j \in 0 .. i
        PROVE  SubSeq(SubSeq(t, 1, i), 1, j) = SubSeq(t, 1, j)
    <3>1. CASE j = 0
      BY <3>1, SubSeqEmpty
    <3>2. CASE j # 0
      <4>1. i \in 1 .. Len(t) /\ 1 \in 1 .. Len(t) /\ 1 \in 1 .. i - 1 + 1 /\ j \in 1 .. i - 1 + 1
        BY <1>3, <3>2
      <4>2. SubSeq(SubSeq(t, 1, i), 1, j) = SubSeq(t, 1 + 1 - 1, 1 + j - 1)
        BY <4>1, SubSeqOfSubSeq
      <4>3. 1 + 1 - 1 = 1 /\ 1 + j - 1 = j
        BY <4>1
      <4> QED
        BY <4>2, <4>3
    <3> QED
      BY <3>1, <3>2
  <2>2. a \in 0 .. a /\ b \in 0 .. b /\ a \in 0 .. b
    BY <1>3
  <2> QED
    BY <1>1, <1>2, <2>1, <2>2
<1> QED
  BY <1>1, <1>2, <1>3, <1>4 DEF IsPrefix

LEMMA InboxBegins ==
  ASSUME ConnInv, NEW f \in Ends
  PROVE  Begins(inbox[f], sent[Other(f)]) /\ sent[Other(f)] \in Seq(Message)
<1>1. PICK e \in Ends : e = Other(f) /\ Other(e) = f
  BY Others
<1>2. PICK start \in A!Seqs : \E s, w, d, back : Link(e, start, s, w, d, back)
  BY <1>1, LinkOf
<1>3. PICK s, w, d, back : Link(e, start, s, w, d, back)
  BY <1>2
<1>4. PICK st : st = [inbox |-> inbox[f], partial |-> partial[f]]
  OBVIOUS
<1>5. Streamed(start, s, sent[e], nextId[e]) /\ Delivered(s, sent[e], d, st)
  BY <1>1, <1>3, <1>4 DEF Link
<1>6. st.inbox = inbox[f] /\ sent[e] \in Seq(Message)
  BY <1>4, <1>5 DEF Streamed
<1>7. Begins(st.inbox, sent[e])
  BY <1>5, DeliveredPrefix DEF Begins
<1> QED
  BY <1>1, <1>6, <1>7

\* The inbox is a function on the ends.
Inboxes == inbox = [e \in Ends |-> inbox[e]]

\* HandleDatagram changes the receiver's inbox only.
LEMMA HandleInbox ==
  ASSUME NEW e \in Ends, HandleDatagram(e), Inboxes
  PROVE  inbox' = [inbox EXCEPT ![e] = inbox'[e]] /\ sent' = sent /\ Inboxes'
<1>1. PICK p \in net : IF p.unit = NoUnit THEN inbox' = inbox ELSE DeliverReliable(e, p.unit)
  BY DEF HandleDatagram
<1>2. inbox' = inbox \/ \E v : inbox' = [inbox EXCEPT ![e] = v]
  <2>1. CASE p.unit = NoUnit
    BY <1>1, <2>1
  <2>2. CASE p.unit # NoUnit /\ p.unit.id # expected[e]
    BY <1>1, <2>2 DEF DeliverReliable
  <2>3. CASE p.unit # NoUnit /\ p.unit.id = expected[e]
    <3> DEFINE held == reorder[e] \cup {p.unit}
               units == [i \in 1 .. Run(e, held) |-> UnitAt(e, held, i)]
               st == AcceptAll([inbox |-> inbox[e], partial |-> partial[e]], units)
    <3>1. DeliverReliable(e, p.unit)
      BY <1>1, <2>3
    <3>2. inbox' = [inbox EXCEPT ![e] = st.inbox]
      BY <2>3, <3>1 DEF DeliverReliable
    <3> HIDE DEF st
    <3> QED
      BY <3>2
  <2> QED
    BY <2>1, <2>2, <2>3
<1>3. CASE inbox' = inbox
  <2>1. DOMAIN inbox = Ends
    BY DEF Inboxes
  <2>2. inbox = [inbox EXCEPT ![e] = inbox[e]]
    BY <2>1 DEF Inboxes
  <2> QED
    BY <1>3, <2>2 DEF Inboxes, HandleDatagram
<1>4. CASE \E v : inbox' = [inbox EXCEPT ![e] = v]
  <2>1. PICK v : inbox' = [inbox EXCEPT ![e] = v]
    BY <1>4
  <2>2. inbox'[e] = v /\ DOMAIN inbox = Ends
    BY <2>1 DEF Inboxes
  <2>3. inbox' = [x \in Ends |-> IF x = e THEN v ELSE inbox[x]]
    BY <2>1, <2>2
  <2>4. Inboxes'
    BY <2>3 DEF Inboxes
  <2> QED
    BY <2>1, <2>2, <2>4 DEF HandleDatagram
<1>5. sent' = sent
  BY DEF HandleDatagram
<1> QED
  BY <1>2, <1>3, <1>4, <1>5

LEMMA InboxesAlways == Spec => []Inboxes
<1>1. Init => Inboxes
  BY DEF Init, StartAt, Inboxes
<1>2. ASSUME Inboxes, [Next]_vars PROVE Inboxes'
  <2>1. ASSUME NEW e \in Ends, Send(e) \/ SendDue(e) \/ SendBare(e) PROVE inbox' = inbox
    BY <2>1 DEF Send, SendDue, SendBare, recvVars
  <2>2. ASSUME NEW e \in Ends, HandleDatagram(e) PROVE Inboxes'
    BY <1>2, <2>2, HandleInbox
  <2>3. CASE inbox' = inbox
    BY <1>2, <2>3 DEF Inboxes
  <2> QED
    BY <1>2, <2>1, <2>2, <2>3 DEF Next, vars
<1> QED
  BY <1>1, <1>2, PTL DEF Spec

LEMMA FifoStep ==
  ASSUME ConnInv, ConnInv', Inboxes, [Next]_vars
  PROVE  [Fifo!Next]_<<sent, inbox>>
<1>1. ASSUME NEW e \in Ends, Send(e) PROVE Fifo!Next
  <2>1. PICK k \in 1 .. MaxFragments :
          sent' = [sent EXCEPT ![e] = Append(@, MessageOf(Len(sent[e]) + 1, k))]
    BY <1>1 DEF Send
  <2>2. Other(e) \in Ends /\ Other(Other(e)) = e
    BY Others
  <2>3. sent[e] \in Seq(Message)
    BY <2>2, InboxBegins
  <2>4. Len(sent[e]) \in Nat /\ Len(sent[e]) < MaxMessages /\ inbox' = inbox
    BY <1>1, <2>3, LenProperties DEF Send, recvVars
  <2>5. Len(sent[e]) + 1 \in 1 .. MaxMessages
    BY <2>4, Widths
  <2>6. MessageOf(Len(sent[e]) + 1, k) \in Message
    BY <2>5, MessageOfIs
  <2> QED
    BY <2>1, <2>4, <2>6 DEF Fifo!Next, Fifo!Send
<1>2. ASSUME NEW e \in Ends, HandleDatagram(e) PROVE Fifo!Next \/ UNCHANGED <<sent, inbox>>
  <2>1. inbox' = [inbox EXCEPT ![e] = inbox'[e]] /\ sent' = sent
    BY <1>2, HandleInbox
  <2>2. Len(inbox[e]) =< Len(inbox'[e])
    BY <1>2, HandleStep
  <2>3. Begins(inbox[e], sent[Other(e)]) /\ sent[Other(e)] \in Seq(Message)
    BY InboxBegins
  <2>4. Begins(inbox'[e], sent[Other(e)])
    <3>1. PICK start \in A!Seqs : \E s, w, d, back : Link(Other(e), start, s, w, d, back)'
      <4>1. PICK start \in Starts : (\E s, w, d : Links(start, s, w, d) /\ Posted(w))'
        BY DEF ConnInv
      <4>2. PICK s, w, d : Links(start, s, w, d)'
        BY <4>1
      <4>3. Other(e) \in Ends
        BY Others
      <4>4. Link(Other(e), start, s[Other(e)], w[Other(e)], d[Other(e)], w[Other(Other(e))])'
        BY <4>2, <4>3 DEF Links
      <4> QED
        BY <4>4, StartAssumption
    <3>2. PICK s, w, d, back : Link(Other(e), start, s, w, d, back)'
      BY <3>1
    <3>3. PICK st : st = [inbox |-> inbox'[e], partial |-> partial'[e]]
      OBVIOUS
    <3>4. Other(Other(e)) = e
      BY Others
    <3>5. /\ Streamed(start, s, sent'[Other(e)], nextId'[Other(e)])
          /\ Delivered(s, sent'[Other(e)], d, st)
      BY <3>2, <3>3, <3>4 DEF Link
    <3>6. Begins(st.inbox, sent'[Other(e)]) /\ st.inbox = inbox'[e]
      BY <3>3, <3>5, DeliveredPrefix DEF Begins
    <3> QED
      BY <2>1, <3>6
  <2>5. IsPrefix(inbox[e], inbox'[e]) /\ IsPrefix(inbox'[e], sent[Other(e)])
    BY <2>2, <2>3, <2>4, BeginsPrefix
  <2>6. CASE inbox'[e] = inbox[e]
    <3>1. inbox' = inbox
      BY <2>1, <2>6 DEF Inboxes
    <3> QED
      BY <2>1, <3>1
  <2>7. CASE inbox'[e] # inbox[e]
    <3>1. Fifo!IsPrefix(inbox[e], inbox'[e]) /\ Fifo!IsPrefix(inbox'[e], sent[Other(e)])
      BY <2>5 DEF IsPrefix, Fifo!IsPrefix
    <3> QED
      BY <2>1, <2>7, <3>1 DEF Fifo!Next, Fifo!Deliver
  <2> QED
    BY <2>6, <2>7
<1>3. ASSUME NEW e \in Ends, SendDue(e) \/ SendBare(e) PROVE UNCHANGED <<sent, inbox>>
  BY <1>3 DEF SendDue, SendBare
<1>4. CASE UNCHANGED vars
  BY <1>4 DEF vars
<1> QED
  BY <1>1, <1>2, <1>3, <1>4 DEF Next

\* "Resent until acked, delivered in order exactly once" (Connection.h:78), the second
\* half: with any messages, fragments, losses, repetitions and overtaking, every step of
\* the two connections queues a message, delivers the next ones whole, or neither.
THEOREM DeliversInOrder ==
  ASSUME Answering # {}
  PROVE  Spec => InOrderOnce
<1>1. Init => Fifo!Init
  BY DEF Init, StartAt, Fifo!Init
<1>2. ConnInv /\ ConnInv' /\ Inboxes /\ [Next]_vars => [Fifo!Next]_<<sent, inbox>>
  BY FifoStep
<1> QED
  BY <1>1, <1>2, ConnAlways, InboxesAlways, PTL DEF Spec, InOrderOnce, Fifo!Spec
=============================================================================
