--------------------------- MODULE LogReaderProofs ---------------------------
(* That mod_logreader answers what the table says, for every table in which the
   intervals of a signal have no time in common: ShownAt is in KnownAt at every
   time that the request is about.  The proofs about the table (SignalLoggerProofs)
   and about what the viewer draws of an answer rest on this.

   do_select's loop looks at one row and the one before it.  At any time, the
   changes found so far are right for the rows so far before the start of the last one,
   and from there on show that one (Scanned); a row that comes next changes nothing
   before its own start, except that it may end the one before.              *)
EXTENDS LogReader, FiniteSetTheorems, WellFoundedInduction, TLAPS

(* The rows of a signal: the start is a key, and intervals do not overlap. *)
Apart(table) ==
    /\ IsFiniteSet(table)
    /\ \A r \in table : r.start \in Nat /\ r.end \in Int /\ r.start <= r.end
    /\ \A r, q \in table : r # q =>
          r.start # q.start /\ (r.end <= q.start \/ q.end <= r.start)

-----------------------------------------------------------------------------
(* Numbers.                                                                  *)

LEMMA LeastOf ==
    ASSUME NEW S \in SUBSET Nat, S # {}
    PROVE  \E m \in S : \A k \in S : m <= k
<1> DEFINE R == {ss \in Nat \X Nat : ss[1] < ss[2]}
<1>1. IsWellFoundedOn(R, Nat)
  BY NatLessThanWellFounded DEF OpToRel
<1>2. PICK m \in S : \A j \in S : ~(<<j, m>> \in R)
  <2> HIDE DEF R
  <2> QED
    BY <1>1, WFMin
<1>3. ASSUME NEW k \in S PROVE m <= k
  <2>1. k \in Nat /\ m \in Nat /\ ~(<<k, m>> \in R)
    BY <1>2
  <2> QED
    BY <2>1
<1> QED
  BY <1>3

LEMMA GreatestOf ==
    ASSUME NEW n \in Nat, NEW S \in SUBSET (1..n), S # {}
    PROVE  Max(S) \in S /\ \A k \in S : k <= Max(S)
<1> DEFINE R == {n - k : k \in S}
<1>1. R \subseteq Nat /\ R # {}
  OBVIOUS
<1>2. PICK m \in R : \A k \in R : m <= k
  <2> HIDE DEF R
  <2> QED
    BY <1>1, LeastOf
<1>3. n - m \in S /\ \A k \in S : k <= n - m
  <2>1. PICK j \in S : m = n - j
    BY <1>2
  <2>2. j \in 1..n /\ n - m = j
    BY <2>1
  <2>3. ASSUME NEW k \in S PROVE k <= j
    <3>1. n - k \in R /\ k \in 1..n
      OBVIOUS
    <3>2. n - j <= n - k
      BY <1>2, <2>1, <3>1
    <3> QED
      BY <2>2, <3>1, <3>2
  <2> QED
    BY <2>2, <2>3
<1>4. \E x \in S : \A y \in S : x >= y
  <2>1. \A y \in S : n - m >= y
    <3> SUFFICES ASSUME NEW y \in S PROVE n - m >= y
      OBVIOUS
    <3>1. y \in 1..n /\ n - m \in 1..n /\ y <= n - m
      BY <1>3
    <3> QED
      BY <3>1
  <2> QED
    BY <1>3, <2>1
<1>5. Max(S) \in S /\ \A y \in S : Max(S) >= y
  BY <1>4 DEF Max
<1> DEFINE a == Max(S)
<1> HIDE DEF a
<1>6. a \in S /\ \A y \in S : a >= y
  BY <1>5 DEF a
<1>7. \A y \in S : y \in Nat
  OBVIOUS
<1> QED
  BY <1>6, <1>7 DEF a

(* Induction up to n, as a property of a set of numbers. *)
LEMMA Upward ==
    ASSUME NEW n \in Nat, NEW P \in SUBSET (0..n), 0 \in P,
           \A k \in 0..(n - 1) : k \in P => k + 1 \in P
    PROVE  P = 0..n
<1> DEFINE S == (0..n) \ P
<1>1. SUFFICES ASSUME S # {} PROVE FALSE
  OBVIOUS
<1>2. PICK m \in S : \A j \in S : m <= j
  <2>1. S \subseteq Nat
    OBVIOUS
  <2> HIDE DEF S
  <2> QED
    BY <1>1, <2>1, LeastOf
<1>3. m \in 1..n /\ m - 1 \in 0..(n - 1) /\ m - 1 \notin S
  BY <1>2
<1>4. m - 1 \in P
  BY <1>3
<1>5. (m - 1) + 1 \in P
  BY <1>3, <1>4
<1> QED
  BY <1>2, <1>3, <1>5

-----------------------------------------------------------------------------
LEMMA Smaller ==
    ASSUME NEW S, IsFiniteSet(S), NEW T \in SUBSET S, NEW x \in S, x \notin T
    PROVE  /\ IsFiniteSet(T) /\ Cardinality(T) \in Nat /\ Cardinality(S) \in Nat
           /\ Cardinality(T) < Cardinality(S)
<1>1. IsFiniteSet(T) /\ Cardinality(T) <= Cardinality(S) /\ Cardinality(T) # Cardinality(S)
  BY FS_Subset
<1>2. Cardinality(T) \in Nat /\ Cardinality(S) \in Nat
  BY <1>1, FS_CardinalityType
<1> QED
  BY <1>1, <1>2

(* The rows come in the order of their starts, each of them once. *)
LEMMA RowsInOrder ==
    ASSUME NEW table, Apart(table), NEW request
    PROVE  LET rows == {r \in table : Selected(r, request)}
               q == Rows(table, request)
           IN  /\ Cardinality(rows) \in Nat
               /\ q \in [1..Cardinality(rows) -> rows]
               /\ \A m, n \in DOMAIN q : m < n => q[m].start < q[n].start
               /\ \A r \in rows : \E n \in DOMAIN q : q[n] = r
<1> DEFINE rows == {r \in table : Selected(r, request)}
           N == Cardinality(rows)
           Below(r) == Before(rows, r)
           Rank(r) == Cardinality(Below(r))
           rank == [r \in rows |-> Rank(r)]
           q == Rows(table, request)
<1>1. IsFiniteSet(rows) /\ N \in Nat /\ rows \subseteq table
  <2>1. rows \subseteq table /\ IsFiniteSet(table)
    BY DEF Apart
  <2> HIDE DEF rows
  <2> QED
    BY <2>1, FS_Subset, FS_CardinalityType
<1>2. \A r, s \in rows : r.start \in Nat /\ (r # s => r.start # s.start)
  BY DEF Apart
<1> HIDE DEF rows
<1>3. ASSUME NEW r \in rows
      PROVE  /\ Below(r) \subseteq rows /\ r \notin Below(r)
             /\ IsFiniteSet(Below(r)) /\ Rank(r) \in 0..(N - 1)
  <2>1. Below(r) \subseteq rows /\ r \notin Below(r)
    BY <1>2 DEF Before
  <2> HIDE DEF Below
  <2>2. IsFiniteSet(Below(r)) /\ Rank(r) < N /\ Rank(r) \in Nat
    BY <1>1, <2>1, Smaller
  <2> QED
    BY <1>1, <2>1, <2>2
<1>4. ASSUME NEW r \in rows, NEW s \in rows, r.start < s.start PROVE Rank(r) < Rank(s)
  <2>1. Below(r) \subseteq Below(s) /\ r \in Below(s) /\ r \notin Below(r)
    BY <1>2, <1>4 DEF Before
  <2>2. IsFiniteSet(Below(s))
    BY <1>3
  <2> HIDE DEF Below
  <2> QED
    BY <2>1, <2>2, Smaller
<1>5. \A r, s \in rows : Rank(r) = Rank(s) => r = s
  <2> SUFFICES ASSUME NEW r \in rows, NEW s \in rows, Rank(r) = Rank(s), r # s PROVE FALSE
    OBVIOUS
  <2>1. r.start < s.start \/ s.start < r.start
    BY <1>2
  <2>2. Rank(r) \in Nat /\ Rank(s) \in Nat
    BY <1>1, <1>3
  <2>3. Rank(r) < Rank(s) \/ Rank(s) < Rank(r)
    BY <1>4, <2>1
  <2> HIDE DEF Rank
  <2> QED
    BY <2>2, <2>3
<1>6. \A n \in 0..(N - 1) : \E r \in rows : Rank(r) = n
  <2> HIDE DEF Rank
  <2>1. rank \in Injection(rows, 0..(N - 1))
    BY <1>3, <1>5 DEF Injection, IsInjective
  <2>2. IsFiniteSet(0..(N - 1)) /\ Cardinality(0..(N - 1)) = N
    BY <1>1, FS_Interval
  <2>3. rank \in Surjection(rows, 0..(N - 1))
    <3> HIDE DEF rank
    <3> QED
      BY <2>1, <2>2, FS_Injection
  <2> QED
    BY <2>3 DEF Surjection
<1>7. q = [n \in 1..N |-> CHOOSE r \in rows : Rank(r) = n - 1]
  BY DEF Rows, rows
<1> HIDE DEF Rank, q, N
<1>8. ASSUME NEW n \in 1..N PROVE q[n] \in rows /\ Rank(q[n]) = n - 1
  <2>1. n - 1 \in 0..(N - 1)
    BY <1>1
  <2> QED
    BY <1>6, <1>7, <2>1
<1>9. q \in [1..N -> rows]
  BY <1>7, <1>8
<1>10. ASSUME NEW m \in 1..N, NEW n \in 1..N, m < n PROVE q[m].start < q[n].start
  <2>1. Rank(q[m]) = m - 1 /\ Rank(q[n]) = n - 1 /\ m - 1 < n - 1 /\ n - 1 \in Int /\ m - 1 \in Int
    BY <1>1, <1>8, <1>10
  <2>2. q[m].start \in Nat /\ q[n].start \in Nat
    BY <1>2, <1>8
  <2>3. q[n].start # q[m].start
    BY <1>2, <1>8, <2>1
  <2>4. ~(q[n].start < q[m].start)
    <3> SUFFICES ASSUME q[n].start < q[m].start PROVE FALSE
      OBVIOUS
    <3>1. Rank(q[n]) < Rank(q[m])
      BY <1>4, <1>8
    <3> QED
      BY <2>1, <3>1
  <2> QED
    BY <2>2, <2>3, <2>4
<1>11. ASSUME NEW r \in rows PROVE \E n \in 1..N : q[n] = r
  <2>1. Rank(r) \in 0..(N - 1)
    BY <1>3
  <2>2. Rank(r) + 1 \in 1..N /\ (Rank(r) + 1) - 1 = Rank(r)
    BY <1>1, <2>1
  <2>3. Rank(q[Rank(r) + 1]) = Rank(r) /\ q[Rank(r) + 1] \in rows
    BY <1>8, <2>2
  <2> QED
    BY <1>5, <2>2, <2>3
<1>12. DOMAIN q = 1..N
  BY <1>9
<1> QED
  BY <1>1, <1>9, <1>10, <1>11, <1>12 DEF q, N, rows

(* do_select's loop: what it has found is that of the rows before with one
   more, from no rows on. *)
Scan(q, request) == FoldLeft(LAMBDA s, r : Row(s, r, request), NoRow, q)
Scans(g, q, request) ==
    /\ DOMAIN g = 0..Len(q) /\ g[0] = NoRow
    /\ \A n \in 1..Len(q) : g[n] = Row(g[n - 1], q[n], request)

LEMMA RowByRow ==
    ASSUME NEW q, NEW request, Len(q) \in Nat, DOMAIN q = 1..Len(q)
    PROVE  \E g : Scans(g, q, request) /\ Scan(q, request) = g[Len(q)]
<1> DEFINE N == Len(q)
           One(f, s) == IF s = {} THEN NoRow ELSE Row(f[s \ {Max(s)}], q[Max(s)], request)
           Solves(f, k) == f = [s \in SUBSET (1..k) |-> One(f, s)]
           P == {k \in 0..N : \E f : Solves(f, k)}
<1> HIDE DEF N
<1>1. N \in Nat /\ DOMAIN q = 1..N
  BY DEF N
<1>2. 0 \in P
  <2> DEFINE f == [s \in SUBSET (1..0) |-> NoRow]
  <2>1. \A s \in SUBSET (1..0) : s = {}
    OBVIOUS
  <2>2. Solves(f, 0)
    BY <2>1
  <2> QED
    BY <1>1, <2>2
<1>3. ASSUME NEW k \in 0..(N - 1), k \in P PROVE k + 1 \in P
  <2>1. PICK f : Solves(f, k)
    BY <1>3
  <2> DEFINE h == [s \in SUBSET (1..(k + 1)) |-> One(f, s)]
  <2>2. ASSUME NEW s \in SUBSET (1..k) PROVE h[s] = f[s]
    <3>1. s \in SUBSET (1..(k + 1))
      BY <1>1
    <3>2. h[s] = One(f, s)
      BY <3>1
    <3>3. f[s] = One(f, s)
      <4> HIDE DEF One
      <4> QED
        BY <2>1
    <3> QED
      BY <3>2, <3>3
  <2>3. ASSUME NEW s \in SUBSET (1..(k + 1)) PROVE One(h, s) = One(f, s)
    <3>1. CASE s = {}
      BY <3>1
    <3>2. CASE s # {}
      <4>1. Max(s) \in s /\ \A i \in s : i <= Max(s)
        <5>1. k + 1 \in Nat /\ s \in SUBSET (1..(k + 1))
          BY <1>1
        <5> QED
          BY <3>2, <5>1, GreatestOf
      <4> DEFINE m == Max(s)
                 u == s \ {Max(s)}
      <4>2. u \in SUBSET (1..k)
        <5> SUFFICES ASSUME NEW i \in u PROVE i \in 1..k
          OBVIOUS
        <5>1. i \in 1..(k + 1) /\ m \in 1..(k + 1) /\ i <= m /\ i # m
          BY <4>1
        <5> HIDE DEF m
        <5> QED
          BY <5>1
      <4> HIDE DEF h, u
      <4>3. h[u] = f[u]
        BY <2>2, <4>2
      <4> QED
        BY <4>3 DEF u
    <3> QED
      BY <3>1, <3>2
  <2>4. Solves(h, k + 1)
    <3> HIDE DEF One
    <3> QED
      BY <2>3
  <2>5. k + 1 \in 0..N
    BY <1>1
  <2> HIDE DEF h, Solves
  <2> QED
    BY <2>4, <2>5
<1>4. \E f : Solves(f, N)
  <2> HIDE DEF Solves
  <2>1. P \subseteq 0..N
    OBVIOUS
  <2> HIDE DEF P
  <2>2. P = 0..N
    BY <1>1, <1>2, <1>3, <2>1, Upward
  <2>3. N \in P
    BY <1>1, <2>2
  <2> QED
    BY <2>3 DEF P
<1> DEFINE iter == CHOOSE f : Solves(f, N)
<1>5. Solves(iter, N)
  <2> HIDE DEF Solves
  <2> QED
    BY <1>4
<1>6. Scan(q, request) = iter[1..N]
  BY <1>1 DEF Scan, FoldLeft, MapThenFoldSet
<1> DEFINE g == [n \in 0..N |-> iter[1..n]]
<1> HIDE DEF iter
<1>7. ASSUME NEW n \in 0..N PROVE 1..n \in SUBSET (1..N) /\ g[n] = One(iter, 1..n)
  <2>1. 1..n \in SUBSET (1..N)
    BY <1>1
  <2>2. iter[1..n] = One(iter, 1..n)
    <3> HIDE DEF One
    <3> QED
      BY <1>5, <2>1
  <2> QED
    BY <2>1, <2>2
<1>8. g[0] = NoRow
  <2>1. 0 \in 0..N /\ 1..0 = {}
    BY <1>1
  <2> HIDE DEF g
  <2> QED
    BY <1>7, <2>1
<1>9. ASSUME NEW n \in 1..N PROVE g[n] = Row(g[n - 1], q[n], request)
  <2>1. n \in 0..N /\ n - 1 \in 0..N /\ n \in Nat /\ n \in 1..n
    BY <1>1
  <2>2. Max(1..n) = n
    <3>1. Max(1..n) \in 1..n /\ \A i \in 1..n : i <= Max(1..n)
      BY <2>1, GreatestOf
    <3> DEFINE m == Max(1..n)
    <3> HIDE DEF m
    <3>2. m \in 1..n /\ n <= m
      BY <2>1, <3>1 DEF m
    <3>3. m = n
      BY <2>1, <3>2
    <3> QED
      BY <3>3 DEF m
  <2>3. (1..n) \ {n} = 1..(n - 1) /\ 1..n # {}
    <3>1. \A i : i \in (1..n) \ {n} <=> i \in 1..(n - 1)
      BY <2>1
    <3> QED
      BY <2>1, <3>1
  <2>4. g[n] = One(iter, 1..n)
    BY <1>7, <2>1
  <2>5. g[n - 1] = iter[1..(n - 1)]
    BY <2>1
  <2> HIDE DEF g
  <2>6. One(iter, 1..n) = Row(iter[(1..n) \ {Max(1..n)}], q[Max(1..n)], request)
    BY <2>3
  <2> QED
    BY <2>2, <2>3, <2>4, <2>5, <2>6
<1>10. N \in 0..N /\ g[N] = iter[1..N] /\ DOMAIN g = 0..N
  BY <1>1
<1> HIDE DEF g
<1> QED
  BY <1>6, <1>8, <1>9, <1>10 DEF Scans, N

-----------------------------------------------------------------------------
(* Changes, and what they say of a time. *)
Changes(V) == [time : Int, value : V]

LEMMA ShownEmpty == ASSUME NEW t PROVE ShownAt(t, <<>>) = Null
<1>1. DOMAIN <<>> = {}
  OBVIOUS
<1> QED
  BY <1>1 DEF ShownAt

(* One more change is what is shown from its time on. *)
LEMMA ShownNext ==
    ASSUME NEW V, NEW out \in Seq(Changes(V)), NEW c \in Changes(V), NEW t \in Int
    PROVE  /\ out \o <<c>> \in Seq(Changes(V))
           /\ ShownAt(t, out \o <<c>>) = IF c.time <= t THEN c.value ELSE ShownAt(t, out)
<1> DEFINE n == Len(out)
           next == out \o <<c>>
           Past(o) == {k \in DOMAIN o : o[k].time <= t}
<1>1. /\ n \in Nat /\ next \in Seq(Changes(V)) /\ DOMAIN out = 1..n /\ DOMAIN next = 1..(n + 1)
      /\ \A k \in 1..n : next[k] = out[k]
      /\ next[n + 1] = c
  OBVIOUS
<1> HIDE DEF n, next
<1>2. CASE c.time <= t
  <2>1. n + 1 \in Past(next) /\ Past(next) \subseteq 1..(n + 1) /\ n + 1 \in Nat
    BY <1>1, <1>2
  <2> HIDE DEF Past
  <2>2. Max(Past(next)) \in Past(next) /\ \A k \in Past(next) : k <= Max(Past(next))
    BY <2>1, GreatestOf
  <2> DEFINE m == Max(Past(next))
  <2> HIDE DEF m
  <2>3. m \in 1..(n + 1) /\ n + 1 <= m
    BY <2>1, <2>2 DEF m
  <2>4. m = n + 1
    BY <1>1, <2>3
  <2>5. Past(next) # {}
    BY <2>1
  <2>6. ShownAt(t, next) = next[m].value
    BY <2>5 DEF ShownAt, Past, m
  <2> QED
    BY <1>1, <1>2, <2>4, <2>6 DEF next
<1>3. CASE ~(c.time <= t)
  <2>1. Past(next) = Past(out)
    <3>1. \A k : k \in Past(next) <=> k \in Past(out)
      <4> SUFFICES ASSUME NEW k PROVE k \in Past(next) <=> k \in Past(out)
        OBVIOUS
      <4>1. k \in 1..(n + 1) <=> k \in 1..n \/ k = n + 1
        BY <1>1
      <4>2. k \in 1..n => next[k] = out[k]
        BY <1>1
      <4> QED
        BY <1>1, <1>3, <4>1, <4>2
    <3> HIDE DEF Past
    <3> QED
      BY <3>1
  <2>2. Past(out) # {} => next[Max(Past(out))] = out[Max(Past(out))]
    <3> SUFFICES ASSUME Past(out) # {} PROVE next[Max(Past(out))] = out[Max(Past(out))]
      OBVIOUS
    <3>1. Past(out) \subseteq 1..n
      BY <1>1
    <3> HIDE DEF Past
    <3>2. Max(Past(out)) \in Past(out)
      BY <1>1, <3>1, GreatestOf
    <3> QED
      BY <1>1, <3>1, <3>2
  <2>3. ShownAt(t, next) = ShownAt(t, out)
    BY <2>1, <2>2 DEF ShownAt, Past
  <2> QED
    BY <1>1, <1>3, <2>3 DEF next
<1> QED
  BY <1>1, <1>2, <1>3 DEF next

(* The changes are in the order of their times, and none is later than t. *)
Rising(out) == \A j, k \in DOMAIN out : j <= k => out[j].time <= out[k].time
UpTo(out, t) == Rising(out) /\ \A k \in DOMAIN out : out[k].time <= t

LEMMA RisingNext ==
    ASSUME NEW V, NEW out \in Seq(Changes(V)), NEW c \in Changes(V), UpTo(out, c.time)
    PROVE  UpTo(out \o <<c>>, c.time)
<1> DEFINE n == Len(out)
           next == out \o <<c>>
<1>1. /\ n \in Nat /\ DOMAIN out = 1..n /\ DOMAIN next = 1..(n + 1)
      /\ \A k \in 1..n : next[k] = out[k]
      /\ next[n + 1] = c
  OBVIOUS
<1>2. c.time \in Int
  BY DEF Changes
<1> HIDE DEF n, next
<1>3. ASSUME NEW k \in DOMAIN next PROVE next[k].time <= c.time
  <2>1. k \in 1..n \/ k = n + 1
    BY <1>1
  <2> QED
    BY <1>1, <1>2, <2>1 DEF UpTo
<1>4. ASSUME NEW j \in DOMAIN next, NEW k \in DOMAIN next, j <= k
      PROVE  next[j].time <= next[k].time
  <2>1. (j \in 1..n /\ k \in 1..n) \/ k = n + 1
    BY <1>1, <1>4
  <2>2. CASE k = n + 1
    BY <1>1, <1>3, <2>2
  <2>3. CASE j \in 1..n /\ k \in 1..n
    BY <1>1, <1>4, <2>3 DEF UpTo, Rising
  <2> QED
    BY <2>1, <2>2, <2>3
<1>5. UpTo(next, c.time)
  BY <1>3, <1>4 DEF UpTo, Rising
<1> QED
  BY <1>5 DEF next

LEMMA RisingLater ==
    ASSUME NEW V, NEW out \in Seq(Changes(V)), NEW t \in Int, NEW u \in Int,
           UpTo(out, t), t <= u
    PROVE  UpTo(out, u)
<1>1. ASSUME NEW k \in DOMAIN out PROVE out[k].time <= u
  <2>1. out[k] \in Changes(V)
    OBVIOUS
  <2>2. out[k].time \in Int /\ out[k].time <= t
    BY <2>1 DEF Changes, UpTo
  <2> QED
    BY <2>2
<1> QED
  BY <1>1 DEF UpTo

-----------------------------------------------------------------------------
(* What a row says of the times from its start on. *)
ValueOf(r, request) == IF IsShort(r, request) THEN TooFast ELSE r.value

(* The rows are in order, and none of them overlaps another one. *)
InOrder(q) ==
    /\ Len(q) \in Nat /\ DOMAIN q = 1..Len(q)
    /\ \A n \in 1..Len(q) : q[n].start \in Nat /\ q[n].end \in Int /\ q[n].start <= q[n].end
    /\ \A m, n \in 1..Len(q) : m < n => q[m].end <= q[n].start

(* The rows up to the n-th that say something of a time. *)
SaidOf(t, q, n) == {m \in 1..n : q[m].start <= t /\ t < q[m].end}

(* After n rows of q: what is shown of a time t before the n-th row starts is
   right for the rows before it, and from there on it is the n-th row. *)
Scanned(s, q, n, request, V, t) ==
    /\ s.out \in Seq(Changes(V))
    /\ n = 0 => s = NoRow
    /\ n > 0 =>
          /\ s.prevEnd = q[n].end /\ s.short = IsShort(q[n], request)
          /\ UpTo(s.out, q[n].start)
          /\ q[n].start <= t => ShownAt(t, s.out) = ValueOf(q[n], request)
          /\ t < q[n].start =>
                \/ SaidOf(t, q, n) = {} /\ ShownAt(t, s.out) = Null
                \/ \E m \in SaidOf(t, q, n) : ShownAt(t, s.out) = ValueOf(q[m], request)

(* The answer before its last change, up to where the n-th row ends. *)
LEMMA ScannedSays ==
    ASSUME NEW q, InOrder(q), NEW n \in 1..Len(q), NEW request, NEW V, NEW t \in Int,
           NEW s, Scanned(s, q, n, request, V, t), t < q[n].end
    PROVE  \/ SaidOf(t, q, n) = {} /\ ShownAt(t, s.out) = Null
           \/ \E m \in SaidOf(t, q, n) : ShownAt(t, s.out) = ValueOf(q[m], request)
<1>1. n > 0 /\ n \in 1..n /\ q[n].start \in Nat
  BY DEF InOrder
<1>2. CASE t < q[n].start
  BY <1>1, <1>2 DEF Scanned
<1>3. CASE q[n].start <= t
  <2>1. n \in SaidOf(t, q, n)
    BY <1>1, <1>3 DEF SaidOf
  <2> QED
    BY <1>1, <1>3, <2>1 DEF Scanned
<1> QED
  BY <1>1, <1>2, <1>3

(* Nothing is said from where the n-th row ends. *)
LEMMA NothingSaid ==
    ASSUME NEW q, InOrder(q), NEW n \in 1..Len(q), NEW t \in Int, q[n].end <= t
    PROVE  SaidOf(t, q, n) = {}
<1> SUFFICES ASSUME NEW m \in 1..n, t < q[m].end PROVE FALSE
  BY DEF SaidOf
<1>1. m \in 1..Len(q) /\ (m < n \/ m = n)
  BY DEF InOrder
<1>2. q[m].end <= q[n].end /\ q[m].end \in Int /\ q[n].end \in Int
  <2>1. /\ q[n].start \in Nat /\ q[n].end \in Int /\ q[n].start <= q[n].end
        /\ q[m].end \in Int /\ (m < n => q[m].end <= q[n].start)
    BY <1>1 DEF InOrder
  <2> QED
    BY <1>1, <2>1
<1> QED
  BY <1>2

(* A row that starts later says nothing of a time. *)
LEMMA SaidBefore ==
    ASSUME NEW q, InOrder(q), NEW n \in 0..(Len(q) - 1), NEW t \in Int, t < q[n + 1].start
    PROVE  SaidOf(t, q, n + 1) = SaidOf(t, q, n)
<1>1. n \in Nat /\ n + 1 \in 1..Len(q)
  BY DEF InOrder
<1>2. q[n + 1].start \in Nat /\ ~(q[n + 1].start <= t)
  BY <1>1 DEF InOrder
<1>3. \A m : m \in 1..(n + 1) <=> m \in 1..n \/ m = n + 1
  BY <1>1
<1> QED
  BY <1>2, <1>3 DEF SaidOf

LEMMA ScanStep ==
    ASSUME NEW q, InOrder(q), NEW n \in 0..(Len(q) - 1), NEW request, NEW t \in Int,
           NEW V, Null \in V, TooFast \in V, \A m \in 1..Len(q) : q[m].value \in V,
           NEW s, Scanned(s, q, n, request, V, t)
    PROVE  Scanned(Row(s, q[n + 1], request), q, n + 1, request, V, t)
<1> DEFINE r == q[n + 1]
           mid == s.out \o (IF Gap(s, r) THEN EndKnown(s) ELSE <<>>)
           after == Row(s, r, request)
<1>1. /\ n \in Nat /\ n + 1 \in 1..Len(q) /\ n + 1 > 0 /\ n + 1 # 0
      /\ r.start \in Nat /\ r.end \in Int /\ r.value \in V
  BY DEF InOrder
<1>2. n > 0 => /\ n \in 1..Len(q) /\ s.prevEnd = q[n].end /\ s.prevEnd \in Nat
               /\ q[n].start \in Nat /\ q[n].start <= s.prevEnd /\ s.prevEnd <= r.start
  <2> SUFFICES ASSUME n > 0
               PROVE  /\ n \in 1..Len(q) /\ s.prevEnd = q[n].end /\ s.prevEnd \in Nat
                      /\ q[n].start \in Nat /\ q[n].start <= s.prevEnd /\ s.prevEnd <= r.start
    OBVIOUS
  <2>1. n \in 1..Len(q) /\ n < n + 1
    BY <1>1
  <2>2. q[n].start \in Nat /\ q[n].end \in Int /\ q[n].start <= q[n].end /\ q[n].end <= r.start
    BY <1>1, <2>1 DEF InOrder
  <2>3. s.prevEnd = q[n].end
    BY DEF Scanned
  <2> QED
    BY <2>1, <2>2, <2>3
<1>3. n = 0 => s = NoRow /\ s.out = <<>> /\ s.prevEnd = -1 /\ s.short = FALSE
  BY DEF Scanned, NoRow
<1>4. s.out \in Seq(Changes(V))
  BY DEF Scanned
<1> HIDE DEF r
<1>5. n = 0 \/ n > 0
  BY <1>1
<1>6. Gap(s, r) => /\ n > 0 /\ EndKnown(s) = <<Change(s.prevEnd, Null)>>
                   /\ Change(s.prevEnd, Null) \in Changes(V)
  <2> SUFFICES ASSUME Gap(s, r)
               PROVE  /\ n > 0 /\ EndKnown(s) = <<Change(s.prevEnd, Null)>>
                      /\ Change(s.prevEnd, Null) \in Changes(V)
    OBVIOUS
  <2>1. n > 0
    BY <1>3, <1>5 DEF Gap
  <2>2. s.prevEnd \in Int
    BY <1>2, <2>1
  <2> QED
    BY <2>1, <2>2 DEF EndKnown, Change, Changes
<1>7. mid \in Seq(Changes(V))
  <2>1. CASE Gap(s, r)
    BY <1>4, <1>6, <2>1, ShownNext
  <2>2. CASE ~Gap(s, r)
    BY <1>4, <2>2
  <2> QED
    BY <2>1, <2>2
<1>8. ~Gap(s, r) => mid = s.out
  BY <1>4
<1>9. Gap(s, r) => ShownAt(t, mid) = IF s.prevEnd <= t THEN Null ELSE ShownAt(t, s.out)
  BY <1>4, <1>6, ShownNext DEF Change
<1>14. UpTo(mid, r.start)
  <2>1. CASE n = 0
    <3>1. mid = <<>>
      BY <1>3, <1>8, <2>1 DEF Gap
    <3>2. DOMAIN <<>> = {}
      OBVIOUS
    <3> HIDE DEF mid
    <3> QED
      BY <3>1, <3>2 DEF UpTo, Rising
  <2>2. CASE n > 0
    <3>1. UpTo(s.out, q[n].start)
      BY <2>2 DEF Scanned
    <3>2. CASE ~Gap(s, r)
      <4>1. q[n].start <= r.start
        BY <1>1, <1>2, <2>2
      <4>2. UpTo(s.out, r.start)
        BY <1>1, <1>2, <1>4, <2>2, <3>1, <4>1, RisingLater
      <4> QED
        BY <1>8, <3>2, <4>2
    <3>3. CASE Gap(s, r)
      <4> DEFINE c == Change(s.prevEnd, Null)
      <4>1. c \in Changes(V) /\ c.time = s.prevEnd /\ mid = s.out \o <<c>>
        BY <1>6, <3>3 DEF Change
      <4> HIDE DEF c, mid
      <4>2. UpTo(s.out, c.time)
        BY <1>2, <1>4, <2>2, <3>1, <4>1, RisingLater
      <4>3. UpTo(mid, s.prevEnd)
        BY <1>4, <4>1, <4>2, RisingNext
      <4>4. s.prevEnd \in Int /\ r.start \in Int /\ s.prevEnd <= r.start
        BY <1>1, <1>2, <2>2
      <4>5. mid \in Seq(Changes(V))
        BY <1>7 DEF mid
      <4>6. UpTo(mid, r.start)
        BY <4>3, <4>4, <4>5, RisingLater
      <4> QED
        BY <4>6 DEF mid
    <3> QED
      BY <3>2, <3>3
  <2> QED
    BY <1>5, <2>1, <2>2
<1> HIDE DEF mid
<1>10. ASSUME t < r.start
       PROVE  \/ SaidOf(t, q, n) = {} /\ ShownAt(t, mid) = Null
              \/ \E m \in SaidOf(t, q, n) : ShownAt(t, mid) = ValueOf(q[m], request)
  <2>1. CASE n = 0
    <3>1. ~Gap(s, r)
      BY <1>3, <2>1 DEF Gap
    <3>2. 1..n = {}
      BY <2>1
    <3>3. SaidOf(t, q, n) = {}
      BY <3>2 DEF SaidOf
    <3> QED
      BY <1>3, <1>8, <2>1, <3>1, <3>3, ShownEmpty
  <2>2. CASE n > 0 /\ t < s.prevEnd
    <3>1. ShownAt(t, mid) = ShownAt(t, s.out)
      <4>1. ~(s.prevEnd <= t)
        BY <1>2, <2>2
      <4> QED
        BY <1>8, <1>9, <4>1
    <3>2. n \in 1..Len(q) /\ t < q[n].end
      BY <1>2, <2>2
    <3> QED
      BY <3>1, <3>2, ScannedSays
  <2>3. CASE n > 0 /\ s.prevEnd <= t
    <3>1. Gap(s, r)
      BY <1>1, <1>2, <1>10, <2>3 DEF Gap
    <3>2. n \in 1..Len(q) /\ q[n].end <= t
      BY <1>2, <2>3
    <3> QED
      BY <1>9, <2>3, <3>1, <3>2, NothingSaid
  <2>4. n = 0 \/ (n > 0 /\ t < s.prevEnd) \/ (n > 0 /\ s.prevEnd <= t)
    BY <1>2, <1>5
  <2> QED
    BY <2>1, <2>2, <2>3, <2>4
<1>11. /\ after.out = mid \o Shows(s, r, request)
       /\ after.prevEnd = r.end /\ after.short = IsShort(r, request)
  BY DEF Row, mid
<1> HIDE DEF after
<1>12. CASE IsShort(r, request) /\ Series(s, r)
  <2>1. Shows(s, r, request) = <<>>
    BY <1>12 DEF Shows
  <2>2. after.out = mid /\ mid = s.out
    BY <1>7, <1>8, <1>11, <1>12, <2>1 DEF Series
  <2>3. n > 0 /\ IsShort(q[n], request)
    <3>1. s.short
      BY <1>12 DEF Series
    <3>2. n > 0
      BY <1>3, <1>5, <3>1
    <3> QED
      BY <3>1, <3>2 DEF Scanned
  <2>4. r.start <= t => ShownAt(t, after.out) = TooFast
    <3> SUFFICES ASSUME r.start <= t PROVE ShownAt(t, after.out) = TooFast
      OBVIOUS
    <3>1. q[n].start <= t
      BY <1>1, <1>2, <2>3
    <3>2. ShownAt(t, s.out) = ValueOf(q[n], request)
      BY <2>3, <3>1 DEF Scanned
    <3> QED
      BY <2>2, <2>3, <3>2 DEF ValueOf
  <2>5. r.start <= t => ShownAt(t, after.out) = ValueOf(r, request)
    BY <1>12, <2>4 DEF ValueOf
  <2>6. t < r.start => \/ SaidOf(t, q, n + 1) = {} /\ ShownAt(t, after.out) = Null
                       \/ \E m \in SaidOf(t, q, n + 1) : ShownAt(t, after.out) = ValueOf(q[m], request)
    BY <1>10, <2>2, SaidBefore DEF r
  <2> QED
    BY <1>1, <1>7, <1>11, <1>14, <2>2, <2>5, <2>6 DEF Scanned, r, after
<1>13. CASE ~(IsShort(r, request) /\ Series(s, r))
  <2> DEFINE c == Change(r.start, ValueOf(r, request))
  <2>1. Shows(s, r, request) = <<c>>
    BY <1>13 DEF Shows, ValueOf
  <2>2. c \in Changes(V) /\ c.time = r.start /\ c.value = ValueOf(r, request)
    BY <1>1 DEF Change, Changes, ValueOf
  <2>3. after.out = mid \o <<c>>
    BY <1>11, <2>1
  <2> HIDE DEF c
  <2>4. /\ after.out \in Seq(Changes(V))
        /\ ShownAt(t, after.out) = IF r.start <= t THEN ValueOf(r, request) ELSE ShownAt(t, mid)
    BY <1>7, <2>2, <2>3, ShownNext
  <2>5. t < r.start => \/ SaidOf(t, q, n + 1) = {} /\ ShownAt(t, after.out) = Null
                       \/ \E m \in SaidOf(t, q, n + 1) : ShownAt(t, after.out) = ValueOf(q[m], request)
    <3> SUFFICES ASSUME t < r.start
                 PROVE  \/ SaidOf(t, q, n + 1) = {} /\ ShownAt(t, after.out) = Null
                        \/ \E m \in SaidOf(t, q, n + 1) : ShownAt(t, after.out) = ValueOf(q[m], request)
      OBVIOUS
    <3>1. ~(r.start <= t)
      BY <1>1
    <3>2. SaidOf(t, q, n + 1) = SaidOf(t, q, n)
      BY SaidBefore DEF r
    <3> QED
      BY <1>10, <2>4, <3>1, <3>2
  <2>6. UpTo(after.out, r.start)
    BY <1>7, <1>14, <2>2, <2>3, RisingNext
  <2> QED
    BY <1>1, <1>11, <2>4, <2>5, <2>6 DEF Scanned, r, after
<1> QED
  BY <1>12, <1>13

(* What mod_logreader answers is true of the table at any time, and is all that
   the table says of the times that the request is about. *)
Asks(t, request) ==
    /\ request.start >= 0 => request.start <= t
    /\ request.end >= 0 => t < request.end

LEMMA AnswerSays ==
    ASSUME NEW table, Apart(table), NEW request, request.start \in Int, request.end \in Int,
           NEW V, Null \in V, TooFast \in V, \A r \in table : r.value \in V,
           NEW t \in Int
    PROVE  LET out == Answer(table, request)
           IN  /\ out \in Seq(Changes(V)) /\ Rising(out)
               /\ \/ ShownAt(t, out) = Null
                  \/ \E r \in table :
                        r.start <= t /\ t < r.end /\ ShownAt(t, out) = ValueOf(r, request)
               /\ Asks(t, request) => ShownAt(t, out) \in KnownAt(t, table, request)
<1> DEFINE rows == {r \in table : Selected(r, request)}
           q == Rows(table, request)
           N == Cardinality(rows)
<1>1. /\ N \in Nat /\ q \in [1..N -> rows]
      /\ \A m, n \in DOMAIN q : m < n => q[m].start < q[n].start
      /\ \A r \in rows : \E n \in DOMAIN q : q[n] = r
  BY RowsInOrder
<1>2. \A r \in rows : r \in table
  OBVIOUS
<1> HIDE DEF q, N, rows
<1>3. DOMAIN q = 1..N /\ Len(q) = N
  BY <1>1
<1>4. \A n \in 1..N : q[n] \in table /\ q[n] \in rows
  BY <1>1, <1>2
<1>5. InOrder(q)
  <2>1. \A n \in 1..N : q[n].start \in Nat /\ q[n].end \in Int /\ q[n].start <= q[n].end
    BY <1>4 DEF Apart
  <2>2. ASSUME NEW m \in 1..N, NEW n \in 1..N, m < n PROVE q[m].end <= q[n].start
    <3>1. q[m].start < q[n].start
      BY <1>1, <1>3, <2>2
    <3>2. q[m] # q[n]
      BY <2>1, <3>1
    <3>3. q[m].end <= q[n].start \/ q[n].end <= q[m].start
      BY <1>4, <3>2 DEF Apart
    <3> QED
      BY <2>1, <3>1, <3>3
  <2> QED
    BY <1>1, <1>3, <2>1, <2>2 DEF InOrder
<1>6. PICK g : Scans(g, q, request) /\ Scan(q, request) = g[N]
  BY <1>1, <1>3, RowByRow
<1> DEFINE P == {n \in 0..N : Scanned(g[n], q, n, request, V, t)}
<1>7. P = 0..N
  <2>1. 0 \in P
    <3>1. g[0] = NoRow
      BY <1>6 DEF Scans
    <3>2. Scanned(NoRow, q, 0, request, V, t)
      BY DEF Scanned, NoRow
    <3> QED
      BY <1>1, <3>1, <3>2
  <2>2. ASSUME NEW k \in 0..(N - 1), k \in P PROVE k + 1 \in P
    <3>1. k + 1 \in 1..N /\ (k + 1) - 1 = k /\ k + 1 \in 0..N
      BY <1>1
    <3>2. g[k + 1] = Row(g[k], q[k + 1], request)
      BY <1>3, <1>6, <3>1 DEF Scans
    <3>3. \A m \in 1..Len(q) : q[m].value \in V
      BY <1>3, <1>4
    <3>4. Scanned(g[k], q, k, request, V, t) /\ k \in 0..(Len(q) - 1)
      BY <1>3, <2>2
    <3>5. Scanned(g[k + 1], q, k + 1, request, V, t)
      BY <1>5, <3>2, <3>3, <3>4, ScanStep
    <3> QED
      BY <3>1, <3>5
  <2> HIDE DEF P
  <2>3. P \subseteq 0..N
    BY DEF P
  <2> QED
    BY <1>1, <2>1, <2>2, <2>3, Upward
<1> DEFINE last == g[N]
<1>8. Scanned(last, q, N, request, V, t)
  <2>1. N \in P
    <3> HIDE DEF P
    <3> QED
      BY <1>1, <1>7
  <2> QED
    BY <2>1
<1>9. Answer(table, request) = IF last.prevEnd # -1 THEN last.out \o EndKnown(last) ELSE last.out
  BY <1>6 DEF Answer, Scan, q
<1> HIDE DEF last
<1> DEFINE out == Answer(table, request)
(* The rows that say something of t are in the answer. *)
<1>10. Asks(t, request) => \A r \in table : r.start <= t /\ t < r.end => \E m \in SaidOf(t, q, N) : q[m] = r
  <2> SUFFICES ASSUME Asks(t, request), NEW r \in table, r.start <= t, t < r.end
               PROVE  \E m \in SaidOf(t, q, N) : q[m] = r
    OBVIOUS
  <2>1. r.start \in Nat /\ r.end \in Int
    BY DEF Apart
  <2>2. Selected(r, request)
    BY <2>1 DEF Selected, Asks
  <2>3. r \in rows
    BY <2>2 DEF rows
  <2> QED
    BY <1>1, <1>3, <2>3 DEF SaidOf
<1>11. /\ out \in Seq(Changes(V)) /\ Rising(out)
       /\ \/ SaidOf(t, q, N) = {} /\ ShownAt(t, out) = Null
          \/ \E m \in SaidOf(t, q, N) : ShownAt(t, out) = ValueOf(q[m], request)
  <2>1. CASE N = 0
    <3>1. last = NoRow
      BY <1>8, <2>1 DEF Scanned
    <3>2. out = <<>>
      BY <1>9, <3>1 DEF NoRow
    <3>3. SaidOf(t, q, N) = {}
      BY <2>1 DEF SaidOf
    <3>4. Rising(<<>>)
      <4>1. DOMAIN <<>> = {}
        OBVIOUS
      <4> QED
        BY <4>1 DEF Rising
    <3> QED
      BY <3>2, <3>3, <3>4, ShownEmpty
  <2>2. CASE N > 0
    <3> DEFINE c == Change(last.prevEnd, Null)
    <3>1. N \in 1..Len(q) /\ N > 0
      BY <1>1, <1>3, <2>2
    <3>2. last.prevEnd = q[N].end /\ last.out \in Seq(Changes(V))
      BY <1>8, <3>1 DEF Scanned
    <3>3. q[N].end \in Int /\ q[N].end # -1
      <4>1. q[N].start \in Nat /\ q[N].end \in Int /\ q[N].start <= q[N].end
        BY <1>5, <3>1 DEF InOrder
      <4> QED
        BY <4>1
    <3>4. out = last.out \o <<c>> /\ c \in Changes(V) /\ c.time = q[N].end /\ c.value = Null
      BY <1>9, <3>2, <3>3 DEF EndKnown, Change, Changes
    <3> HIDE DEF c, out
    <3>8. Rising(out)
      <4>1. UpTo(last.out, q[N].start) /\ q[N].start \in Int /\ q[N].start <= q[N].end
        BY <1>5, <1>8, <3>1 DEF Scanned, InOrder
      <4>2. UpTo(last.out, c.time)
        BY <3>2, <3>3, <3>4, <4>1, RisingLater
      <4> QED
        BY <3>2, <3>4, <4>2, RisingNext DEF UpTo
    <3>5. /\ out \in Seq(Changes(V))
          /\ ShownAt(t, out) = IF q[N].end <= t THEN Null ELSE ShownAt(t, last.out)
      BY <3>2, <3>4, ShownNext
    <3>6. CASE q[N].end <= t
      BY <1>5, <3>1, <3>5, <3>6, <3>8, NothingSaid
    <3>7. CASE t < q[N].end
      <4>1. ~(q[N].end <= t)
        BY <3>3, <3>7
      <4>2. \/ SaidOf(t, q, N) = {} /\ ShownAt(t, last.out) = Null
            \/ \E m \in SaidOf(t, q, N) : ShownAt(t, last.out) = ValueOf(q[m], request)
        <5>1. InOrder(q) /\ N \in 1..Len(q) /\ Scanned(last, q, N, request, V, t) /\ t < q[N].end
          BY <1>5, <1>8, <3>1, <3>7
        <5> HIDE DEF last, c
        <5> QED
          BY <5>1, ScannedSays
      <4> QED
        BY <3>5, <3>8, <4>1, <4>2
    <3> QED
      BY <3>3, <3>6, <3>7
  <2> QED
    BY <1>1, <2>1, <2>2
<1> HIDE DEF out
<1> DEFINE known == {r \in table : r.start <= t /\ t < r.end}
<1>12. CASE SaidOf(t, q, N) = {} /\ ShownAt(t, out) = Null
  <2>1. Asks(t, request) => known = {}
    BY <1>10, <1>12
  <2> QED
    BY <1>11, <1>12, <2>1 DEF KnownAt, out
<1>13. CASE \E m \in SaidOf(t, q, N) : ShownAt(t, out) = ValueOf(q[m], request)
  <2>1. PICK m \in SaidOf(t, q, N) : ShownAt(t, out) = ValueOf(q[m], request)
    BY <1>13
  <2>2. q[m] \in known
    BY <1>4, <2>1 DEF SaidOf
  <2>3. KnownAt(t, table, request) = {ValueOf(r, request) : r \in known}
    BY <2>2 DEF KnownAt, ValueOf
  <2>4. q[m] \in table /\ q[m].start <= t /\ t < q[m].end
    BY <2>2
  <2> HIDE DEF known
  <2> QED
    BY <1>11, <2>1, <2>2, <2>3, <2>4 DEF out
<1> QED
  BY <1>11, <1>12, <1>13 DEF out
=============================================================================
