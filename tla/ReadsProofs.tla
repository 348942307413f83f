---------------------------- MODULE ReadsProofs ----------------------------
(***************************************************************************)
(* Proofs about Reads and the QueryCache in it, for any threads, queries,   *)
(* result sizes and limits: the books of the cache balance, only production *)
(* results are cached, the budget of cursors is counted, and a request      *)
(* reads its own writes.                                                    *)
(*                                                                          *)
(* The sizes of the cache are sums over sequences.  Induction comes from    *)
(* the least element of a set of natural numbers (WFMin), and that the      *)
(* recursive functions of QueryCache have their equations from Recursion.   *)
(***************************************************************************)
EXTENDS Reads, SequenceTheorems, FiniteSetTheorems, WellFoundedInduction, TLAPS

-----------------------------------------------------------------------------
(* Induction and recursion over the first natural numbers. *)

\* A non-empty set of natural numbers has a least element.
LEMMA LeastNatural ==
  ASSUME NEW T \in SUBSET Nat, T # {}
  PROVE  \E n \in T : \A m \in T : n <= m
<1>1. IsWellFoundedOn({ss \in Nat \X Nat : ss[1] < ss[2]}, Nat)
  BY NatLessThanWellFounded DEF OpToRel
<1>2. PICK n \in T : \A m \in T : ~ (<<m, n>> \in {ss \in Nat \X Nat : ss[1] < ss[2]})
  BY <1>1, WFMin, Zenon
<1>3. ASSUME NEW m \in T PROVE n <= m
  <2>1. <<m, n>> \in Nat \X Nat /\ <<m, n>>[1] = m /\ <<m, n>>[2] = n
    OBVIOUS
  <2>2. ~ (m < n)
    BY <1>2, <2>1
  <2> QED
    BY <2>2
<1> QED
  BY <1>3

\* Induction: what holds of 0, and of n if it holds of n - 1, fails nowhere.
LEMMA Induction ==
  ASSUME NEW N \in Nat, NEW Fails \in SUBSET (0..N), 0 \notin Fails,
         \A n \in 1..N : n - 1 \notin Fails => n \notin Fails
  PROVE  Fails = {}
<1> SUFFICES ASSUME Fails # {} PROVE FALSE
  OBVIOUS
<1>1. Fails \in SUBSET Nat
  OBVIOUS
<1>2. PICK k \in Fails : \A m \in Fails : k <= m
  BY <1>1, LeastNatural
<1>3. k \in 1..N /\ ~ (k <= k - 1)
  BY <1>2
<1> QED
  BY <1>2, <1>3

\* f starts with x and goes on with g.
Recurs(f, k, x, g) == f[0] = x /\ \A n \in 1..k : f[n] = g[n, f[n - 1]]

\* There is such a function.
LEMMA Recursion ==
  ASSUME NEW S, NEW N \in Nat, NEW x \in S, NEW g \in [(1..N) \X S -> S]
  PROVE  \E f \in [0..N -> S] : Recurs(f, N, x, g)
<1> DEFINE Upto(k) == \E f \in [0..k -> S] : Recurs(f, k, x, g)
           Fails == {k \in 0..N : ~ Upto(k)}
<1>1. Upto(0)
  <2>1. [i \in 0..0 |-> x] \in [0..0 -> S]
    OBVIOUS
  <2>2. Recurs([i \in 0..0 |-> x], 0, x, g)
    BY DEF Recurs
  <2> QED
    BY <2>1, <2>2
<1>2. ASSUME NEW k \in 1..N, Upto(k - 1) PROVE Upto(k)
  <2>1. PICK f \in [0..(k - 1) -> S] : Recurs(f, k - 1, x, g)
    BY <1>2, Zenon
  <2> DEFINE y == g[k, f[k - 1]]
             h == [i \in 0..k |-> IF i = k THEN y ELSE f[i]]
  <2>2. k \in Nat /\ k > 0 /\ f[k - 1] \in S /\ 0 \in 0..(k - 1)
    BY <2>1
  <2>3. y \in S
    BY <2>2
  <2> HIDE DEF y
  <2>4. h \in [0..k -> S]
    BY <2>1, <2>2, <2>3
  <2>5. \A i \in 0..(k - 1) : h[i] = f[i]
    BY <2>2
  <2>6. h[k] = y
    BY <2>2
  <2> HIDE DEF h
  <2>7. h[0] = x
    <3>1. f[0] = x
      BY <2>1 DEF Recurs
    <3> QED
      BY <2>2, <2>5, <3>1
  <2>8. \A n \in 1..k : h[n] = g[n, h[n - 1]]
    <3> TAKE n \in 1..k
    <3>1. n - 1 \in 0..(k - 1) /\ h[n - 1] = f[n - 1]
      BY <2>2, <2>5
    <3>2. CASE n = k
      BY <2>6, <3>1, <3>2 DEF y
    <3>3. CASE n # k
      <4>1. n \in 1..(k - 1) /\ n \in 0..(k - 1)
        BY <2>2, <3>3
      <4> QED
        BY <2>1, <2>5, <3>1, <4>1 DEF Recurs
    <3> QED
      BY <3>2, <3>3
  <2> QED
    BY <2>4, <2>7, <2>8, Zenon DEF Recurs
<1> HIDE DEF Upto
<1>3. \A n \in 1..N : n - 1 \notin Fails => n \notin Fails
  <2> TAKE n \in 1..N
  <2>1. n - 1 \in 0..N
    OBVIOUS
  <2> QED
    BY <1>2, <2>1
<1>4. 0 \notin Fails /\ Fails \in SUBSET (0..N)
  BY <1>1
<1>5. Fails = {}
  <2> HIDE DEF Fails
  <2> QED
    BY <1>3, <1>4, Induction
<1>6. Upto(N)
  BY <1>5
<1> QED
  BY <1>6 DEF Upto

-----------------------------------------------------------------------------
(* The size of a sequence of entries. *)

\* Entries of which each has a size.
Sized(S) == \A e \in S : e.bytes \in Nat

\* The sums of the sizes of the first entries.
Sums(f, s) ==
  /\ f \in [0..Len(s) -> Nat]
  /\ f[0] = 0
  /\ \A n \in 1..Len(s) : f[n] = f[n - 1] + s[n].bytes

\* The recursive function in SizeOf is these sums.
LEMMA SizeIsSum ==
  ASSUME NEW S, Sized(S), NEW s \in Seq(S)
  PROVE  \E f : Sums(f, s) /\ SizeOf(s) = f[Len(s)]
<1> DEFINE g == [p \in (1..Len(s)) \X Nat |-> p[2] + s[p[1]].bytes]
<1>1. Len(s) \in Nat /\ \A n \in 1..Len(s) : s[n].bytes \in Nat
  BY DEF Sized
<1>2. g \in [(1..Len(s)) \X Nat -> Nat]
  BY <1>1
<1>3. PICK f \in [0..Len(s) -> Nat] : Recurs(f, Len(s), 0, g)
  <2> HIDE DEF g
  <2> QED
    BY <1>1, <1>2, Recursion
<1>4. f[0] = 0 /\ \A n \in 1..Len(s) : f[n] = f[n - 1] + s[n].bytes
  <2>1. \A n \in 1..Len(s) : g[n, f[n - 1]] = f[n - 1] + s[n].bytes
    <3> TAKE n \in 1..Len(s)
    <3>1. n - 1 \in 0..Len(s)
      BY <1>1
    <3>2. <<n, f[n - 1]>> \in (1..Len(s)) \X Nat
      BY <3>1
    <3> QED
      BY <3>2
  <2> HIDE DEF g
  <2> QED
    BY <1>3, <2>1 DEF Recurs
<1> HIDE DEF g
<1> DEFINE P(h) == h = [n \in 0..Len(s) |-> IF n = 0 THEN 0 ELSE h[n - 1] + s[n].bytes]
           sum == CHOOSE h : P(h)
<1>5. P(f)
  BY <1>1, <1>3, <1>4
<1>6. P(sum)
  <2> HIDE DEF P
  <2> QED
    BY <1>5, Zenon
<1>7. SizeOf(s) = sum[Len(s)]
  BY Zenon DEF SizeOf
<1> HIDE DEF sum
<1>8. sum[0] = 0 /\ DOMAIN sum = 0..Len(s)
  BY <1>1, <1>6
<1>9. \A n \in 1..Len(s) : sum[n] = sum[n - 1] + s[n].bytes
  <2> TAKE n \in 1..Len(s)
  <2>1. n \in 0..Len(s) /\ n # 0
    BY <1>1
  <2> QED
    BY <1>6, <2>1
<1> HIDE DEF P
<1> DEFINE Fails == {n \in 0..Len(s) : sum[n] # f[n]}
<1>10. Fails = {}
  <2>1. \A n \in 1..Len(s) : n - 1 \notin Fails => n \notin Fails
    BY <1>1, <1>4, <1>9
  <2>2. 0 \notin Fails /\ Fails \in SUBSET (0..Len(s))
    BY <1>4, <1>8
  <2> HIDE DEF Fails
  <2> QED
    BY <1>1, <2>1, <2>2, Induction
<1>11. SizeOf(s) = f[Len(s)]
  BY <1>1, <1>7, <1>10
<1> QED
  BY <1>3, <1>4, <1>11 DEF Sums

\* A size is a natural number, of nothing 0, of one entry its own.
LEMMA SizeBasics ==
  ASSUME NEW S, Sized(S)
  PROVE  /\ \A s \in Seq(S) : SizeOf(s) \in Nat
         /\ SizeOf(<<>>) = 0
         /\ \A e \in S : SizeOf(<<e>>) = e.bytes
<1>1. ASSUME NEW s \in Seq(S) PROVE SizeOf(s) \in Nat
  <2>1. PICK f : Sums(f, s) /\ SizeOf(s) = f[Len(s)]
    BY SizeIsSum
  <2> QED
    BY <2>1 DEF Sums
<1>2. SizeOf(<<>>) = 0
  <2>1. <<>> \in Seq(S) /\ Len(<<>>) = 0
    BY EmptySeq
  <2>2. PICK f : Sums(f, <<>>) /\ SizeOf(<<>>) = f[Len(<<>>)]
    BY <2>1, SizeIsSum
  <2> QED
    BY <2>1, <2>2 DEF Sums
<1>3. ASSUME NEW e \in S PROVE SizeOf(<<e>>) = e.bytes
  <2>1. <<e>> \in Seq(S) /\ Len(<<e>>) = 1 /\ <<e>>[1] = e
    OBVIOUS
  <2>2. PICK f : Sums(f, <<e>>) /\ SizeOf(<<e>>) = f[Len(<<e>>)]
    BY <2>1, SizeIsSum
  <2>3. f[0] = 0 /\ f[1] = f[0] + e.bytes
    BY <2>1, <2>2 DEF Sums
  <2> QED
    BY <2>1, <2>2, <2>3 DEF Sized
<1> QED
  BY <1>1, <1>2, <1>3

\* The size of two sequences is the sum of theirs.
LEMMA SizeConcat ==
  ASSUME NEW S, Sized(S), NEW s \in Seq(S), NEW u \in Seq(S)
  PROVE  SizeOf(s \o u) = SizeOf(s) + SizeOf(u)
<1>1. /\ s \o u \in Seq(S) /\ Len(s) \in Nat /\ Len(u) \in Nat /\ Len(s \o u) = Len(s) + Len(u)
      /\ \A i \in 1..Len(s) : (s \o u)[i] = s[i] /\ i \in 1..Len(s \o u)
      /\ \A i \in 1..Len(u) : (s \o u)[Len(s) + i] = u[i] /\ Len(s) + i \in 1..Len(s \o u)
  BY ConcatProperties, LenProperties
<1>2. PICK f : Sums(f, s) /\ SizeOf(s) = f[Len(s)]
  BY SizeIsSum
<1>3. PICK g : Sums(g, u) /\ SizeOf(u) = g[Len(u)]
  BY SizeIsSum
<1>4. PICK h : Sums(h, s \o u) /\ SizeOf(s \o u) = h[Len(s \o u)]
  BY <1>1, SizeIsSum
<1>5. /\ f[0] = 0 /\ h[0] = 0
      /\ \A n \in 1..Len(s) : f[n] = f[n - 1] + s[n].bytes /\ h[n] = h[n - 1] + s[n].bytes
  BY <1>1, <1>2, <1>4 DEF Sums
<1>6. \A n \in 0..Len(s) : h[n] = f[n]
  <2> DEFINE Fails == {n \in 0..Len(s) : h[n] # f[n]}
  <2>1. \A n \in 1..Len(s) : n - 1 \notin Fails => n \notin Fails
    BY <1>1, <1>5
  <2>2. 0 \notin Fails /\ Fails \in SUBSET (0..Len(s))
    BY <1>5
  <2>3. Fails = {}
    <3> HIDE DEF Fails
    <3> QED
      BY <1>1, <2>1, <2>2, Induction
  <2> QED
    BY <2>3
<1>7. /\ g[0] = 0 /\ f[Len(s)] \in Nat /\ \A n \in 0..Len(u) : g[n] \in Nat
      /\ \A n \in 1..Len(u) : u[n].bytes \in Nat /\ g[n] = g[n - 1] + u[n].bytes
  <2>1. f[Len(s)] \in Nat
    BY <1>1, <1>2 DEF Sums
  <2>2. \A n \in 1..Len(u) : u[n] \in S
    OBVIOUS
  <2> QED
    BY <1>3, <2>1, <2>2 DEF Sums, Sized
<1>8. \A n \in 1..Len(u) : h[Len(s) + n] = h[Len(s) + (n - 1)] + u[n].bytes
  <2> TAKE n \in 1..Len(u)
  <2>1. h[Len(s) + n] = h[Len(s) + n - 1] + (s \o u)[Len(s) + n].bytes
    BY <1>1, <1>4 DEF Sums
  <2>2. Len(s) + n - 1 = Len(s) + (n - 1)
    BY <1>1
  <2> QED
    BY <1>1, <2>1, <2>2
<1>9. \A n \in 0..Len(u) : h[Len(s) + n] = f[Len(s)] + g[n]
  <2> DEFINE Fails == {n \in 0..Len(u) : h[Len(s) + n] # f[Len(s)] + g[n]}
  <2>1. \A n \in 1..Len(u) : n - 1 \notin Fails => n \notin Fails
    <3> TAKE n \in 1..Len(u)
    <3> HAVE n - 1 \notin Fails
    <3>1. n - 1 \in 0..Len(u) /\ n \in 0..Len(u)
      BY <1>1
    <3>2. h[Len(s) + (n - 1)] = f[Len(s)] + g[n - 1]
      BY <3>1
    <3>3. h[Len(s) + n] = f[Len(s)] + g[n - 1] + u[n].bytes
      BY <1>8, <3>2
    <3>4. h[Len(s) + n] = f[Len(s)] + g[n]
      BY <1>7, <3>1, <3>3
    <3> QED
      BY <3>4
  <2>2. 0 \notin Fails /\ Fails \in SUBSET (0..Len(u))
    BY <1>1, <1>6, <1>7
  <2>3. Fails = {}
    <3> HIDE DEF Fails
    <3> QED
      BY <1>1, <2>1, <2>2, Induction
  <2> QED
    BY <2>3
<1> QED
  BY <1>1, <1>2, <1>3, <1>4, <1>9

-----------------------------------------------------------------------------
(* The operations of the cache. *)

\* No data source and key are held twice.
Distinct(s) ==
  \A i, j \in DOMAIN s : s[i].src = s[j].src /\ s[i].key = s[j].key => i = j

\* A cache of entries of S whose total is the size of what it holds.
Balanced(q, S) ==
  /\ q \in [entries : Seq(S), total : Nat]
  /\ q.total = SizeOf(q.entries)
  /\ Distinct(q.entries)

\* An entry in front of others.
LEMMA InFront ==
  ASSUME NEW S, Sized(S), NEW e \in S, NEW s \in Seq(S)
  PROVE  /\ <<e>> \o s \in Seq(S) /\ Len(s) \in Nat /\ Len(<<e>> \o s) = Len(s) + 1
         /\ DOMAIN s = 1..Len(s) /\ DOMAIN (<<e>> \o s) = 1..(Len(s) + 1)
         /\ \A i \in 1..(Len(s) + 1) : (<<e>> \o s)[i] = IF i = 1 THEN e ELSE s[i - 1]
         /\ SizeOf(<<e>> \o s) = e.bytes + SizeOf(s)
<1>1. <<e>> \in Seq(S) /\ Len(<<e>>) = 1 /\ <<e>>[1] = e
  OBVIOUS
<1>2. SizeOf(<<e>> \o s) = e.bytes + SizeOf(s)
  BY <1>1, SizeConcat, SizeBasics
<1>3. /\ <<e>> \o s \in Seq(S) /\ Len(<<e>> \o s) = 1 + Len(s)
      /\ \A i \in 1..(1 + Len(s)) :
           (<<e>> \o s)[i] = IF i <= 1 THEN <<e>>[i] ELSE s[i - 1]
  BY <1>1, ConcatProperties
<1>4. Len(s) \in Nat /\ DOMAIN s = 1..Len(s)
  BY LenProperties
<1>5. DOMAIN (<<e>> \o s) = 1..Len(<<e>> \o s)
  BY <1>3, LenProperties
<1>6. \A i \in 1..(Len(s) + 1) : (<<e>> \o s)[i] = IF i = 1 THEN e ELSE s[i - 1]
  BY <1>1, <1>3, <1>4
<1> QED
  BY <1>2, <1>3, <1>4, <1>5, <1>6

\* A sequence is a first and a last part.
LEMMA Parts ==
  ASSUME NEW S, Sized(S), NEW s \in Seq(S), NEW n \in 0..Len(s)
  PROVE  /\ SubSeq(s, 1, n) \in Seq(S) /\ Len(SubSeq(s, 1, n)) = n
         /\ DOMAIN SubSeq(s, 1, n) = 1..n /\ DOMAIN s = 1..Len(s) /\ Len(s) \in Nat
         /\ \A i \in 1..n : SubSeq(s, 1, n)[i] = s[i]
         /\ SubSeq(s, n + 1, Len(s)) \in Seq(S)
         /\ Len(SubSeq(s, n + 1, Len(s))) = Len(s) - n
         /\ \A i \in 1..(Len(s) - n) : SubSeq(s, n + 1, Len(s))[i] = s[n + i]
         /\ SizeOf(s) = SizeOf(SubSeq(s, 1, n)) + SizeOf(SubSeq(s, n + 1, Len(s)))
<1>1. Len(s) \in Nat /\ DOMAIN s = 1..Len(s) /\ n \in Nat /\ n <= Len(s)
  BY LenProperties
<1>2. \A i \in 1..n : i \in 1..Len(s)
  BY <1>1
<1>3. \A i \in (n + 1)..Len(s) : i \in 1..Len(s)
  BY <1>1
<1>4. /\ SubSeq(s, 1, n) \in Seq(S) /\ Len(SubSeq(s, 1, n)) = IF 1 <= n THEN n - 1 + 1 ELSE 0
      /\ \A i \in 1..(n - 1 + 1) : SubSeq(s, 1, n)[i] = s[1 + i - 1]
  BY <1>1, <1>2, SubSeqProperties
<1>5. /\ SubSeq(s, n + 1, Len(s)) \in Seq(S)
      /\ Len(SubSeq(s, n + 1, Len(s))) = IF n + 1 <= Len(s) THEN Len(s) - (n + 1) + 1 ELSE 0
      /\ \A i \in 1..(Len(s) - (n + 1) + 1) : SubSeq(s, n + 1, Len(s))[i] = s[n + 1 + i - 1]
  BY <1>1, <1>3, SubSeqProperties
<1>6. DOMAIN SubSeq(s, 1, n) = 1..Len(SubSeq(s, 1, n))
  BY <1>4, LenProperties
<1>7. SubSeq(s, 1, n) \o SubSeq(s, n + 1, Len(s)) = s
  <2>1. SubSeq(s, 1, n) \o SubSeq(s, n + 1, Len(s)) = SubSeq(s, 1, Len(s))
    <3>1. 1 \in 1..(Len(s) + 1) /\ n \in (1 - 1)..Len(s) /\ Len(s) \in n..Len(s)
      BY <1>1
    <3> QED
      BY <3>1, ConcatAdjacentSubSeq, Zenon
  <2> QED
    BY <2>1, SubSeqFull
<1>8. SizeOf(s) = SizeOf(SubSeq(s, 1, n)) + SizeOf(SubSeq(s, n + 1, Len(s)))
  <2>1. SizeOf(SubSeq(s, 1, n) \o SubSeq(s, n + 1, Len(s)))
          = SizeOf(SubSeq(s, 1, n)) + SizeOf(SubSeq(s, n + 1, Len(s)))
    BY <1>4, <1>5, SizeConcat
  <2> QED
    BY <1>7, <2>1
<1>9. /\ Len(SubSeq(s, 1, n)) = n /\ \A i \in 1..n : SubSeq(s, 1, n)[i] = s[i]
  BY <1>1, <1>4
<1>10. /\ Len(SubSeq(s, n + 1, Len(s))) = Len(s) - n
       /\ \A i \in 1..(Len(s) - n) : SubSeq(s, n + 1, Len(s))[i] = s[n + i]
  <2> DEFINE b == SubSeq(s, n + 1, Len(s))
             l == Len(s)
  <2>1. /\ Len(b) = IF n + 1 <= l THEN l - (n + 1) + 1 ELSE 0
        /\ \A i \in 1..(l - (n + 1) + 1) : b[i] = s[n + 1 + i - 1]
        /\ l \in Nat /\ n \in Nat /\ n <= l
    BY <1>1, <1>5
  <2> HIDE DEF b, l
  <2>2. l - (n + 1) + 1 = l - n /\ \A i \in 1..(l - n) : n + 1 + i - 1 = n + i
    BY <2>1
  <2>3. Len(b) = l - n
    BY <2>1
  <2>4. \A i \in 1..(l - n) : b[i] = s[n + i]
    BY <2>1, <2>2
  <2> QED
    BY <2>3, <2>4 DEF b, l
<1> QED
  BY <1>1, <1>4, <1>5, <1>6, <1>8, <1>9, <1>10

\* An entry is taken out.
LEMMA TakenOut ==
  ASSUME NEW S, Sized(S), NEW s \in Seq(S), NEW i \in DOMAIN s
  PROVE  /\ RemoveAt(s, i) \in Seq(S) /\ Len(s) \in Nat /\ Len(RemoveAt(s, i)) = Len(s) - 1
         /\ DOMAIN s = 1..Len(s) /\ DOMAIN RemoveAt(s, i) = 1..(Len(s) - 1)
         /\ \A j \in 1..(Len(s) - 1) : RemoveAt(s, i)[j] = s[IF j < i THEN j ELSE j + 1]
         /\ s[i] \in S /\ s[i].bytes \in Nat
         /\ SizeOf(s) = s[i].bytes + SizeOf(RemoveAt(s, i))
<1> DEFINE a == SubSeq(s, 1, i - 1)
           b == SubSeq(s, i + 1, Len(s))
<1>1. Len(s) \in Nat /\ DOMAIN s = 1..Len(s) /\ i \in Nat /\ i >= 1 /\ i <= Len(s)
      /\ s[i] \in S /\ s[i].bytes \in Nat
  BY LenProperties DEF Sized
<1>2. i - 1 \in 0..Len(s) /\ i \in 0..Len(s) /\ i - 1 + 1 = i
  BY <1>1
<1>3. /\ a \in Seq(S) /\ Len(a) = i - 1 /\ \A j \in 1..(i - 1) : a[j] = s[j]
      /\ SizeOf(s) = SizeOf(a) + SizeOf(SubSeq(s, i, Len(s)))
  <2>1. /\ a \in Seq(S) /\ Len(a) = i - 1 /\ \A j \in 1..(i - 1) : a[j] = s[j]
        /\ SizeOf(s) = SizeOf(a) + SizeOf(SubSeq(s, i - 1 + 1, Len(s)))
    BY <1>2, Parts
  <2> QED
    BY <1>2, <2>1
<1>4. b \in Seq(S) /\ Len(b) = Len(s) - i /\ \A j \in 1..(Len(s) - i) : b[j] = s[i + j]
  BY <1>2, Parts
<1>5. SizeOf(SubSeq(s, i, Len(s))) = s[i].bytes + SizeOf(b)
  <2>1. SubSeq(s, i, Len(s)) = <<s[i]>> \o b
    <3>1. i \in 1..Len(s) /\ Len(s) \in i..Len(s)
      BY <1>1
    <3> QED
      BY <3>1, SubSeqRecursiveFirst, Zenon
  <2> HIDE DEF b
  <2> QED
    BY <1>1, <1>4, <2>1, InFront
<1>6. RemoveAt(s, i) = a \o b
  BY DEF RemoveAt
<1> HIDE DEF a, b
<1>7. /\ a \o b \in Seq(S) /\ Len(a \o b) = Len(a) + Len(b)
      /\ \A j \in 1..(Len(a) + Len(b)) : (a \o b)[j] = IF j <= Len(a) THEN a[j] ELSE b[j - Len(a)]
  BY <1>3, <1>4, ConcatProperties
<1>8. SizeOf(a \o b) = SizeOf(a) + SizeOf(b) /\ SizeOf(a) \in Nat /\ SizeOf(b) \in Nat
  BY <1>3, <1>4, SizeConcat, SizeBasics
<1>9. SizeOf(s) = s[i].bytes + SizeOf(a \o b)
  BY <1>1, <1>3, <1>5, <1>8
<1>10. Len(a) + Len(b) = Len(s) - 1
  BY <1>1, <1>3, <1>4
<1>11. \A j \in 1..(Len(s) - 1) : (a \o b)[j] = s[IF j < i THEN j ELSE j + 1]
  <2> TAKE j \in 1..(Len(s) - 1)
  <2>1. CASE j < i
    BY <1>1, <1>3, <1>7, <1>10, <2>1
  <2>2. CASE ~ j < i
    <3>1. j - (i - 1) \in 1..(Len(s) - i) /\ i + (j - (i - 1)) = j + 1 /\ ~ (j <= Len(a))
      BY <1>1, <1>3, <2>2
    <3> QED
      BY <1>3, <1>4, <1>7, <1>10, <2>2, <3>1
  <2> QED
    BY <2>1, <2>2
<1>12. DOMAIN (a \o b) = 1..Len(a \o b)
  BY <1>7, LenProperties
<1> QED
  BY <1>1, <1>6, <1>7, <1>9, <1>10, <1>11, <1>12

\* What find returns is an entry for the data source and the key.
LEMMA FoundThere ==
  ASSUME NEW q, NEW src, NEW key, Hit(q, src, key)
  PROVE  /\ Found(q, src, key) \in DOMAIN q.entries
         /\ Entry(q, src, key) = q.entries[Found(q, src, key)]
         /\ Entry(q, src, key).src = src /\ Entry(q, src, key).key = key
<1>1. Found(q, src, key) \in Position(q, src, key)
  BY Zenon DEF Hit, Found
<1> QED
  BY <1>1 DEF Position, Entry

\* What is smaller has room where the larger had.
LEMMA RoomForLess ==
  ASSUME NEW n \in Nat, NEW b \in Nat, Room(n, b, 0), NEW m \in Nat, m <= n, NEW c \in Nat, c <= b
  PROVE  Room(m, c, 0)
  BY CacheAssumption DEF Room

\* An entry that replaces one of its data source and key, in front.
LEMMA MovedToFront ==
  ASSUME NEW S, Sized(S), NEW s \in Seq(S), Distinct(s), NEW i \in DOMAIN s,
         NEW e \in S, e.src = s[i].src, e.key = s[i].key
  PROVE  Distinct(<<e>> \o RemoveAt(s, i))
<1> DEFINE r == RemoveAt(s, i)
           t == <<e>> \o r
<1>1. /\ r \in Seq(S) /\ Len(s) \in Nat /\ Len(r) = Len(s) - 1
      /\ DOMAIN s = 1..Len(s) /\ DOMAIN r = 1..(Len(s) - 1)
      /\ \A j \in 1..(Len(s) - 1) : r[j] = s[IF j < i THEN j ELSE j + 1]
  BY TakenOut
<1> HIDE DEF r
<1>2. /\ DOMAIN t = 1..(Len(r) + 1)
      /\ \A j \in 1..(Len(r) + 1) : t[j] = IF j = 1 THEN e ELSE r[j - 1]
  BY <1>1, InFront
<1> HIDE DEF t
<1> DEFINE from == [j \in 1..Len(s) |-> IF j = 1 THEN i ELSE IF j - 1 < i THEN j - 1 ELSE j]
<1>3. DOMAIN t = 1..Len(s)
  BY <1>1, <1>2
<1>4. \A j \in 1..Len(s) : /\ from[j] \in DOMAIN s
                           /\ t[j].src = s[from[j]].src /\ t[j].key = s[from[j]].key
  <2> TAKE j \in 1..Len(s)
  <2>1. CASE j = 1
    BY <1>1, <1>2, <2>1
  <2>2. CASE j # 1
    <3>1. j - 1 \in 1..(Len(s) - 1) /\ t[j] = r[j - 1]
      BY <1>1, <1>2, <2>2
    <3>2. t[j] = s[IF j - 1 < i THEN j - 1 ELSE j - 1 + 1]
      BY <1>1, <3>1
    <3>3. j - 1 + 1 = j /\ from[j] = (IF j - 1 < i THEN j - 1 ELSE j) /\ from[j] \in 1..Len(s)
      BY <1>1, <2>2
    <3> QED
      BY <1>1, <3>2, <3>3
  <2> QED
    BY <2>1, <2>2
<1>5. \A j, k \in 1..Len(s) : from[j] = from[k] => j = k
  BY <1>1
<1> HIDE DEF from
<1>6. Distinct(t)
  <2> SUFFICES ASSUME NEW j \in DOMAIN t, NEW k \in DOMAIN t, t[j].src = t[k].src, t[j].key = t[k].key
               PROVE  j = k
    BY DEF Distinct
  <2>1. /\ from[j] \in DOMAIN s /\ t[j].src = s[from[j]].src /\ t[j].key = s[from[j]].key
        /\ from[k] \in DOMAIN s /\ t[k].src = s[from[k]].src /\ t[k].key = s[from[k]].key
    BY <1>3, <1>4
  <2>2. from[j] = from[k]
    BY <2>1 DEF Distinct
  <2> QED
    BY <1>3, <1>5, <2>2
<1> QED
  BY <1>6 DEF r, t

\* eraseLocked keeps the books.
LEMMA EraseKeeps ==
  ASSUME NEW S, Sized(S), NEW q, Balanced(q, S), Room(Len(q.entries), q.total, 0),
         NEW src, NEW key, Hit(q, src, key)
  PROVE  LET r == Erase(q, src, key)
         IN Balanced(r, S) /\ Room(Len(r.entries), r.total, 0)
<1> DEFINE s == q.entries
           i == Found(q, src, key)
           t == RemoveAt(s, i)
           r == Erase(q, src, key)
<1>1. s \in Seq(S) /\ q.total = SizeOf(s) /\ Distinct(s) /\ i \in DOMAIN s
  BY FoundThere DEF Balanced
<1> HIDE DEF i, s
<1>2. /\ t \in Seq(S) /\ Len(s) \in Nat /\ Len(t) = Len(s) - 1
      /\ DOMAIN s = 1..Len(s) /\ DOMAIN t = 1..(Len(s) - 1)
      /\ \A j \in 1..(Len(s) - 1) : t[j] = s[IF j < i THEN j ELSE j + 1]
      /\ s[i].bytes \in Nat /\ SizeOf(s) = s[i].bytes + SizeOf(t)
  BY <1>1, TakenOut
<1> HIDE DEF t
<1>3. SizeOf(t) \in Nat /\ Less(q.total, s[i].bytes) = SizeOf(t)
  BY <1>1, <1>2, SizeBasics DEF Less
<1>4. r.entries = t /\ r.total = SizeOf(t) /\ r \in [entries : Seq(S), total : Nat]
  BY <1>2, <1>3 DEF Erase, Without, Entry, t, s, i
<1> HIDE DEF r
<1>5. Distinct(t)
  <2> SUFFICES ASSUME NEW j \in DOMAIN t, NEW k \in DOMAIN t, t[j].src = t[k].src, t[j].key = t[k].key
               PROVE  j = k
    BY DEF Distinct
  <2> DEFINE a == IF j < i THEN j ELSE j + 1
             b == IF k < i THEN k ELSE k + 1
  <2>1. a \in DOMAIN s /\ b \in DOMAIN s /\ t[j] = s[a] /\ t[k] = s[b] /\ i \in 1..Len(s)
    BY <1>1, <1>2
  <2>2. a = b
    BY <1>1, <2>1 DEF Distinct
  <2> QED
    BY <1>2, <2>1, <2>2
<1>6. Room(Len(t), SizeOf(t), 0)
  <2>1. Len(t) \in Nat /\ Len(t) <= Len(s) /\ SizeOf(s) \in Nat /\ SizeOf(t) <= SizeOf(s)
    BY <1>1, <1>2, <1>3
  <2>2. Room(Len(s), SizeOf(s), 0)
    BY <1>1 DEF s
  <2> QED
    BY <1>2, <1>3, <2>1, <2>2, RoomForLess
<1> QED
  BY <1>4, <1>5, <1>6 DEF Balanced, r

\* A hit moves its entry to the front and keeps the books.
LEMMA TouchKeeps ==
  ASSUME NEW S, Sized(S), NEW q, Balanced(q, S), Room(Len(q.entries), q.total, 0),
         NEW src, NEW key, Hit(q, src, key)
  PROVE  LET r == Touch(q, src, key)
         IN Balanced(r, S) /\ Room(Len(r.entries), r.total, 0)
<1> DEFINE s == q.entries
           i == Found(q, src, key)
           t == <<s[i]>> \o RemoveAt(s, i)
           r == Touch(q, src, key)
<1>1. s \in Seq(S) /\ q.total = SizeOf(s) /\ Distinct(s) /\ i \in DOMAIN s /\ q.total \in Nat
  BY FoundThere DEF Balanced
<1>2. r = [q EXCEPT !.entries = t]
  BY DEF Touch, Without, Entry
<1> HIDE DEF i, s
<1>3. /\ RemoveAt(s, i) \in Seq(S) /\ Len(s) \in Nat /\ Len(RemoveAt(s, i)) = Len(s) - 1
      /\ s[i] \in S /\ SizeOf(s) = s[i].bytes + SizeOf(RemoveAt(s, i))
  BY <1>1, TakenOut
<1>4. /\ t \in Seq(S) /\ Len(t) = Len(s) - 1 + 1 /\ SizeOf(t) = s[i].bytes + SizeOf(RemoveAt(s, i))
  BY <1>3, InFront
<1>5. Distinct(t)
  BY <1>1, <1>3, MovedToFront
<1> HIDE DEF t, r
<1>6. r.entries = t /\ r.total = q.total /\ r \in [entries : Seq(S), total : Nat]
  BY <1>1, <1>2, <1>4 DEF Balanced
<1>7. Len(t) = Len(s) /\ SizeOf(t) = SizeOf(s)
  BY <1>3, <1>4
<1> QED
  BY <1>1, <1>5, <1>6, <1>7 DEF Balanced, r, s

\* evictLocked stops at some length, the first from the end that leaves room.
LEMMA EvictKeeps ==
  ASSUME NEW S, Sized(S), NEW q, Balanced(q, S), NEW incoming \in Nat, NEW reserve \in Nat
  PROVE  LET r == Evict(q, incoming, reserve)
         IN /\ Balanced(r, S)
            /\ Len(r.entries) \in 0..Len(q.entries)
            /\ \A j \in DOMAIN r.entries : j \in DOMAIN q.entries /\ r.entries[j] = q.entries[j]
            /\ Len(r.entries) = 0 \/ Room(Len(r.entries), r.total + incoming, reserve)
<1> DEFINE s == q.entries
           fits(n) == n = 0 \/ Room(n, Shortened(q, n).total + incoming, reserve)
           last(n) == fits(n) /\ \A m \in (n + 1)..Len(s) : ~ fits(m)
           c == CHOOSE n \in 0..Len(s) : last(n)
           r == Shortened(q, c)
<1>1. s \in Seq(S) /\ q.total = SizeOf(s) /\ Distinct(s) /\ Len(s) \in Nat /\ DOMAIN s = 1..Len(s)
  BY LenProperties DEF Balanced
<1>2. \E n \in 0..Len(s) : last(n)
  <2> DEFINE T == {k \in 0..Len(s) : fits(Len(s) - k)}
  <2>1. Len(s) \in T /\ T \in SUBSET Nat
    BY <1>1
  <2>2. PICK k \in T : \A j \in T : k <= j
    <3> HIDE DEF T
    <3> QED
      BY <2>1, LeastNatural
  <2> HIDE DEF fits
  <2>3. Len(s) - k \in 0..Len(s) /\ fits(Len(s) - k)
    BY <1>1, <2>2
  <2>4. ASSUME NEW m \in (Len(s) - k + 1)..Len(s) PROVE ~ fits(m)
    <3>1. Len(s) - m \in 0..Len(s) /\ ~ (k <= Len(s) - m) /\ Len(s) - (Len(s) - m) = m
      BY <1>1, <2>2
    <3> QED
      BY <2>2, <3>1
  <2> QED
    BY <2>3, <2>4
<1>3. c \in 0..Len(s) /\ last(c)
  <2> HIDE DEF last, s
  <2> QED
    BY <1>2, Zenon
<1>4. Evict(q, incoming, reserve) = r
  BY Zenon DEF Evict
<1> HIDE DEF c
<1>5. c = 0 \/ Room(c, r.total + incoming, reserve)
  BY <1>3
<1> DEFINE a == SubSeq(s, 1, c)
           b == SubSeq(s, c + 1, Len(s))
<1> HIDE DEF last, fits
<1>6. r.entries = a /\ r.total = Less(q.total, SizeOf(b)) /\ r = [entries |-> a, total |-> r.total]
  BY DEF Shortened
<1> HIDE DEF r, s
<1>7. /\ a \in Seq(S) /\ Len(a) = c /\ DOMAIN a = 1..c /\ b \in Seq(S)
      /\ \A j \in 1..c : a[j] = s[j]
      /\ SizeOf(s) = SizeOf(a) + SizeOf(b)
  BY <1>1, <1>3, Parts
<1> HIDE DEF a, b
<1>8. r.total = SizeOf(a) /\ r.total \in Nat
  <2>1. SizeOf(a) \in Nat /\ SizeOf(b) \in Nat
    BY <1>7, SizeBasics
  <2> QED
    BY <1>1, <1>6, <1>7, <2>1 DEF Less
<1>9. \A j \in 1..c : j \in 1..Len(s)
  BY <1>1, <1>3
<1>10. Distinct(a)
  BY <1>1, <1>7, <1>9 DEF Distinct
<1>11. Balanced(r, S)
  BY <1>6, <1>7, <1>8, <1>10 DEF Balanced
<1>12. Len(r.entries) = c /\ c \in 0..Len(s)
       /\ \A j \in DOMAIN r.entries : j \in DOMAIN s /\ r.entries[j] = s[j]
  BY <1>1, <1>3, <1>6, <1>7, <1>9
<1> QED
  BY <1>4, <1>5, <1>11, <1>12 DEF s

\* put keeps the books, whether it replaces an entry or adds one.
LEMMA PutKeeps ==
  ASSUME NEW S, Sized(S), NEW q, Balanced(q, S), Room(Len(q.entries), q.total, 0), NEW e \in S
  PROVE  LET r == Put(q, e)
         IN Balanced(r, S) /\ Room(Len(r.entries), r.total, 0)
<1> DEFINE s == q.entries
           r == Put(q, e)
<1>1. s \in Seq(S) /\ q.total = SizeOf(s) /\ Distinct(s) /\ q.total \in Nat /\ e.bytes \in Nat
  BY DEF Balanced, Sized
<1>2. CASE MaxBytes > 0 /\ e.bytes > MaxBytes
  <2>1. r = q
    BY <1>2 DEF Put
  <2> QED
    BY <2>1
<1>3. CASE ~ (MaxBytes > 0 /\ e.bytes > MaxBytes) /\ Hit(q, e.src, e.key)
  <2> DEFINE i == Found(q, e.src, e.key)
             t == <<e>> \o RemoveAt(s, i)
             c == [entries |-> t, total |-> Less(q.total, s[i].bytes) + e.bytes]
  <2>1. r = Evict(c, 0, 0)
    BY <1>3 DEF Put, Without, Entry
  <2>2. i \in DOMAIN s /\ s[i].src = e.src /\ s[i].key = e.key
    BY <1>3, FoundThere
  <2> HIDE DEF s, i, r
  <2>3. /\ RemoveAt(s, i) \in Seq(S) /\ s[i].bytes \in Nat
        /\ SizeOf(s) = s[i].bytes + SizeOf(RemoveAt(s, i))
    BY <1>1, <2>2, TakenOut
  <2>4. SizeOf(RemoveAt(s, i)) \in Nat
    BY <2>3, SizeBasics
  <2>5. t \in Seq(S) /\ SizeOf(t) = e.bytes + SizeOf(RemoveAt(s, i))
    BY <2>3, InFront
  <2>6. Distinct(t)
    BY <1>1, <2>2, MovedToFront
  <2>7. Less(q.total, s[i].bytes) = SizeOf(RemoveAt(s, i))
    BY <1>1, <2>3, <2>4 DEF Less
  <2> HIDE DEF t
  <2>8. Balanced(c, S)
    BY <1>1, <2>4, <2>5, <2>6, <2>7 DEF Balanced
  <2> HIDE DEF c
  <2>9. Balanced(r, S) /\ (Len(r.entries) = 0 \/ Room(Len(r.entries), r.total + 0, 0))
    BY <2>1, <2>8, EvictKeeps
  <2>10. r.total \in Nat /\ (Len(r.entries) = 0 => r.total = 0)
    <3>1. r.entries \in Seq(S) /\ r.total = SizeOf(r.entries) /\ r.total \in Nat
      BY <2>9 DEF Balanced
    <3>2. Len(r.entries) = 0 => r.entries = <<>>
      BY <3>1, EmptySeq
    <3> QED
      BY <3>1, <3>2, SizeBasics
  <2>11. Room(Len(r.entries), r.total, 0)
    BY <2>9, <2>10, CacheAssumption DEF Room
  <2> QED
    BY <2>9, <2>11 DEF r
<1>4. CASE ~ (MaxBytes > 0 /\ e.bytes > MaxBytes) /\ ~ Hit(q, e.src, e.key)
  <2> DEFINE c == Evict(q, e.bytes, 1)
             t == <<e>> \o c.entries
  <2>1. r = [entries |-> t, total |-> c.total + e.bytes]
    BY <1>4 DEF Put
  <2>2. /\ Balanced(c, S) /\ \A j \in DOMAIN c.entries : j \in DOMAIN s /\ c.entries[j] = s[j]
        /\ Len(c.entries) = 0 \/ Room(Len(c.entries), c.total + e.bytes, 1)
    BY <1>1, EvictKeeps
  <2> HIDE DEF c, s
  <2>3. c.entries \in Seq(S) /\ c.total = SizeOf(c.entries) /\ c.total \in Nat /\ Distinct(c.entries)
    BY <2>2 DEF Balanced
  <2>4. /\ t \in Seq(S) /\ Len(c.entries) \in Nat /\ Len(t) = Len(c.entries) + 1
        /\ DOMAIN c.entries = 1..Len(c.entries) /\ DOMAIN t = 1..(Len(c.entries) + 1)
        /\ \A j \in 1..(Len(c.entries) + 1) : t[j] = IF j = 1 THEN e ELSE c.entries[j - 1]
        /\ SizeOf(t) = e.bytes + SizeOf(c.entries)
    BY <2>3, InFront
  <2>5. \A j \in DOMAIN c.entries : ~ (c.entries[j].src = e.src /\ c.entries[j].key = e.key)
    BY <1>4, <2>2 DEF Hit, Position, s
  <2>6. Distinct(t)
    <3> HIDE DEF t
    <3> SUFFICES ASSUME NEW j \in DOMAIN t, NEW k \in DOMAIN t, t[j].src = t[k].src, t[j].key = t[k].key
                 PROVE  j = k
      BY DEF Distinct
    <3>1. \A m \in DOMAIN t : m = 1 \/ (m - 1 \in DOMAIN c.entries /\ t[m] = c.entries[m - 1])
      BY <2>4
    <3>2. t[1] = e /\ 1 \in DOMAIN t
      BY <2>4
    <3>3. CASE j = 1 \/ k = 1
      BY <2>5, <3>1, <3>2, <3>3
    <3>4. CASE j # 1 /\ k # 1
      <4>1. j - 1 = k - 1
        BY <2>3, <3>1, <3>4 DEF Distinct
      <4> QED
        BY <2>4, <4>1
    <3> QED
      BY <3>3, <3>4
  <2> HIDE DEF t, r
  <2>7. r.entries = t /\ r.total = SizeOf(t) /\ r \in [entries : Seq(S), total : Nat]
    BY <1>1, <2>1, <2>3, <2>4
  <2>8. Len(c.entries) = 0 => c.total = 0
    <3>1. Len(c.entries) = 0 => c.entries = <<>>
      BY <2>3, EmptySeq
    <3> QED
      BY <2>3, <3>1, SizeBasics
  <2>9. Room(Len(t), SizeOf(t), 0)
    <3>1. CASE Len(c.entries) = 0
      BY <1>1, <1>4, <2>3, <2>4, <2>8, <3>1, CacheAssumption DEF Room
    <3>2. CASE Room(Len(c.entries), c.total + e.bytes, 1)
      BY <1>1, <2>3, <2>4, <3>2, CacheAssumption DEF Room
    <3> QED
      BY <2>2, <3>1, <3>2
  <2> QED
    BY <2>6, <2>7, <2>9 DEF Balanced, r
<1> QED
  BY <1>2, <1>3, <1>4

\* The sweep of invalidate past the first n entries.
Sweep(c, src, e) == IF e.src = src THEN [c EXCEPT !.total = Less(@, e.bytes)]
                                   ELSE [c EXCEPT !.entries = Append(@, e)]

\* from tells where in the first n entries of s each entry of t comes from.
Picks(from, t, s, n) ==
  /\ from \in [1..Len(t) -> 1..n]
  /\ \A j \in 1..Len(t) : t[j] = s[from[j]]
  /\ \A j, k \in 1..Len(t) : from[j] = from[k] => j = k

\* c is what the sweep of s has made of its first n entries: what it has kept
\* comes from them, and the total counts it and the rest.
Swept(c, s, n) ==
  /\ Len(c.entries) <= n
  /\ \E from : Picks(from, c.entries, s, n)
  /\ c.total = SizeOf(c.entries) + SizeOf(SubSeq(s, n + 1, Len(s)))

\* One step of the sweep.
LEMMA SweepStep ==
  ASSUME NEW S, Sized(S), NEW s \in Seq(S), NEW n \in 1..Len(s), NEW src,
         NEW c \in [entries : Seq(S), total : Nat], Swept(c, s, n - 1)
  PROVE  Swept(Sweep(c, src, s[n]), s, n)
<1> DEFINE e == s[n]
           rest == SubSeq(s, n + 1, Len(s))
           d == Sweep(c, src, e)
           l == Len(c.entries)
<1>1. /\ Len(s) \in Nat /\ n \in Nat /\ n > 0 /\ n <= Len(s) /\ e \in S /\ e.bytes \in Nat
      /\ n \in 0..Len(s) /\ n - 1 \in 0..Len(s) /\ n - 1 + 1 = n
  BY LenProperties DEF Sized
<1>2. rest \in Seq(S)
  BY <1>1, Parts
<1>3. SizeOf(SubSeq(s, n, Len(s))) = e.bytes + SizeOf(rest)
  <2>1. SubSeq(s, n, Len(s)) = <<e>> \o rest
    <3>1. n \in 1..Len(s) /\ Len(s) \in n..Len(s)
      BY <1>1
    <3> QED
      BY <3>1, SubSeqRecursiveFirst, Zenon
  <2> HIDE DEF rest, e
  <2> QED
    BY <1>1, <1>2, <2>1, InFront
<1>4. c.entries \in Seq(S) /\ c.total \in Nat /\ l \in Nat /\ DOMAIN c.entries = 1..l
  BY LenProperties
<1>5. SizeOf(c.entries) \in Nat /\ SizeOf(rest) \in Nat
  BY <1>2, <1>4, SizeBasics
<1>6. l <= n - 1 /\ c.total = SizeOf(c.entries) + (e.bytes + SizeOf(rest))
  <2>1. l <= n - 1 /\ c.total = SizeOf(c.entries) + SizeOf(SubSeq(s, n - 1 + 1, Len(s)))
    BY DEF Swept
  <2> QED
    BY <1>1, <1>3, <2>1
<1>7. PICK from : Picks(from, c.entries, s, n - 1)
  BY DEF Swept
<1>8. /\ from \in [1..l -> 1..(n - 1)]
      /\ \A j \in 1..l : c.entries[j] = s[from[j]]
      /\ \A j, k \in 1..l : from[j] = from[k] => j = k
  BY <1>7 DEF Picks
<1> HIDE DEF rest, l
<1>9. CASE e.src = src
  <2>1. d = [c EXCEPT !.total = Less(@, e.bytes)]
    BY <1>9 DEF Sweep
  <2>2. d.entries = c.entries /\ d.total = SizeOf(c.entries) + SizeOf(rest)
    BY <1>1, <1>4, <1>5, <1>6, <2>1 DEF Less
  <2> HIDE DEF d
  <2>3. from \in [1..l -> 1..n]
    BY <1>1, <1>8
  <2>4. Len(d.entries) = l /\ l <= n
    BY <1>1, <1>4, <1>6, <2>2 DEF l
  <2>5. Picks(from, d.entries, s, n)
    BY <1>8, <2>2, <2>3, <2>4 DEF Picks
  <2> QED
    BY <2>2, <2>4, <2>5 DEF Swept, rest, d
<1>10. CASE e.src # src
  <2> DEFINE t == Append(c.entries, e)
             f == [j \in 1..(l + 1) |-> IF j = l + 1 THEN n ELSE from[j]]
  <2>1. d = [c EXCEPT !.entries = t]
    BY <1>10 DEF Sweep
  <2>2. /\ Len(t) = l + 1 /\ \A j \in 1..l : t[j] = c.entries[j]
    BY <1>1, <1>4, AppendProperties DEF l
  <2>3. t[l + 1] = e
    BY <1>1, <1>4, AppendProperties DEF l
  <2>4. SizeOf(t) = SizeOf(c.entries) + e.bytes
    <3>1. t = c.entries \o <<e>> /\ <<e>> \in Seq(S)
      BY <1>1, <1>4, AppendIsConcat
    <3> HIDE DEF t
    <3> QED
      BY <1>1, <1>4, <3>1, SizeConcat, SizeBasics
  <2> HIDE DEF t
  <2>5. d.entries = t /\ d.total = SizeOf(t) + SizeOf(rest)
    BY <1>1, <1>4, <1>5, <1>6, <2>1, <2>4
  <2> HIDE DEF d
  <2>6. f \in [1..(l + 1) -> 1..n]
    BY <1>1, <1>4, <1>8
  <2>7. \A j \in 1..(l + 1) : t[j] = s[f[j]]
    BY <1>4, <1>8, <2>2, <2>3
  <2>8. \A j, k \in 1..(l + 1) : f[j] = f[k] => j = k
    BY <1>1, <1>4, <1>8
  <2> HIDE DEF f
  <2>9. Len(d.entries) = l + 1 /\ l + 1 <= n
    BY <1>1, <1>4, <1>6, <2>2, <2>5
  <2>10. Picks(f, d.entries, s, n)
    BY <2>5, <2>6, <2>7, <2>8, <2>9 DEF Picks
  <2>11. Len(d.entries) <= n /\ d.total = SizeOf(d.entries) + SizeOf(rest)
    BY <2>5, <2>9
  <2> QED
    BY <2>10, <2>11 DEF Swept, rest, d
<1> QED
  BY <1>9, <1>10

\* A step of the sweep gives a cache.
LEMMA SweepType ==
  ASSUME NEW S, Sized(S), NEW src, NEW c \in [entries : Seq(S), total : Nat], NEW e \in S
  PROVE  Sweep(c, src, e) \in [entries : Seq(S), total : Nat]
<1>1. e.bytes \in Nat /\ c.total \in Nat /\ c.entries \in Seq(S)
  BY DEF Sized
<1>2. Less(c.total, e.bytes) \in Nat
  BY <1>1 DEF Less
<1>3. Append(c.entries, e) \in Seq(S)
  BY <1>1, AppendProperties
<1> QED
  BY <1>2, <1>3 DEF Sweep

\* The stages of the sweep of invalidate.
Sweeps(f, q, src, S) ==
  /\ f \in [0..Len(q.entries) -> [entries : Seq(S), total : Nat]]
  /\ f[0] = [entries |-> <<>>, total |-> q.total]
  /\ \A n \in 1..Len(q.entries) : f[n] = Sweep(f[n - 1], src, q.entries[n])
  /\ Invalidate(q, src) = f[Len(q.entries)]

\* The recursive function in Invalidate is this sweep.
LEMMA InvalidateSweeps ==
  ASSUME NEW S, Sized(S), NEW q, Balanced(q, S), NEW src
  PROVE  \E f : Sweeps(f, q, src, S)
<1> DEFINE s == q.entries
           N == Len(s)
           C == [entries : Seq(S), total : Nat]
           x == [entries |-> <<>>, total |-> q.total]
           g == [p \in (1..N) \X C |-> Sweep(p[2], src, s[p[1]])]
<1>1. s \in Seq(S) /\ N \in Nat /\ q.total \in Nat /\ \A n \in 1..N : s[n] \in S
  BY LenProperties DEF Balanced
<1>2. x \in C
  BY <1>1, EmptySeq
<1>3. g \in [(1..N) \X C -> C]
  <2>1. \A p \in (1..N) \X C : Sweep(p[2], src, s[p[1]]) \in C
    <3> TAKE p \in (1..N) \X C
    <3>1. p[1] \in 1..N /\ p[2] \in C
      OBVIOUS
    <3> QED
      BY <1>1, <3>1, SweepType
  <2> HIDE DEF C, N
  <2> QED
    BY <2>1, Zenon
<1>4. PICK f \in [0..N -> C] : Recurs(f, N, x, g)
  <2> HIDE DEF g, C, x, N
  <2> QED
    BY <1>1, <1>2, <1>3, Recursion
<1>5. f[0] = x /\ \A n \in 1..N : f[n] = Sweep(f[n - 1], src, s[n])
  <2>1. \A n \in 1..N : g[n, f[n - 1]] = Sweep(f[n - 1], src, s[n])
    <3> TAKE n \in 1..N
    <3>1. n - 1 \in 0..N
      BY <1>1
    <3> HIDE DEF C, N, s
    <3>2. <<n, f[n - 1]>> \in (1..N) \X C /\ <<n, f[n - 1]>>[1] = n /\ <<n, f[n - 1]>>[2] = f[n - 1]
      BY <3>1
    <3> QED
      BY <3>2
  <2> HIDE DEF g, x
  <2> QED
    BY <1>4, <2>1 DEF Recurs
<1> HIDE DEF g
<1> DEFINE P(h) == h = [n \in 0..N |-> IF n = 0 THEN x
                                       ELSE IF s[n].src = src
                                            THEN [h[n - 1] EXCEPT !.total = Less(@, s[n].bytes)]
                                            ELSE [h[n - 1] EXCEPT !.entries = Append(@, s[n])]]
           swept == CHOOSE h : P(h)
<1>6. P(f)
  <2>1. f = [n \in 0..N |-> f[n]]
    BY <1>4
  <2>2. \A n \in 0..N : f[n] = IF n = 0 THEN x ELSE Sweep(f[n - 1], src, s[n])
    <3> HIDE DEF x, s
    <3> QED
      BY <1>1, <1>5
  <2>3. f = [n \in 0..N |-> IF n = 0 THEN x ELSE Sweep(f[n - 1], src, s[n])]
    <3> HIDE DEF x, s
    <3> QED
      BY <2>1, <2>2
  <2> QED
    BY <2>3, Zenon DEF Sweep
<1>7. P(swept)
  <2> HIDE DEF P
  <2> QED
    BY <1>6, Zenon
<1>8. Invalidate(q, src) = swept[N]
  BY Zenon DEF Invalidate
<1> HIDE DEF swept
<1>9. swept = [n \in 0..N |-> IF n = 0 THEN x ELSE Sweep(swept[n - 1], src, s[n])]
  BY <1>7, Zenon DEF Sweep
<1> HIDE DEF P, x, s
<1>10. \A n \in 0..N : swept[n] = IF n = 0 THEN x ELSE Sweep(swept[n - 1], src, s[n])
  BY <1>9
<1> DEFINE Fails == {n \in 0..N : swept[n] # f[n]}
<1>11. Fails = {}
  <2>1. \A n \in 1..N : n - 1 \notin Fails => n \notin Fails
    <3> TAKE n \in 1..N
    <3>1. n \in 0..N /\ n # 0 /\ n - 1 \in 0..N
      BY <1>1
    <3> QED
      BY <1>5, <1>10, <3>1
  <2>2. 0 \notin Fails /\ Fails \in SUBSET (0..N)
    BY <1>1, <1>5, <1>10
  <2> HIDE DEF Fails
  <2> QED
    BY <1>1, <2>1, <2>2, Induction
<1>12. Invalidate(q, src) = f[N]
  BY <1>1, <1>8, <1>11
<1> QED
  BY <1>4, <1>5, <1>12 DEF s, x, Sweeps

\* invalidate keeps the books.
LEMMA InvalidateKeeps ==
  ASSUME NEW S, Sized(S), NEW q, Balanced(q, S), Room(Len(q.entries), q.total, 0), NEW src
  PROVE  LET r == Invalidate(q, src)
         IN Balanced(r, S) /\ Room(Len(r.entries), r.total, 0)
<1> DEFINE s == q.entries
           N == Len(s)
           C == [entries : Seq(S), total : Nat]
           r == Invalidate(q, src)
<1>1. /\ q \in C /\ s \in Seq(S) /\ q.total = SizeOf(s) /\ q.total \in Nat /\ Distinct(s)
      /\ N \in Nat /\ DOMAIN s = 1..N
  BY LenProperties DEF Balanced
<1>2. PICK f : Sweeps(f, q, src, S)
  BY InvalidateSweeps
<1>3. /\ f \in [0..N -> C] /\ f[0] = [entries |-> <<>>, total |-> q.total]
      /\ \A n \in 1..N : f[n] = Sweep(f[n - 1], src, s[n])
      /\ r = f[N]
  BY <1>2 DEF Sweeps
<1> HIDE DEF C, r, s
<1> DEFINE Fails == {n \in 0..N : ~ Swept(f[n], s, n)}
<1>4. Swept(f[0], s, 0)
  <2>1. f[0].entries = <<>> /\ Len(f[0].entries) = 0 /\ f[0].total = SizeOf(s)
    BY <1>1, <1>3, EmptySeq
  <2>2. SizeOf(SubSeq(s, 0 + 1, Len(s))) = SizeOf(s)
    <3>1. 0 + 1 = 1
      OBVIOUS
    <3>2. SubSeq(s, 1, Len(s)) = s
      BY <1>1, SubSeqFull
    <3> QED
      BY <3>1, <3>2
  <2>3. SizeOf(f[0].entries) = 0 /\ SizeOf(s) \in Nat
    BY <1>1, <2>1, SizeBasics
  <2>4. Picks([j \in 1..0 |-> 0], f[0].entries, s, 0)
    BY <2>1 DEF Picks
  <2>5. f[0].total = SizeOf(f[0].entries) + SizeOf(SubSeq(s, 0 + 1, Len(s)))
    BY <2>1, <2>2, <2>3
  <2> QED
    BY <2>1, <2>4, <2>5 DEF Swept
<1>5. Fails = {}
  <2>1. \A n \in 1..N : n - 1 \notin Fails => n \notin Fails
    <3> TAKE n \in 1..N
    <3> HAVE n - 1 \notin Fails
    <3>1. n - 1 \in 0..N /\ f[n - 1] \in C /\ Swept(f[n - 1], s, n - 1)
      BY <1>1, <1>3
    <3>2. Swept(Sweep(f[n - 1], src, s[n]), s, n)
      BY <1>1, <3>1, SweepStep DEF C
    <3> QED
      BY <1>3, <3>2
  <2>2. 0 \notin Fails /\ Fails \in SUBSET (0..N)
    BY <1>4
  <2> HIDE DEF Fails
  <2> QED
    BY <1>1, <2>1, <2>2, Induction
<1>6. Swept(r, s, N) /\ r \in C
  BY <1>1, <1>3, <1>5
<1>7. r.entries \in Seq(S) /\ r.total \in Nat /\ Len(r.entries) \in Nat /\ DOMAIN r.entries = 1..Len(r.entries)
  BY <1>6, LenProperties DEF C
<1>8. r.total = SizeOf(r.entries) /\ Len(r.entries) <= N
  <2>1. SizeOf(SubSeq(s, N + 1, N)) = 0
    <3>1. N + 1 \in Int /\ N \in Int /\ N + 1 > N
      BY <1>1
    <3>2. SubSeq(s, N + 1, N) = <<>>
      BY <3>1, SubSeqEmpty
    <3> QED
      BY <3>2, SizeBasics
  <2>2. SizeOf(r.entries) \in Nat /\ SizeOf(<<>>) = 0
    BY <1>7, SizeBasics
  <2>3. r.total = SizeOf(r.entries) + SizeOf(SubSeq(s, N + 1, N)) /\ Len(r.entries) <= N
    BY <1>6 DEF Swept
  <2> QED
    BY <2>1, <2>2, <2>3
<1>9. Distinct(r.entries)
  <2>1. PICK from : Picks(from, r.entries, s, N)
    BY <1>6 DEF Swept
  <2> SUFFICES ASSUME NEW j \in DOMAIN r.entries, NEW k \in DOMAIN r.entries,
                      r.entries[j].src = r.entries[k].src, r.entries[j].key = r.entries[k].key
               PROVE  j = k
    BY DEF Distinct
  <2>2. /\ from[j] \in DOMAIN s /\ r.entries[j] = s[from[j]]
        /\ from[k] \in DOMAIN s /\ r.entries[k] = s[from[k]]
    BY <1>1, <1>7, <2>1 DEF Picks
  <2>3. from[j] = from[k]
    BY <1>1, <2>2 DEF Distinct
  <2> QED
    BY <1>7, <2>1, <2>3 DEF Picks
<1>10. r.total <= q.total
  <2>1. ASSUME NEW n \in 1..N, f[n - 1].total <= q.total PROVE f[n].total <= q.total
    <3>1. n - 1 \in 0..N
      BY <1>1
    <3>2. f[n - 1].total \in Nat /\ s[n].bytes \in Nat
      <4>1. f[n - 1] \in C /\ s[n] \in S
        BY <1>1, <1>3, <3>1
      <4> QED
        BY <4>1 DEF C, Sized
    <3>3. f[n].total = f[n - 1].total \/ f[n].total = Less(f[n - 1].total, s[n].bytes)
      <4>1. f[n] = Sweep(f[n - 1], src, s[n]) /\ f[n - 1] \in C
        BY <1>3, <3>1
      <4> QED
        BY <4>1 DEF Sweep, C
    <3> QED
      BY <1>1, <2>1, <3>2, <3>3 DEF Less
  <2> DEFINE Up == {n \in 0..N : ~ f[n].total <= q.total}
  <2>2. \A n \in 1..N : n - 1 \notin Up => n \notin Up
    <3> TAKE n \in 1..N
    <3>1. n - 1 \in 0..N
      BY <1>1
    <3> QED
      BY <2>1, <3>1
  <2>3. 0 \notin Up /\ Up \in SUBSET (0..N)
    BY <1>1, <1>3
  <2>4. Up = {}
    <3> HIDE DEF Up
    <3> QED
      BY <1>1, <2>2, <2>3, Induction
  <2> QED
    BY <1>1, <1>3, <2>4
<1>11. Room(Len(r.entries), r.total, 0)
  BY <1>1, <1>7, <1>8, <1>10, RoomForLess DEF s
<1> QED
  BY <1>6, <1>8, <1>9, <1>11 DEF Balanced, C, r

-----------------------------------------------------------------------------
(* The threads: what each piece of state is, and how the parts of a thread's *)
(* state belong together.                                                    *)

Frames == [shadow : BOOLEAN, wrote : BOOLEAN, must : Nat]
Reading == {"read", "stream", "cursor"}
Writing == {"write", "session"}
Pcs == {"idle", "get", "attempt", "put", "write", "mark", "group", "replicas", "load", "cas",
        "open", "done"}
Operations ==
  [pc : Pcs, op : Reading \cup Writing \cup {"none"}, key : Keys \cup {0}, src : Sources,
   pushed : BOOLEAN, v : 0..MaxWrites, seen : Nat, status : {"none", "ok", "hit"}]

\* The context on top of a stack: Current.
Top(s) == IF s = <<>> THEN NoFrame ELSE Last(s)

\* An operation r of a thread with the contexts s, of which u are the caller's.
Fits(r, s, u) ==
  /\ r \in Operations /\ s \in Seq(Frames) /\ u \in Nat
  /\ Len(s) = u + IF r.pushed THEN 1 ELSE 0
  /\ r.pc = "idle" => ~ r.pushed /\ r.op = "none"
  /\ r.pc \in {"get", "attempt", "put"} => r.op \in {"read", "stream"}
  /\ r.pc \in {"get", "put"} => Caching(Top(s), r.op, r.src)
  /\ r.pc \in {"write", "mark", "group", "replicas"} => r.op \in Writing
  /\ r.pc \in {"load", "cas", "open"} => r.op = "cursor"

\* The databases and the threads.
ThreadsInv ==
  /\ ver \in 0..MaxWrites /\ rep \in 0..ver /\ enabled \in BOOLEAN
  /\ w \in [Threads -> Operations] /\ stack \in [Threads -> Seq(Frames)]
  /\ user \in [Threads -> Nat]
  /\ \A t \in Threads : Fits(w[t], stack[t], user[t])

\* The cache keeps its books and holds what it may hold.
CacheEntries ==
  [src : Cached, key : Keys \cup {0}, v : 0..MaxWrites, bytes : Nat, shadow : {FALSE}]
CacheInv == Balanced(cache, CacheEntries) /\ Room(Len(cache.entries), cache.total, 0)

\* Every lease is counted, a thread has one at most, and none while it asks for one.
BudgetInv ==
  /\ budget \in [open : [Sources -> Nat], leases : SUBSET [t : Threads, src : Sources]]
  /\ IsFiniteSet(budget.leases)
  /\ \A l, m \in budget.leases : l.t = m.t => l = m
  /\ \A l \in budget.leases : w[l.t].pc \notin {"load", "cas"}
  /\ \A t \in Threads : w[t].pc = "cas" => CursorLimit > 0
  /\ CursorsCounted

\* With the version n of the primary: a context that is bound by a write is pinned
\* to the primary, the caller's as soon as the write is marked, and a read in
\* such a context goes there and returns no less.
Bound(r, s, u, n) ==
  /\ u <= 1
  /\ \A i \in DOMAIN s : s[i].must <= n /\ (s[i].must > 0 => s[i].wrote)
  /\ r.op \in Writing => r.v <= n
  /\ r.op \in Writing /\ r.pc \in {"group", "replicas", "done"} /\ u = 1 => s[1].wrote
  /\ r.op \in Reading /\ ~ Top(s).shadow /\ Top(s).must > 0 => r.src = "p"
  /\ r.op \in Reading /\ ~ Top(s).shadow /\ r.pc = "done" /\ r.status # "none" => r.v >= Top(s).must
BoundInv == \A t \in Threads : user[t] <= MaxScopes[t] /\ Bound(w[t], stack[t], user[t], ver)

\* A context is pushed.
LEMMA StackPush ==
  ASSUME NEW s \in Seq(Frames), NEW f \in Frames
  PROVE  /\ Append(s, f) \in Seq(Frames) /\ Len(s) \in Nat /\ Len(Append(s, f)) = Len(s) + 1
         /\ DOMAIN s = 1..Len(s) /\ DOMAIN Append(s, f) = 1..(Len(s) + 1)
         /\ \A i \in 1..Len(s) : Append(s, f)[i] = s[i]
         /\ Append(s, f)[Len(s) + 1] = f /\ Top(Append(s, f)) = f
<1>1. /\ Append(s, f) \in Seq(Frames) /\ Len(Append(s, f)) = Len(s) + 1
      /\ \A i \in 1..Len(s) : Append(s, f)[i] = s[i]
      /\ Append(s, f)[Len(s) + 1] = f
  BY AppendProperties
<1>2. Len(s) \in Nat /\ DOMAIN s = 1..Len(s) /\ DOMAIN Append(s, f) = 1..Len(Append(s, f))
  BY <1>1, LenProperties
<1>3. Append(s, f) # <<>>
  BY <1>1, <1>2, EmptySeq
<1>4. Top(Append(s, f)) = f
  BY <1>1, <1>3 DEF Top, Last
<1> QED
  BY <1>1, <1>2, <1>4

\* The last context goes.
LEMMA StackPop ==
  ASSUME NEW s \in Seq(Frames), Len(s) > 0
  PROVE  /\ Front(s) \in Seq(Frames) /\ Len(s) \in Nat /\ Len(Front(s)) = Len(s) - 1
         /\ DOMAIN s = 1..Len(s) /\ DOMAIN Front(s) = 1..(Len(s) - 1)
         /\ \A i \in 1..(Len(s) - 1) : Front(s)[i] = s[i]
<1>1. Len(s) \in Nat /\ DOMAIN s = 1..Len(s)
  BY LenProperties
<1>2. \A i \in 1..(Len(s) - 1) : i \in 1..Len(s)
  BY <1>1
<1>3. /\ SubSeq(s, 1, Len(s) - 1) \in Seq(Frames)
      /\ Len(SubSeq(s, 1, Len(s) - 1)) = IF 1 <= Len(s) - 1 THEN Len(s) - 1 - 1 + 1 ELSE 0
      /\ \A i \in 1..(Len(s) - 1 - 1 + 1) : SubSeq(s, 1, Len(s) - 1)[i] = s[1 + i - 1]
  BY <1>1, <1>2, SubSeqProperties
<1> DEFINE r == Front(s)
           l == Len(s)
<1>4. /\ r \in Seq(Frames) /\ l \in Nat /\ l > 0
      /\ Len(r) = IF 1 <= l - 1 THEN l - 1 - 1 + 1 ELSE 0
      /\ \A i \in 1..(l - 1 - 1 + 1) : r[i] = s[1 + i - 1]
  BY <1>1, <1>3 DEF Front
<1> HIDE DEF r, l
<1>5. Len(r) = l - 1 /\ \A i \in 1..(l - 1) : r[i] = s[i]
  BY <1>4
<1>6. DOMAIN r = 1..Len(r)
  BY <1>4, LenProperties
<1> QED
  BY <1>1, <1>4, <1>5, <1>6 DEF r, l

\* One context is replaced.
LEMMA StackChange ==
  ASSUME NEW s \in Seq(Frames), NEW i \in DOMAIN s, NEW f \in Frames
  PROVE  /\ [s EXCEPT ![i] = f] \in Seq(Frames) /\ Len([s EXCEPT ![i] = f]) = Len(s)
         /\ DOMAIN [s EXCEPT ![i] = f] = DOMAIN s /\ DOMAIN s = 1..Len(s) /\ Len(s) \in Nat
         /\ \A j \in DOMAIN s : [s EXCEPT ![i] = f][j] = IF j = i THEN f ELSE s[j]
<1>1. Len(s) \in Nat /\ DOMAIN s = 1..Len(s)
  BY LenProperties
<1>2. [s EXCEPT ![i] = f] \in Seq(Frames) /\ Len([s EXCEPT ![i] = f]) = Len(s)
  BY <1>1, ExceptSeq
<1> QED
  BY <1>1, <1>2

\* The context on top is the last one.
LEMMA TopOf ==
  ASSUME NEW s \in Seq(Frames)
  PROVE  /\ Top(s) \in Frames /\ Len(s) \in Nat /\ DOMAIN s = 1..Len(s)
         /\ s = <<>> => Top(s) = NoFrame /\ Len(s) = 0
         /\ s # <<>> => Top(s) = s[Len(s)] /\ Len(s) \in DOMAIN s
         /\ NoFrame \in Frames /\ NoFrame.must = 0 /\ ~ NoFrame.shadow
<1>1. Len(s) \in Nat /\ DOMAIN s = 1..Len(s) /\ (s # <<>> => Len(s) # 0)
  BY EmptySeq, LenProperties
<1>2. NoFrame \in Frames /\ NoFrame.must = 0 /\ ~ NoFrame.shadow
  BY DEF NoFrame, Frame, Frames
<1>3. s # <<>> => Top(s) = s[Len(s)] /\ Len(s) \in DOMAIN s
  BY <1>1 DEF Top, Last
<1>4. s = <<>> => Top(s) = NoFrame /\ Len(s) = 0
  BY EmptySeq DEF Top
<1> QED
  BY <1>1, <1>2, <1>3, <1>4

\* ContextScope::current is the context on top.
LEMMA CurrentIsTop == \A t \in Threads : Current(t) = Top(stack[t])
  BY DEF Current, Top

\* pinRequestWrite changes one context, and only its mark.
LEMMA PinnedStack ==
  ASSUME NEW s \in Seq(Frames)
  PROVE  /\ Pinned(s) \in Seq(Frames) /\ Len(Pinned(s)) = Len(s) /\ DOMAIN Pinned(s) = DOMAIN s
         /\ Len(s) \in Nat /\ DOMAIN s = 1..Len(s)
         /\ \A i \in DOMAIN s : /\ Pinned(s)[i].must = s[i].must /\ Pinned(s)[i].shadow = s[i].shadow
                                /\ s[i].wrote => Pinned(s)[i].wrote
         /\ Len(s) \in {1, 2} => Pinned(s)[1].wrote
<1>1. Len(s) \in Nat /\ DOMAIN s = 1..Len(s) /\ (s = <<>> <=> Len(s) = 0)
  BY EmptySeq, LenProperties
<1>2. CASE s = <<>>
  BY <1>1, <1>2 DEF Pinned
<1>3. CASE s # <<>>
  <2> DEFINE i == IF Len(s) >= 2 THEN Len(s) - 1 ELSE Len(s)
             f == [s[i] EXCEPT !.wrote = TRUE]
  <2>1. i \in DOMAIN s /\ (Len(s) \in {1, 2} => i = 1)
    BY <1>1, <1>3
  <2>2. Pinned(s) = [s EXCEPT ![i] = f]
    BY <1>3 DEF Pinned
  <2> HIDE DEF i
  <2>3. s[i] \in Frames
    BY <2>1
  <2>4. f \in Frames /\ f.must = s[i].must /\ f.shadow = s[i].shadow /\ f.wrote
    BY <2>3 DEF Frames
  <2> HIDE DEF f
  <2>5. /\ [s EXCEPT ![i] = f] \in Seq(Frames) /\ Len([s EXCEPT ![i] = f]) = Len(s)
        /\ DOMAIN [s EXCEPT ![i] = f] = DOMAIN s
        /\ \A j \in DOMAIN s : [s EXCEPT ![i] = f][j] = IF j = i THEN f ELSE s[j]
    BY <2>1, <2>4, StackChange
  <2> QED
    BY <1>1, <2>1, <2>2, <2>4, <2>5
<1> QED
  BY <1>2, <1>3

-----------------------------------------------------------------------------
(* The steps of a thread: each changes that thread alone, and leaves it in   *)
(* order.                                                                    *)

Alone(t) ==
  /\ w' = [w EXCEPT ![t] = w'[t]]
  /\ stack' = [stack EXCEPT ![t] = stack'[t]]
  /\ user' = [user EXCEPT ![t] = user'[t]]
FitsAfter(t) == Fits(w'[t], stack'[t], user'[t])

\* What reading your writes takes: caches on replicas only, and contexts of the
\* caller that are not nested.
Pinning == "p" \notin Cached /\ \A t \in Threads : MaxScopes[t] <= 1
BoundAfter(t) == user'[t] <= MaxScopes[t] /\ Bound(w'[t], stack'[t], user'[t], ver')

\* A thread in order.
LEMMA Ordered ==
  ASSUME ThreadsInv, NEW t \in Threads
  PROVE  /\ Fits(w[t], stack[t], user[t]) /\ w[t] \in Operations /\ stack[t] \in Seq(Frames)
         /\ user[t] \in Nat /\ ver \in 0..MaxWrites /\ rep \in 0..ver /\ MaxWrites \in Nat
         /\ ver \in Nat /\ rep \in 0..MaxWrites /\ Current(t) = Top(stack[t])
  BY ReadsAssumption, CurrentIsTop DEF ThreadsInv

\* The record of an operation that has not begun.
LEMMA NoOpType ==
  /\ NoOp \in Operations /\ NoOp.pc = "idle" /\ NoOp.op = "none" /\ ~ NoOp.pushed
  /\ NoOp.src = "p" /\ NoOp.v = 0 /\ NoOp.status = "none" /\ NoOp.key = 0 /\ NoOp.seen = 0
<1>1. MaxWrites \in Nat
  BY ReadsAssumption
<1> QED
  BY <1>1 DEF NoOp, Operations, Sources, Pcs, Reading, Writing

\* The fields of an operation that is done.
LEMMA DoneIs ==
  ASSUME ThreadsInv, NEW t \in Threads, NEW status \in {"ok", "hit"}, NEW v \in 0..MaxWrites,
         Done(t, status, v)
  PROVE  /\ w'[t] \in Operations /\ w'[t].pc = "done" /\ w'[t].op = w[t].op
         /\ w'[t].src = w[t].src /\ w'[t].pushed = w[t].pushed
         /\ w'[t].v = v /\ w'[t].status = status
         /\ w' = [w EXCEPT ![t] = w'[t]]
<1> DEFINE r == [NoOp EXCEPT !.pc = "done", !.op = w[t].op, !.pushed = w[t].pushed,
                             !.src = w[t].src, !.status = status, !.v = v]
<1>1. w' = [w EXCEPT ![t] = r] /\ w \in [Threads -> Operations] /\ w[t] \in Operations
  BY DEF Done, ThreadsInv
<1>2. r \in Operations /\ r.pc = "done" /\ r.op = w[t].op /\ r.src = w[t].src
      /\ r.pushed = w[t].pushed /\ r.v = v /\ r.status = status
  BY <1>1, NoOpType DEF Operations, Pcs, NoOp
<1> HIDE DEF r
<1>3. w'[t] = r
  BY <1>1
<1> QED
  BY <1>1, <1>2, <1>3

\* The fields of an operation that failed.
LEMMA ErrorIs ==
  ASSUME ThreadsInv, NEW t \in Threads, Error(t)
  PROVE  /\ w'[t] \in Operations /\ w'[t].pc = "done" /\ w'[t].op = "none"
         /\ w'[t].pushed = w[t].pushed
         /\ w' = [w EXCEPT ![t] = w'[t]]
<1> DEFINE r == [NoOp EXCEPT !.pc = "done", !.pushed = w[t].pushed]
<1>1. w' = [w EXCEPT ![t] = r] /\ w \in [Threads -> Operations] /\ w[t] \in Operations
  BY DEF Error, ThreadsInv
<1>2. r \in Operations /\ r.pc = "done" /\ r.op = "none" /\ r.pushed = w[t].pushed
  BY <1>1, NoOpType DEF Operations, Pcs, NoOp
<1> HIDE DEF r
<1>3. w'[t] = r
  BY <1>1
<1> QED
  BY <1>1, <1>2, <1>3

\* The fields of an operation that goes on.
LEMMA GotoIs ==
  ASSUME ThreadsInv, NEW t \in Threads, NEW pc \in Pcs, Goto(t, pc)
  PROVE  /\ w'[t] \in Operations /\ w'[t].pc = pc /\ w'[t].op = w[t].op
         /\ w'[t].src = w[t].src /\ w'[t].pushed = w[t].pushed
         /\ w'[t].v = w[t].v /\ w'[t].status = w[t].status
         /\ w' = [w EXCEPT ![t] = w'[t]]
<1> DEFINE r == [w[t] EXCEPT !.pc = pc]
<1>1. w' = [w EXCEPT ![t] = r] /\ w \in [Threads -> Operations] /\ w[t] \in Operations
  BY DEF Goto, ThreadsInv
<1>2. r \in Operations /\ r.pc = pc /\ r.op = w[t].op /\ r.src = w[t].src
      /\ r.pushed = w[t].pushed /\ r.v = w[t].v /\ r.status = w[t].status
  BY <1>1 DEF Operations
<1> HIDE DEF r
<1>3. w'[t] = r
  BY <1>1
<1> QED
  BY <1>1, <1>2, <1>3

\* Contexts that stay, with an operation that is done or failed, fit.
LEMMA EndFits ==
  ASSUME NEW r, NEW r2, NEW s, NEW u, Fits(r, s, u), r2 \in Operations, r2.pc = "done",
         r2.pushed = r.pushed
  PROVE  Fits(r2, s, u)
  BY DEF Fits

\* A context is bound by a natural number.
LEMMA Musts ==
  ASSUME NEW s \in Seq(Frames), NEW i \in DOMAIN s
  PROVE  s[i] \in Frames /\ s[i].must \in Nat /\ s[i].shadow \in BOOLEAN /\ s[i].wrote \in BOOLEAN
<1>1. s[i] \in Frames
  OBVIOUS
<1> QED
  BY <1>1 DEF Frames

\* A failed operation is bound to nothing.
LEMMA ErrorBound ==
  ASSUME NEW r, NEW r2, NEW s, NEW u, NEW n, NEW m, Bound(r, s, u, n), r2.op = "none",
         n \in Nat, m \in Nat, n <= m, s \in Seq(Frames)
  PROVE  Bound(r2, s, u, m)
<1>1. \A i \in DOMAIN s : s[i].must \in Nat
  BY Musts
<1> QED
  BY <1>1 DEF Bound, Reading, Writing

\* The caller opens a context.
LEMMA EnterScopeStep ==
  ASSUME ThreadsInv, NEW t \in Threads, EnterScope(t)
  PROVE  /\ Alone(t) /\ FitsAfter(t) /\ UNCHANGED ver /\ UNCHANGED rep
         /\ Pinning /\ BoundInv => BoundAfter(t)
<1> DEFINE s == stack[t]
<1>1. /\ Fits(w[t], s, user[t]) /\ s \in Seq(Frames) /\ user[t] \in Nat
      /\ w[t].pc = "idle" /\ user[t] < MaxScopes[t] /\ MaxScopes[t] \in Nat
  BY Ordered, ReadsAssumption DEF EnterScope
<1>2. PICK shadow \in BOOLEAN : stack' = [stack EXCEPT ![t] = Append(s, Frame(shadow))]
  BY DEF EnterScope
<1> DEFINE f == Frame(shadow)
           s2 == Append(s, f)
<1>3. /\ w' = w /\ user' = [user EXCEPT ![t] = @ + 1] /\ UNCHANGED <<ver, rep>>
  BY DEF EnterScope, db
<1>4. f \in Frames /\ f.must = 0
  BY DEF Frame, Frames
<1> HIDE DEF f, s
<1>5. /\ s2 \in Seq(Frames) /\ Len(s) \in Nat /\ Len(s2) = Len(s) + 1
      /\ DOMAIN s = 1..Len(s) /\ DOMAIN s2 = 1..(Len(s) + 1)
      /\ \A i \in 1..Len(s) : s2[i] = s[i]
      /\ s2[Len(s) + 1] = f
  BY <1>1, <1>4, StackPush
<1> HIDE DEF s2
<1>6. w'[t] = w[t] /\ stack'[t] = s2 /\ user'[t] = user[t] + 1
  BY <1>2, <1>3 DEF ThreadsInv, s2, f, s
<1>7. Alone(t)
  BY <1>2, <1>3, <1>6 DEF ThreadsInv, Alone, s2, f, s
<1>8. FitsAfter(t)
  BY <1>1, <1>5, <1>6 DEF FitsAfter, Fits
<1>9. ASSUME Pinning, BoundInv PROVE BoundAfter(t)
  <2>1. Bound(w[t], s, user[t], ver) /\ MaxScopes[t] <= 1 /\ w[t].op = "none" /\ user[t] = 0
    BY <1>1, <1>9 DEF BoundInv, Pinning, Fits, s
  <2>2. \A i \in DOMAIN s2 : s2[i].must <= ver /\ (s2[i].must > 0 => s2[i].wrote)
    <3>1. ver \in Nat
      BY Ordered
    <3> QED
      BY <1>4, <1>5, <2>1, <3>1 DEF Bound
  <2> QED
    BY <1>1, <1>3, <1>6, <2>1, <2>2 DEF BoundAfter, Bound, Reading, Writing
<1> QED
  BY <1>3, <1>7, <1>8, <1>9

\* The caller closes it.
LEMMA LeaveScopeStep ==
  ASSUME ThreadsInv, NEW t \in Threads, LeaveScope(t)
  PROVE  /\ Alone(t) /\ FitsAfter(t) /\ UNCHANGED ver /\ UNCHANGED rep
         /\ Pinning /\ BoundInv => BoundAfter(t)
<1> DEFINE s == stack[t]
           s2 == Front(s)
<1>1. /\ Fits(w[t], s, user[t]) /\ s \in Seq(Frames) /\ user[t] \in Nat
      /\ w[t].pc = "idle" /\ user[t] > 0 /\ w[t].op = "none" /\ ~ w[t].pushed
  BY Ordered DEF LeaveScope, Fits
<1>2. Len(s) > 0 /\ Len(s) = user[t]
  <2>1. Len(s) = user[t] + IF w[t].pushed THEN 1 ELSE 0
    BY <1>1 DEF Fits
  <2>2. Len(s) = user[t] + 0
    BY <1>1, <2>1, Zenon
  <2> QED
    BY <1>1, <2>2
<1>3. /\ w' = w /\ stack' = [stack EXCEPT ![t] = s2] /\ user' = [user EXCEPT ![t] = @ - 1]
      /\ UNCHANGED <<ver, rep>>
  BY DEF LeaveScope, db
<1> HIDE DEF s
<1>4. /\ s2 \in Seq(Frames) /\ Len(s2) = Len(s) - 1
      /\ DOMAIN s = 1..Len(s) /\ DOMAIN s2 = 1..(Len(s) - 1)
      /\ \A i \in 1..(Len(s) - 1) : s2[i] = s[i]
  BY <1>1, <1>2, StackPop
<1> HIDE DEF s2
<1>5. w'[t] = w[t] /\ stack'[t] = s2 /\ user'[t] = user[t] - 1
  BY <1>3 DEF ThreadsInv
<1>6. Alone(t)
  BY <1>3, <1>5 DEF ThreadsInv, Alone
<1>7. FitsAfter(t)
  <2>1. (IF w[t].pushed THEN 1 ELSE 0) = 0
    BY <1>1, Zenon
  <2>2. Len(s2) = user[t] - 1 + (IF w[t].pushed THEN 1 ELSE 0) /\ user[t] - 1 \in Nat
    BY <1>1, <1>2, <1>4, <2>1
  <2>3. Fits(w[t], s2, user[t] - 1)
    BY <1>1, <1>4, <2>2 DEF Fits
  <2> QED
    BY <1>5, <2>3 DEF FitsAfter
<1>8. ASSUME Pinning, BoundInv PROVE BoundAfter(t)
  <2>1. Bound(w[t], s, user[t], ver) /\ user[t] <= MaxScopes[t] /\ user[t] <= 1 /\ MaxScopes[t] \in Nat
    BY <1>1, <1>8, ReadsAssumption DEF BoundInv, Bound, s
  <2>2. \A i \in DOMAIN s2 : s2[i].must <= ver /\ (s2[i].must > 0 => s2[i].wrote)
    BY <1>1, <1>2, <1>4, <2>1 DEF Bound
  <2> QED
    BY <1>1, <1>3, <1>5, <2>1, <2>2 DEF BoundAfter, Bound, Reading, Writing
<1> QED
  BY <1>3, <1>6, <1>7, <1>8

\* Where an operation starts.
LEMMA FirstIs ==
  ASSUME NEW f, NEW op, NEW src
  PROVE  /\ op \in Writing => First(f, op, src) = "write"
         /\ op = "cursor" => First(f, op, src) = "load"
         /\ op \in {"read", "stream"} => First(f, op, src) \in {"get", "attempt"}
         /\ op \in {"read", "stream"} /\ First(f, op, src) = "get" => Caching(f, op, src)
  BY DEF First, Writing, Caching

\* An operation begins, in the caller's context or in one that an interceptor
\* has pushed.
LEMMA BeginStep ==
  ASSUME ThreadsInv, NEW t \in Threads, NEW op \in Calls[t],
         NEW k \in IF op = "read" THEN Keys ELSE {0}, Begin(t, op, k)
  PROVE  /\ Alone(t) /\ FitsAfter(t) /\ UNCHANGED ver /\ UNCHANGED rep
         /\ Pinning /\ BoundInv => BoundAfter(t)
         /\ w'[t].pc # "cas" /\ (w'[t].pc = "load" => op = "cursor")
<1> DEFINE s == stack[t]
           u == user[t]
<1>1. /\ Fits(w[t], s, u) /\ s \in Seq(Frames) /\ u \in Nat /\ enabled \in BOOLEAN
      /\ w[t].pc = "idle" /\ w[t].op = "none" /\ ~ w[t].pushed /\ Current(t) = Top(s)
  BY Ordered DEF Begin, Fits, ThreadsInv
<1>2. op \in Reading \cup Writing /\ k \in Keys \cup {0}
  BY ReadsAssumption DEF Reading, Writing
<1>3. PICK shadow \in IF enabled THEN BOOLEAN ELSE {Current(t).shadow} :
        LET f == [Current(t) EXCEPT !.shadow = shadow]
        IN /\ stack' = IF enabled THEN [stack EXCEPT ![t] = Append(@, f)] ELSE stack
           /\ \E src \in IF op \in {"write", "session"} THEN {"p"} ELSE ReadTargets(f) :
               w' = [w EXCEPT ![t] = [NoOp EXCEPT !.pc = First(f, op, src), !.op = op, !.key = k,
                                                  !.src = src, !.pushed = enabled]]
  BY DEF Begin
<1> DEFINE f == [Top(s) EXCEPT !.shadow = shadow]
<1>4. PICK src \in IF op \in Writing THEN {"p"} ELSE ReadTargets(f) :
        w' = [w EXCEPT ![t] = [NoOp EXCEPT !.pc = First(f, op, src), !.op = op, !.key = k,
                                           !.src = src, !.pushed = enabled]]
  BY <1>1, <1>3, Zenon DEF Writing
<1>5. Top(s) \in Frames /\ Len(s) \in Nat /\ DOMAIN s = 1..Len(s)
  BY <1>1, TopOf
<1>6. shadow \in BOOLEAN
  <2>1. Top(s).shadow \in BOOLEAN
    BY <1>5 DEF Frames
  <2> QED
    BY <1>1, <1>3, <2>1, Zenon
<1>7. /\ f \in Frames /\ f.must = Top(s).must /\ f.wrote = Top(s).wrote
      /\ f.shadow = shadow
  BY <1>5, <1>6 DEF Frames
<1>8. ~ enabled => f = Top(s)
  <2>1. ~ enabled => shadow = Top(s).shadow
    BY <1>1, <1>3, Zenon
  <2> QED
    BY <1>5, <2>1 DEF Frames
<1> DEFINE r == [NoOp EXCEPT !.pc = First(f, op, src), !.op = op, !.key = k, !.src = src,
                             !.pushed = enabled]
           s2 == IF enabled THEN Append(s, f) ELSE s
<1>9. stack' = [stack EXCEPT ![t] = s2]
  <2>1. stack' = IF enabled THEN [stack EXCEPT ![t] = Append(@, f)] ELSE stack
    BY <1>1, <1>3, Zenon
  <2>2. CASE enabled
    BY <2>1, <2>2
  <2>3. CASE ~ enabled
    BY <2>1, <2>3 DEF ThreadsInv
  <2> QED
    BY <2>2, <2>3
<1> HIDE DEF f
<1>10. src \in Sources /\ (op \in Reading /\ ~ f.shadow /\ f.wrote => src = "p")
  BY <1>2, <1>4 DEF ReadTargets, Sources, Reading, Writing
<1>11. /\ op \in Writing => First(f, op, src) = "write"
       /\ op = "cursor" => First(f, op, src) = "load"
       /\ op \in {"read", "stream"} => First(f, op, src) \in {"get", "attempt"}
       /\ First(f, op, src) = "get" => Caching(f, op, src)
       /\ First(f, op, src) \in {"write", "load", "get", "attempt"}
  <2>1. op \in Writing \/ op = "cursor" \/ op \in {"read", "stream"}
    BY <1>2 DEF Reading
  <2> QED
    BY <2>1, FirstIs
<1>12. /\ r \in Operations /\ r.pc = First(f, op, src) /\ r.op = op /\ r.src = src
       /\ r.pushed = enabled /\ r.v = 0
  <2>1. First(f, op, src) \in Pcs
    BY <1>11 DEF Pcs
  <2> QED
    BY <1>1, <1>2, <1>10, <2>1, NoOpType DEF Operations, NoOp
<1> HIDE DEF r
<1> DEFINE d == IF enabled THEN 1 ELSE 0
<1>13. /\ s2 \in Seq(Frames) /\ Top(s2) = f /\ Len(s2) = Len(s) + d
       /\ \A i \in DOMAIN s2 : (i \in DOMAIN s /\ s2[i] = s[i]) \/ s2[i] = f
       /\ Len(s) > 0 => s2[1] = s[1]
  <2>1. CASE enabled
    <3>1. s2 = Append(s, f) /\ d = 1
      BY <2>1
    <3> HIDE DEF s2, d
    <3>2. /\ s2 \in Seq(Frames) /\ Len(s) \in Nat /\ Len(s2) = Len(s) + 1
          /\ DOMAIN s = 1..Len(s) /\ DOMAIN s2 = 1..(Len(s) + 1)
          /\ \A i \in 1..Len(s) : s2[i] = s[i]
          /\ s2[Len(s) + 1] = f /\ Top(s2) = f
      BY <1>1, <1>7, <3>1, StackPush
    <3>3. \A i \in DOMAIN s2 : i \in DOMAIN s \/ i = Len(s) + 1
      BY <3>2
    <3>4. Len(s) > 0 => 1 \in 1..Len(s)
      BY <3>2
    <3> QED
      BY <3>1, <3>2, <3>3, <3>4
  <2>2. CASE ~ enabled
    <3>1. s2 = s /\ d = 0
      BY <2>2
    <3> HIDE DEF s2, d
    <3>2. Top(s2) = f
      BY <1>8, <2>2, <3>1
    <3>3. Len(s2) = Len(s) + d
      BY <1>5, <3>1
    <3> QED
      BY <1>1, <3>1, <3>2, <3>3
  <2> QED
    BY <2>1, <2>2
<1>14. w'[t] = r /\ stack'[t] = s2 /\ user'[t] = u /\ UNCHANGED <<ver, rep, user>>
       /\ w' = [w EXCEPT ![t] = r]
  BY <1>4, <1>9 DEF ThreadsInv, r, f, Begin, db
<1> HIDE DEF s2, s, u
<1>15. Len(s) = u
  <2>1. Len(s) = u + IF w[t].pushed THEN 1 ELSE 0
    BY <1>1 DEF Fits
  <2>2. Len(s) = u + 0
    BY <1>1, <2>1, Zenon
  <2> QED
    BY <1>1, <2>2
<1>16. Alone(t)
  BY <1>9, <1>14 DEF ThreadsInv, Alone, u
<1>17. FitsAfter(t)
  <2>1. Len(s2) = u + IF r.pushed THEN 1 ELSE 0
    <3>1. (IF r.pushed THEN 1 ELSE 0) = d
      BY <1>12
    <3> QED
      BY <1>13, <1>15, <3>1
  <2>2. r.pc \in {"get", "attempt", "put"} => r.op \in {"read", "stream"}
    BY <1>2, <1>11, <1>12 DEF Reading
  <2>3. r.pc \in {"write", "mark", "group", "replicas"} => r.op \in Writing
    BY <1>2, <1>11, <1>12 DEF Reading
  <2>4. r.pc \in {"load", "cas", "open"} => r.op = "cursor"
    BY <1>2, <1>11, <1>12 DEF Reading
  <2>5. r.pc \in {"get", "put"} => Caching(Top(s2), r.op, r.src)
    BY <1>11, <1>12, <1>13
  <2>6. Fits(r, s2, u)
    BY <1>1, <1>11, <1>12, <1>13, <2>1, <2>2, <2>3, <2>4, <2>5 DEF Fits
  <2> QED
    BY <1>14, <2>6 DEF FitsAfter
<1>18. ASSUME Pinning, BoundInv PROVE BoundAfter(t)
  <2>1. Bound(w[t], s, u, ver) /\ u <= MaxScopes[t] /\ ver \in Nat
    BY <1>18, Ordered DEF BoundInv, s, u
  <2>2. f.must \in Nat /\ f.must <= ver /\ (f.must > 0 => f.wrote)
    <3>1. CASE s = <<>>
      <4>1. f.must = 0
        BY <1>1, <1>7, <3>1, TopOf
      <4> QED
        BY <2>1, <4>1
    <3>2. CASE s # <<>>
      <4>1. Len(s) \in DOMAIN s /\ Top(s) = s[Len(s)] /\ Top(s) \in Frames
        BY <1>1, <3>2, TopOf
      <4> QED
        BY <1>7, <2>1, <4>1 DEF Bound, Frames
    <3> QED
      BY <3>1, <3>2
  <2>3. \A i \in DOMAIN s2 : s2[i].must <= ver /\ (s2[i].must > 0 => s2[i].wrote)
    BY <1>13, <2>1, <2>2 DEF Bound
  <2>4. r.pc \notin {"group", "replicas", "done"}
    BY <1>11, <1>12
  <2>5. r.op \in Reading /\ ~ Top(s2).shadow /\ Top(s2).must > 0 => r.src = "p"
    BY <1>10, <1>12, <1>13, <2>2
  <2>6. u <= 1 /\ r.v <= ver
    BY <1>12, <2>1 DEF Bound
  <2>7. Bound(r, s2, u, ver)
    BY <2>3, <2>4, <2>5, <2>6 DEF Bound
  <2> QED
    BY <1>14, <2>1, <2>7 DEF BoundAfter
<1>19. w'[t].pc # "cas" /\ (w'[t].pc = "load" => op = "cursor")
  BY <1>2, <1>11, <1>12, <1>14 DEF Reading
<1> QED
  BY <1>14, <1>16, <1>17, <1>18, <1>19

\* A step that leaves the contexts alone changes its thread only.
LEMMA StayAlone ==
  ASSUME ThreadsInv, NEW t \in Threads, w' = [w EXCEPT ![t] = w'[t]], UNCHANGED <<stack, user>>
  PROVE  Alone(t) /\ stack'[t] = stack[t] /\ user'[t] = user[t]
  BY DEF ThreadsInv, Alone

\* The context on top is bound to no more than what was written.
LEMMA TopBound ==
  ASSUME NEW r, NEW s \in Seq(Frames), NEW u, NEW n \in Nat, Bound(r, s, u, n)
  PROVE  Top(s).must \in Nat /\ Top(s).must <= n
<1>1. CASE s = <<>>
  <2>1. Top(s).must = 0
    BY <1>1, TopOf
  <2> QED
    BY <2>1
<1>2. CASE s # <<>>
  <2>1. Len(s) \in DOMAIN s /\ Top(s) = s[Len(s)]
    BY <1>2, TopOf
  <2> QED
    BY <2>1, Musts DEF Bound
<1> QED
  BY <1>1, <1>2

\* An operation that goes on in the same contexts stays bound.
LEMMA BoundOn ==
  ASSUME NEW r, NEW r2, NEW s \in Seq(Frames), NEW u, NEW n \in Nat, NEW m \in Nat, n <= m,
         Bound(r, s, u, n), r2.op = r.op, r2.src = r.src \/ r2.src = "p",
         r.op \in Writing => r2.v <= m,
         r.op \in Writing /\ r2.pc \in {"group", "replicas", "done"}
           => r.pc \in {"group", "replicas", "done"},
         r.op \in Reading /\ ~ Top(s).shadow /\ r2.pc = "done" => r2.v >= Top(s).must
  PROVE  Bound(r2, s, u, m)
<1>1. \A i \in DOMAIN s : s[i].must \in Nat
  BY Musts
<1> QED
  BY <1>1 DEF Bound

\* A data source that a request may read holds the writes that bind it.
LEMMA ReadsEnough ==
  ASSUME ThreadsInv, NEW t \in Threads, Bound(w[t], stack[t], user[t], ver), w[t].op \in Reading
  PROVE  ~ Top(stack[t]).shadow => Version(w[t].src) >= Top(stack[t]).must
<1>1. /\ stack[t] \in Seq(Frames) /\ ver \in Nat /\ w[t] \in Operations /\ rep \in Nat
  BY Ordered
<1>2. Top(stack[t]).must \in Nat /\ Top(stack[t]).must <= ver
  BY <1>1, TopBound
<1>3. w[t].src \in {"p", "r", "s"}
  BY <1>1 DEF Operations, Sources
<1>4. ~ Top(stack[t]).shadow /\ Top(stack[t]).must > 0 => w[t].src = "p"
  BY DEF Bound
<1>5. Version("p") = ver /\ Version("r") = rep /\ Version("s") = 0
  BY DEF Version
<1>6. Version(w[t].src) \in Nat
  BY <1>1, <1>3, <1>5
<1> QED
  BY <1>1, <1>2, <1>4, <1>5, <1>6

\* Nothing binds a request that reads what may be cached.
LEMMA CachedUnbound ==
  ASSUME ThreadsInv, NEW t \in Threads, Pinning, Bound(w[t], stack[t], user[t], ver),
         w[t].op \in Reading, w[t].src \in Cached
  PROVE  ~ Top(stack[t]).shadow => Top(stack[t]).must = 0
<1>1. Top(stack[t]).must \in Nat
  BY Ordered, TopBound
<1> QED
  BY <1>1 DEF Bound, Pinning

\* What a data source holds is a version.
LEMMA VersionType ==
  ASSUME ThreadsInv, NEW src \in Sources
  PROVE  Version(src) \in 0..MaxWrites
<1>1. ver \in 0..MaxWrites /\ rep \in 0..MaxWrites /\ 0 \in 0..MaxWrites
  BY ReadsAssumption DEF ThreadsInv
<1> QED
  BY <1>1 DEF Version, Sources

\* A failure: an error, or the primary instead.
LEMMA FailStep ==
  ASSUME ThreadsInv, NEW t \in Threads, Fail(t), w[t].pc \in {"attempt", "open"},
         UNCHANGED <<stack, user, ver>>
  PROVE  /\ w' = [w EXCEPT ![t] = w'[t]] /\ FitsAfter(t)
         /\ Pinning /\ BoundInv => BoundAfter(t)
         /\ w'[t].pc # "cas" /\ (w'[t].pc = "load" => w[t].pc = "open")
<1> DEFINE s == stack[t]
           u == user[t]
<1>1. /\ Fits(w[t], s, u) /\ w[t] \in Operations /\ s \in Seq(Frames) /\ ver \in Nat
      /\ Current(t) = Top(s) /\ stack'[t] = s /\ user'[t] = u /\ ver' = ver
  BY Ordered
<1>2. CASE Error(t)
  <2>1. /\ w'[t] \in Operations /\ w'[t].pc = "done" /\ w'[t].op = "none"
        /\ w'[t].pushed = w[t].pushed /\ w' = [w EXCEPT ![t] = w'[t]]
    BY <1>2, ErrorIs
  <2>2. FitsAfter(t)
    BY <1>1, <2>1, EndFits DEF FitsAfter
  <2>3. ASSUME BoundInv PROVE BoundAfter(t)
    <3>1. Bound(w[t], s, u, ver) /\ u <= MaxScopes[t]
      BY <2>3 DEF BoundInv
    <3> HIDE DEF s, u
    <3>2. Bound(w'[t], s, u, ver)
      BY <1>1, <2>1, <3>1, ErrorBound
    <3> QED
      BY <1>1, <3>1, <3>2 DEF BoundAfter
  <2> QED
    BY <2>1, <2>2, <2>3
<1>3. CASE w' = [w EXCEPT ![t] = [@ EXCEPT !.src = "p", !.pc = First(Current(t), w[t].op, "p")]]
  <2> DEFINE pc == First(Top(s), w[t].op, "p")
             r == [w[t] EXCEPT !.src = "p", !.pc = pc]
  <2>1. /\ w[t].op \in {"read", "stream"} => pc \in {"get", "attempt"} /\ w[t].pc = "attempt"
        /\ w[t].op = "cursor" => pc = "load" /\ w[t].pc = "open"
        /\ w[t].op \in {"read", "stream"} \/ w[t].op = "cursor"
        /\ w[t].op \in {"read", "stream"} /\ pc = "get" => Caching(Top(s), w[t].op, "p")
    BY <1>1, FirstIs DEF Fits
  <2> HIDE DEF pc
  <2>2. pc \in Pcs /\ pc \in {"get", "attempt", "load"}
    BY <2>1 DEF Pcs
  <2>3. w' = [w EXCEPT ![t] = r]
    BY <1>1, <1>3 DEF pc
  <2>4. /\ r \in Operations /\ r.pc = pc /\ r.op = w[t].op /\ r.src = "p"
        /\ r.pushed = w[t].pushed
    BY <1>1, <2>2 DEF Operations, Sources
  <2> HIDE DEF r
  <2>5. w'[t] = r
    BY <2>3 DEF ThreadsInv
  <2>6. Fits(r, s, u)
    BY <1>1, <2>1, <2>2, <2>4 DEF Fits
  <2>7. FitsAfter(t)
    BY <1>1, <2>5, <2>6 DEF FitsAfter
  <2>8. ASSUME BoundInv PROVE BoundAfter(t)
    <3>1. Bound(w[t], s, u, ver) /\ u <= MaxScopes[t]
      BY <2>8 DEF BoundInv
    <3>2. w[t].op \notin Writing /\ r.pc # "done"
      BY <2>1, <2>2, <2>4 DEF Writing
    <3> HIDE DEF s, u
    <3>3. Bound(r, s, u, ver)
      BY <1>1, <2>4, <3>1, <3>2, BoundOn
    <3> QED
      BY <1>1, <2>5, <3>1, <3>3 DEF BoundAfter
  <2>9. r.pc # "cas" /\ (r.pc = "load" => w[t].pc = "open")
    BY <2>1, <2>2, <2>4
  <2>10. w' = [w EXCEPT ![t] = w'[t]]
    BY <2>3, <2>5
  <2>11. w'[t].pc # "cas" /\ (w'[t].pc = "load" => w[t].pc = "open")
    BY <2>5, <2>9
  <2> QED
    BY <2>7, <2>8, <2>10, <2>11
<1> QED
  BY <1>2, <1>3 DEF Fail

\* get: a hit ends the read, everything else goes on to the database.
LEMMA GetStep ==
  ASSUME ThreadsInv, CacheInv, NEW t \in Threads, Get(t)
  PROVE  /\ Alone(t) /\ FitsAfter(t) /\ UNCHANGED ver /\ UNCHANGED rep
         /\ Pinning /\ BoundInv => BoundAfter(t)
         /\ w'[t].pc \notin {"load", "cas"}
<1> DEFINE s == stack[t]
           u == user[t]
<1>1. /\ Fits(w[t], s, u) /\ w[t] \in Operations /\ s \in Seq(Frames) /\ ver \in Nat
      /\ UNCHANGED <<stack, user, ver, rep>> /\ w[t].pc = "get"
      /\ w[t].op \in Reading /\ w[t].src \in Cached /\ w[t].op \in {"read", "stream"}
  BY Ordered DEF Get, db, Fits, Caching, Reading
<1>2. CASE Hit(cache, w[t].src, w[t].key) /\ Done(t, "hit", Entry(cache, w[t].src, w[t].key).v)
  <2> DEFINE v == Entry(cache, w[t].src, w[t].key).v
  <2>1. v \in 0..MaxWrites
    <3>1. Entry(cache, w[t].src, w[t].key) \in CacheEntries
      BY <1>2, FoundThere DEF CacheInv, Balanced
    <3> QED
      BY <3>1 DEF CacheEntries
  <2> HIDE DEF v
  <2>2. /\ w'[t] \in Operations /\ w'[t].pc = "done" /\ w'[t].op = w[t].op
        /\ w'[t].src = w[t].src /\ w'[t].pushed = w[t].pushed
        /\ w'[t].v = v /\ w' = [w EXCEPT ![t] = w'[t]]
    BY <1>2, <2>1, DoneIs DEF v
  <2>3. Alone(t) /\ stack'[t] = s /\ user'[t] = u
    BY <1>1, <2>2, StayAlone
  <2>4. FitsAfter(t)
    BY <1>1, <2>2, <2>3, EndFits DEF FitsAfter
  <2>5. ASSUME Pinning, BoundInv PROVE BoundAfter(t)
    <3>1. Bound(w[t], s, u, ver) /\ u <= MaxScopes[t]
      BY <2>5 DEF BoundInv
    <3>2. ~ Top(s).shadow => Top(s).must = 0
      BY <1>1, <2>5, <3>1, CachedUnbound
    <3>3. ~ Top(s).shadow => v >= Top(s).must
      BY <2>1, <3>2
    <3>4. w[t].op \notin Writing
      BY <1>1 DEF Writing
    <3> HIDE DEF s, u
    <3>5. Bound(w'[t], s, u, ver)
      BY <1>1, <2>2, <3>1, <3>3, <3>4, BoundOn
    <3> QED
      BY <1>1, <2>3, <3>1, <3>5 DEF BoundAfter
  <2> QED
    BY <1>1, <2>2, <2>3, <2>4, <2>5
<1>3. CASE Goto(t, "attempt")
  <2>1. /\ w'[t] \in Operations /\ w'[t].pc = "attempt" /\ w'[t].op = w[t].op
        /\ w'[t].src = w[t].src /\ w'[t].pushed = w[t].pushed
        /\ w' = [w EXCEPT ![t] = w'[t]]
    BY <1>3, GotoIs DEF Pcs
  <2>2. Alone(t) /\ stack'[t] = s /\ user'[t] = u
    BY <1>1, <2>1, StayAlone
  <2>3. Fits(w'[t], s, u)
    BY <1>1, <2>1 DEF Fits
  <2>4. FitsAfter(t)
    BY <2>2, <2>3 DEF FitsAfter
  <2>5. ASSUME Pinning, BoundInv PROVE BoundAfter(t)
    <3>1. Bound(w[t], s, u, ver) /\ u <= MaxScopes[t]
      BY <2>5 DEF BoundInv
    <3>2. w[t].op \notin Writing
      BY <1>1 DEF Writing
    <3> HIDE DEF s, u
    <3>3. Bound(w'[t], s, u, ver)
      BY <1>1, <2>1, <3>1, <3>2, BoundOn
    <3> QED
      BY <1>1, <2>2, <3>1, <3>3 DEF BoundAfter
  <2> QED
    BY <1>1, <2>1, <2>2, <2>4, <2>5
<1> QED
  BY <1>2, <1>3 DEF Get

\* A data source is read.
LEMMA AttemptStep ==
  ASSUME ThreadsInv, NEW t \in Threads, Attempt(t)
  PROVE  /\ Alone(t) /\ FitsAfter(t) /\ UNCHANGED ver /\ UNCHANGED rep
         /\ Pinning /\ BoundInv => BoundAfter(t)
         /\ w'[t].pc \notin {"load", "cas"}
<1> DEFINE s == stack[t]
           u == user[t]
           v == Version(w[t].src)
<1>1. /\ Fits(w[t], s, u) /\ w[t] \in Operations /\ s \in Seq(Frames) /\ ver \in Nat
      /\ UNCHANGED <<stack, user, ver, rep>> /\ w[t].pc = "attempt"
      /\ w[t].op \in Reading /\ w[t].op \in {"read", "stream"} /\ Current(t) = Top(s)
      /\ w[t].op \notin Writing
  BY Ordered DEF Attempt, db, Fits, Reading, Writing
<1>2. v \in 0..MaxWrites
  BY <1>1, VersionType DEF Operations
<1>3. CASE Caching(Top(s), w[t].op, w[t].src) /\ w' = [w EXCEPT ![t] = [@ EXCEPT !.pc = "put", !.v = v]]
  <2> DEFINE r == [w[t] EXCEPT !.pc = "put", !.v = v]
  <2> HIDE DEF v
  <2>1. r \in Operations /\ r.pc = "put" /\ r.op = w[t].op /\ r.src = w[t].src /\ r.pushed = w[t].pushed
    BY <1>1, <1>2 DEF Operations, Pcs
  <2>2. w' = [w EXCEPT ![t] = r]
    BY <1>3
  <2> HIDE DEF r
  <2>3. w'[t] = r
    BY <2>2 DEF ThreadsInv
  <2>4. w' = [w EXCEPT ![t] = w'[t]]
    BY <2>2, <2>3
  <2>5. Alone(t) /\ stack'[t] = s /\ user'[t] = u
    BY <1>1, <2>4, StayAlone
  <2>6. Fits(r, s, u)
    BY <1>1, <1>3, <2>1 DEF Fits
  <2>7. FitsAfter(t)
    BY <2>3, <2>5, <2>6 DEF FitsAfter
  <2>8. ASSUME Pinning, BoundInv PROVE BoundAfter(t)
    <3>1. Bound(w[t], s, u, ver) /\ u <= MaxScopes[t]
      BY <2>8 DEF BoundInv
    <3> HIDE DEF s, u
    <3>2. Bound(r, s, u, ver)
      BY <1>1, <2>1, <3>1, BoundOn
    <3> QED
      BY <1>1, <2>3, <2>5, <3>1, <3>2 DEF BoundAfter
  <2> QED
    BY <1>1, <2>1, <2>3, <2>5, <2>7, <2>8
<1>4. CASE Done(t, "ok", v)
  <2> HIDE DEF v
  <2>1. /\ w'[t] \in Operations /\ w'[t].pc = "done" /\ w'[t].op = w[t].op
        /\ w'[t].src = w[t].src /\ w'[t].pushed = w[t].pushed
        /\ w'[t].v = v /\ w' = [w EXCEPT ![t] = w'[t]]
    BY <1>2, <1>4, DoneIs
  <2>2. Alone(t) /\ stack'[t] = s /\ user'[t] = u
    BY <1>1, <2>1, StayAlone
  <2>3. FitsAfter(t)
    BY <1>1, <2>1, <2>2, EndFits DEF FitsAfter
  <2>4. ASSUME Pinning, BoundInv PROVE BoundAfter(t)
    <3>1. Bound(w[t], s, u, ver) /\ u <= MaxScopes[t]
      BY <2>4 DEF BoundInv
    <3>2. ~ Top(s).shadow => v >= Top(s).must
      BY <1>1, <3>1, ReadsEnough DEF v
    <3> HIDE DEF s, u
    <3>3. Bound(w'[t], s, u, ver)
      BY <1>1, <2>1, <3>1, <3>2, BoundOn
    <3> QED
      BY <1>1, <2>2, <3>1, <3>3 DEF BoundAfter
  <2> QED
    BY <1>1, <2>1, <2>2, <2>3, <2>4
<1>5. CASE Fail(t)
  <2>1. /\ w' = [w EXCEPT ![t] = w'[t]] /\ FitsAfter(t)
        /\ Pinning /\ BoundInv => BoundAfter(t)
        /\ w'[t].pc # "cas" /\ (w'[t].pc = "load" => w[t].pc = "open")
    BY <1>1, <1>5, FailStep
  <2>2. Alone(t)
    BY <1>1, <2>1, StayAlone
  <2> QED
    BY <1>1, <2>1, <2>2
<1> QED
  BY <1>1, <1>3, <1>4, <1>5 DEF Attempt

\* A result is put into the cache; the entry may be held there.
LEMMA PutResultStep ==
  ASSUME ThreadsInv, NEW t \in Threads, PutResult(t)
  PROVE  /\ Alone(t) /\ FitsAfter(t) /\ UNCHANGED ver /\ UNCHANGED rep
         /\ Pinning /\ BoundInv => BoundAfter(t)
         /\ w'[t].pc \notin {"load", "cas"}
         /\ \E e \in CacheEntries : cache' = Put(cache, e)
<1> DEFINE s == stack[t]
           u == user[t]
           v == w[t].v
           e == [src |-> w[t].src, key |-> w[t].key, v |-> v, bytes |-> Bytes[v], shadow |-> Top(s).shadow]
<1>1. /\ Fits(w[t], s, u) /\ w[t] \in Operations /\ s \in Seq(Frames) /\ ver \in Nat
      /\ UNCHANGED <<stack, user, ver, rep>> /\ w[t].pc = "put"
      /\ w[t].op \in Reading /\ w[t].op \in {"read", "stream"} /\ Current(t) = Top(s)
      /\ w[t].op \notin Writing /\ Caching(Top(s), w[t].op, w[t].src)
  BY Ordered DEF PutResult, db, Fits, Reading, Writing
<1>2. v \in 0..MaxWrites /\ w[t].key \in Keys \cup {0}
  BY <1>1 DEF Operations
<1>3. w[t].src \in Cached /\ Top(s).shadow = FALSE
  <2>1. Top(s).shadow \in BOOLEAN
    BY <1>1, TopOf DEF Frames
  <2>2. w[t].src \in Cached /\ ~ Top(s).shadow
    BY <1>1 DEF Caching
  <2> QED
    BY <2>1, <2>2, Zenon
<1>4. cache' = Put(cache, e)
  BY <1>1 DEF PutResult
<1>5. e \in CacheEntries
  <2>1. Bytes[v] \in Nat
    BY <1>2, ReadsAssumption
  <2> HIDE DEF v, s
  <2> QED
    BY <1>2, <1>3, <2>1 DEF CacheEntries
<1>6. Done(t, "ok", v)
  BY DEF PutResult
<1> HIDE DEF v
<1>7. /\ w'[t] \in Operations /\ w'[t].pc = "done" /\ w'[t].op = w[t].op
      /\ w'[t].src = w[t].src /\ w'[t].pushed = w[t].pushed
      /\ w'[t].v = v /\ w' = [w EXCEPT ![t] = w'[t]]
  BY <1>2, <1>6, DoneIs
<1>8. Alone(t) /\ stack'[t] = s /\ user'[t] = u
  BY <1>1, <1>7, StayAlone
<1>9. FitsAfter(t)
  BY <1>1, <1>7, <1>8, EndFits DEF FitsAfter
<1>10. ASSUME Pinning, BoundInv PROVE BoundAfter(t)
  <2>1. Bound(w[t], s, u, ver) /\ u <= MaxScopes[t]
    BY <1>10 DEF BoundInv
  <2>2. ~ Top(s).shadow => Top(s).must = 0
    BY <1>1, <1>3, <1>10, <2>1, CachedUnbound
  <2>3. ~ Top(s).shadow => v >= Top(s).must
    BY <1>2, <2>2
  <2> HIDE DEF s, u
  <2>4. Bound(w'[t], s, u, ver)
    BY <1>1, <1>7, <2>1, <2>3, BoundOn
  <2> QED
    BY <1>1, <1>8, <2>1, <2>4 DEF BoundAfter
<1> QED
  BY <1>1, <1>4, <1>5, <1>7, <1>8, <1>9, <1>10

\* ~ContextScope leaves the contexts of the caller.
LEMMA UnwoundIs ==
  ASSUME ThreadsInv, NEW t \in Threads
  PROVE  /\ Unwound(t) \in Seq(Frames) /\ Len(Unwound(t)) = user[t] /\ user[t] \in Nat
         /\ DOMAIN Unwound(t) = 1..user[t] /\ DOMAIN stack[t] = 1..Len(stack[t])
         /\ Len(stack[t]) \in Nat /\ user[t] <= Len(stack[t])
         /\ \A i \in 1..user[t] : Unwound(t)[i] = stack[t][i]
<1> DEFINE s == stack[t]
           u == user[t]
<1>1. /\ Fits(w[t], s, u) /\ w[t] \in Operations /\ s \in Seq(Frames) /\ u \in Nat
  BY Ordered
<1>2. Len(s) = u + (IF w[t].pushed THEN 1 ELSE 0) /\ Len(s) \in Nat /\ DOMAIN s = 1..Len(s)
  BY <1>1, LenProperties DEF Fits
<1>3. CASE w[t].pushed
  <2>1. (IF w[t].pushed THEN 1 ELSE 0) = 1 /\ Unwound(t) = Front(s)
    BY <1>3, Zenon DEF Unwound, s
  <2> HIDE DEF s, u
  <2>2. Len(s) > 0 /\ Len(s) - 1 = u
    BY <1>1, <1>2, <2>1
  <2>3. /\ Front(s) \in Seq(Frames) /\ Len(Front(s)) = Len(s) - 1
        /\ DOMAIN Front(s) = 1..(Len(s) - 1)
        /\ \A i \in 1..(Len(s) - 1) : Front(s)[i] = s[i]
    BY <1>1, <2>2, StackPop
  <2>4. /\ Unwound(t) \in Seq(Frames) /\ Len(Unwound(t)) = u /\ DOMAIN Unwound(t) = 1..u
        /\ u <= Len(s) /\ \A i \in 1..u : Unwound(t)[i] = s[i]
    BY <1>1, <1>2, <2>1, <2>2, <2>3
  <2> QED
    BY <1>1, <1>2, <2>4 DEF s, u
<1>4. CASE ~ w[t].pushed
  <2>1. (IF w[t].pushed THEN 1 ELSE 0) = 0 /\ Unwound(t) = s
    BY <1>4, Zenon DEF Unwound, s
  <2> HIDE DEF s, u
  <2>2. Len(s) = u
    BY <1>1, <1>2, <2>1
  <2> QED
    BY <1>1, <1>2, <2>1, <2>2 DEF s, u
<1> QED
  BY <1>3, <1>4

\* An operation ends; a write that was acknowledged binds the caller's context,
\* which it has pinned.
LEMMA EndStep ==
  ASSUME ThreadsInv, NEW t \in Threads, End(t)
  PROVE  /\ Alone(t) /\ FitsAfter(t) /\ UNCHANGED ver /\ UNCHANGED rep
         /\ Pinning /\ BoundInv => BoundAfter(t)
         /\ w'[t].pc \notin {"load", "cas"}
<1> DEFINE s == Unwound(t)
           u == user[t]
           acked == w[t].op \in {"write", "session"} /\ w[t].status = "ok" /\ w[t].src = "p"
           s2 == IF acked /\ s # <<>> THEN [s EXCEPT ![Len(s)].must = w[t].v] ELSE s
<1>1. /\ w[t] \in Operations /\ ver \in Nat /\ w[t].v \in Nat
      /\ UNCHANGED <<user, ver, rep>> /\ w[t].pc = "done"
      /\ stack' = [stack EXCEPT ![t] = s2] /\ w' = [w EXCEPT ![t] = NoOp]
  BY Ordered DEF End, db, Operations
<1>2. /\ s \in Seq(Frames) /\ Len(s) = u /\ u \in Nat /\ DOMAIN s = 1..u
      /\ u <= Len(stack[t]) /\ DOMAIN stack[t] = 1..Len(stack[t]) /\ Len(stack[t]) \in Nat
      /\ \A i \in 1..u : s[i] = stack[t][i]
  BY UnwoundIs
<1> HIDE DEF s, acked
<1>3. /\ s2 \in Seq(Frames) /\ Len(s2) = u
      /\ Pinning /\ BoundInv =>
           \A i \in DOMAIN s2 : s2[i].must <= ver /\ (s2[i].must > 0 => s2[i].wrote)
  <2>1. CASE acked /\ s # <<>>
    <3> DEFINE f == [s[u] EXCEPT !.must = w[t].v]
    <3>1. u # 0
      BY <1>2, <2>1, EmptySeq
    <3>2. u \in DOMAIN s
      BY <1>2, <3>1
    <3>3. s[u] \in Frames
      BY <1>2, <3>2
    <3>4. f \in Frames /\ f.must = w[t].v /\ f.wrote = s[u].wrote
      BY <1>1, <3>3 DEF Frames
    <3>5. s2 = [s EXCEPT ![u] = f]
      BY <1>2, <2>1
    <3> HIDE DEF f, s2
    <3>6. /\ s2 \in Seq(Frames) /\ Len(s2) = u /\ DOMAIN s2 = DOMAIN s
          /\ \A j \in DOMAIN s : s2[j] = IF j = u THEN f ELSE s[j]
      BY <1>2, <3>2, <3>4, <3>5, StackChange
    <3>7. ASSUME Pinning, BoundInv
          PROVE  \A i \in DOMAIN s2 : s2[i].must <= ver /\ (s2[i].must > 0 => s2[i].wrote)
      <4>1. Bound(w[t], stack[t], u, ver) /\ w[t].op \in Writing
        BY <2>1, <3>7 DEF BoundInv, acked, Writing
      <4> HIDE DEF u
      <4>2. u = 1 /\ stack[t][1].wrote /\ w[t].v <= ver
        BY <1>1, <1>2, <3>1, <4>1 DEF Bound
      <4>3. s[1].wrote
        BY <1>2, <4>2
      <4>4. f.wrote
        BY <3>4, <4>2, <4>3
      <4>5. DOMAIN s2 = {1} /\ s2[1] = f
        BY <1>2, <3>6, <4>2
      <4> QED
        BY <3>4, <4>2, <4>4, <4>5
    <3> QED
      BY <3>6, <3>7
  <2>2. CASE ~ (acked /\ s # <<>>)
    <3>1. s2 = s
      BY <2>2
    <3> HIDE DEF s2
    <3>2. ASSUME Pinning, BoundInv
          PROVE  \A i \in DOMAIN s2 : s2[i].must <= ver /\ (s2[i].must > 0 => s2[i].wrote)
      <4>1. Bound(w[t], stack[t], u, ver)
        BY <3>2 DEF BoundInv
      <4>2. \A i \in 1..u : i \in DOMAIN stack[t]
        BY <1>2
      <4> QED
        BY <1>2, <3>1, <4>1, <4>2 DEF Bound
    <3> QED
      BY <1>2, <3>1, <3>2
  <2> QED
    BY <2>1, <2>2
<1> HIDE DEF s2
<1>4. w'[t] = NoOp /\ stack'[t] = s2 /\ user'[t] = u /\ Alone(t)
  BY <1>1 DEF ThreadsInv, Alone
<1>5. FitsAfter(t)
  <2>1. (IF NoOp.pushed THEN 1 ELSE 0) = 0
    BY NoOpType, Zenon
  <2>2. Fits(NoOp, s2, u)
    BY <1>2, <1>3, <2>1, NoOpType DEF Fits
  <2> QED
    BY <1>4, <2>2 DEF FitsAfter
<1>6. ASSUME Pinning, BoundInv PROVE BoundAfter(t)
  <2>1. u <= 1 /\ u <= MaxScopes[t]
    BY <1>6 DEF BoundInv, Bound
  <2>2. Bound(NoOp, s2, u, ver)
    BY <1>3, <1>6, <2>1, NoOpType DEF Bound, Reading, Writing
  <2> QED
    BY <1>1, <1>4, <2>1, <2>2 DEF BoundAfter
<1> QED
  BY <1>1, <1>4, <1>5, <1>6, NoOpType

\* A failure ends an operation in its contexts.
LEMMA ErrorStep ==
  ASSUME ThreadsInv, NEW t \in Threads, Error(t), UNCHANGED <<stack, user>>, ver' \in Nat, ver <= ver'
  PROVE  /\ Alone(t) /\ FitsAfter(t) /\ w'[t].pc = "done"
         /\ BoundInv => BoundAfter(t)
<1> DEFINE s == stack[t]
           u == user[t]
<1>1. Fits(w[t], s, u) /\ w[t] \in Operations /\ s \in Seq(Frames) /\ ver \in Nat
  BY Ordered
<1>2. /\ w'[t] \in Operations /\ w'[t].pc = "done" /\ w'[t].op = "none"
      /\ w'[t].pushed = w[t].pushed /\ w' = [w EXCEPT ![t] = w'[t]]
  BY ErrorIs
<1>3. Alone(t) /\ stack'[t] = s /\ user'[t] = u
  BY <1>2, StayAlone
<1>4. FitsAfter(t)
  BY <1>1, <1>2, <1>3, EndFits DEF FitsAfter
<1>5. ASSUME BoundInv PROVE BoundAfter(t)
  <2>1. Bound(w[t], s, u, ver) /\ u <= MaxScopes[t]
    BY <1>5 DEF BoundInv
  <2> HIDE DEF s, u
  <2>2. Bound(w'[t], s, u, ver')
    BY <1>1, <1>2, <2>1, ErrorBound
  <2> QED
    BY <1>3, <2>1, <2>2 DEF BoundAfter
<1> QED
  BY <1>2, <1>3, <1>4, <1>5

\* A write goes on in its contexts.
LEMMA WriterStep ==
  ASSUME ThreadsInv, NEW t \in Threads, NEW r \in Operations, w' = [w EXCEPT ![t] = r],
         UNCHANGED <<stack, user>>, ver' \in Nat, ver <= ver',
         w[t].op \in Writing, r.op = w[t].op, r.pushed = w[t].pushed,
         r.pc \in {"mark", "replicas", "done"},
         r.pc # "mark" => w[t].pc \in {"group", "replicas"},
         BoundInv => r.v <= ver'
  PROVE  /\ Alone(t) /\ FitsAfter(t) /\ w'[t].pc = r.pc
         /\ BoundInv => BoundAfter(t)
<1> DEFINE s == stack[t]
           u == user[t]
<1>1. Fits(w[t], s, u) /\ w[t] \in Operations /\ s \in Seq(Frames) /\ ver \in Nat
  BY Ordered
<1>2. w'[t] = r
  BY DEF ThreadsInv
<1>3. w' = [w EXCEPT ![t] = w'[t]]
  BY <1>2
<1>4. Alone(t) /\ stack'[t] = s /\ user'[t] = u
  BY <1>3, StayAlone
<1>5. r.op \notin Reading
  BY DEF Reading, Writing
<1>6. Fits(r, s, u)
  BY <1>1 DEF Fits
<1>7. ASSUME BoundInv PROVE BoundAfter(t)
  <2>1. Bound(w[t], s, u, ver) /\ u <= MaxScopes[t]
    BY <1>7 DEF BoundInv
  <2>2. \A i \in DOMAIN s : s[i].must \in Nat
    BY <1>1, Musts
  <2> HIDE DEF s, u
  <2>3. Bound(r, s, u, ver')
    BY <1>1, <1>5, <1>7, <2>1, <2>2 DEF Bound
  <2> QED
    BY <1>2, <1>4, <2>1, <2>3 DEF BoundAfter
<1> QED
  BY <1>2, <1>4, <1>6, <1>7 DEF FitsAfter

\* A statement on the primary or on the shadow.
LEMMA WriteStep ==
  ASSUME ThreadsInv, NEW t \in Threads, Write(t)
  PROVE  /\ Alone(t) /\ FitsAfter(t) /\ UNCHANGED rep /\ ver' \in 0..MaxWrites /\ ver <= ver'
         /\ BoundInv => BoundAfter(t)
         /\ w'[t].pc \notin {"load", "cas"}
<1>1. /\ Fits(w[t], stack[t], user[t]) /\ w[t] \in Operations /\ ver \in Nat
      /\ ver \in 0..MaxWrites /\ MaxWrites \in Nat
      /\ UNCHANGED <<stack, user, rep>> /\ w[t].op \in Writing
  BY Ordered DEF Write, Fits
<1>2. CASE ver < MaxWrites /\ ver' = ver + 1 /\ w' = [w EXCEPT ![t] = [@ EXCEPT !.v = ver + 1, !.pc = "mark"]]
  <2> DEFINE r == [w[t] EXCEPT !.v = ver + 1, !.pc = "mark"]
  <2>1. ver + 1 \in 0..MaxWrites /\ ver' \in Nat /\ ver <= ver'
    BY <1>1, <1>2
  <2>2. /\ r \in Operations /\ r.op = w[t].op /\ r.pushed = w[t].pushed /\ r.pc = "mark"
        /\ r.v = ver + 1
    BY <1>1, <2>1 DEF Operations, Pcs
  <2>3. w' = [w EXCEPT ![t] = r]
    BY <1>2
  <2> HIDE DEF r
  <2>4. r.v <= ver'
    BY <1>1, <1>2, <2>2
  <2>5. Alone(t) /\ FitsAfter(t) /\ w'[t].pc = r.pc /\ (BoundInv => BoundAfter(t))
    BY <1>1, <2>1, <2>2, <2>3, <2>4, WriterStep
  <2> QED
    BY <1>1, <1>2, <2>1, <2>2, <2>5
<1>3. CASE ((ver < MaxWrites /\ ver' = ver + 1) \/ UNCHANGED ver) /\ Error(t)
  <2>1. ver' \in 0..MaxWrites /\ ver' \in Nat /\ ver <= ver'
    BY <1>1, <1>3
  <2>2. Alone(t) /\ FitsAfter(t) /\ w'[t].pc = "done" /\ (BoundInv => BoundAfter(t))
    BY <1>1, <1>3, <2>1, ErrorStep
  <2> QED
    BY <1>1, <2>1, <2>2
<1>4. CASE UNCHANGED ver /\ w' = [w EXCEPT ![t] = [@ EXCEPT !.src = "s", !.pc = "mark"]]
  <2> DEFINE r == [w[t] EXCEPT !.src = "s", !.pc = "mark"]
  <2>1. ver' \in 0..MaxWrites /\ ver' \in Nat /\ ver <= ver'
    BY <1>1, <1>4
  <2>2. /\ r \in Operations /\ r.op = w[t].op /\ r.pushed = w[t].pushed /\ r.pc = "mark"
        /\ r.v = w[t].v
    BY <1>1 DEF Operations, Pcs, Sources
  <2>3. w' = [w EXCEPT ![t] = r]
    BY <1>4
  <2> HIDE DEF r
  <2>4. BoundInv => r.v <= ver'
    <3>1. BoundInv => w[t].v <= ver
      BY <1>1 DEF BoundInv, Bound
    <3> QED
      BY <1>4, <2>2, <3>1
  <2>5. Alone(t) /\ FitsAfter(t) /\ w'[t].pc = r.pc /\ (BoundInv => BoundAfter(t))
    BY <1>1, <2>1, <2>2, <2>3, <2>4, WriterStep
  <2> QED
    BY <1>1, <2>1, <2>2, <2>5
<1> QED
  BY <1>2, <1>3, <1>4 DEF Write

\* markWrite of the data source pins the caller's context.
LEMMA MarkLeafStep ==
  ASSUME ThreadsInv, NEW t \in Threads, MarkLeaf(t)
  PROVE  /\ Alone(t) /\ FitsAfter(t) /\ UNCHANGED ver /\ UNCHANGED rep
         /\ Pinning /\ BoundInv => BoundAfter(t)
         /\ w'[t].pc \notin {"load", "cas"}
<1> DEFINE s == stack[t]
           u == user[t]
           s1 == IF w[t].op = "session" THEN Unwound(t) ELSE s
           s2 == Pinned(s1)
           r == [w[t] EXCEPT !.pc = "group", !.pushed = w[t].pushed /\ w[t].op # "session"]
<1>1. /\ Fits(w[t], s, u) /\ w[t] \in Operations /\ s \in Seq(Frames) /\ ver \in Nat /\ u \in Nat
      /\ UNCHANGED <<user, ver, rep>> /\ w[t].op \in Writing
  BY Ordered DEF MarkLeaf, db, Fits
<1>2. stack' = [stack EXCEPT ![t] = s2] /\ w' = [w EXCEPT ![t] = r]
  <2>1. w' = [w EXCEPT ![t] = r]
    BY Zenon DEF MarkLeaf
  <2>2. stack' = [stack EXCEPT ![t] = Pinned(IF w[t].op = "session" THEN Unwound(t) ELSE stack[t])]
    BY Zenon DEF MarkLeaf
  <2> QED
    BY <2>1, <2>2, Zenon
<1>3. /\ r \in Operations /\ r.pc = "group" /\ r.op = w[t].op /\ r.v = w[t].v
  BY <1>1 DEF Operations, Pcs
<1>4. r.pushed <=> w[t].pushed /\ w[t].op # "session"
  BY <1>1 DEF Operations
<1> HIDE DEF r
<1>5. /\ s1 \in Seq(Frames) /\ Len(s1) = u + (IF r.pushed THEN 1 ELSE 0)
      /\ DOMAIN s = 1..Len(s) /\ DOMAIN s1 = 1..Len(s1) /\ Len(s1) <= Len(s)
      /\ Len(s) \in Nat /\ Len(s1) \in Nat
      /\ \A i \in 1..Len(s1) : s1[i] = s[i]
  <2>1. CASE w[t].op = "session"
    <3>1. (IF r.pushed THEN 1 ELSE 0) = 0
      BY <1>4, <2>1, Zenon
    <3>2. s1 = Unwound(t)
      BY <2>1
    <3> HIDE DEF s1
    <3> QED
      BY <3>1, <3>2, UnwoundIs
  <2>2. CASE w[t].op # "session"
    <3>1. (IF r.pushed THEN 1 ELSE 0) = (IF w[t].pushed THEN 1 ELSE 0)
      BY <1>4, <2>2, Zenon
    <3>2. Len(s) = u + (IF w[t].pushed THEN 1 ELSE 0)
      BY <1>1 DEF Fits
    <3>3. s1 = s
      BY <2>2
    <3>4. Len(s) = u + (IF r.pushed THEN 1 ELSE 0)
      BY <3>1, <3>2, Zenon
    <3> HIDE DEF s1, s, u
    <3>5. Len(s) \in Nat /\ DOMAIN s = 1..Len(s)
      BY <1>1, LenProperties
    <3> QED
      BY <1>1, <3>3, <3>4, <3>5
  <2> QED
    BY <2>1, <2>2
<1> HIDE DEF s1
<1>6. /\ s2 \in Seq(Frames) /\ Len(s2) = Len(s1) /\ DOMAIN s2 = DOMAIN s1
      /\ \A i \in DOMAIN s1 : s2[i].must = s1[i].must /\ (s1[i].wrote => s2[i].wrote)
      /\ Len(s1) \in {1, 2} => s2[1].wrote
  BY <1>5, PinnedStack
<1> HIDE DEF s2
<1>7. w'[t] = r /\ stack'[t] = s2 /\ user'[t] = u /\ Alone(t)
  BY <1>1, <1>2 DEF ThreadsInv, Alone
<1>8. Fits(r, s2, u)
  BY <1>1, <1>3, <1>5, <1>6 DEF Fits
<1>9. ASSUME Pinning, BoundInv PROVE BoundAfter(t)
  <2>1. Bound(w[t], s, u, ver) /\ u <= MaxScopes[t]
    BY <1>9 DEF BoundInv
  <2>2. Len(s1) \in {u, u + 1}
    <3>1. (IF r.pushed THEN 1 ELSE 0) \in {0, 1}
      BY Zenon
    <3> HIDE DEF u
    <3> QED
      BY <1>1, <1>5, <3>1
  <2> HIDE DEF s, u
  <2>3. u <= 1 /\ (u = 1 => s2[1].wrote)
    <3>1. u <= 1
      BY <2>1 DEF Bound
    <3>2. u = 1 => Len(s1) \in {1, 2}
      BY <2>2
    <3> QED
      BY <1>6, <3>1, <3>2
  <2>4. \A i \in DOMAIN s2 : s2[i].must <= ver /\ (s2[i].must > 0 => s2[i].wrote)
    <3>1. \A i \in DOMAIN s1 : i \in DOMAIN s /\ s1[i] = s[i]
      BY <1>5
    <3> QED
      BY <1>6, <2>1, <3>1 DEF Bound
  <2>5. r.op \notin Reading /\ r.v <= ver
    BY <1>1, <1>3, <2>1 DEF Bound, Reading, Writing
  <2>6. Bound(r, s2, u, ver)
    BY <2>3, <2>4, <2>5 DEF Bound
  <2> QED
    BY <1>1, <1>7, <2>1, <2>6 DEF BoundAfter
<1> QED
  BY <1>1, <1>3, <1>7, <1>8, <1>9 DEF FitsAfter

\* markWrite of the group.
LEMMA MarkGroupStep ==
  ASSUME ThreadsInv, NEW t \in Threads, MarkGroup(t)
  PROVE  /\ Alone(t) /\ FitsAfter(t) /\ UNCHANGED ver /\ UNCHANGED rep
         /\ BoundInv => BoundAfter(t)
         /\ w'[t].pc \notin {"load", "cas"}
<1>1. /\ Fits(w[t], stack[t], user[t]) /\ w[t] \in Operations /\ ver \in Nat
      /\ UNCHANGED <<stack, user, ver, rep>> /\ w[t].op \in Writing /\ w[t].pc = "group"
      /\ w[t].v \in Nat /\ 0 \in 0..MaxWrites
  BY Ordered DEF MarkGroup, db, Fits, Operations
<1>2. Done(t, "ok", 0) \/ Goto(t, "replicas")
  BY DEF MarkGroup
<1>3. /\ w'[t] \in Operations /\ w'[t].pc \in {"done", "replicas"} /\ w'[t].op = w[t].op
      /\ w'[t].pushed = w[t].pushed /\ w'[t].v \in {0, w[t].v}
      /\ w' = [w EXCEPT ![t] = w'[t]]
  <2>1. CASE Done(t, "ok", 0)
    BY <1>1, <2>1, DoneIs
  <2>2. CASE Goto(t, "replicas")
    <3>1. "replicas" \in Pcs
      BY DEF Pcs
    <3> QED
      BY <2>2, <3>1, GotoIs
  <2> QED
    BY <1>2, <2>1, <2>2
<1>4. ASSUME BoundInv PROVE w'[t].v <= ver
  <2>1. w[t].v <= ver
    BY <1>1, <1>4 DEF BoundInv, Bound
  <2> QED
    BY <1>1, <1>3, <2>1
<1>5. Alone(t) /\ FitsAfter(t) /\ (BoundInv => BoundAfter(t))
  <2> DEFINE r == w'[t]
  <2>1. /\ r \in Operations /\ w' = [w EXCEPT ![t] = r] /\ r.op = w[t].op /\ r.pushed = w[t].pushed
        /\ r.pc \in {"mark", "replicas", "done"} /\ ver' \in Nat /\ ver <= ver'
        /\ BoundInv => r.v <= ver'
    BY <1>1, <1>3, <1>4
  <2> HIDE DEF r
  <2> QED
    BY <1>1, <2>1, WriterStep
<1> QED
  BY <1>1, <1>3, <1>5

\* Its end.
LEMMA MarkReplicasStep ==
  ASSUME ThreadsInv, NEW t \in Threads, MarkReplicas(t)
  PROVE  /\ Alone(t) /\ FitsAfter(t) /\ UNCHANGED ver /\ UNCHANGED rep
         /\ BoundInv => BoundAfter(t)
         /\ w'[t].pc \notin {"load", "cas"}
<1>1. /\ Fits(w[t], stack[t], user[t]) /\ w[t] \in Operations /\ ver \in Nat
      /\ UNCHANGED <<stack, user, ver, rep>> /\ w[t].op \in Writing /\ w[t].pc = "replicas"
      /\ w[t].v \in 0..MaxWrites
  BY Ordered DEF MarkReplicas, db, Fits, Operations
<1>2. CASE Error(t)
  BY <1>1, <1>2, ErrorStep
<1>3. CASE Done(t, "ok", w[t].v)
  <2> DEFINE r == w'[t]
  <2>1. /\ r \in Operations /\ w' = [w EXCEPT ![t] = r] /\ r.op = w[t].op /\ r.pushed = w[t].pushed
        /\ r.pc = "done" /\ r.v = w[t].v
    BY <1>1, <1>3, DoneIs
  <2>2. BoundInv => r.v <= ver'
    BY <1>1, <2>1 DEF BoundInv, Bound
  <2>3. ver' \in Nat /\ ver <= ver'
    BY <1>1
  <2>4. r.pc \notin {"load", "cas"}
    BY <2>1
  <2> HIDE DEF r
  <2>5. Alone(t) /\ FitsAfter(t) /\ (BoundInv => BoundAfter(t))
    BY <1>1, <2>1, <2>2, <2>3, WriterStep
  <2> QED
    BY <1>1, <2>4, <2>5 DEF r
<1> QED
  BY <1>2, <1>3 DEF MarkReplicas

-----------------------------------------------------------------------------
(* Cursors. *)

\* A cursor that is being opened goes on in its contexts.
LEMMA CursorStep ==
  ASSUME ThreadsInv, NEW t \in Threads, NEW r \in Operations, w' = [w EXCEPT ![t] = r],
         UNCHANGED <<stack, user, ver>>, w[t].op = "cursor", r.op = "cursor",
         r.src = w[t].src, r.pushed = w[t].pushed, r.pc \in {"load", "cas", "open"}
  PROVE  /\ Alone(t) /\ FitsAfter(t) /\ w'[t] = r
         /\ BoundInv => BoundAfter(t)
<1> DEFINE s == stack[t]
           u == user[t]
<1>1. Fits(w[t], s, u) /\ w[t] \in Operations /\ s \in Seq(Frames) /\ ver \in Nat
  BY Ordered
<1>2. w'[t] = r
  BY DEF ThreadsInv
<1>3. w' = [w EXCEPT ![t] = w'[t]]
  BY <1>2
<1>4. Alone(t) /\ stack'[t] = s /\ user'[t] = u
  BY <1>3, StayAlone
<1>5. Fits(r, s, u)
  BY <1>1 DEF Fits
<1>6. ASSUME BoundInv PROVE BoundAfter(t)
  <2>1. /\ Bound(w[t], s, u, ver) /\ u <= MaxScopes[t] /\ w[t].op \notin Writing
        /\ r.pc # "done" /\ r.op = w[t].op /\ ver <= ver
    BY <1>1, <1>6 DEF BoundInv, Writing
  <2> HIDE DEF s, u
  <2>2. Bound(r, s, u, ver)
    BY <1>1, <2>1, BoundOn
  <2> QED
    BY <1>2, <1>4, <2>1, <2>2 DEF BoundAfter
<1> QED
  BY <1>2, <1>4, <1>5, <1>6 DEF FitsAfter

Count(L, x) == Cardinality({m \in L : m.src = x})

\* The leases on a data source are counted.
LEMMA LeasesFinite ==
  ASSUME NEW L, IsFiniteSet(L), NEW x
  PROVE  IsFiniteSet({m \in L : m.src = x}) /\ Count(L, x) \in Nat
<1>1. {m \in L : m.src = x} \in SUBSET L
  OBVIOUS
<1> QED
  BY <1>1, FS_Subset, FS_CardinalityType DEF Count

\* One is added.
LEMMA LeaseAdded ==
  ASSUME NEW L, IsFiniteSet(L), NEW l, l \notin L, NEW x
  PROVE  /\ Count(L, x) \in Nat /\ Count(L \cup {l}, x) \in Nat
         /\ Count(L \cup {l}, x) = Count(L, x) + IF l.src = x THEN 1 ELSE 0
<1> DEFINE M == L \cup {l}
           A == {m \in L : m.src = x}
           B == {m \in M : m.src = x}
<1>1. IsFiniteSet(M)
  BY FS_AddElement
<1>2. IsFiniteSet(A) /\ Count(L, x) \in Nat /\ Count(M, x) \in Nat
  BY <1>1, LeasesFinite
<1>3. Count(L, x) = Cardinality(A) /\ Count(M, x) = Cardinality(B)
  BY DEF Count
<1>4. CASE l.src = x
  <2>1. B = A \cup {l} /\ l \notin A
    BY <1>4
  <2> HIDE DEF A, B, M
  <2>2. Cardinality(B) = Cardinality(A) + 1
    BY <1>2, <2>1, FS_AddElement
  <2> QED
    BY <1>2, <1>3, <1>4, <2>2 DEF M
<1>5. CASE l.src # x
  <2>1. B = A
    BY <1>5
  <2> HIDE DEF A, B, M
  <2> QED
    BY <1>2, <1>3, <1>5, <2>1 DEF M
<1> QED
  BY <1>4, <1>5

\* One ends.
LEMMA LeaseEnded ==
  ASSUME NEW L, IsFiniteSet(L), NEW l, l \in L, NEW x
  PROVE  /\ Count(L, x) \in Nat /\ Count(L \ {l}, x) \in Nat
         /\ Count(L \ {l}, x) = Count(L, x) - IF l.src = x THEN 1 ELSE 0
<1> DEFINE M == L \ {l}
           A == {m \in L : m.src = x}
           B == {m \in M : m.src = x}
<1>1. IsFiniteSet(M)
  BY FS_RemoveElement
<1>2. IsFiniteSet(A) /\ Count(L, x) \in Nat /\ Count(M, x) \in Nat
  BY <1>1, LeasesFinite
<1>3. Count(L, x) = Cardinality(A) /\ Count(M, x) = Cardinality(B)
  BY DEF Count
<1>4. CASE l.src = x
  <2>1. B = A \ {l} /\ l \in A
    BY <1>4
  <2> HIDE DEF A, B, M
  <2>2. Cardinality(B) = Cardinality(A) - 1
    BY <1>2, <2>1, FS_RemoveElement
  <2> QED
    BY <1>2, <1>3, <1>4, <2>2 DEF M
<1>5. CASE l.src # x
  <2>1. B = A
    BY <1>5
  <2> HIDE DEF A, B, M
  <2> QED
    BY <1>2, <1>3, <1>5, <2>1 DEF M
<1> QED
  BY <1>4, <1>5

\* What the budget is, for a step.
LEMMA BudgetIs ==
  ASSUME BudgetInv
  PROVE  /\ DOMAIN budget.open = Sources /\ budget.open \in [Sources -> Nat]
         /\ budget.leases \subseteq [t : Threads, src : Sources] /\ IsFiniteSet(budget.leases)
         /\ \A l \in budget.leases : l.t \in Threads /\ l.src \in Sources
  BY DEF BudgetInv

\* The other threads stay where they are.
LEMMA OthersStay ==
  ASSUME ThreadsInv, NEW t \in Threads, Alone(t), NEW i \in Threads, i # t
  PROVE  w'[i] = w[i] /\ stack'[i] = stack[i] /\ user'[i] = user[i]
  BY DEF ThreadsInv, Alone

\* A step that leaves the budget alone keeps it; a thread asks for a lease only
\* when it has none.
LEMMA BudgetKept ==
  ASSUME ThreadsInv, BudgetInv, NEW t \in Threads, Alone(t), UNCHANGED budget,
         w'[t].pc = "cas" => CursorLimit > 0,
         w'[t].pc \in {"load", "cas"} => ~ \E l \in budget.leases : l.t = t
  PROVE  BudgetInv'
<1>1. \A l \in budget.leases : w'[l.t].pc \notin {"load", "cas"}
  <2> SUFFICES ASSUME NEW l \in budget.leases PROVE w'[l.t].pc \notin {"load", "cas"}
    OBVIOUS
  <2>1. l.t \in Threads /\ w[l.t].pc \notin {"load", "cas"}
    BY BudgetIs DEF BudgetInv
  <2> QED
    BY <2>1, OthersStay
<1>2. \A i \in Threads : w'[i].pc = "cas" => CursorLimit > 0
  BY OthersStay DEF BudgetInv
<1>3. CursorsCounted'
  BY DEF BudgetInv, CursorsCounted
<1> QED
  BY <1>1, <1>2, <1>3 DEF BudgetInv

\* A lease ends, and with it the only one of its thread.
LEMMA ReleaseKeeps ==
  ASSUME ThreadsInv, BudgetInv, NEW l \in budget.leases, Alone(l.t), budget' = Released(l),
         w'[l.t].pc # "cas"
  PROVE  BudgetInv'
<1> DEFINE L == budget.leases
           L2 == L \ {l}
           o == budget.open
           o2 == [o EXCEPT ![l.src] = o[l.src] - 1]
<1>1. budget' = [open |-> o2, leases |-> L2]
  BY DEF Released
<1>2. /\ o \in [Sources -> Nat] /\ L \subseteq [t : Threads, src : Sources] /\ IsFiniteSet(L)
      /\ l.t \in Threads /\ l.src \in Sources /\ CursorLimit \in Nat
  BY BudgetIs, ReadsAssumption
<1>3. /\ budget'.open = o2 /\ budget'.leases = L2 /\ IsFiniteSet(L2)
  BY <1>1, <1>2, FS_RemoveElement
<1>4. \A x \in Sources :
        /\ Count(L, x) \in Nat /\ o[x] = Count(L, x) /\ (CursorLimit > 0 => o[x] <= CursorLimit)
        /\ Count(L2, x) \in Nat /\ Count(L2, x) = Count(L, x) - IF l.src = x THEN 1 ELSE 0
  <2> SUFFICES ASSUME NEW x \in Sources
               PROVE  /\ Count(L, x) \in Nat /\ o[x] = Count(L, x)
                      /\ CursorLimit > 0 => o[x] <= CursorLimit
                      /\ Count(L2, x) \in Nat
                      /\ Count(L2, x) = Count(L, x) - IF l.src = x THEN 1 ELSE 0
    OBVIOUS
  <2>1. o[x] = Count(L, x) /\ (CursorLimit > 0 => o[x] <= CursorLimit)
    BY DEF BudgetInv, CursorsCounted, Count
  <2>2. /\ Count(L, x) \in Nat /\ Count(L2, x) \in Nat
        /\ Count(L2, x) = Count(L, x) - IF l.src = x THEN 1 ELSE 0
    <3>1. l \in L /\ IsFiniteSet(L)
      BY <1>2
    <3> HIDE DEF L
    <3> QED
      BY <3>1, LeaseEnded
  <2> QED
    BY <2>1, <2>2
<1> HIDE DEF o, L2
<1>5. \A x \in Sources : o2[x] = o[x] - IF l.src = x THEN 1 ELSE 0
  BY <1>2
<1>6. o2 \in [Sources -> Nat] /\ \A x \in Sources : o2[x] = Count(L2, x)
  <2>1. \A x \in Sources : o2[x] = Count(L2, x) /\ o2[x] \in Nat
    BY <1>4, <1>5
  <2> QED
    BY <1>2, <2>1
<1>7. \A x \in Sources : CursorLimit > 0 => o2[x] <= CursorLimit
  BY <1>2, <1>4, <1>5
<1> HIDE DEF o2, L
<1>8. CursorsCounted'
  BY <1>3, <1>6, <1>7 DEF CursorsCounted, Count
<1>9. budget' \in [open : [Sources -> Nat], leases : SUBSET [t : Threads, src : Sources]]
  BY <1>1, <1>2, <1>6 DEF L, L2
<1>10. \A m \in L2 : m \in budget.leases /\ m # l /\ m.t # l.t /\ m.t \in Threads
  BY <1>2 DEF BudgetInv, L2, L
<1>11. \A m \in L2 : w'[m.t].pc \notin {"load", "cas"}
  BY <1>2, <1>10, OthersStay DEF BudgetInv
<1>12. \A i \in Threads : w'[i].pc = "cas" => CursorLimit > 0
  BY <1>2, OthersStay DEF BudgetInv
<1>13. \A m, n \in L2 : m.t = n.t => m = n
  BY <1>10 DEF BudgetInv
<1> QED
  BY <1>3, <1>8, <1>9, <1>11, <1>12, <1>13 DEF BudgetInv

\* cursorBudgetAcquire reads the count.
LEMMA BudgetLoadStep ==
  ASSUME ThreadsInv, BudgetInv, NEW t \in Threads, BudgetLoad(t)
  PROVE  /\ Alone(t) /\ FitsAfter(t) /\ UNCHANGED ver /\ UNCHANGED rep /\ BudgetInv'
         /\ BoundInv => BoundAfter(t)
<1> DEFINE pc == IF CursorLimit = 0 THEN "open" ELSE "cas"
           n == budget.open[w[t].src]
           r == [w[t] EXCEPT !.pc = pc, !.seen = n]
<1>1. /\ Fits(w[t], stack[t], user[t]) /\ w[t] \in Operations /\ w[t].pc = "load"
      /\ UNCHANGED <<stack, user, ver, rep, budget>> /\ w[t].op = "cursor"
      /\ w' = [w EXCEPT ![t] = r]
  BY Ordered DEF BudgetLoad, db, Fits
<1>2. n \in Nat /\ pc \in {"open", "cas"} /\ (pc = "cas" => CursorLimit > 0)
  <2>1. w[t].src \in Sources
    BY <1>1 DEF Operations
  <2> QED
    BY <2>1, BudgetIs, ReadsAssumption
<1> HIDE DEF pc, n
<1>3. /\ r \in Operations /\ r.pc = pc /\ r.op = "cursor" /\ r.src = w[t].src /\ r.pushed = w[t].pushed
  BY <1>1, <1>2 DEF Operations, Pcs
<1> HIDE DEF r
<1>4. Alone(t) /\ FitsAfter(t) /\ w'[t] = r /\ (BoundInv => BoundAfter(t))
  BY <1>1, <1>2, <1>3, CursorStep
<1>5. ~ \E l \in budget.leases : l.t = t
  BY <1>1 DEF BudgetInv
<1>6. BudgetInv'
  BY <1>1, <1>2, <1>3, <1>4, <1>5, BudgetKept
<1> QED
  BY <1>1, <1>4, <1>6

\* It raises the count if it has not changed, or reads it again, or refuses.
LEMMA BudgetCasStep ==
  ASSUME ThreadsInv, BudgetInv, NEW t \in Threads, BudgetCas(t)
  PROVE  /\ Alone(t) /\ FitsAfter(t) /\ UNCHANGED ver /\ UNCHANGED rep /\ BudgetInv'
         /\ BoundInv => BoundAfter(t)
<1>1. /\ Fits(w[t], stack[t], user[t]) /\ w[t] \in Operations /\ w[t].pc = "cas"
      /\ UNCHANGED <<stack, user, ver, rep>> /\ w[t].op = "cursor" /\ ver \in Nat
      /\ w[t].src \in Sources /\ w[t].seen \in Nat /\ CursorLimit \in Nat
  BY Ordered, ReadsAssumption DEF BudgetCas, db, Fits, Operations
<1>2. \A l \in budget.leases : l.t # t
  BY <1>1 DEF BudgetInv
<1>3. CASE Error(t) /\ UNCHANGED budget
  <2>1. Alone(t) /\ FitsAfter(t) /\ w'[t].pc = "done" /\ (BoundInv => BoundAfter(t))
    BY <1>1, <1>3, ErrorStep
  <2>2. BudgetInv'
    BY <1>3, <2>1, BudgetKept
  <2> QED
    BY <1>1, <2>1, <2>2
<1>4. CASE Goto(t, "load") /\ UNCHANGED budget
  <2> DEFINE r == w'[t]
  <2>1. "load" \in Pcs
    BY DEF Pcs
  <2>2. /\ r \in Operations /\ r.pc = "load" /\ r.op = "cursor" /\ r.src = w[t].src
        /\ r.pushed = w[t].pushed /\ w' = [w EXCEPT ![t] = r]
    BY <1>1, <1>4, <2>1, GotoIs
  <2>3. w'[t].pc = "load"
    BY <2>2
  <2> HIDE DEF r
  <2>4. Alone(t) /\ FitsAfter(t) /\ (BoundInv => BoundAfter(t))
    BY <1>1, <2>2, CursorStep
  <2>5. BudgetInv'
    BY <1>2, <1>4, <2>3, <2>4, BudgetKept
  <2> QED
    BY <1>1, <2>4, <2>5
<1>5. CASE /\ w[t].seen < CursorLimit /\ budget.open[w[t].src] = w[t].seen
           /\ budget' = [open |-> [budget.open EXCEPT ![w[t].src] = w[t].seen + 1],
                         leases |-> budget.leases \cup {[t |-> t, src |-> w[t].src]}]
           /\ w' = [w EXCEPT ![t] = [@ EXCEPT !.pc = "open", !.seen = 0]]
  <2> DEFINE r == [w[t] EXCEPT !.pc = "open", !.seen = 0]
             l == [t |-> t, src |-> w[t].src]
             L == budget.leases
             L2 == L \cup {l}
             o == budget.open
             o2 == [o EXCEPT ![l.src] = o[l.src] + 1]
  <2>1. /\ r \in Operations /\ r.pc = "open" /\ r.op = "cursor" /\ r.src = w[t].src
        /\ r.pushed = w[t].pushed /\ w' = [w EXCEPT ![t] = r]
    BY <1>1, <1>5 DEF Operations, Pcs
  <2> HIDE DEF r
  <2>2. Alone(t) /\ FitsAfter(t) /\ w'[t] = r /\ (BoundInv => BoundAfter(t))
    BY <1>1, <2>1, CursorStep
  <2>3. /\ l.t = t /\ l.src \in Sources /\ l \notin L /\ o \in [Sources -> Nat] /\ IsFiniteSet(L)
        /\ L \subseteq [t : Threads, src : Sources] /\ l \in [t : Threads, src : Sources]
        /\ o[l.src] < CursorLimit /\ budget' = [open |-> o2, leases |-> L2]
        /\ \A m \in L : m.t # l.t /\ m.t \in Threads
    <3>1. l.t = t /\ l.src = w[t].src /\ l.src \in Sources /\ l \in [t : Threads, src : Sources]
      BY <1>1
    <3>2. /\ o \in [Sources -> Nat] /\ IsFiniteSet(L) /\ L \subseteq [t : Threads, src : Sources]
          /\ \A m \in L : m.t \in Threads
      BY BudgetIs
    <3>3. \A m \in L : m.t # l.t
      BY <1>2, <3>1
    <3>4. l \notin L
      BY <3>3
    <3>5. o[l.src] < CursorLimit /\ budget' = [open |-> o2, leases |-> L2]
      BY <1>5
    <3> QED
      BY <3>1, <3>2, <3>3, <3>4, <3>5
  <2> HIDE DEF l
  <2>4. IsFiniteSet(L2) /\ budget'.open = o2 /\ budget'.leases = L2
    BY <2>3, FS_AddElement
  <2>5. \A x \in Sources :
          /\ Count(L, x) \in Nat /\ o[x] = Count(L, x) /\ o[x] <= CursorLimit
          /\ Count(L2, x) \in Nat /\ Count(L2, x) = Count(L, x) + IF l.src = x THEN 1 ELSE 0
    <3> SUFFICES ASSUME NEW x \in Sources
                 PROVE  /\ Count(L, x) \in Nat /\ o[x] = Count(L, x) /\ o[x] <= CursorLimit
                        /\ Count(L2, x) \in Nat
                        /\ Count(L2, x) = Count(L, x) + IF l.src = x THEN 1 ELSE 0
      OBVIOUS
    <3>1. o[x] = Count(L, x) /\ o[x] <= CursorLimit
      BY <1>1, <1>5 DEF BudgetInv, CursorsCounted, Count
    <3> HIDE DEF L
    <3>2. /\ Count(L, x) \in Nat /\ Count(L2, x) \in Nat
          /\ Count(L2, x) = Count(L, x) + IF l.src = x THEN 1 ELSE 0
      BY <2>3, LeaseAdded
    <3> QED
      BY <3>1, <3>2
  <2> HIDE DEF o, L2, L
  <2>6. \A x \in Sources : o2[x] = o[x] + IF l.src = x THEN 1 ELSE 0
    BY <2>3
  <2>7. o2 \in [Sources -> Nat] /\ \A x \in Sources : o2[x] = Count(L2, x)
    <3>1. \A x \in Sources : o2[x] = Count(L2, x) /\ o2[x] \in Nat
      BY <2>5, <2>6
    <3> QED
      BY <2>3, <3>1
  <2>8. \A x \in Sources : o2[x] <= CursorLimit
    BY <1>1, <2>3, <2>5, <2>6
  <2> HIDE DEF o2
  <2>9. CursorsCounted'
    BY <2>4, <2>7, <2>8 DEF CursorsCounted, Count
  <2>10. budget' \in [open : [Sources -> Nat], leases : SUBSET [t : Threads, src : Sources]]
    BY <2>3, <2>7 DEF L2
  <2>11. \A m \in L2 : w'[m.t].pc \notin {"load", "cas"}
    <3> SUFFICES ASSUME NEW m \in L2 PROVE w'[m.t].pc \notin {"load", "cas"}
      OBVIOUS
    <3>1. CASE m = l
      BY <2>1, <2>2, <2>3, <3>1
    <3>2. CASE m \in L
      BY <2>2, <2>3, <3>2, OthersStay DEF BudgetInv, L
    <3> QED
      BY <3>1, <3>2 DEF L2
  <2>12. \A i \in Threads : w'[i].pc = "cas" => CursorLimit > 0
    BY <1>1, <1>5
  <2>13. \A m, k \in L2 : m.t = k.t => m = k
    BY <2>3 DEF BudgetInv, L2, L
  <2>14. BudgetInv'
    BY <2>4, <2>9, <2>10, <2>11, <2>12, <2>13 DEF BudgetInv
  <2> QED
    BY <1>1, <2>2, <2>14
<1> QED
  BY <1>3, <1>4, <1>5 DEF BudgetCas, Exchanged

\* openCursorUngated after that: the cursor takes the lease, or it ends.
LEMMA OpenCursorStep ==
  ASSUME ThreadsInv, BudgetInv, NEW t \in Threads, OpenCursor(t)
  PROVE  /\ Alone(t) /\ FitsAfter(t) /\ UNCHANGED ver /\ UNCHANGED rep /\ BudgetInv'
         /\ Pinning /\ BoundInv => BoundAfter(t)
<1> DEFINE s == stack[t]
           u == user[t]
           v == Version(w[t].src)
           mine == {l \in budget.leases : l.t = t}
<1>1. /\ Fits(w[t], s, u) /\ w[t] \in Operations /\ s \in Seq(Frames) /\ ver \in Nat
      /\ UNCHANGED <<stack, user, ver, rep>> /\ w[t].pc = "open"
      /\ w[t].op \in Reading /\ w[t].op \notin Writing
  BY Ordered DEF OpenCursor, db, Fits, Reading, Writing
<1>2. v \in 0..MaxWrites
  BY <1>1, VersionType DEF Operations
<1>3. CASE Done(t, "ok", v) /\ UNCHANGED budget
  <2> HIDE DEF v
  <2>1. /\ w'[t] \in Operations /\ w'[t].pc = "done" /\ w'[t].op = w[t].op
        /\ w'[t].src = w[t].src /\ w'[t].pushed = w[t].pushed
        /\ w'[t].v = v /\ w' = [w EXCEPT ![t] = w'[t]]
    BY <1>2, <1>3, DoneIs
  <2>2. Alone(t) /\ stack'[t] = s /\ user'[t] = u
    BY <1>1, <2>1, StayAlone
  <2>3. FitsAfter(t)
    BY <1>1, <2>1, <2>2, EndFits DEF FitsAfter
  <2>4. ASSUME Pinning, BoundInv PROVE BoundAfter(t)
    <3>1. Bound(w[t], s, u, ver) /\ u <= MaxScopes[t]
      BY <2>4 DEF BoundInv
    <3>2. ~ Top(s).shadow => v >= Top(s).must
      BY <1>1, <3>1, ReadsEnough DEF v
    <3> HIDE DEF s, u
    <3>3. Bound(w'[t], s, u, ver)
      BY <1>1, <2>1, <3>1, <3>2, BoundOn
    <3> QED
      BY <1>1, <2>2, <3>1, <3>3 DEF BoundAfter
  <2>5. BudgetInv'
    BY <1>3, <2>1, <2>2, BudgetKept
  <2> QED
    BY <1>1, <2>2, <2>3, <2>4, <2>5
<1>4. CASE Fail(t) /\ budget' \in (IF mine = {} THEN {budget} ELSE {Released(l) : l \in mine})
  <2>1. /\ w' = [w EXCEPT ![t] = w'[t]] /\ FitsAfter(t)
        /\ Pinning /\ BoundInv => BoundAfter(t)
        /\ w'[t].pc # "cas"
    BY <1>1, <1>4, FailStep
  <2>2. Alone(t)
    BY <1>1, <2>1, StayAlone
  <2>3. CASE mine = {}
    <3>1. UNCHANGED budget
      BY <1>4, <2>3
    <3>2. ~ \E l \in budget.leases : l.t = t
      BY <2>3
    <3>3. BudgetInv'
      BY <2>1, <2>2, <3>1, <3>2, BudgetKept
    <3> QED
      BY <1>1, <2>1, <2>2, <3>3
  <2>4. CASE mine # {}
    <3>1. PICK l \in mine : budget' = Released(l)
      BY <1>4, <2>4
    <3>2. l \in budget.leases /\ l.t = t
      OBVIOUS
    <3> HIDE DEF mine
    <3>3. BudgetInv'
      BY <2>1, <2>2, <3>1, <3>2, ReleaseKeeps
    <3> QED
      BY <1>1, <2>1, <2>2, <3>3
  <2> QED
    BY <2>3, <2>4
<1> QED
  BY <1>3, <1>4 DEF OpenCursor

-----------------------------------------------------------------------------
(* The steps put together. *)

\* A step that changes one thread keeps the threads in order.
LEMMA ThreadsKept ==
  ASSUME ThreadsInv, NEW t \in Threads, Alone(t), FitsAfter(t), UNCHANGED <<rep, enabled>>,
         ver' \in 0..MaxWrites, ver <= ver'
  PROVE  ThreadsInv'
<1>1. w'[t] \in Operations /\ stack'[t] \in Seq(Frames) /\ user'[t] \in Nat
  BY DEF FitsAfter, Fits
<1>2. /\ w' \in [Threads -> Operations] /\ stack' \in [Threads -> Seq(Frames)]
      /\ user' \in [Threads -> Nat]
  BY <1>1 DEF ThreadsInv, Alone
<1>3. \A i \in Threads : Fits(w'[i], stack'[i], user'[i])
  <2> SUFFICES ASSUME NEW i \in Threads PROVE Fits(w'[i], stack'[i], user'[i])
    OBVIOUS
  <2>1. CASE i = t
    BY <2>1 DEF FitsAfter
  <2>2. CASE i # t
    <3>1. w'[i] = w[i] /\ stack'[i] = stack[i] /\ user'[i] = user[i]
      BY <2>2, OthersStay
    <3> QED
      BY <3>1 DEF ThreadsInv
  <2> QED
    BY <2>1, <2>2
<1>4. ver' \in 0..MaxWrites /\ rep' \in 0..ver' /\ enabled' \in BOOLEAN
  BY ReadsAssumption DEF ThreadsInv
<1> QED
  BY <1>2, <1>3, <1>4 DEF ThreadsInv

\* It keeps the other threads bound, too: what binds them has been written.
LEMMA BoundKept ==
  ASSUME ThreadsInv, BoundInv, NEW t \in Threads, Alone(t), BoundAfter(t),
         ver' \in Nat, ver <= ver'
  PROVE  BoundInv'
<1>1. ASSUME NEW i \in Threads, i # t
      PROVE  user'[i] <= MaxScopes[i] /\ Bound(w'[i], stack'[i], user'[i], ver')
  <2>1. w'[i] = w[i] /\ stack'[i] = stack[i] /\ user'[i] = user[i]
    BY <1>1, OthersStay
  <2>2. user[i] <= MaxScopes[i] /\ Bound(w[i], stack[i], user[i], ver)
    BY DEF BoundInv
  <2>3. stack[i] \in Seq(Frames) /\ ver \in Nat /\ w[i] \in Operations
    BY Ordered
  <2> DEFINE s == stack[i]
             r == w[i]
             u == user[i]
             n == ver'
  <2>4. \A j \in DOMAIN s : s[j].must \in Nat
    BY <2>3, Musts
  <2>5. r.v \in Nat
    BY <2>3 DEF Operations
  <2>6. Bound(r, s, u, ver)
    BY <2>2
  <2>7. n \in Nat /\ ver <= n
    OBVIOUS
  <2> HIDE DEF s, r, u, n
  <2>8. Bound(r, s, u, n)
    BY <2>3, <2>4, <2>5, <2>6, <2>7 DEF Bound
  <2> QED
    BY <2>1, <2>2, <2>8 DEF s, r, u, n
<1> QED
  BY <1>1 DEF BoundInv, BoundAfter

\* A step of a thread that leaves the budget alone.
LEMMA Together ==
  ASSUME ThreadsInv, BudgetInv, NEW t \in Threads, Alone(t), FitsAfter(t),
         UNCHANGED <<rep, enabled, budget>>, ver' \in 0..MaxWrites, ver <= ver',
         w'[t].pc # "cas", w'[t].pc = "load" => ~ \E l \in budget.leases : l.t = t,
         Pinning /\ BoundInv => BoundAfter(t)
  PROVE  /\ ThreadsInv' /\ BudgetInv'
         /\ Pinning /\ BoundInv => BoundInv'
<1>1. ThreadsInv'
  BY ThreadsKept
<1>2. BudgetInv'
  BY BudgetKept
<1>3. ver' \in Nat
  BY ReadsAssumption
<1>4. ASSUME Pinning, BoundInv PROVE BoundInv'
  BY <1>3, <1>4, BoundKept
<1> QED
  BY <1>1, <1>2, <1>4

\* What the cache may hold has a size, and an empty cache keeps its books.
LEMMA CacheBasics ==
  /\ Sized(CacheEntries)
  /\ Balanced(Empty, CacheEntries) /\ Room(Len(Empty.entries), Empty.total, 0)
<1>1. Sized(CacheEntries)
  BY DEF Sized, CacheEntries
<1>2. SizeOf(<<>>) = 0
  BY <1>1, SizeBasics
<1>3. <<>> \in Seq(CacheEntries) /\ Len(<<>>) = 0
  OBVIOUS
<1>4. Empty.entries = <<>> /\ Empty.total = 0 /\ Empty \in [entries : Seq(CacheEntries), total : Nat]
  BY <1>3 DEF Empty
<1>5. Distinct(<<>>)
  BY DEF Distinct
<1>6. Balanced(Empty, CacheEntries)
  BY <1>2, <1>4, <1>5 DEF Balanced
<1>7. Room(0, 0, 0)
  BY CacheAssumption DEF Room
<1> QED
  BY <1>1, <1>3, <1>4, <1>6, <1>7

\* The operations of the cache keep its books.
LEMMA CacheKept ==
  ASSUME CacheInv,
         \/ UNCHANGED cache
         \/ cache' = Empty
         \/ \E src, k : Hit(cache, src, k) /\ cache' \in {Touch(cache, src, k), Erase(cache, src, k)}
         \/ \E e \in CacheEntries : cache' = Put(cache, e)
         \/ \E src : cache' = Invalidate(cache, src)
  PROVE  CacheInv'
<1>1. Sized(CacheEntries) /\ Balanced(cache, CacheEntries) /\ Room(Len(cache.entries), cache.total, 0)
  BY CacheBasics DEF CacheInv
<1>2. CASE UNCHANGED cache
  BY <1>1, <1>2 DEF CacheInv
<1>3. CASE cache' = Empty
  BY <1>3, CacheBasics DEF CacheInv
<1>4. CASE \E src, k : Hit(cache, src, k) /\ cache' \in {Touch(cache, src, k), Erase(cache, src, k)}
  <2>1. PICK src, k : Hit(cache, src, k) /\ cache' \in {Touch(cache, src, k), Erase(cache, src, k)}
    BY <1>4
  <2>2. CASE cache' = Touch(cache, src, k)
    BY <1>1, <2>1, <2>2, TouchKeeps DEF CacheInv
  <2>3. CASE cache' = Erase(cache, src, k)
    BY <1>1, <2>1, <2>3, EraseKeeps DEF CacheInv
  <2> QED
    BY <2>1, <2>2, <2>3
<1>5. CASE \E e \in CacheEntries : cache' = Put(cache, e)
  BY <1>1, <1>5, PutKeeps DEF CacheInv
<1>6. CASE \E src : cache' = Invalidate(cache, src)
  BY <1>1, <1>6, InvalidateKeeps DEF CacheInv
<1> QED
  BY <1>2, <1>3, <1>4, <1>5, <1>6

\* Every step of a thread keeps all of it.
LEMMA StepKeeps ==
  ASSUME ThreadsInv, CacheInv, BudgetInv, NEW t \in Threads, Step(t)
  PROVE  /\ ThreadsInv' /\ CacheInv' /\ BudgetInv'
         /\ Pinning /\ BoundInv => BoundInv'
<1>1. ver \in 0..MaxWrites /\ ver <= ver
  BY Ordered
<1>2. CASE EnterScope(t)
  <2>1. Alone(t) /\ FitsAfter(t) /\ UNCHANGED <<ver, rep>> /\ (Pinning /\ BoundInv => BoundAfter(t))
    BY <1>2, EnterScopeStep
  <2>2. UNCHANGED <<cache, budget, enabled>> /\ w'[t].pc = "idle"
    BY <1>2 DEF EnterScope, db
  <2>3. CacheInv'
    BY <2>2, CacheKept
  <2> QED
    BY <1>1, <2>1, <2>2, <2>3, Together
<1>3. CASE LeaveScope(t)
  <2>1. Alone(t) /\ FitsAfter(t) /\ UNCHANGED <<ver, rep>> /\ (Pinning /\ BoundInv => BoundAfter(t))
    BY <1>3, LeaveScopeStep
  <2>2. UNCHANGED <<cache, budget, enabled>> /\ w'[t].pc = "idle"
    BY <1>3 DEF LeaveScope, db
  <2>3. CacheInv'
    BY <2>2, CacheKept
  <2> QED
    BY <1>1, <2>1, <2>2, <2>3, Together
<1>4. CASE \E op \in Calls[t] : \E k \in IF op = "read" THEN Keys ELSE {0} : Begin(t, op, k)
  <2>1. PICK op \in Calls[t] : \E k \in IF op = "read" THEN Keys ELSE {0} : Begin(t, op, k)
    BY <1>4
  <2>2. PICK k \in IF op = "read" THEN Keys ELSE {0} : Begin(t, op, k)
    BY <2>1
  <2>3. /\ Alone(t) /\ FitsAfter(t) /\ UNCHANGED <<ver, rep>> /\ (Pinning /\ BoundInv => BoundAfter(t))
        /\ w'[t].pc # "cas" /\ (w'[t].pc = "load" => op = "cursor")
    BY <2>2, BeginStep
  <2>4. UNCHANGED <<cache, budget, enabled>> /\ (op = "cursor" => ~ \E l \in budget.leases : l.t = t)
    BY <2>2 DEF Begin, db
  <2>5. CacheInv'
    BY <2>4, CacheKept
  <2> QED
    BY <1>1, <2>3, <2>4, <2>5, Together
<1>5. CASE Get(t)
  <2>1. /\ Alone(t) /\ FitsAfter(t) /\ UNCHANGED <<ver, rep>> /\ (Pinning /\ BoundInv => BoundAfter(t))
        /\ w'[t].pc \notin {"load", "cas"}
    BY <1>5, GetStep
  <2>2. UNCHANGED <<budget, enabled>>
    BY <1>5 DEF Get, db
  <2>3. \/ UNCHANGED cache
        \/ \E src, k : Hit(cache, src, k) /\ cache' \in {Touch(cache, src, k), Erase(cache, src, k)}
    BY <1>5 DEF Get
  <2>4. CacheInv'
    BY <2>3, CacheKept
  <2> QED
    BY <1>1, <2>1, <2>2, <2>4, Together
<1>6. CASE Attempt(t)
  <2>1. /\ Alone(t) /\ FitsAfter(t) /\ UNCHANGED <<ver, rep>> /\ (Pinning /\ BoundInv => BoundAfter(t))
        /\ w'[t].pc \notin {"load", "cas"}
    BY <1>6, AttemptStep
  <2>2. UNCHANGED <<cache, budget, enabled>>
    BY <1>6 DEF Attempt, db
  <2>3. CacheInv'
    BY <2>2, CacheKept
  <2> QED
    BY <1>1, <2>1, <2>2, <2>3, Together
<1>7. CASE PutResult(t)
  <2>1. /\ Alone(t) /\ FitsAfter(t) /\ UNCHANGED <<ver, rep>> /\ (Pinning /\ BoundInv => BoundAfter(t))
        /\ w'[t].pc \notin {"load", "cas"} /\ \E e \in CacheEntries : cache' = Put(cache, e)
    BY <1>7, PutResultStep
  <2>2. UNCHANGED <<budget, enabled>>
    BY <1>7 DEF PutResult, db
  <2>3. CacheInv'
    BY <2>1, CacheKept
  <2> QED
    BY <1>1, <2>1, <2>2, <2>3, Together
<1>8. CASE Write(t)
  <2>1. /\ Alone(t) /\ FitsAfter(t) /\ UNCHANGED rep /\ ver' \in 0..MaxWrites /\ ver <= ver'
        /\ BoundInv => BoundAfter(t)
        /\ w'[t].pc \notin {"load", "cas"}
    BY <1>8, WriteStep
  <2>2. UNCHANGED <<cache, budget, enabled>>
    BY <1>8 DEF Write
  <2>3. CacheInv'
    BY <2>2, CacheKept
  <2> QED
    BY <2>1, <2>2, <2>3, Together
<1>9. CASE MarkLeaf(t)
  <2>1. /\ Alone(t) /\ FitsAfter(t) /\ UNCHANGED <<ver, rep>> /\ (Pinning /\ BoundInv => BoundAfter(t))
        /\ w'[t].pc \notin {"load", "cas"}
    BY <1>9, MarkLeafStep
  <2>2. UNCHANGED <<budget, enabled>> /\ cache' = Invalidate(cache, w[t].src)
    BY <1>9, Zenon DEF MarkLeaf, db
  <2>3. CacheInv'
    BY <2>2, CacheKept
  <2> QED
    BY <1>1, <2>1, <2>2, <2>3, Together
<1>10. CASE MarkGroup(t)
  <2>1. /\ Alone(t) /\ FitsAfter(t) /\ UNCHANGED <<ver, rep>> /\ (BoundInv => BoundAfter(t))
        /\ w'[t].pc \notin {"load", "cas"}
    BY <1>10, MarkGroupStep
  <2>2. UNCHANGED <<budget, enabled>> /\ (UNCHANGED cache \/ cache' = Invalidate(cache, "p"))
    BY <1>10 DEF MarkGroup, db
  <2>3. CacheInv'
    BY <2>2, CacheKept
  <2> QED
    BY <1>1, <2>1, <2>2, <2>3, Together
<1>11. CASE MarkReplicas(t)
  <2>1. /\ Alone(t) /\ FitsAfter(t) /\ UNCHANGED <<ver, rep>> /\ (BoundInv => BoundAfter(t))
        /\ w'[t].pc \notin {"load", "cas"}
    BY <1>11, MarkReplicasStep
  <2>2. UNCHANGED <<budget, enabled>> /\ cache' = Invalidate(cache, "r")
    BY <1>11 DEF MarkReplicas, db
  <2>3. CacheInv'
    BY <2>2, CacheKept
  <2> QED
    BY <1>1, <2>1, <2>2, <2>3, Together
<1>12. CASE BudgetLoad(t) \/ BudgetCas(t) \/ OpenCursor(t)
  <2>1. /\ Alone(t) /\ FitsAfter(t) /\ UNCHANGED <<ver, rep>> /\ (Pinning /\ BoundInv => BoundAfter(t))
        /\ BudgetInv'
    BY <1>12, BudgetLoadStep, BudgetCasStep, OpenCursorStep
  <2>2. UNCHANGED <<cache, enabled>>
    BY <1>12 DEF BudgetLoad, BudgetCas, OpenCursor, db
  <2>3. CacheInv'
    BY <2>2, CacheKept
  <2>4. ThreadsInv'
    BY <1>1, <2>1, <2>2, ThreadsKept
  <2>5. ASSUME Pinning, BoundInv PROVE BoundInv'
    <3>1. ver' \in Nat /\ ver <= ver'
      BY <1>1, <2>1, Ordered
    <3> QED
      BY <2>1, <2>5, <3>1, BoundKept
  <2> QED
    BY <2>1, <2>3, <2>4, <2>5
<1>13. CASE End(t)
  <2>1. /\ Alone(t) /\ FitsAfter(t) /\ UNCHANGED <<ver, rep>> /\ (Pinning /\ BoundInv => BoundAfter(t))
        /\ w'[t].pc \notin {"load", "cas"}
    BY <1>13, EndStep
  <2>2. UNCHANGED <<cache, budget, enabled>>
    BY <1>13 DEF End, db
  <2>3. CacheInv'
    BY <2>2, CacheKept
  <2> QED
    BY <1>1, <2>1, <2>2, <2>3, Together
<1> QED
  BY <1>2, <1>3, <1>4, <1>5, <1>6, <1>7, <1>8, <1>9, <1>10, <1>11, <1>12, <1>13 DEF Step

-----------------------------------------------------------------------------
(* The theorems. *)

ReadsInv == ThreadsInv /\ CacheInv /\ BudgetInv

\* The initial states are in order.
LEMMA ReadsInit ==
  ASSUME Init
  PROVE  ReadsInv /\ (Pinning => BoundInv)
<1> DEFINE e == <<>>
<1>1. MaxWrites \in Nat /\ \A t \in Threads : MaxScopes[t] \in Nat
  BY ReadsAssumption
<1>2. e \in Seq(Frames) /\ Len(e) = 0 /\ DOMAIN e = {}
  OBVIOUS
<1>3. \A t \in Threads : w[t] = NoOp /\ stack[t] = e /\ user[t] = 0
  BY DEF Init
<1> HIDE DEF e
<1>4. Fits(NoOp, e, 0)
  <2>1. (IF NoOp.pushed THEN 1 ELSE 0) = 0
    BY NoOpType, Zenon
  <2> QED
    BY <1>2, <2>1, NoOpType DEF Fits
<1>5. ThreadsInv
  <2>1. /\ w \in [Threads -> Operations] /\ stack \in [Threads -> Seq(Frames)]
        /\ user \in [Threads -> Nat]
    BY <1>2, NoOpType DEF Init, e
  <2>2. ver \in 0..MaxWrites /\ rep \in 0..ver /\ enabled \in BOOLEAN
    BY <1>1 DEF Init
  <2> QED
    BY <1>3, <1>4, <2>1, <2>2 DEF ThreadsInv
<1>6. CacheInv
  BY CacheBasics DEF Init, CacheInv
<1>7. BudgetInv
  <2>1. /\ budget.leases = {} /\ \A x \in Sources : budget.open[x] = 0
        /\ budget \in [open : [Sources -> Nat], leases : SUBSET [t : Threads, src : Sources]]
    BY DEF Init
  <2>2. IsFiniteSet(budget.leases)
    BY <2>1, FS_EmptySet
  <2>3. CursorsCounted
    <3>1. \A x \in Sources : {l \in budget.leases : l.src = x} = {}
      BY <2>1
    <3>2. \A x \in Sources : Cardinality({l \in budget.leases : l.src = x}) = 0
      BY <3>1, FS_EmptySet
    <3> QED
      BY <2>1, <3>2, ReadsAssumption DEF CursorsCounted
  <2>4. \A t \in Threads : w[t].pc # "cas"
    BY <1>3, NoOpType
  <2> QED
    BY <2>1, <2>2, <2>3, <2>4 DEF BudgetInv
<1>8. BoundInv
  <2>1. Bound(NoOp, e, 0, 0)
    BY <1>2, NoOpType DEF Bound, Reading, Writing
  <2>2. ver = 0
    BY DEF Init
  <2> QED
    BY <1>1, <1>3, <2>1, <2>2 DEF BoundInv
<1> QED
  BY <1>5, <1>6, <1>7, <1>8 DEF ReadsInv

\* Nothing that a thread has changes.
LEMMA Quiet ==
  ASSUME ThreadsInv, UNCHANGED <<ver, w, stack, user>>, rep' \in 0..ver, enabled' \in BOOLEAN
  PROVE  ThreadsInv' /\ (BoundInv => BoundInv')
<1>1. ThreadsInv'
  BY DEF ThreadsInv
<1>2. BoundInv => BoundInv'
  BY DEF BoundInv
<1> QED
  BY <1>1, <1>2

\* Every step keeps them so.
LEMMA ReadsNext ==
  ASSUME ReadsInv, [Next]_vars
  PROVE  ReadsInv' /\ (Pinning /\ BoundInv => BoundInv')
<1>1. /\ ThreadsInv /\ CacheInv /\ BudgetInv /\ ver \in 0..MaxWrites /\ rep \in 0..ver
      /\ enabled \in BOOLEAN /\ MaxWrites \in Nat
  BY ReadsAssumption DEF ReadsInv, ThreadsInv
<1>2. CASE \E t \in Threads : Step(t)
  BY <1>1, <1>2, StepKeeps DEF ReadsInv
<1>3. CASE \E l \in budget.leases : CloseCursor(l)
  <2>1. PICK l \in budget.leases : CloseCursor(l)
    BY <1>3
  <2>2. /\ UNCHANGED <<ver, w, stack, user, rep, enabled, cache>> /\ budget' = Released(l)
        /\ w[l.t].pc = "idle" /\ l.t \in Threads
    BY <1>1, <2>1, BudgetIs DEF CloseCursor, db
  <2>3. ThreadsInv' /\ (BoundInv => BoundInv')
    BY <1>1, <2>2, Quiet
  <2>4. CacheInv'
    BY <1>1, <2>2, CacheKept
  <2>5. Alone(l.t) /\ w'[l.t].pc # "cas"
    BY <1>1, <2>2 DEF Alone, ThreadsInv
  <2>6. BudgetInv'
    BY <1>1, <2>2, <2>5, ReleaseKeeps
  <2> QED
    BY <2>3, <2>4, <2>6 DEF ReadsInv
<1>4. CASE Replicate \/ SetEnabled \/ Configure \/ UNCHANGED vars
  <2>1. /\ UNCHANGED <<ver, w, stack, user, budget>> /\ rep' \in 0..ver /\ enabled' \in BOOLEAN
        /\ UNCHANGED cache \/ cache' = Empty
    <3>1. CASE Replicate
      BY <1>1, <3>1 DEF Replicate
    <3>2. CASE SetEnabled
      BY <1>1, <3>2 DEF SetEnabled
    <3>3. CASE Configure
      BY <1>1, <3>3 DEF Configure, db
    <3>4. CASE UNCHANGED vars
      BY <1>1, <3>4 DEF vars
    <3> QED
      BY <1>4, <3>1, <3>2, <3>3, <3>4
  <2>2. ThreadsInv' /\ (BoundInv => BoundInv')
    BY <1>1, <2>1, Quiet
  <2>3. CacheInv'
    BY <1>1, <2>1, CacheKept
  <2>4. BudgetInv'
    BY <1>1, <2>1 DEF BudgetInv, CursorsCounted
  <2> QED
    BY <2>2, <2>3, <2>4 DEF ReadsInv
<1> QED
  BY <1>2, <1>3, <1>4 DEF Next

\* The state of the threads, of the cache and of the budget is always in order.
THEOREM ReadsInOrder == Spec => []ReadsInv
<1>1. Init => ReadsInv
  BY ReadsInit
<1>2. ReadsInv /\ [Next]_vars => ReadsInv'
  BY ReadsNext
<1> QED
  BY <1>1, <1>2, PTL DEF Spec

\* The budget of cursors counts those that are open, or being opened, and keeps
\* its limit, for any number of threads that race for the last one
\* (cursorBudgetAcquire, CursorLease).
THEOREM ReadsCursorsCounted == Spec => []CursorsCounted
<1>1. ReadsInv => CursorsCounted
  BY DEF ReadsInv, BudgetInv
<1> QED
  BY <1>1, ReadsInOrder, PTL

\* Nothing that a shadow request has read, and nothing from a data source that is
\* not cached, is ever in the cache (queryUngated).
THEOREM ReadsOnlyProductionCached == Spec => []OnlyProductionCached
<1>1. ReadsInv => OnlyProductionCached
  <2> SUFFICES ASSUME ReadsInv, NEW i \in DOMAIN cache.entries
               PROVE  ~ cache.entries[i].shadow /\ cache.entries[i].src \in Cached
    BY DEF OnlyProductionCached
  <2>1. cache.entries \in Seq(CacheEntries)
    BY DEF ReadsInv, CacheInv, Balanced
  <2>2. cache.entries[i] \in CacheEntries
    BY <2>1
  <2> QED
    BY <2>2 DEF CacheEntries
<1> QED
  BY <1>1, ReadsInOrder, PTL

\* The cache's total is the size of what it holds, both limits are kept and no key
\* is held twice, whatever is stored, hit, expired, evicted, invalidated and
\* reconfigured (QueryCacheState).
THEOREM ReadsCacheBooks == Spec => []CacheBooks
<1>1. ReadsInv => CacheBooks
  BY DEF ReadsInv, CacheInv, Balanced, Distinct, CacheBooks, BooksBalance
<1> QED
  BY <1>1, ReadsInOrder, PTL

\* A read sees the writes acknowledged in its ContextScope, for any number of
\* threads, writes and queries, where only replicas are cached and the caller does
\* not nest its scopes (readTarget, pinRequestWrite).
THEOREM ReadsReadYourWrites ==
  ASSUME Pinning
  PROVE  Spec => []ReadYourWrites
<1>1. Init => ReadsInv /\ BoundInv
  BY ReadsInit
<1>2. ReadsInv /\ BoundInv /\ [Next]_vars => ReadsInv' /\ BoundInv'
  BY ReadsNext
<1>3. ReadsInv /\ BoundInv => ReadYourWrites
  <2> SUFFICES ASSUME ReadsInv, BoundInv, NEW t \in Threads,
                      w[t].pc = "done", w[t].op \in {"read", "stream", "cursor"},
                      w[t].status \in {"ok", "hit"}, ~ Current(t).shadow
               PROVE  w[t].v >= Current(t).must
    BY DEF ReadYourWrites
  <2>1. Current(t) = Top(stack[t]) /\ Bound(w[t], stack[t], user[t], ver)
    BY CurrentIsTop DEF BoundInv
  <2> QED
    BY <2>1 DEF Bound, Reading
<1> QED
  BY <1>1, <1>2, <1>3, PTL DEF Spec
=============================================================================
