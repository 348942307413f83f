--------------------------- MODULE SessionProofs ---------------------------
(***************************************************************************)
(* Proofs about module Session and the four drivers behind it.              *)
(*                                                                          *)
(* First, for every driver, what its operations may do to a connection:     *)
(* most of them keep its transaction (Plain), begin, commit, rollback and a *)
(* batch change it in a way that is known (Began, Ended, Fine), and the     *)
(* operations of a cursor move only the cursor and its own transaction      *)
(* (Moved).  Then SessionInv, which relates the session, its thread, its    *)
(* watcher, the connection and the server, is shown to be inductive, one    *)
(* lemma per action, and most properties of Session follow from it.         *)
(*                                                                          *)
(* Three more invariants rest on it.  PreparedInv: every operation keeps    *)
(* the indexes of the prepared statements in step (Tidy), and with them the *)
(* handles given out.  RowInv: no operation splits the rows of earlier ones *)
(* (Rowed), and a batch writes all its rows or none (AllOrNone).  TxInv:    *)
(* inside a transaction of MySQL or PostgreSQL nothing is stored, and the   *)
(* server holds what the callback was told is written (Does), so that the   *)
(* steps of Session are steps of Transactions.                              *)
(***************************************************************************)
EXTENDS Session, SequenceTheorems, FiniteSetTheorems, TLAPS

\* A connection.  Without a transaction there are no rows that wait for its end,
\* and with Oracle the server never commits by itself.
Fields == {"kind", "open", "flag", "slot", "cursor", "cache", "names", "lru", "seq", "up", "tx",
           "auto", "rows", "stored", "wire", "stmts"}
CursorStates == {"none", "open", "end", "own", "ownEnd"}
IsConn(d) == /\ DOMAIN d = Fields /\ d.kind \in Kinds /\ d.cursor \in CursorStates
             /\ d.open \in BOOLEAN /\ d.flag \in BOOLEAN /\ d.slot \in BOOLEAN
             /\ d.up \in BOOLEAN /\ d.auto \in BOOLEAN
             /\ d.tx \in {"none", "open", "aborted"} /\ (d.tx = "none" => d.rows = {})
             /\ d.tx = "aborted" => d.kind = "postgres"
             /\ d.kind = "oracle" /\ d.up => ~ d.auto

-----------------------------------------------------------------------------
(* The prepared statements of a connection. *)

\* The cache gives every key a number of its own, and names is its inverse.
Filed(d) ==
  /\ d.seq \in Nat /\ IsFiniteSet(d.cache)
  /\ \A p \in d.cache : p = <<p[1], p[2]>> /\ p[2] \in 1..d.seq
  /\ \A p, q \in d.cache : p[1] = q[1] \/ p[2] = q[2] => p = q
  /\ d.names = {<<p[2], p[1]>> : p \in d.cache}

\* The list holds every key of the cache, once.
KeysOf(d) == {p[1] : p \in d.cache}
Listed(d) ==
  /\ d.lru \in Seq(KeysOf(d))
  /\ \A k \in KeysOf(d) : \E i \in DOMAIN d.lru : d.lru[i] = k
  /\ \A i, j \in DOMAIN d.lru : d.lru[i] = d.lru[j] => i = j
  /\ Len(d.lru) = Cardinality(d.cache)

\* The server holds the statements of the cache, and more only if a DEALLOCATE has
\* failed.
Served(d) ==
  d.up => /\ {p[2] : p \in d.cache} \subseteq d.stmts
          /\ ~ (d.kind = "postgres" /\ SwallowedFail) => {p[2] : p \in d.cache} = d.stmts

Indexed(d) == Filed(d) /\ Listed(d) /\ Served(d)
InStep(d) == Indexed(d) /\ (Limit > 0 => Cardinality(d.cache) <= Limit)

\* e has at most one thing more that d had not: statements with new numbers.
Tidy(d, e) ==
  InStep(d) => /\ InStep(e) /\ d.seq <= e.seq
               /\ \A p \in e.names : p \in d.names \/ p[1] \in (d.seq + 1)..e.seq

\* The prepared statements stay tidy one step after the other.
LEMMA TidyTrans ==
  ASSUME NEW d, NEW e, NEW f, Tidy(d, e), Tidy(e, f)
  PROVE  Tidy(d, f)
<1> SUFFICES ASSUME InStep(d) PROVE /\ InStep(f) /\ d.seq <= f.seq
                                    /\ \A p \in f.names : p \in d.names \/ p[1] \in (d.seq + 1)..f.seq
  BY DEF Tidy
<1>1. InStep(e) /\ InStep(f) /\ d.seq <= e.seq /\ e.seq <= f.seq
  BY DEF Tidy
<1>2. d.seq \in Nat /\ e.seq \in Nat /\ f.seq \in Nat
  BY <1>1 DEF InStep, Indexed, Filed
<1>3. ASSUME NEW p \in f.names PROVE p \in d.names \/ p[1] \in (d.seq + 1)..f.seq
  <2>1. p \in e.names \/ p[1] \in (e.seq + 1)..f.seq
    BY <1>1 DEF Tidy
  <2>2. p \in e.names => p \in d.names \/ p[1] \in (d.seq + 1)..e.seq
    BY DEF Tidy
  <2> QED
    BY <1>1, <1>2, <2>1, <2>2
<1> QED
  BY <1>1, <1>2, <1>3

\* What does not touch them keeps them tidy, a lost session too.
LEMMA TidyFrame ==
  ASSUME NEW d, NEW e, e.kind = d.kind, e.cache = d.cache, e.names = d.names, e.lru = d.lru, e.seq = d.seq,
         e.up => d.up /\ e.stmts = d.stmts
  PROVE  Tidy(d, e)
  BY DEF Tidy, InStep, Indexed, Filed, Listed, KeysOf, Served

\* A number may be left out.
LEMMA TidySeq ==
  ASSUME NEW d, IsConn(d)
  PROVE  Tidy(d, [d EXCEPT !.seq = @ + 1])
<1> DEFINE e == [d EXCEPT !.seq = @ + 1]
<1>1. /\ e.cache = d.cache /\ e.names = d.names /\ e.lru = d.lru /\ e.seq = d.seq + 1
      /\ e.up = d.up /\ e.stmts = d.stmts /\ e.kind = d.kind
  BY DEF IsConn, Fields
<1> HIDE DEF e
<1> SUFFICES ASSUME InStep(d) PROVE InStep(e) /\ d.seq <= e.seq /\ e.names = d.names
  BY <1>1 DEF Tidy, e
<1>2. Filed(e) /\ d.seq <= e.seq
  BY <1>1 DEF InStep, Indexed, Filed
<1> QED
  BY <1>1, <1>2 DEF InStep, Indexed, Listed, KeysOf, Served

\* With nothing prepared everything is in order.
LEMMA TidyEmpty ==
  ASSUME NEW d, NEW e, e.cache = {}, e.names = {}, e.lru = <<>>, e.stmts = {}, e.seq = d.seq
  PROVE  Tidy(d, e) /\ (e.seq \in Nat => InStep(e))
<1> SUFFICES ASSUME e.seq \in Nat PROVE InStep(e)
  BY DEF Tidy, InStep, Indexed, Filed
<1>1. IsFiniteSet({}) /\ Cardinality({}) = 0
  BY FS_EmptySet
<1>2. Filed(e) /\ Served(e)
  BY <1>1 DEF Filed, Served
<1>3. Listed(e)
  <2>1. KeysOf(e) = {} /\ DOMAIN e.lru = {} /\ Len(e.lru) = 0
    BY DEF KeysOf
  <2> QED
    BY <1>1, <2>1, EmptySeq DEF Listed
<1>4. Limit > 0 => Cardinality(e.cache) <= Limit
  BY <1>1, DriverAssumption
<1> QED
  BY <1>2, <1>3, <1>4 DEF InStep, Indexed

\* closeAllPrepared leaves nothing.
LEMMA TidyNothing ==
  ASSUME NEW d, IsConn(d)
  PROVE  Tidy(d, NothingPrepared(d))
<1> DEFINE e == NothingPrepared(d)
<1>1. /\ e.cache = {} /\ e.names = {} /\ e.lru = <<>> /\ e.seq = d.seq /\ e.stmts = {}
  BY DEF NothingPrepared, IsConn, Fields
<1> HIDE DEF e
<1> QED
  BY <1>1, TidyEmpty DEF e

\* An element is taken out of a list and put at its end.
LEMMA MovedToEnd ==
  ASSUME NEW S, NEW q \in Seq(S), NEW i \in DOMAIN q
  PROVE  LET t == Append(SubSeq(q, 1, i - 1) \o SubSeq(q, i + 1, Len(q)), q[i])
             at(j) == IF j < i THEN j ELSE IF j < Len(q) THEN j + 1 ELSE i
         IN /\ t \in Seq(S) /\ Len(t) = Len(q) /\ DOMAIN t = 1..Len(q) /\ DOMAIN q = 1..Len(q)
            /\ \A j \in 1..Len(q) : t[j] = q[at(j)]
<1> DEFINE n == Len(q)
           a == SubSeq(q, 1, i - 1)
           b == SubSeq(q, i + 1, n)
           ab == a \o b
           t == Append(ab, q[i])
<1>1. n \in Nat /\ DOMAIN q = 1..n /\ i \in 1..n /\ q[i] \in S
  BY LenProperties
<1>n. n = Len(q)
  OBVIOUS
<1> HIDE DEF n
<1>2. a \in Seq(S) /\ Len(a) = i - 1 /\ \A j \in 1..(i - 1) : a[j] = q[j]
  <2>1. 1 \in 1..(n + 1) /\ i - 1 \in 0..n
    BY <1>1
  <2>2. a \in Seq(S) /\ Len(a) = (IF 1 <= i - 1 THEN i - 1 - 1 + 1 ELSE 0)
        /\ \A j \in 1..(i - 1 - 1 + 1) : a[j] = q[1 + j - 1]
    BY <1>1, <2>1, SubSeqProperties
  <2> QED
    BY <1>1, <2>2
<1>3. b \in Seq(S) /\ Len(b) = n - i /\ \A j \in 1..(n - i) : b[j] = q[i + j]
  <2>1. i + 1 \in 1..(n + 1) /\ n \in i..n /\ n \in 0..n
    BY <1>1
  <2>2. b \in Seq(S) /\ Len(b) = (IF i + 1 <= n THEN n - (i + 1) + 1 ELSE 0)
        /\ \A j \in 1..(n - (i + 1) + 1) : b[j] = q[i + 1 + j - 1]
    BY <1>1, <2>1, SubSeqProperties
  <2> QED
    BY <1>1, <2>2
<1> HIDE DEF a, b
<1>4. /\ ab \in Seq(S) /\ Len(ab) = n - 1
      /\ \A j \in 1..(n - 1) : ab[j] = IF j <= i - 1 THEN a[j] ELSE b[j - (i - 1)]
  <2>1. /\ ab \in Seq(S) /\ Len(ab) = Len(a) + Len(b)
        /\ \A j \in 1..(Len(a) + Len(b)) : ab[j] = IF j <= Len(a) THEN a[j] ELSE b[j - Len(a)]
    BY <1>2, <1>3, ConcatProperties
  <2>2. Len(a) + Len(b) = n - 1
    BY <1>1, <1>2, <1>3
  <2> QED
    BY <1>2, <2>1, <2>2
<1>5. \A j \in 1..(n - 1) : ab[j] = q[IF j < i THEN j ELSE j + 1]
  <2> TAKE j \in 1..(n - 1)
  <2>1. CASE j < i
    BY <1>1, <1>2, <1>4, <2>1
  <2>2. CASE ~ j < i
    <3>1. j - (i - 1) \in 1..(n - i) /\ i + (j - (i - 1)) = j + 1 /\ ~ (j <= i - 1)
      BY <1>1, <2>2
    <3> QED
      BY <1>3, <1>4, <2>2, <3>1
  <2> QED
    BY <2>1, <2>2
<1> HIDE DEF ab
<1>6. t \in Seq(S) /\ Len(t) = n /\ (\A j \in 1..(n - 1) : t[j] = ab[j]) /\ t[n] = q[i]
  <2>1. /\ t \in Seq(S) /\ Len(t) = Len(ab) + 1 /\ t[Len(ab) + 1] = q[i]
        /\ \A j \in 1..Len(ab) : t[j] = ab[j]
    <3>1. ab \in Seq(S) /\ q[i] \in S
      BY <1>1, <1>4, Zenon
    <3>2. \A u \in Seq(S), x \in S :
            /\ Append(u, x) \in Seq(S) /\ Len(Append(u, x)) = Len(u) + 1
            /\ Append(u, x)[Len(u) + 1] = x
            /\ \A j \in 1..Len(u) : Append(u, x)[j] = u[j]
      BY AppendProperties
    <3> QED
      BY <3>1, <3>2, Zenon
  <2>2. Len(ab) + 1 = n /\ Len(ab) = n - 1
    BY <1>1, <1>4
  <2> QED
    BY <2>1, <2>2, Zenon
<1>7. DOMAIN t = 1..n
  BY <1>6, LenProperties
<1> HIDE DEF t
<1>8. \A j \in 1..n : t[j] = q[IF j < i THEN j ELSE IF j < n THEN j + 1 ELSE i]
  <2> TAKE j \in 1..n
  <2>1. CASE j < n
    <3>1. j \in 1..(n - 1)
      BY <1>1, <2>1
    <3>2. t[j] = q[IF j < i THEN j ELSE j + 1]
      BY <1>5, <1>6, <3>1
    <3> QED
      BY <2>1, <3>2
  <2>2. CASE ~ j < n
    <3>1. j = n /\ ~ j < i
      BY <1>1, <2>2
    <3>2. (IF j < i THEN j ELSE IF j < n THEN j + 1 ELSE i) = i
      BY <2>2, <3>1
    <3> QED
      BY <1>6, <3>1, <3>2, Zenon
  <2> QED
    BY <2>1, <2>2
<1>9. t = Append(SubSeq(q, 1, i - 1) \o SubSeq(q, i + 1, Len(q)), q[i])
  BY <1>n DEF t, ab, a, b
<1> QED
  BY <1>1, <1>n, <1>6, <1>7, <1>8, <1>9, Zenon

\* A hit keeps the list of keys.
LEMMA TidyTouched ==
  ASSUME NEW d, IsConn(d), NEW k, Cached(d, k)
  PROVE  Tidy(d, Touched(d, k))
<1> DEFINE i == CHOOSE j \in DOMAIN d.lru : d.lru[j] = k
           q == d.lru
           t == Append(SubSeq(q, 1, i - 1) \o SubSeq(q, i + 1, Len(q)), k)
           e == Touched(d, k)
<1>0. Touched(d, k) = [d EXCEPT !.lru = t]
  BY DEF Touched
<1>1. /\ e.cache = d.cache /\ e.names = d.names /\ e.seq = d.seq /\ e.stmts = d.stmts /\ e.up = d.up
      /\ e.lru = t /\ e.kind = d.kind
  BY <1>0 DEF IsConn, Fields
<1> HIDE DEF i, t, e
<1> SUFFICES ASSUME InStep(d) PROVE Listed(e)
  BY <1>1 DEF e, Tidy, InStep, Indexed, Filed, Served
<1>2. k \in KeysOf(d) /\ Listed(d) /\ KeysOf(e) = KeysOf(d)
  BY <1>1 DEF Cached, InStep, Indexed, KeysOf
<1>3. i \in DOMAIN q /\ q[i] = k /\ q \in Seq(KeysOf(d))
  <2>1. \E j \in DOMAIN d.lru : d.lru[j] = k
    BY <1>2 DEF Listed
  <2> QED
    BY <1>2, <2>1 DEF Listed, i
<1> DEFINE at(j) == IF j < i THEN j ELSE IF j < Len(q) THEN j + 1 ELSE i
<1>4. /\ t \in Seq(KeysOf(d)) /\ Len(t) = Len(q) /\ DOMAIN t = 1..Len(q) /\ DOMAIN q = 1..Len(q)
      /\ \A j \in 1..Len(q) : t[j] = q[at(j)]
  <2>1. t = Append(SubSeq(q, 1, i - 1) \o SubSeq(q, i + 1, Len(q)), q[i])
    BY <1>3, Zenon DEF t
  <2> HIDE DEF q
  <2> QED
    BY <1>3, <2>1, MovedToEnd
<1>5. Len(q) \in Nat
  BY <1>3, LenProperties
<1>6. \A j \in 1..Len(q) : at(j) \in 1..Len(q) /\ \A m \in 1..Len(q) : at(j) = at(m) => j = m
  <2> DEFINE n == Len(q)
  <2>1. n \in Nat /\ i \in 1..n
    BY <1>3, <1>4, <1>5
  <2>2. \A j \in 1..n : at(j) = IF j < i THEN j ELSE IF j < n THEN j + 1 ELSE i
    OBVIOUS
  <2> HIDE DEF n, at
  <2> SUFFICES ASSUME NEW j \in 1..n, NEW m \in 1..n PROVE at(j) \in 1..n /\ (at(j) = at(m) => j = m)
    BY Zenon DEF n
  <2> QED
    BY <2>1, <2>2
<1>7. \A m \in 1..Len(q) : \E j \in 1..Len(q) : at(j) = m
  <2> TAKE m \in 1..Len(q)
  <2> DEFINE j == IF m < i THEN m ELSE IF m = i THEN Len(q) ELSE m - 1
  <2>1. j \in 1..Len(q) /\ at(j) = m
    BY <1>3, <1>4, <1>5
  <2> QED
    BY <2>1
<1> HIDE DEF at
<1>8. \A x \in KeysOf(d) : \E j \in DOMAIN t : t[j] = x
  <2> TAKE x \in KeysOf(d)
  <2>1. PICK m \in DOMAIN q : q[m] = x
    BY <1>2 DEF Listed
  <2>2. PICK j \in 1..Len(q) : at(j) = m
    BY <1>4, <1>7, <2>1
  <2> QED
    BY <1>4, <2>1, <2>2
<1>9. \A j, m \in DOMAIN t : t[j] = t[m] => j = m
  <2> TAKE j, m \in DOMAIN t
  <2> HAVE t[j] = t[m]
  <2>1. q[at(j)] = q[at(m)] /\ at(j) \in DOMAIN q /\ at(m) \in DOMAIN q
    BY <1>4, <1>6
  <2>2. at(j) = at(m)
    BY <1>2, <2>1 DEF Listed
  <2> QED
    BY <1>4, <1>6, <2>2
<1> QED
  BY <1>1, <1>2, <1>4, <1>8, <1>9 DEF Listed

\* A statement that is prepared is indexed under the next number.
LEMMA InsertedIndexed ==
  ASSUME NEW d, IsConn(d), NEW k, ~ Cached(d, k), Indexed(d)
  PROVE  LET e == Inserted(d, k)
         IN /\ Indexed(e) /\ e.seq = d.seq + 1 /\ e.names = d.names \cup {<<d.seq + 1, k>>}
            /\ <<k, d.seq + 1>> \in e.cache /\ Cardinality(e.cache) = Cardinality(d.cache) + 1
            /\ e.lru[Len(e.lru)] = k /\ Len(e.lru) = Len(d.lru) + 1
<1> DEFINE e == Inserted(d, k)
           p == <<k, d.seq + 1>>
<1>1. /\ e.cache = d.cache \cup {p} /\ e.names = d.names \cup {<<d.seq + 1, k>>} /\ e.seq = d.seq + 1
      /\ e.lru = Append(d.lru, k) /\ e.stmts = d.stmts \cup {d.seq + 1} /\ e.up = d.up
      /\ e.kind = d.kind
  BY DEF Inserted, IsConn, Fields
<1> HIDE DEF e
<1>2. /\ d.seq \in Nat /\ IsFiniteSet(d.cache)
      /\ \A x \in d.cache : x = <<x[1], x[2]>> /\ x[2] \in 1..d.seq
      /\ \A x, y \in d.cache : x[1] = y[1] \/ x[2] = y[2] => x = y
      /\ d.names = {<<x[2], x[1]>> : x \in d.cache}
  BY DEF Indexed, Filed
<1>3. p[1] = k /\ p[2] = d.seq + 1 /\ p = <<p[1], p[2]>>
  OBVIOUS
<1> HIDE DEF p
<1>4. \A x \in d.cache : x[1] # p[1] /\ x[2] # p[2]
  BY <1>2, <1>3 DEF Cached
<1>5. IsFiniteSet(e.cache) /\ Cardinality(e.cache) = Cardinality(d.cache) + 1
  <2>1. p \notin d.cache
    BY <1>4
  <2>2. IsFiniteSet(d.cache) /\ e.cache = d.cache \cup {p}
    BY <1>1, <1>2
  <2> QED
    BY <2>1, <2>2, FS_AddElement
<1>6. Filed(e)
  <2>1. \A x \in e.cache : x = <<x[1], x[2]>> /\ x[2] \in 1..e.seq
    BY <1>1, <1>2, <1>3
  <2>2. \A x, y \in e.cache : x[1] = y[1] \/ x[2] = y[2] => x = y
    BY <1>1, <1>2, <1>4
  <2>3. e.names = {<<x[2], x[1]>> : x \in e.cache}
    BY <1>1, <1>2, <1>3
  <2>4. e.seq \in Nat
    BY <1>1, <1>2
  <2> QED
    BY <1>5, <2>1, <2>2, <2>3, <2>4 DEF Filed
<1>7. KeysOf(e) = KeysOf(d) \cup {k}
  BY <1>1, <1>3 DEF KeysOf
<1>8. k \notin KeysOf(d)
  BY <1>3, <1>4 DEF KeysOf
<1>9. d.lru \in Seq(KeysOf(e)) /\ Len(d.lru) \in Nat /\ DOMAIN d.lru = 1..Len(d.lru)
      /\ \A i \in DOMAIN d.lru : d.lru[i] \in KeysOf(d)
  <2>1. d.lru \in Seq(KeysOf(d))
    BY DEF Indexed, Listed
  <2> QED
    BY <1>7, <2>1, SeqMonotonic, LenProperties, ElementOfSeq
<1>10. /\ e.lru \in Seq(KeysOf(e)) /\ Len(e.lru) = Len(d.lru) + 1 /\ e.lru[Len(d.lru) + 1] = k
       /\ \A i \in 1..Len(d.lru) : e.lru[i] = d.lru[i]
  BY <1>1, <1>7, <1>9, AppendProperties
<1>11. DOMAIN e.lru = 1..(Len(d.lru) + 1)
  BY <1>10, LenProperties
<1>12. Listed(e)
  <2>1. \A x \in KeysOf(e) : \E i \in DOMAIN e.lru : e.lru[i] = x
    <3> TAKE x \in KeysOf(e)
    <3>1. CASE x = k
      BY <1>9, <1>10, <1>11, <3>1
    <3>2. CASE x \in KeysOf(d)
      <4>1. PICK i \in DOMAIN d.lru : d.lru[i] = x
        BY <3>2 DEF Indexed, Listed
      <4> QED
        BY <1>9, <1>10, <1>11, <4>1
    <3> QED
      BY <1>7, <3>1, <3>2
  <2>2. \A i, j \in DOMAIN e.lru : e.lru[i] = e.lru[j] => i = j
    <3> TAKE i, j \in DOMAIN e.lru
    <3> HAVE e.lru[i] = e.lru[j]
    <3>1. \A m \in DOMAIN e.lru : m \in DOMAIN d.lru \/ m = Len(d.lru) + 1
      BY <1>9, <1>11
    <3>2. \A m, n \in DOMAIN d.lru : d.lru[m] = d.lru[n] => m = n
      BY DEF Indexed, Listed
    <3>3. \A m \in DOMAIN d.lru : e.lru[m] = d.lru[m] /\ e.lru[m] # k
      BY <1>8, <1>9, <1>10
    <3> QED
      BY <1>10, <3>1, <3>2, <3>3
  <2>3. Len(e.lru) = Cardinality(e.cache)
    BY <1>5, <1>10 DEF Indexed, Listed
  <2> QED
    BY <1>10, <2>1, <2>2, <2>3 DEF Listed
<1>13. Served(e)
  BY <1>1, <1>3 DEF Served, Indexed
<1> QED
  BY <1>1, <1>5, <1>6, <1>10, <1>12, <1>13 DEF Indexed, e, p

\* The first statement of the list goes out.
LEMMA EvictedIndexed ==
  ASSUME NEW d, IsConn(d), Indexed(d), d.cache # {}
  PROVE  LET k == Head(d.lru)
             e == Evicted(d, k)
         IN /\ Indexed(e) /\ e.seq = d.seq /\ e.names \subseteq d.names
            /\ Cardinality(e.cache) = Cardinality(d.cache) - 1
            /\ \A p \in d.cache : p[1] # k => p \in e.cache
<1> DEFINE k == Head(d.lru)
           e == Evicted(d, k)
<1>1. /\ e.cache = {p \in d.cache : p[1] # k} /\ e.names = {p \in d.names : p[1] # IdOf(d, k)}
      /\ e.seq = d.seq /\ e.lru = Tail(d.lru) /\ e.stmts = d.stmts \ {IdOf(d, k)} /\ e.up = d.up
      /\ e.kind = d.kind
  BY DEF Evicted, IsConn, Fields
<1>2. /\ d.seq \in Nat /\ IsFiniteSet(d.cache)
      /\ \A x \in d.cache : x = <<x[1], x[2]>> /\ x[2] \in 1..d.seq
      /\ \A x, y \in d.cache : x[1] = y[1] \/ x[2] = y[2] => x = y
      /\ d.names = {<<x[2], x[1]>> : x \in d.cache}
  BY DEF Indexed, Filed
<1>3. Cardinality(d.cache) \in Nat /\ Cardinality(d.cache) # 0
  BY <1>2, FS_EmptySet, FS_CardinalityType
<1>4. /\ d.lru \in Seq(KeysOf(d)) /\ Len(d.lru) = Cardinality(d.cache)
      /\ \A x \in KeysOf(d) : \E i \in DOMAIN d.lru : d.lru[i] = x
      /\ \A i, j \in DOMAIN d.lru : d.lru[i] = d.lru[j] => i = j
  BY DEF Indexed, Listed
<1> DEFINE n == Len(d.lru)
<1>5. n \in Nat /\ n >= 1 /\ DOMAIN d.lru = 1..n /\ d.lru # <<>>
  BY <1>3, <1>4, LenProperties, EmptySeq
<1>6. k = d.lru[1] /\ k \in KeysOf(d)
  BY <1>4, <1>5, HeadTailProperties, ElementOfSeq
<1>7. PICK p \in d.cache : p[1] = k
  BY <1>6 DEF KeysOf
<1>8. IdOf(d, k) = p[2]
  BY <1>2, <1>7 DEF IdOf
<1> HIDE DEF k, e
<1>9. e.cache = d.cache \ {p}
  BY <1>1, <1>2, <1>7
<1>10. IsFiniteSet(e.cache) /\ Cardinality(e.cache) = Cardinality(d.cache) - 1
  BY <1>2, <1>7, <1>9, FS_RemoveElement
<1>11. Filed(e)
  <2>1. e.names = {<<x[2], x[1]>> : x \in e.cache}
    <3>1. \A x \in d.cache : <<x[2], x[1]>>[1] = x[2]
      OBVIOUS
    <3>2. \A x \in d.cache : x[2] # p[2] <=> x # p
      BY <1>2, <1>7
    <3> QED
      BY <1>1, <1>2, <1>8, <1>9, <3>1, <3>2
  <2> QED
    BY <1>1, <1>2, <1>9, <1>10, <2>1 DEF Filed
<1>12. KeysOf(e) = KeysOf(d) \ {k}
  BY <1>2, <1>7, <1>9 DEF KeysOf
<1>13. e.lru \in Seq(KeysOf(d)) /\ Len(e.lru) = n - 1 /\ \A i \in 1..(n - 1) : e.lru[i] = d.lru[i + 1]
  BY <1>1, <1>4, <1>5, HeadTailProperties
<1>14. DOMAIN e.lru = 1..(n - 1)
  BY <1>13, LenProperties
<1>15. Listed(e)
  <2>1. \A i \in 1..(n - 1) : e.lru[i] \in KeysOf(e)
    <3> TAKE i \in 1..(n - 1)
    <3>1. i + 1 \in DOMAIN d.lru /\ 1 \in DOMAIN d.lru /\ i + 1 # 1
      BY <1>5
    <3>2. d.lru[i + 1] # k /\ d.lru[i + 1] \in KeysOf(d)
      BY <1>4, <1>6, <3>1, ElementOfSeq, <1>5
    <3> QED
      BY <1>12, <1>13, <3>2
  <2>2. e.lru \in Seq(KeysOf(e))
    <3>1. e.lru = [i \in 1..(n - 1) |-> e.lru[i]]
      BY <1>13, <1>14, LenProperties
    <3>2. [i \in 1..(n - 1) |-> e.lru[i]] \in Seq(KeysOf(e))
      BY <1>5, <2>1, IsASeq
    <3> QED
      BY <3>1, <3>2
  <2>3. \A x \in KeysOf(e) : \E i \in DOMAIN e.lru : e.lru[i] = x
    <3> TAKE x \in KeysOf(e)
    <3>1. PICK j \in DOMAIN d.lru : d.lru[j] = x
      BY <1>4, <1>12
    <3>2. j # 1
      BY <1>6, <1>12, <3>1
    <3>3. j - 1 \in 1..(n - 1) /\ j - 1 + 1 = j
      BY <1>5, <3>2
    <3> QED
      BY <1>13, <1>14, <3>1, <3>3
  <2>4. \A i, j \in DOMAIN e.lru : e.lru[i] = e.lru[j] => i = j
    <3> TAKE i, j \in DOMAIN e.lru
    <3> HAVE e.lru[i] = e.lru[j]
    <3>1. i + 1 \in DOMAIN d.lru /\ j + 1 \in DOMAIN d.lru /\ i \in Int /\ j \in Int
      BY <1>5, <1>14
    <3>2. d.lru[i + 1] = d.lru[j + 1]
      BY <1>13, <1>14
    <3>3. i + 1 = j + 1
      BY <1>4, <3>1, <3>2
    <3> QED
      BY <3>1, <3>3
  <2>5. Len(e.lru) = Cardinality(e.cache)
    BY <1>4, <1>10, <1>13
  <2> QED
    BY <2>2, <2>3, <2>4, <2>5 DEF Listed
<1>16. Served(e)
  <2> DEFINE ids == {x[2] : x \in d.cache}
  <2>1. {x[2] : x \in e.cache} = ids \ {p[2]}
    <3>1. \A x \in d.cache : x[2] = p[2] => x = p
      BY <1>2, <1>7
    <3> QED
      BY <1>7, <1>9, <3>1
  <2>2. d.up => /\ ids \subseteq d.stmts
                /\ ~ (d.kind = "postgres" /\ SwallowedFail) => ids = d.stmts
    BY DEF Indexed, Served
  <2> HIDE DEF ids
  <2> QED
    BY <1>1, <1>8, <2>1, <2>2 DEF Served
<1> QED
  BY <1>1, <1>10, <1>11, <1>15, <1>16 DEF Indexed, e, k

\* Preparing a statement keeps the limit, and has the statement afterwards.
LEMMA TidyPrepared ==
  ASSUME NEW d, IsConn(d), NEW k, ~ Cached(d, k)
  PROVE  LET e == Trimmed(Inserted(d, k))
         IN Tidy(d, e) /\ (InStep(d) => <<k, d.seq + 1>> \in e.cache /\ e.seq = d.seq + 1)
<1> DEFINE i == Inserted(d, k)
           e == Trimmed(i)
           p == <<k, d.seq + 1>>
<1> SUFFICES ASSUME InStep(d)
             PROVE  /\ InStep(e) /\ d.seq <= e.seq /\ p \in e.cache /\ e.seq = d.seq + 1
                    /\ \A x \in e.names : x \in d.names \/ x[1] \in (d.seq + 1)..e.seq
  BY DEF Tidy
<1>1. /\ Indexed(i) /\ i.seq = d.seq + 1 /\ i.names = d.names \cup {<<d.seq + 1, k>>}
      /\ p \in i.cache /\ Cardinality(i.cache) = Cardinality(d.cache) + 1
      /\ i.lru[Len(i.lru)] = k /\ Len(i.lru) = Len(d.lru) + 1
  BY InsertedIndexed DEF InStep
<1>2. IsConn(i)
  BY DEF Inserted, IsConn, Fields
<1> HIDE DEF i
<1>3. d.seq \in Nat /\ IsFiniteSet(d.cache) /\ IsFiniteSet(i.cache) /\ p[1] = k
  BY <1>1 DEF InStep, Indexed, Filed
<1>4. Cardinality(d.cache) \in Nat /\ Cardinality(i.cache) \in Nat
  BY <1>3, FS_CardinalityType
<1>5. \A x \in i.names : x \in d.names \/ x[1] \in (d.seq + 1)..i.seq
  BY <1>1, <1>3
<1>6. CASE ~ (Limit > 0 /\ Cardinality(i.cache) > Limit)
  <2>1. e = i
    BY <1>6 DEF Trimmed
  <2> QED
    BY <1>1, <1>3, <1>4, <1>5, <1>6, <2>1, DriverAssumption DEF InStep
<1>7. CASE Limit > 0 /\ Cardinality(i.cache) > Limit
  <2>1. e = Evicted(i, Head(i.lru))
    BY <1>7 DEF Trimmed
  <2> HIDE DEF e
  <2>2. /\ Indexed(e) /\ e.seq = i.seq /\ e.names \subseteq i.names
        /\ Cardinality(e.cache) = Cardinality(i.cache) - 1
        /\ \A x \in i.cache : x[1] # Head(i.lru) => x \in e.cache
    BY <1>1, <1>2, <2>1, EvictedIndexed
  <2>3. Cardinality(e.cache) <= Limit
    BY <1>1, <1>4, <1>7, <2>2, DriverAssumption DEF InStep
  <2>4. Head(i.lru) # k
    <3>1. i.lru \in Seq(KeysOf(i)) /\ Len(i.lru) = Cardinality(i.cache)
          /\ \A m, n \in DOMAIN i.lru : i.lru[m] = i.lru[n] => m = n
      BY <1>1 DEF Indexed, Listed
    <3>2. Len(i.lru) \in Nat /\ Len(i.lru) > 1 /\ DOMAIN i.lru = 1..Len(i.lru) /\ i.lru # <<>>
      BY <1>4, <1>7, <3>1, LenProperties, EmptySeq, DriverAssumption
    <3>3. Head(i.lru) = i.lru[1]
      BY <3>1, <3>2, HeadTailProperties
    <3> QED
      BY <1>1, <3>1, <3>2, <3>3
  <2> QED
    BY <1>1, <1>3, <1>5, <2>2, <2>3, <2>4 DEF InStep
<1> QED
  BY <1>6, <1>7

-----------------------------------------------------------------------------
(* The rows of a connection. *)

\* The rows that the operation in progress may write.
Now == IF op \in {"none", "closeCursor"} THEN {} ELSE {Row(1), Row(2)}

\* All of b or none of it: in a set, and in both sets of a connection.
Whole(b, X) == b \subseteq X \/ b \cap X = {}
Wholly(b, d) == Whole(b, d.stored) /\ Whole(b, d.rows)

\* e has no rows that d had not, but those of the operation, and it has split no
\* set of rows that are not of the operation.
Rowed(d, e) ==
  /\ e.rows \subseteq d.rows \cup Now /\ e.stored \subseteq d.stored \cup d.rows \cup Now
  /\ \A b : b \cap Now = {} /\ Wholly(b, d) => Wholly(b, e)

\* The prepared statements and the rows of a connection stay in order.
Kept(d, e) == Tidy(d, e) /\ Rowed(d, e)

\* They stay in order one step after the other.
LEMMA KeptTrans ==
  ASSUME NEW d, NEW e, NEW f, Kept(d, e), Kept(e, f)
  PROVE  Kept(d, f)
<1>1. Tidy(d, f)
  BY TidyTrans DEF Kept
<1>2. Rowed(d, f)
  BY DEF Kept, Rowed
<1> QED
  BY <1>1, <1>2 DEF Kept

\* What does not touch them keeps them.
LEMMA KeptFrame ==
  ASSUME NEW d, NEW e, e.kind = d.kind, e.cache = d.cache, e.names = d.names, e.lru = d.lru, e.seq = d.seq,
         e.up => d.up /\ e.stmts = d.stmts, e.rows = d.rows, e.stored = d.stored
  PROVE  Kept(d, e)
<1>1. Tidy(d, e)
  BY TidyFrame
<1>2. Rowed(d, e)
  BY DEF Rowed, Wholly
<1> QED
  BY <1>1, <1>2 DEF Kept

\* What does not touch the rows keeps them.
LEMMA RowedFrame ==
  ASSUME NEW d, NEW e, e.rows = d.rows, e.stored = d.stored
  PROVE  Rowed(d, e)
  BY DEF Rowed, Wholly

\* What the server does to the rows: none are split.
LEMMA RowedServer ==
  ASSUME NEW d, IsConn(d)
  PROVE  /\ Rowed(d, Gone(d)) /\ Rowed(d, Undone(d)) /\ Rowed(d, Committed(d))
         /\ \A W \in SUBSET Now : Rowed(d, Wrote(d, W))
<1>1. ASSUME NEW e, e.rows = {}, e.stored = d.stored PROVE Rowed(d, e)
  BY <1>1 DEF Rowed, Wholly, Whole
<1>2. ASSUME NEW e, e.rows = {}, e.stored = d.stored \cup d.rows PROVE Rowed(d, e)
  <2>1. ASSUME NEW b, Wholly(b, d) PROVE Wholly(b, e)
    BY <1>2, <2>1 DEF Wholly, Whole
  <2> QED
    BY <1>2, <2>1 DEF Rowed
<1>3. ASSUME NEW e, NEW W \in SUBSET Now,
             \/ e.rows = d.rows \cup W /\ e.stored = d.stored
             \/ e.rows = d.rows /\ e.stored = d.stored \cup W
             \/ e.rows = W /\ e.stored = d.stored
      PROVE  Rowed(d, e)
  <2>1. ASSUME NEW b, b \cap Now = {}, Wholly(b, d) PROVE Wholly(b, e)
    BY <1>3, <2>1 DEF Wholly, Whole
  <2> QED
    BY <1>3, <2>1 DEF Rowed
<1>4. /\ Gone(d).rows = {} /\ Gone(d).stored = d.stored
      /\ Undone(d).rows = {} /\ Undone(d).stored = d.stored
      /\ Committed(d).rows = {} /\ Committed(d).stored = d.stored \cup d.rows
  BY DEF Gone, Undone, Committed, IsConn, Fields
<1>5. ASSUME NEW W \in SUBSET Now PROVE Rowed(d, Wrote(d, W))
  <2> DEFINE e == Wrote(d, W)
  <2>1. \/ e.rows = d.rows \cup W /\ e.stored = d.stored
        \/ e.rows = d.rows /\ e.stored = d.stored \cup W
        \/ e.rows = W /\ e.stored = d.stored
    BY DEF Wrote, IsConn, Fields
  <2> HIDE DEF e
  <2> QED
    BY <1>3, <2>1 DEF e
<1> QED
  BY <1>1, <1>2, <1>4, <1>5

\* What the server does keeps the prepared statements and the rows.
LEMMA KeptServer ==
  ASSUME NEW d, IsConn(d)
  PROVE  /\ Kept(d, d) /\ Kept(d, Gone(d)) /\ Kept(d, Errored(d)) /\ Kept(d, Undone(d))
         /\ Kept(d, Committed(d)) /\ \A W \in SUBSET Now : Kept(d, Wrote(d, W))
<1>1. Kept(d, d)
  BY KeptFrame
<1>2. Kept(d, Errored(d))
  <2> DEFINE e == Errored(d)
  <2>1. /\ e.cache = d.cache /\ e.names = d.names /\ e.lru = d.lru /\ e.seq = d.seq
        /\ e.up = d.up /\ e.stmts = d.stmts /\ e.rows = d.rows /\ e.stored = d.stored
        /\ e.kind = d.kind
    BY DEF Errored, IsConn, Fields
  <2> HIDE DEF e
  <2> QED
    BY <2>1, KeptFrame DEF e
<1>3. ASSUME NEW e \in {Gone(d), Undone(d), Committed(d)} \cup {Wrote(d, W) : W \in SUBSET Now}
      PROVE  Tidy(d, e)
  <2>1. /\ e.cache = d.cache /\ e.names = d.names /\ e.lru = d.lru /\ e.seq = d.seq
        /\ e.up => d.up /\ e.stmts = d.stmts
    BY DEF Gone, Undone, Committed, Wrote, IsConn, Fields
  <2>2. e.kind = d.kind
    BY DEF Gone, Undone, Committed, Wrote, IsConn, Fields
  <2> QED
    BY <2>1, <2>2, TidyFrame
<1> QED
  BY <1>1, <1>2, <1>3, RowedServer DEF Kept

\* Changing the cache of prepared statements keeps it and the rows.
LEMMA KeptPrepared ==
  ASSUME NEW d, IsConn(d), NEW k
  PROVE  /\ Cached(d, k) => Kept(d, Touched(d, k))
         /\ ~ Cached(d, k) => Kept(d, Trimmed(Inserted(d, k)))
         /\ Kept(d, NothingPrepared(d)) /\ Kept(d, [d EXCEPT !.seq = @ + 1])
<1>1. /\ Touched(d, k).rows = d.rows /\ Touched(d, k).stored = d.stored
      /\ NothingPrepared(d).rows = d.rows /\ NothingPrepared(d).stored = d.stored
      /\ [d EXCEPT !.seq = @ + 1].rows = d.rows /\ [d EXCEPT !.seq = @ + 1].stored = d.stored
  BY DEF Touched, NothingPrepared, IsConn, Fields
<1>2. Trimmed(Inserted(d, k)).rows = d.rows /\ Trimmed(Inserted(d, k)).stored = d.stored
  <2> DEFINE i == Inserted(d, k)
  <2>1. IsConn(i) /\ i.rows = d.rows /\ i.stored = d.stored
    BY DEF Inserted, IsConn, Fields
  <2> HIDE DEF i
  <2> QED
    BY <2>1 DEF i, Trimmed, Evicted, IsConn, Fields
<1> QED
  BY <1>1, <1>2, RowedFrame, TidyTouched, TidyPrepared, TidyNothing, TidySeq DEF Kept

-----------------------------------------------------------------------------
(* The connection. *)

\* e is d after something that leaves its cursor where it is; that also leaves the
\* flag and autocommit; that also opens no transaction.  With Oracle, whose
\* server opens transactions by itself, only the first is said.
Same(d, e) == /\ IsConn(e) /\ e.kind = d.kind /\ e.open = d.open /\ e.slot = d.slot
              /\ e.cursor = d.cursor /\ (e.up => d.up) /\ Kept(d, e)
Near(d, e) == Same(d, e) /\ (d.kind # "oracle" => e.flag = d.flag /\ e.auto = d.auto)
Keep(d, e) ==
  Near(d, e) /\ (d.kind # "oracle" /\ d.auto /\ d.tx = "none" => e.tx = "none")

\* The same of every outcome of an operation.
Plain(d, S) == \A r \in S : Keep(d, r.c)
Loose(d, S) == \A r \in S : Near(d, r.c)

\* What keeps, keeps one after the other.
LEMMA KeepTrans ==
  ASSUME NEW d, NEW e, NEW f, Keep(d, e), Keep(e, f)
  PROVE  Keep(d, f)
  BY KeptTrans DEF Keep, Near, Same

\* What stays near, stays near one after the other.
LEMMA NearTrans ==
  ASSUME NEW d, NEW e, NEW f, Near(d, e), Near(e, f)
  PROVE  Near(d, f)
  BY KeptTrans DEF Near, Same

\* Keeping the transaction is being near.
LEMMA KeepNear == ASSUME NEW d, NEW e, Keep(d, e) PROVE Near(d, e)
  BY DEF Keep

\* What is kept is a connection.
LEMMA KeepIs == ASSUME NEW d, NEW e, Keep(d, e) PROVE IsConn(e)
  BY DEF Keep, Near, Same

\* What is near is a connection.
LEMMA NearIs == ASSUME NEW d, NEW e, Near(d, e) PROVE IsConn(e)
  BY DEF Near, Same

\* A lost session, a failed statement, a write, the ends of a transaction on the
\* server, and the fields that no invariant is about: all keep the transaction.
LEMMA Basics ==
  ASSUME NEW d, IsConn(d)
  PROVE  /\ Keep(d, d) /\ Keep(d, Gone(d)) /\ Keep(d, Errored(d)) /\ Keep(d, Undone(d))
         /\ Keep(d, Committed(d))
         /\ \A x : Keep(d, [d EXCEPT !.wire = x])
         /\ Plain(d, Ok(d)) /\ Plain(d, Refused(d))
<1>1. Keep(d, d) /\ Keep(d, Gone(d)) /\ Keep(d, Undone(d))
  BY KeptServer DEF Keep, Near, Same, IsConn, Gone, Undone, Fields
<1>2. Keep(d, Errored(d))
  BY KeptServer DEF Keep, Near, Same, IsConn, Errored, Fields
<1>3. ASSUME NEW x PROVE Keep(d, [d EXCEPT !.wire = x])
  <2>1. Kept(d, [d EXCEPT !.wire = x])
    BY KeptFrame DEF IsConn, Fields
  <2> QED
    BY <2>1 DEF Keep, Near, Same, IsConn, Fields
<1>5. Plain(d, Ok(d)) /\ Plain(d, Refused(d))
  BY <1>1 DEF Plain, Ok, Refused, Res
<1>6. Keep(d, Committed(d))
  BY KeptServer DEF Keep, Near, Same, IsConn, Committed, Fields
<1> QED
  BY <1>1, <1>2, <1>3, <1>5, <1>6

\* So do writing the rows of the operation and taking a number for a statement.
LEMMA WroteKept ==
  ASSUME NEW d, IsConn(d)
  PROVE  /\ \A W \in SUBSET Now : Keep(d, Wrote(d, W))
         /\ Keep(d, [d EXCEPT !.seq = @ + 1])
<1>1. ASSUME NEW W \in SUBSET Now PROVE Keep(d, Wrote(d, W))
  BY KeptServer DEF Keep, Near, Same, IsConn, Wrote, Fields
<1>2. Keep(d, [d EXCEPT !.seq = @ + 1])
  BY KeptPrepared DEF Keep, Near, Same, IsConn, Fields
<1> QED
  BY <1>1, <1>2

\* Rolling back a near connection keeps the transaction there was: none.
LEMMA NearUndone ==
  ASSUME NEW d, NEW e, Near(d, e)
  PROVE  Keep(d, Undone(e))
<1>1. Kept(d, Undone(e))
  BY KeptServer, KeptTrans DEF Near, Same
<1> QED
  BY <1>1 DEF Keep, Near, Same, IsConn, Undone, Fields

\* A command keeps the transaction if what it does when it succeeds keeps it.
LEMMA SentPlain ==
  ASSUME NEW d, IsConn(d), NEW S, Plain(d, S)
  PROVE  Plain(d, Sent(d, S))
  BY Basics DEF Plain, Sent, Res

\* A statement keeps the transaction: outside one it commits by itself.
LEMMA StatementPlain ==
  ASSUME NEW d, IsConn(d), NEW W \in SUBSET Now
  PROVE  Plain(d, Statement(d, W))
<1>1. Plain(d, {})
  BY DEF Plain
<1>2. Keep(d, Wrote(d, W)) /\ Keep(d, Gone(Wrote(d, W)))
  BY WroteKept, Basics, KeepTrans, KeepIs
<1>3. Plain(d, Ok(Wrote(d, W)) \cup {Res(Gone(Wrote(d, W)), LostStatus(d))}) /\ Plain(d, Ok(Wrote(d, W)))
  BY <1>2 DEF Plain, Ok, Res
<1>4. /\ Plain(d, Sent(d, Ok(Wrote(d, W)) \cup {Res(Gone(Wrote(d, W)), LostStatus(d))}))
      /\ Plain(d, Sent(d, Ok(Wrote(d, W)) \cup {})) /\ Plain(d, Sent(d, {}))
  BY <1>1, <1>3, SentPlain
<1> QED
  BY <1>4 DEF Statement

\* Outcomes of either of two operations that keep the transaction.
LEMMA BothPlain ==
  ASSUME NEW d, NEW S, NEW T, Plain(d, S), Plain(d, T)
  PROVE  Plain(d, S \cup T)
  BY DEF Plain

\* Changing the cache of prepared statements keeps the transaction.
LEMMA PreparedPlain ==
  ASSUME NEW d, IsConn(d), NEW k
  PROVE  /\ Cached(d, k) => Keep(d, Touched(d, k))
         /\ ~ Cached(d, k) => Keep(d, Trimmed(Inserted(d, k)))
         /\ Keep(d, NothingPrepared(d))
<1> DEFINE Alike(e) == /\ IsConn(e) /\ e.kind = d.kind /\ e.open = d.open /\ e.slot = d.slot
                       /\ e.cursor = d.cursor /\ e.up = d.up /\ e.flag = d.flag /\ e.auto = d.auto
                       /\ e.tx = d.tx /\ e.rows = d.rows
<1>1. Alike(Touched(d, k)) /\ Alike(NothingPrepared(d)) /\ Alike(Inserted(d, k))
  BY DEF IsConn, Fields, Touched, Inserted, NothingPrepared
<1>2. Alike(Trimmed(Inserted(d, k)))
  <2> DEFINE i == Inserted(d, k)
  <2>1. Alike(i)
    BY <1>1
  <2> HIDE DEF i
  <2> QED
    BY <2>1 DEF i, IsConn, Fields, Trimmed, Evicted
<1>3. ASSUME NEW e, Alike(e), Kept(d, e) PROVE Keep(d, e)
  BY <1>3 DEF Keep, Near, Same
<1> HIDE DEF Alike
<1> QED
  BY <1>1, <1>2, <1>3, KeptPrepared

\* COMMIT and ROLLBACK of the server leave what the connection knows as it is.
LEMMA ServerEndPlain ==
  ASSUME NEW d, IsConn(d)
  PROVE  Plain(d, ServerCommit(d)) /\ Plain(d, ServerRollback(d))
<1>1. Keep(d, Gone(Committed(d)))
  BY Basics, KeepTrans, KeepIs
<1>2. /\ Plain(d, {Res(Undone(d), "ok"), Res(Undone(d), "error")})
      /\ Plain(d, {Res(Committed(d), "ok"), Res(Undone(d), "error"), Res(Gone(Committed(d)), LostStatus(d))})
      /\ Plain(d, Ok(Undone(d)))
  BY <1>1, Basics DEF Plain, Res, Ok
<1>3. /\ Plain(d, Sent(d, {Res(Undone(d), "ok"), Res(Undone(d), "error")}))
      /\ Plain(d, Sent(d, {Res(Committed(d), "ok"), Res(Undone(d), "error"),
                           Res(Gone(Committed(d)), LostStatus(d))}))
      /\ Plain(d, Sent(d, Ok(Undone(d))))
  BY <1>2, SentPlain
<1> QED
  BY <1>3 DEF ServerCommit, ServerRollback

\* The parts of an outcome.
LEMMA ResFields == ASSUME NEW d, NEW x PROVE Res(d, x).c = d /\ Res(d, x).st = x
  BY DEF Res

\* A lost session is never reported as a success.
LEMMA LostIsFailure == ASSUME NEW d PROVE LostStatus(d) # "ok"
  BY DEF LostStatus

\* How a command that is sent may end: as it says, or with a failure.
LEMMA SentCases ==
  ASSUME NEW d, NEW S, NEW r \in Sent(d, S)
  PROVE  r \in S \/ (r.st # "ok" /\ r.c \in {d, Errored(d), Gone(d)})
<1> DEFINE l == LostStatus(d)
<1>1. l # "ok"
  BY LostIsFailure
<1>2. r \in S \cup {Res(Errored(d), "error"), Res(Gone(d), l), Res(d, l)}
  BY DEF Sent
<1> HIDE DEF l
<1> QED
  BY <1>1, <1>2, ResFields

\* A statement that was not released: the cache is as it was, and the server has more.
LEMMA KeptUnreleased ==
  ASSUME NEW d, IsConn(d), d.kind = "postgres", SwallowedFail, NEW S
  PROVE  Keep(d, [d EXCEPT !.stmts = @ \cup S])
<1> DEFINE e == [d EXCEPT !.stmts = @ \cup S]
<1>1. /\ IsConn(e) /\ e.kind = d.kind /\ e.open = d.open /\ e.slot = d.slot /\ e.cursor = d.cursor
      /\ e.up = d.up /\ e.flag = d.flag /\ e.auto = d.auto /\ e.tx = d.tx /\ e.rows = d.rows
      /\ e.stored = d.stored /\ e.cache = d.cache /\ e.names = d.names /\ e.lru = d.lru
      /\ e.seq = d.seq /\ e.stmts = d.stmts \cup S
  BY DEF IsConn, Fields
<1> HIDE DEF e
<1>2. Tidy(d, e)
  <2>1. Served(d) => Served(e)
    BY <1>1 DEF Served
  <2> QED
    BY <1>1, <2>1 DEF Tidy, InStep, Indexed, Filed, Listed, KeysOf
<1>3. Kept(d, e)
  BY <1>1, <1>2, RowedFrame DEF Kept
<1> QED
  BY <1>1, <1>3 DEF e, Keep, Near, Same

\* What prepare of PostgreSQL may return.
LEMMA PgPrepareCases ==
  ASSUME NEW d, NEW k, NEW r \in PgPrepare(d, k)
  PROVE  LET i == Trimmed(Inserted(d, k))
             q == [d EXCEPT !.seq = @ + 1]
         IN \/ Cached(d, k) /\ r.c = Touched(d, k)
            \/ /\ ~ Cached(d, k)
               /\ \/ r.st # "ok" /\ r.c \in {d, q, Errored(q), Gone(q)}
                  \/ r.c \in {i, Gone(i)}
                  \/ SwallowedFail /\ r.c = PgUnreleased(d, i)
<1> DEFINE i == Trimmed(Inserted(d, k))
           q == [d EXCEPT !.seq = @ + 1]
           P == IF d.tx = "aborted" THEN {} ELSE PgPrepared(d, i)
<1>1. PgPrepare(d, k) = IF Cached(d, k) THEN Ok(Touched(d, k)) ELSE Refused(d) \cup Sent(q, P)
  BY DEF PgPrepare
<1> HIDE DEF i, q
<1>2. ASSUME NEW x \in P PROVE x.c \in {i, Gone(i)} \/ (SwallowedFail /\ x.c = PgUnreleased(d, i))
  <2>1. x \in PgPrepared(d, i)
    OBVIOUS
  <2>2. x \in Ok(i) \/ x \in Ok(Gone(i)) \/ (SwallowedFail /\ x \in Ok(PgUnreleased(d, i)))
    BY <2>1 DEF PgPrepared
  <2> QED
    BY <2>2, ResFields DEF Ok
<1> HIDE DEF P
<1>3. CASE Cached(d, k)
  BY <1>1, <1>3, ResFields DEF Ok
<1>4. CASE ~ Cached(d, k)
  <2>1. r \in Refused(d) \/ r \in Sent(q, P)
    BY <1>1, <1>4
  <2>2. r \in Refused(d) => r.st # "ok" /\ r.c = d
    BY ResFields DEF Refused
  <2>3. r \in Sent(q, P) => r \in P \/ (r.st # "ok" /\ r.c \in {q, Errored(q), Gone(q)})
    BY SentCases
  <2> QED
    BY <1>2, <1>4, <2>1, <2>2, <2>3 DEF i, q
<1> QED
  BY <1>3, <1>4

-----------------------------------------------------------------------------
(* MySQL. *)

\* What the operations of the MySQL driver are made of keeps the transaction.
LEMMA MysqlParts ==
  ASSUME NEW d, IsConn(d)
  PROVE  /\ \A S : Plain(d, S) => Plain(d, MysqlSend(d, S))
         /\ Plain(d, Sent(d, Ok(d)))
         /\ Plain(d, MysqlFill(d)) /\ Plain(d, MysqlDrain(d)) /\ Plain(d, MysqlRows(d))
         /\ Plain(d, MysqlPrepareAndBind(d))
         /\ \A W \in SUBSET Now : Plain(d, MysqlStmtExecute(d, W))
<1>1. ASSUME NEW S, Plain(d, S) PROVE Plain(d, MysqlSend(d, S))
  BY <1>1, Basics, SentPlain DEF MysqlSend
<1>2. Plain(d, Sent(d, Ok(d))) /\ Plain(d, MysqlDrain(d))
  BY Basics, SentPlain DEF MysqlDrain
<1>3. Plain(d, MysqlFill(d))
  <2>1. Keep(d, d) /\ Keep(d, [d EXCEPT !.wire = TextResults])
    BY Basics
  <2> QED
    BY <2>1 DEF Plain, MysqlFill, Res
<1>4. Plain(d, MysqlRows(d))
  BY <1>2, Basics, BothPlain DEF MysqlRows
<1>5. \A e : IsConn(e) => Plain(e, MysqlPrepareAndBind(e))
  <2> SUFFICES ASSUME NEW e, IsConn(e) PROVE Plain(e, MysqlPrepareAndBind(e))
    OBVIOUS
  <2>1. Plain(e, MysqlSend(e, Ok(e)))
    BY Basics, SentPlain DEF MysqlSend
  <2> QED
    BY <2>1, Basics, BothPlain DEF MysqlPrepareAndBind
<1>6. ASSUME NEW W \in SUBSET Now PROVE Plain(d, MysqlStmtExecute(d, W))
  BY <1>5, StatementPlain, KeepTrans, KeepIs DEF Plain, Then, MysqlStmtExecute
<1> QED
  BY <1>1, <1>2, <1>3, <1>4, <1>5, <1>6

\* So do ping and the operations that read.
LEMMA MysqlReads ==
  ASSUME NEW d, IsConn(d)
  PROVE  /\ Plain(d, MysqlPing(d)) /\ Plain(d, MysqlQuery(d)) /\ Plain(d, MysqlQueryAll(d))
         /\ Plain(d, MysqlQueryParams(d)) /\ Plain(d, MysqlQueryEach(d))
<1>1. Plain(d, MysqlPing(d))
  BY Basics, MysqlParts DEF MysqlPing
<1>2. Plain(d, MysqlQuery(d))
  <2> DEFINE S == Then(Statement(d, {}), MysqlFill)
  <2>1. Plain(d, S)
    BY StatementPlain, MysqlParts, KeepTrans, KeepIs DEF Plain, Then
  <2> HIDE DEF S
  <2>2. Plain(d, Then(S, MysqlDrain))
    BY <2>1, MysqlParts, KeepTrans, KeepIs DEF Plain, Then
  <2> QED
    BY <2>2, Basics DEF MysqlQuery, S
<1>3. Plain(d, MysqlQueryAll(d))
  <2> DEFINE F(e) == MysqlFill(e) \cup Sent(e, Ok(e))
  <2>1. \A e : IsConn(e) => Plain(e, F(e))
    BY MysqlParts, BothPlain
  <2> HIDE DEF F
  <2>2. Plain(d, Then(Statement(d, {}), F))
    BY <2>1, StatementPlain, KeepTrans, KeepIs DEF Plain, Then
  <2> QED
    BY <2>2, Basics DEF MysqlQueryAll, F
<1>4. Plain(d, MysqlQueryParams(d))
  BY MysqlParts, KeepTrans, KeepIs DEF Plain, Then, MysqlQueryParams
<1>5. Plain(d, MysqlQueryEach(d))
  BY MysqlParts, KeepTrans, KeepIs DEF Plain, Then, MysqlQueryEach
<1> QED
  BY <1>1, <1>2, <1>3, <1>4, <1>5

\* So do writing, savepoints and cancel.
LEMMA MysqlWrites ==
  ASSUME NEW d, IsConn(d), NEW W \in SUBSET Now
  PROVE  /\ Plain(d, MysqlExecute(d, W)) /\ Plain(d, MysqlExecuteParams(d, W))
         /\ Plain(d, MysqlExecuteKeys(d, W))
         /\ Plain(d, MysqlSavepoint(d)) /\ Plain(d, MysqlCancel(d))
<1>1. Plain(d, MysqlExecute(d, W))
  <2> DEFINE F(e) == IF W = {} THEN {Res(e, "ok"), Res([e EXCEPT !.wire = TextResults], "error")}
                     ELSE MysqlDrain(e)
  <2>1. ASSUME NEW e, IsConn(e) PROVE Plain(e, F(e))
    <3>1. Keep(e, e) /\ Keep(e, [e EXCEPT !.wire = TextResults])
      BY <2>1, Basics
    <3>2. Plain(e, {Res(e, "ok"), Res([e EXCEPT !.wire = TextResults], "error")})
      BY <3>1 DEF Plain, Res
    <3> QED
      BY <2>1, <3>2, MysqlParts
  <2> HIDE DEF F
  <2>2. Plain(d, Then(Statement(d, W), F))
    BY <2>1, StatementPlain, KeepTrans, KeepIs DEF Plain, Then
  <2> QED
    BY <2>2, Basics DEF MysqlExecute, F
<1>2. Plain(d, MysqlExecuteParams(d, W)) /\ Plain(d, MysqlExecuteKeys(d, W))
  BY MysqlParts DEF MysqlExecuteParams, MysqlExecuteKeys
<1>3. Plain(d, MysqlSavepoint(d))
  BY MysqlParts, Basics DEF MysqlSavepoint
<1>4. Plain(d, MysqlCancel(d))
  BY Basics DEF MysqlCancel, Plain, Res
<1> QED
  BY <1>1, <1>2, <1>3, <1>4

\* So do prepared statements.
LEMMA MysqlPrepared ==
  ASSUME NEW d, IsConn(d), NEW k, NEW id, NEW W \in SUBSET Now
  PROVE  /\ Plain(d, MysqlPrepare(d, k)) /\ Plain(d, MysqlQueryPrepared(d, id))
         /\ Plain(d, MysqlExecutePrepared(d, id, W))
<1>1. Plain(d, MysqlPrepare(d, k))
  <2>1. /\ Cached(d, k) => Plain(d, Ok(Touched(d, k)))
        /\ ~ Cached(d, k) => Plain(d, Ok(Trimmed(Inserted(d, k))))
    BY PreparedPlain DEF Plain, Ok, Res
  <2> QED
    BY <2>1, MysqlParts DEF MysqlPrepare
<1>2. ASSUME NEW V \in SUBSET Now PROVE Plain(d, MysqlRunPrepared(d, id, V))
  <2> DEFINE e == [d EXCEPT !.wire = Nothing]
  <2>1. Keep(d, e)
    BY Basics
  <2> HIDE DEF e
  <2>2. Plain(d, Statement(e, V))
    BY <2>1, StatementPlain, KeepTrans, KeepIs DEF Plain
  <2> QED
    BY <2>2, Basics, BothPlain DEF MysqlRunPrepared, e
<1>3. ASSUME NEW e, IsConn(e) PROVE Keep(e, e) /\ Keep(e, [e EXCEPT !.wire = ResultsOf(id)])
  BY <1>3, Basics
<1>4. Plain(d, MysqlQueryPrepared(d, id))
  <2> DEFINE F(e) == MysqlRows(e) \cup {Res([e EXCEPT !.wire = ResultsOf(id)], "error")}
  <2>1. ASSUME NEW e, IsConn(e) PROVE Plain(e, F(e))
    <3>1. Plain(e, {Res([e EXCEPT !.wire = ResultsOf(id)], "error")})
      BY <1>3, <2>1 DEF Plain, Res
    <3> QED
      BY <2>1, <3>1, MysqlParts, BothPlain
  <2> HIDE DEF F
  <2>2. Plain(d, Then(MysqlRunPrepared(d, id, {}), F))
    BY <2>1, <1>2, KeepTrans, KeepIs DEF Plain, Then
  <2> QED
    BY <2>2 DEF MysqlQueryPrepared, F
<1>5. Plain(d, MysqlExecutePrepared(d, id, W))
  <2> DEFINE F(e) == Ok(e) \cup (IF W = {} THEN Ok([e EXCEPT !.wire = ResultsOf(id)]) ELSE {})
  <2>1. ASSUME NEW e, IsConn(e) PROVE Plain(e, F(e))
    <3>1. Keep(e, e) /\ Keep(e, [e EXCEPT !.wire = ResultsOf(id)])
      BY <1>3, <2>1
    <3>2. Plain(e, Ok(e)) /\ Plain(e, Ok([e EXCEPT !.wire = ResultsOf(id)])) /\ Plain(e, {})
      BY <3>1 DEF Plain, Res, Ok
    <3> QED
      BY <3>2, BothPlain
  <2> HIDE DEF F
  <2>2. Plain(d, Then(MysqlRunPrepared(d, id, W), F))
    BY <2>1, <1>2, KeepTrans, KeepIs DEF Plain, Then
  <2> QED
    BY <2>2 DEF MysqlExecutePrepared, F
<1> QED
  BY <1>1, <1>4, <1>5

-----------------------------------------------------------------------------
(* ODBC. *)

\* What the operations of the ODBC driver are made of keeps the transaction.
LEMMA OdbcParts ==
  ASSUME NEW d, IsConn(d)
  PROVE  /\ Plain(d, OdbcNewStatement(d)) /\ Plain(d, OdbcBind(d)) /\ Plain(d, OdbcPrepareAndBind(d))
         /\ Plain(d, OdbcRows(d)) /\ Plain(d, OdbcRowCount(d))
         /\ Plain(d, OdbcPing(d)) /\ Plain(d, OdbcCancel(d))
<1>1. \A e : IsConn(e) =>
        /\ Plain(e, Ok(e)) /\ Plain(e, Refused(e)) /\ Plain(e, Sent(e, Ok(e)))
        /\ Plain(e, OdbcNewStatement(e)) /\ Plain(e, OdbcBind(e))
        /\ Plain(e, Ok(e) \cup Sent(e, Ok(e)))
  BY Basics, SentPlain, BothPlain DEF OdbcNewStatement, OdbcBind
<1>2. Plain(d, OdbcPrepareAndBind(d))
  <2> DEFINE G(e) == Ok(e) \cup Sent(e, Ok(e))
             F(e) == Then(G(e), OdbcBind)
  <2>1. \A e : IsConn(e) => Plain(e, G(e))
    BY <1>1
  <2> HIDE DEF G
  <2>2. \A e : IsConn(e) => Plain(e, F(e))
    BY <1>1, <2>1, KeepTrans, KeepIs DEF Plain, Then
  <2> HIDE DEF F
  <2>3. Plain(d, Then(OdbcNewStatement(d), F))
    BY <1>1, <2>2, KeepTrans, KeepIs DEF Plain, Then
  <2> QED
    BY <2>3 DEF OdbcPrepareAndBind, F, G
<1> QED
  BY <1>1, <1>2, BothPlain DEF OdbcRows, OdbcRowCount, OdbcPing, OdbcCancel

\* So do its statements.
LEMMA OdbcStatements ==
  ASSUME NEW d, IsConn(d), NEW W \in SUBSET Now
  PROVE  /\ Plain(d, OdbcQuery(d)) /\ Plain(d, OdbcQueryParams(d)) /\ Plain(d, OdbcQueryEach(d))
         /\ Plain(d, OdbcExecute(d, W)) /\ Plain(d, OdbcExecuteParams(d, W))
         /\ Plain(d, OdbcExecuteKeys(d, W)) /\ Plain(d, OdbcSavepoint(d))
<1> DEFINE T(V) == Then(OdbcNewStatement(d), LAMBDA e : Statement(e, V))
           P(V) == Then(OdbcPrepareAndBind(d), LAMBDA e : Statement(e, V))
<1>1. \A V \in SUBSET Now : Plain(d, T(V)) /\ Plain(d, P(V))
  BY OdbcParts, StatementPlain, KeepTrans, KeepIs DEF Plain, Then
<1>q. OdbcQuery(d) = Then(T({}), OdbcRows) /\ OdbcQueryParams(d) = Then(P({}), OdbcRows)
      /\ OdbcQueryEach(d) = Then(P({}), OdbcRows)
  BY DEF OdbcQuery, OdbcQueryParams, OdbcQueryEach
<1>e. /\ \A V \in SUBSET Now : OdbcExecute(d, V) = Then(T(V), OdbcRowCount)
      /\ OdbcExecuteParams(d, W) = Then(P(W), OdbcRowCount)
  BY DEF OdbcExecute, OdbcExecuteParams
<1> DEFINE K == Then(P(W), OdbcRows)
<1>k. OdbcExecuteKeys(d, W) = Then(K, OdbcRowCount)
  BY DEF OdbcExecuteKeys
<1> HIDE DEF T, P
<1>2. Plain(d, OdbcQuery(d)) /\ Plain(d, OdbcQueryParams(d)) /\ Plain(d, OdbcQueryEach(d))
  BY <1>1, <1>q, OdbcParts, KeepTrans, KeepIs DEF Plain, Then
<1>3. (\A V \in SUBSET Now : Plain(d, OdbcExecute(d, V))) /\ Plain(d, OdbcExecuteParams(d, W))
  BY <1>1, <1>e, OdbcParts, KeepTrans, KeepIs DEF Plain, Then
<1>4. Plain(d, K)
  BY <1>1, OdbcParts, KeepTrans, KeepIs DEF Plain, Then
<1> HIDE DEF K
<1>5. Plain(d, OdbcExecuteKeys(d, W))
  BY <1>4, <1>k, OdbcParts, KeepTrans, KeepIs DEF Plain, Then
<1>6. Plain(d, OdbcSavepoint(d))
  BY <1>3, Basics DEF OdbcSavepoint
<1> QED
  BY <1>2, <1>3, <1>5, <1>6

\* So do prepared statements.
LEMMA OdbcPrepared ==
  ASSUME NEW d, IsConn(d), NEW k, NEW id, NEW W \in SUBSET Now
  PROVE  /\ Plain(d, OdbcPrepare(d, k)) /\ Plain(d, OdbcQueryPrepared(d, id))
         /\ Plain(d, OdbcExecutePrepared(d, id, W))
<1>1. Plain(d, OdbcPrepare(d, k))
  <2> DEFINE F(e) == Sent(e, Ok(Trimmed(Inserted(e, k))))
  <2>1. (Cached(d, k) => Plain(d, Ok(Touched(d, k)))) /\ (~ Cached(d, k) => Plain(d, F(d)))
    <3>1. /\ Cached(d, k) => Plain(d, Ok(Touched(d, k)))
          /\ ~ Cached(d, k) => Plain(d, Ok(Trimmed(Inserted(d, k))))
      BY PreparedPlain DEF Plain, Ok, Res
    <3> QED
      BY <3>1, SentPlain
  <2> HIDE DEF F
  <2>2. ~ Cached(d, k) => Plain(d, Then(OdbcNewStatement(d), F))
    <3>1. \A r \in OdbcNewStatement(d) : r.c = d
      BY DEF OdbcNewStatement, Ok, Refused, Res
    <3> QED
      BY <2>1, <3>1, OdbcParts DEF Plain, Then
  <2> QED
    BY <2>1, <2>2 DEF OdbcPrepare, F
<1>2. ASSUME NEW V \in SUBSET Now PROVE Plain(d, OdbcRunPrepared(d, id, V))
  <2>1. Plain(d, Then(OdbcBind(d), LAMBDA e : Statement(e, V)))
    BY OdbcParts, StatementPlain, KeepTrans, KeepIs DEF Plain, Then
  <2> QED
    BY <2>1, Basics DEF OdbcRunPrepared
<1> QED
  BY <1>1, <1>2, OdbcParts, KeepTrans, KeepIs DEF Plain, Then, OdbcQueryPrepared, OdbcExecutePrepared

-----------------------------------------------------------------------------
(* PostgreSQL. *)

\* A transaction that an operation opens for itself is gone when it returns.
LEMMA PgOwn ==
  ASSUME NEW d, IsConn(d)
  PROVE  /\ Loose(d, Sent(d, Ok([d EXCEPT !.tx = "open"])))
         /\ \A S : Loose(d, S) => Plain(d, {Res(Undone(r.c), r.st) : r \in Then(S, ServerCommit)})
<1>1. Near(d, [d EXCEPT !.tx = "open"])
  <2>1. Kept(d, [d EXCEPT !.tx = "open"])
    BY KeptFrame DEF IsConn, Fields
  <2> QED
    BY <2>1 DEF Near, Same, IsConn, Fields
<1>2. Near(d, Errored(d)) /\ Near(d, Gone(d)) /\ Near(d, d)
  BY Basics, KeepNear
<1>3. Loose(d, Sent(d, Ok([d EXCEPT !.tx = "open"])))
  BY <1>1, <1>2 DEF Loose, Sent, Ok, Res
<1>4. ASSUME NEW S, Loose(d, S) PROVE Loose(d, Then(S, ServerCommit))
  BY <1>4, ServerEndPlain, KeepNear, NearTrans, NearIs DEF Loose, Plain, Then
<1>5. ASSUME NEW S, Loose(d, S) PROVE Plain(d, {Res(Undone(r.c), r.st) : r \in Then(S, ServerCommit)})
  <2> DEFINE T == Then(S, ServerCommit)
  <2>1. Loose(d, T)
    BY <1>4, <1>5
  <2> HIDE DEF T
  <2>2. Plain(d, {Res(Undone(r.c), r.st) : r \in T})
    BY <2>1, NearUndone DEF Loose, Plain, Res
  <2> QED
    BY <2>2 DEF T
<1> QED
  BY <1>3, <1>5

\* What the operations of the PostgreSQL driver run keeps the transaction.
LEMMA PgParts ==
  ASSUME NEW d, IsConn(d), NEW W \in SUBSET Now
  PROVE  /\ Plain(d, PgLoadTypes(d)) /\ Plain(d, Then(Statement(d, W), PgFill))
         /\ Plain(d, Then(Statement(d, W), PgLoadTypes))
         /\ Plain(d, PgStreamRows(d)) /\ Plain(d, PgBatchRow(d, W))
<1>1. \A e : IsConn(e) => Plain(e, Ok(e)) /\ Plain(e, Refused(e)) /\ Plain(e, Ok(e) \cup Refused(e))
  BY Basics, BothPlain
<1>2. \A e : IsConn(e) => Plain(e, PgLoadTypes(e))
  <2> SUFFICES ASSUME NEW e, IsConn(e) PROVE Plain(e, PgLoadTypes(e))
    OBVIOUS
  <2>1. Plain(e, Sent(e, Ok(e)))
    BY <1>1, SentPlain
  <2>2. Plain(e, {Res(r.c, "ok") : r \in Sent(e, Ok(e))})
    BY <2>1 DEF Plain, Res
  <2> QED
    BY <1>1, <2>2 DEF PgLoadTypes
<1>3. \A e : IsConn(e) => Plain(e, PgFill(e))
  <2> DEFINE F(e) == Ok(e) \cup Refused(e)
  <2>1. \A e : IsConn(e) => Plain(e, F(e))
    BY <1>1
  <2> HIDE DEF F
  <2>2. \A e : IsConn(e) => Plain(e, Then(PgLoadTypes(e), F))
    BY <1>2, <2>1, KeepTrans, KeepIs DEF Plain, Then
  <2> QED
    BY <2>2 DEF PgFill, F
<1>4. Plain(d, Then(Statement(d, W), PgFill))
  BY <1>3, StatementPlain, KeepTrans, KeepIs DEF Plain, Then
<1>5. Plain(d, Then(Statement(d, W), PgLoadTypes))
  BY <1>2, StatementPlain, KeepTrans, KeepIs DEF Plain, Then
<1>6. Plain(d, PgStreamRows(d))
  <2> DEFINE F(e) == Refused(e) \cup Statement(e, {})
  <2>1. \A e : IsConn(e) => Plain(e, F(e))
    BY <1>1, StatementPlain, BothPlain
  <2> HIDE DEF F
  <2>2. Plain(d, Then(Statement(d, {}), F))
    BY <2>1, StatementPlain, KeepTrans, KeepIs DEF Plain, Then
  <2> QED
    BY <2>2 DEF PgStreamRows, F
<1> QED
  BY <1>1, <1>2, <1>4, <1>5, <1>6, BothPlain DEF PgBatchRow

\* So do its statements, each in the caller's transaction or in one of its own.
LEMMA PgStatements ==
  ASSUME NEW d, IsConn(d), NEW V \in SUBSET Now, NEW W \in SUBSET Now
  PROVE  /\ Plain(d, PgPing(d)) /\ Plain(d, PgQuery(d)) /\ Plain(d, PgExecute(d, W))
         /\ Plain(d, PgExecuteKeys(d, W)) /\ Plain(d, PgQueryEach(d)) /\ Plain(d, PgBatch(d, V, W))
         /\ \A id : Plain(d, PgQueryPrepared(d, id)) /\ Plain(d, PgExecutePrepared(d, id, W))
<1> DEFINE O == Sent(d, Ok([d EXCEPT !.tx = "open"]))
<1>1. Loose(d, O)
  BY PgOwn
<1> HIDE DEF O
<1>2. Plain(d, Refused(d))
  BY Basics
<1>3. Plain(d, PgPing(d))
  BY Basics, SentPlain DEF PgPing
<1> DEFINE Q(e) == Then(Statement(e, {}), PgFill)
           E(e) == Statement(e, W)
           K(e) == Then(Statement(e, W), PgLoadTypes)
           Z(e) == PgBatchRow(e, W)
           B(e) == Then(PgBatchRow(e, V), Z)
<1>4. \A e : IsConn(e) => Plain(e, Q(e)) /\ Plain(e, E(e)) /\ Plain(e, K(e)) /\ Plain(e, PgStreamRows(e))
  BY PgParts, StatementPlain
<1>5. \A e : IsConn(e) => Plain(e, Z(e)) /\ Plain(e, PgBatchRow(e, V))
  BY PgParts
<1> HIDE DEF Z
<1>6. \A e : IsConn(e) => Plain(e, B(e))
  BY <1>5, KeepTrans, KeepIs DEF Plain, Then
<1> HIDE DEF Q, E, K, B
<1>7. /\ Loose(d, Then(O, Q)) /\ Loose(d, Then(O, E)) /\ Loose(d, Then(O, K))
      /\ Loose(d, Then(O, PgStreamRows)) /\ Loose(d, Then(O, B))
  <2>1. Loose(d, Then(O, Q))
    BY <1>1, <1>4, KeepNear, NearTrans, NearIs DEF Loose, Plain, Then
  <2>2. Loose(d, Then(O, E))
    BY <1>1, <1>4, KeepNear, NearTrans, NearIs DEF Loose, Plain, Then
  <2>3. Loose(d, Then(O, K))
    BY <1>1, <1>4, KeepNear, NearTrans, NearIs DEF Loose, Plain, Then
  <2>4. Loose(d, Then(O, PgStreamRows))
    BY <1>1, <1>4, KeepNear, NearTrans, NearIs DEF Loose, Plain, Then
  <2>5. Loose(d, Then(O, B))
    BY <1>1, <1>6, KeepNear, NearTrans, NearIs DEF Loose, Plain, Then
  <2> QED
    BY <2>1, <2>2, <2>3, <2>4, <2>5
<1>8. Plain(d, PgIn(d, Q))
  <2>1. Plain(d, {Res(Undone(r.c), r.st) : r \in Then(Then(O, Q), ServerCommit)})
    BY <1>7, PgOwn
  <2> QED
    BY <1>2, <1>4, <2>1 DEF PgIn, O
<1>9. Plain(d, PgIn(d, E))
  <2>1. Plain(d, {Res(Undone(r.c), r.st) : r \in Then(Then(O, E), ServerCommit)})
    BY <1>7, PgOwn
  <2> QED
    BY <1>2, <1>4, <2>1 DEF PgIn, O
<1>10. Plain(d, PgIn(d, K))
  <2>1. Plain(d, {Res(Undone(r.c), r.st) : r \in Then(Then(O, K), ServerCommit)})
    BY <1>7, PgOwn
  <2> QED
    BY <1>2, <1>4, <2>1 DEF PgIn, O
<1>11. Plain(d, PgIn(d, PgStreamRows))
  <2>1. Plain(d, {Res(Undone(r.c), r.st) : r \in Then(Then(O, PgStreamRows), ServerCommit)})
    BY <1>7, PgOwn
  <2> QED
    BY <1>2, <1>4, <2>1 DEF PgIn, O
<1>12. Plain(d, PgIn(d, B))
  <2>1. Plain(d, {Res(Undone(r.c), r.st) : r \in Then(Then(O, B), ServerCommit)})
    BY <1>7, PgOwn
  <2> QED
    BY <1>2, <1>6, <2>1 DEF PgIn, O
<1>13. /\ Plain(d, PgQuery(d)) /\ Plain(d, PgExecute(d, W))
       /\ Plain(d, PgExecuteKeys(d, W)) /\ Plain(d, PgQueryEach(d))
  <2>1. Plain(d, PgQuery(d))
    BY <1>2, <1>8, BothPlain DEF PgQuery, Q
  <2>2. Plain(d, PgExecute(d, W))
    BY <1>2, <1>9, BothPlain DEF PgExecute, E
  <2>3. Plain(d, PgExecuteKeys(d, W))
    BY <1>2, <1>10, BothPlain DEF PgExecuteKeys, K
  <2>4. Plain(d, PgQueryEach(d))
    BY <1>2, <1>11, BothPlain DEF PgQueryEach
  <2> QED
    BY <2>1, <2>2, <2>3, <2>4
<1>14. Plain(d, PgBatch(d, V, W))
  BY <1>12 DEF PgBatch, B, Z
<1>15. ASSUME NEW id PROVE Plain(d, PgQueryPrepared(d, id)) /\ Plain(d, PgExecutePrepared(d, id, W))
  <2>1. Plain(d, PgQueryPrepared(d, id))
    BY <1>2, <1>8 DEF PgQueryPrepared, Q
  <2>2. Plain(d, PgExecutePrepared(d, id, W))
    BY <1>2, <1>9 DEF PgExecutePrepared, E
  <2> QED
    BY <2>1, <2>2
<1> QED
  BY <1>3, <1>13, <1>14, <1>15

\* So do preparing, savepoints and cancel.
LEMMA PgOthers ==
  ASSUME NEW d, IsConn(d), NEW k
  PROVE  /\ d.kind = "postgres" => Plain(d, PgPrepare(d, k))
         /\ Plain(d, PgSavepoint(d)) /\ Plain(d, PgCancel(d))
<1>1. ASSUME d.kind = "postgres" PROVE Plain(d, PgPrepare(d, k))
  <2> DEFINE i == Trimmed(Inserted(d, k))
             q == [d EXCEPT !.seq = @ + 1]
             l == [i EXCEPT !.stmts = @ \cup d.stmts]
  <2>1. (Cached(d, k) => Keep(d, Touched(d, k))) /\ (~ Cached(d, k) => Keep(d, i)) /\ Keep(d, q)
    BY PreparedPlain, WroteKept
  <2> SUFFICES ASSUME NEW r \in PgPrepare(d, k) PROVE Keep(d, r.c)
    BY DEF Plain
  <2>2. \/ Cached(d, k) /\ r.c = Touched(d, k)
        \/ /\ ~ Cached(d, k)
           /\ \/ r.c \in {d, q, Errored(q), Gone(q)}
              \/ r.c \in {i, Gone(i)}
              \/ SwallowedFail /\ r.c = Errored(l)
    BY PgPrepareCases DEF PgUnreleased
  <2>3. ~ Cached(d, k) /\ SwallowedFail => Keep(i, l)
    <3> HIDE DEF i
    <3> SUFFICES ASSUME ~ Cached(d, k), SwallowedFail PROVE Keep(i, l)
      OBVIOUS
    <3>1. IsConn(i) /\ i.kind = "postgres"
      BY <1>1, <2>1 DEF Keep, Near, Same
    <3> QED
      BY <3>1, KeptUnreleased
  <2> HIDE DEF i, q, l
  <2>4. ASSUME NEW e, Keep(d, e) PROVE Keep(d, Errored(e)) /\ Keep(d, Gone(e))
    BY <2>4, Basics, KeepTrans, KeepIs
  <2> QED
    BY <2>1, <2>2, <2>3, <2>4, Basics, KeepTrans
<1>2. Plain(d, PgSavepoint(d))
  <2> DEFINE e == [d EXCEPT !.tx = IF @ = "none" THEN @ ELSE "open"]
  <2>0. Kept(d, e)
    BY KeptFrame DEF IsConn, Fields
  <2>1. Keep(d, e)
    BY <2>0 DEF Keep, Near, Same, IsConn, Fields
  <2> HIDE DEF e
  <2>2. Plain(d, Sent(d, Ok(e)))
    <3>1. Plain(d, Ok(e))
      BY <2>1 DEF Plain, Ok, Res
    <3> QED
      BY <3>1, SentPlain
  <2> QED
    BY <2>2, StatementPlain, BothPlain, Basics DEF PgSavepoint, e
<1>3. Plain(d, PgCancel(d))
  BY Basics DEF PgCancel, Plain, Res
<1> QED
  BY <1>1, <1>2, <1>3

-----------------------------------------------------------------------------
(* Oracle. *)

\* What the operations of the Oracle driver are made of keeps what Keep says.
LEMMA OraParts ==
  ASSUME NEW d, IsConn(d), NEW W \in SUBSET Now
  PROVE  /\ Plain(d, OraBind(d)) /\ Plain(d, OraRows(d)) /\ Plain(d, OraInputs(d))
         /\ Plain(d, OraReader(d)) /\ Plain(d, OraCallInputs(d))
         /\ Plain(d, OraSend(d, W)) /\ Plain(d, OraRun(d, W))
<1>1. \A e : IsConn(e) => Plain(e, Ok(e)) /\ Plain(e, Refused(e)) /\ Plain(e, Sent(e, Ok(e)))
  BY Basics, SentPlain
<1>2. \A e : IsConn(e) => /\ Plain(e, OraBind(e)) /\ Plain(e, OraRows(e)) /\ Plain(e, OraInputs(e))
                          /\ Plain(e, OraReader(e)) /\ Plain(e, OraCallInputs(e))
  BY <1>1, BothPlain DEF OraBind, OraRows, OraInputs, OraReader, OraCallInputs
<1>3. \A e : IsConn(e) => Plain(e, OraSend(e, W))
  BY <1>1, StatementPlain DEF OraSend
<1>4. Plain(d, OraRun(d, W))
  <2> DEFINE G(e) == OraSend(e, W)
             S == Then(OraBind(d), G)
             F(e) == IF W = {} THEN OraRows(e) ELSE Ok(e)
  <2>1. \A e : IsConn(e) => Plain(e, F(e)) /\ Plain(e, G(e))
    BY <1>1, <1>2, <1>3
  <2> HIDE DEF F, G
  <2>2. Plain(d, S)
    BY <1>2, <2>1, KeepTrans, KeepIs DEF Plain, Then
  <2> HIDE DEF S
  <2>3. Plain(d, Then(S, F))
    BY <2>1, <2>2, KeepTrans, KeepIs DEF Plain, Then
  <2> QED
    BY <2>3 DEF OraRun, S, F, G
<1> QED
  BY <1>2, <1>3, <1>4

\* So do its statements.
LEMMA OraStatements ==
  ASSUME NEW d, IsConn(d), NEW W \in SUBSET Now, NEW k, NEW id
  PROVE  /\ Plain(d, OraPing(d)) /\ Plain(d, OraQuery(d)) /\ Plain(d, OraQueryEach(d))
         /\ Plain(d, OraExecute(d, W)) /\ Plain(d, OraExecuteKeys(d, W))
         /\ Plain(d, OraQueryAll(d)) /\ Plain(d, OraPrepare(d, k))
         /\ Plain(d, OraQueryPrepared(d, id)) /\ Plain(d, OraExecutePrepared(d, id, W))
         /\ Plain(d, OraSavepoint(d)) /\ Plain(d, OraCancel(d))
<1>1. /\ Plain(d, OraPing(d)) /\ Plain(d, OraQuery(d)) /\ Plain(d, OraQueryEach(d))
      /\ Plain(d, OraExecute(d, W)) /\ Plain(d, OraExecuteKeys(d, W))
      /\ Plain(d, OraQueryPrepared(d, id)) /\ Plain(d, OraExecutePrepared(d, id, W))
  BY OraParts, Basics DEF OraPing, OraQuery, OraQueryEach, OraExecute, OraExecuteKeys,
                          OraQueryPrepared, OraExecutePrepared
<1>2. Plain(d, OraQueryAll(d))
  <2> DEFINE S == Then(OraInputs(d), LAMBDA e : OraSend(e, {}))
  <2>1. Plain(d, S)
    BY OraParts, KeepTrans, KeepIs DEF Plain, Then
  <2>2. OraQueryAll(d) = Then(S, OraReader)
    BY DEF OraQueryAll
  <2> HIDE DEF S
  <2> QED
    <3>1. \A e : IsConn(e) => Plain(e, OraReader(e))
      BY OraParts
    <3> QED
      BY <2>1, <2>2, <3>1, KeepTrans, KeepIs DEF Plain, Then
<1>3. Plain(d, OraPrepare(d, k))
  <2> DEFINE i == Trimmed(Inserted(d, k))
             q == [d EXCEPT !.seq = @ + 1]
  <2>1. (Cached(d, k) => Keep(d, Touched(d, k))) /\ (~ Cached(d, k) => Keep(d, i)) /\ Keep(d, q)
    BY PreparedPlain, WroteKept
  <2>2. OraPrepare(d, k) = IF Cached(d, k) THEN Ok(Touched(d, k)) ELSE Refused(d) \cup Sent(q, Ok(i))
    BY DEF OraPrepare
  <2> HIDE DEF i, q
  <2>3. (~ Cached(d, k) => Plain(d, Ok(i))) /\ (Cached(d, k) => Plain(d, Ok(Touched(d, k))))
    BY <2>1 DEF Plain, Ok, Res
  <2>4. Keep(d, Errored(q)) /\ Keep(d, Gone(q))
    BY <2>1, Basics, KeepTrans, KeepIs
  <2>5. ~ Cached(d, k) => Plain(d, Sent(q, Ok(i)))
    BY <2>1, <2>3, <2>4 DEF Plain, Sent, Res
  <2> QED
    BY <2>2, <2>3, <2>5, Basics, BothPlain
<1>4. Plain(d, OraSavepoint(d)) /\ Plain(d, OraCancel(d))
  BY Basics, SentPlain, BothPlain DEF OraSavepoint, OraCancel
<1> QED
  BY <1>1, <1>2, <1>3, <1>4

\* With Oracle, so do a call, the ends of a transaction and a batch.
LEMMA OraChanges ==
  ASSUME NEW d, IsConn(d), d.kind = "oracle", NEW W \in SUBSET Now
  PROVE  /\ Plain(d, OraCall(d, W)) /\ Plain(d, OraBegin(d)) /\ Plain(d, OraCommit(d))
         /\ Plain(d, OraRollback(d)) /\ Plain(d, OraBatch(d, W))
<1>1. \A e : Keep(d, e) => e.kind = "oracle"
  BY DEF Keep, Near, Same
<1>2. ASSUME NEW e, IsConn(e), e.kind = "oracle"
      PROVE  /\ Keep(e, [e EXCEPT !.flag = TRUE]) /\ Keep(e, [e EXCEPT !.flag = FALSE])
             /\ Keep(e, [e EXCEPT !.flag = TRUE, !.tx = "open"])
  <2>1. Kept(e, [e EXCEPT !.flag = TRUE])
    BY <1>2, KeptFrame DEF IsConn, Fields
  <2>2. Kept(e, [e EXCEPT !.flag = FALSE])
    BY <1>2, KeptFrame DEF IsConn, Fields
  <2>3. Kept(e, [e EXCEPT !.flag = TRUE, !.tx = "open"])
    <3> DEFINE g == [e EXCEPT !.flag = TRUE, !.tx = "open"]
    <3> SUFFICES Kept(e, g)
      OBVIOUS
    <3>1. /\ g.cache = e.cache /\ g.names = e.names /\ g.lru = e.lru /\ g.seq = e.seq
          /\ g.up = e.up /\ g.stmts = e.stmts /\ g.rows = e.rows /\ g.stored = e.stored
          /\ g.kind = e.kind
      BY <1>2 DEF IsConn, Fields
    <3> HIDE DEF g
    <3> QED
      BY <3>1, KeptFrame
  <2> QED
    BY <1>2, <2>1, <2>2, <2>3 DEF Keep, Near, Same, IsConn, Fields
<1>3. \A e : IsConn(e) => Plain(e, Refused(e)) /\ Plain(e, Sent(e, {}))
  BY Basics, SentPlain DEF Plain
<1>4. Plain(d, OraCall(d, W))
  <2> DEFINE S == Then(OraCallInputs(d), LAMBDA e : Statement(e, W))
  <2>1. Plain(d, S)
    BY OraParts, StatementPlain, KeepTrans, KeepIs DEF Plain, Then
  <2>2. OraCall(d, W) = Then(S, OraCallOutput)
    BY DEF OraCall
  <2>3. ASSUME NEW e, IsConn(e), e.kind = "oracle" PROVE Plain(e, OraCallOutput(e))
    <3> DEFINE g == [e EXCEPT !.flag = TRUE]
    <3>0. Keep(e, g)
      BY <1>2, <2>3
    <3> HIDE DEF g
    <3>1. Plain(e, Ok(g))
      BY <3>0 DEF Plain, Ok, Res
    <3> QED
      BY <1>3, <2>3, <3>1, BothPlain DEF OraCallOutput, g
  <2> HIDE DEF S
  <2> QED
    BY <1>1, <2>1, <2>2, <2>3, KeepTrans, KeepIs DEF Plain, Then
<1>5. Plain(d, OraBegin(d))
  <2>0. Keep(d, [d EXCEPT !.flag = TRUE]) /\ Keep(d, [d EXCEPT !.flag = TRUE, !.tx = "open"])
    BY <1>2
  <2>1. /\ Plain(d, {Res([d EXCEPT !.flag = TRUE], "ok")})
        /\ Plain(d, {Res([d EXCEPT !.flag = TRUE, !.tx = "open"], "ok")})
    BY <2>0 DEF Plain, Res
  <2> QED
    BY <1>3, <2>1, SentPlain, BothPlain DEF OraBegin
<1>6. ASSUME NEW e, NEW S, IsConn(e), e.kind = "oracle", Plain(e, S) PROVE Plain(e, OraEnd(S))
  <2>1. \A r \in S : Keep(e, r.c) /\ IsConn(r.c) /\ r.c.kind = "oracle"
    BY <1>6, KeepIs DEF Plain, Keep, Near, Same
  <2>2. \A r \in S : Keep(e, [r.c EXCEPT !.flag = FALSE])
    BY <1>2, <2>1, KeepTrans
  <2> QED
    BY <2>2 DEF Plain, OraEnd, Res
<1>7. \A e : IsConn(e) /\ e.kind = "oracle" => Plain(e, OraCommit(e)) /\ Plain(e, OraRollback(e))
  BY <1>6, ServerEndPlain DEF OraCommit, OraRollback
<1>8. Plain(d, OraBatch(d, W))
  <2> DEFINE run(e) == Statement(e, W) \cup UNION {{Res(r.c, "error") : r \in Statement(e, V)} : V \in SUBSET W}
             f == [d EXCEPT !.flag = TRUE]
             R == OnFailure(run(f), OraRollback)
  <2>1. OraBatch(d, W) = IF ~ d.flag THEN Then(R, OraCommit) ELSE run(d)
    BY DEF OraBatch
  <2>2. \A e : IsConn(e) => Plain(e, run(e))
    BY StatementPlain DEF Plain, Res
  <2>3. Keep(d, f)
    BY <1>2
  <2> HIDE DEF run, f
  <2>4. Plain(d, run(f))
    BY <2>2, <2>3, KeepTrans, KeepIs DEF Plain
  <2>5. Plain(d, R)
    BY <1>1, <1>7, <2>4, KeepTrans, KeepIs DEF Plain, OnFailure, Res
  <2> HIDE DEF R
  <2>6. Plain(d, Then(R, OraCommit))
    BY <1>1, <1>7, <2>5, KeepTrans, KeepIs DEF Plain, Then
  <2> QED
    BY <2>1, <2>2, <2>6
<1> QED
  BY <1>4, <1>5, <1>7, <1>8

-----------------------------------------------------------------------------
(* The connection, whichever the driver. *)

\* What leaves the transaction alone: reading, writing, preparing, savepoints.
LEMMA ConnectionReads ==
  ASSUME NEW d, IsConn(d)
  PROVE  /\ Plain(d, Ping(d)) /\ Plain(d, Query(d)) /\ Plain(d, QueryAll(d)) /\ Plain(d, QueryEach(d))
         /\ Plain(d, Savepoint(d))
         /\ Plain(d, Of(d, MysqlCancel(d), PgCancel(d), OdbcCancel(d), OraCancel(d)))
<1> USE DEF Of, IsConn, Kinds
<1>1. Plain(d, Ping(d))
  BY MysqlReads, PgStatements, OdbcParts, OraStatements DEF Ping
<1>2. Plain(d, Query(d))
  BY MysqlReads, PgStatements, OdbcStatements, OraStatements, BothPlain DEF Query
<1>3. Plain(d, QueryAll(d))
  BY <1>2, MysqlReads, PgStatements, OraStatements DEF QueryAll
<1>4. Plain(d, QueryEach(d))
  BY MysqlReads, PgStatements, OdbcStatements, OraStatements DEF QueryEach
<1>5. Plain(d, Savepoint(d))
  BY MysqlWrites, PgOthers, OdbcStatements, OraStatements DEF Savepoint
<1>6. Plain(d, Of(d, MysqlCancel(d), PgCancel(d), OdbcCancel(d), OraCancel(d)))
  BY MysqlWrites, PgOthers, OdbcParts, OraStatements
<1> QED
  BY <1>1, <1>2, <1>3, <1>4, <1>5, <1>6

\* The same of what writes.
LEMMA ConnectionWrites ==
  ASSUME NEW d, IsConn(d), NEW W \in SUBSET Now
  PROVE  Plain(d, Execute(d, W)) /\ Plain(d, ExecuteKeys(d, W)) /\ Plain(d, Call(d, W))
<1> USE DEF Of, IsConn, Kinds
<1>1. Plain(d, ExecuteKeys(d, W))
  BY MysqlWrites, PgStatements, OdbcStatements, OraStatements DEF ExecuteKeys
<1>2. Plain(d, Execute(d, W))
  <2>1. CASE d.kind = "mysql"
    BY <1>1, <2>1, MysqlWrites, BothPlain DEF Execute
  <2>2. CASE d.kind = "postgres"
    BY <1>1, <2>2, PgStatements, BothPlain DEF Execute
  <2>3. CASE d.kind = "odbc"
    BY <1>1, <2>3, OdbcStatements, BothPlain DEF Execute
  <2>4. CASE d.kind = "oracle"
    BY <1>1, <2>4, OraStatements, BothPlain DEF Execute
  <2> QED
    BY <2>1, <2>2, <2>3, <2>4
<1>3. Plain(d, Call(d, W))
  BY OraChanges, Basics DEF Call
<1> QED
  BY <1>1, <1>2, <1>3

\* The same of prepared statements.
LEMMA ConnectionPrepared ==
  ASSUME NEW d, IsConn(d), NEW k, NEW id, NEW W \in SUBSET Now
  PROVE  /\ Plain(d, Prepare(d, k)) /\ Plain(d, QueryPrepared(d, id)) /\ Plain(d, ExecutePrepared(d, id, W))
         /\ Plain(d, PreparedPath(d, k, W))
<1>1. ASSUME NEW e, IsConn(e), NEW i
      PROVE  Plain(e, Prepare(e, k)) /\ Plain(e, QueryPrepared(e, i)) /\ Plain(e, ExecutePrepared(e, i, W))
  <2> USE DEF Of, IsConn, Kinds
  <2>1. Plain(e, Prepare(e, k))
    <3>1. CASE e.kind = "postgres"
      BY <1>1, <3>1, PgOthers DEF Prepare
    <3>2. CASE e.kind # "postgres"
      BY <1>1, <3>2, MysqlPrepared, OdbcPrepared, OraStatements DEF Prepare
    <3> QED
      BY <3>1, <3>2
  <2>2. Plain(e, QueryPrepared(e, i))
    BY <1>1, MysqlPrepared, PgStatements, OdbcPrepared, OraStatements DEF QueryPrepared
  <2>3. Plain(e, ExecutePrepared(e, i, W))
    BY <1>1, MysqlPrepared, PgStatements, OdbcPrepared, OraStatements DEF ExecutePrepared
  <2> QED
    BY <2>1, <2>2, <2>3
<1>2. Plain(d, PreparedPath(d, k, W))
  <2> DEFINE F(r) == IF r.st # "ok" THEN (IF W = {} THEN Query(r.c) ELSE Execute(r.c, W))
                     ELSE IF W = {} THEN QueryPrepared(r.c, IdOf(r.c, k))
                     ELSE ExecutePrepared(r.c, IdOf(r.c, k), W)
  <2>1. ASSUME NEW r, IsConn(r.c) PROVE Plain(r.c, F(r))
    BY <1>1, <2>1, ConnectionReads, ConnectionWrites
  <2>2. PreparedPath(d, k, W) = UNION {F(r) : r \in Prepare(d, k)}
    BY DEF PreparedPath
  <2> HIDE DEF F
  <2> QED
    BY <1>1, <2>1, <2>2, KeepTrans, KeepIs DEF Plain
<1> QED
  BY <1>1, <1>2

-----------------------------------------------------------------------------
(* Transactions and batches. *)

\* The server has no transaction that the connection does not know of.
Known(d) ==
  /\ d.kind = "mysql" => d.auto /\ (d.tx # "none" => d.flag)
  /\ d.kind = "postgres" => d.auto /\ (d.tx # "none" => d.flag \/ d.cursor \in {"own", "ownEnd"})
  /\ d.kind = "odbc" => (d.tx # "none" => ~ d.auto)

\* The connection is as before but for its transaction.
Fine(d, e) == Same(d, e) /\ (Known(d) => Known(e))

\* A transaction has begun, and one has ended.
Began(d, e) ==
  /\ Same(d, e)
  /\ d.kind # "oracle" =>
       ~ d.flag /\ e.flag /\ (IF d.kind = "odbc" THEN ~ e.auto ELSE e.auto = d.auto)
Ended(e) == e.kind # "oracle" => ~ e.flag /\ (e.kind = "odbc" => e.auto)

\* A connection that keeps its transaction is fine, and so is one with a new one.
LEMMA KeepFine == ASSUME NEW d, NEW e, Keep(d, e) PROVE Fine(d, e)
  BY DEF Keep, Near, Fine, Same, Known, IsConn, Kinds

\* So is a connection whose transaction has begun.
LEMMA BeganFine == ASSUME NEW d, NEW e, Began(d, e) PROVE Fine(d, e)
  BY DEF Began, Fine, Same, Known, IsConn, Kinds

\* What is fine, is fine one after the other.
LEMMA FineTrans == ASSUME NEW d, NEW e, NEW f, Fine(d, e), Fine(e, f) PROVE Fine(d, f)
  BY KeptTrans DEF Fine, Same

\* What is fine is a connection.
LEMMA FineIs == ASSUME NEW d, NEW e, Fine(d, e) PROVE IsConn(e)
  BY DEF Fine, Same

\* What setting the autocommit attribute makes of a connection.
SetAuto(d, on) == [IF on THEN Committed(d) ELSE d EXCEPT !.auto = on]

\* Setting the attribute works, or changes nothing.
LEMMA SetAutoCases ==
  ASSUME NEW d, NEW on, NEW x \in OdbcSetAuto(d, on)
  PROVE  \/ x.st = "ok" /\ x.c = SetAuto(d, on)
         \/ x.st # "ok" /\ x.c = d
<1> DEFINE l == LostStatus(d)
<1>1. l # "ok"
  BY LostIsFailure
<1>2. x \in {Res(SetAuto(d, on), "ok"), Res(d, "error"), Res(d, l)}
  BY DEF OdbcSetAuto, SetAuto
<1> HIDE DEF l
<1> QED
  BY <1>1, <1>2, ResFields

\* begin: a failure leaves everything as it was.
LEMMA BeginResult ==
  ASSUME NEW d, IsConn(d), NEW r \in Begin(d)
  PROVE  IF r.st = "ok" THEN Began(d, r.c) ELSE Keep(d, r.c)
<1>1. Keep(d, d) /\ Keep(d, Errored(d)) /\ Keep(d, Gone(d))
  BY Basics
<1>2. CASE d.kind \in {"mysql", "postgres"}
  <2> DEFINE b == [d EXCEPT !.tx = "open", !.flag = TRUE]
  <2>0. Kept(d, b)
    <3>1. /\ b.cache = d.cache /\ b.names = d.names /\ b.lru = d.lru /\ b.seq = d.seq
          /\ b.up = d.up /\ b.stmts = d.stmts /\ b.rows = d.rows /\ b.stored = d.stored
          /\ b.kind = d.kind
      BY DEF IsConn, Fields
    <3> HIDE DEF b
    <3> QED
      BY <3>1, KeptFrame
  <2>1. ~ d.flag => Began(d, b)
    BY <1>2, <2>0 DEF Began, Same, IsConn, Fields
  <2>2. Begin(d) \subseteq Refused(d) \cup Sent(d, {}) \cup (IF d.flag THEN {} ELSE Sent(d, Ok(b)))
    BY <1>2 DEF Begin, Of, MysqlBegin, PgBegin, PgBusy, MysqlSend, Ok
  <2> HIDE DEF b
  <2>3. IF r.st = "ok" THEN ~ d.flag /\ r.c = b ELSE r.c \in {d, Errored(d), Gone(d)}
    BY <2>2, SentCases, ResFields DEF Refused, Ok
  <2> QED
    BY <1>1, <2>1, <2>3
<1>3. CASE d.kind = "odbc"
  <2> DEFINE a == SetAuto(d, FALSE)
             b == [a EXCEPT !.flag = TRUE]
             A == OdbcSetAuto(d, FALSE)
             F(e) == Ok([e EXCEPT !.flag = TRUE])
  <2>0. Kept(d, b)
    <3>1. /\ b.cache = d.cache /\ b.names = d.names /\ b.lru = d.lru /\ b.seq = d.seq
          /\ b.up = d.up /\ b.stmts = d.stmts /\ b.rows = d.rows /\ b.stored = d.stored
          /\ b.kind = d.kind
      BY DEF SetAuto, IsConn, Fields
    <3> HIDE DEF a, b
    <3> QED
      BY <3>1, KeptFrame
  <2>1. ~ d.flag => Began(d, b)
    BY <1>3, <2>0 DEF SetAuto, Began, Same, IsConn, Fields
  <2>2. F(a) = Ok(b) /\ Begin(d) = IF d.flag THEN Refused(d) ELSE Then(A, F)
    BY <1>3 DEF Begin, Of, OdbcBegin
  <2> HIDE DEF a, b, A, F
  <2>3. CASE d.flag
    BY <1>1, <2>2, <2>3, ResFields DEF Refused
  <2>4. CASE ~ d.flag
    <3>1. \/ r \in A /\ r.st # "ok"
          \/ \E x \in A : x.st = "ok" /\ r \in F(x.c)
      BY <2>2, <2>4 DEF Then
    <3>2. CASE r \in A /\ r.st # "ok"
      BY <1>1, <3>2, SetAutoCases DEF A
    <3>3. CASE \E x \in A : x.st = "ok" /\ r \in F(x.c)
      <4>1. r \in Ok(b)
        BY <2>2, <3>3, SetAutoCases DEF a, A
      <4> QED
        BY <2>1, <2>4, <4>1, ResFields DEF Ok
    <3> QED
      BY <3>1, <3>2, <3>3
  <2> QED
    BY <2>3, <2>4
<1>4. CASE d.kind = "oracle"
  <2>1. Keep(d, r.c)
    BY <1>4, OraChanges DEF Plain, Begin, Of
  <2> QED
    BY <1>4, <2>1 DEF Keep, Near, Began
<1> QED
  BY <1>2, <1>3, <1>4 DEF IsConn, Kinds

\* COMMIT and ROLLBACK that succeed leave no transaction.
LEMMA ServerEnds ==
  ASSUME NEW d, NEW r \in ServerCommit(d) \cup ServerRollback(d), IsConn(d)
  PROVE  Keep(d, r.c) /\ (r.st = "ok" => r.c.tx = "none")
<1>1. Keep(d, r.c)
  BY ServerEndPlain DEF Plain
<1>2. Undone(d).tx = "none" /\ Committed(d).tx = "none"
  BY DEF Undone, Committed, IsConn, Fields
<1>3. r.st = "ok" => r.c \in {Undone(d), Committed(d)}
  BY DEF ServerCommit, ServerRollback, Sent, Ok, Res, LostStatus
<1> QED
  BY <1>1, <1>2, <1>3

\* What commit and rollback make of what the server said.
Unflagged(e) == [e EXCEPT !.flag = FALSE]

\* Clearing the flag and setting autocommit keep the prepared statements and the
\* rows.
LEMMA KeptEnded ==
  ASSUME NEW d, IsConn(d)
  PROVE  /\ Kept(d, Unflagged(d)) /\ Kept(d, Unflagged(Undone(d)))
         /\ Kept(d, Unflagged(SetAuto(d, TRUE)))
<1>1. ASSUME NEW e, IsConn(e) PROVE Kept(e, Unflagged(e))
  BY <1>1, KeptFrame DEF Unflagged, IsConn, Fields
<1>2. IsConn(Undone(d)) /\ IsConn(Committed(d)) /\ Kept(d, Undone(d)) /\ Kept(d, Committed(d))
  BY Basics, KeepIs, KeptServer
<1>3. Kept(Committed(d), Unflagged(SetAuto(d, TRUE)))
  <2> DEFINE e == Committed(d)
             f == Unflagged([e EXCEPT !.auto = TRUE])
  <2>1. f = Unflagged(SetAuto(d, TRUE)) /\ IsConn(e)
    BY <1>2 DEF SetAuto
  <2> HIDE DEF e
  <2>2. /\ f.cache = e.cache /\ f.names = e.names /\ f.lru = e.lru /\ f.seq = e.seq
        /\ f.up = e.up /\ f.stmts = e.stmts /\ f.rows = e.rows /\ f.stored = e.stored
        /\ f.kind = e.kind
    BY <2>1 DEF Unflagged, IsConn, Fields
  <2> HIDE DEF f
  <2>3. Kept(e, f)
    BY <2>2, KeptFrame
  <2> QED
    BY <2>1, <2>3 DEF e
<1> QED
  BY <1>1, <1>2, <1>3, KeptTrans

\* commit and rollback hide no transaction, and leave none when they succeed.
LEMMA EndResult ==
  ASSUME NEW d, IsConn(d), NEW r \in Commit(d) \cup Rollback(d)
  PROVE  Fine(d, r.c) /\ (r.st = "ok" => Ended(r.c))
<1> DEFINE S == ServerCommit(d) \cup ServerRollback(d)
<1>1. \A x \in S : Keep(d, x.c) /\ (x.st = "ok" => x.c.tx = "none")
  BY ServerEnds
<1>2. Keep(d, d) /\ Fine(d, d)
  BY Basics, KeepFine
<1>3. CASE d.kind = "mysql"
  <2> DEFINE F(e) == Ok(Unflagged(e))
  <2>0. \A T : MysqlEnd(d, T) = IF d.wire # Nothing THEN Refused(d) ELSE Then(T, F)
    BY DEF MysqlEnd, Unflagged
  <2>1. (r.st # "ok" /\ r.c = d) \/ \E x \in S : IF x.st = "ok" THEN r.c = Unflagged(x.c) ELSE r = x
    BY <1>3, <2>0 DEF Commit, Rollback, Of, MysqlCommit, MysqlRollback, Then, Refused, Ok, Res
  <2> HIDE DEF S
  <2>2. ASSUME NEW x \in S, x.st = "ok", r.c = Unflagged(x.c) PROVE Fine(d, r.c) /\ Ended(r.c)
    <3>1. Kept(d, r.c)
      BY <1>1, <2>2, KeptEnded, KeptTrans DEF Keep, Near, Same
    <3> QED
      BY <1>1, <1>3, <2>2, <3>1 DEF Keep, Near, Fine, Same, Known, Ended, Unflagged, IsConn, Fields
  <2> QED
    BY <1>1, <1>2, <2>1, <2>2, KeepFine
<1>4. CASE d.kind = "postgres"
  <2>0. \A T : PgEnd(d, T) = IF ~ d.flag THEN Refused(d)
                 ELSE {Res(IF x.st = "ok" THEN Unflagged(x.c) ELSE Unflagged(Undone(x.c)), x.st) : x \in T}
    BY DEF PgEnd, Unflagged
  <2>1. \/ r.st # "ok" /\ r.c = d
        \/ \E x \in S : r.st = x.st /\ r.c = IF x.st = "ok" THEN Unflagged(x.c) ELSE Unflagged(Undone(x.c))
    BY <1>4, <2>0 DEF Commit, Rollback, Of, PgCommit, PgRollback, Refused, Res
  <2> HIDE DEF S
  <2>2. ASSUME NEW x \in S, x.st = "ok", r.c = Unflagged(x.c) PROVE Fine(d, r.c) /\ Ended(r.c)
    <3>1. Kept(d, r.c)
      BY <1>1, <2>2, KeptEnded, KeptTrans DEF Keep, Near, Same
    <3> QED
      BY <1>1, <1>4, <2>2, <3>1 DEF Keep, Near, Fine, Same, Known, Ended, Unflagged, IsConn, Fields
  <2>3. ASSUME NEW x \in S, r.c = Unflagged(Undone(x.c)) PROVE Fine(d, r.c) /\ Ended(r.c)
    <3>1. Kept(d, r.c)
      BY <1>1, <2>3, KeptEnded, KeptTrans DEF Keep, Near, Same
    <3> QED
      BY <1>1, <1>4, <2>3, <3>1 DEF Keep, Near, Fine, Same, Known, Ended, Unflagged, Undone, IsConn, Fields
  <2> QED
    BY <1>1, <1>2, <2>1, <2>2, <2>3
<1>5. CASE d.kind = "odbc"
  <2>0. \A T : OdbcEnd(d, T) = IF ~ d.flag THEN Refused(d)
                 ELSE UNION {{Res(Unflagged(a.c), IF x.st = "ok" THEN a.st ELSE x.st) :
                                a \in OdbcSetAuto(x.c, TRUE)} : x \in T}
    BY DEF OdbcEnd, Unflagged
  <2>1. \/ r.st # "ok" /\ r.c = d
        \/ \E x \in S : \E a \in OdbcSetAuto(x.c, TRUE) :
             r.c = Unflagged(a.c) /\ (r.st = "ok" => x.st = "ok" /\ a.st = "ok")
    <3>1. r \in OdbcEnd(d, ServerCommit(d)) \cup OdbcEnd(d, ServerRollback(d))
      BY <1>5 DEF Commit, Rollback, Of, OdbcCommit, OdbcRollback
    <3>2. CASE r \in Refused(d)
      BY <3>2, ResFields DEF Refused
    <3>3. CASE \E x \in S : \E a \in OdbcSetAuto(x.c, TRUE) :
                 r = Res(Unflagged(a.c), IF x.st = "ok" THEN a.st ELSE x.st)
      <4>1. PICK x \in S : \E a \in OdbcSetAuto(x.c, TRUE) :
                 r = Res(Unflagged(a.c), IF x.st = "ok" THEN a.st ELSE x.st)
        BY <3>3
      <4>2. PICK a \in OdbcSetAuto(x.c, TRUE) : r = Res(Unflagged(a.c), IF x.st = "ok" THEN a.st ELSE x.st)
        BY <4>1
      <4>3. r.c = Unflagged(a.c) /\ r.st = IF x.st = "ok" THEN a.st ELSE x.st
        BY <4>2, ResFields
      <4> QED
        BY <4>3
    <3> DEFINE G(x) == {Res(Unflagged(a.c), IF x.st = "ok" THEN a.st ELSE x.st) :
                            a \in OdbcSetAuto(x.c, TRUE)}
    <3>4. \A T : OdbcEnd(d, T) = IF ~ d.flag THEN Refused(d) ELSE UNION {G(x) : x \in T}
      BY <2>0
    <3>5. ASSUME NEW x \in S, r \in G(x)
          PROVE  \E a \in OdbcSetAuto(x.c, TRUE) :
                   r = Res(Unflagged(a.c), IF x.st = "ok" THEN a.st ELSE x.st)
      BY <3>5
    <3> HIDE DEF G
    <3>6. r \in Refused(d) \/ \E x \in S : r \in G(x)
      BY <3>1, <3>4
    <3> QED
      BY <3>2, <3>3, <3>5, <3>6
  <2> HIDE DEF S
  <2>2. ASSUME NEW x \in S, NEW a \in OdbcSetAuto(x.c, TRUE), r.c = Unflagged(a.c),
               r.st = "ok" => a.st = "ok"
        PROVE  Fine(d, r.c) /\ (r.st = "ok" => Ended(r.c))
    <3>1. IsConn(x.c) /\ Keep(d, x.c) /\ x.c.kind = "odbc"
      BY <1>1, <1>5, <2>2, KeepIs DEF Keep, Near, Same
    <3>2. a.c = SetAuto(x.c, TRUE) \/ (a.c = x.c /\ a.st # "ok")
      BY SetAutoCases
    <3>3. CASE a.c = SetAuto(x.c, TRUE)
      <4>1. r.c = Unflagged(SetAuto(x.c, TRUE))
        BY <2>2, <3>3
      <4>2. Kept(d, r.c)
        BY <3>1, <4>1, KeptEnded, KeptTrans DEF Keep, Near, Same
      <4> QED
        BY <1>5, <3>1, <4>1, <4>2 DEF Keep, Near, Fine, Same, Known, Ended, Unflagged, SetAuto, Committed, IsConn, Fields
    <3>4. CASE a.c = x.c /\ a.st # "ok"
      <4>1. r.c = Unflagged(x.c) /\ r.st # "ok"
        BY <2>2, <3>4
      <4>2. Kept(d, r.c)
        BY <3>1, <4>1, KeptEnded, KeptTrans DEF Keep, Near, Same
      <4> QED
        BY <1>5, <3>1, <4>1, <4>2 DEF Keep, Near, Fine, Same, Known, Unflagged, IsConn, Fields
    <3> QED
      BY <3>2, <3>3, <3>4
  <2> QED
    BY <1>1, <1>2, <2>1, <2>2
<1>6. CASE d.kind = "oracle"
  <2>1. Keep(d, r.c)
    BY <1>6, OraChanges DEF Plain, Commit, Rollback, Of
  <2> QED
    BY <1>6, <2>1, KeepFine DEF Keep, Near, Same, Ended
<1> QED
  BY <1>3, <1>4, <1>5, <1>6 DEF IsConn, Kinds

\* executeBatch of the base class keeps the transaction of the caller, and leaves
\* none of its own when it succeeds.
LEMMA DefaultBatchResult ==
  ASSUME NEW d, IsConn(d), NEW V \in SUBSET Now, NEW W \in SUBSET Now, NEW r \in DefaultBatch(d, V, W)
  PROVE  Fine(d, r.c) /\ (d.flag => Keep(d, r.c)) /\ (r.st = "ok" /\ ~ d.flag => Ended(r.c))
<1> DEFINE Z(e) == ExecuteKeys(e, W)
           run(e) == Then(ExecuteKeys(e, V), Z)
           all(e) == OnFailure(run(e), Rollback)
           F(e) == Then(all(e), Commit)
<1>1. DefaultBatch(d, V, W) = IF ~ d.flag THEN Then(Begin(d), F) ELSE run(d)
  BY DEF DefaultBatch
<1>2. \A e : IsConn(e) => Plain(e, Z(e)) /\ Plain(e, ExecuteKeys(e, V))
  BY ConnectionWrites
<1> HIDE DEF Z
<1>3. \A e : IsConn(e) => Plain(e, run(e))
  BY <1>2, KeepTrans, KeepIs DEF Plain, Then
<1> HIDE DEF run
<1>4. CASE d.flag
  <2>1. Keep(d, r.c)
    BY <1>1, <1>3, <1>4 DEF Plain
  <2> QED
    BY <1>4, <2>1, KeepFine
<1>5. CASE ~ d.flag
  <2>1. ASSUME NEW e, IsConn(e), NEW x \in all(e) PROVE Fine(e, x.c)
    <3>1. CASE x \in run(e)
      BY <1>3, <2>1, <3>1, KeepFine DEF Plain
    <3>2. CASE \E y \in run(e) : \E z \in Rollback(y.c) : x.c = z.c
      <4>1. PICK y \in run(e) : \E z \in Rollback(y.c) : x.c = z.c
        BY <3>2
      <4>2. PICK z \in Rollback(y.c) : x.c = z.c
        BY <4>1
      <4>3. Keep(e, y.c) /\ IsConn(y.c)
        BY <1>3, <2>1, KeepIs DEF Plain
      <4> QED
        BY <4>2, <4>3, EndResult, KeepFine, FineTrans
    <3> QED
      BY <2>1, <3>1, <3>2 DEF OnFailure, Res
  <2> HIDE DEF all
  <2>2. ASSUME NEW e, IsConn(e), NEW x \in F(e) PROVE Fine(e, x.c) /\ (x.st = "ok" => Ended(x.c))
    <3>1. CASE x \in all(e) /\ x.st # "ok"
      BY <2>1, <2>2, <3>1
    <3>2. CASE \E y \in all(e) : x \in Commit(y.c)
      <4>1. PICK y \in all(e) : x \in Commit(y.c)
        BY <3>2
      <4>2. Fine(e, y.c) /\ IsConn(y.c)
        BY <2>1, <2>2, FineIs
      <4> QED
        BY <4>1, <4>2, EndResult, FineTrans
    <3> QED
      BY <2>2, <3>1, <3>2 DEF Then
  <2> HIDE DEF F
  <2>3. (r \in Begin(d) /\ r.st # "ok") \/ \E y \in Begin(d) : y.st = "ok" /\ r \in F(y.c)
    BY <1>1, <1>5 DEF Then
  <2>4. CASE r \in Begin(d) /\ r.st # "ok"
    BY <1>5, <2>4, BeginResult, KeepFine
  <2>5. CASE \E y \in Begin(d) : y.st = "ok" /\ r \in F(y.c)
    <3>1. PICK y \in Begin(d) : y.st = "ok" /\ r \in F(y.c)
      BY <2>5
    <3>2. Fine(d, y.c) /\ IsConn(y.c)
      BY <3>1, BeginResult, BeganFine, FineIs
    <3> QED
      BY <1>5, <2>2, <3>1, <3>2, FineTrans
  <2> QED
    BY <2>3, <2>4, <2>5
<1> QED
  BY <1>4, <1>5

\* The same of executeBatch, whichever the driver.
LEMMA BatchResult ==
  ASSUME NEW d, IsConn(d), NEW V \in SUBSET Now, NEW W \in SUBSET Now, NEW r \in Batch(d, V, W)
  PROVE  Fine(d, r.c) /\ (d.flag => Keep(d, r.c)) /\ (r.st = "ok" /\ ~ d.flag => Ended(r.c))
<1>1. CASE r \in DefaultBatch(d, V, W)
  BY <1>1, DefaultBatchResult
<1>2. CASE d.kind = "postgres" /\ r \in PgBatch(d, V, W)
  <2>1. Keep(d, r.c)
    BY <1>2, PgStatements DEF Plain
  <2> QED
    BY <1>2, <2>1, KeepFine DEF Keep, Near, Same, Ended
<1>3. CASE d.kind = "oracle" /\ r \in OraBatch(d, V \cup W)
  <2>1. Keep(d, r.c)
    BY <1>3, OraChanges DEF Plain
  <2> QED
    BY <1>3, <2>1, KeepFine DEF Keep, Near, Same, Ended
<1> QED
  BY <1>1, <1>2, <1>3 DEF Batch, Of, IsConn, Kinds

-----------------------------------------------------------------------------
(* Cursors, closing and connecting. *)

\* The connection is as before but for its cursor, and a transaction of the cursor.
Moved(d, e) ==
  /\ IsConn(e) /\ e.kind = d.kind /\ e.open = d.open /\ e.slot = d.slot /\ (e.up => d.up)
  /\ d.kind # "oracle" => e.flag = d.flag /\ e.auto = d.auto
  /\ Known(d) => Known(e)
  /\ Kept(d, e)

\* What leaves the cursor where it is moves nothing else.
LEMMA KeepMoved == ASSUME NEW d, NEW e, Keep(d, e) PROVE Moved(d, e) /\ e.cursor = d.cursor
<1>1. Fine(d, e)
  BY KeepFine
<1> QED
  BY <1>1 DEF Keep, Near, Same, Moved, Fine

\* Moves follow each other.
LEMMA MovedTrans == ASSUME NEW d, NEW e, NEW f, Moved(d, e), Moved(e, f) PROVE Moved(d, f)
  BY KeptTrans DEF Moved

\* Moving the cursor.
At(d, x) == [d EXCEPT !.cursor = x]
AtWire(d, x, w) == [d EXCEPT !.cursor = x, !.wire = w]

\* Moving the cursor of a connection, and of one on which it belongs to the
\* transaction of the caller.
LEMMA CursorMoved ==
  ASSUME NEW d, IsConn(d), NEW x \in CursorStates, NEW w,
         \/ d.kind # "postgres"
         \/ d.flag
         \/ d.tx = "none"
         \/ d.cursor \notin {"own", "ownEnd"}
         \/ x \in {"own", "ownEnd"}
  PROVE  /\ Moved(d, At(d, x)) /\ At(d, x).cursor = x
         /\ Moved(d, AtWire(d, x, w)) /\ AtWire(d, x, w).cursor = x
<1>1. Moved(d, At(d, x)) /\ At(d, x).cursor = x
  <2>1. Kept(d, At(d, x))
    BY KeptFrame DEF IsConn, Fields, At
  <2> QED
    BY <2>1 DEF Moved, Known, IsConn, Fields, At
<1>2. Moved(d, AtWire(d, x, w)) /\ AtWire(d, x, w).cursor = x
  <2>1. Kept(d, AtWire(d, x, w))
    <3> DEFINE e == AtWire(d, x, w)
    <3> SUFFICES Kept(d, e)
      OBVIOUS
    <3>1. /\ e.cache = d.cache /\ e.names = d.names /\ e.lru = d.lru /\ e.seq = d.seq
          /\ e.up = d.up /\ e.stmts = d.stmts /\ e.rows = d.rows /\ e.stored = d.stored
          /\ e.kind = d.kind
      BY DEF AtWire, IsConn, Fields
    <3> HIDE DEF e
    <3> QED
      BY <3>1, KeptFrame
  <2> QED
    BY <2>1 DEF Moved, Known, IsConn, Fields, AtWire
<1> QED
  BY <1>1, <1>2

\* What opening a cursor promises.
Opened(d, r) ==
  Moved(d, r.c) /\ (IF r.st = "ok" THEN r.c.cursor # "none" ELSE r.c.cursor = d.cursor)

\* A failure before there is a cursor keeps what openCursor promises.
LEMMA OpenedNot == ASSUME NEW d, NEW r, Keep(d, r.c), r.st # "ok" PROVE Opened(d, r)
  BY KeepMoved DEF Opened

\* A cursor that is opened after something that keeps the transaction.
LEMMA OpenedAfter ==
  ASSUME NEW d, NEW e, NEW r, Keep(d, e), Opened(e, r)
  PROVE  Opened(d, r)
  BY KeepMoved, MovedTrans DEF Opened

\* openCursor of MySQL has a cursor, or fails and changes none.
LEMMA MysqlOpens ==
  ASSUME NEW d, IsConn(d), d.kind = "mysql", NEW r \in MysqlOpenCursor(d)
  PROVE  Opened(d, r)
<1>1. Plain(d, MysqlStmtExecute(d, {}))
  BY MysqlParts
<1>2. ASSUME NEW e, IsConn(e), e.kind = "mysql", NEW x \in MysqlSetupResult(e) PROVE Opened(e, x)
  <2> DEFINE m == AtWire(e, "open", CursorRows)
             n == At(e, "end")
  <2>1. Moved(e, m) /\ m.cursor = "open" /\ Moved(e, n) /\ n.cursor = "end"
    BY <1>2, CursorMoved DEF CursorStates
  <2>2. x \in {Res(m, "ok"), Res(n, "ok"), Res(e, "error")}
    BY DEF MysqlSetupResult, At, AtWire
  <2>3. Keep(e, e)
    BY <1>2, Basics
  <2> HIDE DEF m, n
  <2> QED
    BY <2>1, <2>2, <2>3, KeepMoved, ResFields DEF Opened
<1>3. \/ r \in MysqlStmtExecute(d, {}) /\ r.st # "ok"
      \/ \E x \in MysqlStmtExecute(d, {}) : r \in MysqlSetupResult(x.c)
  BY DEF MysqlOpenCursor, Then
<1>4. CASE r \in MysqlStmtExecute(d, {}) /\ r.st # "ok"
  BY <1>1, <1>4, OpenedNot DEF Plain
<1>5. CASE \E x \in MysqlStmtExecute(d, {}) : r \in MysqlSetupResult(x.c)
  <2>1. PICK x \in MysqlStmtExecute(d, {}) : r \in MysqlSetupResult(x.c)
    BY <1>5
  <2>2. Keep(d, x.c) /\ IsConn(x.c) /\ x.c.kind = "mysql"
    BY <1>1, KeepIs DEF Plain, Keep, Near, Same
  <2> QED
    BY <1>2, <2>1, <2>2, OpenedAfter
<1> QED
  BY <1>3, <1>4, <1>5

\* The same of PostgreSQL: in the transaction of the caller, or in its own.
LEMMA PgOpens ==
  ASSUME NEW d, IsConn(d), d.kind = "postgres", NEW r \in PgOpenCursor(d)
  PROVE  Opened(d, r)
<1>1. Keep(d, d) /\ Keep(d, Errored(d)) /\ Keep(d, Gone(d))
  BY Basics
<1>2. CASE r \in Refused(d)
  BY <1>1, <1>2, OpenedNot, ResFields DEF Refused
<1>3. CASE d.flag /\ r \in PgCursorOpen(d)
  <2> DEFINE F(e) == Ok([e EXCEPT !.cursor = "open"])
  <2>1. PgCursorOpen(d) = Then(Statement(d, {}), F)
    BY <1>3 DEF PgCursorOpen
  <2>2. ASSUME NEW e, IsConn(e), e.flag, NEW x \in F(e) PROVE Opened(e, x)
    <3> DEFINE m == At(e, "open")
    <3>1. Moved(e, m) /\ m.cursor = "open"
      BY <2>2, CursorMoved DEF CursorStates
    <3>2. x = Res(m, "ok")
      BY <2>2 DEF Ok, At
    <3> HIDE DEF m
    <3> QED
      BY <3>1, <3>2, ResFields DEF Opened
  <2> HIDE DEF F
  <2>3. \/ r \in Statement(d, {}) /\ r.st # "ok"
        \/ \E x \in Statement(d, {}) : r \in F(x.c)
    BY <1>3, <2>1 DEF Then
  <2>4. ASSUME NEW x \in Statement(d, {}) PROVE Keep(d, x.c) /\ IsConn(x.c) /\ x.c.flag
    <3>1. Keep(d, x.c)
      BY StatementPlain DEF Plain
    <3> QED
      BY <1>3, <3>1 DEF Keep, Near, Same
  <2>5. CASE r \in Statement(d, {}) /\ r.st # "ok"
    BY <2>4, <2>5, OpenedNot
  <2>6. CASE \E x \in Statement(d, {}) : r \in F(x.c)
    BY <2>2, <2>4, <2>6, OpenedAfter
  <2> QED
    BY <2>3, <2>5, <2>6
<1>4. CASE ~ d.flag /\ r \in PgCursorOpen(d)
  <2> DEFINE m == [d EXCEPT !.cursor = "own", !.tx = "open"]
  <2>0. Kept(d, m)
    <3>1. /\ m.cache = d.cache /\ m.names = d.names /\ m.lru = d.lru /\ m.seq = d.seq
          /\ m.up = d.up /\ m.stmts = d.stmts /\ m.rows = d.rows /\ m.stored = d.stored
          /\ m.kind = d.kind
      BY DEF IsConn, Fields
    <3> HIDE DEF m
    <3> QED
      BY <3>1, KeptFrame
  <2>1. Moved(d, m) /\ m.cursor = "own"
    BY <1>4, <2>0 DEF Moved, Known, IsConn, Fields, CursorStates
  <2>2. r \in Refused(d) \cup Sent(d, Ok(m))
    BY <1>4 DEF PgCursorOpen
  <2> HIDE DEF m
  <2>3. r = Res(m, "ok") \/ (r.st # "ok" /\ r.c \in {d, Errored(d), Gone(d)}) \/ r \in Refused(d)
    BY <2>2, SentCases DEF Ok
  <2>4. CASE r = Res(m, "ok")
    BY <2>1, <2>4, ResFields DEF Opened
  <2> QED
    BY <1>1, <1>2, <2>3, <2>4, OpenedNot
<1> QED
  BY <1>2, <1>3, <1>4 DEF PgOpenCursor

\* The same of ODBC.
LEMMA OdbcOpens ==
  ASSUME NEW d, IsConn(d), d.kind = "odbc", NEW r \in OdbcOpenCursor(d)
  PROVE  Opened(d, r)
<1> DEFINE S == Then(OdbcPrepareAndBind(d), LAMBDA e : Statement(e, {}))
<1>1. Plain(d, S)
  BY OdbcParts, StatementPlain, KeepTrans, KeepIs DEF Plain, Then
<1>2. OdbcOpenCursor(d) = Then(S, OdbcSetupResult)
  BY DEF OdbcOpenCursor
<1> HIDE DEF S
<1>3. ASSUME NEW e, IsConn(e), e.kind = "odbc", NEW x \in OdbcSetupResult(e) PROVE Opened(e, x)
  <2> DEFINE m == At(e, "open")
  <2>1. Moved(e, m) /\ m.cursor = "open"
    BY <1>3, CursorMoved DEF CursorStates
  <2>2. x \in {Res(m, "ok"), Res(e, "error")}
    BY DEF OdbcSetupResult, Ok, Refused, At
  <2>3. Keep(e, e)
    BY <1>3, Basics
  <2> HIDE DEF m
  <2> QED
    BY <2>1, <2>2, <2>3, KeepMoved, ResFields DEF Opened
<1>4. (r \in S /\ r.st # "ok") \/ \E x \in S : r \in OdbcSetupResult(x.c)
  BY <1>2 DEF Then
<1>5. \A x \in S : Keep(d, x.c) /\ IsConn(x.c) /\ x.c.kind = "odbc"
  BY <1>1, KeepIs DEF Plain, Keep, Near, Same
<1> QED
  BY <1>3, <1>4, <1>5, OpenedNot, OpenedAfter

\* The same of Oracle.
LEMMA OraOpens ==
  ASSUME NEW d, IsConn(d), d.kind = "oracle", NEW r \in OraOpenCursor(d)
  PROVE  Opened(d, r)
<1> DEFINE S == Then(OraInputs(d), LAMBDA e : OraSend(e, {}))
           F(e) == Ok([e EXCEPT !.cursor = "open"]) \cup Refused(e)
<1>1. Plain(d, S)
  BY OraParts, KeepTrans, KeepIs DEF Plain, Then
<1>2. OraOpenCursor(d) = Then(S, F)
  BY DEF OraOpenCursor
<1> HIDE DEF S
<1>3. ASSUME NEW e, IsConn(e), e.kind = "oracle", NEW x \in F(e) PROVE Opened(e, x)
  <2> DEFINE m == At(e, "open")
  <2>1. Moved(e, m) /\ m.cursor = "open"
    BY <1>3, CursorMoved DEF CursorStates
  <2>2. x \in {Res(m, "ok"), Res(e, "error")}
    BY <1>3 DEF Ok, Refused, At
  <2>3. Keep(e, e)
    BY <1>3, Basics
  <2> HIDE DEF m
  <2> QED
    BY <2>1, <2>2, <2>3, KeepMoved, ResFields DEF Opened
<1> HIDE DEF F
<1>4. (r \in S /\ r.st # "ok") \/ \E x \in S : r \in F(x.c)
  BY <1>2 DEF Then
<1>5. \A x \in S : Keep(d, x.c) /\ IsConn(x.c) /\ x.c.kind = "oracle"
  BY <1>1, KeepIs DEF Plain, Keep, Near, Same
<1> QED
  BY <1>3, <1>4, <1>5, OpenedNot, OpenedAfter

\* And so of openCursor, whichever the driver.
LEMMA OpenResult ==
  ASSUME NEW d, IsConn(d), NEW r \in OpenCursor(d)
  PROVE  Opened(d, r)
  BY MysqlOpens, PgOpens, OdbcOpens, OraOpens DEF OpenCursor, Of, IsConn, Kinds

\* fetch keeps the cursor.
LEMMA FetchResult ==
  ASSUME NEW d, IsConn(d), d.cursor # "none", NEW r \in Fetch(d)
  PROVE  Moved(d, r.c) /\ r.c.cursor # "none"
<1>1. Keep(d, d) /\ Keep(d, Errored(d)) /\ Keep(d, Gone(d))
  BY Basics
<1>2. ASSUME Keep(d, r.c) PROVE Moved(d, r.c) /\ r.c.cursor # "none"
  BY <1>2, KeepMoved
<1>3. CASE d.kind # "postgres"
  <2> DEFINE m == AtWire(d, "end", Nothing)
             n == At(d, "end")
  <2>1. Moved(d, m) /\ m.cursor = "end" /\ Moved(d, n) /\ n.cursor = "end"
    BY <1>3, CursorMoved DEF CursorStates
  <2>2. r \in Ok(d) \cup Sent(d, {Res(d, "ok"), Res(m, "ok")}) \cup Sent(d, {Res(d, "ok"), Res(n, "ok")})
    BY <1>3 DEF Fetch, Of, MysqlFetch, OdbcFetch, OraFetch, At, AtWire, IsConn, Kinds
  <2> HIDE DEF m, n
  <2>3. r.c \in {m, n} \/ r.c \in {d, Errored(d), Gone(d)}
    BY <2>2, SentCases, ResFields DEF Ok
  <2> QED
    BY <1>1, <1>2, <2>1, <2>3
<1>4. CASE d.kind = "postgres"
  <2> DEFINE end == IF d.cursor = "own" THEN "ownEnd" ELSE "end"
             S == Statement(d, {})
             Stop(e) == At(e, end)
  <2>1. \A x \in S : Keep(d, x.c)
    BY StatementPlain DEF Plain
  <2>2. r.c = d \/ r \in S \/ \E x \in S : d.cursor \notin {"end", "ownEnd"} /\ r = Res(Stop(x.c), r.st)
    <3>1. Fetch(d) = PgFetch(d)
      BY <1>4 DEF Fetch, Of
    <3>2. CASE d.cursor \in {"end", "ownEnd"}
      BY <3>1, <3>2, ResFields DEF PgFetch, Ok
    <3>3. CASE d.cursor \notin {"end", "ownEnd"}
      <4>1. PgFetch(d) = {Res(Stop(x.c), x.st) : x \in {y \in S : y.st # "ok"}}
                         \cup {x \in S : x.st = "ok"} \cup {Res(Stop(x.c), "ok") : x \in {y \in S : y.st = "ok"}}
        BY <3>3 DEF PgFetch, At
      <4> HIDE DEF Stop, S
      <4> QED
        BY <3>1, <3>3, <4>1, ResFields
    <3> QED
      BY <3>2, <3>3
  <2> HIDE DEF S
  <2>3. ASSUME NEW x \in S, d.cursor \notin {"end", "ownEnd"}, r.c = Stop(x.c) PROVE Moved(d, r.c) /\ r.c.cursor # "none"
    <3>1. Keep(d, x.c) /\ IsConn(x.c) /\ Moved(d, x.c) /\ x.c.cursor = d.cursor
      BY <2>1, <2>3, KeepIs, KeepMoved
    <3>2. end \in CursorStates /\ end # "none" /\ (d.cursor = "own" => end = "ownEnd")
      BY DEF CursorStates
    <3>3. d.cursor \in {"open", "own"}
      BY <2>3 DEF IsConn, CursorStates
    <3> HIDE DEF end
    <3>4. Moved(x.c, At(x.c, end)) /\ At(x.c, end).cursor = end
      BY <3>1, <3>2, <3>3, CursorMoved
    <3> QED
      BY <2>3, <3>1, <3>2, <3>4, MovedTrans
  <2> HIDE DEF Stop
  <2> QED
    BY <1>1, <1>2, <2>1, <2>2, <2>3, ResFields
<1> QED
  BY <1>3, <1>4

\* Closing a cursor ends it, and its own transaction.
LEMMA CloseCursorResult ==
  ASSUME NEW d, IsConn(d), d.cursor # "none", NEW r \in CloseCursor(d)
  PROVE  Moved(d, r.c) /\ r.c.cursor = "none"
<1> DEFINE f == At(d, "none")
<1>0. "none" \in CursorStates
  BY DEF CursorStates
<1>1. CASE d.kind # "postgres"
  <2> DEFINE w == IF d.wire = CursorRows THEN Nothing ELSE d.wire
             m == AtWire(d, "none", w)
  <2>1. Moved(d, f) /\ f.cursor = "none" /\ Moved(d, m) /\ m.cursor = "none"
    BY <1>0, <1>1, CursorMoved
  <2>2. r \in {Res(f, "ok"), Res(f, "error"), Res(m, "ok")}
    BY <1>1 DEF CloseCursor, Of, MysqlCloseCursor, OdbcCloseCursor, OraCloseCursor, Ok, At, AtWire, IsConn, Kinds
  <2> HIDE DEF f, m
  <2> QED
    BY <2>1, <2>2, ResFields
<1>2. CASE d.kind = "postgres" /\ d.cursor \in {"open", "end"}
  <2>1. Moved(d, f) /\ f.cursor = "none"
    BY <1>0, <1>2, CursorMoved
  <2>2. r \in Statement(f, {}) \cup Ok(f)
    BY <1>2 DEF CloseCursor, Of, PgCloseCursor, At
  <2> HIDE DEF f
  <2>3. IsConn(f)
    BY <2>1 DEF Moved
  <2>4. Keep(f, r.c)
    BY <2>2, <2>3, StatementPlain, Basics DEF Plain
  <2> QED
    BY <2>1, <2>4, KeepMoved, MovedTrans
<1>3. CASE d.kind = "postgres" /\ d.cursor \in {"own", "ownEnd"}
  <2>1. IsConn(f) /\ f.cursor = "none"
    BY <1>0 DEF IsConn, Fields, At
  <2>2. (\E x \in Statement(f, {}) : r = Res(Undone(x.c), x.st)) \/ r = Res(Undone(f), "ok")
    BY <1>3 DEF CloseCursor, Of, PgCloseCursor, Ok, At
  <2>3. \E e : r.c = Undone(e) /\ Keep(f, e)
    <3> HIDE DEF f
    <3>1. \A x \in Statement(f, {}) : Keep(f, x.c)
      BY <2>1, StatementPlain DEF Plain
    <3>2. Keep(f, f)
      BY <2>1, Basics
    <3> QED
      BY <2>2, <3>1, <3>2, ResFields
  <2>4. PICK e : r.c = Undone(e) /\ Keep(f, e)
    BY <2>3
  <2>5. /\ IsConn(e) /\ e.kind = d.kind /\ e.open = d.open /\ e.slot = d.slot /\ (e.up => d.up)
        /\ e.flag = d.flag /\ e.auto = d.auto /\ e.cursor = "none"
    BY <1>3, <2>4 DEF Keep, Near, Same, IsConn, Fields, At
  <2>6. Kept(d, f)
    BY KeptFrame DEF At, IsConn, Fields
  <2> HIDE DEF f
  <2>7. Kept(d, r.c)
    BY <2>4, <2>5, <2>6, KeptServer, KeptTrans DEF Keep, Near, Same
  <2> QED
    BY <1>3, <2>4, <2>5, <2>7 DEF Undone, Moved, Known, IsConn, Fields
<1> QED
  BY <1>1, <1>2, <1>3 DEF IsConn, CursorStates

\* close leaves nothing, whatever there was.
LEMMA CloseResult ==
  ASSUME NEW d, IsConn(d), NEW e \in Close(d)
  PROVE  /\ IsConn(e) /\ e.kind = d.kind /\ ~ e.open /\ ~ e.up /\ ~ e.flag /\ (e.slot => d.slot)
         /\ e.cursor = d.cursor /\ (Known(d) => Known(e))
         /\ Kept(d, e) /\ e.tx = "none" /\ e.rows = {} /\ (d.kind # "oracle" => e.stored = d.stored)
         /\ e.cache = {} /\ e.names = {} /\ e.lru = <<>> /\ e.stmts = {} /\ e.seq = d.seq
<1> DEFINE z(x) == Gone(NothingPrepared(x))
<1> DEFINE Shut(x, y) ==
             /\ IsConn(y) /\ y.kind = x.kind /\ ~ y.up /\ y.tx = "none"
             /\ y.cursor = x.cursor /\ y.rows = {} /\ y.stored = x.stored
             /\ y.cache = {} /\ y.names = {} /\ y.lru = <<>> /\ y.stmts = {} /\ y.seq = x.seq
<1>1. ASSUME NEW x, IsConn(x) PROVE Shut(x, z(x)) /\ z(x).slot = x.slot /\ z(x).auto = x.auto
  BY <1>1 DEF Gone, NothingPrepared, IsConn, Fields
<1>k. ASSUME NEW x, NEW y, IsConn(x), Shut(x, y) PROVE Kept(x, y)
  <2>1. Tidy(x, y)
    BY <1>k, TidyEmpty
  <2>2. Rowed(x, y)
    BY <1>k DEF Rowed, Wholly, Whole
  <2> QED
    BY <2>1, <2>2 DEF Kept
<1> HIDE DEF z
<1>2. CASE d.kind \in {"mysql", "postgres"}
  <2>1. e = [z(d) EXCEPT !.open = FALSE, !.flag = FALSE, !.wire = Nothing] \/ e = [z(d) EXCEPT !.open = FALSE, !.flag = FALSE]
    BY <1>2 DEF Close, Of, MysqlClose, PgClose, z
  <2>2. Shut(d, e) /\ ~ e.open /\ ~ e.flag /\ e.slot = d.slot /\ e.auto = d.auto
    <3>1. CASE e = [z(d) EXCEPT !.open = FALSE, !.flag = FALSE, !.wire = Nothing]
      BY <1>1, <3>1 DEF IsConn, Fields
    <3>2. CASE e = [z(d) EXCEPT !.open = FALSE, !.flag = FALSE]
      BY <1>1, <3>2 DEF IsConn, Fields
    <3> QED
      BY <2>1, <3>1, <3>2
  <2>3. Kept(d, e)
    BY <1>k, <2>2
  <2> QED
    BY <1>2, <2>2, <2>3 DEF Known
<1>3. CASE d.kind = "odbc"
  <2>1. e = [z(d) EXCEPT !.open = FALSE, !.flag = FALSE, !.auto = TRUE]
    BY <1>3 DEF Close, Of, OdbcClose, z
  <2>2. Shut(d, e) /\ ~ e.open /\ ~ e.flag /\ e.slot = d.slot
    BY <1>1, <1>3, <2>1 DEF IsConn, Fields
  <2>3. Kept(d, e)
    BY <1>k, <2>2
  <2> QED
    BY <1>3, <2>2, <2>3 DEF Known
<1>4. CASE d.kind = "oracle"
  <2>1. PICK x \in {Undone(d), Committed(d)} : e = [z(x) EXCEPT !.open = FALSE, !.flag = FALSE, !.slot = FALSE]
    BY <1>4 DEF Close, Of, OraClose, z
  <2>2. IsConn(x) /\ x.kind = "oracle" /\ x.cursor = d.cursor /\ Kept(d, x)
    <3>1. Keep(d, x)
      BY <2>1, Basics
    <3> QED
      BY <1>4, <3>1 DEF Keep, Near, Same
  <2>3. x.seq = d.seq
    BY <2>1 DEF Undone, Committed, IsConn, Fields
  <2>4. Shut(x, e) /\ ~ e.open /\ ~ e.flag /\ ~ e.slot
    BY <1>1, <2>1, <2>2 DEF IsConn, Fields
  <2>5. Kept(d, e)
    BY <1>k, <2>2, <2>4, KeptTrans
  <2> QED
    BY <1>4, <2>2, <2>3, <2>4, <2>5 DEF Known
<1> QED
  BY <1>2, <1>3, <1>4 DEF IsConn, Kinds

\* A new connection is in no transaction.
LEMMA ConnectResult ==
  ASSUME NEW d, IsConn(d), ~ d.slot, d.cursor = "none", d.auto,
         NEW r \in Connect(d), r.st = "ok"
  PROVE  /\ IsConn(r.c) /\ r.c.kind = d.kind /\ ~ r.c.flag /\ ~ r.c.slot /\ r.c.cursor = "none"
         /\ Known(r.c) /\ (r.c.kind = "odbc" => r.c.auto)
         /\ Kept(d, r.c) /\ r.c.names = {} /\ r.c.rows = {} /\ (d.kind # "oracle" => r.c.stored = d.stored)
<1> DEFINE u(e) == [e EXCEPT !.open = TRUE, !.up = TRUE]
           o(e) == [e EXCEPT !.open = TRUE, !.up = TRUE, !.auto = FALSE]
<1>0. /\ d.kind # "oracle" => \E e \in Close(d) : r = Res(e, "error") \/ r = Res(u(e), "ok")
      /\ d.kind = "oracle" => \E e \in Close(d) : r = Res(e, "error") \/ r = Res(o(e), "ok")
  BY DEF Connect, Close, Of, MysqlConnect, PgConnect, OdbcConnect, OraConnect, IsConn, Kinds
<1> HIDE DEF u, o
<1>1. PICK e \in Close(d) : r.c = IF d.kind = "oracle" THEN o(e) ELSE u(e)
  BY <1>0, ResFields
<1>2. /\ IsConn(e) /\ e.kind = d.kind /\ ~ e.flag /\ ~ e.slot
      /\ e.cursor = "none" /\ ~ e.up
      /\ Kept(d, e) /\ e.tx = "none" /\ e.rows = {} /\ (d.kind # "oracle" => e.stored = d.stored)
      /\ e.cache = {} /\ e.names = {} /\ e.lru = <<>> /\ e.stmts = {} /\ e.seq = d.seq
  BY CloseResult
<1>3. d.kind # "oracle" => e.auto /\ e.tx = "none"
  BY DEF Close, Of, MysqlClose, PgClose, OdbcClose, Gone, NothingPrepared, IsConn, Fields, Kinds
<1> DEFINE Bare(x) == /\ x.cache = {} /\ x.names = {} /\ x.lru = <<>> /\ x.stmts = {} /\ x.seq = e.seq
                      /\ x.rows = {} /\ x.stored = e.stored
<1>c. Kept(d, r.c) /\ Bare(r.c)
  <2>1. Bare(r.c)
    BY <1>1, <1>2 DEF o, u, IsConn, Fields
  <2>2. Tidy(e, r.c)
    BY <2>1, TidyEmpty
  <2>3. Rowed(e, r.c)
    BY <1>2, <2>1, RowedFrame
  <2> QED
    BY <1>2, <2>1, <2>2, <2>3, KeptTrans DEF Kept
<1> HIDE DEF Bare
<1>4. CASE d.kind = "oracle"
  BY <1>1, <1>2, <1>4, <1>c DEF o, Known, IsConn, Fields, Bare
<1>5. CASE d.kind # "oracle"
  BY <1>1, <1>2, <1>3, <1>5, <1>c DEF u, Known, IsConn, Fields, Bare
<1> QED
  BY <1>4, <1>5

-----------------------------------------------------------------------------
(* The session. *)

SessionFields == {"n", "mode", "tx", "bad", "calls", "failed"}

\* The flags of the session, and the transactions that the thread counts.
Counted ==
  /\ DOMAIN s = SessionFields /\ s.tx \in BOOLEAN /\ s.bad \in BOOLEAN /\ s.failed \in BOOLEAN
  /\ stained \in BOOLEAN /\ op \in Ops \cup {"none"}
  /\ depth = IF s.tx THEN 1 ELSE 0
  /\ pc \in {"idle", "begin", "openCursor", "cursor"} => ~ s.tx

\* The watcher is at work only inside a transaction, and an operation in a callback.
Inside ==
  /\ watcher \in {"waiting", "cancelling"} => pc \in {"body", "join"} /\ s.mode = "transaction"
  /\ pc = "begin" => s.mode = "transaction"
  /\ op # "none" => pc = "body"

\* The slot is taken by the operation in progress, and there is a cursor where
\* one is read.
Placed ==
  /\ c.slot => op # "none"
  /\ pc \in {"idle", "begin", "openCursor", "join", "finish", "release"} => c.cursor = "none"
  /\ pc = "cursor" \/ op \in {"fetch", "closeCursor"} => c.cursor # "none"

\* Session and connection agree on whether there is a transaction, and ODBC has
\* autocommit on when there is none.
Agrees(d, tx) ==
  d.up /\ d.kind # "oracle" => (d.flag <=> tx) /\ (d.kind = "odbc" => (d.auto <=> ~ d.flag))
Agreed == ~ stained => Agrees(c, s.tx)

SessionInv == IsConn(c) /\ Known(c) /\ Counted /\ Inside /\ Placed /\ Agreed

\* What keeps the transaction, or moves only a cursor, keeps the agreement.
LEMMA KeepAgrees ==
  ASSUME NEW d, NEW e, NEW tx, Keep(d, e), Agrees(d, tx)
  PROVE  Agrees(e, tx)
  BY DEF Keep, Near, Same, Agrees

\* The same of a cursor that moves.
LEMMA MovedAgrees ==
  ASSUME NEW d, NEW e, NEW tx, Moved(d, e), Agrees(d, tx)
  PROVE  Agrees(e, tx)
  BY DEF Moved, Agrees

\* What keeps the transaction hides none.
LEMMA KeepKnown == ASSUME NEW d, NEW e, Keep(d, e), Known(d) PROVE IsConn(e) /\ Known(e)
  BY KeepFine, KeepIs DEF Fine

\* Registering a statement changes nothing else.
LEMMA SlotOnly ==
  ASSUME NEW d, IsConn(d), NEW b \in BOOLEAN
  PROVE  LET e == [d EXCEPT !.slot = b]
         IN /\ IsConn(e) /\ e.slot = b /\ e.cursor = d.cursor /\ (Known(d) => Known(e))
            /\ (\A tx : Agrees(d, tx) => Agrees(e, tx)) /\ Kept(d, e)
<1>1. Kept(d, [d EXCEPT !.slot = b])
  BY KeptFrame DEF IsConn, Fields
<1> QED
  BY <1>1 DEF IsConn, Fields, Known, Agrees

\* The methods of Session leave the transaction alone, but for begin, commit,
\* rollback, a batch and the cursors.
LEMMA PlainOutcome ==
  ASSUME IsConn(c), NEW o \in {"execute", "read", "call", "savepoint"}, op = o
  PROVE  Plain(c, Outcome(o))
<1> DEFINE W == {Row(1)}
<1>0. W \in SUBSET Now
  BY DEF Now
<1>1. Plain(c, Refused(c))
  BY Basics
<1>2. CASE o = "execute"
  <2>1. Plain(c, Execute(c, W)) /\ Plain(c, ExecuteKeys(c, W))
    BY <1>0, ConnectionWrites
  <2>2. Outcome(o) = SessionExecute \cup SessionExecuteKeys \cup SessionStreamExecute
    BY <1>2 DEF Outcome
  <2>3. Plain(c, SessionExecute) /\ Plain(c, SessionExecuteKeys) /\ Plain(c, SessionStreamExecute)
    BY <1>1, <2>1, BothPlain DEF SessionExecute, SessionExecuteKeys, SessionStreamExecute, Audited, Materialized
  <2> QED
    BY <2>2, <2>3 DEF Plain
<1>3. CASE o = "read"
  <2>1. Plain(c, Query(c)) /\ Plain(c, QueryAll(c)) /\ Plain(c, QueryEach(c))
    BY ConnectionReads
  <2>2. Outcome(o) = SessionQuery \cup SessionStreamQuery \cup SessionQueryAll \cup SessionQueryEach
    BY <1>3 DEF Outcome
  <2>3. Plain(c, {Res(r.c, "error") : r \in QueryEach(c)})
    BY <2>1, ResFields DEF Plain
  <2>4. Plain(c, SessionQuery) /\ Plain(c, SessionStreamQuery) /\ Plain(c, SessionQueryAll)
    BY <1>1, <2>1, BothPlain DEF SessionQuery, SessionStreamQuery, SessionQueryAll, Audited, Materialized
  <2>5. Plain(c, SessionQueryEach)
    BY <1>1, <2>1, <2>3, BothPlain DEF SessionQueryEach, Audited
  <2> QED
    BY <2>2, <2>4, <2>5 DEF Plain
<1>4. CASE o = "call"
  BY <1>0, <1>1, <1>4, ConnectionWrites, BothPlain DEF Outcome, SessionCall, Audited
<1>5. CASE o = "savepoint"
  BY <1>5, ConnectionReads DEF Outcome, SessionSavepoint
<1> QED
  BY <1>2, <1>3, <1>4, <1>5

\* What an operation leaves behind: a connection whose transaction is known, and
\* agreement with the session, unless it has stained the connection.
Left(o, r) ==
  /\ IsConn(r.c) /\ Known(r.c) /\ Kept(c, r.c) /\ r.c.kind = c.kind
  /\ ~ stained /\ ~ Stains(o, r) => Agrees(r.c, TxAfter(o, r.st))

\* An operation that keeps the transaction leaves agreement.
LEMMA KeepLeft ==
  ASSUME IsConn(c), Known(c), Agreed, s.tx \in BOOLEAN, NEW o, NEW r, Keep(c, r.c),
         o \notin {"begin", "commit", "rollback"}
  PROVE  Left(o, r)
<1>1. TxAfter(o, r.st) = s.tx
  BY DEF TxAfter
<1>2. ~ stained => Agrees(r.c, s.tx)
  BY KeepAgrees DEF Agreed
<1>3. IsConn(r.c) /\ Known(r.c) /\ Kept(c, r.c) /\ r.c.kind = c.kind
  BY KeepKnown DEF Keep, Near, Same
<1> QED
  BY <1>1, <1>2, <1>3 DEF Left

\* The same of one that moves a cursor.
LEMMA MovedLeft ==
  ASSUME IsConn(c), Known(c), Agreed, s.tx \in BOOLEAN, NEW o, NEW r, Moved(c, r.c),
         o \notin {"begin", "commit", "rollback"}
  PROVE  Left(o, r)
<1>1. TxAfter(o, r.st) = s.tx
  BY DEF TxAfter
<1>2. ~ stained => Agrees(r.c, s.tx)
  BY MovedAgrees DEF Agreed
<1>3. IsConn(r.c) /\ Known(r.c) /\ Kept(c, r.c) /\ r.c.kind = c.kind
  BY DEF Moved
<1> QED
  BY <1>1, <1>2, <1>3 DEF Left

\* begin leaves agreement, or everything as it was.
LEMMA BeginLeft ==
  ASSUME IsConn(c), Known(c), Agreed, s.tx \in BOOLEAN, NEW r \in Begin(c)
  PROVE  Left("begin", r)
<1>1. CASE r.st = "ok"
  <2>1. Began(c, r.c) /\ Fine(c, r.c)
    BY <1>1, BeginResult, BeganFine
  <2>2. TxAfter("begin", r.st)
    BY <1>1 DEF TxAfter
  <2>3. Agrees(r.c, TRUE)
    BY <2>1 DEF Began, Same, Agrees, IsConn
  <2> QED
    BY <2>1, <2>2, <2>3 DEF Left, Fine, Same, Agrees
<1>2. CASE r.st # "ok"
  <2>1. Keep(c, r.c)
    BY <1>2, BeginResult
  <2>2. TxAfter("begin", r.st) = s.tx
    BY <1>2 DEF TxAfter
  <2>3. ~ stained => Agrees(r.c, s.tx)
    BY <2>1, KeepAgrees DEF Agreed
  <2>4. IsConn(r.c) /\ Known(r.c) /\ Kept(c, r.c) /\ r.c.kind = c.kind
    BY <2>1, KeepKnown DEF Keep, Near, Same
  <2> QED
    BY <2>2, <2>3, <2>4 DEF Left
<1> QED
  BY <1>1, <1>2

\* commit and rollback: agreement is lost only by a failure, which stains.
LEMMA EndLeft ==
  ASSUME IsConn(c), Known(c), NEW o \in {"commit", "rollback"}, NEW r \in Commit(c) \cup Rollback(c)
  PROVE  Left(o, r)
<1>1. Fine(c, r.c) /\ (r.st = "ok" => Ended(r.c))
  BY EndResult
<1>2. IsConn(r.c) /\ Known(r.c) /\ Kept(c, r.c) /\ r.c.kind = c.kind
  BY <1>1, FineIs DEF Fine, Same
<1>3. ~ TxAfter(o, r.st)
  BY DEF TxAfter
<1>4. r.st = "ok" => Agrees(r.c, FALSE)
  BY <1>1, <1>2 DEF Ended, Agrees, IsConn
<1>5. r.st # "ok" => Stains(o, r)
  BY DEF Stains
<1> QED
  BY <1>2, <1>3, <1>4, <1>5 DEF Left, Agrees

\* So does a batch, in a transaction of the caller or in one of its own.
LEMMA BatchLeft ==
  ASSUME IsConn(c), Known(c), Agreed, s.tx \in BOOLEAN,
         NEW V \in SUBSET Now, NEW W \in SUBSET Now, NEW r \in Batch(c, V, W)
  PROVE  Left("batch", r)
<1>1. Fine(c, r.c) /\ (c.flag => Keep(c, r.c)) /\ (r.st = "ok" /\ ~ c.flag => Ended(r.c))
  BY BatchResult
<1>2. IsConn(r.c) /\ Known(r.c) /\ Kept(c, r.c) /\ r.c.kind = c.kind /\ (r.c.up => c.up)
  BY <1>1 DEF Fine, Same
<1>3. TxAfter("batch", r.st) = s.tx
  BY DEF TxAfter
<1>4. ASSUME ~ stained, ~ Stains("batch", r) PROVE Agrees(r.c, s.tx)
  <2> SUFFICES ASSUME r.c.up, r.c.kind # "oracle" PROVE Agrees(r.c, s.tx)
    BY DEF Agrees
  <2>1. c.flag <=> s.tx
    BY <1>2, <1>4 DEF Agreed, Agrees
  <2>2. CASE s.tx
    BY <1>1, <1>4, <2>1, <2>2, KeepAgrees DEF Agreed
  <2>3. CASE ~ s.tx /\ r.st = "ok"
    BY <1>1, <1>2, <2>1, <2>3 DEF Ended, Agrees, IsConn
  <2>4. CASE ~ s.tx /\ r.st # "ok"
    BY <1>2, <1>4, <2>4 DEF Stains, Agrees, IsConn
  <2> QED
    BY <2>2, <2>3, <2>4
<1> QED
  BY <1>2, <1>3, <1>4 DEF Left

\* Whatever the callback calls leaves agreement, or stains.
LEMMA OutcomeLeft ==
  ASSUME IsConn(c), Known(c), Agreed, Placed, s.tx \in BOOLEAN, NEW r \in Outcome(op),
         op \in Ops \ {"prepare", "executePrepared", "prepared"}
  PROVE  Left(op, r)
<1>1. CASE op \in {"execute", "read", "call", "savepoint"}
  BY <1>1, PlainOutcome, KeepLeft DEF Plain
<1>2. CASE op = "begin"
  BY <1>2, BeginLeft DEF Outcome, SessionBegin
<1>3. CASE op \in {"commit", "rollback"}
  BY <1>3, EndLeft DEF Outcome, SessionCommit, SessionRollback
<1>4. Keep(c, c)
  BY Basics
<1>5. CASE op = "batch"
  <2>1. r \in Refused(c) \/ r \in Batch(c, {Row(1)}, {Row(2)})
    BY <1>5 DEF Outcome, SessionBatch, SessionStreamBatch, Audited, Materialized
  <2>2. {Row(1)} \in SUBSET Now /\ {Row(2)} \in SUBSET Now
    BY <1>5 DEF Now
  <2> QED
    BY <1>4, <1>5, <2>1, <2>2, BatchLeft, KeepLeft, ResFields DEF Refused
<1>6. CASE op = "openCursor"
  <2>1. r \in Refused(c) \/ r \in OpenCursor(c)
    BY <1>6 DEF Outcome, SessionOpenCursor, Audited
  <2> QED
    BY <1>4, <1>6, <2>1, OpenResult, MovedLeft, KeepLeft, ResFields DEF Refused, Opened
<1>7. CASE op = "fetch"
  BY <1>7, FetchResult, MovedLeft DEF Outcome, Placed
<1>8. CASE op = "closeCursor"
  BY <1>8, CloseCursorResult, MovedLeft DEF Outcome, Placed
<1> QED
  BY <1>1, <1>2, <1>3, <1>5, <1>6, <1>7, <1>8, SessionAssumption

\* An operation returns.
LEMMA ReturnInv ==
  ASSUME SessionInv, pc = "body", op # "none", NEW W, NEW r, Return(op, W, r), Left(op, r)
  PROVE  SessionInv'
<1>1. /\ c' = [r.c EXCEPT !.slot = FALSE] /\ op' = "none" /\ pc' = pc /\ watcher' = watcher
      /\ s' = [s EXCEPT !.tx = TxAfter(op, r.st), !.bad = BadAfter(op, r.st),
                        !.failed = s.failed \/ r.st # "ok"]
      /\ depth' = DepthAfter(op, r.st) /\ stained' = (stained \/ Stains(op, r))
  BY DEF Return
<1>2. DOMAIN s = SessionFields /\ s.tx \in BOOLEAN /\ s.bad \in BOOLEAN /\ s.failed \in BOOLEAN
      /\ stained \in BOOLEAN /\ depth = IF s.tx THEN 1 ELSE 0
  BY DEF SessionInv, Counted
<1> DEFINE tx == TxAfter(op, r.st)
           bad == BadAfter(op, r.st)
           failed == s.failed \/ r.st # "ok"
<1>3. tx \in BOOLEAN /\ bad \in BOOLEAN /\ failed \in BOOLEAN
  BY DEF TxAfter, BadAfter
<1>4. DepthAfter(op, r.st) = IF tx THEN 1 ELSE 0
  <2>1. CASE s.tx
    <3>1. depth = 1
      BY <1>2, <2>1, Zenon
    <3> QED
      BY <2>1, <3>1 DEF DepthAfter, TxAfter
  <2>2. CASE ~ s.tx
    <3>1. depth = 0
      BY <1>2, <2>2, Zenon
    <3> QED
      BY <2>2, <3>1 DEF DepthAfter, TxAfter
  <2> QED
    BY <2>1, <2>2
<1> HIDE DEF tx, bad, failed
<1>5. s' = [s EXCEPT !.tx = tx, !.bad = bad, !.failed = failed]
  BY <1>1 DEF tx, bad, failed
<1>6. DOMAIN s' = SessionFields /\ s'.tx = tx /\ s'.bad = bad /\ s'.failed = failed /\ s'.mode = s.mode
  BY <1>2, <1>5 DEF SessionFields
<1>7. Counted'
  <2>1. Stains(op, r) \in BOOLEAN
    BY DEF Stains
  <2> QED
    BY <1>1, <1>2, <1>3, <1>4, <1>6, <2>1 DEF Counted, tx
<1>8. Inside'
  BY <1>1, <1>6 DEF SessionInv, Inside
<1>9. IsConn(c') /\ Known(c') /\ ~ c'.slot /\ \A x : Agrees(r.c, x) => Agrees(c', x)
  BY <1>1, SlotOnly DEF Left
<1>10. Placed'
  BY <1>1, <1>9 DEF Placed
<1>11. Agreed'
  BY <1>1, <1>6, <1>9 DEF Agreed, Left, tx
<1> QED
  BY <1>7, <1>8, <1>9, <1>10, <1>11 DEF SessionInv, IsConn, Known

\* An operation of the callback starts.
LEMMA CallOpInv ==
  ASSUME SessionInv, NEW o \in Ops, CallOp(o)
  PROVE  SessionInv'
<1> DEFINE b == Registers(c, o)
<1>1. /\ pc = "body" /\ op = "none" /\ op' = o /\ pc' = pc /\ watcher' = watcher /\ depth' = depth
      /\ stained' = stained /\ c' = [c EXCEPT !.slot = b] /\ MayCall(o)
      /\ s' = IF o = "closeCursor" THEN s ELSE [s EXCEPT !.calls = s.calls + 1]
  BY DEF CallOp, Start, histories, watching
<1>2. DOMAIN s = SessionFields
  BY DEF SessionInv, Counted
<1>3. DOMAIN s' = SessionFields /\ s'.tx = s.tx /\ s'.bad = s.bad /\ s'.failed = s.failed /\ s'.mode = s.mode
  BY <1>1, <1>2 DEF SessionFields
<1>4. b \in BOOLEAN
  BY DEF Registers
<1> HIDE DEF b
<1>5. IsConn(c') /\ Known(c') /\ c'.cursor = c.cursor /\ \A x : Agrees(c, x) => Agrees(c', x)
  BY <1>1, <1>4, SlotOnly DEF SessionInv
<1>6. Counted'
  BY <1>1, <1>3, Zenon DEF SessionInv, Counted
<1>7. Inside' /\ Agreed'
  BY <1>1, <1>3, <1>5 DEF SessionInv, Inside, Agreed
<1>8. Placed'
  <2>1. o # "none"
    BY SessionAssumption
  <2>2. o \in {"fetch", "closeCursor"} => c.cursor # "none"
    BY <1>1 DEF MayCall
  <2> QED
    BY <1>1, <1>5, <2>1, <2>2 DEF Placed
<1> QED
  BY <1>5, <1>6, <1>7, <1>8 DEF SessionInv, IsConn, Known

\* An operation of the callback returns.
LEMMA ReturnOpInv ==
  ASSUME SessionInv, ReturnOp
  PROVE  SessionInv'
<1>1. PICK r \in Outcome(op) : Return(op, Writes(op), r)
  BY DEF ReturnOp
<1>2. pc = "body" /\ op \in Ops \ {"prepare", "executePrepared", "prepared"} /\ op # "none"
  BY DEF ReturnOp, SessionInv, Counted
<1>3. Left(op, r)
  BY <1>2, OutcomeLeft DEF SessionInv, Counted
<1> QED
  BY <1>1, <1>2, <1>3, ReturnInv

\* The same of the operations on prepared statements.
LEMMA ReturnPreparesLeft ==
  ASSUME SessionInv, ReturnPrepare \/ ReturnExecutePrepared \/ ReturnPrepared
  PROVE  pc = "body" /\ op # "none" /\ \E W, r : Return(op, W, r) /\ Left(op, r)
<1>1. pc = "body" /\ op \in {"prepare", "executePrepared", "prepared"}
  BY DEF ReturnPrepare, ReturnExecutePrepared, ReturnPrepared
<1>2. \E W, r : Return(op, W, r) /\ Keep(c, r.c)
  <2>0. Plain(c, Refused(c)) /\ IsConn(c) /\ {{}, {Row(1)}} \subseteq SUBSET Now
    BY <1>1, Basics DEF SessionInv, Now
  <2>1. CASE ReturnPrepare
    <3>1. PICK k \in Keys : \E r \in Audited(Prepare(c, k)) : Return(op, {}, r)
      BY <2>1 DEF ReturnPrepare
    <3>2. Plain(c, Audited(Prepare(c, k)))
      BY <2>0, ConnectionPrepared, BothPlain DEF Audited
    <3> QED
      BY <3>1, <3>2 DEF Plain
  <2>2. CASE ReturnExecutePrepared
    <3>1. PICK h \in held :
            \/ \E r \in QueryPrepared(c, h[1]) : Return(op, {}, r)
            \/ \E W \in {{}, {Row(1)}} : \E r \in ExecutePrepared(c, h[1], W) : Return(op, W, r)
      BY <2>2 DEF ReturnExecutePrepared
    <3>2. Plain(c, QueryPrepared(c, h[1])) /\ \A W \in {{}, {Row(1)}} : Plain(c, ExecutePrepared(c, h[1], W))
      BY <2>0, ConnectionPrepared
    <3> QED
      BY <3>1, <3>2 DEF Plain
  <2>3. CASE ReturnPrepared
    <3>1. PICK k \in Keys, W \in {{}, {Row(1)}} : \E r \in Audited(PreparedPath(c, k, W)) : Return(op, W, r)
      BY <2>3 DEF ReturnPrepared
    <3>2. Plain(c, Audited(PreparedPath(c, k, W)))
      BY <2>0, ConnectionPrepared, BothPlain DEF Audited
    <3> QED
      BY <3>1, <3>2 DEF Plain
  <2> QED
    BY <2>1, <2>2, <2>3
<1>3. PICK W, r : Return(op, W, r) /\ Keep(c, r.c)
  BY <1>2
<1>4. Left(op, r)
  BY <1>1, <1>3, KeepLeft DEF SessionInv, Counted
<1> QED
  BY <1>1, <1>3, <1>4

\* The session stays in step when they return.
LEMMA ReturnPreparesInv ==
  ASSUME SessionInv, ReturnPrepare \/ ReturnExecutePrepared \/ ReturnPrepared
  PROVE  SessionInv'
  BY ReturnPreparesLeft, ReturnInv

\* A connection is borrowed: one of the pool, or a new one.
LEMMA BorrowInv ==
  ASSUME SessionInv, NEW mode \in Modes, Borrow(mode)
  PROVE  SessionInv'
<1>1. /\ pc = "idle" /\ op' = op /\ depth' = depth /\ watcher' = watcher
      /\ s' = [NoSession EXCEPT !.n = s.n + 1, !.mode = mode]
      /\ pc' = CASE mode = "transaction" -> "begin" [] mode = "session" -> "body"
                 [] mode = "cursor" -> "openCursor"
  BY DEF Borrow, watching
<1>2. DOMAIN s' = SessionFields /\ s'.tx = FALSE /\ s'.bad = FALSE /\ s'.failed = FALSE /\ s'.mode = mode
  BY <1>1 DEF NoSession, SessionFields
<1>3. mode \in {"transaction", "session", "cursor"}
  BY SessionAssumption
<1>4. pc' \in {"begin", "body", "openCursor"} /\ (pc' = "begin" => mode = "transaction")
  BY <1>1, <1>3
<1>5. ~ s.tx /\ depth = 0 /\ op = "none" /\ ~ c.slot /\ c.cursor = "none" /\ IsConn(c)
  <2>1. ~ s.tx
    BY <1>1 DEF SessionInv, Counted
  <2>2. depth = 0
    BY <2>1, Zenon DEF SessionInv, Counted
  <2> QED
    BY <1>1, <2>1, <2>2 DEF SessionInv, Inside, Placed, IsConn
<1>6. watcher \notin {"waiting", "cancelling"}
  BY <1>1 DEF SessionInv, Inside
<1>7. /\ IsConn(c') /\ Known(c') /\ ~ c'.slot /\ c'.cursor = "none"
      /\ stained' \in BOOLEAN /\ (~ stained' => Agrees(c', FALSE))
  <2>1. CASE c' \in Reused /\ stained' = stained
    <3>1. Plain(c, Ping(c)) /\ Keep(c, c)
      BY <1>5, ConnectionReads, Basics
    <3>2. Keep(c, c')
      BY <2>1, <3>1 DEF Reused, Plain
    <3>3. IsConn(c') /\ Known(c') /\ c'.slot = c.slot /\ c'.cursor = c.cursor
      BY <3>2, KeepKnown DEF SessionInv, Keep, Near, Same
    <3>4. ~ stained => Agrees(c, FALSE)
      BY <1>5 DEF SessionInv, Agreed, Agrees
    <3>5. ~ stained => Agrees(c', FALSE)
      BY <3>2, <3>4, KeepAgrees
    <3> QED
      BY <1>5, <2>1, <3>3, <3>5 DEF SessionInv, Counted
  <2>2. CASE stained' = FALSE /\ \E r \in Connect(Fresh) : r.st = "ok" /\ c' = r.c
    <3>1. PICK r \in Connect(Fresh) : r.st = "ok" /\ c' = r.c
      BY <2>2
    <3>2. IsConn(Fresh) /\ ~ Fresh.slot /\ Fresh.cursor = "none" /\ Fresh.auto
      BY <1>5 DEF Fresh, Closed, IsConn, Fields, CursorStates
    <3> HIDE DEF Fresh
    <3>3. /\ IsConn(r.c) /\ ~ r.c.flag /\ ~ r.c.slot /\ r.c.cursor = "none"
          /\ Known(r.c) /\ (r.c.kind = "odbc" => r.c.auto)
      BY <3>1, <3>2, ConnectResult
    <3> QED
      BY <2>2, <3>1, <3>3 DEF Agrees, IsConn
  <2> QED
    BY <2>1, <2>2 DEF Borrow
<1>8. Counted'
  BY <1>1, <1>2, <1>5, <1>7 DEF Counted
<1>9. Inside' /\ Placed'
  BY <1>1, <1>2, <1>4, <1>5, <1>6, <1>7 DEF Inside, Placed
<1>10. Agreed'
  BY <1>2, <1>7 DEF Agreed
<1> QED
  BY <1>7, <1>8, <1>9, <1>10 DEF SessionInv, IsConn, Known

\* transaction begins.
LEMMA TxBeginInv ==
  ASSUME SessionInv, TxBegin
  PROVE  SessionInv'
<1>1. PICK r \in Begin(c) :
        /\ c' = r.c
        /\ s' = [s EXCEPT !.tx = (r.st = "ok"), !.bad = (r.st = "broken")]
        /\ depth' = IF r.st = "ok" THEN depth + 1 ELSE depth
        /\ pc' = IF r.st = "ok" THEN "body" ELSE "release"
        /\ watcher' \in (IF r.st = "ok" THEN {"none", "waiting"} ELSE {"none"})
  BY DEF TxBegin
<1>2. /\ pc = "begin" /\ op' = op /\ stained' = stained
      /\ DOMAIN s = SessionFields /\ s.failed \in BOOLEAN /\ stained \in BOOLEAN
      /\ op = "none" /\ ~ s.tx /\ s.mode = "transaction" /\ IsConn(c) /\ Known(c) /\ Agreed
      /\ c.cursor = "none" /\ ~ c.slot
  BY DEF TxBegin, SessionInv, Counted, Inside, Placed, IsConn
<1>3. depth = 0
  BY <1>2, Zenon DEF SessionInv, Counted
<1> DEFINE ok == (r.st = "ok")
           bad == (r.st = "broken")
<1>4. ok \in BOOLEAN /\ bad \in BOOLEAN /\ s' = [s EXCEPT !.tx = ok, !.bad = bad]
  BY <1>1
<1>5. depth' = IF ok THEN 1 ELSE 0
  BY <1>1, <1>3
<1>6. pc' = (IF ok THEN "body" ELSE "release") /\ (~ ok => watcher' = "none")
  BY <1>1
<1>7. Left("begin", r)
  BY <1>2, BeginLeft DEF SessionInv, Counted
<1>8. c'.cursor = "none" /\ ~ c'.slot
  BY <1>1, <1>2, BeginResult DEF Began, Keep, Near, Same
<1>9. ~ stained => Agrees(r.c, ok)
  <2>1. TxAfter("begin", r.st) = ok
    BY <1>2 DEF TxAfter
  <2>2. ~ Stains("begin", r)
    BY DEF Stains
  <2> QED
    BY <1>7, <2>1, <2>2 DEF Left
<1> HIDE DEF ok, bad
<1>10. DOMAIN s' = SessionFields /\ s'.tx = ok /\ s'.bad = bad /\ s'.failed = s.failed /\ s'.mode = s.mode
  BY <1>2, <1>4 DEF SessionFields
<1>11. Counted'
  <2>1. pc' \notin {"idle", "begin", "openCursor", "cursor"}
    BY <1>6
  <2>2. s'.tx \in BOOLEAN /\ s'.bad \in BOOLEAN /\ s'.failed \in BOOLEAN /\ stained' \in BOOLEAN
    BY <1>2, <1>4, <1>10
  <2>3. depth' = IF s'.tx THEN 1 ELSE 0
    BY <1>5, <1>10, Zenon
  <2> QED
    BY <1>2, <1>10, <2>1, <2>2, <2>3 DEF Counted
<1>12. Inside' /\ Placed'
  BY <1>2, <1>6, <1>8, <1>10 DEF Inside, Placed
<1>13. Agreed'
  BY <1>1, <1>2, <1>9, <1>10 DEF Agreed
<1>14. IsConn(c') /\ Known(c')
  BY <1>1, <1>7 DEF Left
<1> QED
  BY <1>11, <1>12, <1>13, <1>14 DEF SessionInv, IsConn, Known

\* The callback ends.
LEMMA CallbackEndsInv ==
  ASSUME SessionInv, CallbackEnds
  PROVE  SessionInv'
<1>1. PICK failed \in BOOLEAN : s' = [s EXCEPT !.failed = failed]
  BY DEF CallbackEnds
<1>2. /\ pc = "body" /\ op = "none" /\ c.cursor = "none" /\ c' = c /\ op' = op /\ depth' = depth
      /\ watcher' = watcher /\ stained' = stained
      /\ pc' = IF s.mode = "transaction" THEN "join" ELSE "release"
  BY DEF CallbackEnds
<1>3. DOMAIN s = SessionFields
  BY DEF SessionInv, Counted
<1>4. DOMAIN s' = SessionFields /\ s'.tx = s.tx /\ s'.bad = s.bad /\ s'.failed = failed /\ s'.mode = s.mode
  BY <1>1, <1>3 DEF SessionFields
<1>5. pc' \in {"join", "release"} /\ (s.mode = "transaction" => pc' = "join")
  BY <1>2
<1>6. Counted'
  <2>1. s.tx \in BOOLEAN /\ s.bad \in BOOLEAN /\ stained \in BOOLEAN /\ op \in Ops \cup {"none"}
        /\ depth = IF s.tx THEN 1 ELSE 0
    BY DEF SessionInv, Counted
  <2>2. depth' = IF s'.tx THEN 1 ELSE 0
    BY <1>2, <1>4, <2>1, Zenon
  <2>3. pc' \notin {"idle", "begin", "openCursor", "cursor"}
    BY <1>5
  <2> QED
    BY <1>2, <1>4, <2>1, <2>2, <2>3 DEF Counted
<1>7. Inside' /\ Placed' /\ Agreed'
  BY <1>2, <1>4, <1>5 DEF SessionInv, Inside, Placed, Agreed
<1> QED
  BY <1>2, <1>6, <1>7 DEF SessionInv, IsConn, Known

\* The watcher is joined.
LEMMA JoinInv ==
  ASSUME SessionInv, Join
  PROVE  SessionInv'
<1>1. /\ pc = "join" /\ watcher # "cancelling" /\ pc' = "finish" /\ c' = c /\ s' = s /\ op' = op /\ depth' = depth
      /\ stained' = stained /\ watcher' = IF watcher = "waiting" THEN "done" ELSE watcher
  BY DEF Join, Joinable, histories
<1>2. Counted'
  BY <1>1, Zenon DEF SessionInv, Counted
<1>3. Inside' /\ Placed' /\ Agreed'
  BY <1>1 DEF SessionInv, Inside, Placed, Agreed
<1> QED
  BY <1>1, <1>2, <1>3 DEF SessionInv, IsConn, Known

\* The transaction is rolled back or committed.
LEMMA TxFinishInv ==
  ASSUME SessionInv, TxFinish
  PROVE  SessionInv'
<1>1. PICK r \in TxEnd :
        /\ c' = r.c
        /\ s' = [s EXCEPT !.tx = FALSE, !.bad = s.bad \/ r.st = "broken"]
        /\ depth' = IF s.tx THEN depth - 1 ELSE depth
        /\ stained' = (stained \/ r.st # "ok")
  BY DEF TxFinish
<1>2. /\ pc = "finish" /\ pc' = "release" /\ op' = op /\ watcher' = watcher /\ op = "none"
      /\ DOMAIN s = SessionFields /\ s.failed \in BOOLEAN /\ s.bad \in BOOLEAN /\ stained \in BOOLEAN
      /\ IsConn(c) /\ Known(c) /\ Agreed /\ s.tx \in BOOLEAN /\ c.cursor = "none" /\ ~ c.slot
      /\ watcher \notin {"waiting", "cancelling"}
  BY DEF TxFinish, watching, SessionInv, Counted, Inside, Placed, IsConn
<1> DEFINE bad == s.bad \/ r.st = "broken"
<1>3. bad \in BOOLEAN /\ s' = [s EXCEPT !.tx = FALSE, !.bad = bad]
  BY <1>1
<1> HIDE DEF bad
<1>4. DOMAIN s' = SessionFields /\ s'.tx = FALSE /\ s'.bad = bad /\ s'.failed = s.failed /\ s'.mode = s.mode
  BY <1>2, <1>3 DEF SessionFields
<1>5. depth' = 0
  <2>1. CASE s.tx
    <3>1. depth = 1
      BY <2>1, Zenon DEF SessionInv, Counted
    <3> QED
      BY <1>1, <2>1, <3>1
  <2>2. CASE ~ s.tx
    <3>1. depth = 0
      BY <2>2, Zenon DEF SessionInv, Counted
    <3> QED
      BY <1>1, <2>2, <3>1
  <2> QED
    BY <2>1, <2>2
<1>6. Fine(c, r.c) /\ (~ stained /\ r.st = "ok" => Agrees(r.c, FALSE))
  <2>1. r \in Commit(c) \cup Rollback(c) \/ (~ s.tx /\ r \in Ok(c))
    BY DEF TxEnd
  <2>2. CASE r \in Commit(c) \cup Rollback(c)
    <3>1. Fine(c, r.c) /\ (r.st = "ok" => Ended(r.c))
      BY <1>2, <2>2, EndResult
    <3> QED
      BY <3>1 DEF Ended, Agrees, Fine, Same, IsConn
  <2>3. CASE ~ s.tx /\ r \in Ok(c)
    <3>1. r.c = c
      BY <2>3, ResFields DEF Ok
    <3> QED
      BY <1>2, <2>3, <3>1, Basics, KeepFine DEF Agreed, Agrees
  <2> QED
    BY <2>1, <2>2, <2>3
<1>7. IsConn(c') /\ Known(c') /\ c'.cursor = "none" /\ ~ c'.slot
  BY <1>1, <1>2, <1>6 DEF Fine, Same
<1>8. Counted'
  BY <1>1, <1>2, <1>3, <1>4, <1>5 DEF Counted
<1>9. Inside' /\ Placed'
  BY <1>2, <1>7 DEF Inside, Placed
<1>10. Agreed'
  BY <1>1, <1>2, <1>4, <1>6 DEF Agreed
<1> QED
  BY <1>7, <1>8, <1>9, <1>10 DEF SessionInv, IsConn, Known

\* The session goes: its transaction is rolled back, or the connection closed.
LEMMA ReleaseInv ==
  ASSUME SessionInv, Release
  PROVE  SessionInv'
<1>1. PICK r \in CleanedUp :
        IF s.bad \/ (s.tx /\ r.st # "ok") THEN \E d \in Close(r.c) : c' = d ELSE c' = r.c
  BY DEF Release
<1>2. /\ pc = "release" /\ pc' = "idle" /\ op' = op /\ watcher' = "none" /\ op = "none" /\ stained' = stained
      /\ depth' = IF s.tx THEN depth - 1 ELSE depth
      /\ s' = [NoSession EXCEPT !.n = s.n] /\ stained \in BOOLEAN
      /\ IsConn(c) /\ Known(c) /\ Agreed /\ s.tx \in BOOLEAN /\ s.bad \in BOOLEAN
      /\ c.cursor = "none" /\ ~ c.slot
  BY DEF Release, histories, SessionInv, Counted, Inside, Placed, IsConn
<1>3. DOMAIN s' = SessionFields /\ s'.tx = FALSE /\ s'.bad = FALSE /\ s'.failed = FALSE
  BY <1>2 DEF NoSession, SessionFields
<1>4. depth' = 0
  <2>1. CASE s.tx
    <3>1. depth = 1
      BY <2>1, Zenon DEF SessionInv, Counted
    <3> QED
      BY <1>2, <2>1, <3>1
  <2>2. CASE ~ s.tx
    <3>1. depth = 0
      BY <2>2, Zenon DEF SessionInv, Counted
    <3> QED
      BY <1>2, <2>2, <3>1
  <2> QED
    BY <2>1, <2>2
<1>5. Fine(c, r.c) /\ (~ stained /\ (s.tx => r.st = "ok") => Agrees(r.c, FALSE))
  <2>1. CASE s.tx
    <3>1. Fine(c, r.c) /\ (r.st = "ok" => Ended(r.c))
      BY <1>2, <2>1, EndResult DEF CleanedUp
    <3> QED
      BY <2>1, <3>1 DEF Ended, Agrees, Fine, Same, IsConn
  <2>2. CASE ~ s.tx
    <3>1. r.c = c
      BY <2>2, ResFields DEF CleanedUp, Ok
    <3> QED
      BY <1>2, <2>2, <3>1, Basics, KeepFine DEF Agreed, Agrees
  <2> QED
    BY <1>2, <2>1, <2>2
<1>6. IsConn(r.c) /\ Known(r.c) /\ r.c.cursor = "none" /\ ~ r.c.slot
  BY <1>2, <1>5 DEF Fine, Same
<1>7. /\ IsConn(c') /\ Known(c') /\ c'.cursor = "none" /\ ~ c'.slot
      /\ ~ stained => Agrees(c', FALSE)
  <2>1. CASE s.bad \/ (s.tx /\ r.st # "ok")
    <3>1. PICK d \in Close(r.c) : c' = d
      BY <1>1, <2>1
    <3>2. /\ IsConn(d) /\ ~ d.up /\ (d.slot => r.c.slot) /\ d.cursor = r.c.cursor /\ Known(d)
      BY <1>6, CloseResult
    <3> QED
      BY <1>6, <3>1, <3>2 DEF Agrees, IsConn
  <2>2. CASE ~ (s.bad \/ (s.tx /\ r.st # "ok"))
    BY <1>1, <1>5, <1>6, <2>2
  <2> QED
    BY <2>1, <2>2
<1>8. Counted'
  BY <1>2, <1>3, <1>4 DEF Counted
<1>9. Inside' /\ Placed'
  BY <1>2, <1>7 DEF Inside, Placed
<1>10. Agreed'
  BY <1>2, <1>3, <1>7 DEF Agreed
<1> QED
  BY <1>7, <1>8, <1>9, <1>10 DEF SessionInv, IsConn, Known

\* What the watcher and the cursor do to the session: at most its bad flag and its
\* count of calls change.
LEMMA SessionKept ==
  ASSUME SessionInv, DOMAIN s' = SessionFields, s'.tx = s.tx, s'.bad \in BOOLEAN, s'.failed = s.failed,
         s'.mode = s.mode, op' = op, depth' = depth, stained' = stained,
         pc' = pc \/ (pc' = "release" /\ op = "none")
  PROVE  Counted'
<1>1. s.tx \in BOOLEAN /\ s.failed \in BOOLEAN /\ stained \in BOOLEAN /\ op \in Ops \cup {"none"}
      /\ depth = IF s.tx THEN 1 ELSE 0
  BY DEF SessionInv, Counted
<1>2. depth' = IF s'.tx THEN 1 ELSE 0
  BY <1>1, Zenon
<1>3. pc' \in {"idle", "begin", "openCursor", "cursor"} => ~ s'.tx
  BY DEF SessionInv, Counted
<1> QED
  BY <1>1, <1>2, <1>3 DEF Counted

\* The deadline passes.
LEMMA WatcherTimeoutInv ==
  ASSUME SessionInv, WatcherTimeout
  PROVE  SessionInv'
<1>1. /\ watcher = "waiting" /\ watcher' = "cancelling" /\ c' = c /\ pc' = pc /\ s' = s /\ op' = op
      /\ depth' = depth /\ stained' = stained
  BY DEF WatcherTimeout, histories
<1>2. Counted'
  BY <1>1, Zenon DEF SessionInv, Counted
<1>3. Inside' /\ Placed' /\ Agreed'
  BY <1>1 DEF SessionInv, Inside, Placed, Agreed
<1> QED
  BY <1>1, <1>2, <1>3 DEF SessionInv, IsConn, Known

\* The driver cancels.
LEMMA CancelledInv ==
  ASSUME SessionInv, NEW r \in DriverCancel, Cancelled(r), pc' = pc, op' = op, depth' = depth,
         stained' = stained, watcher' = "done"
  PROVE  SessionInv'
<1>1. Keep(c, r.c) /\ c' = r.c
  BY ConnectionReads DEF SessionInv, DriverCancel, Cancelled, Plain
<1> DEFINE bad == s.bad \/ r.st = "broken"
<1>2. bad \in BOOLEAN /\ s' = [s EXCEPT !.bad = bad]
  BY DEF Cancelled, SessionInv, Counted
<1> HIDE DEF bad
<1>3. DOMAIN s' = SessionFields /\ s'.tx = s.tx /\ s'.bad = bad /\ s'.failed = s.failed /\ s'.mode = s.mode
  BY <1>2 DEF SessionInv, Counted, SessionFields
<1>4. Counted'
  BY <1>2, <1>3, SessionKept
<1>5. IsConn(c') /\ Known(c') /\ c'.slot = c.slot /\ c'.cursor = c.cursor
  BY <1>1, KeepKnown DEF SessionInv, Keep, Near, Same
<1>6. Inside' /\ Placed'
  BY <1>3, <1>5 DEF SessionInv, Inside, Placed
<1>7. Agreed'
  BY <1>1, <1>3, KeepAgrees DEF SessionInv, Agreed
<1> QED
  BY <1>4, <1>5, <1>6, <1>7 DEF SessionInv, IsConn, Known

\* ODBC takes the statement out of its slot.
LEMMA WatcherTakesInv ==
  ASSUME SessionInv, WatcherTakes
  PROVE  SessionInv'
<1>1. /\ watcher = "cancelling" /\ watcher' \in {"cancelling", "done"} /\ pc' = pc /\ s' = s /\ op' = op
      /\ depth' = depth /\ stained' = stained /\ c' = [c EXCEPT !.slot = FALSE]
  BY DEF WatcherTakes, OdbcTakeStatement, histories
<1>2. /\ IsConn(c') /\ Known(c') /\ ~ c'.slot /\ c'.cursor = c.cursor
      /\ \A x : Agrees(c, x) => Agrees(c', x)
  BY <1>1, SlotOnly DEF SessionInv
<1>3. Counted'
  BY <1>1, Zenon DEF SessionInv, Counted
<1>4. Inside' /\ Placed' /\ Agreed'
  BY <1>1, <1>2 DEF SessionInv, Inside, Placed, Agreed
<1> QED
  BY <1>2, <1>3, <1>4 DEF SessionInv, IsConn, Known

\* Every step of the watcher.
LEMMA WatcherInv ==
  ASSUME SessionInv, WatcherTimeout \/ WatcherCancels \/ WatcherTakes \/ WatcherCancelsTaken
  PROVE  SessionInv'
<1>1. CASE WatcherCancels
  BY <1>1, CancelledInv DEF WatcherCancels, histories
<1>2. CASE WatcherCancelsTaken
  BY <1>2, CancelledInv DEF WatcherCancelsTaken, histories
<1> QED
  BY <1>1, <1>2, WatcherTimeoutInv, WatcherTakesInv

\* The cursor of DataSource::openCursor.
LEMMA CursorInv ==
  ASSUME SessionInv, CursorOpen \/ CursorFetch \/ CursorClose
  PROVE  SessionInv'
<1>1. /\ op' = op /\ depth' = depth /\ stained' = stained /\ watcher' = watcher
      /\ pc \in {"openCursor", "cursor"}
      /\ s' = s \/ s' = [s EXCEPT !.calls = s.calls + 1]
      /\ \E r : /\ c' = r.c
                /\ \/ /\ r \in OpenCursor(c) /\ pc = "openCursor"
                      /\ pc' = IF r.st = "ok" THEN "cursor" ELSE "release"
                   \/ r \in Fetch(c) /\ pc = "cursor" /\ pc' = pc
                   \/ r \in CloseCursor(c) /\ pc = "cursor" /\ pc' = "release"
  BY DEF CursorOpen, CursorFetch, CursorClose, histories, watching
<1>2. /\ DOMAIN s = SessionFields /\ s.bad \in BOOLEAN /\ op = "none" /\ IsConn(c) /\ ~ c.slot
      /\ watcher \notin {"waiting", "cancelling"} /\ ~ s.tx /\ s.failed \in BOOLEAN /\ stained \in BOOLEAN
  BY <1>1 DEF SessionInv, Counted, Inside, Placed, IsConn
<1>3. DOMAIN s' = SessionFields /\ s'.tx = s.tx /\ s'.bad = s.bad /\ s'.failed = s.failed /\ s'.mode = s.mode
  BY <1>1, <1>2 DEF SessionFields
<1>4. depth = 0
  BY <1>2, Zenon DEF SessionInv, Counted
<1>5. /\ Moved(c, c') /\ pc' \in {"cursor", "release"}
      /\ pc' = "cursor" => c'.cursor # "none"
      /\ pc' = "release" => c'.cursor = "none"
  <2>1. PICK r : /\ c' = r.c
                 /\ \/ /\ r \in OpenCursor(c) /\ pc = "openCursor"
                       /\ pc' = IF r.st = "ok" THEN "cursor" ELSE "release"
                    \/ r \in Fetch(c) /\ pc = "cursor" /\ pc' = pc
                    \/ r \in CloseCursor(c) /\ pc = "cursor" /\ pc' = "release"
    BY <1>1
  <2>2. CASE r \in OpenCursor(c) /\ pc = "openCursor" /\ pc' = IF r.st = "ok" THEN "cursor" ELSE "release"
    <3>1. Opened(c, r) /\ c.cursor = "none"
      BY <1>2, <2>2, OpenResult DEF SessionInv, Placed
    <3> QED
      BY <2>1, <2>2, <3>1 DEF Opened
  <2>3. CASE r \in Fetch(c) /\ pc = "cursor" /\ pc' = pc
    BY <1>2, <2>1, <2>3, FetchResult DEF SessionInv, Placed
  <2>4. CASE r \in CloseCursor(c) /\ pc = "cursor" /\ pc' = "release"
    BY <1>2, <2>1, <2>4, CloseCursorResult DEF SessionInv, Placed
  <2> QED
    BY <2>1, <2>2, <2>3, <2>4
<1>6. IsConn(c') /\ Known(c') /\ ~ c'.slot
  BY <1>2, <1>5 DEF SessionInv, Moved
<1>7. Counted'
  <2>1. s.tx = FALSE /\ op \in Ops \cup {"none"}
    BY <1>2 DEF SessionInv, Counted
  <2>2. s'.tx \in BOOLEAN /\ s'.bad \in BOOLEAN /\ s'.failed \in BOOLEAN /\ stained' \in BOOLEAN
    BY <1>1, <1>2, <1>3, <2>1
  <2>3. depth' = IF s'.tx THEN 1 ELSE 0
    BY <1>1, <1>3, <1>4, <2>1
  <2> QED
    BY <1>1, <1>3, <2>1, <2>2, <2>3 DEF Counted
<1>8. Inside' /\ Placed'
  BY <1>1, <1>2, <1>3, <1>5, <1>6 DEF Inside, Placed
<1>9. Agreed'
  BY <1>1, <1>3, <1>5, MovedAgrees DEF SessionInv, Agreed
<1> QED
  BY <1>6, <1>7, <1>8, <1>9 DEF SessionInv, IsConn, Known

-----------------------------------------------------------------------------
(* Prepared statements. *)

\* prepare has the statement when it succeeds.
LEMMA PrepareHas ==
  ASSUME NEW d, IsConn(d), InStep(d), NEW k, NEW r \in Prepare(d, k), r.st = "ok"
  PROVE  Cached(r.c, k)
<1> DEFINE i == Trimmed(Inserted(d, k))
           q == [d EXCEPT !.seq = @ + 1]
           u == PgUnreleased(d, i)
<1>1. ~ Cached(d, k) => Cached(i, k) /\ Cached(Gone(i), k) /\ Cached(u, k)
  <2> SUFFICES ASSUME ~ Cached(d, k) PROVE Cached(i, k) /\ Cached(Gone(i), k) /\ Cached(u, k)
    OBVIOUS
  <2>1. <<k, d.seq + 1>> \in i.cache /\ IsConn(i)
    BY TidyPrepared, PreparedPlain, KeepIs
  <2> HIDE DEF i
  <2>2. <<k, d.seq + 1>>[1] = k /\ Gone(i).cache = i.cache /\ u.cache = i.cache
    BY <2>1 DEF Gone, PgUnreleased, Errored, IsConn, Fields
  <2> QED
    BY <2>1, <2>2 DEF Cached
<1>2. Cached(d, k) => Cached(Touched(d, k), k)
  BY DEF Cached, Touched, IsConn, Fields
<1>3. d.kind # "postgres" =>
        \/ Cached(d, k) /\ r \in Ok(Touched(d, k))
        \/ /\ ~ Cached(d, k)
           /\ \E e \in {d, q} : r \in Refused(e) \/ r \in Sent(e, {}) \/ r \in Sent(e, Ok(i))
  <2> HIDE DEF i, q
  <2>1. CASE d.kind = "mysql"
    BY <2>1 DEF Prepare, Of, MysqlPrepare, MysqlSend, i
  <2>3. CASE d.kind = "odbc"
    <3>1. r \in OdbcPrepare(d, k)
      BY <2>3 DEF Prepare, Of
    <3>2. \A x \in OdbcNewStatement(d) : x.c = d /\ (x.st # "ok" => x \in Refused(d))
      BY DEF OdbcNewStatement, Ok, Refused, Res
    <3>3. ~ Cached(d, k) => \/ r \in OdbcNewStatement(d) /\ r.st # "ok"
                            \/ \E x \in OdbcNewStatement(d) : r \in Sent(x.c, Ok(Trimmed(Inserted(x.c, k))))
      BY <3>1 DEF OdbcPrepare, Then
    <3> QED
      BY <3>1, <3>2, <3>3 DEF OdbcPrepare, i
  <2>4. CASE d.kind = "oracle"
    BY <2>4 DEF Prepare, Of, OraPrepare, i, q
  <2> QED
    BY <2>1, <2>3, <2>4 DEF IsConn, Kinds
<1>5. CASE d.kind = "postgres"
  <2>1. r \in PgPrepare(d, k)
    BY <1>5 DEF Prepare, Of
  <2>2. (r.c = Touched(d, k) /\ Cached(d, k)) \/ (~ Cached(d, k) /\ r.c \in {i, Gone(i), u})
    BY <2>1, PgPrepareCases
  <2> HIDE DEF i, u
  <2> QED
    BY <1>1, <1>2, <2>2
<1> HIDE DEF i, q
<1>4. CASE d.kind # "postgres"
  <2>1. CASE Cached(d, k) /\ r \in Ok(Touched(d, k))
    BY <1>2, <2>1, ResFields DEF Ok
  <2>2. CASE ~ Cached(d, k) /\ \E e \in {d, q} : r \in Refused(e) \/ r \in Sent(e, {}) \/ r \in Sent(e, Ok(i))
    <3>1. r.c = i
      BY <2>2, SentCases, ResFields DEF Ok, Refused
    <3> QED
      BY <1>1, <2>2, <3>1
  <2> QED
    BY <1>3, <1>4, <2>1, <2>2
<1> QED
  BY <1>4, <1>5

\* What the rest of the proof needs of a step: the connection is kept, or it is a
\* new one.
LEMMA ReturnKept ==
  ASSUME SessionInv, ReturnOp \/ ReturnPrepare \/ ReturnExecutePrepared \/ ReturnPrepared
  PROVE  Kept(c, c') /\ made' = made /\ c'.kind = c.kind
<1>1. pc = "body" /\ op \in Ops /\ op # "none" /\ IsConn(c) /\ Known(c) /\ Agreed /\ Placed /\ s.tx \in BOOLEAN
  BY DEF ReturnOp, ReturnPrepare, ReturnExecutePrepared, ReturnPrepared, SessionInv, Counted
<1>2. \E W, r : Return(op, W, r) /\ Left(op, r)
  <2>1. CASE ReturnOp
    BY <1>1, <2>1, OutcomeLeft DEF ReturnOp
  <2>2. CASE ReturnPrepare \/ ReturnExecutePrepared \/ ReturnPrepared
    BY <2>2, ReturnPreparesLeft
  <2> QED
    BY <2>1, <2>2
<1>3. PICK W, r : Return(op, W, r) /\ Left(op, r)
  BY <1>2
<1>4. c' = [r.c EXCEPT !.slot = FALSE] /\ made' = made /\ IsConn(r.c) /\ Kept(c, r.c) /\ r.c.kind = c.kind
  BY <1>3 DEF Return, Left
<1>5. c'.kind = c.kind
  BY <1>4 DEF IsConn, Fields
<1> QED
  BY <1>4, <1>5, SlotOnly, KeptTrans

\* A new connection is borrowed.
BorrowNew(mode) ==
  /\ Borrow(mode) /\ made' = made + 1 /\ stained' = FALSE
  /\ Kept(Fresh, c') /\ c'.names = {} /\ c'.rows = {} /\ (c.kind # "oracle" => c'.stored = c.stored)
  /\ c'.kind = c.kind

\* Borrowing.
LEMMA BorrowKept ==
  ASSUME SessionInv, NEW mode \in Modes, Borrow(mode)
  PROVE  (Kept(c, c') /\ made' = made /\ stained' = stained /\ c'.kind = c.kind) \/ BorrowNew(mode)
<1>1. IsConn(c)
  BY DEF SessionInv
<1>2. CASE c' \in Reused /\ made' = made /\ stained' = stained
  <2>1. Plain(c, Ping(c)) /\ Keep(c, c)
    BY <1>1, ConnectionReads, Basics
  <2>2. Keep(c, c')
    BY <1>2, <2>1 DEF Reused, Plain
  <2> QED
    BY <1>2, <2>2 DEF Keep, Near, Same
<1>3. CASE made' = made + 1 /\ stained' = FALSE /\ \E r \in Connect(Fresh) : r.st = "ok" /\ c' = r.c
  <2>1. PICK r \in Connect(Fresh) : r.st = "ok" /\ c' = r.c
    BY <1>3
  <2>2. /\ IsConn(Fresh) /\ ~ Fresh.slot /\ Fresh.cursor = "none" /\ Fresh.auto
        /\ Fresh.kind = c.kind /\ Fresh.stored = c.stored
    BY <1>1 DEF Fresh, Closed, IsConn, Fields, CursorStates
  <2> HIDE DEF Fresh
  <2>3. /\ Kept(Fresh, c') /\ c'.names = {} /\ c'.rows = {} /\ c'.kind = c.kind
        /\ c.kind # "oracle" => c'.stored = c.stored
    BY <2>1, <2>2, ConnectResult
  <2> QED
    BY <1>3, <2>3 DEF BorrowNew
<1> QED
  BY <1>2, <1>3 DEF Borrow

\* The other actions.
LEMMA OthersKept ==
  ASSUME SessionInv,
         \/ \E o \in Ops : CallOp(o)
         \/ TxBegin \/ CallbackEnds \/ Join \/ TxFinish \/ Release
         \/ WatcherTimeout \/ WatcherCancels \/ WatcherTakes \/ WatcherCancelsTaken
         \/ CursorOpen \/ CursorFetch \/ CursorClose
  PROVE  Kept(c, c') /\ made' = made /\ held' = held /\ c'.kind = c.kind
<1>0. IsConn(c) /\ Known(c) /\ Agreed /\ s.tx \in BOOLEAN
  BY DEF SessionInv, Counted
<1>1. Kept(c, c)
  BY <1>0, KeptServer
<1>2. CASE \E o \in Ops : CallOp(o)
  <2>1. PICK o \in Ops : CallOp(o)
    BY <1>2
  <2>2. Registers(c, o) \in BOOLEAN
    BY DEF Registers
  <2>3. c' = [c EXCEPT !.slot = Registers(c, o)] /\ made' = made /\ held' = held
    BY <2>1 DEF CallOp, Start, histories
  <2>4. c'.kind = c.kind
    BY <1>0, <2>3 DEF IsConn, Fields
  <2> QED
    BY <1>0, <2>2, <2>3, <2>4, SlotOnly
<1>3. CASE TxBegin
  <2>1. PICK r \in Begin(c) : c' = r.c
    BY <1>3 DEF TxBegin
  <2>2. Left("begin", r)
    BY <1>0, BeginLeft
  <2> QED
    BY <1>3, <2>1, <2>2 DEF TxBegin, Left
<1>4. CASE CallbackEnds \/ Join \/ WatcherTimeout
  BY <1>1, <1>4 DEF CallbackEnds, Join, WatcherTimeout, histories
<1>5. CASE TxFinish
  <2>1. PICK r \in TxEnd : c' = r.c
    BY <1>5 DEF TxFinish
  <2>2. Kept(c, r.c) /\ r.c.kind = c.kind
    <3>1. CASE r \in Commit(c) \cup Rollback(c)
      BY <1>0, <3>1, EndResult DEF Fine, Same
    <3>2. CASE r \in Ok(c)
      BY <1>1, <3>2, ResFields DEF Ok
    <3> QED
      BY <3>1, <3>2 DEF TxEnd
  <2> QED
    BY <1>5, <2>1, <2>2 DEF TxFinish
<1>6. CASE Release
  <2>1. PICK r \in CleanedUp : c' = r.c \/ \E d \in Close(r.c) : c' = d
    BY <1>6 DEF Release
  <2>2. Kept(c, r.c) /\ IsConn(r.c) /\ r.c.kind = c.kind
    <3>1. CASE r \in Rollback(c)
      BY <1>0, <3>1, EndResult DEF Fine, Same
    <3>2. CASE r \in Ok(c)
      BY <1>0, <1>1, <3>2, ResFields DEF Ok
    <3> QED
      BY <3>1, <3>2 DEF CleanedUp
  <2>3. Kept(c, c') /\ c'.kind = c.kind
    BY <2>1, <2>2, CloseResult, KeptTrans
  <2> QED
    BY <1>6, <2>3 DEF Release, histories
<1>7. CASE WatcherCancels \/ WatcherCancelsTaken
  <2>1. PICK r \in DriverCancel : c' = r.c
    BY <1>7 DEF WatcherCancels, WatcherCancelsTaken, Cancelled
  <2>2. Keep(c, r.c)
    BY <1>0, ConnectionReads DEF DriverCancel, Plain
  <2> QED
    BY <1>7, <2>1, <2>2 DEF WatcherCancels, WatcherCancelsTaken, histories, Keep, Near, Same
<1>8. CASE WatcherTakes
  <2>1. c' = [c EXCEPT !.slot = FALSE] /\ made' = made /\ held' = held
    BY <1>8 DEF WatcherTakes, OdbcTakeStatement, histories
  <2>2. c'.kind = c.kind
    BY <1>0, <2>1 DEF IsConn, Fields
  <2> QED
    BY <1>0, <2>1, <2>2, SlotOnly
<1>9. CASE CursorOpen \/ CursorFetch \/ CursorClose
  <2>1. \E r : c' = r.c /\ (r \in OpenCursor(c) \/ (pc = "cursor" /\ r \in Fetch(c) \cup CloseCursor(c)))
    BY <1>9 DEF CursorOpen, CursorFetch, CursorClose
  <2>2. PICK r : c' = r.c /\ (r \in OpenCursor(c) \/ (pc = "cursor" /\ r \in Fetch(c) \cup CloseCursor(c)))
    BY <2>1
  <2>3. pc = "cursor" => c.cursor # "none"
    BY DEF SessionInv, Placed
  <2>4. Moved(c, r.c)
    BY <1>0, <2>2, <2>3, OpenResult, FetchResult, CloseCursorResult DEF Opened
  <2> QED
    BY <1>9, <2>2, <2>4 DEF Moved, CursorOpen, CursorFetch, CursorClose, histories
<1> QED
  BY <1>2, <1>3, <1>4, <1>5, <1>6, <1>7, <1>8, <1>9

\* A handle given out by this connection has a number of its own, and as long as
\* the connection knows the number it stands for the key it was prepared for.
HeldOk ==
  /\ made \in Nat
  /\ \A h \in held :
       /\ h[3] \in Nat /\ h[3] <= made
       /\ h[3] = made => /\ h[1] \in Nat /\ h[1] <= c.seq
                         /\ \A p \in c.names : p[1] = h[1] => p[2] = h[2]

PreparedInv == InStep(c) /\ HeldOk

\* What keeps the connection and gives out no handle keeps the handles.
LEMMA PreparedKept ==
  ASSUME PreparedInv, Kept(c, c'), made' = made, held' = held
  PROVE  PreparedInv'
<1>1. /\ InStep(c') /\ c.seq <= c'.seq
      /\ \A p \in c'.names : p \in c.names \/ p[1] \in (c.seq + 1)..c'.seq
  BY DEF PreparedInv, Kept, Tidy
<1>2. c.seq \in Nat /\ c'.seq \in Nat
  BY <1>1 DEF PreparedInv, InStep, Indexed, Filed
<1>3. ASSUME NEW h \in held, h[3] = made
      PROVE  h[1] \in Nat /\ h[1] <= c'.seq /\ \A p \in c'.names : p[1] = h[1] => p[2] = h[2]
  <2>1. h[1] \in Nat /\ h[1] <= c.seq /\ \A p \in c.names : p[1] = h[1] => p[2] = h[2]
    BY <1>3 DEF PreparedInv, HeldOk
  <2>2. ASSUME NEW p \in c'.names, p[1] = h[1] PROVE p[2] = h[2]
    <3>1. ~ (p[1] \in (c.seq + 1)..c'.seq)
      BY <1>2, <2>1, <2>2
    <3> QED
      BY <1>1, <2>1, <2>2, <3>1
  <2> QED
    BY <1>1, <1>2, <2>1, <2>2
<1>4. HeldOk'
  BY <1>3 DEF PreparedInv, HeldOk
<1>5. InStep(c)'
  BY <1>1 DEF InStep, Indexed, Filed, Listed, KeysOf, Served
<1> QED
  BY <1>4, <1>5 DEF PreparedInv

\* A new connection has given out no handle.
LEMMA PreparedNew ==
  ASSUME PreparedInv, NEW mode, BorrowNew(mode)
  PROVE  PreparedInv'
<1>1. /\ Fresh.cache = {} /\ Fresh.names = {} /\ Fresh.lru = <<>> /\ Fresh.stmts = {} /\ Fresh.seq = 0
  BY DEF Fresh, Closed
<1>2. Kept(Fresh, c') /\ made' = made + 1 /\ held' = held
  BY DEF BorrowNew, Borrow
<1> HIDE DEF Fresh
<1>3. InStep(Fresh)
  <2>1. Fresh.seq \in Nat
    BY <1>1
  <2> QED
    BY <1>1, <2>1, TidyEmpty
<1>4. InStep(c')
  BY <1>2, <1>3 DEF Kept, Tidy
<1>5. InStep(c)'
  BY <1>4 DEF InStep, Indexed, Filed, Listed, KeysOf, Served
<1>6. HeldOk'
  BY <1>2 DEF PreparedInv, HeldOk
<1> QED
  BY <1>5, <1>6 DEF PreparedInv

\* The handle that prepare gives out stands for its key.
LEMMA PreparedGiven ==
  ASSUME SessionInv, PreparedInv, ReturnPrepare
  PROVE  PreparedInv'
<1>1. Kept(c, c') /\ made' = made
  BY ReturnKept
<1>2. PICK k \in Keys : \E r \in Audited(Prepare(c, k)) :
        /\ Return(op, {}, r)
        /\ held' = IF r.st = "ok" THEN held \cup {<<IdOf(r.c, k), k, made>>} ELSE held
  BY DEF ReturnPrepare
<1>3. PICK r \in Audited(Prepare(c, k)) :
        /\ Return(op, {}, r)
        /\ held' = IF r.st = "ok" THEN held \cup {<<IdOf(r.c, k), k, made>>} ELSE held
  BY <1>2
<1>4. CASE r.st # "ok"
  BY <1>1, <1>3, <1>4, PreparedKept
<1>5. CASE r.st = "ok"
  <2> DEFINE h == <<IdOf(r.c, k), k, made>>
  <2>1. r \in Prepare(c, k) /\ IsConn(c)
    BY <1>3, <1>5, ResFields DEF Audited, Refused, SessionInv
  <2>2. Cached(r.c, k)
    BY <1>5, <2>1, PrepareHas DEF PreparedInv
  <2>3. IsConn(r.c)
    <3>1. Plain(c, Prepare(c, k))
      BY <2>1, ConnectionPrepared
    <3> QED
      BY <2>1, <3>1, KeepIs DEF Plain
  <2>4. c'.cache = r.c.cache
    BY <1>3, <2>3 DEF Return, IsConn, Fields
  <2>5. PICK p \in c'.cache : p[1] = k /\ p[2] = IdOf(r.c, k)
    BY <2>2, <2>4 DEF Cached, IdOf
  <2>6. InStep(c')
    BY <1>1 DEF PreparedInv, Kept, Tidy
  <2>7. h[1] = p[2] /\ h[2] = k /\ h[3] = made
    BY <2>5
  <2>8. /\ p[2] \in 1..c'.seq /\ c'.seq \in Nat
        /\ \A q \in c'.names : \E x \in c'.cache : q = <<x[2], x[1]>>
        /\ \A x \in c'.cache : x[2] = p[2] => x = p
    BY <2>6 DEF InStep, Indexed, Filed
  <2>9. ASSUME NEW q \in c'.names, q[1] = h[1] PROVE q[2] = h[2]
    <3>1. PICK x \in c'.cache : q = <<x[2], x[1]>>
      BY <2>8
    <3>2. x = p
      BY <2>7, <2>8, <2>9, <3>1
    <3> QED
      BY <2>5, <2>7, <3>1, <3>2
  <2>10. /\ h[1] \in Nat /\ h[1] <= c'.seq /\ h[3] = made'
         /\ \A q \in c'.names : q[1] = h[1] => q[2] = h[2]
    BY <1>1, <2>7, <2>8, <2>9
  <2>11. \A x \in held :
           /\ x[3] \in Nat /\ x[3] <= made
           /\ x[3] = made => /\ x[1] \in Nat /\ x[1] <= c'.seq
                             /\ \A q \in c'.names : q[1] = x[1] => q[2] = x[2]
    <3>1. /\ c.seq <= c'.seq /\ c.seq \in Nat
          /\ \A q \in c'.names : q \in c.names \/ q[1] \in (c.seq + 1)..c'.seq
      BY <1>1 DEF PreparedInv, Kept, Tidy, InStep, Indexed, Filed
    <3> SUFFICES ASSUME NEW x \in held
                 PROVE  /\ x[3] \in Nat /\ x[3] <= made
                        /\ x[3] = made => /\ x[1] \in Nat /\ x[1] <= c'.seq
                                          /\ \A q \in c'.names : q[1] = x[1] => q[2] = x[2]
      OBVIOUS
    <3>2. /\ x[3] \in Nat /\ x[3] <= made
          /\ x[3] = made => x[1] \in Nat /\ x[1] <= c.seq /\ \A q \in c.names : q[1] = x[1] => q[2] = x[2]
      BY DEF PreparedInv, HeldOk
    <3>3. ASSUME x[3] = made, NEW q \in c'.names, q[1] = x[1] PROVE q[2] = x[2]
      <4>1. ~ (q[1] \in (c.seq + 1)..c'.seq)
        BY <2>8, <3>1, <3>2, <3>3
      <4> QED
        BY <3>1, <3>2, <3>3, <4>1
    <3> QED
      BY <2>8, <3>1, <3>2, <3>3
  <2>12. held' = held \cup {h} /\ made \in Nat
    BY <1>3, <1>5 DEF PreparedInv, HeldOk
  <2> HIDE DEF h
  <2>13. HeldOk'
    BY <1>1, <2>10, <2>11, <2>12 DEF HeldOk
  <2>14. InStep(c)'
    BY <2>6 DEF InStep, Indexed, Filed, Listed, KeysOf, Served
  <2> QED
    BY <2>13, <2>14 DEF PreparedInv
<1> QED
  BY <1>4, <1>5

-----------------------------------------------------------------------------
(* What a transaction holds. *)

\* Nothing is stored before a transaction ends.
Held(d) == d.up => d.tx # "none" \/ ~ d.auto

\* e is d after work in its transaction: nothing was stored.
Work(d, e) ==
  /\ IsConn(e) /\ e.kind = d.kind /\ (e.up => d.up)
  /\ Held(d) => Held(e) /\ e.stored = d.stored

\* The work has written W: the transaction holds it too, unless the session is lost.
Wrought(d, e, W) ==
  /\ e.up => e.rows = d.rows \cup W
  /\ ~ e.up => e.rows = {} \/ (~ d.up /\ e.rows = d.rows)
Did(d, e, W) ==
  Wrought(d, e, W) /\ (~ SwallowedFail /\ e.up /\ e.tx = "aborted" => d.tx = "aborted")

\* The outcome r of an operation that writes W; and every outcome.
Does(d, r, W) == Work(d, r.c) /\ (r.st = "ok" /\ Held(d) => Did(d, r.c, W))
Ran(d, W, S) == \A r \in S : Does(d, r, W)

\* One step after the other.
LEMMA WorkTrans == ASSUME NEW d, NEW e, NEW f, Work(d, e), Work(e, f) PROVE Work(d, f)
  BY DEF Work

\* The rows of both are held.
LEMMA DidTrans ==
  ASSUME NEW d, NEW e, NEW f, NEW V, NEW W, e.up => d.up, f.up => e.up, Did(d, e, V), Did(e, f, W)
  PROVE  Did(d, f, V \cup W)
  BY DEF Did, Wrought

\* The same of outcomes: what the second writes is added.
LEMMA DoesTrans ==
  ASSUME NEW d, NEW x, NEW r, NEW V, NEW W, Does(d, x, V), x.st = "ok", Does(x.c, r, W)
  PROVE  Does(d, r, V \cup W)
<1>1. Work(d, r.c)
  BY WorkTrans DEF Does
<1>2. ASSUME r.st = "ok", Held(d) PROVE Did(d, r.c, V \cup W)
  <2>1. Did(d, x.c, V) /\ Did(x.c, r.c, W) /\ (x.c.up => d.up) /\ (r.c.up => x.c.up)
    BY <1>2 DEF Does, Work
  <2> QED
    BY <2>1, DidTrans
<1> QED
  BY <1>1, <1>2 DEF Does

\* The same when one of them writes nothing.
LEMMA DoesOne ==
  ASSUME NEW d, NEW x, NEW r, NEW V, NEW W, Does(d, x, V), x.st = "ok", Does(x.c, r, W), V = {} \/ W = {}
  PROVE  Does(d, r, IF V = {} THEN W ELSE V)
<1>1. V \cup W = IF V = {} THEN W ELSE V
  OBVIOUS
<1> QED
  BY <1>1, DoesTrans

\* What comes before has written nothing.
LEMMA DoesLast ==
  ASSUME NEW d, NEW x, NEW r, NEW W, Does(d, x, {}), x.st = "ok", Does(x.c, r, W)
  PROVE  Does(d, r, W)
  BY DoesOne

\* What comes after writes nothing.
LEMMA DoesFirst ==
  ASSUME NEW d, NEW x, NEW r, NEW W, Does(d, x, W), x.st = "ok", Does(x.c, r, {})
  PROVE  Does(d, r, W)
<1>1. W \cup {} = W
  OBVIOUS
<1> QED
  BY <1>1, DoesTrans

\* A failure has written nothing that counts.
LEMMA DoesNot == ASSUME NEW d, NEW r, NEW V, NEW W, Does(d, r, V), r.st # "ok" PROVE Does(d, r, W)
  BY DEF Does

\* After work there is a connection.
LEMMA DoesIs == ASSUME NEW d, NEW r, NEW W, Does(d, r, W) PROVE IsConn(r.c) /\ r.c.kind = d.kind
  BY DEF Does, Work

\* The server's side of the connection is as before.
Still(d, e) ==
  /\ IsConn(e) /\ e.kind = d.kind /\ e.up = d.up /\ e.tx = d.tx /\ e.auto = d.auto
  /\ e.rows = d.rows /\ e.stored = d.stored

\* That is work that writes nothing.
LEMMA StillDoes ==
  ASSUME NEW d, NEW e, Still(d, e), NEW st
  PROVE  /\ Does(d, Res(e, st), {}) /\ (st # "ok" => \A W : Does(d, Res(e, st), W))
  BY ResFields DEF Still, Does, Work, Held, Did, Wrought

\* What nothing happens to, and a statement that is only refused.
LEMMA RanNothing ==
  ASSUME NEW d, IsConn(d)
  PROVE  /\ Still(d, d) /\ Ran(d, {}, Ok(d)) /\ \A W : Ran(d, W, Refused(d))
         /\ \A x : Still(d, [d EXCEPT !.wire = x])
<1>1. Still(d, d)
  BY DEF Still
<1>2. Ran(d, {}, Ok(d))
  BY <1>1, StillDoes DEF Ran, Ok
<1>3. \A W : Ran(d, W, Refused(d))
  BY <1>1, StillDoes DEF Ran, Refused
<1>4. ASSUME NEW x PROVE Still(d, [d EXCEPT !.wire = x])
  BY DEF Still, IsConn, Fields
<1> QED
  BY <1>1, <1>2, <1>3, <1>4

\* A failed statement and a lost session store nothing.
LEMMA WorkFailed ==
  ASSUME NEW d, IsConn(d)
  PROVE  /\ Work(d, d) /\ Work(d, Errored(d)) /\ Work(d, Gone(d))
         /\ Wrought(d, Errored(d), {}) /\ \A W : Did(d, Gone(d), W)
<1>1. IsConn(Errored(d)) /\ IsConn(Gone(d))
  BY Basics, KeepIs
<1>2. /\ Errored(d).up = d.up /\ Errored(d).auto = d.auto /\ (d.tx # "none" => Errored(d).tx # "none")
      /\ Errored(d).rows = d.rows /\ Errored(d).stored = d.stored /\ Errored(d).kind = d.kind
      /\ ~ Gone(d).up /\ Gone(d).rows = {} /\ Gone(d).stored = d.stored /\ Gone(d).kind = d.kind
  BY DEF Errored, Gone, IsConn, Fields
<1> QED
  BY <1>1, <1>2 DEF Work, Held, Did, Wrought

\* A command does what it says or fails.
LEMMA RanSent ==
  ASSUME NEW d, IsConn(d), NEW W, NEW S, Ran(d, W, S)
  PROVE  Ran(d, W, Sent(d, S))
  BY SentCases, WorkFailed DEF Ran, Does

\* A statement adds its rows to the transaction when it succeeds.
LEMMA RanStatement ==
  ASSUME NEW d, IsConn(d), NEW W \in SUBSET Now
  PROVE  Ran(d, W, Statement(d, W)) /\ \A r \in Statement(d, W) : r.st = "ok" /\ Held(d) => r.c.tx = "open"
<1> SUFFICES ASSUME NEW r \in Statement(d, W)
             PROVE  Does(d, r, W) /\ (r.st = "ok" /\ Held(d) => r.c.tx = "open")
  BY DEF Ran
<1> DEFINE w == Wrote(d, W)
           G == {Res(Gone(w), LostStatus(d))}
<1>0. IsConn(w) /\ w.kind = d.kind /\ w.up = d.up
  BY WroteKept, KeepIs DEF Wrote, IsConn, Fields
<1>1. Held(d) => r \in Sent(d, {}) \/ (d.up /\ d.tx # "aborted" /\ r \in Ok(w))
  <2>1. Held(d) => (d.up => ~ (d.tx = "none" /\ d.auto))
    BY DEF Held
  <2>2. Statement(d, W) = IF d.tx = "aborted" THEN Sent(d, {})
                          ELSE Sent(d, Ok(w) \cup (IF d.tx = "none" /\ d.auto THEN G ELSE {}))
    BY DEF Statement
  <2> HIDE DEF w, G
  <2> QED
    BY <2>1, <2>2 DEF Sent
<1>2. IsConn(r.c) /\ r.c.kind = d.kind /\ (r.c.up => d.up)
  BY StatementPlain DEF Plain, Keep, Near, Same
<1>3. CASE Held(d) /\ r \in Sent(d, {})
  <2>1. r.st # "ok" /\ r.c \in {d, Errored(d), Gone(d)}
    BY <1>3, SentCases
  <2> QED
    BY <2>1, WorkFailed DEF Does
<1>4. CASE Held(d) /\ d.up /\ d.tx # "aborted" /\ r \in Ok(w)
  <2>1. r.c = w /\ r.st = "ok"
    BY <1>4, ResFields DEF Ok
  <2>2. w.tx = "open" /\ w.stored = d.stored /\ w.rows = d.rows \cup W
    BY <1>4 DEF Wrote, Held, IsConn, Fields
  <2> HIDE DEF w
  <2> QED
    BY <1>0, <1>4, <2>1, <2>2 DEF Does, Work, Held, Did, Wrought
<1>5. CASE ~ Held(d)
  BY <1>2, <1>5 DEF Does, Work
<1> QED
  BY <1>1, <1>3, <1>4, <1>5

\* Outcomes of either of two operations.
LEMMA RanBoth ==
  ASSUME NEW d, NEW W, NEW S, NEW T, Ran(d, W, S), Ran(d, W, T)
  PROVE  Ran(d, W, S \cup T)
  BY DEF Ran

\* What the operations of the MySQL driver are made of, in a transaction.
LEMMA MysqlRanParts ==
  ASSUME NEW d, IsConn(d)
  PROVE  /\ \A W, S : Ran(d, W, S) => Ran(d, W, MysqlSend(d, S))
         /\ Ran(d, {}, Sent(d, Ok(d)))
         /\ Ran(d, {}, MysqlFill(d)) /\ Ran(d, {}, MysqlDrain(d)) /\ Ran(d, {}, MysqlRows(d))
         /\ \A W \in SUBSET Now : Ran(d, W, MysqlStmtExecute(d, W))
<1>1. ASSUME NEW W, NEW S, Ran(d, W, S) PROVE Ran(d, W, MysqlSend(d, S))
  BY <1>1, RanNothing, RanSent DEF MysqlSend
<1>2. Ran(d, {}, Sent(d, Ok(d))) /\ Ran(d, {}, MysqlDrain(d))
  BY RanNothing, RanSent DEF MysqlDrain
<1>3. Ran(d, {}, MysqlFill(d))
  <2>1. Still(d, d) /\ Still(d, [d EXCEPT !.wire = TextResults])
    BY RanNothing
  <2> QED
    BY <2>1, StillDoes DEF Ran, MysqlFill
<1>4. Ran(d, {}, MysqlRows(d))
  BY <1>2, RanNothing, RanBoth DEF MysqlRows
<1>5. Ran(d, {}, MysqlPrepareAndBind(d))
  BY <1>1, RanNothing, RanBoth DEF MysqlPrepareAndBind
<1>6. ASSUME NEW W \in SUBSET Now PROVE Ran(d, W, MysqlStmtExecute(d, W))
  <2> DEFINE F(e) == Statement(e, W)
  <2>1. \A e : IsConn(e) => Ran(e, W, F(e))
    BY RanStatement
  <2> HIDE DEF F
  <2>2. Ran(d, W, Then(MysqlPrepareAndBind(d), F))
    BY <1>5, <2>1, DoesLast, DoesNot, DoesIs DEF Ran, Then
  <2> QED
    BY <2>2 DEF MysqlStmtExecute, F
<1> QED
  BY <1>1, <1>2, <1>3, <1>4, <1>6

\* The operations of the MySQL driver.
LEMMA MysqlRan ==
  ASSUME NEW d, IsConn(d), NEW W \in SUBSET Now
  PROVE  /\ Ran(d, {}, MysqlPing(d)) /\ Ran(d, {}, MysqlQuery(d)) /\ Ran(d, {}, MysqlQueryAll(d))
         /\ Ran(d, {}, MysqlQueryParams(d)) /\ Ran(d, {}, MysqlQueryEach(d))
         /\ Ran(d, W, MysqlExecute(d, W)) /\ Ran(d, W, MysqlStmtExecute(d, W))
         /\ Ran(d, {}, MysqlSavepoint(d))
<1>0. {} \in SUBSET Now
  OBVIOUS
<1>1. Ran(d, {}, MysqlPing(d))
  BY RanNothing, MysqlRanParts DEF MysqlPing
<1>2. Ran(d, {}, MysqlQuery(d))
  <2> DEFINE S == Then(Statement(d, {}), MysqlFill)
  <2>1. Ran(d, {}, S)
    BY <1>0, RanStatement, MysqlRanParts, DoesLast, DoesIs DEF Ran, Then
  <2> HIDE DEF S
  <2>2. Ran(d, {}, Then(S, MysqlDrain))
    BY <2>1, MysqlRanParts, DoesLast, DoesIs DEF Ran, Then
  <2> QED
    BY <2>2, RanNothing DEF MysqlQuery, S
<1>3. Ran(d, {}, MysqlQueryAll(d))
  <2> DEFINE F(e) == MysqlFill(e) \cup Sent(e, Ok(e))
  <2>1. \A e : IsConn(e) => Ran(e, {}, F(e))
    BY MysqlRanParts, RanBoth
  <2> HIDE DEF F
  <2>2. Ran(d, {}, Then(Statement(d, {}), F))
    BY <1>0, <2>1, RanStatement, DoesLast, DoesIs DEF Ran, Then
  <2> QED
    BY <2>2, RanNothing DEF MysqlQueryAll, F
<1>4. Ran(d, {}, MysqlQueryParams(d))
  BY <1>0, MysqlRanParts, DoesLast, DoesIs DEF Ran, Then, MysqlQueryParams
<1>5. Ran(d, {}, MysqlQueryEach(d))
  <2> DEFINE F(e) == Sent(e, Ok(e))
  <2>1. \A e : IsConn(e) => Ran(e, {}, F(e))
    BY MysqlRanParts
  <2> HIDE DEF F
  <2>2. Ran(d, {}, Then(MysqlStmtExecute(d, {}), F))
    BY <1>0, <2>1, MysqlRanParts, DoesLast, DoesIs DEF Ran, Then
  <2> QED
    BY <2>2 DEF MysqlQueryEach, F
<1>6. Ran(d, W, MysqlExecute(d, W))
  <2> DEFINE F(e) == IF W = {} THEN {Res(e, "ok"), Res([e EXCEPT !.wire = TextResults], "error")}
                     ELSE MysqlDrain(e)
  <2>1. ASSUME NEW e, IsConn(e) PROVE Ran(e, {}, F(e))
    <3>1. Still(e, e) /\ Still(e, [e EXCEPT !.wire = TextResults])
      BY <2>1, RanNothing
    <3>2. Ran(e, {}, {Res(e, "ok"), Res([e EXCEPT !.wire = TextResults], "error")})
      BY <3>1, StillDoes DEF Ran
    <3> QED
      BY <2>1, <3>2, MysqlRanParts
  <2> HIDE DEF F
  <2>2. Ran(d, W, Then(Statement(d, W), F))
    BY <2>1, RanStatement, DoesFirst, DoesIs DEF Ran, Then
  <2> QED
    BY <2>2, RanNothing DEF MysqlExecute, F
<1>7. Ran(d, {}, MysqlSavepoint(d))
  BY MysqlRanParts, RanNothing DEF MysqlSavepoint
<1> QED
  BY <1>1, <1>2, <1>3, <1>4, <1>5, <1>6, <1>7, MysqlRanParts

\* The cache of prepared statements is not the server's transaction.
LEMMA PreparedStill ==
  ASSUME NEW d, IsConn(d), NEW k
  PROVE  /\ Still(d, Touched(d, k)) /\ Still(d, Trimmed(Inserted(d, k))) /\ Still(d, [d EXCEPT !.seq = @ + 1])
<1>1. Still(d, Touched(d, k)) /\ Still(d, Inserted(d, k)) /\ Still(d, [d EXCEPT !.seq = @ + 1])
  BY DEF Still, IsConn, Fields, Touched, Inserted
<1>2. Still(d, Trimmed(Inserted(d, k)))
  <2> DEFINE i == Inserted(d, k)
  <2>1. Still(d, i)
    BY <1>1
  <2> HIDE DEF i
  <2> QED
    BY <2>1 DEF i, Still, IsConn, Fields, Trimmed, Evicted
<1> QED
  BY <1>1, <1>2

\* Prepared statements of the MySQL driver.
LEMMA MysqlRanPrepared ==
  ASSUME NEW d, IsConn(d), NEW k, NEW id, NEW W \in SUBSET Now
  PROVE  /\ Ran(d, {}, MysqlPrepare(d, k)) /\ Ran(d, {}, MysqlQueryPrepared(d, id))
         /\ Ran(d, W, MysqlExecutePrepared(d, id, W))
<1>1. Ran(d, {}, MysqlPrepare(d, k))
  <2>1. Ran(d, {}, Ok(Touched(d, k))) /\ Ran(d, {}, Ok(Trimmed(Inserted(d, k))))
    BY PreparedStill, StillDoes DEF Ran, Ok
  <2> QED
    BY <2>1, MysqlRanParts DEF MysqlPrepare
<1>2. ASSUME NEW V \in SUBSET Now PROVE Ran(d, V, MysqlRunPrepared(d, id, V))
  <2> DEFINE e == [d EXCEPT !.wire = Nothing]
  <2>1. Still(d, e) /\ Does(d, Res(e, "ok"), {}) /\ Res(e, "ok").c = e /\ Res(e, "ok").st = "ok"
    BY RanNothing, StillDoes, ResFields
  <2> HIDE DEF e
  <2>2. Ran(d, V, Statement(e, V))
    BY <2>1, RanStatement, DoesLast DEF Ran, Still
  <2> QED
    BY <2>2, RanNothing, RanBoth DEF MysqlRunPrepared, e
<1>3. ASSUME NEW e, IsConn(e) PROVE Still(e, e) /\ Still(e, [e EXCEPT !.wire = ResultsOf(id)])
  BY <1>3, RanNothing
<1>4. Ran(d, {}, MysqlQueryPrepared(d, id))
  <2> DEFINE F(e) == MysqlRows(e) \cup {Res([e EXCEPT !.wire = ResultsOf(id)], "error")}
  <2>1. ASSUME NEW e, IsConn(e) PROVE Ran(e, {}, F(e))
    <3>1. Ran(e, {}, {Res([e EXCEPT !.wire = ResultsOf(id)], "error")})
      BY <1>3, <2>1, StillDoes DEF Ran
    <3> QED
      BY <2>1, <3>1, MysqlRanParts, RanBoth
  <2> HIDE DEF F
  <2>2. Ran(d, {}, Then(MysqlRunPrepared(d, id, {}), F))
    BY <2>1, <1>2, DoesLast, DoesIs DEF Ran, Then
  <2> QED
    BY <2>2 DEF MysqlQueryPrepared, F
<1>5. Ran(d, W, MysqlExecutePrepared(d, id, W))
  <2> DEFINE F(e) == Ok(e) \cup (IF W = {} THEN Ok([e EXCEPT !.wire = ResultsOf(id)]) ELSE {})
  <2>1. ASSUME NEW e, IsConn(e) PROVE Ran(e, {}, F(e))
    <3>1. Ran(e, {}, Ok(e)) /\ Ran(e, {}, Ok([e EXCEPT !.wire = ResultsOf(id)])) /\ Ran(e, {}, {})
      BY <1>3, <2>1, StillDoes DEF Ran, Ok
    <3> QED
      BY <3>1, RanBoth
  <2> HIDE DEF F
  <2>2. Ran(d, W, Then(MysqlRunPrepared(d, id, W), F))
    BY <2>1, <1>2, DoesFirst, DoesIs DEF Ran, Then
  <2> QED
    BY <2>2 DEF MysqlExecutePrepared, F
<1> QED
  BY <1>1, <1>4, <1>5

\* What the operations of the PostgreSQL driver are made of, in a transaction.  What
\* may go wrong without anybody being told is loading the types.
LEMMA PgRanParts ==
  ASSUME NEW d, IsConn(d), NEW V \in SUBSET Now, NEW W \in SUBSET Now
  PROVE  /\ Ran(d, {}, PgLoadTypes(d)) /\ Ran(d, {}, PgFill(d))
         /\ Ran(d, {}, Then(Statement(d, {}), PgFill)) /\ Ran(d, W, Then(Statement(d, W), PgLoadTypes))
         /\ Ran(d, {}, PgStreamRows(d))
         /\ Ran(d, V \cup W, Then(PgBatchRow(d, V), LAMBDA e : PgBatchRow(e, W)))
<1>0. {} \in SUBSET Now
  OBVIOUS
<1>1. \A e : IsConn(e) => Ran(e, {}, PgLoadTypes(e))
  <2> SUFFICES ASSUME NEW e, IsConn(e) PROVE Ran(e, {}, PgLoadTypes(e))
    OBVIOUS
  <2>1. ASSUME SwallowedFail, NEW x \in Sent(e, Ok(e)) PROVE Does(e, Res(x.c, "ok"), {})
    <3>1. x.c \in {e, Errored(e), Gone(e)}
      BY <2>1, SentCases, ResFields DEF Ok
    <3>2. Did(e, e, {}) /\ Did(e, Errored(e), {}) /\ Did(e, Gone(e), {})
      BY <2>1, WorkFailed DEF Did, Wrought
    <3>3. Work(e, x.c) /\ Did(e, x.c, {})
      BY <3>1, <3>2, WorkFailed
    <3> QED
      BY <3>3, ResFields DEF Does
  <2> QED
    BY <2>1, RanNothing DEF PgLoadTypes, Ran
<1>2. \A e : IsConn(e) => Ran(e, {}, PgFill(e))
  <2> SUFFICES ASSUME NEW e, IsConn(e) PROVE Ran(e, {}, PgFill(e))
    OBVIOUS
  <2> DEFINE F(x) == Ok(x) \cup Refused(x)
  <2>1. \A x : IsConn(x) => Ran(x, {}, F(x))
    BY RanNothing, RanBoth
  <2> HIDE DEF F
  <2>2. Ran(e, {}, Then(PgLoadTypes(e), F))
    BY <1>1, <2>1, DoesLast, DoesIs DEF Ran, Then
  <2> QED
    BY <2>2 DEF PgFill, F
<1>3. \A e : IsConn(e) => Ran(e, {}, Statement(e, {})) /\ Ran(e, V, Statement(e, V)) /\ Ran(e, W, Statement(e, W))
  BY <1>0, RanStatement
<1>4. Ran(d, {}, Then(Statement(d, {}), PgFill))
  BY <1>2, <1>3, DoesLast, DoesIs DEF Ran, Then
<1>5. \A e : IsConn(e) => /\ Ran(e, V, Then(Statement(e, V), PgLoadTypes))
                          /\ Ran(e, W, Then(Statement(e, W), PgLoadTypes))
  <2> SUFFICES ASSUME NEW e, IsConn(e), NEW X \in {V, W}
               PROVE  Ran(e, X, Then(Statement(e, X), PgLoadTypes))
    OBVIOUS
  <2> QED
    BY <1>1, <1>3, DoesFirst, DoesIs DEF Ran, Then
<1>6. Ran(d, {}, PgStreamRows(d))
  <2> DEFINE F(x) == Refused(x) \cup Statement(x, {})
  <2>1. \A x : IsConn(x) => Ran(x, {}, F(x))
    BY <1>3, RanNothing, RanBoth
  <2> HIDE DEF F
  <2>2. Ran(d, {}, Then(Statement(d, {}), F))
    BY <1>3, <2>1, DoesLast, DoesIs DEF Ran, Then
  <2> QED
    BY <2>2 DEF PgStreamRows, F
<1>7. \A e : IsConn(e) => Ran(e, V, PgBatchRow(e, V)) /\ Ran(e, W, PgBatchRow(e, W))
  BY <1>5, RanNothing, RanBoth DEF PgBatchRow
<1>8. Ran(d, V \cup W, Then(PgBatchRow(d, V), LAMBDA e : PgBatchRow(e, W)))
  <2> DEFINE Z(e) == PgBatchRow(e, W)
             S == PgBatchRow(d, V)
  <2>1. Ran(d, V, S) /\ \A e : IsConn(e) => Ran(e, W, Z(e))
    BY <1>7
  <2> HIDE DEF Z, S
  <2>2. Ran(d, V \cup W, Then(S, Z))
    BY <2>1, DoesTrans, DoesNot, DoesIs DEF Ran, Then
  <2> QED
    BY <2>2 DEF Z, S
<1> QED
  BY <1>1, <1>2, <1>4, <1>5, <1>6, <1>8

\* The operations of the PostgreSQL driver in the transaction of the caller.
LEMMA PgRan ==
  ASSUME NEW d, IsConn(d), d.flag, NEW V \in SUBSET Now, NEW W \in SUBSET Now
  PROVE  /\ Ran(d, {}, PgQuery(d)) /\ Ran(d, W, PgExecute(d, W)) /\ Ran(d, W, PgExecuteKeys(d, W))
         /\ Ran(d, {}, PgQueryEach(d)) /\ Ran(d, V \cup W, PgBatch(d, V, W)) /\ Ran(d, {}, PgSavepoint(d))
         /\ \A id : Ran(d, {}, PgQueryPrepared(d, id)) /\ Ran(d, W, PgExecutePrepared(d, id, W))
<1> DEFINE Q == Then(Statement(d, {}), PgFill)
           B == Then(PgBatchRow(d, V), LAMBDA e : PgBatchRow(e, W))
           K == Then(Statement(d, W), PgLoadTypes)
<1>1. Ran(d, {}, Q) /\ Ran(d, W, K) /\ Ran(d, {}, PgStreamRows(d)) /\ Ran(d, V \cup W, B)
  BY PgRanParts
<1>2. Ran(d, W, Statement(d, W)) /\ Ran(d, {}, Statement(d, {})) /\ \A X : Ran(d, X, Refused(d))
  BY RanStatement, RanNothing
<1>3. /\ PgQuery(d) = Refused(d) \cup Q /\ PgExecute(d, W) = Refused(d) \cup Statement(d, W)
      /\ PgExecuteKeys(d, W) = Refused(d) \cup K /\ PgQueryEach(d) = Refused(d) \cup PgStreamRows(d)
      /\ PgBatch(d, V, W) = B
  BY DEF PgQuery, PgExecute, PgExecuteKeys, PgQueryEach, PgBatch, PgIn
<1>4. \A id : /\ PgQueryPrepared(d, id) \in {Q, Refused(d)}
              /\ PgExecutePrepared(d, id, W) \in {Statement(d, W), Refused(d)}
  BY DEF PgQueryPrepared, PgExecutePrepared, PgIn
<1>5. Ran(d, {}, PgSavepoint(d))
  <2> DEFINE e == [d EXCEPT !.tx = IF @ = "none" THEN @ ELSE "open"]
  <2>1. /\ IsConn(e) /\ e.kind = d.kind /\ e.up = d.up /\ e.auto = d.auto /\ e.rows = d.rows
        /\ e.stored = d.stored /\ (d.tx # "none" => e.tx # "none") /\ e.tx # "aborted"
    BY DEF IsConn, Fields
  <2> HIDE DEF e
  <2>2. Ran(d, {}, Ok(e))
    BY <2>1, ResFields DEF Ran, Does, Ok, Work, Held, Did, Wrought
  <2>3. Ran(d, {}, Sent(d, Ok(e)))
    BY <2>2, RanSent
  <2> QED
    BY <1>2, <2>3, RanBoth DEF PgSavepoint, e
<1> HIDE DEF Q, B, K
<1> QED
  BY <1>1, <1>2, <1>3, <1>4, <1>5, RanBoth

\* Preparing: a failure too leaves the rows as they are.
LEMMA PgRanPrepare ==
  ASSUME NEW d, IsConn(d), NEW k, NEW r \in PgPrepare(d, k)
  PROVE  Does(d, r, {}) /\ Wrought(d, r.c, {})
<1> DEFINE i == Trimmed(Inserted(d, k))
           q == [d EXCEPT !.seq = @ + 1]
           t == Touched(d, k)
           l == [i EXCEPT !.stmts = @ \cup d.stmts]
<1>1. Still(d, i) /\ Still(d, q) /\ Still(d, t) /\ Still(d, d)
  BY PreparedStill, RanNothing
<1>2. Still(d, l)
  <2> HIDE DEF i
  <2> QED
    BY <1>1 DEF Still, IsConn, Fields
<1>3. \/ r.c \in {t, d, q, i, Gone(i)} \/ (r.st # "ok" /\ r.c \in {Errored(q), Gone(q)})
      \/ SwallowedFail /\ r.c = Errored(l)
  BY PgPrepareCases DEF PgUnreleased
<1> HIDE DEF i, q, t, l
<1>4. ASSUME NEW e, Still(d, e), r.c = e PROVE Does(d, r, {}) /\ Wrought(d, r.c, {})
  BY <1>4 DEF Still, Does, Work, Held, Did, Wrought
<1>5. ASSUME NEW e, Still(d, e),
             r.c = Gone(e) \/ ((r.st # "ok" \/ SwallowedFail) /\ r.c = Errored(e))
      PROVE  Does(d, r, {}) /\ Wrought(d, r.c, {})
  <2>1. /\ Work(e, Gone(e)) /\ Work(e, Errored(e)) /\ Wrought(e, Errored(e), {}) /\ Did(e, Gone(e), {})
    BY <1>5, WorkFailed DEF Still
  <2> QED
    BY <1>5, <2>1 DEF Still, Does, Work, Held, Did, Wrought
<1> QED
  BY <1>1, <1>2, <1>3, <1>4, <1>5

\* A query or a statement that has succeeded has not run in a transaction that had
\* failed.
LEMMA PgAlive ==
  ASSUME NEW d, IsConn(d), d.flag, Held(d), ~ SwallowedFail, NEW W \in SUBSET Now,
         NEW r \in PgQuery(d) \cup PgExecute(d, W) \cup PgExecuteKeys(d, W), r.st = "ok"
  PROVE  r.c.tx = "open"
<1>1. \A X \in {{}, W} : \A x \in Statement(d, X) : x.st = "ok" => x.c.tx = "open"
  BY RanStatement
<1> DEFINE F(x) == Ok(x) \cup Refused(x)
           Q == Then(Statement(d, {}), PgFill)
           K == Then(Statement(d, W), PgLoadTypes)
<1>2. PgQuery(d) = Refused(d) \cup Q /\ PgExecute(d, W) = Refused(d) \cup Statement(d, W)
      /\ PgExecuteKeys(d, W) = Refused(d) \cup K
  BY DEF PgQuery, PgExecute, PgExecuteKeys, PgIn
<1>3. \A x : PgLoadTypes(x) = Ok(x)
  BY DEF PgLoadTypes
<1>4. \A x, y : y \in PgFill(x) => y.c = x
  BY <1>3, ResFields DEF PgFill, Then, Ok, Refused
<1>5. \A x, y : y \in PgLoadTypes(x) => y.c = x
  BY <1>3, ResFields DEF Ok
<1>6. \A x \in Refused(d) : x.st # "ok"
  BY ResFields DEF Refused
<1>7. CASE r \in Q
  BY <1>1, <1>4, <1>7 DEF Then
<1>8. CASE r \in K
  BY <1>1, <1>5, <1>8 DEF Then
<1> HIDE DEF Q, K
<1> QED
  BY <1>1, <1>2, <1>6, <1>7, <1>8

\* A row of a batch with MySQL and Oracle, and two of them.
LEMMA KeysRan ==
  ASSUME NEW d, IsConn(d), d.kind \in {"mysql", "oracle"}, NEW W \in SUBSET Now, W # {}
  PROVE  Ran(d, W, ExecuteKeys(d, W))
<1>1. CASE d.kind = "mysql"
  BY <1>1, MysqlRan DEF ExecuteKeys, Of, MysqlExecuteKeys
<1>2. CASE d.kind = "oracle"
  <2> DEFINE G(e) == OraSend(e, W)
             H(e) == IF W = {} THEN OraRows(e) ELSE Ok(e)
             B == Then(OraBind(d), G)
  <2>1. ExecuteKeys(d, W) = Then(B, H)
    BY <1>2 DEF ExecuteKeys, Of, OraExecuteKeys, OraRun
  <2>2. \A e : IsConn(e) => Ran(e, W, G(e)) /\ Ran(e, {}, H(e))
    BY RanStatement, RanNothing DEF OraSend
  <2>3. Ran(d, {}, OraBind(d))
    BY RanNothing, RanSent, RanBoth DEF OraBind
  <2> HIDE DEF G, H
  <2>4. Ran(d, W, B)
    BY <2>2, <2>3, DoesLast, DoesNot, DoesIs DEF Ran, Then
  <2> HIDE DEF B
  <2> QED
    BY <2>1, <2>2, <2>4, DoesFirst, DoesIs DEF Ran, Then
<1> QED
  BY <1>1, <1>2

\* Both rows are held when both have succeeded.
LEMMA RowsRan ==
  ASSUME NEW d, IsConn(d), d.kind \in {"mysql", "oracle"},
         NEW V \in SUBSET Now, V # {}, NEW W \in SUBSET Now, W # {}
  PROVE  Ran(d, V \cup W, Then(ExecuteKeys(d, V), LAMBDA e : ExecuteKeys(e, W)))
<1> DEFINE Z(e) == ExecuteKeys(e, W)
           S == ExecuteKeys(d, V)
<1>1. Ran(d, V, S) /\ \A e : IsConn(e) /\ e.kind = d.kind => Ran(e, W, Z(e))
  BY KeysRan
<1> HIDE DEF Z, S
<1>2. Ran(d, V \cup W, Then(S, Z))
  BY <1>1, DoesTrans, DoesNot, DoesIs DEF Ran, Then
<1> QED
  BY <1>2 DEF Z, S

\* What COMMIT and ROLLBACK store.
Stores(d, r) ==
  /\ r.c.stored = d.stored \/ (d.up /\ d.tx # "aborted" /\ r.c.stored = d.stored \cup d.rows)
  /\ r.st = "ok" /\ d.tx # "aborted" => r.c.stored = d.stored \cup d.rows
  /\ r.st = "ok" => d.up /\ r.c.tx = "none"

\* The server stores the rows of the transaction, or none.
LEMMA ServerStores ==
  ASSUME NEW d, IsConn(d)
  PROVE  /\ \A r \in ServerRollback(d) : IsConn(r.c) /\ r.c.stored = d.stored
         /\ \A r \in ServerCommit(d) : IsConn(r.c) /\ Stores(d, r)
<1>0. \A r \in ServerCommit(d) \cup ServerRollback(d) : IsConn(r.c) /\ (r.st = "ok" => r.c.tx = "none")
  BY ServerEnds, KeepIs
<1> DEFINE u == Undone(d)
           m == Committed(d)
           g == Gone(m)
<1>1. /\ u.stored = d.stored /\ m.stored = d.stored \cup d.rows /\ g.stored = d.stored \cup d.rows
      /\ Errored(d).stored = d.stored /\ Gone(d).stored = d.stored
  BY DEF Undone, Committed, Gone, Errored, IsConn, Fields
<1>2. LostStatus(d) # "ok"
  BY LostIsFailure
<1>3. /\ ServerRollback(d) = Sent(d, Ok(u))
      /\ ServerCommit(d) = IF d.tx = "aborted" THEN Sent(d, {Res(u, "ok"), Res(u, "error")})
                           ELSE Sent(d, {Res(m, "ok"), Res(u, "error"), Res(g, LostStatus(d))})
  BY DEF ServerRollback, ServerCommit
<1> HIDE DEF u, m, g
<1>4. \A r \in ServerRollback(d) : r.c.stored = d.stored
  BY <1>1, <1>3, SentCases, ResFields DEF Ok
<1>5. ASSUME NEW r \in ServerCommit(d) PROVE Stores(d, r)
  <2>1. CASE ~ d.up
    <3>1. r.c = d /\ r.st # "ok"
      BY <1>2, <1>3, <2>1, ResFields DEF Sent
    <3> QED
      BY <3>1 DEF Stores
  <2>2. CASE d.up
    <3>1. CASE d.tx = "aborted"
      <4>1. r.c.stored = d.stored
        BY <1>1, <1>3, <3>1, SentCases, ResFields
      <4> QED
        BY <1>0, <2>2, <3>1, <4>1 DEF Stores
    <3>2. CASE d.tx # "aborted"
      <4>1. r \in {Res(m, "ok"), Res(u, "error"), Res(g, LostStatus(d))}
            \/ (r.st # "ok" /\ r.c \in {d, Errored(d), Gone(d)})
        BY <1>3, <3>2, SentCases
      <4>2. \/ r.c.stored = d.stored /\ r.st # "ok"
            \/ r.c.stored = d.stored \cup d.rows
        BY <1>1, <4>1, ResFields
      <4> QED
        BY <1>0, <2>2, <3>2, <4>2 DEF Stores
    <3> QED
      BY <3>1, <3>2
  <2> QED
    BY <2>1, <2>2
<1> QED
  BY <1>0, <1>4, <1>5

\* commit and rollback of every driver but ODBC do what the server does.
LEMMA EndStores ==
  ASSUME NEW d, IsConn(d), d.kind # "odbc"
  PROVE  /\ \A r \in Rollback(d) : r.c.stored = d.stored
         /\ \A r \in Commit(d) : Stores(d, r)
<1>1. /\ \A r \in ServerRollback(d) : IsConn(r.c) /\ r.c.stored = d.stored
      /\ \A r \in ServerCommit(d) : IsConn(r.c) /\ Stores(d, r)
  BY ServerStores
<1>2. \A e : IsConn(e) => /\ Unflagged(e).stored = e.stored /\ Unflagged(e).tx = e.tx
                          /\ Undone(e).stored = e.stored /\ IsConn(Undone(e))
  BY Basics, KeepIs DEF Unflagged, Undone, IsConn, Fields
<1> DEFINE End(T, r) ==
             \/ r.st # "ok" /\ r.c = d
             \/ \E x \in T : /\ r.st = x.st
                             /\ r.c \in {x.c, Unflagged(x.c)} \/ (x.st # "ok" /\ r.c = Unflagged(Undone(x.c)))
<1>3. /\ \A r \in Rollback(d) : End(ServerRollback(d), r)
      /\ \A r \in Commit(d) : End(ServerCommit(d), r)
  <2>1. CASE d.kind = "mysql"
    <3> DEFINE F(e) == Ok(Unflagged(e))
    <3>1. \A T : MysqlEnd(d, T) = IF d.wire # Nothing THEN Refused(d) ELSE Then(T, F)
      BY DEF MysqlEnd, Unflagged
    <3>2. \A T : \A r \in MysqlEnd(d, T) : End(T, r)
      BY <3>1 DEF Then, Refused, Ok, Res
    <3> QED
      BY <2>1, <3>2 DEF Commit, Rollback, Of, MysqlCommit, MysqlRollback
  <2>2. CASE d.kind = "postgres"
    <3>1. \A T : PgEnd(d, T) = IF ~ d.flag THEN Refused(d)
                 ELSE {Res(IF x.st = "ok" THEN Unflagged(x.c) ELSE Unflagged(Undone(x.c)), x.st) : x \in T}
      BY DEF PgEnd, Unflagged
    <3>2. \A T : \A r \in PgEnd(d, T) : End(T, r)
      BY <3>1 DEF Refused, Res
    <3> QED
      BY <2>2, <3>2 DEF Commit, Rollback, Of, PgCommit, PgRollback
  <2>3. CASE d.kind = "oracle"
    <3>1. \A T : OraEnd(T) = {Res(Unflagged(x.c), x.st) : x \in T}
      BY DEF OraEnd, Unflagged
    <3>2. \A T : \A r \in OraEnd(T) : End(T, r)
      BY <3>1 DEF Res
    <3> QED
      BY <2>3, <3>2 DEF Commit, Rollback, Of, OraCommit, OraRollback
  <2> QED
    BY <2>1, <2>2, <2>3 DEF IsConn, Kinds
<1>4. \A r \in Rollback(d) : r.c.stored = d.stored
  BY <1>1, <1>2, <1>3
<1>5. ASSUME NEW r \in Commit(d) PROVE Stores(d, r)
  <2>1. CASE r.st # "ok" /\ r.c = d
    BY <2>1 DEF Stores
  <2>2. CASE \E x \in ServerCommit(d) :
               /\ r.st = x.st
               /\ r.c \in {x.c, Unflagged(x.c)} \/ (x.st # "ok" /\ r.c = Unflagged(Undone(x.c)))
    <3>1. PICK x \in ServerCommit(d) :
               /\ r.st = x.st
               /\ r.c \in {x.c, Unflagged(x.c)} \/ (x.st # "ok" /\ r.c = Unflagged(Undone(x.c)))
      BY <2>2
    <3>2. Stores(d, x) /\ IsConn(x.c)
      BY <1>1
    <3>3. r.c.stored = x.c.stored /\ (r.st = "ok" => r.c.tx = x.c.tx)
      BY <1>2, <3>1, <3>2
    <3> QED
      BY <3>1, <3>2, <3>3 DEF Stores
  <2> QED
    BY <1>3, <2>1, <2>2
<1> QED
  BY <1>4, <1>5

\* begin stores nothing, and nothing is stored after it before the end.
LEMMA BeginWork ==
  ASSUME NEW d, IsConn(d), d.kind # "odbc", NEW r \in Begin(d)
  PROVE  /\ IsConn(r.c) /\ r.c.kind = d.kind /\ r.c.stored = d.stored
         /\ r.st = "ok" => /\ Held(r.c) /\ r.c.rows = d.rows
                           /\ d.kind # "oracle" => r.c.up /\ r.c.flag /\ r.c.tx = "open" /\ ~ d.flag
<1>1. IsConn(r.c) /\ r.c.kind = d.kind
  BY BeginResult DEF Began, Keep, Near, Same
<1> DEFINE b == [d EXCEPT !.tx = "open", !.flag = TRUE]
           o == [d EXCEPT !.flag = TRUE, !.tx = "open"]
           f == [d EXCEPT !.flag = TRUE]
<1>2. /\ b.stored = d.stored /\ b.rows = d.rows /\ b.flag /\ b.tx = "open" /\ b.up = d.up
      /\ f.stored = d.stored /\ f.rows = d.rows /\ f.up = d.up /\ f.auto = d.auto /\ o = b
      /\ Errored(d).stored = d.stored /\ Gone(d).stored = d.stored
  BY DEF Errored, Gone, IsConn, Fields
<1>3. CASE d.kind # "oracle"
  <2>1. Begin(d) \subseteq Refused(d) \cup Sent(d, {}) \cup (IF d.flag \/ ~ d.up THEN {} ELSE Sent(d, Ok(b)))
    BY <1>3 DEF Begin, Of, MysqlBegin, PgBegin, PgBusy, MysqlSend, Ok, Sent, IsConn, Kinds
  <2> HIDE DEF b, o, f
  <2>2. IF r.st = "ok" THEN ~ d.flag /\ d.up /\ r.c = b ELSE r.c \in {d, Errored(d), Gone(d)}
    BY <2>1, SentCases, ResFields DEF Refused, Ok
  <2> QED
    BY <1>1, <1>2, <1>3, <2>2 DEF Held
<1>4. CASE d.kind = "oracle"
  <2>1. Begin(d) = {Res(f, "ok")} \cup Sent(d, {Res(o, "ok")}) \cup Refused(d)
    BY <1>4 DEF Begin, Of, OraBegin
  <2> HIDE DEF b, o, f
  <2>2. IF r.st = "ok" THEN r.c \in {f, o} ELSE r.c \in {d, Errored(d), Gone(d)}
    BY <2>1, SentCases, ResFields DEF Refused
  <2> QED
    BY <1>1, <1>2, <1>4, <2>2 DEF Held, IsConn
<1> QED
  BY <1>3, <1>4

-----------------------------------------------------------------------------
(* Batches. *)

\* All rows of the operation are stored or none, and when it has succeeded the
\* transaction holds all of them or none.
AllOrNone(r) == Whole(Now, r.c.stored) /\ (r.st = "ok" => Whole(Now, r.c.rows))

\* Nothing of the operation is there yet.
Unwritten(d) == Now \cap d.stored = {} /\ Now \cap d.rows = {}

\* Work that wrote all the rows, or failed.
LEMMA RanWhole ==
  ASSUME NEW d, Unwritten(d), Held(d), NEW r, Does(d, r, Now)
  PROVE  AllOrNone(r) /\ Now \cap r.c.stored = {}
         /\ (r.st = "ok" /\ r.c.up => Now \subseteq r.c.rows)
  BY DEF AllOrNone, Whole, Unwritten, Does, Work, Did, Wrought

\* Work in a transaction of its own, S, and the end of it.
LEMMA OwnWhole ==
  ASSUME NEW d, IsConn(d), d.kind # "odbc", Unwritten(d), Held(d), NEW S, Ran(d, Now, S), NEW r,
         \/ r.st # "ok" /\ \E u \in S : \E z \in Rollback(u.c) : r.c = z.c
         \/ \E u \in S : u.st = "ok" /\ r \in Commit(u.c)
  PROVE  Whole(Now, r.c.stored) /\ (r.st = "ok" => r.c.tx = "none")
<1>1. \A u \in S : /\ IsConn(u.c) /\ u.c.kind # "odbc" /\ Now \cap u.c.stored = {}
                   /\ u.st = "ok" /\ u.c.up => Now \subseteq u.c.rows
  BY RanWhole, DoesIs DEF Ran
<1>2. CASE r.st # "ok" /\ \E u \in S : \E z \in Rollback(u.c) : r.c = z.c
  BY <1>1, <1>2, EndStores DEF Whole
<1>3. CASE \E u \in S : u.st = "ok" /\ r \in Commit(u.c)
  <2>1. PICK u \in S : u.st = "ok" /\ r \in Commit(u.c)
    BY <1>3
  <2>2. Stores(u.c, r)
    BY <1>1, <2>1, EndStores
  <2> QED
    BY <1>1, <2>1, <2>2 DEF Stores, Whole
<1> QED
  BY <1>2, <1>3

\* executeBatch of the base class.
LEMMA DefaultBatchWhole ==
  ASSUME NEW d, IsConn(d), d.kind \in {"mysql", "oracle"}, Unwritten(d), d.flag => Held(d),
         NEW V \in SUBSET Now, V # {}, NEW W \in SUBSET Now, W # {}, V \cup W = Now,
         NEW r \in DefaultBatch(d, V, W)
  PROVE  AllOrNone(r)
<1> DEFINE run(e) == Then(ExecuteKeys(e, V), LAMBDA x : ExecuteKeys(x, W))
           all(e) == OnFailure(run(e), Rollback)
           F(e) == Then(all(e), Commit)
<1>1. DefaultBatch(d, V, W) = IF ~ d.flag THEN Then(Begin(d), F) ELSE run(d)
  BY DEF DefaultBatch
<1>2. \A e : IsConn(e) /\ e.kind = d.kind => Ran(e, Now, run(e))
  BY RowsRan
<1>3. IsConn(r.c)
  BY DefaultBatchResult DEF Fine, Same
<1> HIDE DEF run
<1>4. CASE d.flag
  BY <1>1, <1>2, <1>4, RanWhole DEF Ran
<1>5. CASE ~ d.flag
  <2>1. ASSUME NEW e, NEW x \in F(e)
        PROVE  \/ x.st # "ok" /\ \E u \in run(e) : \E z \in Rollback(u.c) : x.c = z.c
               \/ \E u \in run(e) : u.st = "ok" /\ x \in Commit(u.c)
    <3>1. ASSUME NEW y \in all(e)
          PROVE  \/ y \in run(e) /\ y.st = "ok"
                 \/ y.st # "ok" /\ \E u \in run(e) : \E z \in Rollback(u.c) : y.c = z.c
      BY <3>1, ResFields DEF OnFailure
    <3> HIDE DEF all
    <3>2. (x \in all(e) /\ x.st # "ok") \/ \E y \in all(e) : y.st = "ok" /\ x \in Commit(y.c)
      BY <2>1 DEF Then
    <3> QED
      BY <3>1, <3>2
  <2> HIDE DEF F
  <2>2. (r \in Begin(d) /\ r.st # "ok") \/ \E y \in Begin(d) : y.st = "ok" /\ r \in F(y.c)
    BY <1>1, <1>5 DEF Then
  <2>3. CASE r \in Begin(d) /\ r.st # "ok"
    BY <2>3, BeginWork DEF AllOrNone, Unwritten, Whole
  <2>4. CASE \E y \in Begin(d) : y.st = "ok" /\ r \in F(y.c)
    <3>1. PICK y \in Begin(d) : y.st = "ok" /\ r \in F(y.c)
      BY <2>4
    <3>2. IsConn(y.c) /\ y.c.kind = d.kind /\ Unwritten(y.c) /\ Held(y.c)
      BY <3>1, BeginWork DEF Unwritten
    <3>3. Ran(y.c, Now, run(y.c))
      BY <1>2, <3>2
    <3>4. Whole(Now, r.c.stored) /\ (r.st = "ok" => r.c.tx = "none")
      <4> DEFINE S == run(y.c)
      <4>1. \/ r.st # "ok" /\ \E u \in S : \E z \in Rollback(u.c) : r.c = z.c
            \/ \E u \in S : u.st = "ok" /\ r \in Commit(u.c)
        BY <2>1, <3>1
      <4>2. Ran(y.c, Now, S)
        BY <3>3
      <4> HIDE DEF S
      <4> QED
        BY <3>2, <4>1, <4>2, OwnWhole
    <3> QED
      BY <1>3, <3>4 DEF AllOrNone, Whole, IsConn
  <2> QED
    BY <2>2, <2>3, <2>4
<1> QED
  BY <1>4, <1>5

\* The array interface of Oracle.
LEMMA OraBatchWhole ==
  ASSUME NEW d, IsConn(d), d.kind = "oracle", Unwritten(d), NEW r \in OraBatch(d, Now)
  PROVE  AllOrNone(r)
<1> DEFINE part(e, V) == {Res(x.c, "error") : x \in Statement(e, V)}
           run(e) == Statement(e, Now) \cup UNION {part(e, V) : V \in SUBSET Now}
           f == [d EXCEPT !.flag = TRUE]
<1>1. OraBatch(d, Now) = IF ~ d.flag THEN Then(OnFailure(run(f), OraRollback), OraCommit) ELSE run(d)
  BY DEF OraBatch
<1>2. ASSUME NEW e, IsConn(e) PROVE Ran(e, Now, run(e))
  <2>1. Ran(e, Now, Statement(e, Now))
    BY <1>2, RanStatement
  <2>2. ASSUME NEW V \in SUBSET Now, NEW x \in part(e, V) PROVE Does(e, x, Now)
    <3>1. PICK y \in Statement(e, V) : x = Res(y.c, "error")
      BY <2>2
    <3>2. Does(e, y, V)
      BY <1>2, RanStatement DEF Ran
    <3> QED
      BY <3>1, <3>2, ResFields DEF Does
  <2> HIDE DEF part
  <2> QED
    BY <2>1, <2>2 DEF Ran
<1>3. \A e : IsConn(e) /\ e.kind = "oracle" => Held(e)
  BY DEF IsConn, Held
<1>4. IsConn(f) /\ f.kind = "oracle" /\ Unwritten(f)
  BY DEF IsConn, Fields, Unwritten
<1>5. IsConn(r.c)
  BY OraChanges DEF Plain, Keep, Near, Same
<1> HIDE DEF run, f
<1>6. CASE d.flag
  BY <1>1, <1>2, <1>3, <1>6, RanWhole DEF Ran
<1>7. CASE ~ d.flag
  <2> DEFINE S == run(f)
             A == OnFailure(S, OraRollback)
  <2>1. Ran(f, Now, S)
    BY <1>2, <1>4
  <2>2. r \in Then(A, OraCommit)
    BY <1>1, <1>7
  <2>3. \A u \in S : Rollback(u.c) = OraRollback(u.c) /\ Commit(u.c) = OraCommit(u.c)
    BY <1>4, <2>1, DoesIs DEF Ran, Rollback, Commit, Of
  <2> HIDE DEF S
  <2>4. ASSUME NEW y \in A
        PROVE  \/ y \in S /\ y.st = "ok"
               \/ y.st # "ok" /\ \E u \in S : \E z \in Rollback(u.c) : y.c = z.c
    BY <2>3, <2>4, ResFields DEF OnFailure
  <2> HIDE DEF A
  <2>5. \/ r.st # "ok" /\ \E u \in S : \E z \in Rollback(u.c) : r.c = z.c
        \/ \E u \in S : u.st = "ok" /\ r \in Commit(u.c)
    BY <2>2, <2>3, <2>4 DEF Then
  <2>6. Whole(Now, r.c.stored) /\ (r.st = "ok" => r.c.tx = "none")
    BY <1>3, <1>4, <2>1, <2>5, OwnWhole
  <2> QED
    BY <1>5, <2>6 DEF AllOrNone, Whole, IsConn
<1> QED
  BY <1>6, <1>7

\* The batch of PostgreSQL.
LEMMA PgBatchWhole ==
  ASSUME NEW d, IsConn(d), d.kind = "postgres", Unwritten(d), d.flag => Held(d),
         NEW V \in SUBSET Now, NEW W \in SUBSET Now, V \cup W = Now, NEW r \in PgBatch(d, V, W)
  PROVE  AllOrNone(r)
<1> DEFINE B(e) == Then(PgBatchRow(e, V), LAMBDA x : PgBatchRow(x, W))
           o == [d EXCEPT !.tx = "open"]
           O == Sent(d, Ok(o))
<1>1. PgBatch(d, V, W) = IF d.flag THEN B(d) ELSE IF PgBusy(d) THEN Refused(d)
                         ELSE {Res(Undone(x.c), x.st) : x \in Then(Then(O, B), ServerCommit)}
  BY DEF PgBatch, PgIn
<1>2. \A e : IsConn(e) => Ran(e, Now, B(e))
  BY PgRanParts
<1>3. IsConn(o) /\ Held(o) /\ Unwritten(o)
  BY DEF IsConn, Fields, Held, Unwritten
<1> HIDE DEF B, o
<1>4. CASE d.flag
  BY <1>1, <1>2, <1>4, RanWhole DEF Ran
<1>5. CASE ~ d.flag /\ PgBusy(d)
  BY <1>1, <1>5, ResFields DEF Refused, AllOrNone, Unwritten, Whole
<1>6. CASE ~ d.flag /\ ~ PgBusy(d)
  <2> DEFINE T == Then(O, B)
  <2>1. PICK x \in Then(T, ServerCommit) : r = Res(Undone(x.c), x.st)
    BY <1>1, <1>6
  <2>2. \A y \in O : (y.st = "ok" /\ y.c = o) \/ (y.st # "ok" /\ y.c \in {d, Errored(d), Gone(d)})
    BY SentCases, ResFields DEF Ok
  <2>3. \A y \in {d, Errored(d), Gone(d)} : IsConn(y) /\ y.stored = d.stored
    <3>1. Errored(d).stored = d.stored /\ Gone(d).stored = d.stored
      BY DEF Errored, Gone, IsConn, Fields
    <3>2. IsConn(Errored(d)) /\ IsConn(Gone(d))
      BY Basics, KeepIs
    <3> QED
      BY <3>1, <3>2
  <2> HIDE DEF O
  <2>4. \A y \in T : /\ IsConn(y.c) /\ Now \cap y.c.stored = {}
                     /\ y.st = "ok" /\ y.c.up => Now \subseteq y.c.rows
    <3>1. \A y \in T : (y.st # "ok" /\ y.c \in {d, Errored(d), Gone(d)}) \/ y \in B(o)
      BY <2>2 DEF Then
    <3>2. \A y \in B(o) : /\ IsConn(y.c) /\ Now \cap y.c.stored = {}
                          /\ y.st = "ok" /\ y.c.up => Now \subseteq y.c.rows
      BY <1>2, <1>3, RanWhole, DoesIs DEF Ran
    <3> QED
      BY <2>3, <3>1, <3>2 DEF Unwritten
  <2> HIDE DEF T
  <2>5. IsConn(x.c) /\ Whole(Now, x.c.stored)
    <3>1. (x \in T /\ x.st # "ok") \/ \E y \in T : y.st = "ok" /\ x \in ServerCommit(y.c)
      BY <2>1 DEF Then
    <3>2. CASE x \in T /\ x.st # "ok"
      BY <2>4, <3>2 DEF Whole
    <3>3. CASE \E y \in T : y.st = "ok" /\ x \in ServerCommit(y.c)
      <4>1. PICK y \in T : y.st = "ok" /\ x \in ServerCommit(y.c)
        BY <3>3
      <4>2. IsConn(x.c) /\ Stores(y.c, x)
        BY <2>4, <4>1, ServerStores
      <4> QED
        BY <2>4, <4>1, <4>2 DEF Stores, Whole
    <3> QED
      BY <3>1, <3>2, <3>3
  <2>6. r.c = Undone(x.c) /\ r.c.stored = x.c.stored /\ r.c.rows = {}
    <3>1. r.c = Undone(x.c)
      BY <2>1, ResFields
    <3>2. Undone(x.c).stored = x.c.stored /\ Undone(x.c).rows = {}
      BY <2>5 DEF Undone, IsConn, Fields
    <3> QED
      BY <3>1, <3>2
  <2> QED
    BY <2>5, <2>6 DEF AllOrNone, Whole
<1> QED
  BY <1>4, <1>5, <1>6

\* executeBatch, with every driver but ODBC.
LEMMA BatchWhole ==
  ASSUME NEW d, IsConn(d), d.kind # "odbc", Unwritten(d), d.flag => Held(d),
         NEW V \in SUBSET Now, V # {}, NEW W \in SUBSET Now, W # {}, V \cup W = Now, NEW r \in Batch(d, V, W)
  PROVE  AllOrNone(r)
<1>1. \/ d.kind \in {"mysql", "oracle"} /\ r \in DefaultBatch(d, V, W)
      \/ d.kind = "postgres" /\ r \in PgBatch(d, V, W)
      \/ d.kind = "oracle" /\ r \in OraBatch(d, Now)
  BY DEF Batch, Of, IsConn, Kinds
<1> QED
  BY <1>1, DefaultBatchWhole, PgBatchWhole, OraBatchWhole

\* The rows of the calls that have returned, of this session and of earlier ones.
Writing == op \notin {"none", "closeCursor"}
Old(x) ==
  /\ x[1] \in Nat /\ x[2] \in Nat
  /\ \/ x[1] < s.n
     \/ x[1] = s.n /\ (pc = "idle" \/ x[2] <= IF Writing THEN s.calls - 1 ELSE s.calls)

\* All rows are old, and no batch is split, neither where it is stored nor where it
\* waits for the end of a transaction.
RowInv ==
  /\ s.n \in Nat /\ s.calls \in Nat /\ (Writing => s.calls > 0)
  /\ \A x \in c.stored \cup c.rows \cup UNION batches : Old(x)
  /\ c.kind # "odbc" => \A b \in batches : Wholly(b, c)

\* The rows of the operation in progress are not there yet.
LEMMA NowNew ==
  ASSUME SessionInv, RowInv
  PROVE  Unwritten(c) /\ \A b \in batches : b \cap Now = {}
<1>1. ASSUME NEW x \in Now PROVE ~ Old(x)
  <2>1. Writing /\ x \in {Row(1), Row(2)}
    BY <1>1 DEF Now, Writing
  <2>2. pc = "body" /\ x[1] = s.n /\ x[2] = s.calls
    BY <2>1 DEF SessionInv, Inside, Writing, Row
  <2> QED
    BY <2>1, <2>2 DEF Old, RowInv
<1> QED
  BY <1>1 DEF RowInv, Unwritten

\* What a step must do to keep the rows in order: new rows, Z, are old after it.
LEMMA RowStep ==
  ASSUME RowInv, s'.n \in Nat, s'.calls \in Nat, (Writing => s.calls > 0)', NEW Z, batches' = batches,
         c'.kind = c.kind, \A x : Old(x) \/ x \in Z => Old(x)',
         c'.stored \cup c'.rows \subseteq c.stored \cup c.rows \cup Z,
         \A b \in batches : Wholly(b, c) => Wholly(b, c')
  PROVE  RowInv'
<1>1. \A x \in c'.stored \cup c'.rows \cup UNION batches : Old(x)'
  BY DEF RowInv
<1>2. c.kind # "odbc" => \A b \in batches : Wholly(b, c')
  BY DEF RowInv
<1> QED
  BY <1>1, <1>2 DEF RowInv, Wholly, Whole

\* An operation has returned, or the thread goes on without one: the rows of the
\* operation are old now.
LEMMA OldAfter ==
  ASSUME SessionInv, RowInv, pc # "idle", s'.n = s.n, s'.calls \in Nat,
         \/ pc' = "idle"
         \/ s.calls <= (IF Writing THEN s.calls - 1 ELSE s.calls)'
  PROVE  \A x : Old(x) \/ x \in Now => Old(x)'
<1> SUFFICES ASSUME NEW x, Old(x) \/ x \in Now PROVE Old(x)'
  OBVIOUS
<1>1. x \in Now => x[1] = s.n /\ x[2] = s.calls
  BY DEF Now, Row
<1>2. s.n \in Nat /\ s.calls \in Nat
  BY DEF RowInv
<1>3. /\ x[1] \in Nat /\ x[2] \in Nat /\ (x[1] < s.n \/ (x[1] = s.n /\ x[2] <= s.calls))
  BY <1>1, <1>2 DEF Old, Writing
<1> QED
  BY <1>2, <1>3 DEF Old, Writing

\* Steps that keep the rows.
LEMMA RowKept ==
  ASSUME SessionInv, RowInv, s'.n \in Nat, s'.calls \in Nat, (Writing => s.calls > 0)', batches' = batches,
         c'.kind = c.kind, \A x : Old(x) \/ x \in Now => Old(x)', Kept(c, c')
  PROVE  RowInv'
<1>1. Rowed(c, c')
  BY DEF Kept
<1>2. c'.stored \cup c'.rows \subseteq c.stored \cup c.rows \cup Now
  BY <1>1 DEF Rowed
<1>3. \A b \in batches : Wholly(b, c) => Wholly(b, c')
  BY <1>1, NowNew DEF Rowed
<1> QED
  BY <1>2, <1>3, RowStep

\* The steps of the thread inside a session, but for operations that return.
LEMMA ThreadRows ==
  ASSUME SessionInv, RowInv,
         \/ \E o \in Ops : CallOp(o)
         \/ TxBegin \/ CallbackEnds \/ Join \/ TxFinish \/ Release
         \/ CursorOpen \/ CursorFetch \/ CursorClose
  PROVE  RowInv'
<1>1. Kept(c, c') /\ c'.kind = c.kind
  BY OthersKept
<1>2. DOMAIN s = SessionFields /\ s.n \in Nat /\ s.calls \in Nat /\ (op # "none" => pc = "body")
  BY DEF SessionInv, Counted, Inside, RowInv
<1>3. CASE \E o \in Ops : CallOp(o)
  <2>1. PICK o \in Ops : CallOp(o)
    BY <1>3
  <2>2. /\ pc = "body" /\ pc' = pc /\ op = "none" /\ op' = o /\ batches' = batches
        /\ s' = IF o = "closeCursor" THEN s ELSE [s EXCEPT !.calls = s.calls + 1]
    BY <2>1 DEF CallOp, Start, histories
  <2>3. s'.n = s.n /\ s'.calls = IF o = "closeCursor" THEN s.calls ELSE s.calls + 1
    BY <1>2, <2>2 DEF SessionFields
  <2>4. s'.calls \in Nat /\ (Writing => s.calls > 0)' /\ s.calls <= (IF Writing THEN s.calls - 1 ELSE s.calls)'
    <3>1. CASE o = "closeCursor"
      BY <1>2, <2>2, <2>3, <3>1 DEF Writing
    <3>2. CASE o # "closeCursor"
      BY <1>2, <2>2, <2>3, <3>2 DEF Writing
    <3> QED
      BY <3>1, <3>2
  <2> QED
    BY <1>1, <1>2, <2>2, <2>3, <2>4, OldAfter, RowKept
<1>4. CASE TxBegin \/ CallbackEnds \/ Join \/ TxFinish \/ Release \/ CursorOpen \/ CursorFetch \/ CursorClose
  <2>1. /\ pc # "idle" /\ op' = op /\ batches' = batches
        /\ pc # "body" \/ op = "none"
    BY <1>4 DEF TxBegin, CallbackEnds, Join, TxFinish, Release, CursorOpen, CursorFetch, CursorClose, histories
  <2>2. \/ s' = s \/ (pc' = "idle" /\ s' = [NoSession EXCEPT !.n = s.n])
        \/ s' = [s EXCEPT !.calls = s.calls + 1]
        \/ \E x, y : s' = [s EXCEPT !.tx = x, !.bad = y]
        \/ \E x : s' = [s EXCEPT !.failed = x]
    <3>1. CASE TxBegin
      <4>1. PICK r \in Begin(c) : s' = [s EXCEPT !.tx = (r.st = "ok"), !.bad = (r.st = "broken")]
        BY <3>1 DEF TxBegin
      <4> QED
        BY <4>1
    <3>2. CASE TxFinish
      BY <3>2 DEF TxFinish
    <3>3. CASE CallbackEnds
      BY <3>3 DEF CallbackEnds
    <3>4. CASE Join \/ Release \/ CursorOpen \/ CursorFetch \/ CursorClose
      BY <3>4 DEF Join, Release, CursorOpen, CursorFetch, CursorClose
    <3> QED
      BY <1>4, <3>1, <3>2, <3>3, <3>4
  <2>3. s'.n = s.n /\ s'.calls \in Nat /\ (pc' = "idle" \/ s.calls <= s'.calls)
    <3>1. CASE s' = s
      BY <1>2, <3>1
    <3>2. CASE pc' = "idle" /\ s' = [NoSession EXCEPT !.n = s.n]
      BY <3>2 DEF NoSession
    <3>3. CASE s' = [s EXCEPT !.calls = s.calls + 1]
      BY <1>2, <3>3 DEF SessionFields
    <3>4. ASSUME NEW x, NEW y, s' = [s EXCEPT !.tx = x, !.bad = y] PROVE s'.n = s.n /\ s'.calls = s.calls
      BY <1>2, <3>4 DEF SessionFields
    <3>5. ASSUME NEW x, s' = [s EXCEPT !.failed = x] PROVE s'.n = s.n /\ s'.calls = s.calls
      BY <1>2, <3>5 DEF SessionFields
    <3>6. \/ s' = s \/ (pc' = "idle" /\ s' = [NoSession EXCEPT !.n = s.n])
          \/ s' = [s EXCEPT !.calls = s.calls + 1]
          \/ s'.n = s.n /\ s'.calls = s.calls
      BY <2>2, <3>4, <3>5
    <3>7. CASE s'.n = s.n /\ s'.calls = s.calls
      BY <1>2, <3>7
    <3> QED
      BY <3>1, <3>2, <3>3, <3>6, <3>7
  <2>4. ~ Writing /\ ~ Writing'
    BY <1>2, <2>1 DEF Writing
  <2>5. \A x : Old(x) \/ x \in Now => Old(x)'
    BY <2>1, <2>3, <2>4, OldAfter
  <2> QED
    BY <1>1, <1>2, <2>1, <2>3, <2>4, <2>5, RowKept
<1> QED
  BY <1>3, <1>4

\* A driver that cancels writes nothing: at most the session is lost.
LEMMA CancelRows ==
  ASSUME IsConn(c), NEW r \in DriverCancel
  PROVE  r.c.stored = c.stored /\ r.c.rows \in {c.rows, {}}
<1>1. r.c \in {c, Errored(c), Gone(c)}
  BY SentCases, ResFields DEF DriverCancel, Of, IsConn, Kinds, MysqlCancel, PgCancel, OdbcCancel, OraCancel, Ok, Refused
<1> QED
  BY <1>1 DEF Errored, Gone, IsConn, Fields

\* The steps of the watcher, which an operation may be in progress beside.
LEMMA WatcherRows ==
  ASSUME SessionInv, RowInv, WatcherTimeout \/ WatcherCancels \/ WatcherTakes \/ WatcherCancelsTaken
  PROVE  RowInv'
<1>1. DOMAIN s = SessionFields /\ s.n \in Nat /\ s.calls \in Nat /\ IsConn(c) /\ c'.kind = c.kind
  BY OthersKept DEF SessionInv, Counted, RowInv
<1>2. /\ pc' = pc /\ op' = op /\ batches' = batches
      /\ s' = s \/ \E x : s' = [s EXCEPT !.bad = x]
  BY DEF WatcherTimeout, WatcherCancels, WatcherTakes, WatcherCancelsTaken, Cancelled, histories
<1>3. s'.n = s.n /\ s'.calls = s.calls
  BY <1>1, <1>2 DEF SessionFields
<1>4. c'.stored = c.stored /\ c'.rows \in {c.rows, {}}
  <2>1. CASE WatcherTimeout \/ WatcherTakes
    BY <1>1, <2>1 DEF WatcherTimeout, WatcherTakes, OdbcTakeStatement, IsConn, Fields
  <2>2. CASE WatcherCancels \/ WatcherCancelsTaken
    BY <1>1, <2>2, CancelRows DEF WatcherCancels, WatcherCancelsTaken, Cancelled
  <2> QED
    BY <2>1, <2>2
<1>0. PICK Z : Z = {}
  OBVIOUS
<1>5. \A x : Old(x) \/ x \in Z => Old(x)'
  BY <1>0, <1>2, <1>3 DEF Old, Writing
<1>6. \A b \in batches : Wholly(b, c) => Wholly(b, c')
  BY <1>4 DEF Wholly, Whole
<1>7. (Writing => s.calls > 0)'
  BY <1>2, <1>3 DEF RowInv, Writing
<1>8. c'.stored \cup c'.rows \subseteq c.stored \cup c.rows \cup Z
  BY <1>4
<1> QED
  BY <1>1, <1>2, <1>3, <1>5, <1>6, <1>7, <1>8, RowStep

\* A session begins: all rows are of earlier ones.
LEMMA BorrowRows ==
  ASSUME SessionInv, RowInv, NEW mode \in Modes, Borrow(mode)
  PROVE  RowInv'
<1>1. /\ pc = "idle" /\ op' = op /\ batches' = batches /\ s' = [NoSession EXCEPT !.n = s.n + 1, !.mode = mode]
      /\ s.n \in Nat /\ (op # "none" => pc = "body")
  BY DEF Borrow, RowInv, SessionInv, Inside
<1>2. s'.n = s.n + 1 /\ s'.calls = 0 /\ op = "none" /\ Now = {} /\ ~ Writing /\ ~ Writing'
  BY <1>1 DEF NoSession, Now, Writing
<1>3. \A x : Old(x) \/ x \in {} => Old(x)'
  BY <1>1, <1>2 DEF Old
<1>4. CASE Kept(c, c') /\ c'.kind = c.kind
  BY <1>1, <1>2, <1>3, <1>4, RowKept
<1>5. CASE BorrowNew(mode)
  <2>1. Fresh.stored = c.stored /\ Fresh.rows = {} /\ Rowed(Fresh, c') /\ c'.kind = c.kind
    BY <1>5 DEF BorrowNew, Kept, Fresh, Closed
  <2> HIDE DEF Fresh
  <2>2. c'.stored \cup c'.rows \subseteq c.stored \cup c.rows \cup {}
    BY <1>2, <2>1 DEF Rowed
  <2>3. \A b \in batches : Wholly(b, c) => Wholly(b, c')
    BY <1>2, <2>1 DEF Rowed, Wholly, Whole
  <2> QED
    BY <1>1, <1>2, <1>3, <2>1, <2>2, <2>3, RowStep
<1> QED
  BY <1>4, <1>5, BorrowKept

\* A batch outside a transaction, on a connection that is not stained, is stored
\* or held as a whole.
LEMMA BatchReturned ==
  ASSUME SessionInv, RowInv, pc = "body", op = "batch", c.kind # "odbc", ~ s.tx, ~ stained,
         NEW r \in Outcome("batch"), ~ Stains("batch", r)
  PROVE  Wholly(Now, r.c)
<1>1. Now = {Row(1), Row(2)} /\ Unwritten(c) /\ IsConn(c) /\ Agrees(c, FALSE)
  <2>1. s.tx = FALSE
    BY DEF SessionInv, Counted
  <2> QED
    BY <2>1, NowNew DEF Now, SessionInv, Agreed
<1>2. c.flag => Held(c)
  BY <1>1 DEF Agrees, Held, IsConn
<1>3. r \in Refused(c) \/ r \in Batch(c, {Row(1)}, {Row(2)})
  BY DEF Outcome, SessionBatch, SessionStreamBatch, Audited, Materialized
<1>4. CASE r \in Refused(c)
  BY <1>1, <1>4, ResFields DEF Refused, Unwritten, Wholly, Whole
<1>5. CASE r \in Batch(c, {Row(1)}, {Row(2)})
  <2>1. AllOrNone(r)
    BY <1>1, <1>2, <1>5, BatchWhole
  <2>2. r.st # "ok" => r.c.tx = "none" /\ r.c.rows = {}
    <3>1. Left("batch", r)
      BY SessionAssumption, OutcomeLeft DEF SessionInv, Counted
    <3> QED
      BY <3>1 DEF Stains, Left, IsConn
  <2> QED
    BY <2>1, <2>2 DEF AllOrNone, Wholly, Whole
<1> QED
  BY <1>3, <1>4, <1>5

\* An operation returns.
LEMMA ReturnRows ==
  ASSUME SessionInv, RowInv, ReturnOp \/ ReturnPrepare \/ ReturnExecutePrepared \/ ReturnPrepared
  PROVE  RowInv'
<1>1. Kept(c, c') /\ c'.kind = c.kind
  BY ReturnKept
<1>2. /\ DOMAIN s = SessionFields /\ s.n \in Nat /\ s.calls \in Nat /\ IsConn(c) /\ stained \in BOOLEAN
      /\ pc = "body" /\ op # "none" /\ op \in Ops
  BY DEF SessionInv, Counted, RowInv, ReturnOp, ReturnPrepare, ReturnExecutePrepared, ReturnPrepared
<1>3. PICK W, r : Return(op, W, r) /\ (op = "batch" => r \in Outcome("batch"))
  BY DEF ReturnOp, ReturnPrepare, ReturnExecutePrepared, ReturnPrepared
<1>4. /\ c' = [r.c EXCEPT !.slot = FALSE] /\ op' = "none" /\ pc' = pc
      /\ \E x, y, z : s' = [s EXCEPT !.tx = x, !.bad = y, !.failed = z]
      /\ stained' = (stained \/ Stains(op, r))
      /\ batches' = IF op = "batch" /\ ~ s.tx /\ ~ stained' THEN batches \cup {{Row(1), Row(2)}} ELSE batches
  BY <1>3 DEF Return
<1>5. s'.n = s.n /\ s'.calls = s.calls /\ ~ Writing'
  BY <1>2, <1>4 DEF SessionFields, Writing
<1>6. \A x : Old(x) \/ x \in Now => Old(x)'
  BY <1>2, <1>4, <1>5, OldAfter
<1>7. CASE batches' = batches
  BY <1>1, <1>2, <1>5, <1>6, <1>7, RowKept
<1>8. CASE op = "batch" /\ ~ s.tx /\ ~ stained' /\ batches' = batches \cup {{Row(1), Row(2)}}
  <2>1. Now = {Row(1), Row(2)} /\ ~ stained /\ ~ Stains(op, r)
    BY <1>2, <1>4, <1>8 DEF Now
  <2>2. Rowed(c, c') /\ \A b \in batches : b \cap Now = {}
    BY <1>1, NowNew DEF Kept
  <2>3. \A x \in c'.stored \cup c'.rows \cup UNION batches' : Old(x)'
    <3>1. ASSUME NEW x \in c'.stored \cup c'.rows \cup UNION batches' PROVE Old(x) \/ x \in Now
      <4>1. CASE x \in c'.stored \cup c'.rows
        BY <2>2, <4>1 DEF Rowed, RowInv
      <4>2. CASE x \in UNION batches'
        BY <1>8, <2>1, <4>2 DEF RowInv
      <4> QED
        BY <3>1, <4>1, <4>2
    <3> QED
      BY <1>6, <3>1
  <2>4. ASSUME c.kind # "odbc" PROVE \A b \in batches' : Wholly(b, c')
    <3>1. Wholly(Now, r.c) /\ IsConn(r.c)
      <4>1. Left("batch", r)
        BY <1>2, <1>3, <1>8, OutcomeLeft DEF SessionInv, Counted
      <4> QED
        BY <1>2, <1>3, <1>8, <2>1, <2>4, <4>1, BatchReturned DEF Left
    <3>2. c'.stored = r.c.stored /\ c'.rows = r.c.rows
      BY <1>4, <3>1 DEF IsConn, Fields
    <3>3. Wholly(Now, c')
      BY <3>1, <3>2 DEF Wholly
    <3>4. \A b \in batches : Wholly(b, c')
      BY <2>2, <2>4 DEF Rowed, RowInv
    <3> QED
      BY <1>8, <2>1, <3>3, <3>4
  <2> QED
    BY <1>1, <1>2, <1>5, <2>3, <2>4 DEF RowInv, Wholly, Whole
<1> QED
  BY <1>4, <1>7, <1>8

-----------------------------------------------------------------------------
(* The transactions of MySQL and PostgreSQL. *)

\* The connection is in a transaction of the caller, and no cursor has one of its
\* own; and so it is after every outcome of an operation that writes W.
Txn(d) == d.kind \in {"mysql", "postgres"} /\ d.flag /\ d.cursor \notin {"own", "ownEnd"}
Worked(d, W, S) == \A r \in S : Does(d, r, W) /\ Txn(r.c)

\* Most operations keep the transaction anyway.
LEMMA PlainWorked ==
  ASSUME NEW d, Txn(d), NEW W, NEW S, Ran(d, W, S), Plain(d, S)
  PROVE  Worked(d, W, S)
  BY DEF Worked, Ran, Plain, Txn, Keep, Near, Same

\* Nothing is done by an operation before or after which only the driver's side of
\* the connection changes.
LEMMA StillBefore ==
  ASSUME NEW d, NEW e, NEW r, NEW W, Still(d, e), Does(e, r, W)
  PROVE  Does(d, r, W)
  BY DEF Still, Does, Work, Held, Did, Wrought

\* After it.
LEMMA StillAfter ==
  ASSUME NEW d, NEW e, NEW r, NEW W, Does(d, r, W), Still(r.c, e)
  PROVE  Does(d, Res(e, r.st), W)
  BY ResFields DEF Still, Does, Work, Held, Did, Wrought

\* Moving a cursor is the driver's side only.
LEMMA StillAt ==
  ASSUME NEW d, IsConn(d), NEW x \in {"none", "open", "end"}, NEW w
  PROVE  /\ Still(d, At(d, x)) /\ Still(d, AtWire(d, x, w))
         /\ Txn(d) => Txn(At(d, x)) /\ Txn(AtWire(d, x, w))
  BY DEF At, AtWire, Still, Txn, IsConn, Fields, CursorStates

\* The cursor of MySQL.
LEMMA MysqlCursorWorked ==
  ASSUME NEW d, IsConn(d), Txn(d), d.kind = "mysql"
  PROVE  Worked(d, {}, MysqlOpenCursor(d) \cup MysqlFetch(d) \cup MysqlCloseCursor(d))
<1>1. Worked(d, {}, Ok(d)) /\ Worked(d, {}, {}) /\ Worked(d, {}, Sent(d, {}))
  <2>1. Plain(d, Ok(d)) /\ Plain(d, {})
    BY Basics DEF Plain
  <2>2. Ran(d, {}, Ok(d)) /\ Ran(d, {}, {})
    BY RanNothing DEF Ran
  <2> QED
    BY <2>1, <2>2, PlainWorked, RanSent, SentPlain
<1>2. ASSUME NEW e, IsConn(e), Txn(e), NEW x \in {"none", "open", "end"}, NEW w, NEW st
      PROVE  Does(e, Res(At(e, x), st), {}) /\ Does(e, Res(AtWire(e, x, w), st), {})
             /\ Txn(Res(At(e, x), st).c) /\ Txn(Res(AtWire(e, x, w), st).c)
  BY <1>2, StillAt, StillDoes, ResFields
<1>3. ASSUME NEW r \in MysqlOpenCursor(d) PROVE Does(d, r, {}) /\ Txn(r.c)
  <2> DEFINE S == MysqlStmtExecute(d, {})
  <2>1. Ran(d, {}, S) /\ Plain(d, S)
    BY MysqlRanParts, MysqlParts
  <2>2. Worked(d, {}, S)
    BY <2>1, PlainWorked
  <2>3. MysqlOpenCursor(d) = Then(S, MysqlSetupResult)
    BY DEF MysqlOpenCursor
  <2> HIDE DEF S
  <2>4. (r \in S) \/ \E x \in S : x.st = "ok" /\ r \in MysqlSetupResult(x.c)
    BY <1>3, <2>3 DEF Then
  <2>5. ASSUME NEW x \in S, x.st = "ok", r \in MysqlSetupResult(x.c) PROVE Does(d, r, {}) /\ Txn(r.c)
    <3>1. Does(d, x, {}) /\ Txn(x.c) /\ IsConn(x.c)
      BY <2>2, <2>5, DoesIs DEF Worked
    <3>2. r \in {Res(AtWire(x.c, "open", CursorRows), "ok"), Res(At(x.c, "end"), "ok"), Res(x.c, "error")}
      BY <2>5 DEF MysqlSetupResult, At, AtWire
    <3>3. Does(x.c, Res(x.c, "error"), {}) /\ Txn(Res(x.c, "error").c)
      BY <3>1, RanNothing, StillDoes, ResFields
    <3>4. Does(x.c, r, {}) /\ Txn(r.c)
      BY <1>2, <3>1, <3>2, <3>3
    <3> QED
      BY <2>5, <3>1, <3>4, DoesLast
  <2> QED
    BY <2>2, <2>4, <2>5 DEF Worked
<1>4. ASSUME NEW r \in MysqlFetch(d) PROVE Does(d, r, {}) /\ Txn(r.c)
  <2> DEFINE S == {Res(d, "ok"), Res(AtWire(d, "end", Nothing), "ok")}
  <2>1. Worked(d, {}, S)
    BY <1>1, <1>2 DEF Worked, Ok
  <2>2. MysqlFetch(d) = IF d.cursor = "end" THEN Ok(d) ELSE Sent(d, S)
    BY DEF MysqlFetch, AtWire
  <2> HIDE DEF S
  <2>3. Sent(d, S) \subseteq S \cup Sent(d, {})
    BY DEF Sent
  <2> QED
    BY <1>1, <1>4, <2>1, <2>2, <2>3 DEF Worked
<1>5. ASSUME NEW r \in MysqlCloseCursor(d) PROVE Does(d, r, {}) /\ Txn(r.c)
  <2> DEFINE w == IF d.wire = CursorRows THEN Nothing ELSE d.wire
  <2>1. r = Res(AtWire(d, "none", w), "ok")
    BY <1>5 DEF MysqlCloseCursor, AtWire, Ok, IsConn, Fields
  <2> HIDE DEF w
  <2> QED
    BY <1>2, <2>1
<1> QED
  BY <1>3, <1>4, <1>5 DEF Worked

\* The cursor of PostgreSQL, which runs in the transaction of the caller.
LEMMA PgCursorWorked ==
  ASSUME NEW d, IsConn(d), Txn(d), d.kind = "postgres"
  PROVE  /\ Worked(d, {}, PgOpenCursor(d) \cup PgFetch(d))
         /\ d.cursor # "none" => Worked(d, {}, PgCloseCursor(d))
<1>0. {} \in SUBSET Now
  OBVIOUS
<1>1. ASSUME NEW e, IsConn(e), Txn(e) PROVE Worked(e, {}, Statement(e, {}))
  BY <1>0, <1>1, RanStatement, StatementPlain, PlainWorked
<1>2. Worked(d, {}, Refused(d)) /\ Worked(d, {}, Ok(d))
  BY RanNothing, Basics, PlainWorked
<1> DEFINE S == Statement(d, {})
<1>3. Worked(d, {}, S)
  BY <1>1
<1>4. ASSUME NEW x \in S, NEW y \in {"none", "open", "end"}, NEW st, st = x.st
      PROVE  Does(d, Res(At(x.c, y), st), {}) /\ Txn(Res(At(x.c, y), st).c)
  <2>1. Does(d, x, {}) /\ Txn(x.c) /\ IsConn(x.c)
    BY <1>3, DoesIs DEF Worked
  <2> QED
    BY <1>4, <2>1, StillAt, StillAfter, ResFields
<1>5. ASSUME NEW r \in PgOpenCursor(d) PROVE Does(d, r, {}) /\ Txn(r.c)
  <2> DEFINE F(e) == Ok(At(e, "open"))
  <2>1. PgOpenCursor(d) = Refused(d) \cup Then(S, F)
    BY DEF PgOpenCursor, PgCursorOpen, Txn, At
  <2> HIDE DEF S
  <2>2. (r \in Refused(d)) \/ (r \in S) \/ \E x \in S : x.st = "ok" /\ r = Res(At(x.c, "open"), "ok")
    BY <1>5, <2>1 DEF Then, Ok
  <2> QED
    BY <1>2, <1>3, <1>4, <2>2 DEF Worked
<1>6. ASSUME NEW r \in PgFetch(d) PROVE Does(d, r, {}) /\ Txn(r.c)
  <2> DEFINE end == IF d.cursor = "own" THEN "ownEnd" ELSE "end"
  <2>1. end = "end"
    BY DEF Txn
  <2>2. PgFetch(d) = IF d.cursor \in {"end", "ownEnd"} THEN Ok(d)
                     ELSE {Res(At(x.c, end), x.st) : x \in {y \in S : y.st # "ok"}}
                          \cup {y \in S : y.st = "ok"}
                          \cup {Res(At(x.c, end), "ok") : x \in {y \in S : y.st = "ok"}}
    BY DEF PgFetch, At
  <2> HIDE DEF S, end
  <2>3. \/ r \in Ok(d) \/ r \in S
        \/ \E x \in S : r = Res(At(x.c, "end"), x.st)
    BY <1>6, <2>1, <2>2
  <2> QED
    BY <1>2, <1>3, <1>4, <2>3 DEF Worked
<1>7. ASSUME d.cursor # "none", NEW r \in PgCloseCursor(d) PROVE Does(d, r, {}) /\ Txn(r.c)
  <2> DEFINE f == At(d, "none")
  <2>1. IsConn(f) /\ Still(d, f) /\ Txn(f)
    BY StillAt DEF Still
  <2>2. d.cursor \in {"open", "end"}
    BY <1>7 DEF Txn, IsConn, CursorStates
  <2>3. (r \in Statement(f, {})) \/ (r \in Ok(f))
    BY <1>7, <2>2 DEF PgCloseCursor, At
  <2> HIDE DEF f
  <2>4. CASE r \in Statement(f, {})
    BY <1>1, <2>1, <2>4, StillBefore DEF Worked
  <2>5. CASE r \in Ok(f)
    BY <2>1, <2>5, StillDoes, ResFields DEF Ok
  <2> QED
    BY <2>3, <2>4, <2>5
<1> QED
  BY <1>5, <1>6, <1>7 DEF Worked

\* A statement that could not be prepared has written nothing.
LEMMA PrepareWrought ==
  ASSUME NEW d, IsConn(d), d.kind \in {"mysql", "postgres"}, NEW k, NEW r \in Prepare(d, k)
  PROVE  Does(d, r, {}) /\ Wrought(d, r.c, {})
<1>1. CASE d.kind = "postgres"
  BY <1>1, PgRanPrepare DEF Prepare, Of
<1>2. CASE d.kind = "mysql"
  <2> DEFINE t == Touched(d, k)
             i == Trimmed(Inserted(d, k))
  <2>0. r \in MysqlPrepare(d, k)
    BY <1>2 DEF Prepare, Of
  <2>1. Does(d, r, {})
    <3>1. {} \in SUBSET Now
      OBVIOUS
    <3> QED
      BY <2>0, <3>1, MysqlRanPrepared DEF Ran
  <2>2. (r \in Ok(t)) \/ (r \in Refused(d)) \/ (r \in Sent(d, Ok(i)))
    BY <2>0 DEF MysqlPrepare, MysqlSend
  <2>3. Still(d, t) /\ Still(d, i) /\ Still(d, d)
    BY PreparedStill, RanNothing
  <2> HIDE DEF t, i
  <2>4. r.c \in {t, i, d, Errored(d), Gone(d)}
    BY <2>2, SentCases, ResFields DEF Ok, Refused
  <2>5. \A e : Still(d, e) => Wrought(d, e, {})
    BY DEF Still, Wrought
  <2>6. Wrought(d, Errored(d), {}) /\ Wrought(d, Gone(d), {})
    BY WorkFailed DEF Did
  <2> QED
    BY <2>1, <2>3, <2>4, <2>5, <2>6
<1> QED
  BY <1>1, <1>2

\* What the operations of Session run inside a transaction: those that read, those
\* that write, and prepared statements.
LEMMA ReadsWorked ==
  ASSUME NEW d, IsConn(d), Txn(d)
  PROVE  /\ Worked(d, {}, Query(d)) /\ Worked(d, {}, QueryAll(d)) /\ Worked(d, {}, QueryEach(d))
         /\ Worked(d, {}, Savepoint(d))
<1>0. {} \in SUBSET Now
  OBVIOUS
<1>1. /\ Plain(d, Query(d)) /\ Plain(d, QueryAll(d)) /\ Plain(d, QueryEach(d)) /\ Plain(d, Savepoint(d))
  BY ConnectionReads
<1>2. Ran(d, {}, Query(d)) /\ Ran(d, {}, QueryAll(d)) /\ Ran(d, {}, QueryEach(d)) /\ Ran(d, {}, Savepoint(d))
  <2>1. CASE d.kind = "mysql"
    BY <1>0, <2>1, MysqlRan, RanBoth DEF Query, QueryAll, QueryEach, Savepoint, Of
  <2>2. CASE d.kind = "postgres"
    BY <1>0, <2>2, PgRan DEF Query, QueryAll, QueryEach, Savepoint, Of, Txn
  <2> QED
    BY <2>1, <2>2 DEF Txn
<1> QED
  BY <1>1, <1>2, PlainWorked

\* Those that write.
LEMMA WritesWorked ==
  ASSUME NEW d, IsConn(d), Txn(d), NEW W \in SUBSET Now
  PROVE  Worked(d, W, Execute(d, W)) /\ Worked(d, W, ExecuteKeys(d, W)) /\ Worked(d, W, Call(d, W))
<1>1. Plain(d, Execute(d, W)) /\ Plain(d, ExecuteKeys(d, W)) /\ Plain(d, Call(d, W))
  BY ConnectionWrites
<1>2. Ran(d, W, Execute(d, W)) /\ Ran(d, W, ExecuteKeys(d, W)) /\ Ran(d, W, Call(d, W))
  <2>0. Ran(d, W, Refused(d))
    BY RanNothing
  <2>1. CASE d.kind = "mysql"
    BY <2>0, <2>1, MysqlRan, RanBoth DEF Execute, ExecuteKeys, Call, Of, MysqlExecuteParams, MysqlExecuteKeys
  <2>2. CASE d.kind = "postgres"
    BY <2>0, <2>2, PgRan, RanBoth DEF Execute, ExecuteKeys, Call, Of, Txn
  <2> QED
    BY <2>1, <2>2 DEF Txn
<1> QED
  BY <1>1, <1>2, PlainWorked

\* A batch inside a transaction.
LEMMA BatchWorked ==
  ASSUME NEW d, IsConn(d), Txn(d), NEW V \in SUBSET Now, V # {}, NEW W \in SUBSET Now, W # {}
  PROVE  Worked(d, V \cup W, Batch(d, V, W))
<1>1. Plain(d, Batch(d, V, W))
  BY BatchResult DEF Plain, Txn
<1>2. CASE d.kind = "mysql"
  <2>1. Batch(d, V, W) = Then(ExecuteKeys(d, V), LAMBDA e : ExecuteKeys(e, W))
    BY <1>2 DEF Batch, Of, DefaultBatch, Txn
  <2> QED
    BY <1>1, <1>2, <2>1, RowsRan, PlainWorked
<1>3. CASE d.kind = "postgres"
  <2>1. Ran(d, V \cup W, PgBatch(d, V, W))
    BY PgRan DEF Txn
  <2> QED
    BY <1>1, <1>3, <2>1, PlainWorked DEF Batch, Of
<1> QED
  BY <1>2, <1>3 DEF Txn

\* Prepared statements, and the way through the cache.
LEMMA PreparedWorked ==
  ASSUME NEW d, IsConn(d), Txn(d), NEW W \in SUBSET Now, NEW k, NEW id
  PROVE  /\ Worked(d, {}, Prepare(d, k)) /\ Worked(d, {}, QueryPrepared(d, id))
         /\ Worked(d, W, ExecutePrepared(d, id, W))
<1>0. {} \in SUBSET Now
  OBVIOUS
<1>1. Plain(d, Prepare(d, k)) /\ Plain(d, QueryPrepared(d, id)) /\ Plain(d, ExecutePrepared(d, id, W))
  BY ConnectionPrepared
<1>2. Ran(d, {}, Prepare(d, k))
  BY PrepareWrought DEF Ran, Txn
<1>3. Ran(d, {}, QueryPrepared(d, id)) /\ Ran(d, W, ExecutePrepared(d, id, W))
  <2>1. CASE d.kind = "mysql"
    BY <1>0, <2>1, MysqlRanPrepared DEF QueryPrepared, ExecutePrepared, Of
  <2>2. CASE d.kind = "postgres"
    BY <1>0, <2>2, PgRan DEF QueryPrepared, ExecutePrepared, Of, Txn
  <2> QED
    BY <2>1, <2>2 DEF Txn
<1> QED
  BY <1>1, <1>2, <1>3, PlainWorked

\* A statement runs in a transaction that is not aborted.
LEMMA AliveAfter ==
  ASSUME NEW d, IsConn(d), Txn(d), Held(d), ~ SwallowedFail, NEW W \in SUBSET Now,
         NEW r \in Query(d) \cup Execute(d, W), r.st = "ok"
  PROVE  r.c.tx # "aborted"
<1>1. CASE d.kind = "mysql"
  <2>1. IsConn(r.c) /\ r.c.kind = d.kind
    BY ReadsWorked, WritesWorked, DoesIs DEF Worked
  <2> QED
    BY <1>1, <2>1 DEF IsConn
<1>2. CASE d.kind = "postgres"
  <2>1. r \in PgQuery(d) \cup PgExecute(d, W) \cup PgExecuteKeys(d, W)
    BY <1>2 DEF Query, Execute, ExecuteKeys, Of
  <2>2. r.c.tx = "open"
    BY <2>1, PgAlive DEF Txn
  <2> QED
    BY <2>2
<1> QED
  BY <1>1, <1>2 DEF Txn

\* Prepare and execute, or execute without when preparing fails.
LEMMA PreparedPathWorked ==
  ASSUME NEW d, IsConn(d), Txn(d), ~ SwallowedFail, NEW W \in SUBSET Now, NEW k
  PROVE  Worked(d, W, PreparedPath(d, k, W))
<1> SUFFICES ASSUME NEW r \in PreparedPath(d, k, W) PROVE Does(d, r, W) /\ Txn(r.c)
  BY DEF Worked
<1>1. PICK p \in Prepare(d, k) :
        r \in (IF p.st # "ok" THEN (IF W = {} THEN Query(p.c) ELSE Execute(p.c, W))
               ELSE IF W = {} THEN QueryPrepared(p.c, IdOf(p.c, k))
               ELSE ExecutePrepared(p.c, IdOf(p.c, k), W))
  BY DEF PreparedPath
<1>2. Does(d, p, {}) /\ Wrought(d, p.c, {}) /\ Txn(p.c) /\ IsConn(p.c)
  BY PrepareWrought, PreparedWorked, DoesIs DEF Worked, Txn
<1>3. CASE p.st = "ok"
  <2>1. Does(p.c, r, W) /\ Txn(r.c)
    BY <1>1, <1>2, <1>3, PreparedWorked DEF Worked
  <2> QED
    BY <1>2, <1>3, <2>1, DoesLast
<1>4. CASE p.st # "ok"
  <2>1. r \in Query(p.c) \cup Execute(p.c, W) /\ (r \notin Execute(p.c, W) => W = {})
    BY <1>1, <1>4
  <2>2. Does(p.c, r, W) /\ Txn(r.c)
    BY <1>2, <2>1, ReadsWorked, WritesWorked DEF Worked
  <2>3. Work(d, p.c) /\ Work(p.c, r.c)
    BY <1>2, <2>2 DEF Does
  <2>4. ASSUME r.st = "ok", Held(d) PROVE Did(d, r.c, W)
    <3>1. Held(p.c) /\ Did(p.c, r.c, W)
      BY <2>2, <2>3, <2>4 DEF Work, Does
    <3>2. r.c.tx # "aborted"
      BY <1>2, <2>1, <2>4, <3>1, AliveAfter
    <3> QED
      BY <1>2, <2>3, <3>1, <3>2 DEF Did, Wrought, Work
  <2> QED
    BY <2>2, <2>3, <2>4, WorkTrans DEF Does
<1> QED
  BY <1>3, <1>4

\* An operation of the callback that returns has worked in the transaction.
LEMMA OutcomeWorked ==
  ASSUME IsConn(c), Txn(c), op \in Ops, op \notin {"none", "prepare", "executePrepared", "prepared"},
         op \notin {"begin", "commit", "rollback"}, op \in {"fetch", "closeCursor"} => c.cursor # "none"
  PROVE  Worked(c, Writes(op), Outcome(op)) /\ Writes(op) \in SUBSET Now
<1>0. /\ \A W : Worked(c, W, Refused(c))
      /\ \A W, S, T : Worked(c, W, S) /\ Worked(c, W, T) => Worked(c, W, S \cup T)
  BY RanNothing, Basics, PlainWorked DEF Worked
<1>1. CASE op = "execute"
  <2>1. {Row(1)} \in SUBSET Now /\ Writes(op) = {Row(1)}
    BY <1>1 DEF Now, Writes
  <2>2. Worked(c, {Row(1)}, Execute(c, {Row(1)})) /\ Worked(c, {Row(1)}, ExecuteKeys(c, {Row(1)}))
    BY <2>1, WritesWorked
  <2>3. Outcome(op) = SessionExecute \cup SessionExecuteKeys \cup SessionStreamExecute
    BY <1>1 DEF Outcome
  <2>4. /\ Worked(c, {Row(1)}, SessionExecute) /\ Worked(c, {Row(1)}, SessionExecuteKeys)
        /\ Worked(c, {Row(1)}, SessionStreamExecute)
    BY <1>0, <2>2 DEF SessionExecute, SessionExecuteKeys, SessionStreamExecute, Audited, Materialized
  <2> QED
    BY <2>1, <2>3, <2>4 DEF Worked
<1>2. CASE op = "read"
  <2>1. {} \in SUBSET Now /\ Writes(op) = {}
    BY <1>2 DEF Writes
  <2>2. Worked(c, {}, Query(c)) /\ Worked(c, {}, QueryAll(c)) /\ Worked(c, {}, QueryEach(c))
    BY ReadsWorked
  <2>3. Outcome(op) = SessionQuery \cup SessionStreamQuery \cup SessionQueryAll \cup SessionQueryEach
    BY <1>2 DEF Outcome
  <2>4. Worked(c, {}, {Res(r.c, "error") : r \in QueryEach(c)})
    BY <2>2, ResFields DEF Worked, Does
  <2>5. /\ Worked(c, {}, SessionQuery) /\ Worked(c, {}, SessionStreamQuery)
        /\ Worked(c, {}, SessionQueryAll) /\ Worked(c, {}, SessionQueryEach)
    BY <1>0, <2>2, <2>4 DEF SessionQuery, SessionStreamQuery, SessionQueryAll, SessionQueryEach, Audited, Materialized
  <2> QED
    BY <2>1, <2>3, <2>5 DEF Worked
<1>3. CASE op = "call"
  <2>1. {Row(1)} \in SUBSET Now /\ Writes(op) = {Row(1)}
    BY <1>3 DEF Now, Writes
  <2> QED
    BY <1>0, <1>3, <2>1, WritesWorked DEF Outcome, SessionCall, Audited
<1>4. CASE op = "batch"
  <2> DEFINE V == {Row(1)}
             W == {Row(2)}
  <2>1. V \in SUBSET Now /\ V # {} /\ W \in SUBSET Now /\ W # {} /\ Writes(op) = V \cup W
    BY <1>4 DEF Now, Writes
  <2>2. Outcome(op) = SessionBatch \cup SessionStreamBatch
    BY <1>4 DEF Outcome
  <2>3. SessionBatch = Refused(c) \cup Batch(c, V, W) /\ SessionStreamBatch = Refused(c) \cup (Refused(c) \cup Batch(c, V, W))
    BY DEF SessionBatch, SessionStreamBatch, Audited, Materialized
  <2> HIDE DEF V, W
  <2>4. Worked(c, V \cup W, Batch(c, V, W))
    BY <2>1, BatchWorked
  <2> QED
    BY <1>0, <2>1, <2>2, <2>3, <2>4
<1>5. CASE op = "savepoint"
  <2>1. Writes(op) = {} /\ Outcome(op) = Savepoint(c)
    BY <1>5 DEF Writes, Outcome, SessionSavepoint
  <2> QED
    BY <2>1, ReadsWorked
<1>6. CASE op \in {"openCursor", "fetch", "closeCursor"}
  <2>1. Worked(c, {}, OpenCursor(c)) /\ Worked(c, {}, Fetch(c)) /\ (c.cursor # "none" => Worked(c, {}, CloseCursor(c)))
    <3>1. CASE c.kind = "mysql"
      BY <3>1, MysqlCursorWorked DEF Worked, OpenCursor, Fetch, CloseCursor, Of
    <3>2. CASE c.kind = "postgres"
      BY <3>2, PgCursorWorked DEF Worked, OpenCursor, Fetch, CloseCursor, Of
    <3> QED
      BY <3>1, <3>2 DEF Txn
  <2>2. Writes(op) = {}
    BY <1>6 DEF Writes
  <2>3. CASE op = "openCursor"
    BY <1>0, <2>1, <2>2, <2>3 DEF Outcome, SessionOpenCursor, Audited
  <2>4. CASE op \in {"fetch", "closeCursor"}
    BY <2>1, <2>2, <2>4 DEF Outcome
  <2> QED
    BY <1>6, <2>3, <2>4
<1> QED
  BY <1>1, <1>2, <1>3, <1>4, <1>5, <1>6, SessionAssumption

\* Every operation that returns.
LEMMA ReturnWorked ==
  ASSUME SessionInv, Txn(c), ~ SwallowedFail, op \notin {"begin", "commit", "rollback"},
         ReturnOp \/ ReturnPrepare \/ ReturnExecutePrepared \/ ReturnPrepared
  PROVE  \E W \in SUBSET Now : \E r : Return(op, W, r) /\ Does(c, r, W) /\ Txn(r.c)
<1>0. IsConn(c) /\ op \in Ops \cup {"none"} /\ (op \in {"fetch", "closeCursor"} => c.cursor # "none")
  BY DEF SessionInv, Counted, Placed
<1>1. \A W : Worked(c, W, Refused(c))
  BY <1>0, RanNothing, Basics, PlainWorked
<1>2. CASE ReturnOp
  <2>1. op \notin {"none", "prepare", "executePrepared", "prepared"} /\ \E r \in Outcome(op) : Return(op, Writes(op), r)
    BY <1>2 DEF ReturnOp
  <2> QED
    BY <1>0, <2>1, OutcomeWorked DEF Worked
<1>3. CASE ReturnPrepare
  <2>1. PICK k \in Keys : \E r \in Refused(c) \cup Prepare(c, k) : Return(op, {}, r)
    BY <1>3 DEF ReturnPrepare, Audited
  <2>2. {} \in SUBSET Now
    OBVIOUS
  <2>3. Worked(c, {}, Prepare(c, k))
    BY <1>0, <2>2, PreparedWorked
  <2> QED
    BY <1>1, <2>1, <2>2, <2>3 DEF Worked
<1>4. CASE ReturnExecutePrepared
  <2>1. PICK h \in held :
          \/ \E r \in QueryPrepared(c, h[1]) : Return(op, {}, r)
          \/ \E W \in {{}, {Row(1)}} : \E r \in ExecutePrepared(c, h[1], W) : Return(op, W, r)
    BY <1>4 DEF ReturnExecutePrepared
  <2>2. {{}, {Row(1)}} \subseteq SUBSET Now
    BY <1>4 DEF Now, ReturnExecutePrepared
  <2>3. Worked(c, {}, QueryPrepared(c, h[1])) /\ \A W \in {{}, {Row(1)}} : Worked(c, W, ExecutePrepared(c, h[1], W))
    BY <1>0, <2>2, PreparedWorked
  <2> QED
    BY <2>1, <2>2, <2>3 DEF Worked
<1>5. CASE ReturnPrepared
  <2>1. PICK k \in Keys, W \in {{}, {Row(1)}} : \E r \in Refused(c) \cup PreparedPath(c, k, W) : Return(op, W, r)
    BY <1>5 DEF ReturnPrepared, Audited
  <2>2. W \in SUBSET Now
    BY <1>5 DEF Now, ReturnPrepared
  <2>3. Worked(c, W, PreparedPath(c, k, W))
    BY <1>0, <2>2, PreparedPathWorked
  <2> QED
    BY <1>1, <2>1, <2>2, <2>3 DEF Worked
<1> QED
  BY <1>2, <1>3, <1>4, <1>5

\* The callbacks of the applications that transaction is made for: they return the
\* failure of a statement, and leave the transaction to it.  The commands whose
\* failure the PostgreSQL driver swallows, loading the types and DEALLOCATE, do not
\* fail.
Disciplined ==
  /\ Careful /\ ~ SwallowedFail /\ Modes = {"transaction"}
  /\ Ops \cap {"begin", "commit", "rollback"} = {}

\* What the sessions were told: the rows of a session carry its number, those of
\* the current one the numbers of calls that have returned, and sessions to come
\* have none.
Returned == IF Writing THEN s.calls - 1 ELSE s.calls
Ledger ==
  /\ DOMAIN acked = Sessions /\ DOMAIN outcome = Sessions
  /\ \A n \in Sessions : n > s.n => outcome[n] = "none" /\ acked[n] = {}
  /\ \A n \in Sessions : \A x \in acked[n] : x[1] = n /\ x[2] \in Nat
  /\ pc # "idle" => \A x \in acked[s.n] : x[2] <= Returned

\* While a session runs nothing of it is stored.  In its transaction the server
\* holds exactly the rows the callback was told are written, unless a statement has
\* failed or the connection is lost.
TxState ==
  /\ Ledger
  /\ pc \in {"idle", "begin", "body", "join", "finish", "release"}
  /\ s.calls <= MaxCalls /\ (pc # "idle" => s.n \in Sessions /\ s.mode = "transaction")
  /\ pc = "begin" => acked[s.n] = {}
  /\ pc \in {"begin", "body", "join", "finish"} => outcome[s.n] = "running" /\ \A x \in c.stored : x[1] < s.n
  /\ pc \in {"body", "join", "finish"} =>
       /\ s.tx /\ Txn(c) /\ Held(c)
       /\ ~ s.failed /\ c.up => c.tx # "aborted" /\ c.rows = acked[s.n]
TxInv == c.kind \in {"mysql", "postgres"} => TxState

\* What the refinement mapping makes of the variables, and a step of it.
Mapped == <<Claimed(c.stored, {}), Claimed(acked, [n \in Sessions |-> {}]),
            Claimed(outcome, [n \in Sessions |-> "none"])>>
Stepped == [Abstract!Next]_Mapped
InTx == c.kind \in {"mysql", "postgres"}

\* A step that changes none of it, and any step of the other drivers.
LEMMA StepsNot ==
  ASSUME c'.kind = c.kind, ~ InTx \/ (c'.stored = c.stored /\ acked' = acked /\ outcome' = outcome)
  PROVE  Stepped
  BY DEF Stepped, Mapped, Claimed, InTx

\* A session starts.
LEMMA StepsStart ==
  ASSUME c'.kind = c.kind, InTx, NEW n \in Sessions, outcome[n] = "none",
         outcome' = [outcome EXCEPT ![n] = "running"], c'.stored = c.stored, acked' = acked
  PROVE  Stepped
<1>1. Abstract!Start(n)
  BY DEF Abstract!Start, Claimed, InTx
<1> QED
  BY <1>1 DEF Stepped, Abstract!Next

\* Rows are written.
LEMMA StepsWrite ==
  ASSUME c'.kind = c.kind, InTx, NEW n \in Sessions, outcome[n] = "running", acked[n] \cap c.stored = {},
         NEW W \in SUBSET (Rows \ acked[n]), acked' = [acked EXCEPT ![n] = acked[n] \cup W],
         outcome' = outcome, c'.stored = c.stored
  PROVE  Stepped
<1>1. Abstract!Write(n)
  BY DEF Abstract!Write, Claimed, InTx
<1> QED
  BY <1>1 DEF Stepped, Abstract!Next

\* A transaction ends.
LEMMA StepsFinish ==
  ASSUME c'.kind = c.kind, InTx, NEW n \in Sessions, outcome[n] = "running", NEW told \in {"ok", "failed", "doubt"},
         \/ told # "failed" /\ c'.stored = c.stored \cup acked[n]
         \/ told # "ok" /\ c'.stored = c.stored,
         outcome' = [outcome EXCEPT ![n] = told], acked' = acked
  PROVE  Stepped
<1>1. Abstract!Finish(n, told)
  BY DEF Abstract!Finish, Claimed, InTx
<1> QED
  BY <1>1 DEF Stepped, Abstract!Next

\* The ledger is kept when only the session of the thread is told anything.
LEMMA LedgerKept ==
  ASSUME Ledger, s.n \in Nat, s'.n = s.n, acked' = acked,
         outcome' = outcome \/ \E v : outcome' = [outcome EXCEPT ![s.n] = v],
         \/ pc' = "idle"
         \/ pc # "idle" /\ s.n \in Sessions /\ s.calls \in Nat /\ s'.calls \in Nat /\ Returned <= Returned'
  PROVE  Ledger'
<1>1. DOMAIN acked' = Sessions /\ DOMAIN outcome' = Sessions
  BY DEF Ledger
<1>2. \A n \in Sessions : n > s.n => outcome'[n] = "none" /\ acked'[n] = {}
  BY DEF Ledger
<1>3. ASSUME pc' # "idle" PROVE \A x \in acked'[s'.n] : x[2] <= Returned'
  BY <1>3 DEF Ledger, Returned
<1> QED
  BY <1>1, <1>2, <1>3 DEF Ledger

\* Steps of the thread and of its watcher inside the transaction.
LEMMA TxGoesOn ==
  ASSUME RowInv, InTx, TxState, pc \in {"body", "join", "finish"}, pc' \in {"body", "join", "finish"},
         s'.n = s.n, s'.mode = s.mode, s'.tx, s'.calls \in Nat, s'.calls <= MaxCalls, Returned <= Returned',
         acked' = acked, outcome' = outcome, c'.kind = c.kind, c'.stored = c.stored, Txn(c'), Held(c'),
         ~ s'.failed /\ c'.up => ~ s.failed /\ c.up /\ c'.tx = c.tx /\ c'.rows = c.rows
  PROVE  TxState' /\ Stepped
<1>1. Ledger'
  BY LedgerKept DEF TxState, RowInv
<1>2. (Txn(c) /\ Held(c))'
  BY DEF Txn, Held
<1>3. TxState'
  BY <1>1, <1>2 DEF TxState
<1> QED
  BY <1>3, StepsNot

\* An operation starts, the callback ends, or the watcher is joined.
LEMMA ThreadTx ==
  ASSUME SessionInv, RowInv, Disciplined, InTx, TxState, (\E o \in Ops : CallOp(o)) \/ CallbackEnds \/ Join
  PROVE  TxState' /\ Stepped
<1>0. /\ DOMAIN s = SessionFields /\ s.n \in Nat /\ s.calls \in Nat /\ IsConn(c) /\ (op # "none" => pc = "body")
      /\ s.failed \in BOOLEAN
  BY DEF SessionInv, Counted, Inside, RowInv
<1>1. CASE \E o \in Ops : CallOp(o)
  <2>1. PICK o \in Ops : CallOp(o)
    BY <1>1
  <2>2. /\ pc = "body" /\ pc' = pc /\ op = "none" /\ op' = o /\ acked' = acked /\ outcome' = outcome
        /\ s' = IF o = "closeCursor" THEN s ELSE [s EXCEPT !.calls = s.calls + 1]
        /\ s.calls < MaxCalls \/ o = "closeCursor"
        /\ c' = [c EXCEPT !.slot = Registers(c, o)]
    BY <2>1 DEF CallOp, Start, histories
  <2>3. /\ s'.n = s.n /\ s'.calls = (IF o = "closeCursor" THEN s.calls ELSE s.calls + 1)
        /\ s'.mode = s.mode /\ s'.tx = s.tx /\ s'.failed = s.failed
    BY <1>0, <2>2 DEF SessionFields
  <2>4. s'.calls \in Nat /\ s'.calls <= MaxCalls /\ Returned <= Returned'
    <3>1. CASE o = "closeCursor"
      BY <1>0, <2>2, <2>3, <3>1 DEF Writing, Returned, TxState
    <3>2. CASE o # "closeCursor"
      BY <1>0, <2>2, <2>3, <3>2, SessionAssumption DEF Writing, Returned
    <3> QED
      BY <3>1, <3>2
  <2>5. /\ c'.kind = c.kind /\ c'.stored = c.stored /\ c'.up = c.up /\ c'.tx = c.tx /\ c'.rows = c.rows
        /\ c'.flag = c.flag /\ c'.cursor = c.cursor /\ c'.auto = c.auto
    BY <1>0, <2>2 DEF IsConn, Fields
  <2>6. s.tx /\ Txn(c') /\ Held(c')
    BY <2>2, <2>5 DEF TxState, Txn, Held
  <2> QED
    BY <2>2, <2>3, <2>4, <2>5, <2>6, TxGoesOn
<1>2. CASE CallbackEnds \/ Join
  <2>1. /\ c' = c /\ acked' = acked /\ op' = op /\ ~ Writing
        /\ pc \in {"body", "join"}
    BY <1>0, <1>2 DEF CallbackEnds, Join, histories, Writing
  <2>2. s.mode = "transaction" /\ s.tx /\ Txn(c) /\ Held(c) /\ s.calls <= MaxCalls
    BY <2>1 DEF TxState
  <2>3. outcome' = outcome /\ pc' \in {"join", "finish"}
    BY <1>2, <2>2 DEF CallbackEnds, Join, histories
  <2>4. s' = s \/ \E f \in BOOLEAN : s' = [s EXCEPT !.failed = f] /\ (s.failed => f)
    BY <1>2 DEF CallbackEnds, Join, Disciplined
  <2>5. s'.n = s.n /\ s'.calls = s.calls /\ s'.mode = s.mode /\ s'.tx = s.tx /\ (~ s'.failed => ~ s.failed)
    BY <1>0, <2>4 DEF SessionFields
  <2>6. Returned <= Returned'
    BY <1>0, <2>1, <2>5 DEF Returned, Writing
  <2> QED
    BY <1>0, <2>1, <2>2, <2>3, <2>5, <2>6, TxGoesOn
<1> QED
  BY <1>1, <1>2

\* The watcher: at most the session of the server is lost.
LEMMA WatcherTx ==
  ASSUME SessionInv, RowInv, Disciplined, InTx, TxState,
         WatcherTimeout \/ WatcherCancels \/ WatcherTakes \/ WatcherCancelsTaken
  PROVE  TxState' /\ Stepped
<1>0. DOMAIN s = SessionFields /\ s.n \in Nat /\ s.calls \in Nat /\ IsConn(c) /\ Known(c)
  BY DEF SessionInv, Counted, RowInv
<1>1. pc \in {"body", "join"}
  BY DEF SessionInv, Inside, WatcherTimeout, WatcherCancels, WatcherTakes, WatcherCancelsTaken
<1>2. /\ pc' = pc /\ op' = op /\ acked' = acked /\ outcome' = outcome
      /\ s' = s \/ \E x : s' = [s EXCEPT !.bad = x]
  BY DEF WatcherTimeout, WatcherCancels, WatcherTakes, WatcherCancelsTaken, Cancelled, histories
<1>3. s'.n = s.n /\ s'.calls = s.calls /\ s'.mode = s.mode /\ s'.tx = s.tx /\ s'.failed = s.failed
  BY <1>0, <1>2 DEF SessionFields
<1>4. c' = c \/ c' = Gone(c)
  <2>1. c.kind # "odbc"
    BY DEF InTx
  <2>2. CASE WatcherTimeout \/ WatcherTakes
    BY <2>1, <2>2 DEF WatcherTimeout, WatcherTakes
  <2>3. CASE WatcherCancels \/ WatcherCancelsTaken
    <3>1. PICK r \in DriverCancel : c' = r.c
      BY <2>3 DEF WatcherCancels, WatcherCancelsTaken, Cancelled
    <3>2. r \in MysqlCancel(c) \cup PgCancel(c)
      BY <3>1 DEF DriverCancel, Of, InTx
    <3> QED
      BY <3>1, <3>2, ResFields DEF MysqlCancel, PgCancel, Refused
  <2> QED
    BY <2>2, <2>3
<1>5. /\ c'.kind = c.kind /\ c'.stored = c.stored /\ c'.flag = c.flag /\ c'.cursor = c.cursor /\ c'.auto = c.auto
      /\ c'.up => c.up /\ c'.tx = c.tx /\ c'.rows = c.rows
  BY <1>0, <1>4 DEF Gone, IsConn, Fields
<1>6. s.tx /\ Txn(c') /\ Held(c') /\ s.calls <= MaxCalls
  BY <1>1, <1>5 DEF TxState, Txn, Held
<1>7. Returned <= Returned'
  BY <1>0, <1>2, <1>3 DEF Returned, Writing
<1> QED
  BY <1>0, <1>1, <1>2, <1>3, <1>5, <1>6, <1>7, TxGoesOn

\* An operation returns: what the caller is told is what the transaction holds.
LEMMA ReturnTx ==
  ASSUME SessionInv, RowInv, Disciplined, InTx, TxState,
         ReturnOp \/ ReturnPrepare \/ ReturnExecutePrepared \/ ReturnPrepared
  PROVE  TxState' /\ Stepped
<1>0. /\ DOMAIN s = SessionFields /\ s.n \in Nat /\ s.calls \in Nat /\ IsConn(c) /\ s.failed \in BOOLEAN
      /\ op \in Ops \cup {"none"} /\ pc = "body" /\ op # "none" /\ (Writing => s.calls > 0)
  BY DEF SessionInv, Counted, RowInv, ReturnOp, ReturnPrepare, ReturnExecutePrepared, ReturnPrepared
<1>1. op \notin {"begin", "commit", "rollback"} /\ ~ SwallowedFail
  BY <1>0 DEF Disciplined
<1>2. /\ s.tx /\ Txn(c) /\ Held(c) /\ s.calls <= MaxCalls /\ s.n \in Sessions /\ outcome[s.n] = "running" /\ Ledger
      /\ s.mode = "transaction" /\ (\A x \in c.stored : x[1] < s.n)
      /\ ~ s.failed /\ c.up => c.tx # "aborted" /\ c.rows = acked[s.n]
  BY <1>0 DEF TxState
<1>a. PICK W \in SUBSET Now : \E r : Return(op, W, r) /\ Does(c, r, W) /\ Txn(r.c)
  BY <1>1, <1>2, ReturnWorked
<1>3. PICK r : Return(op, W, r) /\ Does(c, r, W) /\ Txn(r.c)
  BY <1>a
<1>4. /\ c' = [r.c EXCEPT !.slot = FALSE] /\ op' = "none" /\ pc' = pc /\ outcome' = outcome
      /\ s' = [s EXCEPT !.tx = TxAfter(op, r.st), !.bad = BadAfter(op, r.st), !.failed = s.failed \/ r.st # "ok"]
      /\ acked' = IF r.st = "ok" THEN [acked EXCEPT ![s.n] = acked[s.n] \cup W] ELSE acked
  BY <1>3 DEF Return
<1>5. IsConn(r.c) /\ r.c.kind = c.kind
  BY <1>3, DoesIs
<1>6. /\ c'.kind = r.c.kind /\ c'.stored = r.c.stored /\ c'.up = r.c.up /\ c'.tx = r.c.tx /\ c'.rows = r.c.rows
      /\ c'.flag = r.c.flag /\ c'.cursor = r.c.cursor /\ c'.auto = r.c.auto
  BY <1>4, <1>5 DEF IsConn, Fields
<1> DEFINE tx == TxAfter(op, r.st)
           bad == BadAfter(op, r.st)
           failed == s.failed \/ r.st # "ok"
<1>7. tx
  BY <1>1, <1>2 DEF TxAfter
<1>9. ~ failed => ~ s.failed /\ r.st = "ok"
  OBVIOUS
<1>10. s' = [s EXCEPT !.tx = tx, !.bad = bad, !.failed = failed]
  BY <1>4
<1> HIDE DEF tx, bad, failed
<1>11. s'.n = s.n /\ s'.calls = s.calls /\ s'.mode = s.mode /\ s'.tx = tx /\ s'.failed = failed
  BY <1>0, <1>10 DEF SessionFields
<1>12. c'.stored = c.stored /\ (Txn(c) /\ Held(c))'
  BY <1>2, <1>3, <1>6 DEF Does, Work, Txn, Held
<1>13. ASSUME ~ failed, c'.up PROVE c'.tx # "aborted" /\ c'.rows = acked'[s.n]
  <2>1. Did(c, r.c, W) /\ c.up /\ ~ s.failed /\ r.st = "ok"
    BY <1>2, <1>3, <1>6, <1>9, <1>13 DEF Does, Work
  <2>2. c'.tx # "aborted" /\ c'.rows = acked[s.n] \cup W
    BY <1>1, <1>2, <1>6, <1>13, <2>1 DEF Did, Wrought
  <2>3. acked'[s.n] = acked[s.n] \cup W
    BY <1>2, <1>4, <2>1 DEF Ledger
  <2> QED
    BY <2>2, <2>3
<1>14. \A x \in W : x \in Rows /\ x[1] = s.n /\ x[2] = s.calls /\ x \notin acked[s.n]
  <2> SUFFICES ASSUME NEW x \in W PROVE x \in Rows /\ x[1] = s.n /\ x[2] = s.calls /\ x \notin acked[s.n]
    OBVIOUS
  <2>1. Writing /\ (x = Row(1) \/ x = Row(2))
    BY <1>3 DEF Now, Writing
  <2>2. x[1] = s.n /\ x[2] = s.calls /\ Returned = s.calls - 1
    BY <2>1 DEF Row, Returned
  <2>3. s.calls \in 1..MaxCalls
    BY <1>0, <1>2, <2>1, SessionAssumption
  <2>4. x \in Rows
    BY <1>2, <2>1, <2>3 DEF Rows, Row
  <2>5. x \notin acked[s.n]
    BY <1>0, <1>2, <2>2 DEF Ledger
  <2> QED
    BY <2>2, <2>4, <2>5
<1>15. ~ Writing' /\ Returned <= Returned'
  BY <1>0, <1>4, <1>11 DEF Writing, Returned
<1>16. CASE r.st # "ok"
  <2>1. acked' = acked
    BY <1>4, <1>16
  <2>2. failed
    BY <1>16 DEF failed
  <2> QED
    BY <1>0, <1>2, <1>4, <1>5, <1>6, <1>7, <1>11, <1>12, <1>15, <2>1, <2>2, TxGoesOn DEF Txn, Held
<1>17. CASE r.st = "ok"
  <2>1. acked' = [acked EXCEPT ![s.n] = acked[s.n] \cup W]
    BY <1>4, <1>17
  <2>2. Ledger'
    <3>1. DOMAIN acked' = Sessions /\ DOMAIN outcome' = Sessions
      BY <1>2, <1>4, <2>1 DEF Ledger
    <3>2. acked'[s.n] = acked[s.n] \cup W /\ \A n \in Sessions : n # s.n => acked'[n] = acked[n]
      BY <1>2, <2>1 DEF Ledger
    <3>3. \A n \in Sessions : n > s.n => outcome'[n] = "none" /\ acked'[n] = {}
      BY <1>0, <1>2, <1>4, <3>2 DEF Ledger
    <3>4. \A n \in Sessions : \A x \in acked'[n] : x[1] = n /\ x[2] \in Nat
      BY <1>0, <1>2, <1>14, <3>2 DEF Ledger
    <3>5. \A x \in acked'[s.n] : x[2] <= Returned'
      BY <1>0, <1>2, <1>4, <1>11, <1>14, <1>15, <3>2 DEF Ledger, Returned
    <3> QED
      BY <1>11, <3>1, <3>3, <3>4, <3>5 DEF Ledger
  <2>3. TxState'
    BY <1>0, <1>2, <1>4, <1>7, <1>11, <1>12, <1>13, <2>2 DEF TxState
  <2>4. W \in SUBSET (Rows \ acked[s.n])
    BY <1>14
  <2>5. acked[s.n] \cap c.stored = {}
    BY <1>0, <1>2 DEF Ledger
  <2> QED
    BY <1>2, <1>4, <1>5, <1>6, <1>12, <2>1, <2>3, <2>4, <2>5, StepsWrite
<1> QED
  BY <1>16, <1>17

\* A session begins: it is the next one, and nothing is stored.
LEMMA BorrowTx ==
  ASSUME SessionInv, RowInv, Disciplined, InTx, TxState, NEW mode \in Modes, Borrow(mode)
  PROVE  TxState' /\ Stepped
<1>0. IsConn(c) /\ s.n \in Nat /\ mode = "transaction" /\ (op # "none" => pc = "body")
  BY DEF SessionInv, Inside, RowInv, Disciplined
<1>1. /\ pc = "idle" /\ s.n < MaxSessions /\ s' = [NoSession EXCEPT !.n = s.n + 1, !.mode = mode]
      /\ outcome' = [outcome EXCEPT ![s.n + 1] = "running"] /\ pc' = "begin" /\ op' = op /\ acked' = acked
  BY <1>0 DEF Borrow
<1>2. s'.n = s.n + 1 /\ s'.calls = 0 /\ s'.mode = "transaction" /\ s'.n \in Sessions /\ ~ Writing'
  BY <1>0, <1>1, SessionAssumption DEF NoSession, Sessions, Writing
<1>3. c'.stored = c.stored /\ c'.kind = c.kind
  <2>1. CASE c' \in Reused
    <3>1. c' = c \/ \E r \in Ping(c) : c' = r.c
      BY <2>1 DEF Reused
    <3>2. ASSUME NEW r \in Ping(c) PROVE r.c \in {c, Errored(c), Gone(c)}
      <4>1. (r \in Refused(c)) \/ (r \in Sent(c, Ok(c)))
        BY <3>2 DEF Ping, Of, InTx, MysqlPing, MysqlSend, PgPing
      <4> QED
        BY <4>1, SentCases, ResFields DEF Refused, Ok
    <3>3. c' \in {c, Errored(c), Gone(c)}
      BY <3>1, <3>2
    <3> QED
      BY <1>0, <3>3 DEF Errored, Gone, IsConn, Fields
  <2>2. CASE \E r \in Connect(Fresh) : r.st = "ok" /\ c' = r.c
    <3>1. PICK r \in Connect(Fresh) : r.st = "ok" /\ c' = r.c
      BY <2>2
    <3>2. /\ IsConn(Fresh) /\ ~ Fresh.slot /\ Fresh.cursor = "none" /\ Fresh.auto
          /\ Fresh.kind = c.kind /\ Fresh.stored = c.stored
      BY <1>0 DEF Fresh, Closed, IsConn, Fields, CursorStates
    <3> HIDE DEF Fresh
    <3> QED
      BY <3>1, <3>2, ConnectResult DEF InTx
  <2> QED
    BY <2>1, <2>2 DEF Borrow
<1>4. Ledger /\ outcome[s.n + 1] = "none" /\ acked[s.n + 1] = {}
  BY <1>0, <1>2 DEF TxState, Ledger
<1>5. Ledger'
  <2>1. DOMAIN acked' = Sessions /\ DOMAIN outcome' = Sessions
    BY <1>1, <1>4 DEF Ledger
  <2>2. ASSUME NEW n \in Sessions, n > s'.n PROVE outcome'[n] = "none" /\ acked'[n] = {}
    <3>1. n > s.n /\ n # s.n + 1
      BY <1>0, <1>2, <2>2 DEF Sessions
    <3> QED
      BY <1>1, <1>4, <2>2, <3>1 DEF Ledger
  <2>3. \A n \in Sessions : \A x \in acked'[n] : x[1] = n /\ x[2] \in Nat
    BY <1>1, <1>4 DEF Ledger
  <2>4. acked'[s'.n] = {}
    BY <1>1, <1>2, <1>4
  <2> QED
    BY <2>1, <2>2, <2>3, <2>4 DEF Ledger
<1>6. \A x \in c'.stored : x[1] < s'.n
  <2>1. \A x \in c.stored : Old(x)
    BY DEF RowInv
  <2> QED
    BY <1>0, <1>1, <1>2, <1>3, <2>1 DEF Old
<1>7. outcome'[s'.n] = "running" /\ acked'[s'.n] = {}
  BY <1>1, <1>2, <1>4 DEF Ledger
<1>8. TxState'
  BY <1>1, <1>2, <1>5, <1>6, <1>7, SessionAssumption DEF TxState
<1> QED
  BY <1>1, <1>2, <1>3, <1>4, <1>8, StepsStart

\* After the transaction has ended there is only the ledger.
LEMMA TxOver ==
  ASSUME SessionInv, RowInv, TxState, pc # "idle", s'.n = s.n, s'.calls \in Nat, s'.calls <= MaxCalls,
         acked' = acked, outcome' = outcome \/ \E v : outcome' = [outcome EXCEPT ![s.n] = v],
         \/ pc' = "idle"
         \/ pc' = "release" /\ s'.mode = s.mode /\ Returned <= Returned'
  PROVE  TxState'
<1>1. s.n \in Sessions /\ s.mode = "transaction" /\ s.n \in Nat /\ s.calls \in Nat /\ Ledger
  BY DEF TxState, RowInv
<1>2. Ledger'
  BY <1>1, LedgerKept
<1> QED
  BY <1>1, <1>2 DEF TxState

\* begin: with the transaction the server holds nothing yet; without it the
\* session has failed.
LEMMA TxBeginTx ==
  ASSUME SessionInv, RowInv, Disciplined, InTx, TxState, TxBegin
  PROVE  TxState' /\ Stepped
<1>0. /\ DOMAIN s = SessionFields /\ s.n \in Nat /\ s.calls \in Nat /\ IsConn(c) /\ Known(c) /\ pc = "begin"
      /\ op = "none" /\ c.cursor = "none" /\ s.failed \in BOOLEAN
  BY DEF SessionInv, Counted, Inside, Placed, RowInv, TxBegin
<1>1. PICK r \in Begin(c) :
        /\ c' = r.c
        /\ s' = [s EXCEPT !.tx = (r.st = "ok"), !.bad = (r.st = "broken")]
        /\ pc' = IF r.st = "ok" THEN "body" ELSE "release"
        /\ outcome' = IF r.st = "ok" THEN outcome ELSE [outcome EXCEPT ![s.n] = "failed"]
  BY DEF TxBegin
<1>2. op' = op /\ acked' = acked
  BY DEF TxBegin
<1> DEFINE ok == (r.st = "ok")
           bad == (r.st = "broken")
<1>3. s' = [s EXCEPT !.tx = ok, !.bad = bad] /\ (ok <=> r.st = "ok")
  BY <1>1
<1> HIDE DEF ok, bad
<1>4. s'.n = s.n /\ s'.calls = s.calls /\ s'.mode = s.mode /\ s'.tx = ok /\ s'.failed = s.failed
  BY <1>0, <1>3 DEF SessionFields
<1>5. /\ s.n \in Sessions /\ s.mode = "transaction" /\ s.calls <= MaxCalls /\ acked[s.n] = {} /\ Ledger
      /\ outcome[s.n] = "running" /\ \A x \in c.stored : x[1] < s.n
  BY <1>0 DEF TxState
<1>6. /\ c'.kind = c.kind /\ c'.stored = c.stored
      /\ r.st = "ok" => Held(c') /\ c'.rows = c.rows /\ c'.flag /\ c'.tx = "open" /\ ~ c.flag
  BY <1>0, <1>1, BeginWork DEF InTx
<1>7. Returned <= Returned' /\ s'.calls \in Nat
  BY <1>0, <1>2, <1>4 DEF Returned, Writing
<1>8. CASE r.st # "ok"
  <2>1. pc' = "release" /\ outcome' = [outcome EXCEPT ![s.n] = "failed"]
    BY <1>1, <1>8
  <2>2. TxState'
    BY <1>0, <1>2, <1>4, <1>5, <1>7, <2>1, TxOver
  <2> QED
    BY <1>2, <1>5, <1>6, <2>1, <2>2, StepsFinish
<1>9. CASE r.st = "ok"
  <2>1. pc' = "body" /\ outcome' = outcome /\ ok
    BY <1>1, <1>3, <1>9
  <2>2. c.tx = "none" /\ c.rows = {}
    BY <1>0, <1>6, <1>9 DEF Known, IsConn, InTx
  <2>3. c'.cursor = "none"
    BY <1>0, <1>1, <1>9, BeginResult DEF Began, Same
  <2>4. (Txn(c) /\ Held(c))'
    BY <1>6, <1>9, <2>3 DEF Txn, InTx, Held
  <2>5. Ledger'
    BY <1>0, <1>2, <1>4, <1>5, <1>7, <2>1, LedgerKept
  <2>6. TxState'
    BY <1>2, <1>4, <1>5, <1>6, <1>9, <2>1, <2>2, <2>4, <2>5 DEF TxState
  <2> QED
    BY <1>2, <1>6, <2>1, <2>6, StepsNot
<1> QED
  BY <1>8, <1>9

\* The transaction ends, and its caller is told how.
LEMMA TxFinishTx ==
  ASSUME SessionInv, RowInv, Disciplined, InTx, TxState, TxFinish
  PROVE  TxState' /\ Stepped
<1>0. /\ DOMAIN s = SessionFields /\ s.n \in Nat /\ s.calls \in Nat /\ IsConn(c) /\ pc = "finish"
      /\ (op # "none" => pc = "body")
  BY DEF SessionInv, Counted, Inside, RowInv, TxFinish
<1>1. PICK r \in TxEnd : /\ c' = r.c
                         /\ s' = [s EXCEPT !.tx = FALSE, !.bad = s.bad \/ r.st = "broken"]
                         /\ outcome' = [outcome EXCEPT ![s.n] = Told(r.st)]
  BY DEF TxFinish
<1>2. pc' = "release" /\ op' = op /\ acked' = acked
  BY DEF TxFinish
<1>3. s'.n = s.n /\ s'.calls = s.calls /\ s'.mode = s.mode
  BY <1>0, <1>1 DEF SessionFields
<1>4. /\ s.n \in Sessions /\ s.calls <= MaxCalls /\ s.tx /\ outcome[s.n] = "running"
      /\ ~ s.failed /\ c.up => c.tx # "aborted" /\ c.rows = acked[s.n]
  BY <1>0 DEF TxState
<1>5. Returned <= Returned' /\ s'.calls \in Nat
  BY <1>0, <1>2, <1>3 DEF Returned, Writing
<1>6. TxState'
  BY <1>0, <1>1, <1>2, <1>3, <1>4, <1>5, TxOver
<1>7. c'.kind = c.kind
  BY OthersKept
<1>8. CASE s.failed \/ timedOut
  <2>1. Told(r.st) = "failed" /\ r \in Rollback(c)
    BY <1>1, <1>8 DEF Told, TxEnd
  <2>2. c'.stored = c.stored
    BY <1>0, <1>1, <2>1, EndStores DEF InTx
  <2> QED
    BY <1>1, <1>2, <1>4, <1>6, <1>7, <2>1, <2>2, StepsFinish
<1>9. CASE ~ (s.failed \/ timedOut)
  <2>1. Told(r.st) = (IF r.st = "ok" THEN "ok" ELSE "doubt") /\ r \in Commit(c)
    BY <1>1, <1>4, <1>9 DEF Told, TxEnd
  <2>2. Stores(c, r)
    BY <1>0, <2>1, EndStores DEF InTx
  <2>3. CASE r.st = "ok"
    <3>1. c'.stored = c.stored \cup acked[s.n]
      BY <1>1, <1>4, <1>9, <2>2, <2>3 DEF Stores
    <3> QED
      BY <1>1, <1>2, <1>4, <1>6, <1>7, <2>1, <2>3, <3>1, StepsFinish
  <2>4. CASE r.st # "ok"
    <3>1. c'.stored = c.stored \/ c'.stored = c.stored \cup acked[s.n]
      BY <1>1, <1>4, <1>9, <2>2 DEF Stores
    <3> QED
      BY <1>1, <1>2, <1>4, <1>6, <1>7, <2>1, <2>4, <3>1, StepsFinish
  <2> QED
    BY <2>3, <2>4
<1> QED
  BY <1>8, <1>9

\* The session goes: whatever is still open is rolled back.
LEMMA ReleaseTx ==
  ASSUME SessionInv, RowInv, Disciplined, InTx, TxState, Release
  PROVE  TxState' /\ Stepped
<1>0. IsConn(c) /\ s.n \in Nat
  BY DEF SessionInv, RowInv
<1>1. PICK r \in CleanedUp : c' = r.c \/ c' \in Close(r.c)
  BY DEF Release
<1>2. /\ pc = "release" /\ pc' = "idle" /\ s' = [NoSession EXCEPT !.n = s.n] /\ acked' = acked /\ outcome' = outcome
  BY DEF Release, histories
<1>3. s'.n = s.n /\ s'.calls = 0
  BY <1>2 DEF NoSession
<1>4. IsConn(r.c) /\ r.c.kind = c.kind /\ r.c.stored = c.stored
  <2>1. CASE r \in Rollback(c)
    BY <1>0, <2>1, EndStores, EndResult DEF Fine, Same, InTx
  <2>2. CASE r \in Ok(c)
    BY <1>0, <2>2, ResFields DEF Ok
  <2> QED
    BY <1>1, <2>1, <2>2 DEF CleanedUp
<1>5. c'.stored = c.stored /\ c'.kind = c.kind
  BY <1>1, <1>4, CloseResult DEF InTx
<1>6. TxState'
  BY <1>2, <1>3, SessionAssumption, TxOver
<1> QED
  BY <1>2, <1>5, <1>6, StepsNot

\* Every step.
LEMMA NextTx ==
  ASSUME SessionInv, RowInv, Disciplined, TxInv, [Next]_vars
  PROVE  TxInv' /\ Stepped
<1>1. CASE UNCHANGED vars
  <2>1. TxInv'
    BY <1>1 DEF vars, TxInv, TxState, Ledger, Returned, Writing, Txn, Held
  <2> QED
    BY <1>1, <2>1, StepsNot DEF vars
<1>2. CASE Next
  <2>1. c'.kind = c.kind
    BY <1>2, ReturnKept, BorrowKept, OthersKept DEF Next, BorrowNew
  <2>2. CASE ~ InTx
    <3>1. TxInv'
      BY <2>1, <2>2 DEF TxInv, InTx
    <3> QED
      BY <2>1, <2>2, <3>1, StepsNot
  <2>3. CASE InTx
    <3>1. TxState
      BY <2>3 DEF TxInv, InTx
    <3>2. ~ (CursorOpen \/ CursorFetch \/ CursorClose)
      BY <3>1 DEF TxState, CursorOpen, CursorFetch, CursorClose
    <3>3. TxState' /\ Stepped
      <4>1. CASE \E mode \in Modes : Borrow(mode)
        BY <2>3, <3>1, <4>1, BorrowTx
      <4>2. CASE (\E o \in Ops : CallOp(o)) \/ CallbackEnds \/ Join
        BY <2>3, <3>1, <4>2, ThreadTx
      <4>3. CASE ReturnOp \/ ReturnPrepare \/ ReturnExecutePrepared \/ ReturnPrepared
        BY <2>3, <3>1, <4>3, ReturnTx
      <4>4. CASE WatcherTimeout \/ WatcherCancels \/ WatcherTakes \/ WatcherCancelsTaken
        BY <2>3, <3>1, <4>4, WatcherTx
      <4> QED
        BY <1>2, <2>3, <3>1, <3>2, <4>1, <4>2, <4>3, <4>4, TxBeginTx, TxFinishTx, ReleaseTx DEF Next
    <3> QED
      BY <3>3 DEF TxInv
  <2> QED
    BY <2>2, <2>3
<1> QED
  BY <1>1, <1>2

-----------------------------------------------------------------------------
(* The theorems. *)

\* The session, its thread, its watcher, the connection and the server stay in
\* step (Session, withSession, transactionInternal and openCursor over every
\* driver), for any number of sessions, calls and statements.
THEOREM SessionInStep == Spec => []SessionInv
<1>1. Init => SessionInv
  <2> SUFFICES ASSUME Init PROVE SessionInv
    OBVIOUS
  <2>1. PICK kind \in Kinds : c = Closed(kind)
    BY SessionAssumption DEF Init
  <2>2. IsConn(c) /\ Known(c) /\ ~ c.slot /\ c.cursor = "none" /\ ~ c.up
    BY <2>1 DEF Closed, IsConn, Known, Fields, CursorStates
  <2>3. /\ DOMAIN s = SessionFields /\ s.tx = FALSE /\ s.bad = FALSE /\ s.failed = FALSE
        /\ pc = "idle" /\ op = "none" /\ depth = 0 /\ watcher = "none" /\ stained = FALSE
    BY DEF Init, NoSession, SessionFields
  <2> QED
    BY <2>2, <2>3 DEF SessionInv, Counted, Inside, Placed, Agreed, Agrees
<1>2. ASSUME SessionInv, [Next]_vars PROVE SessionInv'
  <2>1. CASE UNCHANGED vars
    <3>1. c' = c /\ s' = s /\ pc' = pc /\ op' = op /\ depth' = depth /\ watcher' = watcher /\ stained' = stained
      BY <2>1 DEF vars
    <3>2. Counted'
      BY <1>2, <3>1, Zenon DEF SessionInv, Counted
    <3> QED
      BY <1>2, <3>1, <3>2 DEF SessionInv, IsConn, Known, Inside, Placed, Agreed
  <2>2. CASE \E mode \in Modes : Borrow(mode)
    BY <1>2, <2>2, BorrowInv
  <2>3. CASE \E o \in Ops : CallOp(o)
    BY <1>2, <2>3, CallOpInv
  <2>4. CASE ReturnOp
    BY <1>2, <2>4, ReturnOpInv
  <2>5. CASE ReturnPrepare \/ ReturnExecutePrepared \/ ReturnPrepared
    BY <1>2, <2>5, ReturnPreparesInv
  <2>6. CASE TxBegin
    BY <1>2, <2>6, TxBeginInv
  <2>7. CASE CallbackEnds
    BY <1>2, <2>7, CallbackEndsInv
  <2>8. CASE Join
    BY <1>2, <2>8, JoinInv
  <2>9. CASE TxFinish
    BY <1>2, <2>9, TxFinishInv
  <2>10. CASE Release
    BY <1>2, <2>10, ReleaseInv
  <2>11. CASE WatcherTimeout \/ WatcherCancels \/ WatcherTakes \/ WatcherCancelsTaken
    BY <1>2, <2>11, WatcherInv
  <2>12. CASE CursorOpen \/ CursorFetch \/ CursorClose
    BY <1>2, <2>12, CursorInv
  <2> QED
    BY <1>2, <2>1, <2>2, <2>3, <2>4, <2>5, <2>6, <2>7, <2>8, <2>9, <2>10, <2>11, <2>12 DEF Next
<1> QED
  BY <1>1, <1>2, PTL DEF Spec

\* gTxDepth is the number of transactions of the thread, after every failure.
THEOREM SessionDepthCounts == Spec => []DepthCounts
<1>1. SessionInv => DepthCounts
  BY Zenon DEF SessionInv, Counted, DepthCounts
<1> QED
  BY <1>1, SessionInStep, PTL

\* The watcher cancels only while the callback runs or join waits.
THEOREM SessionWatcherInside == Spec => []WatcherInside
<1>1. SessionInv => WatcherInside
  BY DEF SessionInv, Inside, WatcherInside
<1> QED
  BY <1>1, SessionInStep, PTL

\* inTransaction of MySQL and PostgreSQL tells the truth about the server.
THEOREM SessionNoHiddenTx == Spec => []NoHiddenTx
<1>1. SessionInv => NoHiddenTx
  BY DEF SessionInv, Known, NoHiddenTx
<1> QED
  BY <1>1, SessionInStep, PTL

\* What goes back to the pool is in nobody's transaction.
THEOREM SessionCleanWhenPooled == Spec => []CleanWhenPooled
<1>1. ASSUME SessionInv PROVE CleanWhenPooled
  <2> SUFFICES ASSUME pc = "idle"
               PROVE  /\ c.cursor = "none" /\ ~ c.slot
                      /\ ~ stained /\ c.up /\ c.kind # "oracle" => c.tx = "none" /\ c.auto /\ ~ c.flag
    BY DEF CleanWhenPooled
  <2>1. c.cursor = "none" /\ op = "none" /\ ~ c.slot
    BY <1>1 DEF SessionInv, Inside, Placed, IsConn
  <2>2. ~ s.tx
    BY <1>1 DEF SessionInv, Counted
  <2>3. ASSUME ~ stained, c.up, c.kind # "oracle" PROVE c.tx = "none" /\ c.auto /\ ~ c.flag
    BY <1>1, <2>1, <2>2, <2>3 DEF SessionInv, Agreed, Agrees, Known, IsConn, Kinds
  <2> QED
    BY <2>1, <2>3
<1> QED
  BY <1>1, SessionInStep, PTL

\* The prepared statements of the connection stay in step, and so do the handles
\* given out by it.
THEOREM SessionPrepared == Spec => []PreparedInv
<1>1. Init => PreparedInv
  <2> SUFFICES ASSUME Init PROVE PreparedInv
    OBVIOUS
  <2>1. PICK kind \in Used : c = Closed(kind)
    BY DEF Init
  <2>2. c.cache = {} /\ c.names = {} /\ c.lru = <<>> /\ c.stmts = {} /\ c.seq = 0 /\ held = {} /\ made = 0
    BY <2>1 DEF Closed, Init
  <2>3. InStep(c)
    BY <2>2, TidyEmpty
  <2>4. HeldOk
    BY <2>2 DEF HeldOk
  <2> QED
    BY <2>3, <2>4 DEF PreparedInv
<1>2. ASSUME SessionInv, PreparedInv, [Next]_vars PROVE PreparedInv'
  <2>1. CASE UNCHANGED vars
    BY <1>2, <2>1 DEF vars, PreparedInv, HeldOk, InStep, Indexed, Filed, Listed, KeysOf, Served
  <2>2. CASE \E mode \in Modes : Borrow(mode)
    <3>1. PICK mode \in Modes : Borrow(mode)
      BY <2>2
    <3>2. held' = held
      BY <3>1 DEF Borrow
    <3> QED
      BY <1>2, <3>1, <3>2, BorrowKept, PreparedKept, PreparedNew
  <2>3. CASE ReturnPrepare
    BY <1>2, <2>3, PreparedGiven
  <2>4. CASE ReturnOp \/ ReturnExecutePrepared \/ ReturnPrepared
    <3>1. held' = held
      BY <2>4 DEF ReturnOp, ReturnExecutePrepared, ReturnPrepared
    <3> QED
      BY <1>2, <2>4, <3>1, ReturnKept, PreparedKept
  <2>5. CASE \/ \E o \in Ops : CallOp(o)
             \/ TxBegin \/ CallbackEnds \/ Join \/ TxFinish \/ Release
             \/ WatcherTimeout \/ WatcherCancels \/ WatcherTakes \/ WatcherCancelsTaken
             \/ CursorOpen \/ CursorFetch \/ CursorClose
    BY <1>2, <2>5, OthersKept, PreparedKept
  <2> QED
    BY <1>2, <2>1, <2>2, <2>3, <2>4, <2>5 DEF Next
<1> QED
  BY <1>1, <1>2, SessionInStep, PTL DEF Spec

\* The indexes of the prepared statements agree with each other and keep the limit,
\* the server holds what they name, and nothing else unless a DEALLOCATE of
\* PostgreSQL has failed, and a handle never runs another statement than its own,
\* however many statements were prepared, evicted and lost (prepare of every driver).
THEOREM SessionPreparedInStep == Spec => []PreparedInStep
<1>1. ASSUME PreparedInv PROVE PreparedInStep
  <2>1. Filed(c) /\ Listed(c) /\ Served(c) /\ (Limit > 0 => Cardinality(c.cache) <= Limit) /\ HeldOk
    BY <1>1 DEF PreparedInv, InStep, Indexed
  <2>2. {c.lru[i] : i \in DOMAIN c.lru} = {p[1] : p \in c.cache}
    <3>1. \A i \in DOMAIN c.lru : c.lru[i] \in KeysOf(c)
      BY <2>1, ElementOfSeq, LenProperties DEF Listed
    <3>2. \A k \in KeysOf(c) : \E i \in DOMAIN c.lru : c.lru[i] = k
      BY <2>1 DEF Listed
    <3> QED
      BY <3>1, <3>2 DEF KeysOf
  <2>3. \A h \in held, p \in c.names : h[3] = made /\ p[1] = h[1] => p[2] = h[2]
    BY <2>1 DEF HeldOk
  <2> QED
    BY <2>1, <2>2, <2>3 DEF PreparedInStep, Filed, Listed, Served
<1> QED
  BY <1>1, SessionPrepared, PTL

\* Rows are in the order of the sessions and calls that wrote them, and no batch
\* is split.
THEOREM SessionRows == Spec => []RowInv
<1>1. Init => RowInv
  <2> SUFFICES ASSUME Init PROVE RowInv
    OBVIOUS
  <2>1. PICK kind \in Used : c = Closed(kind)
    BY DEF Init
  <2>2. /\ c.stored = {} /\ c.rows = {} /\ batches = {} /\ s.n = 0 /\ s.calls = 0 /\ op = "none"
    BY <2>1 DEF Closed, Init, NoSession
  <2> QED
    BY <2>2 DEF RowInv, Writing
<1>2. ASSUME SessionInv, RowInv, [Next]_vars PROVE RowInv'
  <2>1. CASE UNCHANGED vars
    BY <1>2, <2>1 DEF vars, RowInv, Old, Writing, Wholly, Whole
  <2>2. CASE \E mode \in Modes : Borrow(mode)
    BY <1>2, <2>2, BorrowRows
  <2>3. CASE ReturnOp \/ ReturnPrepare \/ ReturnExecutePrepared \/ ReturnPrepared
    BY <1>2, <2>3, ReturnRows
  <2>4. CASE \/ \E o \in Ops : CallOp(o)
             \/ TxBegin \/ CallbackEnds \/ Join \/ TxFinish \/ Release
             \/ CursorOpen \/ CursorFetch \/ CursorClose
    BY <1>2, <2>4, ThreadRows
  <2>5. CASE WatcherTimeout \/ WatcherCancels \/ WatcherTakes \/ WatcherCancelsTaken
    BY <1>2, <2>5, WatcherRows
  <2> QED
    BY <1>2, <2>1, <2>2, <2>3, <2>4, <2>5 DEF Next
<1> QED
  BY <1>1, <1>2, SessionInStep, PTL DEF Spec

\* A batch outside a transaction is stored as a whole or not at all, through lost
\* connections and answers, failing rows, commits and rollbacks (executeBatch of
\* MySQL, PostgreSQL and Oracle).
THEOREM SessionBatchAtomic == Spec => []BatchAtomic
<1>1. RowInv => BatchAtomic
  BY DEF RowInv, BatchAtomic, Wholly, Whole
<1> QED
  BY <1>1, SessionRows, PTL

\* What the refinement rests on holds in every reachable state.
THEOREM SessionTransactions == ASSUME Disciplined PROVE Spec => []TxInv
<1>1. Init => TxInv
  <2> SUFFICES ASSUME Init PROVE TxState
    BY DEF TxInv
  <2>1. /\ DOMAIN acked = Sessions /\ DOMAIN outcome = Sessions /\ pc = "idle" /\ s.n = 0 /\ s.calls = 0
        /\ \A n \in Sessions : acked[n] = {} /\ outcome[n] = "none"
    BY DEF Init, NoSession
  <2> QED
    BY <2>1, SessionAssumption DEF TxState, Ledger
<1>2. SessionInv /\ RowInv /\ TxInv /\ [Next]_vars => TxInv'
  BY NextTx
<1> QED
  BY <1>1, <1>2, SessionInStep, SessionRows, PTL DEF Spec

\* With MySQL and PostgreSQL transaction implements module Transactions: all rows
\* of a callback are stored or none, and the caller is told which, through lost
\* connections and answers, failing statements, batches, cursors and rollbacks, and
\* the watcher (transactionInternal over both drivers), if the callbacks and the
\* commands whose failure nobody is told of are as Disciplined says.
THEOREM SessionImplements == ASSUME Disciplined PROVE Spec => Implements
<1>1. Init => Abstract!Init
  <2> SUFFICES ASSUME Init PROVE Abstract!Init
    OBVIOUS
  <2>1. PICK kind \in Used : c = Closed(kind)
    BY DEF Init
  <2>2. /\ c.stored = {} /\ acked = [n \in Sessions |-> {}] /\ outcome = [n \in Sessions |-> "none"]
    BY <2>1 DEF Closed, Init
  <2> QED
    BY <2>2 DEF Abstract!Init, Claimed
<1>2. SessionInv /\ RowInv /\ TxInv /\ [Next]_vars => Stepped
  BY NextTx
<1> QED
  BY <1>1, <1>2, SessionInStep, SessionRows, SessionTransactions, PTL
  DEF Spec, Implements, Abstract!Spec, Stepped, Mapped

=============================================================================
