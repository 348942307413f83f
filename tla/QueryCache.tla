----------------------------- MODULE QueryCache -----------------------------
(***************************************************************************)
(* QueryCacheState (src/core/query_cache.cpp): entries in LRU order, the    *)
(* most recently used first, within max_entries and max_memory_bytes.  The  *)
(* list and the map of the code are one sequence here.  Every operator is a *)
(* section under mtx_.                                                      *)
(***************************************************************************)
EXTENDS Naturals, Sequences, SequencesExt

CONSTANTS
  MaxEntries,   \* max_entries; 0 means no limit
  MaxBytes      \* max_memory_bytes; 0 means no limit

ASSUME CacheAssumption == MaxEntries \in Nat /\ MaxBytes \in Nat

\* A cache: its entries and totalBytes_.  An entry is for a data source and a
\* key, and holds a value of some size.
Empty == [entries |-> <<>>, total |-> 0]

SizeOf(entries) ==
  LET sum[n \in 0..Len(entries)] == IF n = 0 THEN 0 ELSE sum[n - 1] + entries[n].bytes
  IN sum[Len(entries)]

\* totalBytes_ without the bytes of what goes; it does not wrap around.
Less(total, bytes) == IF bytes <= total THEN total - bytes ELSE 0

Position(q, src, key) ==
  {i \in DOMAIN q.entries : q.entries[i].src = src /\ q.entries[i].key = key}
Found(q, src, key) == CHOOSE i \in Position(q, src, key) : TRUE
Entry(q, src, key) == q.entries[Found(q, src, key)]
Without(q, src, key) == RemoveAt(q.entries, Found(q, src, key))

\* eraseLocked.
Erase(q, src, key) ==
  [entries |-> Without(q, src, key), total |-> Less(q.total, Entry(q, src, key).bytes)]

\* evictLocked: from the end, until there is room.
Room(n, bytes, reserve) ==
  /\ MaxEntries > 0 => n + reserve <= MaxEntries
  /\ MaxBytes > 0 => bytes <= MaxBytes
Shortened(q, n) ==
  [entries |-> SubSeq(q.entries, 1, n),
   total |-> Less(q.total, SizeOf(SubSeq(q.entries, n + 1, Len(q.entries))))]
Evict(q, incoming, reserve) ==
  LET fits(n) == n = 0 \/ Room(n, Shortened(q, n).total + incoming, reserve)
  IN Shortened(q, CHOOSE n \in 0..Len(q.entries) :
                    fits(n) /\ \A m \in (n + 1)..Len(q.entries) : ~ fits(m))

\* get: a hit goes to the front; an expired entry is erased.
Hit(q, src, key) == Position(q, src, key) # {}
Touch(q, src, key) == [q EXCEPT !.entries = <<Entry(q, src, key)>> \o Without(q, src, key)]

\* Mutant: the size of what is replaced is not subtracted.
PutTwice(q, e) ==
  IF MaxBytes > 0 /\ e.bytes > MaxBytes THEN q
  ELSE IF Hit(q, e.src, e.key)
  THEN Evict([entries |-> <<e>> \o Without(q, e.src, e.key), total |-> q.total + e.bytes], 0, 0)
  ELSE LET room == Evict(q, e.bytes, 1)
       IN [entries |-> <<e>> \o room.entries, total |-> room.total + e.bytes]

\* put: an entry that can never fit is not cached.
Put(q, e) ==
  IF MaxBytes > 0 /\ e.bytes > MaxBytes THEN q
  ELSE IF Hit(q, e.src, e.key)
  THEN Evict([entries |-> <<e>> \o Without(q, e.src, e.key),
              total |-> Less(q.total, Entry(q, e.src, e.key).bytes) + e.bytes], 0, 0)
  ELSE LET room == Evict(q, e.bytes, 1)
       IN [entries |-> <<e>> \o room.entries, total |-> room.total + e.bytes]

\* invalidate: every entry of a data source.
Invalidate(q, src) ==
  LET swept[n \in 0..Len(q.entries)] ==   \* past the first n entries
        IF n = 0 THEN [entries |-> <<>>, total |-> q.total]
        ELSE LET e == q.entries[n]
                 c == swept[n - 1]
             IN IF e.src = src THEN [c EXCEPT !.total = Less(@, e.bytes)]
                               ELSE [c EXCEPT !.entries = Append(@, e)]
  IN swept[Len(q.entries)]

\* The cache keeps its books: totalBytes_ is the size of what is held, both
\* limits are kept, and no data source and key are held twice, after any
\* sequence of puts of changing size, hits, expiries, evictions, invalidations
\* and reconfigurations.
BooksBalance(q) ==
  /\ q.total = SizeOf(q.entries)
  /\ Room(Len(q.entries), q.total, 0)
  /\ \A i, j \in DOMAIN q.entries :
       q.entries[i].src = q.entries[j].src /\ q.entries[i].key = q.entries[j].key => i = j
=============================================================================
