------------------------------ MODULE LruCache ------------------------------
(***************************************************************************)
(* The bounded cache of svn_repository.rs and svn_patch.rs (PreviewCache,  *)
(* SourceCache, SvnPatchCache): the entries from the least to the most     *)
(* recently used, and the running total of their bytes, which the code     *)
(* keeps beside them and never recomputes.                                 *)
(***************************************************************************)
EXTENDS Naturals, Sequences

EmptyCache == [entries |-> <<>>, bytes |-> 0]

Keys(cache) == {cache.entries[i].key : i \in DOMAIN cache.entries}
Place(cache, k) == CHOOSE i \in DOMAIN cache.entries : cache.entries[i].key = k
Entry(cache, k) == cache.entries[Place(cache, k)]

\* The other entries, in their order.
Others(cache, k) ==
    IF k \notin Keys(cache) THEN cache.entries
    ELSE [i \in 1 .. Len(cache.entries) - 1 |->
            cache.entries[IF i < Place(cache, k) THEN i ELSE i + 1]]

\* What the first n entries hold together.
Sums(entries) ==
    LET sum[n \in 0 .. Len(entries)] == IF n = 0 THEN 0 ELSE sum[n - 1] + entries[n].size
    IN  sum

\* get: what was found becomes the most recently used.
Touched(cache, k) == [cache EXCEPT !.entries = Append(Others(cache, k), Entry(cache, k))]

\* The removal of an entry, if there is one, by clear_working and by insert.  The mutant
\* leaves the total as it was.
PurgedEntries(cache, k) == [cache EXCEPT !.entries = Others(cache, k)]
Purged(cache, k) ==
    [entries |-> Others(cache, k),
     bytes   |-> IF k \in Keys(cache) THEN cache.bytes - Entry(cache, k).size ELSE cache.bytes]

\* The oldest entries leave, n of them.
Evicted(cache, n) ==
    [entries |-> SubSeq(cache.entries, n + 1, Len(cache.entries)),
     bytes   |-> cache.bytes - Sums(cache.entries)[n]]

Fits(cache, n, size, items, limit) ==
    Len(cache.entries) - n < items /\ Evicted(cache, n).bytes + size <= limit

\* As few of them as make room for one of this size, or all.
RoomFor(cache, size, items, limit) ==
    Evicted(cache, CHOOSE n \in 0 .. Len(cache.entries) :
                    /\ Fits(cache, n, size, items, limit) \/ n = Len(cache.entries)
                    /\ \A m \in 0 .. n - 1 : ~Fits(cache, m, size, items, limit))

\* insert: what is larger than the whole cache is not kept.
Inserted(cache, k, value, size, items, limit) ==
    IF size > limit THEN cache
    ELSE LET room == RoomFor(Purged(cache, k), size, items, limit)
         IN  [entries |-> Append(room.entries, [key |-> k, value |-> value, size |-> size]),
              bytes   |-> room.bytes + size]

\* What every cache owes its owner.
Accounted(cache, items, limit) ==
    /\ cache.bytes = Sums(cache.entries)[Len(cache.entries)]
    /\ cache.bytes <= limit
    /\ Len(cache.entries) <= items
    /\ \A i, j \in DOMAIN cache.entries :
        i # j => cache.entries[i].key # cache.entries[j].key
=============================================================================
