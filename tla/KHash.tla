-------------------------------- MODULE KHash --------------------------------
(***************************************************************************)
(* The hash table of tp/khash.h as src/xal_be_fiemap.c uses it: an open     *)
(* addressing table of a power of two of buckets whose keys are pointers to *)
(* strings.  The strings themselves stay where they are, in the pool of     *)
(* inodes, and change under the table: every operator is given what they    *)
(* hold at the time of the call, str, and the hash of every string, hash.   *)
(*                                                                         *)
(* A bucket holds a key and a value or is empty; kh_del() is never called,  *)
(* so that no bucket of a table at rest is marked deleted and n_occupied    *)
(* and size are one number.                                                 *)
(***************************************************************************)
EXTENDS Integers, FiniteSets, FiniteSetsExt

NoEntry == [key |-> -1, val |-> -1]

\* kh_init(): nothing is allocated before the first kh_put().
kh_init == [n_buckets |-> 0, size |-> 0, upper_bound |-> 0, bucket |-> <<>>]

\* Mistakes the properties of Lookup must notice: a table that fills up; a
\* rehash that leaves entries in their old buckets; a search that takes the
\* first entry for its own; an insertion that is not counted.
Mutant_UpperBound(n) == n
Mutant_Kick(w, str, hash, n) ==
  LET j == Min(w.live) IN
  [w EXCEPT !.taken = @ \cup {j}, !.live = @ \ {j}, !.hand = NoEntry]
Mutant_Stops(h, str, s, i) == TRUE
Mutant_Counted(h) == h

\* (khint_t)(n_buckets * 0.77 + 0.5)
UpperBound(n) == (77 * n + 50) \div 100

\* i = (i + (++step)) & mask, from the bucket of the hash on.
Probe(code, step, n) == (code + (step * (step + 1)) \div 2) % n

-----------------------------------------------------------------------------
\* A search ends at an empty bucket or at the string it is for, in the order
\* of the probes, and at n_buckets when it has been everywhere.
Stops(h, str, s, i) == h.bucket[i] = NoEntry \/ str[h.bucket[i].key] = s

Search(h, str, hash, s) ==
  LET n     == h.n_buckets
      steps == {t \in 0 .. n - 1 : Stops(h, str, s, Probe(hash[s], t, n))}
  IN IF steps = {} THEN n ELSE Probe(hash[s], Min(steps), n)

\* kh_get() and kh_val(): the value found, -1 for kh_end().
kh_get(h, str, hash, s) ==
  LET i == Search(h, str, hash, s) IN
  IF i = h.n_buckets THEN -1 ELSE h.bucket[i].val

-----------------------------------------------------------------------------
\* kh_resize(): entries move to their bucket in the new table one by one,
\* each pushing out the entry of the old table it finds there (the kick-out
\* process).  w.live are the buckets of the old table still to be moved,
\* w.taken those of the new one already filled; both share w.bucket.  w.hand
\* is the entry that was pushed out last; when there is none, the loop over
\* the old table goes on to its next entry.
Kick(w, str, hash, n) ==
  LET next == w.hand = NoEntry
      e    == IF next THEN w.bucket[Min(w.live)] ELSE w.hand
      live == IF next THEN w.live \ {Min(w.live)} ELSE w.live
      code == hash[str[e.key]]
      i    == Probe(code, Min({t \in 0 .. n - 1 : Probe(code, t, n) \notin w.taken}), n)
  IN [live |-> live \ {i}, taken |-> w.taken \cup {i},
      bucket |-> [w.bucket EXCEPT ![i] = e],
      hand |-> IF i \in live THEN w.bucket[i] ELSE NoEntry]

AllMoved(w) == w.live = {} /\ w.hand = NoEntry
Rehash(w, str, hash, n, count) ==
  LET moved[k \in Nat] ==
        IF k = 0 THEN w
        ELSE LET v == moved[k - 1] IN IF AllMoved(v) THEN v ELSE Kick(v, str, hash, n)
  IN moved[count]

kh_resize(h, str, hash, n) ==
  LET start == [live   |-> {i \in 0 .. h.n_buckets - 1 : h.bucket[i] # NoEntry},
                taken  |-> {},
                bucket |-> [i \in 0 .. n - 1 |->
                              IF i < h.n_buckets THEN h.bucket[i] ELSE NoEntry],
                hand   |-> NoEntry]
      w == Rehash(start, str, hash, n, Cardinality(start.live))
  IN [h EXCEPT !.n_buckets = n, !.upper_bound = UpperBound(n),
               !.bucket = [i \in 0 .. n - 1 |->
                             IF i \in w.taken THEN w.bucket[i] ELSE NoEntry]]

\* kh_put() looks at the load before it looks for the key: an insertion of a
\* key that is present may resize the table.  Without deleted buckets the
\* table always doubles, from 4 buckets on.
MustResize(h) == h.size >= h.upper_bound
Larger(h) == IF h.n_buckets = 0 THEN 4 ELSE 2 * h.n_buckets

Counted(h) == [h EXCEPT !.size = @ + 1]

\* kh_put() of a key and kh_value() = val, once memory is there: an entry
\* that is present keeps its key.
kh_put(h, str, hash, key, val) ==
  LET g == IF MustResize(h) THEN kh_resize(h, str, hash, Larger(h)) ELSE h
      i == Search(g, str, hash, str[key])
  IN IF g.bucket[i] = NoEntry
       THEN [Counted(g) EXCEPT !.bucket[i] = [key |-> key, val |-> val]]
       ELSE [g EXCEPT !.bucket[i].val = val]
=============================================================================
