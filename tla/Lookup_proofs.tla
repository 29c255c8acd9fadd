--------------------------- MODULE Lookup_proofs ---------------------------
(***************************************************************************)
(* Proofs about path lookup in the FIEMAP backend, for every file system,   *)
(* every hash function, any number of indexes, rebuilds and refreshes, and  *)
(* memory that runs out at any resize of the map.                           *)
(*                                                                         *)
(* First the hash table of tp/khash.h: the probes reach every bucket since  *)
(* the size is a power of two, the kick-out rehash loses no entry, and      *)
(* kh_put() keeps what is found.  Then the tree: Laid says that the cells   *)
(* claimed so far are the paths of the tree, each directory with an array   *)
(* of its children in order; IndexedIs and WalkedIs carry that, and what is *)
(* in the map, through the loops of an index and of a walk.  LookupInv is   *)
(* the invariant of the specification.  Last the two searches of a path.    *)
(***************************************************************************)
EXTENDS Lookup, NatRecursion, FiniteSetTheorems, SequenceTheorems, TLAPS
-----------------------------------------------------------------------------
(* Probing.  What is needed of a power of two is that an odd factor does    *)
(* not help it to divide a product.                                         *)
Divides(n, x) == \E c \in Int : x = n * c
TwosOnly(n) == \A j \in Int, b \in Int : Divides(n, (2 * j + 1) * b) => Divides(n, b)

\* One divides everything.
LEMMA TwosOnlyOne == TwosOnly(1)
  <1> SUFFICES ASSUME NEW b \in Int PROVE Divides(1, b)
    BY DEF TwosOnly
  <1> QED BY DEF Divides

\* So does a number twice as large as one that divides no product for an odd
\* factor.
LEMMA TwosOnlyDouble ==
  ASSUME NEW n \in Nat, TwosOnly(n)
  PROVE  TwosOnly(2 * n)
  <1> SUFFICES ASSUME NEW j \in Int, NEW b \in Int, Divides(2 * n, (2 * j + 1) * b)
               PROVE  Divides(2 * n, b)
    BY DEF TwosOnly
  <1>1. PICK c \in Int : (2 * j + 1) * b = (2 * n) * c
    BY DEF Divides
  <1>2. PICK x \in Int : x = n * c
    OBVIOUS
  <1>3. PICK y \in Int : y = j * b
    OBVIOUS
  <1>4. (2 * j + 1) * b = 2 * y + b
    BY <1>3
  <1>5. (2 * n) * c = 2 * x
    BY <1>2
  <1>6. b = 2 * (x - y)
    BY <1>1, <1>4, <1>5
  <1>7. PICK d \in Int : d = x - y
    OBVIOUS
  <1>8. b = 2 * d
    BY <1>6, <1>7
  <1>9. PICK z \in Int : z = (2 * j + 1) * d
    OBVIOUS
  <1>10. (2 * j + 1) * b = 2 * z
    BY <1>8, <1>9
  <1>11. z = n * c
    BY <1>1, <1>2, <1>5, <1>10
  <1>12. Divides(n, (2 * j + 1) * d)
    BY <1>9, <1>11 DEF Divides
  <1>13. PICK e \in Int : d = n * e
    BY <1>12 DEF TwosOnly, Divides
  <1>14. b = (2 * n) * e
    BY <1>8, <1>13
  <1> QED BY <1>14 DEF Divides

\* The size a table begins with.
LEMMA TwosOnlyFour == TwosOnly(4)
  <1>1. TwosOnly(2 * 1)
    BY TwosOnlyOne, TwosOnlyDouble
  <1>2. 2 * 1 = 2 /\ 2 * 2 = 4
    OBVIOUS
  <1>3. TwosOnly(2)
    BY <1>1, <1>2
  <1>4. TwosOnly(2 * 2)
    BY <1>3, TwosOnlyDouble
  <1> QED BY <1>2, <1>4

\* No number below n is divided by n, besides 0.
LEMMA NotBelow ==
  ASSUME NEW n \in Nat, NEW x \in Nat, 0 < x, x < n, Divides(n, x)
  PROVE  FALSE
  <1>1. PICK c \in Int : x = n * c
    BY DEF Divides
  <1>2. CASE c <= 0
    <2>1. n * c <= 0
      BY <1>2
    <2> QED BY <1>1, <2>1
  <1>3. CASE c >= 1
    <2>1. n * c >= n
      BY <1>3
    <2> QED BY <1>1, <2>1
  <1> QED BY <1>1, <1>2, <1>3

\* The sum of the steps up to t.
Steps(t) == (t * (t + 1)) \div 2

\* The division in the sum of the steps has no remainder.
LEMMA StepsTwice ==
  ASSUME NEW t \in Nat
  PROVE  Steps(t) \in Nat /\ 2 * Steps(t) = t * (t + 1)
  <1>1. PICK m \in Nat : t = 2 * m \/ t = 2 * m + 1
    <2>1. t \div 2 \in Nat /\ t = 2 * (t \div 2) + (t % 2) /\ t % 2 \in 0 .. 1
      OBVIOUS
    <2>2. t = 2 * (t \div 2) \/ t = 2 * (t \div 2) + 1
      BY <2>1
    <2> QED BY <2>1, <2>2
  <1>2. PICK x \in Nat : t * (t + 1) = 2 * x
    <2>1. CASE t = 2 * m
      <3>1. t * (t + 1) = 2 * (m * (2 * m + 1)) /\ m * (2 * m + 1) \in Nat
        BY <2>1
      <3> QED BY <3>1
    <2>2. CASE t = 2 * m + 1
      <3>1. t * (t + 1) = 2 * ((2 * m + 1) * (m + 1)) /\ (2 * m + 1) * (m + 1) \in Nat
        BY <2>2
      <3> QED BY <3>1
    <2> QED BY <1>1, <2>1, <2>2
  <1>3. Steps(t) = x
    <2>1. (2 * x) \div 2 = x
      OBVIOUS
    <2> QED BY <1>2, <2>1 DEF Steps
  <1> QED BY <1>2, <1>3

\* Equal remainders: n divides the difference.
LEMMA SameRemainder ==
  ASSUME NEW n \in Nat, n > 0, NEW a \in Nat, NEW b \in Nat, a % n = b % n
  PROVE  Divides(n, a - b)
  <1>1. PICK p \in Int : p = a \div n
    OBVIOUS
  <1>2. PICK q \in Int : q = b \div n
    OBVIOUS
  <1>3. a = n * p + (a % n) /\ b = n * q + (b % n) /\ a % n \in Int
    BY <1>1, <1>2
  <1>4. PICK x \in Int, y \in Int : x = n * p /\ y = n * q
    OBVIOUS
  <1>5. a - b = x - y
    BY <1>3, <1>4
  <1>6. n * (p - q) = x - y
    BY <1>4
  <1> QED BY <1>5, <1>6 DEF Divides

\* Two steps of a search never meet: the probes are different buckets.
LEMMA ProbesDiffer ==
  ASSUME NEW n \in Nat, n > 0, TwosOnly(n), NEW code \in Nat,
         NEW s \in 0 .. n - 1, NEW t \in 0 .. n - 1, s < t,
         Probe(code, s, n) = Probe(code, t, n)
  PROVE  FALSE
  <1>1. PICK x \in Nat : x = Steps(s) /\ 2 * x = s * (s + 1)
    <2>1. s \in Nat
      OBVIOUS
    <2>2. Steps(s) \in Nat /\ 2 * Steps(s) = s * (s + 1)
      BY <2>1, StepsTwice, Zenon
    <2> QED BY <2>2, Zenon
  <1>2. PICK y \in Nat : y = Steps(t) /\ 2 * y = t * (t + 1)
    <2>1. t \in Nat
      OBVIOUS
    <2>2. Steps(t) \in Nat /\ 2 * Steps(t) = t * (t + 1)
      BY <2>1, StepsTwice, Zenon
    <2> QED BY <2>2, Zenon
  <1>3. (code + y) % n = (code + x) % n
    BY <1>1, <1>2 DEF Probe, Steps
  <1>4. Divides(n, (code + y) - (code + x))
    <2>1. code + y \in Nat /\ code + x \in Nat
      OBVIOUS
    <2> QED BY <1>3, <2>1, SameRemainder
  <1>5. PICK c \in Int : (code + y) - (code + x) = n * c
    BY <1>4 DEF Divides
  <1>6. PICK w \in Int : w = n * c
    OBVIOUS
  <1>7. 2 * y - 2 * x = 2 * w
    BY <1>5, <1>6
  <1>8. t * (t + 1) - s * (s + 1) = (t - s) * (t + s + 1)
    OBVIOUS
  <1>9. (t - s) * (t + s + 1) = 2 * w
    BY <1>1, <1>2, <1>7, <1>8
  <1>10. (2 * n) * c = 2 * w
    BY <1>6
  <1>11. Divides(2 * n, (t - s) * (t + s + 1))
    BY <1>9, <1>10 DEF Divides
  <1>12. TwosOnly(2 * n)
    BY TwosOnlyDouble
  <1>13. PICK a \in Nat, b \in Nat : a = t - s /\ b = t + s + 1
    OBVIOUS
  <1>14. /\ 0 < a /\ a < 2 * n /\ 0 < b /\ b < 2 * n /\ a + b = 2 * t + 1
         /\ 2 * n \in Nat
    BY <1>13
  <1>15. Divides(2 * n, a * b)
    BY <1>11, <1>13
  <1>16. PICK m \in Int : a = 2 * m \/ a = 2 * m + 1
    <2>1. a \div 2 \in Int /\ a = 2 * (a \div 2) + (a % 2) /\ a % 2 \in 0 .. 1
      OBVIOUS
    <2>2. a = 2 * (a \div 2) \/ a = 2 * (a \div 2) + 1
      BY <2>1
    <2> QED BY <2>1, <2>2
  <1>17. CASE a = 2 * m + 1
    <2>1. Divides(2 * n, (2 * m + 1) * b)
      BY <1>15, <1>17
    <2>2. Divides(2 * n, b)
      BY <1>12, <2>1 DEF TwosOnly
    <2> QED BY <1>14, <2>2, NotBelow
  <1>18. CASE a = 2 * m
    <2>1. b = 2 * (t - m) + 1 /\ t - m \in Int
      BY <1>14, <1>18
    <2>2. a * b = b * a
      OBVIOUS
    <2>3. Divides(2 * n, (2 * (t - m) + 1) * a)
      BY <1>15, <2>1, <2>2
    <2> DEFINE k == t - m
    <2>5. k \in Int /\ a \in Int /\ Divides(2 * n, (2 * k + 1) * a)
      BY <2>1, <2>3
    <2> HIDE DEF k
    <2>4. Divides(2 * n, a)
      BY <1>12, <2>5 DEF TwosOnly
    <2> QED BY <1>14, <2>4, NotBelow
  <1> QED BY <1>16, <1>17, <1>18

\* A probe is a bucket of the table.
LEMMA ProbeType ==
  ASSUME NEW n \in Nat, n > 0, NEW code \in Nat, NEW t \in Nat
  PROVE  Probe(code, t, n) \in 0 .. n - 1
  <1>1. PICK x \in Nat : x = Steps(t)
    BY StepsTwice
  <1>2. (code + x) % n \in 0 .. n - 1
    BY <1>1
  <1> QED BY <1>1, <1>2 DEF Probe, Steps

\* A search that goes on comes to every bucket.
LEMMA ProbesReachAll ==
  ASSUME NEW n \in Nat, n > 0, TwosOnly(n), NEW code \in Nat, NEW i \in 0 .. n - 1
  PROVE  \E t \in 0 .. n - 1 : Probe(code, t, n) = i
  <1> DEFINE D == 0 .. n - 1
             f == [t \in D |-> Probe(code, t, n)]
  <1>1. f \in [D -> D]
    <2>1. ASSUME NEW t \in D PROVE Probe(code, t, n) \in D
      <3>1. t \in Nat
        OBVIOUS
      <3> QED BY <3>1, ProbeType
    <2> QED BY <2>1
  <1>2. ASSUME NEW s \in D, NEW t \in D, f[s] = f[t] PROVE s = t
    <2>1. Probe(code, s, n) = Probe(code, t, n)
      BY <1>2
    <2>2. s \in Int /\ t \in Int
      OBVIOUS
    <2> QED BY <2>1, <2>2, ProbesDiffer
  <1>3. f \in Injection(D, D)
    <2> HIDE DEF f, D
    <2> QED BY <1>1, <1>2 DEF Injection, IsInjective
  <1>4. IsFiniteSet(D)
    BY FS_Interval
  <1>5. f \in Surjection(D, D)
    <2> HIDE DEF f, D
    <2> QED BY <1>3, <1>4, FS_Injection
  <1>6. \E t \in D : f[t] = i
    <2> HIDE DEF f
    <2> QED BY <1>5 DEF Surjection
  <1> QED BY <1>6

-----------------------------------------------------------------------------
(* Tables.  C is the set of inodes that keys and values may be, str their   *)
(* names and hf the hash of every name.                                   *)
Entry(C) == [key : C, val : C]
Bucket(C) == Entry(C) \cup {NoEntry}
Used(h) == {i \in 0 .. h.n_buckets - 1 : h.bucket[i] # NoEntry}
Entries(h) == {h.bucket[i] : i \in Used(h)}

\* A table between two calls: counted, and never full.
Sized(h) ==
  IF h.n_buckets = 0
    THEN h.size = 0 /\ h.upper_bound = 0
    ELSE /\ h.n_buckets >= 4 /\ TwosOnly(h.n_buckets)
         /\ h.upper_bound = UpperBound(h.n_buckets) /\ h.size <= h.upper_bound
Table(h, C) ==
  /\ h = [n_buckets |-> h.n_buckets, size |-> h.size, upper_bound |-> h.upper_bound,
          bucket |-> h.bucket]
  /\ h.n_buckets \in Nat /\ h.size \in Nat
  /\ h.bucket \in [0 .. h.n_buckets - 1 -> Bucket(C)]
  /\ Sized(h)
  /\ h.size = Cardinality(Used(h))

Named(str, hf, C) == C \subseteq Nat /\ \A c \in C : hf[str[c]] \in Nat

\* A string that a search comes to before an empty bucket.
Found(h, str, hf, s) ==
  \E t \in 0 .. h.n_buckets - 1 :
    /\ h.bucket[Probe(hf[s], t, h.n_buckets)] # NoEntry
    /\ str[h.bucket[Probe(hf[s], t, h.n_buckets)].key] = s
    /\ \A u \in 0 .. t - 1 : h.bucket[Probe(hf[s], u, h.n_buckets)] # NoEntry

\* The upper bound of kh_resize() leaves a bucket free, and a doubled table
\* has room for one more entry.
LEMMA UpperBoundBelow ==
  ASSUME NEW n \in Nat, n >= 4
  PROVE  UpperBound(n) \in Nat /\ UpperBound(n) < n /\ n <= UpperBound(2 * n)
  <1>1. UpperBound(n) \in Nat /\ UpperBound(n) < n
    BY DEF UpperBound
  <1>2. 100 * n <= 77 * (2 * n) + 50
    OBVIOUS
  <1>3. n <= (77 * (2 * n) + 50) \div 100
    BY <1>2
  <1> QED BY <1>1, <1>3 DEF UpperBound

\* An empty bucket is not taken for an entry.
LEMMA NoEntryOut ==
  ASSUME NEW C, C \subseteq Nat
  PROVE  NoEntry \notin Entry(C)
  <1> SUFFICES ASSUME NoEntry \in Entry(C) PROVE FALSE
    OBVIOUS
  <1>1. NoEntry.key \in C /\ NoEntry.key = -1
    BY DEF NoEntry, Entry
  <1> QED BY <1>1

\* The buckets in use are some of finitely many.
LEMMA UsedFinite ==
  ASSUME NEW C, NEW h, Table(h, C)
  PROVE  IsFiniteSet(Used(h)) /\ Used(h) \subseteq 0 .. h.n_buckets - 1
  <1>1. IsFiniteSet(0 .. h.n_buckets - 1)
    <2>1. h.n_buckets - 1 \in Int
      BY DEF Table
    <2> QED BY <2>1, FS_Interval
  <1>2. Used(h) \subseteq 0 .. h.n_buckets - 1
    BY DEF Used
  <1> QED BY <1>1, <1>2, FS_Subset

\* There is an empty bucket.
LEMMA EmptyBucket ==
  ASSUME NEW C, NEW h, Table(h, C), h.n_buckets > 0
  PROVE  \E i \in 0 .. h.n_buckets - 1 : h.bucket[i] = NoEntry
  <1> SUFFICES ASSUME \A i \in 0 .. h.n_buckets - 1 : h.bucket[i] # NoEntry PROVE FALSE
    OBVIOUS
  <1>1. Used(h) = 0 .. h.n_buckets - 1
    BY DEF Used
  <1>2. h.n_buckets \in Nat /\ h.n_buckets >= 4 /\ h.size <= UpperBound(h.n_buckets) /\ h.size \in Nat
    BY DEF Table, Sized
  <1>3. Cardinality(0 .. h.n_buckets - 1) = h.n_buckets
    <2>1. h.n_buckets - 1 \in Int /\ 0 \in Int
      BY <1>2
    <2>2. Cardinality(0 .. h.n_buckets - 1) = IF 0 > h.n_buckets - 1 THEN 0 ELSE (h.n_buckets - 1) - 0 + 1
      BY <2>1, FS_Interval
    <2> QED BY <1>2, <2>2
  <1>4. h.size = h.n_buckets
    BY <1>1, <1>3 DEF Table
  <1>5. UpperBound(h.n_buckets) \in Nat /\ UpperBound(h.n_buckets) < h.n_buckets
    BY <1>2, UpperBoundBelow
  <1> QED BY <1>2, <1>4, <1>5

\* The least of a set of steps.
LEMMA MinIs ==
  ASSUME NEW T, T \subseteq Nat, T # {}
  PROVE  Min(T) \in T /\ \A m \in T : Min(T) <= m
  <1>1. \E x \in T : \A y \in T : x <= y
    BY LeastNat
  <1> QED BY <1>1 DEF Min

\* A search ends at the first bucket at which it stops.
StopsAt(h, str, hf, s, t) ==
  /\ t \in 0 .. h.n_buckets - 1
  /\ Search(h, str, hf, s) = Probe(hf[s], t, h.n_buckets)
  /\ Search(h, str, hf, s) \in 0 .. h.n_buckets - 1
  /\ Stops(h, str, s, Search(h, str, hf, s))
  /\ \A u \in 0 .. t - 1 : ~Stops(h, str, s, Probe(hf[s], u, h.n_buckets))

\* Every search stops: it comes to every bucket, and one of them is empty.
LEMMA SearchStops ==
  ASSUME NEW C, NEW h, Table(h, C), h.n_buckets > 0,
         NEW str, NEW hf, NEW s, hf[s] \in Nat
  PROVE  \E t : StopsAt(h, str, hf, s, t)
  <1> DEFINE n == h.n_buckets
             code == hf[s]
             T == {t \in 0 .. n - 1 : Stops(h, str, s, Probe(code, t, n))}
  <1>1. n \in Nat /\ n > 0 /\ TwosOnly(n)
    BY DEF Table, Sized
  <1>2. PICK i \in 0 .. n - 1 : h.bucket[i] = NoEntry
    BY EmptyBucket
  <1>3. PICK t \in 0 .. n - 1 : Probe(code, t, n) = i
    <2> HIDE DEF n, code
    <2>1. code \in Nat
      BY DEF code
    <2> QED BY <1>1, <2>1, ProbesReachAll
  <1>4. t \in T
    BY <1>2, <1>3 DEF Stops
  <1>5. Min(T) \in T /\ \A m \in T : Min(T) <= m
    <2>1. T \subseteq Nat /\ T # {}
      BY <1>4
    <2> HIDE DEF T
    <2> QED BY <2>1, MinIs
  <1>6. Search(h, str, hf, s) = Probe(code, Min(T), n)
    BY <1>4 DEF Search
  <1> DEFINE m == Min(T)
  <1>7. m \in 0 .. n - 1 /\ Stops(h, str, s, Probe(code, m, n))
    BY <1>5
  <1>8. \A u \in 0 .. m - 1 : ~Stops(h, str, s, Probe(code, u, n))
    <2> SUFFICES ASSUME NEW u \in 0 .. m - 1, Stops(h, str, s, Probe(code, u, n)) PROVE FALSE
      OBVIOUS
    <2>1. u \in 0 .. n - 1 /\ u < m
      BY <1>1, <1>7
    <2>2. u \in T
      BY <2>1
    <2> HIDE DEF T
    <2> QED BY <1>1, <1>5, <1>7, <2>1, <2>2
  <1>9. Probe(code, m, n) \in 0 .. n - 1
    <2>1. m \in Nat
      BY <1>7
    <2> HIDE DEF m, n
    <2> QED BY <1>1, <2>1, ProbeType
  <1> HIDE DEF m, T
  <1>10. StopsAt(h, str, hf, s, m)
    BY <1>6, <1>7, <1>8, <1>9 DEF StopsAt, m
  <1> QED BY <1>10

\* What kh_get() returns is the value of an entry with the string asked for.
LEMMA GetFinds ==
  ASSUME NEW C, NEW h, Table(h, C), NEW str, NEW hf, NEW s, hf[s] \in Nat,
         kh_get(h, str, hf, s) # -1
  PROVE  \E e \in Entries(h) : str[e.key] = s /\ e.val = kh_get(h, str, hf, s)
  <1> DEFINE i == Search(h, str, hf, s)
  <1>1. h.n_buckets > 0
    <2> SUFFICES ASSUME h.n_buckets = 0 PROVE FALSE
      BY DEF Table
    <2>1. Search(h, str, hf, s) = 0
      BY DEF Search
    <2> QED BY <2>1 DEF kh_get
  <1>2. PICK t : StopsAt(h, str, hf, s, t)
    BY <1>1, SearchStops
  <1>3. i \in 0 .. h.n_buckets - 1 /\ Stops(h, str, s, i)
    BY <1>2 DEF StopsAt
  <1>4. kh_get(h, str, hf, s) = h.bucket[i].val
    <2>1. i # h.n_buckets
      BY <1>3 DEF Table
    <2> QED BY <2>1 DEF kh_get
  <1>5. h.bucket[i] # NoEntry
    BY <1>4 DEF NoEntry
  <1>6. str[h.bucket[i].key] = s
    BY <1>3, <1>5 DEF Stops
  <1>7. h.bucket[i] \in Entries(h)
    BY <1>3, <1>5 DEF Entries, Used
  <1> QED BY <1>4, <1>6, <1>7

\* What is found by its string, kh_get() finds.
LEMMA FoundGet ==
  ASSUME NEW C, C \subseteq Nat, NEW h, Table(h, C), NEW str, NEW hf, NEW s, hf[s] \in Nat,
         Found(h, str, hf, s)
  PROVE  kh_get(h, str, hf, s) # -1
  <1> DEFINE n == h.n_buckets
             code == hf[s]
             i == Search(h, str, hf, s)
  <1>1. PICK t \in 0 .. n - 1 :
          /\ h.bucket[Probe(code, t, n)] # NoEntry
          /\ str[h.bucket[Probe(code, t, n)].key] = s
          /\ \A u \in 0 .. t - 1 : h.bucket[Probe(code, u, n)] # NoEntry
    BY DEF Found
  <1>2. n > 0 /\ n \in Nat
    BY <1>1 DEF Table
  <1>3. PICK m : StopsAt(h, str, hf, s, m)
    BY <1>2, SearchStops
  <1>4. Stops(h, str, s, Probe(code, t, n))
    BY <1>1 DEF Stops
  <1>5. m \in 0 .. n - 1 /\ i = Probe(code, m, n) /\ i \in 0 .. n - 1
    BY <1>3 DEF StopsAt
  <1>6. m <= t
    <2> SUFFICES ASSUME t < m PROVE FALSE
      BY <1>5
    <2>1. t \in 0 .. m - 1
      BY <1>5
    <2> QED BY <1>3, <1>4, <2>1 DEF StopsAt
  <1>7. h.bucket[i] # NoEntry
    <2>1. CASE m = t
      BY <1>1, <1>5, <2>1
    <2>2. CASE m < t
      <3>1. m \in 0 .. t - 1
        BY <1>5, <2>2
      <3> QED BY <1>1, <1>5, <3>1
    <2> QED BY <1>5, <1>6, <2>1, <2>2
  <1>8. h.bucket[i] \in Entry(C)
    BY <1>5, <1>7 DEF Table, Bucket
  <1>9. h.bucket[i].val \in C
    BY <1>8 DEF Entry
  <1>10. kh_get(h, str, hf, s) = h.bucket[i].val
    <2>1. i # n
      BY <1>2, <1>5
    <2> QED BY <2>1 DEF kh_get
  <1> QED BY <1>9, <1>10

-----------------------------------------------------------------------------
(* The rehash of kh_resize(), from m to n buckets: E are the entries of the *)
(* old table, N of them.                                                    *)
Moves(m, n, C) ==
  [live : SUBSET (0 .. m - 1), taken : SUBSET (0 .. n - 1), bucket : [0 .. n - 1 -> Bucket(C)],
   hand : Bucket(C)]
InHand(w) == IF w.hand = NoEntry THEN 0 ELSE 1

\* An entry of the new table is reached by way of buckets that are filled.
PlacedIn(taken, code, i, n) ==
  \E t \in 0 .. n - 1 : Probe(code, t, n) = i /\ \A u \in 0 .. t - 1 : Probe(code, u, n) \in taken

\* No entry is lost or duplicated on the way.
MoveInv(w, E, N, str, hf, n, C) ==
  /\ w.live \cap w.taken = {}
  /\ \A i \in w.live \cup w.taken : w.bucket[i] \in E
  /\ w.hand \in E \cup {NoEntry}
  /\ \A e \in E : e = w.hand \/ \E i \in w.live \cup w.taken : w.bucket[i] = e
  /\ Cardinality(w.live) + Cardinality(w.taken) + InHand(w) = N
  /\ \A i \in w.taken : PlacedIn(w.taken, hf[str[w.bucket[i].key]], i, n)

\* The next bucket of a chain of probes that is not filled.
LEMMA FreeProbe ==
  ASSUME NEW n \in Nat, n > 0, TwosOnly(n), NEW code \in Nat,
         NEW taken \in SUBSET (0 .. n - 1), Cardinality(taken) < n,
         NEW i, i = Probe(code, Min({t \in 0 .. n - 1 : Probe(code, t, n) \notin taken}), n)
  PROVE  /\ i \in 0 .. n - 1 /\ i \notin taken
         /\ PlacedIn(taken, code, i, n)
  <1> DEFINE D == 0 .. n - 1
             T == {t \in D : Probe(code, t, n) \notin taken}
  <1>1. T # {}
    <2>1. IsFiniteSet(D) /\ Cardinality(D) = n
      <3>1. 0 \in Int /\ n - 1 \in Int
        OBVIOUS
      <3>2. IsFiniteSet(0 .. n - 1) /\ Cardinality(0 .. n - 1) = IF 0 > n - 1 THEN 0 ELSE (n - 1) - 0 + 1
        BY <3>1, FS_Interval
      <3> QED BY <3>2
    <2>2. taken # D
      BY <2>1
    <2>3. PICK b \in D : b \notin taken
      BY <2>2
    <2>4. PICK t \in D : Probe(code, t, n) = b
      BY ProbesReachAll
    <2>5. t \in T
      BY <2>3, <2>4
    <2> QED BY <2>5
  <1>2. Min(T) \in T /\ \A m \in T : Min(T) <= m
    <2>1. T \subseteq Nat
      OBVIOUS
    <2> HIDE DEF T
    <2> QED BY <1>1, <2>1, MinIs
  <1> DEFINE m == Min(T)
  <1>3. m \in 0 .. n - 1 /\ Probe(code, m, n) \notin taken /\ i = Probe(code, m, n)
    BY <1>2
  <1>4. Probe(code, m, n) \in 0 .. n - 1
    <2>1. m \in Nat
      BY <1>3
    <2> HIDE DEF m
    <2> QED BY <2>1, ProbeType
  <1>5. \A u \in 0 .. m - 1 : Probe(code, u, n) \in taken
    <2> SUFFICES ASSUME NEW u \in 0 .. m - 1, Probe(code, u, n) \notin taken PROVE FALSE
      OBVIOUS
    <2>1. u \in D /\ u < m
      BY <1>3
    <2>2. u \in T
      BY <2>1
    <2>3. u \in Int /\ m \in Int /\ m <= u
      BY <1>2, <1>3, <2>2
    <2> QED BY <2>1, <2>3
  <1> HIDE DEF m, T
  <1> QED BY <1>3, <1>4, <1>5 DEF PlacedIn

\* An entry stays reachable when more buckets are filled.
LEMMA PlacedGrows ==
  ASSUME NEW a, NEW b, a \subseteq b, NEW code, NEW i, NEW n, PlacedIn(a, code, i, n)
  PROVE  PlacedIn(b, code, i, n)
  BY DEF PlacedIn

\* What is taken up: the entry pushed out last, or the next of the old table.
TakenUp(w) == IF w.hand = NoEntry THEN w.bucket[Min(w.live)] ELSE w.hand
StillLive(w) == IF w.hand = NoEntry THEN w.live \ {Min(w.live)} ELSE w.live
FirstFree(w, code, n) ==
  Probe(code, Min({t \in 0 .. n - 1 : Probe(code, t, n) \notin w.taken}), n)

\* A round of the loop of kh_resize() in these terms.
LEMMA KickIs ==
  ASSUME NEW w, NEW str, NEW hf, NEW n, NEW i,
         i = FirstFree(w, hf[str[TakenUp(w).key]], n)
  PROVE  Kick(w, str, hf, n) =
           [live |-> StillLive(w) \ {i}, taken |-> w.taken \cup {i},
            bucket |-> [w.bucket EXCEPT ![i] = TakenUp(w)],
            hand |-> IF i \in StillLive(w) THEN w.bucket[i] ELSE NoEntry]
  BY DEF Kick, TakenUp, StillLive, FirstFree

\* The entry taken up, and what is left of the old table.
LEMMA TakeUp ==
  ASSUME NEW C, C \subseteq Nat, NEW m \in Nat, NEW n \in Nat, NEW w \in Moves(m, n, C),
         NEW E, E \subseteq Entry(C), NEW N \in Nat, NEW str, NEW hf,
         MoveInv(w, E, N, str, hf, n, C), ~AllMoved(w)
  PROVE  /\ TakenUp(w) \in E /\ StillLive(w) \subseteq w.live
         /\ \A e \in E : e = TakenUp(w) \/ \E i \in StillLive(w) \cup w.taken : w.bucket[i] = e
         /\ IsFiniteSet(StillLive(w)) /\ IsFiniteSet(w.taken)
         /\ Cardinality(StillLive(w)) \in Nat /\ Cardinality(w.taken) \in Nat
         /\ Cardinality(StillLive(w)) + Cardinality(w.taken) + 1 = N
  <1>1. IsFiniteSet(w.live) /\ IsFiniteSet(w.taken)
    <2>1. IsFiniteSet(0 .. m - 1) /\ IsFiniteSet(0 .. n - 1)
      <3>1. m - 1 \in Int /\ n - 1 \in Int
        OBVIOUS
      <3> QED BY <3>1, FS_Interval
    <2>2. w.live \subseteq 0 .. m - 1 /\ w.taken \subseteq 0 .. n - 1
      BY DEF Moves
    <2> QED BY <2>1, <2>2, FS_Subset
  <1>2. Cardinality(w.live) \in Nat /\ Cardinality(w.taken) \in Nat
    BY <1>1, FS_CardinalityType
  <1>3. CASE w.hand # NoEntry
    <2>1. TakenUp(w) = w.hand /\ StillLive(w) = w.live
      BY <1>3 DEF TakenUp, StillLive
    <2>2. InHand(w) = 1
      BY <1>3 DEF InHand
    <2>3. Cardinality(StillLive(w)) + Cardinality(w.taken) + 1 = N
      BY <2>1, <2>2 DEF MoveInv
    <2>4. \A e \in E : e = TakenUp(w) \/ \E i \in StillLive(w) \cup w.taken : w.bucket[i] = e
      BY <2>1 DEF MoveInv
    <2>5. TakenUp(w) \in E
      BY <1>3, <2>1 DEF MoveInv
    <2> QED BY <1>1, <1>2, <2>1, <2>3, <2>4, <2>5
  <1>4. CASE w.hand = NoEntry
    <2> DEFINE j == Min(w.live)
    <2>1. w.live # {}
      BY <1>4 DEF AllMoved
    <2>2. j \in w.live
      <3>1. w.live \subseteq Nat
        BY DEF Moves
      <3> QED BY <2>1, <3>1, MinIs
    <2>3. TakenUp(w) = w.bucket[j] /\ StillLive(w) = w.live \ {j}
      BY <1>4 DEF TakenUp, StillLive
    <2>4. IsFiniteSet(StillLive(w)) /\ Cardinality(StillLive(w)) = Cardinality(w.live) - 1
      BY <1>1, <2>2, <2>3, FS_RemoveElement
    <2>5. InHand(w) = 0
      BY <1>4 DEF InHand
    <2>6. Cardinality(StillLive(w)) \in Nat
      BY <2>4, FS_CardinalityType
    <2>7. Cardinality(w.live) + Cardinality(w.taken) + 0 = N
      BY <2>5 DEF MoveInv
    <2>8. Cardinality(StillLive(w)) + Cardinality(w.taken) + 1 = N
      BY <1>2, <2>4, <2>6, <2>7
    <2> HIDE DEF j
    <2>9. TakenUp(w) \in E
      BY <2>2, <2>3 DEF MoveInv
    <2>10. ASSUME NEW e \in E PROVE e = TakenUp(w) \/ \E i \in StillLive(w) \cup w.taken : w.bucket[i] = e
      <3>1. e # NoEntry
        BY NoEntryOut
      <3>2. PICK i \in w.live \cup w.taken : w.bucket[i] = e
        BY <1>4, <3>1 DEF MoveInv
      <3> QED BY <2>3, <3>2
    <2> QED BY <1>1, <1>2, <2>3, <2>4, <2>6, <2>8, <2>9, <2>10
  <1> QED BY <1>3, <1>4

\* One round of the kick-out process.
Kicked(w, v, m, E, N, str, hf, n, C) ==
  /\ v \in Moves(m, n, C) /\ MoveInv(v, E, N, str, hf, n, C)
  /\ Cardinality(v.taken) = Cardinality(w.taken) + 1

\* It keeps the invariant and fills one more bucket.
LEMMA KickStep ==
  ASSUME NEW C, C \subseteq Nat, NEW m \in Nat, NEW n \in Nat, m <= n, n > 0, TwosOnly(n),
         NEW w \in Moves(m, n, C), NEW E, E \subseteq Entry(C), NEW N \in Nat, N <= n,
         NEW str, NEW hf, Named(str, hf, C),
         MoveInv(w, E, N, str, hf, n, C), ~AllMoved(w),
         NEW v, v = Kick(w, str, hf, n)
  PROVE  Kicked(w, v, m, E, N, str, hf, n, C)
  <1> DEFINE live == StillLive(w)
             x == TakenUp(w)
             code == hf[str[TakenUp(w).key]]
  <1>1. /\ x \in E /\ live \subseteq w.live
        /\ \A e \in E : e = x \/ \E i \in live \cup w.taken : w.bucket[i] = e
        /\ IsFiniteSet(live) /\ IsFiniteSet(w.taken)
        /\ Cardinality(live) \in Nat /\ Cardinality(w.taken) \in Nat
        /\ Cardinality(live) + Cardinality(w.taken) + 1 = N
    BY TakeUp
  <1> HIDE DEF live, x
  <1>2. x \in Entry(C) /\ x.key \in C /\ code \in Nat
    BY <1>1 DEF Entry, Named, x
  <1>3. w.taken \in SUBSET (0 .. n - 1) /\ w.live \in SUBSET (0 .. m - 1)
        /\ w.bucket \in [0 .. n - 1 -> Bucket(C)]
    BY DEF Moves
  <1>4. Cardinality(w.taken) < n
    BY <1>1
  <1>5. PICK i : i = FirstFree(w, code, n)
    OBVIOUS
  <1>6. /\ i \in 0 .. n - 1 /\ i \notin w.taken
        /\ PlacedIn(w.taken, code, i, n)
    <2> HIDE DEF code
    <2> QED BY <1>2, <1>3, <1>4, <1>5, FreeProbe DEF FirstFree
  <1>7. v = [live |-> live \ {i}, taken |-> w.taken \cup {i},
             bucket |-> [w.bucket EXCEPT ![i] = x],
             hand |-> IF i \in live THEN w.bucket[i] ELSE NoEntry]
    BY <1>5, KickIs DEF live, x
  <1>8. /\ v.live = live \ {i} /\ v.taken = w.taken \cup {i}
        /\ v.bucket = [w.bucket EXCEPT ![i] = x]
        /\ v.hand = IF i \in live THEN w.bucket[i] ELSE NoEntry
    BY <1>7
  <1>9. v.bucket \in [0 .. n - 1 -> Bucket(C)] /\ v.bucket[i] = x
        /\ \A k \in 0 .. n - 1 : k # i => v.bucket[k] = w.bucket[k]
    BY <1>2, <1>3, <1>6, <1>8 DEF Bucket
  <1>10. v.live \in SUBSET (0 .. m - 1) /\ v.taken \in SUBSET (0 .. n - 1)
    BY <1>1, <1>3, <1>6, <1>8
  <1>11. v.hand \in Bucket(C)
    BY <1>3, <1>6, <1>8 DEF Bucket
  <1>12. v \in Moves(m, n, C)
    BY <1>7, <1>8, <1>9, <1>10, <1>11 DEF Moves
  <1>13. Cardinality(v.taken) = Cardinality(w.taken) + 1
    <2>1. Cardinality(w.taken \cup {i}) =
            IF i \in w.taken THEN Cardinality(w.taken) ELSE Cardinality(w.taken) + 1
      BY <1>1, FS_AddElement
    <2> QED BY <1>6, <1>8, <2>1
  <1>14. Cardinality(v.live) + Cardinality(v.taken) + InHand(v) = N
    <2>1. CASE i \in live
      <3>1. Cardinality(v.live) = Cardinality(live) - 1
        BY <1>1, <1>8, <2>1, FS_RemoveElement
      <3>2. w.bucket[i] # NoEntry
        <4>1. w.bucket[i] \in E
          BY <1>1, <2>1 DEF MoveInv
        <4> QED BY <4>1, NoEntryOut
      <3>3. InHand(v) = 1
        BY <1>8, <2>1, <3>2 DEF InHand
      <3> QED BY <1>1, <1>13, <3>1, <3>3
    <2>2. CASE i \notin live
      <3>1. v.live = live
        BY <1>8, <2>2
      <3>2. InHand(v) = 0
        BY <1>8, <2>2 DEF InHand
      <3> QED BY <1>1, <1>13, <3>1, <3>2
    <2> QED BY <2>1, <2>2
  <1>15. v.live \cap v.taken = {}
    BY <1>1, <1>8 DEF MoveInv
  <1>16. \A k \in v.live \cup v.taken : v.bucket[k] \in E
    <2> SUFFICES ASSUME NEW k \in v.live \cup v.taken PROVE v.bucket[k] \in E
      OBVIOUS
    <2>1. CASE k = i
      BY <1>1, <1>9, <2>1
    <2>2. CASE k # i
      <3>1. k \in w.live \cup w.taken /\ k \in 0 .. n - 1
        BY <1>1, <1>3, <1>8, <2>2
      <3> QED BY <1>9, <2>2, <3>1 DEF MoveInv
    <2> QED BY <2>1, <2>2
  <1>17. v.hand \in E \cup {NoEntry}
    <2>1. CASE i \in live
      <3>1. w.bucket[i] \in E
        BY <1>1, <2>1 DEF MoveInv
      <3> QED BY <1>8, <3>1
    <2>2. CASE i \notin live
      BY <1>8, <2>2
    <2> QED BY <2>1, <2>2
  <1>18. \A e \in E : e = v.hand \/ \E k \in v.live \cup v.taken : v.bucket[k] = e
    <2> SUFFICES ASSUME NEW e \in E, e # v.hand
                 PROVE  \E k \in v.live \cup v.taken : v.bucket[k] = e
      OBVIOUS
    <2>1. CASE e = x
      <3>1. i \in v.taken
        BY <1>8
      <3> QED BY <1>9, <2>1, <3>1
    <2>2. CASE e # x
      <3>1. PICK k \in live \cup w.taken : w.bucket[k] = e
        BY <1>1, <2>2
      <3>2. k # i
        BY <1>6, <1>8, <3>1
      <3>3. k \in v.live \cup v.taken /\ k \in 0 .. n - 1
        BY <1>1, <1>3, <1>8, <3>1, <3>2
      <3> QED BY <1>9, <3>1, <3>2, <3>3
    <2> QED BY <2>1, <2>2
  <1>19. ASSUME NEW k \in v.taken PROVE PlacedIn(v.taken, hf[str[v.bucket[k].key]], k, n)
    <2>1. w.taken \subseteq v.taken
      BY <1>8
    <2>2. CASE k = i
      <3>1. PlacedIn(w.taken, hf[str[v.bucket[k].key]], k, n)
        BY <1>6, <1>9, <2>2 DEF x
      <3> QED BY <2>1, <3>1, PlacedGrows
    <2>3. CASE k # i
      <3>1. k \in w.taken /\ v.bucket[k] = w.bucket[k]
        BY <1>3, <1>8, <1>9, <2>3
      <3>2. PlacedIn(w.taken, hf[str[w.bucket[k].key]], k, n)
        BY <3>1 DEF MoveInv
      <3> QED BY <2>1, <3>1, <3>2, PlacedGrows
    <2> QED BY <2>2, <2>3
  <1> QED BY <1>12, <1>13, <1>14, <1>15, <1>16, <1>17, <1>18, <1>19 DEF MoveInv, Kicked

\* The same in short, for a rehash of E to n buckets.
Rehashes(m, n, E, N, str, hf, C) ==
  /\ C \subseteq Nat /\ m \in Nat /\ n \in Nat /\ m <= n /\ n > 0 /\ TwosOnly(n)
  /\ E \subseteq Entry(C) /\ N \in Nat /\ N <= n /\ Named(str, hf, C)
MoveStates(m, n, E, N, str, hf, C) ==
  {w \in Moves(m, n, C) : MoveInv(w, E, N, str, hf, n, C)}

\* A round keeps the invariant and fills one more bucket.
LEMMA KickRound ==
  ASSUME NEW C, NEW m, NEW n, NEW E, NEW N, NEW str, NEW hf,
         Rehashes(m, n, E, N, str, hf, C),
         NEW w \in MoveStates(m, n, E, N, str, hf, C), ~AllMoved(w)
  PROVE  /\ Kick(w, str, hf, n) \in MoveStates(m, n, E, N, str, hf, C)
         /\ Cardinality(Kick(w, str, hf, n).taken) = Cardinality(w.taken) + 1
         /\ Cardinality(w.taken) # N
  <1>1. /\ C \subseteq Nat /\ m \in Nat /\ n \in Nat /\ m <= n /\ n > 0 /\ TwosOnly(n)
        /\ E \subseteq Entry(C) /\ N \in Nat /\ N <= n /\ Named(str, hf, C)
        /\ w \in Moves(m, n, C) /\ MoveInv(w, E, N, str, hf, n, C)
    BY DEF Rehashes, MoveStates
  <1>2. PICK v : v = Kick(w, str, hf, n)
    OBVIOUS
  <1>3. Kicked(w, v, m, E, N, str, hf, n, C)
    BY <1>1, <1>2, KickStep
  <1>4. /\ Cardinality(StillLive(w)) \in Nat /\ Cardinality(w.taken) \in Nat
        /\ Cardinality(StillLive(w)) + Cardinality(w.taken) + 1 = N
    BY <1>1, TakeUp
  <1>5. Cardinality(w.taken) # N
    BY <1>4
  <1> QED BY <1>2, <1>3, <1>5 DEF MoveStates, Kicked

-----------------------------------------------------------------------------
\* After as many rounds as there are entries all of them are in the new table.
LEMMA RehashMovesAll ==
  ASSUME NEW C, NEW m, NEW n, NEW E, NEW N, NEW str, NEW hf,
         Rehashes(m, n, E, N, str, hf, C),
         NEW w \in MoveStates(m, n, E, N, str, hf, C), w.taken = {}
  PROVE  /\ Rehash(w, str, hf, n, N) \in MoveStates(m, n, E, N, str, hf, C)
         /\ AllMoved(Rehash(w, str, hf, n, N))
  <1> DEFINE S == MoveStates(m, n, E, N, str, hf, C)
             Next1(x) == IF AllMoved(x) THEN x ELSE Kick(x, str, hf, n)
             F(f) == f = [k \in Nat |-> IF k = 0 THEN w ELSE Next1(f[k - 1])]
             step == [k \in Nat |-> [x \in S |-> Next1(x)]]
             r == CHOOSE f : F(f)
  <1>1. Rehash(w, str, hf, n, N) = r[N]
    BY DEF Rehash
  <1>2. w \in S /\ N \in Nat
    BY DEF Rehashes
  <1>3. ASSUME NEW x \in S
        PROVE  /\ Next1(x) \in S
               /\ ~AllMoved(x) => /\ Cardinality(Next1(x).taken) = Cardinality(x.taken) + 1
                                  /\ Cardinality(x.taken) # N
    BY KickRound
  <1> HIDE DEF S, Next1, r
  <1>4. step \in [Nat -> [S -> S]]
    BY <1>3
  <1>5. PICK g : Recurs(g, S, w, step)
    <2> HIDE DEF step
    <2> QED BY <1>2, <1>4, Recursion
  <1>6. g \in [Nat -> S] /\ g[0] = w /\ \A k \in Nat : g[k + 1] = Next1(g[k])
    BY <1>5 DEF Recurs
  <1>7. F(g)
    <2>1. ASSUME NEW k \in Nat PROVE g[k] = IF k = 0 THEN w ELSE Next1(g[k - 1])
      <3>1. CASE k # 0
        <4>1. k - 1 \in Nat /\ (k - 1) + 1 = k
          BY <3>1
        <4> QED BY <1>6, <3>1, <4>1
      <3> QED BY <1>6, <3>1
    <2> QED BY <1>6, <2>1
  <1>8. F(r)
    <2> HIDE DEF F
    <2> QED BY <1>7 DEF r
  <1>9. r[0] = w /\ \A k \in Nat : r[k + 1] = Next1(r[k])
    <2>1. \A k \in Nat : k + 1 \in Nat /\ k + 1 # 0 /\ (k + 1) - 1 = k
      OBVIOUS
    <2> QED BY <1>8, <2>1
  <1> HIDE DEF F
  <1> DEFINE T == {k \in Nat : r[k] \in S /\ (AllMoved(r[k]) \/ Cardinality(r[k].taken) = k)}
  <1>10. 0 \in T
    BY <1>2, <1>9, FS_EmptySet
  <1>11. ASSUME NEW k \in Nat, k \in T PROVE k + 1 \in T
    <2>1. r[k] \in S /\ (AllMoved(r[k]) \/ Cardinality(r[k].taken) = k) /\ r[k + 1] = Next1(r[k])
      BY <1>9, <1>11
    <2>2. r[k + 1] \in S
      BY <1>3, <2>1
    <2>3. CASE AllMoved(r[k])
      BY <2>1, <2>2, <2>3 DEF Next1
    <2>4. CASE ~AllMoved(r[k])
      <3>1. Cardinality(r[k + 1].taken) = k + 1
        BY <1>3, <2>1, <2>4
      <3> QED BY <2>2, <3>1
    <2> QED BY <2>3, <2>4
  <1>12. N \in T
    <2> HIDE DEF T
    <2> QED BY <1>2, <1>10, <1>11, Induction
  <1>13. r[N] \in S /\ AllMoved(r[N])
    BY <1>3, <1>12
  <1> QED BY <1>1, <1>13 DEF S

-----------------------------------------------------------------------------
(* kh_resize()                                                              *)
ResizeStart(h, n) ==
  [live   |-> {i \in 0 .. h.n_buckets - 1 : h.bucket[i] # NoEntry},
   taken  |-> {},
   bucket |-> [i \in 0 .. n - 1 |-> IF i < h.n_buckets THEN h.bucket[i] ELSE NoEntry],
   hand   |-> NoEntry]

\* The invariant holds when the loop of kh_resize() begins.
LEMMA ResizeBegins ==
  ASSUME NEW C, C \subseteq Nat, NEW h, Table(h, C), NEW n \in Nat, h.n_buckets <= n,
         NEW str, NEW hf, NEW w, w = ResizeStart(h, n)
  PROVE  /\ w \in Moves(h.n_buckets, n, C) /\ w.taken = {}
         /\ MoveInv(w, Entries(h), h.size, str, hf, n, C)
         /\ Entries(h) \subseteq Entry(C) /\ Cardinality(w.live) = h.size
  <1> DEFINE m == h.n_buckets
  <1>1. /\ m \in Nat /\ h.bucket \in [0 .. m - 1 -> Bucket(C)] /\ h.size = Cardinality(Used(h))
        /\ h.size \in Nat
    BY DEF Table
  <1>2. /\ w.live = Used(h) /\ w.taken = {} /\ w.hand = NoEntry
        /\ w.bucket = [i \in 0 .. n - 1 |-> IF i < m THEN h.bucket[i] ELSE NoEntry]
    BY DEF ResizeStart, Used
  <1>3. w.bucket \in [0 .. n - 1 -> Bucket(C)]
    <2> SUFFICES ASSUME NEW i \in 0 .. n - 1
                 PROVE  (IF i < m THEN h.bucket[i] ELSE NoEntry) \in Bucket(C)
      BY <1>2
    <2>1. CASE i < m
      <3>1. i \in 0 .. m - 1
        BY <1>1, <2>1
      <3> QED BY <1>1, <2>1, <3>1
    <2>2. CASE ~(i < m)
      BY <2>2 DEF Bucket
    <2> QED BY <2>1, <2>2
  <1>4. Used(h) \in SUBSET (0 .. m - 1) /\ NoEntry \in Bucket(C)
    BY DEF Used, Bucket
  <1>5. w \in Moves(m, n, C)
    <2>1. w = [live |-> w.live, taken |-> w.taken, bucket |-> w.bucket, hand |-> w.hand]
      BY DEF ResizeStart
    <2>2. w.live \in SUBSET (0 .. m - 1) /\ w.taken \in SUBSET (0 .. n - 1) /\ w.hand \in Bucket(C)
      BY <1>2, <1>4
    <2> QED BY <1>3, <2>1, <2>2 DEF Moves
  <1>6. \A i \in Used(h) : w.bucket[i] = h.bucket[i] /\ h.bucket[i] \in Entries(h)
    <2> SUFFICES ASSUME NEW i \in Used(h) PROVE w.bucket[i] = h.bucket[i] /\ h.bucket[i] \in Entries(h)
      OBVIOUS
    <2>1. i \in 0 .. n - 1 /\ i < m
      BY <1>1, <1>4
    <2> QED BY <1>2, <2>1 DEF Entries
  <1>7. \A e \in Entries(h) : \E i \in Used(h) : h.bucket[i] = e
    BY DEF Entries
  <1>8. Cardinality(w.live) + Cardinality(w.taken) + InHand(w) = h.size
    <2>1. Cardinality(w.taken) = 0 /\ InHand(w) = 0
      BY <1>2, FS_EmptySet DEF InHand
    <2> QED BY <1>1, <1>2, <2>1
  <1>9. MoveInv(w, Entries(h), h.size, str, hf, n, C)
    <2>1. w.live \cup w.taken = Used(h)
      BY <1>2
    <2>2. \A e \in Entries(h) : \E i \in w.live \cup w.taken : w.bucket[i] = e
      BY <1>6, <1>7, <2>1
    <2> QED BY <1>2, <1>6, <1>8, <2>1, <2>2 DEF MoveInv
  <1>10. Entries(h) \subseteq Entry(C)
    BY <1>1 DEF Entries, Used, Bucket
  <1> QED BY <1>1, <1>2, <1>5, <1>9, <1>10

Settled(h, v, n) ==
  [h EXCEPT !.n_buckets = n, !.upper_bound = UpperBound(n),
            !.bucket = [i \in 0 .. n - 1 |-> IF i \in v.taken THEN v.bucket[i] ELSE NoEntry]]

\* kh_resize() in these terms.
LEMMA ResizeIs ==
  ASSUME NEW h, NEW str, NEW hf, NEW n, NEW w, NEW v,
         w = ResizeStart(h, n), v = Rehash(w, str, hf, n, Cardinality(w.live))
  PROVE  kh_resize(h, str, hf, n) = Settled(h, v, n)
  BY DEF kh_resize, ResizeStart, Settled

\* The larger table has the same entries, each where a search finds it.
Resized(h, g, str, hf, C) ==
  /\ Table(g, C) /\ g.n_buckets > 0 /\ g.size = h.size /\ g.size < g.upper_bound
  /\ Entries(g) = Entries(h)
  /\ \A e \in Entries(h) : Found(g, str, hf, str[e.key])

\* kh_resize() to the next size keeps every entry, where a search by its name
\* finds it.
LEMMA ResizeKeeps ==
  ASSUME NEW C, C \subseteq Nat, NEW h, Table(h, C), NEW str, NEW hf, Named(str, hf, C),
         NEW g, g = kh_resize(h, str, hf, Larger(h))
  PROVE  Resized(h, g, str, hf, C)
  <1> DEFINE m == h.n_buckets
             E == Entries(h)
  <1>1. PICK n : n = Larger(h)
    OBVIOUS
  <1>2. m \in Nat /\ h.size \in Nat /\ h.size = Cardinality(Used(h))
        /\ h = [n_buckets |-> h.n_buckets, size |-> h.size, upper_bound |-> h.upper_bound,
                bucket |-> h.bucket]
    BY DEF Table
  <1>3. /\ n \in Nat /\ n >= 4 /\ m <= n /\ TwosOnly(n)
        /\ UpperBound(n) \in Nat /\ h.size < UpperBound(n) /\ UpperBound(n) < n
    <2>1. CASE m = 0
      <3>1. n = 4 /\ h.size = 0
        BY <1>1, <2>1 DEF Larger, Table, Sized
      <3>2. UpperBound(4) = 3
        BY DEF UpperBound
      <3> QED BY <2>1, <3>1, <3>2, TwosOnlyFour
    <2>2. CASE m # 0
      <3>1. n = 2 * m /\ m >= 4 /\ TwosOnly(m) /\ h.size <= UpperBound(m)
        BY <1>1, <2>2 DEF Larger, Table, Sized
      <3>2. UpperBound(m) \in Nat /\ UpperBound(m) < m /\ m <= UpperBound(2 * m)
        BY <1>2, <3>1, UpperBoundBelow
      <3>3. n \in Nat /\ n >= 4 /\ m <= n
        BY <1>2, <3>1
      <3>4. UpperBound(n) \in Nat /\ UpperBound(n) < n
        BY <3>3, UpperBoundBelow
      <3>5. TwosOnly(n)
        BY <1>2, <3>1, TwosOnlyDouble
      <3> QED BY <1>2, <3>1, <3>2, <3>3, <3>4, <3>5
    <2> QED BY <2>1, <2>2
  <1>4. PICK w : w = ResizeStart(h, n)
    OBVIOUS
  <1>5. /\ w \in Moves(m, n, C) /\ w.taken = {}
        /\ MoveInv(w, E, h.size, str, hf, n, C)
        /\ E \subseteq Entry(C) /\ Cardinality(w.live) = h.size
    BY <1>3, <1>4, ResizeBegins
  <1> HIDE DEF m, E
  <1>6. PICK v \in Moves(m, n, C) :
          /\ v = Rehash(w, str, hf, n, h.size)
          /\ MoveInv(v, E, h.size, str, hf, n, C) /\ AllMoved(v)
    <2>1. n > 0 /\ h.size <= n /\ m <= n
      BY <1>2, <1>3
    <2>2. Rehashes(m, n, E, h.size, str, hf, C)
      BY <1>2, <1>3, <1>5, <2>1 DEF Rehashes, m
    <2>3. w \in MoveStates(m, n, E, h.size, str, hf, C)
      BY <1>5 DEF MoveStates
    <2>4. /\ Rehash(w, str, hf, n, h.size) \in MoveStates(m, n, E, h.size, str, hf, C)
          /\ AllMoved(Rehash(w, str, hf, n, h.size))
      BY <1>5, <2>2, <2>3, RehashMovesAll
    <2> QED BY <2>4 DEF MoveStates
  <1> DEFINE b == [i \in 0 .. n - 1 |-> IF i \in v.taken THEN v.bucket[i] ELSE NoEntry]
  <1>7. g = [h EXCEPT !.n_buckets = n, !.upper_bound = UpperBound(n), !.bucket = b]
    <2>1. v = Rehash(w, str, hf, n, Cardinality(w.live))
      BY <1>5, <1>6
    <2>2. kh_resize(h, str, hf, n) = Settled(h, v, n)
      BY <1>4, <2>1, ResizeIs
    <2> QED BY <1>1, <2>2, Zenon DEF Settled
  <1>8. /\ g.n_buckets = n /\ g.upper_bound = UpperBound(n) /\ g.bucket = b /\ g.size = h.size
        /\ g = [n_buckets |-> g.n_buckets, size |-> g.size, upper_bound |-> g.upper_bound,
                bucket |-> g.bucket]
    <2> HIDE DEF b
    <2> QED BY <1>2, <1>7
  <1>9. v.live = {} /\ v.hand = NoEntry /\ v.taken \in SUBSET (0 .. n - 1)
        /\ v.bucket \in [0 .. n - 1 -> Bucket(C)]
    BY <1>6 DEF AllMoved, Moves
  <1>10. \A i \in v.taken : v.bucket[i] \in E /\ v.bucket[i] # NoEntry
    <2>1. \A i \in v.taken : v.bucket[i] \in E
      BY <1>6 DEF MoveInv
    <2> QED BY <1>5, <2>1, NoEntryOut
  <1>11. b \in [0 .. n - 1 -> Bucket(C)]
    BY <1>9 DEF Bucket
  <1>12. Used(g) = v.taken /\ \A i \in v.taken : g.bucket[i] = v.bucket[i]
    BY <1>8, <1>9, <1>10 DEF Used
  <1>13. Cardinality(v.taken) = h.size
    <2>1. Cardinality(v.live) = 0 /\ InHand(v) = 0
      BY <1>9, FS_EmptySet DEF InHand
    <2>2. IsFiniteSet(v.taken)
      <3>1. n - 1 \in Int
        BY <1>3
      <3>2. IsFiniteSet(0 .. n - 1)
        BY <3>1, FS_Interval
      <3> QED BY <1>9, <3>2, FS_Subset
    <2>3. Cardinality(v.taken) \in Nat
      BY <2>2, FS_CardinalityType
    <2>4. Cardinality(v.live) + Cardinality(v.taken) + InHand(v) = h.size
      BY <1>6 DEF MoveInv
    <2> QED BY <2>1, <2>3, <2>4
  <1>14. Sized(g)
    BY <1>2, <1>3, <1>8 DEF Sized
  <1> HIDE DEF b
  <1>15. Table(g, C)
    BY <1>2, <1>3, <1>8, <1>11, <1>12, <1>13, <1>14 DEF Table
  <1>16. \A e \in E : \E i \in v.taken : g.bucket[i] = e
    <2> SUFFICES ASSUME NEW e \in E PROVE \E i \in v.taken : g.bucket[i] = e
      OBVIOUS
    <2>1. e # v.hand
      BY <1>5, <1>9, NoEntryOut
    <2>2. PICK i \in v.live \cup v.taken : v.bucket[i] = e
      BY <1>6, <2>1 DEF MoveInv
    <2> QED BY <1>9, <1>12, <2>2
  <1>17. Entries(g) = E
    BY <1>10, <1>12, <1>16 DEF Entries
  <1>18. ASSUME NEW e \in E PROVE Found(g, str, hf, str[e.key])
    <2> DEFINE code == hf[str[e.key]]
    <2>1. PICK i \in v.taken : g.bucket[i] = e
      BY <1>16
    <2>2. PlacedIn(v.taken, code, i, n)
      BY <1>6, <1>12, <2>1 DEF MoveInv
    <2>3. PICK t \in 0 .. n - 1 :
            Probe(code, t, n) = i /\ \A u \in 0 .. t - 1 : Probe(code, u, n) \in v.taken
      BY <2>2 DEF PlacedIn
    <2>4. \A u \in 0 .. t - 1 : g.bucket[Probe(code, u, n)] # NoEntry
      BY <1>10, <1>12, <2>3
    <2>5. g.bucket[Probe(code, t, n)] # NoEntry /\ g.bucket[Probe(code, t, n)].key = e.key
      BY <1>10, <1>12, <2>1, <2>3
    <2> QED BY <1>8, <2>4, <2>5 DEF Found
  <1>19. g.n_buckets > 0 /\ g.size < g.upper_bound
    BY <1>3, <1>8
  <1> QED BY <1>8, <1>15, <1>17, <1>18, <1>19 DEF Resized, E

-----------------------------------------------------------------------------
(* kh_put()                                                                 *)

\* Buckets that are filled, or keep their key, keep what is found.
LEMMA FoundKept ==
  ASSUME NEW h, NEW g, g.n_buckets = h.n_buckets, NEW str, NEW hf, NEW s,
         hf[s] \in Nat, h.n_buckets \in Nat,
         \A i \in 0 .. h.n_buckets - 1 : h.bucket[i] # NoEntry =>
            g.bucket[i] # NoEntry /\ g.bucket[i].key = h.bucket[i].key,
         Found(h, str, hf, s)
  PROVE  Found(g, str, hf, s)
  <1> DEFINE n == h.n_buckets
             code == hf[s]
  <1>1. PICK t \in 0 .. n - 1 :
          /\ h.bucket[Probe(code, t, n)] # NoEntry
          /\ str[h.bucket[Probe(code, t, n)].key] = s
          /\ \A u \in 0 .. t - 1 : h.bucket[Probe(code, u, n)] # NoEntry
    BY DEF Found
  <1>2. n \in Nat /\ n > 0
    BY <1>1
  <1>3. \A u \in Nat : Probe(code, u, n) \in 0 .. n - 1
    <2> HIDE DEF n, code
    <2>1. code \in Nat
      BY DEF code
    <2> QED BY <1>2, <2>1, ProbeType
  <1>4. t \in Nat /\ \A u \in 0 .. t - 1 : u \in Nat
    OBVIOUS
  <1>5. \A u \in 0 .. t - 1 : g.bucket[Probe(code, u, n)] # NoEntry
    BY <1>1, <1>3, <1>4
  <1>6. g.bucket[Probe(code, t, n)] # NoEntry /\ str[g.bucket[Probe(code, t, n)].key] = s
    BY <1>1, <1>3, <1>4
  <1> QED BY <1>5, <1>6 DEF Found

\* So does a renaming of other keys.
LEMMA FoundRenamed ==
  ASSUME NEW h, NEW str, NEW str2, NEW hf, NEW s, hf[s] \in Nat, h.n_buckets \in Nat,
         \A e \in Entries(h) : str[e.key] = s => str2[e.key] = s,
         Found(h, str, hf, s)
  PROVE  Found(h, str2, hf, s)
  <1> DEFINE n == h.n_buckets
             code == hf[s]
  <1>1. PICK t \in 0 .. n - 1 :
          /\ h.bucket[Probe(code, t, n)] # NoEntry
          /\ str[h.bucket[Probe(code, t, n)].key] = s
          /\ \A u \in 0 .. t - 1 : h.bucket[Probe(code, u, n)] # NoEntry
    BY DEF Found
  <1>2. n \in Nat /\ n > 0 /\ t \in Nat
    BY <1>1
  <1>3. Probe(code, t, n) \in 0 .. n - 1
    <2> HIDE DEF n, code
    <2>1. code \in Nat
      BY DEF code
    <2> QED BY <1>2, <2>1, ProbeType
  <1>4. h.bucket[Probe(code, t, n)] \in Entries(h)
    BY <1>1, <1>3 DEF Entries, Used
  <1>5. str2[h.bucket[Probe(code, t, n)].key] = s
    BY <1>1, <1>4
  <1> QED BY <1>1, <1>5 DEF Found

\* A string that is found is that of an entry.
LEMMA FoundEntry ==
  ASSUME NEW h, NEW str, NEW hf, NEW s, hf[s] \in Nat, h.n_buckets \in Nat,
         Found(h, str, hf, s)
  PROVE  \E e \in Entries(h) : str[e.key] = s
  <1> DEFINE n == h.n_buckets
             code == hf[s]
  <1>1. PICK t \in 0 .. n - 1 :
          /\ h.bucket[Probe(code, t, n)] # NoEntry
          /\ str[h.bucket[Probe(code, t, n)].key] = s
    BY DEF Found
  <1>2. n \in Nat /\ n > 0 /\ t \in Nat
    BY <1>1
  <1>3. Probe(code, t, n) \in 0 .. n - 1
    <2> HIDE DEF n, code
    <2>1. code \in Nat
      BY DEF code
    <2> QED BY <1>2, <2>1, ProbeType
  <1> QED BY <1>1, <1>3 DEF Entries, Used

\* Where a bucket is filled, or the value in it replaced.
FilledAt(g, i, e) ==
  [n_buckets |-> g.n_buckets, size |-> IF g.bucket[i] = NoEntry THEN g.size + 1 ELSE g.size,
   upper_bound |-> g.upper_bound, bucket |-> [g.bucket EXCEPT ![i] = e]]
NewEntry(g, i, key, val) ==
  IF g.bucket[i] = NoEntry THEN [key |-> key, val |-> val] ELSE [key |-> g.bucket[i].key, val |-> val]

\* kh_put() fills the bucket it has found in one of two ways.
LEMMA FillsAt ==
  ASSUME NEW C, NEW g, Table(g, C), NEW i \in 0 .. g.n_buckets - 1, NEW key \in C, NEW val \in C
  PROVE  FilledAt(g, i, NewEntry(g, i, key, val)) =
           IF g.bucket[i] = NoEntry
             THEN [Counted(g) EXCEPT !.bucket[i] = [key |-> key, val |-> val]]
             ELSE [g EXCEPT !.bucket[i].val = val]
  <1>1. /\ g = [n_buckets |-> g.n_buckets, size |-> g.size, upper_bound |-> g.upper_bound,
                bucket |-> g.bucket]
        /\ g.bucket \in [0 .. g.n_buckets - 1 -> Bucket(C)]
    BY DEF Table
  <1>2. PICK n, s, u, b : n = g.n_buckets /\ s = g.size /\ u = g.upper_bound /\ b = g.bucket
    OBVIOUS
  <1>3. g = [n_buckets |-> n, size |-> s, upper_bound |-> u, bucket |-> b]
    BY <1>1, <1>2
  <1>4. CASE b[i] = NoEntry
    <2>1. PICK e : e = [key |-> key, val |-> val]
      OBVIOUS
    <2>2. NewEntry(g, i, key, val) = e
      BY <1>2, <1>4, <2>1 DEF NewEntry
    <2>3. Counted(g) = [n_buckets |-> n, size |-> s + 1, upper_bound |-> u, bucket |-> b]
      BY <1>3 DEF Counted
    <2>4. PICK b2 : b2 = [b EXCEPT ![i] = e]
      OBVIOUS
    <2>5. [Counted(g) EXCEPT !.bucket[i] = e] = [n_buckets |-> n, size |-> s + 1, upper_bound |-> u, bucket |-> b2]
      BY <2>3, <2>4
    <2>6. FilledAt(g, i, e) = [n_buckets |-> n, size |-> s + 1, upper_bound |-> u, bucket |-> b2]
      BY <1>2, <1>4, <2>4 DEF FilledAt
    <2> QED BY <1>2, <1>4, <2>1, <2>2, <2>5, <2>6
  <1>5. CASE b[i] # NoEntry
    <2>1. b[i] \in Entry(C)
      BY <1>1, <1>2, <1>5 DEF Bucket
    <2>2. PICK e : e = [key |-> b[i].key, val |-> val]
      OBVIOUS
    <2>3. [b[i] EXCEPT !.val = val] = e
      BY <2>1, <2>2 DEF Entry
    <2>4. NewEntry(g, i, key, val) = e
      BY <1>2, <1>5, <2>2 DEF NewEntry
    <2>5. PICK b2 : b2 = [b EXCEPT ![i] = e]
      OBVIOUS
    <2>6. [g EXCEPT !.bucket[i].val = val] = [n_buckets |-> n, size |-> s, upper_bound |-> u, bucket |-> b2]
      <3>1. [b EXCEPT ![i].val = val] = b2
        BY <1>1, <1>2, <2>3, <2>5
      <3>2. [g EXCEPT !.bucket[i].val = val] =
              [n_buckets |-> n, size |-> s, upper_bound |-> u, bucket |-> [b EXCEPT ![i].val = val]]
        BY <1>3
      <3> QED BY <3>1, <3>2
    <2>7. FilledAt(g, i, e) = [n_buckets |-> n, size |-> s, upper_bound |-> u, bucket |-> b2]
      BY <1>2, <1>5, <2>5 DEF FilledAt
    <2> QED BY <1>2, <1>5, <2>4, <2>6, <2>7
  <1> QED BY <1>2, <1>4, <1>5

-----------------------------------------------------------------------------
\* What a call has made of a table: entries stay, the key is found, and a new
\* entry, or one whose string it has, holds the value.
PutIn(h, g, str, hf, key, val, C) ==
  /\ Table(g, C) /\ g.n_buckets > 0
  /\ Found(g, str, hf, str[key])
  /\ \A s : hf[s] \in Nat /\ Found(h, str, hf, s) => Found(g, str, hf, s)
  /\ \A e \in Entries(g) :
       \/ e \in Entries(h)
       \/ e = [key |-> key, val |-> val]
       \/ \E x \in Entries(h) : str[x.key] = str[key] /\ e = [key |-> x.key, val |-> val]

\* The second half of the call, once there is room.
LEMMA InsertKeeps ==
  ASSUME NEW C, C \subseteq Nat, NEW h, Table(h, C), h.n_buckets > 0, h.size < h.upper_bound,
         NEW str, NEW hf, Named(str, hf, C), NEW key \in C, NEW val \in C,
         NEW i, i = Search(h, str, hf, str[key]),
         NEW g, g = FilledAt(h, i, NewEntry(h, i, key, val))
  PROVE  PutIn(h, g, str, hf, key, val, C)
  <1> DEFINE n == h.n_buckets
             s == str[key]
             code == hf[str[key]]
  <1>1. code \in Nat
    BY DEF Named
  <1>2. /\ n \in Nat /\ h.size \in Nat /\ h.bucket \in [0 .. n - 1 -> Bucket(C)]
        /\ h.size = Cardinality(Used(h)) /\ Sized(h)
    BY DEF Table
  <1>3. PICK t : StopsAt(h, str, hf, s, t)
    BY <1>1, SearchStops
  <1>4. /\ t \in 0 .. n - 1 /\ i = Probe(code, t, n) /\ i \in 0 .. n - 1
        /\ Stops(h, str, s, i)
        /\ \A u \in 0 .. t - 1 : ~Stops(h, str, s, Probe(code, u, n))
    BY <1>3 DEF StopsAt
  <1>5. PICK e : e = NewEntry(h, i, key, val)
    OBVIOUS
  <1>6. e \in Entry(C) /\ e # NoEntry /\ str[e.key] = s
        /\ (h.bucket[i] # NoEntry => e.key = h.bucket[i].key)
    <2>1. CASE h.bucket[i] = NoEntry
      <3>1. e = [key |-> key, val |-> val]
        BY <1>5, <2>1 DEF NewEntry
      <3>2. e \in Entry(C) /\ e.key = key
        BY <3>1 DEF Entry
      <3> QED BY <2>1, <3>2, NoEntryOut
    <2>2. CASE h.bucket[i] # NoEntry
      <3>1. e = [key |-> h.bucket[i].key, val |-> val]
        BY <1>5, <2>2 DEF NewEntry
      <3>2. h.bucket[i] \in Entry(C)
        BY <1>2, <1>4, <2>2 DEF Bucket
      <3>3. e \in Entry(C) /\ e.key = h.bucket[i].key
        BY <3>1, <3>2 DEF Entry
      <3>4. str[h.bucket[i].key] = s
        BY <1>4, <2>2 DEF Stops
      <3> QED BY <3>3, <3>4, NoEntryOut
    <2> QED BY <2>1, <2>2
  <1>7. /\ g.n_buckets = n /\ g.upper_bound = h.upper_bound
        /\ g.size = (IF h.bucket[i] = NoEntry THEN h.size + 1 ELSE h.size)
        /\ g.bucket = [h.bucket EXCEPT ![i] = e]
        /\ g = [n_buckets |-> g.n_buckets, size |-> g.size, upper_bound |-> g.upper_bound,
                bucket |-> g.bucket]
    BY <1>5 DEF FilledAt
  <1>8. /\ g.bucket \in [0 .. n - 1 -> Bucket(C)] /\ g.bucket[i] = e
        /\ \A k \in 0 .. n - 1 : k # i => g.bucket[k] = h.bucket[k]
    BY <1>2, <1>4, <1>6, <1>7 DEF Bucket
  <1>9. Used(g) = Used(h) \cup {i}
    BY <1>4, <1>6, <1>7, <1>8 DEF Used
  <1>10. g.size = Cardinality(Used(g)) /\ g.size \in Nat /\ g.size <= h.upper_bound
    <2>1. IsFiniteSet(Used(h))
      BY UsedFinite
    <2>2. Cardinality(Used(h) \cup {i}) =
            IF i \in Used(h) THEN Cardinality(Used(h)) ELSE Cardinality(Used(h)) + 1
      BY <2>1, FS_AddElement
    <2>3. i \in Used(h) <=> h.bucket[i] # NoEntry
      BY <1>4 DEF Used
    <2>4. h.upper_bound \in Int
      <3>1. n >= 4 /\ h.upper_bound = UpperBound(n)
        BY <1>2 DEF Sized
      <3> QED BY <1>2, <3>1, UpperBoundBelow
    <2> QED BY <1>2, <1>7, <1>9, <2>2, <2>3, <2>4
  <1>11. Sized(g)
    BY <1>2, <1>7, <1>10 DEF Sized
  <1>12. Table(g, C)
    BY <1>2, <1>7, <1>8, <1>10, <1>11 DEF Table
  <1>13. \A k \in 0 .. n - 1 : h.bucket[k] # NoEntry =>
           g.bucket[k] # NoEntry /\ g.bucket[k].key = h.bucket[k].key
    BY <1>6, <1>8
  <1>14. ASSUME NEW z, hf[z] \in Nat, Found(h, str, hf, z) PROVE Found(g, str, hf, z)
    <2>1. g.n_buckets = h.n_buckets /\ h.n_buckets \in Nat
      BY <1>2, <1>7
    <2>2. \A k \in 0 .. h.n_buckets - 1 : h.bucket[k] # NoEntry =>
            g.bucket[k] # NoEntry /\ g.bucket[k].key = h.bucket[k].key
      BY <1>13
    <2> QED BY <1>14, <2>1, <2>2, FoundKept, Zenon
  <1>15. Found(g, str, hf, s)
    <2>1. \A u \in 0 .. t - 1 : h.bucket[Probe(code, u, n)] # NoEntry
      BY <1>4 DEF Stops
    <2>2. \A u \in 0 .. t - 1 : g.bucket[Probe(code, u, n)] # NoEntry
      <3> SUFFICES ASSUME NEW u \in 0 .. t - 1 PROVE g.bucket[Probe(code, u, n)] # NoEntry
        OBVIOUS
      <3>1. u \in Nat /\ n > 0
        OBVIOUS
      <3>2. Probe(code, u, n) \in 0 .. n - 1
        <4> HIDE DEF n, code
        <4> QED BY <1>1, <1>2, <3>1, ProbeType
      <3> QED BY <1>13, <2>1, <3>2
    <2>3. g.bucket[Probe(code, t, n)] # NoEntry /\ str[g.bucket[Probe(code, t, n)].key] = s
      BY <1>4, <1>6, <1>8
    <2> QED BY <1>4, <1>7, <2>2, <2>3 DEF Found
  <1>16. ASSUME NEW x \in Entries(g)
         PROVE  \/ x \in Entries(h)
                \/ x = [key |-> key, val |-> val]
                \/ \E y \in Entries(h) : str[y.key] = s /\ x = [key |-> y.key, val |-> val]
    <2>1. PICK k \in Used(g) : g.bucket[k] = x
      BY DEF Entries
    <2>2. CASE k # i
      <3>1. k \in Used(h) /\ k \in 0 .. n - 1
        BY <1>9, <2>1, <2>2 DEF Used
      <3> QED BY <1>8, <2>1, <2>2, <3>1 DEF Entries
    <2>3. CASE k = i /\ h.bucket[i] = NoEntry
      BY <1>5, <1>8, <2>1, <2>3 DEF NewEntry
    <2>4. CASE k = i /\ h.bucket[i] # NoEntry
      <3>1. h.bucket[i] \in Entries(h)
        BY <1>4, <2>4 DEF Entries, Used
      <3>2. x = [key |-> h.bucket[i].key, val |-> val]
        BY <1>5, <1>8, <2>1, <2>4 DEF NewEntry
      <3>3. str[h.bucket[i].key] = s
        BY <1>4, <2>4 DEF Stops
      <3> QED BY <3>1, <3>2, <3>3
    <2> QED BY <2>2, <2>3, <2>4
  <1> QED BY <1>7, <1>12, <1>14, <1>15, <1>16 DEF PutIn

\* kh_put() with or without a resize.
LEMMA PutKeeps ==
  ASSUME NEW C, C \subseteq Nat, NEW h, Table(h, C),
         NEW str, NEW hf, Named(str, hf, C), NEW key \in C, NEW val \in C
  PROVE  PutIn(h, kh_put(h, str, hf, key, val), str, hf, key, val, C)
  <1>1. PICK q : q = IF MustResize(h) THEN kh_resize(h, str, hf, Larger(h)) ELSE h
    OBVIOUS
  <1>2. /\ Table(q, C) /\ q.n_buckets > 0 /\ q.size < q.upper_bound
        /\ Entries(q) = Entries(h)
        /\ \A s : hf[s] \in Nat /\ Found(h, str, hf, s) => Found(q, str, hf, s)
    <2>1. CASE MustResize(h)
      <3>1. Resized(h, q, str, hf, C)
        BY <1>1, <2>1, ResizeKeeps
      <3>2. ASSUME NEW s, hf[s] \in Nat, Found(h, str, hf, s) PROVE Found(q, str, hf, s)
        <4>1. h.n_buckets \in Nat
          BY DEF Table
        <4>2. PICK e \in Entries(h) : str[e.key] = s
          BY <3>2, <4>1, FoundEntry
        <4> QED BY <3>1, <4>2 DEF Resized
      <3> QED BY <3>1, <3>2 DEF Resized
    <2>2. CASE ~MustResize(h)
      <3>1. q = h
        BY <1>1, <2>2
      <3>2. h.n_buckets # 0
        BY <2>2 DEF MustResize, Table, Sized
      <3>3. h.upper_bound \in Int
        <4>1. h.n_buckets \in Nat /\ h.n_buckets >= 4 /\ h.upper_bound = UpperBound(h.n_buckets)
          BY <3>2 DEF Table, Sized
        <4> QED BY <4>1, UpperBoundBelow
      <3>4. h.n_buckets > 0 /\ h.size < h.upper_bound
        BY <2>2, <3>2, <3>3 DEF MustResize, Table
      <3> QED BY <3>1, <3>4
    <2> QED BY <2>1, <2>2
  <1>3. PICK i : i = Search(q, str, hf, str[key])
    OBVIOUS
  <1>4. i \in 0 .. q.n_buckets - 1
    <2>1. hf[str[key]] \in Nat
      BY DEF Named
    <2>2. PICK t : StopsAt(q, str, hf, str[key], t)
      BY <1>2, <2>1, SearchStops
    <2> QED BY <1>3, <2>2 DEF StopsAt
  <1>5. kh_put(h, str, hf, key, val) = FilledAt(q, i, NewEntry(q, i, key, val))
    <2>1. FilledAt(q, i, NewEntry(q, i, key, val)) =
            IF q.bucket[i] = NoEntry
              THEN [Counted(q) EXCEPT !.bucket[i] = [key |-> key, val |-> val]]
              ELSE [q EXCEPT !.bucket[i].val = val]
      BY <1>2, <1>4, FillsAt
    <2> QED BY <1>1, <1>3, <2>1, Zenon DEF kh_put
  <1>6. PICK g : g = kh_put(h, str, hf, key, val)
    OBVIOUS
  <1>7. PutIn(q, g, str, hf, key, val, C)
    BY <1>2, <1>3, <1>5, <1>6, InsertKeeps
  <1>8. PutIn(h, g, str, hf, key, val, C)
    BY <1>2, <1>7 DEF PutIn
  <1> QED BY <1>6, <1>8

-----------------------------------------------------------------------------
(* Paths, and the children of a directory in order.                         *)
Part == {"mnt", "beside", "out"} \cup Nat
Dirs(t) == {Mountpoint} \cup {p \in DOMAIN t : t[p] = -1}
Children(t, path) == {p \in DOMAIN t : Front(p) = path}

IsPath(p) ==
  /\ p \in Seq(Part) /\ Len(p) >= 2 /\ p[1] = "mnt"
  /\ \A k \in 2 .. Len(p) : p[k] \in Nat \ {0}

\* The paths of a file system begin with the mountpoint and have names behind
\* it.
LEMMA PathType ==
  ASSUME NEW t \in Trees, NEW p \in DOMAIN t
  PROVE  IsPath(p)
  <1>1. p = Mountpoint \o Tail(p) /\ Tail(p) \in Seq(Nat \ {0}) /\ Tail(p) # <<>>
    BY LookupAssumption
  <1>2. PICK q \in Seq(Nat \ {0}) : q = Tail(p)
    BY <1>1
  <1>3. q # <<>> /\ p = <<"mnt">> \o q /\ Len(q) \in Nat /\ Len(q) # 0
    <2>1. q # <<>> /\ p = <<"mnt">> \o q
      BY <1>1, <1>2, Zenon DEF Mountpoint
    <2> QED BY <1>2, <2>1, EmptySeq
  <1>4. <<"mnt">> \in Seq(Part) /\ Len(<<"mnt">>) = 1 /\ <<"mnt">>[1] = "mnt"
    BY DEF Part
  <1>5. q \in Seq(Part)
    <2>1. \A k \in 1 .. Len(q) : q[k] \in Part
      BY DEF Part
    <2> QED BY <2>1
  <1>6. /\ p \in Seq(Part) /\ Len(p) = 1 + Len(q)
        /\ \A k \in 1 .. 1 + Len(q) : p[k] = IF k <= 1 THEN <<"mnt">>[k] ELSE q[k - 1]
    BY <1>3, <1>4, <1>5
  <1>7. p[1] = "mnt" /\ Len(p) >= 2
    BY <1>3, <1>4, <1>6
  <1>8. ASSUME NEW k \in 2 .. Len(p) PROVE p[k] \in Nat \ {0}
    <2>1. k \in 1 .. 1 + Len(q) /\ ~(k <= 1) /\ k - 1 \in 1 .. Len(q)
      BY <1>3, <1>6
    <2> QED BY <1>6, <2>1
  <1> QED BY <1>6, <1>7, <1>8 DEF IsPath

\* The directory of a path, and the name in it.
LEMMA FrontLast ==
  ASSUME NEW p, IsPath(p)
  PROVE  /\ Front(p) \in Seq(Part) /\ Len(Front(p)) = Len(p) - 1
         /\ \A k \in 1 .. Len(p) - 1 : Front(p)[k] = p[k]
         /\ Last(p) = p[Len(p)] /\ Last(p) \in Nat \ {0}
  <1>1. p \in Seq(Part) /\ Len(p) \in Nat /\ Len(p) >= 2 /\ Len(p) \in 2 .. Len(p)
    BY DEF IsPath
  <1>2. Last(p) = p[Len(p)] /\ Last(p) \in Nat \ {0}
    BY <1>1 DEF IsPath, Last
  <1>3. /\ SubSeq(p, 1, Len(p) - 1) \in Seq(Part)
        /\ Len(SubSeq(p, 1, Len(p) - 1)) = Len(p) - 1
        /\ \A k \in 1 .. Len(p) - 1 : SubSeq(p, 1, Len(p) - 1)[k] = p[k]
    BY <1>1
  <1> QED BY <1>2, <1>3 DEF Front

\* A path is its directory and its name there.
LEMMA PathsDiffer ==
  ASSUME NEW p, NEW q, IsPath(p), IsPath(q), Front(p) = Front(q), Last(p) = Last(q)
  PROVE  p = q
  <1>1. /\ p \in Seq(Part) /\ q \in Seq(Part) /\ Len(p) \in Nat /\ Len(q) \in Nat
        /\ Len(p) - 1 = Len(q) - 1
        /\ \A k \in 1 .. Len(p) - 1 : Front(p)[k] = p[k]
        /\ \A k \in 1 .. Len(q) - 1 : Front(q)[k] = q[k]
        /\ p[Len(p)] = q[Len(q)]
    <2>1. p \in Seq(Part) /\ q \in Seq(Part) /\ Len(p) \in Nat /\ Len(q) \in Nat
      BY DEF IsPath
    <2>2. Len(Front(p)) = Len(p) - 1 /\ Len(Front(q)) = Len(q) - 1
      BY FrontLast
    <2>3. /\ \A k \in 1 .. Len(p) - 1 : Front(p)[k] = p[k]
          /\ \A k \in 1 .. Len(q) - 1 : Front(q)[k] = q[k]
          /\ Last(p) = p[Len(p)] /\ Last(q) = q[Len(q)]
      BY FrontLast
    <2> QED BY <2>1, <2>2, <2>3
  <1>2. Len(p) = Len(q)
    BY <1>1
  <1>3. ASSUME NEW k \in 1 .. Len(p) PROVE p[k] = q[k]
    <2>1. CASE k = Len(p)
      BY <1>1, <1>2, <2>1
    <2>2. CASE k # Len(p)
      <3>1. k \in 1 .. Len(p) - 1 /\ k \in 1 .. Len(q) - 1
        BY <1>1, <1>2, <2>2
      <3> QED BY <1>1, <3>1
    <2> QED BY <2>1, <2>2
  <1> QED BY <1>1, <1>2, <1>3, SeqEqual

\* Every entry is in a directory, and none is the mountpoint.
LEMMA InDirectory ==
  ASSUME NEW t \in Trees, NEW p \in DOMAIN t
  PROVE  Front(p) \in Dirs(t) /\ p # Mountpoint /\ p # <<>> /\ t[p] \in Nat \cup {-1}
  <1>1. IsPath(p)
    BY PathType
  <1>2. p \in Seq(Part) /\ Len(p) \in Nat /\ Len(p) >= 2 /\ p[1] = "mnt"
    BY <1>1 DEF IsPath
  <1>20. PICK n \in Nat : n = Len(p) /\ n >= 2
    BY <1>2, Zenon
  <1>3. p # Mountpoint /\ p # <<>>
    <2>1. Len(Mountpoint) = 1 /\ Len(<<>>) = 0
      BY DEF Mountpoint
    <2>2. n # 1 /\ n # 0
      BY <1>20
    <2> QED BY <1>20, <2>1, <2>2, Zenon
  <1>4. t[p] \in Nat \cup {-1} /\ (Len(p) > 2 => Front(p) \in DOMAIN t /\ t[Front(p)] = -1)
    BY LookupAssumption
  <1>5. CASE Len(p) = 2
    <2>1. Front(p) \in Seq(Part) /\ Len(Front(p)) = 1 /\ Front(p)[1] = "mnt"
      <3>1. /\ Front(p) \in Seq(Part) /\ Len(Front(p)) = Len(p) - 1
            /\ \A k \in 1 .. Len(p) - 1 : Front(p)[k] = p[k]
        BY <1>1, FrontLast
      <3>2. 1 \in 1 .. Len(p) - 1 /\ Len(p) - 1 = 1
        BY <1>5
      <3> QED BY <1>2, <3>1, <3>2
    <2>2. Mountpoint \in Seq(Part) /\ Len(Mountpoint) = 1 /\ Mountpoint[1] = "mnt"
      BY DEF Mountpoint, Part
    <2>3. \A k \in 1 .. 1 : k = 1
      OBVIOUS
    <2>4. Front(p) = Mountpoint
      BY <2>1, <2>2, <2>3, SeqEqual
    <2> QED BY <1>3, <1>4, <2>4 DEF Dirs
  <1>6. CASE Len(p) # 2
    <2>1. Len(p) > 2
      <3>1. n # 2 => n > 2
        BY <1>20
      <3> QED BY <1>6, <1>20, <3>1, Zenon
    <2> QED BY <1>3, <1>4, <2>1 DEF Dirs
  <1> QED BY <1>5, <1>6

\* The list that qsort() makes of the children of a directory.
SortedList(list, t, path) ==
  /\ list \in Seq(Children(t, path))
  /\ \A p \in Children(t, path) : \E k \in 1 .. Len(list) : list[k] = p
  /\ \A i, j \in 1 .. Len(list) : i < j => Last(list[i]) < Last(list[j])

\* There is such a list, so that SortedChildren() is one.
LEMMA Sorts ==
  ASSUME NEW t \in Trees, NEW path
  PROVE  SortedList(SortedChildren(t, path), t, path)
  <1> DEFINE A == Children(t, path)
             n == Cardinality(A)
             upto(p) == {q \in A : Last(q) <= Last(p)}
             rank == [p \in A |-> Cardinality(upto(p))]
             Sorted(f) == \A i, j \in DOMAIN f : i < j => Last(f[i]) < Last(f[j])
  <1>1. IsFiniteSet(A)
    <2>1. IsFiniteSet(DOMAIN t)
      BY LookupAssumption
    <2>2. A \subseteq DOMAIN t
      BY DEF Children
    <2> QED BY <2>1, <2>2, FS_Subset
  <1>2. n \in Nat
    BY <1>1, FS_CardinalityType
  <1>3. \A p \in A : Last(p) \in Nat
    <2> SUFFICES ASSUME NEW p \in A PROVE Last(p) \in Nat
      OBVIOUS
    <2>1. p \in DOMAIN t
      BY DEF Children
    <2> QED BY <2>1, PathType, FrontLast
  <1>4. \A p, q \in A : Last(p) = Last(q) => p = q
    <2> SUFFICES ASSUME NEW p \in A, NEW q \in A, Last(p) = Last(q) PROVE p = q
      OBVIOUS
    <2>1. p \in DOMAIN t /\ q \in DOMAIN t /\ Front(p) = Front(q)
      BY DEF Children
    <2> QED BY <2>1, PathType, PathsDiffer
  <1> HIDE DEF A
  <1>5. \A p \in A : IsFiniteSet(upto(p)) /\ upto(p) \subseteq A /\ p \in upto(p)
    <2> SUFFICES ASSUME NEW p \in A PROVE IsFiniteSet(upto(p)) /\ upto(p) \subseteq A /\ p \in upto(p)
      OBVIOUS
    <2>1. upto(p) \subseteq A /\ p \in upto(p)
      BY <1>3
    <2> HIDE DEF upto
    <2> QED BY <1>1, <2>1, FS_Subset
  <1>6. \A p \in A : rank[p] \in 1 .. n
    <2> SUFFICES ASSUME NEW p \in A PROVE Cardinality(upto(p)) \in 1 .. n
      OBVIOUS
    <2> HIDE DEF upto
    <2>1. Cardinality(upto(p)) \in Nat /\ Cardinality(upto(p)) <= n
      BY <1>1, <1>5, FS_Subset, FS_CardinalityType
    <2>2. Cardinality(upto(p)) # 0
      BY <1>5, FS_EmptySet
    <2> QED BY <1>2, <2>1, <2>2
  <1>7. \A p, q \in A : Last(p) < Last(q) => rank[p] < rank[q]
    <2> SUFFICES ASSUME NEW p \in A, NEW q \in A, Last(p) < Last(q)
                 PROVE  Cardinality(upto(p)) < Cardinality(upto(q))
      OBVIOUS
    <2>1. upto(p) \subseteq upto(q) /\ q \notin upto(p) /\ q \in upto(q)
      BY <1>3
    <2> HIDE DEF upto
    <2>2. Cardinality(upto(p)) <= Cardinality(upto(q)) /\ Cardinality(upto(p)) # Cardinality(upto(q))
      BY <1>5, <2>1, FS_Subset
    <2>3. Cardinality(upto(p)) \in Nat /\ Cardinality(upto(q)) \in Nat
      BY <1>5, FS_CardinalityType
    <2> QED BY <2>2, <2>3
  <1>8. rank \in [A -> 1 .. n]
    <2>1. \A p \in A : Cardinality(upto(p)) \in 1 .. n
      BY <1>6
    <2> HIDE DEF upto
    <2> QED BY <2>1
  <1> HIDE DEF rank, upto
  <1>9. \A p, q \in A : rank[p] = rank[q] => p = q
    <2> SUFFICES ASSUME NEW p \in A, NEW q \in A, rank[p] = rank[q], p # q PROVE FALSE
      OBVIOUS
    <2>1. Last(p) < Last(q) \/ Last(q) < Last(p)
      BY <1>3, <1>4
    <2>2. rank[p] \in Int
      BY <1>6
    <2> QED BY <1>7, <2>1, <2>2
  <1>10. rank \in Surjection(A, 1 .. n)
    <2>1. rank \in Injection(A, 1 .. n)
      BY <1>8, <1>9 DEF Injection, IsInjective
    <2>2. IsFiniteSet(1 .. n) /\ Cardinality(1 .. n) = n
      <3>1. IsFiniteSet(1 .. n) /\ Cardinality(1 .. n) = IF 1 > n THEN 0 ELSE n - 1 + 1
        BY <1>2, FS_Interval
      <3> QED BY <1>2, <3>1
    <2> QED BY <2>1, <2>2, FS_Injection
  <1>11. \A k \in 1 .. n : \E p \in A : rank[p] = k
    BY <1>10 DEF Surjection
  <1> DEFINE f == [k \in 1 .. n |-> CHOOSE p \in A : rank[p] = k]
  <1>12. f \in [1 .. n -> A] /\ \A k \in 1 .. n : rank[f[k]] = k
    BY <1>11
  <1>13. Sorted(f)
    <2> HIDE DEF f
    <2> SUFFICES ASSUME NEW i \in 1 .. n, NEW j \in 1 .. n, i < j PROVE Last(f[i]) < Last(f[j])
      BY <1>12
    <2>1. f[i] \in A /\ f[j] \in A /\ rank[f[i]] = i /\ rank[f[j]] = j
      BY <1>12
    <2>2. f[i] # f[j]
      BY <2>1
    <2>3. ~(Last(f[j]) < Last(f[i]))
      BY <1>7, <2>1
    <2> QED BY <1>3, <1>4, <2>1, <2>2, <2>3
  <1>14. PICK list : list = SortedChildren(t, path)
    OBVIOUS
  <1>15. list = CHOOSE x \in [1 .. n -> A] : Sorted(x)
    BY <1>14 DEF SortedChildren, A, Children
  <1>16. list \in [1 .. n -> A] /\ Sorted(list)
    <2> HIDE DEF f, Sorted
    <2> QED BY <1>12, <1>13, <1>15
  <1>17. list \in Seq(A) /\ Len(list) = n /\ DOMAIN list = 1 .. n
    BY <1>2, <1>16
  <1>18. \A i, j \in 1 .. n : list[i] = list[j] => i = j
    <2> SUFFICES ASSUME NEW i \in 1 .. n, NEW j \in 1 .. n, list[i] = list[j], i # j PROVE FALSE
      OBVIOUS
    <2>1. i < j \/ j < i
      OBVIOUS
    <2>2. Last(list[i]) \in Nat
      BY <1>3, <1>16
    <2> QED BY <1>17, <1>16, <2>1, <2>2
  <1>19. list \in Surjection(1 .. n, A)
    <2>1. list \in Injection(1 .. n, A)
      BY <1>16, <1>18 DEF Injection, IsInjective
    <2>2. Cardinality(1 .. n) = n
      <3>1. Cardinality(1 .. n) = IF 1 > n THEN 0 ELSE n - 1 + 1
        BY <1>2, FS_Interval
      <3> QED BY <1>2, <3>1
    <2> QED BY <1>1, <2>1, <2>2, FS_Injection
  <1>20. \A p \in A : \E k \in 1 .. Len(list) : list[k] = p
    BY <1>17, <1>19 DEF Surjection
  <1>21. \A i, j \in 1 .. Len(list) : i < j => Last(list[i]) < Last(list[j])
    BY <1>16, <1>17
  <1> QED BY <1>14, <1>17, <1>20, <1>21 DEF SortedList, A

\* The same, as it is used.
LEMMA SortedFacts ==
  ASSUME NEW t \in Trees, NEW path, NEW list, list = SortedChildren(t, path)
  PROVE  /\ list \in Seq(DOMAIN t) /\ Len(list) \in Nat
         /\ \A k \in 1 .. Len(list) : list[k] \in DOMAIN t /\ Front(list[k]) = path
         /\ \A p \in DOMAIN t : Front(p) = path => \E k \in 1 .. Len(list) : list[k] = p
         /\ \A i, j \in 1 .. Len(list) : list[i] = list[j] => i = j
         /\ \A i, j \in 1 .. Len(list) : i < j => Last(list[i]) < Last(list[j])
  <1>1. SortedList(list, t, path)
    BY Sorts
  <1>2. list \in Seq(Children(t, path)) /\ Len(list) \in Nat
    BY <1>1 DEF SortedList
  <1>3. \A k \in 1 .. Len(list) : list[k] \in DOMAIN t /\ Front(list[k]) = path
    BY <1>2 DEF Children
  <1>4. list \in Seq(DOMAIN t)
    BY <1>2, <1>3
  <1>5. ASSUME NEW i \in 1 .. Len(list), NEW j \in 1 .. Len(list), list[i] = list[j] PROVE i = j
    <2>1. Last(list[i]) \in Nat
      BY <1>3, PathType, FrontLast
    <2>2. ~(i < j) /\ ~(j < i)
      BY <1>1, <1>5, <2>1 DEF SortedList
    <2> QED BY <2>2
  <1> QED BY <1>1, <1>2, <1>3, <1>4, <1>5 DEF SortedList, Children

-----------------------------------------------------------------------------
(* The tree as it lies in the pool of inodes, of which 'free' cells have    *)
(* been claimed: P says which path a cell is for, also before it is named.  *)
NameSet == {<<>>} \cup UNION {DOMAIN t : t \in Trees}
Cell == [name : NameSet, ftype : {"none", "dir", "reg"}, idx : Nat, count : Nat]
Kids(t, P, c) == SortedChildren(t, P[c])

Paths(t, free, P) ==
  /\ free \in Nat /\ free > 0
  /\ P \in [0 .. free - 1 -> {Mountpoint} \cup DOMAIN t]
  /\ P[0] = Mountpoint
  /\ \A c \in 0 .. free - 1 : c # 0 => P[c] \in DOMAIN t
  /\ \A c, d \in 0 .. free - 1 : P[c] = P[d] => c = d

\* A cell is as xal_be_fiemap_index() cleared it, or named and of its type.
CellOK(t, cells, P, c) ==
  IF cells[c].ftype = "none" THEN cells[c] = Zeroed
  ELSE /\ cells[c].name = IF c = 0 THEN <<>> ELSE P[c]
       /\ cells[c].ftype = IF P[c] \in Dirs(t) THEN "dir" ELSE "reg"

\* A directory has an array for its children, of which the first count are
\* processed.
DirOK(t, cells, free, P, c) ==
  /\ c < cells[c].idx /\ cells[c].idx + Len(Kids(t, P, c)) <= free
  /\ cells[c].count <= Len(Kids(t, P, c))
  /\ \A k \in 0 .. Len(Kids(t, P, c)) - 1 :
       /\ P[cells[c].idx + k] = Kids(t, P, c)[k + 1]
       /\ k < cells[c].count <=> cells[cells[c].idx + k].ftype # "none"

IsChild(t, cells, P, d, c) ==
  /\ cells[d].ftype = "dir"
  /\ \E k \in 0 .. Len(Kids(t, P, d)) - 1 : c = cells[d].idx + k

Laid(t, cells, free, P) ==
  /\ cells \in [Cells -> Cell]
  /\ Paths(t, free, P)
  /\ cells[0].ftype = "dir"
  /\ \A c \in 0 .. free - 1 : CellOK(t, cells, P, c)
  /\ \A c \in 0 .. free - 1 : cells[c].ftype = "dir" => DirOK(t, cells, free, P, c)
  /\ \A c \in 0 .. free - 1 : c # 0 => \E d \in 0 .. c - 1 : IsChild(t, cells, P, d, c)
  /\ \A c \in Cells : c >= free => cells[c] = Zeroed

\* The cells do not run out: every cell but the root's has a path of its own.
LEMMA PathsFit ==
  ASSUME NEW t \in Trees, NEW free, NEW P, Paths(t, free, P)
  PROVE  /\ Cardinality(DOMAIN t) \in Nat /\ free <= Cardinality(DOMAIN t) + 1
         /\ 0 .. free - 1 \subseteq 0 .. Cardinality(DOMAIN t)
         /\ 0 .. free - 1 \subseteq Cells
  <1> DEFINE D == DOMAIN t
             N == Cardinality(D)
             Q == [c \in 1 .. free - 1 |-> P[c]]
  <1>1. IsFiniteSet(D) /\ 0 .. N \subseteq Cells
    BY LookupAssumption
  <1>2. N \in Nat
    BY <1>1, FS_CardinalityType
  <1>3. free \in Nat /\ free > 0
    BY DEF Paths
  <1>4. Q \in Injection(1 .. free - 1, D)
    <2>1. \A c \in 1 .. free - 1 : c \in 0 .. free - 1 /\ c # 0
      BY <1>3
    <2>2. \A c \in 1 .. free - 1 : P[c] \in D
      BY <2>1 DEF Paths
    <2>3. \A c, d \in 1 .. free - 1 : P[c] = P[d] => c = d
      BY <2>1 DEF Paths
    <2> HIDE DEF D
    <2> QED BY <2>2, <2>3 DEF Injection, IsInjective
  <1> HIDE DEF Q
  <1>5. Cardinality(1 .. free - 1) <= N
    BY <1>1, <1>4, FS_Injection
  <1>6. Cardinality(1 .. free - 1) = free - 1
    <2>1. free - 1 \in Int /\ 1 \in Int
      BY <1>3
    <2>2. Cardinality(1 .. free - 1) = IF 1 > free - 1 THEN 0 ELSE (free - 1) - 1 + 1
      BY <2>1, FS_Interval
    <2> QED BY <1>3, <2>2
  <1>7. free <= N + 1
    BY <1>2, <1>3, <1>5, <1>6
  <1> HIDE DEF N
  <1>8. 0 .. free - 1 \subseteq 0 .. N
    BY <1>2, <1>3, <1>7
  <1> QED BY <1>1, <1>2, <1>7, <1>8 DEF N

\* What a directory's list holds.
Listed(L, t, path) ==
  /\ L \in Seq(DOMAIN t) /\ Len(L) \in Nat
  /\ \A k \in 1 .. Len(L) : L[k] \in DOMAIN t /\ Front(L[k]) = path
  /\ \A p \in DOMAIN t : Front(p) = path => \E k \in 1 .. Len(L) : L[k] = p
  /\ \A i, j \in 1 .. Len(L) : L[i] = L[j] => i = j
  /\ \A i, j \in 1 .. Len(L) : i < j => Last(L[i]) < Last(L[j])

\* The children of the directory a cell is for.
LEMMA KidsFacts ==
  ASSUME NEW t \in Trees, NEW P, NEW c
  PROVE  Listed(Kids(t, P, c), t, P[c])
  <1>1. PICK path : path = P[c]
    OBVIOUS
  <1>2. PICK L : L = SortedChildren(t, path)
    OBVIOUS
  <1>3. L = Kids(t, P, c)
    BY <1>1, <1>2 DEF Kids
  <1>4. Listed(L, t, path)
    BY <1>2, SortedFacts DEF Listed
  <1> QED BY <1>1, <1>3, <1>4, Zenon

\* A child of a directory has the directory's path in front.
LEMMA ChildPath ==
  ASSUME NEW t \in Trees, NEW cells, NEW free, NEW P, Laid(t, cells, free, P),
         NEW d \in 0 .. free - 1, NEW c, IsChild(t, cells, P, d, c)
  PROVE  c \in 0 .. free - 1 /\ d < c /\ Front(P[c]) = P[d] /\ P[c] \in DOMAIN t
  <1>1. PICK L : L = Kids(t, P, d)
    OBVIOUS
  <1>2. cells[d].ftype = "dir" /\ \E k \in 0 .. Len(L) - 1 : c = cells[d].idx + k
    BY <1>1 DEF IsChild
  <1>3. PICK k \in 0 .. Len(L) - 1 : c = cells[d].idx + k
    BY <1>2
  <1>4. /\ Len(L) \in Nat
        /\ \A j \in 1 .. Len(L) : L[j] \in DOMAIN t /\ Front(L[j]) = P[d]
    <2>1. Listed(L, t, P[d])
      BY <1>1, KidsFacts, Zenon
    <2> QED BY <2>1, Zenon DEF Listed
  <1>5. DirOK(t, cells, free, P, d)
    BY <1>2 DEF Laid
  <1>6. /\ d < cells[d].idx /\ cells[d].idx + Len(L) <= free
        /\ P[cells[d].idx + k] = L[k + 1]
    BY <1>1, <1>5 DEF DirOK
  <1>7. d \in Nat /\ free \in Nat /\ cells[d].idx \in Nat
    <2>1. d \in Cells
      BY PathsFit DEF Laid
    <2> QED BY <2>1 DEF Laid, Paths, Cell
  <1>8. c \in 0 .. free - 1 /\ d < c /\ k + 1 \in 1 .. Len(L)
    <2>1. PICK i \in Nat : i = cells[d].idx
      BY <1>7
    <2>2. PICK n \in Nat : n = Len(L)
      BY <1>4, Zenon
    <2>3. k \in 0 .. n - 1 /\ c = i + k /\ d < i /\ i + n <= free
      BY <1>3, <1>6, <2>1, <2>2
    <2>5. k \in Nat /\ k < n /\ free \in Nat /\ d \in Nat
      BY <2>2, <2>3, <1>7
    <2>6. i + k < free /\ 0 <= i + k /\ d < i + k
      BY <2>1, <2>2, <2>3, <2>5
    <2>4. c \in 0 .. free - 1 /\ d < c /\ k + 1 \in 1 .. n
      BY <2>1, <2>2, <2>3, <2>5, <2>6
    <2> QED BY <2>2, <2>4
  <1> QED BY <1>3, <1>4, <1>6, <1>8

\* So a cell has one parent.
LEMMA OneParent ==
  ASSUME NEW t \in Trees, NEW cells, NEW free, NEW P, Laid(t, cells, free, P),
         NEW d \in 0 .. free - 1, NEW e \in 0 .. free - 1, NEW c,
         IsChild(t, cells, P, d, c), IsChild(t, cells, P, e, c)
  PROVE  d = e
  <1>1. P[d] = P[e]
    BY ChildPath
  <1> QED BY <1>1 DEF Laid, Paths

-----------------------------------------------------------------------------
(* The next child d of a directory c is processed.                          *)
NextChild(t, cells, P, c, d) ==
  /\ cells[c].ftype = "dir" /\ cells[c].count < Len(Kids(t, P, c))
  /\ d = cells[c].idx + cells[c].count

Taken(t, cells, free, P, c, d, cells2, free2, P2) ==
  /\ NextChild(t, cells, P, c, d)
  /\ cells2 \in [Cells -> Cell]
  /\ cells2[c].name = cells[c].name /\ cells2[c].ftype = "dir" /\ cells2[c].idx = cells[c].idx
  /\ cells2[c].count = cells[c].count + 1
  /\ cells2[d].name = P[d] /\ cells2[d].ftype = IF P[d] \in Dirs(t) THEN "dir" ELSE "reg"
  /\ \A e \in Cells : e # c /\ e # d => cells2[e] = cells[e]
  /\ free2 \in Nat /\ free <= free2 /\ \A e \in 0 .. free - 1 : P2[e] = P[e]

\* The next child has a cell of its own, claimed and still empty.
LEMMA NextChildFacts ==
  ASSUME NEW t \in Trees, NEW cells, NEW free, NEW P, Laid(t, cells, free, P),
         NEW c \in 0 .. free - 1, NEW d, NextChild(t, cells, P, c, d)
  PROVE  /\ d \in 0 .. free - 1 /\ d # c /\ d # 0 /\ c < d
         /\ cells[d] = Zeroed /\ cells[d].ftype = "none"
         /\ P[d] \in DOMAIN t /\ P[d] = Kids(t, P, c)[cells[c].count + 1]
         /\ IsChild(t, cells, P, c, d)
  <1>1. PICK L : L = Kids(t, P, c)
    OBVIOUS
  <1>2. Len(L) \in Nat
    <2>1. Listed(L, t, P[c])
      BY <1>1, KidsFacts, Zenon
    <2> QED BY <2>1, Zenon DEF Listed
  <1>3. cells[c].ftype = "dir" /\ cells[c].count < Len(L) /\ d = cells[c].idx + cells[c].count
    BY <1>1 DEF NextChild
  <1>4. cells[c].idx \in Nat /\ cells[c].count \in Nat
    <2>1. c \in Cells
      BY PathsFit DEF Laid
    <2> QED BY <2>1 DEF Laid, Cell
  <1>5. cells[c].count \in 0 .. Len(L) - 1
    BY <1>2, <1>3, <1>4
  <1>6. IsChild(t, cells, P, c, d)
    BY <1>1, <1>3, <1>5 DEF IsChild
  <1>7. d \in 0 .. free - 1 /\ c < d /\ P[d] \in DOMAIN t
    BY <1>6, ChildPath
  <1>8. DirOK(t, cells, free, P, c)
    BY <1>3 DEF Laid
  <1>9. /\ P[d] = L[cells[c].count + 1]
        /\ cells[c].count < cells[c].count <=> cells[d].ftype # "none"
    BY <1>1, <1>3, <1>5, <1>8 DEF DirOK
  <1>10. cells[d].ftype = "none"
    BY <1>4, <1>9
  <1>11. cells[d] = Zeroed
    BY <1>7, <1>10 DEF Laid, CellOK
  <1>12. d # c /\ d # 0
    BY <1>7
  <1> QED BY <1>1, <1>6, <1>7, <1>9, <1>10, <1>11, <1>12

\* The other directories, and the one whose child it is, stay as they should be.
LEMMA TakenDir ==
  ASSUME NEW t \in Trees, NEW cells, NEW free, NEW P, Laid(t, cells, free, P),
         NEW c \in 0 .. free - 1, NEW d, NEW cells2, NEW free2, NEW P2,
         Taken(t, cells, free, P, c, d, cells2, free2, P2),
         NEW e \in 0 .. free - 1, e # d, cells2[e].ftype = "dir"
  PROVE  cells[e].ftype = "dir" /\ cells2[e].idx = cells[e].idx
         /\ DirOK(t, cells2, free2, P2, e)
  <1> DEFINE L == Kids(t, P, e)
  <1>1. NextChild(t, cells, P, c, d)
    BY DEF Taken
  <1>2. /\ d \in 0 .. free - 1 /\ d # c /\ d # 0 /\ c < d
        /\ cells[d].ftype = "none" /\ IsChild(t, cells, P, c, d)
    BY <1>1, NextChildFacts
  <1>3. e \in Cells /\ c \in Cells /\ d \in Cells
    BY <1>2, PathsFit DEF Laid
  <1>4. cells[e].ftype = "dir" /\ cells2[e].idx = cells[e].idx
    BY <1>1, <1>3 DEF Taken, NextChild
  <1>5. DirOK(t, cells, free, P, e)
    BY <1>4 DEF Laid
  <1>6. Kids(t, P2, e) = L
    BY DEF Taken, Kids
  <1>7. PICK n \in Nat : n = Len(L)
    <2>1. Listed(L, t, P[e])
      BY KidsFacts, Zenon
    <2> QED BY <2>1, Zenon DEF Listed
  <1>8. PICK i \in Nat, m \in Nat, m2 \in Nat :
           /\ i = cells[e].idx /\ m = cells[e].count /\ m2 = cells2[e].count
    BY <1>3 DEF Laid, Taken, Cell
  <1>9. /\ e < i /\ i + n <= free /\ m <= n
        /\ \A k \in 0 .. n - 1 : P[i + k] = L[k + 1] /\ (k < m <=> cells[i + k].ftype # "none")
    BY <1>5, <1>7, <1>8 DEF DirOK
  <1>10. free \in Nat /\ free2 \in Nat /\ free <= free2
    BY DEF Taken, Laid, Paths
  <1>11. \A k \in 0 .. n - 1 : i + k \in 0 .. free - 1 /\ i + k \in Cells
    <2>1. i + n <= free
      BY <1>9, Zenon
    <2>2. \A k \in 0 .. n - 1 : i + k \in 0 .. free - 1
      BY <1>10, <2>1
    <2> QED BY <2>2, PathsFit DEF Laid
  <1>12. IF e = c THEN m2 = m + 1 /\ m < n /\ d = i + m ELSE m2 = m
    BY <1>1, <1>3, <1>7, <1>8 DEF Taken, NextChild
  <1>13. m2 <= n
    BY <1>9, <1>12
  <1>14. ASSUME NEW k \in 0 .. n - 1 PROVE k < m2 <=> cells2[i + k].ftype # "none"
    <2>1. k < m <=> cells[i + k].ftype # "none"
      BY <1>9
    <2>2. CASE i + k = d
      <3>1. IsChild(t, cells, P, e, d)
        BY <1>4, <1>7, <1>8, <2>2 DEF IsChild
      <3>2. e = c
        BY <1>2, <3>1, OneParent
      <3>3. k = m /\ m2 = m + 1
        BY <1>12, <2>2, <3>2
      <3>4. cells2[d].ftype # "none"
        BY DEF Taken
      <3> QED BY <2>2, <3>3, <3>4
    <2>3. CASE i + k # d /\ i + k = c
      <3>1. cells[i + k].ftype # "none" /\ cells2[i + k].ftype # "none"
        BY <1>1, <2>3 DEF Taken, NextChild
      <3>2. e # c
        BY <1>8, <1>9, <2>3
      <3> QED BY <1>12, <2>1, <3>1, <3>2
    <2>4. CASE i + k # d /\ i + k # c
      <3>1. cells2[i + k] = cells[i + k]
        BY <1>11, <2>4 DEF Taken
      <3>2. k < m <=> k < m2
        <4>1. CASE e = c
          <5>1. k # m
            BY <1>12, <2>4, <4>1
          <5> QED BY <1>12, <4>1, <5>1
        <4>2. CASE e # c
          BY <1>12, <4>2
        <4> QED BY <4>1, <4>2
      <3> QED BY <2>1, <3>1, <3>2
    <2> QED BY <2>2, <2>3, <2>4
  <1>15. \A k \in 0 .. n - 1 : P2[i + k] = L[k + 1]
    BY <1>9, <1>11 DEF Taken
  <1>16. i + n <= free2
    BY <1>9, <1>10
  <1> HIDE DEF L
  <1>17. DirOK(t, cells2, free2, P2, e)
    <2>1. cells2[e].idx = i /\ cells2[e].count = m2 /\ Len(L) = n
      BY <1>4, <1>7, <1>8
    <2> QED BY <1>6, <1>9, <1>13, <1>14, <1>15, <1>16, <2>1 DEF DirOK
  <1> QED BY <1>4, <1>17

-----------------------------------------------------------------------------

\* Every cell stays what it is for, and in its directory.
LEMMA TakenCell ==
  ASSUME NEW t \in Trees, NEW cells, NEW free, NEW P, Laid(t, cells, free, P),
         NEW c \in 0 .. free - 1, NEW d, NEW cells2, NEW free2, NEW P2,
         Taken(t, cells, free, P, c, d, cells2, free2, P2),
         NEW e \in 0 .. free - 1
  PROVE  /\ CellOK(t, cells2, P2, e)
         /\ cells[e].ftype = "dir" => cells2[e].ftype = "dir"
         /\ e # 0 => \E f \in 0 .. e - 1 : IsChild(t, cells2, P2, f, e)
  <1>1. NextChild(t, cells, P, c, d)
    BY DEF Taken
  <1>2. d \in 0 .. free - 1 /\ d # c /\ d # 0 /\ cells[d].ftype = "none"
    BY <1>1, NextChildFacts
  <1>3. e \in Cells /\ c \in Cells /\ d \in Cells
    BY <1>2, PathsFit DEF Laid
  <1>4. P2[e] = P[e] /\ CellOK(t, cells, P, e)
    BY DEF Taken, Laid
  <1>5. CellOK(t, cells2, P2, e)
    <2>1. CASE e = d
      <3>1. cells2[d].name = P[d] /\ cells2[d].ftype = IF P[d] \in Dirs(t) THEN "dir" ELSE "reg"
        BY DEF Taken
      <3> QED BY <1>2, <1>4, <2>1, <3>1 DEF CellOK
    <2>2. CASE e = c
      <3>1. /\ cells2[c].name = cells[c].name /\ cells2[c].ftype = "dir"
            /\ cells[c].ftype = "dir"
        BY <1>1 DEF Taken, NextChild
      <3> QED BY <1>4, <2>2, <3>1 DEF CellOK
    <2>3. CASE e # c /\ e # d
      <3>1. cells2[e] = cells[e]
        BY <1>3, <2>3 DEF Taken
      <3> QED BY <1>4, <3>1 DEF CellOK
    <2> QED BY <2>1, <2>2, <2>3
  <1>6. \A f \in 0 .. free - 1 : cells[f].ftype = "dir" =>
           f # d /\ cells2[f].ftype = "dir" /\ cells2[f].idx = cells[f].idx
    <2> SUFFICES ASSUME NEW f \in 0 .. free - 1, cells[f].ftype = "dir"
                 PROVE  f # d /\ cells2[f].ftype = "dir" /\ cells2[f].idx = cells[f].idx
      OBVIOUS
    <2>1. f # d /\ f \in Cells
      BY <1>2, PathsFit DEF Laid
    <2>2. CASE f = c
      BY <1>1, <2>1, <2>2 DEF Taken, NextChild
    <2>3. CASE f # c
      BY <2>1, <2>3 DEF Taken
    <2> QED BY <2>1, <2>2, <2>3
  <1>7. ASSUME e # 0 PROVE \E f \in 0 .. e - 1 : IsChild(t, cells2, P2, f, e)
    <2>1. PICK f \in 0 .. e - 1 : IsChild(t, cells, P, f, e)
      BY <1>7 DEF Laid
    <2>2. f \in 0 .. free - 1
      BY DEF Laid, Paths
    <2>3. P2[f] = P[f]
      BY <2>2 DEF Taken
    <2>4. Kids(t, P2, f) = Kids(t, P, f)
      BY <2>3 DEF Kids
    <2>5. cells[f].ftype = "dir"
      BY <2>1 DEF IsChild
    <2>6. IsChild(t, cells2, P2, f, e)
      BY <1>6, <2>1, <2>2, <2>4, <2>5 DEF IsChild
    <2> QED BY <2>6
  <1> QED BY <1>5, <1>6, <1>7

\* A file takes its cell.
LEMMA FileTaken ==
  ASSUME NEW t \in Trees, NEW cells, NEW free, NEW P, Laid(t, cells, free, P),
         NEW c \in 0 .. free - 1, NEW d, NEW cells2,
         Taken(t, cells, free, P, c, d, cells2, free, P), P[d] \notin Dirs(t)
  PROVE  Laid(t, cells2, free, P)
  <1>1. cells2 \in [Cells -> Cell] /\ Paths(t, free, P)
    BY DEF Taken, Laid
  <1>2. \A e \in 0 .. free - 1 :
          /\ CellOK(t, cells2, P, e)
          /\ cells[e].ftype = "dir" => cells2[e].ftype = "dir"
          /\ e # 0 => \E f \in 0 .. e - 1 : IsChild(t, cells2, P, f, e)
    BY TakenCell
  <1>3. cells2[d].ftype = "reg"
    BY DEF Taken
  <1>4. ASSUME NEW e \in 0 .. free - 1, cells2[e].ftype = "dir"
        PROVE  DirOK(t, cells2, free, P, e)
    <2>1. e # d
      BY <1>3, <1>4
    <2> QED BY <1>4, <2>1, TakenDir
  <1>5. free \in Nat /\ 0 \in 0 .. free - 1 /\ cells[0].ftype = "dir"
    BY DEF Laid, Paths
  <1>6. ASSUME NEW e \in Cells, e >= free PROVE cells2[e] = Zeroed
    <2>1. NextChild(t, cells, P, c, d)
      BY DEF Taken
    <2>2. d \in 0 .. free - 1
      BY <2>1, NextChildFacts
    <2>3. e # d /\ e # c
      BY <1>5, <1>6, <2>2
    <2>4. cells[e] = Zeroed
      BY <1>6 DEF Laid
    <2> QED BY <2>3, <2>4 DEF Taken
  <1> QED BY <1>1, <1>2, <1>4, <1>5, <1>6 DEF Laid

\* The paths of the array a directory claims.
Extended(P, free, L) ==
  [e \in 0 .. free + (Len(L) - 1) |-> IF e < free THEN P[e] ELSE L[(e - free) + 1]]

NoneBelow(free, P, path) == \A a \in 0 .. free - 1 : a # 0 => Front(P[a]) # path
PathsGrown(t, free, P, L, free2, P2) ==
  /\ Paths(t, free2, P2) /\ free2 \in Nat /\ free <= free2
  /\ \A e \in 0 .. free - 1 : P2[e] = P[e]
  /\ \A k \in 0 .. Len(L) - 1 : P2[free + k] = L[k + 1]

\* A directory that claims an array has children nobody else has claimed, so
\* that paths stay different.
LEMMA PathsExtended ==
  ASSUME NEW t \in Trees, NEW free, NEW P, Paths(t, free, P), NEW path, NEW L, Listed(L, t, path),
         NoneBelow(free, P, path),
         NEW free2, free2 = free + Len(L), NEW P2, P2 = Extended(P, free, L)
  PROVE  PathsGrown(t, free, P, L, free2, P2)
  <1>1. PICK n \in Nat : n = Len(L)
    BY DEF Listed
  <1>2. /\ \A k \in 1 .. n : L[k] \in DOMAIN t /\ Front(L[k]) = path
        /\ \A i, j \in 1 .. n : L[i] = L[j] => i = j
    BY <1>1 DEF Listed
  <1>3. free \in Nat /\ free > 0
    BY DEF Paths
  <1>4. P2 = [e \in 0 .. free + (n - 1) |-> IF e < free THEN P[e] ELSE L[(e - free) + 1]]
    BY <1>1 DEF Extended
  <1>5. \A e \in 0 .. (free + n) - 1 :
          e \in 0 .. free - 1 \/ (~(e < free) /\ (e - free) + 1 \in 1 .. n)
    <2> SUFFICES ASSUME NEW e \in 0 .. (free + n) - 1
                 PROVE  e \in 0 .. free - 1 \/ (~(e < free) /\ (e - free) + 1 \in 1 .. n)
      OBVIOUS
    <2>1. n \in Nat /\ free \in Nat
      BY <1>1, <1>3
    <2>2. e \in Nat /\ e < free + n
      BY <2>1
    <2>3. CASE e < free
      BY <2>1, <2>2, <2>3
    <2>4. CASE ~(e < free)
      BY <2>1, <2>2, <2>4
    <2> QED BY <2>3, <2>4
  <1>6. \A e \in 0 .. free - 1 : P2[e] = P[e]
    BY <1>1, <1>3, <1>4
  <1>7. \A e \in 0 .. (free + n) - 1 : ~(e < free) => P2[e] = L[(e - free) + 1]
    BY <1>1, <1>3, <1>4
  <1>8. \A k \in 0 .. n - 1 : P2[free + k] = L[k + 1]
    <2> SUFFICES ASSUME NEW k \in 0 .. n - 1 PROVE P2[free + k] = L[k + 1]
      OBVIOUS
    <2>1. k \in Nat /\ k < n /\ n \in Nat /\ free \in Nat
      BY <1>1, <1>3
    <2>2. free + k \in 0 .. (free + n) - 1
      BY <2>1
    <2>3. ~(free + k < free) /\ (free + k) - free = k
      BY <2>1
    <2> QED BY <1>7, <2>2, <2>3
  <1>9. /\ P[0] = Mountpoint
        /\ \A e \in 0 .. free - 1 : e # 0 => P[e] \in DOMAIN t
        /\ \A a, b \in 0 .. free - 1 : P[a] = P[b] => a = b
        /\ 0 \in 0 .. free - 1
    BY <1>3 DEF Paths
  <1>10. P2[0] = Mountpoint /\ \A e \in 0 .. (free + n) - 1 : e # 0 => P2[e] \in DOMAIN t
    <2>1. P2[0] = Mountpoint
      BY <1>6, <1>9
    <2>2. ASSUME NEW e \in 0 .. (free + n) - 1, e # 0 PROVE P2[e] \in DOMAIN t
      <3>1. CASE e \in 0 .. free - 1
        BY <1>6, <1>9, <2>2, <3>1
      <3>2. CASE ~(e < free) /\ (e - free) + 1 \in 1 .. n
        BY <1>2, <1>7, <3>2
      <3> QED BY <1>5, <3>1, <3>2
    <2> QED BY <2>1, <2>2
  <1>11. P2 \in [0 .. (free + n) - 1 -> {Mountpoint} \cup DOMAIN t]
    <2>1. free + (n - 1) = (free + n) - 1
      BY <1>1, <1>3
    <2>2. P2 = [e \in 0 .. (free + n) - 1 |-> P2[e]]
      BY <1>4, <2>1
    <2> QED BY <1>10, <2>2
  <1>12. ASSUME NEW a \in 0 .. free - 1, NEW b \in 0 .. (free + n) - 1, ~(b < free), P2[a] = P2[b]
         PROVE  FALSE
    <2>1. (b - free) + 1 \in 1 .. n
      BY <1>3, <1>5, <1>12
    <2>2. P[a] = L[(b - free) + 1]
      BY <1>6, <1>7, <1>12
    <2>3. P[a] \in DOMAIN t /\ Front(P[a]) = path
      BY <1>2, <2>1, <2>2
    <2>4. a # 0
      BY <1>9, <2>3, InDirectory
    <2> QED BY <2>3, <2>4 DEF NoneBelow
  <1>13. ASSUME NEW a \in 0 .. (free + n) - 1, NEW b \in 0 .. (free + n) - 1, P2[a] = P2[b]
         PROVE  a = b
    <2>1. CASE a < free /\ b < free
      <3>1. a \in 0 .. free - 1 /\ b \in 0 .. free - 1
        BY <1>3, <2>1
      <3> QED BY <1>6, <1>9, <1>13, <3>1
    <2>2. CASE a < free /\ ~(b < free)
      <3>1. a \in 0 .. free - 1
        BY <1>3, <2>2
      <3> QED BY <1>12, <1>13, <2>2, <3>1
    <2>3. CASE ~(a < free) /\ b < free
      <3>1. b \in 0 .. free - 1
        BY <1>3, <2>3
      <3> QED BY <1>12, <1>13, <2>3, <3>1
    <2>4. CASE ~(a < free) /\ ~(b < free)
      <3>1. (a - free) + 1 \in 1 .. n /\ (b - free) + 1 \in 1 .. n
        BY <1>3, <1>5, <2>4
      <3>2. (a - free) + 1 = (b - free) + 1
        BY <1>2, <1>7, <1>13, <2>4, <3>1
      <3> QED BY <1>3, <3>2
    <2> QED BY <2>1, <2>2, <2>3, <2>4
  <1>14. free + n \in Nat /\ free + n > 0 /\ free <= free + n
    BY <1>1, <1>3
  <1>15. Paths(t, free + n, P2)
    BY <1>10, <1>11, <1>13, <1>14 DEF Paths
  <1>16. free2 = free + n
    BY <1>1
  <1> QED BY <1>1, <1>6, <1>8, <1>14, <1>15, <1>16 DEF PathsGrown

-----------------------------------------------------------------------------
\* A directory that has just claimed its array.
Entered(cells, d, free) ==
  cells[d].ftype = "dir" /\ cells[d].idx = free /\ cells[d].count = 0

NewArray(cells, free, P, L) ==
  \A k \in 0 .. Len(L) - 1 : P[free + k] = L[k + 1] /\ cells[free + k] = Zeroed
HasArray(t, cells, free, P, d, free2) ==
  /\ DirOK(t, cells, free2, P, d)
  /\ \A e \in free .. free2 - 1 : IsChild(t, cells, P, d, e) /\ cells[e] = Zeroed

\* Its array has a cell for each of its children.
LEMMA EnteredDir ==
  ASSUME NEW t \in Trees, NEW cells, NEW free \in Nat, NEW d \in 0 .. free - 1, NEW P, NEW L,
         L = Kids(t, P, d), Entered(cells, d, free), NEW free2, free2 = free + Len(L),
         NewArray(cells, free, P, L)
  PROVE  HasArray(t, cells, free, P, d, free2)
  <1>1. PICK n \in Nat : n = Len(L)
    <2>1. Listed(L, t, P[d])
      BY KidsFacts, Zenon
    <2> QED BY <2>1, Zenon DEF Listed
  <1>2. cells[d].ftype = "dir" /\ cells[d].idx = free /\ cells[d].count = 0
    BY DEF Entered
  <1>10. \A k \in 0 .. n - 1 : P[free + k] = L[k + 1] /\ cells[free + k] = Zeroed
    BY <1>1 DEF NewArray
  <1>3. \A k \in 0 .. n - 1 : cells[free + k].ftype = "none" /\ ~(k < 0)
    BY <1>1, <1>10 DEF Zeroed
  <1>4. d < free /\ free + n <= free2 /\ 0 <= n
    BY <1>1
  <1>5. DirOK(t, cells, free2, P, d)
    BY <1>1, <1>2, <1>3, <1>4, <1>10 DEF DirOK
  <1>6. ASSUME NEW e \in free .. free2 - 1
        PROVE  IsChild(t, cells, P, d, e) /\ cells[e] = Zeroed
    <2>1. e - free \in 0 .. n - 1 /\ e = free + (e - free)
      BY <1>1
    <2>2. \E k \in 0 .. n - 1 : e = cells[d].idx + k
      BY <1>2, <2>1
    <2> QED BY <1>1, <1>2, <1>10, <2>1, <2>2 DEF IsChild
  <1> QED BY <1>5, <1>6 DEF HasArray

\* A directory takes its cell, and claims an array.
LEMMA DirTaken ==
  ASSUME NEW t \in Trees, NEW cells, NEW free, NEW P, Laid(t, cells, free, P),
         NEW c \in 0 .. free - 1, NEW d, NEW cells2, NEW L, L = Kids(t, P, d),
         NEW free2, free2 = free + Len(L), NEW P2, P2 = Extended(P, free, L),
         NextChild(t, cells, P, c, d),
         (free2 \in Nat /\ free <= free2 /\ \A e \in 0 .. free - 1 : P2[e] = P[e])
            => Taken(t, cells, free, P, c, d, cells2, free2, P2),
         Entered(cells2, d, free)
  PROVE  Laid(t, cells2, free2, P2)
  <1>1. /\ d \in 0 .. free - 1 /\ d # c /\ d # 0 /\ cells[d].ftype = "none"
    BY NextChildFacts
  <1>2. Paths(t, free, P) /\ free \in Nat /\ free > 0
    BY DEF Laid, Paths
  <1>3. ASSUME NEW a \in 0 .. free - 1, a # 0, Front(P[a]) = P[d] PROVE FALSE
    <2>1. PICK f \in 0 .. a - 1 : IsChild(t, cells, P, f, a)
      BY <1>3 DEF Laid
    <2>2. f \in 0 .. free - 1
      BY <1>2
    <2>3. P[f] = P[d]
      BY <1>3, <2>1, <2>2, ChildPath
    <2>4. f = d
      BY <1>1, <1>2, <2>2, <2>3 DEF Paths
    <2> QED BY <1>1, <2>1, <2>4 DEF IsChild
  <1>4. PICK path : path = P[d]
    OBVIOUS
  <1>5. Listed(L, t, path)
    BY <1>4, KidsFacts, Zenon
  <1>6. NoneBelow(free, P, path)
    BY <1>3, <1>4 DEF NoneBelow
  <1>7. /\ Paths(t, free2, P2) /\ free2 \in Nat /\ free <= free2
        /\ \A e \in 0 .. free - 1 : P2[e] = P[e]
        /\ \A k \in 0 .. Len(L) - 1 : P2[free + k] = L[k + 1]
    <2>1. PathsGrown(t, free, P, L, free2, P2)
      BY <1>2, <1>5, <1>6, PathsExtended
    <2> QED BY <2>1 DEF PathsGrown
  <1>8. Taken(t, cells, free, P, c, d, cells2, free2, P2)
    BY <1>7
  <1>9. cells2 \in [Cells -> Cell]
    BY <1>8 DEF Taken
  <1>10. 0 .. free2 - 1 \subseteq Cells /\ Cells \subseteq Nat
    BY <1>7, PathsFit, LookupAssumption
  <1>11. ASSUME NEW e \in Cells, e >= free PROVE cells2[e] = Zeroed
    <2>1. e # d /\ e # c
      BY <1>1, <1>2, <1>10, <1>11
    <2>2. cells[e] = Zeroed
      BY <1>11 DEF Laid
    <2> QED BY <1>8, <2>1, <2>2 DEF Taken
  <1>12. Len(L) \in Nat
    BY <1>5 DEF Listed
  <1>13. \A k \in 0 .. Len(L) - 1 : cells2[free + k] = Zeroed
    <2> SUFFICES ASSUME NEW k \in 0 .. Len(L) - 1 PROVE cells2[free + k] = Zeroed
      OBVIOUS
    <2>1. free + k \in 0 .. free2 - 1 /\ free + k >= free
      BY <1>2, <1>12
    <2> QED BY <1>10, <1>11, <2>1
  <1>14. L = Kids(t, P2, d)
    BY <1>1, <1>7 DEF Kids
  <1>15. /\ DirOK(t, cells2, free2, P2, d)
         /\ \A e \in free .. free2 - 1 : IsChild(t, cells2, P2, d, e) /\ cells2[e] = Zeroed
    <2>1. NewArray(cells2, free, P2, L)
      BY <1>7, <1>13 DEF NewArray
    <2>2. HasArray(t, cells2, free, P2, d, free2)
      BY <1>1, <1>2, <1>14, <2>1, EnteredDir
    <2> QED BY <2>2 DEF HasArray
  <1>16. ASSUME NEW e \in 0 .. free2 - 1
         PROVE  /\ CellOK(t, cells2, P2, e)
                /\ cells2[e].ftype = "dir" => DirOK(t, cells2, free2, P2, e)
                /\ e # 0 => \E f \in 0 .. e - 1 : IsChild(t, cells2, P2, f, e)
    <2>1. CASE e < free
      <3>1. e \in 0 .. free - 1
        BY <1>2, <1>7, <2>1
      <3>2. /\ CellOK(t, cells2, P2, e)
            /\ e # 0 => \E f \in 0 .. e - 1 : IsChild(t, cells2, P2, f, e)
        BY <1>8, <3>1, TakenCell
      <3>3. cells2[e].ftype = "dir" => DirOK(t, cells2, free2, P2, e)
        BY <1>8, <1>15, <3>1, TakenDir
      <3> QED BY <3>2, <3>3
    <2>2. CASE ~(e < free)
      <3>1. e \in free .. free2 - 1 /\ d \in 0 .. e - 1
        BY <1>1, <1>2, <1>7, <2>2
      <3>2. IsChild(t, cells2, P2, d, e) /\ cells2[e] = Zeroed /\ cells2[e].ftype = "none"
        BY <1>15, <3>1 DEF Zeroed
      <3> QED BY <3>1, <3>2 DEF CellOK
    <2> QED BY <2>1, <2>2
  <1>17. cells2[0].ftype = "dir"
    <2>1. 0 \in 0 .. free - 1 /\ cells[0].ftype = "dir"
      BY <1>2 DEF Laid
    <2> QED BY <1>8, <2>1, TakenCell
  <1>18. \A e \in Cells : e >= free2 => cells2[e] = Zeroed
    BY <1>2, <1>7, <1>10, <1>11
  <1> QED BY <1>7, <1>9, <1>16, <1>17, <1>18 DEF Laid

\* The mountpoint, in cells that are cleared.
RootPath == [e \in 0 .. 0 |-> Mountpoint]

\* xal_be_fiemap_index() begins with the root, which claims the first array.
LEMMA RootTaken ==
  ASSUME NEW t \in Trees, NEW cells, NEW L, L = SortedChildren(t, Mountpoint),
         cells = [c \in Cells |-> IF c = 0 THEN [name |-> <<>>, ftype |-> "dir", idx |-> 1, count |-> 0]
                                  ELSE Zeroed],
         NEW free, free = 1 + Len(L), NEW P, P = Extended(RootPath, 1, L)
  PROVE  Laid(t, cells, free, P) /\ L = Kids(t, P, 0) /\ Len(L) \in Nat
  <1>1. PICK R : R = RootPath
    OBVIOUS
  <1>2. R[0] = Mountpoint /\ Paths(t, 1, R)
    <2>1. 0 .. 1 - 1 = 0 .. 0 /\ \A c \in 0 .. 0 : c = 0
      OBVIOUS
    <2>2. R \in [0 .. 0 -> {Mountpoint} \cup DOMAIN t] /\ R[0] = Mountpoint
      BY <1>1 DEF RootPath
    <2> QED BY <2>1, <2>2 DEF Paths
  <1>3. Listed(L, t, Mountpoint)
    <2>1. L = Kids(t, R, 0)
      BY <1>2 DEF Kids
    <2> QED BY <1>2, <2>1, KidsFacts, Zenon
  <1>4. NoneBelow(1, R, Mountpoint)
    BY DEF NoneBelow
  <1>5. /\ Paths(t, free, P) /\ free \in Nat /\ 1 <= free
        /\ \A e \in 0 .. 1 - 1 : P[e] = R[e]
        /\ \A k \in 0 .. Len(L) - 1 : P[1 + k] = L[k + 1]
    <2>1. 1 \in Nat /\ P = Extended(R, 1, L)
      BY <1>1
    <2>2. PathsGrown(t, 1, R, L, free, P)
      BY <1>2, <1>3, <1>4, <2>1, PathsExtended
    <2> QED BY <2>2 DEF PathsGrown
  <1>6. P[0] = Mountpoint /\ L = Kids(t, P, 0)
    <2>1. P[0] = Mountpoint
      BY <1>2, <1>5
    <2> QED BY <2>1 DEF Kids
  <1>7. Len(L) \in Nat
    BY <1>3 DEF Listed
  <1>8. 0 .. free - 1 \subseteq Cells /\ Cells \subseteq Nat /\ 0 \in Cells
    BY <1>5, PathsFit, LookupAssumption DEF Root
  <1>9. /\ cells \in [Cells -> Cell] /\ Entered(cells, 0, 1) /\ cells[0].name = <<>>
        /\ \A c \in Cells : c # 0 => cells[c] = Zeroed
    <2>1. Zeroed \in Cell /\ [name |-> <<>>, ftype |-> "dir", idx |-> 1, count |-> 0] \in Cell
      BY DEF Zeroed, Cell, NameSet
    <2> QED BY <1>8, <2>1 DEF Entered
  <1>10. \A k \in 0 .. Len(L) - 1 : cells[1 + k] = Zeroed
    <2> SUFFICES ASSUME NEW k \in 0 .. Len(L) - 1 PROVE cells[1 + k] = Zeroed
      OBVIOUS
    <2>1. 1 + k \in 0 .. free - 1 /\ 1 + k # 0
      BY <1>7
    <2> QED BY <1>8, <1>9, <2>1
  <1>11. /\ DirOK(t, cells, free, P, 0)
         /\ \A e \in 1 .. free - 1 : IsChild(t, cells, P, 0, e) /\ cells[e] = Zeroed
    <2>1. 1 \in Nat /\ 0 \in 0 .. 1 - 1
      OBVIOUS
    <2>2. NewArray(cells, 1, P, L)
      BY <1>5, <1>10 DEF NewArray
    <2>3. HasArray(t, cells, 1, P, 0, free)
      BY <1>6, <1>9, <2>1, <2>2, EnteredDir
    <2> QED BY <2>3 DEF HasArray
  <1>12. ASSUME NEW e \in 0 .. free - 1
         PROVE  /\ CellOK(t, cells, P, e)
                /\ cells[e].ftype = "dir" => DirOK(t, cells, free, P, e)
                /\ e # 0 => \E f \in 0 .. e - 1 : IsChild(t, cells, P, f, e)
    <2>1. CASE e = 0
      <3>1. cells[0].ftype = "dir" /\ cells[0].name = <<>> /\ Mountpoint \in Dirs(t)
        BY <1>9 DEF Entered, Dirs
      <3> QED BY <1>6, <1>11, <2>1, <3>1 DEF CellOK
    <2>2. CASE e # 0
      <3>1. e \in 1 .. free - 1 /\ 0 \in 0 .. e - 1
        BY <1>5, <2>2
      <3>2. IsChild(t, cells, P, 0, e) /\ cells[e] = Zeroed /\ cells[e].ftype = "none"
        BY <1>11, <3>1 DEF Zeroed
      <3> QED BY <3>1, <3>2 DEF CellOK
    <2> QED BY <2>1, <2>2
  <1>13. \A e \in Cells : e >= free => cells[e] = Zeroed
    BY <1>5, <1>8, <1>9
  <1> QED BY <1>5, <1>6, <1>7, <1>9, <1>12, <1>13 DEF Laid, Entered

-----------------------------------------------------------------------------
(* When every directory has all of its children, the whole tree is there.   *)
AllCounted(t, cells, free, P) ==
  \A c \in 0 .. free - 1 : cells[c].ftype = "dir" => cells[c].count = Len(Kids(t, P, c))

Whole(t, cells, free, P) ==
  /\ \A c \in 0 .. free - 1 : cells[c].ftype # "none"
  /\ \A p \in DOMAIN t : \E c \in 0 .. free - 1 : c # 0 /\ P[c] = p

\* Types of the fields of a directory.
LEMMA DirCounts ==
  ASSUME NEW t \in Trees, NEW cells, NEW free, NEW P, Laid(t, cells, free, P),
         NEW d \in 0 .. free - 1, cells[d].ftype = "dir"
  PROVE  /\ cells[d].idx \in Nat /\ cells[d].count \in Nat /\ Len(Kids(t, P, d)) \in Nat
         /\ free \in Nat /\ d \in Cells /\ d \in Nat
         /\ DirOK(t, cells, free, P, d)
  <1>1. d \in Cells
    BY PathsFit DEF Laid
  <1>2. Listed(Kids(t, P, d), t, P[d])
    BY KidsFacts
  <1>3. Len(Kids(t, P, d)) \in Nat
    BY <1>2 DEF Listed
  <1>4. cells[d].idx \in Nat /\ cells[d].count \in Nat
    BY <1>1 DEF Laid, Cell
  <1>5. free \in Nat /\ d \in Nat /\ DirOK(t, cells, free, P, d)
    BY DEF Laid, Paths
  <1> QED BY <1>1, <1>3, <1>4, <1>5

\* By induction over the length of paths, and over the cells: each path has a
\* cell, and each cell is processed.
LEMMA IsWhole ==
  ASSUME NEW t \in Trees, NEW cells, NEW free, NEW P, Laid(t, cells, free, P),
         AllCounted(t, cells, free, P)
  PROVE  Whole(t, cells, free, P)
  <1>1. free \in Nat /\ free > 0 /\ Paths(t, free, P)
    BY DEF Laid, Paths
  <1>2. ASSUME NEW c \in 0 .. free - 1 PROVE cells[c].ftype # "none"
    <2>1. CASE c = 0
      BY <2>1 DEF Laid
    <2>2. CASE c # 0
      <3>1. PICK d \in 0 .. c - 1 : IsChild(t, cells, P, d, c)
        BY <2>2 DEF Laid
      <3>2. d \in 0 .. free - 1 /\ cells[d].ftype = "dir"
        BY <1>1, <3>1 DEF IsChild
      <3>3. PICK n \in Nat : n = Len(Kids(t, P, d))
        BY <3>2, DirCounts
      <3>4. PICK k \in 0 .. n - 1 : c = cells[d].idx + k
        BY <3>1, <3>3 DEF IsChild
      <3>5. k < cells[d].count <=> cells[cells[d].idx + k].ftype # "none"
        <4>1. DirOK(t, cells, free, P, d)
          BY <3>2, DirCounts
        <4> QED BY <3>3, <4>1 DEF DirOK
      <3>6. cells[d].count = n
        BY <3>2, <3>3 DEF AllCounted
      <3> QED BY <3>3, <3>4, <3>5, <3>6
    <2> QED BY <2>1, <2>2
  <1> DEFINE Has(p) == \E c \in 0 .. free - 1 : c # 0 /\ P[c] = p
             T == {n \in Nat : \E p \in DOMAIN t : Len(p) = n /\ ~Has(p)}
  <1>3. ASSUME NEW p \in DOMAIN t, ~Has(p) PROVE FALSE
    <2>1. Len(p) \in Nat
      BY PathType DEF IsPath
    <2>2. Len(p) \in T
      BY <1>3, <2>1
    <2>3. PICK n \in T : \A j \in T : n <= j
      <3>1. T \subseteq Nat /\ T # {}
        BY <2>2
      <3> HIDE DEF T
      <3> QED BY <3>1, LeastNat
    <2>4. PICK q \in DOMAIN t : Len(q) = n /\ ~Has(q)
      BY <2>3
    <2>5. PICK f : f = Front(q)
      OBVIOUS
    <2>6. f \in Dirs(t) /\ Len(f) = n - 1 /\ n \in Nat
      <3>1. IsPath(q)
        BY PathType
      <3>2. Len(Front(q)) = Len(q) - 1
        BY <3>1, FrontLast
      <3> QED BY <2>3, <2>4, <2>5, <3>2, InDirectory
    <2>7. PICK d \in 0 .. free - 1 : P[d] = f
      <3>1. CASE f = Mountpoint
        <4>1. 0 \in 0 .. free - 1 /\ P[0] = f
          BY <1>1, <3>1 DEF Paths
        <4> QED BY <4>1
      <3>2. CASE f # Mountpoint
        <4>1. f \in DOMAIN t
          BY <2>6, <3>2 DEF Dirs
        <4>2. Has(f)
          <5>1. CASE ~Has(f)
            <6>1. Len(f) \in Nat
              BY <4>1, PathType DEF IsPath
            <6>2. Len(f) \in T
              BY <4>1, <5>1, <6>1
            <6>3. n <= Len(f)
              BY <2>3, <6>2
            <6> QED BY <2>6, <6>3
          <5> QED BY <5>1
        <4> QED BY <4>2
      <3> QED BY <3>1, <3>2
    <2>8. cells[d].ftype = "dir"
      <3>1. CellOK(t, cells, P, d)
        BY DEF Laid
      <3> QED BY <1>2, <2>6, <2>7, <3>1 DEF CellOK
    <2>9. PICK L : L = Kids(t, P, d)
      OBVIOUS
    <2>10. Listed(L, t, f)
      BY <2>7, <2>9, KidsFacts, Zenon
    <2>11. PICK k \in 1 .. Len(L) : L[k] = q
      BY <2>5, <2>10 DEF Listed
    <2>12. Len(L) \in Nat
      BY <2>10 DEF Listed
    <2>13. k - 1 \in 0 .. Len(L) - 1 /\ (k - 1) + 1 = k
      BY <2>12
    <2>14. IsChild(t, cells, P, d, cells[d].idx + (k - 1))
      BY <2>8, <2>9, <2>13 DEF IsChild
    <2>15. DirOK(t, cells, free, P, d)
      BY <2>8, DirCounts
    <2>16. P[cells[d].idx + (k - 1)] = q
      BY <2>9, <2>11, <2>13, <2>15 DEF DirOK
    <2>17. cells[d].idx + (k - 1) \in 0 .. free - 1 /\ d < cells[d].idx + (k - 1)
      BY <2>14, ChildPath
    <2>18. cells[d].idx + (k - 1) # 0
      BY <2>17
    <2> QED BY <2>4, <2>16, <2>17, <2>18
  <1> QED BY <1>2, <1>3 DEF Whole

-----------------------------------------------------------------------------
(* The directories whose loop is in progress.                               *)
Frame(t) == [dir : Cells, list : Seq(DOMAIN t)]
OnStack(stack, c) == \E i \in 1 .. Len(stack) : stack[i].dir = c

Open(t, cells, free, P, stack) ==
  /\ stack \in Seq(Frame(t))
  /\ \A i \in 1 .. Len(stack) :
       /\ stack[i].dir \in 0 .. free - 1
       /\ cells[stack[i].dir].ftype = "dir"
       /\ stack[i].list = Kids(t, P, stack[i].dir)
  /\ \A i, j \in 1 .. Len(stack) : stack[i].dir = stack[j].dir => i = j
  /\ \A c \in 0 .. free - 1 :
       cells[c].ftype = "dir" /\ cells[c].count # Len(Kids(t, P, c)) => OnStack(stack, c)

\* Its first frame is left.
Left(t, cells, free, P, stack, c, rest) ==
  /\ Open(t, cells, free, P, rest) /\ ~OnStack(rest, c) /\ OnStack(stack, c)
  /\ \A e : OnStack(rest, e) => OnStack(stack, e)
  /\ \A e : OnStack(stack, e) /\ e # c => OnStack(rest, e)

\* A directory whose children are all processed is left.
LEMMA FrameLeft ==
  ASSUME NEW t \in Trees, NEW cells, NEW free, NEW P, NEW stack, Open(t, cells, free, P, stack),
         stack # <<>>, NEW c, c = Head(stack).dir, cells[c].count = Len(Kids(t, P, c)),
         NEW rest, rest = Tail(stack)
  PROVE  Left(t, cells, free, P, stack, c, rest)
  <1>1. PICK n \in Nat : n = Len(stack) /\ n > 0 /\ n # 0
    BY DEF Open
  <1>2. /\ rest \in Seq(Frame(t)) /\ Len(rest) = n - 1 /\ c = stack[1].dir
        /\ \A i \in 1 .. n - 1 : rest[i] = stack[i + 1]
    BY <1>1 DEF Open
  <1>3. /\ \A i \in 1 .. n - 1 : i + 1 \in 1 .. n /\ i + 1 # 1
        /\ \A i \in 1 .. n : i # 1 => i - 1 \in 1 .. n - 1 /\ (i - 1) + 1 = i
        /\ 1 \in 1 .. n
    BY <1>1
  <1>4. ASSUME NEW e, OnStack(rest, e) PROVE OnStack(stack, e)
    BY <1>1, <1>2, <1>3, <1>4 DEF OnStack
  <1>5. ASSUME NEW e, OnStack(stack, e), e # c PROVE OnStack(rest, e)
    <2>1. PICK i \in 1 .. n : stack[i].dir = e
      BY <1>1, <1>5 DEF OnStack
    <2>2. i # 1
      BY <1>2, <1>5, <2>1
    <2>3. i - 1 \in 1 .. n - 1 /\ rest[i - 1] = stack[i]
      BY <1>2, <1>3, <2>2
    <2> QED BY <1>2, <2>1, <2>3 DEF OnStack
  <1>6. \A i, j \in 1 .. n : stack[i].dir = stack[j].dir => i = j
    BY <1>1 DEF Open
  <1>7. ~OnStack(rest, c)
    <2> SUFFICES ASSUME NEW i \in 1 .. n - 1, rest[i].dir = c PROVE FALSE
      BY <1>2 DEF OnStack
    <2>1. i + 1 \in 1 .. n /\ i + 1 # 1 /\ 1 \in 1 .. n
      BY <1>3
    <2>2. stack[i + 1].dir = stack[1].dir
      BY <1>2
    <2> QED BY <1>6, <2>1, <2>2
  <1>8. OnStack(stack, c)
    BY <1>1, <1>2, <1>3 DEF OnStack
  <1>9. ASSUME NEW i \in 1 .. n - 1, NEW j \in 1 .. n - 1, rest[i].dir = rest[j].dir PROVE i = j
    <2>1. i + 1 \in 1 .. n /\ j + 1 \in 1 .. n /\ stack[i + 1].dir = stack[j + 1].dir
      BY <1>2, <1>3, <1>9
    <2>2. i + 1 = j + 1
      BY <1>6, <2>1
    <2> QED BY <2>2
  <1>10. \A i \in 1 .. n - 1 :
           /\ rest[i].dir \in 0 .. free - 1
           /\ cells[rest[i].dir].ftype = "dir"
           /\ rest[i].list = Kids(t, P, rest[i].dir)
    BY <1>1, <1>2, <1>3 DEF Open
  <1>11. Open(t, cells, free, P, rest)
    BY <1>2, <1>5, <1>9, <1>10 DEF Open
  <1> QED BY <1>4, <1>5, <1>7, <1>8, <1>11 DEF Left

\* A frame is added.
Pushed(F, stack, f, more) ==
  /\ more \in Seq(F) /\ Len(more) = Len(stack) + 1 /\ Len(stack) \in Nat
  /\ more[1] = f /\ \A i \in 1 .. Len(stack) : more[i + 1] = stack[i]
  /\ \A e : OnStack(more, e) <=> OnStack(stack, e) \/ e = f.dir

\* What is on the stack once a directory is entered.
LEMMA FrameAdded ==
  ASSUME NEW F, NEW stack, stack \in Seq(F), NEW f \in F, NEW more, more = <<f>> \o stack
  PROVE  Pushed(F, stack, f, more)
  <1>1. PICK n \in Nat : n = Len(stack)
    OBVIOUS
  <1>2. more \in Seq(F) /\ Len(more) = n + 1 /\ more[1] = f
    BY <1>1
  <1>3. \A i \in 1 .. n : i + 1 \in 1 .. n + 1
    BY <1>1
  <1>4. \A i \in 1 .. n : more[i + 1] = stack[i]
    BY <1>1
  <1>5. \A i \in 1 .. n + 1 : i = 1 \/ (i - 1 \in 1 .. n /\ (i - 1) + 1 = i)
    BY <1>1
  <1>6. 1 \in 1 .. n + 1
    BY <1>1
  <1>7. \A e : OnStack(more, e) <=> OnStack(stack, e) \/ e = f.dir
    BY <1>1, <1>2, <1>3, <1>4, <1>5, <1>6 DEF OnStack
  <1> QED BY <1>1, <1>2, <1>4, <1>7 DEF Pushed

-----------------------------------------------------------------------------
\* The stack once the next child of its first directory is processed.
StackKept(t, cells2, free, free2, P2, stack, d) ==
  /\ ~OnStack(stack, d)
  /\ \A i \in 1 .. Len(stack) :
       /\ stack[i].dir \in 0 .. free - 1 /\ stack[i].dir \in 0 .. free2 - 1
       /\ cells2[stack[i].dir].ftype = "dir"
       /\ stack[i].list = Kids(t, P2, stack[i].dir)
  /\ \A e \in 0 .. free - 1 :
       e # d /\ cells2[e].ftype = "dir" /\ cells2[e].count # Len(Kids(t, P2, e)) => OnStack(stack, e)

\* The directories in progress stay so while a child is processed.
LEMMA TakenOpen ==
  ASSUME NEW t \in Trees, NEW cells, NEW free, NEW P, Laid(t, cells, free, P),
         NEW c \in 0 .. free - 1, NEW d, NEW cells2, NEW free2, NEW P2,
         Taken(t, cells, free, P, c, d, cells2, free2, P2),
         NEW stack, Open(t, cells, free, P, stack), OnStack(stack, c)
  PROVE  StackKept(t, cells2, free, free2, P2, stack, d)
  <1>1. NextChild(t, cells, P, c, d)
    BY DEF Taken
  <1>2. d \in 0 .. free - 1 /\ cells[d].ftype = "none"
    BY <1>1, NextChildFacts
  <1>3. ~OnStack(stack, d)
    BY <1>2 DEF OnStack, Open
  <1>4. free \in Nat /\ free2 \in Nat /\ free <= free2 /\ \A e \in 0 .. free - 1 : P2[e] = P[e]
    BY DEF Taken, Laid, Paths
  <1>5. ASSUME NEW i \in 1 .. Len(stack)
        PROVE  /\ stack[i].dir \in 0 .. free - 1 /\ stack[i].dir \in 0 .. free2 - 1
               /\ cells2[stack[i].dir].ftype = "dir"
               /\ stack[i].list = Kids(t, P2, stack[i].dir)
    <2>1. PICK e : e = stack[i].dir
      OBVIOUS
    <2>2. e \in 0 .. free - 1 /\ cells[e].ftype = "dir" /\ stack[i].list = Kids(t, P, e)
      BY <2>1 DEF Open
    <2>3. e \in 0 .. free2 - 1
      BY <1>4, <2>2
    <2>4. cells2[e].ftype = "dir"
      BY <2>2, TakenCell
    <2>5. Kids(t, P2, e) = Kids(t, P, e)
      BY <1>4, <2>2 DEF Kids
    <2> QED BY <2>1, <2>2, <2>3, <2>4, <2>5
  <1>6. ASSUME NEW e \in 0 .. free - 1, e # d, cells2[e].ftype = "dir",
               cells2[e].count # Len(Kids(t, P2, e))
        PROVE  OnStack(stack, e)
    <2>1. CASE e = c
      BY <2>1
    <2>2. CASE e # c
      <3>1. e \in Cells
        BY PathsFit DEF Laid
      <3>2. cells2[e] = cells[e]
        BY <1>6, <2>2, <3>1 DEF Taken
      <3>3. Kids(t, P2, e) = Kids(t, P, e)
        BY <1>4 DEF Kids
      <3> QED BY <1>6, <3>2, <3>3 DEF Open
    <2> QED BY <2>1, <2>2
  <1> QED BY <1>3, <1>5, <1>6 DEF StackKept

\* A file leaves the stack as it is.
LEMMA FileOpen ==
  ASSUME NEW t \in Trees, NEW cells, NEW free, NEW P, Laid(t, cells, free, P),
         NEW c \in 0 .. free - 1, NEW d, NEW cells2,
         Taken(t, cells, free, P, c, d, cells2, free, P), P[d] \notin Dirs(t),
         NEW stack, Open(t, cells, free, P, stack), OnStack(stack, c)
  PROVE  Open(t, cells2, free, P, stack) /\ ~OnStack(stack, d)
  <1>1. StackKept(t, cells2, free, free, P, stack, d)
    BY TakenOpen
  <1>2. cells2[d].ftype # "dir"
    BY DEF Taken
  <1> QED BY <1>1, <1>2 DEF StackKept, Open

Pushes(d, L, st) == <<[dir |-> d, list |-> L]>> \o st

\* A directory is put on the stack.
LEMMA DirOpen ==
  ASSUME NEW t \in Trees, NEW cells, NEW free, NEW P, Laid(t, cells, free, P),
         NEW c \in 0 .. free - 1, NEW d, NEW cells2, NEW free2, NEW P2,
         Taken(t, cells, free, P, c, d, cells2, free2, P2), P[d] \in Dirs(t),
         Laid(t, cells2, free2, P2),
         NEW stack, Open(t, cells, free, P, stack), OnStack(stack, c),
         NEW more, more = Pushes(d, Kids(t, P2, d), stack)
  PROVE  Open(t, cells2, free2, P2, more) /\ \A e : OnStack(more, e) <=> OnStack(stack, e) \/ e = d
  <1>1. StackKept(t, cells2, free, free2, P2, stack, d)
    BY TakenOpen
  <1>2. NextChild(t, cells, P, c, d) /\ cells2[d].ftype = "dir"
    BY DEF Taken
  <1>3. d \in 0 .. free - 1
    BY <1>2, NextChildFacts
  <1>4. free \in Nat /\ free2 \in Nat /\ free <= free2
    BY DEF Taken, Laid, Paths
  <1>5. d \in 0 .. free2 - 1 /\ d \in Cells
    <2>1. 0 .. free2 - 1 \subseteq Cells
      BY PathsFit DEF Laid
    <2>2. d \in 0 .. free2 - 1
      BY <1>3, <1>4
    <2> QED BY <2>1, <2>2
  <1>6. PICK f : f = [dir |-> d, list |-> Kids(t, P2, d)]
    OBVIOUS
  <1>7. f \in Frame(t) /\ f.dir = d /\ f.list = Kids(t, P2, d)
    <2>1. Listed(Kids(t, P2, d), t, P2[d])
      BY KidsFacts
    <2>2. Kids(t, P2, d) \in Seq(DOMAIN t)
      BY <2>1 DEF Listed
    <2> QED BY <1>5, <1>6, <2>2 DEF Frame
  <1>8. stack \in Seq(Frame(t)) /\ more = <<f>> \o stack
    BY <1>6 DEF Open, Pushes
  <1>9. /\ more \in Seq(Frame(t)) /\ Len(more) = Len(stack) + 1 /\ Len(stack) \in Nat
        /\ more[1] = f /\ \A i \in 1 .. Len(stack) : more[i + 1] = stack[i]
        /\ \A e : OnStack(more, e) <=> OnStack(stack, e) \/ e = f.dir
    <2>1. Pushed(Frame(t), stack, f, more)
      BY <1>7, <1>8, FrameAdded
    <2> QED BY <2>1 DEF Pushed
  <1>10. PICK n \in Nat : n = Len(stack)
    BY <1>9
  <1>11. \A i \in 1 .. n + 1 : i = 1 \/ (i - 1 \in 1 .. n /\ (i - 1) + 1 = i /\ more[i] = stack[i - 1])
    <2>1. \A i \in 1 .. n + 1 : i = 1 \/ (i - 1 \in 1 .. n /\ (i - 1) + 1 = i)
      BY <1>10
    <2> QED BY <1>9, <1>10, <2>1
  <1>12. ASSUME NEW i \in 1 .. n + 1
         PROVE  /\ more[i].dir \in 0 .. free2 - 1
                /\ cells2[more[i].dir].ftype = "dir"
                /\ more[i].list = Kids(t, P2, more[i].dir)
    <2>1. CASE i = 1
      BY <1>2, <1>5, <1>7, <1>9, <2>1
    <2>2. CASE i # 1
      <3>1. i - 1 \in 1 .. Len(stack) /\ more[i] = stack[i - 1]
        BY <1>10, <1>11, <2>2
      <3> QED BY <1>1, <3>1 DEF StackKept
    <2> QED BY <2>1, <2>2
  <1>13. ASSUME NEW i \in 1 .. n + 1, NEW j \in 1 .. n + 1, more[i].dir = more[j].dir
         PROVE  i = j
    <2>1. \A k \in 1 .. n : stack[k].dir # d
      BY <1>1, <1>10 DEF StackKept, OnStack
    <2>2. CASE i = 1 \/ j = 1
      <3>1. more[1].dir = d /\ \A k \in 1 .. n + 1 : k # 1 => more[k].dir # d
        BY <1>7, <1>9, <1>11, <2>1
      <3> QED BY <1>13, <2>2, <3>1
    <2>3. CASE i # 1 /\ j # 1
      <3>1. /\ i - 1 \in 1 .. n /\ j - 1 \in 1 .. n
            /\ stack[i - 1].dir = stack[j - 1].dir
        BY <1>11, <1>13, <2>3
      <3>2. i - 1 = j - 1
        BY <1>10, <3>1 DEF Open
      <3> QED BY <3>2
    <2> QED BY <2>2, <2>3
  <1>14. ASSUME NEW e \in 0 .. free2 - 1, cells2[e].ftype = "dir",
                cells2[e].count # Len(Kids(t, P2, e))
         PROVE  OnStack(more, e)
    <2>1. CASE e = d
      BY <1>7, <1>9, <2>1
    <2>2. CASE e # d /\ e < free
      <3>1. e \in 0 .. free - 1
        BY <1>4, <2>2
      <3>2. OnStack(stack, e)
        BY <1>1, <1>14, <2>2, <3>1 DEF StackKept
      <3> QED BY <1>9, <3>2
    <2>3. CASE e # d /\ ~(e < free)
      <3>1. e \in Cells /\ e >= free
        <4>1. 0 .. free2 - 1 \subseteq Cells
          BY PathsFit DEF Laid
        <4> QED BY <1>4, <2>3, <4>1
      <3>2. cells[e] = Zeroed /\ e # c
        BY <1>4, <3>1 DEF Laid
      <3>3. cells2[e] = Zeroed
        BY <2>3, <3>1, <3>2 DEF Taken
      <3> QED BY <1>14, <3>3 DEF Zeroed
    <2> QED BY <2>1, <2>2, <2>3
  <1>15. Open(t, cells2, free2, P2, more)
    BY <1>9, <1>10, <1>12, <1>13, <1>14 DEF Open
  <1> QED BY <1>7, <1>9, <1>15

-----------------------------------------------------------------------------
(* The map while inodes are put into it.                                    *)
Tables == [n_buckets : Nat, size : Nat, upper_bound : Nat,
           bucket : UNION {[0 .. n - 1 -> Bucket(Cells)] : n \in Nat}]
Maps == {NoMap} \cup Tables
MapOK(m) == m = NoMap \/ Table(m, Cells)

\* The cells are numbers, finitely many, with the root among them.
LEMMA CellsNat == Cells \subseteq Nat /\ IsFiniteSet(Cells) /\ 0 \in Cells
  BY LookupAssumption DEF Root

\* No table is NoMap.
LEMMA TableNotNull ==
  ASSUME NEW m, Table(m, Cells)
  PROVE  m # NoMap
  <1>1. m.n_buckets \in Nat
    BY DEF Table
  <1>2. NoMap.n_buckets = -1
    BY DEF NoMap
  <1> QED BY <1>1, <1>2

\* The maps form a set.
LEMMA MapInMaps ==
  ASSUME NEW m, MapOK(m)
  PROVE  m \in Maps
  <1>1. CASE m = NoMap
    BY <1>1 DEF Maps
  <1>2. CASE Table(m, Cells)
    <2>1. /\ m.n_buckets \in Nat /\ m.size \in Nat /\ Sized(m)
          /\ m.bucket \in [0 .. m.n_buckets - 1 -> Bucket(Cells)]
          /\ m = [n_buckets |-> m.n_buckets, size |-> m.size, upper_bound |-> m.upper_bound,
                  bucket |-> m.bucket]
      BY <1>2 DEF Table
    <2>2. m.upper_bound \in Nat
      <3>1. CASE m.n_buckets = 0
        BY <2>1, <3>1 DEF Sized
      <3>2. CASE m.n_buckets # 0
        <4>1. m.n_buckets >= 4 /\ m.upper_bound = UpperBound(m.n_buckets)
          BY <2>1, <3>2 DEF Sized
        <4> QED BY <2>1, <4>1, UpperBoundBelow
      <3> QED BY <3>1, <3>2
    <2>3. m.bucket \in UNION {[0 .. n - 1 -> Bucket(Cells)] : n \in Nat}
      BY <2>1
    <2>4. m \in Tables
      BY <2>1, <2>2, <2>3 DEF Tables
    <2> QED BY <2>4 DEF Maps
  <1> QED BY <1>1, <1>2 DEF MapOK

\* kh_init() makes a table without entries.
LEMMA EmptyTable == Table(kh_init, Cells) /\ Entries(kh_init) = {}
  <1>1. kh_init.bucket \in [0 .. 0 - 1 -> Bucket(Cells)]
    <2>1. 0 .. 0 - 1 = {}
      OBVIOUS
    <2>2. <<>> \in Seq(Bucket(Cells)) /\ Len(<<>>) = 0
      BY EmptySeq
    <2>3. <<>> \in [1 .. 0 -> Bucket(Cells)]
      BY <2>2
    <2>4. 1 .. 0 = {}
      OBVIOUS
    <2> QED BY <2>1, <2>3, <2>4 DEF kh_init
  <1>2. kh_init.n_buckets = 0 /\ kh_init.size = 0 /\ kh_init.upper_bound = 0
    BY DEF kh_init
  <1>3. Used(kh_init) = {}
    BY <1>2 DEF Used
  <1>4. Cardinality({}) = 0
    BY FS_EmptySet
  <1>5. kh_init = [n_buckets |-> kh_init.n_buckets, size |-> kh_init.size,
                   upper_bound |-> kh_init.upper_bound, bucket |-> kh_init.bucket]
    BY DEF kh_init
  <1> QED BY <1>1, <1>2, <1>3, <1>4, <1>5 DEF Table, Sized, Entries

\* Every name a cell may have, and every path asked for, has a hash.
LEMMA NamesHash ==
  ASSUME hash \in Hashes, NEW cells \in [Cells -> Cell]
  PROVE  /\ Named(Names(cells), hash, Cells)
         /\ \A s \in NameSet \cup Asked : hash[s] \in Nat
         /\ \A c \in Cells : Names(cells)[c] = cells[c].name
  <1>1. \A s \in NameSet \cup Asked : hash[s] \in Nat
    BY LookupAssumption DEF NameSet
  <1>2. \A c \in Cells : Names(cells)[c] = cells[c].name /\ cells[c].name \in NameSet
    BY DEF Names, Cell
  <1> QED BY <1>1, <1>2, CellsNat DEF Named

\* kh_put() of an inode: nothing to do, no memory, or a call.
PutDone(w, c, v) ==
  \/ v = w /\ (w.map = NoMap \/ w.err # "OK")
  \/ v = [w EXCEPT !.err = "EIO"] /\ w.map # NoMap
  \/ \E r \in Nat : \E g :
       /\ v = [w EXCEPT !.room = r, !.map = g]
       /\ w.err = "OK" /\ w.map # NoMap
       /\ PutIn(w.map, g, Names(w.inode), hash, c, c, Cells)

\* PutInode() does one of these.
LEMMA PutCases ==
  ASSUME hash \in Hashes, NEW w, w.inode \in [Cells -> Cell], w.room \in Nat, MapOK(w.map),
         NEW c \in Cells, NEW v, v = PutInode(w, c)
  PROVE  PutDone(w, c, v)
  <1>1. CASE w.map = NoMap \/ w.err # "OK"
    BY <1>1 DEF PutInode, PutDone
  <1>2. CASE ~(w.map = NoMap \/ w.err # "OK") /\ MustResize(w.map) /\ w.room = 0
    BY <1>2 DEF PutInode, PutDone
  <1>3. CASE ~(w.map = NoMap \/ w.err # "OK") /\ ~(MustResize(w.map) /\ w.room = 0)
    <2>1. PICK g : g = kh_put(w.map, Names(w.inode), hash, c, c)
      OBVIOUS
    <2>2. PICK r : r = IF MustResize(w.map) THEN w.room - 1 ELSE w.room
      OBVIOUS
    <2>3. r \in Nat
      BY <1>3, <2>2
    <2>4. v = [w EXCEPT !.room = r, !.map = g]
      BY <1>3, <2>1, <2>2 DEF PutInode
    <2>5. Table(w.map, Cells)
      BY <1>3 DEF MapOK
    <2>6. Named(Names(w.inode), hash, Cells)
      BY NamesHash
    <2>7. PutIn(w.map, kh_put(w.map, Names(w.inode), hash, c, c), Names(w.inode), hash, c, c, Cells)
      BY <2>5, <2>6, CellsNat, PutKeeps
    <2> QED BY <1>3, <2>1, <2>3, <2>4, <2>7 DEF PutDone
  <1> QED BY <1>1, <1>2, <1>3

-----------------------------------------------------------------------------
(* What a round of the loop does to the cells.                              *)
IndexRec(t) ==
  [inode : [Cells -> Cell], ifree : Nat, efree : Nat, map : Maps, room : Nat,
   err : {"OK", "EIO"}, stack : Seq(Frame(t))]

\* The cells after a child d of c has been given a path, a type and an array.
CellsTake(cells, c, d, x, type, i, n, cells2) ==
  /\ cells2 \in [Cells -> Cell]
  /\ cells2[d] = [name |-> x, ftype |-> type, idx |-> i, count |-> n]
  /\ cells2[c].name = cells[c].name /\ cells2[c].ftype = cells[c].ftype
  /\ cells2[c].idx = cells[c].idx /\ cells2[c].count = cells[c].count + 1
  /\ \A e \in Cells : e # c /\ e # d => cells2[e] = cells[e]

NamedCells(cells, c, d, x, k) ==
  [cells EXCEPT ![d].name = x, ![c].count = k + 1]

\* A cell is written.
LEMMA CellSet ==
  ASSUME NEW cells \in [Cells -> Cell], NEW d \in Cells, NEW b \in Cell, NEW cells2,
         cells2 = [cells EXCEPT ![d] = b]
  PROVE  cells2 \in [Cells -> Cell] /\ cells2[d] = b /\ \A e \in Cells : e # d => cells2[e] = cells[e]
  OBVIOUS

\* The fields of a cell, and a cell with one of them changed.
LEMMA CellFields ==
  ASSUME NEW b \in Cell
  PROVE  /\ b.name \in NameSet /\ b.ftype \in {"none", "dir", "reg"} /\ b.idx \in Nat /\ b.count \in Nat
         /\ b = [name |-> b.name, ftype |-> b.ftype, idx |-> b.idx, count |-> b.count]
         /\ \A x : [b EXCEPT !.name = x] = [name |-> x, ftype |-> b.ftype, idx |-> b.idx, count |-> b.count]
         /\ \A x : [b EXCEPT !.ftype = x] = [name |-> b.name, ftype |-> x, idx |-> b.idx, count |-> b.count]
         /\ \A x : [b EXCEPT !.idx = x] = [name |-> b.name, ftype |-> b.ftype, idx |-> x, count |-> b.count]
         /\ \A x : [b EXCEPT !.count = x] = [name |-> b.name, ftype |-> b.ftype, idx |-> b.idx, count |-> x]
  BY DEF Cell

\* A cell from its fields.
LEMMA CellIn ==
  ASSUME NEW n \in NameSet, NEW f \in {"none", "dir", "reg"}, NEW i \in Nat, NEW k \in Nat
  PROVE  [name |-> n, ftype |-> f, idx |-> i, count |-> k] \in Cell
  BY DEF Cell

\* The name and the count.
LEMMA NamesTake ==
  ASSUME NEW cells \in [Cells -> Cell], NEW c \in Cells, NEW d \in Cells, c # d,
         NEW x \in NameSet, NEW k, k = cells[c].count,
         NEW named, named = [cells EXCEPT ![d].name = x, ![c].count = k + 1]
  PROVE  CellsTake(cells, c, d, x, cells[d].ftype, cells[d].idx, cells[d].count, named)
  <1>1. PICK b : b = [cells[d] EXCEPT !.name = x]
    OBVIOUS
  <1>2. b = [name |-> x, ftype |-> cells[d].ftype, idx |-> cells[d].idx, count |-> cells[d].count]
    BY <1>1, CellFields
  <1>3. b \in Cell
    BY <1>2, CellFields, CellIn
  <1>4. PICK f : f = [cells EXCEPT ![d] = b]
    OBVIOUS
  <1>5. f \in [Cells -> Cell] /\ f[d] = b /\ \A e \in Cells : e # d => f[e] = cells[e]
    BY <1>3, <1>4, CellSet
  <1>6. PICK a : a = [cells[c] EXCEPT !.count = k + 1]
    OBVIOUS
  <1>7. a = [name |-> cells[c].name, ftype |-> cells[c].ftype, idx |-> cells[c].idx, count |-> k + 1]
    BY <1>6, CellFields
  <1>8. k \in Nat /\ k + 1 \in Nat
    BY CellFields
  <1>9. a \in Cell
    BY <1>7, <1>8, CellFields, CellIn
  <1>10. named = [f EXCEPT ![c] = a]
    <2>1. f[c] = cells[c]
      BY <1>5
    <2>2. named = [[cells EXCEPT ![d].name = x] EXCEPT ![c].count = k + 1]
      OBVIOUS
    <2>3. [cells EXCEPT ![d].name = x] = f
      BY <1>1, <1>4
    <2> QED BY <1>6, <2>1, <2>2, <2>3
  <1>11. named \in [Cells -> Cell] /\ named[c] = a /\ \A e \in Cells : e # c => named[e] = f[e]
    <2>1. f \in [Cells -> Cell]
      BY <1>5
    <2> QED BY <1>9, <1>10, <2>1
  <1> QED BY <1>2, <1>5, <1>7, <1>11 DEF CellsTake

NamedState(w, c, d, x, k) == [w EXCEPT !.inode[d].name = x, !.inode[c].count = k + 1]
IndexState(cells, free, ef, mp, room, er, st) ==
  [inode |-> cells, ifree |-> free, efree |-> ef, map |-> mp, room |-> room, err |-> er, stack |-> st]
EnteredCells(cells, d, free) ==
  [cells EXCEPT ![d] = [name |-> cells[d].name, ftype |-> "dir", idx |-> free, count |-> 0]]

\* The cells of a state whose next child is named and counted.
LEMMA NamedIs ==
  ASSUME NEW cells \in [Cells -> Cell], NEW c \in Cells, NEW d \in Cells, NEW x, NEW k, NEW free, NEW ef,
         NEW mp, NEW room, NEW er, NEW st, NEW w, w = IndexState(cells, free, ef, mp, room, er, st),
         NEW named, named = NamedCells(cells, c, d, x, k)
  PROVE  NamedState(w, c, d, x, k) = IndexState(named, free, ef, mp, room, er, st)
  <1>1. w = [inode |-> cells, ifree |-> free, efree |-> ef, map |-> mp, room |-> room,
             err |-> er, stack |-> st]
    BY DEF IndexState
  <1>4. [w EXCEPT !.inode[d].name = x, !.inode[c].count = k + 1] =
          [inode |-> named, ifree |-> free, efree |-> ef, map |-> mp, room |-> room,
           err |-> er, stack |-> st]
    <2>1. PICK one : one = [cells EXCEPT ![d].name = x]
      OBVIOUS
    <2>2. [w EXCEPT !.inode[d].name = x] =
            [inode |-> one, ifree |-> free, efree |-> ef, map |-> mp, room |-> room,
             err |-> er, stack |-> st]
      BY <1>1, <2>1
    <2>3. named = [one EXCEPT ![c].count = k + 1]
      BY <2>1 DEF NamedCells
    <2>4. [[inode |-> one, ifree |-> free, efree |-> ef, map |-> mp, room |-> room,
             err |-> er, stack |-> st] EXCEPT !.inode[c].count = k + 1] =
          [inode |-> named, ifree |-> free, efree |-> ef, map |-> mp, room |-> room,
           err |-> er, stack |-> st]
      BY <2>3
    <2>5. [w EXCEPT !.inode[d].name = x, !.inode[c].count = k + 1] =
            [[w EXCEPT !.inode[d].name = x] EXCEPT !.inode[c].count = k + 1]
      OBVIOUS
    <2> QED BY <2>2, <2>4, <2>5
  <1> QED BY <1>4 DEF IndexState, NamedState

\* A file: its extents, if it has any, lie in the pool of extents.
FileStep(t, w, c, d, x, u, i, n) ==
  /\ CellsTake(w.inode, c, d, x, "reg", i, n, u.inode)
  /\ u \in IndexRec(t) /\ u.ifree = w.ifree /\ u.map = w.map
  /\ u.room = w.room /\ u.err = w.err /\ u.stack = w.stack
FileDone(t, w, c, d, x, v) ==
  \E u : \E i, n \in Nat : FileStep(t, w, c, d, x, u, i, n) /\ v = PutInode(u, d)

\* process_ino_fiemap() of a file.
LEMMA FileIs ==
  ASSUME NEW t, NEW w \in IndexRec(t), NEW c \in Cells, NEW d \in Cells, c # d,
         NEW x \in NameSet, NEW k, k = w.inode[c].count, t[x] \in Nat,
         w.inode[d] = Zeroed,
         NEW v, v = ProcessIno(NamedState(w, c, d, x, k), t, x, d)
  PROVE  FileDone(t, w, c, d, x, v)
  <1>1. PICK cells, free, ef, mp, room, er, st :
          /\ w = [inode |-> cells, ifree |-> free, efree |-> ef, map |-> mp, room |-> room,
                  err |-> er, stack |-> st]
          /\ cells \in [Cells -> Cell] /\ free \in Nat /\ ef \in Nat /\ mp \in Maps
          /\ room \in Nat /\ er \in {"OK", "EIO"} /\ st \in Seq(Frame(t))
    BY DEF IndexRec
  <1>2. PICK named : named = [cells EXCEPT ![d].name = x, ![c].count = k + 1]
    OBVIOUS
  <1>3. CellsTake(cells, c, d, x, "none", 0, 0, named)
    <2>1. cells[d].ftype = "none" /\ cells[d].idx = 0 /\ cells[d].count = 0 /\ k = cells[c].count
      BY <1>1 DEF Zeroed
    <2>2. CellsTake(cells, c, d, x, cells[d].ftype, cells[d].idx, cells[d].count, named)
      BY <1>1, <1>2, <2>1, NamesTake
    <2> QED BY <2>1, <2>2
  <1>4. NamedState(w, c, d, x, k) =
          [inode |-> named, ifree |-> free, efree |-> ef, map |-> mp, room |-> room,
           err |-> er, stack |-> st]
    <2>1. w = IndexState(cells, free, ef, mp, room, er, st)
      BY <1>1 DEF IndexState
    <2>2. cells \in [Cells -> Cell]
      BY <1>1
    <2>3. NamedState(w, c, d, x, k) = IndexState(named, free, ef, mp, room, er, st)
      <3>1. named = NamedCells(cells, c, d, x, k)
        BY <1>2 DEF NamedCells
      <3> QED BY <2>1, <2>2, <3>1, NamedIs
    <2> QED BY <2>3 DEF IndexState
  <1>5. PICK n \in Nat : n = t[x]
    OBVIOUS
  <1>6. PICK f2 : f2 = [named EXCEPT ![d].ftype = "reg"]
    OBVIOUS
  <1>7. CellsTake(cells, c, d, x, "reg", 0, 0, f2)
    <2>1. /\ named \in [Cells -> Cell] /\ named[d] = [name |-> x, ftype |-> "none", idx |-> 0, count |-> 0]
      BY <1>3 DEF CellsTake
    <2>2. PICK b : b = [named[d] EXCEPT !.ftype = "reg"]
      OBVIOUS
    <2>3. b = [name |-> x, ftype |-> "reg", idx |-> 0, count |-> 0]
      BY <2>1, <2>2
    <2>4. b \in Cell
      BY <2>3, CellIn
    <2>5. f2 = [named EXCEPT ![d] = b]
      BY <1>6, <2>2
    <2>6. f2 \in [Cells -> Cell] /\ f2[d] = b /\ \A e \in Cells : e # d => f2[e] = named[e]
      BY <2>1, <2>4, <2>5
    <2> QED BY <1>3, <2>3, <2>6 DEF CellsTake
  <1>8. PICK w2 : w2 = [inode |-> f2, ifree |-> free, efree |-> ef, map |-> mp, room |-> room,
                        err |-> er, stack |-> st]
    OBVIOUS
  <1>9. v = ProcessFile(w2, d, n)
    <2>1. PICK w1 : w1 = [inode |-> named, ifree |-> free, efree |-> ef, map |-> mp, room |-> room,
                          err |-> er, stack |-> st]
      OBVIOUS
    <2>2. v = ProcessIno(w1, t, x, d)
      BY <1>4, <2>1, Zenon
    <2>3. w2 = [w1 EXCEPT !.inode[d].ftype = "reg"]
      BY <1>6, <1>8, <2>1
    <2>4. t[x] >= 0
      OBVIOUS
    <2> QED BY <1>5, <2>2, <2>3, <2>4 DEF ProcessIno
  <1>10. CASE n = 0
    <2>1. v = PutInode(w2, d)
      BY <1>9, <1>10 DEF ProcessFile
    <2>2. /\ w2 \in IndexRec(t) /\ w2.inode = f2 /\ w2.ifree = w.ifree /\ w2.map = w.map
          /\ w2.room = w.room /\ w2.err = w.err /\ w2.stack = w.stack
      BY <1>1, <1>7, <1>8 DEF IndexRec, CellsTake
    <2>3. CellsTake(w.inode, c, d, x, "reg", 0, 0, f2)
      BY <1>1, <1>7
    <2>4. FileStep(t, w, c, d, x, w2, 0, 0) /\ 0 \in Nat
      BY <2>2, <2>3 DEF FileStep
    <2> QED BY <2>1, <2>4 DEF FileDone
  <1>11. CASE n # 0
    <2>1. PICK f3 : f3 = [f2 EXCEPT ![d].idx = ef]
      OBVIOUS
    <2>2. PICK f4 : f4 = [f3 EXCEPT ![d].count = n]
      OBVIOUS
    <2>3. CellsTake(cells, c, d, x, "reg", ef, n, f4)
      <3>1. f2 \in [Cells -> Cell] /\ f2[d] = [name |-> x, ftype |-> "reg", idx |-> 0, count |-> 0]
        BY <1>7 DEF CellsTake
      <3>2. PICK b : b = [f2[d] EXCEPT !.idx = ef]
        OBVIOUS
      <3>3. b = [name |-> x, ftype |-> "reg", idx |-> ef, count |-> 0]
        BY <3>1, <3>2
      <3>4. b \in Cell
        BY <1>1, <3>3, CellIn
      <3>5. f3 = [f2 EXCEPT ![d] = b]
        BY <2>1, <3>2
      <3>6. f3 \in [Cells -> Cell] /\ f3[d] = b /\ \A e \in Cells : e # d => f3[e] = f2[e]
        BY <3>1, <3>4, <3>5
      <3>7. PICK b2 : b2 = [f3[d] EXCEPT !.count = n]
        OBVIOUS
      <3>8. b2 = [name |-> x, ftype |-> "reg", idx |-> ef, count |-> n]
        BY <3>3, <3>6, <3>7
      <3>9. b2 \in Cell
        BY <1>1, <3>8, CellIn
      <3>10. f4 = [f3 EXCEPT ![d] = b2]
        BY <2>2, <3>7
      <3>11. f4 \in [Cells -> Cell] /\ f4[d] = b2 /\ \A e \in Cells : e # d => f4[e] = f3[e]
        BY <3>6, <3>9, <3>10
      <3> QED BY <1>7, <3>6, <3>8, <3>11 DEF CellsTake
    <2>4. PICK u : u = [inode |-> f4, ifree |-> free, efree |-> ef + n, map |-> mp, room |-> room,
                        err |-> er, stack |-> st]
      OBVIOUS
    <2>5. v = PutInode([w2 EXCEPT !.inode[d].idx = w2.efree, !.inode[d].count = n, !.efree = @ + n], d)
      BY <1>9, <1>11 DEF ProcessFile
    <2>6. [w2 EXCEPT !.inode[d].idx = w2.efree, !.inode[d].count = n, !.efree = @ + n] = u
      <3>1. PICK u1 : u1 = [inode |-> f3, ifree |-> free, efree |-> ef, map |-> mp, room |-> room,
                            err |-> er, stack |-> st]
        OBVIOUS
      <3>2. [w2 EXCEPT !.inode[d].idx = w2.efree] = u1
        BY <1>8, <2>1, <3>1
      <3>3. PICK u2 : u2 = [inode |-> f4, ifree |-> free, efree |-> ef, map |-> mp, room |-> room,
                            err |-> er, stack |-> st]
        OBVIOUS
      <3>4. [u1 EXCEPT !.inode[d].count = n] = u2
        BY <2>2, <3>1, <3>3
      <3>5. [u2 EXCEPT !.efree = @ + n] = u
        BY <2>4, <3>3
      <3>6. [w2 EXCEPT !.inode[d].idx = w2.efree, !.inode[d].count = n, !.efree = @ + n] =
              [[[w2 EXCEPT !.inode[d].idx = w2.efree] EXCEPT !.inode[d].count = n] EXCEPT !.efree = @ + n]
        OBVIOUS
      <3> QED BY <3>2, <3>4, <3>5, <3>6, Zenon
    <2>7. /\ u \in IndexRec(t) /\ u.inode = f4 /\ u.ifree = w.ifree /\ u.map = w.map
          /\ u.room = w.room /\ u.err = w.err /\ u.stack = w.stack
      BY <1>1, <2>3, <2>4 DEF IndexRec, CellsTake
    <2>8. CellsTake(w.inode, c, d, x, "reg", ef, n, f4)
      BY <1>1, <2>3
    <2>9. v = PutInode(u, d)
      BY <2>5, <2>6, Zenon
    <2>10. FileStep(t, w, c, d, x, u, ef, n) /\ ef \in Nat
      BY <1>1, <2>7, <2>8 DEF FileStep
    <2> QED BY <2>9, <2>10 DEF FileDone
  <1> QED BY <1>10, <1>11

\* A directory: its frame is pushed, its array claimed.
LEMMA EnterIs ==
  ASSUME NEW t, NEW path, NEW cells \in [Cells -> Cell], NEW d \in Cells, NEW free \in Nat, NEW ef,
         NEW mp, NEW room, NEW er, NEW st, NEW w, w = IndexState(cells, free, ef, mp, room, er, st),
         NEW L, L = SortedChildren(t, path)
  PROVE  EnterDir(w, t, path, d) =
           IndexState(EnteredCells(cells, d, free), free + Len(L), ef, mp, room, er, Pushes(d, L, st))
  <1>20. w = [inode |-> cells, ifree |-> free, efree |-> ef, map |-> mp, room |-> room,
              err |-> er, stack |-> st]
    BY DEF IndexState
  <1>21. PICK f : f = EnteredCells(cells, d, free)
    OBVIOUS
  <1>1. PICK f1 : f1 = [cells EXCEPT ![d].ftype = "dir"]
    OBVIOUS
  <1>2. PICK f2 : f2 = [f1 EXCEPT ![d].idx = free]
    OBVIOUS
  <1>3. PICK f3 : f3 = [f2 EXCEPT ![d].count = 0]
    OBVIOUS
  <1>4. f3 = f
    <2>1. PICK b1 : b1 = [cells[d] EXCEPT !.ftype = "dir"]
      OBVIOUS
    <2>2. b1 = [name |-> cells[d].name, ftype |-> "dir", idx |-> cells[d].idx, count |-> cells[d].count]
      BY <2>1, CellFields
    <2>3. f1 = [cells EXCEPT ![d] = b1] /\ f1[d] = b1
      BY <1>1, <2>1
    <2>4. PICK b2 : b2 = [f1[d] EXCEPT !.idx = free]
      OBVIOUS
    <2>5. b2 = [name |-> cells[d].name, ftype |-> "dir", idx |-> free, count |-> cells[d].count]
      BY <2>2, <2>3, <2>4
    <2>6. f2 = [cells EXCEPT ![d] = b2] /\ f2[d] = b2
      BY <1>2, <2>3, <2>4
    <2>7. PICK b3 : b3 = [f2[d] EXCEPT !.count = 0]
      OBVIOUS
    <2>8. b3 = [name |-> cells[d].name, ftype |-> "dir", idx |-> free, count |-> 0]
      BY <2>5, <2>6, <2>7
    <2>9. f3 = [cells EXCEPT ![d] = b3]
      BY <1>3, <2>6, <2>7
    <2> QED BY <1>21, <2>8, <2>9 DEF EnteredCells
  <1>5. PICK w1 : w1 = [inode |-> f1, ifree |-> free, efree |-> ef, map |-> mp, room |-> room,
             err |-> er, stack |-> st]
    OBVIOUS
  <1>6. PICK w2 : w2 = [inode |-> f2, ifree |-> free, efree |-> ef, map |-> mp, room |-> room,
             err |-> er, stack |-> st]
    OBVIOUS
  <1>7. PICK w3 : w3 = [inode |-> f3, ifree |-> free, efree |-> ef, map |-> mp, room |-> room,
             err |-> er, stack |-> st]
    OBVIOUS
  <1>8. PICK w4 : w4 = [inode |-> f3, ifree |-> free + Len(L), efree |-> ef, map |-> mp, room |-> room,
             err |-> er, stack |-> st]
    OBVIOUS
  <1>9. [w EXCEPT !.inode[d].ftype = "dir"] = w1
    BY <1>1, <1>5, <1>20
  <1>10. [w1 EXCEPT !.inode[d].idx = w.ifree] = w2
    BY <1>2, <1>5, <1>6, <1>20
  <1>11. [w2 EXCEPT !.inode[d].count = 0] = w3
    BY <1>3, <1>6, <1>7
  <1>12. [w3 EXCEPT !.ifree = @ + Len(L)] = w4
    BY <1>7, <1>8
  <1>13. [w4 EXCEPT !.stack = <<[dir |-> d, list |-> L]>> \o @] =
           [inode |-> f3, ifree |-> free + Len(L), efree |-> ef, map |-> mp, room |-> room,
             err |-> er, stack |-> <<[dir |-> d, list |-> L]>> \o st]
    <2>1. PICK fr : fr = <<[dir |-> d, list |-> L]>>
      OBVIOUS
    <2>2. PICK more : more = fr \o st
      OBVIOUS
    <2>3. w4.stack = st
      BY <1>8
    <2>4. [w4 EXCEPT !.stack = fr \o @] = [w4 EXCEPT !.stack = more]
      BY <2>2, <2>3
    <2>5. [w4 EXCEPT !.stack = more] =
            [inode |-> f3, ifree |-> free + Len(L), efree |-> ef, map |-> mp, room |-> room,
             err |-> er, stack |-> more]
      BY <1>8
    <2> QED BY <2>1, <2>2, <2>4, <2>5, Zenon
  <1>14. EnterDir(w, t, path, d) =
           [w EXCEPT !.inode[d].ftype = "dir", !.inode[d].idx = w.ifree, !.inode[d].count = 0,
                     !.ifree = @ + Len(L), !.stack = <<[dir |-> d, list |-> L]>> \o @]
    BY DEF EnterDir
  <1>15. [w EXCEPT !.inode[d].ftype = "dir", !.inode[d].idx = w.ifree, !.inode[d].count = 0,
                   !.ifree = @ + Len(L), !.stack = <<[dir |-> d, list |-> L]>> \o @] =
         [[[[[w EXCEPT !.inode[d].ftype = "dir"] EXCEPT !.inode[d].idx = w.ifree]
              EXCEPT !.inode[d].count = 0] EXCEPT !.ifree = @ + Len(L)]
              EXCEPT !.stack = <<[dir |-> d, list |-> L]>> \o @]
    OBVIOUS
  <1>16. EnterDir(w, t, path, d) =
           [inode |-> f3, ifree |-> free + Len(L), efree |-> ef, map |-> mp, room |-> room,
             err |-> er, stack |-> <<[dir |-> d, list |-> L]>> \o st]
    BY <1>9, <1>10, <1>11, <1>12, <1>13, <1>14, <1>15, Zenon
  <1> QED BY <1>4, <1>16, <1>21, Zenon DEF IndexState, Pushes

-----------------------------------------------------------------------------
DirStep(t, w, c, d, x, u) ==
  /\ CellsTake(w.inode, c, d, x, "dir", w.ifree, 0, u.inode)
  /\ u \in IndexRec(t) /\ u.ifree = w.ifree + Len(SortedChildren(t, x)) /\ u.map = w.map
  /\ u.room = w.room /\ u.err = w.err
  /\ u.stack = <<[dir |-> d, list |-> SortedChildren(t, x)]>> \o w.stack

\* process_ino_fiemap() of a directory.
LEMMA DirIs ==
  ASSUME NEW t \in Trees, NEW w \in IndexRec(t), NEW c \in Cells, NEW d \in Cells, c # d,
         NEW x \in NameSet, NEW k, k = w.inode[c].count, t[x] = -1,
         w.inode[d] = Zeroed,
         NEW v, v = ProcessIno(NamedState(w, c, d, x, k), t, x, d)
  PROVE  DirStep(t, w, c, d, x, v)
  <1>1. PICK cells, free, ef, mp, room, er, st :
          /\ w = [inode |-> cells, ifree |-> free, efree |-> ef, map |-> mp, room |-> room,
                  err |-> er, stack |-> st]
          /\ cells \in [Cells -> Cell] /\ free \in Nat /\ ef \in Nat /\ mp \in Maps
          /\ room \in Nat /\ er \in {"OK", "EIO"} /\ st \in Seq(Frame(t))
    BY DEF IndexRec
  <1>2. PICK named : named = [cells EXCEPT ![d].name = x, ![c].count = k + 1]
    OBVIOUS
  <1>3. CellsTake(cells, c, d, x, "none", 0, 0, named)
    <2>1. cells[d].ftype = "none" /\ cells[d].idx = 0 /\ cells[d].count = 0 /\ k = cells[c].count
      BY <1>1 DEF Zeroed
    <2>2. CellsTake(cells, c, d, x, cells[d].ftype, cells[d].idx, cells[d].count, named)
      BY <1>1, <1>2, <2>1, NamesTake
    <2> QED BY <2>1, <2>2
  <1>4. PICK w1 : w1 = [inode |-> named, ifree |-> free, efree |-> ef, map |-> mp, room |-> room,
                        err |-> er, stack |-> st]
    OBVIOUS
  <1>5. NamedState(w, c, d, x, k) = w1
    <2>1. w = IndexState(cells, free, ef, mp, room, er, st) /\ w1 = IndexState(named, free, ef, mp, room, er, st)
      BY <1>1, <1>4 DEF IndexState
    <2>2. cells \in [Cells -> Cell]
      BY <1>1
    <2>3. named = NamedCells(cells, c, d, x, k)
      BY <1>2 DEF NamedCells
    <2> QED BY <2>1, <2>2, <2>3, NamedIs
  <1>6. v = EnterDir(w1, t, x, d)
    <2>1. ~(t[x] >= 0)
      OBVIOUS
    <2>2. v = ProcessIno(w1, t, x, d)
      BY <1>5, Zenon
    <2> QED BY <2>1, <2>2, Zenon DEF ProcessIno
  <1>7. PICK L : L = SortedChildren(t, x)
    OBVIOUS
  <1>8. named \in [Cells -> Cell] /\ named[d] = [name |-> x, ftype |-> "none", idx |-> 0, count |-> 0]
    BY <1>3 DEF CellsTake
  <1>9. PICK b : b = [name |-> x, ftype |-> "dir", idx |-> free, count |-> 0]
    OBVIOUS
  <1>10. b \in Cell
    BY <1>1, <1>9, CellIn
  <1>11. PICK f : f = [named EXCEPT ![d] = b]
    OBVIOUS
  <1>12. f \in [Cells -> Cell] /\ f[d] = b /\ \A e \in Cells : e # d => f[e] = named[e]
    BY <1>8, <1>10, <1>11
  <1>13. CellsTake(cells, c, d, x, "dir", free, 0, f)
    BY <1>3, <1>9, <1>12 DEF CellsTake
  <1>14. PICK more : more = <<[dir |-> d, list |-> L]>> \o st
    OBVIOUS
  <1>15. v = [inode |-> f, ifree |-> free + Len(L), efree |-> ef, map |-> mp, room |-> room,
              err |-> er, stack |-> more]
    <2>1. f = EnteredCells(named, d, free)
      BY <1>8, <1>9, <1>11 DEF EnteredCells
    <2>2. more = Pushes(d, L, st)
      BY <1>14 DEF Pushes
    <2>3. w1 = IndexState(named, free, ef, mp, room, er, st)
      BY <1>4 DEF IndexState
    <2>4. named \in [Cells -> Cell] /\ free \in Nat
      BY <1>1, <1>8
    <2>5. EnterDir(w1, t, x, d) = IndexState(EnteredCells(named, d, free), free + Len(L), ef, mp, room, er, Pushes(d, L, st))
      BY <1>7, <2>3, <2>4, EnterIs
    <2>6. v = IndexState(f, free + Len(L), ef, mp, room, er, more)
      BY <1>6, <2>1, <2>2, <2>5
    <2> QED BY <2>6 DEF IndexState
  <1>16. L \in Seq(DOMAIN t) /\ Len(L) \in Nat
    BY <1>7, SortedFacts
  <1>17. more \in Seq(Frame(t))
    <2>1. PICK fr : fr = [dir |-> d, list |-> L]
      OBVIOUS
    <2>2. fr \in Frame(t)
      BY <1>16, <2>1 DEF Frame
    <2>3. more = <<fr>> \o st
      BY <1>14, <2>1
    <2>4. <<fr>> \in Seq(Frame(t))
      BY <2>2
    <2> QED BY <1>1, <2>3, <2>4
  <1>18. v \in IndexRec(t)
    <2>1. free + Len(L) \in Nat
      BY <1>1, <1>16
    <2> QED BY <1>1, <1>12, <1>15, <1>17, <2>1 DEF IndexRec
  <1>19. /\ v.inode = f /\ v.ifree = free + Len(L) /\ v.map = mp /\ v.room = room /\ v.err = er
         /\ v.stack = more
    BY <1>15
  <1>20. /\ w.inode = cells /\ w.ifree = free /\ w.map = mp /\ w.room = room /\ w.err = er
         /\ w.stack = st
    BY <1>1
  <1> QED BY <1>7, <1>13, <1>14, <1>18, <1>19, <1>20, Zenon DEF DirStep

\* What a round does.
Leaves(t, w, c, u) ==
  /\ u \in IndexRec(t) /\ u.inode = w.inode /\ u.ifree = w.ifree /\ u.map = w.map
  /\ u.room = w.room /\ u.err = w.err /\ u.stack = Tail(w.stack)
Round(t, w, P, c, v) ==
  \/ /\ w.inode[c].count = Len(Kids(t, P, c))
     /\ \E u : Leaves(t, w, c, u) /\ v = PutInode(u, c)
  \/ \E d : /\ NextChild(t, w.inode, P, c, d)
            /\ \/ /\ P[d] \notin Dirs(t)
                  /\ FileDone(t, w, c, d, P[d], v)
               \/ P[d] \in Dirs(t) /\ DirStep(t, w, c, d, P[d], v)

\* A round of the loop of xal_be_fiemap_process_inode_dir().
LEMMA RoundIs ==
  ASSUME NEW t \in Trees, NEW w \in IndexRec(t), NEW P, Laid(t, w.inode, w.ifree, P),
         Open(t, w.inode, w.ifree, P, w.stack), w.stack # <<>>,
         NEW c, c = Head(w.stack).dir, NEW v, v = ProcessEntry(w, t)
  PROVE  Round(t, w, P, c, v) /\ c \in 0 .. w.ifree - 1 /\ w.inode[c].ftype = "dir" /\ OnStack(w.stack, c)
  <1>1. PICK L : L = Kids(t, P, c)
    OBVIOUS
  <1>2. PICK st : st = w.stack
    OBVIOUS
  <1>3. st \in Seq(Frame(t)) /\ st # <<>> /\ Len(st) \in Nat /\ 1 \in 1 .. Len(st) /\ Head(st) = st[1]
    BY <1>2 DEF Open
  <1>4. c \in 0 .. w.ifree - 1 /\ w.inode[c].ftype = "dir" /\ Head(w.stack).list = L
    <2>1. /\ st[1].dir \in 0 .. w.ifree - 1
          /\ w.inode[st[1].dir].ftype = "dir"
          /\ st[1].list = Kids(t, P, st[1].dir)
      BY <1>2, <1>3 DEF Open
    <2> QED BY <1>1, <1>2, <1>3, <2>1
  <1>5. OnStack(w.stack, c)
    BY <1>2, <1>3 DEF OnStack
  <1>6. PICK k : k = w.inode[c].count
    OBVIOUS
  <1>7. PICK d : d = w.inode[c].idx + k
    OBVIOUS
  <1>8. v = IF k = Len(L)
              THEN PutInode([w EXCEPT !.stack = Tail(@)], c)
              ELSE ProcessIno(NamedState(w, c, d, L[k + 1], k), t, L[k + 1], d)
    <2>1. PICK h : h = Head(w.stack)
      OBVIOUS
    <2>2. v = IF w.inode[Head(w.stack).dir].count = Len(Head(w.stack).list)
                THEN PutInode([w EXCEPT !.stack = Tail(@)], Head(w.stack).dir)
                ELSE ProcessIno(NamedState(w, Head(w.stack).dir,
                                           w.inode[Head(w.stack).dir].idx + w.inode[Head(w.stack).dir].count,
                                           Head(w.stack).list[w.inode[Head(w.stack).dir].count + 1],
                                           w.inode[Head(w.stack).dir].count),
                                t, Head(w.stack).list[w.inode[Head(w.stack).dir].count + 1],
                                w.inode[Head(w.stack).dir].idx + w.inode[Head(w.stack).dir].count)
      BY DEF ProcessEntry, NamedState
    <2>3. h.dir = c /\ h.list = L
      BY <1>4, <2>1
    <2> QED BY <1>6, <1>7, <2>1, <2>2, <2>3, Zenon
  <1>9. CASE k = Len(L)
    <2>1. PICK u : u = [w EXCEPT !.stack = Tail(@)]
      OBVIOUS
    <2>2. Tail(st) \in Seq(Frame(t))
      BY <1>3
    <2>3. PICK rest : rest = Tail(w.stack)
      OBVIOUS
    <2>4. u = [w EXCEPT !.stack = rest] /\ rest \in Seq(Frame(t))
      BY <1>2, <2>1, <2>2, <2>3
    <2>5. Leaves(t, w, c, u)
      <3>1. /\ u \in IndexRec(t) /\ u.inode = w.inode /\ u.ifree = w.ifree /\ u.map = w.map
            /\ u.room = w.room /\ u.err = w.err /\ u.stack = rest
        BY <2>4 DEF IndexRec
      <3> QED BY <2>3, <3>1 DEF Leaves
    <2>6. v = PutInode(u, c)
      BY <1>8, <1>9, <2>1, Zenon
    <2>7. w.inode[c].count = Len(Kids(t, P, c))
      BY <1>1, <1>6, <1>9
    <2>8. Round(t, w, P, c, v)
      BY <2>5, <2>6, <2>7, Zenon DEF Round
    <2> QED BY <1>4, <1>5, <2>8
  <1>10. CASE k # Len(L)
    <2>1. NextChild(t, w.inode, P, c, d)
      <3>1. /\ w.inode[c].count \in Nat /\ Len(Kids(t, P, c)) \in Nat
            /\ DirOK(t, w.inode, w.ifree, P, c)
        BY <1>4, DirCounts
      <3>2. w.inode[c].count <= Len(Kids(t, P, c))
        BY <3>1 DEF DirOK
      <3>3. w.inode[c].count < Len(Kids(t, P, c))
        BY <1>1, <1>6, <1>10, <3>1, <3>2
      <3> QED BY <1>4, <1>6, <1>7, <3>3 DEF NextChild
    <2>2. /\ d \in 0 .. w.ifree - 1 /\ d # c /\ w.inode[d] = Zeroed
          /\ P[d] \in DOMAIN t /\ P[d] = L[k + 1]
      BY <1>1, <1>4, <1>6, <2>1, NextChildFacts
    <2>3. c \in Cells /\ d \in Cells
      BY <1>4, <2>2, PathsFit DEF Laid
    <2>4. PICK x : x = P[d]
      OBVIOUS
    <2>5. x \in NameSet /\ t[x] \in Nat \cup {-1} /\ x # Mountpoint
      BY <2>2, <2>4, InDirectory DEF NameSet
    <2>6. v = ProcessIno(NamedState(w, c, d, x, k), t, x, d)
      BY <1>8, <1>10, <2>2, <2>4, Zenon
    <2>7. CASE t[x] \in Nat
      <3>1. P[d] \notin Dirs(t)
        BY <2>4, <2>5, <2>7 DEF Dirs
      <3>2. FileDone(t, w, c, d, x, v)
        <4>1. c # d /\ w.inode[d] = Zeroed /\ x \in NameSet
          BY <2>2, <2>5
        <4> QED BY <1>6, <2>3, <2>6, <2>7, <4>1, FileIs
      <3>3. Round(t, w, P, c, v)
        BY <2>1, <2>4, <3>1, <3>2, Zenon DEF Round
      <3> QED BY <1>4, <1>5, <3>3
    <2>8. CASE t[x] = -1
      <3>1. P[d] \in Dirs(t)
        BY <2>2, <2>4, <2>8 DEF Dirs
      <3>2. DirStep(t, w, c, d, x, v)
        BY <1>6, <2>2, <2>3, <2>5, <2>6, <2>8, DirIs
      <3>3. Round(t, w, P, c, v)
        BY <2>1, <2>4, <3>1, <3>2, Zenon DEF Round
      <3> QED BY <1>4, <1>5, <3>3
    <2> QED BY <2>5, <2>7, <2>8
  <1> QED BY <1>9, <1>10

-----------------------------------------------------------------------------
(* The map beside the tree.                                                 *)
PutEffect(mp, mp2, er2, cells, c) ==
  /\ MapOK(mp2) /\ (mp2 = NoMap <=> mp = NoMap) /\ er2 \in {"OK", "EIO"}
  /\ mp # NoMap => \/ mp2 = mp /\ er2 = "EIO"
                   \/ PutIn(mp, mp2, Names(cells), hash, c, c, Cells)

\* PutInode() as far as the map is concerned.
LEMMA PutEffects ==
  ASSUME NEW w, NEW v, NEW c, PutDone(w, c, v), w.err = "OK", MapOK(w.map),
         NEW mp, mp = v.map, NEW er, er = v.err,
         {"map", "err", "room"} \subseteq DOMAIN w
  PROVE  PutEffect(w.map, mp, er, w.inode, c)
  <1>1. CASE v = w /\ (w.map = NoMap \/ w.err # "OK")
    BY <1>1 DEF PutEffect
  <1>2. CASE v = [w EXCEPT !.err = "EIO"] /\ w.map # NoMap
    <2>1. v.map = w.map /\ v.err = "EIO"
      BY <1>2
    <2> QED BY <1>2, <2>1 DEF PutEffect
  <1>3. CASE \E r \in Nat : \E g :
               /\ v = [w EXCEPT !.room = r, !.map = g]
               /\ w.err = "OK" /\ w.map # NoMap
               /\ PutIn(w.map, g, Names(w.inode), hash, c, c, Cells)
    <2>1. PICK r \in Nat : \E g :
               /\ v = [w EXCEPT !.room = r, !.map = g]
               /\ w.err = "OK" /\ w.map # NoMap
               /\ PutIn(w.map, g, Names(w.inode), hash, c, c, Cells)
      BY <1>3
    <2>2. PICK g : /\ v = [w EXCEPT !.room = r, !.map = g]
                   /\ w.err = "OK" /\ w.map # NoMap
                   /\ PutIn(w.map, g, Names(w.inode), hash, c, c, Cells)
      BY <2>1
    <2>3. v.map = g /\ v.err = w.err
      BY <2>2
    <2>4. Table(g, Cells)
      BY <2>2 DEF PutIn
    <2>5. g # NoMap
      BY <2>4, TableNotNull
    <2> QED BY <2>2, <2>3, <2>4, <2>5 DEF PutEffect, MapOK
  <1> QED BY <1>1, <1>2, <1>3 DEF PutDone

\* PutInode() leaves cells and stack alone.
LEMMA PutIndex ==
  ASSUME hash \in Hashes, NEW t, NEW u \in IndexRec(t), u.err = "OK", MapOK(u.map), NEW c \in Cells,
         NEW v, v = PutInode(u, c)
  PROVE  /\ v \in IndexRec(t) /\ v.inode = u.inode /\ v.ifree = u.ifree /\ v.stack = u.stack
         /\ PutEffect(u.map, v.map, v.err, u.inode, c)
  <1>1. u.inode \in [Cells -> Cell] /\ u.room \in Nat /\ {"map", "err", "room"} \subseteq DOMAIN u
    BY DEF IndexRec
  <1>2. PutDone(u, c, v)
    BY <1>1, PutCases
  <1>3. PutEffect(u.map, v.map, v.err, u.inode, c)
    BY <1>1, <1>2, PutEffects
  <1>4. v.map \in Maps
    BY <1>3, MapInMaps DEF PutEffect
  <1>5. CASE v = u /\ (u.map = NoMap \/ u.err # "OK")
    BY <1>3, <1>5
  <1>6. CASE v = [u EXCEPT !.err = "EIO"] /\ u.map # NoMap
    <2>1. v \in IndexRec(t) /\ v.inode = u.inode /\ v.ifree = u.ifree /\ v.stack = u.stack
      BY <1>6 DEF IndexRec
    <2> QED BY <1>3, <2>1
  <1>7. ASSUME NEW r \in Nat, NEW g, v = [u EXCEPT !.room = r, !.map = g]
        PROVE  v \in IndexRec(t) /\ v.inode = u.inode /\ v.ifree = u.ifree /\ v.stack = u.stack
    <2>1. v.map = g
      BY <1>1, <1>7
    <2>2. g \in Maps
      BY <1>4, <2>1
    <2> QED BY <1>7, <2>2 DEF IndexRec
  <1>8. v \in IndexRec(t) /\ v.inode = u.inode /\ v.ifree = u.ifree /\ v.stack = u.stack
    BY <1>2, <1>5, <1>6, <1>7 DEF PutDone
  <1> QED BY <1>3, <1>8

-----------------------------------------------------------------------------
\* Inodes that are named have different names.
LEMMA NamesDiffer ==
  ASSUME NEW t \in Trees, NEW cells, NEW free, NEW P, Laid(t, cells, free, P),
         NEW a \in Cells, NEW b \in Cells, cells[a].ftype # "none", cells[b].ftype # "none",
         cells[a].name = cells[b].name
  PROVE  a = b
  <1>1. free \in Nat /\ Paths(t, free, P) /\ Cells \subseteq Nat
    BY CellsNat DEF Laid, Paths
  <1>2. a \in 0 .. free - 1 /\ b \in 0 .. free - 1
    <2>1. \A c \in Cells : c >= free => cells[c].ftype = "none"
      BY DEF Laid, Zeroed
    <2> QED BY <1>1, <2>1
  <1>3. /\ cells[a].name = IF a = 0 THEN <<>> ELSE P[a]
        /\ cells[b].name = IF b = 0 THEN <<>> ELSE P[b]
    BY <1>2 DEF Laid, CellOK
  <1>4. \A c \in 0 .. free - 1 : c # 0 => P[c] # <<>>
    <2> SUFFICES ASSUME NEW c \in 0 .. free - 1, c # 0 PROVE P[c] # <<>>
      OBVIOUS
    <2>1. P[c] \in DOMAIN t
      BY <1>1 DEF Paths
    <2> QED BY <2>1, InDirectory
  <1>5. CASE a = 0 \/ b = 0
    BY <1>2, <1>3, <1>4, <1>5
  <1>6. CASE a # 0 /\ b # 0
    <2>1. P[a] = P[b]
      BY <1>3, <1>6
    <2> QED BY <1>1, <1>2, <2>1 DEF Paths
  <1> QED BY <1>5, <1>6

\* A map that was empty when it began to be filled: an entry's value is the
\* inode its key is the name of.
OwnKeys(cells, mp) ==
  mp # NoMap => \A x \in Entries(mp) : x.key \in Cells /\ x.val = x.key /\ cells[x.key].ftype # "none"

\* It keeps the values of the entries their keys.
LEMMA PutOwn ==
  ASSUME NEW t \in Trees, NEW cells, NEW free, NEW P, Laid(t, cells, free, P),
         NEW mp, OwnKeys(cells, mp), NEW c \in Cells, cells[c].ftype # "none",
         NEW mp2, NEW er2, PutEffect(mp, mp2, er2, cells, c)
  PROVE  OwnKeys(cells, mp2)
  <1>1. CASE mp = NoMap \/ mp2 = mp
    BY <1>1 DEF OwnKeys, PutEffect
  <1>2. CASE mp # NoMap /\ mp2 # mp
    <2>1. PutIn(mp, mp2, Names(cells), hash, c, c, Cells)
      BY <1>2 DEF PutEffect
    <2>2. \A e \in Cells : Names(cells)[e] = cells[e].name
      BY DEF Names
    <2>3. ASSUME NEW x \in Entries(mp2)
          PROVE  x.key \in Cells /\ x.val = x.key /\ cells[x.key].ftype # "none"
      <3>1. \/ x \in Entries(mp)
            \/ x = [key |-> c, val |-> c]
            \/ \E y \in Entries(mp) : Names(cells)[y.key] = Names(cells)[c] /\ x = [key |-> y.key, val |-> c]
        BY <2>1 DEF PutIn
      <3>2. CASE x \in Entries(mp)
        BY <1>2, <3>2 DEF OwnKeys
      <3>3. CASE x = [key |-> c, val |-> c]
        BY <3>3
      <3>4. ASSUME NEW y \in Entries(mp), Names(cells)[y.key] = Names(cells)[c], x = [key |-> y.key, val |-> c]
            PROVE  x.key \in Cells /\ x.val = x.key /\ cells[x.key].ftype # "none"
        <4>1. PICK k : k = y.key
          OBVIOUS
        <4>2. k \in Cells /\ cells[k].ftype # "none"
          BY <1>2, <4>1 DEF OwnKeys
        <4>3. cells[k].name = cells[c].name
          BY <2>2, <3>4, <4>1, <4>2
        <4>4. k = c
          BY <4>2, <4>3, NamesDiffer
        <4> QED BY <3>4, <4>1, <4>2, <4>4
      <3> QED BY <3>1, <3>2, <3>3, <3>4
    <2> QED BY <2>3 DEF OwnKeys
  <1> QED BY <1>1, <1>2

\* What has been put is found, and what was found still is.
LEMMA PutFound ==
  ASSUME hash \in Hashes, NEW cells \in [Cells -> Cell], NEW c \in Cells, NEW mp, mp # NoMap,
         NEW mp2, PutEffect(mp, mp2, "OK", cells, c)
  PROVE  /\ Found(mp2, Names(cells), hash, cells[c].name)
         /\ \A s \in NameSet : Found(mp, Names(cells), hash, s) => Found(mp2, Names(cells), hash, s)
  <1>1. PutIn(mp, mp2, Names(cells), hash, c, c, Cells)
    BY DEF PutEffect
  <1>2. Names(cells)[c] = cells[c].name /\ \A s \in NameSet \cup Asked : hash[s] \in Nat
    BY NamesHash
  <1> QED BY <1>1, <1>2 DEF PutIn

\* A cell that was empty gets a name: nothing that was found is lost.
LEMMA RenameFound ==
  ASSUME hash \in Hashes, NEW cells \in [Cells -> Cell], NEW cells2 \in [Cells -> Cell],
         NEW mp, Table(mp, Cells), NEW s \in NameSet, s # <<>>,
         \A e \in Cells : cells2[e].name = cells[e].name \/ cells[e].name = <<>>,
         Found(mp, Names(cells), hash, s)
  PROVE  Found(mp, Names(cells2), hash, s)
  <1>1. hash[s] \in Nat /\ mp.n_buckets \in Nat
    BY NamesHash DEF Table
  <1>2. \A e \in Cells : Names(cells)[e] = cells[e].name /\ Names(cells2)[e] = cells2[e].name
    BY DEF Names
  <1>3. ASSUME NEW e \in Entries(mp), Names(cells)[e.key] = s PROVE Names(cells2)[e.key] = s
    <2>1. e.key \in Cells
      <3>1. PICK i \in Used(mp) : mp.bucket[i] = e
        BY DEF Entries
      <3>2. e \in Bucket(Cells) /\ e # NoEntry
        BY <3>1 DEF Used, Table
      <3> QED BY <3>2 DEF Bucket, Entry
    <2> QED BY <1>2, <1>3, <2>1
  <1> QED BY <1>1, <1>3, FoundRenamed

-----------------------------------------------------------------------------
Done(cells, stack, c) ==
  cells[c].ftype = "reg" \/ (cells[c].ftype = "dir" /\ ~OnStack(stack, c))
InMap(cells, free, P, stack, mp, er) ==
  mp # NoMap /\ er = "OK" =>
    \A c \in 0 .. free - 1 : c # 0 /\ Done(cells, stack, c) => Found(mp, Names(cells), hash, P[c])

IndexInv(t, m, w, P) ==
  /\ w \in IndexRec(t)
  /\ Laid(t, w.inode, w.ifree, P)
  /\ Open(t, w.inode, w.ifree, P, w.stack)
  /\ MapOK(w.map) /\ (w.map = NoMap <=> m = NoMap)
  /\ InMap(w.inode, w.ifree, P, w.stack, w.map, w.err)
  /\ (m # NoMap => Entries(m) = {}) => OwnKeys(w.inode, w.map)

\* Rounds are counted by the inodes processed and the directories finished.
Proc(t, w) == {c \in 0 .. Cardinality(DOMAIN t) : w.inode[c].ftype # "none"}
Fin(t, w) == {c \in 0 .. Cardinality(DOMAIN t) : w.inode[c].ftype = "dir" /\ ~OnStack(w.stack, c)}
Grows(t, w, v) ==
  /\ Proc(t, w) \subseteq Proc(t, v) /\ Fin(t, w) \subseteq Fin(t, v)
  /\ Proc(t, w) # Proc(t, v) \/ Fin(t, w) # Fin(t, v)

\* A cell that is processed has the name of its path, and only such a cell
\* has a name.
LEMMA NameOf ==
  ASSUME NEW t \in Trees, NEW cells, NEW free, NEW P, Laid(t, cells, free, P),
         NEW c \in 0 .. free - 1, c # 0
  PROVE  /\ P[c] \in NameSet /\ P[c] # <<>> /\ P[c] \in DOMAIN t
         /\ cells[c].ftype # "none" => cells[c].name = P[c]
         /\ cells[c].name # <<>> => cells[c].name = P[c] /\ cells[c].ftype # "none"
  <1>1. P[c] \in DOMAIN t
    BY DEF Laid, Paths
  <1>2. P[c] # <<>> /\ P[c] \in NameSet
    BY <1>1, InDirectory DEF NameSet
  <1>3. CellOK(t, cells, P, c)
    BY DEF Laid
  <1>4. cells[c].ftype # "none" => cells[c].name = P[c]
    BY <1>3 DEF CellOK
  <1>5. cells[c].ftype = "none" => cells[c].name = <<>>
    BY <1>3 DEF CellOK, Zeroed
  <1> QED BY <1>1, <1>2, <1>4, <1>5

\* A round behind the last child: the directory itself is put into the map.
LEMMA RoundLeaves ==
  ASSUME hash \in Hashes, NEW t \in Trees, NEW m, NEW w, NEW P, IndexInv(t, m, w, P),
         w.err = "OK", w.stack # <<>>, NEW c, c = Head(w.stack).dir,
         c \in 0 .. w.ifree - 1, w.inode[c].ftype = "dir",
         w.inode[c].count = Len(Kids(t, P, c)),
         NEW u, Leaves(t, w, c, u), NEW v, v = PutInode(u, c)
  PROVE  IndexInv(t, m, v, P) /\ Grows(t, w, v)
  <1>1. PICK cells, free, st, rest :
          cells = w.inode /\ free = w.ifree /\ st = w.stack /\ rest = Tail(w.stack)
    OBVIOUS
  <1>2. /\ u \in IndexRec(t) /\ u.inode = cells /\ u.ifree = free /\ u.map = w.map
        /\ u.err = "OK" /\ u.stack = rest
    BY <1>1 DEF Leaves
  <1>3. Laid(t, cells, free, P) /\ Open(t, cells, free, P, st) /\ MapOK(w.map)
    BY <1>1 DEF IndexInv
  <1>4. c \in Cells /\ 0 .. free - 1 \subseteq 0 .. Cardinality(DOMAIN t)
    BY <1>1, <1>3, PathsFit DEF Laid
  <1>5. /\ v \in IndexRec(t) /\ v.inode = cells /\ v.ifree = free /\ v.stack = rest
        /\ PutEffect(w.map, v.map, v.err, cells, c)
    BY <1>2, <1>3, <1>4, PutIndex
  <1>6. /\ Open(t, cells, free, P, rest) /\ ~OnStack(rest, c) /\ OnStack(st, c)
        /\ \A e : OnStack(rest, e) => OnStack(st, e)
        /\ \A e : OnStack(st, e) /\ e # c => OnStack(rest, e)
    <2>1. Left(t, cells, free, P, st, c, rest)
      BY <1>1, <1>3, FrameLeft
    <2> QED BY <2>1 DEF Left
  <1>7. InMap(cells, free, P, rest, v.map, v.err)
    <2> SUFFICES ASSUME v.map # NoMap, v.err = "OK",
                        NEW e \in 0 .. free - 1, e # 0, Done(cells, rest, e)
                 PROVE  Found(v.map, Names(cells), hash, P[e])
      BY DEF InMap
    <2>1. w.map # NoMap /\ PutEffect(w.map, v.map, "OK", cells, c) /\ cells \in [Cells -> Cell]
      BY <1>3, <1>5 DEF PutEffect, Laid
    <2>2. /\ Found(v.map, Names(cells), hash, cells[c].name)
          /\ \A s \in NameSet : Found(w.map, Names(cells), hash, s) => Found(v.map, Names(cells), hash, s)
      BY <1>4, <2>1, PutFound
    <2>3. P[e] \in NameSet /\ (cells[e].ftype # "none" => cells[e].name = P[e])
      BY <1>3, NameOf
    <2>4. CASE e = c
      BY <1>1, <2>2, <2>3, <2>4
    <2>5. CASE e # c
      <3>1. Done(cells, st, e)
        BY <1>6, <2>5 DEF Done
      <3>2. InMap(cells, free, P, st, w.map, "OK")
        BY <1>1 DEF IndexInv
      <3>3. Found(w.map, Names(cells), hash, P[e])
        BY <2>1, <3>1, <3>2 DEF InMap
      <3> QED BY <2>2, <2>3, <3>3
    <2> QED BY <2>4, <2>5
  <1>8. ASSUME m # NoMap => Entries(m) = {} PROVE OwnKeys(cells, v.map)
    <2>1. OwnKeys(cells, w.map)
      BY <1>1, <1>8 DEF IndexInv
    <2>2. cells[c].ftype # "none"
      BY <1>1
    <2> QED BY <1>3, <1>4, <1>5, <2>1, <2>2, PutOwn
  <1>9. IndexInv(t, m, v, P)
    <2>1. MapOK(v.map) /\ (v.map = NoMap <=> m = NoMap)
      BY <1>5 DEF PutEffect, IndexInv
    <2> QED BY <1>3, <1>5, <1>6, <1>7, <1>8, <2>1 DEF IndexInv
  <1>10. Grows(t, w, v)
    <2>1. Proc(t, w) \subseteq Proc(t, v)
      BY <1>1, <1>5 DEF Proc
    <2>2. Fin(t, w) \subseteq Fin(t, v)
      BY <1>1, <1>5, <1>6 DEF Fin
    <2>3. c \in Fin(t, v) /\ c \notin Fin(t, w)
      BY <1>1, <1>4, <1>5, <1>6 DEF Fin
    <2> QED BY <2>1, <2>2, <2>3 DEF Grows
  <1> QED BY <1>9, <1>10

-----------------------------------------------------------------------------

\* A child processed in the sense of the code is one in the sense of the
\* layout.
LEMMA TakesTaken ==
  ASSUME NEW t \in Trees, NEW cells, NEW free, NEW P, Laid(t, cells, free, P),
         NEW c \in 0 .. free - 1, NEW d, NextChild(t, cells, P, c, d), NEW type, NEW i, NEW n, NEW cells2,
         CellsTake(cells, c, d, P[d], type, i, n, cells2),
         type = IF P[d] \in Dirs(t) THEN "dir" ELSE "reg",
         NEW free2, NEW P2, free2 \in Nat, free <= free2, \A e \in 0 .. free - 1 : P2[e] = P[e]
  PROVE  Taken(t, cells, free, P, c, d, cells2, free2, P2)
  <1>1. cells[c].ftype = "dir"
    BY DEF NextChild
  <1>2. cells2[d].name = P[d] /\ cells2[d].ftype = type
    BY DEF CellsTake
  <1> QED BY <1>1, <1>2 DEF CellsTake, Taken

\* Names, types and the stack over such a step.
LEMMA TakenNames ==
  ASSUME NEW t \in Trees, NEW cells, NEW free, NEW P, Laid(t, cells, free, P),
         NEW c \in 0 .. free - 1, NEW d, NEW cells2, NEW free2, NEW P2,
         Taken(t, cells, free, P, c, d, cells2, free2, P2)
  PROVE  /\ \A e \in Cells : cells2[e].name = cells[e].name \/ cells[e].name = <<>>
         /\ \A e \in Cells : e # d => cells2[e].ftype = cells[e].ftype
         /\ d \in Cells /\ d \in 0 .. free - 1 /\ d # 0 /\ cells[d].ftype = "none" /\ cells2[d].ftype # "none"
         /\ cells2[d].name = P[d]
  <1>1. NextChild(t, cells, P, c, d)
    BY DEF Taken
  <1>2. /\ d \in 0 .. free - 1 /\ d # 0 /\ d # c /\ cells[d] = Zeroed /\ cells[d].ftype = "none"
    BY <1>1, NextChildFacts
  <1>3. cells[d].name = <<>> /\ cells[c].ftype = "dir"
    BY <1>1, <1>2 DEF Zeroed, NextChild
  <1>4. c \in Cells /\ d \in Cells
    BY <1>2, PathsFit DEF Laid
  <1>5. \A e \in Cells : e # d => cells2[e].ftype = cells[e].ftype /\ cells2[e].name = cells[e].name
    BY <1>3 DEF Taken
  <1> QED BY <1>2, <1>3, <1>4, <1>5 DEF Taken

-----------------------------------------------------------------------------
\* What was found before the step is found in its cells.
LEMMA TakenFound ==
  ASSUME hash \in Hashes, NEW t \in Trees, NEW cells, NEW free, NEW P, Laid(t, cells, free, P),
         NEW c \in 0 .. free - 1, NEW d, NEW cells2, NEW free2, NEW P2,
         Taken(t, cells, free, P, c, d, cells2, free2, P2),
         NEW st, NEW mp, MapOK(mp), mp # NoMap, InMap(cells, free, P, st, mp, "OK"),
         NEW e \in 0 .. free - 1, e # 0, e # d, Done(cells2, st, e)
  PROVE  Found(mp, Names(cells2), hash, P[e])
  <1>1. /\ \A a \in Cells : cells2[a].name = cells[a].name \/ cells[a].name = <<>>
        /\ \A a \in Cells : a # d => cells2[a].ftype = cells[a].ftype
    BY TakenNames
  <1>2. e \in Cells
    BY PathsFit DEF Laid
  <1>3. Done(cells, st, e)
    BY <1>1, <1>2 DEF Done
  <1>4. Found(mp, Names(cells), hash, P[e])
    BY <1>3 DEF InMap
  <1>5. P[e] \in NameSet /\ P[e] # <<>>
    BY NameOf
  <1>6. Table(mp, Cells) /\ cells \in [Cells -> Cell] /\ cells2 \in [Cells -> Cell]
    BY DEF MapOK, Laid, Taken
  <1> QED BY <1>1, <1>4, <1>5, <1>6, RenameFound

\* Entries keep being named by their values.
LEMMA TakenOwn ==
  ASSUME NEW t \in Trees, NEW cells, NEW free, NEW P, Laid(t, cells, free, P),
         NEW c \in 0 .. free - 1, NEW d, NEW cells2, NEW free2, NEW P2,
         Taken(t, cells, free, P, c, d, cells2, free2, P2),
         NEW mp, OwnKeys(cells, mp)
  PROVE  OwnKeys(cells2, mp)
  <1>1. \A a \in Cells : cells[a].ftype # "none" => cells2[a].ftype # "none"
    <2>1. /\ \A a \in Cells : a # d => cells2[a].ftype = cells[a].ftype
          /\ cells2[d].ftype # "none"
      BY TakenNames
    <2> QED BY <2>1
  <1> QED BY <1>1 DEF OwnKeys

\* A round with a file.
LEMMA RoundFile ==
  ASSUME hash \in Hashes, NEW t \in Trees, NEW m, NEW w, NEW P, IndexInv(t, m, w, P),
         w.err = "OK", NEW c \in 0 .. w.ifree - 1, OnStack(w.stack, c),
         NEW d, NextChild(t, w.inode, P, c, d), P[d] \notin Dirs(t),
         NEW v, FileDone(t, w, c, d, P[d], v)
  PROVE  IndexInv(t, m, v, P) /\ Grows(t, w, v)
  <1>1. PICK cells, free, st : cells = w.inode /\ free = w.ifree /\ st = w.stack
    OBVIOUS
  <1>2. PICK u : \E i, n \in Nat : FileStep(t, w, c, d, P[d], u, i, n) /\ v = PutInode(u, d)
    BY DEF FileDone
  <1>3. PICK i \in Nat, n \in Nat : FileStep(t, w, c, d, P[d], u, i, n) /\ v = PutInode(u, d)
    BY <1>2
  <1>4. PICK cells2 : cells2 = u.inode
    OBVIOUS
  <1>5. /\ CellsTake(cells, c, d, P[d], "reg", i, n, cells2)
        /\ u \in IndexRec(t) /\ u.ifree = free /\ u.map = w.map /\ u.err = "OK" /\ u.stack = st
    BY <1>1, <1>3, <1>4 DEF FileStep
  <1>6. Laid(t, cells, free, P) /\ Open(t, cells, free, P, st) /\ MapOK(w.map)
    BY <1>1 DEF IndexInv
  <1>7. Taken(t, cells, free, P, c, d, cells2, free, P)
    <2>1. free \in Nat /\ free <= free
      BY <1>6 DEF Laid, Paths
    <2> QED BY <1>1, <1>5, <1>6, <2>1, TakesTaken
  <1>8. Laid(t, cells2, free, P)
    BY <1>1, <1>6, <1>7, FileTaken
  <1>9. Open(t, cells2, free, P, st) /\ ~OnStack(st, d)
    BY <1>1, <1>6, <1>7, FileOpen
  <1>10. /\ \A a \in Cells : a # d => cells2[a].ftype = cells[a].ftype
         /\ d \in Cells /\ d \in 0 .. free - 1 /\ d # 0 /\ cells[d].ftype = "none" /\ cells2[d].ftype # "none"
         /\ cells2[d].name = P[d]
    BY <1>1, <1>6, <1>7, TakenNames
  <1>11. /\ v \in IndexRec(t) /\ v.inode = cells2 /\ v.ifree = free /\ v.stack = st
         /\ PutEffect(w.map, v.map, v.err, cells2, d)
    BY <1>3, <1>4, <1>5, <1>6, <1>10, PutIndex
  <1>12. InMap(cells2, free, P, st, v.map, v.err)
    <2> SUFFICES ASSUME v.map # NoMap, v.err = "OK",
                        NEW e \in 0 .. free - 1, e # 0, Done(cells2, st, e)
                 PROVE  Found(v.map, Names(cells2), hash, P[e])
      BY DEF InMap
    <2>1. w.map # NoMap /\ PutEffect(w.map, v.map, "OK", cells2, d) /\ cells2 \in [Cells -> Cell]
      BY <1>8, <1>11 DEF PutEffect, Laid
    <2>2. /\ Found(v.map, Names(cells2), hash, cells2[d].name)
          /\ \A s \in NameSet : Found(w.map, Names(cells2), hash, s) => Found(v.map, Names(cells2), hash, s)
      BY <1>10, <2>1, PutFound
    <2>3. CASE e = d
      BY <1>10, <2>2, <2>3
    <2>4. CASE e # d
      <3>1. InMap(cells, free, P, st, w.map, "OK")
        BY <1>1 DEF IndexInv
      <3>2. Found(w.map, Names(cells2), hash, P[e])
        BY <1>1, <1>6, <1>7, <2>1, <2>4, <3>1, TakenFound
      <3>3. P[e] \in NameSet
        BY <1>6, NameOf
      <3> QED BY <2>2, <3>2, <3>3
    <2> QED BY <2>3, <2>4
  <1>13. ASSUME m # NoMap => Entries(m) = {} PROVE OwnKeys(cells2, v.map)
    <2>1. OwnKeys(cells, w.map)
      BY <1>1, <1>13 DEF IndexInv
    <2>2. OwnKeys(cells2, w.map)
      BY <1>1, <1>6, <1>7, <2>1, TakenOwn
    <2> QED BY <1>8, <1>10, <1>11, <2>2, PutOwn
  <1>14. IndexInv(t, m, v, P)
    <2>1. MapOK(v.map) /\ (v.map = NoMap <=> m = NoMap)
      BY <1>11 DEF PutEffect, IndexInv
    <2> QED BY <1>8, <1>9, <1>11, <1>12, <1>13, <2>1 DEF IndexInv
  <1>15. Grows(t, w, v)
    <2>0. 0 .. Cardinality(DOMAIN t) \subseteq Cells /\ 0 .. free - 1 \subseteq 0 .. Cardinality(DOMAIN t)
      BY <1>6, PathsFit, LookupAssumption DEF Laid
    <2>1. Proc(t, w) \subseteq Proc(t, v)
      BY <1>1, <1>10, <1>11, <2>0 DEF Proc
    <2>2. Fin(t, w) \subseteq Fin(t, v)
      BY <1>1, <1>10, <1>11, <2>0 DEF Fin
    <2>3. d \in Proc(t, v) /\ d \notin Proc(t, w)
      BY <1>1, <1>10, <1>11, <2>0 DEF Proc
    <2> QED BY <2>1, <2>2, <2>3 DEF Grows
  <1> QED BY <1>14, <1>15

\* A round with a directory.
LEMMA RoundDir ==
  ASSUME hash \in Hashes, NEW t \in Trees, NEW m, NEW w, NEW P, IndexInv(t, m, w, P),
         w.err = "OK", NEW c \in 0 .. w.ifree - 1, OnStack(w.stack, c),
         NEW d, NextChild(t, w.inode, P, c, d), P[d] \in Dirs(t),
         NEW v, DirStep(t, w, c, d, P[d], v)
  PROVE  (\E P2 : IndexInv(t, m, v, P2)) /\ Grows(t, w, v)
  <1>1. PICK cells, free, st : cells = w.inode /\ free = w.ifree /\ st = w.stack
    OBVIOUS
  <1>2. PICK L : L = Kids(t, P, d)
    OBVIOUS
  <1>3. PICK free2, cells2, more, P2 :
          free2 = free + Len(L) /\ cells2 = v.inode /\ more = v.stack /\ P2 = Extended(P, free, L)
    OBVIOUS
  <1>4. /\ CellsTake(cells, c, d, P[d], "dir", free, 0, cells2)
        /\ v \in IndexRec(t) /\ v.ifree = free2 /\ v.map = w.map /\ v.err = "OK"
        /\ more = <<[dir |-> d, list |-> L]>> \o st
    <2>1. L = SortedChildren(t, P[d])
      BY <1>2 DEF Kids
    <2> QED BY <1>1, <1>3, <2>1 DEF DirStep
  <1>5. Laid(t, cells, free, P) /\ Open(t, cells, free, P, st) /\ MapOK(w.map)
        /\ NextChild(t, cells, P, c, d) /\ c \in 0 .. free - 1 /\ OnStack(st, c)
    BY <1>1 DEF IndexInv
  <1>6. (free2 \in Nat /\ free <= free2 /\ \A e \in 0 .. free - 1 : P2[e] = P[e])
            => Taken(t, cells, free, P, c, d, cells2, free2, P2)
    BY <1>4, <1>5, TakesTaken
  <1>7. Entered(cells2, d, free)
    BY <1>4 DEF CellsTake, Entered
  <1>8. Laid(t, cells2, free2, P2)
    BY <1>2, <1>3, <1>5, <1>6, <1>7, DirTaken
  <1>9. d \in 0 .. free - 1
    BY <1>5, NextChildFacts
  <1>10. free2 \in Nat /\ free \in Nat /\ free <= free2 /\ \A e \in 0 .. free - 1 : P2[e] = P[e]
    <2>1. Listed(L, t, P[d])
      BY <1>2, KidsFacts, Zenon
    <2>2. Len(L) \in Nat
      BY <2>1 DEF Listed
    <2>3. free \in Nat
      BY <1>5 DEF Laid, Paths
    <2>4. \A e \in 0 .. free - 1 : e \in 0 .. free + (Len(L) - 1) /\ e < free
      BY <2>2, <2>3
    <2>5. P2 = [e \in 0 .. free + (Len(L) - 1) |-> IF e < free THEN P[e] ELSE L[(e - free) + 1]]
      BY <1>3 DEF Extended
    <2>6. \A e \in 0 .. free - 1 : P2[e] = P[e]
      BY <2>4, <2>5
    <2> QED BY <1>3, <2>2, <2>3, <2>6
  <1>11. Taken(t, cells, free, P, c, d, cells2, free2, P2)
    BY <1>6, <1>10
  <1>12. Open(t, cells2, free2, P2, more) /\ \A e : OnStack(more, e) <=> OnStack(st, e) \/ e = d
    <2>1. L = Kids(t, P2, d)
      BY <1>2, <1>9, <1>10 DEF Kids
    <2>2. more = Pushes(d, Kids(t, P2, d), st)
      BY <1>4, <2>1 DEF Pushes
    <2> QED BY <1>5, <1>8, <1>11, <2>2, DirOpen
  <1>13. /\ \A a \in Cells : a # d => cells2[a].ftype = cells[a].ftype
         /\ d \in Cells /\ d # 0 /\ cells[d].ftype = "none" /\ cells2[d].ftype # "none"
    BY <1>5, <1>11, TakenNames
  <1>14. InMap(cells2, free2, P2, more, w.map, "OK")
    <2> SUFFICES ASSUME w.map # NoMap,
                        NEW e \in 0 .. free2 - 1, e # 0, Done(cells2, more, e)
                 PROVE  Found(w.map, Names(cells2), hash, P2[e])
      BY DEF InMap
    <2>1. e \in Cells /\ Cells \subseteq Nat
      BY <1>8, PathsFit, CellsNat DEF Laid
    <2>2. e # d
      BY <1>7, <1>12 DEF Done, Entered
    <2>3. cells[e].ftype # "none"
      BY <1>13, <2>1, <2>2 DEF Done
    <2>4. ~(e >= free)
      BY <1>5, <2>1, <2>3 DEF Laid, Zeroed
    <2>5. e \in 0 .. free - 1
      BY <1>10, <2>4
    <2>6. Done(cells2, st, e)
      BY <1>12 DEF Done
    <2>7. InMap(cells, free, P, st, w.map, "OK")
      BY <1>1 DEF IndexInv
    <2>8. Found(w.map, Names(cells2), hash, P[e])
      BY <1>5, <1>11, <2>2, <2>5, <2>6, <2>7, TakenFound
    <2> QED BY <1>10, <2>5, <2>8
  <1>15. ASSUME m # NoMap => Entries(m) = {} PROVE OwnKeys(cells2, w.map)
    <2>1. OwnKeys(cells, w.map)
      BY <1>1, <1>15 DEF IndexInv
    <2> QED BY <1>5, <1>11, <2>1, TakenOwn
  <1>16. IndexInv(t, m, v, P2)
    <2>1. MapOK(v.map) /\ (v.map = NoMap <=> m = NoMap)
      BY <1>4 DEF IndexInv
    <2>2. v.inode = cells2 /\ v.ifree = free2 /\ v.stack = more /\ v.map = w.map /\ v.err = "OK"
      BY <1>3, <1>4
    <2> QED BY <1>4, <1>8, <1>12, <1>14, <1>15, <2>1, <2>2 DEF IndexInv
  <1>17. Grows(t, w, v)
    <2>0. 0 .. Cardinality(DOMAIN t) \subseteq Cells /\ 0 .. free - 1 \subseteq 0 .. Cardinality(DOMAIN t)
      BY <1>5, PathsFit, LookupAssumption DEF Laid
    <2>1. Proc(t, w) \subseteq Proc(t, v)
      BY <1>1, <1>3, <1>13, <2>0 DEF Proc
    <2>2. Fin(t, w) \subseteq Fin(t, v)
      BY <1>1, <1>3, <1>12, <1>13, <2>0 DEF Fin
    <2>3. d \in Proc(t, v) /\ d \notin Proc(t, w)
      BY <1>1, <1>3, <1>9, <1>13, <2>0 DEF Proc
    <2> QED BY <2>1, <2>2, <2>3 DEF Grows
  <1> QED BY <1>16, <1>17

-----------------------------------------------------------------------------
(* xal_be_fiemap_index()                                                    *)
IndexStates(t, m) == {w \in IndexRec(t) : \E P : IndexInv(t, m, w, P)}

\* Each round keeps the invariant and makes progress.
LEMMA RoundKeeps ==
  ASSUME hash \in Hashes, NEW t \in Trees, NEW m, NEW w \in IndexStates(t, m), ~Ended(w)
  PROVE  ProcessEntry(w, t) \in IndexStates(t, m) /\ Grows(t, w, ProcessEntry(w, t))
  <1>1. PICK P : IndexInv(t, m, w, P)
    BY DEF IndexStates
  <1>2. PICK v : v = ProcessEntry(w, t)
    OBVIOUS
  <1>3. PICK c : c = Head(w.stack).dir
    OBVIOUS
  <1>4. w.stack # <<>> /\ w.err = "OK"
    BY DEF Ended
  <1>5. w \in IndexRec(t) /\ Laid(t, w.inode, w.ifree, P) /\ Open(t, w.inode, w.ifree, P, w.stack)
    BY <1>1 DEF IndexInv
  <1>6. Round(t, w, P, c, v) /\ c \in 0 .. w.ifree - 1 /\ w.inode[c].ftype = "dir" /\ OnStack(w.stack, c)
    BY <1>2, <1>3, <1>4, <1>5, RoundIs
  <1>7. (\E P2 : IndexInv(t, m, v, P2)) /\ Grows(t, w, v)
    <2>1. CASE /\ w.inode[c].count = Len(Kids(t, P, c))
               /\ \E u : Leaves(t, w, c, u) /\ v = PutInode(u, c)
      <3>1. PICK u : Leaves(t, w, c, u) /\ v = PutInode(u, c)
        BY <2>1
      <3>2. IndexInv(t, m, v, P) /\ Grows(t, w, v)
        BY <1>1, <1>3, <1>4, <1>6, <2>1, <3>1, RoundLeaves
      <3> QED BY <3>2
    <2>2. ASSUME NEW d, NextChild(t, w.inode, P, c, d), P[d] \notin Dirs(t), FileDone(t, w, c, d, P[d], v)
          PROVE  (\E P2 : IndexInv(t, m, v, P2)) /\ Grows(t, w, v)
      <3>1. IndexInv(t, m, v, P) /\ Grows(t, w, v)
        BY <1>1, <1>4, <1>6, <2>2, RoundFile
      <3> QED BY <3>1
    <2>3. ASSUME NEW d, NextChild(t, w.inode, P, c, d), P[d] \in Dirs(t), DirStep(t, w, c, d, P[d], v)
          PROVE  (\E P2 : IndexInv(t, m, v, P2)) /\ Grows(t, w, v)
      BY <1>1, <1>4, <1>6, <2>3, RoundDir
    <2> QED BY <1>6, <2>1, <2>2, <2>3 DEF Round
  <1>8. v \in IndexRec(t)
    BY <1>7 DEF IndexInv
  <1>9. v \in IndexStates(t, m)
    BY <1>7, <1>8 DEF IndexStates
  <1> QED BY <1>2, <1>7, <1>9

Measure(t, w) == Cardinality(Proc(t, w)) + Cardinality(Fin(t, w))

\* Progress is bounded by twice the number of entries.
LEMMA MeasureFacts ==
  ASSUME NEW t \in Trees, NEW w
  PROVE  /\ IsFiniteSet(Proc(t, w)) /\ IsFiniteSet(Fin(t, w))
         /\ Cardinality(Proc(t, w)) \in Nat /\ Cardinality(Fin(t, w)) \in Nat
         /\ Cardinality(DOMAIN t) \in Nat
         /\ Cardinality(Proc(t, w)) <= Cardinality(DOMAIN t) + 1
         /\ Cardinality(Fin(t, w)) <= Cardinality(DOMAIN t) + 1
         /\ Fin(t, w) # 0 .. Cardinality(DOMAIN t) => Cardinality(Fin(t, w)) < Cardinality(DOMAIN t) + 1
  <1> DEFINE N == Cardinality(DOMAIN t)
  <1>1. N \in Nat
    BY LookupAssumption, FS_CardinalityType
  <1> HIDE DEF N
  <1>2. IsFiniteSet(0 .. N) /\ Cardinality(0 .. N) = N + 1
    <2>1. 0 \in Int /\ N \in Int
      BY <1>1
    <2>2. IsFiniteSet(0 .. N) /\ Cardinality(0 .. N) = IF 0 > N THEN 0 ELSE N - 0 + 1
      BY <2>1, FS_Interval
    <2> QED BY <1>1, <2>2
  <1>3. Proc(t, w) \subseteq 0 .. N /\ Fin(t, w) \subseteq 0 .. N
    BY DEF Proc, Fin, N
  <1>4. IsFiniteSet(Proc(t, w)) /\ IsFiniteSet(Fin(t, w))
    BY <1>2, <1>3, FS_Subset
  <1>5. Cardinality(Proc(t, w)) <= N + 1 /\ Cardinality(Fin(t, w)) <= N + 1
    <2>1. Cardinality(Proc(t, w)) <= Cardinality(0 .. N)
      BY <1>2, <1>3, FS_Subset
    <2>2. Cardinality(Fin(t, w)) <= Cardinality(0 .. N)
      BY <1>2, <1>3, FS_Subset
    <2> QED BY <1>2, <2>1, <2>2
  <1>6. Cardinality(Proc(t, w)) \in Nat /\ Cardinality(Fin(t, w)) \in Nat
    BY <1>4, FS_CardinalityType
  <1>7. Fin(t, w) # 0 .. N => Cardinality(Fin(t, w)) < N + 1
    <2>1. Fin(t, w) # 0 .. N => Cardinality(Fin(t, w)) # Cardinality(0 .. N)
      BY <1>2, <1>3, FS_Subset
    <2> QED BY <1>1, <1>2, <1>5, <1>6, <2>1
  <1> QED BY <1>1, <1>4, <1>5, <1>6, <1>7 DEF N

\* Progress is counted.
LEMMA MeasureGrows ==
  ASSUME NEW t \in Trees, NEW w, NEW v, Grows(t, w, v)
  PROVE  Measure(t, v) \in Nat /\ Measure(t, w) \in Nat /\ Measure(t, v) >= Measure(t, w) + 1
  <1> DEFINE a == Proc(t, w) b == Fin(t, w) c == Proc(t, v) d == Fin(t, v)
  <1>1. /\ IsFiniteSet(a) /\ IsFiniteSet(b) /\ IsFiniteSet(c) /\ IsFiniteSet(d)
        /\ Cardinality(a) \in Nat /\ Cardinality(b) \in Nat /\ Cardinality(c) \in Nat /\ Cardinality(d) \in Nat
    BY MeasureFacts
  <1>2. a \subseteq c /\ b \subseteq d /\ (a # c \/ b # d)
    BY DEF Grows
  <1>3. Measure(t, w) = Cardinality(a) + Cardinality(b) /\ Measure(t, v) = Cardinality(c) + Cardinality(d)
    BY DEF Measure
  <1> HIDE DEF a, b, c, d
  <1>4. Cardinality(a) <= Cardinality(c) /\ (a # c => Cardinality(a) # Cardinality(c))
    BY <1>1, <1>2, FS_Subset
  <1>5. Cardinality(b) <= Cardinality(d) /\ (b # d => Cardinality(b) # Cardinality(d))
    BY <1>1, <1>2, FS_Subset
  <1> QED BY <1>1, <1>2, <1>3, <1>4, <1>5

-----------------------------------------------------------------------------
Cleared(m, room) == IndexState([c \in Cells |-> Zeroed], 1, 0, m, room, "OK", <<>>)

\* The invariant holds when the loop begins.
LEMMA IndexBegins ==
  ASSUME hash \in Hashes, NEW t \in Trees, NEW m, MapOK(m), NEW room \in Nat,
         NEW w, w = EnterDir(Cleared(m, room), t, Mountpoint, Root)
  PROVE  w \in IndexStates(t, m) /\ Measure(t, w) >= 1
  <1>1. PICK L : L = SortedChildren(t, Mountpoint)
    OBVIOUS
  <1>2. PICK z : z = [c \in Cells |-> Zeroed]
    OBVIOUS
  <1>3. PICK cells : cells = EnteredCells(z, 0, 1)
    OBVIOUS
  <1>4. PICK free, P, st : free = 1 + Len(L) /\ P = Extended(RootPath, 1, L) /\ st = Pushes(0, L, <<>>)
    OBVIOUS
  <1>5. 0 \in Cells /\ Cells \subseteq Nat
    BY CellsNat
  <1>6. z \in [Cells -> Cell]
    <2>1. Zeroed \in Cell
      BY DEF Zeroed, Cell, NameSet
    <2> QED BY <1>2, <2>1
  <1>7. w = IndexState(cells, free, 0, m, room, "OK", st)
    <2>1. Cleared(m, room) = IndexState(z, 1, 0, m, room, "OK", <<>>)
      BY <1>2 DEF Cleared
    <2>2. 1 \in Nat
      OBVIOUS
    <2>3. EnterDir(Cleared(m, room), t, Mountpoint, 0) =
            IndexState(EnteredCells(z, 0, 1), 1 + Len(L), 0, m, room, "OK", Pushes(0, L, <<>>))
      BY <1>1, <1>5, <1>6, <2>1, <2>2, EnterIs
    <2> QED BY <1>3, <1>4, <2>3 DEF Root
  <1>8. cells = [c \in Cells |-> IF c = 0 THEN [name |-> <<>>, ftype |-> "dir", idx |-> 1, count |-> 0]
                                  ELSE Zeroed]
    <2>1. z[0].name = <<>>
      BY <1>2, <1>5 DEF Zeroed
    <2> QED BY <1>2, <1>3, <1>5, <2>1 DEF EnteredCells
  <1>9. Laid(t, cells, free, P) /\ L = Kids(t, P, 0) /\ Len(L) \in Nat
    BY <1>1, <1>4, <1>8, RootTaken
  <1>10. cells[0].ftype = "dir" /\ \A c \in Cells : c # 0 => cells[c].ftype = "none"
    BY <1>5, <1>8 DEF Zeroed
  <1>11. free \in Nat /\ 0 \in 0 .. free - 1 /\ 0 .. free - 1 \subseteq Cells
    <2>1. Paths(t, free, P)
      BY <1>9 DEF Laid
    <2>2. free \in Nat /\ free > 0
      BY <2>1 DEF Paths
    <2>3. 0 .. free - 1 \subseteq Cells
      BY <2>1, PathsFit
    <2> QED BY <2>2, <2>3
  <1>12. Open(t, cells, free, P, st) /\ OnStack(st, 0)
    <2>1. PICK f : f = [dir |-> 0, list |-> L]
      OBVIOUS
    <2>2. L \in Seq(DOMAIN t)
      BY <1>1, SortedFacts
    <2>3. f \in Frame(t) /\ f.dir = 0 /\ f.list = L
      BY <1>5, <2>1, <2>2 DEF Frame
    <2>4. <<>> \in Seq(Frame(t)) /\ Len(<<>>) = 0
      BY EmptySeq
    <2>5. PICK e : e = <<>>
      OBVIOUS
    <2>6. st = <<f>> \o e /\ e \in Seq(Frame(t)) /\ Len(e) = 0
      BY <1>4, <2>1, <2>4, <2>5 DEF Pushes
    <2>7. Pushed(Frame(t), e, f, st)
      BY <2>3, <2>6, FrameAdded
    <2>8. /\ st \in Seq(Frame(t)) /\ Len(st) = 1 /\ st[1] = f
          /\ OnStack(st, 0)
      BY <2>3, <2>6, <2>7 DEF Pushed
    <2>9. \A i \in 1 .. 1 : i = 1
      OBVIOUS
    <2>10. \A i \in 1 .. Len(st) : /\ st[i].dir \in 0 .. free - 1
                                   /\ cells[st[i].dir].ftype = "dir"
                                   /\ st[i].list = Kids(t, P, st[i].dir)
      BY <1>9, <1>10, <1>11, <2>3, <2>8, <2>9
    <2>11. \A i, j \in 1 .. Len(st) : st[i].dir = st[j].dir => i = j
      BY <2>8, <2>9
    <2>12. \A c \in 0 .. free - 1 : cells[c].ftype = "dir" => c = 0
      BY <1>10, <1>11
    <2> QED BY <2>8, <2>10, <2>11, <2>12 DEF Open
  <1>13. InMap(cells, free, P, st, m, "OK")
    BY <1>10, <1>11 DEF InMap, Done
  <1>14. (m # NoMap => Entries(m) = {}) => OwnKeys(cells, m)
    BY DEF OwnKeys
  <1>15. /\ w.inode = cells /\ w.ifree = free /\ w.map = m /\ w.err = "OK" /\ w.stack = st
    BY <1>7 DEF IndexState
  <1>16. w \in IndexRec(t)
    <2>1. m \in Maps
      BY MapInMaps
    <2>2. cells \in [Cells -> Cell] /\ st \in Seq(Frame(t))
      BY <1>9, <1>12 DEF Laid, Open
    <2> QED BY <1>7, <1>11, <2>1, <2>2 DEF IndexRec, IndexState
  <1>17. IndexInv(t, m, w, P)
    BY <1>9, <1>12, <1>13, <1>14, <1>15, <1>16 DEF IndexInv
  <1>18. Measure(t, w) >= 1
    <2>1. 0 \in Proc(t, w)
      <3>1. Cardinality(DOMAIN t) \in Nat
        BY MeasureFacts
      <3> QED BY <1>10, <1>15, <3>1 DEF Proc
    <2>2. /\ IsFiniteSet(Proc(t, w)) /\ Cardinality(Proc(t, w)) \in Nat /\ Cardinality(Fin(t, w)) \in Nat
      BY MeasureFacts
    <2>3. Cardinality(Proc(t, w)) # 0
      BY <2>1, <2>2, FS_EmptySet
    <2> QED BY <2>2, <2>3 DEF Measure
  <1> QED BY <1>16, <1>17, <1>18 DEF IndexStates

\* After as many rounds as there are entries and directories the loop is over.
LEMMA IndexedIs ==
  ASSUME hash \in Hashes, NEW t \in Trees, NEW m, MapOK(m), NEW room \in Nat
  PROVE  Indexed(t, m, room) \in IndexStates(t, m) /\ Ended(Indexed(t, m, room))
  <1> DEFINE a == EnterDir(Cleared(m, room), t, Mountpoint, Root)
             N == 2 * Cardinality(DOMAIN t) + 1
             S == IndexStates(t, m)
             Next1(x) == IF Ended(x) THEN x ELSE ProcessEntry(x, t)
             F(f) == f = [k \in Nat |-> IF k = 0 THEN a ELSE Next1(f[k - 1])]
             step == [k \in Nat |-> [x \in S |-> Next1(x)]]
             r == CHOOSE f : F(f)
  <1>1. Indexed(t, m, room) = r[N]
    BY DEF Indexed, Cleared, IndexState
  <1>2. a \in S /\ Measure(t, a) >= 1 /\ N \in Nat
    <2>1. Cardinality(DOMAIN t) \in Nat
      BY MeasureFacts
    <2>2. a \in S /\ Measure(t, a) >= 1
      BY IndexBegins
    <2> HIDE DEF a, S
    <2> QED BY <2>1, <2>2
  <1>3. ASSUME NEW x \in S
        PROVE  /\ Next1(x) \in S
               /\ ~Ended(x) => Grows(t, x, Next1(x))
    BY RoundKeeps
  <1> HIDE DEF S, Next1, r, a, N
  <1>4. step \in [Nat -> [S -> S]]
    BY <1>3
  <1>5. PICK g : Recurs(g, S, a, step)
    <2> HIDE DEF step
    <2> QED BY <1>2, <1>4, Recursion
  <1>6. g \in [Nat -> S] /\ g[0] = a /\ \A k \in Nat : g[k + 1] = Next1(g[k])
    BY <1>5 DEF Recurs
  <1>7. F(g)
    <2>1. ASSUME NEW k \in Nat PROVE g[k] = IF k = 0 THEN a ELSE Next1(g[k - 1])
      <3>1. CASE k # 0
        <4>1. k - 1 \in Nat /\ (k - 1) + 1 = k
          BY <3>1
        <4> QED BY <1>6, <3>1, <4>1
      <3> QED BY <1>6, <3>1
    <2> QED BY <1>6, <2>1
  <1>8. F(r)
    <2> HIDE DEF F
    <2> QED BY <1>7 DEF r
  <1>9. r[0] = a /\ \A k \in Nat : r[k + 1] = Next1(r[k])
    <2>1. \A k \in Nat : k + 1 \in Nat /\ k + 1 # 0 /\ (k + 1) - 1 = k
      OBVIOUS
    <2> QED BY <1>8, <2>1
  <1> HIDE DEF F
  <1> DEFINE T == {k \in Nat : r[k] \in S /\ (Ended(r[k]) \/ Measure(t, r[k]) >= k + 1)}
  <1>10. 0 \in T
    BY <1>2, <1>9
  <1>11. ASSUME NEW k \in Nat, k \in T PROVE k + 1 \in T
    <2>1. r[k] \in S /\ (Ended(r[k]) \/ Measure(t, r[k]) >= k + 1) /\ r[k + 1] = Next1(r[k])
      BY <1>9, <1>11
    <2>2. r[k + 1] \in S
      BY <1>3, <2>1
    <2>3. CASE Ended(r[k])
      BY <2>1, <2>2, <2>3 DEF Next1
    <2>4. CASE ~Ended(r[k])
      <3>1. Grows(t, r[k], r[k + 1])
        BY <1>3, <2>1, <2>4
      <3>2. PICK x, y : x = Measure(t, r[k]) /\ y = Measure(t, r[k + 1])
        OBVIOUS
      <3>3. x \in Nat /\ y \in Nat /\ y >= x + 1
        BY <3>1, <3>2, MeasureGrows
      <3>4. x >= k + 1
        BY <2>1, <2>4, <3>2
      <3>5. y >= (k + 1) + 1
        BY <3>3, <3>4
      <3> QED BY <2>2, <3>2, <3>5
    <2> QED BY <2>3, <2>4
  <1>12. N \in T
    <2> HIDE DEF T
    <2> QED BY <1>2, <1>10, <1>11, Induction
  <1>13. r[N] \in S /\ (Ended(r[N]) \/ Measure(t, r[N]) >= N + 1)
    BY <1>12
  <1>14. ASSUME ~Ended(r[N]) PROVE FALSE
    <2>1. PICK w : w = r[N]
      OBVIOUS
    <2>2. PICK P : IndexInv(t, m, w, P)
      BY <1>13, <2>1 DEF S, IndexStates
    <2>3. w.stack # <<>>
      BY <1>14, <2>1 DEF Ended
    <2>4. Laid(t, w.inode, w.ifree, P) /\ Open(t, w.inode, w.ifree, P, w.stack)
      BY <2>2 DEF IndexInv
    <2>5. PICK st : st = w.stack
      OBVIOUS
    <2>6. 1 \in 1 .. Len(st)
      BY <2>3, <2>4, <2>5 DEF Open
    <2>7. PICK c : c = st[1].dir
      OBVIOUS
    <2>8. c \in 0 .. w.ifree - 1 /\ OnStack(w.stack, c)
      BY <2>4, <2>5, <2>6, <2>7 DEF Open, OnStack
    <2>9. c \in 0 .. Cardinality(DOMAIN t)
      BY <2>4, <2>8, PathsFit DEF Laid
    <2>10. Fin(t, w) # 0 .. Cardinality(DOMAIN t)
      BY <2>8, <2>9 DEF Fin
    <2>11. PICK n, p, f : n = Cardinality(DOMAIN t) /\ p = Cardinality(Proc(t, w)) /\ f = Cardinality(Fin(t, w))
      OBVIOUS
    <2>12. n \in Nat /\ p \in Nat /\ f \in Nat /\ p <= n + 1 /\ f < n + 1
      BY <2>10, <2>11, MeasureFacts
    <2>13. Measure(t, w) = p + f /\ N = 2 * n + 1
      BY <2>11 DEF Measure, N
    <2>14. Measure(t, w) >= N + 1
      BY <1>13, <1>14, <2>1
    <2> QED BY <2>12, <2>13, <2>14
  <1> QED BY <1>1, <1>13, <1>14 DEF S

\* What an index leaves behind.
IndexResult(t, m, w) ==
  /\ w.efree \in Nat /\ w.err \in {"OK", "EIO"} /\ w.inode \in [Cells -> Cell]
  /\ MapOK(w.map) /\ (w.map = NoMap <=> m = NoMap)
  /\ (m # NoMap => Entries(m) = {}) => OwnKeys(w.inode, w.map)
  /\ \E P : /\ Laid(t, w.inode, w.ifree, P)
            /\ w.err = "OK" => Whole(t, w.inode, w.ifree, P)
            /\ w.err = "OK" => AllCounted(t, w.inode, w.ifree, P)
            /\ w.err = "OK" /\ w.map # NoMap =>
                 \A c \in 0 .. w.ifree - 1 : c # 0 => Found(w.map, Names(w.inode), hash, P[c])

\* What IndexedIs says of the result.
LEMMA IndexResults ==
  ASSUME hash \in Hashes, NEW t \in Trees, NEW m, MapOK(m), NEW room \in Nat,
         NEW w, w = Indexed(t, m, room)
  PROVE  IndexResult(t, m, w)
  <1>1. w \in IndexStates(t, m) /\ Ended(w)
    BY IndexedIs
  <1>2. PICK P : IndexInv(t, m, w, P)
    BY <1>1 DEF IndexStates
  <1>3. /\ w \in IndexRec(t) /\ Laid(t, w.inode, w.ifree, P)
        /\ Open(t, w.inode, w.ifree, P, w.stack)
        /\ MapOK(w.map) /\ (w.map = NoMap <=> m = NoMap)
        /\ InMap(w.inode, w.ifree, P, w.stack, w.map, w.err)
        /\ (m # NoMap => Entries(m) = {}) => OwnKeys(w.inode, w.map)
    BY <1>2 DEF IndexInv
  <1>4. w.efree \in Nat /\ w.err \in {"OK", "EIO"} /\ w.inode \in [Cells -> Cell]
    BY <1>3 DEF IndexRec
  <1>5. ASSUME w.err = "OK"
        PROVE  /\ AllCounted(t, w.inode, w.ifree, P) /\ Whole(t, w.inode, w.ifree, P)
               /\ w.map # NoMap =>
                    \A c \in 0 .. w.ifree - 1 : c # 0 => Found(w.map, Names(w.inode), hash, P[c])
    <2>1. w.stack = <<>>
      BY <1>1, <1>5 DEF Ended
    <2>2. \A c : ~OnStack(w.stack, c)
      <3>1. Len(w.stack) = 0
        BY <2>1
      <3> QED BY <3>1 DEF OnStack
    <2>3. AllCounted(t, w.inode, w.ifree, P)
      BY <1>3, <2>2 DEF Open, AllCounted
    <2>4. Whole(t, w.inode, w.ifree, P)
      BY <1>3, <2>3, IsWhole
    <2>5. 0 .. w.ifree - 1 \subseteq Cells
      <3>1. Paths(t, w.ifree, P)
        BY <1>3 DEF Laid
      <3> QED BY <3>1, PathsFit
    <2>6. \A c \in 0 .. w.ifree - 1 : w.inode[c].ftype \in {"none", "dir", "reg"}
      BY <1>4, <2>5, CellFields
    <2>7. \A c \in 0 .. w.ifree - 1 : Done(w.inode, w.stack, c)
      BY <2>2, <2>4, <2>6 DEF Done, Whole
    <2> QED BY <1>3, <1>5, <2>3, <2>4, <2>7 DEF InMap
  <1> QED BY <1>3, <1>4, <1>5 DEF IndexResult

-----------------------------------------------------------------------------
(* build_hashmap_walk()                                                     *)
On(s, e) == \E i \in 1 .. Len(s) : s[i] = e
Distinct(s) == \A i, j \in 1 .. Len(s) : s[i] = s[j] => i = j
Stacked(S, stack, kids, more) ==
  /\ more \in Seq(S) /\ Distinct(more)
  /\ Head(stack) \in S /\ On(stack, Head(stack)) /\ ~On(more, Head(stack))
  /\ \A e : On(stack, e) => e = Head(stack) \/ On(more, e)
  /\ \A e : On(more, e) => On(kids, e) \/ On(stack, e)
  /\ \A e : On(kids, e) => On(more, e)

\* The stack of a walk once its first inode is replaced by its children.
LEMMA WalkStack ==
  ASSUME NEW S, NEW stack \in Seq(S), stack # <<>>, NEW kids \in Seq(S), Distinct(stack), Distinct(kids),
         \A e : On(kids, e) => ~On(stack, e), NEW more, more = kids \o Tail(stack)
  PROVE  Stacked(S, stack, kids, more)
  <1>1. PICK rest : rest = Tail(stack)
    OBVIOUS
  <1>2. PICK n \in Nat : n = Len(stack)
    OBVIOUS
  <1>3. PICK k \in Nat : k = Len(kids)
    OBVIOUS
  <1>4. n > 0 /\ rest \in Seq(S) /\ Len(rest) = n - 1 /\ \A i \in 1 .. n - 1 : rest[i] = stack[i + 1]
    BY <1>1, <1>2
  <1>5. /\ more \in Seq(S) /\ Len(more) = k + (n - 1)
        /\ \A i \in 1 .. k : more[i] = kids[i]
        /\ \A i \in k + 1 .. k + (n - 1) : more[i] = rest[i - k]
    <2>1. more \in Seq(S) /\ Len(more) = Len(kids) + Len(rest)
      BY <1>1, <1>4, ConcatProperties
    <2>2. \A i \in 1 .. Len(kids) + Len(rest) : more[i] = IF i <= Len(kids) THEN kids[i] ELSE rest[i - Len(kids)]
      BY <1>1, <1>4, ConcatProperties
    <2> QED BY <1>3, <1>4, <2>1, <2>2
  <1>6. Head(stack) = stack[1] /\ stack[1] \in S
    BY <1>2, <1>4
  <1>7. \A i \in 1 .. k : more[i] = kids[i] /\ i \in 1 .. Len(kids)
    BY <1>3, <1>5
  <1>8. \A i \in k + 1 .. k + (n - 1) : /\ (i - k) + 1 \in 2 .. n /\ (i - k) + 1 \in 1 .. Len(stack)
                                        /\ more[i] = stack[(i - k) + 1]
    BY <1>2, <1>4, <1>5
  <1>9. \A i \in 1 .. Len(more) : i \in 1 .. k \/ i \in k + 1 .. k + (n - 1)
    BY <1>4, <1>5
  <1>10. On(stack, stack[1]) /\ 1 \in 1 .. Len(stack)
    BY <1>2, <1>4 DEF On
  <1>11. ~On(more, stack[1])
    <2> SUFFICES ASSUME NEW i \in 1 .. Len(more), more[i] = stack[1] PROVE FALSE
      BY DEF On
    <2>1. CASE i \in 1 .. k
      <3>1. On(kids, stack[1])
        BY <1>7, <2>1 DEF On
      <3> QED BY <1>10, <3>1
    <2>2. CASE i \in k + 1 .. k + (n - 1)
      <3>1. (i - k) + 1 = 1
        BY <1>8, <1>10, <2>2 DEF Distinct
      <3> QED BY <1>8, <2>2, <3>1
    <2> QED BY <1>9, <2>1, <2>2
  <1>12. ASSUME NEW e, On(stack, e) PROVE e = stack[1] \/ On(more, e)
    <2>1. PICK i \in 1 .. Len(stack) : stack[i] = e
      BY <1>12 DEF On
    <2>2. CASE i # 1
      <3>1. i - 1 \in 1 .. n - 1 /\ (i - 1) + 1 = i /\ k + (i - 1) \in k + 1 .. k + (n - 1) /\ (k + (i - 1)) - k = i - 1
        BY <1>2, <2>2
      <3>2. more[k + (i - 1)] = stack[i]
        BY <1>4, <1>5, <3>1
      <3>3. k + (i - 1) \in 1 .. Len(more)
        BY <1>5, <3>1
      <3> QED BY <2>1, <3>2, <3>3 DEF On
    <2> QED BY <2>1, <2>2
  <1>13. ASSUME NEW e, On(more, e) PROVE On(kids, e) \/ On(stack, e)
    <2>1. PICK i \in 1 .. Len(more) : more[i] = e
      BY <1>13 DEF On
    <2> QED BY <1>7, <1>8, <1>9, <2>1 DEF On
  <1>14. ASSUME NEW e, On(kids, e) PROVE On(more, e)
    <2>1. PICK i \in 1 .. Len(kids) : kids[i] = e
      BY <1>14 DEF On
    <2>2. i \in 1 .. k /\ i \in 1 .. Len(more)
      BY <1>3, <1>4, <1>5
    <2> QED BY <1>7, <2>1, <2>2 DEF On
  <1>15. Distinct(more)
    <2> SUFFICES ASSUME NEW i \in 1 .. Len(more), NEW j \in 1 .. Len(more), more[i] = more[j] PROVE i = j
      BY DEF Distinct
    <2>1. CASE i \in 1 .. k /\ j \in 1 .. k
      BY <1>7, <2>1 DEF Distinct
    <2>2. CASE i \in k + 1 .. k + (n - 1) /\ j \in k + 1 .. k + (n - 1)
      <3>1. (i - k) + 1 = (j - k) + 1
        BY <1>8, <2>2 DEF Distinct
      <3> QED BY <2>2, <3>1
    <2>3. CASE i \in 1 .. k /\ j \in k + 1 .. k + (n - 1)
      <3>1. On(kids, more[i]) /\ On(stack, more[j])
        BY <1>7, <1>8, <2>3 DEF On
      <3> QED BY <3>1
    <2>4. CASE j \in 1 .. k /\ i \in k + 1 .. k + (n - 1)
      <3>1. On(kids, more[j]) /\ On(stack, more[i])
        BY <1>7, <1>8, <2>4 DEF On
      <3> QED BY <3>1
    <2> QED BY <1>9, <2>1, <2>2, <2>3, <2>4
  <1> QED BY <1>5, <1>6, <1>10, <1>11, <1>12, <1>13, <1>14, <1>15 DEF Stacked

\* The inodes processed, those that a walk has yet to come to (stack), and
\* those it has passed (D).
Procd(cells, free) == {c \in 0 .. free - 1 : cells[c].ftype # "none"}
Seen(stack, D, e) == e \in D \/ On(stack, e)
Reach(t, cells, free, P, stack, D) ==
  /\ stack \in Seq(Procd(cells, free)) /\ Distinct(stack)
  /\ D \subseteq Procd(cells, free)
  /\ \A e \in D : ~On(stack, e)
  /\ Seen(stack, D, 0)
  /\ \A d \in D : cells[d].ftype = "dir" =>
       \A k \in 0 .. cells[d].count - 1 : Seen(stack, D, cells[d].idx + k)
  /\ \A c : Seen(stack, D, c) /\ c # 0 =>
       \A d \in 0 .. free - 1 : IsChild(t, cells, P, d, c) => d \in D
KidsOf(cells, c) ==
  IF cells[c].ftype = "dir" THEN [i \in 1 .. cells[c].count |-> cells[c].idx + i - 1] ELSE <<>>
WalkKids(t, cells, free, P, c, kids) ==
  /\ kids \in Seq(Procd(cells, free)) /\ Distinct(kids)
  /\ \A e : On(kids, e) => IsChild(t, cells, P, c, e) /\ e # 0 /\ e # c
  /\ cells[c].ftype = "dir" => \A k \in 0 .. cells[c].count - 1 : On(kids, cells[c].idx + k)

\* The children a walk goes on to are the processed ones.
LEMMA KidsWalked ==
  ASSUME NEW t \in Trees, NEW cells, NEW free, NEW P, Laid(t, cells, free, P),
         NEW c \in Procd(cells, free), NEW kids, kids = KidsOf(cells, c)
  PROVE  WalkKids(t, cells, free, P, c, kids)
  <1>1. CASE cells[c].ftype # "dir"
    <2>1. kids = <<>> /\ Len(kids) = 0 /\ kids \in Seq(Procd(cells, free))
      BY <1>1 DEF KidsOf
    <2>2. \A e : ~On(kids, e)
      BY <2>1 DEF On
    <2>3. Distinct(kids)
      BY <2>1 DEF Distinct
    <2> QED BY <1>1, <2>1, <2>2, <2>3 DEF WalkKids
  <1>2. CASE cells[c].ftype = "dir"
    <2>1. c \in 0 .. free - 1
      BY DEF Procd
    <2>2. PICK i0, n, m \in Nat : i0 = cells[c].idx /\ n = cells[c].count /\ m = Len(Kids(t, P, c))
      BY <1>2, <2>1, DirCounts
    <2>3. free \in Nat /\ c \in Nat /\ DirOK(t, cells, free, P, c)
      BY <1>2, <2>1, DirCounts
    <2>4. c < i0 /\ i0 + m <= free /\ n <= m
      BY <2>2, <2>3 DEF DirOK
    <2>5. kids = [i \in 1 .. n |-> i0 + (i - 1)]
      BY <1>2, <2>2 DEF KidsOf
    <2>6. ASSUME NEW k \in 0 .. n - 1
          PROVE  i0 + k \in Procd(cells, free) /\ IsChild(t, cells, P, c, i0 + k)
      <3>1. k \in 0 .. Len(Kids(t, P, c)) - 1 /\ k < cells[c].count
        BY <2>2, <2>4, <2>6
      <3>2. cells[cells[c].idx + k].ftype # "none"
        BY <2>3, <3>1 DEF DirOK
      <3>3. i0 + k \in 0 .. free - 1
        BY <2>3, <2>4, <2>6
      <3>4. IsChild(t, cells, P, c, i0 + k)
        BY <1>2, <2>2, <3>1 DEF IsChild
      <3> QED BY <2>2, <3>2, <3>3, <3>4 DEF Procd
    <2>7. \A i \in 1 .. n : i - 1 \in 0 .. n - 1
      OBVIOUS
    <2>8. kids \in Seq(Procd(cells, free)) /\ Len(kids) = n
      <3>1. \A i \in 1 .. n : i0 + (i - 1) \in Procd(cells, free)
        BY <2>6, <2>7
      <3>2. kids \in [1 .. n -> Procd(cells, free)]
        BY <2>5, <3>1
      <3> QED BY <2>2, <3>2
    <2>9. Distinct(kids)
      BY <2>2, <2>5, <2>8 DEF Distinct
    <2>10. ASSUME NEW e, On(kids, e) PROVE IsChild(t, cells, P, c, e) /\ e # 0 /\ e # c
      <3>1. PICK i \in 1 .. n : e = i0 + (i - 1)
        BY <2>5, <2>8, <2>10 DEF On
      <3>2. IsChild(t, cells, P, c, e)
        BY <2>6, <2>7, <3>1
      <3>3. e # 0 /\ e # c
        BY <2>2, <2>3, <2>4, <3>1
      <3> QED BY <3>2, <3>3
    <2>11. ASSUME NEW k \in 0 .. n - 1 PROVE On(kids, i0 + k)
      <3>1. k + 1 \in 1 .. n /\ (k + 1) - 1 = k
        BY <2>2
      <3>2. kids[k + 1] = i0 + k
        BY <2>5, <3>1
      <3> QED BY <2>8, <3>1, <3>2 DEF On
    <2> QED BY <2>2, <2>8, <2>9, <2>10, <2>11 DEF WalkKids
  <1> QED BY <1>1, <1>2

Goes(cells, stack, c, more) == c = Head(stack) /\ more = KidsOf(cells, c) \o Tail(stack)
\* The next inode is passed, its children are yet to come.
LEMMA ReachStep ==
  ASSUME NEW t \in Trees, NEW cells, NEW free, NEW P, Laid(t, cells, free, P),
         NEW stack, NEW D, Reach(t, cells, free, P, stack, D), stack # <<>>,
         NEW c, NEW more, Goes(cells, stack, c, more)
  PROVE  /\ c \in Procd(cells, free) /\ c \notin D
         /\ Reach(t, cells, free, P, more, D \cup {c})
  <1> DEFINE R == Procd(cells, free)
  <1>0. c = Head(stack) /\ more = KidsOf(cells, c) \o Tail(stack)
    BY DEF Goes
  <1>1. stack \in Seq(R) /\ Distinct(stack) /\ D \subseteq R /\ \A e \in D : ~On(stack, e)
    BY DEF Reach
  <1>2. c \in R /\ On(stack, c)
    <2>1. Len(stack) \in Nat /\ Len(stack) > 0 /\ c = stack[1] /\ stack[1] \in R
      BY <1>0, <1>1
    <2> QED BY <2>1 DEF On
  <1>3. c \notin D
    BY <1>1, <1>2
  <1>4. PICK kids : kids = KidsOf(cells, c)
    OBVIOUS
  <1>5. WalkKids(t, cells, free, P, c, kids)
    BY <1>2, <1>4, KidsWalked
  <1>6. c \in 0 .. free - 1
    BY <1>2 DEF Procd
  <1>7. ASSUME NEW e, On(kids, e) PROVE ~On(stack, e) /\ e \notin D /\ IsChild(t, cells, P, c, e) /\ e # 0
    <2>1. IsChild(t, cells, P, c, e) /\ e # 0
      BY <1>5, <1>7 DEF WalkKids
    <2>2. ~Seen(stack, D, e)
      BY <1>3, <1>6, <2>1 DEF Reach
    <2> QED BY <2>1, <2>2 DEF Seen
  <1>8. kids \in Seq(R) /\ Distinct(kids)
    BY <1>5 DEF WalkKids
  <1>9. Stacked(R, stack, kids, more)
    <2> HIDE DEF R
    <2> QED BY <1>0, <1>1, <1>4, <1>7, <1>8, WalkStack
  <1>10. /\ more \in Seq(R) /\ Distinct(more) /\ ~On(more, c)
         /\ \A e : On(stack, e) => e = c \/ On(more, e)
         /\ \A e : On(more, e) => On(kids, e) \/ On(stack, e)
         /\ \A e : On(kids, e) => On(more, e)
    BY <1>0, <1>9 DEF Stacked
  <1> DEFINE D2 == D \cup {c}
  <1>11. D2 \subseteq R /\ \A e \in D2 : ~On(more, e)
    BY <1>1, <1>2, <1>7, <1>10
  <1>12. \A e : Seen(stack, D, e) => Seen(more, D2, e)
    BY <1>10 DEF Seen
  <1>13. \A e : Seen(more, D2, e) => Seen(stack, D, e) \/ On(kids, e)
    BY <1>2, <1>10 DEF Seen
  <1>14. Seen(more, D2, 0)
    BY <1>12 DEF Reach
  <1>15. ASSUME NEW d \in D2, cells[d].ftype = "dir", NEW k \in 0 .. cells[d].count - 1
         PROVE  Seen(more, D2, cells[d].idx + k)
    <2>1. CASE d = c
      <3>1. On(kids, cells[d].idx + k)
        BY <1>5, <1>15, <2>1 DEF WalkKids
      <3> QED BY <1>10, <3>1 DEF Seen
    <2>2. CASE d \in D
      BY <1>12, <1>15, <2>2 DEF Reach
    <2> QED BY <2>1, <2>2
  <1>16. ASSUME NEW e, Seen(more, D2, e), e # 0, NEW d \in 0 .. free - 1, IsChild(t, cells, P, d, e)
         PROVE  d \in D2
    <2>1. CASE On(kids, e)
      <3>1. IsChild(t, cells, P, c, e)
        BY <1>7, <2>1
      <3>2. d = c
        BY <1>6, <1>16, <3>1, OneParent
      <3> QED BY <3>2
    <2>2. CASE Seen(stack, D, e)
      BY <1>16, <2>2 DEF Reach
    <2> QED BY <1>13, <1>16, <2>1, <2>2
  <1>17. Reach(t, cells, free, P, more, D2)
    BY <1>10, <1>11, <1>14, <1>15, <1>16 DEF Reach
  <1> QED BY <1>2, <1>3, <1>17

\* A walk that is over has passed every inode.
LEMMA AllReached ==
  ASSUME NEW t \in Trees, NEW cells, NEW free, NEW P, Laid(t, cells, free, P),
         NEW stack, NEW D, Reach(t, cells, free, P, stack, D), stack = <<>>
  PROVE  Procd(cells, free) \subseteq D
  <1>1. \A e : ~On(stack, e)
    <2>1. Len(stack) = 0
      OBVIOUS
    <2> QED BY <2>1 DEF On
  <1>2. \A e : Seen(stack, D, e) => e \in D
    BY <1>1 DEF Seen
  <1> DEFINE T == {c \in Procd(cells, free) : c \notin D}
  <1>3. ASSUME T # {} PROVE FALSE
    <2>1. Paths(t, free, P)
      BY DEF Laid
    <2>2. free \in Nat /\ 0 .. free - 1 \subseteq Nat
      BY <2>1 DEF Paths
    <2>3. T \subseteq Nat
      BY <2>2 DEF Procd
    <2>4. PICK c \in T : \A e \in T : c <= e
      <3> HIDE DEF T
      <3> QED BY <1>3, <2>3, LeastNat
    <2>5. c \in 0 .. free - 1 /\ cells[c].ftype # "none" /\ c \notin D
      BY <2>4 DEF Procd
    <2>6. 0 \in D
      BY <1>2 DEF Reach
    <2>7. c # 0
      BY <2>5, <2>6
    <2>8. PICK d \in 0 .. c - 1 : IsChild(t, cells, P, d, c)
      BY <2>5, <2>7 DEF Laid
    <2>9. d \in 0 .. free - 1 /\ d < c /\ d \in Nat
      BY <2>2, <2>5, <2>8
    <2>10. cells[d].ftype = "dir"
      BY <2>8 DEF IsChild
    <2>11. d \in D
      <3>1. d \in Procd(cells, free)
        BY <2>9, <2>10 DEF Procd
      <3>2. ~(c <= d)
        BY <2>3, <2>9, <2>2, <2>5
      <3> QED BY <2>4, <3>1, <3>2
    <2>12. PICK k \in 0 .. Len(Kids(t, P, d)) - 1 : c = cells[d].idx + k
      BY <2>8 DEF IsChild
    <2>13. k < cells[d].count
      <3>1. DirOK(t, cells, free, P, d)
        BY <2>9, <2>10, DirCounts
      <3> QED BY <2>5, <2>12, <3>1 DEF DirOK
    <2>14. cells[d].count \in Nat /\ Len(Kids(t, P, d)) \in Nat
      BY <2>9, <2>10, DirCounts
    <2>15. k \in 0 .. cells[d].count - 1
      BY <2>12, <2>13, <2>14
    <2>16. Seen(stack, D, cells[d].idx + k)
      BY <2>10, <2>11, <2>15 DEF Reach
    <2> QED BY <1>2, <2>5, <2>12, <2>16
  <1> QED BY <1>3

WalkState(cells, mp, room, er, st) ==
  [inode |-> cells, map |-> mp, room |-> room, err |-> er, stack |-> st]
WalkRec(cells) ==
  [inode : {cells}, map : Maps, room : Nat, err : {"OK", "EIO"}, stack : Seq(Cells)]
WalkInv(t, cells, free, P, w, D) ==
  /\ w.inode = cells /\ w = WalkState(cells, w.map, w.room, w.err, w.stack)
  /\ w.room \in Nat /\ w.err \in {"OK", "EIO"}
  /\ Table(w.map, Cells)
  /\ Reach(t, cells, free, P, w.stack, D)
  /\ OwnKeys(cells, w.map)
  /\ w.err = "OK" => \A c \in D : c # 0 => Found(w.map, Names(cells), hash, P[c])
WalkStates(t, cells, free, P) == {w \in WalkRec(cells) : \E D : WalkInv(t, cells, free, P, w, D)}

\* The states of a walk form a set.
LEMMA WalkInRec ==
  ASSUME NEW t \in Trees, NEW cells, NEW free, NEW P, Laid(t, cells, free, P), NEW w, NEW D,
         WalkInv(t, cells, free, P, w, D)
  PROVE  w \in WalkStates(t, cells, free, P)
  <1>1. /\ w = WalkState(cells, w.map, w.room, w.err, w.stack)
        /\ w.room \in Nat /\ w.err \in {"OK", "EIO"} /\ Table(w.map, Cells)
        /\ Reach(t, cells, free, P, w.stack, D)
    BY DEF WalkInv
  <1>2. w.map \in Maps
    BY <1>1, MapInMaps DEF MapOK
  <1>3. Procd(cells, free) \subseteq Cells
    <2>1. Paths(t, free, P)
      BY DEF Laid
    <2>2. 0 .. free - 1 \subseteq Cells
      BY <2>1, PathsFit
    <2> QED BY <2>2 DEF Procd
  <1>4. w.stack \in Seq(Cells)
    <2>1. w.stack \in Seq(Procd(cells, free))
      BY <1>1 DEF Reach
    <2> QED BY <1>3, <2>1
  <1>5. w \in WalkRec(cells)
    <2>1. PICK a, b, e, s : a = w.map /\ b = w.room /\ e = w.err /\ s = w.stack
      OBVIOUS
    <2>2. w = WalkState(cells, a, b, e, s)
      BY <1>1, <2>1
    <2> QED BY <1>1, <1>2, <1>4, <2>1, <2>2 DEF WalkState, WalkRec
  <1> QED BY <1>5 DEF WalkStates

\* A round of the walk.
LEMMA WalkStep ==
  ASSUME hash \in Hashes, NEW t \in Trees, NEW cells, NEW free, NEW P, Laid(t, cells, free, P), NEW w, NEW D,
         WalkInv(t, cells, free, P, w, D), ~Ended(w),
         NEW v, v = WalkInode(w), NEW c, c = Head(w.stack)
  PROVE  WalkInv(t, cells, free, P, v, D \cup {c}) /\ c \notin D /\ c \in Cells
  <1>1. PICK mp, room, st : mp = w.map /\ room = w.room /\ st = w.stack
    OBVIOUS
  <1>2. w.err = "OK" /\ st # <<>>
    BY <1>1 DEF Ended
  <1>3. w = WalkState(cells, mp, room, "OK", st)
    BY <1>1, <1>2 DEF WalkInv
  <1>4. PICK more : more = KidsOf(cells, c) \o Tail(st)
    OBVIOUS
  <1>5. /\ room \in Nat /\ Table(mp, Cells) /\ Reach(t, cells, free, P, st, D) /\ OwnKeys(cells, mp)
        /\ \A e \in D : e # 0 => Found(mp, Names(cells), hash, P[e])
    BY <1>1, <1>2 DEF WalkInv
  <1>6. c \in Procd(cells, free) /\ c \notin D /\ Reach(t, cells, free, P, more, D \cup {c})
    <2>1. Goes(cells, st, c, more)
      BY <1>1, <1>4 DEF Goes
    <2> QED BY <1>2, <1>5, <2>1, ReachStep
  <1>7. PICK u : u = WalkState(cells, mp, room, "OK", more)
    OBVIOUS
  <1>8. u.inode = cells /\ u.map = mp /\ u.room = room /\ u.err = "OK" /\ u.stack = more
    BY <1>7 DEF WalkState
  <1>9. v = IF cells[c].name = <<>> THEN u ELSE PutInode(u, c)
    <2>1. w.inode = cells
      BY DEF WalkInv
    <2>2. [w EXCEPT !.stack = more] = u
      BY <1>3, <1>7 DEF WalkState
    <2>3. v = LET x == [w EXCEPT !.stack = KidsOf(w.inode, c) \o Tail(w.stack)]
              IN IF w.inode[c].name = <<>> THEN x ELSE PutInode(x, c)
      BY DEF WalkInode, KidsOf
    <2> QED BY <1>1, <1>4, <2>1, <2>2, <2>3
  <1>10. c \in 0 .. free - 1 /\ cells[c].ftype # "none" /\ cells \in [Cells -> Cell] /\ Paths(t, free, P)
    BY <1>6 DEF Procd, Laid
  <1>11. c \in Cells
    <2>1. 0 .. free - 1 \subseteq Cells
      BY <1>10, PathsFit
    <2> QED BY <1>10, <2>1
  <1>12. c # 0 => cells[c].name = P[c] /\ P[c] # <<>>
    BY <1>10, NameOf
  <1>13. CASE cells[c].name = <<>>
    <2>1. c = 0
      BY <1>12, <1>13
    <2>2. \A e \in D \cup {c} : e # 0 => Found(mp, Names(cells), hash, P[e])
      BY <1>5, <2>1
    <2>3. v = u
      BY <1>9, <1>13
    <2>4. WalkInv(t, cells, free, P, u, D \cup {c})
      BY <1>5, <1>6, <1>7, <1>8, <2>2 DEF WalkInv
    <2> QED BY <1>6, <1>11, <2>3, <2>4
  <1>14. CASE cells[c].name # <<>>
    <2>1. v = PutInode(u, c)
      BY <1>9, <1>14
    <2>2. MapOK(mp) /\ mp # NoMap
      BY <1>5, TableNotNull DEF MapOK
    <2>3. PutDone(u, c, v)
      BY <1>5, <1>8, <1>10, <1>11, <2>1, <2>2, PutCases
    <2>4. v = WalkState(cells, v.map, v.room, v.err, more) /\ v.room \in Nat
      <3>1. CASE v = u
        BY <1>5, <1>7, <1>8, <3>1
      <3>2. CASE v = [u EXCEPT !.err = "EIO"]
        <4>1. v = WalkState(cells, mp, room, "EIO", more)
          BY <1>7, <3>2 DEF WalkState
        <4> QED BY <1>5, <4>1 DEF WalkState
      <3>3. ASSUME NEW r \in Nat, NEW g, v = [u EXCEPT !.room = r, !.map = g]
            PROVE  v = WalkState(cells, v.map, v.room, v.err, more) /\ v.room \in Nat
        <4>1. v = WalkState(cells, g, r, "OK", more)
          BY <1>7, <3>3 DEF WalkState
        <4> QED BY <4>1 DEF WalkState
      <3> QED BY <2>3, <3>1, <3>2, <3>3 DEF PutDone
    <2>5. PICK mp2, er2 : mp2 = v.map /\ er2 = v.err
      OBVIOUS
    <2>6. PutEffect(mp, mp2, er2, cells, c)
      <3>1. DOMAIN u = {"inode", "map", "room", "err", "stack"}
        BY <1>7 DEF WalkState
      <3>2. {"map", "err", "room"} \subseteq DOMAIN u
        BY <3>1
      <3>3. PutEffect(u.map, mp2, er2, u.inode, c)
        BY <1>8, <2>2, <2>3, <2>5, <3>2, PutEffects
      <3> QED BY <1>8, <3>3
    <2>7. OwnKeys(cells, mp2)
      BY <1>5, <1>10, <1>11, <2>6, PutOwn
    <2>8. Table(mp2, Cells) /\ er2 \in {"OK", "EIO"}
      BY <2>2, <2>6 DEF PutEffect, MapOK
    <2>9. ASSUME er2 = "OK", NEW e \in D \cup {c}, e # 0 PROVE Found(mp2, Names(cells), hash, P[e])
      <3>1. PutEffect(mp, mp2, "OK", cells, c)
        BY <2>6, <2>9
      <3>2. /\ Found(mp2, Names(cells), hash, cells[c].name)
            /\ \A s \in NameSet : Found(mp, Names(cells), hash, s) => Found(mp2, Names(cells), hash, s)
        BY <1>10, <1>11, <2>2, <3>1, PutFound
      <3>3. CASE e = c
        BY <1>12, <2>9, <3>2, <3>3
      <3>4. CASE e \in D
        <4>1. e \in 0 .. free - 1
          BY <1>5, <3>4 DEF Reach, Procd
        <4>2. P[e] \in NameSet
          BY <2>9, <4>1, NameOf
        <4> QED BY <1>5, <2>9, <3>2, <3>4, <4>2
      <3> QED BY <3>3, <3>4
    <2>10. v.inode = cells /\ v.stack = more
      BY <2>4 DEF WalkState
    <2>11. WalkInv(t, cells, free, P, v, D \cup {c})
      BY <1>6, <2>4, <2>5, <2>7, <2>8, <2>9, <2>10 DEF WalkInv
    <2> QED BY <1>6, <1>11, <2>11
  <1> QED BY <1>13, <1>14

WalkBegin(cells, room) == WalkState(cells, kh_init, room, "OK", <<Root>>)

\* The invariant holds when a walk begins.
LEMMA WalkBegins ==
  ASSUME NEW t \in Trees, NEW cells, NEW free, NEW P, Laid(t, cells, free, P), NEW room \in Nat,
         NEW w, w = WalkBegin(cells, room)
  PROVE  WalkInv(t, cells, free, P, w, {})
  <1>1. PICK st : st = <<Root>>
    OBVIOUS
  <1>2. w = WalkState(cells, kh_init, room, "OK", st)
    BY <1>1 DEF WalkBegin
  <1>3. w.inode = cells /\ w.map = kh_init /\ w.room = room /\ w.err = "OK" /\ w.stack = st
    BY <1>2 DEF WalkState
  <1>4. 0 \in Procd(cells, free)
    <2>1. Paths(t, free, P) /\ cells[0].ftype = "dir"
      BY DEF Laid
    <2>2. 0 \in 0 .. free - 1
      BY <2>1 DEF Paths
    <2> QED BY <2>1, <2>2 DEF Procd
  <1>5. st \in Seq(Procd(cells, free)) /\ Len(st) = 1 /\ st[1] = 0
    BY <1>1, <1>4 DEF Root
  <1>6. \A e : On(st, e) <=> e = 0
    BY <1>5 DEF On
  <1>7. Distinct(st)
    BY <1>5 DEF Distinct
  <1>8. Reach(t, cells, free, P, st, {})
    BY <1>5, <1>6, <1>7 DEF Reach, Seen
  <1>9. Table(kh_init, Cells) /\ Entries(kh_init) = {}
    BY EmptyTable
  <1>10. OwnKeys(cells, kh_init)
    BY <1>9 DEF OwnKeys
  <1> QED BY <1>2, <1>3, <1>8, <1>9, <1>10 DEF WalkInv

WalkResult(cells, free, P, w) ==
  /\ w.err \in {"OK", "EIO"} /\ Table(w.map, Cells) /\ OwnKeys(cells, w.map)
  /\ w.err = "OK" => \A c \in Procd(cells, free) : c # 0 => Found(w.map, Names(cells), hash, P[c])

\* A walk takes a round for each inode.
LEMMA WalkedIs ==
  ASSUME hash \in Hashes, NEW t \in Trees, NEW free, NEW P, Laid(t, inode, free, P), NEW room \in Nat
  PROVE  WalkResult(inode, free, P, Walked(room))
  <1> DEFINE a == WalkBegin(inode, room)
             N == Cardinality(Cells)
             S == WalkStates(t, inode, free, P)
             Next1(x) == IF Ended(x) THEN x ELSE WalkInode(x)
             F(f) == f = [k \in Nat |-> IF k = 0 THEN a ELSE Next1(f[k - 1])]
             step == [k \in Nat |-> [x \in S |-> Next1(x)]]
             r == CHOOSE f : F(f)
             At(x, k) == \E D : WalkInv(t, inode, free, P, x, D) /\ D \subseteq Cells /\ Cardinality(D) = k
  <1>1. Walked(room) = r[N]
    BY DEF Walked, WalkBegin, WalkState
  <1>2. N \in Nat /\ IsFiniteSet(Cells)
    BY CellsNat, FS_CardinalityType
  <1>3. WalkInv(t, inode, free, P, a, {})
    BY WalkBegins
  <1>4. a \in S
    BY <1>3, WalkInRec
  <1>5. ASSUME NEW x, NEW k \in Nat, At(x, k), ~Ended(x)
        PROVE  At(Next1(x), k + 1)
    <2>1. PICK D : WalkInv(t, inode, free, P, x, D) /\ D \subseteq Cells /\ Cardinality(D) = k
      BY <1>5
    <2>2. PICK c : c = Head(x.stack)
      OBVIOUS
    <2>3. WalkInv(t, inode, free, P, WalkInode(x), D \cup {c}) /\ c \notin D /\ c \in Cells
      BY <1>5, <2>1, <2>2, WalkStep
    <2>4. IsFiniteSet(D)
      BY <1>2, <2>1, FS_Subset
    <2>5. Cardinality(D \cup {c}) = Cardinality(D) + 1
      BY <2>3, <2>4, FS_AddElement
    <2>6. Next1(x) = WalkInode(x)
      BY <1>5
    <2>7. D \cup {c} \subseteq Cells /\ Cardinality(D \cup {c}) = k + 1
      BY <2>1, <2>3, <2>5
    <2> HIDE DEF Next1
    <2> QED BY <2>3, <2>6, <2>7
  <1>6. ASSUME NEW x \in S PROVE Next1(x) \in S
    <2>1. CASE Ended(x)
      BY <2>1
    <2>2. CASE ~Ended(x)
      <3>1. PICK D : WalkInv(t, inode, free, P, x, D)
        BY DEF WalkStates
      <3>2. PICK c : c = Head(x.stack)
        OBVIOUS
      <3>3. WalkInv(t, inode, free, P, WalkInode(x), D \cup {c})
        BY <2>2, <3>1, <3>2, WalkStep
      <3>4. WalkInode(x) \in S
        BY <3>3, WalkInRec
      <3> QED BY <2>2, <3>4
    <2> QED BY <2>1, <2>2
  <1>7. At(a, 0)
    BY <1>3, FS_EmptySet
  <1> HIDE DEF S, r, a, N, At
  <1>8. step \in [Nat -> [S -> S]]
    BY <1>6
  <1>9. ASSUME NEW x, Ended(x) PROVE Next1(x) = x
    BY <1>9
  <1> HIDE DEF Next1
  <1>10. PICK g : Recurs(g, S, a, step)
    <2> HIDE DEF step
    <2> QED BY <1>4, <1>8, Recursion
  <1>11. g \in [Nat -> S] /\ g[0] = a /\ \A k \in Nat : g[k + 1] = Next1(g[k])
    BY <1>10 DEF Recurs
  <1>12. F(g)
    <2>1. ASSUME NEW k \in Nat PROVE g[k] = IF k = 0 THEN a ELSE Next1(g[k - 1])
      <3>1. CASE k # 0
        <4>1. k - 1 \in Nat /\ (k - 1) + 1 = k
          BY <3>1
        <4> QED BY <1>11, <3>1, <4>1
      <3> QED BY <1>11, <3>1
    <2> QED BY <1>11, <2>1
  <1>13. F(r)
    <2> HIDE DEF F
    <2> QED BY <1>12 DEF r
  <1>14. r[0] = a /\ \A k \in Nat : r[k + 1] = Next1(r[k])
    <2>1. \A k \in Nat : k + 1 \in Nat /\ k + 1 # 0 /\ (k + 1) - 1 = k
      OBVIOUS
    <2> QED BY <1>13, <2>1
  <1> HIDE DEF F
  <1> DEFINE T == {k \in Nat : r[k] \in S /\ (Ended(r[k]) \/ At(r[k], k))}
  <1>15. 0 \in T
    BY <1>4, <1>7, <1>14
  <1>16. ASSUME NEW k \in Nat, k \in T PROVE k + 1 \in T
    <2>1. r[k] \in S /\ (Ended(r[k]) \/ At(r[k], k)) /\ r[k + 1] = Next1(r[k])
      BY <1>14, <1>16
    <2>2. r[k + 1] \in S
      BY <1>6, <2>1
    <2>3. CASE Ended(r[k])
      BY <1>9, <2>1, <2>2, <2>3
    <2>4. CASE ~Ended(r[k])
      <3>1. At(r[k + 1], k + 1)
        BY <1>5, <2>1, <2>4
      <3> QED BY <2>2, <3>1
    <2> QED BY <2>3, <2>4
  <1>17. N \in T
    <2> HIDE DEF T
    <2> QED BY <1>2, <1>15, <1>16, Induction
  <1>18. PICK w : w = r[N]
    OBVIOUS
  <1>19. w \in S /\ (Ended(w) \/ At(w, N))
    BY <1>17, <1>18
  <1>20. Ended(w)
    <2> SUFFICES ASSUME ~Ended(w) PROVE FALSE
      OBVIOUS
    <2>1. PICK D : WalkInv(t, inode, free, P, w, D) /\ D \subseteq Cells /\ Cardinality(D) = Cardinality(Cells)
      BY <1>19 DEF At, N
    <2>2. D = Cells
      BY <1>2, <2>1, FS_Subset
    <2>3. PICK c : c = Head(w.stack)
      OBVIOUS
    <2>4. c \notin D /\ c \in Cells
      BY <2>1, <2>3, WalkStep
    <2> QED BY <2>2, <2>4
  <1>21. PICK D : WalkInv(t, inode, free, P, w, D)
    BY <1>19 DEF S, WalkStates
  <1>22. /\ w.err \in {"OK", "EIO"} /\ Table(w.map, Cells) /\ OwnKeys(inode, w.map)
         /\ Reach(t, inode, free, P, w.stack, D)
         /\ w.err = "OK" => \A c \in D : c # 0 => Found(w.map, Names(inode), hash, P[c])
    BY <1>21 DEF WalkInv
  <1>23. w.err = "OK" => Procd(inode, free) \subseteq D
    <2> SUFFICES ASSUME w.err = "OK" PROVE Procd(inode, free) \subseteq D
      OBVIOUS
    <2>1. w.stack = <<>>
      BY <1>20 DEF Ended
    <2> QED BY <1>22, <2>1, AllReached
  <1>24. WalkResult(inode, free, P, w)
    BY <1>22, <1>23 DEF WalkResult
  <1> QED BY <1>1, <1>18, <1>24

(* A refresh of a file.                                                     *)
Refreshed(cells, c, cells2) ==
  /\ cells2 \in [Cells -> Cell] /\ cells[c].ftype = "reg"
  /\ cells2[c].name = cells[c].name /\ cells2[c].ftype = "reg"
  /\ \A e \in Cells : e # c => cells2[e] = cells[e]

\* A refresh changes no name and no type.
LEMMA RefreshedSame ==
  ASSUME NEW cells \in [Cells -> Cell], NEW c \in Cells, NEW cells2, Refreshed(cells, c, cells2)
  PROVE  /\ Names(cells2) = Names(cells)
         /\ \A e \in Cells : cells2[e].name = cells[e].name /\ cells2[e].ftype = cells[e].ftype
         /\ \A e \in Cells : cells[e].ftype # "reg" => cells2[e] = cells[e]
  <1>1. \A e \in Cells : cells2[e].name = cells[e].name /\ cells2[e].ftype = cells[e].ftype
    BY DEF Refreshed
  <1>2. \A e \in Cells : cells[e].ftype # "reg" => cells2[e] = cells[e]
    BY DEF Refreshed
  <1>3. Names(cells2) = Names(cells)
    BY <1>1 DEF Names
  <1> QED BY <1>1, <1>2, <1>3

\* Directories stay as they should be.
LEMMA RefreshedDir ==
  ASSUME NEW t \in Trees, NEW cells, NEW free, NEW P, Laid(t, cells, free, P),
         NEW cells2, NEW d \in 0 .. free - 1, cells[d].ftype = "dir", cells2[d] = cells[d],
         \A e \in 0 .. free - 1 : cells2[e].ftype = cells[e].ftype
  PROVE  DirOK(t, cells2, free, P, d)
  <1>1. DirOK(t, cells, free, P, d)
    BY DirCounts
  <1>2. PICK i, m \in Nat : i = cells[d].idx /\ m = Len(Kids(t, P, d))
    BY DirCounts
  <1>3. i + m <= free /\ free \in Nat
    BY <1>1, <1>2, DirCounts DEF DirOK
  <1>4. ASSUME NEW k \in 0 .. m - 1 PROVE cells2[i + k].ftype = cells[i + k].ftype
    <2>1. i + k \in 0 .. free - 1
      BY <1>2, <1>3
    <2> QED BY <2>1
  <1> QED BY <1>1, <1>2, <1>4 DEF DirOK

\* So does the layout of the tree.
LEMMA RefreshedLaid ==
  ASSUME NEW t \in Trees, NEW cells, NEW free, NEW P, Laid(t, cells, free, P),
         NEW c \in Cells, NEW cells2, Refreshed(cells, c, cells2)
  PROVE  Laid(t, cells2, free, P)
  <1>1. cells \in [Cells -> Cell] /\ Paths(t, free, P) /\ cells[0].ftype = "dir"
    BY DEF Laid
  <1>2. /\ Names(cells2) = Names(cells)
        /\ \A e \in Cells : cells2[e].name = cells[e].name /\ cells2[e].ftype = cells[e].ftype
        /\ \A e \in Cells : cells[e].ftype # "reg" => cells2[e] = cells[e]
    BY <1>1, RefreshedSame
  <1>3. 0 .. free - 1 \subseteq Cells
    BY <1>1, PathsFit
  <1>4. cells2 \in [Cells -> Cell]
    BY DEF Refreshed
  <1>5. cells2[0].ftype = "dir"
    BY <1>1, <1>2, CellsNat
  <1>6. ASSUME NEW e \in 0 .. free - 1 PROVE CellOK(t, cells2, P, e)
    <2>1. CellOK(t, cells, P, e)
      BY DEF Laid
    <2>2. cells2[e].name = cells[e].name /\ cells2[e].ftype = cells[e].ftype /\ (cells[e].ftype = "none" => cells2[e] = cells[e])
      BY <1>2, <1>3
    <2> QED BY <2>1, <2>2 DEF CellOK
  <1>7. ASSUME NEW e \in 0 .. free - 1, cells2[e].ftype = "dir" PROVE DirOK(t, cells2, free, P, e)
    <2>1. cells[e].ftype = "dir" /\ cells2[e] = cells[e]
      BY <1>2, <1>3, <1>7
    <2>2. \A d \in 0 .. free - 1 : cells2[d].ftype = cells[d].ftype
      BY <1>2, <1>3
    <2> QED BY <2>1, <2>2, RefreshedDir
  <1>8. ASSUME NEW e \in 0 .. free - 1, e # 0 PROVE \E d \in 0 .. e - 1 : IsChild(t, cells2, P, d, e)
    <2>1. PICK d \in 0 .. e - 1 : IsChild(t, cells, P, d, e)
      BY <1>8 DEF Laid
    <2>2. free \in Nat
      BY <1>1 DEF Paths
    <2>3. d \in 0 .. free - 1
      BY <2>1, <2>2
    <2>4. cells[d].ftype = "dir"
      BY <2>1 DEF IsChild
    <2>5. cells2[d] = cells[d]
      BY <1>2, <1>3, <2>3, <2>4
    <2>6. IsChild(t, cells2, P, d, e)
      BY <2>1, <2>5 DEF IsChild
    <2> QED BY <2>6
  <1>9. ASSUME NEW e \in Cells, e >= free PROVE cells2[e] = Zeroed
    <2>1. cells[e] = Zeroed
      BY <1>9 DEF Laid
    <2>2. cells[e].ftype # "reg"
      BY <2>1 DEF Zeroed
    <2> QED BY <1>2, <2>1, <2>2
  <1> QED BY <1>1, <1>4, <1>5, <1>6, <1>7, <1>8, <1>9 DEF Laid

FileRec(cells, ef, mp, room) ==
  [inode |-> cells, efree |-> ef, map |-> mp, room |-> room, err |-> "OK"]
RefreshResult(cells, mp, c, v) ==
  /\ v.efree \in Nat /\ Refreshed(cells, c, v.inode)
  /\ \E er : PutEffect(mp, v.map, er, v.inode, c)

\* What xal_be_fiemap_process_inode_file() does when the watcher calls it.
LEMMA RefreshResults ==
  ASSUME hash \in Hashes, NEW cells \in [Cells -> Cell], NEW ef \in Nat, NEW mp, MapOK(mp), NEW room \in Nat,
         NEW c \in Cells, cells[c].ftype = "reg", NEW n \in Nat,
         NEW v, v = ProcessFile(FileRec(cells, ef, mp, room), c, n)
  PROVE  RefreshResult(cells, mp, c, v)
  <1>1. PICK b : b = IF n = 0 THEN cells[c] ELSE [name |-> cells[c].name, ftype |-> cells[c].ftype, idx |-> ef, count |-> n]
    OBVIOUS
  <1>2. cells[c] \in Cell
    OBVIOUS
  <1>3. b \in Cell /\ b.name = cells[c].name /\ b.ftype = "reg"
    <2>1. cells[c].name \in NameSet /\ cells[c].ftype \in {"none", "dir", "reg"}
      BY <1>2, CellFields
    <2>2. [name |-> cells[c].name, ftype |-> cells[c].ftype, idx |-> ef, count |-> n] \in Cell
      BY <2>1, CellIn
    <2> QED BY <1>1, <1>2, <2>2
  <1>4. PICK cells2 : cells2 = [cells EXCEPT ![c] = b]
    OBVIOUS
  <1>5. cells2 \in [Cells -> Cell] /\ cells2[c] = b /\ \A e \in Cells : e # c => cells2[e] = cells[e]
    BY <1>3, <1>4, CellSet
  <1>6. Refreshed(cells, c, cells2)
    BY <1>3, <1>5 DEF Refreshed
  <1>7. PICK ef2 \in Nat : ef2 = IF n = 0 THEN ef ELSE ef + n
    OBVIOUS
  <1>8. PICK u : u = FileRec(cells2, ef2, mp, room)
    OBVIOUS
  <1>9. v = PutInode(u, c)
    <2>1. CASE n = 0
      <3>1. b = cells[c]
        BY <1>1, <2>1
      <3>2. cells2 = cells
        BY <1>4, <3>1
      <3> QED BY <1>7, <1>8, <2>1, <3>2 DEF ProcessFile
    <2>2. CASE n # 0
      <3>1. PICK w : w = FileRec(cells, ef, mp, room)
        OBVIOUS
      <3>2. w.inode = cells /\ w.efree = ef
        BY <3>1 DEF FileRec
      <3>3. v = PutInode([w EXCEPT !.inode[c].idx = ef, !.inode[c].count = n, !.efree = @ + n], c)
        BY <2>2, <3>1, <3>2 DEF ProcessFile
      <3>4. [w EXCEPT !.inode[c].idx = ef, !.inode[c].count = n, !.efree = @ + n] =
              [w EXCEPT !.inode = [cells EXCEPT ![c].idx = ef, ![c].count = n], !.efree = ef + n]
        BY <3>1 DEF FileRec
      <3>5. [cells EXCEPT ![c].idx = ef, ![c].count = n] = cells2
        <4>1. PICK b1 : b1 = [name |-> cells[c].name, ftype |-> cells[c].ftype, idx |-> ef, count |-> cells[c].count]
          OBVIOUS
        <4>2. [cells[c] EXCEPT !.idx = ef] = b1
          BY <1>2, <4>1, CellFields
        <4>3. [b1 EXCEPT !.count = n] = b
          BY <1>1, <2>2, <4>1
        <4>4. PICK cells1 : cells1 = [cells EXCEPT ![c].idx = ef]
          OBVIOUS
        <4>5. cells1 = [cells EXCEPT ![c] = b1]
          BY <4>2, <4>4
        <4>6. [cells EXCEPT ![c].idx = ef, ![c].count = n] = [cells1 EXCEPT ![c].count = n]
          BY <4>4
        <4>7. cells1[c] = b1
          BY <4>5
        <4>8. [cells1 EXCEPT ![c].count = n] = [cells1 EXCEPT ![c] = b]
          BY <4>3, <4>7
        <4>9. [cells1 EXCEPT ![c] = b] = [cells EXCEPT ![c] = b]
          BY <4>5
        <4> QED BY <1>4, <4>6, <4>8, <4>9
      <3>6. [w EXCEPT !.inode = cells2, !.efree = ef2] = u
        <4>1. PICK w1 : w1 = [w EXCEPT !.inode = cells2]
          OBVIOUS
        <4>2. w1 = [inode |-> cells2, efree |-> ef, map |-> mp, room |-> room, err |-> "OK"]
          BY <3>1, <4>1 DEF FileRec
        <4>3. [w1 EXCEPT !.efree = ef2] = u
          BY <1>8, <4>2 DEF FileRec
        <4>4. [w EXCEPT !.inode = cells2, !.efree = ef2] = [w1 EXCEPT !.efree = ef2]
          BY <4>1
        <4> QED BY <4>3, <4>4
      <3> QED BY <1>7, <2>2, <3>3, <3>4, <3>5, <3>6
    <2> QED BY <2>1, <2>2
  <1>10. u.inode = cells2 /\ u.efree = ef2 /\ u.map = mp /\ u.room = room /\ u.err = "OK"
         /\ DOMAIN u = {"inode", "efree", "map", "room", "err"}
    BY <1>8 DEF FileRec
  <1>11. PutDone(u, c, v)
    BY <1>5, <1>9, <1>10, PutCases
  <1>12. v.inode = cells2 /\ v.efree = ef2
    <2>1. CASE v = u
      BY <1>10, <2>1
    <2>2. CASE v = [u EXCEPT !.err = "EIO"]
      BY <1>10, <2>2
    <2>3. ASSUME NEW r \in Nat, NEW g, v = [u EXCEPT !.room = r, !.map = g] PROVE v.inode = cells2 /\ v.efree = ef2
      <3>1. v = [inode |-> cells2, efree |-> ef2, map |-> g, room |-> r, err |-> "OK"]
        BY <1>8, <2>3 DEF FileRec
      <3> QED BY <3>1
    <2> QED BY <1>11, <2>1, <2>2, <2>3 DEF PutDone
  <1>13. PICK mp2, er : mp2 = v.map /\ er = v.err
    OBVIOUS
  <1>14. {"map", "err", "room"} \subseteq DOMAIN u
    BY <1>10
  <1>15. PutEffect(u.map, mp2, er, u.inode, c)
    BY <1>10, <1>11, <1>13, <1>14, PutEffects
  <1> QED BY <1>6, <1>7, <1>10, <1>12, <1>13, <1>15 DEF RefreshResult

(* The inductive invariant.                                                 *)
IsLaid(t, cells, er) ==
  \E free, P : /\ Laid(t, cells, free, P)
               /\ er = "OK" => Whole(t, cells, free, P) /\ AllCounted(t, cells, free, P)
AllFound(cells, m, h) ==
  \A c \in Cells : cells[c].name # <<>> => Found(m, Names(cells), h, cells[c].name)
OwnVals(m) == m # NoMap => \A x \in Entries(m) : x.key \in Cells /\ x.val = x.key
Holds ==
  /\ role \in Roles /\ hash \in Hashes /\ tree \in Trees \cup {<<>>} /\ efree \in Nat
  /\ err \in {"NONE", "OK", "EIO"} /\ filled \in Nat /\ synced \in BOOLEAN /\ calls \in 0 .. MaxIndex
  /\ inode \in [Cells -> Cell] /\ MapOK(map)
TreeInv ==
  /\ calls = 0 => err = "NONE"
  /\ calls > 0 => tree \in Trees /\ IsLaid(tree, inode, err)
MapInv ==
  /\ synced /\ map # NoMap => AllFound(inode, map, hash)
  /\ filled = 0 /\ map # NoMap => Entries(map) = {}
  /\ filled <= 1 => OwnVals(map)
  /\ role = "owner" /\ filled <= 1 => OwnKeys(inode, map)
  /\ role = "owner" /\ calls > 0 => filled > 0
  /\ role = "view" => filled <= 1
LookupInv == Holds /\ TreeInv /\ MapInv

\* The stronger of the two.
LEMMA OwnsVals ==
  ASSUME NEW cells, NEW m, OwnKeys(cells, m)
  PROVE  OwnVals(m)
  BY DEF OwnKeys, OwnVals

\* Types of the constants.
LEMMA BoundsNat == MaxIndex \in Nat /\ MaxExtents \in Nat /\ MaxRoom \in Nat /\ Roles \subseteq {"owner", "view"}
  BY LookupAssumption

\* In terms of the cells, what is found of the paths.
LEMMA CellsFound ==
  ASSUME NEW t \in Trees, NEW cells, NEW free, NEW P, Laid(t, cells, free, P), NEW m,
         \A c \in Procd(cells, free) : c # 0 => Found(m, Names(cells), hash, P[c])
  PROVE  AllFound(cells, m, hash)
  <1> SUFFICES ASSUME NEW c \in Cells, cells[c].name # <<>>
               PROVE  Found(m, Names(cells), hash, cells[c].name)
    BY DEF AllFound
  <1>1. Paths(t, free, P) /\ cells[0].ftype = "dir"
    BY DEF Laid
  <1>2. free \in Nat /\ 0 \in 0 .. free - 1
    BY <1>1 DEF Paths
  <1>3. c \in 0 .. free - 1
    <2>1. c \in Nat
      BY CellsNat
    <2>2. ~(c >= free)
      <3> SUFFICES ASSUME c >= free PROVE FALSE
        OBVIOUS
      <3>1. cells[c] = Zeroed
        BY DEF Laid
      <3> QED BY <3>1 DEF Zeroed
    <2> QED BY <1>2, <2>1, <2>2
  <1>4. c # 0
    <2>1. CellOK(t, cells, P, 0)
      BY <1>2 DEF Laid
    <2>2. cells[0].name = <<>>
      BY <1>1, <2>1 DEF CellOK
    <2> QED BY <2>2
  <1>5. cells[c].name = P[c] /\ cells[c].ftype # "none"
    BY <1>3, <1>4, NameOf
  <1>6. c \in Procd(cells, free)
    BY <1>3, <1>5 DEF Procd
  <1> QED BY <1>4, <1>5, <1>6

\* The invariant holds when a handle is opened.
LEMMA InitHolds ==
  ASSUME Init
  PROVE  LookupInv
  <1>1. map = NoMap \/ map = kh_init
    BY DEF Init
  <1>2. Table(kh_init, Cells) /\ Entries(kh_init) = {}
    BY EmptyTable
  <1>3. MapOK(map) /\ (map # NoMap => Entries(map) = {})
    BY <1>1, <1>2 DEF MapOK
  <1>4. inode \in [Cells -> Cell]
    <2>1. Zeroed \in Cell
      BY DEF Zeroed, Cell, NameSet
    <2> QED BY <2>1 DEF Init
  <1>5. Holds
    <2>1. 0 \in 0 .. MaxIndex
      BY BoundsNat
    <2> QED BY <1>3, <1>4, <2>1 DEF Init, Holds
  <1>6. TreeInv
    BY DEF Init, TreeInv
  <1>7. OwnVals(map) /\ OwnKeys(inode, map)
    BY <1>3 DEF OwnVals, OwnKeys
  <1>8. MapInv
    BY <1>3, <1>7 DEF Init, MapInv
  <1> QED BY <1>5, <1>6, <1>8 DEF LookupInv

\* xal_index() keeps the invariant, whether it succeeds or fails.
LEMMA IndexHolds ==
  ASSUME LookupInv, NEW t \in Trees, NEW room \in 0 .. MaxRoom, xal_index(t, room)
  PROVE  LookupInv'
  <1>1. PICK m : m = IF role = "owner" THEN map ELSE NoMap
    OBVIOUS
  <1>2. PICK w : w = Indexed(t, m, room)
    OBVIOUS
  <1>3. hash \in Hashes /\ role \in Roles /\ role \in {"owner", "view"} /\ room \in Nat /\ MapOK(map) /\ MapOK(m)
    BY <1>1, BoundsNat DEF LookupInv, Holds, MapOK
  <1>4. IndexResult(t, m, w)
    BY <1>2, <1>3, IndexResults
  <1>5. /\ calls < MaxIndex /\ tree' = t /\ calls' = calls + 1 /\ role' = role /\ hash' = hash
        /\ inode' = w.inode /\ efree' = w.efree /\ err' = w.err
        /\ IF role = "owner"
             THEN map' = w.map /\ filled' = filled + 1 /\ synced' = (w.err = "OK")
             ELSE UNCHANGED <<map, filled>> /\ synced' = FALSE
    BY <1>1, <1>2 DEF xal_index
  <1>6. /\ w.efree \in Nat /\ w.err \in {"OK", "EIO"} /\ w.inode \in [Cells -> Cell]
        /\ MapOK(w.map) /\ (w.map = NoMap <=> m = NoMap)
        /\ (m # NoMap => Entries(m) = {}) => OwnKeys(w.inode, w.map)
    BY <1>4 DEF IndexResult
  <1>7. PICK P : /\ Laid(t, w.inode, w.ifree, P)
                 /\ w.err = "OK" => Whole(t, w.inode, w.ifree, P)
                 /\ w.err = "OK" => AllCounted(t, w.inode, w.ifree, P)
                 /\ w.err = "OK" /\ w.map # NoMap =>
                      \A c \in 0 .. w.ifree - 1 : c # 0 => Found(w.map, Names(w.inode), hash, P[c])
    BY <1>4 DEF IndexResult
  <1>8. calls \in 0 .. MaxIndex /\ filled \in Nat /\ synced \in BOOLEAN
    BY DEF LookupInv, Holds
  <1>9. calls' \in 0 .. MaxIndex /\ calls' > 0
    BY <1>5, <1>8, BoundsNat
  <1>10. filled' \in Nat /\ synced' \in BOOLEAN /\ MapOK(map')
    <2>1. CASE role = "owner"
      <3>1. map' = w.map /\ filled' = filled + 1 /\ synced' = (w.err = "OK")
        BY <1>5, <2>1
      <3>2. synced' \in BOOLEAN /\ MapOK(map')
        BY <1>6, <3>1
      <3> QED BY <1>8, <3>1, <3>2
    <2>2. CASE role # "owner"
      BY <1>3, <1>5, <1>8, <2>2
    <2> QED BY <2>1, <2>2
  <1>11. Holds'
    BY <1>3, <1>5, <1>6, <1>9, <1>10 DEF Holds
  <1>12. TreeInv'
    <2>1. IsLaid(t, w.inode, w.err)
      BY <1>7 DEF IsLaid
    <2>2. IsLaid(tree', inode', err')
      BY <1>5, <2>1
    <2>3. calls' # 0
      BY <1>9
    <2> QED BY <1>5, <2>2, <2>3 DEF TreeInv
  <1>13. CASE role = "owner"
    <2>1. m = map /\ map' = w.map /\ filled' = filled + 1 /\ synced' = (w.err = "OK")
      BY <1>1, <1>5, <1>13
    <2>2. ASSUME synced', map' # NoMap PROVE AllFound(inode', map', hash')
      <3>1. \A c \in Procd(w.inode, w.ifree) : c # 0 => Found(w.map, Names(w.inode), hash, P[c])
        BY <1>7, <2>1, <2>2 DEF Procd
      <3>2. AllFound(w.inode, w.map, hash)
        BY <1>7, <3>1, CellsFound
      <3> QED BY <1>5, <2>1, <3>2
    <2>3. filled' > 0 /\ filled' # 0
      BY <1>8, <2>1
    <2>4. ASSUME filled' <= 1 PROVE OwnKeys(inode', map') /\ OwnVals(map')
      <3>1. filled = 0
        BY <1>8, <2>1, <2>4
      <3>2. m # NoMap => Entries(m) = {}
        BY <2>1, <3>1 DEF LookupInv, MapInv
      <3>3. OwnKeys(w.inode, w.map)
        BY <1>6, <3>2
      <3>4. OwnVals(w.map)
        BY <3>3, OwnsVals
      <3> QED BY <1>5, <2>1, <3>3, <3>4
    <2>5. role' # "view"
      BY <1>5, <1>13
    <2>6. MapInv'
      BY <2>2, <2>3, <2>4, <2>5 DEF MapInv
    <2> QED BY <1>11, <1>12, <2>6 DEF LookupInv
  <1>14. CASE role = "view"
    <2>1. map' = map /\ filled' = filled /\ synced' = FALSE /\ role' # "owner" /\ role' = "view"
      BY <1>5, <1>14
    <2>2. filled <= 1 /\ (filled = 0 /\ map # NoMap => Entries(map) = {}) /\ OwnVals(map)
      BY <1>14 DEF LookupInv, MapInv
    <2>3. MapInv'
      BY <2>1, <2>2 DEF MapInv
    <2> QED BY <1>11, <1>12, <2>3 DEF LookupInv
  <1> QED BY <1>3, <1>13, <1>14

\* xal_build_lookup_hashmap() keeps the invariant, also after an index that
\* failed half way.
LEMMA BuildHolds ==
  ASSUME LookupInv, NEW room \in 0 .. MaxRoom, xal_build_lookup_hashmap(room)
  PROVE  LookupInv'
  <1>1. PICK w : w = Walked(room)
    OBVIOUS
  <1>2. /\ calls > 0 /\ filled' = 1 /\ synced' = (w.err = "OK")
        /\ map' = IF w.err = "OK" THEN w.map ELSE NoMap
        /\ role' = role /\ hash' = hash /\ tree' = tree /\ inode' = inode /\ efree' = efree
        /\ err' = err /\ calls' = calls
    BY <1>1 DEF xal_build_lookup_hashmap
  <1>3. hash \in Hashes /\ room \in Nat /\ tree \in Trees /\ IsLaid(tree, inode, err)
    BY <1>2, BoundsNat DEF LookupInv, Holds, TreeInv
  <1>4. PICK free, P : Laid(tree, inode, free, P)
    BY <1>3 DEF IsLaid
  <1>5. WalkResult(inode, free, P, w)
    BY <1>1, <1>3, <1>4, WalkedIs
  <1>6. MapOK(map')
    BY <1>2, <1>5 DEF WalkResult, MapOK
  <1>7. Holds'
    <2>1. Holds
      BY DEF LookupInv
    <2>2. synced' \in BOOLEAN /\ filled' \in Nat
      BY <1>2
    <2> QED BY <1>2, <1>6, <2>1, <2>2 DEF Holds
  <1>8. TreeInv'
    BY <1>2 DEF LookupInv, TreeInv
  <1>9. OwnKeys(inode, w.map)
    BY <1>5 DEF WalkResult
  <1>10. OwnKeys(inode', map')
    BY <1>2, <1>9 DEF OwnKeys
  <1>11. OwnVals(map')
    BY <1>10, OwnsVals
  <1>12. ASSUME synced', map' # NoMap PROVE AllFound(inode', map', hash')
    <2>1. w.err = "OK" /\ map' = w.map
      BY <1>2, <1>12
    <2>2. \A c \in Procd(inode, free) : c # 0 => Found(w.map, Names(inode), hash, P[c])
      BY <1>5, <2>1 DEF WalkResult
    <2>3. AllFound(inode, w.map, hash)
      BY <1>3, <1>4, <2>2, CellsFound
    <2> QED BY <1>2, <2>1, <2>3
  <1>13. MapInv'
    BY <1>2, <1>10, <1>11, <1>12 DEF MapInv
  <1> QED BY <1>7, <1>8, <1>13 DEF LookupInv

\* A refresh keeps the invariant, also when there is no memory for a resize.
LEMMA RefreshHolds ==
  ASSUME LookupInv, NEW c \in Cells, NEW n \in 0 .. 1, NEW room \in 0 .. 1, Refresh(c, n, room)
  PROVE  LookupInv'
  <1>1. PICK v : v = ProcessFile(FileRec(inode, efree, map, room), c, n)
    OBVIOUS
  <1>2. /\ role = "owner" /\ err = "OK" /\ inode[c].ftype = "reg"
        /\ inode' = v.inode /\ efree' = v.efree /\ map' = v.map
        /\ role' = role /\ hash' = hash /\ tree' = tree /\ err' = err /\ filled' = filled
        /\ synced' = synced /\ calls' = calls
    BY <1>1 DEF Refresh, FileRec
  <1>3. hash \in Hashes /\ room \in Nat /\ n \in Nat /\ efree \in Nat /\ inode \in [Cells -> Cell] /\ MapOK(map)
        /\ calls \in Nat
    BY DEF LookupInv, Holds
  <1>4. calls > 0 /\ tree \in Trees /\ IsLaid(tree, inode, err)
    BY <1>2, <1>3 DEF LookupInv, TreeInv
  <1>5. RefreshResult(inode, map, c, v)
    BY <1>1, <1>2, <1>3, RefreshResults
  <1>6. PICK cells2, mp2, er : /\ cells2 = v.inode /\ mp2 = v.map /\ Refreshed(inode, c, cells2)
                               /\ PutEffect(map, mp2, er, cells2, c) /\ v.efree \in Nat
    BY <1>5 DEF RefreshResult
  <1>7. /\ Names(cells2) = Names(inode)
        /\ \A e \in Cells : cells2[e].name = inode[e].name /\ cells2[e].ftype = inode[e].ftype
    BY <1>3, <1>6, RefreshedSame
  <1>8. PICK free, P : /\ Laid(tree, inode, free, P)
                       /\ Whole(tree, inode, free, P) /\ AllCounted(tree, inode, free, P)
    BY <1>2, <1>4 DEF IsLaid
  <1>9. Laid(tree, cells2, free, P)
    BY <1>4, <1>6, <1>8, RefreshedLaid
  <1>10. 0 .. free - 1 \subseteq Cells
    <2>1. Paths(tree, free, P)
      BY <1>9 DEF Laid
    <2> QED BY <1>4, <2>1, PathsFit
  <1>11. Whole(tree, cells2, free, P)
    BY <1>7, <1>8, <1>10 DEF Whole
  <1>12. AllCounted(tree, cells2, free, P)
    <2> SUFFICES ASSUME NEW e \in 0 .. free - 1, cells2[e].ftype = "dir"
                 PROVE  cells2[e].count = Len(Kids(tree, P, e))
      BY DEF AllCounted
    <2>1. inode[e].ftype = "dir" /\ e \in Cells
      BY <1>7, <1>10
    <2>2. cells2[e] = inode[e]
      BY <1>2, <1>6, <2>1 DEF Refreshed
    <2> QED BY <1>8, <2>1, <2>2 DEF AllCounted
  <1>13. cells2 \in [Cells -> Cell] /\ MapOK(mp2) /\ (mp2 = NoMap <=> map = NoMap)
    BY <1>6 DEF Refreshed, PutEffect
  <1>14. Holds'
    <2>1. Holds
      BY DEF LookupInv
    <2> QED BY <1>2, <1>6, <1>13, <2>1 DEF Holds
  <1>15. TreeInv'
    <2>1. IsLaid(tree, cells2, err)
      BY <1>9, <1>11, <1>12 DEF IsLaid
    <2>2. IsLaid(tree', inode', err')
      BY <1>2, <1>6, <2>1
    <2>3. calls' # 0
      BY <1>2, <1>3, <1>4
    <2> QED BY <1>2, <1>4, <2>2, <2>3 DEF TreeInv
  <1>16. OwnKeys(inode, map) => OwnKeys(cells2, mp2)
    <2> SUFFICES ASSUME OwnKeys(inode, map) PROVE OwnKeys(cells2, mp2)
      OBVIOUS
    <2>1. OwnKeys(cells2, map)
      BY <1>7 DEF OwnKeys
    <2>2. cells2[c].ftype # "none"
      BY <1>2, <1>7
    <2> QED BY <1>4, <1>6, <1>9, <2>1, <2>2, PutOwn
  <1>17. ASSUME map # NoMap, AllFound(inode, map, hash) PROVE AllFound(cells2, mp2, hash)
    <2>1. CASE mp2 = map
      <3> SUFFICES ASSUME NEW e \in Cells, cells2[e].name # <<>>
                   PROVE  Found(map, Names(cells2), hash, cells2[e].name)
        BY <2>1 DEF AllFound
      <3>1. cells2[e].name = inode[e].name
        BY <1>7
      <3> QED BY <1>7, <1>17, <3>1 DEF AllFound
    <2>2. CASE PutIn(map, mp2, Names(cells2), hash, c, c, Cells)
      <3>1. PutEffect(map, mp2, "OK", cells2, c)
        BY <1>6, <2>2 DEF PutEffect
      <3>2. \A s \in NameSet : Found(map, Names(cells2), hash, s) => Found(mp2, Names(cells2), hash, s)
        BY <1>3, <1>13, <1>17, <3>1, PutFound
      <3> SUFFICES ASSUME NEW e \in Cells, cells2[e].name # <<>>
                   PROVE  Found(mp2, Names(cells2), hash, cells2[e].name)
        BY DEF AllFound
      <3>3. cells2[e].name = inode[e].name
        BY <1>7
      <3>4. Found(map, Names(cells2), hash, cells2[e].name)
        BY <1>7, <1>17, <3>3 DEF AllFound
      <3>5. cells2[e].name \in NameSet
        BY <1>13, CellFields
      <3> QED BY <3>2, <3>4, <3>5
    <2> QED BY <1>6, <1>17, <2>1, <2>2 DEF PutEffect
  <1>18. MapInv'
    <2>1. MapInv
      BY DEF LookupInv
    <2>2. filled > 0 /\ filled # 0
      BY <1>2, <1>3, <1>4, <2>1 DEF MapInv
    <2>3. inode' = cells2 /\ map' = mp2 /\ hash' = hash
      BY <1>2, <1>6
    <2>4. ASSUME synced', map' # NoMap PROVE AllFound(inode', map', hash')
      <3>1. AllFound(inode, map, hash) /\ map # NoMap
        BY <1>2, <1>13, <2>1, <2>3, <2>4 DEF MapInv
      <3> QED BY <1>17, <2>3, <3>1
    <2>5. ASSUME filled <= 1 PROVE OwnKeys(inode', map') /\ OwnVals(map')
      <3>1. OwnKeys(inode, map)
        BY <1>2, <2>1, <2>5 DEF MapInv
      <3>2. OwnKeys(cells2, mp2)
        BY <1>16, <3>1
      <3>3. OwnVals(mp2)
        BY <3>2, OwnsVals
      <3> QED BY <2>3, <3>2, <3>3
    <2>6. role' # "view"
      BY <1>2
    <2> QED BY <1>2, <2>2, <2>4, <2>5, <2>6 DEF MapInv
  <1> QED BY <1>14, <1>15, <1>18 DEF LookupInv

\* The tree in the pool is the one of the file system at the last
\* xal_index(), as far as that came, and the map of paths has an entry for
\* each of its inodes where a search for its name comes to it, through any
\* number of indexes, rebuilds and refreshes.
THEOREM LookupInvariant == Spec => []LookupInv
  <1>1. Init => LookupInv
    BY InitHolds
  <1>2. LookupInv /\ [Next]_vars => LookupInv'
    <2> SUFFICES ASSUME LookupInv, [Next]_vars PROVE LookupInv'
      OBVIOUS
    <2>1. CASE UNCHANGED vars
      BY <2>1 DEF vars, LookupInv, Holds, TreeInv, MapInv
    <2>2. ASSUME NEW room \in 0 .. MaxRoom, NEW t \in Trees, xal_index(t, room) PROVE LookupInv'
      BY <2>2, IndexHolds
    <2>3. ASSUME NEW room \in 0 .. MaxRoom, xal_build_lookup_hashmap(room) PROVE LookupInv'
      BY <2>3, BuildHolds
    <2>4. ASSUME NEW c \in Cells, NEW n \in 0 .. 1, NEW room \in 0 .. 1, Refresh(c, n, room) PROVE LookupInv'
      BY <2>4, RefreshHolds
    <2> QED BY <2>1, <2>2, <2>3, <2>4 DEF Next
  <1> QED BY <1>1, <1>2, PTL DEF Spec

\* Types, and that the map counts its entries right (kh_put() and kh_resize()
\* of tp/khash.h).
THEOREM LookupTypes == Spec => []TypeOK
  <1>1. LookupInv => TypeOK
    <2> SUFFICES ASSUME LookupInv PROVE TypeOK
      OBVIOUS
    <2>1. /\ role \in Roles /\ hash \in Hashes /\ tree \in Trees \cup {<<>>} /\ efree \in Nat
          /\ err \in {"NONE", "OK", "EIO"} /\ filled \in Nat /\ synced \in BOOLEAN /\ calls \in 0 .. MaxIndex
          /\ inode \in [Cells -> Cell] /\ MapOK(map)
      BY DEF LookupInv, Holds
    <2>2. \A c \in Cells : inode[c].ftype \in {"none", "dir", "reg"} /\ inode[c].idx \in Nat /\ inode[c].count \in Nat
      BY <2>1, CellFields
    <2>3. map = NoMap \/ map.size = Cardinality({i \in DOMAIN map.bucket : map.bucket[i] # NoEntry})
      <3> SUFFICES ASSUME map # NoMap
                   PROVE  map.size = Cardinality({i \in DOMAIN map.bucket : map.bucket[i] # NoEntry})
        OBVIOUS
      <3>1. Table(map, Cells)
        BY <2>1 DEF MapOK
      <3>2. DOMAIN map.bucket = 0 .. map.n_buckets - 1 /\ map.size = Cardinality(Used(map))
        BY <3>1 DEF Table
      <3> QED BY <3>2 DEF Used
    <2> QED BY <2>1, <2>2, <2>3 DEF TypeOK
  <1> QED BY <1>1, LookupInvariant, PTL

\* The loops of kh_get() and kh_put() end: whatever has accumulated in the
\* map over any number of indexes, there is an empty bucket.
THEOREM MapSearchesEnd == Spec => []SearchesEnd
  <1>1. LookupInv => SearchesEnd
    <2> SUFFICES ASSUME LookupInv, map # NoMap, map.n_buckets > 0
                 PROVE  \E i \in DOMAIN map.bucket : map.bucket[i] = NoEntry
      BY DEF SearchesEnd
    <2>1. Table(map, Cells)
      BY DEF LookupInv, Holds, MapOK
    <2>2. DOMAIN map.bucket = 0 .. map.n_buckets - 1
      BY <2>1 DEF Table
    <2> QED BY <2>1, <2>2, EmptyBucket
  <1> QED BY <1>1, LookupInvariant, PTL

\* What a search of the map returns, between two calls.
LEMMA AskedFacts ==
  ASSUME NEW p \in Asked
  PROVE  /\ p # <<>> /\ p \in Seq(Part) /\ Len(p) >= 1 /\ p[1] \in {"mnt", "beside", "out"} /\ p[1] = Head(p)
         /\ Tail(p) \in Seq(Nat) /\ Len(Tail(p)) = Len(p) - 1 /\ \A k \in 1 .. Len(p) - 1 : Tail(p)[k] = p[k + 1]
  <1>1. PICK prefix \in {"mnt", "beside", "out"} : p = <<prefix>> \o Tail(p) /\ Tail(p) \in Seq(Nat)
    BY LookupAssumption
  <1>2. PICK a, b : a = <<prefix>> /\ b = Tail(p)
    OBVIOUS
  <1>3. a \in Seq(Part) /\ Len(a) = 1 /\ a[1] = prefix
    BY <1>2 DEF Part
  <1>4. b \in Seq(Nat) /\ Len(b) \in Nat
    BY <1>1, <1>2
  <1>5. b \in Seq(Part)
    BY <1>4 DEF Part
  <1>6. p = a \o b
    BY <1>1, <1>2
  <1>7. p \in Seq(Part) /\ Len(p) = Len(a) + Len(b)
    BY <1>3, <1>5, <1>6, ConcatProperties
  <1>8. \A i \in 1 .. Len(a) + Len(b) : p[i] = IF i <= Len(a) THEN a[i] ELSE b[i - Len(a)]
    BY <1>3, <1>5, <1>6, ConcatProperties
  <1>9. Len(p) = 1 + Len(b) /\ p[1] = prefix /\ \A k \in 1 .. Len(b) : p[k + 1] = b[k]
    BY <1>3, <1>4, <1>7, <1>8
  <1>10. Len(p) >= 1 /\ p # <<>> /\ Len(b) = Len(p) - 1
    BY <1>4, <1>9
  <1>11. p[1] = Head(p)
    BY <1>7, <1>10
  <1> QED BY <1>1, <1>2, <1>4, <1>7, <1>9, <1>10, <1>11

\* What kh_get() returns for a path: a value whose key has that name now.
LEMMA MapAnswer ==
  ASSUME LookupInv, map # NoMap, NEW p \in Asked, NEW v, v = kh_get(map, Names(inode), hash, p)
  PROVE  /\ v # -1 => \E c \in Cells : inode[c].name = p /\ (filled <= 1 => v = c)
         /\ Found(map, Names(inode), hash, p) => v # -1
  <1>1. Table(map, Cells) /\ hash \in Hashes /\ inode \in [Cells -> Cell]
    BY DEF LookupInv, Holds, MapOK
  <1>2. hash[p] \in Nat /\ \A c \in Cells : Names(inode)[c] = inode[c].name
    BY <1>1, NamesHash
  <1>3. Cells \subseteq Nat
    BY CellsNat
  <1>4. ASSUME v # -1 PROVE \E c \in Cells : inode[c].name = p /\ (filled <= 1 => v = c)
    <2>1. kh_get(map, Names(inode), hash, p) # -1
      BY <1>4
    <2>2. PICK e \in Entries(map) : Names(inode)[e.key] = p /\ e.val = kh_get(map, Names(inode), hash, p)
      BY <1>1, <1>2, <2>1, GetFinds
    <2>3. e.key \in Cells
      <3>1. PICK i \in 0 .. map.n_buckets - 1 : e = map.bucket[i] /\ map.bucket[i] # NoEntry
        BY <2>2 DEF Entries, Used
      <3>2. map.bucket[i] \in Bucket(Cells)
        BY <1>1 DEF Table
      <3>3. e \in Entry(Cells)
        BY <3>1, <3>2 DEF Bucket
      <3> QED BY <3>3 DEF Entry
    <2>4. inode[e.key].name = p
      BY <1>2, <2>2, <2>3
    <2>5. filled <= 1 => v = e.key
      <3> SUFFICES ASSUME filled <= 1 PROVE v = e.key
        OBVIOUS
      <3>1. OwnVals(map)
        BY DEF LookupInv, MapInv
      <3>2. e.val = e.key
        BY <2>2, <3>1 DEF OwnVals
      <3> QED BY <2>2, <3>2
    <2> QED BY <2>3, <2>4, <2>5
  <1>5. Found(map, Names(inode), hash, p) => v # -1
    BY <1>1, <1>2, <1>3, FoundGet
  <1> QED BY <1>4, <1>5

\* The names of the inodes are the paths of the tree.
LEMMA NameInTree ==
  ASSUME NEW t \in Trees, NEW cells, NEW free, NEW P, Laid(t, cells, free, P),
         NEW c \in Cells, cells[c].name # <<>>
  PROVE  /\ c \in 0 .. free - 1 /\ c # 0 /\ P[c] = cells[c].name /\ P[c] \in DOMAIN t
         /\ cells[c].ftype = IF t[P[c]] = -1 THEN "dir" ELSE "reg"
  <1>1. Paths(t, free, P) /\ cells[0].ftype = "dir"
    BY DEF Laid
  <1>2. free \in Nat /\ 0 \in 0 .. free - 1
    BY <1>1 DEF Paths
  <1>3. c \in 0 .. free - 1
    <2>1. c \in Nat
      BY CellsNat
    <2>2. ~(c >= free)
      <3> SUFFICES ASSUME c >= free PROVE FALSE
        OBVIOUS
      <3>1. cells[c] = Zeroed
        BY DEF Laid
      <3> QED BY <3>1 DEF Zeroed
    <2> QED BY <1>2, <2>1, <2>2
  <1>4. c # 0
    <2>1. CellOK(t, cells, P, 0)
      BY <1>2 DEF Laid
    <2>2. cells[0].name = <<>>
      BY <1>1, <2>1 DEF CellOK
    <2> QED BY <2>2
  <1>5. cells[c].name = P[c] /\ cells[c].ftype # "none" /\ P[c] \in DOMAIN t
    BY <1>3, <1>4, NameOf
  <1>6. cells[c].ftype = IF P[c] \in Dirs(t) THEN "dir" ELSE "reg"
    <2>1. CellOK(t, cells, P, c)
      BY <1>3 DEF Laid
    <2> QED BY <1>5, <2>1 DEF CellOK
  <1>7. P[c] # Mountpoint
    BY <1>5, InDirectory
  <1>8. P[c] \in Dirs(t) <=> t[P[c]] = -1
    BY <1>5, <1>7 DEF Dirs
  <1> QED BY <1>3, <1>4, <1>5, <1>6, <1>8

\* Every path of the tree is the name of an inode once an index is complete.
LEMMA NameOfPath ==
  ASSUME NEW t \in Trees, NEW cells, NEW free, NEW P, Laid(t, cells, free, P), Whole(t, cells, free, P),
         NEW p \in DOMAIN t
  PROVE  \E c \in Cells : c \in 0 .. free - 1 /\ c # 0 /\ P[c] = p /\ cells[c].name = p /\ p # <<>>
  <1>1. PICK c \in 0 .. free - 1 : c # 0 /\ P[c] = p
    BY DEF Whole
  <1>2. cells[c].ftype # "none"
    BY DEF Whole
  <1>3. cells[c].name = p /\ p # <<>>
    BY <1>1, <1>2, NameOf
  <1>4. 0 .. free - 1 \subseteq Cells
    <2>1. Paths(t, free, P)
      BY DEF Laid
    <2> QED BY <2>1, PathsFit
  <1> QED BY <1>1, <1>3, <1>4

\* After an index that succeeded the tree is complete.
LEMMA IndexedState ==
  ASSUME LookupInv, err = "OK"
  PROVE  /\ tree \in Trees
         /\ \E free, P : /\ Laid(tree, inode, free, P)
                         /\ Whole(tree, inode, free, P) /\ AllCounted(tree, inode, free, P)
  <1>1. calls \in Nat
    BY DEF LookupInv, Holds
  <1>2. calls > 0
    BY <1>1 DEF LookupInv, TreeInv
  <1>3. tree \in Trees /\ IsLaid(tree, inode, err)
    BY <1>2 DEF LookupInv, TreeInv
  <1> QED BY <1>3 DEF IsLaid

\* A map in step with the tree finds exactly its paths.
LEMMA MapFinds ==
  ASSUME LookupInv, err = "OK", map # NoMap, synced, NEW p \in Asked
  PROVE  kh_get(map, Names(inode), hash, p) # -1 <=> Exists(p)
  <1>1. PICK v : v = kh_get(map, Names(inode), hash, p)
    OBVIOUS
  <1>2. tree \in Trees
    BY IndexedState
  <1>3. PICK free, P : Laid(tree, inode, free, P) /\ Whole(tree, inode, free, P)
    BY IndexedState
  <1>4. ASSUME v # -1 PROVE p \in DOMAIN tree
    <2>1. PICK c \in Cells : inode[c].name = p
      BY <1>1, <1>4, MapAnswer
    <2>2. inode[c].name # <<>>
      BY <2>1, AskedFacts
    <2> QED BY <1>2, <1>3, <2>1, <2>2, NameInTree
  <1>5. ASSUME p \in DOMAIN tree PROVE v # -1
    <2>1. PICK c \in Cells : inode[c].name = p /\ p # <<>>
      BY <1>2, <1>3, <1>5, NameOfPath
    <2>2. AllFound(inode, map, hash)
      BY DEF LookupInv, MapInv
    <2>3. Found(map, Names(inode), hash, p)
      BY <2>1, <2>2 DEF AllFound
    <2> QED BY <1>1, <2>3, MapAnswer
  <1> QED BY <1>1, <1>4, <1>5 DEF Exists

\* search_by_map() finds a path if and only if it is in the tree, however
\* many indexes have filled the map and whenever it was resized, for every
\* hash function.
THEOREM MapFindsWholeTree == Spec => []MapFindsTree
  <1>1. LookupInv => MapFindsTree
    <2> SUFFICES ASSUME LookupInv, err = "OK", map # NoMap, synced, NEW p \in Asked
                 PROVE  search_by_map(p).err = "OK" <=> Exists(p)
      BY DEF MapFindsTree
    <2>1. kh_get(map, Names(inode), hash, p) # -1 <=> Exists(p)
      BY MapFinds
    <2>2. search_by_map(p).err = IF kh_get(map, Names(inode), hash, p) = -1 THEN "EINVAL" ELSE "OK"
      BY DEF search_by_map
    <2> QED BY <2>1, <2>2
  <1> QED BY <1>1, LookupInvariant, PTL

\* What a view finds in its map is the path it was asked for, although the
\* tree under it may have been indexed anew since (xal_from_pools(),
\* xal_build_lookup_hashmap()).
THEOREM ViewIsNeverWrong == Spec => []ViewMapNeverWrong
  <1>1. LookupInv => ViewMapNeverWrong
    <2> SUFFICES ASSUME LookupInv, role = "view", map # NoMap, NEW p \in Asked, search_by_map(p).err = "OK"
                 PROVE  inode[search_by_map(p).val].name = p
      BY DEF ViewMapNeverWrong
    <2>1. PICK v : v = kh_get(map, Names(inode), hash, p)
      OBVIOUS
    <2>2. search_by_map(p) = [err |-> IF v = -1 THEN "EINVAL" ELSE "OK", val |-> v]
      BY <2>1 DEF search_by_map
    <2>3. v # -1 /\ search_by_map(p).val = v
      BY <2>2
    <2>4. filled <= 1
      BY DEF LookupInv, MapInv
    <2>5. PICK c \in Cells : inode[c].name = p /\ v = c
      BY <2>1, <2>3, <2>4, MapAnswer
    <2> QED BY <2>3, <2>5
  <1> QED BY <1>1, LookupInvariant, PTL

(* bsearch() in the array of a directory.                                   *)
Sorted(idx, n) ==
  /\ \A j \in 0 .. n - 1 : Basename(idx + j) \in Nat
  /\ \A i, j \in 0 .. n - 1 : i < j => Basename(idx + i) < Basename(idx + j)
Spans == [l : Nat, u : Nat, at : Int]
\* After k rounds: what is searched for has been found, or can only be
\* between l and u, which have come closer by k.
Searched(s, idx, n, c, k) ==
  \/ /\ s.at = -1 /\ s.l <= s.u /\ s.u <= n
     /\ s.l = s.u \/ (s.u - s.l) + k <= n
     /\ \A j \in 0 .. n - 1 : Basename(idx + j) = c => s.l <= j /\ j < s.u
  \/ /\ s.l = s.u
     /\ \E j \in 0 .. n - 1 : s.at = idx + j /\ Basename(idx + j) = c

\* Types.
LEMMA NarrowIn ==
  ASSUME NEW s \in Spans, NEW idx \in Nat, NEW c
  PROVE  Narrow(s, idx, c) \in Spans
  <1>1. PICK l, u \in Nat : l = s.l /\ u = s.u
    BY DEF Spans
  <1>2. PICK a \in Int : a = s.at
    BY DEF Spans
  <1>3. s = [l |-> l, u |-> u, at |-> a]
    BY <1>1, <1>2 DEF Spans
  <1>4. PICK mid \in Nat : mid = (l + u) \div 2
    BY <1>1
  <1>5. mid + 1 \in Nat /\ idx + mid \in Int
    BY <1>4
  <1>6. [l |-> l, u |-> mid, at |-> a] \in Spans /\ [l |-> mid + 1, u |-> u, at |-> a] \in Spans
        /\ [l |-> mid, u |-> mid, at |-> idx + mid] \in Spans
    BY <1>1, <1>2, <1>4, <1>5 DEF Spans
  <1>7. [s EXCEPT !.u = mid] = [l |-> l, u |-> mid, at |-> a] /\ [s EXCEPT !.l = mid + 1] = [l |-> mid + 1, u |-> u, at |-> a]
    BY <1>3
  <1> QED BY <1>1, <1>4, <1>6, <1>7 DEF Narrow

\* A comparison halves the part that is left.
LEMMA NarrowStep ==
  ASSUME NEW idx \in Nat, NEW n \in Nat, Sorted(idx, n), NEW c \in Nat, NEW k \in Nat,
         NEW s \in Spans, Searched(s, idx, n, c, k)
  PROVE  Searched(Narrow(s, idx, c), idx, n, c, k + 1)
  <1>1. PICK l, u \in Nat : l = s.l /\ u = s.u
    BY DEF Spans
  <1>2. PICK a \in Int : a = s.at
    BY DEF Spans
  <1>3. s = [l |-> l, u |-> u, at |-> a]
    BY <1>1, <1>2 DEF Spans
  <1>4. CASE l >= u
    <2>1. Narrow(s, idx, c) = s
      BY <1>1, <1>4 DEF Narrow
    <2>2. CASE a = -1 /\ l <= u /\ u <= n /\ \A j \in 0 .. n - 1 : Basename(idx + j) = c => l <= j /\ j < u
      <3>1. l = u
        BY <1>1, <1>4, <2>2
      <3> QED BY <1>1, <1>2, <2>1, <2>2, <3>1 DEF Searched
    <2>3. CASE l = u /\ \E j \in 0 .. n - 1 : a = idx + j /\ Basename(idx + j) = c
      BY <1>1, <1>2, <2>1, <2>3 DEF Searched
    <2> QED BY <1>1, <1>2, <2>2, <2>3 DEF Searched
  <1>5. CASE l < u
    <2>1. a = -1 /\ u <= n /\ (u - l) + k <= n /\ \A j \in 0 .. n - 1 : Basename(idx + j) = c => l <= j /\ j < u
      BY <1>1, <1>2, <1>5 DEF Searched
    <2>2. PICK mid \in Nat : mid = (l + u) \div 2 /\ l <= mid /\ mid < u
      BY <1>1, <1>5
    <2>3. mid \in 0 .. n - 1
      BY <2>1, <2>2
    <2>4. PICK b \in Nat : b = Basename(idx + mid)
      BY <2>3 DEF Sorted
    <2>5. Narrow(s, idx, c) = IF c < b THEN [s EXCEPT !.u = mid]
                              ELSE IF c > b THEN [s EXCEPT !.l = mid + 1]
                              ELSE [l |-> mid, u |-> mid, at |-> idx + mid]
      <3>1. ~(s.l >= s.u)
        BY <1>1, <1>5
      <3> QED BY <1>1, <2>2, <2>4, <3>1 DEF Narrow
    <2>6. CASE c < b
      <3>1. Narrow(s, idx, c) = [l |-> l, u |-> mid, at |-> -1]
        BY <1>3, <2>1, <2>5, <2>6
      <3>2. ASSUME NEW j \in 0 .. n - 1, Basename(idx + j) = c PROVE l <= j /\ j < mid
        <4>1. l <= j
          BY <2>1, <3>2
        <4>2. ~(mid < j) /\ mid # j
          <5>1. mid < j => b < Basename(idx + j)
            BY <2>3, <2>4 DEF Sorted
          <5> QED BY <2>4, <2>6, <3>2, <5>1
        <4> QED BY <2>2, <4>1, <4>2
      <3>3. (mid - l) + (k + 1) <= n
        BY <2>1, <2>2
      <3>4. mid <= n
        BY <2>3
      <3> QED BY <2>2, <3>1, <3>2, <3>3, <3>4 DEF Searched
    <2>7. CASE c > b
      <3>1. Narrow(s, idx, c) = [l |-> mid + 1, u |-> u, at |-> -1]
        <4>1. ~(c < b)
          BY <2>7
        <4> QED BY <1>3, <2>1, <2>5, <2>7, <4>1
      <3>2. ASSUME NEW j \in 0 .. n - 1, Basename(idx + j) = c PROVE mid + 1 <= j /\ j < u
        <4>1. j < u
          BY <2>1, <3>2
        <4>2. ~(j < mid) /\ mid # j
          <5>1. j < mid => Basename(idx + j) < b
            BY <2>3, <2>4 DEF Sorted
          <5> QED BY <2>4, <2>7, <3>2, <5>1
        <4> QED BY <2>2, <4>1, <4>2
      <3>3. (u - (mid + 1)) + (k + 1) <= n
        BY <2>1, <2>2
      <3>4. mid + 1 <= u
        BY <2>2
      <3> QED BY <2>1, <3>1, <3>2, <3>3, <3>4 DEF Searched
    <2>8. CASE c = b
      <3>1. ~(c < b) /\ ~(c > b)
        BY <2>8
      <3>2. Narrow(s, idx, c) = [l |-> mid, u |-> mid, at |-> idx + mid]
        BY <2>5, <3>1
      <3> QED BY <2>3, <2>4, <2>8, <3>2 DEF Searched
    <2>9. c < b \/ c > b \/ c = b
      OBVIOUS
    <2> QED BY <2>6, <2>7, <2>8, <2>9
  <1> QED BY <1>1, <1>4, <1>5

\* What bsearch() returns, for any array and any component.
BsearchFound(idx, n, c, x) ==
  \/ \E j \in 0 .. n - 1 : x = idx + j /\ Basename(idx + j) = c
  \/ x = -1 /\ \A j \in 0 .. n - 1 : Basename(idx + j) # c

\* bsearch() finds what is there.
LEMMA BsearchIs ==
  ASSUME NEW idx \in Nat, NEW n \in Nat, NEW c
  PROVE  /\ Bsearch(idx, n, c) \in Int
         /\ Sorted(idx, n) /\ c \in Nat => BsearchFound(idx, n, c, Bsearch(idx, n, c))
  <1> DEFINE a == [l |-> 0, u |-> n, at |-> -1]
             S == Spans
             F(f) == f = [k \in Nat |-> IF k = 0 THEN a ELSE Narrow(f[k - 1], idx, c)]
             step == [k \in Nat |-> [x \in S |-> Narrow(x, idx, c)]]
             r == CHOOSE f : F(f)
  <1>1. Bsearch(idx, n, c) = r[n].at
    BY DEF Bsearch
  <1>2. a \in S
    BY DEF Spans
  <1>3. ASSUME NEW x \in S PROVE Narrow(x, idx, c) \in S
    BY NarrowIn
  <1>4. Searched(a, idx, n, c, 0)
    BY DEF Searched
  <1> HIDE DEF S, r, a
  <1>5. step \in [Nat -> [S -> S]]
    BY <1>3
  <1>6. PICK g : Recurs(g, S, a, step)
    <2> HIDE DEF step
    <2> QED BY <1>2, <1>5, Recursion
  <1>7. g \in [Nat -> S] /\ g[0] = a /\ \A k \in Nat : g[k + 1] = Narrow(g[k], idx, c)
    BY <1>6 DEF Recurs
  <1>8. F(g)
    <2>1. ASSUME NEW k \in Nat PROVE g[k] = IF k = 0 THEN a ELSE Narrow(g[k - 1], idx, c)
      <3>1. CASE k # 0
        <4>1. k - 1 \in Nat /\ (k - 1) + 1 = k
          BY <3>1
        <4> QED BY <1>7, <3>1, <4>1
      <3> QED BY <1>7, <3>1
    <2> QED BY <1>7, <2>1
  <1>9. F(r)
    <2> HIDE DEF F
    <2> QED BY <1>8 DEF r
  <1>10. r[0] = a /\ \A k \in Nat : r[k + 1] = Narrow(r[k], idx, c)
    <2>1. \A k \in Nat : k + 1 \in Nat /\ k + 1 # 0 /\ (k + 1) - 1 = k
      OBVIOUS
    <2> QED BY <1>9, <2>1
  <1> HIDE DEF F
  <1> DEFINE T == {k \in Nat : r[k] \in S /\ (Sorted(idx, n) /\ c \in Nat => Searched(r[k], idx, n, c, k))}
  <1>11. 0 \in T
    BY <1>2, <1>4, <1>10
  <1>12. ASSUME NEW k \in Nat, k \in T PROVE k + 1 \in T
    <2>1. r[k] \in S /\ (Sorted(idx, n) /\ c \in Nat => Searched(r[k], idx, n, c, k)) /\ r[k + 1] = Narrow(r[k], idx, c)
      BY <1>10, <1>12
    <2>2. r[k + 1] \in S
      BY <1>3, <2>1
    <2>3. ASSUME Sorted(idx, n), c \in Nat PROVE Searched(r[k + 1], idx, n, c, k + 1)
      BY <2>1, <2>3, NarrowStep DEF S
    <2> QED BY <2>2, <2>3
  <1>13. n \in T
    <2> HIDE DEF T
    <2> QED BY <1>11, <1>12, Induction
  <1>14. PICK s : s = r[n]
    OBVIOUS
  <1>15. s \in S /\ (Sorted(idx, n) /\ c \in Nat => Searched(s, idx, n, c, n))
    BY <1>13, <1>14
  <1>16. s.at \in Int /\ s.l \in Nat /\ s.u \in Nat
    BY <1>15 DEF S, Spans
  <1>17. ASSUME Sorted(idx, n), c \in Nat PROVE BsearchFound(idx, n, c, s.at)
    <2>1. Searched(s, idx, n, c, n)
      BY <1>15, <1>17
    <2>2. CASE /\ s.at = -1 /\ s.l <= s.u /\ (s.l = s.u \/ (s.u - s.l) + n <= n)
               /\ \A j \in 0 .. n - 1 : Basename(idx + j) = c => s.l <= j /\ j < s.u
      <3>1. s.l = s.u
        BY <1>16, <2>2
      <3>2. \A j \in 0 .. n - 1 : Basename(idx + j) # c
        BY <1>16, <2>2, <3>1
      <3> QED BY <2>2, <3>2 DEF BsearchFound
    <2>3. CASE \E j \in 0 .. n - 1 : s.at = idx + j /\ Basename(idx + j) = c
      BY <2>3 DEF BsearchFound
    <2> QED BY <2>1, <2>2, <2>3 DEF Searched
  <1> QED BY <1>1, <1>14, <1>16, <1>17

(* search_by_traversal()                                                    *)
Pre(p, m) == SubSeq(p, 1, m)
PreIs(p, m, q) ==
  q \in Seq(Part) /\ Len(q) = m /\ \A i \in 1 .. m : q[i] = p[i]

\* The first components of a path.
LEMMA PreFacts ==
  ASSUME NEW p \in Seq(Part), NEW m \in 1 .. Len(p)
  PROVE  PreIs(p, m, Pre(p, m))
  <1>1. m \in Nat /\ Len(p) \in Nat /\ m >= 1 /\ m <= Len(p)
    OBVIOUS
  <1>2. \A i \in 1 .. m : i \in 1 .. Len(p) /\ p[i] \in Part
    BY <1>1
  <1>3. /\ SubSeq(p, 1, m) \in Seq(Part) /\ Len(SubSeq(p, 1, m)) = m
        /\ \A i \in 1 .. m : SubSeq(p, 1, m)[i] = p[i]
    BY <1>1, <1>2
  <1> QED BY <1>3 DEF Pre, PreIs

\* There is one such sequence.
LEMMA PreEqual ==
  ASSUME NEW p, NEW m \in Nat, NEW q, NEW r, PreIs(p, m, q), PreIs(p, m, r)
  PROVE  q = r
  <1>1. /\ q \in Seq(Part) /\ r \in Seq(Part) /\ Len(q) = Len(r)
        /\ \A i \in 1 .. Len(q) : q[i] = r[i]
    BY DEF PreIs
  <1> QED BY <1>1, SeqEqual

\* The directory of the first components are those before the last of them.
LEMMA PreFront ==
  ASSUME NEW p, NEW m \in Nat, m >= 1, NEW q, PreIs(p, m + 1, q)
  PROVE  PreIs(p, m, Front(q)) /\ Last(q) = p[m + 1]
  <1>1. q \in Seq(Part) /\ Len(q) = m + 1 /\ (m + 1) - 1 = m
    BY DEF PreIs
  <1>2. Front(q) = SubSeq(q, 1, m)
    BY <1>1 DEF Front
  <1>3. m \in 1 .. Len(q)
    BY <1>1
  <1>4. PreIs(q, m, Front(q))
    BY <1>1, <1>2, <1>3, PreFacts DEF Pre
  <1>5. PreIs(p, m, Front(q))
    BY <1>4 DEF PreIs
  <1>6. Last(q) = p[m + 1]
    BY <1>1 DEF Last, PreIs
  <1> QED BY <1>5, <1>6

\* The array of a directory once an index is complete.
ArrayOf(t, cells, free, P, d, i, n) ==
  /\ i = cells[d].idx /\ n = cells[d].count /\ n = Len(Kids(t, P, d))
  /\ \A j \in 0 .. n - 1 : /\ i + j \in 0 .. free - 1 /\ i + j # 0
                           /\ P[i + j] = Kids(t, P, d)[j + 1] /\ P[i + j] \in DOMAIN t
                           /\ Basename(i + j) = Last(P[i + j])

\* The array is in the order of names, as bsearch() needs it.
LEMMA ArraySorted ==
  ASSUME NEW t \in Trees, NEW free, NEW P, Laid(t, inode, free, P), Whole(t, inode, free, P),
         AllCounted(t, inode, free, P), NEW d \in 0 .. free - 1, inode[d].ftype = "dir"
  PROVE  \E i, n \in Nat : ArrayOf(t, inode, free, P, d, i, n) /\ Sorted(i, n)
  <1>1. PICK i, n \in Nat : i = inode[d].idx /\ n = inode[d].count /\ n = Len(Kids(t, P, d))
    BY DirCounts DEF AllCounted
  <1>2. DirOK(t, inode, free, P, d) /\ free \in Nat /\ d \in Nat
    BY DirCounts
  <1>3. d < i /\ i + n <= free
    BY <1>1, <1>2 DEF DirOK
  <1>4. PICK L : L = Kids(t, P, d)
    OBVIOUS
  <1>5. Listed(L, t, P[d])
    BY <1>4, KidsFacts
  <1>6. 0 .. free - 1 \subseteq Cells
    <2>1. Paths(t, free, P)
      BY DEF Laid
    <2> QED BY <2>1, PathsFit
  <1>7. ASSUME NEW j \in 0 .. n - 1
        PROVE  /\ i + j \in 0 .. free - 1 /\ i + j # 0 /\ j + 1 \in 1 .. Len(L)
               /\ P[i + j] = L[j + 1] /\ P[i + j] \in DOMAIN t
               /\ Basename(i + j) = Last(P[i + j])
    <2>1. i + j \in 0 .. free - 1 /\ i + j # 0 /\ j + 1 \in 1 .. n
      BY <1>2, <1>3
    <2>2. P[i + j] = L[j + 1]
      BY <1>1, <1>2, <1>4 DEF DirOK
    <2>3. inode[i + j].ftype # "none"
      BY <2>1 DEF Whole
    <2>4. inode[i + j].name = P[i + j] /\ P[i + j] # <<>> /\ P[i + j] \in DOMAIN t
      BY <2>1, <2>3, NameOf
    <2>5. i + j \in Cells
      BY <1>6, <2>1
    <2>6. InodeAt(i + j) = inode[i + j]
      BY <2>5 DEF InodeAt
    <2>7. Basename(i + j) = Last(P[i + j])
      BY <2>4, <2>6 DEF Basename
    <2> QED BY <1>1, <1>4, <2>1, <2>2, <2>4, <2>7
  <1>8. Sorted(i, n)
    <2>1. ASSUME NEW j \in 0 .. n - 1 PROVE Basename(i + j) \in Nat
      <3>1. IsPath(P[i + j])
        BY <1>7, PathType
      <3>2. Last(P[i + j]) \in Nat
        BY <3>1, FrontLast
      <3> QED BY <1>7, <3>2
    <2>2. ASSUME NEW j \in 0 .. n - 1, NEW k \in 0 .. n - 1, j < k
          PROVE  Basename(i + j) < Basename(i + k)
      <3>1. j + 1 < k + 1
        BY <2>2
      <3>2. Last(L[j + 1]) < Last(L[k + 1])
        BY <1>5, <1>7, <3>1 DEF Listed
      <3> QED BY <1>7, <3>2
    <2> QED BY <2>1, <2>2 DEF Sorted
  <1>9. ArrayOf(t, inode, free, P, d, i, n)
    BY <1>1, <1>4, <1>7 DEF ArrayOf
  <1> QED BY <1>8, <1>9

\* One component further.
Stands(t, free, P, q, x) ==
  \/ q \in DOMAIN t /\ x \in 0 .. free - 1 /\ x # 0 /\ P[x] = q
  \/ q \notin DOMAIN t /\ x = -1

\* A component further, the inode of the longer path is found, or there is
\* none.
LEMMA DescendStep ==
  ASSUME NEW t \in Trees, NEW free, NEW P, Laid(t, inode, free, P), Whole(t, inode, free, P),
         AllCounted(t, inode, free, P), NEW d \in 0 .. free - 1, inode[d].ftype = "dir",
         NEW p, NEW m \in Nat, m >= 1, PreIs(p, m, P[d]), p[m + 1] \in Nat, NEW q, PreIs(p, m + 1, q),
         NEW x, x = Bsearch(InodeAt(d).idx, InodeAt(d).count, p[m + 1])
  PROVE  Stands(t, free, P, q, x)
  <1>1. PICK i, n \in Nat : ArrayOf(t, inode, free, P, d, i, n) /\ Sorted(i, n)
    BY ArraySorted
  <1>2. PICK L : L = Kids(t, P, d)
    OBVIOUS
  <1>3. /\ i = inode[d].idx /\ n = inode[d].count /\ n = Len(L)
        /\ \A j \in 0 .. n - 1 : /\ i + j \in 0 .. free - 1 /\ i + j # 0
                                 /\ P[i + j] = L[j + 1] /\ P[i + j] \in DOMAIN t
                                 /\ Basename(i + j) = Last(P[i + j])
    BY <1>1, <1>2 DEF ArrayOf
  <1>4. Listed(L, t, P[d])
    BY <1>2, KidsFacts
  <1>5. PICK c \in Nat : c = p[m + 1]
    OBVIOUS
  <1>6. d \in Cells
    <2>1. Paths(t, free, P)
      BY DEF Laid
    <2>2. 0 .. free - 1 \subseteq Cells
      BY <2>1, PathsFit
    <2> QED BY <2>2
  <1>7. x = Bsearch(i, n, c)
    BY <1>3, <1>5, <1>6 DEF InodeAt
  <1>8. BsearchFound(i, n, c, x)
    BY <1>1, <1>7, BsearchIs
  <1>9. PreIs(p, m, Front(q)) /\ Last(q) = c
    BY <1>5, PreFront
  <1>10. Front(q) = P[d]
    BY <1>9, PreEqual
  <1>11. CASE \E j \in 0 .. n - 1 : x = i + j /\ Basename(i + j) = c
    <2>1. PICK j \in 0 .. n - 1 : x = i + j /\ Basename(i + j) = c
      BY <1>11
    <2>2. PICK y : y = P[x]
      OBVIOUS
    <2>3. y \in DOMAIN t /\ Last(y) = c /\ y = L[j + 1] /\ x \in 0 .. free - 1 /\ x # 0
      BY <1>3, <2>1, <2>2
    <2>4. j + 1 \in 1 .. Len(L)
      BY <1>3
    <2>5. Front(y) = P[d]
      BY <1>4, <2>3, <2>4 DEF Listed
    <2>6. IsPath(y)
      BY <2>3, PathType
    <2>7. /\ y \in Seq(Part) /\ Len(y) \in Nat /\ Len(Front(y)) = Len(y) - 1
          /\ \A k \in 1 .. Len(y) - 1 : Front(y)[k] = y[k]
          /\ Last(y) = y[Len(y)]
      BY <2>6, FrontLast DEF IsPath
    <2>8. Len(P[d]) = m /\ \A k \in 1 .. m : P[d][k] = p[k]
      BY DEF PreIs
    <2>9. Len(y) = m + 1
      BY <2>5, <2>7, <2>8
    <2>10. ASSUME NEW k \in 1 .. m + 1 PROVE y[k] = p[k]
      <3>1. CASE k = m + 1
        BY <1>5, <2>3, <2>7, <2>9, <3>1
      <3>2. CASE k # m + 1
        <4>1. k \in 1 .. m /\ k \in 1 .. Len(y) - 1
          BY <2>9, <3>2
        <4> QED BY <2>5, <2>7, <2>8, <4>1
      <3> QED BY <3>1, <3>2
    <2>11. PreIs(p, m + 1, y)
      BY <2>7, <2>9, <2>10 DEF PreIs
    <2>12. y = q
      BY <2>11, PreEqual
    <2> QED BY <2>2, <2>3, <2>12 DEF Stands
  <1>12. CASE x = -1 /\ \A j \in 0 .. n - 1 : Basename(i + j) # c
    <2>1. ASSUME q \in DOMAIN t PROVE FALSE
      <3>1. PICK k \in 1 .. Len(L) : L[k] = q
        BY <1>4, <1>10, <2>1 DEF Listed
      <3>2. k - 1 \in 0 .. n - 1 /\ (k - 1) + 1 = k
        BY <1>3
      <3>3. P[i + (k - 1)] = q /\ Basename(i + (k - 1)) = Last(q)
        BY <1>3, <3>1, <3>2
      <3> QED BY <1>9, <1>12, <3>2, <3>3
    <2> QED BY <1>12, <2>1 DEF Stands
  <1> QED BY <1>8, <1>11, <1>12 DEF BsearchFound

Complete(t, free, P) ==
  Laid(t, inode, free, P) /\ Whole(t, inode, free, P) /\ AllCounted(t, inode, free, P)
\* No component but the last is that of a file.
NoFile(t, p) == \A k \in 2 .. Len(p) - 1 : Pre(p, k) \in DOMAIN t => ~(t[Pre(p, k)] >= 0)
StandsAt(t, free, P, p, m, x) == IF m = 1 THEN x = 0 ELSE Stands(t, free, P, Pre(p, m), x)
NextAt(list, k, x) == IF x = -1 THEN -1 ELSE Bsearch(InodeAt(x).idx, InodeAt(x).count, list[k])

\* Types.
LEMMA GoesInt ==
  ASSUME inode \in [Cells -> Cell], NEW list, NEW k, NEW x \in Int
  PROVE  NextAt(list, k, x) \in Int
  <1>1. Zeroed \in Cell
    BY DEF Zeroed, Cell, NameSet
  <1>2. InodeAt(x) \in Cell
    BY <1>1 DEF InodeAt
  <1>3. PICK i, n \in Nat : i = InodeAt(x).idx /\ n = InodeAt(x).count
    BY <1>2, CellFields
  <1>4. Bsearch(i, n, list[k]) \in Int
    BY BsearchIs
  <1> QED BY <1>3, <1>4 DEF NextAt

\* The same for the whole state of the descent, past a component that was not
\* found.
LEMMA StandsNext ==
  ASSUME NEW t \in Trees, NEW free, NEW P, Complete(t, free, P), NEW p \in Asked, p[1] = "mnt",
         NoFile(t, p), NEW m \in 1 .. Len(p) - 1, NEW x, StandsAt(t, free, P, p, m, x)
  PROVE  StandsAt(t, free, P, p, m + 1, NextAt(Tail(p), m, x))
  <1>1. Laid(t, inode, free, P) /\ Whole(t, inode, free, P) /\ AllCounted(t, inode, free, P)
    BY DEF Complete
  <1>2. p \in Seq(Part) /\ Len(p) \in Nat /\ Tail(p) \in Seq(Nat) /\ Len(Tail(p)) = Len(p) - 1 /\ Tail(p)[m] = p[m + 1]
    BY AskedFacts
  <1>3. m \in Nat /\ m >= 1 /\ m \in 1 .. Len(p) /\ m + 1 \in 1 .. Len(p) /\ m + 1 # 1 /\ m \in 1 .. Len(Tail(p))
    BY <1>2
  <1>4. p[m + 1] \in Nat
    BY <1>2, <1>3
  <1>5. PICK q : q = Pre(p, m + 1)
    OBVIOUS
  <1>6. PreIs(p, m + 1, q) /\ PreIs(p, m, Pre(p, m))
    BY <1>2, <1>3, <1>5, PreFacts
  <1>7. PICK y : y = NextAt(Tail(p), m, x)
    OBVIOUS
  <1>8. SUFFICES Stands(t, free, P, q, y)
    BY <1>3, <1>5, <1>7 DEF StandsAt
  <1>9. ASSUME x \in 0 .. free - 1, inode[x].ftype = "dir", PreIs(p, m, P[x])
        PROVE  Stands(t, free, P, q, y)
    <2>1. x # -1
      <3>1. free \in Nat
        BY <1>1 DEF Laid, Paths
      <3> QED BY <1>9, <3>1
    <2>2. y = Bsearch(InodeAt(x).idx, InodeAt(x).count, p[m + 1])
      BY <1>2, <1>7, <2>1 DEF NextAt
    <2> QED BY <1>1, <1>3, <1>4, <1>6, <1>9, <2>2, DescendStep
  <1>10. CASE m = 1
    <2>1. x = 0
      BY <1>10 DEF StandsAt
    <2>2. Paths(t, free, P) /\ inode[0].ftype = "dir"
      BY <1>1 DEF Laid
    <2>3. 0 \in 0 .. free - 1 /\ P[0] = Mountpoint
      BY <2>2 DEF Paths
    <2>4. PreIs(p, 1, Mountpoint)
      <3>1. Mountpoint \in Seq(Part) /\ Len(Mountpoint) = 1 /\ Mountpoint[1] = "mnt"
        BY DEF Mountpoint, Part
      <3> QED BY <3>1 DEF PreIs
    <2> QED BY <1>9, <1>10, <2>1, <2>2, <2>3, <2>4
  <1>11. CASE m # 1
    <2>1. Stands(t, free, P, Pre(p, m), x) /\ m \in 2 .. Len(p) - 1
      BY <1>3, <1>11 DEF StandsAt
    <2>2. CASE Pre(p, m) \in DOMAIN t /\ x \in 0 .. free - 1 /\ x # 0 /\ P[x] = Pre(p, m)
      <3>1. ~(t[P[x]] >= 0)
        BY <2>1, <2>2 DEF NoFile
      <3>2. t[P[x]] \in Nat \cup {-1}
        BY <2>2, InDirectory
      <3>3. t[P[x]] = -1
        BY <3>1, <3>2
      <3>4. CellOK(t, inode, P, x) /\ inode[x].ftype # "none"
        BY <1>1, <2>2 DEF Laid, Whole
      <3>5. P[x] \in Dirs(t)
        BY <2>2, <3>3 DEF Dirs
      <3>6. inode[x].ftype = "dir"
        BY <3>4, <3>5 DEF CellOK
      <3> QED BY <1>6, <1>9, <2>2, <3>6
    <2>3. CASE Pre(p, m) \notin DOMAIN t /\ x = -1
      <3>1. y = -1
        BY <1>7, <2>3 DEF NextAt
      <3>2. PreIs(p, m, Front(q))
        BY <1>3, <1>6, PreFront
      <3>3. Front(q) = Pre(p, m)
        BY <1>3, <1>6, <3>2, PreEqual
      <3>4. Front(q) # Mountpoint
        <4>1. Len(Front(q)) = m
          BY <3>2 DEF PreIs
        <4>2. Len(Mountpoint) = 1
          BY DEF Mountpoint
        <4> QED BY <1>11, <4>1, <4>2
      <3>5. q \in DOMAIN t => Front(q) \in Dirs(t)
        BY InDirectory
      <3>6. q \notin DOMAIN t
        BY <2>3, <3>3, <3>4, <3>5 DEF Dirs
      <3> QED BY <3>1, <3>6 DEF Stands
    <2> QED BY <2>1, <2>2, <2>3 DEF Stands
  <1> QED BY <1>10, <1>11

\* By induction over the components: the descent ends at the inode of the
\* path, or at none.
LEMMA DescendIs ==
  ASSUME NEW t \in Trees, NEW free, NEW P, Complete(t, free, P), NEW p \in Asked, p[1] = "mnt",
         NoFile(t, p), Len(p) >= 2
  PROVE  Stands(t, free, P, p, Descend(Tail(p)))
  <1>1. PICK list : list = Tail(p)
    OBVIOUS
  <1>2. p \in Seq(Part) /\ Len(p) \in Nat /\ Len(list) = Len(p) - 1
    BY <1>1, AskedFacts
  <1> DEFINE S == Int
             Nx(x, k) == NextAt(list, k, x)
             F(f) == f = [k \in Nat |-> IF k = 0 THEN 0 ELSE Nx(f[k - 1], k)]
             step == [k \in Nat |-> [x \in S |-> Nx(x, k + 1)]]
             r == CHOOSE f : F(f)
             N == Len(p) - 1
  <1>3. Descend(list) = r[N]
    <2>1. Descend(list) = r[Len(list)]
      BY DEF Descend, NextAt, Root
    <2> QED BY <1>2, <2>1
  <1>4. inode \in [Cells -> Cell]
    BY DEF Complete, Laid
  <1>5. ASSUME NEW x \in S, NEW k \in Nat PROVE Nx(x, k) \in S
    BY <1>4, GoesInt
  <1>6. 0 \in S
    OBVIOUS
  <1> HIDE DEF S, r, Nx
  <1>7. step \in [Nat -> [S -> S]]
    <2>1. \A k \in Nat : k + 1 \in Nat
      OBVIOUS
    <2> QED BY <1>5, <2>1
  <1>8. PICK g : Recurs(g, S, 0, step)
    <2> HIDE DEF step
    <2> QED BY <1>6, <1>7, Recursion
  <1>9. g \in [Nat -> S] /\ g[0] = 0 /\ \A k \in Nat : g[k + 1] = Nx(g[k], k + 1)
    BY <1>8 DEF Recurs
  <1>10. F(g)
    <2>1. ASSUME NEW k \in Nat PROVE g[k] = IF k = 0 THEN 0 ELSE Nx(g[k - 1], k)
      <3>1. CASE k # 0
        <4>1. k - 1 \in Nat /\ (k - 1) + 1 = k
          BY <3>1
        <4>2. g[(k - 1) + 1] = Nx(g[k - 1], (k - 1) + 1)
          BY <1>9, <4>1
        <4> QED BY <3>1, <4>1, <4>2
      <3> QED BY <1>9, <3>1
    <2> QED BY <1>9, <2>1
  <1>11. F(r)
    <2> HIDE DEF F
    <2> QED BY <1>10 DEF r
  <1>12. r[0] = 0 /\ \A k \in Nat : r[k + 1] = Nx(r[k], k + 1)
    <2>1. \A k \in Nat : k + 1 \in Nat /\ k + 1 # 0 /\ (k + 1) - 1 = k
      OBVIOUS
    <2> QED BY <1>11, <2>1
  <1> HIDE DEF F
  <1> DEFINE T == {k \in Nat : k <= N => StandsAt(t, free, P, p, k + 1, r[k])}
  <1>13. 0 \in T
    <2>1. 0 + 1 = 1
      OBVIOUS
    <2>2. StandsAt(t, free, P, p, 0 + 1, r[0])
      BY <1>12, <2>1 DEF StandsAt
    <2> QED BY <2>2
  <1>14. ASSUME NEW k \in Nat, k \in T PROVE k + 1 \in T
    <2> SUFFICES ASSUME k + 1 <= N PROVE StandsAt(t, free, P, p, (k + 1) + 1, r[k + 1])
      OBVIOUS
    <2>1. k <= N /\ k + 1 \in 1 .. Len(p) - 1
      BY <1>2
    <2>2. StandsAt(t, free, P, p, k + 1, r[k])
      BY <1>14, <2>1
    <2>3. StandsAt(t, free, P, p, (k + 1) + 1, NextAt(Tail(p), k + 1, r[k]))
      BY <2>1, <2>2, StandsNext
    <2>4. r[k + 1] = NextAt(Tail(p), k + 1, r[k])
      BY <1>1, <1>12 DEF Nx
    <2> QED BY <2>3, <2>4
  <1>15. N \in T
    <2>1. N \in Nat
      BY <1>2
    <2> HIDE DEF T, N
    <2> QED BY <1>13, <1>14, <2>1, Induction
  <1>16. N + 1 = Len(p) /\ Len(p) # 1 /\ N <= N
    BY <1>2
  <1>17. StandsAt(t, free, P, p, Len(p), r[N])
    BY <1>15, <1>16
  <1>18. Stands(t, free, P, Pre(p, Len(p)), r[N])
    BY <1>16, <1>17 DEF StandsAt
  <1>19. Pre(p, Len(p)) = p
    BY <1>2, SubSeqFull DEF Pre
  <1> QED BY <1>1, <1>3, <1>18, <1>19

(* xal_get_extents() and xal_get_dentries()                                 *)
Right(r, p) ==
  IF Exists(p) THEN r.err = "OK" /\ r.val \in Cells /\ inode[r.val].name = p ELSE r.err # "OK"

\* search_by_traversal() finds a path if and only if it is in the tree.
LEMMA TraversalRight ==
  ASSUME NEW free, NEW P, tree \in Trees, Complete(tree, free, P), NEW p \in Asked,
         Head(p) # "beside", ~ThroughFile(p)
  PROVE  Right(search_by_traversal(p), p)
  <1>1. /\ p \in Seq(Part) /\ Len(p) \in Nat /\ p[1] \in {"mnt", "beside", "out"} /\ p[1] = Head(p)
    BY AskedFacts
  <1>2. Laid(tree, inode, free, P) /\ Whole(tree, inode, free, P)
    BY DEF Complete
  <1>3. CASE Len(p) < 2 \/ p = <<"mnt", 0>> \/ Head(p) = "out"
    <2>1. search_by_traversal(p).err = "EINVAL"
      BY <1>3 DEF search_by_traversal
    <2>2. ~Exists(p)
      <3> SUFFICES ASSUME p \in DOMAIN tree PROVE FALSE
        BY DEF Exists
      <3>1. IsPath(p)
        BY PathType
      <3>2. Len(p) >= 2 /\ p[1] = "mnt" /\ 2 \in 2 .. Len(p)
        BY <1>1, <3>1 DEF IsPath
      <3>3. p[2] # 0
        BY <3>1, <3>2 DEF IsPath
      <3>4. p # <<"mnt", 0>>
        BY <3>3
      <3> QED BY <1>1, <1>3, <3>2, <3>4
    <2> QED BY <2>1, <2>2 DEF Right
  <1>4. CASE ~(Len(p) < 2 \/ p = <<"mnt", 0>> \/ Head(p) = "out")
    <2>1. Len(p) >= 2 /\ p[1] = "mnt"
      BY <1>1, <1>4
    <2>2. NoFile(tree, p)
      BY DEF NoFile, ThroughFile, Exists, Pre
    <2>3. PICK x : x = Descend(Tail(p))
      OBVIOUS
    <2>4. Stands(tree, free, P, p, x)
      BY <2>1, <2>2, <2>3, DescendIs
    <2>5. search_by_traversal(p) = [err |-> IF x = -1 THEN "ENOENT" ELSE "OK", val |-> x]
      BY <1>4, <2>3 DEF search_by_traversal
    <2>6. CASE p \in DOMAIN tree /\ x \in 0 .. free - 1 /\ x # 0 /\ P[x] = p
      <3>1. Paths(tree, free, P)
        BY <1>2 DEF Laid
      <3>2. 0 .. free - 1 \subseteq Cells
        BY <3>1, PathsFit
      <3>3. free \in Nat
        BY <3>1 DEF Paths
      <3>4. x # -1 /\ x \in Cells
        BY <2>6, <3>2, <3>3
      <3>5. inode[x].ftype # "none"
        BY <1>2, <2>6 DEF Whole
      <3>6. inode[x].name = p
        BY <1>2, <2>6, <3>5, NameOf
      <3>7. search_by_traversal(p).err = "OK" /\ search_by_traversal(p).val = x
        BY <2>5, <3>4
      <3> QED BY <2>6, <3>4, <3>6, <3>7 DEF Right, Exists
    <2>7. CASE p \notin DOMAIN tree /\ x = -1
      <3>1. search_by_traversal(p).err = "ENOENT"
        BY <2>5, <2>7
      <3> QED BY <2>7, <3>1 DEF Right, Exists
    <2> QED BY <2>4, <2>6, <2>7 DEF Stands
  <1> QED BY <1>3, <1>4

\* So does search_by_map(), with the inode of that path.
LEMMA MapRight ==
  ASSUME LookupInv, err = "OK", map # NoMap, synced, filled = 1, NEW p \in Asked
  PROVE  Right(search_by_map(p), p)
  <1>1. PICK v : v = kh_get(map, Names(inode), hash, p)
    OBVIOUS
  <1>2. search_by_map(p) = [err |-> IF v = -1 THEN "EINVAL" ELSE "OK", val |-> v]
    BY <1>1 DEF search_by_map
  <1>3. v # -1 <=> Exists(p)
    BY <1>1, MapFinds
  <1>4. CASE v = -1
    <2>1. search_by_map(p).err = "EINVAL"
      BY <1>2, <1>4
    <2> QED BY <1>3, <1>4, <2>1 DEF Right
  <1>5. CASE v # -1
    <2>1. filled <= 1
      OBVIOUS
    <2>2. PICK c \in Cells : inode[c].name = p /\ v = c
      BY <1>1, <1>5, <2>1, MapAnswer
    <2>3. search_by_map(p).err = "OK" /\ search_by_map(p).val = v
      BY <1>2, <1>5
    <2> QED BY <1>3, <1>5, <2>2, <2>3 DEF Right
  <1> QED BY <1>4, <1>5

\* The type of what is found decides.
LEMMA RightAnswers ==
  ASSUME tree \in Trees, NEW free, NEW P, Complete(tree, free, P), NEW p \in Asked,
         NEW r, r = xal_get_inode(p), Right(r, p)
  PROVE  /\ Answers(xal_get_extents(p), p, Exists(p) /\ tree[p] >= 0)
         /\ Answers(xal_get_dentries(p), p, Exists(p) /\ tree[p] = -1)
  <1>1. Laid(tree, inode, free, P)
    BY DEF Complete
  <1>2. /\ xal_get_extents(p) = IF r.err = "OK" /\ inode[r.val].ftype # "reg" THEN [err |-> "EINVAL", val |-> -1] ELSE r
        /\ xal_get_dentries(p) = IF r.err = "OK" /\ inode[r.val].ftype # "dir" THEN [err |-> "ENOTDIR", val |-> -1] ELSE r
    BY DEF xal_get_extents, xal_get_dentries, xal_get_typed
  <1>3. CASE ~Exists(p)
    <2>1. r.err # "OK"
      BY <1>3 DEF Right
    <2>2. xal_get_extents(p) = r /\ xal_get_dentries(p) = r
      BY <1>2, <2>1
    <2> QED BY <1>3, <2>1, <2>2 DEF Answers
  <1>4. CASE Exists(p)
    <2>1. r.err = "OK" /\ r.val \in Cells /\ inode[r.val].name = p
      BY <1>4 DEF Right
    <2>2. PICK c \in Cells : c = r.val
      BY <2>1
    <2>3. inode[c].name = p /\ inode[c].name # <<>>
      BY <2>1, <2>2, AskedFacts
    <2>4. P[c] = p /\ inode[c].ftype = IF tree[P[c]] = -1 THEN "dir" ELSE "reg"
      BY <1>1, <2>3, NameInTree
    <2>5. tree[p] \in Nat \cup {-1}
      BY <1>4, InDirectory DEF Exists
    <2>6. CASE tree[p] = -1
      <3>1. ~(tree[p] >= 0) /\ inode[c].ftype = "dir"
        BY <2>4, <2>6
      <3>2. xal_get_dentries(p) = r /\ xal_get_extents(p) = [err |-> "EINVAL", val |-> -1]
        BY <1>2, <2>1, <2>2, <3>1
      <3>3. xal_get_extents(p).err = "EINVAL"
        BY <3>2
      <3>4. Answers(xal_get_extents(p), p, Exists(p) /\ tree[p] >= 0)
        BY <3>1, <3>3 DEF Answers
      <3>5. Answers(xal_get_dentries(p), p, Exists(p) /\ tree[p] = -1)
        BY <1>4, <2>1, <2>6, <3>2 DEF Answers
      <3> QED BY <3>4, <3>5
    <2>7. CASE tree[p] # -1
      <3>1. tree[p] >= 0 /\ inode[c].ftype = "reg"
        BY <2>4, <2>5, <2>7
      <3>2. xal_get_extents(p) = r /\ xal_get_dentries(p) = [err |-> "ENOTDIR", val |-> -1]
        BY <1>2, <2>1, <2>2, <3>1
      <3>3. xal_get_dentries(p).err = "ENOTDIR"
        BY <3>2
      <3>4. Answers(xal_get_dentries(p), p, Exists(p) /\ tree[p] = -1)
        BY <2>7, <3>3 DEF Answers
      <3>5. Answers(xal_get_extents(p), p, Exists(p) /\ tree[p] >= 0)
        BY <1>4, <2>1, <3>1, <3>2 DEF Answers
      <3> QED BY <3>4, <3>5
    <2> QED BY <2>6, <2>7
  <1> QED BY <1>3, <1>4

\* xal_get_extents() and xal_get_dentries() succeed for the files and for the
\* directories of the tree, with the inode of the path, and fail for every
\* other path: by traversal and by the map, for every tree of any depth and
\* every hash function.
THEOREM LookupAnswersRight == Spec => []LookupAnswers
  <1>1. LookupInv => LookupAnswers
    <2> SUFFICES ASSUME LookupInv, err = "OK", map # NoMap => synced /\ filled = 1, NEW p \in Asked,
                        map # NoMap \/ (Head(p) # "beside" /\ ~ThroughFile(p))
                 PROVE  /\ Answers(xal_get_extents(p), p, Exists(p) /\ tree[p] >= 0)
                        /\ Answers(xal_get_dentries(p), p, Exists(p) /\ tree[p] = -1)
      BY DEF LookupAnswers
    <2>1. tree \in Trees
      BY IndexedState
    <2>2. PICK free, P : Complete(tree, free, P)
      BY IndexedState DEF Complete
    <2>3. Right(xal_get_inode(p), p)
      <3>1. CASE map # NoMap
        BY <3>1, MapRight DEF xal_get_inode
      <3>2. CASE map = NoMap
        BY <2>1, <2>2, <3>2, TraversalRight DEF xal_get_inode
      <3> QED BY <3>1, <3>2
    <2> QED BY <2>1, <2>2, <2>3, RightAnswers
  <1> QED BY <1>1, LookupInvariant, PTL
=============================================================================
