--------------------------- MODULE XfsTree_proofs ---------------------------
(***************************************************************************)
(* Proofs about XfsSystem: whatever consistent file system is on the device *)
(* (Consistent of XfsImage), the tree that xal_index() of xal_be_xfs.c      *)
(* builds when it succeeds is the one on the disk, its extents address the  *)
(* blocks that hold the files, and it succeeds unless the device or the     *)
(* memory fails.                                                            *)
(*                                                                         *)
(* The invariant is MatchInv.  The loops of the code take lists apart from  *)
(* the front: items of a block, blocks of a record, records of a leaf,      *)
(* leaves of a root.  At every step the children claimed so far, followed   *)
(* by the entries that these four lists still lead to (Pending), are the    *)
(* listing of the directory at work; likewise the extents stored so far and *)
(* the records below the pointers on the stack of a file's B+tree.  Every   *)
(* other claimed element is complete, or it still waits: on the stack of    *)
(* directories, or in the array that is being filled (Content).  When the   *)
(* call returns nothing waits, so everything is complete.                   *)
(*                                                                         *)
(* The lists are of any length and the trees of any height.  Inductions     *)
(* over them start from the least number of a set (LeastNat, in             *)
(* NatRecursion); the sections follow the order: sequences, records         *)
(* and blocks, the invariant, one lemma for each action, the theorems.      *)
(***************************************************************************)
EXTENDS XfsSystem_proofs, XfsImage, SequencesExt, SequenceTheorems, NatRecursion
-----------------------------------------------------------------------------
\* What FlattenSeq() computes: it is defined as a fixed point, and there is one.
Flattens(g, ss, S) ==
  /\ g \in [1 .. Len(ss) -> Seq(S)]
  /\ FlattenSeq(ss) = g[Len(ss)] /\ g[1] = ss[1]
  /\ \A i \in 2 .. Len(ss) : g[i] = g[i - 1] \o ss[i]
LEMMA FlattenRuns ==
  ASSUME NEW S, NEW ss \in Seq(Seq(S)), ss # <<>>
  PROVE  \E g : Flattens(g, ss, S)
  <1> DEFINE n == Len(ss)
             Q == Seq(S)
             app(x, i) == x \o ss[i]
             F(f) == f = [i \in 1 .. n |-> IF i = 1 THEN ss[i] ELSE app(f[i - 1], i)]
             c == CHOOSE f : F(f)
  <1>1. n \in Nat /\ n >= 1 /\ n - 1 \in Nat /\ ss[1] \in Q
    OBVIOUS
  <1>2. \A i \in 1 .. n : \A x \in Q : app(x, i) \in Q
    OBVIOUS
  <1>6. FlattenSeq(ss) = c[n]
    BY <1>1 DEF FlattenSeq
  <1> DEFINE step == [k \in Nat |-> [x \in Q |-> IF k + 2 \in 1 .. n THEN app(x, k + 2) ELSE x]]
  <1> HIDE DEF n, Q, app, c
  <1>3. step \in [Nat -> [Q -> Q]]
    BY <1>1, <1>2
  <1>16. ASSUME NEW i \in 2 .. n, NEW x \in Q PROVE step[i - 2][x] = app(x, i)
    <2>1. i - 2 \in Nat /\ (i - 2) + 2 = i /\ i \in 1 .. n
      BY <1>1
    <2> QED BY <2>1
  <1> HIDE DEF step
  <1>4. PICK r \in [0 .. n - 1 -> Q] : r[0] = ss[1] /\ \A k \in 0 .. n - 1 - 1 : r[k + 1] = step[k][r[k]]
    <2> DEFINE N == n - 1
               a == ss[1]
    <2>1. N \in Nat /\ a \in Q
      BY <1>1
    <2> HIDE DEF N, a
    <2>2. PICK g : Runs(g, Q, a, step, N)
      BY <1>3, <2>1, Iteration
    <2> QED BY <2>2 DEF N, a, Runs
  <1>5. ASSUME NEW i \in 2 .. n PROVE r[i - 1] = app(r[i - 2], i)
    <2>1. i - 2 \in 0 .. n - 1 - 1 /\ i - 2 \in 0 .. n - 1 /\ (i - 2) + 1 = i - 1
      BY <1>1
    <2>2. r[i - 1] = step[i - 2][r[i - 2]]
      BY <1>4, <2>1
    <2>3. r[i - 2] \in Q
      BY <2>1
    <2> QED BY <1>16, <2>2, <2>3
  <1> DEFINE g == [i \in 1 .. n |-> r[i - 1]]
  <1>7. g \in [1 .. n -> Q] /\ g[1] = ss[1]
    BY <1>1, <1>4
  <1>8. ASSUME NEW i \in 2 .. n PROVE g[i] = app(g[i - 1], i)
    <2>1. g[i] = r[i - 1] /\ g[i - 1] = r[i - 2]
      BY <1>1
    <2> QED BY <1>5, <2>1
  <1> HIDE DEF g
  <1>9. F(g)
    <2>1. ASSUME NEW i \in 1 .. n PROVE g[i] = IF i = 1 THEN ss[i] ELSE app(g[i - 1], i)
      BY <1>1, <1>7, <1>8
    <2> QED BY <1>7, <2>1
  <1>10. F(c)
    <2> HIDE DEF F
    <2> QED BY <1>9 DEF c
  <1>11. c[1] = ss[1] /\ \A i \in 2 .. n : c[i] = app(c[i - 1], i)
    BY <1>1, <1>10
  <1> DEFINE U == {m \in Nat : m + 1 <= n => c[m + 1] = g[m + 1]}
  <1>12. 0 \in U
    BY <1>1, <1>11, <1>7
  <1>13. ASSUME NEW m \in Nat, m \in U PROVE m + 1 \in U
    <2> SUFFICES ASSUME m + 1 + 1 <= n PROVE c[m + 1 + 1] = g[m + 1 + 1]
      BY <1>13
    <2>1. c[m + 1] = g[m + 1] /\ m + 2 \in 2 .. n /\ (m + 2) - 1 = m + 1
      BY <1>1, <1>13
    <2> QED BY <2>1, <1>8, <1>11
  <1>14. \A m \in Nat : m \in U
    <2> HIDE DEF U
    <2> QED BY <1>12, <1>13, Induction
  <1>15. c[n] = g[n]
    <2>1. n - 1 \in Nat /\ n - 1 + 1 = n /\ n - 1 + 1 <= n
      BY <1>1
    <2>2. \A m \in Nat : m + 1 <= n => c[m + 1] = g[m + 1]
      BY <1>14
    <2> HIDE DEF U
    <2> QED BY <2>1, <2>2
  <1> QED BY <1>6, <1>7, <1>8, <1>15 DEF app, Q, n, Flattens

\* It is taken apart from the front.
LEMMA FlattenEmpty == FlattenSeq(<<>>) = <<>>
  BY DEF FlattenSeq

\* Sequences over S amount to a sequence over S.
LEMMA FlattenType ==
  ASSUME NEW S, NEW ss \in Seq(Seq(S))
  PROVE  FlattenSeq(ss) \in Seq(S)
  <1>1. CASE ss = <<>>
    BY <1>1, FlattenEmpty, EmptySeq, Zenon
  <1>2. CASE ss # <<>>
    <2>1. PICK g : Flattens(g, ss, S)
      BY <1>2, FlattenRuns
    <2>2. Len(ss) \in 1 .. Len(ss)
      BY <1>2
    <2> QED BY <2>1, <2>2 DEF Flattens
  <1> QED BY <1>1, <1>2

\* The first sequence comes first, and then what the others amount to.
LEMMA FlattenFirst ==
  ASSUME NEW S, NEW ss \in Seq(Seq(S)), ss # <<>>
  PROVE  FlattenSeq(ss) = Head(ss) \o FlattenSeq(Tail(ss))
  <1> DEFINE ts == Tail(ss)
             n == Len(ss)
  <1>1. /\ ts \in Seq(Seq(S)) /\ Len(ts) = n - 1 /\ Head(ss) = ss[1]
        /\ n \in Nat /\ n >= 1
        /\ \A i \in 1 .. n : ss[i] \in Seq(S)
    BY HeadTailProperties
  <1>2. \A i \in 1 .. n - 1 : ts[i] = ss[i + 1]
    BY <1>1, HeadTailProperties
  <1>6. PICK g : Flattens(g, ss, S)
    BY FlattenRuns
  <1>3. /\ g \in [1 .. n -> Seq(S)] /\ FlattenSeq(ss) = g[n] /\ g[1] = ss[1]
        /\ \A i \in 2 .. n : g[i] = g[i - 1] \o ss[i]
    BY <1>6 DEF Flattens
  <1> HIDE DEF ts, n
  <1>4. CASE ts = <<>>
    <2>1. n = 1
      BY <1>1, <1>4
    <2>2. ss[1] \in Seq(S)
      BY <1>1, <2>1
    <2>3. ss[1] \o <<>> = ss[1]
      BY <2>2, ConcatEmptySeq
    <2> QED BY <1>1, <1>3, <1>4, <2>1, <2>3, FlattenEmpty DEF ts
  <1>5. CASE ts # <<>>
    <2>1. n >= 2
      BY <1>1, <1>5
    <2>2. PICK h : Flattens(h, ts, S)
      BY <1>1, <1>5, FlattenRuns
    <2>3. /\ h \in [1 .. n - 1 -> Seq(S)] /\ FlattenSeq(ts) = h[n - 1] /\ h[1] = ts[1]
          /\ \A i \in 2 .. n - 1 : h[i] = h[i - 1] \o ts[i]
      BY <1>1, <2>2 DEF Flattens
    <2>10. PICK cat : cat = [i \in 1 .. n - 1 |-> ss[1] \o h[i]]
      OBVIOUS
    <2>11. ASSUME NEW i \in 1 .. n - 1 PROVE cat[i] = ss[1] \o h[i]
      BY <2>10, Zenon
    <2> DEFINE P(m) == m + 1 <= n - 1 => g[m + 2] = cat[m + 1]
               U == {m \in Nat : P(m)}
    <2>4. 0 \in U
      <3>1. g[2] = g[1] \o ss[2] /\ ss[2] = ts[1]
        <4>1. 2 \in 2 .. n /\ 2 - 1 = 1 /\ 1 \in 1 .. n - 1 /\ 1 + 1 = 2
          BY <1>1, <2>1
        <4>2. g[2] = g[2 - 1] \o ss[2]
          BY <1>3, <4>1, Zenon
        <4>3. ts[1] = ss[1 + 1]
          BY <1>2, <4>1, Zenon
        <4> QED BY <4>1, <4>2, <4>3, Zenon
      <3>2. g[2] = ss[1] \o h[1]
        BY <1>3, <2>3, <3>1, Zenon
      <3>3. P(0)
        <4>1. 1 \in 1 .. n - 1
          BY <1>1, <2>1
        <4>2. g[2] = cat[1]
          BY <2>11, <3>2, <4>1, Zenon
        <4> QED BY <4>2
      <3> HIDE DEF P
      <3> QED BY <3>3
    <2>5. ASSUME NEW m \in Nat, m \in U PROVE m + 1 \in U
      <3>1. P(m)
        <4> HIDE DEF P
        <4> QED BY <2>5
      <3>2. ASSUME m + 1 + 1 <= n - 1 PROVE g[m + 1 + 2] = cat[m + 1 + 1]
        <4>1. /\ m + 1 <= n - 1 /\ m + 3 \in 2 .. n /\ m + 2 \in 2 .. n - 1 /\ m + 1 \in 1 .. n - 1
              /\ (m + 3) - 1 = m + 2 /\ (m + 2) - 1 = m + 1 /\ (m + 2) + 1 = m + 3
              /\ m + 3 \in 1 .. n /\ m + 2 \in 1 .. n - 1
          BY <1>1, <3>2
        <4>7. g[m + 2] = cat[m + 1]
          BY <3>1, <4>1
        <4>8. cat[m + 1] = ss[1] \o h[m + 1] /\ cat[m + 2] = ss[1] \o h[m + 2]
          BY <2>11, <4>1, Zenon
        <4>2. g[m + 3] = g[m + 2] \o ss[m + 3] /\ g[m + 2] = ss[1] \o h[m + 1]
          BY <1>3, <4>1, <4>7, <4>8
        <4>3. h[m + 2] = h[m + 1] \o ss[m + 3]
          BY <1>2, <2>3, <4>1
        <4>4. ss[1] \in Seq(S) /\ h[m + 1] \in Seq(S) /\ ss[m + 3] \in Seq(S)
          BY <1>1, <2>3, <4>1
        <4>5. (ss[1] \o h[m + 1]) \o ss[m + 3] = ss[1] \o (h[m + 1] \o ss[m + 3])
          <5>1. ASSUME NEW x \in Seq(S), NEW y \in Seq(S), NEW z \in Seq(S)
                PROVE  (x \o y) \o z = x \o (y \o z)
            BY ONLY <5>1, ConcatAssociative
          <5> QED BY ONLY <4>4, <5>1
        <4>6. m + 1 + 2 = m + 3 /\ m + 1 + 1 = m + 2
          OBVIOUS
        <4> QED BY <4>2, <4>3, <4>5, <4>6, <4>8, Zenon
      <3>3. P(m + 1)
        BY <3>2
      <3> HIDE DEF P
      <3> QED BY <3>3
    <2>6. \A m \in Nat : P(m)
      <3> HIDE DEF P
      <3>1. \A m \in Nat : m \in U
        <4> HIDE DEF U
        <4> QED BY <2>4, <2>5, Induction
      <3> QED BY <3>1
    <2>7. g[n] = cat[n - 1]
      <3>1. n - 2 \in Nat /\ (n - 2) + 1 = n - 1 /\ (n - 2) + 2 = n /\ n - 1 <= n - 1
        BY <1>1, <2>1
      <3>2. P(n - 2)
        <4> HIDE DEF P
        <4> QED BY <2>6, <3>1
      <3> QED BY <3>1, <3>2
    <2>8. g[n] = ss[1] \o h[n - 1]
      <3>1. n - 1 \in 1 .. n - 1
        BY <1>1, <2>1
      <3> QED BY <2>7, <2>11, <3>1, Zenon
    <2>9. FlattenSeq(ss) = ss[1] \o FlattenSeq(ts) /\ Head(ss) = ss[1]
      BY <1>1, <1>3, <2>3, <2>8, Zenon
    <2> QED BY <2>9, Zenon DEF ts
  <1> QED BY <1>4, <1>5

\* Sequences of nothing amount to nothing.
LEMMA FlattenNothing ==
  ASSUME NEW S, NEW ss \in Seq(Seq(S)), \A i \in 1 .. Len(ss) : ss[i] = <<>>
  PROVE  FlattenSeq(ss) = <<>>
  <1>1. CASE ss = <<>>
    BY <1>1, FlattenEmpty
  <1>2. CASE ss # <<>>
    <2> DEFINE n == Len(ss)
    <2>1. n \in Nat /\ n >= 1
      BY <1>2
    <2>9. PICK g : Flattens(g, ss, S)
      BY <1>2, FlattenRuns
    <2>2. /\ FlattenSeq(ss) = g[n] /\ g[1] = ss[1]
          /\ \A i \in 2 .. n : g[i] = g[i - 1] \o ss[i]
      BY <2>9 DEF Flattens
    <2>3. <<>> \o <<>> = <<>>
      OBVIOUS
    <2>4. \A i \in 1 .. n : ss[i] = <<>>
      OBVIOUS
    <2> HIDE DEF n
    <2> DEFINE U == {m \in Nat : m + 1 <= n => g[m + 1] = <<>>}
    <2>5. 0 \in U
      BY <2>1, <2>2, <2>4
    <2>6. ASSUME NEW m \in Nat, m \in U PROVE m + 1 \in U
      <3> SUFFICES ASSUME m + 1 + 1 <= n PROVE g[m + 1 + 1] = <<>>
        BY <2>6
      <3>1. m + 1 <= n /\ m + 2 \in 2 .. n /\ (m + 2) - 1 = m + 1 /\ m + 1 + 1 = m + 2
        BY <2>1
      <3>2. ss[m + 2] = <<>> /\ g[m + 1] = <<>>
        BY <2>1, <2>4, <2>6, <3>1
      <3>3. g[m + 2] = g[(m + 2) - 1] \o ss[m + 2]
        BY <2>2, <3>1, Zenon
      <3> QED BY <2>3, <3>1, <3>2, <3>3, Zenon
    <2>7. \A m \in Nat : m + 1 <= n => g[m + 1] = <<>>
      <3>1. \A m \in Nat : m \in U
        <4> HIDE DEF U
        <4> QED BY <2>5, <2>6, Induction
      <3> QED BY <3>1
    <2>8. n - 1 \in Nat /\ (n - 1) + 1 = n /\ n - 1 + 1 <= n
      BY <2>1
    <2> QED BY <2>2, <2>7, <2>8
  <1> QED BY <1>1, <1>2
-----------------------------------------------------------------------------
\* What FileTrees() computes.
RecFns(d) == UNION {[B -> Seq(Words)] : B \in SUBSET (DOMAIN d.dev)}
LEMMA RecFnsAre ==
  ASSUME NEW d, NEW B \in SUBSET (DOMAIN d.dev), NEW f \in [B -> Seq(Words)]
  PROVE  f \in RecFns(d)
  BY DEF RecFns

\* The records of the leaves are such a function.
LEMMA LeafRecsType ==
  ASSUME NEW d \in Images
  PROVE  LeafRecs(d) \in RecFns(d)
  <1>1. Nodes(d, 0) \in SUBSET (DOMAIN d.dev)
    BY DEF Nodes
  <1>2. ASSUME NEW b \in Nodes(d, 0) PROVE d.dev[b].recs \in Seq(Words)
    BY IndexAssumption DEF Nodes, BlockOK
  <1>3. LeafRecs(d) \in [Nodes(d, 0) -> Seq(Words)]
    BY <1>2 DEF LeafRecs
  <1> QED BY <1>1, <1>3, RecFnsAre

\* What the pointers of a block lead to is a sequence of records.
LEMMA JoinedType ==
  ASSUME NEW d, NEW below \in RecFns(d), NEW list \in Seq(Nat),
         \A k \in DOMAIN list : At(d, list[k]) \in DOMAIN below
  PROVE  Joined(d, list, below) \in Seq(Words)
  <1>1. PICK B \in SUBSET (DOMAIN d.dev) : below \in [B -> Seq(Words)]
    BY DEF RecFns
  <1> DEFINE ss == [k \in DOMAIN list |-> below[At(d, list[k])]]
  <1>2. ss \in Seq(Seq(Words))
    <2>1. DOMAIN list = 1 .. Len(list) /\ Len(list) \in Nat
      OBVIOUS
    <2>2. ss \in [1 .. Len(list) -> Seq(Words)]
      BY <1>1, <2>1
    <2> QED BY <2>1, <2>2
  <1> HIDE DEF ss
  <1>3. FlattenSeq(ss) \in Seq(Words)
    BY <1>2, FlattenType
  <1> QED BY <1>3 DEF ss, Joined

\* Each level is such a function where the one below is.
LEMMA NodeRecsType ==
  ASSUME NEW d \in Images, NEW l \in Nat, l > 0, NEW below \in RecFns(d)
  PROVE  NodeRecs(d, l, below) \in RecFns(d)
  <1> DEFINE B == {x \in Nodes(d, l) : Leads(d, x, below)}
  <1>1. B \in SUBSET (DOMAIN d.dev)
    BY DEF Nodes
  <1>2. ASSUME NEW b \in B PROVE Joined(d, d.dev[b].ptrs, below) \in Seq(Words)
    <2>1. b \in DOMAIN d.dev /\ d.dev[b].magic = "BMA3" /\ d.dev[b].level > 0 /\ Leads(d, b, below)
      BY DEF Nodes
    <2>2. d.dev[b].ptrs \in Seq(Nat)
      BY <2>1, IndexAssumption DEF BlockOK
    <2>3. \A k \in DOMAIN d.dev[b].ptrs : At(d, d.dev[b].ptrs[k]) \in DOMAIN below
      BY <2>1 DEF Leads
    <2> QED BY <2>2, <2>3, JoinedType
  <1>3. NodeRecs(d, l, below) = [b \in B |-> Joined(d, d.dev[b].ptrs, below)]
    BY DEF NodeRecs
  <1> HIDE DEF B
  <1>4. NodeRecs(d, l, below) \in [B -> Seq(Words)]
    BY <1>2, <1>3
  <1> QED BY <1>1, <1>4, RecFnsAre

\* The recursive definition of a file's trees has the value it states.
LEMMA TreesUnfold ==
  ASSUME NEW d \in Images
  PROVE  /\ FileTrees(d)[0] = LeafRecs(d)
         /\ \A l \in Nat : FileTrees(d)[l + 1] = NodeRecs(d, l + 1, FileTrees(d)[l])
         /\ \A l \in Nat : FileTrees(d)[l] \in RecFns(d)
  <1> DEFINE S == RecFns(d)
             a == LeafRecs(d)
             node(l, x) == NodeRecs(d, l, x)
             F(f) == f = [l \in Nat |-> IF l = 0 THEN a ELSE node(l, f[l - 1])]
             step == [l \in Nat |-> [x \in S |-> node(l + 1, x)]]
             t == FileTrees(d)
  <1>1. a \in S /\ \A l \in Nat, x \in S : l > 0 => node(l, x) \in S
    BY LeafRecsType, NodeRecsType
  <1>2. t = CHOOSE f : F(f)
    BY DEF FileTrees
  <1> HIDE DEF S, a, node, t
  <1>3. step \in [Nat -> [S -> S]]
    BY <1>1
  <1>4. \A l \in Nat, x \in S : step[l][x] = node(l + 1, x)
    OBVIOUS
  <1> HIDE DEF step
  <1>5. PICK g : Recurs(g, S, a, step)
    BY <1>1, <1>3, Recursion
  <1>6. g \in [Nat -> S] /\ g[0] = a /\ \A l \in Nat : g[l + 1] = node(l + 1, g[l])
    BY <1>4, <1>5 DEF Recurs
  <1>7. F(g)
    <2>1. ASSUME NEW l \in Nat, l # 0 PROVE g[l] = node(l, g[l - 1])
      <3>1. l - 1 \in Nat /\ (l - 1) + 1 = l
        BY <2>1
      <3> QED BY <1>6, <3>1
    <2>2. ASSUME NEW l \in Nat PROVE g[l] = IF l = 0 THEN a ELSE node(l, g[l - 1])
      BY <1>6, <2>1
    <2> QED BY <1>6, <2>2
  <1>8. F(t)
    <2> HIDE DEF F
    <2> QED BY <1>2, <1>7
  <1>9. t[0] = a
    BY <1>8
  <1>10. ASSUME NEW l \in Nat PROVE t[l + 1] = node(l + 1, t[l])
    <2>1. l + 1 \in Nat /\ l + 1 # 0 /\ (l + 1) - 1 = l
      OBVIOUS
    <2> QED BY <1>8, <2>1
  <1> HIDE DEF F
  <1> DEFINE T == {l \in Nat : t[l] \in S}
  <1>11. 0 \in T
    BY <1>1, <1>9
  <1>12. ASSUME NEW l \in Nat, l \in T PROVE l + 1 \in T
    <2>1. node(l + 1, t[l]) \in S
      BY <1>1, <1>12
    <2> QED BY <1>10, <2>1
  <1>13. \A l \in Nat : t[l] \in S
    <2>1. \A l \in Nat : l \in T
      <3> HIDE DEF T
      <3> QED BY <1>11, <1>12, Induction
    <2> QED BY <2>1
  <1> QED BY <1>9, <1>10, <1>13 DEF t, S, a, node
-----------------------------------------------------------------------------
\* One sequence behind the other.
LEMMA Associative ==
  ASSUME NEW S, NEW x \in Seq(S), NEW y \in Seq(S), NEW z \in Seq(S)
  PROVE  (x \o y) \o z = x \o (y \o z)
  BY ConcatAssociative

\* Flattening two lists one after the other.
LEMMA FlattenConcat ==
  ASSUME NEW S, NEW ss \in Seq(Seq(S)), NEW tt \in Seq(Seq(S))
  PROVE  FlattenSeq(ss \o tt) = FlattenSeq(ss) \o FlattenSeq(tt)
  <1> DEFINE Q == Seq(S)
             P(n) == \A x \in Seq(Q) : Len(x) = n => FlattenSeq(x \o tt) = FlattenSeq(x) \o FlattenSeq(tt)
             T == {n \in Nat : P(n)}
  <1>1. 0 \in T
    <2>1. ASSUME NEW x \in Seq(Q), Len(x) = 0 PROVE FlattenSeq(x \o tt) = FlattenSeq(x) \o FlattenSeq(tt)
      <3>1. x = <<>>
        BY <2>1
      <3>2. FlattenSeq(tt) \in Seq(S)
        BY FlattenType
      <3>3. <<>> \o tt = tt /\ <<>> \o FlattenSeq(tt) = FlattenSeq(tt)
        BY <3>2, ConcatEmptySeq
      <3> QED BY <3>1, <3>3, FlattenEmpty, Zenon
    <2>2. P(0)
      BY <2>1, Zenon
    <2> HIDE DEF P
    <2> QED BY <2>2
  <1>2. ASSUME NEW n \in Nat, n \in T PROVE n + 1 \in T
    <2>1. P(n)
      <3> HIDE DEF P
      <3> QED BY <1>2
    <2>2. ASSUME NEW x \in Seq(Q), Len(x) = n + 1
          PROVE  FlattenSeq(x \o tt) = FlattenSeq(x) \o FlattenSeq(tt)
      <3> DEFINE h == Head(x)
                 u == Tail(x)
                 w == x \o tt
      <3>1. x # <<>>
        BY <2>2
      <3>2. h \in Q /\ u \in Seq(Q) /\ Len(u) = n
        BY <2>2, <3>1, HeadTailProperties
      <3>3. w \in Seq(Q) /\ w # <<>> /\ Head(w) = h /\ Tail(w) = u \o tt
        <4>1. w \in Seq(Q) /\ Len(w) = Len(x) + Len(tt)
          BY ConcatProperties
        <4>2. Len(tt) \in Nat /\ Len(w) >= 1
          BY <2>2, <4>1
        <4>3. w # <<>>
          BY <4>1, <4>2
        <4>4. Head(w) = w[1] /\ w[1] = x[1] /\ h = x[1]
          BY <2>2, <4>2, <4>3
        <4>5. Tail(w) = u \o tt
          <5>1. ASSUME NEW a \in Seq(Q), NEW b \in Seq(Q), a # <<>> PROVE Tail(a \o b) = Tail(a) \o b
            BY ONLY <5>1
          <5> QED BY <3>1, <5>1, Zenon
        <4> QED BY <4>1, <4>3, <4>4, <4>5
      <3> HIDE DEF w, u, h
      <3>4. FlattenSeq(w) = h \o FlattenSeq(u \o tt)
        BY <3>3, FlattenFirst, Zenon DEF Q
      <3>5. FlattenSeq(u \o tt) = FlattenSeq(u) \o FlattenSeq(tt)
        BY <2>1, <3>2, Zenon
      <3>6. FlattenSeq(x) = h \o FlattenSeq(u)
        BY <3>1, FlattenFirst, Zenon DEF Q, h, u
      <3>7. FlattenSeq(u) \in Seq(S) /\ FlattenSeq(tt) \in Seq(S) /\ h \in Seq(S)
        BY <3>2, FlattenType DEF Q
      <3>8. (h \o FlattenSeq(u)) \o FlattenSeq(tt) = h \o (FlattenSeq(u) \o FlattenSeq(tt))
        <4>1. ASSUME NEW a \in Seq(S), NEW b \in Seq(S), NEW c \in Seq(S) PROVE (a \o b) \o c = a \o (b \o c)
          BY ONLY <4>1, Associative
        <4> QED BY ONLY <3>7, <4>1
      <3> QED BY <3>4, <3>5, <3>6, <3>8, Zenon DEF w
    <2>3. P(n + 1)
      BY <2>2, Zenon
    <2> HIDE DEF P
    <2> QED BY <2>3
  <1>3. \A n \in Nat : n \in T
    <2> HIDE DEF T
    <2> QED BY <1>1, <1>2, Induction
  <1>4. Len(ss) \in Nat /\ ss \in Seq(Q)
    OBVIOUS
  <1>5. P(Len(ss))
    <2> HIDE DEF P
    <2> QED BY <1>3, <1>4
  <1> QED BY <1>4, <1>5, Zenon

\* The sequences a function gives the elements of a sequence, one behind the
\* other.
Gives(f, D, S) == f \in [D -> Seq(S)]
Along(f, s) == [k \in DOMAIN s |-> f[s[k]]]
Mapped(f, s) == FlattenSeq(Along(f, s))
LEMMA AlongSeq ==
  ASSUME NEW S, NEW D, NEW f, Gives(f, D, S), NEW s \in Seq(D)
  PROVE  Along(f, s) \in Seq(Seq(S)) /\ Len(Along(f, s)) = Len(s)
  <1>1. DOMAIN s = 1 .. Len(s) /\ Len(s) \in Nat
    OBVIOUS
  <1>2. Along(f, s) \in [1 .. Len(s) -> Seq(S)]
    BY <1>1 DEF Along, Gives
  <1>4. ASSUME NEW Q, NEW n \in Nat, NEW g \in [1 .. n -> Q] PROVE g \in Seq(Q) /\ Len(g) = n
    BY ONLY <1>4
  <1> QED BY <1>1, <1>2, <1>4, Zenon

\* What f gives at each element of s, one by one.
LEMMA AlongAt ==
  ASSUME NEW D, NEW f, NEW s \in Seq(D), NEW k \in 1 .. Len(s)
  PROVE  Along(f, s)[k] = f[s[k]]
  BY DEF Along

\* The sequence of what f gives along s.
LEMMA AlongFacts ==
  ASSUME NEW S, NEW D, NEW f, Gives(f, D, S), NEW s \in Seq(D)
  PROVE  /\ Along(f, s) \in Seq(Seq(S)) /\ Len(Along(f, s)) = Len(s)
         /\ \A k \in 1 .. Len(s) : Along(f, s)[k] = f[s[k]]
  <1>1. Along(f, s) \in Seq(Seq(S)) /\ Len(Along(f, s)) = Len(s)
    BY AlongSeq
  <1>2. \A k \in 1 .. Len(s) : Along(f, s)[k] = f[s[k]]
    BY AlongAt
  <1> QED BY <1>1, <1>2

\* Mapped(f, s) joins the sequences that f gives along s.
LEMMA MappedType ==
  ASSUME NEW S, NEW D, NEW f, Gives(f, D, S), NEW s \in Seq(D)
  PROVE  Mapped(f, s) \in Seq(S)
  BY AlongSeq, FlattenType DEF Mapped

\* Along no element there is nothing.
LEMMA MappedEmpty == ASSUME NEW f PROVE Mapped(f, <<>>) = <<>>
  <1>1. Along(f, <<>>) = <<>>
    BY DEF Along
  <1> QED BY <1>1, FlattenEmpty, Zenon DEF Mapped

\* The first element gives what comes first.
LEMMA MappedFirst ==
  ASSUME NEW S, NEW D, NEW f, Gives(f, D, S), NEW s \in Seq(D), s # <<>>
  PROVE  Mapped(f, s) = f[Head(s)] \o Mapped(f, Tail(s))
  <1> DEFINE ss == Along(f, s)
             tt == Along(f, Tail(s))
  <1>1. Tail(s) \in Seq(D) /\ Len(Tail(s)) = Len(s) - 1 /\ Len(s) \in Nat
        /\ \A k \in 1 .. Len(s) - 1 : Tail(s)[k] = s[k + 1]
    BY HeadTailProperties
  <1>2. /\ ss \in Seq(Seq(S)) /\ Len(ss) = Len(s)
        /\ \A k \in 1 .. Len(s) : ss[k] = f[s[k]]
    <2>1. ss \in Seq(Seq(S)) /\ Len(ss) = Len(s)
      BY AlongSeq
    <2>2. \A k \in 1 .. Len(s) : ss[k] = f[s[k]]
      BY AlongAt
    <2> QED BY <2>1, <2>2
  <1>3. /\ tt \in Seq(Seq(S)) /\ Len(tt) = Len(Tail(s))
        /\ \A k \in 1 .. Len(Tail(s)) : tt[k] = f[Tail(s)[k]]
    <2>1. PICK u \in Seq(D) : u = Tail(s)
      BY <1>1
    <2>2. /\ Along(f, u) \in Seq(Seq(S)) /\ Len(Along(f, u)) = Len(u)
          /\ \A k \in 1 .. Len(u) : Along(f, u)[k] = f[u[k]]
      BY AlongFacts
    <2> QED BY <2>1, <2>2, Zenon
  <1> HIDE DEF ss, tt
  <1>4. ss # <<>> /\ Len(s) >= 1
    BY <1>1, <1>2
  <1>5. Head(ss) = f[Head(s)]
    BY <1>2, <1>4
  <1>6. Tail(ss) = tt
    <2>1. Tail(ss) \in Seq(Seq(S)) /\ Len(Tail(ss)) = Len(tt)
      BY <1>1, <1>2, <1>3, <1>4, HeadTailProperties
    <2>2. ASSUME NEW k \in 1 .. Len(tt) PROVE Tail(ss)[k] = tt[k]
      <3>1. k \in 1 .. Len(s) - 1 /\ k + 1 \in 1 .. Len(s) /\ k \in 1 .. Len(Tail(s))
        BY <1>1, <1>3, <2>2
      <3>2. Tail(ss)[k] = ss[k + 1]
        BY <1>2, <1>4, <3>1, HeadTailProperties
      <3> QED BY <1>1, <1>2, <1>3, <3>1, <3>2
    <2> QED BY ONLY <1>3, <2>1, <2>2, SeqEqual
  <1>7. FlattenSeq(ss) = Head(ss) \o FlattenSeq(Tail(ss))
    BY <1>2, <1>4, FlattenFirst
  <1> QED BY <1>5, <1>6, <1>7, Zenon DEF Mapped, ss, tt

\* Elements that give nothing amount to nothing.
LEMMA MappedNothing ==
  ASSUME NEW S, NEW D, NEW f, Gives(f, D, S), NEW s \in Seq(D),
         \A k \in 1 .. Len(s) : f[s[k]] = <<>>
  PROVE  Mapped(f, s) = <<>>
  <1>1. Along(f, s) \in Seq(Seq(S)) /\ Len(Along(f, s)) = Len(s)
    BY AlongSeq
  <1>2. \A k \in 1 .. Len(s) : Along(f, s)[k] = f[s[k]]
    BY AlongAt
  <1>3. \A k \in 1 .. Len(Along(f, s)) : Along(f, s)[k] = <<>>
    BY <1>1, <1>2
  <1> QED BY <1>1, <1>3, FlattenNothing DEF Mapped

\* Along two sequences, one after the other.
LEMMA MappedConcat ==
  ASSUME NEW S, NEW D, NEW f, Gives(f, D, S), NEW s \in Seq(D), NEW t \in Seq(D)
  PROVE  Mapped(f, s \o t) = Mapped(f, s) \o Mapped(f, t)
  <1> DEFINE u == s \o t
             ss == Along(f, s)
             tt == Along(f, t)
             uu == Along(f, u)
  <1>1. /\ u \in Seq(D) /\ Len(u) = Len(s) + Len(t) /\ Len(s) \in Nat /\ Len(t) \in Nat
        /\ \A k \in 1 .. Len(s) + Len(t) : u[k] = IF k <= Len(s) THEN s[k] ELSE t[k - Len(s)]
    BY ConcatProperties
  <1>2. /\ ss \in Seq(Seq(S)) /\ Len(ss) = Len(s)
        /\ \A k \in 1 .. Len(s) : ss[k] = f[s[k]]
    <2>1. ss \in Seq(Seq(S)) /\ Len(ss) = Len(s)
      BY AlongSeq
    <2>2. \A k \in 1 .. Len(s) : ss[k] = f[s[k]]
      BY AlongAt
    <2> QED BY <2>1, <2>2
  <1>3. /\ tt \in Seq(Seq(S)) /\ Len(tt) = Len(t)
        /\ \A k \in 1 .. Len(t) : tt[k] = f[t[k]]
    <2>1. tt \in Seq(Seq(S)) /\ Len(tt) = Len(t)
      BY AlongSeq
    <2>2. \A k \in 1 .. Len(t) : tt[k] = f[t[k]]
      BY AlongAt
    <2> QED BY <2>1, <2>2
  <1> HIDE DEF u, ss, tt
  <1>4. /\ uu \in Seq(Seq(S)) /\ Len(uu) = Len(u)
        /\ \A k \in 1 .. Len(u) : uu[k] = f[u[k]]
    <2>1. PICK v \in Seq(D) : v = u
      BY <1>1
    <2>2. /\ Along(f, v) \in Seq(Seq(S)) /\ Len(Along(f, v)) = Len(v)
          /\ \A k \in 1 .. Len(v) : Along(f, v)[k] = f[v[k]]
      BY AlongFacts
    <2> QED BY <2>1, <2>2, Zenon
  <1> HIDE DEF uu
  <1> DEFINE w == ss \o tt
  <1>5. w \in Seq(Seq(S)) /\ Len(w) = Len(s) + Len(t)
        /\ \A k \in 1 .. Len(s) + Len(t) : w[k] = IF k <= Len(s) THEN ss[k] ELSE tt[k - Len(s)]
    <2>1. ASSUME NEW Q, NEW x \in Seq(Q), NEW y \in Seq(Q)
          PROVE  /\ x \o y \in Seq(Q) /\ Len(x \o y) = Len(x) + Len(y)
                 /\ \A k \in 1 .. Len(x) + Len(y) : (x \o y)[k] = IF k <= Len(x) THEN x[k] ELSE y[k - Len(x)]
      BY ONLY <2>1, ConcatProperties
    <2>2. /\ w \in Seq(Seq(S)) /\ Len(w) = Len(ss) + Len(tt)
          /\ \A k \in 1 .. Len(ss) + Len(tt) : w[k] = IF k <= Len(ss) THEN ss[k] ELSE tt[k - Len(ss)]
      BY <1>2, <1>3, <2>1, Zenon
    <2> HIDE DEF w
    <2> QED BY <1>2, <1>3, <2>2
  <1> HIDE DEF w
  <1>6. uu = w
    <2>1. ASSUME NEW k \in 1 .. Len(s) + Len(t) PROVE uu[k] = w[k]
      <3>1. CASE k <= Len(s)
        <4>1. k \in 1 .. Len(s)
          BY <1>1, <3>1
        <4>2. u[k] = s[k] /\ w[k] = ss[k] /\ ss[k] = f[s[k]] /\ uu[k] = f[u[k]]
          BY <1>1, <1>2, <1>4, <1>5, <2>1, <3>1, <4>1
        <4> QED BY <4>2
      <3>2. CASE ~(k <= Len(s))
        <4>1. k - Len(s) \in 1 .. Len(t)
          BY <1>1, <3>2
        <4>2. /\ u[k] = t[k - Len(s)] /\ w[k] = tt[k - Len(s)] /\ tt[k - Len(s)] = f[t[k - Len(s)]]
              /\ uu[k] = f[u[k]]
          BY <1>1, <1>3, <1>4, <1>5, <2>1, <3>2, <4>1
        <4> QED BY <4>2
      <3> QED BY <3>1, <3>2
    <2>2. Len(uu) = Len(w) /\ Len(uu) = Len(s) + Len(t)
      BY <1>1, <1>4, <1>5
    <2> QED BY ONLY <1>4, <1>5, <2>1, <2>2, SeqEqual
  <1>7. FlattenSeq(w) = FlattenSeq(ss) \o FlattenSeq(tt)
    BY <1>2, <1>3, FlattenConcat DEF w
  <1> QED BY <1>6, <1>7, Zenon DEF Mapped, ss, tt, uu, u
-----------------------------------------------------------------------------
\* A block with a number on the device is the one xal_fsbno_offset() gives.
LEMMA BlockFound ==
  ASSUME NEW d, DOMAIN d.dev \subseteq Nat, NEW f, OnDevice(d, f)
  PROVE  /\ At(d, f) \in DOMAIN d.dev /\ FsbnoAt(At(d, f)) = f
         /\ xal_fsbno_offset(f) = At(d, f)
  <1>1. At(d, f) \in DOMAIN d.dev /\ FsbnoAt(At(d, f)) = f
    BY DEF OnDevice, At
  <1>2. PICK b \in Nat : b = At(d, f)
    BY <1>1
  <1>3. xal_fsbno_offset(FsbnoAt(b)) = b
    BY FsbnoRoundTrip
  <1> QED BY <1>1, <1>2, <1>3

\* The extent in a record is the one decode_xfs_extent() gives.
LEMMA FittingIs ==
  ASSUME NEW e \in Fitting
  PROVE  IsExtent(e) /\ e.off \in Nat /\ e.block \in Nat /\ e.n \in Nat
  BY Powers DEF Fitting, IsExtent

\* The code decodes a record into the extent that the format says it holds.
LEMMA RecordRead ==
  ASSUME NEW rec, IsRecord(rec)
  PROVE  /\ ExtentIn(rec) \in Fitting /\ Encode(ExtentIn(rec)) = rec
         /\ ExtentIn(rec).off \in Nat /\ ExtentIn(rec).block \in Nat /\ ExtentIn(rec).n \in Nat
         /\ decode_xfs_extent(rec.l0, rec.l1).start_offset = ExtentIn(rec).off
         /\ decode_xfs_extent(rec.l0, rec.l1).start_block = ExtentIn(rec).block
         /\ decode_xfs_extent(rec.l0, rec.l1).nblocks = ExtentIn(rec).n
  <1>1. ExtentIn(rec) \in Fitting /\ Encode(ExtentIn(rec)) = rec
    BY DEF IsRecord, ExtentIn
  <1>2. PICK e \in Fitting : e = ExtentIn(rec)
    BY <1>1
  <1>3. IsExtent(e) /\ e.off \in Nat /\ e.block \in Nat /\ e.n \in Nat
    BY FittingIs
  <1>4. /\ decode_xfs_extent(Encode(e).l0, Encode(e).l1).start_offset = e.off
        /\ decode_xfs_extent(Encode(e).l0, Encode(e).l1).start_block = e.block
        /\ decode_xfs_extent(Encode(e).l0, Encode(e).l1).nblocks = e.n
    BY <1>3, ExtentRoundTrip
  <1> QED BY <1>1, <1>2, <1>3, <1>4

\* The directory blocks of an extent are the same for the code and the image.
LEMMA BlocksRead ==
  ASSUME NEW rec, IsRecord(rec)
  PROVE  /\ BlocksOf(decode_xfs_extent(rec.l0, rec.l1)) = RecBlocks(rec)
         /\ RecBlocks(rec) \in Seq(Nat)
  <1> DEFINE x == decode_xfs_extent(rec.l0, rec.l1)
             e == ExtentIn(rec)
  <1>1. x.start_block = e.block /\ x.nblocks = e.n /\ e.block \in Nat /\ e.n \in Nat
    BY RecordRead
  <1> HIDE DEF x, e
  <1>2. /\ BlocksOf(x) = [k \in 1 .. (e.n + DirBlocks - 1) \div DirBlocks |-> e.block + (k - 1) * DirBlocks]
        /\ RecBlocks(rec) = [k \in 1 .. (e.n + DirBlocks - 1) \div DirBlocks |-> e.block + (k - 1) * DirBlocks]
    BY <1>1 DEF BlocksOf, RecBlocks, e
  <1>3. DirBlocks \in Nat \ {0} /\ e.n + DirBlocks - 1 \in Nat
    BY <1>1, FormatAssumption
  <1>4. PICK n \in Nat : n = (e.n + DirBlocks - 1) \div DirBlocks
    BY <1>3, Division
  <1>5. ASSUME NEW k \in 1 .. n PROVE e.block + (k - 1) * DirBlocks \in Nat
    <2>1. (k - 1) * DirBlocks \in Nat
      <3>1. k - 1 \in Nat
        OBVIOUS
      <3> QED BY <1>3, <3>1, Products
    <2> QED BY <1>1, <2>1
  <1>6. RecBlocks(rec) \in [1 .. n -> Nat]
    BY <1>2, <1>4, <1>5
  <1>7. RecBlocks(rec) \in Seq(Nat)
    BY <1>6
  <1> QED BY <1>2, <1>7, Zenon DEF x
-----------------------------------------------------------------------------
\* The lists the index reads a directory from, each element with what it
\* stands for.
EntryFn == [i \in Items |-> EntryOf(i)]
DataBlocks(d) == {f \in Nat : DataOK(d, f)}
BlockFn(d) == [f \in DataBlocks(d) |-> BlockEntries(d, f)]
GoodRecs(d) == {r \in Words : RecOK(d, r)}
RecFn(d) == [r \in GoodRecs(d) |-> RecEntries(d, r)]
DirLeaves(d) == {f \in Nat : LeafOK(d, f)}
LeafFn(d) == [f \in DirLeaves(d) |-> LeafEntries(d, f)]

\* The laws of Mapped together.
LEMMA MappedFacts ==
  ASSUME NEW S, NEW D, NEW f, Gives(f, D, S), NEW s \in Seq(D)
  PROVE  /\ Mapped(f, s) \in Seq(S)
         /\ s = <<>> => Mapped(f, s) = <<>>
         /\ s # <<>> => Mapped(f, s) = f[Head(s)] \o Mapped(f, Tail(s))
         /\ (\A k \in 1 .. Len(s) : f[s[k]] = <<>>) => Mapped(f, s) = <<>>
  <1>1. Mapped(f, s) \in Seq(S)
    BY MappedType
  <1>2. s # <<>> => Mapped(f, s) = f[Head(s)] \o Mapped(f, Tail(s))
    BY MappedFirst
  <1>3. (\A k \in 1 .. Len(s) : f[s[k]] = <<>>) => Mapped(f, s) = <<>>
    BY MappedNothing
  <1> QED BY <1>1, <1>2, <1>3, MappedEmpty, Zenon

\* The entries of a block, as a map over its items.
LEMMA EntriesAre ==
  ASSUME NEW list \in Seq(Items)
  PROVE  EntriesIn(list) = Mapped(EntryFn, list)
  <1>1. \A k \in DOMAIN list : EntryOf(list[k]) = EntryFn[list[k]]
    BY DEF EntryFn
  <1>2. [k \in DOMAIN list |-> EntryOf(list[k])] = Along(EntryFn, list)
    BY <1>1 DEF Along
  <1> QED BY <1>2, Zenon DEF EntriesIn, Mapped

\* An item gives a sequence of inode numbers.
LEMMA EntriesGiven == Gives(EntryFn, Items, Nat)
  <1>1. ASSUME NEW i \in Items PROVE EntryOf(i) \in Seq(Nat)
    BY EmptySeq DEF EntryOf, Items
  <1> QED BY <1>1 DEF Gives, EntryFn

\* The entries of a block, read item by item.
LEMMA ItemLists ==
  ASSUME NEW list \in Seq(Items)
  PROVE  /\ EntriesIn(list) \in Seq(Nat)
         /\ list = <<>> => EntriesIn(list) = <<>>
         /\ list # <<>> => EntriesIn(list) = EntryOf(Head(list)) \o EntriesIn(Tail(list))
         /\ (\A k \in 1 .. Len(list) : EntryOf(list[k]) = <<>>) => EntriesIn(list) = <<>>
  <1> DEFINE f == EntryFn
             D == Items
  <1>1. Gives(f, D, Nat)
    BY EntriesGiven
  <1>2. \A s \in Seq(D) : EntriesIn(s) = Mapped(f, s)
    BY EntriesAre
  <1>3. \A i \in D : f[i] = EntryOf(i)
    BY DEF EntryFn
  <1> HIDE DEF f, D
  <1>4. list \in Seq(D)
    BY DEF D
  <1>5. list # <<>> => Head(list) \in D /\ Tail(list) \in Seq(D)
    BY <1>4, HeadTailProperties
  <1>6. \A k \in 1 .. Len(list) : list[k] \in D
    BY <1>4
  <1>7. /\ Mapped(f, list) \in Seq(Nat)
        /\ list = <<>> => Mapped(f, list) = <<>>
        /\ list # <<>> => Mapped(f, list) = f[Head(list)] \o Mapped(f, Tail(list))
        /\ (\A k \in 1 .. Len(list) : f[list[k]] = <<>>) => Mapped(f, list) = <<>>
    BY <1>1, <1>4, MappedFacts
  <1> QED BY <1>2, <1>3, <1>4, <1>5, <1>6, <1>7, Zenon
-----------------------------------------------------------------------------
\* A sequence whose elements are in T is a sequence over T.
LEMMA SeqWithin ==
  ASSUME NEW S, NEW T, NEW s \in Seq(S), \A k \in DOMAIN s : s[k] \in T
  PROVE  s \in Seq(T)
  <1>1. PICK n \in Nat : n = Len(s) /\ DOMAIN s = 1 .. n
    OBVIOUS
  <1>2. s \in [1 .. n -> T]
    BY <1>1
  <1> QED BY <1>2

\* A block gives a sequence of inode numbers.
LEMMA BlocksGiven == ASSUME NEW d \in Images PROVE Gives(BlockFn(d), DataBlocks(d), Nat)
  <1>1. ASSUME NEW f \in DataBlocks(d) PROVE BlockEntries(d, f) \in Seq(Nat)
    <2>1. CASE IsData(d, f)
      <3>1. At(d, f) \in DOMAIN d.dev
        BY DEF DataBlocks, DataOK, OnDevice, At
      <3>2. BlockAt(d, f).items \in Seq(Items)
        BY <2>1, <3>1, IndexAssumption DEF BlockOK, IsData, BlockAt, Items
      <3>3. EntriesIn(BlockAt(d, f).items) \in Seq(Nat)
        BY <3>2, ItemLists
      <3> QED BY <2>1, <3>3 DEF BlockEntries
    <2>2. CASE ~IsData(d, f)
      BY <2>2, EmptySeq DEF BlockEntries
    <2> QED BY <2>1, <2>2
  <1> QED BY <1>1 DEF Gives, BlockFn

\* The entries of a list of blocks, as a map over the blocks.
LEMMA BlocksAre ==
  ASSUME NEW d, NEW list \in Seq(DataBlocks(d))
  PROVE  BlocksEntries(d, list) = Mapped(BlockFn(d), list)
  <1>1. \A k \in DOMAIN list : BlockEntries(d, list[k]) = BlockFn(d)[list[k]]
    BY DEF BlockFn
  <1>2. [k \in DOMAIN list |-> BlockEntries(d, list[k])] = Along(BlockFn(d), list)
    BY <1>1 DEF Along
  <1> QED BY <1>2, Zenon DEF BlocksEntries, Mapped

\* The entries of a list of blocks, read block by block.
LEMMA BlockLists ==
  ASSUME NEW d \in Images, NEW list \in Seq(DataBlocks(d))
  PROVE  /\ BlocksEntries(d, list) \in Seq(Nat)
         /\ list = <<>> => BlocksEntries(d, list) = <<>>
         /\ list # <<>> => BlocksEntries(d, list) = BlockEntries(d, Head(list)) \o BlocksEntries(d, Tail(list))
         /\ (\A k \in 1 .. Len(list) : BlockEntries(d, list[k]) = <<>>) => BlocksEntries(d, list) = <<>>
  <1> DEFINE f == BlockFn(d)
             D == DataBlocks(d)
  <1>1. Gives(f, D, Nat)
    BY BlocksGiven
  <1>2. \A s \in Seq(D) : BlocksEntries(d, s) = Mapped(f, s)
    BY BlocksAre
  <1>3. \A i \in D : f[i] = BlockEntries(d, i)
    BY DEF BlockFn
  <1> HIDE DEF f, D
  <1>4. list \in Seq(D)
    BY DEF D
  <1>5. list # <<>> => Head(list) \in D /\ Tail(list) \in Seq(D)
    BY <1>4, HeadTailProperties
  <1>6. \A k \in 1 .. Len(list) : list[k] \in D
    BY <1>4
  <1>7. /\ Mapped(f, list) \in Seq(Nat)
        /\ list = <<>> => Mapped(f, list) = <<>>
        /\ list # <<>> => Mapped(f, list) = f[Head(list)] \o Mapped(f, Tail(list))
        /\ (\A k \in 1 .. Len(list) : f[list[k]] = <<>>) => Mapped(f, list) = <<>>
    BY <1>1, <1>4, MappedFacts
  <1> QED BY <1>2, <1>3, <1>4, <1>5, <1>6, <1>7, Zenon

\* The blocks of a record, and the records of a leaf, are such lists.
LEMMA RecBlocksGood ==
  ASSUME NEW d, NEW r \in GoodRecs(d)
  PROVE  RecBlocks(r) \in Seq(DataBlocks(d))
  <1>1. IsRecord(r) /\ \A k \in DOMAIN RecBlocks(r) : DataOK(d, RecBlocks(r)[k])
    BY DEF GoodRecs, RecOK
  <1>2. RecBlocks(r) \in Seq(Nat)
    BY <1>1, BlocksRead
  <1>3. \A k \in DOMAIN RecBlocks(r) : RecBlocks(r)[k] \in DataBlocks(d)
    BY <1>1, <1>2 DEF DataBlocks
  <1> QED BY <1>2, <1>3, SeqWithin

\* An extent record gives a sequence of inode numbers.
LEMMA RecsGiven == ASSUME NEW d \in Images PROVE Gives(RecFn(d), GoodRecs(d), Nat)
  <1>1. ASSUME NEW r \in GoodRecs(d) PROVE RecEntries(d, r) \in Seq(Nat)
    BY RecBlocksGood, BlockLists DEF RecEntries
  <1> QED BY <1>1 DEF Gives, RecFn

\* The entries of a list of records, as a map over the records.
LEMMA RecsAre ==
  ASSUME NEW d, NEW list \in Seq(GoodRecs(d))
  PROVE  RecsEntries(d, list) = Mapped(RecFn(d), list)
  <1>1. \A k \in DOMAIN list : RecEntries(d, list[k]) = RecFn(d)[list[k]]
    BY DEF RecFn
  <1>2. [k \in DOMAIN list |-> RecEntries(d, list[k])] = Along(RecFn(d), list)
    BY <1>1 DEF Along
  <1> QED BY <1>2, Zenon DEF RecsEntries, Mapped

\* The entries of a list of records, read record by record.
LEMMA RecLists ==
  ASSUME NEW d \in Images, NEW list \in Seq(GoodRecs(d))
  PROVE  /\ RecsEntries(d, list) \in Seq(Nat)
         /\ list = <<>> => RecsEntries(d, list) = <<>>
         /\ list # <<>> => RecsEntries(d, list) = RecEntries(d, Head(list)) \o RecsEntries(d, Tail(list))
         /\ (\A k \in 1 .. Len(list) : RecEntries(d, list[k]) = <<>>) => RecsEntries(d, list) = <<>>
  <1> DEFINE f == RecFn(d)
             D == GoodRecs(d)
  <1>1. Gives(f, D, Nat)
    BY RecsGiven
  <1>2. \A s \in Seq(D) : RecsEntries(d, s) = Mapped(f, s)
    BY RecsAre
  <1>3. \A i \in D : f[i] = RecEntries(d, i)
    BY DEF RecFn
  <1> HIDE DEF f, D
  <1>4. list \in Seq(D)
    BY DEF D
  <1>5. list # <<>> => Head(list) \in D /\ Tail(list) \in Seq(D)
    BY <1>4, HeadTailProperties
  <1>6. \A k \in 1 .. Len(list) : list[k] \in D
    BY <1>4
  <1>7. /\ Mapped(f, list) \in Seq(Nat)
        /\ list = <<>> => Mapped(f, list) = <<>>
        /\ list # <<>> => Mapped(f, list) = f[Head(list)] \o Mapped(f, Tail(list))
        /\ (\A k \in 1 .. Len(list) : f[list[k]] = <<>>) => Mapped(f, list) = <<>>
    BY <1>1, <1>4, MappedFacts
  <1> QED BY <1>2, <1>3, <1>4, <1>5, <1>6, <1>7, Zenon

\* What a leaf of a directory's B+tree holds.
LEMMA LeafRecsGood ==
  ASSUME NEW d \in Images, NEW f \in DirLeaves(d)
  PROVE  /\ BlockAt(d, f).recs \in Seq(GoodRecs(d)) /\ DataFirst(d, BlockAt(d, f).recs)
         /\ OnDevice(d, f) /\ BlockAt(d, f).magic = "BMA3" /\ BlockAt(d, f).level = 0
  <1>1. /\ OnDevice(d, f)
        /\ BlockAt(d, f).magic = "BMA3" /\ BlockAt(d, f).level = 0
        /\ \A k \in DOMAIN BlockAt(d, f).recs : RecOK(d, BlockAt(d, f).recs[k])
        /\ DataFirst(d, BlockAt(d, f).recs)
    BY DEF DirLeaves, LeafOK
  <1>2. At(d, f) \in DOMAIN d.dev
    BY <1>1 DEF OnDevice, At
  <1>3. BlockAt(d, f).recs \in Seq(Words)
    BY <1>1, <1>2, IndexAssumption DEF BlockOK, BlockAt
  <1>4. \A k \in DOMAIN BlockAt(d, f).recs : BlockAt(d, f).recs[k] \in GoodRecs(d)
    BY <1>1, <1>3 DEF GoodRecs
  <1>5. BlockAt(d, f).recs \in Seq(GoodRecs(d))
    BY <1>3, <1>4, SeqWithin
  <1> QED BY <1>1, <1>5

\* A leaf gives a sequence of inode numbers.
LEMMA LeavesGiven == ASSUME NEW d \in Images PROVE Gives(LeafFn(d), DirLeaves(d), Nat)
  <1>1. ASSUME NEW f \in DirLeaves(d) PROVE LeafEntries(d, f) \in Seq(Nat)
    BY LeafRecsGood, RecLists DEF LeafEntries
  <1> QED BY <1>1 DEF Gives, LeafFn

\* The entries of a list of leaves, as a map over the leaves.
LEMMA LeavesAre ==
  ASSUME NEW d, NEW list \in Seq(DirLeaves(d))
  PROVE  LeavesEntries(d, list) = Mapped(LeafFn(d), list)
  <1>1. \A k \in DOMAIN list : LeafEntries(d, list[k]) = LeafFn(d)[list[k]]
    BY DEF LeafFn
  <1>2. [k \in DOMAIN list |-> LeafEntries(d, list[k])] = Along(LeafFn(d), list)
    BY <1>1 DEF Along
  <1> QED BY <1>2, Zenon DEF LeavesEntries, Mapped

\* The entries of a list of leaves, read leaf by leaf.
LEMMA LeafLists ==
  ASSUME NEW d \in Images, NEW list \in Seq(DirLeaves(d))
  PROVE  /\ LeavesEntries(d, list) \in Seq(Nat)
         /\ list = <<>> => LeavesEntries(d, list) = <<>>
         /\ list # <<>> => LeavesEntries(d, list) = LeafEntries(d, Head(list)) \o LeavesEntries(d, Tail(list))
         /\ (\A k \in 1 .. Len(list) : LeafEntries(d, list[k]) = <<>>) => LeavesEntries(d, list) = <<>>
  <1> DEFINE f == LeafFn(d)
             D == DirLeaves(d)
  <1>1. Gives(f, D, Nat)
    BY LeavesGiven
  <1>2. \A s \in Seq(D) : LeavesEntries(d, s) = Mapped(f, s)
    BY LeavesAre
  <1>3. \A i \in D : f[i] = LeafEntries(d, i)
    BY DEF LeafFn
  <1> HIDE DEF f, D
  <1>4. list \in Seq(D)
    BY DEF D
  <1>5. list # <<>> => Head(list) \in D /\ Tail(list) \in Seq(D)
    BY <1>4, HeadTailProperties
  <1>6. \A k \in 1 .. Len(list) : list[k] \in D
    BY <1>4
  <1>7. /\ Mapped(f, list) \in Seq(Nat)
        /\ list = <<>> => Mapped(f, list) = <<>>
        /\ list # <<>> => Mapped(f, list) = f[Head(list)] \o Mapped(f, Tail(list))
        /\ (\A k \in 1 .. Len(list) : f[list[k]] = <<>>) => Mapped(f, list) = <<>>
    BY <1>1, <1>4, MappedFacts
  <1> QED BY <1>2, <1>3, <1>4, <1>5, <1>6, <1>7, Zenon
-----------------------------------------------------------------------------
\* The pointers the index follows in the B+tree of a file, each with the
\* records below it.
Lvl(d, bno) == BlockAt(d, bno).level
IsNodePtr(d, p) ==
  /\ OnDevice(d, p.bno) /\ Lvl(d, p.bno) \in Nat
  /\ At(d, p.bno) \in DOMAIN FileTrees(d)[Lvl(d, p.bno)]
  /\ p.leaf <=> Lvl(d, p.bno) = 0
NodePtrs(d) == {p \in [bno : Nat, leaf : BOOLEAN] : IsNodePtr(d, p)}
BelowPtr(d, p) == FileTrees(d)[Lvl(d, p.bno)][At(d, p.bno)]
PtrsRecs(d, list) == FlattenSeq([k \in DOMAIN list |-> BelowPtr(d, list[k])])
PtrFn(d) == [p \in NodePtrs(d) |-> BelowPtr(d, p)]

\* A block of level l of a file's trees, and the records below it.
LEMMA TreeTypes ==
  ASSUME NEW d \in Images, NEW l \in Nat, NEW b \in DOMAIN FileTrees(d)[l]
  PROVE  /\ FileTrees(d)[l][b] \in Seq(Words)
         /\ b \in DOMAIN d.dev /\ d.dev[b].magic = "BMA3" /\ d.dev[b].level = l
         /\ l = 0 => FileTrees(d)[l][b] = d.dev[b].recs
         /\ l > 0 => /\ Leads(d, b, FileTrees(d)[l - 1])
                     /\ FileTrees(d)[l][b] = Joined(d, d.dev[b].ptrs, FileTrees(d)[l - 1])
  <1>1. FileTrees(d)[l] \in RecFns(d)
    BY TreesUnfold
  <1>2. PICK t \in RecFns(d) : t = FileTrees(d)[l]
    BY <1>1
  <1>3. t[b] \in Seq(Words)
    BY <1>2 DEF RecFns
  <1>4. CASE l = 0
    <2>1. t = LeafRecs(d)
      BY <1>2, <1>4, TreesUnfold
    <2>2. b \in Nodes(d, 0) /\ t[b] = d.dev[b].recs
      BY <1>2, <2>1 DEF LeafRecs
    <2> QED BY <1>2, <1>3, <1>4, <2>2 DEF Nodes
  <1>5. CASE l > 0
    <2>1. PICK j \in Nat : j = l - 1 /\ l = j + 1
      BY <1>5
    <2>2. t = NodeRecs(d, l, FileTrees(d)[j])
      BY <1>2, <2>1, TreesUnfold
    <2>3. /\ b \in Nodes(d, l) /\ Leads(d, b, FileTrees(d)[j])
          /\ t[b] = Joined(d, d.dev[b].ptrs, FileTrees(d)[j])
      BY <1>2, <2>2 DEF NodeRecs
    <2> QED BY <1>2, <1>3, <1>5, <2>1, <2>3 DEF Nodes
  <1> QED BY <1>4, <1>5

\* A pointer of a file's B+tree leads to a leaf or to a node, as it is marked.
LEMMA PtrAre ==
  ASSUME NEW d \in Images, NEW p \in NodePtrs(d)
  PROVE  /\ p \in [bno : Nat, leaf : BOOLEAN] /\ p.bno \in Nat /\ OnDevice(d, p.bno)
         /\ BelowPtr(d, p) \in Seq(Words)
         /\ BlockAt(d, p.bno).magic = "BMA3" /\ BlockAt(d, p.bno).level \in Nat
         /\ p.leaf => /\ BlockAt(d, p.bno).level = 0
                      /\ BelowPtr(d, p) = BlockAt(d, p.bno).recs
         /\ ~p.leaf => /\ BlockAt(d, p.bno).level > 0
                       /\ Leads(d, At(d, p.bno), FileTrees(d)[BlockAt(d, p.bno).level - 1])
                       /\ BelowPtr(d, p) = Joined(d, BlockAt(d, p.bno).ptrs, FileTrees(d)[BlockAt(d, p.bno).level - 1])
  <1>1. p \in [bno : Nat, leaf : BOOLEAN] /\ IsNodePtr(d, p)
    BY DEF NodePtrs
  <1>2. PICK l \in Nat : l = Lvl(d, p.bno)
    BY <1>1 DEF IsNodePtr
  <1>3. PICK b \in DOMAIN FileTrees(d)[l] : b = At(d, p.bno)
    BY <1>1, <1>2 DEF IsNodePtr
  <1>4. BlockAt(d, p.bno) = d.dev[b] /\ BelowPtr(d, p) = FileTrees(d)[l][b]
    BY <1>2, <1>3 DEF BlockAt, BelowPtr
  <1>5. p.leaf <=> l = 0
    BY <1>1, <1>2 DEF IsNodePtr
  <1>6. p.bno \in Nat /\ OnDevice(d, p.bno)
    BY <1>1 DEF IsNodePtr
  <1>7. /\ FileTrees(d)[l][b] \in Seq(Words) /\ d.dev[b].magic = "BMA3" /\ d.dev[b].level = l
        /\ l = 0 => FileTrees(d)[l][b] = d.dev[b].recs
        /\ l > 0 => /\ Leads(d, b, FileTrees(d)[l - 1])
                    /\ FileTrees(d)[l][b] = Joined(d, d.dev[b].ptrs, FileTrees(d)[l - 1])
    BY TreeTypes
  <1>8. l = 0 \/ l > 0
    OBVIOUS
  <1> QED BY <1>1, <1>3, <1>4, <1>5, <1>6, <1>7, <1>8

\* The records below a list of pointers, as a map over the pointers.
LEMMA PtrsAre ==
  ASSUME NEW d, NEW list \in Seq(NodePtrs(d))
  PROVE  PtrsRecs(d, list) = Mapped(PtrFn(d), list)
  <1>1. \A k \in DOMAIN list : BelowPtr(d, list[k]) = PtrFn(d)[list[k]]
    BY DEF PtrFn
  <1>2. [k \in DOMAIN list |-> BelowPtr(d, list[k])] = Along(PtrFn(d), list)
    BY <1>1 DEF Along
  <1> QED BY <1>2, Zenon DEF PtrsRecs, Mapped

\* A pointer gives a sequence of records.
LEMMA PtrsGiven == ASSUME NEW d \in Images PROVE Gives(PtrFn(d), NodePtrs(d), Words)
  <1>1. ASSUME NEW p \in NodePtrs(d) PROVE BelowPtr(d, p) \in Seq(Words)
    BY PtrAre
  <1> QED BY <1>1 DEF Gives, PtrFn

\* The records below a list of pointers, read pointer by pointer.
LEMMA PtrLists ==
  ASSUME NEW d \in Images, NEW list \in Seq(NodePtrs(d))
  PROVE  /\ PtrsRecs(d, list) \in Seq(Words)
         /\ list = <<>> => PtrsRecs(d, list) = <<>>
         /\ list # <<>> => PtrsRecs(d, list) = BelowPtr(d, Head(list)) \o PtrsRecs(d, Tail(list))
         /\ \A t \in Seq(NodePtrs(d)) : PtrsRecs(d, list \o t) = PtrsRecs(d, list) \o PtrsRecs(d, t)
  <1> DEFINE f == PtrFn(d)
             D == NodePtrs(d)
  <1>1. Gives(f, D, Words)
    BY PtrsGiven
  <1>2. \A s \in Seq(D) : PtrsRecs(d, s) = Mapped(f, s)
    BY PtrsAre
  <1>3. \A i \in D : f[i] = BelowPtr(d, i)
    BY DEF PtrFn
  <1> HIDE DEF f, D
  <1>4. list \in Seq(D)
    BY DEF D
  <1>5. list # <<>> => Head(list) \in D /\ Tail(list) \in Seq(D)
    BY <1>4, HeadTailProperties
  <1>6. /\ Mapped(f, list) \in Seq(Words)
        /\ list = <<>> => Mapped(f, list) = <<>>
        /\ list # <<>> => Mapped(f, list) = f[Head(list)] \o Mapped(f, Tail(list))
    BY <1>1, <1>4, MappedFacts
  <1>7. ASSUME NEW t \in Seq(D) PROVE PtrsRecs(d, list \o t) = PtrsRecs(d, list) \o PtrsRecs(d, t)
    <2>1. Mapped(f, list \o t) = Mapped(f, list) \o Mapped(f, t)
      BY <1>1, <1>4, <1>7, MappedConcat
    <2>2. list \o t \in Seq(D)
      BY <1>4, <1>7, ConcatProperties
    <2> QED BY <1>2, <1>4, <1>7, <2>1, <2>2, Zenon
  <1>8. \A t \in Seq(NodePtrs(d)) : PtrsRecs(d, list \o t) = PtrsRecs(d, list) \o PtrsRecs(d, t)
    BY <1>7 DEF D
  <1> QED BY <1>2, <1>3, <1>4, <1>5, <1>6, <1>8, Zenon

\* The pointers of a node, as the index takes them over.
LEMMA FollowedPtrs ==
  ASSUME NEW d \in Images, NEW l \in Nat, l >= 1, NEW list \in Seq(Nat),
         \A k \in DOMAIN list : OnDevice(d, list[k]) /\ At(d, list[k]) \in DOMAIN FileTrees(d)[l - 1]
  PROVE  /\ Followed(l, list) \in Seq(NodePtrs(d))
         /\ PtrsRecs(d, Followed(l, list)) = Joined(d, list, FileTrees(d)[l - 1])
  <1> DEFINE s == Followed(l, list)
             R == [bno : Nat, leaf : BOOLEAN]
  <1>1. PICK n \in Nat : n = Len(list) /\ DOMAIN list = 1 .. n
    OBVIOUS
  <1>2. PICK j \in Nat : j = l - 1
    OBVIOUS
  <1>3. s = [k \in 1 .. n |-> [bno |-> list[k], leaf |-> l = 1]]
    BY <1>1 DEF Followed
  <1>4. ASSUME NEW k \in 1 .. n
        PROVE  /\ s[k] \in NodePtrs(d)
               /\ BelowPtr(d, s[k]) = FileTrees(d)[j][At(d, list[k])]
    <2>1. s[k] = [bno |-> list[k], leaf |-> l = 1]
      BY <1>3
    <2>2. list[k] \in Nat /\ OnDevice(d, list[k]) /\ At(d, list[k]) \in DOMAIN FileTrees(d)[j]
      BY <1>1, <1>2
    <2>3. PICK p \in R : p = [bno |-> list[k], leaf |-> l = 1]
      <3>1. (l = 1) \in BOOLEAN
        BY Zenon
      <3>2. ASSUME NEW x \in Nat, NEW q \in BOOLEAN PROVE [bno |-> x, leaf |-> q] \in R
        OBVIOUS
      <3> QED BY <2>2, <3>1, <3>2, Zenon
    <2>4. p.bno = list[k] /\ (p.leaf <=> l = 1)
      BY <2>3
    <2>5. PICK b \in DOMAIN FileTrees(d)[j] : b = At(d, list[k])
      BY <2>2
    <2>6. d.dev[b].level = j
      BY TreeTypes
    <2>7. Lvl(d, p.bno) = j
      BY <2>4, <2>5, <2>6 DEF Lvl, BlockAt
    <2>8. p.leaf <=> j = 0
      BY <1>2, <2>4
    <2>9. IsNodePtr(d, p)
      BY <2>2, <2>4, <2>7, <2>8 DEF IsNodePtr
    <2> QED BY <2>1, <2>3, <2>4, <2>7, <2>9 DEF NodePtrs, BelowPtr
  <1> HIDE DEF s
  <1>5. s \in [1 .. n -> NodePtrs(d)]
    BY <1>3, <1>4
  <1>6. s \in Seq(NodePtrs(d)) /\ DOMAIN s = 1 .. n
    BY <1>5
  <1>7. [k \in DOMAIN s |-> BelowPtr(d, s[k])] = [k \in DOMAIN list |-> FileTrees(d)[j][At(d, list[k])]]
    BY <1>1, <1>4, <1>6
  <1>8. PtrsRecs(d, s) = Joined(d, list, FileTrees(d)[j])
    BY <1>7, Zenon DEF PtrsRecs, Joined
  <1> QED BY <1>2, <1>6, <1>8 DEF s
-----------------------------------------------------------------------------
\* What is left of a list behind its first n elements.
Left(list, n) == SubSeq(list, n + 1, Len(list))

\* Left(list, n) is list without its first n elements.
LEMMA LeftIs ==
  ASSUME NEW S, NEW list \in Seq(S), NEW n \in Nat, n <= Len(list)
  PROVE  /\ Left(list, n) \in Seq(S) /\ Len(Left(list, n)) = Len(list) - n
         /\ \A k \in 1 .. Len(list) - n : Left(list, n)[k] = list[n + k]
         /\ Len(list) \in Nat
  <1>1. PICK l \in Nat : l = Len(list)
    OBVIOUS
  <1>2. n + 1 \in 1 .. Len(list) + 1 /\ l \in (n + 1) - 1 .. Len(list)
    BY <1>1
  <1>3. PICK m \in 1 .. Len(list) + 1 : m = n + 1
    BY <1>2
  <1>4. /\ SubSeq(list, m, l) \in Seq(S) /\ Len(SubSeq(list, m, l)) = l - m + 1
        /\ \A k \in 1 .. l - m + 1 : SubSeq(list, m, l)[k] = list[m + k - 1]
    BY <1>1, <1>2, <1>3, SubSeqProperties
  <1>5. PICK s \in Seq(S) : s = SubSeq(list, m, l) /\ s = Left(list, n)
    BY <1>1, <1>3, <1>4 DEF Left
  <1>6. l - m + 1 = l - n /\ \A k \in 1 .. l - n : m + k - 1 = n + k
    BY <1>1, <1>3
  <1> QED BY <1>1, <1>4, <1>5, <1>6

\* Behind its first n elements comes a, and behind that b.
Splits(list, n, a, b) ==
  /\ n + Len(a) <= Len(list)
  /\ \A k \in 1 .. Len(a) : list[n + k] = a[k]
  /\ b = Left(list, n + Len(a))

\* What is taken off the front of the rest are the next elements of the list.
LEMMA LeftSplit ==
  ASSUME NEW S, NEW list \in Seq(S), NEW n \in Nat, n <= Len(list),
         NEW a \in Seq(S), NEW b \in Seq(S), a \o b = Left(list, n)
  PROVE  Splits(list, n, a, b)
  <1>1. PICK l \in Nat : l = Len(list)
    OBVIOUS
  <1>2. PICK i, j \in Nat : i = Len(a) /\ j = Len(b)
    OBVIOUS
  <1>3. PICK w \in Seq(S) : w = a \o b
    BY ConcatProperties
  <1>4. /\ Len(w) = i + j
        /\ \A k \in 1 .. i : w[k] = a[k]
        /\ \A k \in 1 .. j : w[i + k] = b[k]
    BY <1>2, <1>3, ConcatProperties
  <1>5. Len(w) = l - n /\ \A k \in 1 .. l - n : w[k] = list[n + k]
    <2>1. /\ Left(list, n) \in Seq(S) /\ Len(Left(list, n)) = Len(list) - n
          /\ \A k \in 1 .. Len(list) - n : Left(list, n)[k] = list[n + k]
      BY LeftIs
    <2>2. w = Left(list, n)
      BY <1>3
    <2> QED BY <1>1, <2>1, <2>2, Zenon
  <1>6. i + j = l - n /\ n + i <= l
    BY <1>4, <1>5
  <1>7. \A k \in 1 .. i : list[n + k] = a[k]
    BY <1>4, <1>5, <1>6
  <1>8. b = Left(list, n + i)
    <2>1. PICK m \in Nat : m = n + i
      OBVIOUS
    <2>2. PICK v \in Seq(S) : /\ v = Left(list, m) /\ Len(v) = l - m
                              /\ \A k \in 1 .. l - m : v[k] = list[m + k]
      <3>1. m <= Len(list)
        BY <1>1, <1>6, <2>1
      <3>2. /\ Left(list, m) \in Seq(S) /\ Len(Left(list, m)) = Len(list) - m
            /\ \A k \in 1 .. Len(list) - m : Left(list, m)[k] = list[m + k]
        BY <3>1, LeftIs
      <3> QED BY <1>1, <3>2, Zenon
    <2>3. Len(v) = Len(b)
      BY <1>2, <1>6, <2>1, <2>2
    <2>4. ASSUME NEW k \in 1 .. Len(b) PROVE b[k] = v[k]
      <3>1. k \in 1 .. j /\ k \in 1 .. l - m /\ i + k \in 1 .. l - n /\ n + (i + k) = m + k
        BY <1>2, <1>6, <2>1
      <3> QED BY <1>4, <1>5, <2>2, <3>1
    <2>5. b = v
      BY ONLY <2>2, <2>3, <2>4, b \in Seq(S), SeqEqual
    <2> QED BY <2>1, <2>2, <2>5
  <1> QED BY <1>1, <1>2, <1>6, <1>7, <1>8 DEF Splits

\* At the start everything is left, and nothing is left at the end only.
LEMMA LeftEnds ==
  ASSUME NEW S, NEW list \in Seq(S)
  PROVE  /\ Left(list, 0) = list
         /\ \A n \in Nat : n <= Len(list) /\ Left(list, n) = <<>> => n = Len(list)
  <1>1. Left(list, 0) = list
    <2>1. PICK l \in Nat : l = Len(list)
      OBVIOUS
    <2>2. PICK v \in Seq(S) : /\ v = Left(list, 0) /\ Len(v) = l
                              /\ \A k \in 1 .. l : v[k] = list[k]
      <3>1. 0 <= Len(list) /\ Len(list) - 0 = l /\ \A k \in 1 .. l : 0 + k = k
        BY <2>1
      <3> QED BY <2>1, <3>1, LeftIs
    <2>3. Len(v) = Len(list) /\ \A k \in 1 .. Len(v) : v[k] = list[k]
      BY <2>1, <2>2
    <2> QED BY ONLY <2>2, <2>3, list \in Seq(S), SeqEqual
  <1>2. ASSUME NEW n \in Nat, n <= Len(list), Left(list, n) = <<>> PROVE n = Len(list)
    BY <1>2, LeftIs
  <1> QED BY <1>1, <1>2
-----------------------------------------------------------------------------
\* The lists are empty wherever the loops over them have not begun.
ListsInv ==
  /\ xpc # "dentry" => items = <<>>
  /\ xpc \notin {"dentry", "dblock"} => blks = <<>>
  /\ xpc \notin {"dentry", "dblock", "extent"} => recs = <<>>
  /\ ~Filling /\ xpc # "node" => ptrs = <<>>

\* The first n children of directory c, and extents of file c, are what the
\* disk says.
List(c) == disk.listing[imem[c].ino]
Map(c) == disk.mapping[imem[c].ino]
HasInos(c, n) ==
  n <= Len(List(c)) /\ \A k \in 1 .. n : imem[imem[c].idx + k - 1].ino = List(c)[k]
SameExtent(x, e) == x.start_offset = e.off /\ x.start_block = e.block /\ x.nblocks = e.n
HasExtents(c, n) ==
  n <= Len(Map(c)) /\ \A k \in 1 .. n : SameExtent(emem[imem[c].idx + k - 1], Map(c)[k])

\* An element whose array is complete, and one that is still to be processed.
DirRead(c) == imem[c].ftype = "dir" /\ imem[c].count = Len(List(c)) /\ HasInos(c, imem[c].count)
FileRead(c) == imem[c].ftype = "reg" /\ imem[c].count = Len(Map(c)) /\ HasExtents(c, imem[c].count)
Complete(c) == IF imem[c].ino \in DOMAIN disk.listing THEN DirRead(c) ELSE FileRead(c)
InStack(c) == \E i \in 1 .. Len(stack) : c \in Rest(stack[i])
Waiting(c) ==
  \/ c = self /\ xpc \notin {"idle", "child"}
  \/ InStack(c)
  \/ Filling /\ c \in Array(self)

\* The short form leaves the parent of a child to the loop over the children.
Later(c, k) ==
  \E i \in 1 .. Len(stack) :
    stack[i].dir = c /\ k \in Rest(stack[i]) /\ Dinode(c).fmt = "local"
Parented(c) == \A k \in Array(c) : imem[k].parent = c \/ Later(c, k)

\* The tree so far.
NamedAt(c) == Named(disk, imem[c].ino, imem[c].ftype)
Content ==
  /\ imem[rootIdx].ino = disk.rootino
  /\ \A c \in Claimed : NamedAt(c) /\ (Waiting(c) \/ Complete(c))
  /\ \A c \in OfType("dir") : Parented(c)

\* What is still to be read of the directory at work: the rest of its list.
InTurn(a, b, c, e) == a \o (b \o (c \o e))
Pending ==
  InTurn(EntriesIn(items), BlocksEntries(disk, blks), RecsEntries(disk, recs), LeavesEntries(disk, ptrs))
DirLists ==
  /\ ItemsOK(disk, items)
  /\ blks \in Seq(DataBlocks(disk)) /\ recs \in Seq(GoodRecs(disk)) /\ ptrs \in Seq(DirLeaves(disk))
ExtentsWork ==
  /\ xpc # "leaf" /\ ptrs = <<>>
  /\ nleft \in Int /\ Dinode(self).size \in Nat
  /\ InOrderOf(recs) /\ BelowSize(disk, recs, Dinode(self).size)
  /\ recs # <<>> => ExtentIn(Head(recs)).off + nleft >= Dinode(self).size
LeavesWork ==
  /\ DataFirst(disk, recs)
  /\ \/ AllData(disk, blks)
     \/ NoData(disk, blks) /\ \A k \in DOMAIN recs : NoData(disk, RecBlocks(recs[k]))
DirWork ==
  /\ Known(imem[self].ino) /\ imem[self].ino \in DOMAIN disk.listing
  /\ HasInos(self, imem[self].count)
  /\ Pending = Left(List(self), imem[self].count)
  /\ DirLists
  /\ \/ Dinode(self).fmt = "extents" /\ ExtentsWork
     \/ Dinode(self).fmt = "btree" /\ LeavesWork

\* What is still to be read of the file at work.
FileWork ==
  /\ Known(imem[self].ino) /\ imem[self].ino \in DOMAIN disk.mapping
  /\ HasExtents(self, imem[self].count)
  /\ ptrs \in Seq(NodePtrs(disk))
  /\ PtrsRecs(disk, ptrs) = Left(Records(Map(self)), imem[self].count)

MatchInv ==
  disk.valid =>
    /\ ListsInv
    /\ xpc # "idle" \/ xerr = "OK" => Content
    /\ Filling => DirWork
    /\ xpc = "node" => FileWork
-----------------------------------------------------------------------------
\* A step on the element at work, as the tree sees it: no more than the fields
\* of self, and what lies behind the elements in use, is written.
Kept ==
  /\ UNCHANGED <<disk, dmap, dinodes, rootIdx>>
  /\ \A c \in Cells \ {self} : c < inodes.free => imem'[c] = imem[c]
  /\ imem'[self].ino = imem[self].ino /\ imem'[self].parent = imem[self].parent
  /\ \A c \in Cells : c < extents.free => emem'[c] = emem[c]
Grown == \A i \in 1 .. Len(stack) : i \in 1 .. Len(stack') /\ stack'[i] = stack[i]

\* A step on the element at work keeps every inode number and parent in use.
LEMMA InosKept ==
  ASSUME MemInv, Kept, NEW e \in Nat, e < inodes.free
  PROVE  e \in Cells /\ imem'[e].ino = imem[e].ino /\ imem'[e].parent = imem[e].parent
  <1>1. e \in Cells
    BY CellFacts, CellsAre
  <1> QED BY <1>1 DEF Kept

\* The array of a claimed element lies in the part in use.
LEMMA ArrayWithin ==
  ASSUME MemInv, ArrayInv, NEW c \in Claimed, imem[c].ftype \in {"dir", "reg"},
         NEW k \in Nat, 1 <= k, k <= imem[c].count
  PROVE  /\ imem[c].idx + k - 1 \in Nat
         /\ imem[c].ftype = "dir" => imem[c].idx + k - 1 < inodes.free
         /\ imem[c].ftype = "reg" => imem[c].idx + k - 1 < extents.free
  <1>1. c \in Cells /\ imem[c].idx \in Nat /\ imem[c].count \in Nat /\ inodes.free \in Nat /\ extents.free \in Nat
    BY ClaimedCells, CellFacts DEF ArrayInv
  <1>2. imem[c].count > 0
    BY <1>1
  <1>3. imem[c].ftype = "dir" => imem[c].idx + imem[c].count <= inodes.free
    BY <1>2 DEF ArrayInv, OfType, End
  <1>4. imem[c].ftype = "reg" => imem[c].idx + imem[c].count <= extents.free
    BY <1>2 DEF ArrayInv, OfType, End
  <1> QED BY <1>1, <1>3, <1>4

\* It keeps every other claimed element.
LEMMA OneLeft ==
  ASSUME MemInv, ArrayInv, OnlySelf, Kept, NEW c \in Claimed, c # self
  PROVE  c \in Cells /\ c < inodes.free /\ imem'[c] = imem[c]
  BY ClaimedCells DEF ArrayInv, Kept

\* What is complete stays so.
LEMMA CompleteKept ==
  ASSUME MemInv, ArrayInv, OnlySelf, Kept, NEW c \in Claimed, c # self, Complete(c)
  PROVE  Complete(c)'
  <1>1. c \in Cells /\ imem'[c] = imem[c] /\ disk' = disk /\ imem[c].count \in Nat
    BY OneLeft, CellFacts DEF Kept
  <1>2. CASE imem[c].ino \in DOMAIN disk.listing
    <2>1. imem[c].ftype = "dir" /\ imem[c].count = Len(List(c)) /\ HasInos(c, imem[c].count)
      BY <1>2 DEF Complete, DirRead
    <2>2. List(c)' = List(c)
      BY <1>1 DEF List
    <2>3. ASSUME NEW k \in 1 .. imem[c].count
          PROVE  imem'[imem[c].idx + k - 1].ino = List(c)[k]
      <3>1. k \in Nat /\ 1 <= k /\ k <= imem[c].count
        BY <1>1
      <3>2. PICK e \in Nat : e = imem[c].idx + k - 1 /\ e < inodes.free
        BY <2>1, <3>1, ArrayWithin
      <3>3. imem'[e].ino = imem[e].ino
        BY <3>2, InosKept
      <3>4. imem[imem[c].idx + k - 1].ino = List(c)[k]
        BY <2>1, <2>3 DEF HasInos
      <3> QED BY <3>2, <3>3, <3>4
    <2>4. imem[c].count <= Len(List(c))
      BY <2>1 DEF HasInos
    <2> QED BY <1>1, <1>2, <2>1, <2>2, <2>3, <2>4 DEF Complete, DirRead, HasInos
  <1>3. CASE imem[c].ino \notin DOMAIN disk.listing
    <2>1. imem[c].ftype = "reg" /\ imem[c].count = Len(Map(c)) /\ HasExtents(c, imem[c].count)
      BY <1>3 DEF Complete, FileRead
    <2>2. Map(c)' = Map(c)
      BY <1>1 DEF Map
    <2>3. ASSUME NEW k \in 1 .. imem[c].count
          PROVE  SameExtent(emem'[imem[c].idx + k - 1], Map(c)[k])
      <3>1. k \in Nat /\ 1 <= k /\ k <= imem[c].count
        BY <1>1
      <3>2. PICK e \in Nat : e = imem[c].idx + k - 1 /\ e < extents.free
        BY <2>1, <3>1, ArrayWithin
      <3>3. e \in Cells
        BY <3>2, CellFacts, CellsAre
      <3>4. emem'[e] = emem[e]
        BY <3>2, <3>3 DEF Kept
      <3>5. SameExtent(emem[imem[c].idx + k - 1], Map(c)[k])
        BY <2>1, <2>3 DEF HasExtents
      <3> QED BY <3>2, <3>4, <3>5
    <2>4. imem[c].count <= Len(Map(c))
      BY <2>1 DEF HasExtents
    <2> QED BY <1>1, <1>3, <2>1, <2>2, <2>3, <2>4 DEF Complete, FileRead, HasExtents
  <1> QED BY <1>2, <1>3

\* The stack keeps what it waits for.
LEMMA FramesKept ==
  ASSUME MemInv, MemInv', ArrayInv, StackInv, SelfInv, OnlySelf, Grown, NEW i \in 1 .. Len(stack)
  PROVE  /\ i \in 1 .. Len(stack') /\ stack'[i] = stack[i] /\ Rest(stack[i])' = Rest(stack[i])
         /\ stack[i].dir # self /\ stack[i].dir \in Claimed
  <1>1. stack[i] \in Frames
    BY DEF MemInv
  <1>2. PICK f \in Frames : f = stack[i]
    BY <1>1
  <1>3. FrameOK(f) /\ f.dir < self /\ self \notin Rest(f) /\ self \in Claimed
    BY <1>2 DEF StackInv, SelfInv
  <1>4. Rest(f)' = Rest(f)
    BY <1>3, FrameKept
  <1>5. i \in 1 .. Len(stack') /\ stack'[i] = f
    BY <1>2 DEF Grown
  <1>6. Rest(stack[i])' = Rest(f)'
    BY <1>5 DEF Rest
  <1>7. f.dir \in Nat /\ f.dir \in Claimed /\ self \in Nat
    BY <1>3, CellsAre DEF Frames, FrameOK, MemInv
  <1> QED BY <1>2, <1>3, <1>4, <1>5, <1>6, <1>7

\* What the stack waits for, it still waits for.
LEMMA InStackKept ==
  ASSUME MemInv, MemInv', ArrayInv, StackInv, SelfInv, OnlySelf, Grown, NEW c, InStack(c)
  PROVE  InStack(c)'
  <1>1. PICK i \in 1 .. Len(stack) : c \in Rest(stack[i])
    BY DEF InStack
  <1>2. i \in 1 .. Len(stack') /\ Rest(stack[i])' = Rest(stack[i])
    BY FramesKept
  <1> QED BY <1>1, <1>2 DEF InStack

\* The children of another directory keep their parent.
LEMMA ParentedKept ==
  ASSUME MemInv, MemInv', ArrayInv, StackInv, SelfInv, OnlySelf, Kept, Grown,
         NEW c \in OfType("dir"), c # self, Parented(c)
  PROVE  Parented(c)'
  <1>1. c \in Claimed /\ c \in Cells /\ imem'[c] = imem[c] /\ imem[c].idx \in Nat /\ imem[c].count \in Nat
        /\ imem[c].ftype = "dir"
    BY OneLeft, CellFacts DEF OfType
  <1>2. Array(c)' = Array(c)
    BY <1>1 DEF Array
  <1>3. ASSUME NEW k \in Array(c) PROVE imem'[k].parent = c \/ Later(c, k)'
    <2>1. k \in Nat /\ k < inodes.free
      <3>1. imem[c].idx <= k /\ k < imem[c].idx + imem[c].count /\ k \in Nat
        BY <1>1, <1>3 DEF Array
      <3>2. imem[c].idx + imem[c].count <= inodes.free /\ inodes.free \in Nat
        BY CellFacts DEF ArrayInv, End
      <3> QED BY <1>1, <3>1, <3>2
    <2>2. imem'[k].parent = imem[k].parent
      BY <2>1, InosKept
    <2>3. CASE Later(c, k)
      <3>1. PICK i \in 1 .. Len(stack) :
              stack[i].dir = c /\ k \in Rest(stack[i]) /\ Dinode(c).fmt = "local"
        BY <2>3 DEF Later
      <3>2. i \in 1 .. Len(stack') /\ stack'[i] = stack[i] /\ Rest(stack[i])' = Rest(stack[i])
        BY FramesKept
      <3>3. Dinode(c)' = Dinode(c)
        BY <1>1 DEF Dinode, Kept
      <3> QED BY <3>1, <3>2, <3>3 DEF Later
    <2> QED BY <1>3, <2>2, <2>3 DEF Parented
  <1> QED BY <1>2, <1>3 DEF Parented

\* The tree after a step on the element at work.
NewWait == \A c \in Claimed' : c >= inodes.free => NamedAt(c)' /\ Waiting(c)'
SelfGood ==
  /\ NamedAt(self)' /\ (Waiting(self)' \/ Complete(self)')
  /\ imem'[self].ftype = "dir" => Parented(self)'
ArrayWaits == \A c \in Array(self) : Waiting(c)'

\* A step on the element at work keeps the tree so far, when what it adds waits
\* and the element is left waiting or complete.
LEMMA ContentStep ==
  ASSUME MemInv, MemInv', ArrayInv, StackInv, SelfInv, OnlySelf, Kept, Grown, self' = self, Content,
         NewWait, SelfGood, Filling => ArrayWaits
  PROVE  Content'
  <1>1. /\ inodes.free \in Nat /\ inodes'.free \in Nat /\ rootIdx \in Cells /\ rootIdx \in Nat
        /\ rootIdx < inodes.free /\ rootIdx' = rootIdx /\ disk' = disk
    BY CellFacts, NextCellFacts, CellsAre DEF ArrayInv, Kept
  <1>2. imem'[rootIdx'].ino = disk'.rootino
    BY <1>1, InosKept DEF Content
  <1>3. ASSUME NEW c \in Claimed' PROVE NamedAt(c)' /\ (Waiting(c)' \/ Complete(c)')
    <2>1. c \in Nat /\ rootIdx <= c
      BY <1>1, <1>3 DEF Claimed, IdxNone
    <2>2. CASE c >= inodes.free
      BY <1>3, <2>2 DEF NewWait
    <2>3. CASE c < inodes.free /\ c = self
      BY <2>3 DEF SelfGood
    <2>4. CASE c < inodes.free /\ c # self
      <3>1. c \in Claimed
        BY <1>1, <2>1, <2>4 DEF Claimed, IdxNone
      <3>2. imem'[c] = imem[c]
        BY <2>4, <3>1, OneLeft
      <3>3. NamedAt(c) /\ (Waiting(c) \/ Complete(c))
        BY <3>1 DEF Content
      <3>4. NamedAt(c)'
        BY <1>1, <3>2, <3>3 DEF NamedAt
      <3>5. CASE Complete(c)
        <4>1. Complete(c)'
          BY <2>4, <3>1, <3>5, CompleteKept
        <4> QED BY <3>4, <4>1
      <3>6. CASE Waiting(c)
        <4>1. CASE InStack(c)
          <5>1. InStack(c)'
            BY <4>1, InStackKept
          <5> QED BY <3>4, <5>1 DEF Waiting
        <4>2. CASE Filling /\ c \in Array(self)
          BY <3>4, <4>2 DEF ArrayWaits
        <4> QED BY <2>4, <3>6, <4>1, <4>2 DEF Waiting
      <3> QED BY <3>3, <3>5, <3>6
    <2> QED BY <1>1, <2>1, <2>2, <2>3, <2>4
  <1>4. ASSUME NEW c \in OfType("dir")' PROVE Parented(c)'
    <2>1. CASE c = self
      BY <1>4, <2>1 DEF SelfGood, OfType
    <2>2. CASE c # self
      <3>1. c \in OfType("dir")
        BY <1>4, <2>2, OthersKept
      <3>2. Parented(c)
        BY <3>1 DEF Content
      <3> QED BY <2>2, <3>1, <3>2, ParentedKept
    <2> QED BY <2>1, <2>2
  <1> QED BY <1>2, <1>3, <1>4 DEF Content
-----------------------------------------------------------------------------
\* The lists of a directory are read in turn.
LEMMA InTurnNext ==
  ASSUME NEW S, NEW x \in Seq(S), NEW y \in Seq(S), NEW z \in Seq(S)
  PROVE  <<>> \o ((x \o y) \o z) = x \o (y \o z)
  <1>1. (x \o y) \o z = x \o (y \o z)
    BY ONLY x \in Seq(S), y \in Seq(S), z \in Seq(S), Associative
  <1>2. x \o (y \o z) \in Seq(S)
    BY ConcatProperties
  <1> QED BY <1>1, <1>2, ConcatEmptySeq

\* The next record's blocks become the blocks to read.
LEMMA InTurnBlocks ==
  ASSUME NEW S, NEW x \in Seq(S), NEW y \in Seq(S), NEW c \in Seq(S), NEW e \in Seq(S)
  PROVE  InTurn(<<>>, x \o y, c, e) = InTurn(x, y, c, e)
  <1>1. PICK z \in Seq(S) : z = c \o e
    BY ConcatProperties
  <1>2. <<>> \o ((x \o y) \o z) = x \o (y \o z)
    BY ONLY x \in Seq(S), y \in Seq(S), z \in Seq(S), InTurnNext
  <1> QED BY <1>1, <1>2, Zenon DEF InTurn

\* The pending lists when the inner ones are empty.
LEMMA InTurnEmpty ==
  ASSUME NEW S, NEW b \in Seq(S), NEW c \in Seq(S), NEW e \in Seq(S)
  PROVE  /\ InTurn(<<>>, b, c, e) = b \o (c \o e)
         /\ InTurn(<<>>, <<>>, c, e) = c \o e
         /\ InTurn(<<>>, <<>>, <<>>, e) = e
  <1>1. \A u \in Seq(S) : <<>> \o u = u
    BY ConcatEmptySeq
  <1>2. PICK z \in Seq(S) : z = c \o e
    BY ConcatProperties
  <1>3. PICK w \in Seq(S) : w = b \o z
    BY ConcatProperties
  <1> QED BY <1>1, <1>2, <1>3, Zenon DEF InTurn

\* The first record's entries are those of the blocks to read next.
LEMMA InTurnRecs ==
  ASSUME NEW S, NEW x \in Seq(S), NEW y \in Seq(S), NEW e \in Seq(S)
  PROVE  InTurn(<<>>, <<>>, x \o y, e) = InTurn(<<>>, x, y, e)
  <1>1. InTurn(<<>>, x, y, e) = x \o (y \o e)
    <2>1. PICK w \in Seq(S) : w = x \o (y \o e)
      BY ConcatProperties
    <2>2. <<>> \o w = w
      BY ConcatEmptySeq
    <2> QED BY <2>1, <2>2, Zenon DEF InTurn
  <1>2. (x \o y) \o e = x \o (y \o e)
    BY ONLY x \in Seq(S), y \in Seq(S), e \in Seq(S), Associative
  <1>3. PICK xy \in Seq(S) : xy = x \o y
    BY ConcatProperties
  <1>4. InTurn(<<>>, <<>>, xy, e) = xy \o e
    BY InTurnEmpty
  <1> QED BY <1>1, <1>2, <1>3, <1>4, Zenon

\* The first leaf's entries are those of the records to read next.
LEMMA InTurnLeaves ==
  ASSUME NEW S, NEW x \in Seq(S), NEW y \in Seq(S)
  PROVE  InTurn(<<>>, <<>>, <<>>, x \o y) = InTurn(<<>>, <<>>, x, y)
  <1>1. PICK xy \in Seq(S) : xy = x \o y
    BY ConcatProperties
  <1>2. InTurn(<<>>, <<>>, <<>>, xy) = xy /\ InTurn(<<>>, <<>>, x, y) = x \o y
    BY InTurnEmpty
  <1> QED BY <1>1, <1>2, Zenon

\* The first items come first.
LEMMA InTurnFirst ==
  ASSUME NEW S, NEW x \in Seq(S), NEW y \in Seq(S), NEW b \in Seq(S), NEW c \in Seq(S), NEW e \in Seq(S)
  PROVE  /\ InTurn(x \o y, b, c, e) = x \o InTurn(y, b, c, e)
         /\ InTurn(y, b, c, e) \in Seq(S)
  <1>1. PICK z \in Seq(S) : z = b \o (c \o e)
    BY ConcatProperties
  <1>2. (x \o y) \o z = x \o (y \o z)
    BY ONLY x \in Seq(S), y \in Seq(S), z \in Seq(S), Associative, SMTT(60)
  <1>3. y \o z \in Seq(S)
    BY ConcatProperties
  <1> QED BY <1>1, <1>2, <1>3, Zenon DEF InTurn

\* The head and the tail of a sequence.
LEMMA TailAt ==
  ASSUME NEW S, NEW s \in Seq(S), s # <<>>
  PROVE  /\ Head(s) = s[1] /\ 1 \in DOMAIN s /\ Head(s) \in S /\ Tail(s) \in Seq(S)
         /\ \A k \in DOMAIN Tail(s) : k \in Nat /\ k + 1 \in DOMAIN s /\ Tail(s)[k] = s[k + 1]
  <1>1. /\ Head(s) \in S /\ Tail(s) \in Seq(S) /\ Len(Tail(s)) = Len(s) - 1
        /\ \A i \in 1 .. Len(Tail(s)) : Tail(s)[i] = s[i + 1]
    BY HeadTailProperties
  <1>2. PICK n \in Nat : n = Len(s) /\ DOMAIN s = 1 .. n /\ n > 0
    OBVIOUS
  <1>3. PICK t \in Seq(S) : t = Tail(s)
    BY <1>1
  <1>4. DOMAIN t = 1 .. n - 1
    BY <1>1, <1>2, <1>3
  <1>5. Head(s) = s[1]
    OBVIOUS
  <1>6. ASSUME NEW k \in DOMAIN t PROVE k \in Nat /\ k + 1 \in DOMAIN s /\ t[k] = s[k + 1]
    BY <1>1, <1>2, <1>3, <1>4
  <1> QED BY <1>1, <1>2, <1>3, <1>5, <1>6

\* The entries of a block, one by one and to the first unused one.
LEMMA EntryNext ==
  ASSUME NEW d, NEW list \in Seq(Items), ItemsOK(d, list), list # <<>>
  PROVE  /\ Tail(list) \in Seq(Items) /\ ItemsOK(d, Tail(list))
         /\ EntriesIn(list) = EntryOf(Head(list)) \o EntriesIn(Tail(list))
         /\ Head(list).kind = "entry" => Named(d, Head(list).ino, Head(list).ftype)
         /\ Head(list).kind # "unused" => Head(list).ino # 0
  <1>1. /\ Head(list) = list[1] /\ 1 \in DOMAIN list /\ Head(list) \in Items /\ Tail(list) \in Seq(Items)
        /\ \A k \in DOMAIN Tail(list) : k \in Nat /\ k + 1 \in DOMAIN list /\ Tail(list)[k] = list[k + 1]
    BY TailAt
  <1>2. ItemsOK(d, Tail(list))
    <2>1. \A k \in DOMAIN Tail(list) :
             /\ Tail(list)[k].kind # "unused" => Tail(list)[k].ino # 0
             /\ Tail(list)[k].kind = "entry" => Named(d, Tail(list)[k].ino, Tail(list)[k].ftype)
      BY <1>1 DEF ItemsOK
    <2>2. ASSUME NEW j \in DOMAIN Tail(list), NEW k \in DOMAIN Tail(list), j < k, Tail(list)[j].kind = "unused"
          PROVE  Tail(list)[k].kind # "entry"
      <3>1. j + 1 < k + 1
        BY <1>1, <2>2
      <3> QED BY <1>1, <2>2, <3>1 DEF ItemsOK
    <2> QED BY <2>1, <2>2 DEF ItemsOK
  <1>3. EntriesIn(list) = EntryOf(Head(list)) \o EntriesIn(Tail(list))
    BY ItemLists
  <1> QED BY <1>1, <1>2, <1>3 DEF ItemsOK

\* From the first unused item on there is no entry: xal_be_xfs.c stops there.
LEMMA EntriesEnd ==
  ASSUME NEW d, NEW list \in Seq(Items), ItemsOK(d, list),
         list = <<>> \/ decode_dentry(Head(list)).ino = 0
  PROVE  EntriesIn(list) = <<>>
  <1>1. CASE list = <<>>
    BY <1>1, ItemLists
  <1>2. CASE list # <<>>
    <2>1. Head(list) = list[1] /\ 1 \in DOMAIN list /\ Head(list) \in Items
      BY <1>2, TailAt
    <2>2. PICK h \in Items : h = Head(list)
      BY <2>1
    <2>3. h.kind = "unused"
      <3>1. h.kind # "unused" => decode_dentry(h).ino = h.ino
        BY DEF decode_dentry, ZeroInode
      <3>2. h.kind # "unused" => h.ino # 0
        BY <2>1, <2>2 DEF ItemsOK
      <3> QED BY <1>2, <2>2, <3>1, <3>2
    <2>4. ASSUME NEW k \in 1 .. Len(list) PROVE EntryOf(list[k]) = <<>>
      <3>1. k \in DOMAIN list /\ k \in Nat /\ (k = 1 \/ 1 < k)
        OBVIOUS
      <3>2. list[k].kind # "entry"
        BY <2>1, <2>2, <2>3, <3>1 DEF ItemsOK
      <3> QED BY <3>2 DEF EntryOf
    <2> QED BY <2>4, ItemLists
  <1> QED BY <1>1, <1>2

\* The blocks of an extent.
LEMMA BlockNext ==
  ASSUME NEW d \in Images, DOMAIN d.dev \subseteq Nat, NEW list \in Seq(DataBlocks(d)), list # <<>>
  PROVE  /\ Tail(list) \in Seq(DataBlocks(d)) /\ 1 \in DOMAIN list /\ Head(list) = list[1]
         /\ BlocksEntries(d, list) = BlockEntries(d, Head(list)) \o BlocksEntries(d, Tail(list))
         /\ xal_fsbno_offset(Head(list)) \in DOMAIN d.dev
         /\ d.dev[xal_fsbno_offset(Head(list))] = BlockAt(d, Head(list))
         /\ AllData(d, list) => AllData(d, Tail(list))
         /\ NoData(d, list) => NoData(d, Tail(list))
         /\ IsData(d, Head(list)) =>
              /\ BlockAt(d, Head(list)).items \in Seq(Items)
              /\ ItemsOK(d, BlockAt(d, Head(list)).items)
  <1>1. /\ Head(list) = list[1] /\ 1 \in DOMAIN list /\ Head(list) \in DataBlocks(d)
        /\ Tail(list) \in Seq(DataBlocks(d))
        /\ \A k \in DOMAIN Tail(list) : k \in Nat /\ k + 1 \in DOMAIN list /\ Tail(list)[k] = list[k + 1]
    BY TailAt
  <1>2. BlocksEntries(d, list) = BlockEntries(d, Head(list)) \o BlocksEntries(d, Tail(list))
    BY BlockLists
  <1>3. PICK h : h = Head(list) /\ h \in Nat /\ DataOK(d, h)
    BY <1>1 DEF DataBlocks
  <1>4. OnDevice(d, h) /\ (IsData(d, h) => ItemsOK(d, BlockAt(d, h).items))
    BY <1>3 DEF DataOK
  <1>5. At(d, h) \in DOMAIN d.dev /\ xal_fsbno_offset(h) = At(d, h)
    BY <1>4, BlockFound
  <1>6. IsData(d, h) => BlockAt(d, h).items \in Seq(Items)
    BY <1>5, IndexAssumption DEF BlockOK, IsData, BlockAt, Items
  <1>7. d.dev[xal_fsbno_offset(h)] = BlockAt(d, h) /\ xal_fsbno_offset(h) \in DOMAIN d.dev
    BY <1>5 DEF BlockAt
  <1>8. (AllData(d, list) => AllData(d, Tail(list))) /\ (NoData(d, list) => NoData(d, Tail(list)))
    BY <1>1 DEF AllData, NoData
  <1> QED BY <1>1, <1>2, <1>3, <1>4, <1>6, <1>7, <1>8

\* Blocks of another kind hold no entries.
LEMMA NoDataEntries ==
  ASSUME NEW d \in Images, NEW list \in Seq(DataBlocks(d)), NoData(d, list)
  PROVE  BlocksEntries(d, list) = <<>>
  <1>1. \A k \in 1 .. Len(list) : BlockEntries(d, list[k]) = <<>>
    BY DEF NoData, BlockEntries
  <1> QED BY <1>1, BlockLists

\* Nor do records of such blocks.
LEMMA NoRecEntries ==
  ASSUME NEW d \in Images, NEW list \in Seq(GoodRecs(d)),
         \A k \in DOMAIN list : NoData(d, RecBlocks(list[k]))
  PROVE  RecsEntries(d, list) = <<>>
  <1>1. ASSUME NEW k \in 1 .. Len(list) PROVE RecEntries(d, list[k]) = <<>>
    <2>1. PICK r \in GoodRecs(d) : r = list[k] /\ NoData(d, RecBlocks(r))
      OBVIOUS
    <2>2. RecBlocks(r) \in Seq(DataBlocks(d))
      BY RecBlocksGood
    <2> QED BY <2>1, <2>2, NoDataEntries DEF RecEntries
  <1> QED BY <1>1, RecLists

\* The records of a directory in extent form, and of a leaf.
LEMMA RecNext ==
  ASSUME NEW d \in Images, NEW list \in Seq(GoodRecs(d)), list # <<>>
  PROVE  /\ Tail(list) \in Seq(GoodRecs(d)) /\ IsRecord(Head(list))
         /\ BlocksOf(decode_xfs_extent(Head(list).l0, Head(list).l1)) = RecBlocks(Head(list))
         /\ RecBlocks(Head(list)) \in Seq(DataBlocks(d))
         /\ RecsEntries(d, list) = BlocksEntries(d, RecBlocks(Head(list))) \o RecsEntries(d, Tail(list))
         /\ decode_xfs_extent(Head(list).l0, Head(list).l1).nblocks = ExtentIn(Head(list)).n
         /\ ExtentIn(Head(list)).n \in Nat /\ ExtentIn(Head(list)).off \in Nat
  <1>1. Head(list) \in GoodRecs(d) /\ Tail(list) \in Seq(GoodRecs(d))
    BY TailAt
  <1>2. RecsEntries(d, list) = RecEntries(d, Head(list)) \o RecsEntries(d, Tail(list))
    BY RecLists
  <1>3. IsRecord(Head(list)) /\ RecBlocks(Head(list)) \in Seq(DataBlocks(d))
    BY <1>1, RecBlocksGood DEF GoodRecs, RecOK
  <1> QED BY <1>1, <1>2, <1>3, BlocksRead, RecordRead DEF RecEntries

\* Extent form: the records that follow begin where the count of what is left
\* of the directory's size says, or behind it.
LEMMA InOrderNext ==
  ASSUME NEW d \in Images, NEW list \in Seq(GoodRecs(d)), list # <<>>, InOrderOf(list),
         NEW size \in Nat, BelowSize(d, list, size), NEW left \in Int,
         ExtentIn(Head(list)).off + left >= size
  PROVE  /\ InOrderOf(Tail(list)) /\ BelowSize(d, Tail(list), size)
         /\ Tail(list) # <<>> =>
              ExtentIn(Head(Tail(list))).off + (left - ExtentIn(Head(list)).n) >= size
         /\ left <= 0 => RecsEntries(d, list) = <<>>
  <1>1. /\ Head(list) = list[1] /\ 1 \in DOMAIN list
        /\ Tail(list) \in Seq(GoodRecs(d))
        /\ \A k \in DOMAIN Tail(list) : k \in Nat /\ k + 1 \in DOMAIN list /\ Tail(list)[k] = list[k + 1]
    BY TailAt
  <1>2. \A k \in DOMAIN list : ExtentIn(list[k]).off \in Nat /\ ExtentIn(list[k]).n \in Nat /\ k \in Nat /\ 1 <= k
    <2> SUFFICES ASSUME NEW k \in DOMAIN list
                 PROVE  ExtentIn(list[k]).off \in Nat /\ ExtentIn(list[k]).n \in Nat /\ k \in Nat /\ 1 <= k
      OBVIOUS
    <2>1. list[k] \in GoodRecs(d)
      OBVIOUS
    <2>2. IsRecord(list[k])
      BY <2>1 DEF GoodRecs, RecOK
    <2> QED BY <2>2, RecordRead
  <1>3. InOrderOf(Tail(list))
    <2> SUFFICES ASSUME NEW j \in DOMAIN Tail(list), NEW k \in DOMAIN Tail(list), j < k
                 PROVE  ExtentIn(Tail(list)[j]).off + ExtentIn(Tail(list)[j]).n <= ExtentIn(Tail(list)[k]).off
      BY DEF InOrderOf
    <2>1. j + 1 < k + 1
      BY <1>1
    <2> QED BY <1>1, <2>1 DEF InOrderOf
  <1>4. BelowSize(d, Tail(list), size)
    BY <1>1 DEF BelowSize
  <1>5. ASSUME NEW k \in DOMAIN list, 1 < k
        PROVE  ExtentIn(list[1]).off + ExtentIn(list[1]).n <= ExtentIn(list[k]).off
    BY <1>1, <1>5 DEF InOrderOf
  <1>6. ASSUME Tail(list) # <<>>
        PROVE  ExtentIn(Head(Tail(list))).off + (left - ExtentIn(Head(list)).n) >= size
    <2>1. 1 \in DOMAIN Tail(list) /\ Head(Tail(list)) = Tail(list)[1]
      BY <1>1, <1>6, TailAt
    <2>2. 2 \in DOMAIN list /\ Head(Tail(list)) = list[2]
      BY <1>1, <2>1
    <2>3. PICK o1, n1, o2 \in Nat : o1 = ExtentIn(list[1]).off /\ n1 = ExtentIn(list[1]).n /\ o2 = ExtentIn(list[2]).off
      BY <1>1, <1>2, <2>2
    <2>4. o1 + n1 <= o2
      BY <1>5, <2>2, <2>3
    <2>5. o1 + left >= size
      BY <1>1, <2>3
    <2>6. o2 + (left - n1) >= size
      BY <2>4, <2>5
    <2> QED BY <1>1, <2>2, <2>3, <2>6
  <1>7. ASSUME left <= 0 PROVE RecsEntries(d, list) = <<>>
    <2>1. ASSUME NEW k \in DOMAIN list PROVE NoData(d, RecBlocks(list[k]))
      <3>1. PICK o1, n1, ok \in Nat : o1 = ExtentIn(list[1]).off /\ n1 = ExtentIn(list[1]).n /\ ok = ExtentIn(list[k]).off
        BY <1>1, <1>2, <2>1
      <3>2. o1 + left >= size
        BY <1>1, <3>1
      <3>3. o1 <= ok
        <4>1. CASE k = 1
          BY <3>1, <4>1
        <4>2. CASE k # 1
          <5>1. 1 < k
            BY <1>2, <2>1, <4>2
          <5>2. o1 + n1 <= ok
            BY <1>5, <2>1, <3>1, <5>1
          <5> QED BY <5>2
        <4> QED BY <4>1, <4>2
      <3>4. ok >= size
        BY <1>7, <3>2, <3>3
      <3> QED BY <2>1, <3>1, <3>4 DEF BelowSize
    <2> QED BY <2>1, NoRecEntries
  <1> QED BY <1>3, <1>4, <1>6, <1>7

\* A leaf: once a record has no entries, the records that follow have none.
LEMMA DataFirstNext ==
  ASSUME NEW d \in Images, NEW list \in Seq(GoodRecs(d)), list # <<>>, DataFirst(d, list)
  PROVE  /\ DataFirst(d, Tail(list))
         /\ \/ AllData(d, RecBlocks(Head(list)))
            \/ /\ NoData(d, RecBlocks(Head(list)))
               /\ \A k \in DOMAIN Tail(list) : NoData(d, RecBlocks(Tail(list)[k]))
  <1>1. /\ Head(list) = list[1] /\ 1 \in DOMAIN list
        /\ \A k \in DOMAIN Tail(list) : k \in Nat /\ k + 1 \in DOMAIN list /\ Tail(list)[k] = list[k + 1]
    BY TailAt
  <1>2. ASSUME NEW j \in DOMAIN Tail(list)
        PROVE  \/ AllData(d, RecBlocks(Tail(list)[j]))
               \/ \A k \in DOMAIN Tail(list) : j <= k => NoData(d, RecBlocks(Tail(list)[k]))
    <2>1. \/ AllData(d, RecBlocks(list[j + 1]))
          \/ \A k \in DOMAIN list : j + 1 <= k => NoData(d, RecBlocks(list[k]))
      BY <1>1, <1>2 DEF DataFirst
    <2>2. \A k \in DOMAIN Tail(list) : j <= k => j + 1 <= k + 1
      BY <1>1, <1>2
    <2> QED BY <1>1, <1>2, <2>1, <2>2
  <1>3. \/ AllData(d, RecBlocks(list[1]))
        \/ \A k \in DOMAIN list : 1 <= k => NoData(d, RecBlocks(list[k]))
    BY <1>1 DEF DataFirst
  <1>4. \A k \in DOMAIN list : 1 <= k
    OBVIOUS
  <1> QED BY <1>1, <1>2, <1>3, <1>4 DEF DataFirst

\* The leaves of a directory.
LEMMA LeafNext ==
  ASSUME NEW d \in Images, DOMAIN d.dev \subseteq Nat, NEW list \in Seq(DirLeaves(d)), list # <<>>
  PROVE  /\ Tail(list) \in Seq(DirLeaves(d))
         /\ xal_fsbno_offset(Head(list)) \in DOMAIN d.dev
         /\ d.dev[xal_fsbno_offset(Head(list))] = BlockAt(d, Head(list))
         /\ BlockAt(d, Head(list)).magic = "BMA3" /\ BlockAt(d, Head(list)).level = 0
         /\ BlockAt(d, Head(list)).recs \in Seq(GoodRecs(d))
         /\ DataFirst(d, BlockAt(d, Head(list)).recs)
         /\ LeavesEntries(d, list) = RecsEntries(d, BlockAt(d, Head(list)).recs) \o LeavesEntries(d, Tail(list))
  <1>1. Head(list) \in DirLeaves(d) /\ Tail(list) \in Seq(DirLeaves(d))
    BY TailAt
  <1>2. PICK h \in DirLeaves(d) : h = Head(list)
    BY <1>1
  <1>3. /\ BlockAt(d, h).recs \in Seq(GoodRecs(d)) /\ DataFirst(d, BlockAt(d, h).recs)
        /\ OnDevice(d, h) /\ BlockAt(d, h).magic = "BMA3" /\ BlockAt(d, h).level = 0
    BY LeafRecsGood
  <1>4. At(d, h) \in DOMAIN d.dev /\ xal_fsbno_offset(h) = At(d, h)
    BY <1>3, BlockFound
  <1>5. LeavesEntries(d, list) = LeafEntries(d, Head(list)) \o LeavesEntries(d, Tail(list))
    BY LeafLists
  <1> QED BY <1>1, <1>2, <1>3, <1>4, <1>5 DEF LeafEntries, BlockAt
-----------------------------------------------------------------------------
\* What is assumed of the images.
ValidConsistent == \A d \in Images : d.valid => Consistent(d)

\* The image at hand is consistent.
LEMMA DiskFacts ==
  ASSUME ValidConsistent, RetrieveInv, disk.valid
  PROVE  disk \in Images /\ Consistent(disk) /\ DOMAIN disk.dev \subseteq Nat
  BY DEF ValidConsistent, RetrieveInv, Consistent

\* Each part of what is pending is a sequence of inode numbers.
LEMMA PartsTyped ==
  ASSUME disk \in Images, items \in Seq(Items), DirLists
  PROVE  /\ EntriesIn(items) \in Seq(Nat) /\ BlocksEntries(disk, blks) \in Seq(Nat)
         /\ RecsEntries(disk, recs) \in Seq(Nat) /\ LeavesEntries(disk, ptrs) \in Seq(Nat)
  BY ItemLists, BlockLists, RecLists, LeafLists DEF DirLists

\* Nothing is pending in empty lists.
LEMMA NothingListed ==
  ASSUME NEW d \in Images
  PROVE  /\ EntriesIn(<<>>) = <<>> /\ BlocksEntries(d, <<>>) = <<>>
         /\ RecsEntries(d, <<>>) = <<>> /\ LeavesEntries(d, <<>>) = <<>>
         /\ ItemsOK(d, <<>>)
         /\ <<>> \in Seq(DataBlocks(d)) /\ <<>> \in Seq(GoodRecs(d)) /\ <<>> \in Seq(DirLeaves(d))
  <1>1. /\ <<>> \in Seq(Items) /\ <<>> \in Seq(DataBlocks(d)) /\ <<>> \in Seq(GoodRecs(d))
        /\ <<>> \in Seq(DirLeaves(d))
    BY EmptySeq
  <1>2. EntriesIn(<<>>) = <<>>
    BY <1>1, ItemLists
  <1>3. BlocksEntries(d, <<>>) = <<>>
    BY <1>1, BlockLists
  <1>4. RecsEntries(d, <<>>) = <<>>
    BY <1>1, RecLists
  <1>5. LeavesEntries(d, <<>>) = <<>>
    BY <1>1, LeafLists
  <1>6. ItemsOK(d, <<>>)
    BY DEF ItemsOK
  <1> QED BY <1>1, <1>2, <1>3, <1>4, <1>5, <1>6

\* A step that reads on in the lists of the directory at work.
DirNext ==
  /\ DirLists' /\ Pending' = Pending
  /\ Dinode(self).fmt = "extents" /\ ExtentsWork => ExtentsWork'
  /\ Dinode(self).fmt = "btree" /\ LeavesWork => LeavesWork'

\* Reading on without claiming an element: what is pending is the same.
LEMMA DirWorkKept ==
  ASSUME DirWork, Quiet, UNCHANGED <<retrieveVars, self>>, DirNext
  PROVE  DirWork'
  <1>1. UNCHANGED <<disk, dmap, dinodes, imem, self>>
    BY DEF retrieveVars, memVars, Quiet, poolVars
  <1>2. List(self)' = List(self) /\ Dinode(self)' = Dinode(self)
    BY <1>1 DEF List, Dinode
  <1>3. Known(imem[self].ino)' /\ imem'[self'].ino \in DOMAIN disk'.listing
    BY <1>1 DEF DirWork, Known
  <1>4. HasInos(self, imem[self].count)'
    BY <1>1, <1>2 DEF DirWork, HasInos
  <1>5. Left(List(self), imem[self].count)' = Left(List(self), imem[self].count)
    BY <1>1, <1>2 DEF Left
  <1>6. Pending' = Left(List(self), imem[self].count)'
    BY <1>5 DEF DirWork, DirNext
  <1> QED BY <1>2, <1>3, <1>4, <1>6 DEF DirWork, DirNext

\* The end of a block of entries.
LEMMA DentriesDoneReads ==
  ASSUME ValidConsistent, RetrieveInv, IndexInv, disk.valid, ListsInv, DirWork, DentriesDone
  PROVE  ListsInv' /\ DirNext
  <1>1. /\ xpc = "dentry" /\ EndOfBlock /\ items' = <<>> /\ xpc' = "dblock"
        /\ UNCHANGED <<disk, dmap, dinodes, imem, self, ptrs, recs, nleft, blks>>
    BY DEF DentriesDone, retrieveVars, memVars, poolVars
  <1>2. disk \in Images /\ items \in Seq(Items) /\ DirLists
    BY DiskFacts DEF IndexInv, MemInv, DirWork
  <1>3. EntriesIn(items) = <<>>
    BY <1>1, <1>2, EntriesEnd DEF EndOfBlock, DirLists
  <1>4. EntriesIn(<<>>) = <<>> /\ ItemsOK(disk, <<>>)
    BY <1>2, NothingListed
  <1>5. Pending' = Pending
    BY <1>1, <1>3, <1>4 DEF Pending
  <1>6. DirLists'
    BY <1>1, <1>2, <1>4 DEF DirLists
  <1>7. Dinode(self)' = Dinode(self)
    BY <1>1 DEF Dinode
  <1>8. (ExtentsWork => ExtentsWork') /\ (LeavesWork => LeavesWork')
    BY <1>1, <1>7 DEF ExtentsWork, LeavesWork
  <1> QED BY <1>1, <1>5, <1>6, <1>8 DEF DirNext, ListsInv, Filling

\* The entries . and .. are passed over.
LEMMA DotsRead ==
  ASSUME ValidConsistent, RetrieveInv, IndexInv, disk.valid, ListsInv, DirWork, Dentry,
         Head(items).kind = "dots"
  PROVE  ListsInv' /\ DirNext
  <1>1. /\ xpc = "dentry" /\ items # <<>> /\ items' = Tail(items)
        /\ UNCHANGED <<disk, dmap, dinodes, imem, xpc, self, ptrs, recs, nleft, blks>>
    BY DEF Dentry, EndOfBlock, retrieveVars, memVars
  <1>2. disk \in Images /\ items \in Seq(Items) /\ DirLists
    BY DiskFacts DEF IndexInv, MemInv, DirWork
  <1>3. /\ Tail(items) \in Seq(Items) /\ ItemsOK(disk, Tail(items))
        /\ EntriesIn(items) = EntryOf(Head(items)) \o EntriesIn(Tail(items))
    BY <1>1, <1>2, EntryNext DEF DirLists
  <1>4. EntryOf(Head(items)) = <<>>
    BY DEF EntryOf
  <1>5. EntriesIn(Tail(items)) \in Seq(Nat)
    BY <1>3, ItemLists
  <1>6. EntriesIn(items) = EntriesIn(Tail(items))
    BY <1>3, <1>4, <1>5, ConcatEmptySeq
  <1>7. Pending' = Pending
    BY <1>1, <1>6 DEF Pending
  <1>8. DirLists'
    BY <1>1, <1>2, <1>3 DEF DirLists
  <1>9. Dinode(self)' = Dinode(self)
    BY <1>1 DEF Dinode
  <1>10. (ExtentsWork => ExtentsWork') /\ (LeavesWork => LeavesWork')
    BY <1>1, <1>9 DEF ExtentsWork, LeavesWork
  <1> QED BY <1>1, <1>7, <1>8, <1>10 DEF DirNext, ListsInv, Filling

\* The end of the blocks of a record.
LEMMA BlocksDoneReads ==
  ASSUME ListsInv, DirWork, DirBlocksDone
  PROVE  ListsInv' /\ DirNext
  <1>1. /\ xpc = "dblock" /\ blks = <<>> /\ xpc' = "extent"
        /\ UNCHANGED <<disk, dmap, dinodes, imem, self, ptrs, recs, nleft, blks, items>>
    BY DEF DirBlocksDone, retrieveVars, memVars, poolVars, workVars
  <1>2. Dinode(self)' = Dinode(self)
    BY <1>1 DEF Dinode
  <1>3. (ExtentsWork => ExtentsWork') /\ (LeavesWork => LeavesWork')
    BY <1>1, <1>2 DEF ExtentsWork, LeavesWork
  <1>4. Pending' = Pending /\ DirLists'
    BY <1>1 DEF Pending, DirLists, DirWork
  <1> QED BY <1>1, <1>3, <1>4 DEF DirNext, ListsInv, Filling

\* A directory block.
LEMMA DirBlockReads ==
  ASSUME ValidConsistent, RetrieveInv, IndexInv, disk.valid, ListsInv, DirWork, DirBlock, xpc' # "idle"
  PROVE  ListsInv' /\ DirNext /\ Filling' /\ UNCHANGED <<self, stack, xerr>>
  <1>1. /\ xpc = "dblock" /\ blks # <<>> /\ UNCHANGED <<disk, dmap, dinodes, imem>>
    BY DEF DirBlock, retrieveVars, memVars, poolVars
  <1>2. disk \in Images /\ DOMAIN disk.dev \subseteq Nat /\ items = <<>> /\ DirLists
    BY <1>1, DiskFacts DEF ListsInv, DirWork
  <1>3. PICK h : h = Head(blks)
    OBVIOUS
  <1>4. /\ Tail(blks) \in Seq(DataBlocks(disk)) /\ 1 \in DOMAIN blks /\ h = blks[1]
        /\ BlocksEntries(disk, blks) = BlockEntries(disk, h) \o BlocksEntries(disk, Tail(blks))
        /\ disk.dev[xal_fsbno_offset(h)] = BlockAt(disk, h)
        /\ AllData(disk, blks) => AllData(disk, Tail(blks))
        /\ NoData(disk, blks) => NoData(disk, Tail(blks))
        /\ IsData(disk, h) =>
             /\ BlockAt(disk, h).items \in Seq(Items)
             /\ ItemsOK(disk, BlockAt(disk, h).items)
    BY <1>1, <1>2, <1>3, BlockNext DEF DirLists
  <1>5. \/ /\ BlockAt(disk, h).magic \in {"XDB3", "XDD3"}
           /\ items' = BlockAt(disk, h).items /\ blks' = Tail(blks) /\ xpc' = "dentry"
           /\ UNCHANGED <<self, stack, ptrs, recs, nleft, xerr>>
        \/ /\ BlockAt(disk, h).magic \notin {"XDB3", "XDD3"}
           /\ IF Dinode(self).fmt = "extents"
                THEN blks' = Tail(blks) /\ UNCHANGED recs
                ELSE blks' = <<>> /\ recs' = <<>>
           /\ UNCHANGED <<xpc, self, stack, ptrs, nleft, items, xerr>>
    BY <1>3, <1>4 DEF DirBlock, Return
  <1>6. /\ BlocksEntries(disk, Tail(blks)) \in Seq(Nat) /\ RecsEntries(disk, recs) \in Seq(Nat)
        /\ LeavesEntries(disk, ptrs) \in Seq(Nat)
    BY <1>2, <1>4, BlockLists, RecLists, LeafLists DEF DirLists
  <1>7. /\ EntriesIn(<<>>) = <<>> /\ BlocksEntries(disk, <<>>) = <<>> /\ RecsEntries(disk, <<>>) = <<>>
        /\ ItemsOK(disk, <<>>) /\ <<>> \in Seq(DataBlocks(disk)) /\ <<>> \in Seq(GoodRecs(disk))
    BY <1>2, NothingListed
  <1>8. self' = self /\ stack' = stack /\ xerr' = xerr /\ ptrs' = ptrs /\ nleft' = nleft /\ Filling'
        /\ xpc' \in {"dblock", "dentry"}
    BY <1>1, <1>5 DEF Filling
  <1>9. Dinode(self)' = Dinode(self)
    BY <1>1, <1>8 DEF Dinode
  <1>10. CASE IsData(disk, h)
    <2>1. /\ items' = BlockAt(disk, h).items /\ blks' = Tail(blks) /\ xpc' = "dentry" /\ recs' = recs
      BY <1>5, <1>10 DEF IsData
    <2>2. BlockEntries(disk, h) = EntriesIn(items')
      BY <1>10, <2>1 DEF BlockEntries
    <2>3. PICK x \in Seq(Nat) : x = EntriesIn(items')
      BY <1>4, <1>10, <2>1, ItemLists
    <2>4. PICK y, c, e \in Seq(Nat) : /\ y = BlocksEntries(disk, Tail(blks))
                                      /\ c = RecsEntries(disk, recs) /\ e = LeavesEntries(disk, ptrs)
      BY <1>6
    <2>5. InTurn(<<>>, x \o y, c, e) = InTurn(x, y, c, e)
      BY InTurnBlocks
    <2>6. Pending = InTurn(<<>>, x \o y, c, e)
      BY <1>2, <1>4, <1>7, <2>2, <2>3, <2>4, Zenon DEF Pending
    <2>7. Pending' = InTurn(x, y, c, e)
      BY <1>1, <1>8, <2>1, <2>3, <2>4, Zenon DEF Pending
    <2>8. DirLists'
      BY <1>1, <1>2, <1>4, <1>8, <1>10, <2>1 DEF DirLists
    <2>9. LeavesWork => LeavesWork'
      BY <1>1, <1>4, <2>1 DEF LeavesWork
    <2>10. ExtentsWork => ExtentsWork'
      BY <1>1, <1>8, <1>9, <2>1 DEF ExtentsWork
    <2>11. ListsInv'
      BY <1>8, <2>1 DEF ListsInv
    <2> QED BY <1>8, <2>5, <2>6, <2>7, <2>8, <2>9, <2>10, <2>11 DEF DirNext
  <1>11. CASE ~IsData(disk, h) /\ Dinode(self).fmt = "extents"
    <2>1. blks' = Tail(blks) /\ recs' = recs /\ items' = items /\ xpc' = xpc
      BY <1>5, <1>11 DEF IsData
    <2>2. BlocksEntries(disk, blks) = BlocksEntries(disk, Tail(blks))
      BY <1>4, <1>6, <1>11, ConcatEmptySeq DEF BlockEntries
    <2>3. Pending' = Pending
      BY <1>1, <1>8, <2>1, <2>2, Zenon DEF Pending
    <2>4. DirLists'
      BY <1>1, <1>2, <1>4, <1>8, <2>1 DEF DirLists
    <2>5. ExtentsWork => ExtentsWork'
      BY <1>1, <1>8, <1>9, <2>1 DEF ExtentsWork
    <2>6. ListsInv'
      BY <1>1, <1>8, <2>1 DEF ListsInv
    <2> QED BY <1>8, <1>11, <2>3, <2>4, <2>5, <2>6 DEF DirNext
  <1>12. CASE ~IsData(disk, h) /\ Dinode(self).fmt # "extents"
    <2>1. blks' = <<>> /\ recs' = <<>> /\ items' = items /\ xpc' = xpc
      BY <1>5, <1>12 DEF IsData
    <2>2. LeavesWork
      BY <1>12 DEF DirWork
    <2>3. NoData(disk, blks) /\ \A k \in DOMAIN recs : NoData(disk, RecBlocks(recs[k]))
      BY <1>4, <1>12, <2>2 DEF LeavesWork, AllData
    <2>4. BlocksEntries(disk, blks) = <<>> /\ RecsEntries(disk, recs) = <<>>
      BY <1>2, <2>3, NoDataEntries, NoRecEntries DEF DirLists
    <2>5. Pending' = Pending
      BY <1>1, <1>7, <1>8, <2>1, <2>4, Zenon DEF Pending
    <2>6. DirLists'
      BY <1>1, <1>2, <1>7, <1>8, <2>1 DEF DirLists
    <2>7. LeavesWork'
      BY <2>1 DEF LeavesWork, DataFirst, AllData
    <2>8. ListsInv'
      BY <1>1, <1>8, <2>1 DEF ListsInv
    <2> QED BY <1>8, <1>12, <2>5, <2>6, <2>7, <2>8 DEF DirNext
  <1> QED BY <1>10, <1>11, <1>12

\* An extent record.
LEMMA DirExtentReads ==
  ASSUME ValidConsistent, RetrieveInv, IndexInv, disk.valid, ListsInv, DirWork, DirExtent
  PROVE  ListsInv' /\ DirNext
  <1>1. /\ xpc = "extent" /\ MoreExtents /\ recs' = Tail(recs) /\ xpc' = "dblock"
        /\ blks' = BlocksOf(decode_xfs_extent(Head(recs).l0, Head(recs).l1))
        /\ nleft' = IF Dinode(self).fmt = "extents"
                      THEN nleft - decode_xfs_extent(Head(recs).l0, Head(recs).l1).nblocks ELSE nleft
        /\ UNCHANGED <<disk, dmap, dinodes, imem, self, ptrs, items>>
    BY DEF DirExtent, retrieveVars, memVars, poolVars
  <1>2. /\ disk \in Images /\ items = <<>> /\ blks = <<>> /\ DirLists /\ recs # <<>>
        /\ recs \in Seq(GoodRecs(disk))
    BY <1>1, DiskFacts DEF ListsInv, DirWork, MoreExtents, DirLists
  <1>3. PICK h : h = Head(recs)
    OBVIOUS
  <1>4. /\ Tail(recs) \in Seq(GoodRecs(disk))
        /\ BlocksOf(decode_xfs_extent(h.l0, h.l1)) = RecBlocks(h)
        /\ RecBlocks(h) \in Seq(DataBlocks(disk))
        /\ RecsEntries(disk, recs) = BlocksEntries(disk, RecBlocks(h)) \o RecsEntries(disk, Tail(recs))
        /\ decode_xfs_extent(h.l0, h.l1).nblocks = ExtentIn(h).n
        /\ ExtentIn(h).n \in Nat
    BY <1>2, <1>3, RecNext
  <1>5. blks' = RecBlocks(h) /\ Dinode(self)' = Dinode(self)
    BY <1>1, <1>3, <1>4 DEF Dinode
  <1>6. Pending' = Pending
    <2>1. PICK x, y, e \in Seq(Nat) : /\ x = BlocksEntries(disk, RecBlocks(h))
                                      /\ y = RecsEntries(disk, Tail(recs)) /\ e = LeavesEntries(disk, ptrs)
      BY <1>2, <1>4, BlockLists, RecLists, LeafLists DEF DirLists
    <2>2. InTurn(<<>>, <<>>, x \o y, e) = InTurn(<<>>, x, y, e)
      BY InTurnRecs
    <2>3. EntriesIn(<<>>) = <<>> /\ BlocksEntries(disk, <<>>) = <<>>
      BY <1>2, NothingListed
    <2>4. Pending = InTurn(<<>>, <<>>, x \o y, e)
      BY <1>2, <1>4, <2>1, <2>3, Zenon DEF Pending
    <2>5. Pending' = InTurn(<<>>, x, y, e)
      BY <1>1, <1>2, <1>5, <2>1, <2>3, Zenon DEF Pending
    <2> QED BY <2>2, <2>4, <2>5
  <1>7. DirLists'
    BY <1>1, <1>2, <1>4, <1>5 DEF DirLists
  <1>8. ASSUME Dinode(self).fmt = "extents", ExtentsWork PROVE ExtentsWork'
    <2>1. nleft' = nleft - ExtentIn(h).n /\ nleft \in Int
      BY <1>1, <1>3, <1>4, <1>8 DEF ExtentsWork
    <2>2. PICK size \in Nat : size = Dinode(self).size
      BY <1>8 DEF ExtentsWork
    <2>3. /\ InOrderOf(Tail(recs)) /\ BelowSize(disk, Tail(recs), size)
          /\ Tail(recs) # <<>> =>
               ExtentIn(Head(Tail(recs))).off + (nleft - ExtentIn(Head(recs)).n) >= size
      BY <1>2, <1>8, <2>1, <2>2, InOrderNext DEF ExtentsWork
    <2>4. nleft' \in Int
      BY <1>4, <2>1
    <2> QED BY <1>1, <1>3, <1>5, <1>8, <2>1, <2>2, <2>3, <2>4 DEF ExtentsWork
  <1>9. ASSUME LeavesWork PROVE LeavesWork'
    <2>1. /\ DataFirst(disk, Tail(recs))
          /\ \/ AllData(disk, RecBlocks(Head(recs)))
             \/ /\ NoData(disk, RecBlocks(Head(recs)))
                /\ \A k \in DOMAIN Tail(recs) : NoData(disk, RecBlocks(Tail(recs)[k]))
      BY <1>2, <1>9, DataFirstNext DEF LeavesWork
    <2> QED BY <1>1, <1>3, <1>5, <2>1 DEF LeavesWork
  <1>10. ListsInv'
    BY <1>1, <1>2 DEF ListsInv, Filling
  <1> QED BY <1>6, <1>7, <1>8, <1>9, <1>10 DEF DirNext

\* The records of a leaf, or of the whole directory, have been read.
LEMMA ExtentsDoneReads ==
  ASSUME ValidConsistent, RetrieveInv, IndexInv, disk.valid, ListsInv, DirWork, DirExtentsDone
  PROVE  /\ ListsInv'
         /\ Dinode(self).fmt = "btree" => DirNext
         /\ Dinode(self).fmt # "btree" => Pending = <<>>
  <1>1. /\ xpc = "extent" /\ ~MoreExtents /\ recs' = <<>> /\ nleft' = 0
        /\ UNCHANGED <<disk, dmap, dinodes, imem, self, ptrs, blks, items>>
        /\ IF Dinode(self).fmt = "btree" THEN xpc' = "leaf" ELSE xpc' = "child"
    BY DEF DirExtentsDone, retrieveVars, memVars, poolVars, Descend
  <1>2. /\ disk \in Images /\ items = <<>> /\ blks = <<>> /\ DirLists
        /\ recs \in Seq(GoodRecs(disk)) /\ ptrs \in Seq(DirLeaves(disk))
    BY <1>1, DiskFacts DEF ListsInv, DirWork, DirLists
  <1>3. /\ EntriesIn(<<>>) = <<>> /\ BlocksEntries(disk, <<>>) = <<>> /\ RecsEntries(disk, <<>>) = <<>>
        /\ LeavesEntries(disk, <<>>) = <<>>
    BY <1>2, NothingListed
  <1>4. CASE Dinode(self).fmt = "btree"
    <2>1. recs = <<>> /\ LeavesWork
      BY <1>1, <1>4 DEF MoreExtents, DirWork
    <2>2. Pending' = Pending
      BY <1>1, <2>1 DEF Pending
    <2>3. DirLists'
      BY <1>1, <1>2, <2>1 DEF DirLists
    <2>4. LeavesWork'
      BY <1>1, <2>1 DEF LeavesWork
    <2>5. ListsInv'
      BY <1>1, <1>2, <1>4, <2>1 DEF ListsInv, Filling
    <2> QED BY <1>4, <2>2, <2>3, <2>4, <2>5 DEF DirNext
  <1>5. CASE Dinode(self).fmt # "btree"
    <2>1. Dinode(self).fmt = "extents" /\ ExtentsWork
      BY <1>5 DEF DirWork
    <2>2. ptrs = <<>>
      BY <2>1 DEF ExtentsWork
    <2>3. RecsEntries(disk, recs) = <<>>
      <3>1. CASE recs = <<>>
        BY <1>3, <3>1
      <3>2. CASE recs # <<>>
        <4>1. nleft \in Int /\ nleft <= 0
          BY <1>1, <2>1, <3>2 DEF MoreExtents, ExtentsWork
        <4>2. PICK size \in Nat : size = Dinode(self).size
          BY <2>1 DEF ExtentsWork
        <4> QED BY <1>2, <2>1, <3>2, <4>1, <4>2, InOrderNext DEF ExtentsWork
      <3> QED BY <3>1, <3>2
    <2>4. Pending = InTurn(<<>>, <<>>, <<>>, <<>>)
      BY <1>2, <1>3, <2>2, <2>3 DEF Pending
    <2>5. InTurn(<<>>, <<>>, <<>>, <<>>) = <<>>
      <3>1. PICK e \in Seq(Nat) : e = <<>>
        BY EmptySeq
      <3>2. InTurn(<<>>, <<>>, <<>>, e) = e
        BY InTurnEmpty
      <3> QED BY <3>1, <3>2
    <2>6. ListsInv'
      BY <1>1, <1>2, <1>5, <2>2 DEF ListsInv, Filling
    <2> QED BY <1>5, <2>4, <2>5, <2>6
  <1> QED BY <1>4, <1>5

\* A leaf of a directory.
LEMMA DirLeafReads ==
  ASSUME ValidConsistent, RetrieveInv, IndexInv, disk.valid, ListsInv, DirWork, DirLeaf, xpc' # "idle"
  PROVE  ListsInv' /\ DirNext /\ xpc' = "extent" /\ UNCHANGED <<self, stack, xerr>>
  <1>1. /\ xpc = "leaf" /\ ptrs # <<>> /\ UNCHANGED <<disk, dmap, dinodes, imem>>
    BY DEF DirLeaf, retrieveVars, memVars, poolVars
  <1>2. /\ disk \in Images /\ DOMAIN disk.dev \subseteq Nat /\ items = <<>> /\ blks = <<>> /\ recs = <<>>
        /\ DirLists /\ ptrs \in Seq(DirLeaves(disk)) /\ Dinode(self).fmt = "btree" /\ LeavesWork
    BY <1>1, DiskFacts DEF ListsInv, DirWork, DirLists, ExtentsWork
  <1>3. PICK h : h = Head(ptrs)
    OBVIOUS
  <1>4. /\ Tail(ptrs) \in Seq(DirLeaves(disk))
        /\ disk.dev[xal_fsbno_offset(h)] = BlockAt(disk, h)
        /\ BlockAt(disk, h).recs \in Seq(GoodRecs(disk))
        /\ DataFirst(disk, BlockAt(disk, h).recs)
        /\ LeavesEntries(disk, ptrs) = RecsEntries(disk, BlockAt(disk, h).recs) \o LeavesEntries(disk, Tail(ptrs))
    BY <1>1, <1>2, <1>3, LeafNext
  <1>5. /\ recs' = BlockAt(disk, h).recs /\ ptrs' = Tail(ptrs) /\ xpc' = "extent"
        /\ UNCHANGED <<self, stack, nleft, blks, items, xerr>>
    BY <1>3, <1>4 DEF DirLeaf, Return
  <1>6. Pending' = Pending
    <2>1. PICK x, y \in Seq(Nat) : /\ x = RecsEntries(disk, BlockAt(disk, h).recs)
                                   /\ y = LeavesEntries(disk, Tail(ptrs))
      BY <1>2, <1>4, RecLists, LeafLists
    <2>2. InTurn(<<>>, <<>>, <<>>, x \o y) = InTurn(<<>>, <<>>, x, y)
      BY InTurnLeaves
    <2>3. EntriesIn(<<>>) = <<>> /\ BlocksEntries(disk, <<>>) = <<>> /\ RecsEntries(disk, <<>>) = <<>>
      BY <1>2, NothingListed
    <2>4. Pending = InTurn(<<>>, <<>>, <<>>, x \o y)
      BY <1>2, <1>4, <2>1, <2>3, Zenon DEF Pending
    <2>5. Pending' = InTurn(<<>>, <<>>, x, y)
      BY <1>1, <1>2, <1>5, <2>1, <2>3, Zenon DEF Pending
    <2> QED BY <2>2, <2>4, <2>5
  <1>7. DirLists'
    BY <1>1, <1>2, <1>4, <1>5 DEF DirLists
  <1>8. LeavesWork'
    BY <1>1, <1>2, <1>4, <1>5 DEF LeavesWork, AllData
  <1>9. ListsInv'
    BY <1>2, <1>5 DEF ListsInv, Filling
  <1> QED BY <1>2, <1>5, <1>6, <1>7, <1>8, <1>9 DEF DirNext

\* The end of the leaves: nothing of the directory is pending.
LEMMA LeavesDoneReads ==
  ASSUME ValidConsistent, RetrieveInv, IndexInv, disk.valid, ListsInv, DirWork, DirLeavesDone
  PROVE  ListsInv' /\ Pending = <<>>
  <1>1. /\ xpc = "leaf" /\ ptrs = <<>> /\ xpc' = "child" /\ UNCHANGED <<ptrs, recs, blks, items>>
    BY DEF DirLeavesDone, workVars, Descend
  <1>2. disk \in Images /\ items = <<>> /\ blks = <<>> /\ recs = <<>>
    BY <1>1, DiskFacts DEF ListsInv
  <1>3. /\ EntriesIn(<<>>) = <<>> /\ BlocksEntries(disk, <<>>) = <<>> /\ RecsEntries(disk, <<>>) = <<>>
        /\ LeavesEntries(disk, <<>>) = <<>>
    BY <1>2, NothingListed
  <1>4. Pending = InTurn(<<>>, <<>>, <<>>, <<>>)
    BY <1>1, <1>2, <1>3 DEF Pending
  <1>5. InTurn(<<>>, <<>>, <<>>, <<>>) = <<>>
    <2>1. PICK e \in Seq(Nat) : e = <<>>
      BY EmptySeq
    <2>2. InTurn(<<>>, <<>>, <<>>, e) = e
      BY InTurnEmpty
    <2> QED BY <2>1, <2>2
  <1> QED BY <1>1, <1>2, <1>4, <1>5 DEF ListsInv, Filling
-----------------------------------------------------------------------------
\* The children of the element at work have it as their parent: it is not on
\* the stack.
LEMMA SelfParented ==
  ASSUME IndexInv, Content, xpc \notin {"idle", "child"}, imem[self].ftype = "dir"
  PROVE  \A k \in Array(self) : imem[k].parent = self
  <1> SUFFICES ASSUME NEW k \in Array(self) PROVE imem[k].parent = self
    OBVIOUS
  <1>1. /\ self \in Nat /\ imem[self].idx \in Nat /\ imem[self].count \in Nat /\ SelfInv
        /\ stack \in Seq(Frames)
    BY AtWork
  <1>2. imem[self].count > 0
    BY <1>1 DEF Array
  <1>3. self \in OfType("dir")
    BY <1>1, <1>2 DEF OfType, SelfInv
  <1>4. ~Later(self, k)
    <2>1. ASSUME NEW i \in 1 .. Len(stack) PROVE stack[i].dir # self
      <3>1. stack[i] \in Frames /\ stack[i].dir < self
        BY <1>1 DEF SelfInv
      <3>2. stack[i].dir \in Nat
        BY <3>1, CellsAre DEF Frames
      <3> QED BY <1>1, <3>1, <3>2
    <2> QED BY <2>1 DEF Later
  <1> QED BY <1>3, <1>4 DEF Content, Parented

\* A step that leaves the pools alone.
LEMMA QuietContent ==
  ASSUME IndexInv, IndexInv', Content, Quiet, UNCHANGED <<retrieveVars, self>>, Grown,
         xpc \notin {"idle", "child", "ino"}, Waiting(self)' \/ Complete(self)', Filling => ArrayWaits
  PROVE  Content'
  <1>1. /\ MemInv /\ ArrayInv /\ StackInv /\ SelfInv /\ self \in Claimed /\ MemInv'
    BY DEF IndexInv, TreeInv, SelfInv
  <1>2. OnlySelf
    BY QuietWork
  <1>3. UNCHANGED <<disk, dmap, dinodes, rootIdx, imem, emem, inodes, self>>
    BY DEF Quiet, poolVars, retrieveVars, memVars
  <1>4. Kept
    BY <1>3 DEF Kept
  <1>5. Claimed' = Claimed
    BY <1>3 DEF Claimed
  <1>6. \A c \in Claimed : c < inodes.free /\ c \in Nat /\ inodes.free \in Nat
    BY <1>1, ClaimedCells, CellFacts DEF ArrayInv
  <1>7. NewWait
    BY <1>5, <1>6 DEF NewWait
  <1>8. NamedAt(self)'
    BY <1>1, <1>3 DEF Content, NamedAt
  <1>9. ASSUME imem'[self].ftype = "dir" PROVE Parented(self)'
    <2>1. \A k \in Array(self) : imem[k].parent = self
      BY <1>3, <1>9, SelfParented
    <2>2. Array(self)' = Array(self)
      BY <1>3 DEF Array
    <2> QED BY <1>3, <2>1, <2>2 DEF Parented
  <1>10. SelfGood
    BY <1>8, <1>9 DEF SelfGood
  <1> QED BY <1>1, <1>2, <1>3, <1>4, <1>7, <1>10, ContentStep

\* A step within the loops over a directory keeps the tree so far.
LEMMA FillingContent ==
  ASSUME IndexInv, IndexInv', Content, Quiet, UNCHANGED <<retrieveVars, self, stack>>, Filling, Filling'
  PROVE  Content'
  <1>1. Grown
    BY DEF Grown
  <1>2. Waiting(self)'
    BY DEF Waiting, Filling
  <1>3. Array(self)' = Array(self)
    BY DEF Array, Quiet, poolVars
  <1>4. ArrayWaits
    BY <1>3 DEF ArrayWaits, Waiting
  <1> QED BY <1>1, <1>2, <1>4, QuietContent DEF Filling

\* A directory that is complete: its children wait on the stack.
LEMMA NewFrame ==
  ASSUME MemInv, MemInv', Descend(self), self \in Cells
  PROVE  /\ Grown
         /\ \E i \in 1 .. Len(stack') :
              /\ stack'[i].dir = self
              /\ Rest(stack[i])' = imem'[self].idx .. imem'[self].idx + imem'[self].count - 1
  <1>1. stack \in Seq(Frames) /\ stack' \in Seq(Frames)
    BY DEF MemInv
  <1>2. PICK new \in Frames : new = [dir |-> self, next |-> 0]
    BY DEF Frames
  <1>3. /\ stack' = Append(stack, new)
        /\ Len(stack') = Len(stack) + 1 /\ stack'[Len(stack) + 1] = new /\ Len(stack) \in Nat
        /\ \A i \in 1 .. Len(stack) : stack'[i] = stack[i]
    BY <1>1, <1>2 DEF Descend
  <1>4. Grown
    BY <1>3 DEF Grown
  <1>5. imem'[self].idx \in Nat /\ imem'[self].count \in Nat
    BY NextCellFacts
  <1>6. PICK i \in 1 .. Len(stack') : stack'[i] = new
    BY <1>3
  <1>7. Rest(stack[i])' = imem'[self].idx .. imem'[self].idx + imem'[self].count - 1
    <2>1. Rest(stack[i])' = imem'[stack'[i].dir].idx + stack'[i].next .. (imem'[stack'[i].dir].idx + imem'[stack'[i].dir].count) - 1
      BY DEF Rest, End
    <2>2. stack'[i].dir = self /\ stack'[i].next = 0
      BY <1>2, <1>6
    <2> QED BY <1>5, <2>1, <2>2
  <1> QED BY <1>2, <1>4, <1>6, <1>7

\* The directory on the top of the stack.
LEMMA OnTop ==
  ASSUME MemInv, MemInv', Descend(self), self \in Cells, NEW k \in imem'[self].idx .. imem'[self].idx + imem'[self].count - 1
  PROVE  InStack(k)'
  <1>1. PICK i \in 1 .. Len(stack') :
          Rest(stack[i])' = imem'[self].idx .. imem'[self].idx + imem'[self].count - 1
    BY NewFrame
  <1> QED BY <1>1 DEF InStack

\* When a directory has been read, its children wait on the stack.
LEMMA DescendContent ==
  ASSUME IndexInv, IndexInv', Content, Quiet, UNCHANGED <<retrieveVars, self>>, Filling, Descend(self),
         DirRead(self), imem[self].ino \in DOMAIN disk.listing
  PROVE  Content'
  <1>1. /\ MemInv /\ MemInv' /\ self \in Cells
    BY DEF IndexInv, MemInv
  <1>2. UNCHANGED <<disk, imem>>
    BY DEF Quiet, poolVars, retrieveVars
  <1>3. Grown
    BY <1>1, NewFrame
  <1>4. ASSUME NEW c \in Array(self) PROVE Waiting(c)'
    <2>1. c \in imem'[self].idx .. imem'[self].idx + imem'[self].count - 1
      BY <1>2, <1>4 DEF Array
    <2> QED BY <1>1, <2>1, OnTop DEF Waiting
  <1>5. Complete(self)'
    <2>1. List(self)' = List(self)
      BY <1>2 DEF List
    <2> QED BY <1>2, <2>1 DEF Complete, DirRead, HasInos
  <1> QED BY <1>3, <1>4, <1>5, QuietContent DEF ArrayWaits, Filling
-----------------------------------------------------------------------------
\* The forms of a directory and of a file on a consistent image.
LEMMA LocalForm ==
  ASSUME NEW d \in Images, Consistent(d), NEW i \in DOMAIN d.listing, d.dinode[i].fmt = "local"
  PROVE  /\ d.dinode[i].ents \in Seq(Ents)
         /\ d.listing[i] \in Seq(Nat) /\ Len(d.listing[i]) = Len(d.dinode[i].ents)
         /\ \A k \in 1 .. Len(d.dinode[i].ents) :
              /\ ShortFormIno(d.dinode[i], k) = d.listing[i][k]
              /\ d.dinode[i].ents[k] \in Ents
              /\ Named(d, d.listing[i][k], d.dinode[i].ents[k].ftype)
  <1> DEFINE n == d.dinode[i]
             list == d.listing[i]
  <1>1. LocalHolds(d, n, list) /\ i \in DOMAIN d.dinode
    BY DEF Consistent, DirHolds
  <1>2. n.ents \in Seq(Ents)
    BY <1>1, IndexAssumption DEF DinodeOK, Ents
  <1> HIDE DEF n, list
  <1>3. PICK es \in Seq(Ents) : es = n.ents
    BY <1>2
  <1>4. /\ n.i8count \in Nat /\ (n.i8count = 0 \/ n.i8count >= Len(es))
        /\ \A k \in DOMAIN es : Named(d, es[k].ino, es[k].ftype)
        /\ list = [k \in DOMAIN es |-> es[k].ino]
    BY <1>1, <1>3 DEF LocalHolds
  <1>5. PICK l \in Nat : l = Len(es) /\ DOMAIN es = 1 .. l
    OBVIOUS
  <1>6. \A k \in 1 .. l : es[k] \in Ents /\ es[k].ino \in Nat /\ list[k] = es[k].ino
    <2>1. \A k \in 1 .. l : es[k] \in Ents
      BY <1>5
    <2>2. \A e \in Ents : e.ino \in Nat
      BY DEF Ents
    <2> QED BY <1>4, <1>5, <2>1, <2>2
  <1>7. list \in [1 .. l -> Nat]
    BY <1>4, <1>5, <1>6
  <1>8. list \in Seq(Nat) /\ Len(list) = l
    BY <1>7
  <1>9. ASSUME NEW k \in 1 .. l PROVE ShortFormIno(n, k) = list[k]
    <2>1. n.i8count = 0 \/ k <= n.i8count
      BY <1>4, <1>5
    <2> QED BY <1>3, <1>6, <2>1 DEF ShortFormIno
  <1> QED BY <1>2, <1>3, <1>4, <1>5, <1>6, <1>8, <1>9 DEF n, list

\* A directory in extent form, on a consistent image.
LEMMA ExtentsForm ==
  ASSUME NEW d \in Images, Consistent(d), NEW i \in DOMAIN d.listing, d.dinode[i].fmt = "extents"
  PROVE  /\ d.dinode[i].recs \in Seq(GoodRecs(d)) /\ d.dinode[i].size \in Nat
         /\ InOrderOf(d.dinode[i].recs) /\ BelowSize(d, d.dinode[i].recs, d.dinode[i].size)
         /\ d.listing[i] = RecsEntries(d, d.dinode[i].recs)
  <1>1. ExtentsHold(d, d.dinode[i], d.listing[i]) /\ i \in DOMAIN d.dinode
    BY DEF Consistent, DirHolds
  <1>2. PICK rs \in Seq(Words) : rs = d.dinode[i].recs
    BY <1>1, IndexAssumption DEF DinodeOK
  <1>3. \A k \in DOMAIN rs : rs[k] \in GoodRecs(d)
    BY <1>1, <1>2 DEF ExtentsHold, GoodRecs
  <1>4. rs \in Seq(GoodRecs(d))
    BY <1>3, SeqWithin
  <1> QED BY <1>1, <1>2, <1>4 DEF ExtentsHold

\* A directory with a B+tree, on a consistent image.
LEMMA LeavesForm ==
  ASSUME NEW d \in Images, Consistent(d), NEW i \in DOMAIN d.listing, d.dinode[i].fmt = "btree"
  PROVE  /\ d.dinode[i].level \in Nat /\ d.dinode[i].level >= 1
         /\ RootPointers(d.dinode[i]) \in Seq(DirLeaves(d))
         /\ d.listing[i] = LeavesEntries(d, RootPointers(d.dinode[i]))
  <1>1. LeavesHold(d, d.dinode[i], d.listing[i])
    BY DEF Consistent, DirHolds
  <1>2. PICK ps \in Seq(Nat) : ps = d.dinode[i].ptrs /\ Len(ps) = d.dinode[i].level
    BY <1>1 DEF LeavesHold
  <1>3. \A k \in DOMAIN ps : ps[k] \in DirLeaves(d)
    BY <1>1, <1>2 DEF LeavesHold, DirLeaves
  <1>4. ps \in Seq(DirLeaves(d))
    BY <1>3, SeqWithin
  <1>5. RootPointers(d.dinode[i]) = ps
    <2>1. Left(ps, 0) = ps
      BY LeftEnds
    <2>2. Left(ps, 0) = SubSeq(ps, 1, Len(ps))
      BY DEF Left
    <2> QED BY <1>2, <2>1, <2>2 DEF RootPointers
  <1> QED BY <1>1, <1>2, <1>4, <1>5 DEF LeavesHold

\* The forms of a directory, on a consistent image.
LEMMA DirForms ==
  ASSUME NEW d \in Images, Consistent(d), NEW i \in DOMAIN d.listing
  PROVE  /\ d.listing[i] \in Seq(Nat)
         /\ d.dinode[i].mode = "dir" /\ d.dinode[i].fmt \in {"local", "extents", "btree"}
  <1>1. d.dinode[i].mode = "dir" /\ d.dinode[i].fmt \in {"local", "extents", "btree"}
    BY DEF Consistent, DirHolds
  <1>2. CASE d.dinode[i].fmt = "local"
    BY <1>1, <1>2, LocalForm
  <1>3. CASE d.dinode[i].fmt = "extents"
    BY <1>1, <1>3, ExtentsForm, RecLists
  <1>4. CASE d.dinode[i].fmt = "btree"
    BY <1>1, <1>4, LeavesForm, LeafLists
  <1> QED BY <1>1, <1>2, <1>3, <1>4

\* A file with a B+tree, on a consistent image.
LEMMA FileTree ==
  ASSUME NEW d \in Images, Consistent(d), NEW i \in DOMAIN d.mapping, d.dinode[i].fmt = "btree"
  PROVE  /\ d.dinode[i].level \in Nat /\ d.dinode[i].level >= 1
         /\ Followed(d.dinode[i].level, d.dinode[i].ptrs) \in Seq(NodePtrs(d))
         /\ PtrsRecs(d, Followed(d.dinode[i].level, d.dinode[i].ptrs)) = Records(d.mapping[i])
  <1>1. TreeHolds(d, d.dinode[i].level, d.dinode[i].ptrs, d.mapping[i])
    BY DEF Consistent, FileHolds
  <1>2. PICK l \in Nat : l = d.dinode[i].level /\ l >= 1
    BY <1>1 DEF TreeHolds
  <1>3. PICK ps \in Seq(Nat) : ps = d.dinode[i].ptrs
    BY <1>1 DEF TreeHolds
  <1>4. /\ \A k \in DOMAIN ps : OnDevice(d, ps[k]) /\ At(d, ps[k]) \in DOMAIN FileTrees(d)[l - 1]
        /\ Records(d.mapping[i]) = Joined(d, ps, FileTrees(d)[l - 1])
    BY <1>1, <1>2, <1>3 DEF TreeHolds
  <1>5. /\ Followed(l, ps) \in Seq(NodePtrs(d))
        /\ PtrsRecs(d, Followed(l, ps)) = Joined(d, ps, FileTrees(d)[l - 1])
    BY <1>2, <1>4, FollowedPtrs
  <1> QED BY <1>2, <1>3, <1>4, <1>5

\* The forms of a file, on a consistent image.
LEMMA FileForms ==
  ASSUME NEW d \in Images, Consistent(d), NEW i \in DOMAIN d.mapping
  PROVE  /\ d.mapping[i] \in Seq(Fitting)
         /\ d.dinode[i].mode = "reg" /\ d.dinode[i].fmt \in {"extents", "btree"}
         /\ Records(d.mapping[i]) \in Seq(Words) /\ Len(Records(d.mapping[i])) = Len(d.mapping[i])
         /\ \A k \in 1 .. Len(d.mapping[i]) :
              /\ SameExtent(decode_xfs_extent(Records(d.mapping[i])[k].l0, Records(d.mapping[i])[k].l1),
                            d.mapping[i][k])
              /\ InGroup(d.mapping[i][k])
         /\ d.dinode[i].fmt = "extents" => d.dinode[i].recs = Records(d.mapping[i])
  <1>1. FileHolds(d, d.dinode[i], d.mapping[i]) /\ i \in DOMAIN d.dinode
    BY DEF Consistent
  <1>2. PICK map \in Seq(Fitting) : map = d.mapping[i]
    BY <1>1 DEF FileHolds
  <1>3. Records(map) \in Seq(Words)
    <2>1. CASE d.dinode[i].fmt = "extents"
      <3>1. d.dinode[i].recs \in Seq(Words)
        BY <1>1, <2>1, IndexAssumption DEF DinodeOK
      <3> QED BY <1>1, <1>2, <2>1, <3>1 DEF FileHolds
    <2>2. CASE d.dinode[i].fmt = "btree"
      <3>1. PICK s \in Seq(NodePtrs(d)) : PtrsRecs(d, s) = Records(map)
        BY <1>2, <2>2, FileTree
      <3> QED BY <3>1, PtrLists
    <2> QED BY <1>1, <2>1, <2>2 DEF FileHolds
  <1>4. PICK n \in Nat : n = Len(map) /\ DOMAIN map = 1 .. n
    OBVIOUS
  <1>5. DOMAIN Records(map) = 1 .. n
    BY <1>4 DEF Records
  <1>6. Len(Records(map)) = n
    BY <1>3, <1>4, <1>5
  <1>7. ASSUME NEW k \in 1 .. n
        PROVE  SameExtent(decode_xfs_extent(Records(map)[k].l0, Records(map)[k].l1), map[k]) /\ InGroup(map[k])
    <2>1. PICK e \in Fitting : e = map[k]
      BY <1>4
    <2>2. Records(map)[k] = Encode(e)
      BY <1>4, <2>1 DEF Records
    <2>3. SameExtent(decode_xfs_extent(Encode(e).l0, Encode(e).l1), e)
      BY FittingIs, ExtentRoundTrip DEF SameExtent
    <2>4. InGroup(map[k])
      BY <1>1, <1>2, <1>4 DEF FileHolds
    <2> QED BY <2>1, <2>2, <2>3, <2>4
  <1> QED BY <1>1, <1>2, <1>3, <1>4, <1>6, <1>7 DEF FileHolds
-----------------------------------------------------------------------------
\* The inode the element at work stands for.
LEMMA OnDisk ==
  ASSUME RetrieveInv, NEW c, Known(imem[c].ino)
  PROVE  Dinode(c) = disk.dinode[imem[c].ino]
  BY DEF RetrieveInv, Known, Dinode

\* The dinode that process_ino() finds is the one on the disk, and the entry's
\* type is the dinode's.
LEMMA Formed ==
  ASSUME ValidConsistent, RetrieveInv, disk.valid, NEW c, Known(imem[c].ino), NamedAt(c)
  PROVE  /\ Ftype(c) \in {"dir", "reg"}
         /\ Ftype(c) = "dir" => imem[c].ino \in DOMAIN disk.listing
         /\ Ftype(c) = "reg" => imem[c].ino \in DOMAIN disk.mapping /\ imem[c].ino \notin DOMAIN disk.listing
         /\ Dinode(c) = disk.dinode[imem[c].ino]
  <1>1. disk \in Images /\ Consistent(disk)
    BY DiskFacts
  <1>2. Dinode(c) = disk.dinode[imem[c].ino]
    BY OnDisk
  <1>3. CASE imem[c].ino \in DOMAIN disk.listing
    <2>1. Dinode(c).mode = "dir" /\ imem[c].ino \notin DOMAIN disk.mapping
      BY <1>1, <1>2, <1>3, DirForms DEF Consistent
    <2>2. imem[c].ftype \in {"none", "dir"}
      BY <2>1 DEF NamedAt, Named
    <2> QED BY <1>2, <1>3, <2>1, <2>2 DEF Ftype
  <1>4. CASE imem[c].ino \notin DOMAIN disk.listing
    <2>1. imem[c].ino \in DOMAIN disk.mapping /\ imem[c].ftype \in {"none", "reg"}
      BY <1>4 DEF NamedAt, Named
    <2>2. Dinode(c).mode = "reg"
      BY <1>1, <1>2, <2>1, FileForms
    <2> QED BY <1>2, <1>4, <2>1, <2>2 DEF Ftype
  <1> QED BY <1>3, <1>4

\* A call that fails says nothing about the tree.
LEMMA ReturnedMatch ==
  ASSUME NEW e, e # "OK", Return(e)
  PROVE  MatchInv'
  BY DEF Return, MatchInv, ListsInv, Filling
-----------------------------------------------------------------------------
\* The steps that read on in a directory.
LEMMA ReadsOn ==
  ASSUME IndexInv, IndexInv', disk.valid, MatchInv, Quiet, UNCHANGED <<retrieveVars, self, stack>>,
         Filling, Filling', ListsInv', DirNext
  PROVE  MatchInv'
  <1>1. Content /\ DirWork
    BY DEF MatchInv, Filling
  <1>2. Content'
    BY <1>1, FillingContent
  <1>3. DirWork'
    BY <1>1, DirWorkKept
  <1> QED BY <1>2, <1>3 DEF MatchInv, Filling

\* A directory of which nothing is pending is complete.
LEMMA ReadToEnd ==
  ASSUME ValidConsistent, RetrieveInv, IndexInv, IndexInv', disk.valid, MatchInv, Quiet,
         UNCHANGED <<retrieveVars, self>>, Filling, Descend(self), ListsInv', Pending = <<>>
  PROVE  MatchInv'
  <1>1. Content /\ DirWork /\ imem[self].ftype = "dir" /\ imem[self].count \in Nat
    BY AtWork DEF MatchInv, Filling, IndexInv, TreeInv, FillInv
  <1>2. imem[self].ino \in DOMAIN disk.listing /\ HasInos(self, imem[self].count)
        /\ Left(List(self), imem[self].count) = <<>>
    BY <1>1 DEF DirWork
  <1>3. List(self) \in Seq(Nat)
    BY <1>2, DiskFacts, DirForms DEF List
  <1>4. imem[self].count <= Len(List(self))
    BY <1>2 DEF HasInos
  <1>5. imem[self].count = Len(List(self))
    BY <1>1, <1>2, <1>3, <1>4, LeftEnds
  <1>6. Content'
    BY <1>1, <1>2, <1>5, DescendContent DEF DirRead
  <1>7. xpc' = "child"
    BY DEF Descend
  <1> QED BY <1>6, <1>7 DEF MatchInv, Filling

\* The invariant through the end of a block.
LEMMA DentriesDoneMatch ==
  ASSUME ValidConsistent, RetrieveInv, IndexInv, IndexInv', disk.valid, MatchInv, calls' = calls, DentriesDone
  PROVE  MatchInv'
  <1>1. /\ Filling /\ Filling' /\ Quiet /\ UNCHANGED <<retrieveVars, self, stack>>
    BY DEF DentriesDone, Filling, Quiet
  <1>2. ListsInv /\ DirWork
    BY <1>1 DEF MatchInv
  <1> QED BY <1>1, <1>2, DentriesDoneReads, ReadsOn

\* The invariant through . and ...
LEMMA DotsMatch ==
  ASSUME ValidConsistent, RetrieveInv, IndexInv, IndexInv', disk.valid, MatchInv, calls' = calls, Dentry,
         Head(items).kind = "dots"
  PROVE  MatchInv'
  <1>1. /\ Filling /\ Filling' /\ Quiet /\ UNCHANGED <<retrieveVars, self, stack>>
    BY DEF Dentry, Filling, Quiet, poolVars
  <1>2. ListsInv /\ DirWork
    BY <1>1 DEF MatchInv
  <1> QED BY <1>1, <1>2, DotsRead, ReadsOn

\* The invariant through the end of a record's blocks.
LEMMA BlocksDoneMatch ==
  ASSUME ValidConsistent, RetrieveInv, IndexInv, IndexInv', disk.valid, MatchInv, calls' = calls, DirBlocksDone
  PROVE  MatchInv'
  <1>1. /\ Filling /\ Filling' /\ Quiet /\ UNCHANGED <<retrieveVars, self, stack>>
    BY DEF DirBlocksDone, Filling, Quiet
  <1>2. ListsInv /\ DirWork
    BY <1>1 DEF MatchInv
  <1> QED BY <1>1, <1>2, BlocksDoneReads, ReadsOn

\* The invariant through the next record.
LEMMA DirExtentMatch ==
  ASSUME ValidConsistent, RetrieveInv, IndexInv, IndexInv', disk.valid, MatchInv, calls' = calls, DirExtent
  PROVE  MatchInv'
  <1>1. /\ Filling /\ Filling' /\ Quiet /\ UNCHANGED <<retrieveVars, self, stack>>
    BY DEF DirExtent, Filling, Quiet
  <1>2. ListsInv /\ DirWork
    BY <1>1 DEF MatchInv
  <1> QED BY <1>1, <1>2, DirExtentReads, ReadsOn

\* The invariant through the next block.
LEMMA DirBlockMatch ==
  ASSUME ValidConsistent, RetrieveInv, IndexInv, IndexInv', disk.valid, MatchInv, calls' = calls, DirBlock
  PROVE  MatchInv'
  <1>1. /\ Filling /\ Quiet /\ UNCHANGED retrieveVars
    BY DEF DirBlock, Filling, Quiet
  <1>2. ListsInv /\ DirWork
    BY <1>1 DEF MatchInv
  <1>3. CASE xpc' # "idle"
    BY <1>1, <1>2, <1>3, DirBlockReads, ReadsOn
  <1>4. CASE xpc' = "idle"
    <2>1. Return("EIO")
      BY <1>4 DEF DirBlock
    <2> QED BY <2>1, ReturnedMatch
  <1> QED BY <1>3, <1>4

\* The invariant through the next leaf.
LEMMA DirLeafMatch ==
  ASSUME ValidConsistent, RetrieveInv, IndexInv, IndexInv', disk.valid, MatchInv, calls' = calls, DirLeaf
  PROVE  MatchInv'
  <1>1. /\ Filling /\ Quiet /\ UNCHANGED retrieveVars
    BY DEF DirLeaf, Filling, Quiet
  <1>2. ListsInv /\ DirWork
    BY <1>1 DEF MatchInv
  <1>3. CASE xpc' # "idle"
    <2>1. ListsInv' /\ DirNext /\ xpc' = "extent" /\ UNCHANGED <<self, stack>>
      BY <1>2, <1>3, DirLeafReads
    <2> QED BY <1>1, <2>1, ReadsOn DEF Filling
  <1>4. CASE xpc' = "idle"
    <2>1. \E e \in {"EIO", "ENOSYS", "EINVAL"} : Return(e)
      BY <1>4 DEF DirLeaf
    <2> QED BY <2>1, ReturnedMatch
  <1> QED BY <1>3, <1>4

\* The invariant through the end of the records.
LEMMA ExtentsDoneMatch ==
  ASSUME ValidConsistent, RetrieveInv, IndexInv, IndexInv', disk.valid, MatchInv, calls' = calls, DirExtentsDone
  PROVE  MatchInv'
  <1>1. /\ Filling /\ Quiet /\ UNCHANGED <<retrieveVars, self>>
    BY DEF DirExtentsDone, Filling, Quiet
  <1>2. ListsInv /\ DirWork
    BY <1>1 DEF MatchInv
  <1>3. CASE Dinode(self).fmt = "btree"
    <2>1. Filling' /\ stack' = stack
      BY <1>3 DEF DirExtentsDone, Filling
    <2> QED BY <1>1, <1>2, <1>3, <2>1, ExtentsDoneReads, ReadsOn
  <1>4. CASE Dinode(self).fmt # "btree"
    <2>1. Descend(self)
      BY <1>4 DEF DirExtentsDone
    <2> QED BY <1>1, <1>2, <1>4, <2>1, ExtentsDoneReads, ReadToEnd
  <1> QED BY <1>3, <1>4

\* The invariant through the end of the leaves.
LEMMA LeavesDoneMatch ==
  ASSUME ValidConsistent, RetrieveInv, IndexInv, IndexInv', disk.valid, MatchInv, calls' = calls, DirLeavesDone
  PROVE  MatchInv'
  <1>1. /\ Filling /\ Quiet /\ UNCHANGED <<retrieveVars, self>> /\ Descend(self)
    BY DEF DirLeavesDone, Filling, Quiet
  <1>2. ListsInv /\ DirWork
    BY <1>1 DEF MatchInv
  <1> QED BY <1>1, <1>2, LeavesDoneReads, ReadToEnd
-----------------------------------------------------------------------------
\* The nodes of a file's B+tree, and its end.
LEMMA FileNodeMatch ==
  ASSUME ValidConsistent, RetrieveInv, IndexInv, IndexInv', disk.valid, MatchInv, calls' = calls, FileNode
  PROVE  MatchInv'
  <1>1. /\ xpc = "node" /\ ptrs # <<>> /\ ~Head(ptrs).leaf /\ Quiet /\ UNCHANGED retrieveVars
    BY DEF FileNode, Quiet
  <1>2. Content /\ FileWork /\ ListsInv /\ ~Filling
    BY <1>1 DEF MatchInv, Filling
  <1>3. disk \in Images /\ DOMAIN disk.dev \subseteq Nat /\ ptrs \in Seq(NodePtrs(disk))
    BY <1>2, DiskFacts DEF FileWork
  <1>4. PICK p \in NodePtrs(disk) : p = Head(ptrs)
    BY <1>1, <1>3, TailAt
  <1>5. PICK rest \in Seq(NodePtrs(disk)) : rest = Tail(ptrs)
    BY <1>1, <1>3, TailAt
  <1>6. PICK block : block = BlockAt(disk, p.bno)
    OBVIOUS
  <1>7. /\ p.bno \in Nat /\ OnDevice(disk, p.bno) /\ block.magic = "BMA3"
        /\ block.level \in Nat /\ block.level > 0
        /\ Leads(disk, At(disk, p.bno), FileTrees(disk)[block.level - 1])
        /\ BelowPtr(disk, p) = Joined(disk, block.ptrs, FileTrees(disk)[block.level - 1])
        /\ BelowPtr(disk, p) \in Seq(Words)
    BY <1>1, <1>3, <1>4, <1>6, PtrAre
  <1>8. At(disk, p.bno) \in DOMAIN disk.dev /\ xal_fsbno_offset(p.bno) = At(disk, p.bno)
        /\ disk.dev[At(disk, p.bno)] = block
    BY <1>3, <1>6, <1>7, BlockFound DEF BlockAt
  <1>9. CASE xpc' = "idle"
    <2>1. \E e \in {"EIO", "EINVAL"} : Return(e)
      BY <1>1, <1>9 DEF FileNode
    <2> QED BY <2>1, ReturnedMatch
  <1>10. CASE xpc' # "idle"
    <2>1. /\ ptrs' = Followed(block.level, block.ptrs) \o rest
          /\ UNCHANGED <<xpc, self, stack, recs, nleft, blks, items, xerr>>
      BY <1>4, <1>5, <1>7, <1>8, <1>10 DEF FileNode, Return
    <2>2. block.ptrs \in Seq(Nat)
      BY <1>3, <1>7, <1>8, IndexAssumption DEF BlockOK
    <2>3. PICK l \in Nat : l = block.level /\ l >= 1
      BY <1>7
    <2>4. PICK ps \in Seq(Nat) : ps = block.ptrs
      BY <2>2
    <2>5. \A k \in DOMAIN ps : OnDevice(disk, ps[k]) /\ At(disk, ps[k]) \in DOMAIN FileTrees(disk)[l - 1]
      BY <1>7, <1>8, <2>3, <2>4 DEF Leads
    <2>6. PICK new \in Seq(NodePtrs(disk)) : new = Followed(l, ps) /\ PtrsRecs(disk, new) = BelowPtr(disk, p)
      BY <1>3, <1>7, <2>3, <2>4, <2>5, FollowedPtrs
    <2>7. ptrs' = new \o rest
      BY <2>1, <2>3, <2>4, <2>6
    <2>8. PtrsRecs(disk, new \o rest) = PtrsRecs(disk, new) \o PtrsRecs(disk, rest)
      BY <1>3, PtrLists
    <2>9. PtrsRecs(disk, ptrs) = BelowPtr(disk, p) \o PtrsRecs(disk, rest)
      BY <1>1, <1>3, <1>4, <1>5, PtrLists
    <2>10. ptrs' \in Seq(NodePtrs(disk)) /\ PtrsRecs(disk, ptrs') = PtrsRecs(disk, ptrs)
      <3>1. new \o rest \in Seq(NodePtrs(disk))
        BY ConcatProperties
      <3> QED BY <2>6, <2>7, <2>8, <2>9, <3>1, Zenon
    <2>11. UNCHANGED <<disk, dmap, imem, emem>>
      BY <1>1 DEF retrieveVars, memVars, Quiet, poolVars
    <2>12. Map(self)' = Map(self) /\ Known(imem[self].ino)'
      BY <1>2, <2>1, <2>11 DEF Map, FileWork, Known
    <2>13. HasExtents(self, imem[self].count)'
      BY <1>2, <2>1, <2>11, <2>12 DEF FileWork, HasExtents
    <2>14. Left(Records(Map(self)), imem[self].count)' = Left(Records(Map(self)), imem[self].count)
      BY <2>1, <2>11, <2>12 DEF Left, Records
    <2>15. FileWork'
      BY <1>2, <2>1, <2>10, <2>11, <2>12, <2>13, <2>14 DEF FileWork
    <2>16. Content'
      BY <1>1, <1>2, <2>1, QuietContent DEF Grown, Waiting
    <2> QED BY <1>1, <1>2, <2>1, <2>15, <2>16 DEF MatchInv, ListsInv, Filling
  <1> QED BY <1>9, <1>10

\* The invariant through the end of a file's B+tree.
LEMMA FileDoneMatch ==
  ASSUME ValidConsistent, RetrieveInv, IndexInv, IndexInv', disk.valid, MatchInv, calls' = calls, FileDone
  PROVE  MatchInv'
  <1>1. /\ xpc = "node" /\ ptrs = <<>> /\ xpc' = "child" /\ Quiet
        /\ UNCHANGED <<retrieveVars, self, stack, ptrs, recs, blks, items>>
    BY DEF FileDone, Quiet, workVars
  <1>2. Content /\ FileWork /\ ListsInv /\ ~Filling
    BY <1>1 DEF MatchInv, Filling
  <1>3. disk \in Images /\ Consistent(disk) /\ imem[self].ftype = "reg" /\ imem[self].count \in Nat
        /\ self \in Claimed
    BY <1>1, DiskFacts, AtWork DEF IndexInv, TreeInv, FillInv, SelfInv
  <1>4. imem[self].ino \in DOMAIN disk.mapping /\ imem[self].ino \notin DOMAIN disk.listing
    BY <1>2, <1>3 DEF FileWork, Consistent
  <1>5. PICK rs \in Seq(Words) : rs = Records(Map(self)) /\ Len(rs) = Len(Map(self))
    BY <1>3, <1>4, FileForms DEF Map
  <1>6. Left(rs, imem[self].count) = <<>>
    <2>1. PtrsRecs(disk, <<>>) = <<>>
      BY <1>3, EmptySeq, PtrLists
    <2> QED BY <1>1, <1>2, <1>5, <2>1 DEF FileWork
  <1>7. imem[self].count = Len(Map(self))
    BY <1>2, <1>3, <1>5, <1>6, LeftEnds DEF FileWork, HasExtents
  <1>8. FileRead(self)
    BY <1>2, <1>3, <1>7 DEF FileRead, FileWork
  <1>9. UNCHANGED <<disk, imem, emem>>
    BY <1>1 DEF retrieveVars, Quiet, poolVars
  <1>10. Map(self)' = Map(self)
    BY <1>1, <1>9 DEF Map
  <1>11. FileRead(self)'
    BY <1>1, <1>8, <1>9, <1>10 DEF FileRead, HasExtents
  <1>12. Complete(self)'
    BY <1>1, <1>4, <1>9, <1>11 DEF Complete
  <1>13. Content'
    BY <1>1, <1>2, <1>12, QuietContent DEF Grown
  <1> QED BY <1>1, <1>2, <1>13 DEF MatchInv, ListsInv, Filling
-----------------------------------------------------------------------------
\* The directories and files that are read piece by piece begin with nothing.
LEMMA OpenedContent ==
  ASSUME IndexInv, IndexInv', Content, xpc = "ino", xpc' \notin {"idle", "child"},
         UNCHANGED <<retrieveVars, inodes, extents, emem, rootIdx, self, stack>>,
         NEW new \in Inodes, imem' = [imem EXCEPT ![self] = new],
         new.ino = imem[self].ino, new.parent = imem[self].parent, new.count = 0, NamedAt(self)'
  PROVE  Content' /\ imem'[self] = new
  <1>1. /\ MemInv /\ ArrayInv /\ StackInv /\ SelfInv /\ self \in Claimed /\ MemInv' /\ self \in Cells
        /\ imem \in [Cells -> Inodes] /\ inodes.free \in Nat /\ self < inodes.free
    BY AtWork DEF IndexInv, SelfInv
  <1>2. extents.free <= extents'.free
    BY AtWork
  <1>3. OnlySelf /\ imem'[self] = new
    BY <1>2, SelfWritten
  <1>4. UNCHANGED <<disk, dmap, dinodes>>
    BY DEF retrieveVars, memVars
  <1>5. Kept
    BY <1>1, <1>3, <1>4 DEF Kept
  <1>6. Grown
    BY DEF Grown
  <1>7. NewWait
    <2>1. Claimed' = Claimed
      BY DEF Claimed
    <2>2. \A c \in Claimed : c < inodes.free /\ c \in Nat
      BY <1>1, ClaimedCells DEF ArrayInv
    <2> QED BY <1>1, <2>1, <2>2 DEF NewWait
  <1>8. Waiting(self)'
    BY DEF Waiting
  <1>9. Parented(self)'
    <2>1. imem'[self].idx \in Nat /\ imem'[self].count = 0
      BY <1>3 DEF Inodes
    <2>2. Array(self)' = {}
      BY <2>1 DEF Array
    <2> QED BY <2>2 DEF Parented
  <1>10. SelfGood
    BY <1>8, <1>9 DEF SelfGood
  <1>11. ~Filling
    BY DEF Filling
  <1> QED BY <1>1, <1>3, <1>5, <1>6, <1>7, <1>10, <1>11, ContentStep

\* Nothing of a directory, or of a file, has been read.
LEMMA DirBegun ==
  ASSUME ValidConsistent, RetrieveInv, disk.valid, Known(imem[self].ino), imem[self].ino \in DOMAIN disk.listing,
         UNCHANGED <<disk, dmap, dinodes, self>>, imem'[self].ino = imem[self].ino, imem'[self].count = 0
  PROVE  /\ List(self)' = List(self) /\ List(self) \in Seq(Nat) /\ Known(imem[self].ino)'
         /\ imem'[self'].ino \in DOMAIN disk'.listing
         /\ HasInos(self, imem[self].count)' /\ Left(List(self), imem[self].count)' = List(self)
         /\ Dinode(self)' = Dinode(self) /\ List(self) = disk.listing[imem[self].ino]
  <1>1. List(self)' = List(self) /\ Known(imem[self].ino)' /\ Dinode(self)' = Dinode(self)
    BY DEF List, Known, Dinode
  <1>2. List(self) \in Seq(Nat)
    BY DiskFacts, DirForms DEF List
  <1>3. PICK list \in Seq(Nat) : list = List(self) /\ list = List(self)'
    BY <1>1, <1>2
  <1>4. 0 <= Len(list)
    OBVIOUS
  <1>5. HasInos(self, imem[self].count)'
    BY <1>3, <1>4 DEF HasInos
  <1>6. Left(List(self), imem[self].count)' = Left(list, 0)
    BY <1>3 DEF Left
  <1>7. Left(list, 0) = list
    BY LeftEnds
  <1> QED BY <1>1, <1>2, <1>3, <1>5, <1>6, <1>7 DEF List

\* The invariant as a directory in extent form is opened.
LEMMA DirExtentsMatch ==
  ASSUME ValidConsistent, RetrieveInv, IndexInv, IndexInv', disk.valid, MatchInv, calls' = calls, DirExtents
  PROVE  MatchInv'
  <1>1. /\ xpc = "ino" /\ Known(imem[self].ino) /\ Dinode(self).fmt = "extents" /\ Ftype(self) = "dir"
        /\ xpc' = "extent" /\ recs' = Dinode(self).recs /\ nleft' = Dinode(self).size
        /\ imem' = [imem EXCEPT ![self].ftype = "dir", ![self].idx = FirstChild]
        /\ UNCHANGED <<retrieveVars, rootIdx, inodes, extents, emem, self, stack, ptrs, blks, items, xerr>>
    BY DEF DirExtents, Form
  <1>2. UNCHANGED <<disk, dmap, dinodes>>
    BY <1>1 DEF retrieveVars, memVars
  <1>3. Content /\ ListsInv /\ self \in Claimed
    BY <1>1, AtWork DEF MatchInv, SelfInv
  <1>4. NamedAt(self)
    BY <1>3 DEF Content
  <1>5. /\ disk \in Images /\ Consistent(disk) /\ imem[self].ino \in DOMAIN disk.listing
        /\ Dinode(self) = disk.dinode[imem[self].ino]
    BY <1>1, <1>4, DiskFacts, Formed
  <1>6. PICK new : new = [imem[self] EXCEPT !.ftype = "dir", !.idx = inodes.free]
    OBVIOUS
  <1>7. /\ new \in Inodes /\ new.ftype = "dir" /\ new.count = 0 /\ new.ino = imem[self].ino
        /\ new.parent = imem[self].parent
    BY <1>1, <1>6, AtWork DEF Inodes, Ftypes, SelfInv
  <1>8. imem' = [imem EXCEPT ![self] = new]
    BY <1>1, <1>6, AtWork DEF FirstChild
  <1>9. imem'[self] = new
    BY <1>1, <1>8, AtWork
  <1>10. NamedAt(self)'
    BY <1>1, <1>2, <1>5, <1>7, <1>9 DEF NamedAt, Named
  <1>11. Content'
    BY <1>1, <1>3, <1>7, <1>8, <1>10, OpenedContent
  <1>12. PICK rs \in Seq(GoodRecs(disk)) :
           /\ rs = recs' /\ Dinode(self).size \in Nat
           /\ InOrderOf(rs) /\ BelowSize(disk, rs, Dinode(self).size)
           /\ disk.listing[imem[self].ino] = RecsEntries(disk, rs)
    BY <1>1, <1>5, ExtentsForm
  <1>13. /\ Known(imem[self].ino)' /\ imem'[self'].ino \in DOMAIN disk'.listing
         /\ HasInos(self, imem[self].count)' /\ Left(List(self), imem[self].count)' = RecsEntries(disk, rs)
         /\ Dinode(self)' = Dinode(self)
    BY <1>1, <1>2, <1>5, <1>7, <1>9, <1>12, DirBegun
  <1>14. items' = <<>> /\ blks' = <<>> /\ ptrs' = <<>>
    BY <1>1, <1>3 DEF ListsInv, Filling
  <1>15. DirLists'
    BY <1>2, <1>5, <1>12, <1>14, NothingListed DEF DirLists
  <1>16. Pending' = RecsEntries(disk, rs)
    <2>1. PICK x \in Seq(Nat) : x = RecsEntries(disk, rs)
      BY <1>5, <1>12, RecLists
    <2>2. EntriesIn(<<>>) = <<>> /\ BlocksEntries(disk, <<>>) = <<>> /\ LeavesEntries(disk, <<>>) = <<>>
      BY <1>5, NothingListed
    <2>3. Pending' = InTurn(<<>>, <<>>, x, <<>>)
      BY <1>2, <1>12, <1>14, <2>1, <2>2, Zenon DEF Pending
    <2>4. PICK e \in Seq(Nat) : e = <<>>
      BY EmptySeq
    <2>5. InTurn(<<>>, <<>>, x, e) = x \o e
      BY InTurnEmpty
    <2>6. x \o e = x
      BY <2>4, ConcatEmptySeq
    <2> QED BY <2>1, <2>3, <2>4, <2>5, <2>6
  <1>17. ExtentsWork'
    <2>1. rs # <<>> => ExtentIn(Head(rs)).off \in Nat
      BY <1>5, RecNext
    <2>2. rs # <<>> => ExtentIn(Head(rs)).off + nleft' >= Dinode(self).size
      BY <1>1, <1>12, <2>1
    <2> QED BY <1>1, <1>2, <1>12, <1>13, <1>14, <2>2 DEF ExtentsWork
  <1>18. DirWork'
    BY <1>1, <1>13, <1>15, <1>16, <1>17 DEF DirWork
  <1> QED BY <1>1, <1>11, <1>14, <1>18 DEF MatchInv, ListsInv, Filling

\* The invariant as a directory's B+tree is opened.
LEMMA DirBtreeMatch ==
  ASSUME ValidConsistent, RetrieveInv, IndexInv, IndexInv', disk.valid, MatchInv, calls' = calls, DirBtree
  PROVE  MatchInv'
  <1>1. /\ xpc = "ino" /\ Known(imem[self].ino) /\ Dinode(self).fmt = "btree" /\ Ftype(self) = "dir"
        /\ imem' = [imem EXCEPT ![self].ftype = "dir", ![self].idx = FirstChild]
        /\ UNCHANGED <<retrieveVars, rootIdx, inodes, extents, emem>>
        /\ \/ Return("EINVAL")
           \/ /\ xpc' = "leaf" /\ ptrs' = RootPointers(Dinode(self))
              /\ UNCHANGED <<self, stack, recs, nleft, blks, items, xerr>>
    BY DEF DirBtree, Form
  <1>2. CASE Return("EINVAL")
    BY <1>2, ReturnedMatch
  <1>3. CASE /\ xpc' = "leaf" /\ ptrs' = RootPointers(Dinode(self))
             /\ UNCHANGED <<self, stack, recs, nleft, blks, items, xerr>>
    <2>1. UNCHANGED <<disk, dmap, dinodes>>
      BY <1>1 DEF retrieveVars, memVars
    <2>2. Content /\ ListsInv /\ self \in Claimed
      BY <1>1, AtWork DEF MatchInv, SelfInv
    <2>3. NamedAt(self)
      BY <2>2 DEF Content
    <2>4. /\ disk \in Images /\ Consistent(disk) /\ imem[self].ino \in DOMAIN disk.listing
          /\ Dinode(self) = disk.dinode[imem[self].ino]
      BY <1>1, <2>3, DiskFacts, Formed
    <2>5. PICK new : new = [imem[self] EXCEPT !.ftype = "dir", !.idx = inodes.free]
      OBVIOUS
    <2>6. /\ new \in Inodes /\ new.ftype = "dir" /\ new.count = 0 /\ new.ino = imem[self].ino
          /\ new.parent = imem[self].parent
      BY <1>1, <2>5, AtWork DEF Inodes, Ftypes, SelfInv
    <2>7. imem' = [imem EXCEPT ![self] = new]
      BY <1>1, <2>5, AtWork DEF FirstChild
    <2>8. imem'[self] = new
      BY <1>1, <2>7, AtWork
    <2>9. NamedAt(self)'
      BY <1>3, <2>1, <2>4, <2>6, <2>8 DEF NamedAt, Named
    <2>10. Content'
      BY <1>1, <1>3, <2>2, <2>6, <2>7, <2>9, OpenedContent
    <2>11. PICK ps \in Seq(DirLeaves(disk)) :
             ps = ptrs' /\ disk.listing[imem[self].ino] = LeavesEntries(disk, ps)
      BY <1>1, <1>3, <2>4, LeavesForm
    <2>12. /\ Known(imem[self].ino)' /\ imem'[self'].ino \in DOMAIN disk'.listing
           /\ HasInos(self, imem[self].count)' /\ Left(List(self), imem[self].count)' = LeavesEntries(disk, ps)
           /\ Dinode(self)' = Dinode(self)
      BY <1>1, <1>3, <2>1, <2>4, <2>6, <2>8, <2>11, DirBegun
    <2>13. items' = <<>> /\ blks' = <<>> /\ recs' = <<>>
      BY <1>1, <1>3, <2>2 DEF ListsInv, Filling
    <2>14. DirLists'
      BY <2>1, <2>4, <2>11, <2>13, NothingListed DEF DirLists
    <2>15. Pending' = LeavesEntries(disk, ps)
      <3>1. PICK x \in Seq(Nat) : x = LeavesEntries(disk, ps)
        BY <2>4, <2>11, LeafLists
      <3>2. EntriesIn(<<>>) = <<>> /\ BlocksEntries(disk, <<>>) = <<>> /\ RecsEntries(disk, <<>>) = <<>>
        BY <2>4, NothingListed
      <3>3. Pending' = InTurn(<<>>, <<>>, <<>>, x)
        BY <2>1, <2>11, <2>13, <3>1, <3>2, Zenon DEF Pending
      <3>4. InTurn(<<>>, <<>>, <<>>, x) = x
        BY InTurnEmpty
      <3> QED BY <3>1, <3>3, <3>4
    <2>16. LeavesWork'
      BY <2>13 DEF LeavesWork, DataFirst, AllData
    <2>17. DirWork'
      BY <1>1, <2>12, <2>14, <2>15, <2>16 DEF DirWork
    <2> QED BY <1>3, <2>10, <2>13, <2>17 DEF MatchInv, ListsInv, Filling
  <1> QED BY <1>1, <1>2, <1>3

\* The invariant as a file's B+tree is opened.
LEMMA FileBtreeMatch ==
  ASSUME ValidConsistent, RetrieveInv, IndexInv, IndexInv', disk.valid, MatchInv, calls' = calls, FileBtree
  PROVE  MatchInv'
  <1>1. /\ xpc = "ino" /\ Known(imem[self].ino) /\ Dinode(self).fmt = "btree" /\ Ftype(self) = "reg"
        /\ UNCHANGED <<retrieveVars, rootIdx, inodes, extents, emem>>
        /\ \/ Return("EINVAL")
           \/ /\ imem' = [imem EXCEPT ![self].ftype = "reg", ![self].idx = extents.free]
              /\ xpc' = "node" /\ ptrs' = Followed(Dinode(self).level, Dinode(self).ptrs)
              /\ UNCHANGED <<self, stack, recs, nleft, blks, items, xerr>>
    BY DEF FileBtree, Form
  <1>2. CASE Return("EINVAL")
    BY <1>2, ReturnedMatch
  <1>3. CASE /\ imem' = [imem EXCEPT ![self].ftype = "reg", ![self].idx = extents.free]
             /\ xpc' = "node" /\ ptrs' = Followed(Dinode(self).level, Dinode(self).ptrs)
             /\ UNCHANGED <<self, stack, recs, nleft, blks, items, xerr>>
    <2>1. UNCHANGED <<disk, dmap, dinodes>>
      BY <1>1 DEF retrieveVars, memVars
    <2>2. Content /\ ListsInv /\ self \in Claimed
      BY <1>1, AtWork DEF MatchInv, SelfInv
    <2>3. NamedAt(self)
      BY <2>2 DEF Content
    <2>4. /\ disk \in Images /\ Consistent(disk) /\ imem[self].ino \in DOMAIN disk.mapping
          /\ Dinode(self) = disk.dinode[imem[self].ino]
      BY <1>1, <2>3, DiskFacts, Formed
    <2>5. PICK new : new = [imem[self] EXCEPT !.ftype = "reg", !.idx = extents.free]
      OBVIOUS
    <2>6. /\ new \in Inodes /\ new.ftype = "reg" /\ new.count = 0 /\ new.ino = imem[self].ino
          /\ new.parent = imem[self].parent
      BY <1>1, <2>5, AtWork DEF Inodes, Ftypes, SelfInv
    <2>7. imem' = [imem EXCEPT ![self] = new]
      BY <1>1, <1>3, <2>5, AtWork
    <2>8. imem'[self] = new
      BY <1>1, <2>7, AtWork
    <2>9. NamedAt(self)'
      BY <1>3, <2>1, <2>4, <2>6, <2>8 DEF NamedAt, Named
    <2>10. Content'
      BY <1>1, <1>3, <2>2, <2>6, <2>7, <2>9, OpenedContent
    <2>11. PICK rs \in Seq(Words) : rs = Records(Map(self)) /\ Len(Map(self)) \in Nat
      BY <2>4, FileForms DEF Map
    <2>12. ptrs' \in Seq(NodePtrs(disk)) /\ PtrsRecs(disk, ptrs') = rs
      BY <1>1, <1>3, <2>4, <2>11, FileTree DEF Map
    <2>13. Map(self)' = Map(self) /\ Known(imem[self].ino)' /\ imem'[self'].ino \in DOMAIN disk'.mapping
      BY <1>1, <1>3, <2>1, <2>4, <2>6, <2>8 DEF Map, Known
    <2>14. HasExtents(self, imem[self].count)'
      <3>1. imem'[self'].count = 0
        BY <1>3, <2>6, <2>8
      <3>2. PICK l \in Nat : l = Len(Map(self)')
        BY <2>11, <2>13
      <3>3. 0 <= l /\ 1 .. 0 = {}
        OBVIOUS
      <3> QED BY <3>1, <3>2, <3>3 DEF HasExtents
    <2>15. Left(Records(Map(self)), imem[self].count)' = Left(rs, 0)
      BY <1>3, <2>6, <2>8, <2>11, <2>13 DEF Left, Records
    <2>16. Left(rs, 0) = rs
      BY LeftEnds
    <2>17. FileWork'
      BY <2>1, <2>12, <2>13, <2>14, <2>15, <2>16 DEF FileWork
    <2> QED BY <1>1, <1>3, <2>2, <2>10, <2>17 DEF MatchInv, ListsInv, Filling
  <1> QED BY <1>1, <1>2, <1>3
-----------------------------------------------------------------------------
\* An entry of a directory block is appended to the array of the directory.
LEMMA EntryClaimed ==
  ASSUME ~BeyondMapped, IndexInv, Dentry, Head(items).kind = "entry", xpc' # "idle"
  PROVE  /\ items' = Tail(items) /\ UNCHANGED <<xpc, self, stack, ptrs, recs, nleft, blks>>
         /\ inodes'.free = inodes.free + 1 /\ inodes.free \in Cells /\ inodes.free # self
         /\ imem'[inodes.free].ino = Head(items).ino /\ imem'[inodes.free].ftype = Head(items).ftype
         /\ imem'[inodes.free].parent = self
         /\ imem'[self].ino = imem[self].ino /\ imem'[self].ftype = imem[self].ftype
         /\ imem'[self].parent = imem[self].parent /\ imem'[self].idx = imem[self].idx
         /\ imem'[self].count = imem[self].count + 1
         /\ \A c \in Cells \ {self} : c < inodes.free => imem'[c] = imem[c]
         /\ \A c \in Cells : c >= inodes.free => imem'[c].count = 0
  <1>1. xpc = "dentry" /\ items # <<>>
    BY DEF Dentry, EndOfBlock
  <1>2. /\ MemInv /\ FreshInv /\ self \in Cells /\ self \in Nat /\ self < inodes.free
        /\ inodes.free \in Nat /\ items \in Seq(Items) /\ imem[self].count \in Nat /\ imem[self] \in Inodes
    BY <1>1, AtWork
  <1>3. PICK it \in Items : it = Head(items)
    BY <1>1, <1>2, HeadTailProperties
  <1>4. PICK ok \in BOOLEAN :
          LET r == xal_pool_claim_inodes(inodes, 1, ok)
              m == Zeroed(imem, inodes, 1, ok, ZeroInode)
          IN /\ mprotect(inodes, inodes.allocated + inodes.growby, ok)
             /\ inodes' = r.pool
             /\ IF r.err = "OK"
                  THEN /\ imem' = [m EXCEPT
                            ![inodes.free] = [decode_dentry(Head(items)) EXCEPT !.parent = self],
                            ![self].count = @ + 1]
                       /\ items' = Tail(items)
                       /\ UNCHANGED <<xpc, self, stack, ptrs, recs, nleft, blks, xerr>>
                  ELSE imem' = m /\ Return(r.err)
    BY DEF Dentry
  <1>5. PICK r : r = xal_pool_claim_inodes(inodes, 1, ok)
    OBVIOUS
  <1>6. PICK m : m = Zeroed(imem, inodes, 1, ok, ZeroInode)
    OBVIOUS
  <1>7. /\ PoolIn(r.pool) /\ r.err \in PoolErrors /\ inodes.free <= r.pool.free
        /\ r.pool.free = IF r.err = "OK" THEN inodes.free + 1 ELSE inodes.free
        /\ m \in [Cells -> Inodes]
        /\ \A c \in Cells : c < inodes.free => m[c] = imem[c]
        /\ \A c \in Cells : c >= inodes.free => m[c].count = 0
    <2>1. mprotect(inodes, inodes.allocated + inodes.growby, ok)
      BY <1>4
    <2>2. MemInv /\ FreshInv /\ 1 \in Nat
      BY <1>2
    <2> QED BY <1>5, <1>6, <2>1, <2>2, InodesClaimed
  <1>8. r.err = "OK"
    BY <1>4, <1>5 DEF Return
  <1>9. PICK new : new = [decode_dentry(Head(items)) EXCEPT !.parent = self]
    OBVIOUS
  <1>10. /\ new \in Inodes /\ new.count = 0 /\ new.ino = it.ino /\ new.ftype = it.ftype /\ new.parent = self
    <2>1. PICK z \in Inodes : z = decode_dentry(it) /\ z.count = 0 /\ z.ino = it.ino /\ z.ftype = it.ftype
      <3>1. PICK w \in Inodes : w = ZeroInode /\ w.count = 0
        BY Zeroes DEF ZeroInode
      <3>2. PICK z : z = [w EXCEPT !.ino = it.ino, !.ftype = it.ftype]
        OBVIOUS
      <3>3. z \in Inodes /\ z.count = 0 /\ z.ino = it.ino /\ z.ftype = it.ftype
        BY <3>1, <3>2 DEF Inodes, Items
      <3>4. z = decode_dentry(it)
        BY <1>3, <3>1, <3>2 DEF decode_dentry
      <3> QED BY <3>3, <3>4
    <2>2. new = [z EXCEPT !.parent = self]
      BY <1>3, <1>9, <2>1
    <2> QED BY <1>2, <2>1, <2>2 DEF Inodes
  <1>11. /\ inodes' = r.pool
         /\ imem' = [m EXCEPT ![inodes.free] = new, ![self].count = @ + 1]
         /\ items' = Tail(items) /\ UNCHANGED <<xpc, self, stack, ptrs, recs, nleft, blks>>
    BY <1>4, <1>5, <1>6, <1>8, <1>9
  <1>12. PICK x \in Inodes : x = imem[self] /\ x = m[self]
    BY <1>2, <1>7
  <1>13. PICK one : one = [x EXCEPT !.count = x.count + 1]
    OBVIOUS
  <1>14. /\ one \in Inodes /\ one.count = x.count + 1 /\ one.idx = x.idx
         /\ one.ftype = x.ftype /\ one.ino = x.ino /\ one.parent = x.parent
    <2>1. x.count + 1 \in Nat
      BY <1>2, <1>12
    <2> QED BY <1>13, <2>1 DEF Inodes
  <1>15. inodes.free \in Cells /\ inodes.free # self /\ inodes'.free = inodes.free + 1
    <2>1. inodes.free # self /\ inodes'.free = inodes.free + 1 /\ inodes'.free = r.pool.free
      BY <1>2, <1>7, <1>8, <1>11
    <2>2. inodes.free \in Cells
      BY <1>2, <1>7, <2>1, InReserve, CellsAre
    <2> QED BY <2>1, <2>2
  <1>16. /\ imem'[inodes.free] = new /\ imem'[self] = one
         /\ \A c \in Cells \ {self, inodes.free} : imem'[c] = m[c]
    <2>1. [m[self] EXCEPT !.count = @ + 1] = one
      BY <1>12, <1>13
    <2> QED BY <1>2, <1>7, <1>11, <1>15, <2>1
  <1>17. ASSUME NEW c \in Cells \ {self}, c < inodes.free PROVE imem'[c] = imem[c]
    <2>1. c # inodes.free /\ m[c] = imem[c]
      BY <1>2, <1>7, <1>17, CellsAre
    <2> QED BY <1>16, <1>17, <2>1
  <1>18. \A c \in Cells : c >= inodes.free => imem'[c].count = 0
    BY <1>2, <1>7, <1>10, <1>16, CellsAre
  <1> QED BY <1>3, <1>10, <1>11, <1>12, <1>14, <1>15, <1>16, <1>17, <1>18

\* The tree so far as an entry is claimed.
LEMMA EntryContent ==
  ASSUME ~BeyondMapped, IndexInv, IndexInv', Content, Dentry, Head(items).kind = "entry", xpc' # "idle",
         Named(disk, Head(items).ino, Head(items).ftype)
  PROVE  Content'
  <1>1. /\ items' = Tail(items) /\ UNCHANGED <<xpc, self, stack, ptrs, recs, nleft, blks>>
        /\ inodes'.free = inodes.free + 1 /\ inodes.free \in Cells /\ inodes.free # self
        /\ imem'[inodes.free].ino = Head(items).ino /\ imem'[inodes.free].ftype = Head(items).ftype
        /\ imem'[inodes.free].parent = self
        /\ imem'[self].ino = imem[self].ino /\ imem'[self].ftype = imem[self].ftype
        /\ imem'[self].parent = imem[self].parent /\ imem'[self].idx = imem[self].idx
        /\ imem'[self].count = imem[self].count + 1
        /\ \A c \in Cells \ {self} : c < inodes.free => imem'[c] = imem[c]
        /\ \A c \in Cells : c >= inodes.free => imem'[c].count = 0
    BY EntryClaimed
  <1>2. xpc = "dentry" /\ UNCHANGED <<disk, dmap, dinodes, extents, emem, rootIdx>>
    BY DEF Dentry, retrieveVars, memVars
  <1>3. /\ MemInv /\ ArrayInv /\ StackInv /\ SelfInv /\ MemInv' /\ self \in Cells /\ self \in Nat
        /\ self \in Claimed /\ inodes.free \in Nat /\ self < inodes.free /\ extents.free \in Nat
        /\ imem[self].idx \in Nat /\ imem[self].count \in Nat
    BY <1>2, AtWork DEF IndexInv, SelfInv
  <1>4. /\ imem[self].ftype = "dir" /\ self < imem[self].idx
        /\ imem[self].idx + imem[self].count = inodes.free
    BY <1>2, AtWork DEF FillInv, Filling, End
  <1>5. OnlySelf
    BY <1>1, <1>2, <1>3 DEF OnlySelf
  <1>6. Kept
    BY <1>1, <1>2 DEF Kept
  <1>7. Grown
    BY <1>1 DEF Grown
  <1>8. Filling' /\ Waiting(self)'
    BY <1>1, <1>2 DEF Filling, Waiting
  <1>9. Array(self) = imem[self].idx .. inodes.free - 1 /\ Array(self)' = imem[self].idx .. inodes.free
    <2>1. Array(self)' = imem[self].idx .. imem[self].idx + (imem[self].count + 1) - 1
      BY <1>1 DEF Array
    <2> QED BY <1>3, <1>4, <2>1 DEF Array
  <1>10. NewWait
    <2> SUFFICES ASSUME NEW c \in Claimed', c >= inodes.free PROVE NamedAt(c)' /\ Waiting(c)'
      BY DEF NewWait
    <2>1. c = inodes.free
      <3>1. c \in Nat /\ c <= inodes.free + 1 - 1
        BY <1>1, <1>2, <1>3 DEF Claimed, ArrayInv
      <3> QED BY <1>3, <3>1
    <2>2. NamedAt(c)'
      BY <1>1, <1>2, <2>1 DEF NamedAt
    <2>3. c \in Array(self)'
      BY <1>3, <1>4, <1>9, <2>1
    <2> QED BY <1>8, <2>2, <2>3 DEF Waiting
  <1>11. NamedAt(self)'
    BY <1>1, <1>2, <1>3 DEF Content, NamedAt
  <1>12. Parented(self)'
    <2>1. ASSUME NEW k \in Array(self)' PROVE imem'[k].parent = self
      <3>1. k \in Nat /\ imem[self].idx <= k /\ k <= inodes.free
        BY <1>3, <1>9, <2>1
      <3>2. CASE k = inodes.free
        BY <1>1, <3>2
      <3>3. CASE k # inodes.free
        <4>1. k \in Array(self) /\ k # self /\ k < inodes.free
          BY <1>3, <1>4, <1>9, <3>1, <3>3
        <4>2. k \in Cells
          BY <1>1, <1>3, <3>1, CellsAre
        <4>3. imem[k].parent = self
          BY <1>2, <1>4, <4>1, SelfParented
        <4> QED BY <1>1, <4>1, <4>2, <4>3
      <3> QED BY <3>2, <3>3
    <2> QED BY <1>1, <2>1 DEF Parented
  <1>13. SelfGood
    BY <1>8, <1>11, <1>12 DEF SelfGood
  <1>14. ArrayWaits
    <2> SUFFICES ASSUME NEW c \in Array(self) PROVE Waiting(c)'
      BY DEF ArrayWaits
    <2>1. c \in Array(self)'
      BY <1>3, <1>9
    <2> QED BY <1>8, <2>1 DEF Waiting
  <1> QED BY <1>1, <1>3, <1>5, <1>6, <1>7, <1>10, <1>13, <1>14, ContentStep

\* The entry claimed is the next one of the directory's list.
LEMMA EntryRead ==
  ASSUME ~BeyondMapped, ValidConsistent, RetrieveInv, IndexInv, disk.valid, ListsInv, DirWork, Dentry,
         Head(items).kind = "entry", xpc' # "idle"
  PROVE  ListsInv' /\ DirWork'
  <1>1. /\ items' = Tail(items) /\ UNCHANGED <<xpc, self, stack, ptrs, recs, nleft, blks>>
        /\ inodes.free \in Cells
        /\ imem'[inodes.free].ino = Head(items).ino
        /\ imem'[self].ino = imem[self].ino /\ imem'[self].idx = imem[self].idx
        /\ imem'[self].count = imem[self].count + 1
        /\ \A c \in Cells \ {self} : c < inodes.free => imem'[c] = imem[c]
    BY EntryClaimed
  <1>2. xpc = "dentry" /\ items # <<>> /\ UNCHANGED <<disk, dmap, dinodes>>
    BY DEF Dentry, retrieveVars, memVars, EndOfBlock
  <1>3. /\ self \in Cells /\ self \in Nat /\ inodes.free \in Nat /\ self < inodes.free
        /\ imem[self].idx \in Nat /\ imem[self].count \in Nat /\ items \in Seq(Items)
        /\ imem[self].ftype = "dir" /\ self < imem[self].idx
        /\ imem[self].idx + imem[self].count = inodes.free
    BY <1>2, AtWork DEF FillInv, Filling, End
  <1>4. /\ disk \in Images /\ Consistent(disk) /\ DirLists /\ imem[self].ino \in DOMAIN disk.listing
        /\ HasInos(self, imem[self].count) /\ Known(imem[self].ino)
    BY DiskFacts DEF DirWork
  <1>5. PICK list \in Seq(Nat) : list = List(self)
    BY <1>4, DirForms DEF List
  <1>6. PICK n \in Nat : n = imem[self].count /\ n <= Len(list)
    BY <1>3, <1>4, <1>5 DEF HasInos
  <1>7. PICK it \in Items : it = Head(items)
    BY <1>2, <1>3, TailAt
  <1>8. /\ Tail(items) \in Seq(Items) /\ ItemsOK(disk, Tail(items))
        /\ EntriesIn(items) = EntryOf(it) \o EntriesIn(Tail(items))
    BY <1>2, <1>3, <1>4, <1>7, EntryNext DEF DirLists
  <1>9. PICK a \in Seq(Nat) : a = EntryOf(it) /\ a = <<it.ino>> /\ Len(a) = 1 /\ a[1] = it.ino
    <2>1. it.ino \in Nat /\ it.kind = "entry"
      BY <1>7 DEF Items
    <2>2. PICK s \in Seq(Nat) : s = <<it.ino>> /\ Len(s) = 1 /\ s[1] = it.ino
      <3>1. PICK i \in Nat : i = it.ino
        BY <2>1
      <3>2. <<i>> \in Seq(Nat)
        BY ONLY i \in Nat
      <3>3. Len(<<i>>) = 1 /\ <<i>>[1] = i
        BY ONLY i \in Nat
      <3> QED BY <3>1, <3>2, <3>3
    <2>3. EntryOf(it) = <<it.ino>>
      BY <2>1 DEF EntryOf
    <2> QED BY <2>2, <2>3
  <1>10. PICK b \in Seq(Nat) : b = Pending' /\ Pending = a \o b
    <2>1. PICK y, bs, rs, ps \in Seq(Nat) :
             /\ y = EntriesIn(Tail(items)) /\ bs = BlocksEntries(disk, blks)
             /\ rs = RecsEntries(disk, recs) /\ ps = LeavesEntries(disk, ptrs)
      BY <1>3, <1>4, <1>8, PartsTyped, ItemLists
    <2>2. InTurn(a \o y, bs, rs, ps) = a \o InTurn(y, bs, rs, ps) /\ InTurn(y, bs, rs, ps) \in Seq(Nat)
      BY InTurnFirst
    <2>3. Pending' = InTurn(y, bs, rs, ps)
      BY <1>1, <1>2, <2>1 DEF Pending
    <2>4. Pending = InTurn(a \o y, bs, rs, ps)
      BY <1>8, <1>9, <2>1, Zenon DEF Pending
    <2> QED BY <2>2, <2>3, <2>4
  <1>11. a \o b = Left(list, n)
    BY <1>5, <1>6, <1>10 DEF DirWork
  <1>12. n + Len(a) <= Len(list) /\ (\A k \in 1 .. Len(a) : list[n + k] = a[k]) /\ b = Left(list, n + Len(a))
    <2>1. Splits(list, n, a, b)
      BY <1>6, <1>11, LeftSplit
    <2> QED BY <2>1, Zenon DEF Splits
  <1>13. n + 1 <= Len(list) /\ list[n + 1] = it.ino /\ b = Left(list, n + 1)
    BY <1>9, <1>12
  <1>14. List(self)' = list /\ Dinode(self)' = Dinode(self) /\ Known(imem[self].ino)'
         /\ imem'[self'].ino \in DOMAIN disk'.listing
    BY <1>1, <1>2, <1>4, <1>5 DEF List, Dinode, Known
  <1>15. HasInos(self, imem[self].count)'
    <2>1. ASSUME NEW k \in 1 .. n + 1 PROVE imem'[imem[self].idx + k - 1].ino = list[k]
      <3>1. CASE k = n + 1
        <4>1. imem[self].idx + k - 1 = inodes.free
          BY <1>3, <1>6, <3>1
        <4> QED BY <1>1, <1>7, <1>13, <3>1, <4>1
      <3>2. CASE k # n + 1
        <4>1. k \in 1 .. n
          BY <1>6, <2>1, <3>2
        <4>2. PICK e \in Nat : e = imem[self].idx + k - 1 /\ e < inodes.free /\ e # self
          <5>1. PICK i, f \in Nat : i = imem[self].idx /\ f = inodes.free /\ i + n = f /\ self < i
            BY <1>3, <1>6
          <5>2. i + k - 1 \in Nat /\ i + k - 1 < f /\ i + k - 1 # self
            <6>1. k \in Nat /\ 1 <= k /\ k <= n /\ self \in Nat
              BY <1>3, <4>1
            <6> QED BY ONLY i \in Nat, f \in Nat, n \in Nat, <5>1, <6>1
          <5> QED BY <5>1, <5>2
        <4>3. e \in Cells
          BY <1>1, <1>3, <4>2, CellsAre
        <4>4. imem[e].ino = list[k]
          BY <1>4, <1>5, <1>6, <4>1, <4>2 DEF HasInos
        <4> QED BY <1>1, <4>2, <4>3, <4>4
      <3> QED BY <3>1, <3>2
    <2> QED BY <1>1, <1>6, <1>13, <1>14, <2>1 DEF HasInos
  <1>16. Pending' = Left(List(self), imem[self].count)'
    <2>1. Left(List(self), imem[self].count)' = Left(list, n + 1)
      BY <1>1, <1>6, <1>14 DEF Left
    <2> QED BY <1>10, <1>13, <2>1
  <1>17. DirLists'
    BY <1>1, <1>2, <1>4, <1>8 DEF DirLists
  <1>18. (ExtentsWork => ExtentsWork') /\ (LeavesWork => LeavesWork')
    BY <1>1, <1>2, <1>14 DEF ExtentsWork, LeavesWork
  <1>19. DirWork'
    BY <1>14, <1>15, <1>16, <1>17, <1>18 DEF DirWork
  <1> QED BY <1>1, <1>2, <1>19 DEF ListsInv, Filling

\* The invariant through an entry.
LEMMA DentryMatch ==
  ASSUME ~BeyondMapped, ValidConsistent, RetrieveInv, IndexInv, IndexInv', disk.valid, MatchInv,
         calls' = calls, Dentry
  PROVE  MatchInv'
  <1>1. xpc = "dentry" /\ items # <<>> /\ items \in Seq(Items) /\ UNCHANGED disk
    BY AtWork DEF Dentry, EndOfBlock, retrieveVars
  <1>2. ListsInv /\ DirWork /\ Content
    BY <1>1 DEF MatchInv, Filling
  <1>3. CASE Head(items).kind = "dots"
    BY <1>3, DotsMatch
  <1>4. CASE Head(items).kind # "dots"
    <2>1. Head(items).kind = "entry"
      <3>1. PICK it \in Items : it = Head(items)
        BY <1>1, TailAt
      <3>2. decode_dentry(it).ino # 0
        BY <3>1 DEF Dentry, EndOfBlock
      <3>3. it.kind # "unused"
        BY <3>2 DEF decode_dentry, ZeroInode
      <3> QED BY <1>4, <3>1, <3>3 DEF Items
    <2>2. CASE xpc' = "idle"
      <3>1. \E e : e # "OK" /\ Return(e)
        BY <1>1, <1>4, <2>2 DEF Dentry
      <3> QED BY <3>1, ReturnedMatch
    <2>3. CASE xpc' # "idle"
      <3>1. Named(disk, Head(items).ino, Head(items).ftype)
        BY <1>1, <1>2, <2>1, EntryNext DEF DirWork, DirLists
      <3>2. Content'
        BY <1>2, <2>1, <2>3, <3>1, EntryContent
      <3>3. ListsInv' /\ DirWork'
        BY <1>2, <2>1, <2>3, EntryRead
      <3>4. xpc' = "dentry"
        BY <1>1, <2>1, <2>3, EntryClaimed
      <3> QED BY <3>2, <3>3, <3>4 DEF MatchInv
    <2> QED BY <2>2, <2>3
  <1> QED BY <1>3, <1>4
-----------------------------------------------------------------------------
\* The entries of a short form directory are claimed at once.
LocalTaken(es, n) ==
  /\ Descend(self) /\ UNCHANGED <<self, ptrs, recs, nleft, blks, items, xerr>>
  /\ inodes'.free = inodes.free + n /\ inodes'.free <= PoolMax
  /\ imem'[self].ino = imem[self].ino /\ imem'[self].parent = imem[self].parent
  /\ imem'[self].ftype = "dir" /\ imem'[self].idx = inodes.free /\ imem'[self].count = n
  /\ \A c \in Cells \ {self} : c < inodes.free => imem'[c] = imem[c]
  /\ \A c \in Cells : c >= inodes.free => imem'[c].count = 0
  /\ \A k \in 1 .. n : /\ imem'[inodes.free + k - 1].ino = ShortFormIno(Dinode(self), k)
                       /\ imem'[inodes.free + k - 1].ftype = es[k].ftype

\* What process_dinode_dir_local() has stored when it has claimed all entries.
LEMMA LocalClaimed ==
  ASSUME ~BeyondMapped, RetrieveInv, IndexInv, DirLocal, xpc' # "idle",
         NEW es \in Seq(Ents), es = Dinode(self).ents, NEW n \in Nat, n = Len(es)
  PROVE  LocalTaken(es, n)
  <1>1. xpc = "ino"
    BY DEF DirLocal, Form
  <1>2. /\ MemInv /\ FreshInv /\ self \in Cells /\ self \in Nat /\ self < inodes.free
        /\ inodes.free \in Nat /\ imem \in [Cells -> Inodes] /\ imem[self] \in Inodes
    BY <1>1, AtWork
  <1> DEFINE d == Dinode(self)
             l == Len(d.ents)
  <1>3. PICK ok \in BOOLEAN :
          LET r == xal_pool_claim_inodes(inodes, l, ok)
              m == [Zeroed(imem, inodes, l, ok, ZeroInode) EXCEPT
                      ![self].ftype = "dir", ![self].count = l]
          IN /\ mprotect(inodes, inodes.allocated + inodes.growby, ok)
             /\ inodes' = r.pool
             /\ IF r.err = "OK"
                  THEN /\ imem' = [c \in Cells |->
                            IF c \in inodes.free .. inodes.free + l - 1
                              THEN LET k == c - inodes.free + 1 IN
                                   [m[c] EXCEPT !.ino = ShortFormIno(d, k),
                                                !.ftype = d.ents[k].ftype]
                              ELSE IF c = self THEN [m[c] EXCEPT !.idx = inodes.free]
                              ELSE m[c]]
                       /\ Descend(self)
                       /\ UNCHANGED <<self, workVars, xerr>>
                  ELSE /\ imem' = m
                       /\ Return(r.err)
    BY DEF DirLocal
  <1>30. l = n /\ d.ents = es
    OBVIOUS
  <1> HIDE DEF d, l
  <1>4. PICK r : r = xal_pool_claim_inodes(inodes, n, ok)
    OBVIOUS
  <1>5. PICK z : z = Zeroed(imem, inodes, n, ok, ZeroInode)
    OBVIOUS
  <1>6. /\ PoolIn(r.pool) /\ r.err \in PoolErrors /\ inodes.free <= r.pool.free
        /\ r.pool.free = IF r.err = "OK" THEN inodes.free + n ELSE inodes.free
        /\ z \in [Cells -> Inodes]
        /\ \A c \in Cells : c < inodes.free => z[c] = imem[c]
        /\ \A c \in Cells : c >= inodes.free => z[c].count = 0
    <2>1. mprotect(inodes, inodes.allocated + inodes.growby, ok)
      BY <1>3
    <2>2. MemInv /\ FreshInv
      BY <1>2
    <2> QED BY <1>4, <1>5, <2>1, <2>2, InodesClaimed
  <1>7. PICK dir : dir = [imem[self] EXCEPT !.ftype = "dir", !.count = n]
    OBVIOUS
  <1>8. /\ dir \in Inodes /\ dir.ftype = "dir" /\ dir.count = n /\ dir.ino = imem[self].ino
        /\ dir.parent = imem[self].parent
    BY <1>2, <1>7 DEF Inodes, Ftypes
  <1>9. PICK m : m = [z EXCEPT ![self].ftype = "dir", ![self].count = n]
    OBVIOUS
  <1>10. m = [z EXCEPT ![self] = dir]
    BY <1>2, <1>6, <1>7, <1>9
  <1>11. /\ m \in [Cells -> Inodes] /\ m[self] = dir /\ \A c \in Cells \ {self} : m[c] = z[c]
         /\ \A c \in Cells : c >= inodes.free => c # self
    BY <1>2, <1>6, <1>8, <1>10, CellsAre
  <1>12. r.err = "OK"
    BY <1>3, <1>30, <1>4 DEF Return
  <1>13. /\ imem' = [c \in Cells |->
               IF c \in inodes.free .. inodes.free + n - 1
                 THEN LET k == c - inodes.free + 1 IN
                      [m[c] EXCEPT !.ino = ShortFormIno(d, k), !.ftype = es[k].ftype]
                 ELSE IF c = self THEN [m[c] EXCEPT !.idx = inodes.free]
                 ELSE m[c]]
         /\ Descend(self) /\ UNCHANGED <<self, ptrs, recs, nleft, blks, items, xerr>>
         /\ inodes' = r.pool
    BY <1>3, <1>30, <1>4, <1>5, <1>9, <1>12 DEF workVars
  <1>14. inodes'.free = inodes.free + n /\ inodes'.free <= PoolMax
    BY <1>6, <1>12, <1>13, InReserve
  <1>15. /\ imem'[self].ino = imem[self].ino /\ imem'[self].parent = imem[self].parent
         /\ imem'[self].ftype = "dir" /\ imem'[self].idx = inodes.free /\ imem'[self].count = n
    <2>1. self \notin inodes.free .. inodes.free + n - 1
      BY <1>2
    <2>2. imem'[self] = [dir EXCEPT !.idx = inodes.free]
      BY <1>2, <1>11, <1>13, <2>1
    <2> QED BY <1>8, <2>2 DEF Inodes
  <1>16. ASSUME NEW c \in Cells \ {self}, c < inodes.free PROVE imem'[c] = imem[c]
    <2>1. c \notin inodes.free .. inodes.free + n - 1
      BY <1>2, <1>16, CellsAre
    <2> QED BY <1>6, <1>11, <1>13, <1>16, <2>1
  <1>17. ASSUME NEW k \in 1 .. n
         PROVE  /\ imem'[inodes.free + k - 1].ino = ShortFormIno(d, k)
                /\ imem'[inodes.free + k - 1].ftype = es[k].ftype
                /\ imem'[inodes.free + k - 1].count = 0
    <2>1. PICK c \in Nat : c = inodes.free + k - 1
      BY <1>2
    <2>2. c \in inodes.free .. inodes.free + n - 1 /\ c - inodes.free + 1 = k /\ c < PoolMax
      BY <1>2, <1>14, <2>1, CellsAre
    <2>3. c \in Cells /\ c >= inodes.free /\ c # self
      BY <1>2, <2>2, CellsAre
    <2>4. imem'[c] = [m[c] EXCEPT !.ino = ShortFormIno(d, k), !.ftype = es[k].ftype]
      BY <1>13, <2>2, <2>3
    <2>5. PICK x \in Inodes : x = m[c] /\ x.count = 0
      BY <1>6, <1>11, <2>3
    <2>6. PICK y : y = [x EXCEPT !.ino = ShortFormIno(d, k), !.ftype = es[k].ftype]
      OBVIOUS
    <2>7. y.ino = ShortFormIno(d, k) /\ y.ftype = es[k].ftype /\ y.count = x.count
      BY <2>6 DEF Inodes
    <2> QED BY <2>1, <2>4, <2>5, <2>6, <2>7
  <1>18. ASSUME NEW c \in Cells, c >= inodes.free PROVE imem'[c].count = 0
    <2>1. CASE c \in inodes.free .. inodes.free + n - 1
      <3>1. PICK k \in 1 .. n : c = inodes.free + k - 1
        <4>1. c - inodes.free + 1 \in 1 .. n /\ c = inodes.free + (c - inodes.free + 1) - 1
          BY <1>2, <2>1, CellsAre
        <4> QED BY <4>1
      <3> QED BY <1>17, <3>1
    <2>2. CASE c \notin inodes.free .. inodes.free + n - 1
      <3>1. c # self
        BY <1>11, <1>18
      <3> QED BY <1>6, <1>11, <1>13, <1>18, <2>2, <3>1
    <2> QED BY <2>1, <2>2
  <1> QED BY <1>13, <1>14, <1>15, <1>16, <1>17, <1>18 DEF d, LocalTaken

\* The invariant through a directory in short form.
LEMMA LocalMatch ==
  ASSUME ~BeyondMapped, ValidConsistent, RetrieveInv, IndexInv, IndexInv', disk.valid, MatchInv,
         calls' = calls, DirLocal
  PROVE  MatchInv'
  <1>1. /\ xpc = "ino" /\ Known(imem[self].ino) /\ Dinode(self).fmt = "local" /\ Ftype(self) = "dir"
        /\ UNCHANGED <<disk, dmap, dinodes, rootIdx, extents, emem>>
    BY DEF DirLocal, Form, retrieveVars, memVars
  <1>2. CASE xpc' = "idle"
    <2>1. \E e : e # "OK" /\ Return(e)
      BY <1>2 DEF DirLocal, Descend
    <2> QED BY <2>1, ReturnedMatch
  <1>3. CASE xpc' # "idle"
    <2>1. Content /\ ListsInv
      BY <1>1 DEF MatchInv
    <2>2. /\ MemInv /\ ArrayInv /\ StackInv /\ SelfInv /\ MemInv' /\ self \in Cells /\ self \in Nat
          /\ self \in Claimed /\ inodes.free \in Nat /\ self < inodes.free /\ extents.free \in Nat
      BY <1>1, AtWork DEF IndexInv, SelfInv
    <2>3. NamedAt(self)
      BY <2>1, <2>2 DEF Content
    <2>4. /\ disk \in Images /\ Consistent(disk) /\ imem[self].ino \in DOMAIN disk.listing
          /\ Dinode(self) = disk.dinode[imem[self].ino]
      BY <1>1, <2>3, DiskFacts, Formed
    <2>5. PICK es \in Seq(Ents) : es = Dinode(self).ents
      BY <1>1, <2>4, LocalForm
    <2>6. PICK n \in Nat : n = Len(es)
      OBVIOUS
    <2>7. PICK list \in Seq(Nat) : list = List(self) /\ Len(list) = n
      BY <1>1, <2>4, <2>5, <2>6, LocalForm DEF List
    <2>8. \A k \in 1 .. n : ShortFormIno(Dinode(self), k) = list[k] /\ Named(disk, list[k], es[k].ftype)
      <3>1. PICK i \in DOMAIN disk.listing : i = imem[self].ino
        BY <2>4
      <3>2. disk.dinode[i].fmt = "local" /\ disk.dinode[i].ents = es /\ disk.listing[i] = list
        BY <1>1, <2>4, <2>5, <2>7, <3>1 DEF List
      <3>3. \A k \in 1 .. Len(disk.dinode[i].ents) :
              /\ ShortFormIno(disk.dinode[i], k) = disk.listing[i][k]
              /\ disk.dinode[i].ents[k] \in Ents
              /\ Named(disk, disk.listing[i][k], disk.dinode[i].ents[k].ftype)
        BY <2>4, <3>2, LocalForm
      <3> QED BY <2>4, <2>6, <3>1, <3>2, <3>3
    <2>9. /\ Descend(self) /\ UNCHANGED <<self, ptrs, recs, nleft, blks, items, xerr>>
          /\ inodes'.free = inodes.free + n /\ inodes'.free <= PoolMax
          /\ imem'[self].ino = imem[self].ino /\ imem'[self].parent = imem[self].parent
          /\ imem'[self].ftype = "dir" /\ imem'[self].idx = inodes.free /\ imem'[self].count = n
          /\ \A c \in Cells \ {self} : c < inodes.free => imem'[c] = imem[c]
          /\ \A c \in Cells : c >= inodes.free => imem'[c].count = 0
          /\ \A k \in 1 .. n : /\ imem'[inodes.free + k - 1].ino = ShortFormIno(Dinode(self), k)
                               /\ imem'[inodes.free + k - 1].ftype = es[k].ftype
      <3>1. LocalTaken(es, n)
        BY <1>3, <2>5, <2>6, LocalClaimed
      <3> QED BY <3>1 DEF LocalTaken
    <2>10. xpc' = "child"
      BY <2>9 DEF Descend
    <2>11. OnlySelf
      BY <1>1, <2>2, <2>9 DEF OnlySelf
    <2>12. Kept
      BY <1>1, <2>9 DEF Kept
    <2>13. Grown
      BY <2>2, <2>9, NewFrame
    <2>14. NewWait
      <3> SUFFICES ASSUME NEW c \in Claimed', c >= inodes.free PROVE NamedAt(c)' /\ Waiting(c)'
        BY DEF NewWait
      <3>1. c \in Nat /\ c <= inodes.free + n - 1
        BY <1>1, <2>2, <2>9 DEF Claimed, ArrayInv
      <3>2. PICK k \in 1 .. n : c = inodes.free + k - 1
        <4>1. c - inodes.free + 1 \in 1 .. n /\ c = inodes.free + (c - inodes.free + 1) - 1
          BY <2>2, <3>1
        <4> QED BY <4>1
      <3>3. NamedAt(c)'
        BY <1>1, <2>8, <2>9, <3>2 DEF NamedAt
      <3>4. c \in imem'[self].idx .. imem'[self].idx + imem'[self].count - 1
        BY <2>2, <2>9, <3>1
      <3>5. InStack(c)'
        BY <2>2, <2>9, <3>4, OnTop
      <3> QED BY <3>3, <3>5 DEF Waiting
    <2>15. NamedAt(self)'
      BY <1>1, <2>4, <2>9 DEF NamedAt, Named
    <2>16. Complete(self)'
      <3>1. List(self)' = list
        BY <1>1, <2>7, <2>9 DEF List
      <3>2. DirRead(self)'
        BY <2>7, <2>8, <2>9, <3>1 DEF DirRead, HasInos
      <3> QED BY <1>1, <2>4, <2>9, <3>2 DEF Complete
    <2>17. Parented(self)'
      <3>1. PICK i \in 1 .. Len(stack') :
              /\ stack'[i].dir = self
              /\ Rest(stack[i])' = imem'[self].idx .. imem'[self].idx + imem'[self].count - 1
        BY <2>2, <2>9, NewFrame
      <3>2. Dinode(self)' = Dinode(self)
        BY <1>1, <2>9 DEF Dinode
      <3>3. ASSUME NEW k \in Array(self)' PROVE Later(self, k)'
        BY <1>1, <2>9, <3>1, <3>2, <3>3 DEF Later, Array
      <3> QED BY <3>3 DEF Parented
    <2>18. SelfGood
      BY <2>15, <2>16, <2>17 DEF SelfGood
    <2>19. ~Filling
      BY <1>1 DEF Filling
    <2>20. Content'
      BY <2>1, <2>2, <2>9, <2>11, <2>12, <2>13, <2>14, <2>18, <2>19, ContentStep
    <2> QED BY <1>1, <2>1, <2>9, <2>10, <2>20 DEF MatchInv, ListsInv, Filling
  <1> QED BY <1>2, <1>3
-----------------------------------------------------------------------------
\* The extents of a file are claimed and decoded, the whole list or a leaf.
LEMMA ExtentsClaimed ==
  ASSUME ~BeyondMapped, IndexInv, xpc \notin {"idle", "child"},
         NEW records \in Seq(Words), NEW n \in Nat, n = Len(records),
         NEW inode, NEW pc, NEW rest, StoreExtents(records, inode, pc, rest), xpc' # "idle"
  PROVE  /\ imem' = [imem EXCEPT ![self] = inode] /\ xpc' = pc /\ ptrs' = rest
         /\ UNCHANGED <<self, stack, recs, blks, items>>
         /\ extents'.free = extents.free + n /\ extents'.free <= PoolMax /\ extents.free <= extents'.free
         /\ \A c \in Cells : c < extents.free => emem'[c] = emem[c]
         /\ \A k \in 1 .. n : emem'[extents.free + k - 1] = decode_xfs_extent(records[k].l0, records[k].l1)
  <1>1. /\ MemInv /\ extents.free \in Nat /\ PoolIn(extents) /\ emem \in [Cells -> Extents]
    BY AtWork DEF MemInv
  <1>2. PICK ok \in BOOLEAN :
    LET r == xal_pool_claim_extents(extents, n, ok)
        m == Zeroed(emem, extents, n, ok, ZeroExtent)
        first == extents.free
    IN /\ mprotect(extents, extents.allocated + extents.growby, ok)
       /\ extents' = r.pool
       /\ IF r.err = "OK"
            THEN /\ emem' = [c \in Cells |->
                      IF c \in first .. first + n - 1
                        THEN LET rec == records[c - first + 1] IN
                             decode_xfs_extent(rec.l0, rec.l1)
                        ELSE m[c]]
                 /\ imem' = [imem EXCEPT ![self] = inode]
                 /\ xpc' = pc /\ ptrs' = rest
                 /\ UNCHANGED <<self, stack, recs, nleft, blks, items, xerr>>
            ELSE /\ emem' = m
                 /\ imem' = [imem EXCEPT ![self].ftype = "reg"]
                 /\ Return(r.err)
    BY DEF StoreExtents
  <1>3. PICK r : r = xal_pool_claim_extents(extents, n, ok)
    OBVIOUS
  <1>4. PICK m : m = Zeroed(emem, extents, n, ok, ZeroExtent)
    OBVIOUS
  <1>5. r.err = "OK"
    BY <1>2, <1>3 DEF Return
  <1>6. /\ PoolIn(r.pool) /\ extents.free <= r.pool.free /\ r.pool.free = extents.free + n
    <2>1. mprotect(extents, extents.allocated + extents.growby, ok)
      BY <1>2
    <2>2. ClaimOutcome(extents, n, ok, r.err, r.pool)
      BY <1>1, <1>3, ClaimExtentsOutcome DEF PoolIn
    <2> QED BY <1>1, <1>5, <2>1, <2>2, PoolClaimed
  <1>7. m \in [Cells -> Extents] /\ ZeroedFrom(m, emem, extents.free, ZeroExtent)
    BY <1>1, <1>4, Zeroes, ZeroedMemory
  <1>8. /\ extents' = r.pool
        /\ emem' = [c \in Cells |->
             IF c \in extents.free .. extents.free + n - 1
               THEN decode_xfs_extent(records[c - extents.free + 1].l0, records[c - extents.free + 1].l1)
               ELSE m[c]]
        /\ imem' = [imem EXCEPT ![self] = inode]
        /\ xpc' = pc /\ ptrs' = rest /\ UNCHANGED <<self, stack, recs, blks, items>>
    BY <1>2, <1>3, <1>4, <1>5
  <1>9. extents'.free = extents.free + n /\ extents'.free <= PoolMax /\ extents.free <= extents'.free
    BY <1>6, <1>8, InReserve
  <1>10. ASSUME NEW c \in Cells, c < extents.free PROVE emem'[c] = emem[c]
    <2>1. c \notin extents.free .. extents.free + n - 1 /\ c \in Nat
      BY <1>1, <1>10, CellsAre
    <2>2. m[c] = emem[c]
      BY <1>1, <1>7, <1>10, <2>1 DEF ZeroedFrom
    <2> QED BY <1>8, <1>10, <2>1, <2>2
  <1>11. ASSUME NEW k \in 1 .. n
         PROVE  emem'[extents.free + k - 1] = decode_xfs_extent(records[k].l0, records[k].l1)
    <2>1. PICK c \in Nat : c = extents.free + k - 1
      BY <1>1
    <2>2. c \in extents.free .. extents.free + n - 1 /\ c - extents.free + 1 = k /\ c < PoolMax
      BY <1>1, <1>9, <2>1, CellsAre
    <2>3. c \in Cells
      BY <2>2, CellsAre
    <2> QED BY <1>8, <2>1, <2>2, <2>3
  <1> QED BY <1>8, <1>9, <1>10, <1>11

\* Extents that could not be stored end the call.
LEMMA StoreFails ==
  ASSUME NEW records, NEW inode, NEW pc, pc # "idle", NEW rest, StoreExtents(records, inode, pc, rest), xpc' = "idle"
  PROVE  MatchInv'
  <1>1. \E e : e # "OK" /\ Return(e)
    BY DEF StoreExtents
  <1> QED BY <1>1, ReturnedMatch

\* The tree so far as extents of a file are stored.
LEMMA StoredContent ==
  ASSUME IndexInv, IndexInv', Content, xpc \in {"ino", "node"}, UNCHANGED <<retrieveVars, inodes, rootIdx, self, stack>>,
         NEW inode \in Inodes, imem' = [imem EXCEPT ![self] = inode],
         inode.ftype = "reg", inode.ino = imem[self].ino, inode.parent = imem[self].parent,
         extents.free <= extents'.free, \A c \in Cells : c < extents.free => emem'[c] = emem[c],
         imem[self].ino \in DOMAIN disk.mapping, Waiting(self)' \/ Complete(self)'
  PROVE  Content'
  <1>1. /\ MemInv /\ ArrayInv /\ StackInv /\ SelfInv /\ self \in Claimed /\ MemInv' /\ self \in Cells
        /\ imem \in [Cells -> Inodes] /\ inodes.free \in Nat /\ self < inodes.free
    BY AtWork DEF IndexInv, SelfInv
  <1>2. OnlySelf /\ imem'[self] = inode
    BY SelfWritten
  <1>3. UNCHANGED <<disk, dmap, dinodes>>
    BY DEF retrieveVars, memVars
  <1>4. Kept
    BY <1>1, <1>2, <1>3 DEF Kept
  <1>5. Grown
    BY DEF Grown
  <1>6. NewWait
    <2>1. Claimed' = Claimed
      BY DEF Claimed
    <2>2. \A c \in Claimed : c < inodes.free /\ c \in Nat
      BY <1>1, ClaimedCells DEF ArrayInv
    <2> QED BY <1>1, <2>1, <2>2 DEF NewWait
  <1>7. NamedAt(self)'
    BY <1>2, <1>3 DEF NamedAt, Named
  <1>8. SelfGood
    BY <1>2, <1>7 DEF SelfGood
  <1>9. ~Filling
    BY DEF Filling
  <1> QED BY <1>1, <1>2, <1>4, <1>5, <1>6, <1>8, <1>9, ContentStep

\* The invariant through a file in extent form.
LEMMA FileExtentsMatch ==
  ASSUME ~BeyondMapped, ValidConsistent, RetrieveInv, IndexInv, IndexInv', disk.valid, MatchInv,
         calls' = calls, FileExtents
  PROVE  MatchInv'
  <1>1. /\ xpc = "ino" /\ Known(imem[self].ino) /\ Dinode(self).fmt = "extents" /\ Ftype(self) = "reg"
        /\ UNCHANGED <<retrieveVars, inodes, rootIdx>>
    BY DEF FileExtents, Form
  <1> DEFINE records == Dinode(self).recs
             inode == [imem[self] EXCEPT !.ftype = "reg", !.idx = extents.free, !.count = Len(records)]
  <1>2. StoreExtents(records, inode, "child", <<>>)
    BY DEF FileExtents
  <1>3. CASE xpc' = "idle"
    BY <1>2, <1>3, StoreFails
  <1>4. CASE xpc' # "idle"
    <2>1. Content /\ ListsInv /\ self \in Claimed
      BY <1>1, AtWork DEF MatchInv, SelfInv
    <2>2. NamedAt(self)
      BY <2>1 DEF Content
    <2>3. /\ disk \in Images /\ Consistent(disk) /\ imem[self].ino \in DOMAIN disk.mapping
          /\ imem[self].ino \notin DOMAIN disk.listing /\ Dinode(self) = disk.dinode[imem[self].ino]
      BY <1>1, <2>2, DiskFacts, Formed
    <2>4. /\ imem[self] \in Inodes /\ extents.free \in Nat /\ self \in Cells /\ imem \in [Cells -> Inodes]
      BY <1>1, AtWork
    <2>5. PICK rs \in Seq(Words) : rs = records /\ rs = Records(Map(self)) /\ Len(rs) = Len(Map(self))
      BY <1>1, <2>3, FileForms DEF Map
    <2> HIDE DEF records
    <2>6. PICK n \in Nat : n = Len(rs)
      OBVIOUS
    <2>7. \A k \in 1 .. n : SameExtent(decode_xfs_extent(rs[k].l0, rs[k].l1), Map(self)[k])
      <3>1. PICK i \in DOMAIN disk.mapping : i = imem[self].ino
        BY <2>3
      <3>2. disk.mapping[i] = Map(self)
        BY <3>1 DEF Map
      <3>3. \A k \in 1 .. Len(disk.mapping[i]) :
              SameExtent(decode_xfs_extent(Records(disk.mapping[i])[k].l0, Records(disk.mapping[i])[k].l1),
                         disk.mapping[i][k])
        BY <2>3, FileForms
      <3> QED BY <2>5, <2>6, <3>2, <3>3
    <2>8. /\ inode \in Inodes /\ inode.ftype = "reg" /\ inode.idx = extents.free /\ inode.count = n
          /\ inode.ino = imem[self].ino /\ inode.parent = imem[self].parent
      BY <2>4, <2>5, <2>6 DEF Inodes, Ftypes
    <2> HIDE DEF inode
    <2>9. StoreExtents(rs, inode, "child", <<>>)
      BY <1>2, <2>5
    <2>10. /\ imem' = [imem EXCEPT ![self] = inode] /\ xpc' = "child" /\ ptrs' = <<>>
           /\ UNCHANGED <<self, stack, recs, blks, items>>
           /\ extents.free <= extents'.free
           /\ \A c \in Cells : c < extents.free => emem'[c] = emem[c]
           /\ \A k \in 1 .. n : emem'[extents.free + k - 1] = decode_xfs_extent(rs[k].l0, rs[k].l1)
      BY <1>1, <1>4, <2>6, <2>9, ExtentsClaimed
    <2>11. imem'[self] = inode /\ disk' = disk
      BY <1>1, <2>4, <2>10 DEF retrieveVars
    <2>12. Map(self)' = Map(self)
      BY <2>8, <2>10, <2>11 DEF Map
    <2>13. FileRead(self)'
      <3>1. imem'[self].ftype = "reg" /\ imem'[self].count = n /\ imem'[self].idx = extents.free /\ n = Len(Map(self))
        BY <2>5, <2>6, <2>8, <2>11
      <3>2. \A k \in 1 .. n : SameExtent(emem'[extents.free + k - 1], Map(self)[k])
        BY <2>7, <2>10
      <3> QED BY <2>10, <2>12, <3>1, <3>2 DEF FileRead, HasExtents
    <2>14. Complete(self)'
      BY <2>3, <2>8, <2>10, <2>11, <2>13 DEF Complete
    <2>15. Content'
      BY <1>1, <2>1, <2>3, <2>8, <2>10, <2>14, StoredContent
    <2> QED BY <1>1, <2>1, <2>10, <2>15 DEF MatchInv, ListsInv, Filling
  <1> QED BY <1>3, <1>4

\* The invariant through a leaf of a file's B+tree.
LEMMA FileLeafMatch ==
  ASSUME ~BeyondMapped, ValidConsistent, RetrieveInv, IndexInv, IndexInv', disk.valid, MatchInv,
         calls' = calls, FileLeaf
  PROVE  MatchInv'
  <1>1. xpc = "node" /\ ptrs # <<>> /\ Head(ptrs).leaf /\ UNCHANGED <<retrieveVars, inodes, rootIdx>>
    BY DEF FileLeaf
  <1>2. Content /\ FileWork /\ ListsInv
    BY <1>1 DEF MatchInv
  <1>3. disk \in Images /\ Consistent(disk) /\ DOMAIN disk.dev \subseteq Nat /\ ptrs \in Seq(NodePtrs(disk))
    BY <1>2, DiskFacts DEF FileWork
  <1>4. PICK p \in NodePtrs(disk) : p = Head(ptrs)
    BY <1>1, <1>3, TailAt
  <1>5. PICK rest \in Seq(NodePtrs(disk)) : rest = Tail(ptrs)
    BY <1>1, <1>3, TailAt
  <1>6. PICK block : block = BlockAt(disk, p.bno)
    OBVIOUS
  <1>7. /\ OnDevice(disk, p.bno) /\ block.magic = "BMA3" /\ block.level = 0
        /\ BelowPtr(disk, p) = block.recs /\ BelowPtr(disk, p) \in Seq(Words)
    BY <1>1, <1>3, <1>4, <1>6, PtrAre
  <1>8. disk.dev[xal_fsbno_offset(p.bno)] = block
    BY <1>3, <1>6, <1>7, BlockFound DEF BlockAt
  <1>9. PICK a \in Seq(Words) : a = block.recs
    BY <1>7
  <1>10. PICK inode : inode = [imem[self] EXCEPT !.count = @ + Len(a)]
    OBVIOUS
  <1>11. \/ \E e \in {"EIO", "EINVAL"} : Return(e)
         \/ StoreExtents(a, inode, "node", rest)
    BY <1>4, <1>5, <1>8, <1>9, <1>10 DEF FileLeaf
  <1>12. CASE \E e \in {"EIO", "EINVAL"} : Return(e)
    BY <1>12, ReturnedMatch
  <1>13. CASE StoreExtents(a, inode, "node", rest) /\ xpc' = "idle"
    BY <1>13, StoreFails
  <1>14. CASE StoreExtents(a, inode, "node", rest) /\ xpc' # "idle"
    <2>1. /\ imem[self] \in Inodes /\ extents.free \in Nat /\ imem[self].idx \in Nat /\ self \in Cells
          /\ imem[self].count \in Nat /\ imem \in [Cells -> Inodes] /\ imem[self].ftype = "reg"
          /\ imem[self].idx + imem[self].count = extents.free
      BY <1>1, AtWork DEF FillInv, End
    <2>2. PICK n, i, m \in Nat : n = imem[self].count /\ i = imem[self].idx /\ m = Len(a)
      BY <2>1
    <2>3. /\ inode \in Inodes /\ inode.ftype = "reg" /\ inode.idx = i /\ inode.count = n + m
          /\ inode.ino = imem[self].ino /\ inode.parent = imem[self].parent
      <3>1. PICK x \in Inodes : x = imem[self]
        BY <2>1
      <3>2. inode = [x EXCEPT !.count = n + m]
        BY <1>10, <2>2, <3>1
      <3>3. n + m \in Nat
        OBVIOUS
      <3> QED BY <2>1, <2>2, <3>1, <3>2, <3>3 DEF Inodes
    <2>4. /\ imem' = [imem EXCEPT ![self] = inode] /\ xpc' = "node" /\ ptrs' = rest
          /\ UNCHANGED <<self, stack, recs, blks, items>>
          /\ extents'.free = extents.free + m /\ extents'.free <= PoolMax /\ extents.free <= extents'.free
          /\ \A c \in Cells : c < extents.free => emem'[c] = emem[c]
          /\ \A k \in 1 .. m : emem'[extents.free + k - 1] = decode_xfs_extent(a[k].l0, a[k].l1)
      BY <1>1, <1>14, <2>2, ExtentsClaimed
    <2>5. imem'[self] = inode /\ disk' = disk /\ dmap' = dmap
      BY <1>1, <2>1, <2>4 DEF retrieveVars, memVars
    <2>6. Map(self)' = Map(self) /\ Known(imem[self].ino)' /\ imem'[self'].ino \in DOMAIN disk'.mapping
      BY <1>2, <2>3, <2>4, <2>5 DEF Map, Known, FileWork
    <2>7. PICK rs \in Seq(Words) :
            /\ rs = Records(Map(self)) /\ Len(rs) = Len(Map(self)) /\ n <= Len(rs)
            /\ \A k \in 1 .. Len(rs) : SameExtent(decode_xfs_extent(rs[k].l0, rs[k].l1), Map(self)[k])
      <3>1. PICK j \in DOMAIN disk.mapping : j = imem[self].ino
        BY <1>2 DEF FileWork
      <3>2. disk.mapping[j] = Map(self)
        BY <3>1 DEF Map
      <3>3. Records(disk.mapping[j]) \in Seq(Words) /\ Len(Records(disk.mapping[j])) = Len(disk.mapping[j])
        BY <1>3, FileForms
      <3>4. \A k \in 1 .. Len(disk.mapping[j]) :
              SameExtent(decode_xfs_extent(Records(disk.mapping[j])[k].l0, Records(disk.mapping[j])[k].l1),
                         disk.mapping[j][k])
        BY <1>3, FileForms
      <3>5. n <= Len(Map(self))
        BY <1>2, <2>2 DEF FileWork, HasExtents
      <3> QED BY <3>2, <3>3, <3>4, <3>5
    <2>8. PICK b \in Seq(Words) : b = PtrsRecs(disk, rest) /\ a \o b = Left(rs, n)
      <3>1. PtrsRecs(disk, rest) \in Seq(Words)
        BY <1>3, PtrLists
      <3>2. PtrsRecs(disk, ptrs) = BelowPtr(disk, p) \o PtrsRecs(disk, rest)
        BY <1>1, <1>3, <1>4, <1>5, PtrLists
      <3>3. PtrsRecs(disk, ptrs) = Left(rs, n)
        BY <1>2, <2>2, <2>7 DEF FileWork
      <3> QED BY <1>7, <1>9, <3>1, <3>2, <3>3, Zenon
    <2>9. Splits(rs, n, a, b)
      <3>1. n <= Len(rs)
        BY <2>7
      <3>2. a \o b = Left(rs, n)
        BY <2>8
      <3> QED BY <3>1, <3>2, LeftSplit
    <2>10. n + m <= Len(rs) /\ (\A k \in 1 .. m : rs[n + k] = a[k]) /\ b = Left(rs, n + m)
      BY <2>2, <2>9, Zenon DEF Splits
    <2>11. ASSUME NEW k \in 1 .. n + m PROVE SameExtent(emem'[i + k - 1], Map(self)[k])
      <3>1. CASE k <= n
        <4>1. PICK e \in Nat : e = i + k - 1 /\ e < extents.free
          <5>1. k \in Nat /\ 1 <= k /\ i + n = extents.free
            BY <2>1, <2>2, <2>11
          <5>2. i + k - 1 \in Nat /\ i + k - 1 < extents.free
            BY <2>1, <3>1, <5>1
          <5> QED BY <5>2
        <4>2. e \in Cells
          BY <2>1, <2>2, <2>4, <4>1, CellsAre
        <4>3. k \in 1 .. n
          BY <2>11, <3>1
        <4>4. SameExtent(emem[e], Map(self)[k])
          BY <1>2, <2>2, <4>1, <4>3 DEF FileWork, HasExtents
        <4> QED BY <2>4, <4>1, <4>2, <4>4
      <3>2. CASE k > n
        <4>1. PICK j \in 1 .. m : k = n + j /\ j = k - n
          <5>1. k - n \in 1 .. m /\ k = n + (k - n)
            BY <2>11, <3>2
          <5> QED BY <5>1
        <4>2. i + k - 1 = extents.free + j - 1
          <5>1. PICK f \in Nat : f = extents.free /\ i + n = f
            BY <2>1, <2>2
          <5>2. i + k - 1 = f + j - 1
            BY ONLY i \in Nat, n \in Nat, m \in Nat, j \in 1 .. m, k \in 1 .. n + m, <4>1, <5>1
          <5> QED BY <5>1, <5>2
        <4>3. emem'[i + k - 1] = decode_xfs_extent(a[j].l0, a[j].l1)
          BY <2>4, <4>2
        <4>4. rs[k] = a[j] /\ k \in 1 .. Len(rs)
          BY <2>10, <2>11, <4>1
        <4>5. SameExtent(decode_xfs_extent(rs[k].l0, rs[k].l1), Map(self)[k])
          BY <2>7, <4>4
        <4> QED BY <4>3, <4>4, <4>5
      <3>3. k \in Nat
        BY <2>11
      <3> QED BY <3>1, <3>2, <3>3
    <2>12. HasExtents(self, imem[self].count)'
      <3>1. imem'[self].count = n + m /\ imem'[self].idx = i /\ self' = self /\ n + m <= Len(Map(self))
        BY <2>3, <2>4, <2>5, <2>7, <2>10
      <3> QED BY <2>6, <2>11, <3>1 DEF HasExtents
    <2>13. Left(Records(Map(self)), imem[self].count)' = Left(rs, n + m)
      BY <2>3, <2>4, <2>5, <2>6, <2>7 DEF Left, Records
    <2>14. FileWork'
      BY <1>5, <2>4, <2>5, <2>6, <2>8, <2>10, <2>12, <2>13 DEF FileWork
    <2>15. Waiting(self)'
      BY <2>4 DEF Waiting
    <2>16. Content'
      BY <1>1, <1>2, <2>3, <2>4, <2>15, StoredContent DEF FileWork
    <2> QED BY <1>1, <1>2, <2>4, <2>14, <2>16 DEF MatchInv, ListsInv, Filling
  <1> QED BY <1>11, <1>12, <1>13, <1>14
-----------------------------------------------------------------------------
\* A form that is not supported ends the call.
LEMMA UnsupportedMatch ==
  ASSUME Unsupported
  PROVE  MatchInv'
  <1>1. \E e \in {"EINVAL", "ENOSYS"} : Return(e)
    BY DEF Unsupported
  <1> QED BY <1>1, ReturnedMatch
-----------------------------------------------------------------------------
\* A step that writes no more than the parent of an element keeps what is
\* complete.
SameInos == \A c \in Cells : imem'[c].ino = imem[c].ino

\* A step to the next child keeps what is complete.
LEMMA CompleteSame ==
  ASSUME MemInv, ArrayInv, SameShape, SameInos, UNCHANGED <<disk, emem>>, NEW c \in Claimed, Complete(c)
  PROVE  Complete(c)'
  <1>1. /\ c \in Cells /\ imem[c].count \in Nat /\ imem'[c].ino = imem[c].ino
        /\ imem'[c].ftype = imem[c].ftype /\ imem'[c].idx = imem[c].idx /\ imem'[c].count = imem[c].count
    BY ClaimedCells, CellFacts DEF ArrayInv, SameShape, SameInos
  <1>2. CASE imem[c].ino \in DOMAIN disk.listing
    <2>1. imem[c].ftype = "dir" /\ imem[c].count = Len(List(c)) /\ HasInos(c, imem[c].count)
      BY <1>2 DEF Complete, DirRead
    <2>2. List(c)' = List(c)
      BY <1>1 DEF List
    <2>3. ASSUME NEW k \in 1 .. imem[c].count
          PROVE  imem'[imem[c].idx + k - 1].ino = List(c)[k]
      <3>1. k \in Nat /\ 1 <= k /\ k <= imem[c].count
        BY <1>1
      <3>2. PICK e \in Nat : e = imem[c].idx + k - 1 /\ e < inodes.free
        BY <2>1, <3>1, ArrayWithin
      <3>3. e \in Cells
        BY <3>2, CellFacts, CellsAre
      <3>4. imem[imem[c].idx + k - 1].ino = List(c)[k]
        BY <2>1, <2>3 DEF HasInos
      <3> QED BY <3>2, <3>3, <3>4 DEF SameInos
    <2>4. imem[c].count <= Len(List(c))
      BY <2>1 DEF HasInos
    <2> QED BY <1>1, <1>2, <2>1, <2>2, <2>3, <2>4 DEF Complete, DirRead, HasInos
  <1>3. CASE imem[c].ino \notin DOMAIN disk.listing
    <2>1. imem[c].ftype = "reg" /\ imem[c].count = Len(Map(c)) /\ HasExtents(c, imem[c].count)
      BY <1>3 DEF Complete, FileRead
    <2>2. Map(c)' = Map(c)
      BY <1>1 DEF Map
    <2> QED BY <1>1, <1>3, <2>1, <2>2 DEF Complete, FileRead, HasExtents
  <1> QED BY <1>2, <1>3
-----------------------------------------------------------------------------
\* The directory on top of the stack, and its child whose turn it is.
TopFrame == Last(stack)
TopChild == imem[TopFrame.dir].idx + TopFrame.next

\* The next child, and what the step writes.
LEMMA ChildTaken ==
  ASSUME IndexInv, NextChild
  PROVE  /\ TopFrame \in Frames /\ TopFrame.dir \in OfType("dir") /\ TopFrame.dir \in Cells
         /\ TopChild \in Cells /\ TopChild \in Claimed /\ TopChild \in Nat
         /\ imem[TopFrame.dir].idx <= TopChild /\ TopChild < End(TopFrame.dir)
         /\ SameShape /\ SameInos
         /\ \A c \in Cells : c # TopChild => imem'[c] = imem[c]
         /\ Dinode(TopFrame.dir).fmt = "local" => imem'[TopChild].parent = TopFrame.dir
         /\ imem'[TopChild].parent \in {imem[TopChild].parent, TopFrame.dir}
         /\ \A i \in 1 .. Len(stack) :
              /\ i \in 1 .. Len(stack') /\ stack'[i].dir = stack[i].dir
              /\ \A k \in Rest(stack[i]) : k # TopChild => k \in Rest(stack[i])'
  <1> DEFINE top == Last(stack)
             n == Len(stack)
             child == imem[top.dir].idx + top.next
             adv == Advanced(top)
  <1>1. /\ xpc = "child" /\ top.next < imem[top.dir].count
        /\ stack' = Append(Front(stack), adv)
        /\ UNCHANGED <<inodes, extents, emem, rootIdx>>
        /\ imem' = IF Dinode(top.dir).fmt = "local"
                     THEN [imem EXCEPT ![child].parent = top.dir] ELSE imem
    BY DEF NextChild, workVars
  <1>2. /\ MemInv /\ ArrayInv /\ StackInv /\ stack # <<>> /\ stack \in Seq(Frames)
        /\ imem \in [Cells -> Inodes]
    BY <1>1 DEF IndexInv, TreeInv, StackInv, MemInv
  <1>3. n \in Nat /\ n >= 1 /\ top = stack[n]
    BY <1>2 DEF Last
  <1>4. \A i \in 1 .. n : stack[i] \in Frames /\ FrameOK(stack[i])
    BY <1>2 DEF StackInv
  <1>5. top \in Frames /\ FrameOK(top) /\ top.dir \in Cells /\ top.next \in Nat
    BY <1>3, <1>4 DEF Frames
  <1>6. imem[top.dir].idx \in Nat /\ imem[top.dir].count \in Nat
    BY <1>2, <1>5, CellFacts
  <1>7. child \in Rest(top)
    BY <1>1, <1>5, <1>6 DEF Rest, End
  <1>8. /\ adv \in Frames /\ adv.dir = top.dir /\ adv.next = top.next + 1
    BY <1>5 DEF Advanced, Frames
  <1>9. /\ stack' \in Seq(Frames) /\ Len(stack') = n /\ stack'[n] = adv
        /\ \A i \in 1 .. n - 1 : stack'[i] = stack[i]
    <2>1. /\ Front(stack) \in Seq(Frames) /\ Len(Front(stack)) = n - 1
          /\ \A i \in 1 .. n - 1 : Front(stack)[i] = stack[i]
      <3>1. Front(stack) = SubSeq(stack, 1, n - 1)
        BY DEF Front
      <3>2. 1 \in 1 .. Len(stack) + 1 /\ n - 1 \in 1 - 1 .. Len(stack)
        BY <1>3
      <3> HIDE DEF n
      <3> QED BY <1>2, <1>3, <3>1, <3>2, SubSeqProperties
    <2> HIDE DEF adv, n
    <2> QED BY <1>1, <1>3, <1>8, <2>1
  <1> HIDE DEF top, n, adv
  <1>10. /\ top.dir \in OfType("dir") /\ child \in Claimed /\ child \in Cells /\ child \in Nat
         /\ imem[top.dir].idx <= child /\ child < End(top.dir)
    BY <1>2, <1>5, <1>7, RestOf
  <1>11. TopFrame = top /\ TopChild = child
    BY DEF TopFrame, TopChild, top
  <1> HIDE DEF child
  <1>12. /\ SameShape /\ SameInos /\ \A c \in Cells : c # child => imem'[c] = imem[c]
         /\ Dinode(top.dir).fmt = "local" => imem'[child].parent = top.dir
         /\ imem'[child].parent \in {imem[child].parent, top.dir}
    <2>1. CASE imem' = imem /\ Dinode(top.dir).fmt # "local"
      BY <1>1, <1>2, <2>1 DEF SameShape, SameInos
    <2>2. CASE imem' = [imem EXCEPT ![child].parent = top.dir]
      <3>1. PICK new : new = [imem[child] EXCEPT !.parent = top.dir]
        OBVIOUS
      <3>2. imem[child] \in Inodes
        BY <1>2, <1>10
      <3>3. /\ new.ftype = imem[child].ftype /\ new.idx = imem[child].idx
            /\ new.count = imem[child].count /\ new.ino = imem[child].ino /\ new.parent = top.dir
        BY <1>5, <3>1, <3>2 DEF Inodes
      <3>4. imem' = [imem EXCEPT ![child] = new]
        BY <1>2, <1>10, <2>2, <3>1
      <3>5. /\ imem'[child] = new
            /\ \A c \in Cells \ {child} : imem'[c] = imem[c]
        BY <1>2, <1>10, <3>3, <3>4
      <3>6. \A c \in Cells : /\ imem'[c].ftype = imem[c].ftype /\ imem'[c].ino = imem[c].ino
                             /\ imem'[c].idx = imem[c].idx /\ imem'[c].count = imem[c].count
        BY <3>3, <3>5
      <3> QED BY <1>1, <3>3, <3>5, <3>6 DEF SameShape, SameInos
    <2> QED BY <1>1, <2>1, <2>2
  <1>13. ASSUME NEW i \in 1 .. n
         PROVE  /\ i \in 1 .. Len(stack') /\ stack'[i].dir = stack[i].dir
                /\ \A k \in Rest(stack[i]) : k # child => k \in Rest(stack[i])'
    <2>1. PICK f \in Frames : f = stack[i]
      BY <1>4
    <2>2. f.dir \in Cells /\ f.next \in Nat /\ imem[f.dir].idx \in Nat /\ imem[f.dir].count \in Nat
      BY <1>2, CellFacts DEF Frames
    <2>3. imem'[f.dir].idx = imem[f.dir].idx /\ imem'[f.dir].count = imem[f.dir].count
      BY <1>12, <2>2 DEF SameShape
    <2>4. CASE i = n
      <3>1. f = top /\ stack'[i] = adv
        BY <1>3, <1>9, <2>1, <2>4
      <3>2. Rest(stack[i])' = imem[f.dir].idx + (f.next + 1) .. (imem[f.dir].idx + imem[f.dir].count) - 1
        BY <1>8, <2>3, <3>1 DEF Rest, End
      <3>3. Rest(f) = imem[f.dir].idx + f.next .. (imem[f.dir].idx + imem[f.dir].count) - 1
        BY DEF Rest, End
      <3>4. child = imem[f.dir].idx + f.next
        BY <3>1 DEF child
      <3>5. \A k \in Rest(f) : k # child => k \in Rest(stack[i])'
        BY <2>2, <3>2, <3>3, <3>4
      <3> QED BY <1>8, <1>9, <2>1, <3>1, <3>5
    <2>5. CASE i # n
      <3>1. i \in 1 .. n - 1
        BY <1>3, <2>5
      <3>2. stack'[i] = f
        BY <1>9, <2>1, <3>1
      <3>3. Rest(stack[i])' = Rest(f)
        BY <2>3, <3>2 DEF Rest, End
      <3> QED BY <1>9, <2>1, <3>2, <3>3
    <2> QED BY <2>4, <2>5
  <1> QED BY <1>5, <1>10, <1>11, <1>12, <1>13 DEF n

\* The invariant as the loop goes to the next child.
LEMMA NextChildMatch ==
  ASSUME IndexInv, disk.valid, MatchInv, NextChild
  PROVE  MatchInv'
  <1>1. /\ xpc = "child" /\ xpc' = "ino" /\ self' = TopChild
        /\ UNCHANGED <<disk, dmap, dinodes, inodes, emem, rootIdx, ptrs, recs, nleft, blks, items, xerr>>
    BY DEF NextChild, TopFrame, TopChild, retrieveVars, memVars, workVars
  <1>2. Content /\ ListsInv /\ MemInv /\ ArrayInv
    BY <1>1 DEF MatchInv, IndexInv, TreeInv
  <1>3. /\ TopFrame.dir \in OfType("dir") /\ TopFrame.dir \in Cells
        /\ TopChild \in Cells /\ TopChild \in Claimed /\ TopChild \in Nat
        /\ imem[TopFrame.dir].idx <= TopChild /\ TopChild < End(TopFrame.dir)
        /\ SameShape /\ SameInos
    BY ChildTaken
  <1>4. /\ \A c \in Cells : c # TopChild => imem'[c] = imem[c]
        /\ Dinode(TopFrame.dir).fmt = "local" => imem'[TopChild].parent = TopFrame.dir
        /\ imem'[TopChild].parent \in {imem[TopChild].parent, TopFrame.dir}
    BY ChildTaken
  <1>5. \A i \in 1 .. Len(stack) :
           /\ i \in 1 .. Len(stack') /\ stack'[i].dir = stack[i].dir
           /\ \A k \in Rest(stack[i]) : k # TopChild => k \in Rest(stack[i])'
    BY ChildTaken
  <1>6. PICK child \in Nat : child = TopChild
    BY <1>3
  <1>7. PICK dir \in OfType("dir") : dir = TopFrame.dir
    BY <1>3
  <1>8. Claimed' = Claimed /\ \A c \in Claimed : c \in Cells
    BY <1>1, <1>2, ClaimedCells DEF Claimed, ArrayInv
  <1>9. ASSUME NEW c \in Claimed PROVE NamedAt(c)' /\ (Waiting(c)' \/ Complete(c)')
    <2>1. NamedAt(c)'
      <3>1. imem'[c].ino = imem[c].ino /\ imem'[c].ftype = imem[c].ftype
        BY <1>3, <1>8 DEF SameShape, SameInos
      <3>2. NamedAt(c)
        BY <1>2 DEF Content
      <3> QED BY <1>1, <3>1, <3>2 DEF NamedAt
    <2>2. CASE Complete(c)
      BY <1>1, <1>2, <1>3, <2>1, <2>2, CompleteSame
    <2>3. CASE c = child
      BY <1>1, <1>6, <2>1, <2>3 DEF Waiting
    <2>4. CASE Waiting(c) /\ c # child
      <3>1. InStack(c)
        BY <1>1, <2>4 DEF Waiting, Filling
      <3>2. PICK i \in 1 .. Len(stack) : c \in Rest(stack[i])
        BY <3>1 DEF InStack
      <3>3. i \in 1 .. Len(stack') /\ c \in Rest(stack[i])'
        BY <1>5, <1>6, <2>4, <3>2
      <3>4. InStack(c)'
        BY <3>3 DEF InStack
      <3> QED BY <2>1, <3>4 DEF Waiting
    <2>5. Waiting(c) \/ Complete(c)
      BY <1>2 DEF Content
    <2> QED BY <2>2, <2>3, <2>4, <2>5
  <1>10. ASSUME NEW c \in OfType("dir")' PROVE Parented(c)'
    <2>1. c \in OfType("dir") /\ c \in Cells /\ c \in Claimed
      BY <1>3, <1>8 DEF OfType, SameShape
    <2>2. imem[c].idx \in Nat /\ imem[c].count \in Nat /\ imem[dir].idx \in Nat /\ imem[dir].count \in Nat /\ dir \in Cells
      BY <1>2, <1>3, <1>7, <2>1, CellFacts
    <2>3. Array(c)' = Array(c)
      BY <1>3, <2>1 DEF Array, SameShape
    <2>4. Dinode(c)' = Dinode(c)
      BY <1>1, <1>3, <2>1 DEF Dinode, SameInos
    <2>5. ASSUME NEW k \in Array(c) PROVE imem'[k].parent = c \/ Later(c, k)'
      <3>1. imem[k].parent = c \/ Later(c, k)
        BY <1>2, <2>1 DEF Content, Parented
      <3>2. /\ imem[c].idx <= k /\ k < imem[c].idx + imem[c].count /\ k \in Nat
            /\ imem[c].idx + imem[c].count <= inodes.free /\ inodes.free \in Nat
        BY <1>2, <2>1, <2>2, CellFacts DEF Array, ArrayInv, End
      <3>3. k \in Cells
        BY <1>2, <2>2, <3>2, CellFacts, CellsAre
      <3>4. CASE k = child
        <4>1. c = dir
          <5>1. c # dir => End(c) <= imem[dir].idx \/ End(dir) <= imem[c].idx
            BY <1>2, <2>1 DEF ArrayInv
          <5>2. imem[dir].idx <= child /\ child < imem[dir].idx + imem[dir].count
            BY <1>3, <1>6, <1>7 DEF End
          <5> QED BY <2>2, <3>2, <3>4, <5>1, <5>2 DEF End
        <4>2. CASE imem[k].parent = c
          BY <1>4, <1>6, <1>7, <3>4, <4>1, <4>2
        <4>3. CASE Later(c, k)
          <5>1. Dinode(c).fmt = "local"
            BY <4>3 DEF Later
          <5> QED BY <1>4, <1>6, <1>7, <3>4, <4>1, <5>1
        <4> QED BY <3>1, <4>2, <4>3
      <3>5. CASE k # child
        <4>1. imem'[k] = imem[k]
          BY <1>4, <1>6, <3>3, <3>5
        <4>2. CASE Later(c, k)
          <5>1. PICK i \in 1 .. Len(stack) :
                  stack[i].dir = c /\ k \in Rest(stack[i]) /\ Dinode(c).fmt = "local"
            BY <4>2 DEF Later
          <5>2. i \in 1 .. Len(stack') /\ stack'[i].dir = c /\ k \in Rest(stack[i])'
            BY <1>5, <1>6, <3>5, <5>1
          <5>3. Later(c, k)'
            BY <2>4, <5>1, <5>2 DEF Later
          <5> QED BY <5>3
        <4> QED BY <3>1, <4>1, <4>2
      <3> QED BY <3>4, <3>5
    <2> QED BY <2>3, <2>5 DEF Parented
  <1>11. imem'[rootIdx'].ino = disk'.rootino
    BY <1>1, <1>2, <1>3 DEF Content, SameInos, ArrayInv
  <1>12. Content'
    BY <1>8, <1>9, <1>10, <1>11 DEF Content
  <1> QED BY <1>1, <1>2, <1>12 DEF MatchInv, ListsInv, Filling

\* The last child of a directory is done: what is left of the other frames
\* is what was.
LEMMA ChildrenDoneMatch ==
  ASSUME IndexInv, disk.valid, MatchInv, ChildrenDone
  PROVE  MatchInv'
  <1> DEFINE top == Last(stack)
             n == Len(stack)
  <1>1. /\ xpc = "child" /\ top.next >= imem[top.dir].count
        /\ UNCHANGED <<disk, dmap, dinodes, inodes, extents, imem, emem, rootIdx>>
        /\ \/ n = 1 /\ Return("OK")
           \/ n # 1 /\ stack' = Front(stack)
              /\ UNCHANGED <<xpc, self, ptrs, recs, nleft, blks, items, xerr>>
    BY DEF ChildrenDone, poolVars, retrieveVars, memVars, workVars
  <1>2. /\ Content /\ ListsInv /\ MemInv /\ ArrayInv /\ StackInv /\ stack # <<>> /\ stack \in Seq(Frames)
    BY <1>1 DEF MatchInv, IndexInv, TreeInv, StackInv, MemInv
  <1>3. n \in Nat /\ n >= 1 /\ top = stack[n] /\ top \in Frames
    BY <1>2 DEF Last
  <1>4. Rest(top) = {}
    <2>1. top.dir \in Cells /\ top.next \in Nat
      BY <1>3 DEF Frames
    <2>2. imem[top.dir].idx \in Nat /\ imem[top.dir].count \in Nat
      BY <1>2, <2>1, CellFacts
    <2> HIDE DEF top
    <2> QED BY <1>1, <2>1, <2>2 DEF Rest, End
  <1> HIDE DEF top
  <1>5. /\ \A i \in 1 .. Len(stack') : stack'[i] = stack[i]
        /\ \A i \in 1 .. n : i \in 1 .. Len(stack') \/ i = n
    <2>1. CASE Return("OK") /\ n = 1
      <3>1. Len(stack') = 0
        BY <2>1 DEF Return
      <3> HIDE DEF n
      <3> QED BY <2>1, <3>1
    <2>2. CASE n # 1 /\ stack' = Front(stack)
      <3>1. /\ Len(stack') = n - 1
            /\ \A i \in 1 .. n - 1 : stack'[i] = stack[i]
        <4>1. stack' = SubSeq(stack, 1, n - 1)
          BY <2>2 DEF Front
        <4>2. 1 \in 1 .. Len(stack) + 1 /\ n - 1 \in 1 - 1 .. Len(stack)
          BY <1>3
        <4> HIDE DEF n
        <4> QED BY <1>2, <1>3, <4>1, <4>2, SubSeqProperties
      <3> HIDE DEF n
      <3> QED BY <1>3, <3>1
    <2> QED BY <1>1, <2>1, <2>2
  <1>6. ASSUME NEW c, NEW i \in 1 .. n, c \in Rest(stack[i])
        PROVE  i \in 1 .. Len(stack') /\ stack'[i] = stack[i] /\ c \in Rest(stack[i])'
    <2>1. i # n
      BY <1>3, <1>4, <1>6
    <2>2. i \in 1 .. Len(stack') /\ stack'[i] = stack[i]
      BY <1>5, <2>1
    <2> QED BY <1>1, <1>6, <2>2 DEF Rest, End
  <1>7. SameShape /\ SameInos
    BY <1>1 DEF SameShape, SameInos
  <1>8. Claimed' = Claimed /\ OfType("dir")' = OfType("dir")
    BY <1>1 DEF Claimed, OfType
  <1>9. ASSUME NEW c \in Claimed PROVE NamedAt(c)' /\ (Waiting(c)' \/ Complete(c)')
    <2>1. NamedAt(c)'
      BY <1>1, <1>2 DEF NamedAt, Content
    <2>2. CASE Complete(c)
      BY <1>1, <1>2, <1>7, <2>1, <2>2, CompleteSame
    <2>3. CASE Waiting(c)
      <3>1. InStack(c)
        BY <1>1, <2>3 DEF Waiting, Filling
      <3>2. PICK i \in 1 .. n : c \in Rest(stack[i])
        BY <3>1 DEF InStack
      <3>3. InStack(c)'
        BY <1>6, <3>2 DEF InStack
      <3> QED BY <2>1, <3>3 DEF Waiting
    <2>4. Waiting(c) \/ Complete(c)
      BY <1>2 DEF Content
    <2> QED BY <2>2, <2>3, <2>4
  <1>10. ASSUME NEW c \in OfType("dir") PROVE Parented(c)'
    <2>1. Array(c)' = Array(c) /\ Dinode(c)' = Dinode(c)
      BY <1>1 DEF Array, Dinode
    <2>2. ASSUME NEW k \in Array(c) PROVE imem'[k].parent = c \/ Later(c, k)'
      <3>1. imem[k].parent = c \/ Later(c, k)
        BY <1>2 DEF Content, Parented
      <3>2. CASE Later(c, k)
        <4>1. PICK i \in 1 .. n : stack[i].dir = c /\ k \in Rest(stack[i]) /\ Dinode(c).fmt = "local"
          BY <3>2 DEF Later
        <4>2. Later(c, k)'
          BY <1>6, <2>1, <4>1 DEF Later
        <4> QED BY <4>2
      <3> QED BY <1>1, <3>1, <3>2
    <2> QED BY <2>1, <2>2 DEF Parented
  <1>11. Content'
    BY <1>1, <1>2, <1>8, <1>9, <1>10 DEF Content
  <1>12. CASE Return("OK")
    BY <1>11, <1>12 DEF MatchInv, ListsInv, Filling, Return
  <1>13. CASE UNCHANGED <<xpc, self, ptrs, recs, nleft, blks, items, xerr>>
    BY <1>1, <1>2, <1>11, <1>13 DEF MatchInv, ListsInv, Filling
  <1> QED BY <1>1, <1>12, <1>13
-----------------------------------------------------------------------------
\* The tree of a call that begins: the root, which is to be processed.
LEMMA RootClaimed ==
  ASSUME ~BeyondMapped, RetrieveInv, IndexInv, IndexStart
  PROVE  /\ UNCHANGED <<disk, dmap, dinodes>>
         /\ \/ \E err \in PoolErrors \ {"OK"} : Return(err)
            \/ /\ xpc' = "ino" /\ rootIdx' \in Nat /\ self' = rootIdx' /\ inodes'.free = rootIdx' + 1
               /\ imem'[rootIdx'].ino = disk.rootino /\ imem'[rootIdx'].ftype = "dir"
               /\ imem'[rootIdx'].count = 0
               /\ UNCHANGED <<stack, ptrs, recs, nleft, blks, items, xerr>>
  <1>1. /\ PoolIn(inodes) /\ PoolIn(extents) /\ imem \in [Cells -> Inodes]
        /\ emem \in [Cells -> Extents] /\ UNCHANGED <<disk, dmap, dinodes>>
    BY DEF IndexInv, MemInv, IndexStart, retrieveVars, memVars
  <1>2. PICK ok1, ok2, ok \in BOOLEAN :
       LET i == Cleared(inodes, imem, ZeroInode, ok1)
           e == Cleared(extents, emem, ZeroExtent, ok2)
           r == xal_pool_claim_inodes(i.pool, 1, ok)
           m == Zeroed(i.mem, i.pool, 1, ok, ZeroInode)
       IN /\ mprotect(i.pool, i.pool.allocated + i.pool.growby, ok)
          /\ inodes' = r.pool
          /\ IF r.err = "OK"
               THEN /\ rootIdx' = i.pool.free
                    /\ imem' = [m EXCEPT ![i.pool.free] =
                                  [ino |-> disk.rootino, ftype |-> "dir",
                                   parent |-> IdxNone, idx |-> @.idx, count |-> 0]]
                    /\ xpc' = "ino" /\ self' = i.pool.free
                    /\ UNCHANGED <<stack, workVars, xerr>>
               ELSE /\ imem' = m
                    /\ Return(r.err)
                    /\ UNCHANGED rootIdx
    BY DEF IndexStart
  <1> DEFINE i == Cleared(inodes, imem, ZeroInode, ok1)
             r == xal_pool_claim_inodes(i.pool, 1, ok)
             m == Zeroed(i.mem, i.pool, 1, ok, ZeroInode)
  <1>3. PoolIn(i.pool) /\ i.mem \in [Cells -> Inodes]
    <2>1. ZeroInode \in Inodes
      BY Zeroes
    <2> QED BY <1>1, <2>1, PoolCleared
  <1> HIDE DEF i
  <1>4. ClaimOutcome(i.pool, 1, ok, r.err, r.pool)
    BY <1>3, ClaimInodesOutcome DEF PoolIn
  <1>5. /\ PoolIn(r.pool) /\ r.err \in PoolErrors
        /\ r.pool.free = IF r.err = "OK" THEN i.pool.free + 1 ELSE i.pool.free
    BY <1>2, <1>3, <1>4, PoolClaimed DEF i
  <1>6. m \in [Cells -> Inodes]
    <2>1. ZeroInode \in Inodes
      BY Zeroes
    <2> QED BY <1>3, <2>1, ZeroedMemory
  <1> HIDE DEF r, m
  <1>7. /\ inodes' = r.pool
        /\ IF r.err = "OK"
             THEN /\ rootIdx' = i.pool.free
                  /\ imem' = [m EXCEPT ![i.pool.free] =
                                [ino |-> disk.rootino, ftype |-> "dir",
                                 parent |-> IdxNone, idx |-> @.idx, count |-> 0]]
                  /\ xpc' = "ino" /\ self' = i.pool.free
                  /\ UNCHANGED <<stack, workVars, xerr>>
             ELSE /\ imem' = m
                  /\ Return(r.err)
                  /\ UNCHANGED rootIdx
    BY <1>2 DEF i, r, m
  <1>8. CASE r.err # "OK"
    BY <1>1, <1>5, <1>7, <1>8
  <1>9. CASE r.err = "OK"
    <2> DEFINE f == i.pool.free
    <2>1. f \in Cells /\ r.pool.free = f + 1 /\ f \in Nat
      BY <1>3, <1>5, <1>9 DEF PoolIn, Pools, Cells
    <2> HIDE DEF f
    <2>2. /\ rootIdx' = f /\ self' = f /\ xpc' = "ino"
          /\ UNCHANGED <<stack, ptrs, recs, nleft, blks, items, xerr>>
      BY <1>7, <1>9 DEF f, workVars
    <2>3. imem'[f] = [ino |-> disk.rootino, ftype |-> "dir", parent |-> IdxNone,
                      idx |-> m[f].idx, count |-> 0]
      <3>1. imem' = [m EXCEPT ![f] = [ino |-> disk.rootino, ftype |-> "dir", parent |-> IdxNone,
                                      idx |-> m[f].idx, count |-> 0]]
        BY <1>7, <1>9 DEF f
      <3> QED BY <1>6, <2>1, <3>1
    <2> QED BY <1>1, <1>7, <2>1, <2>2, <2>3
  <1> QED BY <1>8, <1>9

\* The invariant as xal_index() claims the root.
LEMMA StartMatch ==
  ASSUME ~BeyondMapped, ValidConsistent, RetrieveInv, IndexInv, disk.valid, MatchInv, IndexStart
  PROVE  MatchInv'
  <1>1. CASE \E err \in PoolErrors \ {"OK"} : Return(err)
    BY <1>1, ReturnedMatch
  <1>2. CASE /\ UNCHANGED <<disk, dmap, dinodes>>
             /\ xpc' = "ino" /\ rootIdx' \in Nat /\ self' = rootIdx' /\ inodes'.free = rootIdx' + 1
             /\ imem'[rootIdx'].ino = disk.rootino /\ imem'[rootIdx'].ftype = "dir"
             /\ imem'[rootIdx'].count = 0
             /\ UNCHANGED <<stack, ptrs, recs, nleft, blks, items, xerr>>
    <2>1. xpc = "idle" /\ ListsInv
      BY DEF IndexStart, MatchInv
    <2>2. ListsInv'
      BY <1>2, <2>1 DEF ListsInv, Filling
    <2>3. PICK f \in Nat : f = rootIdx'
      BY <1>2
    <2>4. Claimed' = {f}
      BY <1>2, <2>3 DEF Claimed, IdxNone
    <2>5. OfType("dir")' = {}
      BY <1>2, <2>3, <2>4 DEF OfType
    <2>6. NamedAt(f)'
      <3>1. disk.rootino \in DOMAIN disk.listing
        BY DiskFacts DEF Consistent
      <3>2. imem'[f].ino = disk.rootino /\ imem'[f].ftype = "dir" /\ disk' = disk
        BY <1>2, <2>3
      <3> QED BY <3>1, <3>2 DEF NamedAt, Named
    <2>7. Waiting(f)'
      BY <1>2, <2>3 DEF Waiting
    <2>8. Content'
      BY <1>2, <2>3, <2>4, <2>5, <2>6, <2>7 DEF Content
    <2> QED BY <1>2, <2>2, <2>8 DEF MatchInv, Filling
  <1> QED BY <1>1, <1>2, RootClaimed

\* A retrieval, which leaves the index alone: it never runs while one is built.
LEMMA TreeLeft ==
  ASSUME UNCHANGED indexVars, disk' = disk, Content, \A c, k : Later(c, k) => Later(c, k)'
  PROVE  Content'
  <1>1. UNCHANGED <<inodes, extents, imem, emem, rootIdx, xpc, self, stack>>
    BY DEF indexVars, poolVars, walkVars
  <1>2. Claimed' = Claimed /\ OfType("dir")' = OfType("dir") /\ \A c : Array(c)' = Array(c)
    BY <1>1 DEF Claimed, OfType, Array
  <1>3. \A c : List(c)' = List(c) /\ Map(c)' = Map(c) /\ NamedAt(c)' = NamedAt(c)
    BY <1>1 DEF List, Map, NamedAt
  <1>4. \A f : Rest(f)' = Rest(f)
    BY <1>1 DEF Rest, End
  <1>5. \A c : InStack(c) => InStack(c)'
    <2>1. ASSUME NEW c, InStack(c) PROVE InStack(c)'
      <3>1. PICK i \in 1 .. Len(stack) : c \in Rest(stack[i])
        BY <2>1 DEF InStack
      <3>2. i \in 1 .. Len(stack') /\ Rest(stack[i])' = Rest(stack[i])
        BY <1>1, <3>1 DEF Rest, End
      <3> QED BY <3>1, <3>2 DEF InStack
    <2> QED BY <2>1
  <1>6. ASSUME NEW c, Waiting(c) PROVE Waiting(c)'
    BY <1>1, <1>2, <1>5, <1>6 DEF Waiting, Filling, Array
  <1>7. ASSUME NEW c, Complete(c) PROVE Complete(c)'
    BY <1>1, <1>3, <1>7 DEF Complete, DirRead, FileRead, HasInos, HasExtents
  <1>8. ASSUME NEW c \in Claimed PROVE NamedAt(c)' /\ (Waiting(c)' \/ Complete(c)')
    BY <1>3, <1>6, <1>7 DEF Content
  <1>9. ASSUME NEW c \in OfType("dir") PROVE Parented(c)'
    BY <1>1, <1>2 DEF Content, Parented
  <1> QED BY <1>1, <1>2, <1>8, <1>9 DEF Content

\* The invariant while inodes are retrieved.
LEMMA RetrieveMatch ==
  ASSUME ThreadInv, IndexInv, disk.valid, MatchInv, CallRetrieve \/ Retrieve
  PROVE  MatchInv'
  <1>1. UNCHANGED indexVars /\ xpc = "idle"
    BY DEF CallRetrieve, Retrieve, ThreadInv, Retrieving, ReadIab3, DecodeRecord, LeafDone, GroupDone
  <1>2. disk' = disk
    BY DEF CallRetrieve, Retrieve, RetrieveStart, Retrieving, ReadIab3, DecodeRecord, LeafDone, GroupDone
  <1>3. UNCHANGED <<xpc, xerr, ptrs, recs, blks, items>> /\ stack = <<>>
    BY <1>1 DEF indexVars, walkVars, workVars, IndexInv, TreeInv
  <1>4. \A c, k : ~Later(c, k)
    BY <1>3 DEF Later
  <1>5. ListsInv /\ (xerr = "OK" => Content)
    BY <1>1 DEF MatchInv
  <1>6. xerr = "OK" => Content'
    BY <1>1, <1>2, <1>4, <1>5, TreeLeft
  <1> QED BY <1>1, <1>3, <1>5, <1>6 DEF MatchInv, ListsInv, Filling

\* The invariant when nothing happens.
LEMMA StutterMatch ==
  ASSUME disk.valid, MatchInv, UNCHANGED <<retrieveVars, indexVars>>
  PROVE  MatchInv'
  <1>1. UNCHANGED <<disk, heap, dinodes, dmap, inodes, extents, imem, emem, rootIdx, xpc, self, stack,
                    ptrs, recs, nleft, blks, items, xerr>> /\ UNCHANGED indexVars
    BY DEF retrieveVars, memVars, indexVars, poolVars, walkVars, workVars
  <1>2. \A c : Dinode(c)' = Dinode(c) /\ List(c)' = List(c) /\ Map(c)' = Map(c)
    BY <1>1 DEF Dinode, List, Map
  <1>3. ASSUME NEW c, NEW k, Later(c, k) PROVE Later(c, k)'
    <2>1. PICK i \in 1 .. Len(stack) : stack[i].dir = c /\ k \in Rest(stack[i]) /\ Dinode(c).fmt = "local"
      BY <1>3 DEF Later
    <2>2. i \in 1 .. Len(stack') /\ Rest(stack[i])' = Rest(stack[i]) /\ stack'[i].dir = c
      BY <1>1, <2>1 DEF Rest, End
    <2> QED BY <1>2, <2>1, <2>2 DEF Later
  <1>4. Content => Content'
    BY <1>1, <1>3, TreeLeft
  <1>5. ListsInv'
    BY <1>1 DEF MatchInv, ListsInv, Filling
  <1>6. ASSUME DirWork PROVE DirWork'
    <2>1. Known(imem[self].ino)' /\ imem'[self'].ino \in DOMAIN disk'.listing
      BY <1>1, <1>6 DEF DirWork, Known
    <2>2. HasInos(self, imem[self].count)'
      BY <1>1, <1>6 DEF DirWork, HasInos, List
    <2>3. Pending' = Pending
      BY <1>1 DEF Pending
    <2>4. Left(List(self), imem[self].count)' = Left(List(self), imem[self].count)
      BY <1>1 DEF Left, List
    <2>5. DirLists' /\ Dinode(self)' = Dinode(self)
      BY <1>1, <1>6 DEF DirLists, DirWork, Dinode
    <2>6. (ExtentsWork => ExtentsWork') /\ (LeavesWork => LeavesWork')
      BY <1>1, <2>5 DEF ExtentsWork, LeavesWork
    <2> QED BY <1>6, <2>1, <2>2, <2>3, <2>4, <2>5, <2>6 DEF DirWork
  <1>7. ASSUME FileWork PROVE FileWork'
    <2>1. Known(imem[self].ino)' /\ imem'[self'].ino \in DOMAIN disk'.mapping
      BY <1>1, <1>7 DEF FileWork, Known
    <2>2. HasExtents(self, imem[self].count)'
      BY <1>1, <1>7 DEF FileWork, HasExtents, Map
    <2>3. Left(Records(Map(self)), imem[self].count)' = Left(Records(Map(self)), imem[self].count)
      BY <1>1 DEF Left, Records, Map
    <2> QED BY <1>1, <1>7, <2>1, <2>2, <2>3 DEF FileWork
  <1> QED BY <1>1, <1>4, <1>5, <1>6, <1>7 DEF MatchInv, Filling

\* The invariant holds at the start.
LEMMA MatchBegins == Init => MatchInv
  BY DEF Init, RetrieveInit, IndexInit, MatchInv, ListsInv, Filling
-----------------------------------------------------------------------------
\* Nothing writes to the device.
LEMMA DiskStays ==
  ASSUME [Next]_vars
  PROVE  disk' = disk
  <1>1. CASE CallRetrieve \/ Retrieve
    BY <1>1 DEF CallRetrieve, Retrieve, RetrieveStart, Retrieving, ReadIab3, DecodeRecord, LeafDone, GroupDone
  <1>2. CASE CallIndex
    BY <1>2 DEF CallIndex, IndexStart, IndexRefused, retrieveVars
  <1>3. CASE Index
    <2>1. UNCHANGED retrieveVars
      BY <1>3, IndexLeavesRetrieval DEF Index
    <2> QED BY <2>1 DEF retrieveVars
  <1>4. CASE IndexDies \/ UNCHANGED vars
    BY <1>4 DEF IndexDies, vars, retrieveVars
  <1> QED BY <1>1, <1>2, <1>3, <1>4 DEF Next

\* The element at work, when its inode was retrieved, has a form that
\* process_ino() knows.
LEMMA FormKnown ==
  ASSUME ValidConsistent, RetrieveInv, IndexInv, MatchInv, disk.valid, xpc = "ino", Known(imem[self].ino)
  PROVE  /\ imem[self].count = 0 /\ imem[self].ftype # "other"
         /\ Dinode(self) = disk.dinode[imem[self].ino]
         /\ \/ /\ Ftype(self) = "dir" /\ Dinode(self).mode = "dir" /\ imem[self].ino \in DOMAIN disk.listing
               /\ Dinode(self).fmt \in {"local", "extents", "btree"}
            \/ /\ Ftype(self) = "reg" /\ Dinode(self).mode = "reg" /\ imem[self].ino \in DOMAIN disk.mapping
               /\ Dinode(self).fmt \in {"extents", "btree"}
  <1>1. Content /\ SelfInv
    BY DEF MatchInv, IndexInv, TreeInv
  <1>2. NamedAt(self) /\ imem[self].count = 0
    BY <1>1 DEF Content, SelfInv
  <1>3. /\ Ftype(self) \in {"dir", "reg"}
        /\ Ftype(self) = "dir" => imem[self].ino \in DOMAIN disk.listing
        /\ Ftype(self) = "reg" => imem[self].ino \in DOMAIN disk.mapping
        /\ Dinode(self) = disk.dinode[imem[self].ino]
    BY <1>2, Formed
  <1>4. disk \in Images /\ Consistent(disk)
    BY DiskFacts
  <1>5. imem[self].ftype # "other"
    BY <1>2 DEF NamedAt, Named
  <1>6. CASE Ftype(self) = "dir"
    <2>1. Dinode(self).mode = "dir" /\ Dinode(self).fmt \in {"local", "extents", "btree"}
      BY <1>3, <1>4, <1>6, DirForms
    <2> QED BY <1>2, <1>3, <1>5, <1>6, <2>1
  <1>7. CASE Ftype(self) = "reg"
    <2>1. Dinode(self).mode = "reg" /\ Dinode(self).fmt \in {"extents", "btree"}
      BY <1>3, <1>4, <1>7, FileForms
    <2> QED BY <1>2, <1>3, <1>5, <1>7, <2>1
  <1> QED BY <1>3, <1>6, <1>7

\* The invariant through every step, action by action.
LEMMA MatchStep ==
  ASSUME ~BeyondMapped, ValidConsistent, ThreadInv, RetrieveInv, IndexInv, IndexInv', MatchInv, [Next]_vars
  PROVE  MatchInv'
  <1>1. disk' = disk
    BY DiskStays
  <1> SUFFICES ASSUME disk.valid PROVE MatchInv'
    BY <1>1 DEF MatchInv
  <1>2. CASE CallRetrieve \/ Retrieve
    BY <1>2, RetrieveMatch
  <1>3. CASE IndexDies \/ UNCHANGED vars
    BY <1>3, StutterMatch DEF IndexDies, vars
  <1>4. CASE CallIndex
    <2>1. CASE IndexStart
      BY <2>1, StartMatch
    <2>2. CASE IndexRefused
      <3>1. Return("EINVAL")
        BY <2>2 DEF IndexRefused
      <3> QED BY <3>1, ReturnedMatch
    <2> QED BY <1>4, <2>1, <2>2 DEF CallIndex
  <1>5. CASE Index
    <2>1. calls' = calls
      BY <1>5 DEF Index
    <2>2. CASE Unsupported
      BY <2>2, UnsupportedMatch
    <2>3. CASE DirLocal
      BY <2>1, <2>3, LocalMatch
    <2>4. CASE DirExtents
      BY <2>1, <2>4, DirExtentsMatch
    <2>5. CASE DirBtree
      BY <2>1, <2>5, DirBtreeMatch
    <2>6. CASE FileExtents
      BY <2>1, <2>6, FileExtentsMatch
    <2>7. CASE FileBtree
      BY <2>1, <2>7, FileBtreeMatch
    <2>8. CASE DirLeaf
      BY <2>1, <2>8, DirLeafMatch
    <2>9. CASE DirExtent
      BY <2>1, <2>9, DirExtentMatch
    <2>10. CASE DirExtentsDone
      BY <2>1, <2>10, ExtentsDoneMatch
    <2>11. CASE DirLeavesDone
      BY <2>1, <2>11, LeavesDoneMatch
    <2>12. CASE DirBlock
      BY <2>1, <2>12, DirBlockMatch
    <2>13. CASE DirBlocksDone
      BY <2>1, <2>13, BlocksDoneMatch
    <2>14. CASE Dentry
      BY <2>1, <2>14, DentryMatch
    <2>15. CASE DentriesDone
      BY <2>1, <2>15, DentriesDoneMatch
    <2>16. CASE FileNode
      BY <2>1, <2>16, FileNodeMatch
    <2>17. CASE FileLeaf
      BY <2>1, <2>17, FileLeafMatch
    <2>18. CASE FileDone
      BY <2>1, <2>18, FileDoneMatch
    <2>19. CASE NextChild
      BY <2>19, NextChildMatch
    <2>20. CASE ChildrenDone
      BY <2>20, ChildrenDoneMatch
    <2>21. ~UnknownFormat
      BY FormKnown DEF UnknownFormat, Formats
    <2> QED BY <1>5, <2>2, <2>3, <2>4, <2>5, <2>6, <2>7, <2>8, <2>9, <2>10, <2>11, <2>12, <2>13,
               <2>14, <2>15, <2>16, <2>17, <2>18, <2>19, <2>20, <2>21 DEF Index, Indexing
  <1> QED BY <1>2, <1>3, <1>4, <1>5 DEF Next

\* What the invariant says of a tree that is finished: nothing waits.
LEMMA Finished ==
  ASSUME IndexInv, MatchInv, disk.valid, xpc = "idle", xerr = "OK"
  PROVE  /\ MemInv /\ ArrayInv /\ imem[rootIdx].ino = disk.rootino
         /\ \A c \in Claimed : c \in Cells /\ NamedAt(c) /\ Complete(c)
         /\ \A c \in OfType("dir") : \A k \in Array(c) : imem[k].parent = c
  <1>1. Content /\ stack = <<>> /\ MemInv /\ ArrayInv
    BY DEF MatchInv, IndexInv, TreeInv
  <1>2. \A c, k : ~Later(c, k)
    BY <1>1 DEF Later
  <1>3. \A c : ~Waiting(c)
    BY <1>1 DEF Waiting, InStack, Filling
  <1>4. \A c \in Claimed : c \in Cells
    BY <1>1, ClaimedCells DEF ArrayInv
  <1> QED BY <1>1, <1>2, <1>3, <1>4 DEF Content, Parented

TreeInvariant == ThreadInv /\ RetrieveInv /\ IndexInv /\ MatchInv

\* The inductive invariant.
LEMMA TreeHeld ==
  ASSUME ~BeyondMapped, ValidConsistent
  PROVE  (Init => TreeInvariant) /\ (TreeInvariant /\ [Next]_vars => TreeInvariant')
  <1>1. Init => TreeInvariant
    BY FoundInit, IndexBegins, MatchBegins DEF TreeInvariant
  <1>2. ASSUME TreeInvariant, [Next]_vars PROVE TreeInvariant'
    <2>1. ThreadInv' /\ RetrieveInv' /\ IndexInv'
      BY <1>2, ThreadStep, RetrieveStep, IndexStep DEF TreeInvariant
    <2>2. MatchInv'
      BY <1>2, <2>1, MatchStep DEF TreeInvariant
    <2> QED BY <2>1, <2>2 DEF TreeInvariant
  <1> QED BY <1>1, <1>2

\* A finished tree: each directory lists what the disk says.
LEMMA DirAgrees ==
  ASSUME ValidConsistent, TreeInvariant, disk.valid, xpc = "idle", xerr = "OK",
         NEW c \in Claimed, imem[c].ino \in DOMAIN disk.listing
  PROVE  imem[c].ftype = "dir" /\ DirMatches(c)
  <1>1. IndexInv /\ MatchInv /\ RetrieveInv
    BY DEF TreeInvariant
  <1>2. /\ MemInv /\ c \in Cells /\ DirRead(c)
        /\ \A d \in OfType("dir") : \A k \in Array(d) : imem[k].parent = d
    BY <1>1, Finished DEF Complete
  <1>3. PICK list \in Seq(Nat) : list = disk.listing[imem[c].ino]
    BY <1>1, DiskFacts, DirForms
  <1>4. PICK n, i \in Nat : n = imem[c].count /\ i = imem[c].idx
    BY <1>2, CellFacts
  <1>5. /\ imem[c].ftype = "dir" /\ n = Len(list)
        /\ \A k \in 1 .. n : imem[i + k - 1].ino = list[k]
    BY <1>2, <1>3, <1>4 DEF DirRead, HasInos, List
  <1>6. [k \in 1 .. n |-> imem[i + k - 1].ino] = list
    <2>1. list = [k \in 1 .. n |-> list[k]]
      BY <1>5
    <2>2. [k \in 1 .. n |-> imem[i + k - 1].ino] = [k \in 1 .. n |-> list[k]]
      BY <1>5
    <2> QED BY <2>1, <2>2, Zenon
  <1>7. ASSUME NEW k \in Array(c) PROVE imem[k].parent = c
    <2>1. n > 0
      BY <1>4, <1>7 DEF Array
    <2> QED BY <1>2, <1>4, <1>5, <1>7, <2>1 DEF OfType
  <1> QED BY <1>3, <1>4, <1>5, <1>6, <1>7 DEF DirMatches

\* A finished tree: each file has the extents that the disk says.
LEMMA FileAgrees ==
  ASSUME ValidConsistent, TreeInvariant, disk.valid, xpc = "idle", xerr = "OK",
         NEW c \in Claimed, imem[c].ino \notin DOMAIN disk.listing
  PROVE  imem[c].ftype = "reg" /\ FileMatches(c)
  <1>1. IndexInv /\ MatchInv /\ RetrieveInv
    BY DEF TreeInvariant
  <1>2. MemInv /\ c \in Cells /\ FileRead(c) /\ NamedAt(c)
    BY <1>1, Finished DEF Complete
  <1>3. imem[c].ino \in DOMAIN disk.mapping
    BY <1>2 DEF NamedAt, Named
  <1>4. PICK map \in Seq(Fitting) : map = disk.mapping[imem[c].ino]
    BY <1>1, <1>3, DiskFacts, FileForms
  <1>5. PICK n, i \in Nat : n = imem[c].count /\ i = imem[c].idx
    BY <1>2, CellFacts
  <1>6. /\ imem[c].ftype = "reg" /\ DOMAIN map = 1 .. n
        /\ \A k \in 1 .. n : SameExtent(emem[i + k - 1], map[k])
    BY <1>2, <1>4, <1>5 DEF FileRead, HasExtents, Map
  <1>7. ASSUME NEW k \in 1 .. n
        PROVE  <<emem[i + k - 1].start_offset, emem[i + k - 1].start_block, emem[i + k - 1].nblocks>>
               = <<map[k].off, map[k].block, map[k].n>>
    BY <1>6 DEF SameExtent
  <1>8. [k \in 1 .. n |->
           <<emem[i + k - 1].start_offset, emem[i + k - 1].start_block, emem[i + k - 1].nblocks>>]
        = [k \in DOMAIN map |-> <<map[k].off, map[k].block, map[k].n>>]
    BY <1>6, <1>7
  <1> QED BY <1>4, <1>5, <1>6, <1>8 DEF FileMatches

\* A call of xal_index() that succeeds has built the tree of the disk.
THEOREM TreeMatchesDisk ==
  ASSUME ~BeyondMapped, ValidConsistent
  PROVE  Spec => []IndexMatchesDisk
  <1>1. (Init => TreeInvariant) /\ (TreeInvariant /\ [Next]_vars => TreeInvariant')
    BY TreeHeld
  <1>2. TreeInvariant => IndexMatchesDisk
    <2> SUFFICES ASSUME TreeInvariant, disk.valid, xpc = "idle", xerr = "OK"
                 PROVE  /\ imem[rootIdx].ino = disk.rootino
                        /\ \A c \in Claimed : IF imem[c].ino \in DOMAIN disk.listing
                                                THEN imem[c].ftype = "dir" /\ DirMatches(c)
                                                ELSE imem[c].ftype = "reg" /\ FileMatches(c)
      BY DEF IndexMatchesDisk
    <2>1. imem[rootIdx].ino = disk.rootino
      BY Finished DEF TreeInvariant
    <2> QED BY <2>1, DirAgrees, FileAgrees
  <1> QED BY <1>1, <1>2, PTL DEF Spec
-----------------------------------------------------------------------------
\* An extent of one group ends where the device does, or before.
LEMMA WithinDevice ==
  ASSUME NEW e, e.start_offset \in Nat, e.start_block \in Nat, e.nblocks \in Nat,
         e.start_block \div 2^AgBlkLog < AgCount,
         (e.start_block % 2^AgBlkLog) + e.nblocks <= AgBlocks,
         NEW l \in Lbas(xal_extent_in_lba(e))
  PROVE  l \in 0 .. (AgCount * AgBlocks * BlockSize) \div LbaSize - 1
  <1> DEFINE p == 2^AgBlkLog
             q == e.start_block \div p
             r == e.start_block % p
             m == BlockSize \div LbaSize
             d == xal_fsbno_offset(e.start_block)
             t == AgCount * AgBlocks
  <1>1. q \in Nat /\ r \in Nat /\ d = q * AgBlocks + r /\ d \in Nat
    BY FsbnoOffset
  <1>2. AgCount \in Nat /\ AgBlocks \in Nat /\ q < AgCount /\ r + e.nblocks <= AgBlocks
    BY FormatAssumption
  <1>3. m \in Nat /\ t \in Nat /\ (t * BlockSize) \div LbaSize = t * m /\ t * m \in Nat
    BY <1>2, LbasOfBlocks, Products
  <1>4. /\ xal_extent_in_lba(e).start_block = d * m /\ d * m \in Nat
        /\ xal_extent_in_lba(e).size = e.nblocks * m /\ e.nblocks * m \in Nat
    BY <1>1, LbasOfBlocks DEF xal_extent_in_lba
  <1>5. PICK n \in Nat : n = e.nblocks
    OBVIOUS
  <1> HIDE DEF p, q, r, m, d
  <1>6. d + n <= t
    <2>1. PICK k \in Nat : AgCount = (q + 1) + k
      <3>1. AgCount - (q + 1) \in Nat /\ AgCount = (q + 1) + (AgCount - (q + 1))
        BY <1>1, <1>2
      <3> QED BY <3>1
    <2>2. AgCount * AgBlocks = (q + 1) * AgBlocks + k * AgBlocks /\ (q + 1) * AgBlocks = q * AgBlocks + 1 * AgBlocks
      BY <1>1, <1>2, <2>1, Products
    <2>3. q * AgBlocks \in Nat /\ k * AgBlocks \in Nat
      BY <1>1, <1>2, <2>1, Products
    <2> QED BY <1>1, <1>2, <1>5, <2>2, <2>3
  <1> HIDE DEF t
  <1>7. d * m + n * m <= t * m
    <2>1. PICK k \in Nat : t = (d + n) + k
      <3>1. t - (d + n) \in Nat /\ t = (d + n) + (t - (d + n))
        BY <1>1, <1>3, <1>5, <1>6
      <3> QED BY <3>1
    <2>2. t * m = (d + n) * m + k * m /\ (d + n) * m = d * m + n * m
      <3>1. PICK x, y, z \in Int : x = d /\ y = m /\ z = d + n
        BY <1>1, <1>3
      <3>2. (z + k) * y = z * y + k * y /\ (x + n) * y = x * y + n * y
        BY ONLY x \in Int, y \in Int, z \in Int, k \in Nat, n \in Nat, Products
      <3> QED BY <2>1, <3>1, <3>2, Zenon
    <2>3. k * m \in Nat /\ d * m \in Nat /\ n * m \in Nat
      BY <1>1, <1>3, <1>5, <2>1, Products
    <2> QED BY <1>3, <2>2, <2>3
  <1>8. l \in d * m .. d * m + n * m - 1
    BY <1>4, <1>5 DEF Lbas
  <1>9. l \in 0 .. t * m - 1
    <2>1. d * m \in Nat /\ n * m \in Nat /\ t * m \in Nat
      BY <1>3, <1>4, <1>5
    <2> QED BY <1>7, <1>8, <2>1
  <1>10. (AgCount * AgBlocks * BlockSize) \div LbaSize = t * m
    BY <1>3 DEF t
  <1> QED BY <1>9, <1>10

\* An extent of the index that is one of the disk.
LEMMA ExtentHeld ==
  ASSUME NEW e \in Fitting, InGroup(e), NEW x, SameExtent(x, e), NEW l
  PROVE  /\ l \in Lbas(xal_extent_in_lba(x)) <=>
              /\ l \in 0 .. (AgCount * AgBlocks * BlockSize) \div LbaSize - 1
              /\ FsbnoAt((l * LbaSize) \div BlockSize) \in e.block .. e.block + e.n - 1
         /\ \A field \in {"start_offset", "size", "start_block"} :
              xal_extent_in_bytes(x)[field] = xal_extent_in_lba(x)[field] * LbaSize
  <1>1. /\ x.start_offset \in Nat /\ x.start_block \in Nat /\ x.nblocks \in Nat
        /\ x.start_block = e.block /\ x.nblocks = e.n
    BY FittingIs DEF SameExtent
  <1>2. /\ x.start_block \div 2^AgBlkLog < AgCount
        /\ (x.start_block % 2^AgBlkLog) + x.nblocks <= AgBlocks
    BY <1>1 DEF InGroup
  <1>3. Mask(x.start_block, AgBlkLog) + x.nblocks <= AgBlocks
    BY <1>2 DEF Mask
  <1>4. ASSUME NEW k \in Nat
        PROVE  k \in Lbas(xal_extent_in_lba(x))
                 <=> FsbnoAt((k * LbaSize) \div BlockSize) \in e.block .. e.block + e.n - 1
    BY <1>1, <1>3, ExtentAddressesDevice DEF Lbas
  <1>5. l \in Lbas(xal_extent_in_lba(x)) => l \in 0 .. (AgCount * AgBlocks * BlockSize) \div LbaSize - 1
    BY <1>1, <1>2, WithinDevice
  <1>6. l \in 0 .. (AgCount * AgBlocks * BlockSize) \div LbaSize - 1 => l \in Nat
    OBVIOUS
  <1>7. \A field \in {"start_offset", "size", "start_block"} :
              xal_extent_in_bytes(x)[field] = xal_extent_in_lba(x)[field] * LbaSize
    BY <1>1, UnitsAgree
  <1> QED BY <1>4, <1>5, <1>6, <1>7, Zenon

\* The extents of a file address the blocks that hold it, in both units.
LEMMA FileAddressed ==
  ASSUME ValidConsistent, TreeInvariant, disk.valid, xpc = "idle", xerr = "OK", NEW c \in OfType("reg")
  PROVE  /\ UNION {Lbas(xal_extent_in_lba(emem[k])) : k \in Array(c)} = LbasOf(disk.mapping[imem[c].ino])
         /\ \A k \in Array(c) : \A field \in {"start_offset", "size", "start_block"} :
              xal_extent_in_bytes(emem[k])[field] = xal_extent_in_lba(emem[k])[field] * LbaSize
  <1>1. IndexInv /\ MatchInv /\ RetrieveInv /\ c \in Claimed /\ imem[c].ftype = "reg"
    BY DEF TreeInvariant, OfType
  <1>2. MemInv /\ c \in Cells /\ Complete(c) /\ NamedAt(c)
    BY <1>1, Finished
  <1>3. FileRead(c) /\ imem[c].ino \in DOMAIN disk.mapping
    BY <1>1, <1>2 DEF Complete, DirRead, NamedAt, Named
  <1>4. PICK map \in Seq(Fitting) :
          /\ map = disk.mapping[imem[c].ino]
          /\ \A k \in 1 .. Len(map) : InGroup(map[k])
    BY <1>1, <1>3, DiskFacts, FileForms
  <1>5. PICK n, i \in Nat : n = imem[c].count /\ i = imem[c].idx
    BY <1>2, CellFacts
  <1>6. /\ n = Len(map) /\ DOMAIN map = 1 .. n
        /\ \A k \in 1 .. n : SameExtent(emem[i + k - 1], map[k])
    BY <1>3, <1>4, <1>5 DEF FileRead, HasExtents, Map
  <1>7. /\ \A k \in Array(c) : \E j \in 1 .. n : k = i + j - 1
        /\ \A j \in 1 .. n : i + j - 1 \in Array(c)
    <2>1. Array(c) = i .. (i + n) - 1
      BY <1>5 DEF Array
    <2>2. ASSUME NEW k \in i .. (i + n) - 1 PROVE \E j \in 1 .. n : k = i + j - 1
      <3>1. k - i + 1 \in 1 .. n /\ k = i + (k - i + 1) - 1
        BY <2>2
      <3> QED BY <3>1
    <2>3. ASSUME NEW j \in 1 .. n PROVE i + j - 1 \in i .. (i + n) - 1
      OBVIOUS
    <2> QED BY <2>1, <2>2, <2>3, Zenon
  <1>8. ASSUME NEW j \in 1 .. n, NEW l
        PROVE  /\ l \in Lbas(xal_extent_in_lba(emem[i + j - 1])) <=>
                    /\ l \in 0 .. (AgCount * AgBlocks * BlockSize) \div LbaSize - 1
                    /\ FsbnoAt((l * LbaSize) \div BlockSize) \in map[j].block .. map[j].block + map[j].n - 1
               /\ \A field \in {"start_offset", "size", "start_block"} :
                    xal_extent_in_bytes(emem[i + j - 1])[field]
                      = xal_extent_in_lba(emem[i + j - 1])[field] * LbaSize
    <2>1. PICK e \in Fitting : e = map[j]
      BY <1>6
    <2>2. InGroup(e) /\ SameExtent(emem[i + j - 1], e)
      BY <1>4, <1>6, <2>1
    <2> QED BY <2>1, <2>2, ExtentHeld
  <1>9. ASSUME NEW l
        PROVE  l \in UNION {Lbas(xal_extent_in_lba(emem[k])) : k \in Array(c)} <=> l \in LbasOf(map)
    <2>1. ASSUME NEW k \in Array(c), l \in Lbas(xal_extent_in_lba(emem[k])) PROVE l \in LbasOf(map)
      <3>1. PICK j \in 1 .. n : k = i + j - 1
        BY <1>7, <2>1
      <3> QED BY <1>6, <1>8, <2>1, <3>1 DEF LbasOf
    <2>2. ASSUME l \in LbasOf(map) PROVE \E k \in Array(c) : l \in Lbas(xal_extent_in_lba(emem[k]))
      <3>1. PICK j \in 1 .. n :
              /\ l \in 0 .. (AgCount * AgBlocks * BlockSize) \div LbaSize - 1
              /\ FsbnoAt((l * LbaSize) \div BlockSize) \in map[j].block .. map[j].block + map[j].n - 1
        BY <1>6, <2>2 DEF LbasOf
      <3> QED BY <1>7, <1>8, <3>1
    <2> QED BY <2>1, <2>2
  <1>10. UNION {Lbas(xal_extent_in_lba(emem[k])) : k \in Array(c)} = LbasOf(map)
    BY <1>9
  <1>11. ASSUME NEW k \in Array(c), NEW field \in {"start_offset", "size", "start_block"}
         PROVE  xal_extent_in_bytes(emem[k])[field] = xal_extent_in_lba(emem[k])[field] * LbaSize
    <2>1. PICK j \in 1 .. n : k = i + j - 1
      BY <1>7, <1>11
    <2> QED BY <1>8, <2>1
  <1> QED BY <1>4, <1>10, <1>11

\* The extents of every file that a successful xal_index() has indexed convert
\* to the logical blocks of the device that hold the file's data and to no
\* others, in blocks as in bytes, however many allocation groups there are.
THEOREM IndexAddressesDevice ==
  ASSUME ~BeyondMapped, ValidConsistent
  PROVE  Spec => []ExtentsAddressDevice
  <1>1. (Init => TreeInvariant) /\ (TreeInvariant /\ [Next]_vars => TreeInvariant')
    BY TreeHeld
  <1>2. TreeInvariant => ExtentsAddressDevice
    BY FileAddressed DEF ExtentsAddressDevice
  <1> QED BY <1>1, <1>2, PTL DEF Spec
-----------------------------------------------------------------------------
\* What a consistent image needs besides, for the code to accept it.
ValidIndexable == \A d \in Images : d.valid => Indexable(d)
IndexesFit == PoolMax <= IdxMax

\* The pools grow by the number of inodes; a buffer that is there was filled, and
\* an index runs on one that was; every block of an inode B+tree that is still
\* to be read is a node or a leaf.
GrowInv == inodes.growby = nallocated /\ extents.growby = nallocated
FilledInv ==
  /\ rpc = "idle" /\ heap = "allocated" => rerr \in {"OK", "EINVAL"}
  /\ xpc # "idle" => rerr = "OK"
NodesInv == disk.valid /\ rpc # "idle" => \A k \in DOMAIN bnos : Iab3Reads(disk, seqno, bnos[k])
AcceptInv == GrowInv /\ FilledInv /\ NodesInv

\* Clearing a pool and claiming from one leave its growth as it is.
LEMMA GrowthKept ==
  ASSUME NEW p, PoolIn(p), NEW n \in Nat, NEW ok \in BOOLEAN
  PROVE  /\ xal_pool_claim_inodes(p, n, ok).pool.growby = p.growby
         /\ xal_pool_claim_extents(p, n, ok).pool.growby = p.growby
         /\ \A mem, zero : \A ok1 \in BOOLEAN : Cleared(p, mem, zero, ok1).pool.growby = p.growby
  <1>1. p \in Pools /\ p.free <= p.allocated
    BY DEF PoolIn
  <1>2. /\ ClaimOutcome(p, n, ok, xal_pool_claim_inodes(p, n, ok).err, xal_pool_claim_inodes(p, n, ok).pool)
        /\ ClaimOutcome(p, n, ok, xal_pool_claim_extents(p, n, ok).err, xal_pool_claim_extents(p, n, ok).pool)
    BY <1>1, ClaimInodesOutcome, ClaimExtentsOutcome
  <1>3. xal_pool_clear(p).growby = p.growby
    BY <1>1, ClearOutcome
  <1> QED BY <1>2, <1>3 DEF ClaimOutcome, Cleared

\* A claim that is no larger than the growth is refused for want of memory only.
LEMMA ClaimFits ==
  ASSUME ~BeyondMapped, IndexesFit, NEW p, PoolIn(p), NEW n \in Nat, n <= p.growby, NEW ok \in BOOLEAN,
         mprotect(p, p.allocated + p.growby, ok)
  PROVE  /\ xal_pool_claim_inodes(p, n, ok).err \in {"OK", "ENOMEM"}
         /\ xal_pool_claim_extents(p, n, ok).err \in {"OK", "ENOMEM"}
  <1>1. /\ p.free \in Nat /\ p.allocated \in Nat /\ p.growby \in Nat /\ p.reserved = PoolMax
        /\ p.free <= p.allocated /\ p.allocated <= PoolMax
    BY DEF PoolIn, Pools
  <1>2. ClaimError(p, n, ok) \in {"OK", "ENOMEM"}
    BY <1>1 DEF ClaimError
  <1>3. ClaimError(p, n, ok) = "OK" => p.free + n <= PoolMax
    BY <1>1, IndexAssumption DEF ClaimError, NeedsGrow, mprotect
  <1>4. ~(ClaimError(p, n, ok) = "OK" /\ p.free + n > IdxMax)
    BY <1>1, <1>3, IndexAssumption, PoolAssumption DEF IndexesFit
  <1> QED BY <1>2, <1>4 DEF xal_pool_claim_inodes, xal_pool_claim_extents

\* By how much the pools grow is settled when they are opened.
LEMMA GrowStep ==
  ASSUME RetrieveInv, IndexInv, GrowInv, [Next]_vars
  PROVE  GrowInv'
  <1>1. disk' = disk /\ PoolIn(inodes) /\ PoolIn(extents)
    BY DiskStays DEF IndexInv, MemInv
  <1>2. nallocated' = nallocated
    BY <1>1 DEF nallocated
  <1> SUFFICES inodes'.growby = inodes.growby /\ extents'.growby = extents.growby
    BY <1>2 DEF GrowInv
  <1>3. CASE CallRetrieve \/ IndexDies \/ Retrieve \/ UNCHANGED vars
    BY <1>3 DEF CallRetrieve, IndexDies, Retrieve, indexVars, poolVars, vars
  <1>4. CASE IndexStart
    <2>1. PICK ok1, ok2, ok \in BOOLEAN :
            /\ inodes' = xal_pool_claim_inodes(Cleared(inodes, imem, ZeroInode, ok1).pool, 1, ok).pool
            /\ extents' = Cleared(extents, emem, ZeroExtent, ok2).pool
      BY <1>4 DEF IndexStart
    <2>2. PICK q : q = Cleared(inodes, imem, ZeroInode, ok1).pool
      OBVIOUS
    <2>3. PoolIn(q)
      BY <1>1, <2>2, PoolCleared, Zeroes DEF IndexInv, MemInv
    <2>4. q.growby = inodes.growby /\ extents'.growby = extents.growby
      BY <1>1, <2>1, <2>2, GrowthKept
    <2>5. xal_pool_claim_inodes(q, 1, ok).pool.growby = q.growby
      BY <2>3, GrowthKept
    <2> QED BY <2>1, <2>2, <2>4, <2>5
  <1>5. CASE DirLocal
    <2>1. PICK ok \in BOOLEAN : inodes' = xal_pool_claim_inodes(inodes, Len(Dinode(self).ents), ok).pool
      BY <1>5 DEF DirLocal
    <2>2. Len(Dinode(self).ents) \in Nat /\ extents' = extents
      <3>1. Known(imem[self].ino) /\ Dinode(self).fmt = "local" /\ extents' = extents
        BY <1>5 DEF DirLocal, Form
      <3>2. Dinode(self).ents \in Seq(Ents)
        BY <3>1, DinodeRead DEF DinodeOK, Ents
      <3> QED BY <3>1, <3>2
    <2> QED BY <1>1, <2>1, <2>2, GrowthKept
  <1>6. CASE Dentry
    <2>1. /\ extents' = extents
          /\ inodes' = inodes \/ \E ok \in BOOLEAN : inodes' = xal_pool_claim_inodes(inodes, 1, ok).pool
      BY <1>6 DEF Dentry
    <2> QED BY <1>1, <2>1, GrowthKept
  <1>7. ASSUME NEW records, NEW inode, NEW pc, NEW rest, StoreExtents(records, inode, pc, rest),
               inodes' = inodes, Len(records) \in Nat
        PROVE  inodes'.growby = inodes.growby /\ extents'.growby = extents.growby
    <2>1. PICK ok \in BOOLEAN : extents' = xal_pool_claim_extents(extents, Len(records), ok).pool
      BY <1>7 DEF StoreExtents
    <2> QED BY <1>1, <1>7, <2>1, GrowthKept
  <1>8. CASE FileExtents
    <2>1. Known(imem[self].ino) /\ Dinode(self).fmt = "extents" /\ inodes' = inodes
      BY <1>8 DEF FileExtents, Form
    <2>2. Dinode(self).recs \in Seq(Words)
      BY <2>1, DinodeRead DEF DinodeOK
    <2> QED BY <1>7, <1>8, <2>1, <2>2 DEF FileExtents
  <1>9. CASE FileLeaf
    <2>1. PICK b : b = xal_fsbno_offset(Head(ptrs).bno)
      OBVIOUS
    <2>2. inodes' = inodes
      BY <1>9 DEF FileLeaf
    <2>3. CASE extents' = extents
      BY <2>2, <2>3
    <2>4. CASE /\ Readable(b) /\ disk.dev[b].magic = "BMA3" /\ disk.dev[b].level = 0
               /\ StoreExtents(disk.dev[b].recs,
                    [imem[self] EXCEPT !.count = @ + Len(disk.dev[b].recs)], "node", Tail(ptrs))
      <3>1. disk.dev[b].recs \in Seq(Words)
        BY <2>4, BlockRead DEF BlockOK
      <3> QED BY <1>7, <2>2, <2>4, <3>1
    <2> QED BY <1>9, <2>1, <2>3, <2>4 DEF FileLeaf
  <1>10. CASE CallIndex \/ Index
    <2>1. CASE UNCHANGED <<inodes, extents>>
      BY <2>1
    <2>2. CASE IndexRefused \/ Unsupported \/ DirLeaf \/ DirExtent \/ DirExtentsDone \/ DirLeavesDone
               \/ DirBlock \/ DirBlocksDone \/ DentriesDone \/ FileNode \/ FileDone \/ ChildrenDone
      BY <2>1, <2>2 DEF IndexRefused, Unsupported, DirLeaf, DirExtent, DirExtentsDone, DirLeavesDone,
           DirBlock, DirBlocksDone, DentriesDone, FileNode, FileDone, ChildrenDone, poolVars
    <2>3. CASE UnknownFormat \/ DirExtents \/ DirBtree \/ FileBtree \/ NextChild
      BY <2>1, <2>3 DEF UnknownFormat, DirExtents, DirBtree, FileBtree, NextChild
    <2> QED BY <1>4, <1>5, <1>6, <1>8, <1>9, <1>10, <2>2, <2>3 DEF CallIndex, Index, Indexing
  <1> QED BY <1>3, <1>10 DEF Next

\* An index runs on what the last retrieval, which succeeded, has filled.
LEMMA FilledStep ==
  ASSUME ThreadInv, FilledInv, [Next]_vars
  PROVE  FilledInv'
  <1>1. CASE CallRetrieve
    BY <1>1 DEF CallRetrieve, RetrieveStart, FilledInv, indexVars, walkVars
  <1>2. CASE Retrieve
    <2>1. UNCHANGED xpc /\ rpc # "idle"
      BY <1>2 DEF Retrieve, Retrieving, ReadIab3, DecodeRecord, LeafDone, GroupDone, indexVars, walkVars
    <2>2. xpc = "idle"
      BY <2>1 DEF ThreadInv
    <2>3. rpc' = "idle" /\ heap' = "allocated" => rerr' \in {"OK", "EINVAL"}
      BY <1>2 DEF Retrieve, Retrieving, ReadIab3, DecodeRecord, LeafDone, GroupDone, RetrieveFail
    <2> QED BY <2>1, <2>2, <2>3 DEF FilledInv
  <1>3. CASE CallIndex
    <2>1. UNCHANGED <<heap, rpc, rerr>>
      BY <1>3 DEF CallIndex, IndexStart, IndexRefused, retrieveVars, memVars
    <2>2. CASE IndexRefused
      BY <2>1, <2>2 DEF IndexRefused, Return, FilledInv
    <2>3. CASE IndexStart
      <3>1. rpc = "idle" /\ heap # "NULL" /\ ~MapIsNull
        BY <1>3, <2>3 DEF IndexStart, CallIndex
      <3>2. rerr = "OK"
        BY <3>1 DEF FilledInv, ThreadInv, MapIsNull
      <3> QED BY <2>1, <3>2 DEF FilledInv
    <2> QED BY <1>3, <2>2, <2>3 DEF CallIndex
  <1>4. CASE Index
    <2>1. UNCHANGED <<heap, rpc, rerr>>
      BY <1>4, IndexLeavesRetrieval DEF Index, retrieveVars, memVars
    <2>2. xpc # "idle"
      BY <1>4 DEF Index, Indexing, Unsupported, UnknownFormat, DirLocal, DirExtents, DirBtree, FileExtents,
           FileBtree, Form, DirLeaf, DirExtent, DirExtentsDone, DirLeavesDone, DirBlock, DirBlocksDone, Dentry, DentriesDone,
           FileNode, FileLeaf, FileDone, NextChild, ChildrenDone
    <2> QED BY <2>1, <2>2 DEF FilledInv
  <1>5. CASE IndexDies \/ UNCHANGED vars
    BY <1>5 DEF IndexDies, vars, retrieveVars, memVars, indexVars, walkVars, FilledInv
  <1> QED BY <1>1, <1>2, <1>3, <1>4, <1>5 DEF Next

\* The blocks still to be read while inodes are retrieved.
LEMMA NodesStep ==
  ASSUME ValidIndexable, ThreadInv, RetrieveInv, NodesInv, [Next]_vars
  PROVE  NodesInv'
  <1>1. disk' = disk /\ disk \in Images /\ bnos \in Seq(Bnos) /\ seqno \in Groups
    BY DiskStays DEF RetrieveInv
  <1> SUFFICES ASSUME disk.valid, rpc' # "idle", NEW k \in DOMAIN bnos'
               PROVE  Iab3Reads(disk, seqno', bnos'[k])
    BY <1>1 DEF NodesInv, Iab3Reads, IsIab3, Iab3At
  <1>2. \A s \in Groups : Iab3Reads(disk, s, disk.agi[s].root)
    BY <1>1 DEF ValidIndexable, Indexable
  <1>3. rpc # "idle" => \A j \in DOMAIN bnos : Iab3Reads(disk, seqno, bnos[j])
    BY DEF NodesInv
  <1>4. CASE CallRetrieve
    <2>1. seqno' = seqno /\ seqno = 0 /\ rpc = "idle" /\ bnos = <<>>
      BY <1>4 DEF CallRetrieve, RetrieveStart, ThreadInv
    <2>2. bnos' = <<disk.agi[0].root>>
      BY <1>4, <2>1 DEF CallRetrieve, RetrieveStart
    <2> QED BY <1>1, <1>2, <2>1, <2>2
  <1>5. CASE UNCHANGED <<rpc, seqno, bnos>>
    BY <1>3, <1>5
  <1>6. CASE Retrieve
    <2>1. CASE ReadIab3
      <3>1. rpc = "block" /\ bnos # <<>>
        BY <2>1 DEF ReadIab3
      <3>2. PICK h : h = Head(bnos) /\ Iab3Reads(disk, seqno, h)
        BY <1>1, <1>3, <3>1, TailAt
      <3>3. /\ Tail(bnos) \in Seq(Bnos)
            /\ \A j \in DOMAIN Tail(bnos) : Iab3Reads(disk, seqno, Tail(bnos)[j])
        BY <1>1, <1>3, <3>1, TailAt
      <3>4. CASE bnos' = Tail(bnos) /\ seqno' = seqno
        BY <3>3, <3>4
      <3>5. CASE /\ IsIab3(disk, seqno, h, 1) /\ seqno' = seqno
                 /\ bnos' = Iab3At(disk, seqno, h).ptrs \o Tail(bnos)
        <4>1. PICK ps \in Seq(Bnos) : ps = Iab3At(disk, seqno, h).ptrs
          <5>1. h \in Bnos
            BY <1>1, <3>1, <3>2, TailAt
          <5> QED BY <1>1, <3>5, <5>1, RetrieveAssumption DEF ImageOK
        <4>2. \A j \in DOMAIN ps : Iab3Reads(disk, seqno, ps[j])
          BY <3>2, <3>5, <4>1 DEF Iab3Reads, IsIab3
        <4>3. PICK ts \in Seq(Bnos) : ts = Tail(bnos)
          BY <3>3
        <4>4. bnos' = ps \o ts /\ k \in 1 .. Len(ps) + Len(ts)
          BY <3>5, <4>1, <4>3
        <4>5. CASE k <= Len(ps)
          <5>1. bnos'[k] = ps[k] /\ k \in DOMAIN ps
            BY <4>4, <4>5
          <5> QED BY <3>5, <4>2, <5>1
        <4>6. CASE k > Len(ps)
          <5>1. bnos'[k] = ts[k - Len(ps)] /\ k - Len(ps) \in DOMAIN ts
            BY <4>4, <4>6
          <5> QED BY <3>3, <3>5, <4>3, <5>1
        <4> QED BY <4>4, <4>5, <4>6
      <3> QED BY <2>1, <3>2, <3>4, <3>5 DEF ReadIab3, RetrieveFail, IsIab3, Iab3At, Readable
    <2>2. CASE DecodeRecord \/ LeafDone
      <3>1. UNCHANGED <<seqno, bnos>> /\ rpc = "record"
        BY <2>2 DEF DecodeRecord, LeafDone, RetrieveFail
      <3> QED BY <1>3, <3>1
    <2>3. CASE GroupDone
      <3>1. /\ bnos' = <<disk.agi[seqno + 1].root>> /\ seqno' = seqno + 1 /\ seqno + 1 < AgCount
        BY <2>3 DEF GroupDone
      <3>2. seqno' \in Groups
        BY <1>1, <3>1, GroupFacts DEF Groups
      <3> QED BY <1>2, <3>1, <3>2
    <2> QED BY <1>6, <2>1, <2>2, <2>3 DEF Retrieve, Retrieving
  <1>7. CASE CallIndex \/ IndexDies \/ Index \/ UNCHANGED vars
    <2>1. UNCHANGED retrieveVars
      BY <1>7, IndexLeavesRetrieval
    <2> QED BY <1>5, <2>1 DEF retrieveVars
  <1> QED BY <1>4, <1>6, <1>7 DEF Next

\* A retrieval from an image that can be read fails with the device only.
LEMMA RetrieveAccepts ==
  ASSUME RetrieveInv, NodesInv, disk.valid, rpc # "idle", rpc' = "idle", [Next]_vars
  PROVE  rerr' \in {"OK", "EIO"}
  <1>1. Retrieve
    <2>1. CASE CallRetrieve \/ CallIndex
      BY <2>1 DEF CallRetrieve, RetrieveStart, CallIndex, IndexStart, IndexRefused
    <2>2. CASE IndexDies \/ Index \/ UNCHANGED vars
      BY <2>2, IndexLeavesRetrieval DEF retrieveVars
    <2> QED BY <2>1, <2>2 DEF Next
  <1>2. CASE ReadIab3
    <2>1. rpc = "block" /\ bnos # <<>> /\ bnos \in Seq(Bnos)
      BY <1>2 DEF ReadIab3, RetrieveInv
    <2>2. PICK h : h = Head(bnos) /\ Iab3Reads(disk, seqno, h)
      BY <2>1, TailAt DEF NodesInv
    <2>3. Iab3At(disk, seqno, h).magic = "IAB3" /\ Iab3At(disk, seqno, h).level \in {0, 1}
      BY <2>2 DEF Iab3Reads, IsIab3
    <2> QED BY <1>2, <2>1, <2>2, <2>3 DEF ReadIab3, RetrieveFail, Iab3At
  <1>3. CASE DecodeRecord \/ LeafDone \/ GroupDone
    BY <1>3 DEF DecodeRecord, LeafDone, GroupDone, RetrieveFail
  <1> QED BY <1>1, <1>2, <1>3 DEF Retrieve, Retrieving

\* Every inode that the tree names was retrieved.
LEMMA FoundKnown ==
  ASSUME ValidConsistent, ThreadInv, RetrieveInv, FoundInv, FilledInv, disk.valid, xpc # "idle",
         NEW c, NamedAt(c)
  PROVE  Known(imem[c].ino)
  <1>1. rpc = "idle" /\ rerr = "OK"
    BY DEF ThreadInv, FilledInv
  <1>2. DOMAIN disk.dinode \subseteq DOMAIN dmap
    BY <1>1 DEF FoundInv
  <1>3. Consistent(disk)
    BY DiskFacts
  <1> QED BY <1>2, <1>3 DEF Consistent, NamedAt, Named, Known

\* The element at work, as process_ino() meets it.
LEMMA SelfFormed ==
  ASSUME ValidConsistent, ThreadInv, RetrieveInv, IndexInv, FoundInv, FilledInv, MatchInv, disk.valid,
         xpc = "ino"
  PROVE  /\ Known(imem[self].ino) /\ imem[self].count = 0 /\ imem[self].ftype # "other"
         /\ Dinode(self) = disk.dinode[imem[self].ino]
         /\ \/ /\ Ftype(self) = "dir" /\ Dinode(self).mode = "dir" /\ imem[self].ino \in DOMAIN disk.listing
               /\ Dinode(self).fmt \in {"local", "extents", "btree"}
            \/ /\ Ftype(self) = "reg" /\ Dinode(self).mode = "reg" /\ imem[self].ino \in DOMAIN disk.mapping
               /\ Dinode(self).fmt \in {"extents", "btree"}
  <1>1. NamedAt(self)
    BY DEF MatchInv, Content, IndexInv, TreeInv, SelfInv
  <1>2. Known(imem[self].ino)
    BY <1>1, FoundKnown
  <1> QED BY <1>2, FormKnown

\* A step of xal_index() on a consistent image fails with the device or the
\* memory only, form by form.
Accepted == xpc' = "idle" => xerr' \in {"OK", "EIO", "ENOMEM"}

\* Opening an inode in each form.
LEMMA FormAccepts ==
  ASSUME ValidConsistent, ThreadInv, RetrieveInv, IndexInv, FoundInv, FilledInv, MatchInv, disk.valid,
         Unsupported \/ UnknownFormat \/ DirExtents \/ DirBtree \/ FileBtree
  PROVE  Accepted
  <1>1. xpc = "ino"
    BY DEF Unsupported, UnknownFormat, DirExtents, DirBtree, FileBtree, Form
  <1>2. /\ Known(imem[self].ino) /\ imem[self].count = 0 /\ imem[self].ftype # "other"
        /\ Dinode(self) = disk.dinode[imem[self].ino]
        /\ \/ /\ Ftype(self) = "dir" /\ Dinode(self).mode = "dir" /\ imem[self].ino \in DOMAIN disk.listing
              /\ Dinode(self).fmt \in {"local", "extents", "btree"}
           \/ /\ Ftype(self) = "reg" /\ Dinode(self).mode = "reg" /\ imem[self].ino \in DOMAIN disk.mapping
              /\ Dinode(self).fmt \in {"extents", "btree"}
    BY <1>1, SelfFormed
  <1>3. disk \in Images /\ Consistent(disk)
    BY DiskFacts
  <1>4. ~Unsupported /\ ~UnknownFormat
    BY <1>2 DEF Unsupported, UnknownFormat, Formats
  <1>5. CASE DirExtents
    BY <1>5 DEF DirExtents, Accepted
  <1>6. Dinode(self).fmt = "btree" => Dinode(self).level \in Nat /\ Dinode(self).level >= 1
    BY <1>2, <1>3, LeavesForm, FileTree
  <1>7. CASE DirBtree
    <2>1. Dinode(self).fmt = "btree"
      BY <1>7 DEF DirBtree, Form
    <2>2. ~(Dinode(self).level < 1 \/ imem[self].count # 0)
      BY <1>2, <1>6, <2>1
    <2> QED BY <1>7, <2>2 DEF DirBtree, Accepted
  <1>8. CASE FileBtree
    <2>1. Dinode(self).fmt = "btree"
      BY <1>8 DEF FileBtree, Form
    <2>2. ~(Dinode(self).level < 1 \/ imem[self].count # 0)
      BY <1>2, <1>6, <2>1
    <2> QED BY <1>8, <2>2 DEF FileBtree, Accepted
  <1> QED BY <1>4, <1>5, <1>7, <1>8

\* Reading a B+tree.
LEMMA ReadAccepts ==
  ASSUME ValidConsistent, RetrieveInv, IndexInv, MatchInv, disk.valid, DirLeaf \/ DirBlock \/ FileNode
  PROVE  Accepted
  <1>1. disk \in Images /\ DOMAIN disk.dev \subseteq Nat
    BY DiskFacts
  <1>2. CASE DirLeaf
    <2>1. xpc = "leaf" /\ ptrs # <<>>
      BY <1>2 DEF DirLeaf
    <2>2. ptrs \in Seq(DirLeaves(disk))
      BY <2>1 DEF MatchInv, Filling, DirWork, DirLists
    <2>3. disk.dev[xal_fsbno_offset(Head(ptrs))].magic = "BMA3" /\ disk.dev[xal_fsbno_offset(Head(ptrs))].level = 0
      BY <1>1, <2>1, <2>2, LeafNext
    <2> QED BY <1>2, <2>3 DEF DirLeaf, Return, Accepted
  <1>3. CASE DirBlock
    BY <1>3 DEF DirBlock, Return, Accepted
  <1>4. CASE FileNode
    <2>1. xpc = "node" /\ ptrs # <<>> /\ ~Head(ptrs).leaf
      BY <1>4 DEF FileNode
    <2>2. ptrs \in Seq(NodePtrs(disk))
      BY <2>1 DEF MatchInv, FileWork
    <2>3. PICK p \in NodePtrs(disk) : p = Head(ptrs)
      BY <2>1, <2>2, TailAt
    <2>4. /\ OnDevice(disk, p.bno) /\ BlockAt(disk, p.bno).magic = "BMA3"
          /\ BlockAt(disk, p.bno).level \in Nat /\ BlockAt(disk, p.bno).level > 0
      BY <1>1, <2>1, <2>3, PtrAre
    <2>5. disk.dev[xal_fsbno_offset(p.bno)] = BlockAt(disk, p.bno)
      BY <1>1, <2>4, BlockFound DEF BlockAt
    <2>6. disk.dev[xal_fsbno_offset(Head(ptrs).bno)].magic = "BMA3"
          /\ disk.dev[xal_fsbno_offset(Head(ptrs).bno)].level # 0
      BY <2>3, <2>4, <2>5
    <2> QED BY <1>4, <2>6 DEF FileNode, Return, Accepted
  <1> QED BY <1>2, <1>3, <1>4

\* Claiming from a pool.
LEMMA ClaimAccepts ==
  ASSUME ~BeyondMapped, IndexesFit, ValidConsistent, ValidIndexable, ThreadInv, RetrieveInv, IndexInv, FoundInv,
         FilledInv, GrowInv, MatchInv, disk.valid, DirLocal \/ Dentry \/ FileExtents \/ FileLeaf
  PROVE  Accepted
  <1>1. /\ disk \in Images /\ Consistent(disk) /\ DOMAIN disk.dev \subseteq Nat
        /\ PoolIn(inodes) /\ PoolIn(extents)
    BY DiskFacts DEF IndexInv, MemInv
  <1>2. ClaimsFit(disk, AgiTotal(disk)) /\ inodes.growby = AgiTotal(disk) /\ extents.growby = AgiTotal(disk)
    BY <1>1 DEF ValidIndexable, Indexable, GrowInv, nallocated
  <1>3. ASSUME NEW records, NEW inode, NEW pc, pc # "idle", NEW rest, StoreExtents(records, inode, pc, rest),
               Len(records) \in Nat, Len(records) <= extents.growby
        PROVE  Accepted
    <2>1. PICK ok \in BOOLEAN :
            /\ mprotect(extents, extents.allocated + extents.growby, ok)
            /\ \/ xpc' = pc
               \/ Return(xal_pool_claim_extents(extents, Len(records), ok).err)
      BY <1>3 DEF StoreExtents
    <2>2. xal_pool_claim_extents(extents, Len(records), ok).err \in {"OK", "ENOMEM"}
      BY <1>1, <1>3, <2>1, ClaimFits
    <2> QED BY <1>3, <2>1, <2>2 DEF Return, Accepted
  <1>4. CASE DirLocal
    <2>1. xpc = "ino" /\ Dinode(self).fmt = "local" /\ Ftype(self) = "dir"
      BY <1>4 DEF DirLocal, Form
    <2>2. imem[self].ino \in DOMAIN disk.listing /\ Dinode(self) = disk.dinode[imem[self].ino]
          /\ Known(imem[self].ino)
      BY <2>1, SelfFormed
    <2>3. PICK n : n = Len(Dinode(self).ents)
      OBVIOUS
    <2>4. n \in Nat /\ n <= inodes.growby
      <3>1. Dinode(self).ents \in Seq(Ents)
        BY <2>1, <2>2, DinodeRead DEF DinodeOK, Ents
      <3> QED BY <1>2, <2>1, <2>2, <2>3, <3>1 DEF ClaimsFit
    <2>5. PICK ok \in BOOLEAN :
            /\ mprotect(inodes, inodes.allocated + inodes.growby, ok)
            /\ xpc' = "child" \/ Return(xal_pool_claim_inodes(inodes, n, ok).err)
      BY <1>4, <2>3 DEF DirLocal, Descend
    <2>6. xal_pool_claim_inodes(inodes, n, ok).err \in {"OK", "ENOMEM"}
      BY <1>1, <2>4, <2>5, ClaimFits
    <2> QED BY <2>5, <2>6 DEF Return, Accepted
  <1>5. CASE Dentry
    <2>1. xpc = "dentry"
      BY <1>5 DEF Dentry
    <2>2. CASE xpc' = xpc
      BY <2>1, <2>2 DEF Accepted
    <2>3. CASE \E ok \in BOOLEAN :
                 /\ mprotect(inodes, inodes.allocated + inodes.growby, ok)
                 /\ Return(xal_pool_claim_inodes(inodes, 1, ok).err)
      <3>1. PICK ok \in BOOLEAN :
              /\ mprotect(inodes, inodes.allocated + inodes.growby, ok)
              /\ Return(xal_pool_claim_inodes(inodes, 1, ok).err)
        BY <2>3
      <3>2. 1 <= inodes.growby
        BY <1>2 DEF ClaimsFit
      <3>3. xal_pool_claim_inodes(inodes, 1, ok).err \in {"OK", "ENOMEM"}
        BY <1>1, <3>1, <3>2, ClaimFits
      <3> QED BY <3>1, <3>3 DEF Return, Accepted
    <2> QED BY <1>5, <2>2, <2>3 DEF Dentry
  <1>6. CASE FileExtents
    <2>1. xpc = "ino" /\ Dinode(self).fmt = "extents" /\ Ftype(self) = "reg"
      BY <1>6 DEF FileExtents, Form
    <2>2. imem[self].ino \in DOMAIN disk.mapping /\ Dinode(self) = disk.dinode[imem[self].ino]
          /\ Known(imem[self].ino)
      BY <2>1, SelfFormed
    <2>3. Dinode(self).recs \in Seq(Words)
      BY <2>1, <2>2, DinodeRead DEF DinodeOK
    <2>4. Len(Dinode(self).recs) \in Nat /\ Len(Dinode(self).recs) <= extents.growby
      BY <1>2, <2>1, <2>2, <2>3 DEF ClaimsFit
    <2> QED BY <1>3, <1>6, <2>4 DEF FileExtents
  <1>7. CASE FileLeaf
    <2>1. xpc = "node" /\ ptrs # <<>> /\ Head(ptrs).leaf
      BY <1>7 DEF FileLeaf
    <2>2. ptrs \in Seq(NodePtrs(disk))
      BY <2>1 DEF MatchInv, FileWork
    <2>3. PICK p \in NodePtrs(disk) : p = Head(ptrs)
      BY <2>1, <2>2, TailAt
    <2>4. PICK block : block = BlockAt(disk, p.bno)
      OBVIOUS
    <2>5. /\ OnDevice(disk, p.bno) /\ block.magic = "BMA3" /\ block.level = 0
          /\ block.recs \in Seq(Words)
      BY <1>1, <2>1, <2>3, <2>4, PtrAre
    <2>6. At(disk, p.bno) \in DOMAIN disk.dev /\ disk.dev[At(disk, p.bno)] = block
          /\ disk.dev[xal_fsbno_offset(p.bno)] = block
      BY <1>1, <2>4, <2>5, BlockFound DEF BlockAt
    <2>7. Len(block.recs) \in Nat /\ Len(block.recs) <= extents.growby
      BY <1>2, <2>5, <2>6 DEF ClaimsFit, Nodes
    <2>8. PICK inode : inode = [imem[self] EXCEPT !.count = @ + Len(block.recs)]
      OBVIOUS
    <2>9. Return("EIO") \/ StoreExtents(block.recs, inode, "node", Tail(ptrs))
      BY <1>7, <2>3, <2>5, <2>6, <2>8 DEF FileLeaf
    <2>10. CASE Return("EIO")
      BY <2>10 DEF Return, Accepted
    <2> QED BY <1>3, <2>7, <2>9, <2>10
  <1> QED BY <1>4, <1>5, <1>6, <1>7

AcceptInvariant == TreeInvariant /\ FoundInv /\ AcceptInv

\* The inductive invariant.
LEMMA AcceptHeld ==
  ASSUME ~BeyondMapped, ValidConsistent, ValidIndexable, \A d \in Images : NoSparse(d)
  PROVE  (Init => AcceptInvariant) /\ (AcceptInvariant /\ [Next]_vars => AcceptInvariant')
  <1>1. Init => AcceptInvariant
    <2> SUFFICES ASSUME Init PROVE AcceptInvariant
      OBVIOUS
    <2>1. TreeInvariant /\ FoundInv
      BY TreeHeld, FoundInit
    <2>2. GrowInv /\ FilledInv /\ NodesInv
      BY DEF Init, RetrieveInit, IndexInit, OpenPool, GrowInv, FilledInv, NodesInv
    <2> QED BY <2>1, <2>2 DEF AcceptInvariant, AcceptInv
  <1>2. ASSUME AcceptInvariant, [Next]_vars PROVE AcceptInvariant'
    <2>1. TreeInvariant' /\ ThreadInv /\ RetrieveInv /\ IndexInv
      BY <1>2, TreeHeld DEF AcceptInvariant, TreeInvariant
    <2>2. FoundInv'
      BY <1>2, <2>1, FoundStep DEF AcceptInvariant
    <2>3. GrowInv' /\ FilledInv' /\ NodesInv'
      BY <1>2, <2>1, GrowStep, FilledStep, NodesStep DEF AcceptInvariant, AcceptInv
    <2> QED BY <2>1, <2>2, <2>3 DEF AcceptInvariant, AcceptInv
  <1> QED BY <1>1, <1>2

\* A step of xal_index() in progress, action by action.
LEMMA IndexAccepts ==
  ASSUME ~BeyondMapped, IndexesFit, ValidConsistent, ValidIndexable, AcceptInvariant, disk.valid,
         xpc # "idle", [Next]_vars
  PROVE  Accepted
  <1>1. /\ ThreadInv /\ RetrieveInv /\ IndexInv /\ MatchInv /\ FoundInv /\ GrowInv /\ FilledInv
    BY DEF AcceptInvariant, TreeInvariant, AcceptInv
  <1>2. CASE CallRetrieve \/ CallIndex \/ IndexDies
    BY <1>2 DEF CallRetrieve, CallIndex, IndexDies, IndexStart, IndexRefused
  <1>3. CASE Retrieve \/ UNCHANGED vars
    BY <1>3 DEF Retrieve, vars, indexVars, walkVars, Accepted
  <1>4. CASE Index
    <2>1. CASE Unsupported \/ UnknownFormat \/ DirExtents \/ DirBtree \/ FileBtree
      BY <1>1, <2>1, FormAccepts
    <2>2. CASE DirLeaf \/ DirBlock \/ FileNode
      BY <1>1, <2>2, ReadAccepts
    <2>3. CASE DirLocal \/ Dentry \/ FileExtents \/ FileLeaf
      BY <1>1, <2>3, ClaimAccepts
    <2>4. CASE DirExtent \/ DirExtentsDone \/ DirLeavesDone \/ DirBlocksDone \/ DentriesDone \/ FileDone
               \/ NextChild \/ ChildrenDone
      BY <2>4 DEF DirExtent, DirExtentsDone, DirLeavesDone, DirBlocksDone, DentriesDone, FileDone,
           NextChild, ChildrenDone, Descend, Return, Accepted
    <2> QED BY <1>4, <2>1, <2>2, <2>3, <2>4 DEF Index, Indexing
  <1> QED BY <1>2, <1>3, <1>4 DEF Next

\* On a consistent file system, within what the pools can claim at once, a
\* retrieval in progress fails when the device does and xal_index() when the
\* device or the memory does: no form that an inode may have, no order of calls
\* and nothing that earlier calls left behind makes either refuse it.
THEOREM ValidDiskIsAccepted ==
  ASSUME ~BeyondMapped, IndexesFit, ValidConsistent, ValidIndexable, \A d \in Images : NoSparse(d)
  PROVE  Spec => AcceptsValidDisk
  <1>1. (Init => AcceptInvariant) /\ (AcceptInvariant /\ [Next]_vars => AcceptInvariant')
    BY AcceptHeld
  <1>2. AcceptInvariant /\ [Next]_vars =>
          [disk.valid =>
             /\ xpc # "idle" /\ xpc' = "idle" => xerr' \in {"OK", "EIO", "ENOMEM"}
             /\ rpc # "idle" /\ rpc' = "idle" => rerr' \in {"OK", "EIO"}]_vars
    <2> SUFFICES ASSUME AcceptInvariant, [Next]_vars, disk.valid
                 PROVE  /\ xpc # "idle" /\ xpc' = "idle" => xerr' \in {"OK", "EIO", "ENOMEM"}
                        /\ rpc # "idle" /\ rpc' = "idle" => rerr' \in {"OK", "EIO"}
      OBVIOUS
    <2>1. RetrieveInv /\ NodesInv
      BY DEF AcceptInvariant, TreeInvariant, AcceptInv
    <2> QED BY <2>1, IndexAccepts, RetrieveAccepts DEF Accepted
  <1> QED BY <1>1, <1>2, PTL DEF Spec, AcceptsValidDisk
=============================================================================
