------------------------ MODULE FiemapSystem_proofs ------------------------
(***************************************************************************)
(* Proofs about FiemapSystem for every tree of paths, every extent mapping, *)
(* any number of changes, events and indexes, and every watch mode: type    *)
(* correctness, and what the threads may do to the index at the same time.  *)
(***************************************************************************)
EXTENDS FiemapSystem, PoolOps_proofs, FiniteSetTheorems, SequenceTheorems, TLAPS

-----------------------------------------------------------------------------
\* What the assumptions say about paths.
LEMMA PathFacts ==
  /\ \A e \in Entries : e \in Path[e] /\ Root \in Path[e] /\ Path[e] \subseteq Entries
  /\ \A e \in Entries \ {Root} : Parent[e] \in Dirs /\ Path[e] = {e} \cup Path[Parent[e]]
  /\ Root \in Dirs /\ Path[Root] = {Root} /\ Files \subseteq Entries \ {Root}
  /\ Dirs \cap Files = {} /\ Dirs \subseteq Entries /\ Entries = Dirs \cup Files
  <1>1. \A e \in Entries \ {Root} : Parent[e] \in Dirs /\ Path[e] = {e} \cup Path[Parent[e]]
    BY FsAssumption, PathAssumption
  <1>2. Root \in Dirs /\ Dirs \cap Files = {} /\ Path[Root] = {Root}
    BY FsAssumption, PathAssumption
  <1>3. \A e \in Entries : Root \in Path[e] /\ Path[e] \subseteq Entries
    BY PathAssumption
  <1> QED BY <1>1, <1>2, <1>3 DEF Entries

\* The next directory below an entry on the path to another one.
LEMMA NextOnPath ==
  ASSUME NEW e \in Entries, NEW a \in Path[e], a # e
  PROVE  \E c \in Path[e] \ {Root} : Parent[c] = a
  BY PathAssumption

-----------------------------------------------------------------------------
\* The event queue of the kernel: only an overflow event exceeds its limit.
QueueOK(q) ==
  /\ q \in Seq(Events) /\ Len(q) <= MaxQueue + 1
  /\ Len(q) = MaxQueue + 1 => Last(q) = Overflow

\* An event leaves the queue within its limit, and not empty.
LEMMA EnqueueKeepsQueue ==
  ASSUME NEW q, QueueOK(q), NEW ev \in Events
  PROVE  QueueOK(Enqueue(q, ev)) /\ Enqueue(q, ev) # <<>>
  <1>1. Overflow \in Events
    BY FsAssumption DEF Overflow, Event, Events, Kinds, Entries
  <1>2. ASSUME NEW x \in Events
        PROVE  /\ Append(q, x) \in Seq(Events) /\ Len(Append(q, x)) = Len(q) + 1
               /\ Last(Append(q, x)) = x /\ Append(q, x) # <<>>
    BY <1>2 DEF QueueOK, Last
  <1>3. Len(q) \in Nat /\ MaxQueue \in Nat \ {0}
    BY FsAssumption DEF QueueOK
  <1>4. CASE q # <<>> /\ Last(q) = ev
    BY <1>4 DEF Enqueue
  <1>5. CASE ~(q # <<>> /\ Last(q) = ev) /\ Len(q) < MaxQueue
    BY <1>2, <1>3, <1>5 DEF Enqueue, QueueOK
  <1>6. CASE ~(q # <<>> /\ Last(q) = ev) /\ Len(q) >= MaxQueue /\ Last(q) = Overflow
    BY <1>3, <1>6 DEF Enqueue
  <1>7. CASE ~(q # <<>> /\ Last(q) = ev) /\ Len(q) >= MaxQueue /\ Last(q) # Overflow
    BY <1>1, <1>2, <1>3, <1>7 DEF Enqueue, QueueOK
  <1> QED BY <1>3, <1>4, <1>5, <1>6, <1>7

LEMMA NotifyKeepsQueue ==
  ASSUME NEW q, QueueOK(q), NEW d, NEW ev \in Events
  PROVE  /\ QueueOK(Notify(q, d, ev))
         /\ q # <<>> \/ d \in watched => Notify(q, d, ev) # <<>>
  BY EnqueueKeepsQueue DEF Notify

\* read() takes events from the front; it takes one if there is one.
LEMMA ReadKeepsQueue ==
  ASSUME NEW q, QueueOK(q), NEW n, n = Least(Len(q), MaxRead)
  PROVE  /\ SubSeq(q, 1, n) \in Seq(Events) /\ Len(SubSeq(q, 1, n)) = n /\ n <= MaxRead
         /\ QueueOK(SubSeq(q, n + 1, Len(q)))
         /\ n = 0 => q = <<>> /\ SubSeq(q, n + 1, Len(q)) = <<>>
         /\ n \in Nat
  <1>1. Len(q) \in Nat /\ MaxRead \in Nat \ {0} /\ MaxQueue \in Nat \ {0} /\ q \in Seq(Events)
    BY FsAssumption, MaxReadAssumption DEF QueueOK
  <1>2. n \in 0 .. Len(q) /\ n <= MaxRead /\ (n = 0 => Len(q) = 0)
    BY <1>1 DEF Least
  <1>3. SubSeq(q, 1, n) \in Seq(Events) /\ Len(SubSeq(q, 1, n)) = n
    BY <1>1, <1>2, SubSeqProperties
  <1>4. /\ SubSeq(q, n + 1, Len(q)) \in Seq(Events)
        /\ Len(SubSeq(q, n + 1, Len(q))) = Len(q) - n
    BY <1>1, <1>2, SubSeqProperties
  <1>5. QueueOK(SubSeq(q, n + 1, Len(q)))
    BY <1>1, <1>2, <1>4 DEF QueueOK
  <1>6. n = 0 => q = <<>> /\ SubSeq(q, n + 1, Len(q)) = <<>>
    BY <1>1, <1>2, <1>4, EmptySeq
  <1> QED BY <1>2, <1>3, <1>5, <1>6

-----------------------------------------------------------------------------
\* What FIEMAP returns is a prefix of the mapping, or past the buffer.
LEMMA MappedType ==
  ASSUME NEW m \in ExtMaps, NEW n \in Nat
  PROVE  /\ MappedCount(n, m) \in 0 .. Len(m) /\ MappedCount(n, m) \in Nat
         /\ Mapped(n, m) \in Mappings
  <1>1. m \in Seq(STRING) /\ Len(m) \in Nat
    BY FsAssumption
  <1>2. MappedCount(n, m) \in 0 .. Len(m)
    BY <1>1 DEF MappedCount
  <1> QED BY <1>1, <1>2 DEF Mapped, Mappings, Prefixes

LEMMA ChildrenFinite ==
  ASSUME present \subseteq Entries, NEW d
  PROVE  Children(d) \subseteq Entries \ {Root} /\ Cardinality(Children(d)) \in Nat
  <1>1. IsFiniteSet(Entries)
    BY FsAssumption, FS_Union DEF Entries
  <1>2. Children(d) \subseteq Entries \ {Root}
    BY DEF Children
  <1>3. IsFiniteSet(Children(d))
    BY <1>1, <1>2, FS_Subset
  <1> QED BY <1>2, <1>3, FS_CardinalityType
-----------------------------------------------------------------------------
\* What the two threads hold, depending on where they are.
IndexPlace ==
  /\ mpc \in {"watch", "list"} => cur \in Dirs
  /\ mpc \in {"open", "map", "store"} => cur \in Files
WatchPlace ==
  /\ wpc \in {"open", "map", "store", "stat"} => wcur \in Files
  /\ wpc \in {"event", "lock", "open", "map", "store", "stat"} => buf # <<>>

\* A pool hands out no more than it has made usable.
PoolsInv == inodes.free <= inodes.allocated /\ extents.free <= extents.allocated

TypeInv == TypeOK /\ QueueOK(queue) /\ IndexPlace /\ WatchPlace /\ PoolsInv

\* The file system, as other processes change it.
LEMMA FsTypeStep ==
  ASSUME FsTypeOK, QueueOK(queue), FsNext
  PROVE  FsTypeOK' /\ QueueOK(queue')
  <1>1. \A k \in Kinds, d \in Dirs, e \in Entries : Event(k, d, e) \in Events
    BY DEF Event, Events
  <1>2. \A e \in Entries \ {Root} : Parent[e] \in Dirs
    BY FsAssumption
  <1>3. Files \subseteq Entries \ {Root} /\ Dirs \subseteq Entries /\ Root \in Dirs
    BY FsAssumption DEF Entries
  <1>4. Change => changes' \in 0 .. MaxChanges
    BY FsAssumption DEF Change, FsTypeOK
  <1>5. QueueOK(queue') => queue' \in Seq(Events) /\ Len(queue') <= MaxQueue + 1
    BY DEF QueueOK
  <1>6. ASSUME NEW f \in Files, CreateFile(f) PROVE FsTypeOK' /\ QueueOK(queue')
    <2>1. QueueOK(queue')
      BY <1>1, <1>2, <1>3, <1>6, NotifyKeepsQueue DEF CreateFile, Kinds
    <2> QED BY <1>3, <1>4, <1>5, <1>6, <2>1 DEF CreateFile, FsTypeOK
  <1>7. ASSUME NEW f \in Files, Unlink(f) PROVE FsTypeOK' /\ QueueOK(queue')
    <2>1. QueueOK(queue')
      BY <1>1, <1>2, <1>3, <1>7, NotifyKeepsQueue DEF Unlink, Kinds
    <2> QED BY <1>3, <1>4, <1>5, <1>7, <2>1 DEF Unlink, FsTypeOK
  <1>8. ASSUME NEW f \in Files, Modify(f) PROVE FsTypeOK' /\ QueueOK(queue')
    <2>1. QueueOK(queue')
      BY <1>1, <1>2, <1>3, <1>8, NotifyKeepsQueue DEF Modify, Kinds
    <2> QED BY <1>3, <1>4, <1>5, <1>8, <2>1 DEF Modify, FsTypeOK
  <1>9. ASSUME NEW d \in Dirs, Mkdir(d) PROVE FsTypeOK' /\ QueueOK(queue')
    <2>1. d # Root
      BY <1>9 DEF Mkdir, FsTypeOK
    <2>2. QueueOK(queue')
      BY <1>1, <1>2, <1>3, <1>9, <2>1, NotifyKeepsQueue DEF Mkdir, Kinds
    <2> QED BY <1>3, <1>4, <1>5, <1>9, <2>2 DEF Mkdir, FsTypeOK
  <1>10. ASSUME NEW d \in Dirs, Rmdir(d) PROVE FsTypeOK' /\ QueueOK(queue')
    <2>1. QueueOK(Notify(queue, Parent[d], Event("delete", Parent[d], d)))
      BY <1>1, <1>2, <1>3, <1>10, NotifyKeepsQueue DEF Rmdir, Kinds
    <2>2. QueueOK(queue')
      BY <1>1, <1>3, <1>10, <2>1, NotifyKeepsQueue DEF Rmdir, Kinds
    <2> QED BY <1>3, <1>4, <1>5, <1>10, <2>2 DEF Rmdir, FsTypeOK
  <1>11. CASE Unmount
    <2>1. QueueOK(queue')
      BY <1>1, <1>3, <1>11, EnqueueKeepsQueue DEF Unmount, Kinds
    <2> QED BY <1>3, <1>5, <1>11, <2>1, FsAssumption DEF Unmount, FsTypeOK
  <1> QED BY <1>6, <1>7, <1>8, <1>9, <1>10, <1>11 DEF FsNext
-----------------------------------------------------------------------------
\* A claim of the extents of a file, by either thread.
LEMMA ClaimMappingEffect ==
  ASSUME TypeInv, NEW f \in Files, NEW n \in Nat, ClaimMapping(f, n)
  PROVE  /\ extents' \in Pools /\ extents'.free <= extents'.allocated
         /\ text' = [text EXCEPT ![f] = Blank]
  <1>1. ext[f] \in ExtMaps /\ extents \in Pools /\ extents.free <= extents.allocated
    BY DEF TypeInv, TypeOK, FsTypeOK, IndexTypeOK, PoolsInv
  <1>2. MappedCount(n, ext[f]) \in Nat
    BY <1>1, MappedType
  <1>3. PICK ok \in BOOLEAN :
          /\ extents' = xal_pool_claim_extents(extents, MappedCount(n, ext[f]), ok).pool
          /\ text' = [text EXCEPT ![f] = Blank]
    BY DEF ClaimMapping
  <1>4. ClaimOutcome(extents, MappedCount(n, ext[f]), ok,
                     xal_pool_claim_extents(extents, MappedCount(n, ext[f]), ok).err,
                     extents')
    BY <1>1, <1>2, <1>3, ClaimExtentsOutcome
  <1> QED BY <1>3, <1>4 DEF ClaimOutcome

\* What IndexClear does to the pools: both stay pools.
LEMMA IndexClearEffect ==
  ASSUME TypeInv, IndexClear
  PROVE  /\ inodes' \in Pools /\ inodes'.free <= inodes'.allocated
         /\ extents' \in Pools /\ extents'.free <= extents'.allocated
         /\ rootIdx' \in Nat \cup {-1}
         /\ \/ rootIdx' # -1 /\ todo' = {Root} /\ mpc' = "entry" /\ err' = err
            \/ rootIdx' = rootIdx /\ todo' = {} /\ mpc' = "unlock"
               /\ err' \in PoolErrors \ {"OK"}
  <1>1. /\ inodes \in Pools /\ extents \in Pools /\ rootIdx \in Nat \cup {-1}
        /\ inodes.free <= inodes.allocated /\ extents.free <= extents.allocated
    BY DEF TypeInv, TypeOK, IndexTypeOK, PoolsInv
  <1>2. PICK oki \in BOOLEAN, oke \in BOOLEAN, ok \in BOOLEAN :
          LET empty == ClearedPool(inodes, oki)
              root  == xal_pool_claim_inodes(empty, 1, ok)
          IN /\ inodes' = root.pool
             /\ extents' = ClearedPool(extents, oke)
             /\ IF root.err = "OK"
                  THEN /\ rootIdx' = empty.free /\ todo' = {Root}
                       /\ mpc' = "entry" /\ UNCHANGED err
                  ELSE /\ UNCHANGED rootIdx /\ todo' = {}
                       /\ mpc' = "unlock" /\ err' = root.err
    BY DEF IndexClear, Goto, Fail
  <1>3. ASSUME NEW p \in Pools, p.free <= p.allocated, NEW b \in BOOLEAN
        PROVE  ClearedPool(p, b) \in Pools /\ ClearedPool(p, b).free <= ClearedPool(p, b).allocated
    BY <1>3, ClearOutcome DEF ClearedPool
  <1> DEFINE empty == ClearedPool(inodes, oki)
             root  == xal_pool_claim_inodes(empty, 1, ok)
  <1>4. empty \in Pools /\ empty.free <= empty.allocated
    BY <1>1, <1>3
  <1>5. ClaimOutcome(empty, 1, ok, root.err, root.pool)
    BY <1>4, ClaimInodesOutcome
  <1>6. extents' \in Pools /\ extents'.free <= extents'.allocated
    BY <1>1, <1>2, <1>3
  <1>7. /\ inodes' = root.pool
        /\ IF root.err = "OK"
             THEN /\ rootIdx' = empty.free /\ todo' = {Root}
                  /\ mpc' = "entry" /\ UNCHANGED err
             ELSE /\ UNCHANGED rootIdx /\ todo' = {}
                  /\ mpc' = "unlock" /\ err' = root.err
    BY <1>2
  <1>8. empty.free \in Nat
    BY <1>4 DEF Pools
  <1> HIDE DEF root, empty
  <1> QED BY <1>1, <1>5, <1>6, <1>7, <1>8 DEF ClaimOutcome

\* What ListDir does to the pool of inodes.
LEMMA ListDirEffect ==
  ASSUME TypeInv, ListDir
  PROVE  /\ inodes' \in Pools /\ inodes'.free <= inodes'.allocated
         /\ \/ cur \in present /\ todo' = todo \cup Children(cur) /\ mpc' = "entry" /\ err' = err
            \/ todo' = todo /\ mpc' = "unlock" /\ err' \in Errors \ {"OK", "NONE"}
  <1>1. inodes \in Pools /\ inodes.free <= inodes.allocated
    BY DEF TypeInv, TypeOK, IndexTypeOK, PoolsInv
  <1>2. CASE \E e \in {"ENOENT", "ENOMEM"} : Fail(e) /\ UNCHANGED <<todo, inodes>>
    BY <1>1, <1>2 DEF Fail, Errors, PoolErrors
  <1>3. CASE cur \in present /\ ~\E e \in {"ENOENT", "ENOMEM"} : Fail(e) /\ UNCHANGED <<todo, inodes>>
    <2> DEFINE n == Cardinality(Children(cur))
    <2>1. PICK ok \in BOOLEAN :
            LET c == xal_pool_claim_inodes(inodes, n, ok) IN
            /\ inodes' = c.pool
            /\ IF c.err = "OK"
                 THEN todo' = todo \cup Children(cur) /\ mpc' = "entry" /\ UNCHANGED err
                 ELSE mpc' = "unlock" /\ err' = c.err /\ UNCHANGED todo
      BY <1>3 DEF ListDir, Goto, Fail
    <2>2. n \in Nat
      BY ChildrenFinite DEF TypeInv, TypeOK, FsTypeOK
    <2> HIDE DEF n
    <2>3. ClaimOutcome(inodes, n, ok, xal_pool_claim_inodes(inodes, n, ok).err,
                       xal_pool_claim_inodes(inodes, n, ok).pool)
      BY <1>1, <2>2, ClaimInodesOutcome
    <2> QED BY <1>3, <2>1, <2>3 DEF ClaimOutcome, Errors, PoolErrors
  <1> QED BY <1>2, <1>3 DEF ListDir

\* The indexing thread.
LEMMA IndexTypeStep ==
  ASSUME TypeInv, IndexNext
  PROVE  FsTypeOK' /\ QueueOK(queue') /\ IndexTypeOK' /\ PoolsInv' /\ IndexPlace'
  <1> USE DEF Goto, Fail, IndexPlace
  <1>1. FsTypeOK /\ IndexTypeOK /\ QueueOK(queue) /\ IndexPlace /\ PoolsInv
    BY DEF TypeInv, TypeOK
  <1>2. <<>> \in Mappings /\ Blank \in Mappings
    BY DEF Mappings, Prefixes
  <1>3. {"OK", "EAGAIN", "ENOENT", "ENOSPC", "EIO", "EINVAL"} \cup PoolErrors \subseteq Errors
    BY DEF Errors, PoolErrors
  <1>4. CASE IndexClear
    <2>1. /\ inodes' \in Pools /\ extents' \in Pools /\ PoolsInv'
          /\ rootIdx' \in Nat \cup {-1} /\ todo' \subseteq Entries
          /\ mpc' \in {"entry", "unlock"} /\ err' \in Errors
      BY <1>1, <1>3, <1>4, IndexClearEffect, FsAssumption DEF PoolsInv, IndexTypeOK, Entries
    <2>2. kids' \in [Dirs -> SUBSET (Entries \ {Root})] /\ text' \in [Files -> Mappings]
      BY <1>2, <1>4 DEF IndexClear
    <2>3. FsTypeOK' /\ QueueOK(queue')
      BY <1>1, <1>4 DEF IndexClear, fsVars, FsTypeOK
    <2>4. wdMap' = {} /\ UNCHANGED <<dirty, seq, cur, nmap, got>>
      BY <1>4 DEF IndexClear
    <2> QED BY <1>1, <2>1, <2>2, <2>3, <2>4 DEF IndexTypeOK, Steps
  <1>5. CASE ProcessIno
    <2>1. PICK e \in todo :
            /\ todo' = todo \ {e} /\ cur' = e /\ kids' = Linked(e)
            /\ \/ mpc' = "unlock" /\ err' \in {"EAGAIN", "EINVAL"}
               \/ /\ UNCHANGED err
                  /\ mpc' = IF e \in Files THEN "open"
                            ELSE IF WatchMode = "none" THEN "list" ELSE "watch"
      BY <1>5 DEF ProcessIno
    <2>2. e \in Entries /\ todo' \subseteq Entries
      BY <1>1, <2>1 DEF IndexTypeOK
    <2>3. kids' \in [Dirs -> SUBSET (Entries \ {Root})]
      BY <1>1, <2>1, <2>2, FsAssumption DEF Linked, IndexTypeOK
    <2>4. IndexPlace' /\ mpc' \in Steps /\ err' \in Errors
      BY <1>1, <1>3, <2>1, <2>2 DEF Entries, Steps, IndexTypeOK
    <2>5. /\ FsTypeOK' /\ QueueOK(queue') /\ PoolsInv'
          /\ UNCHANGED <<dirty, seq, rootIdx, text, wdMap, inodes, extents, nmap, got>>
      BY <1>1, <1>5 DEF ProcessIno, fsVars, FsTypeOK, PoolsInv
    <2> QED BY <1>1, <2>1, <2>2, <2>3, <2>4, <2>5 DEF IndexTypeOK
  <1>6. CASE AddWatcher
    <2>1. cur \in Dirs
      BY <1>1, <1>6 DEF AddWatcher, IndexPlace
    <2> QED BY <1>1, <1>3, <1>6, <2>1 DEF AddWatcher, FsTypeOK, IndexTypeOK, PoolsInv, Steps
  <1>7. CASE ListDir
    <2>1. Children(cur) \subseteq Entries \ {Root}
      BY <1>1, ChildrenFinite DEF FsTypeOK
    <2>2. /\ inodes' \in Pools /\ inodes'.free <= inodes'.allocated /\ todo' \subseteq Entries
          /\ mpc' \in {"entry", "unlock"} /\ err' \in Errors
      BY <1>1, <1>7, <2>1, ListDirEffect DEF IndexTypeOK
    <2>3. /\ UNCHANGED <<dirty, seq, rootIdx, kids, text, wdMap, extents, cur, nmap, got>>
          /\ UNCHANGED fsVars
      BY <1>7 DEF ListDir
    <2> QED BY <1>1, <2>2, <2>3 DEF fsVars, FsTypeOK, IndexTypeOK, PoolsInv, Steps
  <1>8. CASE OpenFile
    <2>1. cur \in Files
      BY <1>1, <1>8 DEF OpenFile, IndexPlace
    <2>2. Len(ext[cur]) \in Nat
      BY <1>1, <2>1, FsAssumption DEF FsTypeOK
    <2> QED BY <1>1, <1>3, <1>8, <2>1, <2>2
            DEF OpenFile, fsVars, treeVars, FsTypeOK, IndexTypeOK, PoolsInv, Steps
  <1>9. CASE MapFile
    <2>1. cur \in Files /\ nmap \in Nat /\ ext[cur] \in ExtMaps
      BY <1>1, <1>9 DEF MapFile, IndexPlace, IndexTypeOK, FsTypeOK
    <2>2. /\ UNCHANGED <<dirty, seq, rootIdx, kids, wdMap, inodes, cur, todo, nmap>>
          /\ UNCHANGED fsVars
      BY <1>9 DEF MapFile
    <2>3. CASE mpc' = "entry" /\ UNCHANGED <<err, got, text, extents>>
      BY <1>1, <2>2, <2>3 DEF fsVars, FsTypeOK, IndexTypeOK, PoolsInv, Steps
    <2>4. CASE /\ ClaimMapping(cur, nmap) /\ got' = Mapped(nmap, ext[cur])
               /\ mpc' = "store" /\ UNCHANGED err
      <3>1. /\ extents' \in Pools /\ extents'.free <= extents'.allocated
            /\ text' = [text EXCEPT ![cur] = Blank] /\ got' \in Mappings
        BY <2>1, <2>4, ClaimMappingEffect, MappedType
      <3> QED BY <1>1, <1>2, <2>1, <2>2, <2>4, <3>1
              DEF fsVars, FsTypeOK, IndexTypeOK, PoolsInv, Steps
    <2>5. ASSUME NEW e \in PoolErrors, mpc' = "unlock", err' = e,
                 UNCHANGED <<got, text, extents>>
          PROVE  FsTypeOK' /\ QueueOK(queue') /\ IndexTypeOK' /\ PoolsInv' /\ IndexPlace'
      BY <1>1, <1>3, <2>2, <2>5 DEF fsVars, FsTypeOK, IndexTypeOK, PoolsInv, Steps
    <2>6. CASE OtherErrors /\ Fail("EIO") /\ UNCHANGED <<got, text, extents>>
      BY <1>1, <1>3, <2>2, <2>6 DEF fsVars, FsTypeOK, IndexTypeOK, PoolsInv, Steps
    <2> QED BY <1>9, <2>1, <2>2, <2>3, <2>4, <2>5, <2>6 DEF MapFile
  <1>10. CASE StoreExtents
    <2>1. cur \in Files
      BY <1>1, <1>10 DEF StoreExtents, IndexPlace
    <2> QED BY <1>1, <1>10, <2>1
            DEF StoreExtents, fsVars, FsTypeOK, IndexTypeOK, PoolsInv, Steps
  <1>11. CASE IndexClean
    BY <1>1, <1>11 DEF IndexClean, fsVars, treeVars, FsTypeOK, IndexTypeOK, PoolsInv, Steps
  <1>12. CASE IndexExit
    BY <1>1, <1>12 DEF IndexExit, fsVars, treeVars, FsTypeOK, IndexTypeOK, PoolsInv, Steps
  <1> QED BY <1>4, <1>5, <1>6, <1>7, <1>8, <1>9, <1>10, <1>11, <1>12 DEF IndexNext

\* The watcher thread.
LEMMA WatchTypeStep ==
  ASSUME TypeInv, WatchNext
  PROVE  /\ FsTypeOK' /\ QueueOK(queue') /\ IndexTypeOK' /\ PoolsInv'
         /\ WatchTypeOK' /\ WatchPlace' /\ UNCHANGED walkVars
  <1> USE DEF WGoto
  <1>1. FsTypeOK /\ IndexTypeOK /\ WatchTypeOK /\ QueueOK(queue) /\ WatchPlace /\ PoolsInv
    BY DEF TypeInv, TypeOK
  <1>2. buf # <<>> => /\ Tail(buf) \in Seq(Events) /\ Len(Tail(buf)) <= MaxRead
                      /\ Head(buf) \in Events
    BY <1>1, MaxReadAssumption DEF WatchTypeOK
  <1>3. <<>> \in Seq(Events) /\ Len(<<>>) <= MaxRead
    BY MaxReadAssumption, EmptySeq
  <1>4. ASSUME UNCHANGED indexVars
        PROVE  IndexTypeOK' /\ PoolsInv' /\ UNCHANGED walkVars
    BY <1>1, <1>4 DEF indexVars, treeVars, walkVars, IndexTypeOK, PoolsInv
  <1>5. ASSUME UNCHANGED fsVars PROVE FsTypeOK' /\ QueueOK(queue')
    BY <1>1, <1>5 DEF fsVars, FsTypeOK
  <1>6. ASSUME seq' \in Nat, UNCHANGED <<dirty, treeVars, walkVars>>
        PROVE  IndexTypeOK' /\ PoolsInv'
    BY <1>1, <1>6 DEF treeVars, walkVars, IndexTypeOK, PoolsInv
  <1>7. seq + 1 \in Nat
    BY <1>1 DEF IndexTypeOK
  <1>8. CASE LoadDirty
    BY <1>1, <1>4, <1>5, <1>8 DEF LoadDirty, WatchTypeOK, WatchPlace, WatchSteps
  <1>9. CASE ReadEvents
    <2> DEFINE n == Least(Len(queue), MaxRead)
    <2>1. /\ buf' = SubSeq(queue, 1, n)
          /\ queue' = SubSeq(queue, n + 1, Len(queue))
          /\ wpc' = IF n = 0 THEN "load" ELSE "event"
          /\ UNCHANGED indexVars
          /\ UNCHANGED <<present, gone, ext, watched, changes, wcur, wnmap, wgot>>
      BY <1>9 DEF ReadEvents
    <2> HIDE DEF n
    <2>2. /\ buf' \in Seq(Events) /\ Len(buf') = n /\ n <= MaxRead /\ n \in Nat
          /\ QueueOK(queue')
      BY <1>1, <2>1, ReadKeepsQueue DEF n
    <2>3. n # 0 => buf' # <<>>
      BY <2>2
    <2> QED BY <1>1, <1>4, <2>1, <2>2, <2>3
            DEF QueueOK, FsTypeOK, WatchTypeOK, WatchPlace, WatchSteps
  <1>10. CASE HandleEvent
    <2>1. UNCHANGED fsVars /\ UNCHANGED indexVars /\ UNCHANGED <<wcur, wnmap, wgot>>
      BY <1>10 DEF HandleEvent
    <2>2. buf # <<>>
      BY <1>1, <1>10 DEF HandleEvent, WatchPlace
    <2>3. \/ buf' = <<>> /\ wpc' = "mark"
          \/ buf' = buf /\ wpc' \in {"dead", "lock"}
          \/ NextEvent(Tail(buf))
      BY <1>10 DEF HandleEvent, Breaking
    <2> QED BY <1>1, <1>2, <1>3, <1>4, <1>5, <2>1, <2>2, <2>3
            DEF NextEvent, WatchTypeOK, WatchPlace, WatchSteps
  <1>11. CASE LockAndFind
    <2>1. /\ UNCHANGED fsVars /\ UNCHANGED <<dirty, treeVars, walkVars, buf, wnmap, wgot>>
          /\ seq' \in Nat
          /\ \/ wcur' \in Files /\ wpc' = "open"
             \/ wcur' = wcur /\ wpc' = "failed"
      BY <1>7, <1>11 DEF LockAndFind
    <2>2. buf # <<>>
      BY <1>1, <1>11 DEF LockAndFind, WatchPlace
    <2> QED BY <1>1, <1>5, <1>6, <2>1, <2>2
            DEF WatchTypeOK, WatchPlace, WatchSteps, Entries
  <1>12. CASE RefreshOpen
    <2>1. wcur \in Files /\ buf # <<>>
      BY <1>1, <1>12 DEF RefreshOpen, WatchPlace
    <2>2. Len(ext[wcur]) \in Nat
      BY <1>1, <2>1, FsAssumption DEF FsTypeOK
    <2> QED BY <1>1, <1>4, <1>5, <1>12, <2>1, <2>2
            DEF RefreshOpen, WatchTypeOK, WatchPlace, WatchSteps
  <1>13. CASE RefreshMap
    <2>1. wcur \in Files /\ buf # <<>> /\ wnmap \in Nat /\ ext[wcur] \in ExtMaps
      BY <1>1, <1>13 DEF RefreshMap, WatchPlace, WatchTypeOK, FsTypeOK
    <2>2. /\ UNCHANGED fsVars
          /\ UNCHANGED <<dirty, seq, rootIdx, kids, wdMap, inodes, walkVars, buf, wcur, wnmap>>
      BY <1>13 DEF RefreshMap
    <2>3. CASE wpc' \in {"stat", "failed"} /\ UNCHANGED <<wgot, text, extents>>
      BY <1>1, <1>5, <2>1, <2>2, <2>3
         DEF walkVars, IndexTypeOK, PoolsInv, WatchTypeOK, WatchPlace, WatchSteps
    <2>4. CASE /\ ClaimMapping(wcur, wnmap) /\ wgot' = Mapped(wnmap, ext[wcur])
               /\ wpc' = "store"
      <3>1. /\ extents' \in Pools /\ extents'.free <= extents'.allocated
            /\ text' = [text EXCEPT ![wcur] = Blank] /\ wgot' \in Mappings
        BY <2>1, <2>4, ClaimMappingEffect, MappedType
      <3>2. text' \in [Files -> Mappings]
        BY <1>1, <2>1, <3>1 DEF IndexTypeOK, Mappings
      <3> QED BY <1>1, <1>5, <2>1, <2>2, <2>4, <3>1, <3>2
              DEF walkVars, IndexTypeOK, PoolsInv, WatchTypeOK, WatchPlace, WatchSteps
    <2> QED BY <1>13, <2>3, <2>4 DEF RefreshMap
  <1>14. CASE RefreshStore
    <2>1. wcur \in Files /\ buf # <<>> /\ wgot \in Mappings
      BY <1>1, <1>14 DEF RefreshStore, WatchPlace, WatchTypeOK
    <2>2. text' \in [Files -> Mappings]
      BY <1>1, <1>14, <2>1 DEF RefreshStore, IndexTypeOK
    <2> QED BY <1>1, <1>5, <1>14, <2>1, <2>2
            DEF RefreshStore, walkVars, IndexTypeOK, PoolsInv, WatchTypeOK, WatchPlace, WatchSteps
  <1>15. CASE RefreshStat
    <2>1. buf # <<>>
      BY <1>1, <1>15 DEF RefreshStat, WatchPlace
    <2>2. /\ UNCHANGED fsVars /\ UNCHANGED <<dirty, treeVars, walkVars, wcur, wnmap, wgot>>
          /\ seq' \in Nat
          /\ NextEvent(Tail(buf)) \/ (wpc' = "failed" /\ buf' = buf)
      BY <1>1, <1>7, <1>15 DEF RefreshStat, IndexTypeOK
    <2> QED BY <1>1, <1>2, <1>3, <1>5, <1>6, <2>1, <2>2
            DEF NextEvent, WatchTypeOK, WatchPlace, WatchSteps
  <1>16. CASE RefreshFailed
    BY <1>1, <1>5, <1>6, <1>7, <1>16 DEF RefreshFailed, WatchTypeOK, WatchPlace, WatchSteps
  <1>17. CASE MarkDirty
    BY <1>1, <1>5, <1>17 DEF MarkDirty, treeVars, walkVars, IndexTypeOK, PoolsInv,
                             WatchTypeOK, WatchPlace, WatchSteps
  <1> QED BY <1>8, <1>9, <1>10, <1>11, <1>12, <1>13, <1>14, <1>15, <1>16, <1>17 DEF WatchNext

\* The reader.
LEMMA WalkTypeStep ==
  ASSUME TypeInv, WalkNext
  PROVE  WalkTypeOK'
  <1>1. FsTypeOK /\ IndexTypeOK /\ WalkTypeOK
    BY DEF TypeInv, TypeOK
  <1>2. CASE ReadSeq
    BY <1>1, <1>2, FsAssumption DEF ReadSeq, WalkTypeOK, IndexTypeOK, Entries
  <1>3. ASSUME NEW step \in {"start", "accepted"}, Ends(step) PROVE WalkTypeOK'
    <2>1. DOMAIN rsaw' = {}
      BY <1>3 DEF Ends, Nothing
    <2> QED BY <1>3, <2>1 DEF Ends, WalkTypeOK
  <1>4. CASE _walk
    <2>1. PICK e \in rtodo :
            IF Stale THEN Ends("start")
            ELSE /\ rsaw' = [x \in DOMAIN rsaw \cup {e} |->
                               IF x = e THEN Content(e) ELSE rsaw[x]]
                 /\ rtodo' = (rtodo \ {e}) \cup (IF e \in Dirs THEN kids[e] ELSE {})
                 /\ rpc' = IF rtodo' = {} THEN "check" ELSE "walk"
                 /\ UNCHANGED rseq
      BY <1>4 DEF _walk
    <2>2. CASE Stale
      BY <1>3, <2>1, <2>2
    <2>3. CASE ~Stale
      <3>1. e \in Entries
        BY <1>1, <2>1 DEF WalkTypeOK
      <3>2. IF e \in Dirs THEN Content(e) \subseteq Entries ELSE Content(e) \in Mappings
        BY <1>1, <3>1 DEF Content, IndexTypeOK, Entries
      <3>3. rtodo' \subseteq Entries
        BY <1>1, <2>1, <2>3 DEF WalkTypeOK, IndexTypeOK
      <3>4. DOMAIN rsaw' \subseteq Entries
        BY <1>1, <2>1, <2>3, <3>1 DEF WalkTypeOK
      <3>5. ASSUME NEW x \in DOMAIN rsaw'
            PROVE  IF x \in Dirs THEN rsaw'[x] \subseteq Entries ELSE rsaw'[x] \in Mappings
        BY <1>1, <2>1, <2>3, <3>2 DEF WalkTypeOK
      <3> QED BY <1>1, <2>1, <2>3, <3>3, <3>4, <3>5 DEF WalkTypeOK
    <2> QED BY <2>2, <2>3
  <1>5. CASE CheckSeq
    BY <1>3, <1>5 DEF CheckSeq
  <1> QED BY <1>2, <1>4, <1>5 DEF WalkNext
-----------------------------------------------------------------------------
LEMMA TypeStep ==
  ASSUME TypeInv, [Next]_vars
  PROVE  TypeInv'
  <1>1. /\ FsTypeOK /\ IndexTypeOK /\ WatchTypeOK /\ WalkTypeOK /\ calls \in 0 .. MaxIndex
        /\ QueueOK(queue) /\ IndexPlace /\ WatchPlace /\ PoolsInv
    BY DEF TypeInv, TypeOK
  <1>2. UNCHANGED indexVars => IndexTypeOK' /\ IndexPlace' /\ PoolsInv'
    BY <1>1 DEF indexVars, treeVars, walkVars, IndexTypeOK, IndexPlace, PoolsInv
  <1>3. UNCHANGED watchVars => WatchTypeOK' /\ WatchPlace'
    BY <1>1 DEF watchVars, WatchTypeOK, WatchPlace
  <1>4. UNCHANGED readVars => WalkTypeOK'
    BY <1>1 DEF readVars, WalkTypeOK
  <1>5. UNCHANGED fsVars => FsTypeOK' /\ QueueOK(queue')
    BY <1>1 DEF fsVars, FsTypeOK
  <1>6. CASE Environment
    BY <1>1, <1>2, <1>3, <1>4, <1>6, FsTypeStep DEF Environment, TypeInv, TypeOK
  <1>7. CASE CallIndex
    <2>1. IndexTypeOK' /\ IndexPlace' /\ PoolsInv' /\ FsTypeOK' /\ QueueOK(queue')
      BY <1>1, <1>5, <1>7 DEF CallIndex, IndexStart, Goto, treeVars, IndexTypeOK, IndexPlace,
                              PoolsInv, Errors, Steps
    <2>2. calls' \in 0 .. MaxIndex
      BY <1>1, <1>7, SystemAssumption DEF CallIndex
    <2> QED BY <1>3, <1>4, <1>7, <2>1, <2>2 DEF CallIndex, TypeInv, TypeOK
  <1>8. CASE StartWatching
    <2>1. WatchTypeOK' /\ WatchPlace'
      BY <1>1, <1>8 DEF StartWatching, WatchStart, WGoto, WatchTypeOK, WatchPlace, WatchSteps
    <2> QED BY <1>1, <1>2, <1>4, <1>5, <1>8, <2>1 DEF StartWatching, WatchStart, TypeInv, TypeOK
  <1>9. CASE Indexer
    BY <1>1, <1>3, <1>4, <1>9, IndexTypeStep DEF Indexer, TypeInv, TypeOK
  <1>10. CASE Watcher
    <2>1. /\ FsTypeOK' /\ QueueOK(queue') /\ IndexTypeOK' /\ PoolsInv'
          /\ WatchTypeOK' /\ WatchPlace' /\ UNCHANGED walkVars
      BY <1>10, WatchTypeStep DEF Watcher
    <2>2. IndexPlace'
      BY <1>1, <2>1 DEF walkVars, IndexPlace
    <2> QED BY <1>1, <1>4, <1>10, <2>1, <2>2 DEF Watcher, TypeInv, TypeOK
  <1>11. CASE Reader
    BY <1>1, <1>2, <1>3, <1>5, <1>11, WalkTypeStep DEF Reader, WalkNext, TypeInv, TypeOK
  <1>12. CASE UNCHANGED vars
    BY <1>1, <1>2, <1>3, <1>4, <1>5, <1>12 DEF vars, TypeInv, TypeOK
  <1> QED BY <1>6, <1>7, <1>8, <1>9, <1>10, <1>11, <1>12 DEF Next

LEMMA TypeInit == Init => TypeInv
  <1> SUFFICES ASSUME Init PROVE TypeInv
    OBVIOUS
  <1>1. FsTypeOK /\ QueueOK(queue)
    BY FsAssumption, FiemapAssumption, EmptySeq
       DEF Init, IndexInit, FsInit, FsTypeOK, QueueOK
  <1>2. OpenPool \in Pools /\ OpenPool.free <= OpenPool.allocated
    <2>1. retrieve_total_entries(Initial) \in Nat
      <3>1. IsFiniteSet(Initial \ {Root})
        <4>1. IsFiniteSet(Entries)
          BY FsAssumption, FS_Union DEF Entries
        <4> QED BY <4>1, FiemapAssumption, FS_Subset
      <3> QED BY <3>1, FS_CardinalityType DEF retrieve_total_entries
    <2> QED BY <2>1, FiemapAssumption DEF OpenPool, Pools
  <1>3. IndexTypeOK /\ IndexPlace /\ PoolsInv
    BY <1>2, FsAssumption DEF Init, IndexInit, IndexTypeOK, IndexPlace, PoolsInv, Steps, Errors,
                              Mappings, Prefixes, Entries
  <1>4. WatchTypeOK /\ WatchPlace
    BY FsAssumption, MaxReadAssumption, EmptySeq
       DEF Init, WatchInit, WatchTypeOK, WatchPlace, WatchSteps, Mappings, Prefixes, Entries
  <1>5. WalkTypeOK /\ calls \in 0 .. MaxIndex
    BY SystemAssumption DEF Init, WalkInit, WalkTypeOK, Nothing
  <1> QED BY <1>1, <1>3, <1>4, <1>5 DEF TypeInv, TypeOK

\* Type correctness of the FIEMAP backend: the threads, the index and the
\* file system stay in their types, the event queue within its limit and the
\* pools consistent, whatever the tree, the mappings and the watch mode.
THEOREM FiemapTypeCorrect == Spec => []TypeOK
  <1>1. TypeInv => TypeOK
    BY DEF TypeInv
  <1> QED BY <1>1, TypeInit, TypeStep, PTL DEF Spec
-----------------------------------------------------------------------------
\* How the flag keeps the two threads apart.  While a watcher exists, a walk is
\* under way only over a tree that is dirty; a watcher that has left its spin
\* loop found it clean, and nobody but itself makes it dirty again.
FlagInv ==
  /\ wpc # "off" => dirty \/ (err = "OK" /\ mpc \in {"idle", "unlock"})
  /\ wpc \notin {"off", "load", "dead"} => ~dirty
  /\ mpc \notin {"idle", "unlock"} => err = "OK"

LEMMA FlagStep ==
  ASSUME IndexWhenStale, TypeInv, FlagInv, [Next]_vars
  PROVE  FlagInv'
  <1> USE DEF FlagInv
  <1>1. CASE Environment
    BY <1>1 DEF Environment, indexVars, walkVars, watchVars
  <1>2. CASE CallIndex
    BY <1>2 DEF CallIndex, MayIndex, IndexStart, Goto, watchVars
  <1>3. CASE StartWatching
    BY <1>3 DEF StartWatching, WatchStart, WGoto, indexVars, walkVars
  <1>4. CASE Indexer
    <2> USE DEF Goto, Fail, watchVars
    <2>1. CASE IndexClear
      BY <1>4, <2>1, IndexClearEffect DEF Indexer, IndexClear
    <2>2. CASE ProcessIno
      BY <1>4, <2>2 DEF Indexer, ProcessIno
    <2>3. CASE AddWatcher
      BY <1>4, <2>3 DEF Indexer, AddWatcher
    <2>4. CASE ListDir
      BY <1>4, <2>4, ListDirEffect DEF Indexer, ListDir
    <2>5. CASE OpenFile
      BY <1>4, <2>5 DEF Indexer, OpenFile
    <2>6. CASE MapFile
      BY <1>4, <2>6 DEF Indexer, MapFile
    <2>7. CASE StoreExtents \/ IndexClean \/ IndexExit
      BY <1>4, <2>7 DEF Indexer, StoreExtents, IndexClean, IndexExit
    <2> QED BY <1>4, <2>1, <2>2, <2>3, <2>4, <2>5, <2>6, <2>7 DEF Indexer, IndexNext
  <1>5. CASE Watcher
    <2>1. UNCHANGED <<mpc, err>>
      BY <1>5, WatchTypeStep DEF Watcher, walkVars
    <2>2. CASE MarkDirty
      BY <2>1, <2>2 DEF MarkDirty, WGoto
    <2>3. CASE ~MarkDirty
      <3>1. /\ wpc # "off" /\ wpc' # "off" /\ dirty' = dirty
            /\ wpc = "load" => ~dirty \/ wpc' = "load"
            /\ wpc = "dead" => wpc' = "dead"
        BY <1>5, <2>3
           DEF Watcher, WatchNext, LoadDirty, ReadEvents, HandleEvent, LockAndFind,
               RefreshOpen, RefreshMap, RefreshStore, RefreshStat, RefreshFailed,
               NextEvent, Breaking, WGoto, indexVars
      <3> QED BY <2>1, <3>1
    <2> QED BY <2>2, <2>3
  <1>6. CASE Reader \/ UNCHANGED vars
    BY <1>6 DEF Reader, WalkNext, vars, indexVars, walkVars, watchVars
  <1> QED BY <1>1, <1>2, <1>3, <1>4, <1>5, <1>6 DEF Next

LEMMA FlagInit == Init => FlagInv
  BY DEF Init, IndexInit, WatchInit, FlagInv

\* xal_index() and the watcher never work on the tree at once, in any watch
\* mode, if the client does not index a tree that is clean: they are kept
\* apart by the dirty flag alone.
THEOREM ThreadsExclude ==
  ASSUME IndexWhenStale
  PROVE  Spec => []Exclusive
  <1>1. TypeInv /\ FlagInv => Exclusive
    BY DEF TypeInv, FlagInv, Exclusive
  <1> QED BY <1>1, TypeInit, TypeStep, FlagInit, FlagStep, PTL DEF Spec
-----------------------------------------------------------------------------
\* Who is between taking the sequence lock and releasing it.
Indexing == mpc # "idle"
Refreshing == wpc \in {"open", "map", "store", "stat", "failed"}

\* The number is odd while exactly one of the threads is in there; the watcher
\* gets there in extent-update mode only.
LockInv ==
  /\ seq % 2 = IF Indexing # Refreshing THEN 1 ELSE 0
  /\ WatchMode # "extent" => wpc \in {"off", "load", "read", "event", "mark"}

LEMMA LockStep ==
  ASSUME TypeInv, LockInv, [Next]_vars
  PROVE  LockInv'
  <1>1. seq \in Nat /\ mpc \in Steps
    BY DEF TypeInv, TypeOK, IndexTypeOK
  <1>2. /\ seq % 2 = 0 => (seq + 1) % 2 = 1
        /\ seq % 2 = 1 => (seq + 1) % 2 = 0
    BY <1>1
  <1>3. CASE UNCHANGED <<seq, mpc, wpc>>
    BY <1>3 DEF LockInv, Indexing, Refreshing
  <1>4. CASE CallIndex
    BY <1>2, <1>4 DEF CallIndex, IndexStart, Goto, watchVars, LockInv, Indexing, Refreshing
  <1>5. CASE StartWatching
    BY <1>5 DEF StartWatching, WatchStart, WGoto, indexVars, walkVars, LockInv, Indexing,
                Refreshing
  <1>6. CASE Indexer
    <2>1. CASE IndexExit
      BY <1>2, <1>6, <2>1 DEF Indexer, IndexExit, Goto, watchVars, LockInv, Indexing, Refreshing
    <2>2. CASE ~IndexExit
      <3>1. mpc # "idle" /\ mpc' # "idle" /\ seq' = seq /\ wpc' = wpc
        BY <1>6, <2>2 DEF Indexer, IndexNext, IndexClear, ProcessIno, AddWatcher, ListDir,
             OpenFile, MapFile, StoreExtents, IndexClean, Goto, Fail, watchVars
      <3> QED BY <3>1 DEF LockInv, Indexing, Refreshing
    <2> QED BY <2>1, <2>2
  <1>7. CASE Watcher
    <2>1. mpc' = mpc
      BY <1>7, WatchTypeStep DEF Watcher, walkVars
    <2>2. CASE LoadDirty \/ ReadEvents \/ MarkDirty
      <3>1. wpc' \in {"load", "read", "event"} /\ seq' = seq /\ ~Refreshing
        BY <2>2 DEF LoadDirty, ReadEvents, MarkDirty, WGoto, indexVars, Refreshing
      <3> QED BY <2>1, <3>1 DEF LockInv, Indexing, Refreshing
    <2>3. CASE HandleEvent
      <3>1. /\ wpc' \in {"mark", "dead", "lock", "read", "event"} /\ seq' = seq /\ wpc = "event"
            /\ WatchMode # "extent" => wpc' = "mark"
        BY <2>3 DEF HandleEvent, NextEvent, Breaking, WGoto, indexVars
      <3> QED BY <2>1, <3>1 DEF LockInv, Indexing, Refreshing
    <2>4. CASE LockAndFind
      BY <1>2, <2>1, <2>4 DEF LockAndFind, WGoto, LockInv, Indexing, Refreshing
    <2>5. CASE RefreshOpen \/ RefreshMap \/ RefreshStore
      <3>1. Refreshing /\ Refreshing' /\ seq' = seq
        BY <2>5 DEF RefreshOpen, RefreshMap, RefreshStore, WGoto, indexVars, Refreshing
      <3> QED BY <2>1, <3>1 DEF LockInv, Indexing, Refreshing
    <2>6. CASE RefreshStat
      BY <1>2, <2>1, <2>6 DEF RefreshStat, NextEvent, WGoto, LockInv, Indexing, Refreshing
    <2>7. CASE RefreshFailed
      BY <1>2, <2>1, <2>7 DEF RefreshFailed, WGoto, LockInv, Indexing, Refreshing
    <2> QED BY <1>7, <2>2, <2>3, <2>4, <2>5, <2>6, <2>7 DEF Watcher, WatchNext
  <1>8. CASE Environment \/ Reader \/ UNCHANGED vars
    BY <1>3, <1>8 DEF Environment, Reader, WalkNext, vars, indexVars, walkVars, watchVars
  <1> QED BY <1>4, <1>5, <1>6, <1>7, <1>8 DEF Next

LEMMA LockInit == Init => LockInv
  BY DEF Init, IndexInit, WatchInit, LockInv, Indexing, Refreshing

\* The sequence lock counts correctly in every watch mode, through every error
\* path of both threads: it is odd exactly while one of them, and even while
\* neither or both, are inside a modification.
THEOREM LockCounts == Spec => [](seq % 2 = IF Indexing # Refreshing THEN 1 ELSE 0)
  <1>1. LockInv => seq % 2 = IF Indexing # Refreshing THEN 1 ELSE 0
    BY DEF LockInv
  <1> QED BY <1>1, TypeInit, TypeStep, LockInit, LockStep, PTL DEF Spec

\* Without extent updates the number is odd whenever the tree is modified.
THEOREM LockedWhileModified ==
  ASSUME WatchMode # "extent"
  PROVE  Spec => []OddWhileModified
  <1>1. LockInv => OddWhileModified
    BY DEF LockInv, OddWhileModified, Modifying, Indexing, Refreshing, Steps
  <1> QED BY <1>1, TypeInit, TypeStep, LockInit, LockStep, PTL DEF Spec
-----------------------------------------------------------------------------
(* A reader under the sequence lock sees one whole tree, unless the watcher  *)
(* updates extents in place: for every tree, every interleaving of the walk  *)
(* of the reader with indexes that succeed or fail, and any number of them   *)
(* between two of its steps.                                                 *)

\* Every step on the path to an entry is a child of the one before it.
PathLinked(e) == \A c \in Path[e] \ {Root} : c \in kids[Parent[c]]

\* The index is a tree at any time, and stays one however the walk goes on.
TreeInv ==
  /\ \A d \in Dirs : \A e \in kids[d] : Parent[e] = d /\ PathLinked(e)
  /\ \A e \in todo : e = Root \/ PathLinked(Parent[e])
  /\ mpc \in {"watch", "list"} => PathLinked(cur)

\* An inode has extents that are not filled in only while the indexing thread
\* is at it.
BlankInv ==
  /\ \A f \in Files : text[f] = Blank => mpc = "store" /\ cur = f
  /\ got # Blank

\* What a reader knows whose number has not changed: it saw inodes of this
\* tree as they are, and the others are below those it has still to visit.
SeenInv ==
  /\ \A e \in DOMAIN rsaw : rsaw[e] = Content(e)
  /\ DOMAIN rsaw \cup rtodo \subseteq InTree
  /\ \A e \in InTree : e \in DOMAIN rsaw \/ Path[e] \cap rtodo # {}
  /\ DOMAIN rsaw # {} /\ wpc # "off" => err = "OK"

ReadInv ==
  /\ rpc = "start" => DOMAIN rsaw = {}
  /\ rpc = "check" => rtodo = {}
  /\ rpc \in {"walk", "check"} => rseq <= seq /\ rseq % 2 = 0
  /\ rpc \in {"walk", "check"} /\ rseq = seq => SeenInv
-----------------------------------------------------------------------------
\* Without extent updates, only the indexing thread touches the tree.
LEMMA OthersLeaveTree ==
  ASSUME WatchMode # "extent", TypeInv, LockInv,
         Environment \/ StartWatching \/ Watcher \/ Reader \/ UNCHANGED vars
  PROVE  UNCHANGED <<kids, text, seq, mpc, cur, todo, got, err>>
  <1>1. CASE Watcher
    <2>1. UNCHANGED <<mpc, cur, todo, got, err>>
      BY <1>1, WatchTypeStep DEF Watcher, walkVars
    <2>2. LoadDirty \/ ReadEvents \/ HandleEvent \/ MarkDirty
      BY <1>1 DEF LockInv, Watcher, WatchNext, LockAndFind, RefreshOpen, RefreshMap,
                  RefreshStore, RefreshStat, RefreshFailed
    <2>3. UNCHANGED <<kids, text, seq>>
      BY <2>2 DEF LoadDirty, ReadEvents, HandleEvent, MarkDirty, indexVars, treeVars
    <2> QED BY <2>1, <2>3
  <1>2. CASE ~Watcher
    BY <1>2 DEF Environment, StartWatching, WatchStart, Reader, WalkNext, vars, indexVars,
                treeVars, walkVars
  <1> QED BY <1>1, <1>2

\* The children of a directory only become more, until the next index.
LEMMA LinkedStays ==
  ASSUME TypeInv, NEW e \in Entries, PathLinked(e), \A d \in Dirs : kids[d] \subseteq kids'[d]
  PROVE  PathLinked(e)'
  <1>1. \A c \in Path[e] \ {Root} : Parent[c] \in Dirs
    BY PathFacts
  <1> QED BY <1>1 DEF PathLinked

LEMMA TreeStep ==
  ASSUME TypeInv, TreeInv, [Next]_vars
  PROVE  TreeInv'
  <1>1. /\ kids \in [Dirs -> SUBSET (Entries \ {Root})] /\ todo \subseteq Entries
        /\ cur \in Entries /\ present \subseteq Entries /\ IndexPlace
    BY DEF TypeInv, TypeOK, IndexTypeOK, FsTypeOK
  <1>2. PathLinked(Root) /\ PathLinked(Root)'
    BY PathFacts DEF PathLinked
  <1>3. \A e \in todo \ {Root} : Parent[e] \in Entries
    BY <1>1, PathFacts
  <1>4. ASSUME kids' = kids,
               \A e \in todo' : e = Root \/ PathLinked(Parent[e]),
               mpc' \in {"watch", "list"} => PathLinked(cur')
        PROVE  TreeInv'
    <2>1. \A e : PathLinked(e)' = PathLinked(e)
      BY <1>4 DEF PathLinked
    <2> QED BY <1>4, <2>1 DEF TreeInv
  <1>5. CASE IndexClear
    <2>1. kids' = [d \in Dirs |-> {}]
      BY <1>5 DEF IndexClear
    <2>2. todo' \subseteq {Root} /\ mpc' \in {"entry", "unlock"}
      BY <1>5, IndexClearEffect
    <2> QED BY <2>1, <2>2 DEF TreeInv
  <1>6. CASE ProcessIno
    <2>1. PICK e \in todo : todo' = todo \ {e} /\ cur' = e /\ kids' = Linked(e)
      BY <1>6 DEF ProcessIno
    <2>2. e \in Entries
      BY <1>1, <2>1
    <2>3. e # Root => Parent[e] \in Dirs /\ Path[e] = {e} \cup Path[Parent[e]]
      BY <2>2, PathFacts
    <2>4. \A d \in Dirs : kids'[d] = IF e # Root /\ d = Parent[e] THEN kids[d] \cup {e} ELSE kids[d]
      BY <1>1, <2>1, <2>2, PathFacts DEF Linked
    <2>5. \A x \in Entries : PathLinked(x) => PathLinked(x)'
      BY <2>4, LinkedStays
    <2>6. PathLinked(e)'
      <3>1. CASE e = Root
        BY <1>2, <3>1
      <3>2. CASE e # Root
        <4>1. PathLinked(Parent[e])'
          BY <1>3, <2>1, <2>5, <3>2 DEF TreeInv
        <4>2. e \in kids'[Parent[e]]
          BY <2>3, <2>4, <3>2
        <4> QED BY <2>3, <3>2, <4>1, <4>2 DEF PathLinked
      <3> QED BY <3>1, <3>2
    <2>7. ASSUME NEW d \in Dirs, NEW x \in kids'[d] PROVE Parent[x] = d /\ PathLinked(x)'
      <3>1. CASE x \in kids[d]
        <4>1. x \in Entries
          BY <1>1, <3>1
        <4> QED BY <2>5, <3>1, <4>1 DEF TreeInv
      <3>2. CASE x \notin kids[d]
        BY <2>4, <2>6, <2>7, <3>2
      <3> QED BY <3>1, <3>2
    <2>8. \A x \in todo' : x = Root \/ PathLinked(Parent[x])'
      BY <1>3, <2>1, <2>5 DEF TreeInv
    <2> QED BY <2>1, <2>6, <2>7, <2>8 DEF TreeInv
  <1>7. CASE AddWatcher
    <2>1. /\ mpc = "watch" /\ UNCHANGED <<kids, todo, cur>>
      BY <1>7 DEF AddWatcher
    <2> QED BY <1>4, <2>1 DEF TreeInv
  <1>8. CASE ListDir
    <2>1. /\ mpc = "list" /\ UNCHANGED <<kids, cur>> /\ mpc' \in {"entry", "unlock"}
          /\ todo' \subseteq todo \cup Children(cur)
      BY <1>8, ListDirEffect DEF ListDir
    <2>2. \A x \in Children(cur) : Parent[x] = cur
      BY DEF Children
    <2>3. \A x \in todo' : x = Root \/ PathLinked(Parent[x])
      BY <2>1, <2>2 DEF TreeInv
    <2> QED BY <1>4, <2>1, <2>3
  <1>9. CASE CallIndex \/ OpenFile \/ MapFile \/ StoreExtents \/ IndexClean \/ IndexExit
    <2>1. UNCHANGED <<kids, todo>> /\ mpc' \notin {"watch", "list"}
      BY <1>9 DEF CallIndex, IndexStart, OpenFile, MapFile, StoreExtents, IndexClean,
                  IndexExit, Goto, Fail, treeVars
    <2> QED BY <1>4, <2>1 DEF TreeInv
  <1>10. CASE Environment \/ StartWatching \/ Watcher \/ Reader \/ UNCHANGED vars
    <2>1. UNCHANGED <<mpc, cur, todo>>
      BY <1>10, WatchTypeStep DEF Environment, StartWatching, WatchStart, Watcher, Reader,
           WalkNext, vars, indexVars, walkVars
    <2>2. kids' = kids
      BY <1>10 DEF Environment, StartWatching, WatchStart, Watcher, WatchNext, LoadDirty,
           ReadEvents, HandleEvent, LockAndFind, RefreshOpen, RefreshMap, RefreshStore,
           RefreshStat, RefreshFailed, MarkDirty, Reader, WalkNext, vars, indexVars, treeVars
    <2> QED BY <1>4, <2>1, <2>2 DEF TreeInv
  <1> QED BY <1>5, <1>6, <1>7, <1>8, <1>9, <1>10 DEF Next, Indexer, IndexNext

LEMMA BlankStep ==
  ASSUME WatchMode # "extent", TypeInv, LockInv, BlankInv, [Next]_vars
  PROVE  BlankInv'
  <1>1. text \in [Files -> Mappings] /\ ext \in [Files -> ExtMaps] /\ nmap \in Nat /\ IndexPlace
    BY DEF TypeInv, TypeOK, IndexTypeOK, FsTypeOK
  <1>2. <<>> # Blank /\ Junk # Blank /\ \A m \in Prefixes : m # Blank
    BY FiemapAssumption DEF Prefixes
  <1>3. CASE IndexClear
    BY <1>2, <1>3 DEF IndexClear, BlankInv
  <1>4. CASE MapFile
    <2>1. /\ cur \in Files /\ cur' = cur /\ mpc = "map"
          /\ \/ UNCHANGED <<got, text>> /\ mpc' # "store"
             \/ /\ text' = [text EXCEPT ![cur] = Blank] /\ got' = Mapped(nmap, ext[cur])
                /\ mpc' = "store"
      BY <1>1, <1>4 DEF MapFile, ClaimMapping, IndexPlace, Goto, Fail
    <2>2. Mapped(nmap, ext[cur]) # Blank
      <3>1. ext[cur] \in ExtMaps
        BY <1>1, <2>1
      <3>2. MappedCount(nmap, ext[cur]) \in 0 .. Len(ext[cur])
        BY <1>1, <3>1, MappedType
      <3>3. SubSeq(ext[cur], 1, MappedCount(nmap, ext[cur])) \in Prefixes
        BY <3>1, <3>2 DEF Prefixes
      <3> QED BY <1>2, <3>3 DEF Mapped
    <2> QED BY <1>1, <2>1, <2>2 DEF BlankInv
  <1>5. CASE StoreExtents
    <2>1. cur \in Files
      BY <1>1, <1>5 DEF StoreExtents, IndexPlace
    <2> QED BY <1>1, <1>5, <2>1 DEF StoreExtents, Goto, BlankInv
  <1>6. CASE CallIndex \/ ProcessIno \/ AddWatcher \/ ListDir \/ OpenFile \/ IndexClean \/ IndexExit
    <2>1. UNCHANGED <<text, got>> /\ mpc # "store"
      BY <1>6 DEF CallIndex, IndexStart, ProcessIno, AddWatcher, ListDir, OpenFile, IndexClean,
                  IndexExit, treeVars
    <2> QED BY <2>1 DEF BlankInv
  <1>7. CASE Environment \/ StartWatching \/ Watcher \/ Reader \/ UNCHANGED vars
    BY <1>7, OthersLeaveTree DEF BlankInv
  <1> QED BY <1>3, <1>4, <1>5, <1>6, <1>7 DEF Next, Indexer, IndexNext

\* One step of the walk: the inode is in the tree, and the next directory on
\* the path to anything below it is among its children.
LEMMA WalkSees ==
  ASSUME TypeInv, FlagInv, TreeInv, SeenInv, UNCHANGED <<fsVars, indexVars, watchVars>>,
         NEW e \in rtodo, ~dirty,
         rsaw' = [x \in DOMAIN rsaw \cup {e} |-> IF x = e THEN Content(e) ELSE rsaw[x]],
         rtodo' = (rtodo \ {e}) \cup (IF e \in Dirs THEN kids[e] ELSE {})
  PROVE  SeenInv'
  <1>1. /\ kids \in [Dirs -> SUBSET (Entries \ {Root})]
        /\ rtodo \subseteq InTree /\ DOMAIN rsaw \subseteq InTree /\ e \in Entries
    BY DEF TypeInv, TypeOK, IndexTypeOK, WalkTypeOK, SeenInv
  <1>2. UNCHANGED <<kids, text, wpc, err>> /\ InTree' = InTree /\ \A x : Content(x)' = Content(x)
    BY DEF indexVars, treeVars, walkVars, watchVars, InTree, Content
  <1>3. DOMAIN rsaw' = DOMAIN rsaw \cup {e}
    OBVIOUS
  <1>4. \A x \in DOMAIN rsaw' : rsaw'[x] = Content(x)
    BY <1>3 DEF SeenInv
  <1>5. rtodo' \subseteq InTree
    BY <1>1 DEF InTree
  <1>6. ASSUME NEW x \in InTree, x \notin DOMAIN rsaw'
        PROVE  Path[x] \cap rtodo' # {}
    <2>1. PICK p \in Path[x] : p \in rtodo
      BY <1>3, <1>6 DEF SeenInv
    <2>2. CASE p # e
      BY <2>1, <2>2
    <2>3. CASE p = e
      <3>1. x # e /\ x \in Entries
        BY <1>1, <1>3, <1>6, PathFacts DEF InTree
      <3>2. PICK c \in Path[x] \ {Root} : Parent[c] = e
        BY <2>1, <2>3, <3>1, NextOnPath
      <3>3. x = Root \/ PathLinked(x)
        BY <1>6 DEF InTree, TreeInv
      <3>4. PathLinked(x)
        BY <3>3, PathFacts DEF PathLinked
      <3>5. c \in kids[e] /\ e \in Dirs
        BY <3>1, <3>2, <3>4, PathFacts DEF PathLinked
      <3> QED BY <3>2, <3>5
    <2> QED BY <2>2, <2>3
  <1>7. wpc # "off" => err = "OK"
    BY DEF FlagInv
  <1> QED BY <1>1, <1>2, <1>3, <1>4, <1>5, <1>6, <1>7 DEF SeenInv

LEMMA ReadStep ==
  ASSUME WatchMode # "extent", TypeInv, FlagInv, LockInv, TreeInv, ReadInv, [Next]_vars
  PROVE  ReadInv'
  <1>1. /\ seq \in Nat /\ rseq \in Nat
        /\ kids \in [Dirs -> SUBSET (Entries \ {Root})]
    BY DEF TypeInv, TypeOK, IndexTypeOK, WalkTypeOK
  <1>2. ASSUME NEW step \in {"start", "accepted"}, Ends(step) PROVE ReadInv'
    BY <1>2 DEF Ends, Nothing, ReadInv
  <1>3. CASE Reader
    <2>1. UNCHANGED <<fsVars, indexVars, watchVars>> /\ UNCHANGED <<kids, seq>>
      BY <1>3 DEF Reader, WalkNext, indexVars, treeVars
    <2>2. CASE ReadSeq
      <3>1. /\ DOMAIN rsaw' = {} /\ rtodo' = {Root} /\ rseq' = seq /\ rseq' % 2 = 0
            /\ rpc' = "walk"
        BY <2>2 DEF ReadSeq, ReadInv
      <3>2. \A x \in InTree : Root \in Path[x]
        BY <1>1, PathFacts DEF InTree
      <3>3. InTree' = InTree /\ Root \in InTree
        BY <2>1 DEF InTree
      <3>4. SeenInv'
        BY <3>1, <3>2, <3>3 DEF SeenInv
      <3> QED BY <1>1, <2>1, <3>1, <3>4 DEF ReadInv
    <2>3. CASE _walk
      <3>1. PICK e \in rtodo :
              IF Stale THEN Ends("start")
              ELSE /\ rsaw' = [x \in DOMAIN rsaw \cup {e} |->
                                 IF x = e THEN Content(e) ELSE rsaw[x]]
                   /\ rtodo' = (rtodo \ {e}) \cup (IF e \in Dirs THEN kids[e] ELSE {})
                   /\ rpc' = IF rtodo' = {} THEN "check" ELSE "walk"
                   /\ UNCHANGED rseq
        BY <2>3 DEF _walk
      <3>2. CASE Stale
        BY <1>2, <3>1, <3>2
      <3>3. CASE ~Stale
        <4>1. rseq = seq => SeenInv'
          BY <2>1, <2>3, <3>1, <3>3, WalkSees DEF Stale, ReadInv, _walk
        <4> QED BY <2>1, <2>3, <3>1, <3>3, <4>1 DEF ReadInv, _walk
      <3> QED BY <3>2, <3>3
    <2>4. CASE CheckSeq
      BY <1>2, <2>4 DEF CheckSeq
    <2> QED BY <1>3, <2>2, <2>3, <2>4 DEF Reader, WalkNext
  <1>4. CASE Environment \/ StartWatching \/ Watcher \/ UNCHANGED vars
    <2>1. UNCHANGED <<kids, text, seq, err>> /\ UNCHANGED readVars
      BY <1>4, OthersLeaveTree DEF Environment, StartWatching, Watcher, vars
    <2>2. wpc' # "off" => wpc # "off" \/ err = "OK"
      BY <1>4 DEF Environment, StartWatching, Watcher, WatchNext, LoadDirty, ReadEvents,
           HandleEvent, LockAndFind, RefreshOpen, RefreshMap, RefreshStore, RefreshStat,
           RefreshFailed, MarkDirty, vars, watchVars
    <2>3. InTree' = InTree /\ \A x : Content(x)' = Content(x)
      BY <2>1 DEF InTree, Content
    <2>4. SeenInv => SeenInv'
      BY <2>1, <2>2, <2>3 DEF SeenInv, readVars
    <2> QED BY <2>1, <2>4 DEF ReadInv, readVars
  <1>5. CASE CallIndex \/ (Indexer /\ IndexExit)
    <2>1. seq' = seq + 1 /\ UNCHANGED <<rpc, rseq, rtodo, rsaw>>
      BY <1>5 DEF CallIndex, IndexStart, Indexer, IndexExit, readVars
    <2> QED BY <1>1, <2>1 DEF ReadInv
  <1>6. CASE Indexer /\ ~IndexExit
    <2>1. seq' = seq /\ mpc # "idle" /\ UNCHANGED <<rpc, rseq, rtodo, rsaw>>
      BY <1>6 DEF Indexer, IndexNext, IndexClear, ProcessIno, AddWatcher, ListDir, OpenFile,
                  MapFile, StoreExtents, IndexClean, readVars
    <2>2. seq % 2 = 1
      BY <2>1 DEF LockInv, Indexing, Refreshing
    <2>3. rpc \in {"walk", "check"} => rseq # seq
      BY <2>2 DEF ReadInv
    <2> QED BY <2>1, <2>3 DEF ReadInv
  <1> QED BY <1>3, <1>4, <1>5, <1>6 DEF Next

LEMMA ReadInit == Init => TreeInv /\ BlankInv /\ ReadInv
  <1> SUFFICES ASSUME Init PROVE TreeInv /\ BlankInv /\ ReadInv
    OBVIOUS
  <1>1. <<>> # Blank
    BY FiemapAssumption DEF Prefixes
  <1>2. TreeInv
    BY DEF Init, IndexInit, TreeInv
  <1>3. BlankInv
    BY <1>1 DEF Init, IndexInit, BlankInv
  <1>4. ReadInv
    BY DEF Init, WalkInit, Nothing, ReadInv
  <1> QED BY <1>2, <1>3, <1>4

\* A reader that finds the same even number before and after its walk has
\* visited the whole of one tree, each inode complete and as it was, whatever
\* the other threads did in the meantime, unless the watcher updates extents;
\* and once the watcher runs, the tree of an index that succeeded, because a
\* client that indexes no clean tree leaves a failed one marked dirty.
THEOREM WalksSeeWholeTrees ==
  ASSUME IndexWhenStale, WatchMode # "extent"
  PROVE  Spec => []WalksSeeOneTree
  <1>1. Init => TypeInv /\ FlagInv /\ LockInv /\ TreeInv /\ BlankInv /\ ReadInv
    BY TypeInit, FlagInit, LockInit, ReadInit
  <1>2. TypeInv /\ FlagInv /\ LockInv /\ TreeInv /\ BlankInv /\ ReadInv /\ [Next]_vars
          => (TypeInv /\ FlagInv /\ LockInv /\ TreeInv /\ BlankInv /\ ReadInv)'
    BY TypeStep, FlagStep, LockStep, TreeStep, BlankStep, ReadStep
  <1>3. TypeInv /\ FlagInv /\ LockInv /\ TreeInv /\ BlankInv /\ ReadInv => WalksSeeOneTree
    <2> SUFFICES ASSUME TypeInv, LockInv, BlankInv, ReadInv, rpc = "check", seq = rseq
                 PROVE  /\ DOMAIN rsaw = InTree
                        /\ \A e \in InTree : rsaw[e] = Content(e)
                        /\ \A f \in InTree \cap Files : rsaw[f] # Blank
                        /\ wpc # "off" => err = "OK"
      BY DEF WalksSeeOneTree
    <2>1. SeenInv /\ rtodo = {} /\ seq % 2 = 0
      BY DEF ReadInv
    <2>2. DOMAIN rsaw = InTree
      BY <2>1 DEF SeenInv
    <2>3. mpc = "idle"
      BY <2>1 DEF LockInv, Indexing, Refreshing
    <2>4. \A f \in InTree \cap Files : Content(f) = text[f] /\ text[f] # Blank
      BY <2>3, PathFacts DEF Content, BlankInv
    <2>5. Root \in InTree
      BY DEF InTree
    <2> QED BY <2>1, <2>2, <2>4, <2>5 DEF SeenInv
  <1> QED BY <1>1, <1>2, <1>3, PTL DEF Spec

-----------------------------------------------------------------------------
(***************************************************************************)
(* Proof that no change of the file system is missed: in the mode that      *)
(* marks the tree dirty, for every tree of paths and every interleaving of  *)
(* the walk, the watcher and other processes.                               *)
(*                                                                         *)
(* The argument is about the frontier of the walk.  A directory is listed   *)
(* once it is watched and has been read.  While no event is pending, what   *)
(* is above and behind the frontier agrees with the file system, because    *)
(* every change of it would have queued an event; whatever is not, is below *)
(* an entry that the walk has still to process.                             *)
(***************************************************************************)

InWalk == mpc \in {"entry", "watch", "list", "open", "map", "store"}
AtFile == mpc \in {"open", "map", "store"}

\* Directories that were watched and then read, and files whose mapping was
\* stored.
Listed(d) == d \in wdMap /\ ~(mpc = "list" /\ cur = d)
Processed(f) == f \in kids[Parent[f]] /\ ~(AtFile /\ cur = f)

\* Where the walk goes on.
Frontier == todo \cup (IF mpc \in {"watch", "list"} THEN {cur} ELSE {})

\* The directories above an entry exist as long as it does.
PresentInv == \A e \in present : Path[e] \subseteq present

\* Events are in the buffer of the watcher only while it handles them.
BufferInv == wpc # "event" => buf = <<>>

\* The shape of the walk, whatever happens to the file system meanwhile.
ShapeInv ==
  /\ \A d \in Dirs : Listed(d) \/ kids[d] = {}
  /\ \A d \in Dirs : \A e \in kids[d] : Parent[e] = d
  /\ \A e \in todo : e = Root \/ (Listed(Parent[e]) /\ e \notin kids[Parent[e]])
  /\ \A d \in wdMap : d \notin todo /\ (d = Root \/ d \in kids[Parent[d]])
  /\ mpc # "entry" => cur = Root \/ cur \in kids[Parent[cur]]
  /\ mpc = "watch" => cur \notin wdMap \cup todo
  /\ mpc = "list" => cur \in wdMap
  /\ \A f \in Files : f \notin kids[Parent[f]] => text[f] = <<>>
  /\ mpc \in {"open", "map"} => text[cur] = <<>>

\* What the walk has passed agrees with the file system.
AgreeInv ==
  /\ wdMap \subseteq watched
  /\ \A d \in Dirs : Listed(d) =>
       Children(d) = kids[d] \cup {e \in todo \ {Root} : Parent[e] = d}
  /\ \A f \in Files : Processed(f) => text[f] = ext[f]
  /\ mpc = "map" => nmap = Len(ext[cur])
  /\ mpc = "store" => got = ext[cur]
  /\ \A d \in Dirs \cap present : Listed(d) \/ Path[d] \cap Frontier # {}

\* After a walk that succeeded every directory is watched.
DoneInv == Fresh /\ Dirs \cap present \subseteq watched

FreshInv ==
  /\ PresentInv /\ BufferInv
  /\ InWalk => ShapeInv
  /\ InWalk /\ ~Pending => AgreeInv
  /\ mpc \in {"unlock", "idle"} /\ err = "OK" /\ ~dirty /\ ~Pending => DoneInv

-----------------------------------------------------------------------------
\* A path ends where it exists no more.
LEMMA PresentStep ==
  ASSUME TypeInv, PresentInv, FsNext
  PROVE  PresentInv'
  <1>1. present \subseteq Entries /\ Root \in present
    BY DEF TypeInv, TypeOK, FsTypeOK
  <1>2. ASSUME NEW x \in Entries \ {Root}, Parent[x] \in present, present' = present \cup {x}
        PROVE  PresentInv'
    BY <1>1, <1>2, PathFacts DEF PresentInv
  <1>3. ASSUME NEW x \in present, present' = present \ {x}, Children(x) = {}
        PROVE  PresentInv'
    <2>1. SUFFICES ASSUME NEW e \in present, e # x, x \in Path[e] PROVE FALSE
      BY <1>3 DEF PresentInv
    <2>2. PICK c \in Path[e] \ {Root} : Parent[c] = x
      BY <1>1, <2>1, NextOnPath
    <2> QED BY <1>3, <2>1, <2>2 DEF PresentInv, Children
  <1>4. ASSUME NEW f \in Files, CreateFile(f) PROVE PresentInv'
    BY <1>2, <1>4, PathFacts DEF CreateFile
  <1>5. ASSUME NEW f \in Files, Unlink(f) PROVE PresentInv'
    <2>1. Children(f) = {}
      BY <1>1, PathFacts DEF Children
    <2> QED BY <1>3, <1>5, <2>1 DEF Unlink
  <1>6. ASSUME NEW f \in Files, Modify(f) PROVE PresentInv'
    BY <1>6 DEF Modify, PresentInv
  <1>7. ASSUME NEW d \in Dirs, Mkdir(d) PROVE PresentInv'
    BY <1>1, <1>2, <1>7, PathFacts DEF Mkdir
  <1>8. ASSUME NEW d \in Dirs, Rmdir(d) PROVE PresentInv'
    BY <1>3, <1>8 DEF Rmdir
  <1>9. CASE Unmount
    BY <1>9, PathFacts DEF Unmount, PresentInv
  <1> QED BY <1>4, <1>5, <1>6, <1>7, <1>8, <1>9 DEF FsNext

\* A change that queues no event: it is in directories without a watch.
Quiet ==
  /\ queue = <<>> /\ watched' = watched
  /\ \A e \in Entries \ {Root} : e \in present /\ e \notin present' => Parent[e] \notin watched
  /\ \A e \in Entries \ {Root} : e \in present' /\ e \notin present =>
       Parent[e] \notin watched /\ Parent[e] \in present
  /\ \A f \in Files : ext'[f] # ext[f] => Parent[f] \notin watched /\ Parent[f] \in present
  /\ Root \in present'

LEMMA UnnoticedIsQuiet ==
  ASSUME TypeInv, PresentInv, FsNext, queue' = <<>>
  PROVE  Quiet
  <1>1. /\ present \subseteq Entries /\ Root \in present /\ QueueOK(queue) /\ watched \subseteq Dirs
        /\ ext \in [Files -> ExtMaps]
    BY DEF TypeInv, TypeOK, FsTypeOK
  <1>2. \A k \in Kinds, d \in Dirs, e \in Entries : Event(k, d, e) \in Events
    BY DEF Event, Events
  <1>3. \A e \in present \ {Root} : Parent[e] \in present
    BY <1>1, PathFacts DEF PresentInv
  <1>4. ASSUME NEW f \in Files, CreateFile(f) PROVE Quiet
    <2>1. queue = <<>> /\ Parent[f] \notin watched
      BY <1>1, <1>2, <1>4, NotifyKeepsQueue, PathFacts DEF CreateFile, Kinds
    <2> QED BY <1>1, <1>4, <2>1 DEF CreateFile, Quiet
  <1>5. ASSUME NEW f \in Files, Unlink(f) PROVE Quiet
    <2>1. queue = <<>> /\ Parent[f] \notin watched
      BY <1>1, <1>2, <1>5, NotifyKeepsQueue, PathFacts DEF Unlink, Kinds
    <2> QED BY <1>1, <1>5, <2>1, PathFacts DEF Unlink, Quiet
  <1>6. ASSUME NEW f \in Files, Modify(f) PROVE Quiet
    <2>1. queue = <<>> /\ Parent[f] \notin watched
      BY <1>1, <1>2, <1>6, NotifyKeepsQueue, PathFacts DEF Modify, Kinds
    <2>2. Parent[f] \in present
      BY <1>3, <1>6, PathFacts DEF Modify
    <2> QED BY <1>1, <1>6, <2>1, <2>2 DEF Modify, Quiet
  <1>7. ASSUME NEW d \in Dirs, Mkdir(d) PROVE Quiet
    <2>1. d # Root
      BY <1>1, <1>7 DEF Mkdir
    <2>2. queue = <<>> /\ Parent[d] \notin watched
      BY <1>1, <1>2, <1>7, <2>1, NotifyKeepsQueue, PathFacts DEF Mkdir, Kinds
    <2> QED BY <1>1, <1>7, <2>2 DEF Mkdir, Quiet
  <1>8. ASSUME NEW d \in Dirs, Rmdir(d) PROVE Quiet
    <2> DEFINE q == Notify(queue, Parent[d], Event("delete", Parent[d], d))
    <2>1. d \in Entries \ {Root} /\ Parent[d] \in Dirs
      BY <1>8, PathFacts DEF Rmdir
    <2>2. QueueOK(q) /\ (queue # <<>> \/ Parent[d] \in watched => q # <<>>)
      BY <1>1, <1>2, <2>1, NotifyKeepsQueue DEF Kinds
    <2>3. queue' = Notify(q, d, Event("ignored", d, d))
      BY <1>8 DEF Rmdir
    <2> HIDE DEF q
    <2>4. q # <<>> \/ d \in watched => queue' # <<>>
      BY <1>2, <2>1, <2>2, <2>3, NotifyKeepsQueue DEF Kinds
    <2> QED BY <1>1, <1>8, <2>1, <2>2, <2>4 DEF Rmdir, Quiet
  <1>9. CASE Unmount
    <2>1. watched = {} /\ queue = <<>>
      BY <1>1, <1>2, <1>9, EnqueueKeepsQueue, PathFacts DEF Unmount, Kinds
    <2> QED BY <1>1, <1>9, <2>1 DEF Unmount, Quiet
  <1> QED BY <1>4, <1>5, <1>6, <1>7, <1>8, <1>9 DEF FsNext
-----------------------------------------------------------------------------
\* A quiet change touches nothing the walk has passed.
LEMMA QuietKeepsAgree ==
  ASSUME TypeInv, PresentInv, InWalk, ShapeInv, AgreeInv, Quiet,
         UNCHANGED indexVars, present' \subseteq Entries
  PROVE  AgreeInv'
  <1>1. /\ kids \in [Dirs -> SUBSET (Entries \ {Root})] /\ ext \in [Files -> ExtMaps]
        /\ present \subseteq Entries /\ wdMap \subseteq Dirs /\ IndexPlace
    BY DEF TypeInv, TypeOK, FsTypeOK, IndexTypeOK
  <1>2. UNCHANGED <<kids, text, wdMap, mpc, cur, todo, nmap, got>>
    BY DEF indexVars, treeVars, walkVars
  <1>3. \A d \in Dirs : Listed(d)' = Listed(d)
    BY <1>2 DEF Listed
  <1>4. Frontier' = Frontier
    BY <1>2 DEF Frontier
  <1>5. \A d \in Dirs : Listed(d) => d \in watched
    BY DEF Listed, AgreeInv
  <1>6. ASSUME NEW d \in Dirs, Listed(d)
        PROVE  Children(d)' = Children(d)
    <2>1. \A e \in Entries \ {Root} : Parent[e] = d => (e \in present' <=> e \in present)
      BY <1>5, <1>6 DEF Quiet
    <2> QED BY <1>1, <2>1 DEF Children
  <1>7. ASSUME NEW f \in Files, f \in kids[Parent[f]] PROVE ext'[f] = ext[f]
    <2>1. Listed(Parent[f])
      BY <1>7, PathFacts DEF ShapeInv
    <2> QED BY <1>5, <2>1, PathFacts DEF Quiet
  <1>8. AtFile => ext'[cur] = ext[cur]
    BY <1>1, <1>7, PathFacts DEF AtFile, IndexPlace, ShapeInv
  <1>9. ASSUME NEW d \in Dirs \cap present' PROVE Listed(d)' \/ Path[d] \cap Frontier' # {}
    <2>1. CASE d \in present
      BY <1>3, <1>4, <2>1 DEF AgreeInv
    <2>2. CASE d \notin present
      <3>1. d # Root
        BY <2>2 DEF TypeInv, TypeOK, FsTypeOK
      <3>2. Parent[d] \in Dirs \cap present /\ Parent[d] \notin watched
        BY <2>2, <3>1, PathFacts DEF Quiet
      <3>3. Path[Parent[d]] \cap Frontier # {}
        BY <1>5, <3>2 DEF AgreeInv
      <3> QED BY <1>4, <3>1, <3>3, PathFacts
    <2> QED BY <2>1, <2>2
  <1>10. wdMap' \subseteq watched'
    BY <1>2 DEF AgreeInv, Quiet
  <1>11. \A d \in Dirs : Listed(d)' =>
           Children(d)' = kids'[d] \cup {e \in todo' \ {Root} : Parent[e] = d}
    BY <1>2, <1>3, <1>6 DEF AgreeInv
  <1>12. \A f \in Files : Processed(f)' => text'[f] = ext'[f]
    BY <1>2, <1>7 DEF AgreeInv, Processed, AtFile
  <1>13. (mpc' = "map" => nmap' = Len(ext'[cur'])) /\ (mpc' = "store" => got' = ext'[cur'])
    BY <1>2, <1>8 DEF AgreeInv, AtFile
  <1> QED BY <1>9, <1>10, <1>11, <1>12, <1>13 DEF AgreeInv

\* Nor does it touch a tree all of whose directories are watched.
LEMMA QuietKeepsDone ==
  ASSUME TypeInv, PresentInv, DoneInv, Quiet, UNCHANGED indexVars,
         present' \subseteq Entries
  PROVE  DoneInv'
  <1>1. /\ ext \in [Files -> ExtMaps] /\ present \subseteq Entries /\ Root \in present
    BY DEF TypeInv, TypeOK, FsTypeOK
  <1>2. UNCHANGED <<kids, text>>
    BY DEF indexVars, treeVars
  <1>3. \A d \in Dirs \cap present : d \in watched
    BY DEF DoneInv
  <1>4. \A e \in present \ {Root} : Parent[e] \in Dirs \cap present
    BY <1>1, PathFacts DEF PresentInv
  <1>5. present' = present
    <2>1. ASSUME NEW e \in present' PROVE e \in present
      BY <1>1, <1>3, <2>1, PathFacts DEF Quiet
    <2>2. ASSUME NEW e \in present PROVE e \in present'
      BY <1>1, <1>3, <1>4, <2>2 DEF Quiet
    <2> QED BY <2>1, <2>2
  <1>6. \A f \in Files : ext'[f] = ext[f]
    BY <1>3, PathFacts DEF Quiet
  <1>7. \A d \in Dirs : Children(d)' = Children(d)
    BY <1>5 DEF Children
  <1> QED BY <1>2, <1>5, <1>6, <1>7 DEF DoneInv, Fresh, Quiet

\* Other processes change the file system.
LEMMA FreshEnvironment ==
  ASSUME TypeInv, FreshInv, Environment, TypeInv'
  PROVE  FreshInv'
  <1>1. FsNext /\ UNCHANGED indexVars /\ UNCHANGED watchVars
    BY DEF Environment
  <1>2. PresentInv' /\ BufferInv'
    BY <1>1, PresentStep DEF FreshInv, BufferInv, watchVars
  <1>3. UNCHANGED <<dirty, kids, text, wdMap, mpc, cur, todo, err, buf, wpc>>
    BY <1>1 DEF indexVars, treeVars, walkVars, watchVars
  <1>4. InWalk' => ShapeInv'
    BY <1>3 DEF FreshInv, InWalk, ShapeInv, Listed
  <1>5. CASE queue' # <<>>
    BY <1>2, <1>4, <1>5 DEF FreshInv, Pending
  <1>6. CASE queue' = <<>>
    <2>1. Quiet
      BY <1>1, <1>6, UnnoticedIsQuiet DEF FreshInv
    <2>2. ~Pending' => ~Pending
      BY <1>3, <2>1 DEF Pending, Quiet
    <2>3. present' \subseteq Entries
      BY DEF TypeInv, TypeOK, FsTypeOK
    <2>4. InWalk' /\ ~Pending' => AgreeInv'
      BY <1>1, <1>3, <2>1, <2>2, <2>3, QuietKeepsAgree DEF FreshInv, InWalk
    <2>5. mpc' \in {"unlock", "idle"} /\ err' = "OK" /\ ~dirty' /\ ~Pending' => DoneInv'
      BY <1>1, <1>3, <2>1, <2>2, <2>3, QuietKeepsDone DEF FreshInv
    <2> QED BY <1>2, <1>4, <2>4, <2>5 DEF FreshInv
  <1> QED BY <1>5, <1>6
-----------------------------------------------------------------------------
\* A step of the walk changes nothing that is pending.
LEMMA PendingInWalk ==
  ASSUME UNCHANGED <<queue, buf, wpc>>
  PROVE  Pending' = Pending
  BY DEF Pending

LEMMA FreshClear ==
  ASSUME TypeInv, FreshInv, IndexClear, UNCHANGED watchVars
  PROVE  FreshInv'
  <1>1. /\ kids' = [d \in Dirs |-> {}] /\ text' = [f \in Files |-> <<>>] /\ wdMap' = {}
        /\ UNCHANGED <<present, watched, ext, queue, buf, wpc, dirty>>
    BY DEF IndexClear, fsVars, watchVars
  <1>2. PresentInv' /\ BufferInv'
    BY <1>1 DEF FreshInv, PresentInv, BufferInv
  <1>3. CASE todo' = {Root} /\ mpc' = "entry"
    <2>1. \A d \in Dirs : ~Listed(d)' /\ kids'[d] = {}
      BY <1>1 DEF Listed
    <2>2. \A f \in Files : f \notin kids'[Parent[f]] /\ text'[f] = <<>>
      BY <1>1, PathFacts
    <2>3. ShapeInv'
      BY <1>1, <1>3, <2>1, <2>2 DEF ShapeInv
    <2>4. AgreeInv'
      BY <1>1, <1>3, <2>1, <2>2, PathFacts DEF AgreeInv, Processed, Frontier
    <2> QED BY <1>2, <1>3, <2>3, <2>4 DEF FreshInv
  <1>4. CASE mpc' = "unlock" /\ err' # "OK"
    BY <1>2, <1>4 DEF FreshInv, InWalk
  <1> QED BY <1>3, <1>4, IndexClearEffect

LEMMA FreshProcess ==
  ASSUME WatchMode = "dirty", TypeInv, FreshInv, ProcessIno, UNCHANGED watchVars
  PROVE  FreshInv'
  <1>1. PICK e \in todo :
          /\ todo' = todo \ {e} /\ cur' = e /\ kids' = Linked(e)
          /\ \/ mpc' = "unlock" /\ err' # "OK"
             \/ e \in present /\ mpc' = IF e \in Files THEN "open" ELSE "watch"
    BY DEF ProcessIno, Goto, Fail
  <1>2. /\ mpc = "entry" /\ UNCHANGED <<text, wdMap, nmap, got>>
        /\ UNCHANGED <<present, watched, ext, queue, buf, wpc, dirty>>
    BY DEF ProcessIno, fsVars, watchVars
  <1>3. PresentInv' /\ BufferInv'
    BY <1>2 DEF FreshInv, PresentInv, BufferInv
  <1>4. CASE mpc' = "unlock" /\ err' # "OK"
    BY <1>1, <1>3, <1>4 DEF FreshInv, InWalk
  <1>5. CASE e \in present /\ mpc' = IF e \in Files THEN "open" ELSE "watch"
    <2>1. /\ kids \in [Dirs -> SUBSET (Entries \ {Root})] /\ todo \subseteq Entries
          /\ wdMap \subseteq Dirs
      BY DEF TypeInv, TypeOK, IndexTypeOK
    <2>2. ShapeInv /\ e \in Entries
      BY <1>1, <1>2, <2>1 DEF FreshInv, InWalk
    <2>3. \A d \in Dirs : Listed(d) = (d \in wdMap) /\ Listed(d)' = (d \in wdMap)
      BY <1>1, <1>2, <1>5 DEF Listed
    <2>4. kids' \in [Dirs -> SUBSET (Entries \ {Root})]
      BY <1>1, <2>1, <2>2, PathFacts DEF Linked
    <2>5. \A d \in Dirs : kids'[d] = IF e # Root /\ d = Parent[e] THEN kids[d] \cup {e} ELSE kids[d]
      BY <1>1, <2>1, <2>2, PathFacts DEF Linked
    <2>6. e # Root => Listed(Parent[e]) /\ e \notin kids[Parent[e]] /\ Parent[e] \in Dirs
      BY <1>1, <2>2, PathFacts DEF ShapeInv
    <2>7. ShapeInv'
      <3>1. \A d \in Dirs : Listed(d)' \/ kids'[d] = {}
        BY <2>2, <2>3, <2>5, <2>6 DEF ShapeInv
      <3>2. ASSUME NEW d \in Dirs, NEW x \in kids'[d] PROVE Parent[x] = d
        <4>1. x \in kids[d] \/ (x = e /\ d = Parent[e])
          BY <2>5, <3>2
        <4> QED BY <2>2, <4>1 DEF ShapeInv
      <3>3. ASSUME NEW x \in todo', x # Root
            PROVE  Listed(Parent[x])' /\ x \notin kids'[Parent[x]]
        <4>1. x \in todo /\ x # e /\ x \in Entries
          BY <1>1, <2>1, <3>3
        <4>2. Parent[x] \in Dirs /\ Listed(Parent[x]) /\ x \notin kids[Parent[x]]
          BY <2>2, <3>3, <4>1, PathFacts DEF ShapeInv
        <4> QED BY <2>3, <2>5, <4>1, <4>2
      <3>4. ASSUME NEW d \in wdMap'
            PROVE  d \notin todo' /\ (d = Root \/ d \in kids'[Parent[d]])
        <4>1. d \in wdMap /\ d \in Dirs /\ d \notin todo /\ (d = Root \/ d \in kids[Parent[d]])
          BY <1>2, <2>1, <2>2, <3>4 DEF ShapeInv
        <4>2. d # Root => Parent[d] \in Dirs
          BY <4>1, PathFacts
        <4> QED BY <1>1, <2>5, <4>1, <4>2
      <3>5. cur' = Root \/ cur' \in kids'[Parent[cur']]
        BY <1>1, <2>5, <2>6
      <3>6. mpc' = "watch" => cur' \notin wdMap' \cup todo'
        BY <1>1, <1>2, <2>2 DEF ShapeInv
      <3>7. ASSUME NEW f \in Files, f \notin kids'[Parent[f]] PROVE text'[f] = <<>>
        <4>1. Parent[f] \in Dirs
          BY PathFacts
        <4>2. f \notin kids[Parent[f]]
          BY <2>5, <3>7, <4>1
        <4> QED BY <1>2, <2>2, <4>2 DEF ShapeInv
      <3>8. mpc' \in {"open", "map"} => text'[cur'] = <<>>
        BY <1>1, <1>2, <1>5, <2>2, <2>6, PathFacts DEF ShapeInv
      <3> QED BY <1>1, <1>5, <3>1, <3>2, <3>3, <3>4, <3>5, <3>6, <3>7, <3>8 DEF ShapeInv
    <2>8. ASSUME AgreeInv PROVE AgreeInv'
      <3>1. wdMap' \subseteq watched'
        BY <1>2, <2>8 DEF AgreeInv
      <3>2. ASSUME NEW d \in Dirs, Listed(d)'
            PROVE  Children(d)' = kids'[d] \cup {x \in todo' \ {Root} : Parent[x] = d}
        <4>1. Children(d)' = Children(d)
          BY <1>2 DEF Children
        <4>2. Children(d) = kids[d] \cup {x \in todo \ {Root} : Parent[x] = d}
          BY <2>3, <2>8, <3>2 DEF AgreeInv
        <4> QED BY <1>1, <2>5, <4>1, <4>2
      <3>3. ASSUME NEW f \in Files, Processed(f)' PROVE text'[f] = ext'[f]
        <4>1. f # e
          BY <1>1, <1>5, <3>3 DEF Processed, AtFile
        <4>2. f \in kids[Parent[f]]
          <5>1. Parent[f] \in Dirs /\ f \in kids'[Parent[f]]
            BY <3>3, PathFacts DEF Processed
          <5> QED BY <2>5, <4>1, <5>1
        <4> QED BY <1>2, <2>8, <4>2 DEF AgreeInv, Processed, AtFile
      <3>4. ASSUME NEW d \in Dirs \cap present' PROVE Listed(d)' \/ Path[d] \cap Frontier' # {}
        <4>1. Listed(d) \/ Path[d] \cap todo # {}
          BY <1>2, <2>8, <3>4 DEF AgreeInv, Frontier
        <4>2. CASE e \in Path[d]
          <5>1. e \notin Files
            <6>1. ASSUME e \in Files PROVE FALSE
              <7>1. e # d
                BY <6>1, PathFacts
              <7>2. PICK c \in Path[d] \ {Root} : Parent[c] = e
                BY <4>2, <7>1, NextOnPath, PathFacts
              <7>3. c \in Entries \ {Root}
                BY <7>2, PathFacts
              <7> QED BY <6>1, <7>2, <7>3, PathFacts
            <6> QED BY <6>1
          <5> QED BY <1>1, <1>5, <4>2, <5>1 DEF Frontier
        <4>3. CASE e \notin Path[d]
          BY <1>1, <2>3, <4>1, <4>3 DEF Frontier
        <4> QED BY <4>2, <4>3
      <3> QED BY <1>1, <1>5, <3>1, <3>2, <3>3, <3>4 DEF AgreeInv
    <2>9. Pending' = Pending
      BY <1>2, PendingInWalk
    <2> QED BY <1>1, <1>2, <1>3, <1>5, <2>7, <2>8, <2>9 DEF FreshInv, InWalk
  <1> QED BY <1>1, <1>4, <1>5

LEMMA FreshAddWatcher ==
  ASSUME TypeInv, FreshInv, AddWatcher, UNCHANGED watchVars
  PROVE  FreshInv'
  <1>1. /\ mpc = "watch" /\ UNCHANGED <<kids, text, cur, todo, nmap, got>>
        /\ UNCHANGED <<present, ext, queue, buf, wpc, dirty>>
    BY DEF AddWatcher, watchVars
  <1>2. PresentInv' /\ BufferInv'
    BY <1>1 DEF FreshInv, PresentInv, BufferInv
  <1>3. CASE mpc' = "unlock" /\ err' # "OK"
    BY <1>2, <1>3 DEF FreshInv, InWalk
  <1>4. CASE cur \in present /\ ~(mpc' = "unlock" /\ err' # "OK")
    <2>1. watched' = watched \cup {cur} /\ wdMap' = wdMap \cup {cur} /\ mpc' = "list"
      BY <1>4 DEF AddWatcher, Goto, Fail
    <2>2. ShapeInv /\ cur \notin wdMap \cup todo
      BY <1>1 DEF FreshInv, InWalk, ShapeInv
    <2>3. \A d \in Dirs : Listed(d)' = Listed(d)
      BY <1>1, <2>1, <2>2 DEF Listed
    <2>4. \A x \in todo : x \in Entries
      BY DEF TypeInv, TypeOK, IndexTypeOK
    <2>5. ShapeInv'
      <3>1. \A x \in todo' : x = Root \/ (Listed(Parent[x])' /\ x \notin kids'[Parent[x]])
        BY <1>1, <2>2, <2>3, <2>4, PathFacts DEF ShapeInv
      <3>2. \A d \in wdMap' : d \notin todo' /\ (d = Root \/ d \in kids'[Parent[d]])
        BY <1>1, <2>1, <2>2 DEF ShapeInv
      <3> QED BY <1>1, <2>1, <2>2, <2>3, <3>1, <3>2 DEF ShapeInv
    <2>6. ASSUME AgreeInv PROVE AgreeInv'
      <3>1. \A d \in Dirs : Children(d)' = Children(d)
        BY <1>1 DEF Children
      <3>2. \A f \in Files : Processed(f)' = Processed(f)
        BY <1>1, <2>1 DEF Processed, AtFile
      <3>3. Frontier' = Frontier
        BY <1>1, <2>1 DEF Frontier
      <3> QED BY <1>1, <2>1, <2>3, <2>6, <3>1, <3>2, <3>3 DEF AgreeInv
    <2>7. Pending' = Pending
      BY <1>1, PendingInWalk
    <2> QED BY <1>1, <1>2, <2>1, <2>5, <2>6, <2>7 DEF FreshInv, InWalk
  <1>5. (mpc' = "unlock" /\ err' # "OK") \/ cur \in present
    BY DEF AddWatcher, Fail
  <1> QED BY <1>3, <1>4, <1>5

LEMMA FreshListDir ==
  ASSUME TypeInv, FreshInv, ListDir, UNCHANGED watchVars
  PROVE  FreshInv'
  <1>1. /\ mpc = "list" /\ UNCHANGED <<kids, text, wdMap, cur, nmap, got>>
        /\ UNCHANGED <<present, watched, ext, queue, buf, wpc, dirty>>
    BY DEF ListDir, fsVars, watchVars
  <1>2. PresentInv' /\ BufferInv'
    BY <1>1 DEF FreshInv, PresentInv, BufferInv
  <1>3. CASE mpc' = "unlock" /\ err' # "OK"
    BY <1>2, <1>3 DEF FreshInv, InWalk
  <1>4. CASE cur \in present /\ todo' = todo \cup Children(cur) /\ mpc' = "entry"
    <2>1. /\ kids \in [Dirs -> SUBSET (Entries \ {Root})] /\ todo \subseteq Entries
          /\ wdMap \subseteq Dirs /\ cur \in Dirs /\ present \subseteq Entries
      BY <1>1 DEF TypeInv, TypeOK, IndexTypeOK, IndexPlace, FsTypeOK
    <2>2. ShapeInv /\ cur \in wdMap /\ kids[cur] = {}
      BY <1>1, <2>1 DEF FreshInv, InWalk, ShapeInv, Listed
    <2>3. \A d \in Dirs : Listed(d)' = (Listed(d) \/ d = cur)
      BY <1>1, <1>4, <2>2 DEF Listed
    <2>4. ~Listed(cur)
      BY <1>1 DEF Listed
    <2>5. \A x \in Children(cur) : x \in Entries \ {Root} /\ Parent[x] = cur
      BY <2>1 DEF Children
    <2>6. ShapeInv'
      <3>1. \A d \in Dirs : Listed(d)' \/ kids'[d] = {}
        BY <1>1, <2>2, <2>3 DEF ShapeInv
      <3>2. ASSUME NEW x \in todo', x # Root
            PROVE  Listed(Parent[x])' /\ x \notin kids'[Parent[x]]
        <4>1. CASE x \in todo
          <5>1. Parent[x] \in Dirs /\ Listed(Parent[x]) /\ x \notin kids[Parent[x]]
            BY <2>1, <2>2, <3>2, <4>1, PathFacts DEF ShapeInv
          <5> QED BY <1>1, <2>3, <5>1
        <4>2. CASE x \in Children(cur)
          BY <1>1, <2>1, <2>2, <2>3, <2>5, <4>2
        <4> QED BY <1>4, <3>2, <4>1, <4>2
      <3>3. ASSUME NEW d \in wdMap'
            PROVE  d \notin todo' /\ (d = Root \/ d \in kids'[Parent[d]])
        <4>1. d \notin todo /\ (d = Root \/ d \in kids[Parent[d]])
          BY <1>1, <2>2, <3>3 DEF ShapeInv
        <4>2. d \notin Children(cur)
          BY <2>2, <2>5, <4>1
        <4> QED BY <1>1, <1>4, <4>1, <4>2
      <3> QED BY <1>1, <1>4, <2>2, <3>1, <3>2, <3>3 DEF ShapeInv
    <2>7. ASSUME AgreeInv PROVE AgreeInv'
      <3>1. ASSUME NEW d \in Dirs, Listed(d)'
            PROVE  Children(d)' = kids'[d] \cup {x \in todo' \ {Root} : Parent[x] = d}
        <4>1. Children(d)' = Children(d)
          BY <1>1 DEF Children
        <4>2. CASE d # cur
          <5>1. Children(d) = kids[d] \cup {x \in todo \ {Root} : Parent[x] = d}
            BY <2>3, <2>7, <3>1, <4>2 DEF AgreeInv
          <5> QED BY <1>1, <1>4, <2>5, <4>1, <4>2, <5>1
        <4>3. CASE d = cur
          <5>1. \A x \in todo \ {Root} : Parent[x] # cur
            BY <2>2, <2>4 DEF ShapeInv
          <5> QED BY <1>1, <1>4, <2>2, <2>5, <4>1, <4>3, <5>1
        <4> QED BY <4>2, <4>3
      <3>2. \A f \in Files : Processed(f)' = Processed(f)
        BY <1>1, <1>4 DEF Processed, AtFile
      <3>3. ASSUME NEW d \in Dirs \cap present', ~Listed(d)' PROVE Path[d] \cap Frontier' # {}
        <4>1. d # cur /\ d \in present /\ ~Listed(d) /\ d \in Entries
          BY <1>1, <2>1, <2>3, <3>3
        <4>2. PICK a \in Path[d] : a \in todo \/ a = cur
          BY <1>1, <2>7, <3>3, <4>1 DEF AgreeInv, Frontier
        <4>3. CASE a \in todo
          BY <1>4, <4>2, <4>3 DEF Frontier
        <4>4. CASE a = cur
          <5>1. PICK c \in Path[d] \ {Root} : Parent[c] = cur
            BY <4>1, <4>2, <4>4, NextOnPath
          <5>2. c \in Children(cur)
            BY <4>1, <5>1 DEF FreshInv, PresentInv, Children
          <5> QED BY <1>4, <5>1, <5>2 DEF Frontier
        <4> QED BY <4>2, <4>3, <4>4
      <3> QED BY <1>1, <1>4, <2>7, <3>1, <3>2, <3>3 DEF AgreeInv
    <2>8. Pending' = Pending
      BY <1>1, PendingInWalk
    <2> QED BY <1>1, <1>2, <1>4, <2>6, <2>7, <2>8 DEF FreshInv, InWalk
  <1> QED BY <1>3, <1>4, ListDirEffect

\* A file: open, map and store.
LEMMA FreshFile ==
  ASSUME TypeInv, FreshInv, OpenFile \/ MapFile \/ StoreExtents, UNCHANGED watchVars
  PROVE  FreshInv'
  <1>1. /\ AtFile /\ UNCHANGED <<kids, wdMap, cur, todo>>
        /\ UNCHANGED <<present, watched, ext, queue, buf, wpc, dirty>>
    BY DEF OpenFile, MapFile, StoreExtents, AtFile, fsVars, treeVars, watchVars
  <1>2. PresentInv' /\ BufferInv'
    BY <1>1 DEF FreshInv, PresentInv, BufferInv
  <1>3. /\ cur \in Files /\ ext[cur] \in Seq(STRING) /\ text \in [Files -> Mappings]
        /\ kids \in [Dirs -> SUBSET (Entries \ {Root})] /\ nmap \in Nat /\ cur # Root
    BY <1>1, FsAssumption DEF TypeInv, TypeOK, IndexTypeOK, FsTypeOK, IndexPlace, AtFile
  <1>4. ShapeInv /\ cur \in kids[Parent[cur]]
    BY <1>1, <1>3 DEF FreshInv, InWalk, ShapeInv, AtFile
  <1>5. \A d \in Dirs : Listed(d)' = Listed(d) /\ Children(d)' = Children(d)
    BY <1>1, <1>3, PathFacts DEF Listed, Children
  <1>6. \A f \in Files \ {cur} : Processed(f)' = Processed(f)
    BY <1>1 DEF Processed
  <1>7. Pending' = Pending
    BY <1>1, PendingInWalk
  <1>8. ASSUME \A f \in Files \ {cur} : text'[f] = text[f],
               mpc' \in {"map", "store", "entry"},
               mpc' = "map" => text'[cur] = <<>>
        PROVE  ShapeInv'
    <2>1. \A x \in todo' : x = Root \/ (Listed(Parent[x])' /\ x \notin kids'[Parent[x]])
      <3>1. \A x \in todo : x \in Entries
        BY DEF TypeInv, TypeOK, IndexTypeOK
      <3> QED BY <1>1, <1>4, <1>5, <3>1, PathFacts DEF ShapeInv
    <2>2. \A f \in Files : f \notin kids'[Parent[f]] => text'[f] = <<>>
      BY <1>1, <1>4, <1>8 DEF ShapeInv
    <2> QED BY <1>1, <1>4, <1>5, <1>8, <2>1, <2>2 DEF ShapeInv
  <1>9. ASSUME AgreeInv,
               \A f \in Files \ {cur} : text'[f] = text[f],
               mpc' \in {"map", "store", "entry"},
               mpc' = "entry" => text'[cur] = ext[cur],
               mpc' = "map" => nmap' = Len(ext[cur]),
               mpc' = "store" => got' = ext[cur]
        PROVE  AgreeInv'
    <2>1. ASSUME NEW f \in Files, Processed(f)' PROVE text'[f] = ext'[f]
      <3>1. CASE f = cur
        BY <1>1, <1>9, <2>1, <3>1 DEF Processed, AtFile
      <3>2. CASE f # cur
        BY <1>1, <1>6, <1>9, <2>1, <3>2 DEF AgreeInv
      <3> QED BY <3>1, <3>2
    <2>2. Frontier' = Frontier
      BY <1>1, <1>9 DEF Frontier, AtFile
    <2> QED BY <1>1, <1>5, <1>9, <2>1, <2>2 DEF AgreeInv
  <1>10. CASE mpc' = "unlock" /\ err' # "OK"
    BY <1>2, <1>10 DEF FreshInv, InWalk
  <1>11. CASE OpenFile
    <2>1. CASE mpc' = "map"
      <3>1. text' = text /\ nmap' = Len(ext[cur]) /\ mpc = "open"
        BY <1>11, <2>1 DEF OpenFile, Goto, Fail, treeVars
      <3>2. ShapeInv'
        BY <1>4, <1>8, <2>1, <3>1 DEF ShapeInv
      <3>3. AgreeInv => AgreeInv'
        BY <1>9, <2>1, <3>1
      <3> QED BY <1>1, <1>2, <1>7, <2>1, <3>2, <3>3 DEF FreshInv, InWalk, AtFile
    <2> QED BY <1>10, <1>11, <2>1 DEF OpenFile, Goto, Fail
  <1>12. CASE MapFile
    <2>1. mpc = "map" /\ text[cur] = <<>> /\ (AgreeInv => nmap = Len(ext[cur]))
      BY <1>4, <1>12 DEF MapFile, ShapeInv, AgreeInv
    <2>2. CASE MappedCount(nmap, ext[cur]) = 0 /\ mpc' = "entry" /\ UNCHANGED text
      <3>1. AgreeInv => text'[cur] = ext[cur]
        BY <1>3, <2>1, <2>2, EmptySeq DEF MappedCount
      <3> QED BY <1>1, <1>2, <1>7, <1>8, <1>9, <2>2, <3>1 DEF FreshInv, InWalk, AtFile
    <2>3. CASE /\ MappedCount(nmap, ext[cur]) > 0 /\ ClaimMapping(cur, nmap)
               /\ got' = Mapped(nmap, ext[cur]) /\ mpc' = "store"
      <3>1. AgreeInv => got' = ext[cur]
        <4>1. ASSUME AgreeInv PROVE Mapped(nmap, ext[cur]) = SubSeq(ext[cur], 1, Len(ext[cur]))
          BY <1>3, <2>1, <2>3, <4>1 DEF Mapped, MappedCount
        <4> QED BY <1>3, <2>3, <4>1, SubSeqFull
      <3>2. \A f \in Files \ {cur} : text'[f] = text[f]
        BY <1>3, <2>3 DEF ClaimMapping
      <3> QED BY <1>1, <1>2, <1>7, <1>8, <1>9, <2>3, <3>1, <3>2 DEF FreshInv, InWalk, AtFile
    <2>4. \/ MappedCount(nmap, ext[cur]) = 0 /\ mpc' = "entry" /\ UNCHANGED text
          \/ /\ MappedCount(nmap, ext[cur]) > 0 /\ ClaimMapping(cur, nmap)
             /\ got' = Mapped(nmap, ext[cur]) /\ mpc' = "store"
          \/ mpc' = "unlock" /\ err' # "OK"
      BY <1>12 DEF MapFile, ClaimMappingError, Goto, Fail
    <2> QED BY <1>10, <2>2, <2>3, <2>4
  <1>13. CASE StoreExtents
    <2>1. /\ mpc = "store" /\ mpc' = "entry" /\ text' = [text EXCEPT ![cur] = got]
      BY <1>13 DEF StoreExtents, Goto
    <2>2. text'[cur] = got /\ \A f \in Files \ {cur} : text'[f] = text[f]
      BY <1>3, <2>1
    <2>3. ShapeInv'
      BY <1>8, <2>1, <2>2
    <2>4. AgreeInv => AgreeInv'
      <3>1. AgreeInv => text'[cur] = ext[cur]
        BY <2>1, <2>2 DEF AgreeInv
      <3> QED BY <1>9, <2>1, <2>2, <3>1
    <2> QED BY <1>1, <1>2, <1>7, <2>1, <2>3, <2>4 DEF FreshInv, InWalk, AtFile
  <1> QED BY <1>11, <1>12, <1>13

\* The walk is over: the frontier is empty, so every directory was listed.
LEMMA FreshClean ==
  ASSUME TypeInv, FreshInv, IndexClean, UNCHANGED watchVars
  PROVE  FreshInv'
  <1>1. /\ mpc = "entry" /\ todo = {} /\ mpc' = "unlock"
        /\ UNCHANGED <<kids, text, present, watched, ext, queue, buf, wpc>>
    BY DEF IndexClean, Goto, fsVars, treeVars, watchVars
  <1>2. PresentInv' /\ BufferInv'
    BY <1>1 DEF FreshInv, PresentInv, BufferInv
  <1>3. ASSUME ~Pending PROVE DoneInv
    <2>1. AgreeInv
      BY <1>1, <1>3 DEF FreshInv, InWalk
    <2>2. \A d \in Dirs \cap present : Listed(d)
      BY <1>1, <2>1 DEF AgreeInv, Frontier
    <2>3. Dirs \cap present \subseteq watched
      BY <2>1, <2>2 DEF AgreeInv, Listed
    <2>4. \A d \in Dirs \cap present : kids[d] = Children(d)
      BY <1>1, <2>1, <2>2 DEF AgreeInv
    <2>5. ASSUME NEW f \in Files \cap present PROVE text[f] = ext[f]
      <3>1. Parent[f] \in Dirs \cap present /\ f # Root
        BY <2>5, PathFacts DEF FreshInv, PresentInv
      <3>2. f \in Children(Parent[f])
        BY <3>1 DEF Children
      <3> QED BY <1>1, <2>1, <2>4, <3>1, <3>2 DEF AgreeInv, Processed, AtFile
    <2> QED BY <2>3, <2>4, <2>5 DEF DoneInv, Fresh
  <1>4. DoneInv => DoneInv'
    BY <1>1 DEF DoneInv, Fresh, Children
  <1>5. Pending' = Pending
    BY <1>1, PendingInWalk
  <1> QED BY <1>1, <1>2, <1>3, <1>4, <1>5 DEF FreshInv, InWalk
-----------------------------------------------------------------------------
\* The watcher: while a walk is under way it waits; otherwise it takes no
\* event without marking the tree dirty.
LEMMA FreshWatcher ==
  ASSUME WatchMode = "dirty", TypeInv, FlagInv, LockInv, FreshInv, Watcher
  PROVE  FreshInv'
  <1>1. wpc \in {"off", "load", "read", "event", "mark"}
    BY DEF LockInv
  <1>2. CASE LoadDirty
    <2>1. /\ wpc = "load" /\ wpc' = "read" /\ ~dirty /\ UNCHANGED <<buf, queue>>
          /\ UNCHANGED <<present, watched, ext, dirty, mpc, err, kids, text>>
      BY <1>2 DEF LoadDirty, WGoto, fsVars, indexVars, treeVars, walkVars
    <2>2. ~InWalk'
      BY <2>1 DEF FlagInv, InWalk
    <2>3. Pending' = Pending /\ DoneInv' = DoneInv
      BY <2>1 DEF Pending, DoneInv, Fresh, Children
    <2> QED BY <2>1, <2>2, <2>3 DEF FreshInv, PresentInv, BufferInv
  <1>3. CASE ReadEvents
    <2> DEFINE n == Least(Len(queue), MaxRead)
    <2>1. /\ wpc = "read" /\ buf' = SubSeq(queue, 1, n)
          /\ queue' = SubSeq(queue, n + 1, Len(queue))
          /\ wpc' = IF n = 0 THEN "load" ELSE "event"
          /\ UNCHANGED <<present, watched, ext, dirty, mpc, err, kids, text>>
      BY <1>3 DEF ReadEvents, WGoto, indexVars, treeVars, walkVars
    <2> HIDE DEF n
    <2>2. ~InWalk' /\ ~dirty
      BY <2>1 DEF FlagInv, InWalk
    <2>3. /\ Len(buf') = n /\ n \in Nat /\ (n = 0 => queue = <<>>) /\ buf' \in Seq(Events)
      BY <2>1, ReadKeepsQueue DEF n, TypeInv
    <2>4. BufferInv' /\ (buf' = <<>> => n = 0)
      BY <2>1, <2>3, EmptySeq DEF BufferInv
    <2>5. ~Pending' => ~Pending
      BY <2>1, <2>3, <2>4 DEF Pending, FreshInv, BufferInv
    <2>6. DoneInv' = DoneInv
      BY <2>1 DEF DoneInv, Fresh, Children
    <2> QED BY <2>1, <2>2, <2>4, <2>5, <2>6 DEF FreshInv, PresentInv
  <1>4. CASE HandleEvent
    <2>1. /\ wpc = "event" /\ buf' = <<>> /\ wpc' = "mark" /\ UNCHANGED <<present, mpc>>
      BY <1>4 DEF HandleEvent, Breaking, WGoto, fsVars, indexVars, walkVars
    <2>2. ~InWalk'
      BY <2>1 DEF FlagInv, InWalk
    <2>3. Pending'
      BY <2>1 DEF Pending
    <2> QED BY <2>1, <2>2, <2>3 DEF FreshInv, PresentInv, BufferInv
  <1>5. CASE MarkDirty
    <2>1. /\ wpc = "mark" /\ dirty' = TRUE /\ wpc' = "load" /\ UNCHANGED <<present, mpc, buf>>
      BY <1>5 DEF MarkDirty, WGoto, fsVars, walkVars
    <2>2. ~InWalk'
      BY <2>1 DEF FlagInv, InWalk
    <2> QED BY <2>1, <2>2 DEF FreshInv, PresentInv, BufferInv
  <1>6. LoadDirty \/ ReadEvents \/ HandleEvent \/ MarkDirty
    BY <1>1 DEF Watcher, WatchNext, LockAndFind, RefreshOpen, RefreshMap, RefreshStore,
                RefreshStat, RefreshFailed
  <1> QED BY <1>2, <1>3, <1>4, <1>5, <1>6

LEMMA FreshStep ==
  ASSUME WatchMode = "dirty", TypeInv, FlagInv, LockInv, FreshInv, [Next]_vars
  PROVE  FreshInv'
  <1>1. CASE Environment
    BY <1>1, FreshEnvironment, TypeStep DEF Next
  <1>2. CASE CallIndex
    <2>1. mpc' = "clear" /\ UNCHANGED <<present, buf, wpc>>
      BY <1>2 DEF CallIndex, IndexStart, Goto, fsVars, watchVars
    <2> QED BY <2>1 DEF FreshInv, PresentInv, BufferInv, InWalk
  <1>3. CASE StartWatching
    <2>1. /\ wpc = "off" /\ wpc' = "load" /\ mpc = "idle"
          /\ UNCHANGED <<present, watched, ext, queue, dirty, mpc, err, kids, text, buf>>
      BY <1>3 DEF StartWatching, WatchStart, WGoto, fsVars, indexVars, treeVars, walkVars
    <2>2. Pending' = Pending /\ DoneInv' = DoneInv
      BY <2>1 DEF Pending, DoneInv, Fresh, Children
    <2> QED BY <2>1, <2>2 DEF FreshInv, PresentInv, BufferInv, InWalk
  <1>4. CASE Indexer
    <2>1. CASE IndexExit
      <3>1. /\ mpc = "unlock" /\ mpc' = "idle"
            /\ UNCHANGED <<present, watched, ext, queue, dirty, err, kids, text, buf, wpc>>
        BY <1>4, <2>1 DEF Indexer, IndexExit, Goto, fsVars, treeVars, watchVars
      <3>2. Pending' = Pending /\ DoneInv' = DoneInv
        BY <3>1 DEF Pending, DoneInv, Fresh, Children
      <3> QED BY <3>1, <3>2 DEF FreshInv, PresentInv, BufferInv, InWalk
    <2> QED BY <1>4, <2>1, FreshClear, FreshProcess, FreshAddWatcher, FreshListDir, FreshFile,
               FreshClean DEF Indexer, IndexNext
  <1>5. CASE Watcher
    BY <1>5, FreshWatcher
  <1>6. CASE Reader \/ UNCHANGED vars
    <2>1. UNCHANGED <<present, watched, ext, queue, dirty, kids, text, wdMap, mpc, cur, todo,
                      nmap, got, err, buf, wpc>>
      BY <1>6 DEF Reader, WalkNext, vars, fsVars, indexVars, treeVars, walkVars, watchVars
    <2>2. Pending' = Pending /\ DoneInv' = DoneInv
      BY <2>1 DEF Pending, DoneInv, Fresh, Children
    <2>3. ShapeInv' = ShapeInv
      BY <2>1 DEF ShapeInv, Listed
    <2>4. AgreeInv' = AgreeInv
      BY <2>1 DEF AgreeInv, Listed, Processed, AtFile, Frontier, Children
    <2> QED BY <2>1, <2>2, <2>3, <2>4 DEF FreshInv, PresentInv, BufferInv, InWalk
  <1> QED BY <1>1, <1>2, <1>3, <1>4, <1>5, <1>6 DEF Next

LEMMA FreshInit == Init => FreshInv
  <1> SUFFICES ASSUME Init PROVE FreshInv
    OBVIOUS
  <1>1. present = Initial /\ buf = <<>> /\ mpc = "idle" /\ err = "NONE"
    BY DEF Init, IndexInit, FsInit, WatchInit
  <1>2. \A e \in Initial : Path[e] \subseteq Initial
    BY FiemapAssumption
  <1> QED BY <1>1, <1>2 DEF FreshInv, PresentInv, BufferInv, InWalk

\* In the mode that marks the tree dirty, whenever the last index succeeded and
\* the tree does not say what the file system says, the tree is marked or an
\* event is on its way: a change is missed neither between the listing of a
\* directory and its watch, nor by a queue that overflows, nor by an index that
\* clears the flag over events not yet read: for a client that does not index
\* a tree that is clean.
THEOREM NoChangeIsMissed ==
  ASSUME IndexWhenStale, WatchMode = "dirty"
  PROVE  Spec => []NoMissedChange
  <1>1. FreshInv => NoMissedChange
    BY DEF FreshInv, DoneInv, NoMissedChange
  <1> QED BY <1>1, TypeInit, TypeStep, FlagInit, FlagStep, LockInit, LockStep, FreshInit,
             FreshStep, PTL DEF Spec
=============================================================================
