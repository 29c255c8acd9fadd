--------------------------- MODULE XalPool_proofs ---------------------------
(***************************************************************************)
(* Proofs about XalPool for every reserve, every claim size and every way   *)
(* mprotect() may behave.                                                   *)
(***************************************************************************)
EXTENDS XalPool, PoolOps_proofs, TLAPS

\* What a step that claims n elements does, to the pool and to its memory.
ClaimDone(n, ok) ==
  /\ n \in Nat
  /\ memory = "mapped" /\ memory' = memory
  /\ mprotect(pool, pool.allocated + pool.growby, ok)
  /\ ClaimOutcome(pool, n, ok, ret', pool')
  /\ ClaimMemory(n, ok)

\* Claims of inodes and claims of extents are steps of that form.
LEMMA ClaimStep ==
  ASSUME TypeOK, PoolInv, NEW n \in 0 .. MaxClaim,
         ClaimInodes(n) \/ ClaimExtents(n)
  PROVE  \E ok \in BOOLEAN : ClaimDone(n, ok)
  <1>1. n \in Nat /\ pool \in Pools /\ memory = "mapped" /\ pool.free <= pool.allocated
    BY XalPoolAssumption DEF ClaimInodes, ClaimExtents, TypeOK, PoolInv
  <1>2. CASE ClaimInodes(n)
    <2>1. PICK ok \in BOOLEAN :
            /\ mprotect(pool, pool.allocated + pool.growby, ok)
            /\ Claimed(xal_pool_claim_inodes(pool, n, ok))
            /\ ClaimMemory(n, ok)
      BY <1>2 DEF ClaimInodes
    <2>2. ClaimOutcome(pool, n, ok, ret', pool') /\ memory' = memory
      BY <1>1, <2>1, ClaimInodesOutcome DEF Claimed
    <2> QED BY <1>1, <2>1, <2>2 DEF ClaimDone
  <1>3. CASE ClaimExtents(n)
    <2>1. PICK ok \in BOOLEAN :
            /\ mprotect(pool, pool.allocated + pool.growby, ok)
            /\ Claimed(xal_pool_claim_extents(pool, n, ok))
            /\ ClaimMemory(n, ok)
      BY <1>3 DEF ClaimExtents
    <2>2. ClaimOutcome(pool, n, ok, ret', pool') /\ memory' = memory
      BY <1>1, <2>1, ClaimExtentsOutcome DEF Claimed
    <2> QED BY <1>1, <2>1, <2>2 DEF ClaimDone
  <1> QED BY <1>2, <1>3

\* A claim keeps the invariant: what it zeroes lies behind what is handed out,
\* and mprotect() keeps 'allocated' inside the mapping unless something is
\* mapped behind it.
LEMMA ClaimKeepsInv ==
  ASSUME TypeOK, PoolInv, memory = "mapped", memory' = memory,
         NEW n \in Nat, NEW ok \in BOOLEAN,
         mprotect(pool, pool.allocated + pool.growby, ok),
         ClaimOutcome(pool, n, ok, ret', pool'), ClaimMemory(n, ok)
  PROVE  TypeOK' /\ PoolInv'
  <1>1. ok /\ ~BeyondMapped => pool.allocated + pool.growby <= pool.reserved
    BY DEF mprotect
  <1>2. nonzero' \subseteq nonzero
    BY DEF ClaimMemory, memset
  <1>3. writable' \in Nat /\ pool'.allocated <= writable'
    BY DEF ClaimMemory, ClaimOutcome, TypeOK, PoolInv, Pools
  <1>4. TypeOK'
    BY <1>2, <1>3 DEF TypeOK, ClaimOutcome
  <1>5. pool.free <= pool'.free
    BY DEF ClaimOutcome, TypeOK, Pools
  <1>6. ~BeyondMapped => pool'.allocated <= Reserved
    BY <1>1 DEF ClaimOutcome, PoolInv, TypeOK, Pools
  <1>7. ~BeyondMapped => \A c \in nonzero' : c < pool'.free
    BY <1>2, <1>4, <1>5 DEF PoolInv, TypeOK, Pools
  <1>8. pool'.reserved = Reserved /\ pool'.free <= pool'.allocated /\ memory' = "mapped"
    BY DEF PoolInv, ClaimOutcome
  <1>9. PoolInv'
    BY <1>3, <1>6, <1>7, <1>8, PoolAssumption DEF PoolInv
  <1> QED BY <1>4, <1>9

\* PoolInv is inductive.
LEMMA PoolInvInductive ==
  ASSUME TypeOK, PoolInv, [Next]_vars
  PROVE  TypeOK' /\ PoolInv'
  <1> USE XalPoolAssumption, PoolAssumption
  <1>1. CASE \E allocated \in 0 .. Reserved + 1 : xal_pool_map(allocated)
    <2> PICK allocated \in 0 .. Reserved + 1 : xal_pool_map(allocated)
      BY <1>1
    <2>0. allocated \in Nat /\ Reserved \in Nat
      OBVIOUS
    <2>1. CASE MapRefused
      BY <2>1 DEF MapRefused, TypeOK, PoolInv, PoolErrors
    <2>2. CASE ShmMapFails
      BY <2>2 DEF ShmMapFails, Described, NoPool, TypeOK, PoolInv, Pools, PoolErrors, Memory
    <2>3. CASE ShmMap
      <3>1. pool' = [reserved |-> Reserved, allocated |-> Reserved,
                     growby |-> Reserved, free |-> 0]
        BY <2>3 DEF ShmMap, Described, NoPool
      <3>2. nonzero' = {} /\ memory' = "mapped" /\ writable' = Reserved /\ ret' = "OK"
        BY <2>3 DEF ShmMap
      <3>3. TypeOK'
        BY <3>1, <3>2 DEF TypeOK, Pools, PoolErrors, Memory
      <3>4. PoolInv'
        BY <3>1, <3>2 DEF PoolInv
      <3> QED BY <3>3, <3>4
    <2>4. CASE AnonMapFails(allocated)
      <3>1. pool' = Described(0, 0) \/ pool' = Described(0, allocated)
        BY <2>4 DEF AnonMapFails
      <3>2. pool' \in Pools /\ pool'.reserved = Reserved
        BY <2>0, <3>1 DEF Described, NoPool, Pools
      <3>3. memory' \in Memory \ {"mapped"}
        <4>1. memory # "mapped"
          BY <2>4 DEF AnonMapFails, PoolInv
        <4> QED BY <2>4, <4>1 DEF AnonMapFails, TypeOK, Memory
      <3>4. ret' \in PoolErrors /\ writable' = writable /\ nonzero' = {}
        BY <2>4 DEF AnonMapFails, PoolErrors, PoolInv
      <3> QED BY <3>2, <3>3, <3>4 DEF TypeOK, PoolInv
    <2>5. CASE AnonMap(allocated)
      <3>1. pool' = [reserved |-> Reserved, allocated |-> allocated,
                     growby |-> allocated, free |-> 0]
        <4>1. pool' = xal_pool_grow(Described(0, allocated), allocated)
          BY <2>5 DEF AnonMap
        <4>2. 0 + allocated = allocated
          BY <2>0
        <4> QED BY <4>1, <4>2 DEF xal_pool_grow, Described
      <3>2. memory' = "mapped" /\ writable' = allocated /\ ret' = "OK"
        BY <2>5 DEF AnonMap
      <3>3. nonzero' = {} /\ allocated <= Reserved
        BY <2>5 DEF AnonMap, memset, PoolInv
      <3>4. TypeOK'
        BY <3>1, <3>2, <3>3 DEF TypeOK, Pools, PoolErrors, Memory
      <3>5. PoolInv'
        BY <3>1, <3>2, <3>3 DEF PoolInv
      <3> QED BY <3>4, <3>5
    <2> QED
      BY <2>1, <2>2, <2>3, <2>4, <2>5 DEF xal_pool_map
  <1>2. ASSUME NEW n \in 0 .. MaxClaim, ClaimInodes(n) \/ ClaimExtents(n)
        PROVE  TypeOK' /\ PoolInv'
    BY <1>2, ClaimStep, ClaimKeepsInv DEF ClaimDone
  <1>4. CASE Clear
    <2>1. PICK ok \in BOOLEAN : mprotect(pool, pool.reserved, ok) /\
            IF ok THEN /\ pool' = xal_pool_clear(pool)
                       /\ writable' = IF writable < pool.reserved
                                        THEN pool.reserved ELSE writable
                       /\ memset(0 .. pool.reserved - 1)
                       /\ ret' = "OK"
                  ELSE ret' = "ENOMEM" /\ UNCHANGED <<pool, writable, nonzero>>
      BY <1>4 DEF Clear
    <2>2. memory = "mapped" /\ memory' = memory
      BY <1>4 DEF Clear
    <2>3. CASE ok
      <3>1. pool' = [pool EXCEPT !.free = 0, !.allocated = 0]
        BY <2>1, <2>3 DEF xal_pool_clear
      <3>2. nonzero' = nonzero \ (0 .. pool.reserved - 1)
        BY <2>1, <2>3 DEF memset
      <3>3. TypeOK'
        BY <2>1, <2>2, <2>3, <3>1, <3>2 DEF TypeOK, Pools, PoolErrors
      <3>4. ~BeyondMapped => nonzero' = {}
        <4>1. ASSUME ~BeyondMapped, NEW c \in nonzero PROVE c \in 0 .. pool.reserved - 1
          BY <2>2, <4>1 DEF PoolInv, TypeOK, Pools
        <4> QED BY <3>2, <4>1
      <3>5. PoolInv'
        BY <2>1, <2>2, <2>3, <3>1, <3>3, <3>4 DEF PoolInv, TypeOK, Pools
      <3> QED BY <3>3, <3>5
    <2>4. CASE ~ok
      BY <2>1, <2>2, <2>4 DEF TypeOK, PoolInv, PoolErrors
    <2> QED BY <2>3, <2>4
  <1>5. ASSUME NEW cell \in 0 .. pool.free - 1, Store(cell) PROVE TypeOK' /\ PoolInv'
    BY <1>5 DEF Store, TypeOK, PoolInv, Pools
  <1>6. CASE Unmap
    BY <1>6 DEF Unmap, TypeOK, PoolInv, PoolErrors, Memory
  <1>7. CASE UNCHANGED vars
    BY <1>7 DEF vars, TypeOK, PoolInv
  <1> QED
    BY <1>1, <1>2, <1>4, <1>5, <1>6, <1>7 DEF Next

\* The invariant and the types hold throughout the life of a pool.
THEOREM PoolInvariant == Spec => [](TypeOK /\ PoolInv)
  <1>1. Init => TypeOK /\ PoolInv
    BY XalPoolAssumption DEF Init, NoPool, TypeOK, PoolInv, Pools, PoolErrors, Memory
  <1>2. TypeOK /\ PoolInv /\ [Next]_vars => (TypeOK /\ PoolInv)'
    BY PoolInvInductive
  <1> QED BY <1>1, <1>2, PTL DEF Spec

\* Types are preserved: in particular no counter of a pool goes negative.
THEOREM PoolTypeCorrect == Spec => []TypeOK
  BY PoolInvariant, PTL

\* A backend can write to every element it was given, whatever sequence of
\* claims and clears came before.
THEOREM ClaimedIsAlwaysWritable == Spec => []ClaimedIsWritable
  <1>1. TypeOK /\ PoolInv => ClaimedIsWritable
    BY DEF PoolInv, ClaimedIsWritable
  <1> QED BY <1>1, PoolInvariant, PTL

\* No element behind the mapping is handed out while the address space there
\* is a hole, although the code never looks at 'reserved'.
THEOREM ClaimsStayInReserve == Spec => []ClaimedWithinReserve
  <1>1. TypeOK /\ PoolInv => ClaimedWithinReserve
    BY XalPoolAssumption DEF PoolInv, ClaimedWithinReserve, TypeOK, Pools
  <1> QED BY <1>1, PoolInvariant, PTL
-----------------------------------------------------------------------------
\* How a step moves the elements handed out and the elements that hold data,
\* when nothing is mapped behind the pool: either it claims an array and
\* touches no data, or nothing is handed out afterwards but what was before.
LEMMA StepEffect ==
  ASSUME TypeOK, PoolInv, [Next]_vars, ~BeyondMapped
  PROVE  \/ /\ memory = "mapped" /\ memory' = "mapped"
            /\ pool.free <= pool'.free /\ nonzero' = nonzero
         \/ /\ memory = "mapped" /\ memory' = "mapped"
            /\ pool'.free = pool.free /\ nonzero \subseteq nonzero'
         \/ pool'.free = 0 /\ (pool.free = 0 \/ memory # "mapped" => nonzero = {})
         \/ memory # "mapped" /\ memory' # "mapped" /\ UNCHANGED <<pool, nonzero>>
         \/ memory' # "mapped" /\ pool' = pool
  <1>1. CASE \E allocated \in 0 .. Reserved + 1 : xal_pool_map(allocated)
    <2> PICK allocated \in 0 .. Reserved + 1 : xal_pool_map(allocated)
      BY <1>1
    <2>1. memory # "mapped" => nonzero = {}
      BY DEF PoolInv
    <2>2. CASE MapRefused
      BY <2>2 DEF MapRefused, TypeOK, Pools
    <2>3. CASE pool.reserved = 0 /\ pool'.free = 0
      BY <2>1, <2>3, XalPoolAssumption DEF PoolInv
    <2>4. ~MapRefused => pool.reserved = 0 /\ pool'.free = 0
      <3>1. ShmMapFails \/ ShmMap \/ AnonMapFails(allocated)
              => pool.reserved = 0 /\ pool' \in {Described(0, 0), Described(0, allocated),
                                                 Described(Reserved, Reserved)}
        BY DEF ShmMapFails, ShmMap, AnonMapFails
      <3>2. AnonMap(allocated)
              => pool.reserved = 0 /\ pool' = xal_pool_grow(Described(0, allocated), allocated)
        BY DEF AnonMap
      <3>3. /\ xal_pool_grow(Described(0, allocated), allocated).free = 0
            /\ Described(0, 0).free = 0 /\ Described(0, allocated).free = 0
            /\ Described(Reserved, Reserved).free = 0
        BY DEF xal_pool_grow, Described
      <3> QED BY <3>1, <3>2, <3>3 DEF xal_pool_map
    <2> QED BY <2>2, <2>3, <2>4
  <1>2. ASSUME NEW n \in 0 .. MaxClaim, ClaimInodes(n) \/ ClaimExtents(n)
        PROVE  /\ memory = "mapped" /\ memory' = "mapped"
               /\ pool.free <= pool'.free /\ nonzero' = nonzero
    <2>1. PICK ok \in BOOLEAN : ClaimDone(n, ok)
      BY <1>2, ClaimStep
    <2>2. pool.free <= pool'.free
      BY <2>1 DEF ClaimDone, ClaimOutcome, TypeOK, Pools
    <2>3. nonzero \cap GrowZeroes(pool, pool.growby) = {}
      BY <2>1 DEF ClaimDone, GrowZeroes, PoolInv, TypeOK, Pools
    <2>4. nonzero' = nonzero
      BY <2>1, <2>3 DEF ClaimDone, ClaimMemory, memset
    <2> QED BY <2>1, <2>2, <2>4 DEF ClaimDone
  <1>3. CASE Clear
    <2>1. memory = "mapped" /\ memory' = "mapped"
      BY <1>3 DEF Clear
    <2>2. pool'.free = 0 \/ UNCHANGED <<pool, nonzero>>
      BY <1>3 DEF Clear, xal_pool_clear, TypeOK, Pools
    <2>3. pool.free = 0 => nonzero = {}
      BY <2>1 DEF PoolInv, TypeOK
    <2> QED BY <2>1, <2>2, <2>3 DEF TypeOK, Pools
  <1>4. ASSUME NEW cell \in 0 .. pool.free - 1, Store(cell)
        PROVE  /\ memory = "mapped" /\ memory' = "mapped"
               /\ pool'.free = pool.free /\ nonzero \subseteq nonzero'
    BY <1>4 DEF Store
  <1>5. CASE Unmap
    BY <1>5 DEF Unmap
  <1>6. CASE UNCHANGED vars
    BY <1>6 DEF vars, TypeOK, Pools
  <1> QED BY <1>1, <1>2, <1>3, <1>4, <1>5, <1>6 DEF Next

\* Claimed elements are zeroed, through every clear, growth and reuse of a
\* shared memory object, while the space behind the pool is a hole.
THEOREM ZeroedWhenHandedOut ==
  ASSUME ~BeyondMapped PROVE Spec => HandsOutZeroed
  <1>1. TypeOK /\ PoolInv /\ [Next]_vars =>
          [pool'.free > pool.free =>
             (pool.free .. pool'.free - 1) \cap nonzero' = {}]_vars
    <2> SUFFICES ASSUME TypeOK, PoolInv, [Next]_vars, pool'.free > pool.free
                 PROVE  (pool.free .. pool'.free - 1) \cap nonzero' = {}
      OBVIOUS
    <2>1. memory = "mapped" /\ nonzero' = nonzero
      BY StepEffect DEF TypeOK, Pools
    <2> QED BY <2>1 DEF PoolInv, TypeOK, Pools
  <1> QED BY <1>1, PoolInvariant, PTL DEF Spec, HandsOutZeroed

\* Growing a pool never wipes an inode or an extent that is in use.
THEOREM GrowthKeepsData ==
  ASSUME ~BeyondMapped PROVE Spec => GrowKeepsClaimed
  <1>1. TypeOK /\ PoolInv /\ [Next]_vars =>
          [pool'.free >= pool.free /\ memory' = "mapped"
             => nonzero \subseteq nonzero']_vars
    <2> SUFFICES ASSUME TypeOK, PoolInv, [Next]_vars,
                        pool'.free >= pool.free, memory' = "mapped"
                 PROVE  nonzero \subseteq nonzero'
      OBVIOUS
    <2> QED BY StepEffect DEF TypeOK, Pools
  <1> QED BY <1>1, PoolInvariant, PTL DEF Spec, GrowKeepsClaimed

\* The pool implements BumpAllocator: every claim grants an array of elements
\* of the reserve that nobody holds, everything else takes all back or
\* leaves the elements with their holders.
THEOREM PoolImplementsBumpAllocator ==
  ASSUME ~BeyondMapped PROVE Spec => ImplementsBumpAllocator
  <1>1. Init => Bump!Init
    BY DEF Init, Bump!Init, Owned
  <1>2. TypeOK /\ PoolInv /\ TypeOK' /\ PoolInv' /\ [Next]_vars => [Bump!Next]_Owned
    <2> SUFFICES ASSUME TypeOK, PoolInv, TypeOK', PoolInv', [Next]_vars
                 PROVE  Bump!Next \/ Owned' = Owned
      OBVIOUS
    <2>1. CASE memory = "mapped" /\ memory' = "mapped" /\ pool.free <= pool'.free
      <3> DEFINE base == pool.free
                 count == pool'.free - pool.free
      <3>1. base \in 0 .. Reserved /\ count \in 0 .. Reserved
        BY <2>1, XalPoolAssumption DEF PoolInv, TypeOK, Pools
      <3>2. base + count = pool'.free
        BY DEF TypeOK, Pools
      <3>3. (base .. base + count - 1) \subseteq (0 .. Reserved - 1) \ Owned
        BY <2>1, <3>1, <3>2, XalPoolAssumption DEF PoolInv, TypeOK, Pools, Owned
      <3>4. Owned' = Owned \cup (base .. base + count - 1)
        BY <2>1, <3>1, <3>2 DEF Owned, TypeOK, Pools
      <3>5. Bump!Grant(base, count)
        BY <3>3, <3>4 DEF Bump!Grant
      <3> QED BY <3>1, <3>5 DEF Bump!Next
    <2>2. CASE pool'.free = 0 \/ memory' # "mapped"
      BY <2>2 DEF Bump!Next, Bump!TakeBack, Owned
    <2> QED BY <2>1, <2>2, StepEffect DEF TypeOK, Pools
  <1> QED BY <1>1, <1>2, PoolInvariant, PTL DEF Spec, ImplementsBumpAllocator, Bump!Spec
=============================================================================
