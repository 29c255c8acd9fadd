------------------------------ MODULE XalPool ------------------------------
(***************************************************************************)
(* One pool of src/xal_pool.c over its life: mapped by a backend's open     *)
(* function, claimed from and cleared by the index functions, unmapped by   *)
(* xal_close().  Memory is modelled at the granularity of an element.       *)
(***************************************************************************)
EXTENDS PoolOps, FiniteSets

CONSTANTS
  Reserved,   \* the 'reserved' argument of xal_pool_map() (40000000 in src)
  MaxClaim    \* largest number of elements claimed at once

ASSUME XalPoolAssumption == Reserved \in Nat \ {0} /\ MaxClaim \in Nat

VARIABLES
  pool,       \* struct xal_pool
  memory,     \* what pool->memory points to
  writable,   \* the first 'writable' elements are PROT_READ | PROT_WRITE
  nonzero,    \* elements that hold something else than zeroes
  ret         \* the value returned by the last call

vars == <<pool, memory, writable, nonzero, ret>>

Memory == {"NULL", "MAP_FAILED", "mapped", "unmapped"}

TypeOK ==
  /\ pool \in Pools
  /\ memory \in Memory
  /\ writable \in Nat
  /\ nonzero \in SUBSET Nat
  /\ ret \in PoolErrors

Init ==
  /\ pool = NoPool
  /\ memory = "NULL"
  /\ writable = 0
  /\ nonzero = {}
  /\ ret = "OK"

\* Mistakes the properties below must notice.
Mutant_ShmMap ==
  /\ pool.reserved = 0
  /\ pool' = [NoPool EXCEPT !.reserved = Reserved, !.allocated = Reserved,
                            !.growby = Reserved]
  /\ memory' = "mapped" /\ writable' = Reserved /\ ret' = "OK"
  /\ nonzero' \in SUBSET (0 .. Reserved - 1)

memset(cells) == nonzero' = nonzero \ cells

-----------------------------------------------------------------------------
\* xal_pool_map(): the pool is described before it is mapped, and stays so
\* when the mapping fails.

MapRefused ==
  /\ pool.reserved # 0
  /\ ret' = "EINVAL"
  /\ UNCHANGED <<pool, memory, writable, nonzero>>

Described(allocated, growby) ==
  [reserved |-> Reserved, allocated |-> allocated, growby |-> growby, free |-> 0]

\* shm_open() and ftruncate() leave pool->memory alone, mmap() does not.
ShmMapFails ==
  /\ pool.reserved = 0
  /\ pool' = Described(0, 0)
  /\ memory' \in {memory, "MAP_FAILED"}
  /\ ret' = "ENOMEM"
  /\ UNCHANGED <<writable, nonzero>>

\* A shared memory object of that name may be left from an earlier process,
\* so that its elements are nonzero before they are cleared here.
ShmMap ==
  /\ pool.reserved = 0
  /\ pool' = Described(Reserved, Reserved)
  /\ memory' = "mapped"
  /\ writable' = Reserved
  /\ ret' = "OK"
  /\ \E left \in SUBSET (0 .. Reserved - 1) :
       nonzero' = left \ (0 .. Reserved - 1)

AnonMapFails(allocated) ==
  /\ pool.reserved = 0
  /\ \/ /\ allocated > Reserved
        /\ pool' = Described(0, 0) /\ memory' = memory /\ ret' = "EINVAL"
     \/ /\ allocated <= Reserved
        /\ pool' = Described(0, allocated)
        /\ memory' = "MAP_FAILED" /\ ret' = "ENOMEM"
     \/ /\ allocated <= Reserved
        /\ pool' = Described(0, allocated)
        /\ mprotect(pool', allocated, FALSE)
        /\ memory' = "unmapped" /\ ret' = "ENOMEM"
  /\ UNCHANGED <<writable, nonzero>>

AnonMap(allocated) ==
  LET fresh == Described(0, allocated) IN
  /\ pool.reserved = 0
  /\ allocated <= Reserved
  /\ mprotect(fresh, allocated, TRUE)
  /\ pool' = xal_pool_grow(fresh, allocated)
  /\ memory' = "mapped"
  /\ writable' = allocated
  /\ ret' = "OK"
  /\ memset(GrowZeroes(fresh, allocated))

xal_pool_map(allocated) ==
  \/ MapRefused
  \/ ShmMapFails
  \/ ShmMap
  \/ AnonMapFails(allocated)
  \/ AnonMap(allocated)

-----------------------------------------------------------------------------
\* A claim, by whichever of the two functions: the memory it makes writable
\* and zeroes when it grows the pool.
ClaimMemory(count, ok) ==
  IF count <= pool.growby /\ NeedsGrow(pool, count) /\ ok
    THEN /\ writable' = IF writable < pool.allocated + pool.growby
                          THEN pool.allocated + pool.growby ELSE writable
         /\ memset(GrowZeroes(pool, pool.growby))
    ELSE UNCHANGED <<writable, nonzero>>

Claimed(result) ==
  /\ pool' = result.pool
  /\ ret' = result.err
  /\ UNCHANGED memory

ClaimInodes(count) ==
  /\ memory = "mapped"
  /\ \E ok \in BOOLEAN :
       /\ mprotect(pool, pool.allocated + pool.growby, ok)
       /\ Claimed(xal_pool_claim_inodes(pool, count, ok))
       /\ ClaimMemory(count, ok)

ClaimExtents(count) ==
  /\ memory = "mapped"
  /\ \E ok \in BOOLEAN :
       /\ mprotect(pool, pool.allocated + pool.growby, ok)
       /\ Claimed(xal_pool_claim_extents(pool, count, ok))
       /\ ClaimMemory(count, ok)

\* xal_pool_clear(): the index functions ignore its return value.
Clear ==
  /\ memory = "mapped"
  /\ \E ok \in BOOLEAN :
       /\ mprotect(pool, pool.reserved, ok)
       /\ IF ok
            THEN /\ pool' = xal_pool_clear(pool)
                 /\ writable' = IF writable < pool.reserved
                                  THEN pool.reserved ELSE writable
                 /\ memset(0 .. pool.reserved - 1)
                 /\ ret' = "OK"
            ELSE /\ ret' = "ENOMEM"
                 /\ UNCHANGED <<pool, writable, nonzero>>
  /\ UNCHANGED memory

\* A backend fills in an element it was given: xal_inode_at(), xal_extent_at().
Store(cell) ==
  /\ memory = "mapped"
  /\ cell < pool.free
  /\ nonzero' = nonzero \cup {cell}
  /\ UNCHANGED <<pool, memory, writable, ret>>

\* xal_pool_unmap(), from xal_close(): no pool outlives its 'struct xal'.
Unmap ==
  /\ memory = "mapped"
  /\ memory' = "unmapped"
  /\ writable' = 0
  /\ nonzero' = {}
  /\ ret' = "OK"
  /\ UNCHANGED pool

Next ==
  \/ \E allocated \in 0 .. Reserved + 1 : xal_pool_map(allocated)
  \/ \E count \in 0 .. MaxClaim : ClaimInodes(count) \/ ClaimExtents(count)
  \/ Clear
  \/ \E cell \in 0 .. pool.free - 1 : Store(cell)
  \/ Unmap

Spec == Init /\ [][Next]_vars
-----------------------------------------------------------------------------
\* The elements the backends hold.
Owned == IF memory = "mapped" THEN 0 .. pool.free - 1 ELSE {}

\* A backend can write to every element it was given: growing is decided
\* before the elements are handed out, and a clear does not shrink what is
\* writable although it forgets 'allocated'.
ClaimedIsWritable ==
  memory = "mapped" =>
    pool.free <= pool.allocated /\ pool.allocated <= writable

\* The pool never hands out an element behind its mapping, where the next
\* mapping begins.  Nothing in the code compares a claim
\* with 'reserved': it is the hole behind the mapping that makes mprotect() fail.
ClaimedWithinReserve ==
  ~BeyondMapped /\ memory = "mapped" => pool.free <= pool.reserved

\* The index functions rely on claimed elements being zeroed (process_ino
\* only sets ftype when it is zero): no element is handed out with old
\* contents, neither after a clear nor from a reused shared memory object.
HandsOutZeroed ==
  [][pool'.free > pool.free =>
       (pool.free .. pool'.free - 1) \cap nonzero' = {}]_vars

\* Growing zeroes elements, but never one that holds data: only clearing or
\* unmapping the pool takes an inode or an extent away.
GrowKeepsClaimed ==
  [][pool'.free >= pool.free /\ memory' = "mapped"
       => nonzero \subseteq nonzero']_vars

\* The pool implements the allocator the backends assume.
Bump == INSTANCE BumpAllocator WITH Limit <- Reserved, owned <- Owned
ImplementsBumpAllocator == Bump!Spec

\* The inductive invariant behind these properties.
PoolInv ==
  /\ pool.reserved \in {0, Reserved}
  /\ memory # "mapped" => nonzero = {}
  /\ memory = "mapped" =>
       /\ pool.reserved = Reserved
       /\ pool.free <= pool.allocated
       /\ pool.allocated <= writable
       /\ ~BeyondMapped =>
            pool.allocated <= Reserved /\ \A c \in nonzero : c < pool.free

=============================================================================
