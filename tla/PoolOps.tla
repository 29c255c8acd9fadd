------------------------------ MODULE PoolOps ------------------------------
(***************************************************************************)
(* The arithmetic of 'struct xal_pool' (src/xal_pool.c): a mapping of       *)
(* 'reserved' fixed-size elements of which a prefix of 'allocated' elements *)
(* has been made usable and a prefix of 'free' elements has been handed     *)
(* out.  Every operator maps a pool record to the pool record and the error *)
(* code the C function returns; the memory behind the pool is the business  *)
(* of the modules that use these operators.                                 *)
(***************************************************************************)
EXTENDS Integers

CONSTANTS
  IdxMax,         \* UINT32_MAX, the largest index a claim may reach
  BeyondMapped,   \* the address space right behind the pool is mapped too
  CommitMayFail   \* the kernel may refuse to commit memory (mprotect fails)

ASSUME PoolAssumption ==
  /\ IdxMax \in Nat
  /\ BeyondMapped \in BOOLEAN
  /\ CommitMayFail \in BOOLEAN

Pools == [reserved : Nat, allocated : Nat, growby : Nat, free : Nat]

\* The zeroed pool that calloc() of 'struct xal' leaves behind.
NoPool == [reserved |-> 0, allocated |-> 0, growby |-> 0, free |-> 0]

PoolErrors == {"OK", "EINVAL", "ENOMEM", "EOVERFLOW"}

\* mprotect() of the first n elements: it fails on a hole in the address
\* space, and makes whatever else is mapped there writable.  ok tells
\* whether it succeeds.
mprotect(p, n, ok) ==
  IF ok THEN n <= p.reserved \/ BeyondMapped
        ELSE CommitMayFail \/ (n > p.reserved /\ ~BeyondMapped)

\* Mistakes the properties of XalPool and FiemapSystem must notice.
Mutant_GrowZeroes(p, growby) == p.free - 1 .. p.free + growby - 1
Mutant_NeedsGrow(p, count) == p.allocated < p.free
Mutant_Advance(p, count) == [p EXCEPT !.free = @ - count]
Mutant_ClaimError(p, count, ok) == IF ok THEN "OK" ELSE "ENOMEM"

\* What xal_pool_grow() makes of the pool once mprotect() has succeeded.
xal_pool_grow(p, growby) == [p EXCEPT !.allocated = @ + growby]

\* The elements xal_pool_grow() zeroes: growby of them, from 'free' on.
GrowZeroes(p, growby) == p.free .. p.free + growby - 1

\* The pool decides to grow when a claim reaches the end of 'allocated'.
NeedsGrow(p, count) == p.allocated <= p.free + count

\* The pool after the part both claim functions share; ok is the outcome of
\* mprotect() when the pool has to grow.
AfterGrow(p, count) ==
  IF NeedsGrow(p, count) THEN xal_pool_grow(p, p.growby) ELSE p

ClaimError(p, count, ok) ==
  IF count > p.growby THEN "EINVAL"
  ELSE IF NeedsGrow(p, count) /\ ~ok THEN "ENOMEM"
  ELSE "OK"

Advance(p, count) == [p EXCEPT !.free = @ + count]

\* xal_pool_claim_extents(): no check against the 32 bits of the index.
xal_pool_claim_extents(p, count, ok) ==
  LET err == ClaimError(p, count, ok) IN
  [err  |-> err,
   pool |-> IF err = "OK" THEN Advance(AfterGrow(p, count), count) ELSE p]

\* xal_pool_claim_inodes(): a claim refused because its index would not fit
\* in 32 bits has grown the pool already.
xal_pool_claim_inodes(p, count, ok) ==
  LET err      == ClaimError(p, count, ok)
      overflow == err = "OK" /\ p.free + count > IdxMax
  IN [err  |-> IF overflow THEN "EOVERFLOW" ELSE err,
      pool |-> IF overflow THEN AfterGrow(p, count)
               ELSE xal_pool_claim_extents(p, count, ok).pool]

\* xal_pool_clear() once its mprotect() of the whole reserve has succeeded.
xal_pool_clear(p) == [p EXCEPT !.free = 0, !.allocated = 0]
=============================================================================
