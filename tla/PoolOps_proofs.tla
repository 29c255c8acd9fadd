--------------------------- MODULE PoolOps_proofs ---------------------------
(***************************************************************************)
(* What the operators on pools do, for the proofs of every module that      *)
(* claims from a pool.                                                      *)
(***************************************************************************)
EXTENDS PoolOps, TLAPS

\* What a claim of n elements may do to a pool p: it moves nothing else than
\* 'free' and 'allocated', grows by one chunk, and stays within 'allocated'.
ClaimOutcome(p, n, ok, err, q) ==
  /\ q \in Pools
  /\ err \in PoolErrors
  /\ q.reserved = p.reserved
  /\ q.growby = p.growby
  /\ q.free = IF err = "OK" THEN p.free + n ELSE p.free
  /\ q.free <= q.allocated
  /\ q.allocated = IF n <= p.growby /\ NeedsGrow(p, n) /\ ok
                     THEN p.allocated + p.growby ELSE p.allocated

\* xal_pool_claim_extents() has such an outcome.
LEMMA ClaimExtentsOutcome ==
  ASSUME NEW p \in Pools, NEW n \in Nat, NEW ok \in BOOLEAN,
         p.free <= p.allocated
  PROVE  ClaimOutcome(p, n, ok, xal_pool_claim_extents(p, n, ok).err,
                                xal_pool_claim_extents(p, n, ok).pool)
  BY DEF ClaimOutcome, xal_pool_claim_extents, ClaimError, Advance, AfterGrow,
         NeedsGrow, xal_pool_grow, Pools, PoolErrors

\* xal_pool_claim_inodes() too, although it grows the pool before it refuses
\* an index that does not fit in 32 bits.
LEMMA ClaimInodesOutcome ==
  ASSUME NEW p \in Pools, NEW n \in Nat, NEW ok \in BOOLEAN,
         p.free <= p.allocated
  PROVE  ClaimOutcome(p, n, ok, xal_pool_claim_inodes(p, n, ok).err,
                                xal_pool_claim_inodes(p, n, ok).pool)
  <1>1. CASE ClaimError(p, n, ok) = "OK" /\ p.free + n > IdxMax
    <2>1. xal_pool_claim_inodes(p, n, ok) =
            [err |-> "EOVERFLOW", pool |-> AfterGrow(p, n)]
      BY <1>1 DEF xal_pool_claim_inodes
    <2> QED
      BY <1>1, <2>1 DEF ClaimOutcome, ClaimError, AfterGrow, NeedsGrow,
                        xal_pool_grow, Pools, PoolErrors
  <1>2. CASE ~(ClaimError(p, n, ok) = "OK" /\ p.free + n > IdxMax)
    <2>1. xal_pool_claim_inodes(p, n, ok) = xal_pool_claim_extents(p, n, ok)
      BY <1>2 DEF xal_pool_claim_inodes, xal_pool_claim_extents
    <2> QED
      BY <2>1, ClaimExtentsOutcome
  <1> QED BY <1>1, <1>2

\* xal_pool_clear() forgets what was handed out and what was usable.
LEMMA ClearOutcome ==
  ASSUME NEW p \in Pools
  PROVE  /\ xal_pool_clear(p) \in Pools
         /\ xal_pool_clear(p).free = 0 /\ xal_pool_clear(p).allocated = 0
         /\ xal_pool_clear(p).reserved = p.reserved /\ xal_pool_clear(p).growby = p.growby
         /\ xal_pool_clear(p).free <= xal_pool_clear(p).allocated
  <1>1. PICK q : q = [p EXCEPT !.free = 0, !.allocated = 0]
    OBVIOUS
  <1>2. q.free = 0 /\ q.allocated = 0 /\ q.reserved = p.reserved /\ q.growby = p.growby
    BY <1>1 DEF Pools
  <1>3. q \in Pools
    BY <1>1 DEF Pools
  <1>4. xal_pool_clear(p) = q
    BY <1>1 DEF xal_pool_clear
  <1> QED BY <1>2, <1>3, <1>4
=============================================================================
