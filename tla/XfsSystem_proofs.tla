-------------------------- MODULE XfsSystem_proofs --------------------------
(***************************************************************************)
(* Proofs about the XFS backend, for every image that is what the records   *)
(* of its inode B+trees say, every order of calls, and device and memory    *)
(* failures at any step: the client's thread indexes a live buffer, a       *)
(* retrieval that succeeds has found every inode, and the arrays of the     *)
(* tree never overlap.                                                      *)
(***************************************************************************)
EXTENDS XfsSystem, PoolOps_proofs, SequenceTheorems, FiniteSetTheorems, TLAPS
-----------------------------------------------------------------------------
(***************************************************************************)
(* What the decoding functions of src/xal_be_xfs.c and the conversions of   *)
(* src/xal.c compute, for every geometry and every width of the fields: they *)
(* undo what the format says of block numbers, inode numbers and extents.   *)
(***************************************************************************)

\* Products the provers need help with.
LEMMA Products ==
  /\ \A m, n \in Nat : m * n \in Nat
  /\ \A m, n \in Nat : m >= 1 => m * n >= n
  /\ \A m, n, p \in Int : (m + n) * p = m * p + n * p
  /\ \A m, n, p \in Int : m * n * p = m * (n * p)
  /\ \A m, n \in Int : m * n = n * m
  OBVIOUS

\* A quotient and a remainder are the only ones.
LEMMA Quotient ==
  ASSUME NEW n \in Nat \ {0}, NEW q \in Nat, NEW r \in 0 .. n - 1
  PROVE  (q * n + r) \div n = q /\ (q * n + r) % n = r
  OBVIOUS

LEMMA Division ==
  ASSUME NEW n \in Nat \ {0}, NEW a \in Nat
  PROVE  /\ a \div n \in Nat /\ a % n \in 0 .. n - 1
         /\ a = (a \div n) * n + (a % n)
  OBVIOUS

\* The widths of the fields, and the powers of two that go with them.
LEMMA Powers ==
  /\ {0, 1, OffBits, HiBits, LoBits, CntBits, AgBlkLog, InoPBLog} \subseteq Widths
  /\ {1 + OffBits + HiBits, HiBits + 1, OffBits + HiBits + 1, OffBits + HiBits} \subseteq Widths
  /\ \A w \in Widths : 2^w \in Nat \ {0}
  BY FormatAssumption, PowerAssumption DEF Widths
-----------------------------------------------------------------------------
\* xal_fsbno_offset() gives the block of the device a block number was made
\* for, although a group has fewer blocks than its numbers have room for.
THEOREM FsbnoRoundTrip ==
  ASSUME NEW b \in Nat
  PROVE  FsbnoAt(b) \in Nat /\ xal_fsbno_offset(FsbnoAt(b)) = b
  <1> DEFINE q == b \div AgBlocks
             r == b % AgBlocks
             p == 2^AgBlkLog
  <1>1. AgBlocks \in Nat \ {0} /\ p \in Nat \ {0} /\ AgBlocks <= p
    BY FormatAssumption, Powers
  <1>2. q \in Nat /\ r \in 0 .. AgBlocks - 1 /\ b = q * AgBlocks + r
    BY <1>1, Division
  <1>3. FsbnoAt(b) = q * p + r /\ xal_fsbno_offset(FsbnoAt(b)) =
          (FsbnoAt(b) \div p) * AgBlocks + (FsbnoAt(b) % p)
    BY DEF FsbnoAt, xal_fsbno_offset, Shr, Mask
  <1> HIDE DEF q, r, p
  <1>4. r \in 0 .. p - 1
    BY <1>1, <1>2
  <1>5. (q * p + r) \div p = q /\ (q * p + r) % p = r
    BY <1>1, <1>2, <1>4, Quotient
  <1>6. q * p + r \in Nat
    BY <1>1, <1>2, Products
  <1> QED BY <1>2, <1>3, <1>5, <1>6

\* xal_ino_decode_relative() finds the place in its group of the inode that is
\* stored at position i of block b, and with the group's offset that block.
THEOREM InoRoundTrip ==
  ASSUME NEW b \in Nat, NEW i \in 0 .. 2^InoPBLog - 1
  PROVE  /\ InoAt(b, i) \in Nat
         /\ ino_decode_relative(InoAt(b, i)) = [agbno |-> b % AgBlocks, agbino |-> i]
         /\ ag_offset(b \div AgBlocks) + ino_decode_relative(InoAt(b, i)).agbno = b
  <1> DEFINE f == FsbnoAt(b)
             u == 2^InoPBLog
             p == 2^AgBlkLog
             q == b \div AgBlocks
             r == b % AgBlocks
  <1>1. u \in Nat \ {0} /\ p \in Nat \ {0} /\ AgBlocks \in Nat \ {0} /\ AgBlocks <= p
    BY FormatAssumption, Powers
  <1>2. q \in Nat /\ r \in 0 .. AgBlocks - 1 /\ b = q * AgBlocks + r
    BY <1>1, Division
  <1>3. f = q * p + r /\ f \in Nat
    BY FsbnoRoundTrip DEF FsbnoAt
  <1>4. /\ InoAt(b, i) = f * u + i
        /\ ino_decode_relative(InoAt(b, i)) =
             [agbno |-> ((f * u + i) \div u) % p, agbino |-> (f * u + i) % u]
        /\ ag_offset(q) = q * AgBlocks
    BY DEF InoAt, ino_decode_relative, Shr, Mask, ag_offset
  <1>5. i \in 0 .. u - 1
    OBVIOUS
  <1> HIDE DEF f, u, p, q, r
  <1>6. (f * u + i) \div u = f /\ (f * u + i) % u = i /\ f * u + i \in Nat
    <2>1. (f * u + i) \div u = f /\ (f * u + i) % u = i
      BY <1>1, <1>3, <1>5, Quotient
    <2>2. f * u \in Nat /\ i \in Nat
      BY <1>1, <1>3, <1>5, Products
    <2> QED BY <2>1, <2>2
  <1>7. f % p = r
    <2>1. r \in 0 .. p - 1
      BY <1>1, <1>2
    <2> QED BY <1>1, <1>2, <1>3, <2>1, Quotient
  <1>8. ino_decode_relative(InoAt(b, i)) = [agbno |-> r, agbino |-> i]
    BY <1>4, <1>6, <1>7
  <1> QED BY <1>2, <1>4, <1>6, <1>8 DEF q, r

\* Two inodes have two numbers.
LEMMA InoInjective ==
  ASSUME NEW b \in Nat, NEW c \in Nat, NEW i \in 0 .. 2^InoPBLog - 1,
         NEW j \in 0 .. 2^InoPBLog - 1, InoAt(b, i) = InoAt(c, j)
  PROVE  b = c /\ i = j
  <1> DEFINE u == 2^InoPBLog
  <1>1. u \in Nat \ {0} /\ FsbnoAt(b) \in Nat /\ FsbnoAt(c) \in Nat
    BY Powers, FsbnoRoundTrip
  <1>2. /\ i \in 0 .. u - 1 /\ j \in 0 .. u - 1
        /\ FsbnoAt(b) * u + i = FsbnoAt(c) * u + j
    BY DEF InoAt
  <1> HIDE DEF u
  <1>3. (FsbnoAt(b) * u + i) \div u = FsbnoAt(b) /\ (FsbnoAt(b) * u + i) % u = i
    BY <1>1, <1>2, Quotient
  <1>4. (FsbnoAt(c) * u + j) \div u = FsbnoAt(c) /\ (FsbnoAt(c) * u + j) % u = j
    BY <1>1, <1>2, Quotient
  <1>5. FsbnoAt(b) = FsbnoAt(c) /\ i = j
    BY <1>2, <1>3, <1>4
  <1>6. xal_fsbno_offset(FsbnoAt(b)) = b /\ xal_fsbno_offset(FsbnoAt(c)) = c
    BY FsbnoRoundTrip
  <1> QED BY <1>5, <1>6
-----------------------------------------------------------------------------
\* An extent that fits the fields of its record.
IsExtent(e) ==
  /\ e.flag \in 0 .. 1 /\ e.off \in 0 .. 2^OffBits - 1
  /\ e.block \in 0 .. 2^HiBits * 2^LoBits - 1 /\ e.n \in 0 .. 2^CntBits - 1

\* A number made of two fields, the low one below n.
LEMMA Fields ==
  ASSUME NEW h \in Nat, NEW n \in Nat \ {0}, NEW x \in 0 .. h * n - 1
  PROVE  x \div n \in 0 .. h - 1
  <1>1. x \in Nat /\ h * n \in Nat
    BY Products
  <1>2. x \div n \in Nat /\ x % n \in 0 .. n - 1 /\ x = (x \div n) * n + (x % n)
    BY <1>1, Division
  <1> DEFINE q == x \div n
             r == x % n
  <1> HIDE DEF q, r
  <1>3. CASE q >= h
    <2>1. PICK m \in Nat : q = h + m
      <3>1. q - h \in Nat /\ q = h + (q - h)
        BY <1>2, <1>3 DEF q
      <3> QED BY <3>1
    <2>2. q * n = h * n + m * n /\ m * n \in Nat
      BY <2>1, Products
    <2> QED BY <1>1, <1>2, <2>2 DEF q, r
  <1> QED BY <1>2, <1>3 DEF q

\* decode_xfs_extent() gives back the offset, the block and the length of the
\* extent a record was made of, wherever the block lies across both words and
\* whatever the flag is.
THEOREM ExtentRoundTrip ==
  ASSUME NEW e, IsExtent(e)
  PROVE  LET x == decode_xfs_extent(Encode(e).l0, Encode(e).l1)
         IN x.start_offset = e.off /\ x.start_block = e.block /\ x.nblocks = e.n
  <1> DEFINE o == 2^OffBits
             h == 2^HiBits
             l == 2^LoBits
             c == 2^CntBits
             hi == e.block \div l
             lo == e.block % l
             l0 == (e.flag * o + e.off) * h + hi
             l1 == lo * c + e.n
  <1>1. o \in Nat \ {0} /\ h \in Nat \ {0} /\ l \in Nat \ {0} /\ c \in Nat \ {0}
    BY Powers
  <1>2. 2^(HiBits + 1) = h * 2 /\ 2^(1 + OffBits + HiBits) = o * (h * 2)
    <2>1. 2^(HiBits + 1) = 2^HiBits * 2^1 /\ 2^1 = 2
      BY Powers, PowerAssumption
    <2>2. 1 + OffBits + HiBits = OffBits + (HiBits + 1)
      BY FormatAssumption
    <2>3. 2^(OffBits + (HiBits + 1)) = 2^OffBits * 2^(HiBits + 1)
      BY <2>2, Powers, PowerAssumption
    <2> QED BY <2>1, <2>2, <2>3
  <1>3. /\ e.flag \in 0 .. 1 /\ e.off \in 0 .. o - 1 /\ e.n \in 0 .. c - 1
        /\ e.block \in 0 .. h * l - 1
    BY DEF IsExtent
  <1>4. hi \in 0 .. h - 1 /\ lo \in 0 .. l - 1 /\ e.block = hi * l + lo
    <2>1. hi \in 0 .. h - 1
      BY <1>1, <1>3, Fields
    <2>2. e.block \in Nat
      BY <1>1, <1>3, Products
    <2> QED BY <1>1, <2>1, <2>2, Division
  <1>5. Encode(e).l0 = l0 /\ Encode(e).l1 = l1
    BY DEF Encode, Shr, Mask
  <1> DEFINE x == decode_xfs_extent(l0, l1)
  <1>6. /\ x.start_offset = ((2 * l0) % (o * (h * 2))) \div (h * 2)
        /\ x.start_block = (l0 % h) * l + (l1 \div c)
        /\ x.nblocks = l1 % c
    BY <1>2 DEF decode_xfs_extent, Shr, Mask
  <1> HIDE DEF o, h, l, c, hi, lo
  <1>7. e.flag * o + e.off \in Nat
    BY <1>1, <1>3, Products
  <1>8. l0 % h = hi
    BY <1>1, <1>4, <1>7, Quotient
  <1>9. l1 \div c = lo /\ l1 % c = e.n
    <2>1. lo \in Nat /\ e.n \in 0 .. c - 1 /\ c \in Nat \ {0}
      BY <1>1, <1>3, <1>4
    <2> QED BY <2>1, Quotient
  <1>10. ((2 * l0) % (o * (h * 2))) \div (h * 2) = e.off
    <2> DEFINE hh == h * 2
               v == e.off * hh + 2 * hi
    <2>1. hh \in Nat \ {0} /\ 2 * hi \in 0 .. hh - 1
      BY <1>1, <1>4
    <2>2. 2 * l0 = e.flag * (o * hh) + v
      <3>1. 2 * l0 = (e.flag * o + e.off) * hh + 2 * hi
        BY <1>1, <1>4, <1>7
      <3>2. (e.flag * o + e.off) * hh = e.flag * (o * hh) + e.off * hh
        <4>1. e.flag * o \in Int /\ e.off \in Int /\ hh \in Int /\ e.flag \in Int /\ o \in Int
          BY <1>1, <1>3, <2>1, Products
        <4> HIDE DEF hh
        <4>2. (e.flag * o + e.off) * hh = (e.flag * o) * hh + e.off * hh
          BY <4>1, Products
        <4>3. (e.flag * o) * hh = e.flag * (o * hh)
          BY <4>1, Products
        <4> QED BY <4>2, <4>3
      <3> QED BY <3>1, <3>2, <1>1, <1>3, <1>4, <2>1, Products
    <2> HIDE DEF hh
    <2>3. v \in 0 .. o * hh - 1 /\ o * hh \in Nat \ {0} /\ v \div hh = e.off
      <3>1. v \div hh = e.off
        <4>1. e.off \in Nat
          BY <1>1, <1>3
        <4> QED BY <2>1, <4>1, Quotient
      <3>2. o * hh >= e.off * hh + hh /\ e.off * hh \in Nat /\ o * hh \in Nat
        <4>1. PICK m \in Nat : o = (e.off + 1) + m
          <5>1. o - (e.off + 1) \in Nat /\ o = (e.off + 1) + (o - (e.off + 1))
            BY <1>1, <1>3
          <5> QED BY <5>1
        <4>2. o * hh = (e.off + 1) * hh + m * hh /\ (e.off + 1) * hh = e.off * hh + hh
          <5>1. e.off + 1 \in Int /\ m \in Int /\ hh \in Int /\ e.off \in Int /\ 1 * hh = hh
            BY <1>1, <1>3, <2>1, <4>1
          <5>2. ((e.off + 1) + m) * hh = (e.off + 1) * hh + m * hh
            BY <5>1, Products
          <5>3. (e.off + 1) * hh = e.off * hh + 1 * hh
            BY <5>1, Products
          <5> QED BY <4>1, <5>1, <5>2, <5>3
        <4>3. m * hh \in Nat /\ e.off * hh \in Nat /\ o * hh \in Nat
          BY <1>1, <1>3, <2>1, <4>1, Products
        <4> QED BY <2>1, <4>2, <4>3
      <3> QED BY <2>1, <3>1, <3>2
    <2>4. (2 * l0) % (o * hh) = v
      <3>1. e.flag \in Nat
        BY <1>3
      <3> HIDE DEF v, l0
      <3> QED BY <2>2, <2>3, <3>1, Quotient
    <2> QED BY <2>3, <2>4 DEF hh
  <1> QED BY <1>4, <1>5, <1>6, <1>8, <1>9, <1>10
-----------------------------------------------------------------------------
\* A block is a whole number of logical blocks of the device.
LEMMA LbasOfBlocks ==
  ASSUME NEW x \in Nat
  PROVE  LET m == BlockSize \div LbaSize
         IN /\ m \in Nat \ {0} /\ BlockSize = m * LbaSize
            /\ (x * BlockSize) \div LbaSize = x * m /\ x * m \in Nat
            /\ x * BlockSize = (x * m) * LbaSize
            /\ (x * LbaSize) \div BlockSize = x \div m
  <1> DEFINE m == BlockSize \div LbaSize
  <1>1. LbaSize \in Nat \ {0} /\ BlockSize \in Nat \ {0} /\ BlockSize % LbaSize = 0
    BY FormatAssumption
  <1>2. m \in Nat /\ BlockSize = m * LbaSize
    <2>1. m \in Nat /\ BlockSize = m * LbaSize + (BlockSize % LbaSize)
      BY <1>1, Division
    <2>2. m * LbaSize \in Nat
      BY <1>1, <2>1, Products
    <2> HIDE DEF m
    <2> QED BY <1>1, <2>1, <2>2
  <1> HIDE DEF m
  <1>3. m # 0
    BY <1>1, <1>2
  <1>4. x * m \in Nat /\ x * BlockSize = (x * m) * LbaSize
    BY <1>1, <1>2, Products
  <1>5. ((x * m) * LbaSize) \div LbaSize = x * m
    <2>1. 0 \in 0 .. LbaSize - 1
      BY <1>1
    <2>2. ((x * m) * LbaSize + 0) \div LbaSize = x * m
      BY <1>1, <1>4, <2>1, Quotient
    <2>3. (x * m) * LbaSize \in Nat
      BY <1>1, <1>4, Products
    <2> QED BY <2>2, <2>3
  <1>6. (x * LbaSize) \div BlockSize = x \div m
    <2> DEFINE q == x \div m
               r == x % m
    <2>1. q \in Nat /\ r \in 0 .. m - 1 /\ x = q * m + r
      BY <1>2, <1>3, Division
    <2> HIDE DEF q, r
    <2>2. x * LbaSize = q * BlockSize + r * LbaSize
      <3>1. (q * m + r) * LbaSize = (q * m) * LbaSize + r * LbaSize
        BY <1>1, <1>2, <2>1, Products
      <3>2. (q * m) * LbaSize = q * BlockSize
        BY <1>1, <1>2, <2>1, Products
      <3> QED BY <2>1, <3>1, <3>2
    <2>3. r * LbaSize \in 0 .. BlockSize - 1
      <3>1. PICK k \in Nat : m = (r + 1) + k
        <4>1. m - (r + 1) \in Nat /\ m = (r + 1) + (m - (r + 1))
          BY <1>2, <2>1
        <4> QED BY <4>1
      <3>2. m * LbaSize = (r + 1) * LbaSize + k * LbaSize
        BY <1>1, <2>1, <3>1, Products
      <3>3. (r + 1) * LbaSize = r * LbaSize + 1 * LbaSize
        BY <1>1, <2>1, Products
      <3>4. r * LbaSize \in Nat /\ k * LbaSize \in Nat
        BY <1>1, <2>1, <3>1, Products
      <3> QED BY <1>1, <1>2, <3>2, <3>3, <3>4
    <2>4. (q * BlockSize + r * LbaSize) \div BlockSize = q
      BY <1>1, <2>1, <2>3, Quotient
    <2> QED BY <2>2, <2>4 DEF q
  <1> QED BY <1>2, <1>3, <1>4, <1>5, <1>6 DEF m

\* The parts of a block number, and the blocks that follow it in its group.
LEMMA FsbnoOffset ==
  ASSUME NEW f \in Nat
  PROVE  LET q == f \div 2^AgBlkLog
             r == f % 2^AgBlkLog
         IN /\ q \in Nat /\ r \in Nat /\ f = q * 2^AgBlkLog + r
            /\ xal_fsbno_offset(f) = q * AgBlocks + r /\ xal_fsbno_offset(f) \in Nat
  <1> DEFINE p == 2^AgBlkLog
             q == f \div p
             r == f % p
  <1>1. p \in Nat \ {0} /\ AgBlocks \in Nat
    BY FormatAssumption, Powers
  <1>2. xal_fsbno_offset(f) = q * AgBlocks + r
    BY DEF xal_fsbno_offset, Shr, Mask
  <1>3. q \in Nat /\ r \in 0 .. p - 1 /\ f = q * p + r
    BY <1>1, Division
  <1> HIDE DEF p, q, r
  <1>4. q * AgBlocks \in Nat /\ r \in Nat
    BY <1>1, <1>3, Products
  <1> QED BY <1>2, <1>3, <1>4 DEF p, q, r

LEMMA FsbnoRun ==
  ASSUME NEW f \in Nat, NEW k \in Nat, Mask(f, AgBlkLog) + k < AgBlocks
  PROVE  /\ xal_fsbno_offset(f + k) = xal_fsbno_offset(f) + k
         /\ FsbnoAt(xal_fsbno_offset(f) + k) = f + k
  <1> DEFINE p == 2^AgBlkLog
             q == f \div p
             r == f % p
  <1>1. p \in Nat \ {0} /\ AgBlocks \in Nat \ {0} /\ AgBlocks <= p
    BY FormatAssumption, Powers
  <1>2. q \in Nat /\ r \in Nat /\ f = q * p + r /\ xal_fsbno_offset(f) = q * AgBlocks + r
        /\ xal_fsbno_offset(f) \in Nat
    BY FsbnoOffset
  <1>3. r + k < AgBlocks
    BY DEF Mask
  <1>4. /\ xal_fsbno_offset(f + k) = ((f + k) \div p) * AgBlocks + ((f + k) % p)
        /\ \A b : FsbnoAt(b) = (b \div AgBlocks) * p + (b % AgBlocks)
    BY DEF xal_fsbno_offset, FsbnoAt, Shr, Mask
  <1> HIDE DEF p, q, r
  <1> DEFINE t == r + k
  <1>5. t \in 0 .. p - 1 /\ t \in 0 .. AgBlocks - 1 /\ t \in Nat
    BY <1>1, <1>2, <1>3
  <1>6. q * p \in Nat /\ q * AgBlocks \in Nat
    BY <1>1, <1>2, Products
  <1>7. f + k = q * p + t /\ xal_fsbno_offset(f) + k = q * AgBlocks + t
    BY <1>2, <1>6
  <1> HIDE DEF t
  <1>8. (q * p + t) \div p = q /\ (q * p + t) % p = t
    BY <1>1, <1>2, <1>5, Quotient
  <1>9. (q * AgBlocks + t) \div AgBlocks = q /\ (q * AgBlocks + t) % AgBlocks = t
    BY <1>1, <1>2, <1>5, Quotient
  <1> QED BY <1>4, <1>7, <1>8, <1>9

\* xal_extent_in_lba() loses nothing: counted in bytes its results are those
\* of xal_extent_in_bytes().
THEOREM UnitsAgree ==
  ASSUME NEW e, e.start_offset \in Nat, e.start_block \in Nat, e.nblocks \in Nat
  PROVE  \A field \in {"start_offset", "size", "start_block"} :
           xal_extent_in_bytes(e)[field] = xal_extent_in_lba(e)[field] * LbaSize
  <1>1. xal_fsbno_offset(e.start_block) \in Nat
    BY FsbnoOffset
  <1>2. ASSUME NEW x \in Nat PROVE x * BlockSize = ((x * BlockSize) \div LbaSize) * LbaSize
    BY LbasOfBlocks
  <1>3. xal_extent_in_bytes(e).start_offset = xal_extent_in_lba(e).start_offset * LbaSize
    BY <1>2 DEF xal_extent_in_bytes, xal_extent_in_lba
  <1>4. xal_extent_in_bytes(e).size = xal_extent_in_lba(e).size * LbaSize
    BY <1>2 DEF xal_extent_in_bytes, xal_extent_in_lba
  <1>5. xal_extent_in_bytes(e).start_block = xal_extent_in_lba(e).start_block * LbaSize
    BY <1>1, <1>2 DEF xal_extent_in_bytes, xal_extent_in_lba
  <1> QED BY <1>3, <1>4, <1>5

\* What the conversion is for: the logical blocks of an extent that lies in
\* one group are those, and only those, that are in a block of the extent.
THEOREM ExtentAddressesDevice ==
  ASSUME NEW e, e.start_offset \in Nat, e.start_block \in Nat, e.nblocks \in Nat,
         Mask(e.start_block, AgBlkLog) + e.nblocks <= AgBlocks,
         NEW lba \in Nat
  PROVE  LET x == xal_extent_in_lba(e)
         IN lba \in x.start_block .. x.start_block + x.size - 1
              <=> FsbnoAt((lba * LbaSize) \div BlockSize)
                    \in e.start_block .. e.start_block + e.nblocks - 1
  <1> DEFINE f == e.start_block
             n == e.nblocks
             d == xal_fsbno_offset(f)
             m == BlockSize \div LbaSize
             b == lba \div m
             x == xal_extent_in_lba(e)
  <1>1. f \in Nat /\ n \in Nat /\ d \in Nat
    BY FsbnoOffset
  <1>2. m \in Nat \ {0} /\ (lba * LbaSize) \div BlockSize = b
    BY LbasOfBlocks
  <1>3. x.start_block = d * m /\ x.size = n * m /\ d * m \in Nat /\ n * m \in Nat
    BY <1>1, LbasOfBlocks DEF xal_extent_in_lba
  <1>4. b \in Nat /\ lba % m \in 0 .. m - 1 /\ lba = b * m + (lba % m)
    BY <1>2, Division
  <1>5. ASSUME NEW k \in Nat, k < n PROVE xal_fsbno_offset(f + k) = d + k /\ FsbnoAt(d + k) = f + k
    <2>1. AgBlocks \in Nat /\ Mask(f, AgBlkLog) \in Nat
      BY <1>1, FsbnoOffset, FormatAssumption DEF Mask
    <2>2. Mask(f, AgBlkLog) + k < AgBlocks
      BY <1>1, <1>5, <2>1
    <2> QED BY <1>1, <2>2, FsbnoRun
  <1>6. ASSUME b \in d .. d + n - 1 PROVE FsbnoAt(b) \in f .. f + n - 1
    <2>1. PICK k \in Nat : k < n /\ b = d + k
      <3>1. b - d \in Nat /\ b - d < n /\ b = d + (b - d)
        BY <1>1, <1>4, <1>6
      <3> QED BY <3>1
    <2>2. FsbnoAt(b) = f + k
      BY <1>5, <2>1
    <2> QED BY <1>1, <2>1, <2>2
  <1>7. ASSUME FsbnoAt(b) \in f .. f + n - 1 PROVE b \in d .. d + n - 1
    <2>1. PICK k \in Nat : k < n /\ FsbnoAt(b) = f + k
      <3>1. FsbnoAt(b) - f \in Nat /\ FsbnoAt(b) - f < n /\ FsbnoAt(b) = f + (FsbnoAt(b) - f)
        BY <1>1, <1>7
      <3> QED BY <3>1
    <2>2. b = d + k
      BY <1>4, <1>5, <2>1, FsbnoRoundTrip
    <2> QED BY <1>1, <2>1, <2>2
  <1>8. lba \in d * m .. d * m + n * m - 1 <=> b \in d .. d + n - 1
    <2> HIDE DEF b, d, m
    <2>1. ASSUME NEW i \in Nat PROVE b < i <=> lba < i * m
      <3>1. CASE b < i
        <4>1. PICK k \in Nat : i = (b + 1) + k
          <5>1. i - (b + 1) \in Nat /\ i = (b + 1) + (i - (b + 1))
            BY <1>4, <3>1
          <5> QED BY <5>1
        <4>2. i * m = (b + 1) * m + k * m /\ (b + 1) * m = b * m + 1 * m
          BY <1>2, <1>4, <4>1, Products
        <4>3. k * m \in Nat /\ b * m \in Nat
          BY <1>2, <1>4, <4>1, Products
        <4> QED BY <1>2, <1>4, <3>1, <4>2, <4>3
      <3>2. CASE ~(b < i)
        <4>1. PICK k \in Nat : b = i + k
          <5>1. b - i \in Nat /\ b = i + (b - i)
            BY <1>4, <3>2
          <5> QED BY <5>1
        <4>2. b * m = i * m + k * m
          BY <1>2, <1>4, <4>1, Products
        <4>3. k * m \in Nat /\ i * m \in Nat
          BY <1>2, <4>1, Products
        <4> QED BY <1>2, <1>4, <3>2, <4>2, <4>3
      <3> QED BY <3>1, <3>2
    <2>2. (d + n) * m = d * m + n * m
      BY <1>1, <1>2, Products
    <2>3. (b < d <=> lba < d * m) /\ (b < d + n <=> lba < (d + n) * m)
      BY <1>1, <2>1
    <2> QED BY <1>1, <1>2, <1>3, <1>4, <2>2, <2>3
  <1> QED BY <1>2, <1>3, <1>6, <1>7, <1>8

-----------------------------------------------------------------------------
(* The two calls of the backend.                                            *)
\* A pool inside its reserve.
PoolIn(p) == p \in Pools /\ p.free <= p.allocated /\ p.allocated <= PoolMax /\ p.reserved = PoolMax

Inodes == [ino : Nat, ftype : Ftypes, parent : Cells \cup {IdxNone}, idx : Nat, count : Nat]
Extents == [start_offset : Nat, start_block : Nat, nblocks : Nat, flag : Nat]
Frames == [dir : Cells, next : Nat]
Ents == [ino : Nat, ftype : Ftypes]
Items == [kind : {"entry", "dots", "unused"}, ino : Nat, ftype : Ftypes]

\* The client's thread is in one call at a time, and the code never keeps a
\* pointer to a buffer it has freed.
ThreadInv ==
  /\ xpc # "idle" => rpc = "idle" /\ heap = "allocated"
  /\ rpc # "idle" => heap = "allocated"
  /\ heap \in {"NULL", "allocated"}
  /\ rpc # "record" => irecs = <<>>
  /\ rpc = "idle" => seqno = 0 /\ bnos = <<>>

\* What has been copied, and what is left of the current leaf, are inodes of
\* the image; the map finds what it names.
RetrieveInv ==
  /\ disk \in Images
  /\ rpc \in {"idle", "block", "record"}
  /\ seqno \in Groups
  /\ rerr \in {"NONE", "OK", "EIO", "EINVAL", "ENOMEM"}
  /\ bnos \in Seq(Bnos)
  /\ irecs \in Seq(Irecs)
  /\ \A k \in DOMAIN irecs : Inos(seqno, irecs[k]) \subseteq DOMAIN disk.dinode
  /\ dinodes \in Seq(DOMAIN disk.dinode)
  /\ dmap \in [DOMAIN dmap -> 1 .. Len(dinodes)]
  /\ \A ino \in DOMAIN dmap : dinodes[dmap[ino]] = ino

MemInv ==
  /\ PoolIn(inodes) /\ PoolIn(extents)
  /\ imem \in [Cells -> Inodes] /\ emem \in [Cells -> Extents]
  /\ rootIdx \in Cells \cup {IdxNone}
  /\ xpc \in {"idle", "ino", "leaf", "extent", "dblock", "dentry", "node", "child"}
  /\ self \in Cells
  /\ stack \in Seq(Frames)
  /\ items \in Seq(Items)
  /\ xerr \in IndexErrors
  /\ calls \in 0 .. MaxCalls

\* No element behind those handed out has children or extents.
FreshInv == \A c \in Cells : c >= inodes.free => imem[c].count = 0

\* The arrays of one type lie one behind the other inside their pool, those of
\* children behind their directory.
End(c) == imem[c].idx + imem[c].count
ArrayInv ==
  /\ rootIdx \in Cells /\ rootIdx < inodes.free
  /\ \A c \in OfType("dir") : c < imem[c].idx /\ End(c) <= inodes.free
  /\ \A c \in OfType("reg") : End(c) <= extents.free
  /\ \A t \in {"dir", "reg"} : \A c, d \in OfType(t) :
       c # d => End(c) <= imem[d].idx \/ End(d) <= imem[c].idx

\* The children of a frame that have not been processed.
Rest(f) == imem[f.dir].idx + f.next .. End(f.dir) - 1

\* The directories on the stack, from the root down.
FrameOK(f) ==
  /\ f.dir \in Claimed /\ imem[f.dir].ftype = "dir"
  /\ \A c \in Rest(f) : imem[c].count = 0
StackInv ==
  /\ \A i \in 1 .. Len(stack) : FrameOK(stack[i])
  /\ \A i, j \in 1 .. Len(stack) : i < j => stack[i].dir < stack[j].dir
  /\ xpc = "child" => stack # <<>>

\* The element at work, which no directory on the stack has still to process.
SelfInv ==
  /\ self \in Claimed
  /\ \A i \in 1 .. Len(stack) : stack[i].dir < self /\ self \notin Rest(stack[i])
  /\ stack = <<>> => imem[self].ftype = "dir"
  /\ xpc = "ino" => imem[self].count = 0

\* Its array is the last one of its pool while it is filled.
Filling == xpc \in {"leaf", "extent", "dblock", "dentry"}
FillInv ==
  /\ Filling =>
       /\ imem[self].ftype = "dir" /\ self < imem[self].idx /\ End(self) = inodes.free
       /\ \A d \in OfType("dir") \ {self} : End(d) <= imem[self].idx
       /\ \A c \in imem[self].idx .. End(self) - 1 : imem[c].count = 0
  /\ xpc = "node" =>
       /\ imem[self].ftype = "reg" /\ End(self) = extents.free
       /\ \A d \in OfType("reg") \ {self} : End(d) <= imem[self].idx

TreeInv ==
  /\ xpc # "idle" \/ xerr = "OK" => ArrayInv
  /\ xpc # "idle" => StackInv
  /\ xpc \notin {"idle", "child"} => SelfInv
  /\ xpc = "idle" => stack = <<>>
  /\ FillInv
-----------------------------------------------------------------------------
LEMMA GroupFacts ==
  /\ AgCount \in Nat \ {0} /\ AgBlocks \in Nat \ {0}
  /\ 0 \in Groups /\ 0 \in Cells /\ PoolMax \in Nat \ {0}
  BY FormatAssumption, IndexAssumption DEF Groups, Cells

\* The index does not touch what the retrieval left.
LEMMA IndexLeavesRetrieval ==
  ASSUME CallIndex \/ IndexDies \/ Index \/ UNCHANGED vars
  PROVE  UNCHANGED retrieveVars
  BY DEF CallIndex, IndexDies, IndexStart, IndexRefused, vars, Index, Indexing, Unsupported,
         UnknownFormat, DirLocal,
         DirExtents, DirBtree, FileExtents, FileBtree, DirLeaf, DirExtent, DirExtentsDone,
         DirLeavesDone, DirBlock, DirBlocksDone, Dentry, DentriesDone, FileNode, FileLeaf,
         FileDone, NextChild, ChildrenDone, Form

LEMMA ThreadStep ==
  ASSUME ThreadInv, [Next]_vars
  PROVE  ThreadInv'
  <1>1. CASE CallRetrieve
    BY <1>1 DEF ThreadInv, CallRetrieve, RetrieveStart, indexVars, walkVars
  <1>2. CASE CallIndex
    <2>1. UNCHANGED retrieveVars /\ rpc = "idle" /\ (heap # "NULL" \/ xpc' = "idle")
      BY <1>2 DEF CallIndex, IndexStart, IndexRefused, Return
    <2> QED BY <2>1 DEF ThreadInv, retrieveVars, memVars
  <1>3. CASE Retrieve
    <2>1. UNCHANGED xpc
      BY <1>3 DEF Retrieve, indexVars, walkVars
    <2>2. CASE ReadIab3
      BY <2>1, <2>2 DEF ReadIab3, RetrieveFail, ThreadInv
    <2>3. CASE DecodeRecord
      BY <2>1, <2>3 DEF DecodeRecord, RetrieveFail, ThreadInv
    <2>4. CASE LeafDone
      BY <2>1, <2>4 DEF LeafDone, ThreadInv, memVars
    <2>5. CASE GroupDone
      BY <2>1, <2>5 DEF GroupDone, ThreadInv, memVars
    <2> QED BY <1>3, <2>2, <2>3, <2>4, <2>5 DEF Retrieve, Retrieving
  <1>4. CASE Index
    <2>1. UNCHANGED retrieveVars /\ xpc # "idle"
      BY <1>4 DEF Index, Indexing, Unsupported, UnknownFormat, DirLocal, DirExtents, DirBtree,
           FileExtents, FileBtree, DirLeaf, DirExtent, DirExtentsDone, DirLeavesDone, DirBlock,
           DirBlocksDone, Dentry, DentriesDone, FileNode, FileLeaf, FileDone, NextChild,
           ChildrenDone, Form
    <2> QED BY <2>1 DEF ThreadInv, retrieveVars, memVars
  <1>5. CASE IndexDies \/ UNCHANGED vars
    BY <1>5 DEF IndexDies, vars, retrieveVars, memVars, indexVars, walkVars, ThreadInv
  <1> QED BY <1>1, <1>2, <1>3, <1>4, <1>5 DEF Next

\* The index runs on a buffer that is there: a retrieval that fails forgets
\* the buffer it frees, and neither call is entered from within the other.
THEOREM IndexesLive == Spec => []IndexesLiveBuffer
  <1>1. Init => ThreadInv
    BY DEF Init, RetrieveInit, IndexInit, ThreadInv
  <1>2. ThreadInv /\ [Next]_vars => ThreadInv'
    BY ThreadStep
  <1>3. ThreadInv => IndexesLiveBuffer
    BY DEF ThreadInv, IndexesLiveBuffer
  <1> QED BY <1>1, <1>2, <1>3, PTL DEF Spec
-----------------------------------------------------------------------------
\* What the assumptions say of an image and its groups, and of a block of the
\* inode B+tree of group s.
LEMMA RootFacts ==
  ASSUME NEW d \in Images
  PROVE  /\ DOMAIN d.dinode \subseteq Nat
         /\ \A s \in Groups : d.agi[s].root \in Bnos
  BY RetrieveAssumption DEF ImageOK

LEMMA ImageFacts ==
  ASSUME NEW d \in Images, NEW s \in Groups, NEW bno \in Bnos
  PROVE  /\ IsIab3(d, s, bno, 1) =>
              /\ Iab3At(d, s, bno).ptrs \in Seq(Bnos)
              /\ \A k \in DOMAIN Iab3At(d, s, bno).ptrs :
                   ~IsIab3(d, s, Iab3At(d, s, bno).ptrs[k], 1)
         /\ IsIab3(d, s, bno, 0) =>
              /\ Iab3At(d, s, bno).recs \in Seq(Irecs)
              /\ \A k \in DOMAIN Iab3At(d, s, bno).recs :
                   Inos(s, Iab3At(d, s, bno).recs[k]) \subseteq DOMAIN d.dinode
  <1>1. ImageOK(d)
    BY RetrieveAssumption
  <1>2. IsIab3(d, s, bno, 0) => 
          \A k \in DOMAIN Iab3At(d, s, bno).recs :
            Inos(s, Iab3At(d, s, bno).recs[k]) \subseteq Leaf(d, s, bno)
    BY DEF Leaf, RecInos
  <1> QED BY <1>1, <1>2 DEF ImageOK

\* What one record adds to the buffer and to the map.
LEMMA DecodeEffect ==
  ASSUME RetrieveInv, DecodeRecord, dinodes' # dinodes \/ dmap' # dmap \/ rpc' # "idle"
  PROVE  /\ irecs # <<>> /\ rpc = "record" /\ irecs' = Tail(irecs)
         /\ UNCHANGED <<disk, heap, rpc, seqno, bnos, rerr>>
         /\ dinodes' \in Seq(DOMAIN disk.dinode) /\ Len(dinodes') >= Len(dinodes)
         /\ dmap' \in [DOMAIN dmap' -> 1 .. Len(dinodes')]
         /\ DOMAIN dmap' = DOMAIN dmap \cup Inos(seqno, Head(irecs))
         /\ \A ino \in DOMAIN dmap' : dinodes'[dmap'[ino]] = ino
  <1> DEFINE rec == Head(irecs)
  <1>1. PICK pos \in InOrder(Used(rec)) :
          LET inos == [k \in DOMAIN pos |-> ChunkIno(ChunkAt(seqno, rec), pos[k])]
          IN /\ dinodes' = dinodes \o inos
             /\ dmap' = [n \in DOMAIN dmap \cup Range(inos) |->
                  IF n \in Range(inos)
                    THEN Len(dinodes) + CHOOSE k \in DOMAIN inos : inos[k] = n
                    ELSE dmap[n]]
    BY DEF DecodeRecord, RetrieveFail
  <1>2. /\ irecs # <<>> /\ rpc = "record" /\ irecs' = Tail(irecs)
        /\ UNCHANGED <<disk, heap, rpc, seqno, bnos, rerr>>
    BY DEF DecodeRecord, RetrieveFail
  <1> DEFINE inos == [k \in DOMAIN pos |-> ChunkIno(ChunkAt(seqno, rec), pos[k])]
  <1>3. pos \in [1 .. Cardinality(Used(rec)) -> Used(rec)] /\ Range(pos) = Used(rec)
    BY DEF InOrder
  <1>4. Range(inos) = Inos(seqno, rec)
    BY <1>3 DEF Inos, Range
  <1>5. Inos(seqno, rec) \subseteq DOMAIN disk.dinode
    BY <1>2 DEF RetrieveInv
  <1>6. Cardinality(Used(rec)) \in Nat
    <2>1. rec \in Irecs
      BY <1>2 DEF RetrieveInv
    <2>2. rec.count \in Nat
      BY <2>1 DEF Irecs
    <2>3. IsFiniteSet(0 .. rec.count - 1) /\ Used(rec) \subseteq 0 .. rec.count - 1
      BY <2>2, FS_Interval DEF Used
    <2> QED BY <2>3, FS_Subset, FS_CardinalityType
  <1>7. inos \in Seq(DOMAIN disk.dinode) /\ DOMAIN inos = 1 .. Len(inos)
    <2>1. inos \in [1 .. Cardinality(Used(rec)) -> DOMAIN disk.dinode]
      BY <1>3, <1>4, <1>5 DEF Range
    <2> QED BY <1>6, <2>1
  <1>8. dinodes \in Seq(DOMAIN disk.dinode)
    BY DEF RetrieveInv
  <1> HIDE DEF inos
  <1>9. /\ dinodes' \in Seq(DOMAIN disk.dinode) /\ Len(dinodes') = Len(dinodes) + Len(inos)
        /\ \A k \in 1 .. Len(dinodes) : dinodes'[k] = dinodes[k]
        /\ \A k \in 1 .. Len(inos) : dinodes'[Len(dinodes) + k] = inos[k]
        /\ Len(dinodes) \in Nat /\ Len(inos) \in Nat
    BY <1>1, <1>7, <1>8 DEF inos
  <1>10. DOMAIN dmap' = DOMAIN dmap \cup Inos(seqno, rec)
    BY <1>1, <1>4 DEF inos
  <1>11. ASSUME NEW n \in DOMAIN dmap' PROVE dmap'[n] \in 1 .. Len(dinodes') /\ dinodes'[dmap'[n]] = n
    <2>1. CASE n \in Range(inos)
      <3>1. PICK j \in DOMAIN inos : inos[j] = n
        BY <2>1 DEF Range
      <3> DEFINE k == CHOOSE k \in DOMAIN inos : inos[k] = n
      <3>2. k \in DOMAIN inos /\ inos[k] = n
        BY <3>1
      <3>3. dmap'[n] = Len(dinodes) + k
        BY <1>1, <1>11, <2>1 DEF inos
      <3> HIDE DEF k
      <3> QED BY <1>7, <1>9, <3>2, <3>3
    <2>2. CASE n \notin Range(inos)
      <3>1. n \in DOMAIN dmap /\ dmap'[n] = dmap[n]
        BY <1>1, <1>4, <1>10, <1>11, <2>2 DEF inos
      <3>2. dmap[n] \in 1 .. Len(dinodes) /\ dinodes[dmap[n]] = n
        BY <3>1 DEF RetrieveInv
      <3> QED BY <1>9, <3>1, <3>2
    <2> QED BY <2>1, <2>2
  <1>12. dmap' = [n \in DOMAIN dmap' |-> dmap'[n]]
    BY <1>1
  <1> QED BY <1>2, <1>9, <1>10, <1>11, <1>12

LEMMA RetrieveStep ==
  ASSUME ThreadInv, RetrieveInv, [Next]_vars
  PROVE  RetrieveInv'
  <1>1. /\ disk \in Images /\ seqno \in Groups /\ bnos \in Seq(Bnos)
        /\ irecs \in Seq(Irecs)
    BY DEF RetrieveInv
  <1>2. \A s : <<>> \in Seq(s)
    BY EmptySeq
  <1>3. ASSUME NEW e \in {"EIO", "EINVAL"}, RetrieveFail(e), UNCHANGED <<disk, dinodes, dmap>>
        PROVE  RetrieveInv'
    BY <1>2, <1>3, GroupFacts DEF RetrieveInv, RetrieveFail
  <1>4. CASE CallRetrieve
    <2>1. /\ seqno = 0 /\ irecs = <<>> /\ rpc = "idle" /\ UNCHANGED <<disk, seqno, irecs>>
          /\ dmap' = <<>>
      BY <1>4 DEF CallRetrieve, RetrieveStart, ThreadInv
    <2>2. \/ bnos' = <<disk.agi[0].root>> /\ dinodes' = <<>> /\ rpc' = "block" /\ rerr' = rerr
          \/ bnos' = bnos /\ dinodes' \in {<<>>, dinodes} /\ rpc' = rpc
             /\ rerr' \in {"ENOMEM", "EINVAL"}
      BY <1>4 DEF CallRetrieve, RetrieveStart
    <2>3. <<disk.agi[0].root>> \in Seq(Bnos)
      BY <1>1, GroupFacts, RootFacts
    <2>4. DOMAIN dmap' = {}
      BY <2>1
    <2>5. dmap' = [n \in DOMAIN dmap' |-> dmap'[n]]
      BY <2>1
    <2> QED BY <1>2, <2>1, <2>2, <2>3, <2>4, <2>5 DEF RetrieveInv
  <1>5. CASE Retrieve
    <2>1. CASE ReadIab3
      <3> DEFINE b == agbno_absolute_offset(seqno, Head(bnos))
      <3>1. Head(bnos) \in Bnos /\ Tail(bnos) \in Seq(Bnos)
        <4>1. bnos # <<>>
          BY <2>1 DEF ReadIab3
        <4> QED BY <1>1, <4>1, HeadTailProperties
      <3>2. UNCHANGED <<disk, dinodes, dmap>>
        BY <2>1 DEF ReadIab3
      <3>3. \/ \E e \in {"EIO", "EINVAL"} : RetrieveFail(e)
            \/ /\ IsIab3(disk, seqno, Head(bnos), 1)
               /\ bnos' = Iab3At(disk, seqno, Head(bnos)).ptrs \o Tail(bnos)
               /\ UNCHANGED <<heap, rpc, irecs, seqno, rerr>>
            \/ /\ IsIab3(disk, seqno, Head(bnos), 0)
               /\ irecs' = Iab3At(disk, seqno, Head(bnos)).recs
               /\ bnos' = Tail(bnos) /\ rpc' = "record" /\ UNCHANGED <<heap, seqno, rerr>>
        BY <2>1 DEF ReadIab3, Readable, IsIab3, Iab3At
      <3>4. CASE \E e \in {"EIO", "EINVAL"} : RetrieveFail(e)
        BY <1>3, <3>2, <3>4
      <3>5. CASE /\ IsIab3(disk, seqno, Head(bnos), 1)
                 /\ bnos' = Iab3At(disk, seqno, Head(bnos)).ptrs \o Tail(bnos)
                 /\ UNCHANGED <<heap, rpc, irecs, seqno, rerr>>
        <4>1. Iab3At(disk, seqno, Head(bnos)).ptrs \in Seq(Bnos)
          BY <1>1, <3>1, <3>5, ImageFacts
        <4>2. bnos' \in Seq(Bnos)
          BY <3>1, <3>5, <4>1
        <4> QED BY <3>2, <3>5, <4>2 DEF RetrieveInv
      <3>6. CASE /\ IsIab3(disk, seqno, Head(bnos), 0)
                 /\ irecs' = Iab3At(disk, seqno, Head(bnos)).recs
                 /\ bnos' = Tail(bnos) /\ rpc' = "record" /\ UNCHANGED <<heap, seqno, rerr>>
        <4>1. /\ irecs' \in Seq(Irecs)
              /\ \A k \in DOMAIN irecs' : Inos(seqno, irecs'[k]) \subseteq DOMAIN disk.dinode
          BY <1>1, <3>1, <3>6, ImageFacts
        <4> QED BY <3>1, <3>2, <3>6, <4>1 DEF RetrieveInv
      <3> QED BY <3>3, <3>4, <3>5, <3>6
    <2>2. CASE DecodeRecord
      <3>1. CASE dinodes' # dinodes \/ dmap' # dmap \/ rpc' # "idle"
        <4>1. /\ irecs' \in Seq(Irecs) /\ Len(irecs') = Len(irecs) - 1
              /\ \A k \in 1 .. Len(irecs') : irecs'[k] = irecs[k + 1]
          <5>1. irecs # <<>> /\ irecs' = Tail(irecs)
            BY <2>2, <3>1, DecodeEffect
          <5> QED BY <1>1, <5>1
        <4>2. \A k \in DOMAIN irecs' : Inos(seqno, irecs'[k]) \subseteq DOMAIN disk.dinode
          BY <1>1, <4>1 DEF RetrieveInv
        <4> QED BY <2>2, <3>1, <4>1, <4>2, DecodeEffect DEF RetrieveInv
      <3>2. CASE ~(dinodes' # dinodes \/ dmap' # dmap \/ rpc' # "idle")
        BY <1>3, <2>2, <3>2 DEF DecodeRecord
      <3> QED BY <3>1, <3>2
    <2>3. CASE LeafDone
      BY <1>2, <2>3 DEF LeafDone, memVars, RetrieveInv
    <2>4. CASE GroupDone
      <3>1. seqno' \in Groups /\ (seqno' # 0 => <<disk.agi[seqno'].root>> \in Seq(Bnos))
        BY <1>1, <2>4, GroupFacts, RootFacts DEF GroupDone, Groups
      <3>2. bnos' \in Seq(Bnos) /\ irecs' = <<>>
        <4>1. irecs' = <<>> /\ bnos' \in {bnos, <<disk.agi[seqno + 1].root>>}
              /\ (bnos' # bnos => seqno' = seqno + 1)
          BY <2>4 DEF GroupDone, ThreadInv
        <4>2. bnos' # bnos => seqno' # 0 /\ bnos' = <<disk.agi[seqno'].root>>
          BY <1>1, <4>1, GroupFacts DEF Groups
        <4> QED BY <1>1, <3>1, <4>1, <4>2
      <3> QED BY <1>2, <2>4, <3>1, <3>2 DEF GroupDone, memVars, RetrieveInv
    <2> QED BY <1>5, <2>1, <2>2, <2>3, <2>4 DEF Retrieve, Retrieving
  <1>6. CASE CallIndex \/ IndexDies \/ Index \/ UNCHANGED vars
    <2>1. UNCHANGED retrieveVars
      BY <1>6, IndexLeavesRetrieval
    <2> QED BY <2>1 DEF retrieveVars, memVars, RetrieveInv
  <1> QED BY <1>4, <1>5, <1>6 DEF Next
-----------------------------------------------------------------------------
\* A successful retrieval, by what is still ahead of it: every inode of the
\* image is in the map, in a record of the current leaf, below a block that
\* is still to be read, or in a later group.
Ahead(ino) ==
  \/ \E k \in DOMAIN irecs : ino \in Inos(seqno, irecs[k])
  \/ \E k \in DOMAIN bnos : ino \in Below(disk, seqno, bnos[k])
  \/ \E s \in seqno + 1 .. AgCount - 1 : ino \in Below(disk, s, disk.agi[s].root)
FoundInv ==
  /\ rpc # "idle" => \A ino \in DOMAIN disk.dinode : ino \in DOMAIN dmap \/ Ahead(ino)
  /\ rpc = "idle" /\ rerr = "OK" => DOMAIN disk.dinode \subseteq DOMAIN dmap

\* A block of level one stands for the leaves it points to.
LEMMA BelowNode ==
  ASSUME NEW d \in Images, NEW s \in Groups, NEW bno \in Bnos,
         IsIab3(d, s, bno, 1), NEW ino \in Below(d, s, bno)
  PROVE  \E k \in DOMAIN Iab3At(d, s, bno).ptrs : ino \in Below(d, s, Iab3At(d, s, bno).ptrs[k])
  <1>1. PICK k \in DOMAIN Iab3At(d, s, bno).ptrs : ino \in Leaf(d, s, Iab3At(d, s, bno).ptrs[k])
    BY DEF Below
  <1>2. ~IsIab3(d, s, Iab3At(d, s, bno).ptrs[k], 1)
    BY <1>1, ImageFacts
  <1> QED BY <1>1, <1>2 DEF Below

LEMMA FoundStep ==
  ASSUME \A d \in Images : NoSparse(d), ThreadInv, RetrieveInv, FoundInv, [Next]_vars
  PROVE  FoundInv'
  <1>1. /\ disk \in Images /\ seqno \in Groups /\ bnos \in Seq(Bnos)
        /\ irecs \in Seq(Irecs)
    BY DEF RetrieveInv
  <1>2. ASSUME rpc # "idle", NEW ino \in DOMAIN disk.dinode, ino \notin DOMAIN dmap
        PROVE  Ahead(ino)
    BY <1>2 DEF FoundInv
  <1>3. CASE CallRetrieve
    <2>1. CASE bnos' = <<disk.agi[0].root>> /\ rpc' = "block"
      <3>1. UNCHANGED <<disk, seqno>> /\ seqno = 0
        BY <1>3 DEF CallRetrieve, RetrieveStart, ThreadInv
      <3>2. ASSUME NEW ino \in DOMAIN disk.dinode PROVE Ahead(ino)'
        <4>1. PICK s \in Groups : ino \in Below(disk, s, disk.agi[s].root)
          BY <1>1, <3>2, RetrieveAssumption DEF ImageOK
        <4>2. CASE s = 0
          <5>1. 1 \in DOMAIN bnos' /\ bnos'[1] = disk.agi[0].root
            BY <2>1
          <5> QED BY <3>1, <4>1, <4>2, <5>1 DEF Ahead
        <4>3. CASE s # 0
          <5>1. s \in seqno + 1 .. AgCount - 1
            BY <3>1, <4>3, GroupFacts DEF Groups
          <5> QED BY <3>1, <4>1, <5>1 DEF Ahead
        <4> QED BY <4>2, <4>3
      <3> QED BY <2>1, <3>1, <3>2 DEF FoundInv
    <2>2. CASE ~(bnos' = <<disk.agi[0].root>> /\ rpc' = "block")
      BY <1>3, <2>2 DEF CallRetrieve, RetrieveStart, FoundInv
    <2> QED BY <2>1, <2>2
  <1>4. CASE Retrieve
    <2>1. rpc # "idle"
      BY <1>4 DEF Retrieve, Retrieving, ReadIab3, DecodeRecord, LeafDone, GroupDone
    <2>2. CASE ReadIab3
      <3> DEFINE bno == Head(bnos)
      <3>1. /\ bno \in Bnos /\ Tail(bnos) \in Seq(Bnos)
            /\ Len(Tail(bnos)) = Len(bnos) - 1 /\ bno = bnos[1] /\ Len(bnos) > 0
            /\ \A k \in 1 .. Len(Tail(bnos)) : Tail(bnos)[k] = bnos[k + 1]
        <4>1. bnos # <<>>
          BY <2>2 DEF ReadIab3
        <4> QED BY <1>1, <4>1, HeadTailProperties
      <3>2. UNCHANGED <<disk, dinodes, dmap>> /\ irecs = <<>>
        BY <2>2 DEF ReadIab3, ThreadInv
      <3>3. \/ rpc' = "idle" /\ rerr' # "OK"
            \/ /\ IsIab3(disk, seqno, bno, 1)
               /\ bnos' = Iab3At(disk, seqno, bno).ptrs \o Tail(bnos)
               /\ UNCHANGED <<rpc, irecs, seqno>>
            \/ /\ IsIab3(disk, seqno, bno, 0)
               /\ irecs' = Iab3At(disk, seqno, bno).recs
               /\ bnos' = Tail(bnos) /\ rpc' = "record" /\ UNCHANGED seqno
        BY <2>2 DEF ReadIab3, Readable, IsIab3, Iab3At, RetrieveFail
      <3>4. ASSUME NEW ino, \E k \in DOMAIN bnos : ino \in Below(disk, seqno, bnos[k])
            PROVE  \/ ino \in Below(disk, seqno, bno)
                   \/ \E k \in 1 .. Len(Tail(bnos)) : ino \in Below(disk, seqno, Tail(bnos)[k])
        <4>1. PICK k \in 1 .. Len(bnos) : ino \in Below(disk, seqno, bnos[k])
          BY <1>1, <3>4
        <4>2. CASE k = 1
          BY <3>1, <4>1, <4>2
        <4>3. CASE k # 1
          <5>1. k - 1 \in 1 .. Len(Tail(bnos)) /\ Tail(bnos)[k - 1] = bnos[k]
            BY <1>1, <3>1, <4>3
          <5> QED BY <4>1, <5>1
        <4> QED BY <4>2, <4>3
      <3>5. CASE rpc' = "idle" /\ rerr' # "OK"
        BY <3>5 DEF FoundInv
      <3>6. CASE /\ IsIab3(disk, seqno, bno, 1)
                 /\ bnos' = Iab3At(disk, seqno, bno).ptrs \o Tail(bnos)
                 /\ UNCHANGED <<rpc, irecs, seqno>>
        <4> DEFINE ps == Iab3At(disk, seqno, bno).ptrs
        <4>1. ps \in Seq(Bnos)
          BY <1>1, <3>1, <3>6, ImageFacts
        <4> HIDE DEF ps
        <4>2. /\ \A k \in DOMAIN ps : k \in DOMAIN bnos' /\ bnos'[k] = ps[k]
              /\ \A k \in 1 .. Len(Tail(bnos)) : Len(ps) + k \in DOMAIN bnos'
                                                 /\ bnos'[Len(ps) + k] = Tail(bnos)[k]
          BY <3>1, <3>6, <4>1 DEF ps
        <4>3. ASSUME NEW ino \in DOMAIN disk.dinode, ino \notin DOMAIN dmap PROVE Ahead(ino)'
          <5>1. Ahead(ino)
            BY <1>2, <2>1, <4>3
          <5>2. CASE \E k \in DOMAIN bnos : ino \in Below(disk, seqno, bnos[k])
            <6>1. CASE ino \in Below(disk, seqno, bno)
              <7>1. PICK k \in DOMAIN ps : ino \in Below(disk, seqno, ps[k])
                BY <1>1, <3>1, <3>6, <6>1, BelowNode DEF ps
              <7> QED BY <3>2, <3>6, <4>2, <7>1 DEF Ahead
            <6>2. CASE \E k \in 1 .. Len(Tail(bnos)) : ino \in Below(disk, seqno, Tail(bnos)[k])
              BY <3>2, <3>6, <4>2, <6>2 DEF Ahead
            <6> QED BY <3>4, <5>2, <6>1, <6>2
          <5>3. CASE ~\E k \in DOMAIN bnos : ino \in Below(disk, seqno, bnos[k])
            BY <3>2, <3>6, <5>1, <5>3 DEF Ahead
          <5> QED BY <5>2, <5>3
        <4> QED BY <2>1, <3>2, <3>6, <4>3 DEF FoundInv
      <3>7. CASE /\ IsIab3(disk, seqno, bno, 0)
                 /\ irecs' = Iab3At(disk, seqno, bno).recs
                 /\ bnos' = Tail(bnos) /\ rpc' = "record" /\ UNCHANGED seqno
        <4>1. ~IsIab3(disk, seqno, bno, 1)
          BY <3>7 DEF IsIab3
        <4>2. ASSUME NEW ino \in Below(disk, seqno, bno)
              PROVE  \E k \in DOMAIN irecs' : ino \in Inos(seqno, irecs'[k])
          BY <3>7, <4>1, <4>2 DEF Below, Leaf, RecInos
        <4>3. ASSUME NEW ino \in DOMAIN disk.dinode, ino \notin DOMAIN dmap PROVE Ahead(ino)'
          <5>1. Ahead(ino)
            BY <1>2, <2>1, <4>3
          <5>2. CASE \E k \in DOMAIN bnos : ino \in Below(disk, seqno, bnos[k])
            <6>1. DOMAIN bnos' = 1 .. Len(Tail(bnos))
              BY <3>1, <3>7
            <6> QED BY <3>2, <3>4, <3>7, <4>2, <5>2, <6>1 DEF Ahead
          <5>3. CASE ~\E k \in DOMAIN bnos : ino \in Below(disk, seqno, bnos[k])
            BY <3>2, <3>7, <5>1, <5>3 DEF Ahead
          <5> QED BY <5>2, <5>3
        <4> QED BY <3>2, <3>7, <4>3 DEF FoundInv
      <3> QED BY <3>3, <3>5, <3>6, <3>7
    <2>3. CASE DecodeRecord
      <3>1. CASE dinodes' # dinodes \/ dmap' # dmap \/ rpc' # "idle"
        <4>1. /\ irecs # <<>> /\ irecs' = Tail(irecs) /\ UNCHANGED <<disk, rpc, seqno, bnos>>
              /\ DOMAIN dmap' = DOMAIN dmap \cup Inos(seqno, Head(irecs))
          BY <2>3, <3>1, DecodeEffect
        <4>2. /\ Len(irecs') = Len(irecs) - 1 /\ Head(irecs) = irecs[1] /\ irecs' \in Seq(Irecs)
              /\ \A k \in 1 .. Len(irecs') : irecs'[k] = irecs[k + 1]
          BY <1>1, <4>1, HeadTailProperties
        <4>3. ASSUME NEW ino \in DOMAIN disk.dinode, ino \notin DOMAIN dmap' PROVE Ahead(ino)'
          <5>1. Ahead(ino)
            BY <1>2, <2>1, <4>1, <4>3
          <5>2. CASE \E k \in DOMAIN irecs : ino \in Inos(seqno, irecs[k])
            <6>1. PICK k \in 1 .. Len(irecs) : ino \in Inos(seqno, irecs[k])
              BY <1>1, <5>2
            <6>2. k # 1
              BY <4>1, <4>2, <4>3, <6>1
            <6>3. k - 1 \in DOMAIN irecs' /\ irecs'[k - 1] = irecs[k]
              BY <1>1, <4>2, <6>1, <6>2
            <6> QED BY <4>1, <6>1, <6>3 DEF Ahead
          <5>3. CASE ~\E k \in DOMAIN irecs : ino \in Inos(seqno, irecs[k])
            BY <4>1, <5>1, <5>3 DEF Ahead
          <5> QED BY <5>2, <5>3
        <4> QED BY <2>1, <4>1, <4>3 DEF FoundInv
      <3>2. CASE ~(dinodes' # dinodes \/ dmap' # dmap \/ rpc' # "idle")
        BY <2>1, <2>3, <3>2 DEF DecodeRecord, RetrieveFail, FoundInv
      <3> QED BY <3>1, <3>2
    <2>4. CASE LeafDone
      <3>1. UNCHANGED <<disk, dmap, irecs, bnos, seqno>> /\ rpc' = "block"
        BY <2>4 DEF LeafDone, memVars
      <3> QED BY <2>1, <3>1 DEF FoundInv, Ahead
    <2>5. CASE GroupDone
      <3>1. UNCHANGED <<disk, dmap, irecs>> /\ irecs = <<>> /\ bnos = <<>>
        BY <2>5 DEF GroupDone, memVars, ThreadInv
      <3>2. ASSUME NEW ino \in DOMAIN disk.dinode, ino \notin DOMAIN dmap
            PROVE  \E s \in seqno + 1 .. AgCount - 1 : ino \in Below(disk, s, disk.agi[s].root)
        BY <1>2, <2>1, <3>1, <3>2 DEF Ahead
      <3>3. CASE seqno + 1 < AgCount
        <4>1. seqno' = seqno + 1 /\ bnos' = <<disk.agi[seqno'].root>> /\ rpc' = rpc
          BY <2>5, <3>3 DEF GroupDone
        <4>2. ASSUME NEW ino \in DOMAIN disk.dinode, ino \notin DOMAIN dmap PROVE Ahead(ino)'
          <5>1. PICK s \in seqno + 1 .. AgCount - 1 : ino \in Below(disk, s, disk.agi[s].root)
            BY <3>2, <4>2
          <5>2. CASE s = seqno'
            <6>1. 1 \in DOMAIN bnos' /\ bnos'[1] = disk.agi[s].root
              BY <4>1, <5>2
            <6> QED BY <3>1, <5>1, <5>2, <6>1 DEF Ahead
          <5>3. CASE s # seqno'
            <6>1. s \in seqno' + 1 .. AgCount - 1
              BY <1>1, <4>1, <5>3, GroupFacts DEF Groups
            <6> QED BY <3>1, <5>1, <6>1 DEF Ahead
          <5> QED BY <5>2, <5>3
        <4> QED BY <2>1, <3>1, <4>1, <4>2 DEF FoundInv
      <3>4. CASE ~(seqno + 1 < AgCount)
        <4>1. seqno + 1 .. AgCount - 1 = {}
          BY <1>1, <3>4, GroupFacts DEF Groups
        <4> QED BY <2>5, <3>1, <3>2, <3>4, <4>1 DEF GroupDone, FoundInv
      <3> QED BY <3>3, <3>4
    <2> QED BY <1>4, <2>2, <2>3, <2>4, <2>5 DEF Retrieve, Retrieving
  <1>5. CASE CallIndex \/ IndexDies \/ Index \/ UNCHANGED vars
    <2>1. UNCHANGED retrieveVars
      BY <1>5, IndexLeavesRetrieval
    <2> QED BY <2>1 DEF retrieveVars, memVars, FoundInv, Ahead
  <1> QED BY <1>3, <1>4, <1>5 DEF Next

LEMMA FoundInit == Init => ThreadInv /\ RetrieveInv /\ FoundInv
  <1> SUFFICES ASSUME Init PROVE ThreadInv /\ RetrieveInv /\ FoundInv
    OBVIOUS
  <1>1. dmap = [n \in DOMAIN dmap |-> dmap[n]] /\ DOMAIN dmap = {}
    BY DEF Init, RetrieveInit
  <1>2. \A s : <<>> \in Seq(s)
    BY EmptySeq
  <1>3. RetrieveInv
    BY <1>1, <1>2, GroupFacts DEF Init, RetrieveInit, RetrieveInv
  <1> QED BY <1>3 DEF Init, RetrieveInit, IndexInit, ThreadInv, FoundInv

\* A retrieval that succeeds has found every allocated inode and no other, at
\* the place the map says, on every image without sparse chunks.  (With them
\* it does not: see the run xfs_sparse.)
THEOREM RetrievalFindsAll ==
  ASSUME \A d \in Images : NoSparse(d)
  PROVE  Spec => []RetrievesAllocated
  <1>1. Init => ThreadInv /\ RetrieveInv /\ FoundInv
    BY FoundInit
  <1>2. ThreadInv /\ RetrieveInv /\ FoundInv /\ [Next]_vars => (ThreadInv /\ RetrieveInv /\ FoundInv)'
    BY ThreadStep, RetrieveStep, FoundStep
  <1>3. ThreadInv /\ RetrieveInv /\ FoundInv => RetrievesAllocated
    <2> SUFFICES ASSUME RetrieveInv, FoundInv, rpc = "idle", rerr = "OK"
                 PROVE  DOMAIN dmap = DOMAIN disk.dinode
                        /\ \A ino \in DOMAIN dmap : dinodes[dmap[ino]] = ino
      BY DEF RetrievesAllocated
    <2>1. ASSUME NEW ino \in DOMAIN dmap PROVE ino \in DOMAIN disk.dinode
      <3>1. dmap[ino] \in 1 .. Len(dinodes) /\ dinodes[dmap[ino]] = ino
        BY DEF RetrieveInv
      <3>2. dinodes[dmap[ino]] \in DOMAIN disk.dinode
        BY <3>1 DEF RetrieveInv
      <3> QED BY <3>1, <3>2
    <2> QED BY <2>1 DEF RetrieveInv, FoundInv
  <1> QED BY <1>1, <1>2, <1>3, PTL DEF Spec
-----------------------------------------------------------------------------
\* The buffer, by what is still ahead of the retrieval: what was copied, each
\* record of the current leaf, each block still to be read and each later
\* group describe different inodes.  So nothing is copied twice, and there is
\* room for every inode of the image.
Copied == {dinodes[k] : k \in DOMAIN dinodes}
RootInos(d, s) == TreeInos(d, s, d.agi[s].root)
RecAt(k) == Inos(seqno, irecs[k])
SubAt(k) == TreeInos(disk, seqno, bnos[k])
OnceInv ==
  /\ \A j, k \in DOMAIN dinodes : dinodes[j] = dinodes[k] => j = k
  /\ rpc # "idle" =>
       /\ \A k \in DOMAIN irecs : \A i \in RecAt(k) : i \in RootInos(disk, seqno) /\ i \notin Copied
       /\ \A k \in DOMAIN bnos : \A i \in SubAt(k) : i \in RootInos(disk, seqno) /\ i \notin Copied
       /\ \A j, k \in DOMAIN irecs : j # k => \A i \in RecAt(j) : i \notin RecAt(k)
       /\ \A j, k \in DOMAIN bnos : j # k => \A i \in SubAt(j) : i \notin SubAt(k)
       /\ \A j \in DOMAIN irecs, k \in DOMAIN bnos : \A i \in RecAt(j) : i \notin SubAt(k)
       /\ \A s \in seqno + 1 .. AgCount - 1 : \A i \in RootInos(disk, s) : i \notin Copied

\* Two positions of a chunk are two inodes.
LEMMA ChunkInjective ==
  ASSUME NEW b \in Nat, NEW i \in Nat, NEW j \in Nat, ChunkIno(b, i) = ChunkIno(b, j)
  PROVE  i = j
  <1> DEFINE u == 2^InoPBLog
  <1>1. u \in Nat \ {0}
    BY Powers
  <1>2. /\ i \div u \in Nat /\ i % u \in 0 .. u - 1 /\ i = (i \div u) * u + (i % u)
        /\ j \div u \in Nat /\ j % u \in 0 .. u - 1 /\ j = (j \div u) * u + (j % u)
    BY <1>1, Division
  <1>3. InoAt(b + (i \div u), i % u) = InoAt(b + (j \div u), j % u)
    BY DEF ChunkIno, Shr, Mask
  <1>4. b + (i \div u) \in Nat /\ b + (j \div u) \in Nat
    BY <1>2
  <1>5. b + (i \div u) = b + (j \div u) /\ i % u = j % u
    BY <1>2, <1>3, <1>4, InoInjective
  <1>6. i \div u = j \div u
    BY <1>2, <1>5
  <1> QED BY <1>2, <1>5, <1>6

LEMMA ChunkIsBlock ==
  ASSUME NEW s \in Groups, NEW rec \in Irecs
  PROVE  ChunkAt(s, rec) \in Nat
  <1> DEFINE p == 2^AgBlkLog
             u == 2^InoPBLog
  <1>1. p \in Nat \ {0} /\ u \in Nat \ {0} /\ rec.startino \in Nat /\ s \in Nat /\ AgBlocks \in Nat
    BY Powers, GroupFacts DEF Irecs, Groups
  <1>2. ChunkAt(s, rec) = s * AgBlocks + ((rec.startino \div u) % p)
    BY DEF ChunkAt, ag_offset, ino_decode_relative, Shr, Mask
  <1> HIDE DEF p, u
  <1>3. rec.startino \div u \in Nat
    BY <1>1, Division
  <1>4. (rec.startino \div u) % p \in 0 .. p - 1
    BY <1>1, <1>3, Division
  <1>5. s * AgBlocks \in Nat
    BY <1>1, Products
  <1> QED BY <1>1, <1>2, <1>4, <1>5

\* What one record adds is new, and each inode of it is added once.
LEMMA CopyEffect ==
  ASSUME RetrieveInv, OnceInv, DecodeRecord, rpc' # "idle"
  PROVE  /\ Copied' = Copied \cup Inos(seqno, Head(irecs))
         /\ \A j, k \in DOMAIN dinodes' : dinodes'[j] = dinodes'[k] => j = k
  <1>1. PICK rec \in Irecs : rec = Head(irecs) /\ rec = irecs[1] /\ 1 \in DOMAIN irecs /\ rpc = "record"
    BY HeadTailProperties DEF DecodeRecord, RetrieveInv
  <1>2. PICK pos \in InOrder(Used(rec)) :
          dinodes' = dinodes \o [k \in DOMAIN pos |-> ChunkIno(ChunkAt(seqno, rec), pos[k])]
    BY <1>1 DEF DecodeRecord, RetrieveFail
  <1> DEFINE b == ChunkAt(seqno, rec)
             n == Cardinality(Used(rec))
             inos == [k \in DOMAIN pos |-> ChunkIno(b, pos[k])]
  <1>3. b \in Nat
    BY <1>1, ChunkIsBlock DEF RetrieveInv
  <1>4. /\ pos \in [1 .. n -> Used(rec)] /\ Range(pos) = Used(rec)
        /\ \A j, k \in 1 .. n : j < k => pos[j] < pos[k]
    BY <1>2 DEF InOrder
  <1>5. rec.count \in Nat /\ Used(rec) \subseteq 0 .. rec.count - 1
    BY <1>1 DEF Irecs, Used
  <1>6. n \in Nat
    <2>1. IsFiniteSet(0 .. rec.count - 1)
      BY <1>5, FS_Interval
    <2> QED BY <1>5, <2>1, FS_Subset, FS_CardinalityType
  <1> HIDE DEF b, n
  <1>7. \A k \in 1 .. n : pos[k] \in Nat
    BY <1>4, <1>5
  <1>8. inos \in Seq(DOMAIN disk.dinode) /\ Len(inos) = n /\ Range(inos) = Inos(seqno, rec)
    <2>1. Range(inos) = Inos(seqno, rec)
      BY <1>4 DEF Range, Inos, b
    <2>2. Inos(seqno, rec) \subseteq DOMAIN disk.dinode
      BY <1>1 DEF RetrieveInv
    <2>3. inos \in [1 .. n -> DOMAIN disk.dinode]
      BY <1>4, <2>1, <2>2 DEF Range
    <2> QED BY <1>6, <2>1, <2>3
  <1>9. ASSUME NEW j \in 1 .. n, NEW k \in 1 .. n, inos[j] = inos[k] PROVE j = k
    <2>1. pos[j] = pos[k]
      BY <1>3, <1>4, <1>7, <1>9, ChunkInjective
    <2> QED BY <1>4, <1>6, <1>7, <2>1
  <1>10. dinodes \in Seq(DOMAIN disk.dinode) /\ dinodes' = dinodes \o inos
    BY <1>2 DEF RetrieveInv, b
  <1> HIDE DEF inos
  <1>11. /\ Len(dinodes) \in Nat /\ DOMAIN dinodes = 1 .. Len(dinodes)
         /\ DOMAIN dinodes' = 1 .. Len(dinodes) + n
         /\ \A k \in 1 .. Len(dinodes) : dinodes'[k] = dinodes[k]
         /\ \A k \in 1 .. n : dinodes'[Len(dinodes) + k] = inos[k]
    BY <1>6, <1>8, <1>10
  <1>12. \A k \in 1 .. n : inos[k] \in Inos(seqno, rec)
    BY <1>6, <1>8 DEF Range
  <1>13. \A i \in Inos(seqno, rec) : (\E k \in 1 .. n : inos[k] = i) /\ i \notin Copied
    <2>1. \A i \in Inos(seqno, rec) : \E k \in 1 .. n : inos[k] = i
      BY <1>6, <1>8 DEF Range
    <2>2. \A i \in RecAt(1) : i \notin Copied
      BY <1>1 DEF OnceInv
    <2> QED BY <1>1, <2>1, <2>2 DEF RecAt
  <1>14. ASSUME NEW k \in DOMAIN dinodes'
         PROVE  \/ k \in 1 .. Len(dinodes) /\ dinodes'[k] = dinodes[k] /\ dinodes'[k] \in Copied
                \/ \E l \in 1 .. n : k = Len(dinodes) + l /\ dinodes'[k] = inos[l]
    <2>1. CASE k <= Len(dinodes)
      BY <1>11, <2>1 DEF Copied
    <2>2. CASE k > Len(dinodes)
      <3>1. k - Len(dinodes) \in 1 .. n /\ k = Len(dinodes) + (k - Len(dinodes))
        BY <1>6, <1>11, <2>2
      <3> QED BY <1>11, <3>1
    <2> QED BY <1>11, <2>1, <2>2
  <1>15. Copied' = Copied \cup Inos(seqno, rec)
    <2>1. ASSUME NEW i \in Copied' PROVE i \in Copied \cup Inos(seqno, rec)
      <3>1. PICK k \in DOMAIN dinodes' : i = dinodes'[k]
        BY <2>1 DEF Copied
      <3> QED BY <1>12, <1>14, <3>1
    <2>2. ASSUME NEW i \in Copied PROVE i \in Copied'
      <3>1. PICK k \in 1 .. Len(dinodes) : i = dinodes[k]
        BY <1>11, <2>2 DEF Copied
      <3>2. k \in DOMAIN dinodes' /\ dinodes'[k] = i
        BY <1>6, <1>11, <3>1
      <3> QED BY <3>2 DEF Copied
    <2>3. ASSUME NEW i \in Inos(seqno, rec) PROVE i \in Copied'
      <3>1. PICK k \in 1 .. n : inos[k] = i
        BY <1>13, <2>3
      <3>2. Len(dinodes) + k \in DOMAIN dinodes' /\ dinodes'[Len(dinodes) + k] = i
        BY <1>6, <1>11, <3>1
      <3> QED BY <3>2 DEF Copied
    <2> QED BY <2>1, <2>2, <2>3
  <1>16. ASSUME NEW j \in DOMAIN dinodes', NEW k \in DOMAIN dinodes', dinodes'[j] = dinodes'[k]
         PROVE  j = k
    <2>1. CASE j \in 1 .. Len(dinodes) /\ dinodes'[j] = dinodes[j] /\ dinodes'[j] \in Copied
      <3>1. ~\E l \in 1 .. n : k = Len(dinodes) + l /\ dinodes'[k] = inos[l]
        BY <1>12, <1>13, <1>16, <2>1
      <3>2. k \in 1 .. Len(dinodes) /\ dinodes'[k] = dinodes[k]
        BY <1>14, <3>1
      <3> QED BY <1>11, <1>16, <2>1, <3>2 DEF OnceInv
    <2>2. CASE \E l \in 1 .. n : j = Len(dinodes) + l /\ dinodes'[j] = inos[l]
      <3>1. PICK l \in 1 .. n : j = Len(dinodes) + l /\ dinodes'[j] = inos[l]
        BY <2>2
      <3>2. dinodes'[k] \notin Copied
        BY <1>12, <1>13, <1>16, <3>1
      <3>3. PICK h \in 1 .. n : k = Len(dinodes) + h /\ dinodes'[k] = inos[h]
        BY <1>14, <3>2
      <3>4. l = h
        BY <1>9, <1>16, <3>1, <3>3
      <3> QED BY <3>1, <3>3, <3>4
    <2> QED BY <1>14, <2>1, <2>2
  <1> QED BY <1>1, <1>15, <1>16

\* What NoOverlap says of the groups, of a leaf and of a node.
LEMMA OverlapFacts ==
  ASSUME NEW d \in Images, WellCounted(d), NEW s \in Groups
  PROVE  /\ \A t \in Groups : s # t => \A i \in RootInos(d, s) : i \notin RootInos(d, t)
         /\ \A bno \in Bnos : IsIab3(d, s, bno, 0) =>
              \A j, k \in DOMAIN Iab3At(d, s, bno).recs : j # k =>
                \A i \in Inos(s, Iab3At(d, s, bno).recs[j]) : i \notin Inos(s, Iab3At(d, s, bno).recs[k])
         /\ \A bno \in Bnos : IsIab3(d, s, bno, 1) =>
              \A j, k \in DOMAIN Iab3At(d, s, bno).ptrs : j # k =>
                \A i \in RecInos(d, s, Iab3At(d, s, bno).ptrs[j]) :
                  i \notin RecInos(d, s, Iab3At(d, s, bno).ptrs[k])
  <1>1. NoOverlap(d)
    BY DEF WellCounted
  <1>2. ASSUME NEW t \in Groups, s # t, NEW i \in RootInos(d, s) PROVE i \notin RootInos(d, t)
    <2>1. TreeInos(d, s, d.agi[s].root) \cap TreeInos(d, t, d.agi[t].root) = {}
      BY <1>1, <1>2 DEF NoOverlap, Apart
    <2> QED BY <1>2, <2>1 DEF RootInos
  <1>3. ASSUME NEW bno \in Bnos, IsIab3(d, s, bno, 0), NEW j \in DOMAIN Iab3At(d, s, bno).recs,
               NEW k \in DOMAIN Iab3At(d, s, bno).recs, j # k
        PROVE  Inos(s, Iab3At(d, s, bno).recs[j]) \cap Inos(s, Iab3At(d, s, bno).recs[k]) = {}
    BY <1>1, <1>3 DEF NoOverlap, Apart
  <1>4. ASSUME NEW bno \in Bnos, IsIab3(d, s, bno, 1), NEW j \in DOMAIN Iab3At(d, s, bno).ptrs,
               NEW k \in DOMAIN Iab3At(d, s, bno).ptrs, j # k
        PROVE  RecInos(d, s, Iab3At(d, s, bno).ptrs[j]) \cap RecInos(d, s, Iab3At(d, s, bno).ptrs[k]) = {}
    BY <1>1, <1>4 DEF NoOverlap, Apart
  <1>5. \A bno \in Bnos : IsIab3(d, s, bno, 0) =>
          \A j, k \in DOMAIN Iab3At(d, s, bno).recs : j # k =>
            \A i \in Inos(s, Iab3At(d, s, bno).recs[j]) : i \notin Inos(s, Iab3At(d, s, bno).recs[k])
    BY <1>3
  <1>6. \A bno \in Bnos : IsIab3(d, s, bno, 1) =>
          \A j, k \in DOMAIN Iab3At(d, s, bno).ptrs : j # k =>
            \A i \in RecInos(d, s, Iab3At(d, s, bno).ptrs[j]) :
              i \notin RecInos(d, s, Iab3At(d, s, bno).ptrs[k])
    BY <1>4
  <1> QED BY <1>2, <1>5, <1>6

\* The inodes below the pointers of a node are those below the node, those of
\* the records of a leaf are those of the leaf.
LEMMA NodeInos ==
  ASSUME NEW d \in Images, NEW s \in Groups, NEW bno \in Bnos
  PROVE  /\ IsIab3(d, s, bno, 1) => \A k \in DOMAIN Iab3At(d, s, bno).ptrs :
              /\ TreeInos(d, s, Iab3At(d, s, bno).ptrs[k]) = RecInos(d, s, Iab3At(d, s, bno).ptrs[k])
              /\ RecInos(d, s, Iab3At(d, s, bno).ptrs[k]) \subseteq TreeInos(d, s, bno)
         /\ IsIab3(d, s, bno, 0) => \A k \in DOMAIN Iab3At(d, s, bno).recs :
              Inos(s, Iab3At(d, s, bno).recs[k]) \subseteq TreeInos(d, s, bno)
  <1>1. ASSUME IsIab3(d, s, bno, 1), NEW k \in DOMAIN Iab3At(d, s, bno).ptrs
        PROVE  /\ TreeInos(d, s, Iab3At(d, s, bno).ptrs[k]) = RecInos(d, s, Iab3At(d, s, bno).ptrs[k])
               /\ RecInos(d, s, Iab3At(d, s, bno).ptrs[k]) \subseteq TreeInos(d, s, bno)
    <2>1. ~IsIab3(d, s, Iab3At(d, s, bno).ptrs[k], 1)
      BY <1>1, ImageFacts
    <2> QED BY <1>1, <2>1 DEF TreeInos
  <1>2. ASSUME IsIab3(d, s, bno, 0), NEW k \in DOMAIN Iab3At(d, s, bno).recs
        PROVE  Inos(s, Iab3At(d, s, bno).recs[k]) \subseteq TreeInos(d, s, bno)
    <2>1. ~IsIab3(d, s, bno, 1)
      BY <1>2 DEF IsIab3
    <2> QED BY <1>2, <2>1 DEF TreeInos, RecInos
  <1> QED BY <1>1, <1>2

LEMMA OnceStep ==
  ASSUME \A d \in Images : WellCounted(d), ThreadInv, RetrieveInv, OnceInv, [Next]_vars
  PROVE  OnceInv'
  <1>1. /\ disk \in Images /\ seqno \in Groups /\ bnos \in Seq(Bnos)
        /\ irecs \in Seq(Irecs) /\ WellCounted(disk)
    BY DEF RetrieveInv
  <1>2. ASSUME rpc # "idle"
        PROVE  /\ \A k \in DOMAIN irecs : \A i \in RecAt(k) : i \in RootInos(disk, seqno) /\ i \notin Copied
               /\ \A k \in DOMAIN bnos : \A i \in SubAt(k) : i \in RootInos(disk, seqno) /\ i \notin Copied
               /\ \A j, k \in DOMAIN irecs : j # k => \A i \in RecAt(j) : i \notin RecAt(k)
               /\ \A j, k \in DOMAIN bnos : j # k => \A i \in SubAt(j) : i \notin SubAt(k)
               /\ \A j \in DOMAIN irecs, k \in DOMAIN bnos : \A i \in RecAt(j) : i \notin SubAt(k)
               /\ \A s \in seqno + 1 .. AgCount - 1 : \A i \in RootInos(disk, s) : i \notin Copied
    BY <1>2 DEF OnceInv
  <1>3. \A j, k \in DOMAIN dinodes : dinodes[j] = dinodes[k] => j = k
    BY DEF OnceInv
  <1>4. CASE CallRetrieve
    <2>1. CASE bnos' = <<disk.agi[0].root>> /\ rpc' = "block"
      <3>1. /\ UNCHANGED <<disk, seqno>> /\ seqno = 0 /\ dinodes' = <<>> /\ irecs' = <<>>
        BY <1>4, <2>1 DEF CallRetrieve, RetrieveStart, ThreadInv
      <3>2. Copied' = {} /\ DOMAIN bnos' = {1} /\ DOMAIN irecs' = {} /\ DOMAIN dinodes' = {}
        BY <2>1, <3>1 DEF Copied
      <3>3. SubAt(1)' = RootInos(disk, seqno)'
        BY <2>1, <3>1 DEF SubAt, RootInos
      <3> QED BY <3>2, <3>3 DEF OnceInv
    <2>2. CASE ~(bnos' = <<disk.agi[0].root>> /\ rpc' = "block")
      <3>1. rpc' = "idle" /\ dinodes' \in {<<>>, dinodes}
        BY <1>4, <2>2 DEF CallRetrieve, RetrieveStart
      <3> QED BY <1>3, <3>1 DEF OnceInv
    <2> QED BY <2>1, <2>2
  <1>5. CASE Retrieve
    <2>1. rpc # "idle"
      BY <1>5 DEF Retrieve, Retrieving, ReadIab3, DecodeRecord, LeafDone, GroupDone
    <2>2. CASE ReadIab3
      <3>1. PICK bno \in Bnos : bno = Head(bnos)
        <4>1. bnos # <<>>
          BY <2>2 DEF ReadIab3
        <4> QED BY <1>1, <4>1, HeadTailProperties
      <3>2. /\ Tail(bnos) \in Seq(Bnos) /\ Len(Tail(bnos)) = Len(bnos) - 1 /\ bno = bnos[1]
            /\ Len(bnos) \in Nat \ {0} /\ DOMAIN bnos = 1 .. Len(bnos) /\ 1 \in DOMAIN bnos
            /\ \A k \in 1 .. Len(Tail(bnos)) : Tail(bnos)[k] = bnos[k + 1] /\ k + 1 \in DOMAIN bnos /\ k + 1 # 1
        <4>1. bnos # <<>>
          BY <2>2 DEF ReadIab3
        <4> QED BY <1>1, <3>1, <4>1, HeadTailProperties
      <3>3. UNCHANGED <<disk, dinodes>> /\ irecs = <<>> /\ Copied' = Copied
        BY <2>2 DEF ReadIab3, ThreadInv, Copied
      <3>4. \/ rpc' = "idle"
            \/ /\ IsIab3(disk, seqno, bno, 1)
               /\ bnos' = Iab3At(disk, seqno, bno).ptrs \o Tail(bnos)
               /\ UNCHANGED <<rpc, irecs, seqno>>
            \/ /\ IsIab3(disk, seqno, bno, 0)
               /\ irecs' = Iab3At(disk, seqno, bno).recs
               /\ bnos' = Tail(bnos) /\ rpc' = "record" /\ UNCHANGED seqno
        BY <2>2, <3>1 DEF ReadIab3, Readable, IsIab3, Iab3At, RetrieveFail
      <3>5. SubAt(1) = TreeInos(disk, seqno, bno)
        BY <3>2 DEF SubAt
      <3>6. CASE rpc' = "idle"
        BY <1>3, <3>3, <3>6 DEF OnceInv
      <3>7. CASE /\ IsIab3(disk, seqno, bno, 1)
                 /\ bnos' = Iab3At(disk, seqno, bno).ptrs \o Tail(bnos)
                 /\ UNCHANGED <<rpc, irecs, seqno>>
        <4> DEFINE ps == Iab3At(disk, seqno, bno).ptrs
        <4>1. ps \in Seq(Bnos)
          BY <1>1, <3>1, <3>7, ImageFacts
        <4>2. \A k \in DOMAIN ps : TreeInos(disk, seqno, ps[k]) \subseteq SubAt(1)
          BY <1>1, <3>5, <3>7, NodeInos
        <4>3. \A j, k \in DOMAIN ps : j # k =>
                \A i \in TreeInos(disk, seqno, ps[j]) : i \notin TreeInos(disk, seqno, ps[k])
          <5>1. \A k \in DOMAIN ps : TreeInos(disk, seqno, ps[k]) = RecInos(disk, seqno, ps[k])
            BY <1>1, <3>7, NodeInos
          <5>2. \A j, k \in DOMAIN ps : j # k =>
                  \A i \in RecInos(disk, seqno, ps[j]) : i \notin RecInos(disk, seqno, ps[k])
            BY <1>1, <3>7, OverlapFacts
          <5> QED BY <5>1, <5>2
        <4> HIDE DEF ps
        <4>4. /\ Len(ps) \in Nat /\ DOMAIN ps = 1 .. Len(ps) /\ Len(Tail(bnos)) \in Nat
              /\ DOMAIN bnos' = 1 .. Len(ps) + Len(Tail(bnos))
              /\ \A k \in 1 .. Len(ps) : bnos'[k] = ps[k]
              /\ \A k \in 1 .. Len(Tail(bnos)) : bnos'[Len(ps) + k] = Tail(bnos)[k]
          BY <3>2, <3>7, <4>1 DEF ps
        <4>5. ASSUME NEW k \in DOMAIN bnos'
              PROVE  \/ k \in DOMAIN ps /\ SubAt(k)' = TreeInos(disk, seqno, ps[k])
                     \/ \E l \in DOMAIN bnos : l # 1 /\ k = (Len(ps) + l) - 1 /\ SubAt(k)' = SubAt(l)
          <5>1. CASE k <= Len(ps)
            <6>1. k \in 1 .. Len(ps)
              BY <4>4, <4>5, <5>1
            <6>2. bnos'[k] = ps[k] /\ k \in DOMAIN ps
              BY <4>4, <6>1
            <6> QED BY <3>3, <3>7, <6>2 DEF SubAt
          <5>2. CASE k > Len(ps)
            <6>1. PICK l \in 1 .. Len(Tail(bnos)) : k = Len(ps) + l
              <7>1. k - Len(ps) \in 1 .. Len(Tail(bnos)) /\ k = Len(ps) + (k - Len(ps))
                BY <4>4, <4>5, <5>2
              <7> QED BY <7>1
            <6>2. bnos'[k] = bnos[l + 1] /\ l + 1 \in DOMAIN bnos /\ l + 1 # 1
              BY <3>2, <4>4, <6>1
            <6>3. SubAt(k)' = SubAt(l + 1)
              BY <3>3, <3>7, <6>2 DEF SubAt
            <6>4. k = (Len(ps) + (l + 1)) - 1
              BY <4>4, <6>1
            <6> QED BY <6>2, <6>3, <6>4
          <5> QED BY <4>4, <5>1, <5>2
        <4>6. ASSUME NEW k \in DOMAIN bnos', NEW i \in SubAt(k)'
              PROVE  i \in RootInos(disk, seqno) /\ i \notin Copied
          <5>1. \E l \in DOMAIN bnos : i \in SubAt(l)
            BY <3>2, <4>2, <4>5, <4>6
          <5> QED BY <1>2, <2>1, <5>1
        <4>7. ASSUME NEW j \in DOMAIN bnos', NEW k \in DOMAIN bnos', j # k, NEW i \in SubAt(j)'
              PROVE  i \notin SubAt(k)'
          <5>1. CASE j \in DOMAIN ps /\ SubAt(j)' = TreeInos(disk, seqno, ps[j])
            <6>1. i \in SubAt(1)
              BY <4>2, <4>7, <5>1
            <6>2. CASE k \in DOMAIN ps /\ SubAt(k)' = TreeInos(disk, seqno, ps[k])
              BY <4>3, <4>7, <5>1, <6>2
            <6>3. CASE \E l \in DOMAIN bnos : l # 1 /\ k = (Len(ps) + l) - 1 /\ SubAt(k)' = SubAt(l)
              BY <1>2, <2>1, <3>2, <6>1, <6>3
            <6> QED BY <4>5, <6>2, <6>3
          <5>2. CASE \E l \in DOMAIN bnos : l # 1 /\ j = (Len(ps) + l) - 1 /\ SubAt(j)' = SubAt(l)
            <6>1. PICK l \in DOMAIN bnos : l # 1 /\ j = (Len(ps) + l) - 1 /\ SubAt(j)' = SubAt(l)
              BY <5>2
            <6>2. CASE k \in DOMAIN ps /\ SubAt(k)' = TreeInos(disk, seqno, ps[k])
              <7>1. i \notin SubAt(1)
                BY <1>2, <2>1, <3>2, <4>7, <6>1
              <7> QED BY <4>2, <6>2, <7>1
            <6>3. CASE \E h \in DOMAIN bnos : h # 1 /\ k = (Len(ps) + h) - 1 /\ SubAt(k)' = SubAt(h)
              <7>1. PICK h \in DOMAIN bnos : h # 1 /\ k = (Len(ps) + h) - 1 /\ SubAt(k)' = SubAt(h)
                BY <6>3
              <7>2. h # l
                BY <4>7, <6>1, <7>1
              <7> QED BY <1>2, <2>1, <4>7, <6>1, <7>1, <7>2
            <6> QED BY <4>5, <6>2, <6>3
          <5> QED BY <4>5, <5>1, <5>2
        <4>8. DOMAIN irecs' = {} /\ RootInos(disk, seqno)' = RootInos(disk, seqno)
          BY <3>3, <3>7 DEF RootInos
        <4>9. \A s \in seqno' + 1 .. AgCount - 1 : \A i \in RootInos(disk', s) : i \notin Copied'
          BY <1>2, <2>1, <3>3, <3>7
        <4> QED BY <1>3, <3>3, <4>6, <4>7, <4>8, <4>9 DEF OnceInv
      <3>8. CASE /\ IsIab3(disk, seqno, bno, 0)
                 /\ irecs' = Iab3At(disk, seqno, bno).recs
                 /\ bnos' = Tail(bnos) /\ rpc' = "record" /\ UNCHANGED seqno
        <4>1. \A k \in DOMAIN irecs' : RecAt(k)' \subseteq SubAt(1)
          BY <1>1, <3>5, <3>8, NodeInos DEF RecAt
        <4>2. \A j, k \in DOMAIN irecs' : j # k => \A i \in RecAt(j)' : i \notin RecAt(k)'
          BY <1>1, <3>8, OverlapFacts DEF RecAt
        <4>3. \A k \in DOMAIN bnos' : k + 1 \in DOMAIN bnos /\ k + 1 # 1 /\ SubAt(k)' = SubAt(k + 1)
          BY <3>2, <3>3, <3>8 DEF SubAt
        <4>4. \A k \in DOMAIN bnos' : k \in Nat
          BY <3>2, <3>8
        <4>5. RootInos(disk, seqno)' = RootInos(disk, seqno)
          BY <3>3, <3>8 DEF RootInos
        <4>6. ASSUME NEW k \in DOMAIN irecs', NEW i \in RecAt(k)'
              PROVE  i \in RootInos(disk, seqno) /\ i \notin Copied
          BY <1>2, <2>1, <3>2, <4>1, <4>6
        <4>7. ASSUME NEW k \in DOMAIN bnos', NEW i \in SubAt(k)'
              PROVE  i \in RootInos(disk, seqno) /\ i \notin Copied
          BY <1>2, <2>1, <4>3, <4>7
        <4>8. ASSUME NEW j \in DOMAIN bnos', NEW k \in DOMAIN bnos', j # k, NEW i \in SubAt(j)'
              PROVE  i \notin SubAt(k)'
          <5>1. j + 1 # k + 1
            BY <4>4, <4>8
          <5> QED BY <1>2, <2>1, <4>3, <4>8, <5>1
        <4>9. ASSUME NEW j \in DOMAIN irecs', NEW k \in DOMAIN bnos', NEW i \in RecAt(j)'
              PROVE  i \notin SubAt(k)'
          <5>1. i \in SubAt(1)
            BY <4>1, <4>9
          <5> QED BY <1>2, <2>1, <3>2, <4>3, <5>1
        <4>10. \A s \in seqno' + 1 .. AgCount - 1 : \A i \in RootInos(disk', s) : i \notin Copied'
          BY <1>2, <2>1, <3>3, <3>8
        <4> QED BY <1>3, <3>3, <4>2, <4>5, <4>6, <4>7, <4>8, <4>9, <4>10 DEF OnceInv
      <3> QED BY <3>4, <3>6, <3>7, <3>8
    <2>3. CASE DecodeRecord
      <3>1. CASE rpc' = "idle"
        <4>1. dinodes' = dinodes
          BY <2>1, <2>3, <3>1 DEF DecodeRecord
        <4> QED BY <1>3, <3>1, <4>1 DEF OnceInv
      <3>2. CASE rpc' # "idle"
        <4>1. /\ irecs # <<>> /\ irecs' = Tail(irecs) /\ UNCHANGED <<disk, rpc, seqno, bnos>>
          BY <2>3, <3>2 DEF DecodeRecord, RetrieveFail
        <4>2. /\ Copied' = Copied \cup Inos(seqno, Head(irecs))
              /\ \A j, k \in DOMAIN dinodes' : dinodes'[j] = dinodes'[k] => j = k
          BY <2>3, <3>2, CopyEffect
        <4>3. /\ Head(irecs) = irecs[1] /\ 1 \in DOMAIN irecs
              /\ \A k \in DOMAIN irecs' : k \in Nat /\ k + 1 \in DOMAIN irecs /\ k + 1 # 1
                                          /\ irecs'[k] = irecs[k + 1]
          <5>1. /\ Len(irecs') = Len(irecs) - 1 /\ irecs' \in Seq(Irecs) /\ Head(irecs) = irecs[1]
                /\ \A k \in 1 .. Len(irecs') : irecs'[k] = irecs[k + 1]
            BY <1>1, <4>1, HeadTailProperties
          <5>2. Len(irecs) \in Nat \ {0} /\ DOMAIN irecs = 1 .. Len(irecs) /\ DOMAIN irecs' = 1 .. Len(irecs')
            BY <1>1, <4>1, <5>1
          <5> QED BY <5>1, <5>2
        <4>4. Copied' = Copied \cup RecAt(1)
          BY <4>2, <4>3 DEF RecAt
        <4>5. \A k \in DOMAIN irecs' : RecAt(k)' = RecAt(k + 1)
          BY <4>1, <4>3 DEF RecAt
        <4>6. /\ RootInos(disk, seqno)' = RootInos(disk, seqno)
              /\ \A k : SubAt(k)' = SubAt(k)
          BY <4>1 DEF RootInos, SubAt
        <4>7. ASSUME NEW k \in DOMAIN irecs', NEW i \in RecAt(k)'
              PROVE  i \in RootInos(disk, seqno) /\ i \notin Copied'
          BY <1>2, <2>1, <4>3, <4>4, <4>5, <4>7
        <4>8. ASSUME NEW k \in DOMAIN bnos, NEW i \in SubAt(k)
              PROVE  i \in RootInos(disk, seqno) /\ i \notin Copied'
          BY <1>2, <2>1, <4>3, <4>4, <4>8
        <4>9. ASSUME NEW j \in DOMAIN irecs', NEW k \in DOMAIN irecs', j # k, NEW i \in RecAt(j)'
              PROVE  i \notin RecAt(k)'
          <5>1. j + 1 # k + 1
            BY <4>3, <4>9
          <5> QED BY <1>2, <2>1, <4>3, <4>5, <4>9, <5>1
        <4>10. ASSUME NEW j \in DOMAIN irecs', NEW k \in DOMAIN bnos, NEW i \in RecAt(j)'
               PROVE  i \notin SubAt(k)
          BY <1>2, <2>1, <4>3, <4>5, <4>10
        <4>11. ASSUME NEW s \in seqno + 1 .. AgCount - 1, NEW i \in RootInos(disk, s)
               PROVE  i \notin Copied'
          <5>1. s \in Groups /\ s # seqno
            BY <1>1, <4>11, GroupFacts DEF Groups
          <5>2. i \notin RootInos(disk, seqno)
            BY <1>1, <4>11, <5>1, OverlapFacts
          <5> QED BY <1>2, <2>1, <4>3, <4>4, <4>11, <5>2
        <4>12. \A s : RootInos(disk, s)' = RootInos(disk, s)
          BY <4>1 DEF RootInos
        <4> QED BY <1>2, <2>1, <4>1, <4>2, <4>6, <4>7, <4>8, <4>9, <4>10, <4>11, <4>12 DEF OnceInv
      <3> QED BY <3>1, <3>2
    <2>4. CASE LeafDone
      <3>1. UNCHANGED <<disk, dinodes, irecs, bnos, seqno>>
        BY <2>4 DEF LeafDone, memVars
      <3>2. UNCHANGED Copied /\ \A k : RecAt(k)' = RecAt(k) /\ SubAt(k)' = SubAt(k)
        BY <3>1 DEF Copied, RecAt, SubAt
      <3> QED BY <1>2, <1>3, <2>1, <3>1, <3>2 DEF OnceInv
    <2>5. CASE GroupDone
      <3>1. UNCHANGED <<disk, dinodes, irecs>> /\ irecs = <<>> /\ bnos = <<>> /\ Copied' = Copied
        BY <2>5 DEF GroupDone, memVars, ThreadInv, Copied
      <3>2. CASE seqno + 1 < AgCount
        <4>1. seqno' = seqno + 1 /\ bnos' = <<disk.agi[seqno'].root>>
          BY <2>5, <3>2 DEF GroupDone
        <4>2. seqno' \in seqno + 1 .. AgCount - 1
              /\ \A s \in seqno' + 1 .. AgCount - 1 : s \in seqno + 1 .. AgCount - 1
          BY <1>1, <3>2, <4>1, GroupFacts DEF Groups
        <4>3. DOMAIN bnos' = {1} /\ DOMAIN irecs' = {}
          BY <3>1, <4>1
        <4>4. SubAt(1)' = RootInos(disk, seqno') /\ RootInos(disk, seqno)' = RootInos(disk, seqno')
          BY <3>1, <4>1 DEF SubAt, RootInos
        <4>5. \A s \in seqno + 1 .. AgCount - 1 : \A i \in RootInos(disk, s) : i \notin Copied
          BY <1>2, <2>1
        <4> QED BY <1>3, <3>1, <4>2, <4>3, <4>4, <4>5 DEF OnceInv
      <3>3. CASE ~(seqno + 1 < AgCount)
        BY <1>3, <2>5, <3>1, <3>3 DEF GroupDone, OnceInv
      <3> QED BY <3>2, <3>3
    <2> QED BY <1>5, <2>2, <2>3, <2>4, <2>5 DEF Retrieve, Retrieving
  <1>6. CASE CallIndex \/ IndexDies \/ Index \/ UNCHANGED vars
    <2>1. UNCHANGED retrieveVars
      BY <1>6, IndexLeavesRetrieval
    <2>2. UNCHANGED Copied /\ \A k : RecAt(k)' = RecAt(k) /\ SubAt(k)' = SubAt(k)
      BY <2>1 DEF retrieveVars, memVars, Copied, RecAt, SubAt
    <2> QED BY <2>1, <2>2 DEF retrieveVars, memVars, OnceInv
  <1> QED BY <1>4, <1>5, <1>6 DEF Next

\* The inodes a retrieval copies fit in the buffer that is allocated from the
\* counts of the group headers, at every step of every call, on every image
\* whose records describe no inode twice and whose headers count them all.
THEOREM BufferHoldsInodes ==
  ASSUME \A d \in Images : WellCounted(d)
  PROVE  Spec => []DinodesFitBuffer
  <1>1. Init => ThreadInv /\ RetrieveInv /\ OnceInv
    <2> SUFFICES ASSUME Init PROVE OnceInv
      BY FoundInit
    <2>1. DOMAIN dinodes = {} /\ rpc = "idle"
      BY DEF Init, RetrieveInit
    <2> QED BY <2>1 DEF OnceInv
  <1>2. ThreadInv /\ RetrieveInv /\ OnceInv /\ [Next]_vars => (ThreadInv /\ RetrieveInv /\ OnceInv)'
    BY ThreadStep, RetrieveStep, OnceStep
  <1>3. ThreadInv /\ RetrieveInv /\ OnceInv => DinodesFitBuffer
    <2> SUFFICES ASSUME RetrieveInv, OnceInv PROVE DinodesFitBuffer
      OBVIOUS
    <2> DEFINE S == 1 .. Len(dinodes)
               T == DOMAIN disk.dinode
    <2>1. dinodes \in [S -> T] /\ Len(dinodes) \in Nat /\ DOMAIN dinodes = S
      BY DEF RetrieveInv
    <2>2. dinodes \in Injection(S, T)
      BY <2>1 DEF OnceInv, Injection, IsInjective
    <2>3. IsFiniteSet(T) /\ Cardinality(T) <= AgiTotal(disk) /\ AgiTotal(disk) \in Nat
      BY IndexAssumption, GroupFacts DEF RetrieveInv, WellCounted
    <2>4. Cardinality(S) <= Cardinality(T) /\ Cardinality(T) \in Nat
      BY <2>2, <2>3, FS_Injection, FS_CardinalityType
    <2>5. Cardinality(S) = Len(dinodes)
      <3>1. PICK n \in Nat : n = Len(dinodes)
        BY <2>1
      <3>2. Cardinality(1 .. n) = IF 1 > n THEN 0 ELSE n - 1 + 1
        BY FS_Interval
      <3> QED BY <3>1, <3>2
    <2> HIDE DEF S, T
    <2> QED BY <2>1, <2>3, <2>4, <2>5 DEF DinodesFitBuffer, nallocated
  <1> QED BY <1>1, <1>2, <1>3, PTL DEF Spec
-----------------------------------------------------------------------------
\* The pools stay inside their reserve when the memory behind them is not
\* mapped: xal_pool_grow() fails there.
LEMMA PoolClaimed ==
  ASSUME ~BeyondMapped, NEW p, PoolIn(p), NEW n \in Nat, NEW ok \in BOOLEAN,
         mprotect(p, p.allocated + p.growby, ok), NEW err, NEW q, ClaimOutcome(p, n, ok, err, q)
  PROVE  /\ PoolIn(q) /\ err \in PoolErrors /\ p.free <= q.free
         /\ q.free = IF err = "OK" THEN p.free + n ELSE p.free
  BY DEF PoolIn, Pools, mprotect, ClaimOutcome

\* What clearing a pool and growing one leave in the memory behind it.
ClearedFrom(i, p, mem, zero) ==
  \A c \in Cells : i.mem[c] = zero \/ (i.mem[c] = mem[c] /\ i.pool = p)
ZeroedFrom(m, mem, free, zero) ==
  \A c \in Cells : m[c] = mem[c] \/ (c >= free /\ m[c] = zero)

LEMMA PoolCleared ==
  ASSUME NEW p, PoolIn(p), NEW S, NEW mem \in [Cells -> S], NEW zero \in S, NEW ok \in BOOLEAN
  PROVE  /\ PoolIn(Cleared(p, mem, zero, ok).pool)
         /\ Cleared(p, mem, zero, ok).mem \in [Cells -> S]
         /\ ClearedFrom(Cleared(p, mem, zero, ok), p, mem, zero)
  <1>1. CASE ok
    <2>1. xal_pool_clear(p) \in Pools /\ xal_pool_clear(p).free = 0
          /\ xal_pool_clear(p).allocated = 0 /\ xal_pool_clear(p).reserved = p.reserved
      BY ClearOutcome DEF PoolIn
    <2>2. PoolIn(xal_pool_clear(p))
      BY <2>1, GroupFacts DEF PoolIn
    <2> QED BY <1>1, <2>2 DEF Cleared, ClearedFrom
  <1>2. CASE ~ok
    BY <1>2 DEF Cleared, ClearedFrom
  <1> QED BY <1>1, <1>2

LEMMA ZeroedMemory ==
  ASSUME NEW p, PoolIn(p), NEW S, NEW mem \in [Cells -> S], NEW zero \in S, NEW n, NEW ok
  PROVE  /\ Zeroed(mem, p, n, ok, zero) \in [Cells -> S]
         /\ ZeroedFrom(Zeroed(mem, p, n, ok, zero), mem, p.free, zero)
  BY DEF ZeroedFrom, Zeroed, GrowZeroes, Cells, PoolIn, Pools

LEMMA Zeroes == ZeroInode \in Inodes /\ ZeroExtent \in Extents
  BY GroupFacts DEF ZeroInode, ZeroExtent, Inodes, Extents, Ftypes

\* A decoded extent record is one.
LEMMA DecodedExtent ==
  ASSUME NEW rec \in Words
  PROVE  decode_xfs_extent(rec.l0, rec.l1) \in Extents
  <1>1. rec.l0 \in Nat /\ rec.l1 \in Nat
    BY DEF Words
  <1>2. /\ OffBits \in Nat /\ HiBits \in Nat /\ LoBits \in Nat /\ CntBits \in Nat
        /\ LoBits + CntBits - 1 \in Nat
    BY FormatAssumption
  <1>3. \A x \in Widths : 2^x \in Nat \ {0}
    BY PowerAssumption
  <1>4. \A x \in Nat, y \in Nat \ {0} : x \div y \in Nat /\ x % y \in Nat
    OBVIOUS
  <1>5. \A x \in Nat, n \in Widths : Shr(x, n) \in Nat /\ Mask(x, n) \in Nat
    BY <1>3, <1>4 DEF Shr, Mask
  <1>6. /\ 1 + OffBits + HiBits \in Widths /\ HiBits + 1 \in Widths /\ HiBits \in Widths
        /\ CntBits \in Widths /\ LoBits + CntBits - 1 \in Widths /\ LoBits \in Widths
    BY <1>2, FormatAssumption DEF Widths
  <1>7. 2 * rec.l0 \in Nat
    BY <1>1
  <1>8. /\ Shr(Mask(2 * rec.l0, 1 + OffBits + HiBits), HiBits + 1) \in Nat
        /\ Mask(rec.l1, CntBits) \in Nat /\ Shr(rec.l1, LoBits + CntBits - 1) \in Nat
    BY <1>1, <1>5, <1>6, <1>7
  <1>9. Mask(rec.l0, HiBits) * 2^LoBits + Shr(rec.l1, CntBits) \in Nat
    <2>1. \A x, y, z \in Nat : x * y + z \in Nat
      OBVIOUS
    <2>2. Mask(rec.l0, HiBits) \in Nat /\ 2^LoBits \in Nat /\ Shr(rec.l1, CntBits) \in Nat
      BY <1>1, <1>3, <1>5, <1>6
    <2> QED BY <2>1, <2>2
  <1> QED BY <1>8, <1>9 DEF decode_xfs_extent, Extents
-----------------------------------------------------------------------------
IndexInv == MemInv /\ FreshInv /\ TreeInv

\* xal_index() returns an error: what it claimed stays, and is no tree.
LEMMA Returned ==
  ASSUME NEW e \in IndexErrors \ {"OK"}, Return(e),
         PoolIn(inodes)', PoolIn(extents)', imem' \in [Cells -> Inodes],
         emem' \in [Cells -> Extents], rootIdx' \in Cells \cup {IdxNone},
         calls' \in 0 .. MaxCalls, FreshInv'
  PROVE  IndexInv'
  <1>1. <<>> \in Seq(Items) /\ <<>> \in Seq(Frames) /\ 0 \in Cells
    BY EmptySeq, GroupFacts
  <1>2. MemInv'
    BY <1>1 DEF Return, MemInv
  <1>3. TreeInv'
    BY DEF Return, TreeInv, FillInv, Filling
  <1> QED BY <1>2, <1>3 DEF IndexInv

\* The first element of a tree.
LEMMA StartStep ==
  ASSUME ~BeyondMapped, RetrieveInv, IndexInv, IndexStart, calls' \in 0 .. MaxCalls
  PROVE  IndexInv'
  <1>1. /\ PoolIn(inodes) /\ PoolIn(extents) /\ imem \in [Cells -> Inodes]
        /\ emem \in [Cells -> Extents] /\ FreshInv /\ rootIdx \in Cells \cup {IdxNone}
        /\ disk.rootino \in Nat /\ stack = <<>> /\ items \in Seq(Items) /\ xerr \in IndexErrors
    BY IndexAssumption DEF IndexInv, MemInv, TreeInv, IndexStart, RetrieveInv
  <1>2. PICK ok1, ok2, ok \in BOOLEAN :
       LET i == Cleared(inodes, imem, ZeroInode, ok1)
           e == Cleared(extents, emem, ZeroExtent, ok2)
           r == xal_pool_claim_inodes(i.pool, 1, ok)
           m == Zeroed(i.mem, i.pool, 1, ok, ZeroInode)
       IN /\ mprotect(i.pool, i.pool.allocated + i.pool.growby, ok)
          /\ inodes' = r.pool /\ extents' = e.pool /\ emem' = e.mem
          /\ IF r.err = "OK"
               THEN /\ rootIdx' = i.pool.free
                    /\ imem' = [m EXCEPT ![i.pool.free] =
                                  [ino |-> disk.rootino, ftype |-> "dir",
                                   parent |-> IdxNone, idx |-> @.idx, count |-> 0]]
                    /\ xpc' = "ino" /\ self' = i.pool.free
                    /\ UNCHANGED <<stack, workVars, xerr>>
               ELSE /\ imem' = m
                    /\ Return(r.err)
                    /\ UNCHANGED rootIdx
    BY DEF IndexStart
  <1> DEFINE i == Cleared(inodes, imem, ZeroInode, ok1)
             e == Cleared(extents, emem, ZeroExtent, ok2)
             r == xal_pool_claim_inodes(i.pool, 1, ok)
             m == Zeroed(i.mem, i.pool, 1, ok, ZeroInode)
  <1>3. /\ PoolIn(i.pool) /\ i.mem \in [Cells -> Inodes] /\ PoolIn(e.pool) /\ e.mem \in [Cells -> Extents]
        /\ ClearedFrom(i, inodes, imem, ZeroInode)
    <2>1. ZeroInode \in Inodes /\ ZeroExtent \in Extents
      BY Zeroes
    <2>2. /\ PoolIn(i.pool) /\ i.mem \in [Cells -> Inodes]
          /\ ClearedFrom(i, inodes, imem, ZeroInode)
      BY <1>1, <2>1, PoolCleared
    <2>3. PoolIn(e.pool) /\ e.mem \in [Cells -> Extents]
      BY <1>1, <2>1, PoolCleared
    <2> QED BY <2>2, <2>3
  <1>4. \A c \in Cells : c >= i.pool.free => i.mem[c].count = 0
    BY <1>1, <1>3 DEF FreshInv, ZeroInode, ClearedFrom
  <1> HIDE DEF i, e
  <1>5. ClaimOutcome(i.pool, 1, ok, r.err, r.pool)
    BY <1>3, ClaimInodesOutcome DEF PoolIn
  <1>6. /\ PoolIn(r.pool) /\ r.err \in PoolErrors
        /\ r.pool.free = IF r.err = "OK" THEN i.pool.free + 1 ELSE i.pool.free
    BY <1>2, <1>3, <1>5, PoolClaimed DEF i
  <1>7. /\ m \in [Cells -> Inodes]
        /\ ZeroedFrom(m, i.mem, i.pool.free, ZeroInode)
    <2>1. ZeroInode \in Inodes
      BY Zeroes
    <2> QED BY <1>3, <2>1, ZeroedMemory
  <1>8. \A c \in Cells : c >= i.pool.free => m[c].count = 0
    BY <1>4, <1>7 DEF ZeroInode, ZeroedFrom
  <1> HIDE DEF r, m
  <1>9. /\ inodes' = r.pool /\ extents' = e.pool /\ emem' = e.mem
        /\ IF r.err = "OK"
             THEN /\ rootIdx' = i.pool.free
                  /\ imem' = [m EXCEPT ![i.pool.free] =
                                [ino |-> disk.rootino, ftype |-> "dir",
                                 parent |-> IdxNone, idx |-> @.idx, count |-> 0]]
                  /\ xpc' = "ino" /\ self' = i.pool.free
                  /\ UNCHANGED <<stack, workVars, xerr>>
             ELSE /\ imem' = m
                  /\ Return(r.err)
                  /\ UNCHANGED rootIdx
    BY <1>2 DEF i, e, r, m
  <1>10. CASE r.err # "OK"
    <2>1. FreshInv'
      BY <1>6, <1>8, <1>9, <1>10 DEF FreshInv
    <2>2. r.err \in IndexErrors \ {"OK"}
      BY <1>6, <1>10 DEF IndexErrors
    <2> QED BY <1>1, <1>3, <1>6, <1>7, <1>9, <1>10, <2>1, <2>2, Returned
  <1>11. CASE r.err = "OK"
    <2> DEFINE f == i.pool.free
    <2>1. f \in Cells /\ r.pool.free = f + 1 /\ f \in Nat
      BY <1>3, <1>6, <1>11 DEF PoolIn, Pools, Cells
    <2> HIDE DEF f
    <2>2. /\ rootIdx' = f /\ self' = f /\ xpc' = "ino" /\ stack' = <<>> /\ items' = items
          /\ xerr' = xerr
      BY <1>1, <1>9, <1>11 DEF f, workVars
    <2>3. /\ imem' \in [Cells -> Inodes] /\ imem'[f].count = 0 /\ imem'[f].ftype = "dir"
          /\ \A c \in Cells \ {f} : imem'[c] = m[c]
      <3>1. [ino |-> disk.rootino, ftype |-> "dir", parent |-> IdxNone,
             idx |-> m[f].idx, count |-> 0] \in Inodes
        BY <1>1, <1>7, <2>1 DEF Inodes, Ftypes
      <3>2. imem' = [m EXCEPT ![f] = [ino |-> disk.rootino, ftype |-> "dir", parent |-> IdxNone,
                                      idx |-> m[f].idx, count |-> 0]]
        BY <1>9, <1>11 DEF f
      <3> QED BY <1>7, <2>1, <3>1, <3>2
    <2>4. MemInv'
      BY <1>1, <1>3, <1>6, <1>9, <2>1, <2>2, <2>3, EmptySeq DEF MemInv
    <2>5. FreshInv'
      <3>1. inodes'.free = f + 1
        BY <1>9, <2>1
      <3>2. \A c \in Cells : c \in Int
        BY DEF Cells
      <3>3. \A c \in Cells : c >= f + 1 => c >= f /\ c # f
        BY <2>1, <3>2
      <3> QED BY <1>8, <2>3, <3>1, <3>3 DEF FreshInv, f
    <2>6. Claimed' = {f}
      BY <1>9, <2>1, <2>2 DEF Claimed, IdxNone
    <2>7. \A t : OfType(t)' = {}
      BY <2>3, <2>6 DEF OfType
    <2>8. TreeInv'
      BY <1>9, <2>1, <2>2, <2>3, <2>6, <2>7
         DEF TreeInv, ArrayInv, StackInv, SelfInv, FillInv, Filling
    <2> QED BY <2>4, <2>5, <2>8 DEF IndexInv
  <1> QED BY <1>10, <1>11
-----------------------------------------------------------------------------
\* A step that works on one element: all others keep what they have, and what
\* is claimed has nothing yet.
OnlySelf ==
  /\ \A c \in Cells \ {self} : c < inodes.free =>
       /\ imem'[c].ftype = imem[c].ftype
       /\ imem'[c].idx = imem[c].idx /\ imem'[c].count = imem[c].count
  /\ \A c \in Cells : c >= inodes.free => imem'[c].count = 0
  /\ inodes.free <= inodes'.free /\ extents.free <= extents'.free
  /\ rootIdx' = rootIdx

LEMMA CellsAre ==
  /\ PoolMax \in Nat
  /\ \A c \in Cells : c \in Nat /\ c < PoolMax
  /\ \A c \in Nat : c < PoolMax => c \in Cells
  BY GroupFacts DEF Cells

LEMMA InReserve ==
  ASSUME NEW p, PoolIn(p)
  PROVE  p.free \in Nat /\ p.free <= PoolMax
  BY CellsAre DEF PoolIn, Pools

LEMMA InodeFields ==
  ASSUME NEW m \in [Cells -> Inodes], NEW c \in Cells
  PROVE  m[c].idx \in Nat /\ m[c].count \in Nat
  <1>1. m[c] \in Inodes
    OBVIOUS
  <1> QED BY <1>1 DEF Inodes

LEMMA CellFacts ==
  ASSUME MemInv
  PROVE  /\ inodes.free \in Nat /\ extents.free \in Nat
         /\ inodes.free <= PoolMax /\ extents.free <= PoolMax
         /\ \A c \in Cells : imem[c].idx \in Nat /\ imem[c].count \in Nat
  BY InReserve, InodeFields DEF MemInv

\* The same after a step.
LEMMA NextCellFacts ==
  ASSUME MemInv'
  PROVE  /\ inodes'.free \in Nat /\ extents'.free \in Nat
         /\ inodes'.free <= PoolMax /\ extents'.free <= PoolMax
         /\ \A c \in Cells : imem'[c].idx \in Nat /\ imem'[c].count \in Nat
  BY InReserve, InodeFields DEF MemInv

LEMMA ClaimedCells ==
  ASSUME MemInv, rootIdx \in Cells, NEW c \in Claimed
  PROVE  c \in Cells /\ c \in Nat /\ c < inodes.free /\ rootIdx <= c
  BY GroupFacts DEF MemInv, Claimed, PoolIn, Pools, Cells, IdxNone

LEMMA OthersKept ==
  ASSUME MemInv, MemInv', ArrayInv, OnlySelf, NEW t, NEW c \in OfType(t)', c # self
  PROVE  c \in OfType(t) /\ imem'[c].idx = imem[c].idx /\ imem'[c].count = imem[c].count
  <1>1. c \in Claimed' /\ imem'[c].ftype = t /\ imem'[c].count > 0
    BY DEF OfType
  <1>2. rootIdx \in Cells /\ rootIdx' = rootIdx /\ inodes.free \in Nat /\ rootIdx \in Nat
    BY GroupFacts DEF ArrayInv, OnlySelf, MemInv, PoolIn, Pools, Cells
  <1>3. c \in Cells /\ c \in Nat /\ rootIdx <= c
    <2>1. inodes'.free \in Nat /\ inodes'.free <= PoolMax
      BY NextCellFacts
    <2>2. c \in rootIdx .. inodes'.free - 1
      BY <1>1, <1>2 DEF Claimed, IdxNone
    <2>3. c \in Nat /\ c < PoolMax /\ rootIdx <= c
      BY <1>2, <2>1, <2>2, CellsAre
    <2> QED BY <2>3, CellsAre
  <1>4. c < inodes.free
    BY <1>1, <1>2, <1>3 DEF OnlySelf
  <1>5. c \in Claimed
    BY <1>2, <1>3, <1>4, GroupFacts DEF Claimed, IdxNone, Cells
  <1> QED BY <1>1, <1>3, <1>4, <1>5 DEF OnlySelf, OfType

\* The array of the element at work is the last one of its pool.
LEMMA ArraysKept ==
  ASSUME MemInv, MemInv', ArrayInv, OnlySelf, self \in Claimed,
         imem'[self].ftype = "dir" /\ imem'[self].count > 0 =>
           /\ self < imem'[self].idx
           /\ imem'[self].idx + imem'[self].count <= inodes'.free
           /\ \A d \in OfType("dir") \ {self} : End(d) <= imem'[self].idx,
         imem'[self].ftype = "reg" /\ imem'[self].count > 0 =>
           /\ imem'[self].idx + imem'[self].count <= extents'.free
           /\ \A d \in OfType("reg") \ {self} : End(d) <= imem'[self].idx
  PROVE  ArrayInv'
  <1>1. /\ inodes.free \in Nat /\ inodes'.free \in Nat /\ extents.free \in Nat
        /\ extents'.free \in Nat /\ inodes.free <= inodes'.free /\ extents.free <= extents'.free
        /\ rootIdx \in Cells /\ rootIdx' = rootIdx /\ rootIdx < inodes.free
    BY DEF MemInv, PoolIn, Pools, OnlySelf, ArrayInv
  <1>2. \A c \in Cells : imem[c].idx \in Nat /\ imem[c].count \in Nat
                         /\ imem'[c].idx \in Nat /\ imem'[c].count \in Nat /\ c \in Nat
    BY CellFacts, NextCellFacts, CellsAre
  <1>3. \A t : \A c \in OfType(t) : c \in Cells
    BY <1>1, ClaimedCells DEF OfType
  <1>4. \A t : \A c \in OfType(t)' : c \in Cells
    <2>1. \A c \in Claimed' : c \in Cells
      <3> SUFFICES ASSUME NEW c \in Claimed' PROVE c \in Cells
        OBVIOUS
      <3>1. c \in rootIdx .. inodes'.free - 1
        BY <1>1, <1>2 DEF Claimed, IdxNone
      <3>2. inodes'.free <= PoolMax /\ PoolMax \in Nat /\ rootIdx \in Nat
        BY <1>1, NextCellFacts, CellsAre
      <3>3. c \in Nat /\ c < PoolMax
        BY <1>1, <3>1, <3>2
      <3> QED BY <3>3, CellsAre
    <2> QED BY <2>1 DEF OfType
  <1>5. \A t : \A c \in OfType(t)' : c # self =>
          c \in OfType(t) /\ imem'[c].idx = imem[c].idx /\ imem'[c].count = imem[c].count
    BY OthersKept
  <1>6. \A c \in OfType("dir")' : c < imem'[c].idx /\ imem'[c].idx + imem'[c].count <= inodes'.free
    <2> SUFFICES ASSUME NEW c \in OfType("dir")'
                 PROVE  c < imem'[c].idx /\ imem'[c].idx + imem'[c].count <= inodes'.free
      OBVIOUS
    <2>1. CASE c = self
      BY <2>1 DEF OfType
    <2>2. CASE c # self
      <3>1. c < imem[c].idx /\ imem[c].idx + imem[c].count <= inodes.free
        BY <1>5, <2>2 DEF ArrayInv, End
      <3> QED BY <1>1, <1>2, <1>4, <1>5, <2>2, <3>1
    <2> QED BY <2>1, <2>2
  <1>7. \A c \in OfType("reg")' : imem'[c].idx + imem'[c].count <= extents'.free
    <2> SUFFICES ASSUME NEW c \in OfType("reg")'
                 PROVE  imem'[c].idx + imem'[c].count <= extents'.free
      OBVIOUS
    <2>1. CASE c = self
      BY <2>1 DEF OfType
    <2>2. CASE c # self
      <3>1. imem[c].idx + imem[c].count <= extents.free
        BY <1>5, <2>2 DEF ArrayInv, End
      <3> QED BY <1>1, <1>2, <1>4, <1>5, <2>2, <3>1
    <2> QED BY <2>1, <2>2
  <1>8. ASSUME NEW t \in {"dir", "reg"}, NEW c \in OfType(t)', NEW d \in OfType(t)', c # d
        PROVE  \/ imem'[c].idx + imem'[c].count <= imem'[d].idx
               \/ imem'[d].idx + imem'[d].count <= imem'[c].idx
    <2>1. CASE c # self /\ d # self
      <3>1. End(c) <= imem[d].idx \/ End(d) <= imem[c].idx
        BY <1>5, <1>8, <2>1 DEF ArrayInv
      <3> QED BY <1>5, <1>8, <2>1, <3>1 DEF End
    <2>2. CASE c = self
      <3>1. End(d) <= imem'[self].idx
        BY <1>5, <1>8, <2>2 DEF OfType
      <3> QED BY <1>5, <1>8, <2>2, <3>1 DEF End
    <2>3. CASE d = self
      <3>1. End(c) <= imem'[self].idx
        BY <1>5, <1>8, <2>3 DEF OfType
      <3> QED BY <1>5, <1>8, <2>3, <3>1 DEF End
    <2> QED BY <2>1, <2>2, <2>3
  <1>9. \A c : End(c)' = imem'[c].idx + imem'[c].count
    BY DEF End
  <1>10. rootIdx' \in Cells /\ rootIdx' < inodes'.free
    BY <1>1, GroupFacts DEF Cells
  <1> QED BY <1>6, <1>7, <1>8, <1>9, <1>10 DEF ArrayInv

\* A directory on the stack does not notice.
LEMMA FrameKept ==
  ASSUME MemInv, MemInv', ArrayInv, OnlySelf, self \in Claimed,
         NEW f \in Frames, FrameOK(f), f.dir < self, self \notin Rest(f)
  PROVE  FrameOK(f)' /\ Rest(f)' = Rest(f)
  <1>1. /\ inodes.free \in Nat /\ inodes'.free \in Nat /\ inodes.free <= inodes'.free
        /\ rootIdx \in Cells /\ rootIdx' = rootIdx
    BY DEF MemInv, PoolIn, Pools, OnlySelf, ArrayInv
  <1>2. f.dir \in Claimed /\ f.dir \in Cells /\ f.dir \in Nat /\ f.dir < inodes.free /\ rootIdx <= f.dir
    BY <1>1, ClaimedCells DEF FrameOK, Frames
  <1>3. /\ imem'[f.dir].ftype = "dir" /\ imem'[f.dir].idx = imem[f.dir].idx
        /\ imem'[f.dir].count = imem[f.dir].count
    <2>1. self \in Nat
      BY <1>1, ClaimedCells
    <2>2. f.dir # self
      BY <1>2, <2>1
    <2> QED BY <1>2, <2>2 DEF OnlySelf, FrameOK
  <1>4. Rest(f)' = Rest(f)
    BY <1>3 DEF Rest, End
  <1>5. f.dir \in Claimed'
    BY <1>1, <1>2, GroupFacts DEF Claimed, IdxNone, Cells
  <1>6. ASSUME NEW c \in Rest(f) PROVE imem'[c].count = 0
    <2>1. /\ imem[f.dir].idx \in Nat /\ imem[f.dir].count \in Nat /\ f.next \in Nat
      BY <1>2 DEF MemInv, Inodes, Frames
    <2>2. c \in imem[f.dir].idx + f.next .. imem[f.dir].idx + imem[f.dir].count - 1
      BY <1>6, <2>1 DEF Rest, End
    <2>3. c \in Nat /\ imem[f.dir].count > 0 /\ c < imem[f.dir].idx + imem[f.dir].count
      BY <2>1, <2>2
    <2>4. f.dir \in OfType("dir")
      BY <1>2, <2>3 DEF OfType, FrameOK
    <2>5. imem[f.dir].idx + imem[f.dir].count <= inodes.free
      BY <2>4 DEF ArrayInv, End
    <2>6. c < inodes.free
      BY <1>1, <2>1, <2>3, <2>5
    <2>7. c \in Cells
      BY <1>1, <2>3, <2>6, CellFacts, CellsAre
    <2>8. imem[c].count = 0 /\ c # self
      BY <1>6 DEF FrameOK
    <2> QED BY <2>6, <2>7, <2>8 DEF OnlySelf
  <1> QED BY <1>3, <1>4, <1>5, <1>6 DEF FrameOK

LEMMA StackKept ==
  ASSUME MemInv, MemInv', ArrayInv, StackInv, SelfInv, OnlySelf, stack' = stack
  PROVE  \A i \in 1 .. Len(stack) : FrameOK(stack[i])' /\ Rest(stack[i])' = Rest(stack[i])
  <1> SUFFICES ASSUME NEW i \in 1 .. Len(stack)
               PROVE  FrameOK(stack[i])' /\ Rest(stack[i])' = Rest(stack[i])
    OBVIOUS
  <1>1. stack[i] \in Frames
    BY DEF MemInv
  <1>2. PICK f \in Frames : f = stack[i]
    BY <1>1
  <1>3. FrameOK(f) /\ f.dir < self /\ self \notin Rest(f) /\ self \in Claimed
    BY <1>2 DEF StackInv, SelfInv
  <1>4. FrameOK(f)' /\ Rest(f)' = Rest(f)
    BY <1>3, FrameKept
  <1> QED BY <1>2, <1>4

\* What is claimed of self's array by a step that leaves self a directory.
LastDir ==
  /\ imem'[self].ftype = "dir"
  /\ self < imem'[self].idx /\ imem'[self].idx + imem'[self].count = inodes'.free
  /\ \A d \in OfType("dir") \ {self} : End(d) <= imem'[self].idx
  /\ \A c \in imem'[self].idx .. imem'[self].idx + imem'[self].count - 1 : imem'[c].count = 0
LastReg ==
  /\ imem'[self].ftype = "reg"
  /\ imem'[self].idx + imem'[self].count = extents'.free
  /\ \A d \in OfType("reg") \ {self} : End(d) <= imem'[self].idx

LEMMA LastArrays ==
  ASSUME MemInv, MemInv', FreshInv, ArrayInv, OnlySelf, self \in Claimed, LastDir \/ LastReg
  PROVE  /\ ArrayInv' /\ FreshInv' /\ self \in Claimed'
         /\ \A t : \A d \in OfType(t)' : d # self =>
              d \in OfType(t) /\ End(d)' = End(d)
  <1>1. inodes'.free \in Nat /\ extents'.free \in Nat /\ inodes.free \in Nat
    BY CellFacts, NextCellFacts
  <1>2. ArrayInv'
    BY <1>1, ArraysKept DEF LastDir, LastReg
  <1>3. FreshInv'
    BY <1>1, CellsAre DEF FreshInv, OnlySelf
  <1>4. self \in Claimed'
    <2>1. rootIdx \in Cells /\ rootIdx' = rootIdx /\ inodes.free <= inodes'.free
      BY DEF ArrayInv, OnlySelf
    <2>2. self \in Nat /\ self < inodes.free /\ rootIdx <= self /\ rootIdx \in Nat
      BY <2>1, ClaimedCells, CellsAre
    <2> QED BY <1>1, <2>1, <2>2 DEF Claimed, IdxNone
  <1>5. \A t : \A d \in OfType(t)' : d # self => d \in OfType(t) /\ End(d)' = End(d)
    BY OthersKept DEF End
  <1> QED BY <1>2, <1>3, <1>4, <1>5

\* A step on the element at work that goes on with it.
LEMMA WorkStep ==
  ASSUME IndexInv, MemInv', OnlySelf, stack' = stack, self' = self, xpc \notin {"idle", "child"},
         \/ xpc' \in {"leaf", "extent", "dblock", "dentry"} /\ LastDir
         \/ xpc' = "node" /\ LastReg /\ stack # <<>>
  PROVE  IndexInv'
  <1>1. MemInv /\ FreshInv /\ ArrayInv /\ StackInv /\ SelfInv /\ self \in Claimed
    BY DEF IndexInv, TreeInv, SelfInv
  <1>2. /\ ArrayInv' /\ FreshInv' /\ self \in Claimed'
        /\ \A t : \A d \in OfType(t)' : d # self => d \in OfType(t) /\ End(d)' = End(d)
    BY <1>1, LastArrays
  <1>3. \A i \in 1 .. Len(stack) : FrameOK(stack[i])' /\ Rest(stack[i])' = Rest(stack[i])
    BY <1>1, StackKept
  <1>4. StackInv'
    BY <1>1, <1>3 DEF StackInv
  <1>5. SelfInv'
    <2>1. \A i \in 1 .. Len(stack') : stack'[i].dir < self' /\ self' \notin Rest(stack[i])'
      BY <1>1, <1>3 DEF SelfInv
    <2> QED BY <1>2, <2>1 DEF SelfInv, LastDir
  <1>6. FillInv'
    <2>1. End(self)' = imem'[self].idx + imem'[self].count
      BY DEF End
    <2>2. CASE xpc' \in {"leaf", "extent", "dblock", "dentry"} /\ LastDir
      <3>1. \A d \in OfType("dir")' \ {self} : End(d)' <= imem'[self].idx
        BY <1>2, <2>2 DEF LastDir
      <3>2. \A c \in imem'[self].idx .. End(self)' - 1 : imem'[c].count = 0
        <4>1. imem'[self].idx \in Nat /\ imem'[self].count \in Nat
          BY <1>1, NextCellFacts DEF MemInv
        <4>2. imem'[self].idx .. End(self)' - 1 = imem'[self].idx .. imem'[self].idx + imem'[self].count - 1
          BY <2>1, <4>1
        <4> QED BY <2>2, <4>2 DEF LastDir
      <3>3. /\ imem'[self].ftype = "dir" /\ self < imem'[self].idx /\ End(self)' = inodes'.free
        BY <2>1, <2>2 DEF LastDir
      <3>4. xpc' # "node"
        BY <2>2
      <3> QED BY <3>1, <3>2, <3>3, <3>4 DEF FillInv
    <2>3. CASE xpc' = "node" /\ LastReg
      <3>1. \A d \in OfType("reg")' \ {self} : End(d)' <= imem'[self].idx
        BY <1>2, <2>3 DEF LastReg
      <3> QED BY <2>1, <2>3, <3>1 DEF FillInv, Filling, LastReg
    <2> QED BY <2>2, <2>3
  <1>7. xpc' # "idle" /\ MemInv'
    OBVIOUS
  <1> QED BY <1>2, <1>4, <1>5, <1>6, <1>7 DEF IndexInv, TreeInv

\* A file is complete.
LEMMA FileStep ==
  ASSUME IndexInv, MemInv', OnlySelf, stack' = stack, xpc \notin {"idle", "child"},
         xpc' = "child", LastReg, stack # <<>>
  PROVE  IndexInv'
  <1>1. MemInv /\ FreshInv /\ ArrayInv /\ StackInv /\ SelfInv /\ self \in Claimed
    BY DEF IndexInv, TreeInv, SelfInv
  <1>2. ArrayInv' /\ FreshInv'
    BY <1>1, LastArrays
  <1>3. \A i \in 1 .. Len(stack) : FrameOK(stack[i])' /\ Rest(stack[i])' = Rest(stack[i])
    BY <1>1, StackKept
  <1>4. StackInv'
    BY <1>1, <1>3 DEF StackInv
  <1> QED BY <1>2, <1>4 DEF IndexInv, TreeInv, FillInv, Filling

\* A directory is complete: its children are next.
LEMMA DescendStep ==
  ASSUME IndexInv, MemInv', OnlySelf, xpc \notin {"idle", "child"}, Descend(self), LastDir
  PROVE  IndexInv'
  <1>1. MemInv /\ FreshInv /\ ArrayInv /\ StackInv /\ SelfInv /\ self \in Claimed
    BY DEF IndexInv, TreeInv, SelfInv
  <1>2. ArrayInv' /\ FreshInv' /\ self \in Claimed'
    BY <1>1, LastArrays
  <1>3. stack \in Seq(Frames) /\ self \in Cells
    BY <1>1 DEF MemInv
  <1>4. PICK new \in Frames : new = [dir |-> self, next |-> 0]
    BY <1>3 DEF Frames
  <1>5. /\ stack' = Append(stack, new) /\ xpc' = "child"
        /\ Len(stack') = Len(stack) + 1 /\ stack'[Len(stack) + 1] = new /\ Len(stack) \in Nat
        /\ \A i \in 1 .. Len(stack) : stack'[i] = stack[i]
    BY <1>3, <1>4 DEF Descend
  <1>6. ASSUME NEW i \in 1 .. Len(stack) PROVE FrameOK(stack[i])' /\ stack'[i].dir < new.dir
    <2>1. PICK f \in Frames : f = stack[i]
      BY <1>3
    <2>2. FrameOK(f) /\ f.dir < self /\ self \notin Rest(f)
      BY <1>1, <2>1 DEF StackInv, SelfInv
    <2>3. FrameOK(f)'
      BY <1>1, <2>2, FrameKept
    <2>4. stack'[i] = f
      BY <1>5, <2>1
    <2> QED BY <1>4, <2>2, <2>3, <2>4
  <1>7. FrameOK(new)'
    <2>1. Rest(new)' = imem'[self].idx .. imem'[self].idx + imem'[self].count - 1
      <3>1. Rest(new)' = imem'[self].idx + 0 .. imem'[self].idx + imem'[self].count - 1
        <4>1. new.dir = self /\ new.next = 0
          BY <1>4
        <4>2. Rest(new)' = imem'[new.dir].idx + new.next .. (imem'[new.dir].idx + imem'[new.dir].count) - 1
          BY DEF Rest, End
        <4>3. imem'[self].idx \in Nat /\ imem'[self].count \in Nat
          BY <1>3, NextCellFacts
        <4> QED BY <4>1, <4>2, <4>3
      <3> QED BY <1>3, <3>1, NextCellFacts
    <2> QED BY <1>2, <1>4, <2>1 DEF FrameOK, LastDir
  <1>8. \A i \in 1 .. Len(stack') : FrameOK(stack[i])'
    <2> SUFFICES ASSUME NEW i \in 1 .. Len(stack') PROVE FrameOK(stack[i])'
      OBVIOUS
    <2>1. CASE i \in 1 .. Len(stack)
      BY <1>6, <2>1
    <2>2. CASE i \notin 1 .. Len(stack)
      <3>1. stack'[i] = new
        BY <1>5, <2>2
      <3> QED BY <1>7, <3>1
    <2> QED BY <2>1, <2>2
  <1>9. \A i, j \in 1 .. Len(stack') : i < j => stack'[i].dir < stack'[j].dir
    <2> SUFFICES ASSUME NEW i \in 1 .. Len(stack'), NEW j \in 1 .. Len(stack'), i < j
                 PROVE  stack'[i].dir < stack'[j].dir
      OBVIOUS
    <2>1. i \in 1 .. Len(stack)
      BY <1>5
    <2>2. CASE j \in 1 .. Len(stack)
      BY <1>1, <1>5, <2>1, <2>2 DEF StackInv
    <2>3. CASE j \notin 1 .. Len(stack)
      <3>1. stack'[j] = new
        BY <1>5, <2>3
      <3> QED BY <1>6, <2>1, <3>1
    <2> QED BY <2>2, <2>3
  <1>10. stack' # <<>>
    BY <1>3, <1>5
  <1>11. StackInv'
    BY <1>8, <1>9, <1>10 DEF StackInv
  <1> QED BY <1>2, <1>5, <1>11 DEF IndexInv, TreeInv, FillInv, Filling
-----------------------------------------------------------------------------
\* What the images hold where the index reads them.
LEMMA DinodeRead ==
  ASSUME RetrieveInv, Known(imem[self].ino)
  PROVE  DinodeOK(Dinode(self))
  <1>1. dmap[imem[self].ino] \in 1 .. Len(dinodes)
    BY DEF RetrieveInv, Known
  <1>2. dinodes[dmap[imem[self].ino]] \in DOMAIN disk.dinode
    BY <1>1 DEF RetrieveInv
  <1> QED BY <1>2, IndexAssumption DEF RetrieveInv, Dinode

LEMMA BlockRead ==
  ASSUME RetrieveInv, NEW b, Readable(b)
  PROVE  BlockOK(disk.dev[b])
  BY IndexAssumption DEF RetrieveInv, Readable

-----------------------------------------------------------------------------
\* A step that reads the device or ends a loop and leaves the pools alone.
Quiet == UNCHANGED <<poolVars, rootIdx, calls>>

LEMMA QuietReturn ==
  ASSUME IndexInv, Quiet, NEW e \in {"EIO", "EINVAL", "ENOSYS"}, Return(e)
  PROVE  IndexInv'
  <1>1. e \in IndexErrors \ {"OK"}
    BY DEF IndexErrors, PoolErrors
  <1>2. /\ PoolIn(inodes)' /\ PoolIn(extents)' /\ imem' \in [Cells -> Inodes]
        /\ emem' \in [Cells -> Extents] /\ rootIdx' \in Cells \cup {IdxNone}
        /\ calls' \in 0 .. MaxCalls
    BY DEF IndexInv, MemInv, Quiet, poolVars, PoolIn
  <1>3. FreshInv'
    BY DEF IndexInv, FreshInv, Quiet, poolVars
  <1> QED BY <1>1, <1>2, <1>3, Returned

LEMMA QuietMem ==
  ASSUME IndexInv, Quiet, UNCHANGED <<self, xerr>>, stack' \in Seq(Frames), items' \in Seq(Items),
         xpc' \in {"leaf", "extent", "dblock", "dentry", "node", "child"}
  PROVE  MemInv'
  BY DEF IndexInv, MemInv, Quiet, poolVars, PoolIn

LEMMA QuietWork ==
  ASSUME IndexInv, Quiet, xpc \notin {"idle", "child", "ino"}
  PROVE  /\ OnlySelf /\ stack \in Seq(Frames) /\ items \in Seq(Items)
         /\ Filling => LastDir
         /\ xpc = "node" => LastReg /\ stack # <<>>
  <1>1. /\ MemInv /\ FreshInv /\ FillInv /\ SelfInv /\ self \in Cells
        /\ stack \in Seq(Frames) /\ items \in Seq(Items)
    BY DEF IndexInv, TreeInv, MemInv
  <1>2. /\ inodes.free \in Nat /\ extents.free \in Nat
        /\ imem[self].idx \in Nat /\ imem[self].count \in Nat
    BY <1>1, CellFacts
  <1>3. UNCHANGED <<inodes, extents, imem, rootIdx>>
    BY DEF Quiet, poolVars
  <1>4. OnlySelf
    BY <1>1, <1>2, <1>3 DEF OnlySelf, FreshInv
  <1>5. End(self) = imem[self].idx + imem[self].count
    BY DEF End
  <1>6. ASSUME Filling PROVE LastDir
    <2>1. imem[self].idx .. End(self) - 1 = imem[self].idx .. imem[self].idx + imem[self].count - 1
      BY <1>2, <1>5
    <2> QED BY <1>1, <1>3, <1>5, <1>6, <2>1 DEF LastDir, FillInv
  <1>7. ASSUME xpc = "node" PROVE LastReg /\ stack # <<>>
    BY <1>1, <1>3, <1>5, <1>7 DEF LastReg, FillInv, SelfInv
  <1> QED BY <1>1, <1>4, <1>6, <1>7

LEMMA QuietStep ==
  ASSUME RetrieveInv, IndexInv, calls' = calls,
         \/ Unsupported \/ DirLeaf \/ DirExtent \/ DirExtentsDone \/ DirLeavesDone
         \/ DirBlock \/ DirBlocksDone \/ DentriesDone \/ FileNode \/ FileDone
  PROVE  IndexInv'
  <1>1. Quiet
    BY DEF Quiet, Unsupported, DirLeaf, DirExtent, DirExtentsDone, DirLeavesDone,
           DirBlock, DirBlocksDone, DentriesDone, FileNode, FileDone
  <1>2. <<>> \in Seq(Items)
    BY EmptySeq
  <1>3. CASE \E e \in {"EIO", "EINVAL", "ENOSYS"} : Return(e)
    BY <1>1, <1>3, QuietReturn
  <1>4. ASSUME Filling, Descend(self), UNCHANGED <<self, xerr, items>> PROVE IndexInv'
    <2>1. /\ OnlySelf /\ LastDir /\ stack \in Seq(Frames) /\ items \in Seq(Items) /\ self \in Cells
      BY <1>1, <1>4, QuietWork DEF Filling, IndexInv, MemInv
    <2>2. [dir |-> self, next |-> 0] \in Frames
      BY <2>1 DEF Frames
    <2>3. stack' \in Seq(Frames) /\ xpc' = "child"
      BY <1>4, <2>1, <2>2 DEF Descend
    <2>4. MemInv'
      BY <1>1, <1>4, <2>1, <2>3, QuietMem
    <2> QED BY <1>4, <2>1, <2>4, DescendStep DEF Filling
  <1>5. ASSUME Filling, Filling', UNCHANGED <<self, stack, xerr>>, items' \in Seq(Items)
        PROVE  IndexInv'
    <2>1. /\ OnlySelf /\ LastDir /\ stack \in Seq(Frames)
      BY <1>1, <1>5, QuietWork DEF Filling
    <2>2. MemInv'
      BY <1>1, <1>5, <2>1, QuietMem DEF Filling
    <2> QED BY <1>5, <2>1, <2>2, WorkStep DEF Filling
  <1>6. ASSUME xpc = "node", xpc' \in {"node", "child"}, UNCHANGED <<self, stack, xerr, items>>
        PROVE  IndexInv'
    <2>1. /\ OnlySelf /\ LastReg /\ stack # <<>> /\ stack \in Seq(Frames) /\ items \in Seq(Items)
      BY <1>1, <1>6, QuietWork
    <2>2. MemInv'
      BY <1>1, <1>6, <2>1, QuietMem
    <2>3. CASE xpc' = "node"
      BY <1>6, <2>1, <2>2, <2>3, WorkStep
    <2>4. CASE xpc' = "child"
      BY <1>6, <2>1, <2>2, <2>4, FileStep
    <2> QED BY <1>6, <2>3, <2>4
  <1>7. items \in Seq(Items)
    BY DEF IndexInv, MemInv
  <1>8. CASE Unsupported
    BY <1>3, <1>8 DEF Unsupported
  <1>9. CASE DirLeaf
    BY <1>3, <1>5, <1>7, <1>9 DEF DirLeaf, Filling
  <1>10. CASE DirExtent
    BY <1>5, <1>7, <1>10 DEF DirExtent, Filling
  <1>11. CASE DirExtentsDone
    BY <1>4, <1>5, <1>7, <1>11 DEF DirExtentsDone, Filling
  <1>12. CASE DirLeavesDone
    BY <1>4, <1>12 DEF DirLeavesDone, Filling, workVars
  <1>13. CASE DirBlock
    <2>1. CASE xpc' = "dentry" /\ UNCHANGED <<self, stack, xerr>>
      <3>1. PICK b : Readable(b) /\ disk.dev[b].magic \in {"XDB3", "XDD3"} /\ items' = disk.dev[b].items
        BY <1>13, <2>1 DEF DirBlock, Return
      <3>2. items' \in Seq(Items)
        BY <3>1, BlockRead DEF BlockOK, Items
      <3> QED BY <1>5, <1>13, <2>1, <3>2 DEF DirBlock, Filling
    <2>2. CASE ~(xpc' = "dentry" /\ UNCHANGED <<self, stack, xerr>>)
      BY <1>3, <1>5, <1>7, <1>13, <2>2 DEF DirBlock, Filling
    <2> QED BY <2>1, <2>2
  <1>14. CASE DirBlocksDone
    BY <1>5, <1>7, <1>14 DEF DirBlocksDone, Filling, workVars
  <1>15. CASE DentriesDone
    BY <1>2, <1>5, <1>15 DEF DentriesDone, Filling
  <1>16. CASE FileNode
    BY <1>3, <1>6, <1>16 DEF FileNode
  <1>17. CASE FileDone
    BY <1>6, <1>17 DEF FileDone, workVars
  <1> QED BY <1>8, <1>9, <1>10, <1>11, <1>12, <1>13, <1>14, <1>15, <1>16, <1>17
-----------------------------------------------------------------------------
\* The element at work is claimed, and the array it is to get begins behind
\* all others.
LEMMA AtWork ==
  ASSUME IndexInv, xpc \notin {"idle", "child"}
  PROVE  /\ MemInv /\ FreshInv /\ ArrayInv /\ StackInv /\ SelfInv /\ FillInv
         /\ self \in Cells /\ self \in Nat /\ self < inodes.free /\ inodes.free \in Nat
         /\ extents.free \in Nat /\ imem[self].idx \in Nat /\ imem[self].count \in Nat
         /\ imem \in [Cells -> Inodes] /\ imem[self] \in Inodes
         /\ \A d \in OfType("dir") : End(d) <= inodes.free
         /\ \A d \in OfType("reg") : End(d) <= extents.free
         /\ stack \in Seq(Frames) /\ items \in Seq(Items)
  <1>1. MemInv /\ FreshInv /\ ArrayInv /\ StackInv /\ SelfInv /\ FillInv /\ self \in Claimed
    BY DEF IndexInv, TreeInv, SelfInv
  <1>2. self \in Cells /\ self \in Nat /\ self < inodes.free
    BY <1>1, ClaimedCells DEF ArrayInv
  <1>3. /\ inodes.free \in Nat /\ extents.free \in Nat /\ imem[self].idx \in Nat
        /\ imem[self].count \in Nat
    BY <1>1, <1>2, CellFacts
  <1>4. imem \in [Cells -> Inodes] /\ stack \in Seq(Frames) /\ items \in Seq(Items)
    BY <1>1 DEF MemInv
  <1>5. imem[self] \in Inodes
    BY <1>2, <1>4
  <1> QED BY <1>1, <1>2, <1>3, <1>4, <1>5 DEF ArrayInv

\* Only the fields of self change.
LEMMA SelfWritten ==
  ASSUME IndexInv, xpc \notin {"idle", "child"}, UNCHANGED <<inodes, rootIdx>>,
         extents.free <= extents'.free, NEW new \in Inodes, imem' = [imem EXCEPT ![self] = new]
  PROVE  OnlySelf /\ FreshInv' /\ imem' \in [Cells -> Inodes] /\ imem'[self] = new
  <1>1. imem' \in [Cells -> Inodes] /\ imem'[self] = new /\ \A c \in Cells \ {self} : imem'[c] = imem[c]
    BY AtWork
  <1>2. \A c \in Cells : c >= inodes.free => c # self
    BY AtWork, CellsAre
  <1>3. \A c \in Cells : c >= inodes.free => imem'[c].count = 0
    BY <1>1, <1>2, AtWork DEF FreshInv
  <1> QED BY <1>1, <1>3, AtWork DEF OnlySelf, FreshInv

\* A directory in extent or B+tree form: its array begins at the end of the
\* pool.  A file in B+tree form likewise.
LEMMA DirOpened ==
  ASSUME RetrieveInv, IndexInv, calls' = calls, DirExtents \/ DirBtree
  PROVE  IndexInv'
  <1>1. /\ xpc = "ino" /\ UNCHANGED <<inodes, extents, emem, rootIdx, calls>>
        /\ imem' = [imem EXCEPT ![self].ftype = "dir", ![self].idx = FirstChild]
        /\ \/ Return("EINVAL")
           \/ xpc' \in {"extent", "leaf"} /\ UNCHANGED <<self, stack, items, xerr>>
    BY DEF DirExtents, DirBtree, Form
  <1>2. PICK new : new = [imem[self] EXCEPT !.ftype = "dir", !.idx = inodes.free]
    OBVIOUS
  <1>3. /\ new \in Inodes /\ new.ftype = "dir" /\ new.idx = inodes.free /\ new.count = imem[self].count
    BY <1>1, <1>2, AtWork DEF Inodes, Ftypes
  <1>4. imem' = [imem EXCEPT ![self] = new]
    BY <1>1, <1>2, AtWork DEF FirstChild
  <1>5. extents.free <= extents'.free
    BY <1>1, AtWork
  <1>6. OnlySelf /\ FreshInv' /\ imem' \in [Cells -> Inodes] /\ imem'[self] = new
    BY <1>1, <1>3, <1>4, <1>5, SelfWritten
  <1>7. new.count = 0
    BY <1>1, <1>3, AtWork DEF SelfInv
  <1>8. LastDir
    <2>1. /\ self < inodes.free /\ inodes.free \in Nat /\ inodes' = inodes
          /\ \A d \in OfType("dir") \ {self} : End(d) <= inodes.free
      BY <1>1, AtWork
    <2>2. /\ imem'[self].idx = inodes.free /\ imem'[self].count = 0 /\ imem'[self].ftype = "dir"
      BY <1>3, <1>6, <1>7
    <2>3. imem'[self].idx .. imem'[self].idx + imem'[self].count - 1 = {}
      BY <2>1, <2>2
    <2>4. imem'[self].idx + imem'[self].count = inodes'.free
      BY <2>1, <2>2
    <2> QED BY <2>1, <2>2, <2>3, <2>4 DEF LastDir
  <1>9. /\ PoolIn(inodes)' /\ PoolIn(extents)' /\ emem' \in [Cells -> Extents]
        /\ rootIdx' \in Cells \cup {IdxNone} /\ calls' \in 0 .. MaxCalls
    BY <1>1 DEF IndexInv, MemInv, PoolIn
  <1>10. CASE Return("EINVAL")
    <2>1. "EINVAL" \in IndexErrors \ {"OK"}
      BY DEF IndexErrors, PoolErrors
    <2> QED BY <1>6, <1>9, <1>10, <2>1, Returned
  <1>11. CASE xpc' \in {"extent", "leaf"} /\ UNCHANGED <<self, stack, items, xerr>>
    <2>1. MemInv'
      BY <1>6, <1>9, <1>11 DEF MemInv, IndexInv
    <2> QED BY <1>1, <1>6, <1>8, <1>11, <2>1, WorkStep
  <1> QED BY <1>1, <1>10, <1>11

\* A file is never the root.
LEMMA FileBelow ==
  ASSUME IndexInv, xpc = "ino", Ftype(self) = "reg"
  PROVE  stack # <<>>
  BY AtWork DEF SelfInv, Ftype

LEMMA FileOpened ==
  ASSUME RetrieveInv, IndexInv, calls' = calls, FileBtree
  PROVE  IndexInv'
  <1>1. /\ xpc = "ino" /\ UNCHANGED <<inodes, extents, emem, rootIdx, calls>> /\ Ftype(self) = "reg"
    BY DEF FileBtree, Form
  <1>2. \/ imem' = [imem EXCEPT ![self].ftype = "reg"] /\ Return("EINVAL")
        \/ /\ imem' = [imem EXCEPT ![self].ftype = "reg", ![self].idx = extents.free]
           /\ xpc' = "node" /\ UNCHANGED <<self, stack, items, xerr>>
    BY DEF FileBtree
  <1>3. extents.free <= extents'.free
    BY <1>1, AtWork
  <1>4. /\ PoolIn(inodes)' /\ PoolIn(extents)' /\ emem' \in [Cells -> Extents]
        /\ rootIdx' \in Cells \cup {IdxNone} /\ calls' \in 0 .. MaxCalls
    BY <1>1 DEF IndexInv, MemInv, PoolIn
  <1>5. CASE imem' = [imem EXCEPT ![self].ftype = "reg"] /\ Return("EINVAL")
    <2>1. PICK new : new = [imem[self] EXCEPT !.ftype = "reg"]
      OBVIOUS
    <2>2. new \in Inodes
      BY <1>1, <2>1, AtWork DEF Inodes, Ftypes
    <2>3. imem' = [imem EXCEPT ![self] = new]
      BY <1>1, <1>5, <2>1, AtWork
    <2>4. FreshInv' /\ imem' \in [Cells -> Inodes]
      BY <1>1, <1>3, <2>2, <2>3, SelfWritten
    <2>5. "EINVAL" \in IndexErrors \ {"OK"}
      BY DEF IndexErrors, PoolErrors
    <2> QED BY <1>4, <1>5, <2>4, <2>5, Returned
  <1>6. CASE /\ imem' = [imem EXCEPT ![self].ftype = "reg", ![self].idx = extents.free]
             /\ xpc' = "node" /\ UNCHANGED <<self, stack, items, xerr>>
    <2>1. PICK new : new = [imem[self] EXCEPT !.ftype = "reg", !.idx = extents.free]
      OBVIOUS
    <2>2. /\ new \in Inodes /\ new.ftype = "reg" /\ new.idx = extents.free /\ new.count = imem[self].count
      BY <1>1, <2>1, AtWork DEF Inodes, Ftypes
    <2>3. imem' = [imem EXCEPT ![self] = new]
      BY <1>1, <1>6, <2>1, AtWork
    <2>4. OnlySelf /\ FreshInv' /\ imem' \in [Cells -> Inodes] /\ imem'[self] = new
      BY <1>1, <1>3, <2>2, <2>3, SelfWritten
    <2>5. new.count = 0
      BY <1>1, <2>2, AtWork DEF SelfInv
    <2>6. LastReg
      BY <1>1, <2>2, <2>4, <2>5, AtWork DEF LastReg
    <2>7. MemInv'
      BY <1>4, <1>6, <2>4 DEF MemInv, IndexInv
    <2>8. stack # <<>>
      BY <1>1, FileBelow
    <2> QED BY <1>1, <1>6, <2>4, <2>6, <2>7, <2>8, WorkStep
  <1> QED BY <1>2, <1>5, <1>6
\* An inode in an unknown format gets no contents, be it the root or a child.
LEMMA PassedOver ==
  ASSUME RetrieveInv, IndexInv, calls' = calls, UnknownFormat
  PROVE  IndexInv'
  <1>1. /\ xpc = "ino" /\ UNCHANGED <<inodes, extents, emem, rootIdx, calls>>
        /\ imem' = [imem EXCEPT ![self].ftype = Ftype(self)]
        /\ imem[self].ftype # "none" \/ Dinode(self).mode \in {"dir", "reg"}
        /\ \/ Return("OK")
           \/ stack # <<>> /\ xpc' = "child" /\ UNCHANGED <<self, stack, items, xerr>>
    BY DEF UnknownFormat, workVars
  <1>2. PICK new : new = [imem[self] EXCEPT !.ftype = Ftype(self)]
    OBVIOUS
  <1>3. Ftype(self) \in Ftypes
    BY <1>1, AtWork DEF Ftype, Inodes, Ftypes
  <1>4. new \in Inodes /\ new.count = imem[self].count
    BY <1>1, <1>2, <1>3, AtWork DEF Inodes
  <1>5. imem' = [imem EXCEPT ![self] = new]
    BY <1>1, <1>2, AtWork
  <1>6. extents.free <= extents'.free
    BY <1>1, AtWork
  <1>7. OnlySelf /\ FreshInv' /\ imem' \in [Cells -> Inodes] /\ imem'[self] = new
    BY <1>1, <1>4, <1>5, <1>6, SelfWritten
  <1>8. imem'[self].count = 0
    BY <1>1, <1>4, <1>7, AtWork DEF SelfInv
  <1>9. /\ PoolIn(inodes)' /\ PoolIn(extents)' /\ emem' \in [Cells -> Extents]
        /\ rootIdx' \in Cells \cup {IdxNone} /\ calls' \in 0 .. MaxCalls
    BY <1>1 DEF IndexInv, MemInv, PoolIn
  <1>10. MemInv'
    <2>1. CASE Return("OK")
      <3>1. "OK" \in IndexErrors /\ <<>> \in Seq(Items) /\ <<>> \in Seq(Frames) /\ 0 \in Cells
        BY EmptySeq, GroupFacts DEF IndexErrors, PoolErrors
      <3> QED BY <1>7, <1>9, <2>1, <3>1 DEF MemInv, Return
    <2>2. CASE xpc' = "child" /\ UNCHANGED <<self, stack, items, xerr>>
      BY <1>7, <1>9, <2>2 DEF MemInv, IndexInv
    <2> QED BY <1>1, <2>1, <2>2
  <1>11. ArrayInv'
    BY <1>1, <1>7, <1>8, <1>10, AtWork, ArraysKept DEF SelfInv
  <1>12. CASE Return("OK")
    BY <1>7, <1>10, <1>11, <1>12 DEF Return, IndexInv, TreeInv, FillInv, Filling
  <1>13. CASE stack # <<>> /\ xpc' = "child" /\ UNCHANGED <<self, stack, items, xerr>>
    <2>1. \A i \in 1 .. Len(stack) : FrameOK(stack[i])' /\ Rest(stack[i])' = Rest(stack[i])
      BY <1>1, <1>7, <1>10, <1>13, AtWork, StackKept
    <2>2. StackInv'
      BY <1>1, <1>13, <2>1, AtWork DEF StackInv
    <2> QED BY <1>7, <1>10, <1>11, <1>13, <2>2 DEF IndexInv, TreeInv, FillInv, Filling
  <1> QED BY <1>1, <1>12, <1>13
-----------------------------------------------------------------------------
\* Claiming inodes: what was handed out stays, what is handed out is empty.
LEMMA InodesClaimed ==
  ASSUME ~BeyondMapped, MemInv, FreshInv, NEW n \in Nat, NEW ok \in BOOLEAN,
         mprotect(inodes, inodes.allocated + inodes.growby, ok),
         NEW r, r = xal_pool_claim_inodes(inodes, n, ok),
         NEW m, m = Zeroed(imem, inodes, n, ok, ZeroInode)
  PROVE  /\ PoolIn(r.pool) /\ r.err \in PoolErrors /\ inodes.free <= r.pool.free
         /\ r.pool.free = IF r.err = "OK" THEN inodes.free + n ELSE inodes.free
         /\ m \in [Cells -> Inodes]
         /\ \A c \in Cells : c < inodes.free => m[c] = imem[c]
         /\ \A c \in Cells : c >= inodes.free => m[c].count = 0
  <1>1. PoolIn(inodes) /\ imem \in [Cells -> Inodes] /\ ZeroInode \in Inodes /\ inodes.free \in Nat
    BY Zeroes, CellFacts DEF MemInv
  <1>2. ClaimOutcome(inodes, n, ok, r.err, r.pool)
    BY <1>1, ClaimInodesOutcome DEF PoolIn
  <1>3. /\ PoolIn(r.pool) /\ r.err \in PoolErrors /\ inodes.free <= r.pool.free
        /\ r.pool.free = IF r.err = "OK" THEN inodes.free + n ELSE inodes.free
    BY <1>1, <1>2, PoolClaimed
  <1>4. m \in [Cells -> Inodes] /\ ZeroedFrom(m, imem, inodes.free, ZeroInode)
    BY <1>1, ZeroedMemory
  <1>5. \A c \in Cells : c < inodes.free => m[c] = imem[c]
    BY <1>1, <1>4, CellsAre DEF ZeroedFrom
  <1>6. \A c \in Cells : c >= inodes.free => m[c].count = 0
    BY <1>4 DEF ZeroedFrom, FreshInv, ZeroInode
  <1> QED BY <1>3, <1>4, <1>5, <1>6

\* A claim that fails: nothing but self's own fields has changed.
LEMMA ClaimFailed ==
  ASSUME IndexInv, xpc \notin {"idle", "child"}, UNCHANGED <<rootIdx, calls>>,
         NEW e \in PoolErrors \ {"OK"}, Return(e), PoolIn(inodes)', PoolIn(extents)',
         inodes'.free = inodes.free, emem' \in [Cells -> Extents],
         imem' \in [Cells -> Inodes], \A c \in Cells : c >= inodes.free => imem'[c].count = 0
  PROVE  IndexInv'
  <1>1. e \in IndexErrors \ {"OK"}
    BY DEF IndexErrors
  <1>2. FreshInv'
    BY DEF FreshInv
  <1>3. rootIdx' \in Cells \cup {IdxNone} /\ calls' \in 0 .. MaxCalls
    BY DEF IndexInv, MemInv
  <1> QED BY <1>1, <1>2, <1>3, Returned

\* An entry of a directory block.
LEMMA DentryStep ==
  ASSUME ~BeyondMapped, RetrieveInv, IndexInv, calls' = calls, Dentry
  PROVE  IndexInv'
  <1>1. /\ xpc = "dentry" /\ items # <<>> /\ UNCHANGED <<retrieveVars, extents, emem, rootIdx>>
    BY DEF Dentry, EndOfBlock
  <1>2. /\ MemInv /\ FreshInv /\ FillInv /\ self \in Cells /\ self \in Nat /\ self < inodes.free
        /\ inodes.free \in Nat /\ extents.free \in Nat /\ imem[self].idx \in Nat
        /\ imem[self].count \in Nat /\ items \in Seq(Items) /\ stack \in Seq(Frames)
    BY <1>1, AtWork
  <1>3. Head(items) \in Items /\ Tail(items) \in Seq(Items)
    BY <1>1, <1>2, HeadTailProperties
  <1>4. /\ PoolIn(extents)' /\ emem' \in [Cells -> Extents] /\ extents.free <= extents'.free
        /\ rootIdx' \in Cells \cup {IdxNone} /\ calls' \in 0 .. MaxCalls /\ PoolIn(inodes)
        /\ xerr \in IndexErrors
    BY <1>1, <1>2 DEF MemInv, PoolIn
  <1>5. /\ imem[self].ftype = "dir" /\ self < imem[self].idx
        /\ imem[self].idx + imem[self].count = inodes.free
        /\ \A d \in OfType("dir") \ {self} : End(d) <= imem[self].idx
        /\ \A c \in imem[self].idx .. (imem[self].idx + imem[self].count) - 1 : imem[c].count = 0
    BY <1>1, <1>2 DEF FillInv, Filling, End
  <1>6. CASE Head(items).kind = "dots"
    <2>1. /\ items' = Tail(items) /\ UNCHANGED <<inodes, imem, xpc, self, stack, xerr>>
      BY <1>6 DEF Dentry
    <2>2. Quiet
      BY <1>1, <2>1 DEF Quiet, poolVars
    <2>3. OnlySelf /\ LastDir
      BY <1>1, <2>2, QuietWork DEF Filling
    <2>4. MemInv'
      BY <1>1, <1>2, <1>3, <2>1, <2>2, QuietMem
    <2> QED BY <1>1, <2>1, <2>3, <2>4, WorkStep
  <1>7. CASE Head(items).kind # "dots"
    <2>1. PICK ok \in BOOLEAN :
            LET r == xal_pool_claim_inodes(inodes, 1, ok)
                m == Zeroed(imem, inodes, 1, ok, ZeroInode)
            IN /\ mprotect(inodes, inodes.allocated + inodes.growby, ok)
               /\ inodes' = r.pool
               /\ IF r.err = "OK"
                    THEN /\ imem' = [m EXCEPT
                              ![inodes.free] = [decode_dentry(Head(items)) EXCEPT !.parent = self],
                              ![self].count = @ + 1]
                         /\ items' = Tail(items)
                         /\ UNCHANGED <<xpc, self, stack, ptrs, recs, nleft, blks, xerr>>
                    ELSE imem' = m /\ Return(r.err)
      BY <1>7 DEF Dentry
    <2>2. PICK r : r = xal_pool_claim_inodes(inodes, 1, ok)
      OBVIOUS
    <2>3. PICK m : m = Zeroed(imem, inodes, 1, ok, ZeroInode)
      OBVIOUS
    <2>4. /\ PoolIn(r.pool) /\ r.err \in PoolErrors /\ inodes.free <= r.pool.free
          /\ r.pool.free = IF r.err = "OK" THEN inodes.free + 1 ELSE inodes.free
          /\ m \in [Cells -> Inodes]
          /\ \A c \in Cells : c < inodes.free => m[c] = imem[c]
          /\ \A c \in Cells : c >= inodes.free => m[c].count = 0
      <3>1. mprotect(inodes, inodes.allocated + inodes.growby, ok)
        BY <2>1
      <3>2. MemInv /\ FreshInv /\ 1 \in Nat
        BY <1>2
      <3> QED BY <2>2, <2>3, <3>1, <3>2, InodesClaimed
    <2>5. inodes' = r.pool
      BY <2>1, <2>2
    <2>6. CASE r.err # "OK"
      <3>1. imem' = m /\ Return(r.err)
        BY <2>1, <2>2, <2>3, <2>6
      <3> QED BY <1>1, <1>4, <2>4, <2>5, <2>6, <3>1, ClaimFailed
    <2>7. CASE r.err = "OK"
      <3>1. PICK new : new = [decode_dentry(Head(items)) EXCEPT !.parent = self]
        OBVIOUS
      <3>2. new \in Inodes /\ new.count = 0
        <4>1. PICK it \in Items : it = Head(items)
          BY <1>3
        <4>2. decode_dentry(it) \in Inodes /\ decode_dentry(it).count = 0
          BY Zeroes DEF decode_dentry, ZeroInode, Inodes, Items
        <4> QED BY <1>2, <3>1, <4>1, <4>2 DEF Inodes
      <3>3. /\ imem' = [m EXCEPT ![inodes.free] = new, ![self].count = @ + 1]
            /\ items' = Tail(items) /\ UNCHANGED <<xpc, self, stack, xerr>>
        BY <2>1, <2>2, <2>3, <2>7, <3>1
      <3>4. PICK one : one = [m[self] EXCEPT !.count = @ + 1]
        OBVIOUS
      <3>5. m[self] = imem[self] /\ imem[self] \in Inodes
        BY <1>1, <1>2, <2>4, AtWork
      <3>6. /\ one \in Inodes /\ one.count = imem[self].count + 1 /\ one.idx = imem[self].idx
            /\ one.ftype = "dir"
        <4>1. PICK x \in Inodes : x = imem[self]
          BY <3>5
        <4>2. one = [x EXCEPT !.count = x.count + 1]
          BY <3>4, <3>5, <4>1
        <4>3. x.count + 1 \in Nat
          BY <1>2, <4>1
        <4>4. one \in Inodes /\ one.count = x.count + 1 /\ one.idx = x.idx /\ one.ftype = x.ftype
          BY <4>2, <4>3 DEF Inodes
        <4> QED BY <1>5, <4>1, <4>4
      <3>7. inodes.free \in Cells /\ inodes.free # self /\ r.pool.free = inodes.free + 1
        BY <1>2, <2>4, <2>7, InReserve, CellsAre
      <3>8. /\ imem' \in [Cells -> Inodes] /\ imem'[inodes.free] = new /\ imem'[self] = one
            /\ \A c \in Cells \ {self, inodes.free} : imem'[c] = m[c]
        BY <1>2, <2>4, <3>2, <3>3, <3>4, <3>6, <3>7
      <3>9. \A c \in Cells : c >= inodes.free => imem'[c].count = 0
        BY <1>2, <2>4, <3>2, <3>8, CellsAre
      <3>10. ASSUME NEW c \in Cells \ {self}, c < inodes.free PROVE imem'[c] = imem[c]
        <4>1. c # inodes.free /\ m[c] = imem[c]
          BY <1>2, <2>4, <3>10, CellsAre
        <4> QED BY <3>8, <3>10, <4>1
      <3>11. OnlySelf
        BY <1>1, <1>4, <2>4, <2>5, <3>9, <3>10 DEF OnlySelf
      <3>12. MemInv'
        BY <1>2, <1>3, <1>4, <2>4, <2>5, <3>3, <3>8 DEF MemInv
      <3>13. LastDir
        <4>1. ASSUME NEW c \in imem'[self].idx .. imem'[self].idx + imem'[self].count - 1
              PROVE  imem'[c].count = 0
          <5>1. c \in Nat /\ imem[self].idx <= c /\ c <= inodes.free
            BY <1>2, <1>5, <3>6, <3>8, <4>1
          <5>2. c \in Cells
            BY <1>2, <3>7, <5>1, CellsAre
          <5>3. CASE c = inodes.free
            BY <3>2, <3>8, <5>3
          <5>4. CASE c # inodes.free
            <6>1. c \in imem[self].idx .. (imem[self].idx + imem[self].count) - 1 /\ c # self /\ c < inodes.free
              BY <1>2, <1>5, <5>1, <5>4
            <6> QED BY <1>5, <3>10, <5>2, <6>1
          <5> QED BY <5>3, <5>4
        <4>2. imem'[self].idx + imem'[self].count = inodes'.free
          <5>1. /\ imem'[self].idx = imem[self].idx /\ imem'[self].count = imem[self].count + 1
                /\ inodes'.free = inodes.free + 1
            BY <2>5, <3>6, <3>7, <3>8
          <5>2. /\ imem[self].idx \in Nat /\ imem[self].count \in Nat
                /\ imem[self].idx + imem[self].count = inodes.free
            BY <1>2, <1>5
          <5>3. \A a, b \in Nat : a + (b + 1) = (a + b) + 1
            OBVIOUS
          <5> QED BY <5>1, <5>2, <5>3
        <4> QED BY <1>5, <3>6, <3>8, <4>1, <4>2 DEF LastDir
      <3> QED BY <1>1, <3>3, <3>11, <3>12, <3>13, WorkStep
    <2> QED BY <2>6, <2>7
  <1> QED BY <1>6, <1>7

\* A directory in short form: all of its entries in one claim.
LEMMA LocalStep ==
  ASSUME ~BeyondMapped, RetrieveInv, IndexInv, calls' = calls, DirLocal
  PROVE  IndexInv'
  <1>1. /\ xpc = "ino" /\ Known(imem[self].ino) /\ Dinode(self).fmt = "local"
        /\ UNCHANGED <<retrieveVars, extents, emem, rootIdx>>
    BY DEF DirLocal, Form
  <1>2. /\ MemInv /\ FreshInv /\ self \in Cells /\ self \in Nat /\ self < inodes.free
        /\ inodes.free \in Nat /\ extents.free \in Nat /\ imem \in [Cells -> Inodes]
        /\ imem[self] \in Inodes /\ items \in Seq(Items) /\ stack \in Seq(Frames)
        /\ \A d \in OfType("dir") : End(d) <= inodes.free
    BY <1>1, AtWork
  <1>3. /\ PoolIn(extents)' /\ emem' \in [Cells -> Extents] /\ extents.free <= extents'.free
        /\ rootIdx' \in Cells \cup {IdxNone} /\ calls' \in 0 .. MaxCalls /\ xerr \in IndexErrors
    BY <1>1, <1>2 DEF MemInv, PoolIn
  <1> DEFINE d == Dinode(self)
             n == Len(d.ents)
  <1>4. d.ents \in Seq(Ents)
    BY <1>1, DinodeRead DEF DinodeOK, Ents
  <1> HIDE DEF d
  <1>5. n \in Nat
    BY <1>4
  <1>6. \A k \in 1 .. n : ShortFormIno(d, k) \in Nat /\ d.ents[k].ftype \in Ftypes
    <2> SUFFICES ASSUME NEW k \in 1 .. n PROVE ShortFormIno(d, k) \in Nat /\ d.ents[k].ftype \in Ftypes
      OBVIOUS
    <2>1. d.ents[k] \in Ents
      BY <1>4, <1>5
    <2> QED BY <2>1, IndexAssumption DEF ShortFormIno, Ents
  <1> HIDE DEF n
  <1>7. PICK ok \in BOOLEAN :
          LET r == xal_pool_claim_inodes(inodes, n, ok)
              m == [Zeroed(imem, inodes, n, ok, ZeroInode) EXCEPT
                      ![self].ftype = "dir", ![self].count = n]
          IN /\ mprotect(inodes, inodes.allocated + inodes.growby, ok)
             /\ inodes' = r.pool
             /\ IF r.err = "OK"
                  THEN /\ imem' = [c \in Cells |->
                            IF c \in inodes.free .. inodes.free + n - 1
                              THEN LET k == c - inodes.free + 1 IN
                                   [m[c] EXCEPT !.ino = ShortFormIno(d, k),
                                                !.ftype = d.ents[k].ftype]
                              ELSE IF c = self THEN [m[c] EXCEPT !.idx = inodes.free]
                              ELSE m[c]]
                       /\ Descend(self)
                       /\ UNCHANGED <<self, workVars, xerr>>
                  ELSE /\ imem' = m
                       /\ Return(r.err)
    BY DEF DirLocal, d, n
  <1>8. PICK r : r = xal_pool_claim_inodes(inodes, n, ok)
    OBVIOUS
  <1>9. PICK z : z = Zeroed(imem, inodes, n, ok, ZeroInode)
    OBVIOUS
  <1>10. /\ PoolIn(r.pool) /\ r.err \in PoolErrors /\ inodes.free <= r.pool.free
         /\ r.pool.free = IF r.err = "OK" THEN inodes.free + n ELSE inodes.free
         /\ z \in [Cells -> Inodes]
         /\ \A c \in Cells : c < inodes.free => z[c] = imem[c]
         /\ \A c \in Cells : c >= inodes.free => z[c].count = 0
    <2>1. mprotect(inodes, inodes.allocated + inodes.growby, ok)
      BY <1>7
    <2>2. MemInv /\ FreshInv
      BY <1>2
    <2> QED BY <1>5, <1>8, <1>9, <2>1, <2>2, InodesClaimed
  <1>11. PICK dir : dir = [imem[self] EXCEPT !.ftype = "dir", !.count = n]
    OBVIOUS
  <1>12. dir \in Inodes /\ dir.ftype = "dir" /\ dir.count = n
    BY <1>2, <1>5, <1>11 DEF Inodes, Ftypes
  <1>13. PICK m : m = [z EXCEPT ![self].ftype = "dir", ![self].count = n]
    OBVIOUS
  <1>14. m = [z EXCEPT ![self] = dir]
    BY <1>2, <1>10, <1>11, <1>13
  <1>15. /\ m \in [Cells -> Inodes] /\ m[self] = dir /\ \A c \in Cells \ {self} : m[c] = z[c]
         /\ \A c \in Cells : c >= inodes.free => c # self
    BY <1>2, <1>10, <1>12, <1>14, CellsAre
  <1>16. \A c \in Cells : c >= inodes.free => m[c].count = 0
    BY <1>10, <1>15
  <1>17. inodes' = r.pool
    BY <1>7, <1>8
  <1>18. CASE r.err # "OK"
    <2>1. imem' = m /\ Return(r.err)
      BY <1>7, <1>8, <1>9, <1>13, <1>18
    <2> QED BY <1>1, <1>3, <1>10, <1>15, <1>16, <1>17, <1>18, <2>1, ClaimFailed
  <1>19. CASE r.err = "OK"
    <2>1. /\ imem' = [c \in Cells |->
               IF c \in inodes.free .. inodes.free + n - 1
                 THEN LET k == c - inodes.free + 1 IN
                      [m[c] EXCEPT !.ino = ShortFormIno(d, k), !.ftype = d.ents[k].ftype]
                 ELSE IF c = self THEN [m[c] EXCEPT !.idx = inodes.free]
                 ELSE m[c]]
          /\ Descend(self) /\ UNCHANGED <<self, items, xerr>>
      BY <1>7, <1>8, <1>9, <1>13, <1>19 DEF workVars
    <2>2. ASSUME NEW c \in Cells PROVE imem'[c] \in Inodes /\ (c >= inodes.free => imem'[c].count = 0)
      <3>1. m[c] \in Inodes /\ (c >= inodes.free => m[c].count = 0) /\ c \in Nat
        BY <1>15, <1>16, CellsAre
      <3>2. CASE c \in inodes.free .. inodes.free + n - 1
        <4>1. c - inodes.free + 1 \in 1 .. n
          BY <1>2, <1>5, <3>1, <3>2
        <4>2. PICK k \in 1 .. n : k = c - inodes.free + 1
          BY <4>1
        <4>3. imem'[c] = [m[c] EXCEPT !.ino = ShortFormIno(d, k), !.ftype = d.ents[k].ftype]
          BY <2>1, <2>2, <3>2, <4>2
        <4>4. PICK x \in Inodes : x = m[c]
          BY <3>1
        <4>5. PICK y : y = [x EXCEPT !.ino = ShortFormIno(d, k), !.ftype = d.ents[k].ftype]
          OBVIOUS
        <4>6. y \in Inodes /\ y.count = x.count
          BY <1>6, <4>5 DEF Inodes
        <4> QED BY <3>1, <4>3, <4>4, <4>5, <4>6
      <3>3. CASE c \notin inodes.free .. inodes.free + n - 1 /\ c = self
        <4>1. imem'[c] = [m[c] EXCEPT !.idx = inodes.free]
          BY <2>1, <2>2, <3>3
        <4>2. imem'[c] \in Inodes
          BY <1>2, <3>1, <4>1 DEF Inodes
        <4> QED BY <1>15, <3>3, <4>2
      <3>4. CASE c \notin inodes.free .. inodes.free + n - 1 /\ c # self
        BY <2>1, <2>2, <3>1, <3>4
      <3> QED BY <3>2, <3>3, <3>4
    <2>3. imem' \in [Cells -> Inodes]
      <3>1. imem' = [c \in Cells |-> imem'[c]]
        BY <2>1
      <3> QED BY <2>2, <3>1
    <2>4. /\ imem'[self].ftype = "dir" /\ imem'[self].idx = inodes.free /\ imem'[self].count = n
      <3>1. self \notin inodes.free .. inodes.free + n - 1
        BY <1>2
      <3>2. imem'[self] = [dir EXCEPT !.idx = inodes.free]
        BY <1>2, <1>15, <2>1, <3>1
      <3> QED BY <1>12, <3>2 DEF Inodes
    <2>5. \A c \in Cells \ {self} : c < inodes.free => imem'[c] = imem[c]
      <3> SUFFICES ASSUME NEW c \in Cells \ {self}, c < inodes.free PROVE imem'[c] = imem[c]
        OBVIOUS
      <3>1. c \notin inodes.free .. inodes.free + n - 1
        BY <1>2, CellsAre
      <3> QED BY <1>10, <1>15, <2>1, <3>1
    <2>6. OnlySelf
      BY <1>1, <1>3, <1>10, <1>17, <2>2, <2>5 DEF OnlySelf
    <2>7. stack' \in Seq(Frames) /\ xpc' = "child"
      <3>1. [dir |-> self, next |-> 0] \in Frames
        BY <1>2 DEF Frames
      <3>2. stack' = Append(stack, [dir |-> self, next |-> 0]) /\ xpc' = "child"
        BY <2>1 DEF Descend
      <3> QED BY <1>2, <3>1, <3>2
    <2>8. MemInv'
      BY <1>2, <1>3, <1>10, <1>17, <2>1, <2>3, <2>7 DEF MemInv
    <2>9. LastDir
      <3>1. inodes'.free = inodes.free + n /\ inodes'.free <= PoolMax
        BY <1>10, <1>17, <1>19, InReserve
      <3>2. ASSUME NEW c \in imem'[self].idx .. imem'[self].idx + imem'[self].count - 1
            PROVE  imem'[c].count = 0
        <4>1. c \in Nat /\ c >= inodes.free /\ c < inodes.free + n
          BY <1>2, <1>5, <2>4, <3>2
        <4>2. c \in Cells
          BY <1>2, <1>5, <3>1, <4>1, CellsAre
        <4> QED BY <2>2, <4>1, <4>2
      <3> QED BY <1>2, <2>4, <3>1, <3>2 DEF LastDir
    <2> QED BY <1>1, <2>1, <2>6, <2>8, <2>9, DescendStep
  <1> QED BY <1>18, <1>19
-----------------------------------------------------------------------------
\* The extents of a file, inline or of a leaf, in one claim.
LEMMA StoreStep ==
  ASSUME ~BeyondMapped, RetrieveInv, IndexInv, xpc \notin {"idle", "child"},
         UNCHANGED <<inodes, rootIdx, calls>>,
         NEW records \in Seq(Words), NEW inode \in Inodes, NEW pc \in {"node", "child"}, NEW rest,
         inode.ftype = "reg", inode.idx + inode.count = extents.free + Len(records),
         \A d \in OfType("reg") \ {self} : End(d) <= inode.idx,
         stack # <<>>, StoreExtents(records, inode, pc, rest)
  PROVE  IndexInv'
  <1>1. /\ MemInv /\ self \in Cells /\ inodes.free \in Nat /\ extents.free \in Nat
        /\ imem \in [Cells -> Inodes] /\ imem[self] \in Inodes /\ items \in Seq(Items)
        /\ stack \in Seq(Frames)
    BY AtWork
  <1>2. /\ PoolIn(extents) /\ emem \in [Cells -> Extents] /\ PoolIn(inodes)'
        /\ rootIdx' \in Cells \cup {IdxNone} /\ calls' \in 0 .. MaxCalls /\ xerr \in IndexErrors
    BY <1>1 DEF MemInv, PoolIn
  <1>3. PICK n \in Nat : n = Len(records)
    OBVIOUS
  <1>4. PICK ok \in BOOLEAN :
    LET r == xal_pool_claim_extents(extents, n, ok)
        m == Zeroed(emem, extents, n, ok, ZeroExtent)
        first == extents.free
    IN /\ mprotect(extents, extents.allocated + extents.growby, ok)
       /\ extents' = r.pool
       /\ IF r.err = "OK"
            THEN /\ emem' = [c \in Cells |->
                      IF c \in first .. first + n - 1
                        THEN LET rec == records[c - first + 1] IN
                             decode_xfs_extent(rec.l0, rec.l1)
                        ELSE m[c]]
                 /\ imem' = [imem EXCEPT ![self] = inode]
                 /\ xpc' = pc /\ ptrs' = rest
                 /\ UNCHANGED <<self, stack, recs, nleft, blks, items, xerr>>
            ELSE /\ emem' = m
                 /\ imem' = [imem EXCEPT ![self].ftype = "reg"]
                 /\ Return(r.err)
    BY <1>3 DEF StoreExtents
  <1>5. PICK r : r = xal_pool_claim_extents(extents, n, ok)
    OBVIOUS
  <1>6. PICK m : m = Zeroed(emem, extents, n, ok, ZeroExtent)
    OBVIOUS
  <1>7. /\ PoolIn(r.pool) /\ r.err \in PoolErrors /\ extents.free <= r.pool.free
        /\ r.pool.free = IF r.err = "OK" THEN extents.free + n ELSE extents.free
    <2>1. mprotect(extents, extents.allocated + extents.growby, ok)
      BY <1>4
    <2>2. ClaimOutcome(extents, n, ok, r.err, r.pool)
      BY <1>2, <1>5, ClaimExtentsOutcome DEF PoolIn
    <2> QED BY <1>2, <2>1, <2>2, PoolClaimed
  <1>8. m \in [Cells -> Extents]
    BY <1>2, <1>6, Zeroes, ZeroedMemory
  <1>9. extents' = r.pool
    BY <1>4, <1>5
  <1>10. extents.free <= extents'.free
    BY <1>7, <1>9
  <1>11. CASE r.err # "OK"
    <2>1. emem' = m /\ imem' = [imem EXCEPT ![self].ftype = "reg"] /\ Return(r.err)
      BY <1>4, <1>5, <1>6, <1>11
    <2>2. PICK new : new = [imem[self] EXCEPT !.ftype = "reg"]
      OBVIOUS
    <2>3. new \in Inodes
      BY <1>1, <2>2 DEF Inodes, Ftypes
    <2>4. imem' = [imem EXCEPT ![self] = new]
      BY <1>1, <2>1, <2>2
    <2>5. OnlySelf /\ imem' \in [Cells -> Inodes]
      BY <1>10, <2>3, <2>4, SelfWritten
    <2>6. \A c \in Cells : c >= inodes.free => imem'[c].count = 0
      BY <2>5 DEF OnlySelf
    <2> QED BY <1>2, <1>7, <1>8, <1>9, <1>11, <2>1, <2>5, <2>6, ClaimFailed
  <1>12. CASE r.err = "OK"
    <2>1. /\ emem' = [c \in Cells |->
               IF c \in extents.free .. extents.free + n - 1
                 THEN decode_xfs_extent(records[c - extents.free + 1].l0, records[c - extents.free + 1].l1)
                 ELSE m[c]]
          /\ imem' = [imem EXCEPT ![self] = inode]
          /\ xpc' = pc /\ UNCHANGED <<self, stack, items, xerr>>
      BY <1>4, <1>5, <1>6, <1>12
    <2>2. emem' \in [Cells -> Extents]
      <3>1. ASSUME NEW c \in Cells PROVE emem'[c] \in Extents
        <4>1. CASE c \in extents.free .. extents.free + n - 1
          <5>1. c - extents.free + 1 \in 1 .. Len(records)
            BY <1>1, <1>3, <4>1, CellsAre
          <5>2. PICK rec \in Words : rec = records[c - extents.free + 1]
            BY <5>1
          <5>3. emem'[c] = decode_xfs_extent(rec.l0, rec.l1)
            BY <2>1, <3>1, <4>1, <5>2
          <5> QED BY <5>2, <5>3, DecodedExtent
        <4>2. CASE c \notin extents.free .. extents.free + n - 1
          BY <1>8, <2>1, <3>1, <4>2
        <4> QED BY <4>1, <4>2
      <3>2. emem' = [c \in Cells |-> emem'[c]]
        BY <2>1
      <3> QED BY <3>1, <3>2
    <2>3. OnlySelf /\ imem' \in [Cells -> Inodes] /\ imem'[self] = inode
      BY <1>10, <2>1, SelfWritten
    <2>4. MemInv'
      BY <1>1, <1>2, <1>7, <1>9, <2>1, <2>2, <2>3 DEF MemInv
    <2>5. extents'.free = extents.free + n
      BY <1>7, <1>9, <1>12
    <2>6. LastReg
      BY <1>3, <2>3, <2>5 DEF LastReg
    <2>7. CASE pc = "node"
      BY <2>1, <2>3, <2>4, <2>6, <2>7, WorkStep
    <2>8. CASE pc = "child"
      BY <2>1, <2>3, <2>4, <2>6, <2>8, FileStep
    <2> QED BY <2>7, <2>8
  <1> QED BY <1>11, <1>12

LEMMA FileStoreStep ==
  ASSUME ~BeyondMapped, RetrieveInv, IndexInv, calls' = calls, FileExtents \/ FileLeaf
  PROVE  IndexInv'
  <1>1. CASE FileExtents
    <2>1. /\ xpc = "ino" /\ Known(imem[self].ino) /\ Dinode(self).fmt = "extents"
          /\ Ftype(self) = "reg" /\ UNCHANGED <<inodes, rootIdx, calls>>
      BY <1>1 DEF FileExtents, Form
    <2> DEFINE records == Dinode(self).recs
               inode == [imem[self] EXCEPT !.ftype = "reg", !.idx = extents.free,
                                           !.count = Len(records)]
    <2>2. StoreExtents(records, inode, "child", <<>>)
      BY <1>1 DEF FileExtents
    <2>3. records \in Seq(Words)
      BY <2>1, DinodeRead DEF DinodeOK
    <2> HIDE DEF records
    <2>4. Len(records) \in Nat
      BY <2>3
    <2>5. /\ imem[self] \in Inodes /\ extents.free \in Nat
          /\ \A d \in OfType("reg") : End(d) <= extents.free
      BY <2>1, AtWork
    <2>6. /\ inode \in Inodes /\ inode.ftype = "reg" /\ inode.idx = extents.free
          /\ inode.count = Len(records)
      BY <2>4, <2>5 DEF Inodes, Ftypes
    <2> HIDE DEF inode
    <2>7. stack # <<>>
      BY <2>1, FileBelow
    <2>8. inode.idx + inode.count = extents.free + Len(records)
      BY <2>6
    <2>9. \A d \in OfType("reg") \ {self} : End(d) <= inode.idx
      BY <2>5, <2>6
    <2> QED BY <2>1, <2>2, <2>3, <2>6, <2>7, <2>8, <2>9, StoreStep
  <1>2. CASE FileLeaf
    <2>1. xpc = "node" /\ UNCHANGED <<inodes, rootIdx, calls>>
      BY <1>2 DEF FileLeaf
    <2> DEFINE block == disk.dev[xal_fsbno_offset(Head(ptrs).bno)]
               inode == [imem[self] EXCEPT !.count = @ + Len(block.recs)]
    <2>2. CASE \E e \in {"EIO", "EINVAL"} : Return(e) /\ UNCHANGED <<imem, extents, emem>>
      <3>1. Quiet
        BY <2>1, <2>2 DEF Quiet, poolVars
      <3> QED BY <2>2, <3>1, QuietReturn
    <2>3. CASE /\ Readable(xal_fsbno_offset(Head(ptrs).bno))
               /\ block.magic = "BMA3" /\ block.level = 0
               /\ StoreExtents(block.recs, inode, "node", Tail(ptrs))
      <3>1. block.recs \in Seq(Words)
        BY <2>3, BlockRead DEF BlockOK
      <3> HIDE DEF block
      <3>2. Len(block.recs) \in Nat
        BY <3>1
      <3>3. /\ imem[self] \in Inodes /\ extents.free \in Nat /\ imem[self].idx \in Nat
            /\ imem[self].count \in Nat /\ FillInv /\ SelfInv
        BY <2>1, AtWork
      <3>4. /\ inode \in Inodes /\ inode.ftype = imem[self].ftype /\ inode.idx = imem[self].idx
            /\ inode.count = imem[self].count + Len(block.recs)
        <4>1. PICK x \in Inodes : x = imem[self]
          BY <3>3
        <4>2. inode = [x EXCEPT !.count = x.count + Len(block.recs)]
          BY <4>1
        <4>3. x.count + Len(block.recs) \in Nat
          BY <3>2, <3>3, <4>1
        <4> HIDE DEF inode
        <4>4. inode \in Inodes /\ inode.ftype = x.ftype /\ inode.idx = x.idx
              /\ inode.count = x.count + Len(block.recs)
          BY <4>2, <4>3 DEF Inodes
        <4> QED BY <4>1, <4>4
      <3> HIDE DEF inode
      <3>5. /\ imem[self].ftype = "reg" /\ imem[self].idx + imem[self].count = extents.free
            /\ \A d \in OfType("reg") \ {self} : End(d) <= imem[self].idx
        BY <2>1, <3>3 DEF FillInv, End
      <3>6. stack # <<>>
        BY <2>1, <3>3, <3>5 DEF SelfInv
      <3>7. inode.idx + inode.count = extents.free + Len(block.recs)
        BY <3>2, <3>3, <3>4, <3>5
      <3>8. StoreExtents(block.recs, inode, "node", Tail(ptrs))
        BY <2>3
      <3> QED BY <2>1, <3>1, <3>4, <3>5, <3>6, <3>7, <3>8, StoreStep
    <2> QED BY <1>2, <2>2, <2>3 DEF FileLeaf
  <1> QED BY <1>1, <1>2
-----------------------------------------------------------------------------
\* A step that changes no more than the parent of an element.
SameShape ==
  /\ UNCHANGED <<inodes, extents, rootIdx>>
  /\ \A c \in Cells : /\ imem'[c].ftype = imem[c].ftype
                      /\ imem'[c].idx = imem[c].idx /\ imem'[c].count = imem[c].count

LEMMA ShapeKept ==
  ASSUME MemInv, FreshInv, ArrayInv, SameShape
  PROVE  FreshInv' /\ ArrayInv' /\ Claimed' = Claimed
  <1>1. Claimed' = Claimed
    BY DEF SameShape, Claimed
  <1>2. \A c \in Claimed : c \in Cells
    BY ClaimedCells DEF ArrayInv
  <1>3. \A t : OfType(t)' = OfType(t) /\ OfType(t) \subseteq Cells
    BY <1>1, <1>2 DEF OfType, SameShape
  <1>4. \A c \in Cells : End(c)' = End(c)
    BY DEF End, SameShape
  <1>5. FreshInv'
    BY DEF FreshInv, SameShape
  <1>6. rootIdx' \in Cells /\ rootIdx' < inodes'.free
    BY DEF ArrayInv, SameShape
  <1>7. \A c \in OfType("dir")' : c < imem'[c].idx /\ End(c)' <= inodes'.free
    BY <1>3, <1>4 DEF ArrayInv, SameShape
  <1>8. \A c \in OfType("reg")' : End(c)' <= extents'.free
    BY <1>3, <1>4 DEF ArrayInv, SameShape
  <1>9. ASSUME NEW t \in {"dir", "reg"}, NEW c \in OfType(t)', NEW d \in OfType(t)', c # d
        PROVE  End(c)' <= imem'[d].idx \/ End(d)' <= imem'[c].idx
    <2>1. c \in OfType(t) /\ d \in OfType(t) /\ c \in Cells /\ d \in Cells
      BY <1>3, <1>9
    <2>2. End(c) <= imem[d].idx \/ End(d) <= imem[c].idx
      BY <1>9, <2>1 DEF ArrayInv
    <2> QED BY <1>4, <2>1, <2>2 DEF SameShape
  <1> QED BY <1>1, <1>5, <1>6, <1>7, <1>8, <1>9 DEF ArrayInv

\* The children of a frame that are left: elements handed out, behind it.
LEMMA RestOf ==
  ASSUME MemInv, ArrayInv, NEW f \in Frames, FrameOK(f), NEW c \in Rest(f)
  PROVE  /\ f.dir \in OfType("dir") /\ f.dir \in Cells /\ f.dir \in Nat
         /\ c \in Claimed /\ c \in Cells /\ c \in Nat /\ f.dir < c
         /\ imem[f.dir].idx <= c /\ c < End(f.dir) /\ imem[c].count = 0
  <1>1. /\ f.dir \in Claimed /\ f.dir \in Cells /\ f.dir \in Nat /\ f.next \in Nat
        /\ rootIdx <= f.dir /\ rootIdx \in Cells
    BY ClaimedCells DEF FrameOK, Frames, ArrayInv
  <1>2. /\ imem[f.dir].idx \in Nat /\ imem[f.dir].count \in Nat /\ inodes.free \in Nat
        /\ inodes.free <= PoolMax /\ PoolMax \in Nat /\ rootIdx \in Nat
    BY <1>1, CellFacts, CellsAre
  <1>3. c \in imem[f.dir].idx + f.next .. (imem[f.dir].idx + imem[f.dir].count) - 1
    BY DEF Rest, End
  <1>4. /\ c \in Nat /\ imem[f.dir].idx <= c /\ c < imem[f.dir].idx + imem[f.dir].count
        /\ imem[f.dir].count > 0
    BY <1>1, <1>2, <1>3
  <1>5. f.dir \in OfType("dir")
    BY <1>1, <1>4 DEF OfType, FrameOK
  <1>6. f.dir < imem[f.dir].idx /\ imem[f.dir].idx + imem[f.dir].count <= inodes.free
    BY <1>5 DEF ArrayInv, End
  <1>7. c < inodes.free /\ f.dir < c
    BY <1>1, <1>2, <1>4, <1>6
  <1>8. c \in Claimed
    BY <1>1, <1>2, <1>4, <1>7 DEF Claimed, IdxNone
  <1>9. c \in Cells
    BY <1>2, <1>4, <1>7, CellsAre
  <1>10. imem[c].count = 0
    BY DEF FrameOK
  <1> QED BY <1>1, <1>4, <1>5, <1>7, <1>8, <1>9, <1>10 DEF End

LEMMA FrameShape ==
  ASSUME MemInv, FreshInv, ArrayInv, SameShape, NEW f \in Frames, FrameOK(f)
  PROVE  FrameOK(f)' /\ Rest(f)' = Rest(f)
  <1>1. f.dir \in Claimed /\ f.dir \in Cells
    BY DEF FrameOK, Frames
  <1>2. Rest(f)' = Rest(f)
    BY <1>1 DEF Rest, End, SameShape
  <1>3. \A c \in Rest(f) : imem'[c].count = 0
    BY RestOf DEF SameShape
  <1>4. Claimed' = Claimed
    BY ShapeKept
  <1> QED BY <1>1, <1>2, <1>3, <1>4 DEF FrameOK, SameShape

\* The next child of the directory on top of the stack.
LEMMA NextChildStep ==
  ASSUME IndexInv, calls' = calls, NextChild
  PROVE  IndexInv'
  <1> DEFINE top == Last(stack)
             n == Len(stack)
             child == imem[top.dir].idx + top.next
             adv == Advanced(top)
  <1>1. /\ xpc = "child" /\ xpc' = "ino" /\ top.next < imem[top.dir].count /\ self' = child
        /\ stack' = Append(Front(stack), adv)
        /\ UNCHANGED <<inodes, extents, emem, rootIdx, items, xerr>>
        /\ imem' = IF Dinode(top.dir).fmt = "local"
                     THEN [imem EXCEPT ![child].parent = top.dir] ELSE imem
    BY DEF NextChild, workVars
  <1>2. /\ MemInv /\ FreshInv /\ ArrayInv /\ StackInv /\ stack # <<>> /\ stack \in Seq(Frames)
        /\ imem \in [Cells -> Inodes] /\ items \in Seq(Items)
    BY <1>1 DEF IndexInv, TreeInv, StackInv, MemInv
  <1>3. n \in Nat /\ n >= 1 /\ top = stack[n]
    BY <1>2 DEF Last
  <1>4. \A i \in 1 .. n : stack[i] \in Frames /\ FrameOK(stack[i])
    BY <1>2 DEF StackInv
  <1>5. top \in Frames /\ FrameOK(top) /\ top.dir \in Cells /\ top.next \in Nat
    BY <1>3, <1>4 DEF Frames
  <1>6. imem[top.dir].idx \in Nat /\ imem[top.dir].count \in Nat
    BY <1>2, <1>5, CellFacts
  <1>7. child \in Rest(top)
    BY <1>1, <1>5, <1>6 DEF Rest, End
  <1>8. /\ adv \in Frames /\ adv.dir = top.dir /\ adv.next = top.next + 1
    BY <1>5 DEF Advanced, Frames
  <1>9. /\ stack' \in Seq(Frames) /\ Len(stack') = n /\ stack'[n] = adv
        /\ \A i \in 1 .. n - 1 : stack'[i] = stack[i]
    <2>1. /\ Front(stack) \in Seq(Frames) /\ Len(Front(stack)) = n - 1
          /\ \A i \in 1 .. n - 1 : Front(stack)[i] = stack[i]
      <3>1. Front(stack) = SubSeq(stack, 1, n - 1)
        BY DEF Front
      <3>2. 1 \in 1 .. Len(stack) + 1 /\ n - 1 \in 1 - 1 .. Len(stack)
        BY <1>3
      <3> HIDE DEF n
      <3> QED BY <1>2, <1>3, <3>1, <3>2, SubSeqProperties
    <2> HIDE DEF adv, n
    <2> QED BY <1>1, <1>3, <1>8, <2>1
  <1> HIDE DEF top, n, adv
  <1>10. /\ top.dir \in OfType("dir") /\ child \in Claimed /\ child \in Cells /\ child \in Nat
         /\ top.dir < child /\ top.dir \in Nat /\ imem[child].count = 0
         /\ imem[top.dir].idx <= child /\ child < End(top.dir)
    BY <1>2, <1>5, <1>7, RestOf
  <1> HIDE DEF child
  <1>11. imem' \in [Cells -> Inodes] /\ SameShape
    <2>1. CASE imem' = imem
      BY <1>1, <1>2, <2>1 DEF SameShape
    <2>2. CASE imem' = [imem EXCEPT ![child].parent = top.dir]
      <3>1. PICK new : new = [imem[child] EXCEPT !.parent = top.dir]
        OBVIOUS
      <3>2. imem[child] \in Inodes
        BY <1>2, <1>10
      <3>3. /\ new \in Inodes /\ new.ftype = imem[child].ftype /\ new.idx = imem[child].idx
            /\ new.count = imem[child].count
        BY <1>5, <3>1, <3>2 DEF Inodes
      <3>4. imem' = [imem EXCEPT ![child] = new]
        BY <1>2, <1>10, <2>2, <3>1
      <3>5. /\ imem' \in [Cells -> Inodes] /\ imem'[child] = new
            /\ \A c \in Cells \ {child} : imem'[c] = imem[c]
        BY <1>2, <1>10, <3>3, <3>4
      <3>6. \A c \in Cells : /\ imem'[c].ftype = imem[c].ftype
                             /\ imem'[c].idx = imem[c].idx /\ imem'[c].count = imem[c].count
        BY <3>3, <3>5
      <3> QED BY <1>1, <3>5, <3>6 DEF SameShape
    <2> QED BY <1>1, <2>1, <2>2
  <1>12. MemInv'
    BY <1>1, <1>2, <1>9, <1>10, <1>11 DEF MemInv, PoolIn
  <1>13. FreshInv' /\ ArrayInv' /\ Claimed' = Claimed
    BY <1>2, <1>11, ShapeKept
  <1>14. PICK next \in Frames : next = adv
    BY <1>8
  <1>15. FrameOK(adv) /\ Rest(adv) \subseteq Rest(top) /\ child \notin Rest(adv)
    <2>1. /\ Rest(adv) = imem[top.dir].idx + (top.next + 1) .. (imem[top.dir].idx + imem[top.dir].count) - 1
          /\ Rest(top) = imem[top.dir].idx + top.next .. (imem[top.dir].idx + imem[top.dir].count) - 1
      BY <1>8 DEF Rest, End
    <2>2. child = imem[top.dir].idx + top.next
      BY DEF child
    <2>3. Rest(adv) \subseteq Rest(top) /\ child \notin Rest(adv)
      BY <1>5, <1>6, <2>1, <2>2
    <2> QED BY <1>5, <1>8, <2>3 DEF FrameOK
  <1>16. ASSUME NEW i \in 1 .. n
         PROVE  /\ FrameOK(stack[i])' /\ stack'[i].dir = stack[i].dir
                /\ stack'[i].dir < child /\ child \notin Rest(stack[i])'
    <2>1. CASE i = n
      <3>1. FrameOK(next)' /\ Rest(next)' = Rest(next)
        BY <1>2, <1>11, <1>14, <1>15, FrameShape
      <3>2. stack'[i] = next /\ stack[i] = top
        BY <1>3, <1>9, <1>14, <2>1
      <3>3. Rest(stack[i])' = Rest(next)'
        BY <3>2 DEF Rest
      <3>4. child \notin Rest(stack[i])'
        BY <1>14, <1>15, <3>1, <3>3
      <3>5. stack'[i].dir = stack[i].dir /\ stack'[i].dir < child
        BY <1>8, <1>10, <1>14, <3>2
      <3>6. FrameOK(stack[i])'
        BY <3>1, <3>2, <3>3 DEF FrameOK
      <3> QED BY <3>4, <3>5, <3>6
    <2>2. CASE i # n
      <3>1. i \in 1 .. n - 1 /\ i < n
        BY <1>3, <2>2
      <3>2. PICK f \in Frames : f = stack[i] /\ FrameOK(f) /\ f.dir < top.dir
        BY <1>2, <1>3, <1>4, <3>1 DEF StackInv, n
      <3>3. stack'[i] = f
        BY <1>9, <3>1, <3>2
      <3>4. FrameOK(f)' /\ Rest(f)' = Rest(f)
        BY <1>2, <1>11, <3>2, FrameShape
      <3>5. f.dir \in Cells /\ f.dir \in Nat
        BY CellsAre DEF Frames
      <3>6. f.dir < child /\ f.dir # top.dir
        BY <1>10, <3>2, <3>5
      <3>7. child \notin Rest(f)
        <4> SUFFICES ASSUME child \in Rest(f) PROVE FALSE
          OBVIOUS
        <4>1. f.dir \in OfType("dir") /\ imem[f.dir].idx <= child /\ child < End(f.dir)
          BY <1>2, <3>2, RestOf
        <4>2. End(f.dir) <= imem[top.dir].idx \/ End(top.dir) <= imem[f.dir].idx
          BY <1>2, <1>10, <3>6, <4>1 DEF ArrayInv
        <4>3. /\ End(f.dir) \in Nat /\ End(top.dir) \in Nat /\ imem[f.dir].idx \in Nat
          <5>1. /\ imem[f.dir].idx \in Nat /\ imem[f.dir].count \in Nat
            BY <1>2, <3>5, CellFacts
          <5> QED BY <1>6, <5>1 DEF End
        <4> QED BY <1>6, <1>10, <4>1, <4>2, <4>3
      <3> QED BY <3>2, <3>3, <3>4, <3>6, <3>7
    <2> QED BY <2>1, <2>2
  <1>17. stack' # <<>>
    BY <1>3, <1>9
  <1>18. StackInv'
    <2>1. \A i \in 1 .. Len(stack') : FrameOK(stack[i])'
      BY <1>9, <1>16
    <2>2. \A i, j \in 1 .. Len(stack') : i < j => stack'[i].dir < stack'[j].dir
      BY <1>2, <1>9, <1>16 DEF StackInv, n
    <2> QED BY <1>17, <2>1, <2>2 DEF StackInv
  <1>19. SelfInv'
    <2>1. \A i \in 1 .. Len(stack') : stack'[i].dir < self' /\ self' \notin Rest(stack[i])'
      BY <1>1, <1>9, <1>16
    <2>2. self' \in Claimed' /\ imem'[self'].count = 0
      BY <1>1, <1>10, <1>11, <1>13 DEF SameShape
    <2> QED BY <1>17, <2>1, <2>2 DEF SelfInv
  <1> QED BY <1>1, <1>12, <1>13, <1>18, <1>19 DEF IndexInv, TreeInv, FillInv, Filling

\* The last child is done: back to the directory's own parent, or the end.
LEMMA ChildrenDoneStep ==
  ASSUME IndexInv, calls' = calls, ChildrenDone
  PROVE  IndexInv'
  <1>1. /\ xpc = "child" /\ UNCHANGED <<poolVars, rootIdx>>
        /\ \/ Return("OK")
           \/ Len(stack) # 1 /\ stack' = Front(stack) /\ UNCHANGED <<xpc, self, workVars, xerr>>
    BY DEF ChildrenDone
  <1>2. /\ MemInv /\ FreshInv /\ ArrayInv /\ StackInv /\ stack # <<>> /\ stack \in Seq(Frames)
    BY <1>1 DEF IndexInv, TreeInv, StackInv, MemInv
  <1>3. SameShape
    BY <1>1 DEF SameShape, poolVars
  <1>4. FreshInv' /\ ArrayInv' /\ Claimed' = Claimed
    BY <1>2, <1>3, ShapeKept
  <1>5. CASE Return("OK")
    <2>1. "OK" \in IndexErrors /\ 0 \in Cells
      BY GroupFacts DEF IndexErrors, PoolErrors
    <2>2. MemInv'
      BY <1>1, <1>2, <1>5, <2>1, EmptySeq DEF MemInv, PoolIn, Return, poolVars
    <2> QED BY <1>4, <1>5, <2>2 DEF IndexInv, TreeInv, FillInv, Filling, Return
  <1>6. CASE Len(stack) # 1 /\ stack' = Front(stack) /\ UNCHANGED <<xpc, self, workVars, xerr>>
    <2> DEFINE n == Len(stack)
    <2>1. n \in Nat /\ n > 1
      BY <1>2, <1>6
    <2>2. /\ stack' \in Seq(Frames) /\ Len(stack') = n - 1
          /\ \A i \in 1 .. n - 1 : stack'[i] = stack[i]
      BY <1>2, <1>6, <2>1 DEF Front
    <2> HIDE DEF n
    <2>3. MemInv'
      BY <1>1, <1>2, <1>6, <2>2 DEF MemInv, PoolIn, poolVars, workVars
    <2>4. ASSUME NEW i \in 1 .. Len(stack') PROVE FrameOK(stack[i])' /\ stack'[i] = stack[i] /\ i \in 1 .. n
      <3>1. i \in 1 .. n - 1 /\ i \in 1 .. n
        BY <2>1, <2>2
      <3>2. PICK f \in Frames : f = stack[i] /\ FrameOK(f)
        BY <1>2, <3>1 DEF StackInv, n
      <3>3. FrameOK(f)'
        BY <1>2, <1>3, <3>2, FrameShape
      <3> QED BY <2>2, <3>1, <3>2, <3>3
    <2>5. \A i, j \in 1 .. Len(stack') : i < j => stack'[i].dir < stack'[j].dir
      BY <1>2, <2>4 DEF StackInv, n
    <2>6. stack' # <<>>
      BY <2>1, <2>2
    <2>7. StackInv'
      BY <2>4, <2>5, <2>6 DEF StackInv
    <2> QED BY <1>1, <1>4, <1>6, <2>3, <2>7 DEF IndexInv, TreeInv, FillInv, Filling
  <1> QED BY <1>1, <1>5, <1>6
-----------------------------------------------------------------------------
LEMMA IndexStep ==
  ASSUME ~BeyondMapped, RetrieveInv, IndexInv, [Next]_vars
  PROVE  IndexInv'
  <1>1. CASE CallIndex
    <2>1. calls' \in 0 .. MaxCalls
      BY <1>1, CallsAssumption DEF CallIndex, IndexInv, MemInv
    <2>2. CASE IndexStart
      BY <2>1, <2>2, StartStep
    <2>3. CASE IndexRefused
      <3>1. /\ PoolIn(inodes)' /\ PoolIn(extents)' /\ imem' \in [Cells -> Inodes]
            /\ emem' \in [Cells -> Extents] /\ rootIdx' \in Cells \cup {IdxNone}
            /\ FreshInv' /\ Return("EINVAL")
        BY <2>3 DEF IndexRefused, IndexInv, MemInv, PoolIn, FreshInv, poolVars
      <3>2. "EINVAL" \in IndexErrors \ {"OK"}
        BY DEF IndexErrors, PoolErrors
      <3> QED BY <2>1, <3>1, <3>2, Returned
    <2> QED BY <1>1, <2>2, <2>3 DEF CallIndex
  <1>2. CASE Index
    <2>1. calls' = calls
      BY <1>2 DEF Index
    <2>2. CASE \/ Unsupported \/ DirLeaf \/ DirExtent \/ DirExtentsDone \/ DirLeavesDone
               \/ DirBlock \/ DirBlocksDone \/ DentriesDone \/ FileNode \/ FileDone
      BY <2>1, <2>2, QuietStep
    <2>3. CASE DirExtents \/ DirBtree
      BY <2>1, <2>3, DirOpened
    <2>4. CASE FileBtree
      BY <2>1, <2>4, FileOpened
    <2>5. CASE DirLocal
      BY <2>1, <2>5, LocalStep
    <2>6. CASE Dentry
      BY <2>1, <2>6, DentryStep
    <2>7. CASE FileExtents \/ FileLeaf
      BY <2>1, <2>7, FileStoreStep
    <2>8. CASE NextChild
      BY <2>1, <2>8, NextChildStep
    <2>9. CASE ChildrenDone
      BY <2>1, <2>9, ChildrenDoneStep
    <2>10. CASE UnknownFormat
      BY <2>1, <2>10, PassedOver
    <2> QED BY <1>2, <2>2, <2>3, <2>4, <2>5, <2>6, <2>7, <2>8, <2>9, <2>10 DEF Index, Indexing
  <1>3. CASE CallRetrieve \/ IndexDies \/ Retrieve \/ UNCHANGED vars
    <2>1. UNCHANGED indexVars /\ calls' \in 0 .. MaxCalls
      BY <1>3, CallsAssumption DEF CallRetrieve, IndexDies, Retrieve, vars, IndexInv, MemInv
    <2>2. MemInv'
      BY <2>1 DEF IndexInv, MemInv, PoolIn, indexVars, poolVars, walkVars, workVars
    <2>3. UNCHANGED <<inodes, extents, imem, rootIdx, xpc, xerr, self, stack>>
      BY <2>1 DEF indexVars, poolVars, walkVars
    <2>4. Claimed' = Claimed /\ (\A c : End(c)' = End(c))
      BY <2>3 DEF Claimed, End
    <2>5. \A t : OfType(t)' = OfType(t)
      BY <2>3, <2>4 DEF OfType
    <2>6. \A f : Rest(f)' = Rest(f)
      BY <2>3, <2>4 DEF Rest
    <2>7. \A f : FrameOK(f)' = FrameOK(f)
      BY <2>3, <2>4, <2>6 DEF FrameOK
    <2>8. ArrayInv' = ArrayInv
      BY <2>3, <2>4, <2>5 DEF ArrayInv
    <2>9. StackInv' = StackInv
      BY <2>3, <2>7 DEF StackInv
    <2>10. SelfInv' = SelfInv
      BY <2>3, <2>4, <2>6 DEF SelfInv
    <2>11. FillInv' = FillInv
      BY <2>3, <2>4, <2>5 DEF FillInv, Filling
    <2> QED BY <2>2, <2>3, <2>8, <2>9, <2>10, <2>11 DEF IndexInv, TreeInv, FreshInv
  <1> QED BY <1>1, <1>2, <1>3 DEF Next

LEMMA IndexBegins == Init => IndexInv
  <1> SUFFICES ASSUME Init PROVE IndexInv
    OBVIOUS
  <1>1. /\ inodes = OpenPool /\ extents = OpenPool
        /\ imem = [c \in Cells |-> ZeroInode] /\ emem = [c \in Cells |-> ZeroExtent]
        /\ rootIdx = IdxNone /\ xpc = "idle" /\ self = 0 /\ stack = <<>> /\ items = <<>>
        /\ xerr = "NONE" /\ calls = 0 /\ disk \in Images
    BY DEF Init, IndexInit, RetrieveInit
  <1>2. nallocated \in 0 .. PoolMax /\ PoolMax \in Nat
    BY <1>1, IndexAssumption DEF nallocated
  <1>3. PoolIn(OpenPool)
    BY <1>2 DEF PoolIn, OpenPool, Pools
  <1>4. imem \in [Cells -> Inodes] /\ emem \in [Cells -> Extents]
    BY <1>1, Zeroes
  <1>5. xerr \in IndexErrors
    BY <1>1 DEF IndexErrors
  <1>6. stack \in Seq(Frames) /\ items \in Seq(Items)
    BY <1>1, EmptySeq
  <1>7. MemInv
    BY <1>1, <1>3, <1>4, <1>5, <1>6, GroupFacts, CallsAssumption DEF MemInv
  <1>8. FreshInv
    BY <1>1 DEF FreshInv, ZeroInode
  <1> QED BY <1>1, <1>7, <1>8 DEF IndexInv, TreeInv, FillInv, Filling

\* The buffer, the map and both pools keep their types through every order of
\* retrievals and indexings and every failure, as long as the memory behind a
\* pool's reserve is not mapped: the pools never hand out more than the
\* reserve of xal_be_xfs_open().
THEOREM XfsTypeCorrect ==
  ASSUME ~BeyondMapped
  PROVE  Spec => []TypeOK
  <1> DEFINE Inv == ThreadInv /\ RetrieveInv /\ IndexInv
  <1>1. Init => Inv
    BY FoundInit, IndexBegins
  <1>2. Inv /\ [Next]_vars => Inv'
    BY ThreadStep, RetrieveStep, IndexStep
  <1>3. Inv => TypeOK
    <2> SUFFICES ASSUME ThreadInv, RetrieveInv, MemInv PROVE TypeOK
      BY DEF IndexInv
    <2>1. RetrieveTypeOK
      <3>1. Bnos \subseteq Nat /\ DOMAIN disk.dinode \subseteq Nat
        BY RootFacts, GroupFacts DEF Bnos, RetrieveInv
      <3>2. bnos \in Seq(Nat) /\ dinodes \in Seq(Nat) /\ Len(irecs) \in Nat
        BY <3>1 DEF RetrieveInv
      <3> QED BY <3>2 DEF RetrieveTypeOK, RetrieveInv, ThreadInv
    <2>2. ASSUME NEW c \in Cells
          PROVE  /\ imem[c].ino \in Nat /\ imem[c].ftype \in {"none", "dir", "reg", "other"}
                 /\ imem[c].idx \in Nat /\ imem[c].count \in Nat
                 /\ imem[c].parent \in Cells \cup {IdxNone}
                 /\ \A f \in DOMAIN ZeroExtent : emem[c][f] \in Nat
      <3>1. imem[c] \in Inodes /\ emem[c] \in Extents
        BY DEF MemInv
      <3>2. DOMAIN ZeroExtent = {"start_offset", "start_block", "nblocks", "flag"}
        BY DEF ZeroExtent
      <3> QED BY <3>1, <3>2 DEF Inodes, Extents, Ftypes
    <2>3. IndexTypeOK
      BY <2>2 DEF IndexTypeOK, MemInv, PoolIn, Frames
    <2> QED BY <2>1, <2>3 DEF TypeOK, MemInv
  <1> QED BY <1>1, <1>2, <1>3, PTL DEF Spec

\* While a tree is built and once it is, no two directories share an element
\* and no two files an extent, and children lie behind their directory,
\* whichever forms directories and files have on disk and although the arrays
\* grow entry by entry and leaf by leaf.
THEOREM ArraysStayDisjoint ==
  ASSUME ~BeyondMapped
  PROVE  Spec => []ArraysDisjoint
  <1> DEFINE Inv == ThreadInv /\ RetrieveInv /\ IndexInv
  <1>1. Init => Inv
    BY FoundInit, IndexBegins
  <1>2. Inv /\ [Next]_vars => Inv'
    BY ThreadStep, RetrieveStep, IndexStep
  <1>3. Inv => ArraysDisjoint
    <2> SUFFICES ASSUME MemInv, ArrayInv,
                        NEW t \in {"dir", "reg"}, NEW c \in OfType(t)
                 PROVE  /\ t = "dir" => imem[c].idx > c
                        /\ \A d \in OfType(t) \ {c} : Array(c) \cap Array(d) = {}
      BY DEF ArraysDisjoint, IndexInv, TreeInv
    <2>1. \A d \in OfType(t) : d \in Cells /\ d \in Nat /\ imem[d].idx \in Nat /\ imem[d].count \in Nat
      BY ClaimedCells, CellFacts DEF OfType, ArrayInv
    <2>2. t = "dir" => imem[c].idx > c
      BY <2>1 DEF ArrayInv
    <2>3. ASSUME NEW d \in OfType(t) \ {c} PROVE Array(c) \cap Array(d) = {}
      <3>1. End(c) <= imem[d].idx \/ End(d) <= imem[c].idx
        BY <2>3 DEF ArrayInv
      <3> QED BY <2>1, <3>1 DEF End, Array
    <2> QED BY <2>2, <2>3
  <1> QED BY <1>1, <1>2, <1>3, PTL DEF Spec
=============================================================================
