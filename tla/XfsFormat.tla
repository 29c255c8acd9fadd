------------------------------ MODULE XfsFormat ------------------------------
(***************************************************************************)
(* The numbers of the XFS on-disk format as src/xal_be_xfs.c decodes them,  *)
(* on scaled-down field widths.  Offsets on the device are counted in file  *)
(* system blocks: every offset of the code is a multiple of sb.blocksize    *)
(* but the offset of an inode inside its block.                             *)
(***************************************************************************)
EXTENDS Integers, Sequences

CONSTANTS
  AgCount, AgBlocks,   \* sb.agcount, sb.agblocks
  AgBlkLog, InoPBLog,  \* sb.agblklog, sb.inopblog
  ChunkNino,           \* CHUNK_NINO, inodes of one record of the inode B+tree
  DirBlocks,           \* sb.dirblocksize / sb.blocksize
  BlockSize, LbaSize,  \* sb.blocksize, sb.lba_blksze
  OffBits, HiBits, LoBits, CntBits
                       \* an extent record: 54, 9 and 43, and 21 in XFS

\* What one block may have on the stack of the functions that read one.
ODF_BLOCK_FS_BYTES_MAX == 64 * 1024

ASSUME FormatAssumption ==
  /\ {AgCount, AgBlocks, ChunkNino, DirBlocks} \subseteq Nat \ {0}
  /\ {AgBlkLog, InoPBLog} \subseteq Nat
  /\ {OffBits, HiBits, LoBits, CntBits} \subseteq Nat \ {0}
  /\ {BlockSize, LbaSize} \subseteq Nat \ {0} /\ BlockSize % LbaSize = 0
  /\ BlockSize <= ODF_BLOCK_FS_BYTES_MAX
  /\ AgBlocks <= 2^AgBlkLog
  /\ ChunkNino % 2^InoPBLog = 0

\* Laws of powers for the widths in use; the provers know no recursion.
Widths == 0 .. 1 + OffBits + HiBits + LoBits + CntBits + AgBlkLog + InoPBLog
ASSUME PowerAssumption ==
  /\ 2^0 = 1 /\ 2^1 = 2
  /\ \A n \in Widths : 2^n \in Nat \ {0}
  /\ \A j, k \in Widths : j + k \in Widths => 2^(j + k) = 2^j * 2^k

-----------------------------------------------------------------------------
\* C's shifts and masks on unsigned numbers.
Shr(x, n) == x \div 2^n
Mask(x, n) == x % 2^n

\* xal_ino_decode_relative(): the block in its allocation group and the
\* position in that block.  The number is passed as 32 bits.
ino_decode_relative(ino) ==
  [agbno |-> Mask(Shr(ino, InoPBLog), AgBlkLog), agbino |-> Mask(ino, InoPBLog)]

\* Where allocation group seqno begins (ag->offset).
ag_offset(seqno) == seqno * AgBlocks

agbno_absolute_offset(seqno, agbno) == seqno * AgBlocks + agbno

\* Mistakes the properties of XfsSystem must notice: the group's size taken
\* for a power of two; the high bits of a block number shifted too far; the
\* group left inside the number when an extent is converted.
Mutant_xal_fsbno_offset(fsbno) == fsbno
Mutant_decode_xfs_extent(l0, l1) ==
  [start_offset |-> Shr(Mask(2 * l0, 1 + OffBits + HiBits), HiBits + 1),
   start_block  |-> Mask(l0, HiBits) * 2^(LoBits + 1) + Shr(l1, CntBits),
   nblocks      |-> Mask(l1, CntBits),
   flag         |-> Shr(l1, LoBits + CntBits - 1)]
Mutant_xal_extent_in_lba(e) ==
  [start_offset |-> (e.start_offset * BlockSize) \div LbaSize,
   size         |-> (e.nblocks * BlockSize) \div LbaSize,
   start_block  |-> (e.start_block * BlockSize) \div LbaSize]

\* The case of the XFS backend: block numbers carry the group above the block.
xal_fsbno_offset(fsbno) ==
  Shr(fsbno, AgBlkLog) * AgBlocks + Mask(fsbno, AgBlkLog)

\* l0 holds the flag, the offset and the high bits of the block, l1 the low
\* bits and the count.  The flag is taken from the top of l1.
decode_xfs_extent(l0, l1) ==
  [start_offset |-> Shr(Mask(2 * l0, 1 + OffBits + HiBits), HiBits + 1),
   start_block  |-> Mask(l0, HiBits) * 2^LoBits + Shr(l1, CntBits),
   nblocks      |-> Mask(l1, CntBits),
   flag         |-> Shr(l1, LoBits + CntBits - 1)]

\* An extent in units of the device, for I/O on it.
xal_extent_in_bytes(e) ==
  [start_offset |-> e.start_offset * BlockSize,
   size         |-> e.nblocks * BlockSize,
   start_block  |-> xal_fsbno_offset(e.start_block) * BlockSize]

xal_extent_in_lba(e) ==
  [start_offset |-> (e.start_offset * BlockSize) \div LbaSize,
   size         |-> (e.nblocks * BlockSize) \div LbaSize,
   start_block  |-> (xal_fsbno_offset(e.start_block) * BlockSize) \div LbaSize]

-----------------------------------------------------------------------------
(* What the format says, as the reference of the properties: the record of  *)
(* an extent, the number of a block of the device, and the number of the    *)
(* inode stored at a place.                                                 *)

Encode(e) ==
  [l0 |-> (e.flag * 2^OffBits + e.off) * 2^HiBits + Shr(e.block, LoBits),
   l1 |-> Mask(e.block, LoBits) * 2^CntBits + e.n]

FsbnoAt(block) == (block \div AgBlocks) * 2^AgBlkLog + (block % AgBlocks)

InoAt(block, i) == FsbnoAt(block) * 2^InoPBLog + i
=============================================================================
