----------------------------- MODULE XfsRetrieve -----------------------------
(***************************************************************************)
(* xal_dinodes_retrieve() of src/xal_be_xfs.c: every allocated inode of the *)
(* device is copied into one buffer, be->dinodes, and found again through   *)
(* the map be->dinodes_map.  The inodes are those that the records of the   *)
(* inode B+tree (IAB3) of each allocation group describe.  One step per     *)
(* block or chunk that is read from the device.                             *)
(***************************************************************************)
EXTENDS XfsFormat, FiniteSets, Functions, SequencesExt

CONSTANTS
  Images,         \* the file systems that may be on the device
  ReadMayFail     \* dev_read() may fail

VARIABLES
  disk,      \* what is on the device; nothing writes to it
  heap,      \* be->dinodes: "NULL", "allocated" or, never seen by the code, "freed"
  dinodes,   \* the inodes in that buffer, by number
  dmap,      \* be->dinodes_map: inode number to position in the buffer
  rpc,       \* where xal_dinodes_retrieve() is
  seqno,     \* the allocation group it is at
  bnos,      \* blocks of its inode B+tree still to be read
  irecs,     \* records of the current leaf still to be decoded
  rerr       \* what it returned

memVars == <<heap, dinodes, dmap>>
retrieveVars == <<disk, memVars, rpc, seqno, bnos, irecs, rerr>>

Groups == 0 .. AgCount - 1
Bnos == 0 .. AgBlocks - 1

RetrieveTypeOK ==
  /\ heap \in {"NULL", "allocated", "freed"}
  /\ dinodes \in Seq(Nat)
  /\ dmap \in [DOMAIN dmap -> 1 .. Len(dinodes)]
  /\ rpc \in {"idle", "block", "record"}
  /\ seqno \in Groups
  /\ bnos \in Seq(Nat)
  /\ Len(irecs) \in Nat
  /\ rerr \in {"NONE", "OK", "EIO", "EINVAL", "ENOMEM"}

\* Mistakes the properties of XfsSystem must notice: the count of one group
\* only; the last group left out; the dangling pointer kept.
Mutant_nallocated == disk.agi[AgCount - 1].count
Mutant_GroupDone ==
  /\ rpc = "block" /\ bnos = <<>>
  /\ IF seqno + 2 < AgCount
       THEN /\ seqno' = seqno + 1 /\ bnos' = <<disk.agi[seqno + 1].root>>
            /\ UNCHANGED <<rpc, rerr>>
       ELSE /\ rpc' = "idle" /\ rerr' = "OK" /\ seqno' = 0
            /\ UNCHANGED bnos
  /\ UNCHANGED <<disk, memVars, irecs>>
Mutant_RetrieveFail(e) ==
  /\ heap' = "freed" /\ rpc' = "idle" /\ rerr' = e
  /\ seqno' = 0 /\ bnos' = <<>> /\ irecs' = <<>>

\* sb.nallocated: the sum of agi_count over the allocation groups.
AgiTotal(image) == FoldFunction(+, 0, [s \in Groups |-> image.agi[s].count])
nallocated == AgiTotal(disk)

RetrieveInit ==
  /\ disk \in Images
  /\ heap = "NULL" /\ dinodes = <<>> /\ dmap = <<>>
  /\ rpc = "idle" /\ seqno = 0 /\ bnos = <<>> /\ irecs = <<>>
  /\ rerr = "NONE"

-----------------------------------------------------------------------------
\* The buffer is freed and forgotten; the map stays as it is.
RetrieveFail(e) ==
  /\ heap' = "NULL" /\ rpc' = "idle" /\ rerr' = e
  /\ seqno' = 0 /\ bnos' = <<>> /\ irecs' = <<>>

RetrieveStart ==
  /\ rpc = "idle"
  /\ dmap' = <<>>
  /\ \/ /\ heap' = "allocated" /\ dinodes' = <<>> /\ rpc' = "block"
        /\ bnos' = <<disk.agi[0].root>>
        /\ UNCHANGED rerr
     \/ \* calloc() fails
        /\ heap' = "NULL" /\ dinodes' = <<>> /\ rerr' = "ENOMEM"
        /\ UNCHANGED <<rpc, bnos>>
     \/ \* kh_init() fails: the buffer of an earlier call stays without a map
        /\ rerr' = "EINVAL"
        /\ UNCHANGED <<heap, dinodes, rpc, bnos>>
  /\ UNCHANGED <<disk, seqno, irecs>>

\* dev_read() fails, or the device ends before the block.
Readable(b) == b \in DOMAIN disk.dev
ReadFails(b) == ReadMayFail \/ ~Readable(b)

\* read_iab3_block() and the choice by level.
ReadIab3 ==
  /\ rpc = "block" /\ bnos # <<>>
  /\ LET b     == agbno_absolute_offset(seqno, Head(bnos))
         block == disk.dev[b]
     IN \/ ReadFails(b) /\ RetrieveFail("EIO")
        \/ /\ Readable(b)
           /\ block.magic # "IAB3" \/ block.level > 1
           /\ RetrieveFail("EINVAL")
        \/ /\ Readable(b) /\ block.magic = "IAB3" /\ block.level = 1
           /\ bnos' = block.ptrs \o Tail(bnos)
           /\ UNCHANGED <<heap, rpc, irecs, seqno, rerr>>
        \/ /\ Readable(b) /\ block.magic = "IAB3" /\ block.level = 0
           /\ irecs' = block.recs /\ bnos' = Tail(bnos) /\ rpc' = "record"
           /\ UNCHANGED <<heap, seqno, rerr>>
  /\ UNCHANGED <<disk, dinodes, dmap>>

\* The positions of a chunk that are copied: neither in the hole mask nor
\* free, and below the count of the record.  Each bit of the hole mask is
\* taken for one inode.
Used(rec) ==
  {i \in 0 .. rec.count - 1 : i \notin rec.holemask /\ i \notin rec.free}

\* The number of the inode at position i of the chunk that begins at block b.
ChunkIno(b, i) == InoAt(b + Shr(i, InoPBLog), Mask(i, InoPBLog))

\* The block of the device where the chunk of a record of group s begins.
ChunkAt(s, rec) == ag_offset(s) + ino_decode_relative(rec.startino).agbno

InOrder(S) ==
  {f \in [1 .. Cardinality(S) -> S] :
     Range(f) = S /\ \A j, k \in DOMAIN f : j < k => f[j] < f[k]}

\* decode_iab3_leaf_records(), one record: the chunk is read at the offset
\* its first inode decodes to, and its inodes are appended in order.
DecodeRecord ==
  /\ rpc = "record" /\ irecs # <<>>
  /\ \/ /\ ReadMayFail /\ RetrieveFail("EIO")
        /\ UNCHANGED <<dinodes, dmap>>
     \/ /\ \E pos \in InOrder(Used(Head(irecs))) :
             LET inos == [k \in DOMAIN pos |-> ChunkIno(ChunkAt(seqno, Head(irecs)), pos[k])]
             IN /\ dinodes' = dinodes \o inos
                /\ dmap' = [n \in DOMAIN dmap \cup Range(inos) |->
                     IF n \in Range(inos)
                       THEN Len(dinodes) + CHOOSE k \in DOMAIN inos : inos[k] = n
                       ELSE dmap[n]]
        /\ irecs' = Tail(irecs)
        /\ UNCHANGED <<heap, rpc, seqno, bnos, rerr>>
  /\ UNCHANGED disk

LeafDone ==
  /\ rpc = "record" /\ irecs = <<>>
  /\ rpc' = "block"
  /\ UNCHANGED <<disk, memVars, seqno, bnos, irecs, rerr>>

\* The next allocation group, or the end of xal_dinodes_retrieve().
GroupDone ==
  /\ rpc = "block" /\ bnos = <<>>
  /\ IF seqno + 1 < AgCount
       THEN /\ seqno' = seqno + 1 /\ bnos' = <<disk.agi[seqno + 1].root>>
            /\ UNCHANGED <<rpc, rerr>>
       ELSE /\ rpc' = "idle" /\ rerr' = "OK" /\ seqno' = 0
            /\ UNCHANGED bnos
  /\ UNCHANGED <<disk, memVars, irecs>>

-----------------------------------------------------------------------------
(* The images.  Of a record and of a block of the inode B+tree: the inodes   *)
(* they describe, where the block can be read; a retrieval that comes to a   *)
(* block that is no such block fails, so that nothing is missing behind it.  *)

Irecs == [startino : Nat, holemask : SUBSET Nat, count : Nat, free : SUBSET Nat]
Inos(s, rec) == {ChunkIno(ChunkAt(s, rec), i) : i \in Used(rec)}
Iab3At(d, s, bno) == d.dev[agbno_absolute_offset(s, bno)]
IsIab3(d, s, bno, level) ==
  /\ agbno_absolute_offset(s, bno) \in DOMAIN d.dev
  /\ Iab3At(d, s, bno).magic = "IAB3" /\ Iab3At(d, s, bno).level = level
RecInos(d, s, bno) ==
  IF IsIab3(d, s, bno, 0)
    THEN UNION {Inos(s, Iab3At(d, s, bno).recs[k]) : k \in DOMAIN Iab3At(d, s, bno).recs}
    ELSE {}
Leaf(d, s, bno) == IF IsIab3(d, s, bno, 0) THEN RecInos(d, s, bno) ELSE DOMAIN d.dinode
Below(d, s, bno) ==
  IF IsIab3(d, s, bno, 1)
    THEN UNION {Leaf(d, s, Iab3At(d, s, bno).ptrs[k]) : k \in DOMAIN Iab3At(d, s, bno).ptrs}
    ELSE Leaf(d, s, bno)

\* Every chunk has all of its inodes.
NoSparse(d) ==
  \A s \in Groups, bno \in Bnos :
    IsIab3(d, s, bno, 0) =>
      \A k \in DOMAIN Iab3At(d, s, bno).recs :
        Iab3At(d, s, bno).recs[k].holemask = {} /\ Iab3At(d, s, bno).recs[k].count = ChunkNino

\* No inode is described twice, and the group headers count them all.
TreeInos(d, s, bno) ==
  IF IsIab3(d, s, bno, 1)
    THEN UNION {RecInos(d, s, Iab3At(d, s, bno).ptrs[k]) : k \in DOMAIN Iab3At(d, s, bno).ptrs}
    ELSE RecInos(d, s, bno)
Apart(f) == \A j, k \in DOMAIN f : j # k => f[j] \cap f[k] = {}
NoOverlap(d) ==
  /\ Apart([s \in Groups |-> TreeInos(d, s, d.agi[s].root)])
  /\ \A s \in Groups, bno \in Bnos :
       LET block == Iab3At(d, s, bno)
       IN /\ IsIab3(d, s, bno, 0) => Apart([k \in DOMAIN block.recs |-> Inos(s, block.recs[k])])
          /\ IsIab3(d, s, bno, 1) => Apart([k \in DOMAIN block.ptrs |-> RecInos(d, s, block.ptrs[k])])
WellCounted(d) ==
  /\ NoOverlap(d)
  /\ IsFiniteSet(DOMAIN d.dinode) /\ Cardinality(DOMAIN d.dinode) <= AgiTotal(d)

\* The pointers of an inode B+tree stay in its group, below a node of level
\* one come leaves, a record describes inodes that are there, from the first
\* of a block on, as the code asserts, and without sparse chunks the records
\* describe all of them.
ImageOK(d) ==
  /\ DOMAIN d.dinode \subseteq Nat
  /\ \A s \in Groups : d.agi[s].root \in Bnos
  /\ \A s \in Groups, bno \in Bnos :
       /\ IsIab3(d, s, bno, 1) =>
            /\ Iab3At(d, s, bno).ptrs \in Seq(Bnos)
            /\ \A k \in DOMAIN Iab3At(d, s, bno).ptrs : ~IsIab3(d, s, Iab3At(d, s, bno).ptrs[k], 1)
       /\ IsIab3(d, s, bno, 0) =>
            /\ Iab3At(d, s, bno).recs \in Seq(Irecs)
            /\ \A k \in DOMAIN Iab3At(d, s, bno).recs :
                 ino_decode_relative(Iab3At(d, s, bno).recs[k].startino).agbino = 0
            /\ Leaf(d, s, bno) \subseteq DOMAIN d.dinode
  /\ NoSparse(d) =>
       \A ino \in DOMAIN d.dinode : \E s \in Groups : ino \in Below(d, s, d.agi[s].root)

ASSUME RetrieveAssumption ==
  /\ ReadMayFail \in BOOLEAN
  /\ \A d \in Images : ImageOK(d)
-----------------------------------------------------------------------------
Retrieving == ReadIab3 \/ DecodeRecord \/ LeafDone \/ GroupDone
=============================================================================
