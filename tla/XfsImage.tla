------------------------------ MODULE XfsImage ------------------------------
(***************************************************************************)
(* What is on a device whose file system is consistent: the reference that  *)
(* IndexMatchesDisk and AcceptsValidDisk of XfsSystem are proved against.   *)
(* Block numbers and extent records are read by the definitions of the      *)
(* format (FsbnoAt, Encode), never by the functions of the code.  An image  *)
(* names the children of each directory (listing) and the extents of each   *)
(* file (mapping); here the bytes on the device are said to hold them, in   *)
(* whichever form, within what xal_be_xfs.c is able to read.                *)
(***************************************************************************)
EXTENDS XfsIndex

\* The block with a number, and the extent in a record.
OnDevice(d, fsbno) == \E b \in DOMAIN d.dev : FsbnoAt(b) = fsbno
At(d, fsbno) == CHOOSE b \in DOMAIN d.dev : FsbnoAt(b) = fsbno
BlockAt(d, fsbno) == d.dev[At(d, fsbno)]

Fitting == [off : 0 .. 2^OffBits - 1, block : 0 .. 2^HiBits * 2^LoBits - 1,
            n : 0 .. 2^CntBits - 1, flag : 0 .. 1]
IsRecord(rec) == \E e \in Fitting : Encode(e) = rec
ExtentIn(rec) == CHOOSE e \in Fitting : Encode(e) = rec
Records(map) == [k \in DOMAIN map |-> Encode(map[k])]

-----------------------------------------------------------------------------
\* The entries of a directory, in the order of its blocks.
EntryOf(item) == IF item.kind = "entry" THEN <<item.ino>> ELSE <<>>
EntriesIn(list) == FlattenSeq([k \in DOMAIN list |-> EntryOf(list[k])])

IsData(d, fsbno) == BlockAt(d, fsbno).magic \in {"XDB3", "XDD3"}
BlockEntries(d, fsbno) == IF IsData(d, fsbno) THEN EntriesIn(BlockAt(d, fsbno).items) ELSE <<>>
BlocksEntries(d, list) == FlattenSeq([k \in DOMAIN list |-> BlockEntries(d, list[k])])

RecBlocks(rec) == BlocksOf([start_block |-> ExtentIn(rec).block, nblocks |-> ExtentIn(rec).n])
RecEntries(d, rec) == BlocksEntries(d, RecBlocks(rec))
RecsEntries(d, list) == FlattenSeq([k \in DOMAIN list |-> RecEntries(d, list[k])])

LeafEntries(d, fsbno) == RecsEntries(d, BlockAt(d, fsbno).recs)
LeavesEntries(d, list) == FlattenSeq([k \in DOMAIN list |-> LeafEntries(d, list[k])])

-----------------------------------------------------------------------------
\* An entry has the type of what it names, or none.
Named(d, ino, ftype) ==
  \/ ino \in DOMAIN d.listing /\ ftype \in {"none", "dir"}
  \/ ino \in DOMAIN d.mapping /\ ftype \in {"none", "reg"}

\* A block of entries: from the first unused one on there is no other.
ItemsOK(d, list) ==
  /\ \A k \in DOMAIN list :
       /\ list[k].kind # "unused" => list[k].ino # 0
       /\ list[k].kind = "entry" => Named(d, list[k].ino, list[k].ftype)
  /\ \A j, k \in DOMAIN list : j < k /\ list[j].kind = "unused" => list[k].kind # "entry"

DataOK(d, fsbno) ==
  OnDevice(d, fsbno) /\ (IsData(d, fsbno) => ItemsOK(d, BlockAt(d, fsbno).items))
RecOK(d, rec) ==
  IsRecord(rec) /\ \A k \in DOMAIN RecBlocks(rec) : DataOK(d, RecBlocks(rec)[k])
AllData(d, list) == \A k \in DOMAIN list : IsData(d, list[k])
NoData(d, list) == \A k \in DOMAIN list : ~IsData(d, list[k])

\* Extent form: in order of their offsets, and entries below the size only.
InOrderOf(list) ==
  \A j, k \in DOMAIN list : j < k =>
    ExtentIn(list[j]).off + ExtentIn(list[j]).n <= ExtentIn(list[k]).off
BelowSize(d, list, size) ==
  \A k \in DOMAIN list : ExtentIn(list[k]).off >= size => NoData(d, RecBlocks(list[k]))

\* A leaf of a directory: the blocks with entries come first.
DataFirst(d, list) ==
  \A j \in DOMAIN list :
    \/ AllData(d, RecBlocks(list[j]))
    \/ \A k \in DOMAIN list : j <= k => NoData(d, RecBlocks(list[k]))
LeafOK(d, fsbno) ==
  /\ OnDevice(d, fsbno)
  /\ BlockAt(d, fsbno).magic = "BMA3" /\ BlockAt(d, fsbno).level = 0
  /\ \A k \in DOMAIN BlockAt(d, fsbno).recs : RecOK(d, BlockAt(d, fsbno).recs[k])
  /\ DataFirst(d, BlockAt(d, fsbno).recs)

\* The forms of a directory.  In short form either no inode number is wide or
\* i8count covers all; a B+tree has one level and as many leaves as the code
\* takes its level to say.
LocalHolds(d, n, list) ==
  /\ n.i8count \in Nat /\ (n.i8count = 0 \/ n.i8count >= Len(n.ents))
  /\ \A k \in DOMAIN n.ents : Named(d, n.ents[k].ino, n.ents[k].ftype)
  /\ list = [k \in DOMAIN n.ents |-> n.ents[k].ino]
ExtentsHold(d, n, list) ==
  /\ n.size \in Nat
  /\ \A k \in DOMAIN n.recs : RecOK(d, n.recs[k])
  /\ InOrderOf(n.recs) /\ BelowSize(d, n.recs, n.size)
  /\ list = RecsEntries(d, n.recs)
LeavesHold(d, n, list) ==
  /\ n.ptrs \in Seq(Nat) /\ n.level \in Nat /\ n.level >= 1 /\ Len(n.ptrs) = n.level
  /\ \A k \in DOMAIN n.ptrs : LeafOK(d, n.ptrs[k])
  /\ list = LeavesEntries(d, n.ptrs)
DirHolds(d, n, list) ==
  /\ n.mode = "dir"
  /\ n.fmt \in {"local", "extents", "btree"}
  /\ n.fmt = "local" => LocalHolds(d, n, list)
  /\ n.fmt = "extents" => ExtentsHold(d, n, list)
  /\ n.fmt = "btree" => LeavesHold(d, n, list)

-----------------------------------------------------------------------------
\* The records below the blocks of a level of a file's B+tree: those blocks
\* from which the whole tree can be read, each with its records in order.
Nodes(d, level) == {b \in DOMAIN d.dev : d.dev[b].magic = "BMA3" /\ d.dev[b].level = level}
Leads(d, b, below) ==
  \A k \in DOMAIN d.dev[b].ptrs :
    OnDevice(d, d.dev[b].ptrs[k]) /\ At(d, d.dev[b].ptrs[k]) \in DOMAIN below
Joined(d, list, below) == FlattenSeq([k \in DOMAIN list |-> below[At(d, list[k])]])
LeafRecs(d) == [b \in Nodes(d, 0) |-> d.dev[b].recs]
NodeRecs(d, level, below) ==
  [b \in {x \in Nodes(d, level) : Leads(d, x, below)} |-> Joined(d, d.dev[b].ptrs, below)]
FileTrees(d) ==
  LET t[level \in Nat] == IF level = 0 THEN LeafRecs(d) ELSE NodeRecs(d, level, t[level - 1])
  IN t

\* The records below the pointers of a node of the given level.
TreeHolds(d, level, list, map) ==
  /\ list \in Seq(Nat) /\ level \in Nat /\ level >= 1
  /\ \A k \in DOMAIN list :
       OnDevice(d, list[k]) /\ At(d, list[k]) \in DOMAIN FileTrees(d)[level - 1]
  /\ Records(map) = Joined(d, list, FileTrees(d)[level - 1])

\* The forms of a file, whose extents lie in one allocation group each.
InGroup(e) ==
  /\ e.block \div 2^AgBlkLog < AgCount
  /\ (e.block % 2^AgBlkLog) + e.n <= AgBlocks
FileHolds(d, n, map) ==
  /\ n.mode = "reg"
  /\ n.fmt \in {"extents", "btree"}
  /\ map \in Seq(Fitting) /\ \A k \in DOMAIN map : InGroup(map[k])
  /\ n.fmt = "extents" => n.recs = Records(map)
  /\ n.fmt = "btree" => TreeHolds(d, n.level, n.ptrs, map)

Consistent(d) ==
  /\ DOMAIN d.dev \subseteq Nat
  /\ DOMAIN d.listing \cap DOMAIN d.mapping = {}
  /\ DOMAIN d.listing \cup DOMAIN d.mapping \subseteq DOMAIN d.dinode
  /\ d.rootino \in DOMAIN d.listing
  /\ \A i \in DOMAIN d.listing : DirHolds(d, d.dinode[i], d.listing[i])
  /\ \A i \in DOMAIN d.mapping : FileHolds(d, d.dinode[i], d.mapping[i])
-----------------------------------------------------------------------------
(* What the code asks for besides, so that nothing but the device and the    *)
(* memory can fail.  It reads inode B+trees of at most two levels; and the   *)
(* elements of a short form directory, of an inline extent list and of a     *)
(* leaf are claimed at once, while a pool refuses a claim that is larger     *)
(* than its growth, the number of inodes that the group headers count.       *)

Iab3Reads(d, s, bno) ==
  \/ IsIab3(d, s, bno, 0)
  \/ /\ IsIab3(d, s, bno, 1)
     /\ \A k \in DOMAIN Iab3At(d, s, bno).ptrs : IsIab3(d, s, Iab3At(d, s, bno).ptrs[k], 0)
ClaimsFit(d, n) ==
  /\ n >= 1
  /\ \A i \in DOMAIN d.listing : d.dinode[i].fmt = "local" => Len(d.dinode[i].ents) <= n
  /\ \A i \in DOMAIN d.mapping : d.dinode[i].fmt = "extents" => Len(d.dinode[i].recs) <= n
  /\ \A b \in Nodes(d, 0) : Len(d.dev[b].recs) <= n
Indexable(d) ==
  /\ \A s \in Groups : Iab3Reads(d, s, d.agi[s].root)
  /\ ClaimsFit(d, AgiTotal(d))
=============================================================================
