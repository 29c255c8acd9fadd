------------------------------ MODULE XfsIndex ------------------------------
(***************************************************************************)
(* xal_be_xfs_index() of src/xal_be_xfs.c: from the root inode on, each     *)
(* inode's on-disk form is decoded into the two pools.  The children of a   *)
(* directory are one array of inodes and the mapping of a file is one array *)
(* of extents, although most forms claim them piece by piece; the recursion *)
(* of process_ino() into the children begins when the array is complete.    *)
(* One step per element or block, so that a failing read or claim can come  *)
(* anywhere.  Names, sizes and the on-disk byte layout of entries are left  *)
(* out: an entry is the inode number and the type it holds.                 *)
(***************************************************************************)
EXTENDS XfsRetrieve, PoolOps

CONSTANTS
  PoolMax,     \* the number of elements xal_be_xfs_open() reserves
  GarbageIno   \* what a misread entry yields, the number of no inode

VARIABLES
  inodes, extents,   \* the two pools
  imem, emem,        \* their memory
  rootIdx,           \* xal->root_idx
  xpc,               \* where the indexing is
  self,              \* the element process_ino() works on
  stack,             \* the directories whose children are being processed
  ptrs,              \* pointers of a B+tree still to be followed
  recs, nleft,       \* extent records still to be decoded, blocks still expected
  blks, items,       \* directory blocks, and entries of one, still to be decoded
  xerr               \* what xal_index() returned

poolVars == <<inodes, extents, imem, emem>>
workVars == <<ptrs, recs, nleft, blks, items>>
walkVars == <<rootIdx, xpc, self, stack, workVars, xerr>>
indexVars == <<poolVars, walkVars>>

ZeroInode == [ino |-> 0, ftype |-> "none", parent |-> 0, idx |-> 0, count |-> 0]
ZeroExtent == [start_offset |-> 0, start_block |-> 0, nblocks |-> 0, flag |-> 0]
IdxNone == -1   \* XAL_POOL_IDX_NONE
Cells == 0 .. PoolMax - 1

IndexErrors == {"NONE", "EIO", "ENOSYS"} \cup PoolErrors

IndexTypeOK ==
  /\ inodes \in Pools /\ extents \in Pools
  /\ \A c \in Cells :
       /\ imem[c].ino \in Nat /\ imem[c].ftype \in {"none", "dir", "reg", "other"}
       /\ imem[c].idx \in Nat /\ imem[c].count \in Nat
       /\ imem[c].parent \in Cells \cup {IdxNone}
       /\ \A f \in DOMAIN ZeroExtent : emem[c][f] \in Nat
  /\ rootIdx \in Cells \cup {IdxNone}
  /\ xpc \in {"idle", "ino", "leaf", "extent", "dblock", "dentry", "node", "child"}
  /\ self \in Cells
  /\ stack \in Seq([dir : Cells, next : Nat])
  /\ xerr \in IndexErrors

\* The images: what the on-disk forms hold, and a reserve that the pools were
\* opened with.
Ftypes == {"none", "dir", "reg", "other"}
Words == [l0 : Nat, l1 : Nat]
DinodeOK(n) ==
  /\ n.fmt = "local" => n.ents \in Seq([ino : Nat, ftype : Ftypes])
  /\ n.fmt = "extents" => n.recs \in Seq(Words)
BlockOK(b) ==
  /\ b.magic \in {"XDB3", "XDD3"} =>
       b.items \in Seq([kind : {"entry", "dots", "unused"}, ino : Nat, ftype : Ftypes])
  /\ b.magic = "BMA3" /\ b.level = 0 => b.recs \in Seq(Words)
  /\ b.magic = "BMA3" /\ b.level > 0 => b.ptrs \in Seq(Nat)

ASSUME IndexAssumption ==
  /\ PoolMax \in Nat \ {0} /\ GarbageIno \in Nat
  /\ \A d \in Images :
       /\ d.rootino \in Nat
       /\ AgiTotal(d) \in 0 .. PoolMax
       /\ \A i \in DOMAIN d.dinode : DinodeOK(d.dinode[i])
       /\ \A b \in DOMAIN d.dev : BlockOK(d.dev[b])

\* xal_be_xfs_open(): both pools are mapped with room for nallocated elements
\* and grow by that number.
OpenPool == [reserved |-> PoolMax, allocated |-> nallocated,
             growby |-> nallocated, free |-> 0]

IndexInit ==
  /\ inodes = OpenPool /\ extents = OpenPool
  /\ imem = [c \in Cells |-> ZeroInode]
  /\ emem = [c \in Cells |-> ZeroExtent]
  /\ rootIdx = IdxNone
  /\ xpc = "idle" /\ self = 0 /\ stack = <<>>
  /\ ptrs = <<>> /\ recs = <<>> /\ nleft = 0 /\ blks = <<>> /\ items = <<>>
  /\ xerr = "NONE"

-----------------------------------------------------------------------------
\* An error is passed up through every level of the recursion; what has been
\* claimed stays where it is.
Return(e) ==
  /\ xpc' = "idle" /\ xerr' = e
  /\ self' = 0 /\ stack' = <<>>
  /\ ptrs' = <<>> /\ recs' = <<>> /\ nleft' = 0 /\ blks' = <<>> /\ items' = <<>>

\* The memory of a pool after a claim: what a growth zeroes.
Zeroed(mem, p, count, ok, zero) ==
  IF ok /\ count <= p.growby /\ NeedsGrow(p, count)
    THEN [c \in Cells |-> IF c \in GrowZeroes(p, p.growby) THEN zero ELSE mem[c]]
    ELSE mem

\* Mistakes the properties of XfsSystem must notice: an array that begins one
\* element early; a child processed again and again.
Mutant_FirstChild == inodes.free - 1
Mutant_Advanced(frame) == frame

\* xal_pool_clear() of one pool; its result is ignored.
Cleared(p, mem, zero, ok) ==
  IF ok THEN [pool |-> xal_pool_clear(p), mem |-> [c \in Cells |-> zero]]
        ELSE [pool |-> p, mem |-> mem]

\* xal_be_xfs_index() up to its call of process_ino().
IndexStart ==
  /\ xpc = "idle" /\ rpc = "idle"
  /\ heap # "NULL"
  /\ \E ok1, ok2, ok \in BOOLEAN :
       LET i == Cleared(inodes, imem, ZeroInode, ok1)
           e == Cleared(extents, emem, ZeroExtent, ok2)
           r == xal_pool_claim_inodes(i.pool, 1, ok)
           m == Zeroed(i.mem, i.pool, 1, ok, ZeroInode)
       IN /\ mprotect(inodes, PoolMax, ok1)
          /\ mprotect(extents, PoolMax, ok2)
          /\ mprotect(i.pool, i.pool.allocated + i.pool.growby, ok)
          /\ inodes' = r.pool /\ extents' = e.pool /\ emem' = e.mem
          /\ IF r.err = "OK"
               THEN /\ rootIdx' = i.pool.free
                    /\ imem' = [m EXCEPT ![i.pool.free] =
                                  [ino |-> disk.rootino, ftype |-> "dir",
                                   parent |-> IdxNone, idx |-> @.idx, count |-> 0]]
                    /\ xpc' = "ino" /\ self' = i.pool.free
                    /\ UNCHANGED <<stack, workVars, xerr>>
               ELSE /\ imem' = m
                    /\ Return(r.err)
                    /\ UNCHANGED rootIdx
  /\ UNCHANGED retrieveVars

IndexRefused ==
  /\ xpc = "idle" /\ rpc = "idle"
  /\ heap = "NULL"
  /\ Return("EINVAL")
  /\ UNCHANGED <<retrieveVars, poolVars, rootIdx>>

-----------------------------------------------------------------------------
\* dinodes_get(): the dinode of element c.
Known(ino) == ino \in DOMAIN dmap
Dinode(c) == disk.dinode[dinodes[dmap[imem[c].ino]]]

\* process_ino() takes the type from the entry, or from the inode when the
\* entry had none.
Ftype(c) == IF imem[c].ftype = "none" THEN Dinode(c).mode ELSE imem[c].ftype

Form(fmt, ftype) ==
  /\ xpc = "ino" /\ Known(imem[self].ino)
  /\ Dinode(self).fmt = fmt /\ Ftype(self) = ftype
  /\ ftype \in {"dir", "reg"}
  /\ UNCHANGED <<retrieveVars, rootIdx>>

\* The values of di_format that process_ino() knows; "dev" is one without data.
Formats == {"local", "extents", "btree", "dev"}

Unsupported ==
  /\ xpc = "ino"
  /\ \/ ~Known(imem[self].ino) /\ Return("EINVAL")
     \/ /\ Known(imem[self].ino)
        /\ \/ imem[self].ftype = "none" /\ Dinode(self).mode = "other" /\ Return("EINVAL")
           \/ /\ imem[self].ftype = "other" /\ Dinode(self).fmt \in Formats
              /\ Return("ENOSYS")
           \/ Dinode(self).fmt = "local" /\ Ftype(self) = "reg" /\ Return("ENOSYS")
           \/ Dinode(self).fmt = "dev" /\ Ftype(self) # "other" /\ Return("ENOSYS")
  /\ UNCHANGED <<retrieveVars, poolVars, rootIdx>>

\* An inode in any other format is passed over as if it had no contents.
UnknownFormat ==
  /\ xpc = "ino" /\ Known(imem[self].ino)
  /\ Dinode(self).fmt \notin Formats
  /\ imem[self].ftype # "none" \/ Dinode(self).mode \in {"dir", "reg"}
  /\ imem' = [imem EXCEPT ![self].ftype = Ftype(self)]
  /\ IF stack = <<>>
       THEN Return("OK")
       ELSE xpc' = "child" /\ UNCHANGED <<self, stack, workVars, xerr>>
  /\ UNCHANGED <<retrieveVars, inodes, extents, emem, rootIdx>>

\* The children of element c are complete: recurse into them.
Descend(c) ==
  /\ xpc' = "child"
  /\ stack' = Append(stack, [dir |-> c, next |-> 0])

\* process_dinode_dir_local(): the inode numbers of a short form directory
\* are all of eight bytes when i8count is positive; the code reads eight for
\* the first i8count entries only, and what follows is misread.
ShortFormIno(d, k) ==
  IF d.i8count = 0 \/ k <= d.i8count THEN d.ents[k].ino ELSE GarbageIno

DirLocal ==
  /\ Form("local", "dir")
  /\ \E ok \in BOOLEAN :
       LET d == Dinode(self)
           n == Len(d.ents)
           r == xal_pool_claim_inodes(inodes, n, ok)
           m == [Zeroed(imem, inodes, n, ok, ZeroInode) EXCEPT
                   ![self].ftype = "dir", ![self].count = n]
       IN /\ mprotect(inodes, inodes.allocated + inodes.growby, ok)
          /\ inodes' = r.pool
          /\ IF r.err = "OK"
               THEN /\ imem' = [c \in Cells |->
                         IF c \in inodes.free .. inodes.free + n - 1
                           THEN LET k == c - inodes.free + 1 IN
                                [m[c] EXCEPT !.ino = ShortFormIno(d, k),
                                             !.ftype = d.ents[k].ftype]
                           ELSE IF c = self THEN [m[c] EXCEPT !.idx = inodes.free]
                           ELSE m[c]]
                    /\ Descend(self)
                    /\ UNCHANGED <<self, workVars, xerr>>
               ELSE /\ imem' = m
                    /\ Return(r.err)
  /\ UNCHANGED <<extents, emem>>

\* The array of a directory begins where the pool ends: the entries are
\* claimed one by one behind it.
FirstChild == inodes.free

\* process_dinode_dir_extents() and process_dinode_dir_btree_root() up to
\* their first block.
DirExtents ==
  /\ Form("extents", "dir")
  /\ imem' = [imem EXCEPT ![self].ftype = "dir", ![self].idx = FirstChild]
  /\ xpc' = "extent"
  /\ recs' = Dinode(self).recs /\ nleft' = Dinode(self).size
  /\ UNCHANGED <<inodes, extents, emem, self, stack, ptrs, blks, items, xerr>>

\* The root of a directory's B+tree takes the level for the number of its
\* pointers: both are read from the same place.
RootPointers(d) == SubSeq(d.ptrs, 1, d.level)

DirBtree ==
  /\ Form("btree", "dir")
  /\ imem' = [imem EXCEPT ![self].ftype = "dir", ![self].idx = FirstChild]
  /\ IF Dinode(self).level < 1 \/ imem[self].count # 0
       THEN Return("EINVAL")
       ELSE /\ xpc' = "leaf"
            /\ ptrs' = RootPointers(Dinode(self))
            /\ UNCHANGED <<self, stack, recs, nleft, blks, items, xerr>>
  /\ UNCHANGED <<inodes, extents, emem>>

\* btree_lblock_process() of one pointer of a directory's root.
DirLeaf ==
  /\ xpc = "leaf" /\ ptrs # <<>>
  /\ LET b     == xal_fsbno_offset(Head(ptrs))
         block == disk.dev[b]
     IN \/ ReadFails(b) /\ Return("EIO")
        \/ Readable(b) /\ block.level > 0 /\ Return("ENOSYS")
        \/ Readable(b) /\ block.level = 0 /\ block.magic # "BMA3" /\ Return("EINVAL")
        \/ /\ Readable(b) /\ block.level = 0 /\ block.magic = "BMA3"
           /\ recs' = block.recs /\ ptrs' = Tail(ptrs) /\ xpc' = "extent"
           /\ UNCHANGED <<self, stack, nleft, blks, items, xerr>>
  /\ UNCHANGED <<retrieveVars, poolVars, rootIdx>>

\* The directory blocks of one extent.
BlocksOf(e) ==
  [k \in 1 .. (e.nblocks + DirBlocks - 1) \div DirBlocks |->
     e.start_block + (k - 1) * DirBlocks]

\* Only a directory in extent form looks at its size.
MoreExtents ==
  recs # <<>> /\ (Dinode(self).fmt = "extents" => nleft > 0)

DirExtent ==
  /\ xpc = "extent" /\ MoreExtents
  /\ LET e == decode_xfs_extent(Head(recs).l0, Head(recs).l1) IN
     /\ blks' = BlocksOf(e)
     /\ nleft' = IF Dinode(self).fmt = "extents" THEN nleft - e.nblocks ELSE nleft
  /\ recs' = Tail(recs)
  /\ xpc' = "dblock"
  /\ UNCHANGED <<retrieveVars, poolVars, rootIdx, self, stack, ptrs, items, xerr>>

DirExtentsDone ==
  /\ xpc = "extent" /\ ~MoreExtents
  /\ recs' = <<>> /\ nleft' = 0
  /\ IF Dinode(self).fmt = "btree"
       THEN xpc' = "leaf" /\ UNCHANGED stack
       ELSE Descend(self)
  /\ UNCHANGED <<retrieveVars, poolVars, rootIdx, self, ptrs, blks, items, xerr>>

DirLeavesDone ==
  /\ xpc = "leaf" /\ ptrs = <<>>
  /\ Descend(self)
  /\ UNCHANGED <<retrieveVars, poolVars, rootIdx, self, workVars, xerr>>

\* A block that is neither XDB3 nor XDD3 is not an error: the rest of the
\* leaf, in extent form only the block itself, is skipped.
DirBlock ==
  /\ xpc = "dblock" /\ blks # <<>>
  /\ LET b     == xal_fsbno_offset(Head(blks))
         block == disk.dev[b]
     IN \/ ReadFails(b) /\ Return("EIO")
        \/ /\ Readable(b) /\ block.magic \in {"XDB3", "XDD3"}
           /\ items' = block.items /\ blks' = Tail(blks) /\ xpc' = "dentry"
           /\ UNCHANGED <<self, stack, ptrs, recs, nleft, xerr>>
        \/ /\ Readable(b) /\ block.magic \notin {"XDB3", "XDD3"}
           /\ IF Dinode(self).fmt = "extents"
                THEN blks' = Tail(blks) /\ UNCHANGED recs
                ELSE blks' = <<>> /\ recs' = <<>>
           /\ UNCHANGED <<xpc, self, stack, ptrs, nleft, items, xerr>>
  /\ UNCHANGED <<retrieveVars, poolVars, rootIdx>>

DirBlocksDone ==
  /\ xpc = "dblock" /\ blks = <<>>
  /\ xpc' = "extent"
  /\ UNCHANGED <<retrieveVars, poolVars, rootIdx, self, stack, workVars, xerr>>

\* decode_dentry(): of an unused entry only the length is read, so that its
\* inode number is zero.
decode_dentry(item) ==
  IF item.kind = "unused" THEN ZeroInode
  ELSE [ZeroInode EXCEPT !.ino = item.ino, !.ftype = item.ftype]

\* The first entry without an inode number ends the block.
EndOfBlock == items = <<>> \/ decode_dentry(Head(items)).ino = 0

DentriesDone ==
  /\ xpc = "dentry" /\ EndOfBlock
  /\ items' = <<>> /\ xpc' = "dblock"
  /\ UNCHANGED <<retrieveVars, poolVars, rootIdx, self, stack, ptrs, recs, nleft, blks, xerr>>

\* '.' and '..' are skipped, any other entry is claimed and appended.
Dentry ==
  /\ xpc = "dentry" /\ ~EndOfBlock
  /\ \/ /\ Head(items).kind = "dots"
        /\ items' = Tail(items)
        /\ UNCHANGED <<inodes, imem, xpc, self, stack, ptrs, recs, nleft, blks, xerr>>
     \/ /\ Head(items).kind # "dots"
        /\ \E ok \in BOOLEAN :
             LET r == xal_pool_claim_inodes(inodes, 1, ok)
                 m == Zeroed(imem, inodes, 1, ok, ZeroInode)
             IN /\ mprotect(inodes, inodes.allocated + inodes.growby, ok)
                /\ inodes' = r.pool
                /\ IF r.err = "OK"
                     THEN /\ imem' = [m EXCEPT
                               ![inodes.free] = [decode_dentry(Head(items)) EXCEPT !.parent = self],
                               ![self].count = @ + 1]
                          /\ items' = Tail(items)
                          /\ UNCHANGED <<xpc, self, stack, ptrs, recs, nleft, blks, xerr>>
                     ELSE imem' = m /\ Return(r.err)
  /\ UNCHANGED <<retrieveVars, extents, emem, rootIdx>>

-----------------------------------------------------------------------------
\* Claim and decode the extent records of a file: a claim of its own for the
\* inline form and for every leaf of a B+tree.  A claim that succeeds leaves
\* the file's inode as given and goes on with pc and the pointers in rest.
StoreExtents(records, inode, pc, rest) ==
  \E ok \in BOOLEAN :
    LET n == Len(records)
        r == xal_pool_claim_extents(extents, n, ok)
        m == Zeroed(emem, extents, n, ok, ZeroExtent)
        first == extents.free
    IN /\ mprotect(extents, extents.allocated + extents.growby, ok)
       /\ extents' = r.pool
       /\ IF r.err = "OK"
            THEN /\ emem' = [c \in Cells |->
                      IF c \in first .. first + n - 1
                        THEN LET rec == records[c - first + 1] IN
                             decode_xfs_extent(rec.l0, rec.l1)
                        ELSE m[c]]
                 /\ imem' = [imem EXCEPT ![self] = inode]
                 /\ xpc' = pc /\ ptrs' = rest
                 /\ UNCHANGED <<self, stack, recs, nleft, blks, items, xerr>>
            ELSE /\ emem' = m
                 /\ imem' = [imem EXCEPT ![self].ftype = "reg"]
                 /\ Return(r.err)

FileExtents ==
  /\ Form("extents", "reg")
  /\ StoreExtents(Dinode(self).recs,
       [imem[self] EXCEPT !.ftype = "reg", !.idx = extents.free,
                          !.count = Len(Dinode(self).recs)],
       "child", <<>>)
  /\ UNCHANGED inodes

\* The pointers of a node at the given level lead to leaves or to nodes.
Followed(level, bnolist) ==
  [k \in DOMAIN bnolist |-> [bno |-> bnolist[k], leaf |-> level = 1]]

FileBtree ==
  /\ Form("btree", "reg")
  /\ LET d == Dinode(self) IN
     IF d.level < 1 \/ imem[self].count # 0
       THEN /\ imem' = [imem EXCEPT ![self].ftype = "reg"]
            /\ Return("EINVAL")
       ELSE /\ imem' = [imem EXCEPT ![self].ftype = "reg", ![self].idx = extents.free]
            /\ ptrs' = Followed(d.level, d.ptrs)
            /\ xpc' = "node"
            /\ UNCHANGED <<self, stack, recs, nleft, blks, items, xerr>>
  /\ UNCHANGED <<inodes, extents, emem>>

\* The code refuses blocks that do not fit on its stack; FormatAssumption
\* excludes them, for the functions that do not look as for this one.
FileNode ==
  /\ xpc = "node" /\ ptrs # <<>> /\ ~Head(ptrs).leaf
  /\ LET b     == xal_fsbno_offset(Head(ptrs).bno)
         block == disk.dev[b]
     IN \/ ReadFails(b) /\ Return("EIO")
        \/ Readable(b) /\ (block.magic # "BMA3" \/ block.level = 0) /\ Return("EINVAL")
        \/ /\ Readable(b) /\ block.magic = "BMA3" /\ block.level > 0
           /\ ptrs' = Followed(block.level, block.ptrs) \o Tail(ptrs)
           /\ UNCHANGED <<xpc, self, stack, recs, nleft, blks, items, xerr>>
  /\ UNCHANGED <<retrieveVars, poolVars, rootIdx>>

FileLeaf ==
  /\ xpc = "node" /\ ptrs # <<>> /\ Head(ptrs).leaf
  /\ LET b     == xal_fsbno_offset(Head(ptrs).bno)
         block == disk.dev[b]
     IN \/ ReadFails(b) /\ Return("EIO") /\ UNCHANGED <<imem, extents, emem>>
        \/ /\ Readable(b) /\ (block.magic # "BMA3" \/ block.level # 0)
           /\ Return("EINVAL") /\ UNCHANGED <<imem, extents, emem>>
        \/ /\ Readable(b) /\ block.magic = "BMA3" /\ block.level = 0
           /\ StoreExtents(block.recs,
                [imem[self] EXCEPT !.count = @ + Len(block.recs)], "node", Tail(ptrs))
  /\ UNCHANGED <<retrieveVars, inodes, rootIdx>>

FileDone ==
  /\ xpc = "node" /\ ptrs = <<>>
  /\ xpc' = "child"
  /\ UNCHANGED <<retrieveVars, poolVars, rootIdx, self, stack, workVars, xerr>>

-----------------------------------------------------------------------------
Advanced(frame) == [frame EXCEPT !.next = @ + 1]

\* The loops over the children; the short form sets the parent here.
NextChild ==
  /\ xpc = "child"
  /\ LET top   == Last(stack)
         child == imem[top.dir].idx + top.next
     IN /\ top.next < imem[top.dir].count
        /\ self' = child
        /\ stack' = Append(Front(stack), Advanced(top))
        /\ imem' = IF Dinode(top.dir).fmt = "local"
                     THEN [imem EXCEPT ![child].parent = top.dir] ELSE imem
  /\ xpc' = "ino"
  /\ UNCHANGED <<retrieveVars, inodes, extents, emem, rootIdx, workVars, xerr>>

\* The directory is done; so is xal_index() when it was the root.
ChildrenDone ==
  /\ xpc = "child"
  /\ Last(stack).next >= imem[Last(stack).dir].count
  /\ IF Len(stack) = 1
       THEN Return("OK")
       ELSE /\ stack' = Front(stack)
            /\ UNCHANGED <<xpc, self, workVars, xerr>>
  /\ UNCHANGED <<retrieveVars, poolVars, rootIdx>>

Indexing ==
  \/ Unsupported \/ UnknownFormat \/ DirLocal \/ DirExtents \/ DirBtree \/ FileExtents \/ FileBtree
  \/ DirLeaf \/ DirExtent \/ DirExtentsDone \/ DirLeavesDone
  \/ DirBlock \/ DirBlocksDone \/ Dentry \/ DentriesDone
  \/ FileNode \/ FileLeaf \/ FileDone
  \/ NextChild \/ ChildrenDone
=============================================================================
