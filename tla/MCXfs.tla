-------------------------------- MODULE MCXfs --------------------------------
(***************************************************************************)
(* Small XFS file systems: two allocation groups of eleven blocks, inodes   *)
(* in chunks of four, directory blocks of two blocks.  The same tree is     *)
(* laid out in every combination of the forms XFS has for it.               *)
(***************************************************************************)
EXTENDS XfsSystem, XfsImage

Fsbno(seq, bno) == seq * 2^AgBlkLog + bno
Entry(ino, ftype) == [kind |-> "entry", ino |-> ino, ftype |-> ftype]
Dots(ino) == <<[kind |-> "dots", ino |-> ino, ftype |-> "dir"],
               [kind |-> "dots", ino |-> ino, ftype |-> "dir"]>>
Unused == [kind |-> "unused", ino |-> 0, ftype |-> "none"]
DirBlk(magic, its) == [magic |-> magic, items |-> its]
Bma(level, list, pointers) == [magic |-> "BMA3", level |-> level, recs |-> list, ptrs |-> pointers]
Iab3(level, list, pointers) == [magic |-> "IAB3", level |-> level, recs |-> list, ptrs |-> pointers]
NoBlock == [magic |-> "none", level |-> 0]

Device(blocks) == [b \in 0 .. 2 * AgCount * 2^AgBlkLog - 1 |->
                     IF b \in DOMAIN blocks THEN blocks[b] ELSE NoBlock]

\* Inodes: 2 to 5 in the first group, 34 to 37 in the second.
RootIno == 2  SubIno == 3  FileIno == 4  BigIno == 34  EmptyIno == 35

Rec(off, block, n, flag) == [off |-> off, block |-> block, n |-> n, flag |-> flag]
Encoded(list) == [k \in DOMAIN list |-> Encode(list[k])]
BigMap == <<Rec(0, 20, 1, 0), Rec(2, 5, 3, 1), Rec(5, 25, 2, 0)>>
FileMap == <<Rec(1, 8, 3, 0)>>

IsDir(ino) == ino \in {RootIno, SubIno, EmptyIno}
EntryType(ino, typed) == IF ~typed THEN "none" ELSE IF IsDir(ino) THEN "dir" ELSE "reg"

LocalDir(list, i8, typed) ==
  [mode |-> "dir", fmt |-> "local", i8count |-> i8,
   ents |-> [k \in DOMAIN list |-> [ino |-> list[k], ftype |-> EntryType(list[k], typed)]]]
\* The data blocks of the root, one in each group, and its hash index.
RootExtents == <<Rec(0, Fsbno(0, 4), 2, 0), Rec(2, Fsbno(1, 8), 2, 0), Rec(7, Fsbno(0, 8), 2, 0)>>

RootForm(form, list, typed) ==
  IF form = "local" THEN LocalDir(list, 0, typed)
  ELSE IF form = "extents"
         THEN [mode |-> "dir", fmt |-> "extents", size |-> 4, recs |-> Encoded(RootExtents)]
         ELSE [mode |-> "dir", fmt |-> "btree", level |-> 1, ptrs |-> <<Fsbno(0, 10)>>]
SubForm(form, list, typed) ==
  IF form = "block"
    THEN [mode |-> "dir", fmt |-> "extents", size |-> 2, recs |-> Encoded(<<Rec(0, Fsbno(0, 6), 2, 0)>>)]
    ELSE LocalDir(list, IF form = "wide" THEN Len(list) ELSE 0, typed)
FileForm(form) ==
  IF form = "inline" THEN [mode |-> "reg", fmt |-> "extents", recs |-> Encoded(BigMap)]
  ELSE IF form = "leaves"
         THEN [mode |-> "reg", fmt |-> "btree", level |-> 1, ptrs |-> <<Fsbno(1, 4), Fsbno(1, 5)>>]
         ELSE [mode |-> "reg", fmt |-> "btree", level |-> 2, ptrs |-> <<Fsbno(1, 6), Fsbno(1, 7)>>]

\* gap: an entry before the first one of the root has been removed.
Blocks(rootList, subList, typed, gap, iab3) ==
  LET e(ino) == Entry(ino, EntryType(ino, typed)) IN
  (4 :> DirBlk("XDD3", Dots(RootIno) \o (IF gap THEN <<Unused>> ELSE <<>>)
                         \o <<e(rootList[1]), Unused>>))
  @@ (19 :> DirBlk("XDD3", [k \in 1 .. Len(rootList) - 1 |-> e(rootList[k + 1])] \o <<Unused>>))
  @@ (6 :> DirBlk("XDB3", Dots(SubIno) \o [k \in DOMAIN subList |-> e(subList[k])] \o <<Unused>>))
  @@ (8 :> DirBlk("XDLF", <<>>))
  @@ (10 :> Bma(0, Encoded(RootExtents), <<>>))
  @@ (15 :> Bma(0, Encoded(SubSeq(BigMap, 1, 2)), <<>>))
  @@ (16 :> Bma(0, Encoded(SubSeq(BigMap, 3, 3)), <<>>))
  @@ (17 :> Bma(1, <<>>, <<Fsbno(1, 4)>>))
  @@ (18 :> Bma(1, <<>>, <<Fsbno(1, 5)>>))
  @@ iab3

Chunk(free) == [startino |-> 2, holemask |-> {}, count |-> ChunkNino, free |-> free]

\* A tree over both groups; the second group's inode B+tree has two levels.
Large(root, sub, file, typed, gap) ==
  LET list == <<SubIno, BigIno, FileIno>>
      subl == <<EmptyIno, BigIno>>
  IN [valid |-> TRUE, rootino |-> RootIno,
      agi |-> [s \in 0 .. 1 |-> [count |-> 4, root |-> 3]],
      dev |-> Device(Blocks(list, subl, typed, gap,
                (3 :> Iab3(0, <<Chunk({3})>>, <<>>))
                @@ (14 :> Iab3(1, <<>>, <<10>>)) @@ (21 :> Iab3(0, <<Chunk({2, 3})>>, <<>>)))),
      dinode |-> (RootIno :> RootForm(root, list, typed)) @@ (SubIno :> SubForm(sub, subl, typed))
                 @@ (FileIno :> [mode |-> "reg", fmt |-> "extents", recs |-> Encoded(FileMap)])
                 @@ (BigIno :> FileForm(file)) @@ (EmptyIno :> LocalDir(<<>>, 0, typed)),
      listing |-> (RootIno :> list) @@ (SubIno :> subl) @@ (EmptyIno :> <<>>),
      mapping |-> (FileIno :> FileMap) @@ (BigIno :> BigMap)]

\* Fewer inodes than directory entries, which are hard links: the pools grow.
Linked(root, sub, rec, typed) ==
  LET list == IF FileIno - 2 \in 0 .. rec.count - 1 THEN <<SubIno, FileIno, FileIno>> ELSE <<SubIno>>
      subl == Tail(list)
      file == IF Len(list) > 1 THEN FileIno :> FileMap ELSE <<>>
  IN [valid |-> TRUE, rootino |-> RootIno,
      agi |-> (0 :> [count |-> rec.count, root |-> 3]) @@ (1 :> [count |-> 0, root |-> 3]),
      dev |-> Device(Blocks(list, subl, typed, FALSE,
                (3 :> Iab3(0, <<rec>>, <<>>)) @@ (14 :> Iab3(0, <<>>, <<>>)))),
      dinode |-> (RootIno :> RootForm(root, list, typed)) @@ (SubIno :> SubForm(sub, subl, typed))
                 @@ [i \in DOMAIN file |-> [mode |-> "reg", fmt |-> "extents", recs |-> Encoded(FileMap)]],
      listing |-> (RootIno :> list) @@ (SubIno :> subl),
      mapping |-> file]

RootForms == {"local", "extents", "btree"}
SubForms == {"local", "wide", "block"}

\* Damaged file systems, and what the backend does not support.
Base == [Large("btree", "block", "nodes", TRUE, FALSE) EXCEPT !.valid = FALSE]
Plain == [Large("local", "block", "leaves", FALSE, FALSE) EXCEPT !.valid = FALSE]
Damaged == <<
  [Base EXCEPT !.dev[3].magic = "none"],          \* inode B+tree: block
  [Base EXCEPT !.dev[14].level = 2],              \* three levels
  [Base EXCEPT !.dinode[RootIno].level = 0],      \* directory B+tree: root
  [Base EXCEPT !.dev[10].level = 1],              \* a node below the root
  [Base EXCEPT !.dev[10].magic = "none"],
  [Base EXCEPT !.dev[6].magic = "none"],          \* directory block
  [Base EXCEPT !.dev[19].items[1].ino = 5],       \* entry of a free inode
  [Base EXCEPT !.dev[19].items[1].ftype = "other"],   \* symbolic link
  [Base EXCEPT !.dinode[FileIno] = [mode |-> "reg", fmt |-> "local", i8count |-> 0, ents |-> <<>>]],
  [Base EXCEPT !.dinode[FileIno].fmt = "dev"],
  [Plain EXCEPT !.dinode[FileIno].mode = "other"],
  [Base EXCEPT !.dinode[RootIno].fmt = "rmap"],   \* unknown formats
  [Plain EXCEPT !.dinode[FileIno].fmt = "rmap"],
  [Base EXCEPT !.dinode[BigIno].level = 0],       \* file B+tree
  [Base EXCEPT !.dev[17].magic = "none"],
  [Plain EXCEPT !.dev[15].magic = "none"] >>

MCImages ==
  {Large(r, s, f, t, FALSE) : r \in RootForms, s \in SubForms,
                              f \in {"inline", "leaves", "nodes"}, t \in BOOLEAN}
  \cup {Linked(r, s, Chunk({3}), t) : r \in RootForms, s \in SubForms, t \in BOOLEAN}
  \cup {Damaged[i] : i \in DOMAIN Damaged}

\* The images, and the size of the pools, are what the theorems of
\* XfsSystem_proofs and XfsTree_proofs ask for.
ASSUME ImagesAssumption ==
  /\ \A d \in MCImages :
       NoSparse(d) /\ WellCounted(d) /\ (d.valid => Consistent(d) /\ Indexable(d))
  /\ PoolMax <= IdxMax

\* A directory from which an entry has been removed.
MCRemoved == {Large("extents", "local", "inline", TRUE, TRUE)}

\* A sparse chunk: the second half of it, one bit of the hole mask for two
\* inodes, is not there.
MCSparse ==
  {Linked("local", "local",
           [startino |-> 2, holemask |-> {1}, count |-> 2, free |-> {2, 3}], TRUE)}
=============================================================================
