------------------------------ MODULE XfsSystem ------------------------------
(***************************************************************************)
(* The XFS backend as a client uses it: xal_dinodes_retrieve() and          *)
(* xal_index(), in any order and again after an error, on one thread.       *)
(***************************************************************************)
EXTENDS XfsIndex

CONSTANT MaxCalls   \* bound on the calls of the client

ASSUME CallsAssumption == MaxCalls \in Nat

VARIABLE calls

vars == <<retrieveVars, indexVars, calls>>

TypeOK ==
  /\ RetrieveTypeOK
  /\ IndexTypeOK
  /\ calls \in 0 .. MaxCalls

Init ==
  /\ RetrieveInit
  /\ IndexInit
  /\ calls = 0

CallRetrieve ==
  /\ xpc = "idle" /\ calls < MaxCalls
  /\ calls' = calls + 1
  /\ RetrieveStart
  /\ UNCHANGED indexVars

\* A buffer without a map (a repeated retrieval failed at once) passes the
\* test of xal_be_xfs_index(), and the process dies at the first lookup.
MapIsNull == heap = "allocated" /\ rerr = "EINVAL"

CallIndex ==
  /\ calls < MaxCalls /\ ~MapIsNull
  /\ calls' = calls + 1
  /\ IndexStart \/ IndexRefused

\* The process that dies makes no more calls, and leaves nothing to call on.
IndexDies ==
  /\ xpc = "idle" /\ rpc = "idle" /\ MapIsNull
  /\ calls < MaxCalls /\ calls' = MaxCalls
  /\ UNCHANGED <<retrieveVars, indexVars>>

Retrieve == Retrieving /\ UNCHANGED <<indexVars, calls>>
Index == Indexing /\ UNCHANGED calls

Next == CallRetrieve \/ CallIndex \/ IndexDies \/ Retrieve \/ Index

Spec == Init /\ [][Next]_vars

\* A call that has begun runs on.
FairSpec == Spec /\ WF_vars(Retrieve) /\ WF_vars(Index)

-----------------------------------------------------------------------------
\* The elements the last index claimed, and the parts of the pools they own.
Claimed == IF rootIdx = IdxNone THEN {} ELSE rootIdx .. inodes.free - 1
Array(c) == imem[c].idx .. imem[c].idx + imem[c].count - 1
OfType(ftype) == {c \in Claimed : imem[c].ftype = ftype /\ imem[c].count > 0}

\* decode_iab3_leaf_records(): a retrieval that succeeds has found every
\* allocated inode and no other, at the place the map says.
RetrievesAllocated ==
  rpc = "idle" /\ rerr = "OK" =>
    /\ DOMAIN dmap = DOMAIN disk.dinode
    /\ \A ino \in DOMAIN dmap : dinodes[dmap[ino]] = ino

\* The inodes that are copied fit in the buffer xal_dinodes_retrieve()
\* allocates from the counts of the group headers.
DinodesFitBuffer == Len(dinodes) <= nallocated

\* xal_be_xfs_index() never runs on the buffer that a failed retrieval freed.
IndexesLiveBuffer == xpc # "idle" => heap = "allocated"

\* A successful xal_index() has built the tree that is on the disk: the
\* children of every directory in order, linked to it, and the whole mapping
\* of every file, whatever form each has on disk and whatever an earlier,
\* perhaps failed, index left in the pools.
DirMatches(c) ==
  /\ [k \in 1 .. imem[c].count |-> imem[imem[c].idx + k - 1].ino] = disk.listing[imem[c].ino]
  /\ \A k \in Array(c) : imem[k].parent = c
FileMatches(c) ==
  [k \in 1 .. imem[c].count |->
     LET e == emem[imem[c].idx + k - 1] IN <<e.start_offset, e.start_block, e.nblocks>>]
  = [k \in DOMAIN disk.mapping[imem[c].ino] |->
       LET e == disk.mapping[imem[c].ino][k] IN <<e.off, e.block, e.n>>]
IndexMatchesDisk ==
  disk.valid /\ xpc = "idle" /\ xerr = "OK" =>
    /\ imem[rootIdx].ino = disk.rootino
    /\ \A c \in Claimed : IF imem[c].ino \in DOMAIN disk.listing
                            THEN imem[c].ftype = "dir" /\ DirMatches(c)
                            ELSE imem[c].ftype = "reg" /\ FileMatches(c)

\* What the index is for: the logical blocks of the device that the extents of
\* a file convert to are those that hold its data, in blocks and in bytes,
\* over all allocation groups.
Lbas(x) == x.start_block .. x.start_block + x.size - 1
LbasOf(map) ==
  {l \in 0 .. (AgCount * AgBlocks * BlockSize) \div LbaSize - 1 :
     \E k \in DOMAIN map :
       FsbnoAt((l * LbaSize) \div BlockSize) \in map[k].block .. map[k].block + map[k].n - 1}
ExtentsAddressDevice ==
  disk.valid /\ xpc = "idle" /\ xerr = "OK" =>
    \A c \in OfType("reg") :
      /\ UNION {Lbas(xal_extent_in_lba(emem[k])) : k \in Array(c)}
           = LbasOf(disk.mapping[imem[c].ino])
      /\ \A k \in Array(c) : \A field \in {"start_offset", "size", "start_block"} :
           xal_extent_in_bytes(emem[k])[field] = xal_extent_in_lba(emem[k])[field] * LbaSize

\* "no one else should be claiming memory from the pool" while a directory
\* is read: no two directories share an element, no two files an extent, and
\* children lie behind their directory, so that a walk of the tree ends.
ArraysDisjoint ==
  xpc # "idle" \/ xerr = "OK" =>
    \A t \in {"dir", "reg"} : \A c \in OfType(t) :
      /\ t = "dir" => imem[c].idx > c
      /\ \A d \in OfType(t) \ {c} : Array(c) \cap Array(d) = {}

\* A consistent file system is indexed unless the device or the memory fails.
AcceptsValidDisk ==
  [][disk.valid =>
     /\ xpc # "idle" /\ xpc' = "idle" => xerr' \in {"OK", "EIO", "ENOMEM"}
     /\ rpc # "idle" /\ rpc' = "idle" => rerr' \in {"OK", "EIO"}]_vars

\* The recursion of process_ino() ends: every call of xal_index() that is not
\* the end of the process returns.
IndexReturns == xpc # "idle" ~> xpc = "idle"
=============================================================================
