# A TLA+ verification project for xallib

xallib builds an in-memory tree of a file system's directories, files and
extents, so that a program can find the blocks of a file without asking the
kernel. It has two backends: one decodes XFS from a block device, the other
walks a mounted file system with `FS_IOC_FIEMAP` and keeps itself informed with
inotify. The tree lives in two memory pools that grow and may be shared.

Everything here is translated from the C source; paths such as
`src/xal_pool.c:115` are relative to the repository. `PROJECT.json` maps every
definition to the lines it stands for, and lists the runs, the hazards, the
findings and the theorems.

    tlc -workers 2 -config FiemapDirty.cfg MCFiemap    # one run
    for m in NatRecursion.tla *_proofs.tla; do tlapm $m; done    # the proofs

## 1. Inventory

| Component | State | Operations | Talks to |
|---|---|---|---|
| Memory pools, `src/xal_pool.c` | `reserved`, `allocated`, `growby`, `free`, the mapping | map, grow, claim inodes, claim extents, clear, unmap | kernel: `mmap`, `mprotect`, `shm_open`, `madvise` |
| FIEMAP indexing, `src/xal_be_fiemap.c` | tree in the pools, watch descriptors, dirty flag, sequence lock | open, index (recursive walk), process file | pools, kernel, watcher (shared `dirty` and `seq_lock`) |
| Watcher thread, `src/xal_be_fiemap_inotify.c` | inotify queue, event buffer, running flag, thread id | start, stop, check events, refresh a file | tree and pools (it writes both), indexing thread |
| Dirty flag and sequence lock, `src/xal.c` | two words shared by threads and processes | `xal_is_dirty`, `xal_get_seq_lock`, stores and increments of both backends | indexing thread, watcher, readers |
| XFS retrieval, `src/xal_be_xfs.c` | buffer of inodes, map from inode number to it | `xal_dinodes_retrieve` over all allocation groups | block device |
| XFS decoding and indexing, `src/xal_be_xfs.c`, `include/xal_odf.h` | tree in the pools | `xal_be_xfs_index`, `process_ino` for every on-disk form | pools, retrieved inodes, block device |
| Path lookup, `src/xal_be_fiemap.c`, `tp/khash.h` | hash map from path to inode; its keys point into the pool of inodes | traversal, filling while indexing, rebuild, `xal_get_inode`, `xal_get_extents`, `xal_get_dentries` | tree, indexing thread, watcher |
| Opening, closing, shared views, `src/xal.c` | what a handle holds, mode, the objects in shared memory | `xal_open`, `xal_close`, `xal_from_pools` | everything |
| Walk and unit conversion, `src/xal.c` | none | `xal_walk`, `xal_extent_in_bytes`, `xal_extent_in_lba` | tree, dirty flag, sequence lock |
| Printers, command line tool, bmap example | none of their own | formatting, option parsing | library calls |

What is hard, and what correctness means there:

* **Pools** are bump allocators over a large reservation of which only a part is
  accessible. A claim decides whether to grow, grows by one chunk, and hands out
  indexes the backends write through unchecked. Right means: an element handed
  out is writable, zeroed, handed out once, and inside the reserve, after any
  sequence of claims, clears and failures.
* **Indexing against a live file system.** Between two system calls of the walk
  any other process may create, remove or rewrite files. Right means: what the
  walk missed, the watcher must hear of, and the dirty flag must say so.
* **The watcher beside the indexer.** Two threads share the tree, both pools, a
  flag and a sequence lock, with no mutex. Right means: they never modify the
  tree at once, the lock is odd while either does, a reader that follows the
  protocol never takes half a mapping, and once changes stop the tree catches up.
* **The inotify queue** merges equal events, overflows, and is read a buffer at
  a time; an event may be about a directory that has since disappeared.
* **Starting and stopping the watcher** relies on a flag set by the new thread
  and on cancellation without joining. Right means: a call that returns 0 leaves a
  thread at work, a thread that was told to stop ends, and no thread outlives the handle.
* **Opening and sharing.** Opening acquires up to ten things and may fail at each;
  shared memory objects outlive the process that made them. Right means: what is
  acquired is given back on every path, and no view takes an unfinished tree for a
  clean one, through failures, crashes and restarts.
* **The map of paths** is never cleared although the names its keys point to are
  written anew by every index, and a refresh may resize it. Right means: a path is
  found if and only if it exists, with its own inode.
* **Decoding XFS** is bit arithmetic on numbers that carry an allocation group
  above a power of two, across inline lists, extent lists and B+trees, with reads
  and claims that fail at any point. Right means: the tree built is the one on
  disk, no inode is read from a freed buffer, and no two directories share an
  array of children.

`PROJECT.json` lists these hazards at the line where each bites, with the
properties that cover it, or the reason none does yet.

## 2. Modules

| Module | Models |
|---|---|
| `PoolOps` | `xal_pool_grow`, both claims and `xal_pool_clear` as functions on a pool record; shared by all that follow |
| `XalPool` | one pool over its life, with its memory: `writable` elements and elements that are `nonzero` |
| `BumpAllocator` | what a pool promises: arrays granted directly behind what is owned, within a limit; or all taken back |
| `FsKernel` | external: directories and files, their mappings, changes by other processes, inotify with merging and overflow |
| `FiemapIndex` | `xal_be_fiemap_index()` and all it calls, one step per system call |
| `InotifyWatch` | the watcher's loop and `check_events()` in both watch modes |
| `TreeWalk` | a reader: `xal_walk()` inside the sequence lock, one step per inode |
| `FiemapSystem` | composition: client, indexing thread, watcher, other processes and the reader |
| `XalHandle` | a `struct xal` from `xal_open()` to `xal_close()`, both backends, with shared memory and a view |
| `WatchSession` | `XalHandle` composed with the watcher threads: start, stop, cancellation, crash |
| `KHash` | the hash table of `tp/khash.h`: search, insertion, the kick-out rehash |
| `Lookup` | the tree as `xal_index()` lays it out, the three lookup functions in both modes, the map's life |
| `XfsFormat` | bit arithmetic: inode and block numbers, extent records, conversion to bytes and logical blocks; plus the reference encoder |
| `XfsRetrieve` | `xal_dinodes_retrieve()`: IAB3 blocks, records, masks, the buffer and the map |
| `XfsIndex` | `xal_be_xfs_index()` and `process_ino()` as a machine with an explicit stack |
| `XfsSystem` | composition of the two under a client; the XFS properties |
| `XfsImage` | reference: what a consistent image is, read by the definitions of the format and not by the code's functions |
| `PoolOps_proofs`, `XalPool_proofs` | proofs about the claims and about a pool over its life |
| `FiemapSystem_proofs` | proofs about `FiemapSystem`: types, exclusion, the lock and readers; no change missed |
| `WatchSession_proofs` | proofs about handle, views and threads |
| `XfsSystem_proofs`, `XfsTree_proofs` | proofs about the arithmetic of the format, about retrieval and index; that the tree built is the tree on disk |
| `Lookup_proofs` | proofs about the hash table, the layout of the FIEMAP tree and the lookups |
| `NatRecursion` | induction and recursion over numbers, in a form the provers can apply; used by the last two |
| `MCFiemap`, `MCXfs`, `MCLookup`, `MCSession` | values of the constants: a small tree, XFS images, trees and hash functions, options |

### How state and actions correspond to the code

*Pools.* `pool` is `struct xal_pool`; `memory` is what its pointer refers to.
`mprotect(p, n, ok)` says which results the kernel may give: beyond the reserve
it fails when a hole follows the mapping (`BeyondMapped = FALSE`), may fail
within it (`CommitMayFail`). `Claim*` is the whole function, growth and `memset`
included. `xal_pool_clear` sets `allocated` to 0 too, as the code does: the next
claim grows from nothing, and therefore wipes what it hands out. `IdxMax` is
`UINT32_MAX`, scaled.

*FIEMAP index.* `mpc` is the position in the walk; `todo` and `cur` replace the C
stack. One action per system call: `IndexStart` (lock), `IndexClear`,
`ProcessIno` (stat and dispatch), `AddWatcher`, `ListDir`, `OpenFile`, `MapFile`
and `StoreExtents` (the two FIEMAP calls and the stores), `IndexClean` (`dirty =
false`), `IndexExit` (release of the lock). The order of the last two is the
code's, and matters. `Junk` is what is copied from behind the buffer when the
first FIEMAP call counted no extents and the second one found some; `Blank` is a
claimed array that is not filled in yet.

*Watcher.* `LoadDirty` is the spin loop on `dirty`, `ReadEvents` the `read()` of
up to `MaxRead` events, `HandleEvent` the switch over the mask, `LockAndFind` to
`RefreshFailed` the in-place refresh, `MarkDirty` the store after a breaking
event. `wpc = "failed"` and `"dead"` are the thread's ways out.

*Kernel.* `Enqueue` drops an event equal to the last in the queue and replaces
what does not fit by one overflow event. A removed directory's watch goes with
an `ignored` event.

*XFS.* `disk` is the image: group headers, inodes, blocks by number. `heap` is
the state of the inode buffer, `dinodes` its contents, `dmap` the hash map from
inode numbers. `stack` holds a frame for every directory whose children are
being processed. `ptrs`, `recs`, `blks`, `items` are the pointers, records,
blocks and entries left to decode of the inode at hand. A read fails where
`ReadMayFail` says so, and where the device has no such block (`Readable`). `ImageOK`,
`NoSparse` and `WellCounted` say of an image what the theorems on retrieval use. An inode whose
format `process_ino()` does not know is passed over in silence (`UnknownFormat`). A retrieval that
is repeated and fails at once leaves a buffer without a map, which `xal_be_xfs_index()` does not notice
(`xal_be_xfs.c:1702`): the process dies at the first lookup (`IndexDies`) and makes no more calls.

*Consistent images.* An image names the children of every directory (`listing`) and
the extents of every file (`mapping`); `XfsImage!Consistent` says that its blocks
hold these, in whichever form: directories in short form, as extents of directory blocks or as a
B+tree, files as extents inline or in a B+tree of any height. It has the limits of what
the code can read: a short form directory whose inode numbers are all narrow or all
wide (`xal_be_xfs.c:1295`), a directory's B+tree of one level with as many leaves as the number
read for its level says (`xal_be_xfs.c:984`), in a leaf the data blocks first, no entry behind
an unused one in a block (`xfs_removed` shows why), extents of files inside one group.
`Indexable` adds what the code needs in order not to refuse: inode B+trees of at
most two levels, and no claim larger than the growth of a pool.

*Reader.* `rtodo` holds the inodes the walk has come to, `rsaw` what the callback
saw of each. The walk looks at the dirty flag before every inode (`Stale`), the
reader at the sequence number before and after.

*Handle.* `OpenSteps` lists, in the code's order, every step of `xal_open()` that
can fail; `held` is what was acquired and not given back. `LeftBy` is the error
path of each step, `Released` what `xal_close()` knows of. `Leaked` names what the
code is known never to give back. `shared` and `tree` are the shared memory
objects, which survive `Crash` and `xal_close()`. `xal_index()` is two steps
here, between which threads, views and crashes come.

*Session.* `th` has the position of each thread, `cancel` the pending
cancellations. A stop is two steps, one for each of its `pthread_cancel()` calls.
`Rules` says what the client takes care of beyond the documentation: `"unshared"`,
no new producer under a view that takes its tree for clean; `"unviewed"`, no index of a
clean tree under such a view (`xal_index()` refuses no call and `libxal.h:287` allows this one,
which empties the pools and leaves the flag clear); `"started"`, only a
thread that has announced itself is stopped; `"stopped"` and `"ended"`, a handle is
closed after a successful stop, or after the thread has ended.

*Lookup.* A string is a sequence: a prefix and components, which are numbers in
the order of `strcmp()`. `inode` is the memory of the pool, where the names are
too: a key of the map is the index of an inode, compared and hashed by the name
that inode has at the time of the call. `room` is for how many resizes there is
memory in a call. The recursion of the walks is a loop here, over a stack of the
directories whose loop is in progress (`Indexed`) or of the inodes still to be
walked (`Walked`); like the loops of `KHash` they are recursive functions of the
number of rounds, taken at a number that is enough. The proofs show that it is
enough: no round is left over when the function is read.

## 3. Runs

Twelve runs, six of which pass and six of which show a disagreement between
the code and what the repository says of it.

| Run | Shows |
|---|---|
| `pool` | claimed elements are writable, within the reserve, zeroed when handed out, kept by a growth; a pool implements `BumpAllocator` |
| `fiemap_dirty` | dirty-detection mode: `NoMissedChange`, `OddWhileModified`, `WalksSeeOneTree`, and `CatchesUp` under fairness |
| `fiemap_extent` | extent-update mode: `NoMissedChange` while the watcher lives, `Exclusive` use of the tree, with pools that run out and calls that fail anywhere |
| `xfs` | every combination of on-disk forms and sixteen kinds of damage: the right inodes are retrieved into a buffer that holds them, what an index builds is what is on disk and converts to the blocks of the device that hold it, arrays are disjoint, a valid disk is accepted when nothing fails, every call returns |
| `lookup` | both lookup modes, owner and view: each function finds the paths of its kind and no other (`LookupAnswers`); a map that was filled twice and resized finds exactly the tree (`MapFindsTree`); a view's outdated map may miss but never returns another path (`ViewMapNeverWrong`); searches end |
| `session` | nothing is left of a handle that was closed or failed to open (`NothingOutlivesHandle`); a view with a clear flag has a complete tree before it, across crashes and restarts (`ViewsSeeBuiltTree`); the running flag stands for a thread that is there to stay (`WatchMeansWatched`); a stopped thread ends unless the tree stays dirty (`StopEnds`) |

The disagreements, each with the quoted line in `PROJECT.json`:

| Run | Property violated | What happens |
|---|---|---|
| `fiemap_reader` | `WalksSeeOneTree` | `dirty = false` precedes the release of the sequence lock, a refresh enters in between and inverts its parity |
| `fiemap_refresh` | `WatcherSurvives` | a modified file of the mountpoint's own directory is not found by its path, and the watcher ends |
| `xfs_removed` | `IndexMatchesDisk` | an unused entry ends the decoding of a directory block (`xal_be_xfs.c:1442`); what follows is not indexed |
| `xfs_sparse` | `RetrievesAllocated` | bits of the hole mask are taken for single inodes (`xal_be_xfs.c:371`) although `include/xal_odf.h:365-367` gives each four |
| `lookup_stale` | `LookupReturnsAsked` | the third index meets entries of the first two in the map; a lookup succeeds with another path's inode (`xal_be_fiemap.c:573`) |
| `session_close` | `ClosedMeansUnused` | a stop returns 0 and does not wait for the thread, `xal_close()` frees the struct under it (`xal_be_fiemap_inotify.c:426`) |

Every property of a passing run has a mutant: a definition changed the way a
plausible bug would change the code, under which TLC finds it violated.

### Bounds, and why they are enough

* `pool`: a reserve of 6, claims up to 3, `IdxMax` 4. Growth chunks from 1 up,
  claims that end before, at and behind the allocated part, reserves that are
  and are not a multiple of the chunk, and the index limit inside the reserve. The
  theorems remove the bounds.
* FIEMAP runs: the tree 0 &rarr; {1 &rarr; {2}, 3}, which has a file in the root and one in
  a subdirectory, so that listing, watching and refreshing at both levels happen.
  `MaxChanges` 2 (with a reader and liveness) or 3: the interesting orders need
  one change between a listing and a watch, one between the two FIEMAP calls,
  one after the last event is read. `MaxQueue` 1 makes the queue overflow at once
  in the dirty run; 8 is never reached. `MaxRead` 2 splits an event list
  over reads. `MaxIndex` 7 is more calls than two changes can cause in the
  dirty run, so that the bound does not decide `CatchesUp`; 3 in the others.
  Mappings are empty or of different lengths, so that a second FIEMAP call sees
  more, fewer or none. `PoolMax` 6 exhausts the pools in the extent run, which also has
  every failure of a call: `CommitMayFail` (memory of a pool, a clear included) and
  `OtherErrors` (no watch, no memory for a list or a map, `FS_IOC_FIEMAP` refused, an entry that
  is neither directory nor file). The other three leave them out, as liveness must.
* XFS runs: two groups of 11 blocks with 4 bits of block number, so that a group
  is shorter than its number space; chunks of 4 inodes, 2 per block; directory
  blocks of 2 device blocks; extent records of 3 + 5 + 3 bits whose block number
  lies across both words, as in the 128-bit record. 72 valid images combine the forms
  of the root directory (local, extents, B+tree), of a subdirectory (local narrow,
  local wide, block) and of a file (inline, one and two levels of B+tree), with and
  without file types in the entries, on a two-level inode B+tree or with hard links,
  so that there are more entries than inodes and the pools must grow; 16 are damaged.
  `MaxCalls` 3 allows a retrieval and two indexes, or a second retrieval after a failed one.
  Blocks of 4 bytes and logical blocks of 2 make the conversion divide; no extent
  crosses the end of a group, as on a real disk.
* Lookup runs: 16 trees below a mountpoint, of up to five entries on two levels;
  three hash functions, one of which sends everything to one bucket. Six puts make
  a table of 4 buckets grow to 8, and two indexes into one map to 16. `MaxIndex` 2 lets a
  map outlive a tree; the third index that `lookup_stale` needs is excluded from
  the passing run, whose `MapFindsTree` and `ViewMapNeverWrong` hold there. The
  paths asked for include ones through a file, beside and above the mountpoint,
  and with an empty component.
* Session runs: five option sets cover both backends chosen and detected, with and
  without shared memory, map and watcher. Two threads are the least that a start
  after a stop needs; thread numbers are not reused while a handle is open.

Deadlock checking is on in the session runs. It is off in the others because the
system may stop: calls and changes are bounded, and a reader that accepted is done.

### Fairness

`FiemapSystem!Fairness` is weak fairness of the indexing thread and of the
watcher (each is a thread of its own that runs on between system calls), of
`StartWatching`, and of `CallIndex`: `README.md:75` asks the caller to re-call
`xal_index()` when the tree is dirty, so this is an assumption on the client.
Other processes and the reader get none. `XfsSystem!FairSpec` is weak fairness of
the steps of a call in progress, since nothing blocks it; calling is not fair.
`WatchSession!Fairness` is weak fairness of each thread and nothing else: whether and when the
client indexes, and whether an index succeeds, is open. `StopEnds` therefore carries its
condition with it, `<>[]~Dirty`: if the tree is clean from some time on, a thread that was told
to stop ends. Without it `StopEnds` is false, since a thread that was told to stop while the
tree is dirty spins for as long as it stays dirty, and for ever beside a client that waits for
it before it indexes.

## 4. Proofs

Eight modules hold proofs; `tlapm` checks each from nothing in a few minutes,
`XfsTree_proofs` and `Lookup_proofs` in about a quarter of an hour. All theorems are about every value of the constants: any tree, image,
set of options, length of a queue, number of changes, calls, threads and groups.
The bounds of the runs (`MaxChanges`, `MaxIndex`, `MaxCalls`, ...) are constants
too, so the theorems hold for every bound.

### What is proved

| Theorem | States | If |
|---|---|---|
| **`XalPool_proofs`** | | |
| `PoolInvariant` | `Spec => [](TypeOK /\ PoolInv)` | |
| `PoolTypeCorrect` | `Spec => []TypeOK` | |
| `ClaimedIsAlwaysWritable` | `Spec => []ClaimedIsWritable` | |
| `ClaimsStayInReserve` | `Spec => []ClaimedWithinReserve` | |
| `ZeroedWhenHandedOut` | `Spec => HandsOutZeroed` | nothing is mapped behind the pool |
| `GrowthKeepsData` | `Spec => GrowKeepsClaimed` | nothing is mapped behind the pool |
| `PoolImplementsBumpAllocator` | `Spec => ImplementsBumpAllocator` | nothing is mapped behind the pool |
| **`FiemapSystem_proofs`** | | |
| `FiemapTypeCorrect` | `Spec => []TypeOK` | |
| `ThreadsExclude` | `Spec => []Exclusive` | `IndexWhenStale` |
| `LockCounts` | the sequence number is odd exactly while one of the two threads is inside | |
| `LockedWhileModified` | `Spec => []OddWhileModified` | the watcher does not update extents |
| `WalksSeeWholeTrees` | `Spec => []WalksSeeOneTree` | the watcher does not update extents; `IndexWhenStale` |
| `NoChangeIsMissed` | `Spec => []NoMissedChange` | dirty-detection mode; `IndexWhenStale` |
| **`WatchSession_proofs`** | | |
| `NothingIsLeftBehind` | `Spec => []NothingOutlivesHandle` | |
| `ViewsTrustBuiltTrees` | `Spec => []ViewsSeeBuiltTree` | the client keeps the rules `"unshared"` and `"unviewed"` |
| `SessionTypeCorrect` | `Spec => []TypeOK` | the client stops only threads that have announced themselves |
| `FlagMeansWatching` | `Spec => []WatchMeansWatched` | the same, and `pthread_cancel()` of an ended thread succeeds |
| **`XfsSystem_proofs`** | | |
| `FsbnoRoundTrip` | `xal_fsbno_offset` undoes the numbering of blocks | |
| `InoRoundTrip` | `xal_ino_decode_relative` undoes the numbering of inodes | |
| `ExtentRoundTrip` | `decode_xfs_extent` undoes the encoding of offset, block and length | the extent fits its fields |
| `UnitsAgree` | both conversions of an extent name the same place | |
| `ExtentAddressesDevice` | the logical blocks of a converted extent are exactly those of its blocks | the extent lies in one group |
| `IndexesLive` | `Spec => []IndexesLiveBuffer` | |
| `RetrievalFindsAll` | `Spec => []RetrievesAllocated` | no image has sparse chunks (`NoSparse`) |
| `BufferHoldsInodes` | `Spec => []DinodesFitBuffer` | no inode is described twice, the group headers count them all (`WellCounted`) |
| `XfsTypeCorrect` | `Spec => []TypeOK` | nothing is mapped behind a pool |
| `ArraysStayDisjoint` | `Spec => []ArraysDisjoint` | nothing is mapped behind a pool |
| **`XfsTree_proofs`** | | |
| `TreeMatchesDisk` | `Spec => []IndexMatchesDisk` | nothing is mapped behind a pool; valid images are `Consistent` |
| `IndexAddressesDevice` | `Spec => []ExtentsAddressDevice` | the same |
| `ValidDiskIsAccepted` | `Spec => AcceptsValidDisk` | the same; valid images are `Indexable`, none is sparse, and the reserve of a pool is within the largest index |
| **`Lookup_proofs`** | | |
| `LookupInvariant` | `Spec => []LookupInv` | |
| `LookupTypes` | `Spec => []TypeOK` | |
| `MapSearchesEnd` | `Spec => []SearchesEnd` | |
| `MapFindsWholeTree` | `Spec => []MapFindsTree` | |
| `ViewIsNeverWrong` | `Spec => []ViewMapNeverWrong` | |
| `LookupAnswersRight` | `Spec => []LookupAnswers` | |

`PoolOps_proofs` holds the lemmas on the two claim functions and on clearing that
the pool, FIEMAP and XFS proofs share.

The hypotheses are those the code depends on: `fiemap_reader` shows what extent
updates do to a reader and `xfs_sparse` what sparse chunks do to a retrieval; with a
mapping right behind a pool `mprotect()` succeeds there and `allocated` runs past
`reserved`; `IndexWhenStale` and the rules of the
client are explained in section 5. `ImagesAssumption` of `MCXfs` has TLC confirm that the images of the
passing run satisfy `NoSparse` and `WellCounted`, and the valid ones among them, 72 of all
combinations of forms, `Consistent` and `Indexable`: the hypotheses of `XfsTree_proofs` are met by every
form the code knows.

### Assumptions

Named `ASSUME`s in the modules that declare the constants; TLC evaluates each of
them in the runs.

* `PoolAssumption`, `XalPoolAssumption`, `SystemAssumption`, `SessionAssumption`,
  `OptionsAssumption`, `CallsAssumption`: types of the constants, a reserve that is not empty.
* `FsAssumption`, `PathAssumption`, `FiemapAssumption`: the entries form a finite tree,
  and `Path`, a table of the ancestors of each entry, is what its name says. The table is a
  constant because the prover has no induction with which to compute it; its conjuncts
  determine it. The mountpoint's entries exist at first with their parents, and
  `Blank` and `Junk` are no mappings.
* `FormatAssumption`: fields and sizes are positive, a group is no longer than its
  number space, a block is a whole number of logical blocks and no longer than the 64 KiB the
  code has room for (`xal_be_xfs.c:1114`, where one function refuses more, and the buffers of the others).
* `PowerAssumption`: laws of powers of two for the widths in use, which the provers do not know.
* `RetrieveAssumption`: pointers of an inode B+tree stay in its group, below a node of level one are
  leaves, records describe inodes that exist, and all of them unless chunks are sparse, and each
  begins with the first inode of a block, as `assert(agbino == 0)` requires (`xal_be_xfs.c:344`).
  Blocks that are no B+tree blocks, or cannot be read, may be anywhere.
* `IndexAssumption`: the fields of on-disk forms have their types, and the inodes counted fit the
  reserve of a pool.
* `LookupAssumption`: a tree is finite, its entries lie below the mountpoint and each in a directory
  of it, the cells looked at have room for it, and every string has a hash.

### Along which argument

*Pools.* None of the properties is inductive: that claimed elements are
writable says nothing of what the *next* growth makes writable. `PoolInv` adds
that a mapped pool has `free <= allocated <= writable` and, with a hole behind
it, that `allocated` stays within the reserve and every element that holds data
lies below `free`. The last part is what zeroed claims rest on: new elements
come from above `free`, where nothing was ever stored since the last clear; and
growing wipes from `free` upwards, so it takes no data away. That `allocated`
stays within the reserve is not a test of the code but of the kernel, hence
`~BeyondMapped`. `ClaimExtentsOutcome` and `ClaimInodesOutcome` reduce both claim
functions to one relation on pools, `ClaimStep` lifts it to steps, and every theorem
has one step per action from there. The refinement maps `owned` to `0 .. free - 1` of
a mapped pool: claims are grants, clearing and unmapping take back, all else
stutters.

*Two threads, one flag.* `Exclusive` rests on `FlagInv`: past its spin loop the
watcher has seen the flag clear, and while it is there nobody sets the flag but
itself; and the indexing thread is in its walk only with the flag set, from the call to
`IndexClean`. `LockInv` is the parity of the number, which every path of both threads
changes twice. It is odd while exactly one is inside; with both inside
(an index between `dirty = false` and the release, a refresh begun) the number is
even, which is what `fiemap_reader` shows.

*No change is missed.* `FreshInv` is about the frontier of the walk. While no event
is pending, a directory that is watched and listed has exactly the children that
are in the tree or still to be processed, a processed file has the mapping on disk,
and every directory that exists is listed or lies below the frontier (`AgreeInv`). Any
change that would break this is a change below a watched directory, and so queues
an event (`UnnoticedIsQuiet`); a change elsewhere leaves it true
(`QuietKeepsAgree`). `ShapeInv` is what holds of the walk even while events are pending,
and is needed because the next index clears them. When the walk ends the frontier is empty and
`DoneInv` follows: the tree is the file system, and every directory is watched.

*A reader.* `ReadInv`: as long as the number is the one it began with, and even, no
index has begun, so that what the walk saw is what is there, and every inode of the tree
was seen or is below one that is still to be visited (`SeenInv`). `TreeInv` makes
the tree one that such a walk exhausts: each inode is linked along its path.

*Session.* `HeldInv` says that what an open handle holds is known to its close
function, besides what leaks; `OpenOutcome` proves it of `xal_open()` with a failure at
any step, by the order of the steps. `ViewInv` adds to the property that a producer beside a
trusting view is neither indexing nor failed. `ThreadInv` and `RunningInv` exclude a
thread that is condemned before it announces itself.

*Retrieval.* `FoundInv` accounts for every inode: it is in the map, in a record of the
current leaf, below a block still to be read, or in a later group. `OnceInv` is its counterpart: these
places describe different inodes, and the buffer holds each once. The buffer
is then an injection into the inodes of the image, and the group headers
bound its length. That the inodes of one record are different needs `InoInjective`, from the
arithmetic of the format.

*The tree in the pools.* `IndexInv`. An array of children or extents grows while
its directory or file is decoded, element by element, with the pool's end as its end; that it overlaps no
other needs that no other array grows meanwhile. `FillInv` says that the element at work has the
last array of its pool, `SelfInv` and `StackInv` that no directory on the stack has it,
or what lies in its array, still to process, `FreshInv` that elements not handed out yet are empty,
and `ArrayInv` that arrays lie one behind the other. `WorkStep` does the part common to all
steps that change only the element at work; each form on disk has a lemma of its own.

*The tree and the disk.* `MatchInv`. The loops of the code take lists apart from the
front: items of a block, blocks of a record, records of a leaf, leaves of a root, and for
a file the blocks on the stack of its B+tree. `DirWork` and `FileWork` say
that what is stored so far, followed by what these lists still lead to (`Pending`), is the listing or
mapping of the inode at work. `Content` covers all others: a claimed element is complete, or it
waits on the stack of directories or in the array being filled. A directory is entered while
its parent's array is incomplete nowhere else, so that when the call returns nothing
waits. Lists and trees have any length and height: in `NatRecursion`, `LeastNat`, that a set of numbers has a
least one, follows from the library's `WFMin`, and gives `Induction` on a set in place of a
predicate, which the provers can apply; `Recursion` gives the functions defined by recursion, and with it
`TreesUnfold` the functions of `XfsImage`, their equations, and the `Flat` lemmas take the first element off a flattened sequence.

*A valid disk is accepted.* Every refusal of the code is excluded by one part of `AcceptInv`:
a claim larger than the growth by `GrowInv` (the growth of the pools is the count of
the group headers), an inode that is not in the map by `FilledInv` (after a retrieval the map has
them all, by `FoundInv` of the retrieval), a block with the wrong magic or level by
`NodesInv`, for all blocks still to be read. What is left is a read or an `mprotect()` that fails.

*The hash table.* `Table` says of one that its size counts its entries, that it stays below
the load limit, and that its number of buckets has `TwosOnly`: an odd factor does not help it
to divide a product. That is what makes the probes of a search different from each other
(`ProbesDiffer`) and hence reach every bucket (`ProbesReachAll`), and powers of two have it since
4 has it and doubling keeps it. The load limit then leaves an empty bucket. `Found` is what
a search needs: an entry with the string, and none empty before it on the way of the probes.
The rehash is the hard part, since both tables share their memory: `MoveInv` says that entries
still in the old table, the one in hand and those placed are together the entries there were,
that each placed one is behind buckets that are taken, and counts what is left, so that the rounds of
`Rehash` are enough. `PutIn` sums up `kh_put()`: what was found is still found, the
key put is found, and no other entry comes in.

*The tree of an index.* `Laid` relates the cells claimed to a function `P` from cells to
paths: injective, with the array of a directory behind it and its children there in the order of
`qsort()`; `Open` adds the directories on the stack, the only ones whose arrays are not
finished. Each round of the loop names a cell, or enters a directory, or leaves one
(`RoundFile`, `RoundDir`, `RoundLeaves`), and increases `Measure`, the cells processed plus the
directories left, which is bounded by twice the number of entries plus one: `IndexedIs` concludes that the
loop has ended, and `Whole` that `P` then reaches every path of the tree. `IndexInv` carries along
that everything done is in the map. The rebuild has `WalkInv`, where `Reach` says that an inode has been walked
or lies below one on the stack, and each is stacked once.

*Lookup.* `LookupInv` is `Holds` (types), `TreeInv` (after a successful index the cells are
the tree) and `MapInv`: a map that is `synced` finds the name of every cell in use, though old
entries may stand beside; keys and values are the same cell while the map has been filled at most once, and always in a view.
The last is what separates `MapFindsTree`, which holds for any number of indexes, from
`LookupReturnsAsked`, which `lookup_stale` refutes at the third. A name found in a map of which
the keys have changed is still the name of the key's cell, because a search compares with what the
cell holds now: hence `ViewIsNeverWrong`. `BsearchIs` proves the binary search over a sorted
array, and `DescendIs` the descent component by component, by induction on their number.

*Arithmetic.* Every decoding divides by a power of two, and `Quotient` (quotient and
remainder are unique) with the sizes of the fields gives each round trip. `FsbnoRun` extends
the block's round trip to the blocks that follow it in a group, and `ExtentAddressesDevice` is that, in
units of logical blocks.

### What is only model-checked

* Liveness (`CatchesUp`, `IndexReturns`, `StopEnds`): beyond the prover.
* `NoMissedChange` and `WalksSeeOneTree` in extent-update mode: the first for the restricted
  environment of `fiemap_extent`, the second is false there.

## 5. What is not modelled, and what the models leave out

* Printers (`src/pp.c`), the command line tool (`src/cli.c`), the bmap example and the
  test scripts: formatting, option parsing and comparisons of output, with no
  state of the system.
* The first `malloc()` of a file in the walk of the FIEMAP backend (`xal_be_fiemap.c:440`): when it
  fails the code returns 0, and the index succeeds with a file without extents. All other
  failing calls of the walk are modelled, as are the allocations of the map, of `xal_open()` and of the XFS
  retrieval. That a path map is full ends an index too; this is in `Lookup`.
* A client that indexes a clean tree. `xal_index()` allows it, and it is the only refresh of a client
  that has no watcher. Both backends empty the pools first and leave the flag clear
  (`xal_be_fiemap.c:573`, `xal_be_xfs.c:1706`), so that a view takes the unfinished tree for clean; and beside
  the watcher the end of the walk can clear a mark made during it
  (`xal_be_fiemap.c:604`). The models have the case: `"unviewed"` of `XalHandle` and `IndexWhenStale` of
  `FiemapSystem` exclude it, and without them `ViewsSeeBuiltTree`, `Exclusive`, `NoMissedChange` and
  `WalksSeeOneTree` are not promised. `IndexWhenStale` is what `README.md:75` asks for.
* Where the root is after a clear that failed: behind what was claimed before, and not at index 0,
  where `xal_from_pools()` takes it to be (`libxal.h:259`). The models follow the code (`rootIdx`), no property
  is about it.
* `xal_fsbno_offset()` and the conversions of a FIEMAP extent, a product with the block size: only the
  case of the XFS backend is modelled.
* A file system that outgrows the entries counted at open time: `growby` is fixed
  then, and a larger claim is refused (`xal_pool.c:110`) however much reserve is left.
* FIEMAP: a directory is listed in one step although `readdir()` may return
  parts of it; a removed directory does not come back under its identity; attribute
  events and delayed allocation are left out.
  The extent-update run has no empty mappings and a queue that does not overflow:
  with either, `NoMissedChange` fails in that mode, since a refresh stores only a
  positive count (`xal_be_fiemap.c:453`) and an overflow event is ignored. Both are
  listed as hazards.
* The dirty flag and the sequence lock are read and written in one step each.
* Cancellation of the watcher inside a refresh is in `WatchSession`, which has no
  sequence lock; that the lock stays odd is a hazard without a property.
* Session: outside `Rules` the properties fail, as the code does. A thread stopped
  before it has announced itself sets the flag when it is already condemned. A
  producer that starts over the objects of a clean view zeroes the pools
  and leaves the flag clear, and so does one that indexes its clean tree again. On a C library whose `pthread_cancel()` of an ended thread
  returns `ESRCH` (`CancelEnded`), a stop fails and leaves the flag set.
* An XFS handle opened on the objects of a FIEMAP producer that left them dirty
  reports dirty until its first index.
* Lookup: a call of `xal_index()` is one step. In traversal mode a path that goes on
  behind a file, or has another character than a slash behind the mountpoint, may
  succeed; `LookupAnswers` leaves these out.
* XFS: entries and B+tree blocks are records of their fields, not bytes. The
  images of the passing run have as many root pointers as levels in a directory's
  B+tree, short form directories whose inode numbers are all narrow or all wide,
  block-form directories with free space at the end, and leaves of at most
  `growby` records; outside these the code goes wrong in ways listed as hazards.
  `IndexMatchesDisk` leaves the extent flag out: the code takes it from the
  other word, and no doc says what it should be.
* The superblock and group headers are constants of an image.

## 6. Plan

Done, in this order: pools with proofs; kernel, FIEMAP index, watcher and their
composition; XFS format, retrieval, index and their composition; the walk and the
conversions; the handle and the session of a client; the hash table and path lookup.

Then proofs: pools with their refinement; the FIEMAP backend with its two threads, the
freshness of its tree and its readers; the session; XFS retrieval, the layout of the XFS tree,
the arithmetic of the format; and that the XFS tree is the tree on disk and a valid disk is accepted.
Last the hash table and path lookup.

Every invariant and action property of a passing run is a theorem, in the modes and under the
hypotheses of section 4. What is left is outside the prover (liveness) or outside the model (section 5):
failing allocations in the FIEMAP walk, a sequence lock beside a cancelled refresh, and a FIEMAP index that
interleaves with lookups by the map.
