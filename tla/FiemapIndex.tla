---------------------------- MODULE FiemapIndex ----------------------------
(***************************************************************************)
(* xal_be_fiemap_index() of src/xal_be_fiemap.c: the thread that calls      *)
(* xal_index() walks the mounted file system, adding an inotify watch to    *)
(* each directory before it reads it, and builds the tree of inodes in the  *)
(* two pools.  One step per system call, so that other processes change the *)
(* file system in between.                                                  *)
(*                                                                         *)
(* The tree is kept as the children of every directory inode (dentries) and *)
(* the mapping of every file inode (extents); which elements of the pools   *)
(* hold them is the business of XalPool.                                    *)
(***************************************************************************)
EXTENDS FsKernel, PoolOps

CONSTANTS
  WatchMode,   \* opts->watch_mode: "none", "dirty" or "extent"
  Initial,     \* the paths that exist when xal_open() sizes the pools
  PoolMax,     \* the number of elements xal_be_fiemap_open() reserves
  Junk, Blank, \* mappings: read past a buffer; count set, elements still zero
  OtherErrors  \* calls may fail for reasons that are not in the model: no
               \* watch or memory left, an ioctl() that is refused, an entry
               \* that is neither a directory nor a regular file

\* What FIEMAP may report of a mapping in a buffer of some size.
Prefixes == {<<>>} \cup UNION {{SubSeq(m, 1, n) : n \in 0 .. Len(m)} : m \in ExtMaps}

ASSUME FiemapAssumption ==
  /\ WatchMode \in {"none", "dirty", "extent"}
  /\ Initial \subseteq Entries /\ Root \in Initial
  /\ \A e \in Initial : Path[e] \subseteq Initial
  /\ PoolMax \in Nat \ {0} /\ OtherErrors \in BOOLEAN
  /\ Junk # Blank /\ {Junk, Blank} \cap (Prefixes \cup ExtMaps) = {}

VARIABLES
  dirty,     \* *xal->dirty
  seq,       \* xal->seq_lock
  rootIdx,   \* xal->root_idx, -1 for XAL_POOL_IDX_NONE
  kids,      \* content.dentries of every directory
  text,      \* content.extents of every file
  wdMap,     \* directories in inotify->inode_map
  inodes, extents,   \* the two pools
  mpc,       \* where the indexing thread is
  cur,       \* the entry it is at
  todo,      \* entries listed and not yet processed
  nmap,      \* number of extents the first FIEMAP call reported
  got,       \* what the second one returned
  err        \* result of the last call of xal_index(), or of the current one

treeVars == <<rootIdx, kids, text, wdMap, inodes, extents>>
walkVars == <<mpc, cur, todo, nmap, got, err>>
indexVars == <<dirty, seq, treeVars, walkVars>>

Errors == {"NONE", "OK", "EAGAIN", "ENOENT", "ENOSPC", "EIO"} \cup PoolErrors
Mappings == {Junk, Blank} \cup Prefixes
Steps == {"idle", "clear", "entry", "watch", "list", "open", "map", "store", "unlock"}

IndexTypeOK ==
  /\ dirty \in BOOLEAN
  /\ seq \in Nat
  /\ rootIdx \in Nat \cup {-1}
  /\ kids \in [Dirs -> SUBSET (Entries \ {Root})]
  /\ text \in [Files -> Mappings]
  /\ wdMap \subseteq Dirs
  /\ inodes \in Pools /\ extents \in Pools
  /\ mpc \in Steps
  /\ cur \in Entries
  /\ todo \subseteq Entries
  /\ nmap \in Nat
  /\ got \in Mappings
  /\ err \in Errors

\* xal_be_fiemap_open(): retrieve_total_entries() counts what is below the
\* mountpoint, and both pools grow by that number from then on.
retrieve_total_entries(paths) == Cardinality(paths \ {Root})

OpenPool ==
  LET n == retrieve_total_entries(Initial) IN
  [reserved |-> PoolMax, allocated |-> n, growby |-> n, free |-> 0]

IndexInit ==
  /\ FsInit(Initial)
  /\ dirty = FALSE
  /\ seq = 0
  /\ rootIdx = -1
  /\ kids = [d \in Dirs |-> {}]
  /\ text = [f \in Files |-> <<>>]
  /\ wdMap = {}
  /\ inodes = OpenPool /\ extents = OpenPool
  /\ mpc = "idle" /\ cur = Root /\ todo = {}
  /\ nmap = 0 /\ got = <<>>
  /\ err = "NONE"

-----------------------------------------------------------------------------
Goto(step) == mpc' = step
Fail(e) == mpc' = "unlock" /\ err' = e

\* Mistakes the properties of FiemapSystem must notice: clean at the start of
\* the walk instead of its end; the lock not taken; the lock not released;
\* never clean again.
Mutant_IndexStartClean ==
  /\ mpc = "idle" /\ seq' = seq + 1 /\ dirty' = FALSE
  /\ Goto("clear") /\ err' = "OK"
  /\ UNCHANGED <<fsVars, treeVars, cur, todo, nmap, got>>
Mutant_IndexStartUnlocked ==
  /\ mpc = "idle" /\ Goto("clear") /\ err' = "OK"
  /\ UNCHANGED <<fsVars, dirty, seq, treeVars, cur, todo, nmap, got>>
Mutant_IndexExit ==
  /\ mpc = "unlock" /\ Goto("idle")
  /\ UNCHANGED <<fsVars, dirty, seq, treeVars, cur, todo, nmap, got, err>>
Mutant_IndexClean ==
  /\ mpc = "entry" /\ todo = {} /\ Goto("unlock")
  /\ UNCHANGED <<fsVars, dirty, seq, treeVars, cur, todo, nmap, got, err>>

\* The sequence lock is taken before anything is touched.
IndexStart ==
  /\ mpc = "idle"
  /\ seq' = seq + 1
  /\ Goto("clear") /\ err' = "OK"
  /\ UNCHANGED <<fsVars, dirty, treeVars, cur, todo, nmap, got>>

\* Both pools and the map of watch descriptors are cleared, whether or not
\* clearing a pool succeeds, and the root inode is claimed.
ClearedPool(p, ok) == IF ok THEN xal_pool_clear(p) ELSE p

IndexClear ==
  /\ mpc = "clear"
  /\ \E oki, oke, ok \in BOOLEAN :
       LET empty == ClearedPool(inodes, oki)
           root  == xal_pool_claim_inodes(empty, 1, ok)
       IN /\ mprotect(inodes, inodes.reserved, oki)
          /\ mprotect(extents, extents.reserved, oke)
          /\ mprotect(empty, empty.allocated + empty.growby, ok)
          /\ inodes' = root.pool
          /\ extents' = ClearedPool(extents, oke)
          /\ IF root.err = "OK"
               THEN /\ rootIdx' = empty.free
                    /\ todo' = {Root}
                    /\ Goto("entry") /\ UNCHANGED err
               ELSE /\ UNCHANGED rootIdx
                    /\ todo' = {}
                    /\ Fail(root.err)
  /\ kids' = [d \in Dirs |-> {}]
  /\ text' = [f \in Files |-> <<>>]
  /\ wdMap' = {}
  /\ UNCHANGED <<fsVars, dirty, seq, cur, nmap, got>>

\* The entry is added to its directory, then process_ino_fiemap() looks at
\* it.  An entry that has disappeared since it was listed ends the walk.
Linked(e) ==
  IF e = Root THEN kids ELSE [kids EXCEPT ![Parent[e]] = @ \cup {e}]

ProcessIno ==
  /\ mpc = "entry"
  /\ \E e \in todo :
       /\ \A x \in todo : e <= x
       /\ todo' = todo \ {e}
       /\ cur' = e
       /\ kids' = Linked(e)
       /\ \/ e \notin present /\ Fail("EAGAIN")
          \/ OtherErrors /\ e # Root /\ Fail("EINVAL")
          \/ /\ e \in present
             /\ Goto(IF e \in Files THEN "open"
                     ELSE IF WatchMode = "none" THEN "list" ELSE "watch")
             /\ UNCHANGED err
  /\ UNCHANGED <<fsVars, dirty, seq, rootIdx, text, wdMap, inodes, extents, nmap, got>>

\* xal_be_fiemap_inotify_add_watcher(): the watch is added even if there is
\* no room for it in the map.
AddWatcher ==
  /\ mpc = "watch"
  /\ \/ /\ cur \notin present /\ Fail("ENOENT")
        /\ UNCHANGED <<watched, wdMap>>
     \/ /\ OtherErrors /\ Fail("ENOSPC")
        /\ UNCHANGED <<watched, wdMap>>
     \/ /\ cur \in present
        /\ watched' = watched \cup {cur}
        /\ \/ wdMap' = wdMap \cup {cur} /\ Goto("list") /\ UNCHANGED err
           \/ OtherErrors /\ Fail("EIO") /\ UNCHANGED wdMap
  /\ UNCHANGED <<present, gone, ext, queue, changes, dirty, seq, rootIdx, kids,
                 text, inodes, extents, cur, todo, nmap, got>>

\* xal_be_fiemap_process_inode_dir(): list, sort, and claim one inode each.
ListDir ==
  /\ mpc = "list"
  /\ \/ cur \notin present /\ Fail("ENOENT") /\ UNCHANGED <<todo, inodes>>
     \/ OtherErrors /\ Fail("ENOMEM") /\ UNCHANGED <<todo, inodes>>
     \/ cur \in present /\ \E ok \in BOOLEAN :
       LET c == xal_pool_claim_inodes(inodes, Cardinality(Children(cur)), ok) IN
       /\ mprotect(inodes, inodes.allocated + inodes.growby, ok)
       /\ inodes' = c.pool
       /\ IF c.err = "OK"
            THEN todo' = todo \cup Children(cur) /\ Goto("entry") /\ UNCHANGED err
            ELSE Fail(c.err) /\ UNCHANGED todo
  /\ UNCHANGED <<fsVars, dirty, seq, rootIdx, kids, text, wdMap, extents, cur, nmap, got>>

\* xal_be_fiemap_process_inode_file(): open, then read_fiemap() asks for the
\* number of extents and for the extents in two calls.
OpenFile ==
  /\ mpc = "open"
  /\ \/ cur \notin present /\ Fail("ENOENT") /\ UNCHANGED nmap
     \/ OtherErrors /\ Fail("EIO") /\ UNCHANGED nmap
     \/ cur \in present /\ Goto("map") /\ nmap' = Len(ext[cur]) /\ UNCHANGED err
  /\ UNCHANGED <<fsVars, dirty, seq, treeVars, cur, todo, got>>

\* With a buffer for n extents, FIEMAP reports at most n of them; with no
\* buffer at all it reports how many there are and the elements behind the
\* buffer are taken for extents.
MappedCount(n, m) == IF n = 0 \/ Len(m) < n THEN Len(m) ELSE n
Mapped(n, m) == IF n = 0 /\ m # <<>> THEN Junk ELSE SubSeq(m, 1, MappedCount(n, m))

\* What the second FIEMAP call leads to for file f: nothing when there are no
\* extents, else a claim of new ones and an inode that points to them.
ClaimMapping(f, n) ==
  LET count == MappedCount(n, ext[f]) IN
  \E ok \in BOOLEAN :
    LET c == xal_pool_claim_extents(extents, count, ok) IN
    /\ mprotect(extents, extents.allocated + extents.growby, ok)
    /\ extents' = c.pool
    /\ c.err = "OK"
    /\ text' = [text EXCEPT ![f] = Blank]

ClaimMappingError(f, n, e) ==
  LET count == MappedCount(n, ext[f]) IN
  \E ok \in BOOLEAN :
    /\ mprotect(extents, extents.allocated + extents.growby, ok)
    /\ e = xal_pool_claim_extents(extents, count, ok).err
    /\ e # "OK"

MapFile ==
  /\ mpc = "map"
  /\ \/ /\ MappedCount(nmap, ext[cur]) = 0
        /\ Goto("entry") /\ UNCHANGED <<err, got, text, extents>>
     \/ /\ MappedCount(nmap, ext[cur]) > 0
        /\ ClaimMapping(cur, nmap)
        /\ got' = Mapped(nmap, ext[cur])
        /\ Goto("store") /\ UNCHANGED err
     \/ /\ MappedCount(nmap, ext[cur]) > 0
        /\ \E e \in PoolErrors : ClaimMappingError(cur, nmap, e) /\ Fail(e)
        /\ UNCHANGED <<got, text, extents>>
     \/ OtherErrors /\ Fail("EIO") /\ UNCHANGED <<got, text, extents>>
  /\ UNCHANGED <<fsVars, dirty, seq, rootIdx, kids, wdMap, inodes, cur, todo, nmap>>

StoreExtents ==
  /\ mpc = "store"
  /\ text' = [text EXCEPT ![cur] = got]
  /\ Goto("entry")
  /\ UNCHANGED <<fsVars, dirty, seq, rootIdx, kids, wdMap, inodes, extents,
                 cur, todo, nmap, got, err>>

\* The whole tree has been walked: clean, and only then unlocked.
IndexClean ==
  /\ mpc = "entry" /\ todo = {}
  /\ dirty' = FALSE
  /\ Goto("unlock")
  /\ UNCHANGED <<fsVars, seq, treeVars, cur, todo, nmap, got, err>>

IndexExit ==
  /\ mpc = "unlock"
  /\ seq' = seq + 1
  /\ Goto("idle")
  /\ UNCHANGED <<fsVars, dirty, treeVars, cur, todo, nmap, got, err>>

IndexNext ==
  \/ IndexClear \/ ProcessIno \/ AddWatcher \/ ListDir \/ OpenFile
  \/ MapFile \/ StoreExtents \/ IndexClean \/ IndexExit
=============================================================================
