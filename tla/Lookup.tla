------------------------------- MODULE Lookup -------------------------------
(***************************************************************************)
(* Path lookup of the FIEMAP backend (src/xal_be_fiemap.c): the tree of     *)
(* inodes as xal_index() lays it out in the pool, the search of it by       *)
(* components, and the hash map of paths, filled while indexing or built    *)
(* afterwards, in the process that indexes or in one that shares the pool.  *)
(*                                                                         *)
(* A call of xal_index() is one step here: what other threads and processes *)
(* do meanwhile is the business of FiemapSystem.  A string is a sequence: a *)
(* prefix and the components behind it, numbers in the order of strcmp()    *)
(* with 0 for the empty one; <<>> is the empty string, the root's name.     *)
(***************************************************************************)
EXTENDS KHash, Sequences, SequencesExt

CONSTANTS
  Trees,      \* file systems: the entries with the extents of files, -1 for directories
  Hashes,     \* hash functions of strings
  Asked,      \* paths a client asks for
  Roles,      \* "owner": opened with xal_open(); "view": with xal_from_pools()
  Cells,      \* elements of the pool of inodes that are looked at
  MaxIndex,   \* bound on the calls of xal_index()
  MaxExtents, \* bound on the extents claimed
  MaxRoom     \* bound on the resizes there is memory for in a call

Mountpoint == <<"mnt">>
Root == 0

\* A file system has finitely many entries, each in a directory; the cells
\* have room for them; and every string has a hash.
ASSUME LookupAssumption ==
  /\ Roles \subseteq {"owner", "view"}
  /\ {MaxIndex, MaxExtents, MaxRoom} \subseteq Nat
  /\ Cells \subseteq Nat /\ IsFiniteSet(Cells) /\ Root \in Cells
  /\ \A t \in Trees :
       /\ IsFiniteSet(DOMAIN t)
       /\ 0 .. Cardinality(DOMAIN t) \subseteq Cells
       /\ \A p \in DOMAIN t :
            /\ p = Mountpoint \o Tail(p) /\ Tail(p) \in Seq(Nat \ {0}) /\ Tail(p) # <<>>
            /\ t[p] \in Nat \cup {-1}
            /\ Len(p) > 2 => Front(p) \in DOMAIN t /\ t[Front(p)] = -1
  /\ \A p \in Asked : \E prefix \in {"mnt", "beside", "out"} :
       p = <<prefix>> \o Tail(p) /\ Tail(p) \in Seq(Nat)
  /\ \A h \in Hashes : \A s \in {<<>>} \cup Asked \cup UNION {DOMAIN t : t \in Trees} :
       s \in DOMAIN h /\ h[s] \in Nat

VARIABLES
  role, hash,
  tree,    \* the file system at the last xal_index()
  inode,   \* xal->inodes.memory
  efree,   \* xal->extents.free
  map,     \* be->path_inode_map, NoMap for NULL
  err,     \* what the last xal_index() returned
  filled,  \* how many times the map has been filled since it was created
  synced,  \* the last of them was from the present tree, and succeeded
  calls

vars == <<role, hash, tree, inode, efree, map, err, filled, synced, calls>>

NoMap == [n_buckets |-> -1]
Zeroed == [name |-> <<>>, ftype |-> "none", idx |-> 0, count |-> 0]

TypeOK ==
  /\ role \in Roles /\ hash \in Hashes
  /\ tree \in Trees \cup {<<>>}
  /\ \A c \in Cells : inode[c].ftype \in {"none", "dir", "reg"}
                      /\ inode[c].idx \in Nat /\ inode[c].count \in Nat
  /\ efree \in Nat
  /\ map = NoMap \/ map.size = Cardinality({i \in DOMAIN map.bucket : map.bucket[i] # NoEntry})
  /\ err \in {"NONE", "OK", "EIO"}
  /\ filled \in Nat /\ synced \in BOOLEAN
  /\ calls \in 0 .. MaxIndex

\* xal_open() in either lookup mode, or xal_from_pools().
Init ==
  /\ role \in Roles /\ hash \in Hashes
  /\ tree = <<>>
  /\ inode = [c \in Cells |-> Zeroed]
  /\ efree = 0
  /\ map \in IF role = "owner" THEN {NoMap, kh_init} ELSE {NoMap}
  /\ err = "NONE" /\ filled = 0 /\ synced = FALSE
  /\ calls = 0

\* The names as the map's keys see them.
Names(cells) == [c \in Cells |-> cells[c].name]

\* A mistake the properties below must notice: names sorted the wrong way.
Mutant_SortedChildren(t, path) ==
  LET children == {p \in DOMAIN t : Front(p) = path} IN
  CHOOSE list \in [1 .. Cardinality(children) -> children] :
    \A i, j \in DOMAIN list : i < j => Last(list[j]) < Last(list[i])

-----------------------------------------------------------------------------
\* kh_put() of an inode under its own name.  Memory for 'room' more resizes
\* is to be had; a call that needs another one fails.
PutInode(w, c) ==
  IF w.map = NoMap \/ w.err # "OK" THEN w
  ELSE IF MustResize(w.map) /\ w.room = 0 THEN [w EXCEPT !.err = "EIO"]
  ELSE [w EXCEPT !.room = IF MustResize(w.map) THEN @ - 1 ELSE @,
                 !.map = kh_put(@, Names(w.inode), hash, c, c)]

\* qsort() of the names of a directory.
SortedChildren(t, path) ==
  LET children == {p \in DOMAIN t : Front(p) = path} IN
  CHOOSE list \in [1 .. Cardinality(children) -> children] :
    \A i, j \in DOMAIN list : i < j => Last(list[i]) < Last(list[j])

\* xal_be_fiemap_process_inode_file()
ProcessFile(w, c, n) ==
  LET found == IF n = 0 THEN w
               ELSE [w EXCEPT !.inode[c].idx = w.efree, !.inode[c].count = n,
                              !.efree = @ + n]
  IN PutInode(found, c)

\* xal_be_fiemap_process_inode_dir() up to its loop: one array is claimed for
\* the children.  w.stack has the directories whose loop is in progress.
EnterDir(w, t, path, c) ==
  LET list == SortedChildren(t, path) IN
  [w EXCEPT !.inode[c].ftype = "dir", !.inode[c].idx = w.ifree, !.inode[c].count = 0,
            !.ifree = @ + Len(list), !.stack = <<[dir |-> c, list |-> list]>> \o @]

\* process_ino_fiemap()
ProcessIno(w, t, path, c) ==
  IF t[path] >= 0
    THEN ProcessFile([w EXCEPT !.inode[c].ftype = "reg"], c, t[path])
    ELSE EnterDir(w, t, path, c)

\* The loop of xal_be_fiemap_process_inode_dir(): the next entry is named,
\* counted and processed; behind the last one the directory itself is put
\* into the map.
ProcessEntry(w, t) ==
  LET c    == Head(w.stack).dir
      list == Head(w.stack).list
      k    == w.inode[c].count
      d    == w.inode[c].idx + k
  IN IF k = Len(list)
       THEN PutInode([w EXCEPT !.stack = Tail(@)], c)
       ELSE ProcessIno([w EXCEPT !.inode[d].name = list[k + 1], !.inode[c].count = k + 1],
                       t, list[k + 1], d)

\* xal_be_fiemap_index(): the pools are cleared, the map is not.  Each entry
\* takes a round of the loop, each directory another one.
Ended(w) == w.stack = <<>> \/ w.err # "OK"
Indexed(t, m, room) ==
  LET cleared == [inode |-> [c \in Cells |-> Zeroed], ifree |-> 1, efree |-> 0,
                  map |-> m, room |-> room, err |-> "OK", stack |-> <<>>]
      run[k \in Nat] ==
        IF k = 0 THEN EnterDir(cleared, t, Mountpoint, Root)
        ELSE LET w == run[k - 1] IN IF Ended(w) THEN w ELSE ProcessEntry(w, t)
  IN run[2 * Cardinality(DOMAIN t) + 1]

\* xal_index(), in the view's case that of the process the pools belong to,
\* which knows nothing of the view's map.
xal_index(t, room) ==
  /\ calls < MaxIndex
  /\ LET w == Indexed(t, IF role = "owner" THEN map ELSE NoMap, room) IN
     /\ inode' = w.inode /\ efree' = w.efree /\ err' = w.err
     /\ IF role = "owner"
          THEN map' = w.map /\ filled' = filled + 1 /\ synced' = (w.err = "OK")
          ELSE UNCHANGED <<map, filled>> /\ synced' = FALSE
  /\ tree' = t
  /\ calls' = calls + 1
  /\ UNCHANGED <<role, hash>>

\* build_hashmap_walk(): the root has no name and is left out.
\* w.stack has the inodes still to be walked.
WalkInode(w) ==
  LET c        == Head(w.stack)
      children == IF w.inode[c].ftype = "dir"
                    THEN [i \in 1 .. w.inode[c].count |-> w.inode[c].idx + i - 1] ELSE <<>>
      v        == [w EXCEPT !.stack = children \o Tail(@)]
  IN IF w.inode[c].name = <<>> THEN v ELSE PutInode(v, c)

Walked(room) ==
  LET run[k \in Nat] ==
        IF k = 0 THEN [inode |-> inode, map |-> kh_init, room |-> room, err |-> "OK",
                       stack |-> <<Root>>]
        ELSE LET w == run[k - 1] IN IF Ended(w) THEN w ELSE WalkInode(w)
  IN run[Cardinality(Cells)]

xal_build_lookup_hashmap(room) ==
  /\ calls > 0
  /\ LET w == Walked(room) IN
     /\ map' = IF w.err = "OK" THEN w.map ELSE NoMap
     /\ synced' = (w.err = "OK")
  /\ filled' = 1
  /\ UNCHANGED <<role, hash, tree, inode, efree, err, calls>>

\* The watcher's refresh of a file puts it into the map again.
Refresh(c, n, room) ==
  /\ role = "owner" /\ err = "OK" /\ inode[c].ftype = "reg"
  /\ efree + n <= MaxExtents
  /\ LET w == ProcessFile([inode |-> inode, efree |-> efree, map |-> map,
                           room |-> room, err |-> "OK"], c, n) IN
     inode' = w.inode /\ efree' = w.efree /\ map' = w.map
  /\ UNCHANGED <<role, hash, tree, err, filled, synced, calls>>

Next ==
  \/ \E room \in 0 .. MaxRoom :
       \/ \E t \in Trees : xal_index(t, room)
       \/ xal_build_lookup_hashmap(room)
  \/ \E c \in Cells, n \in 0 .. 1, room \in 0 .. 1 : Refresh(c, n, room)

Spec == Init /\ [][Next]_vars

-----------------------------------------------------------------------------
InodeAt(c) == IF c \in Cells THEN inode[c] ELSE Zeroed
Basename(c) == IF InodeAt(c).name = <<>> THEN 0 ELSE Last(InodeAt(c).name)

\* bsearch() with compare_name_to_inode() in an array of count elements at
\* idx: s.l to s.u - 1 are left; s.at is what was found, -1 for NULL.
Narrow(s, idx, c) ==
  LET mid  == (s.l + s.u) \div 2
      base == Basename(idx + mid)
  IN IF s.l >= s.u THEN s
     ELSE IF c < base THEN [s EXCEPT !.u = mid]
     ELSE IF c > base THEN [s EXCEPT !.l = mid + 1]
     ELSE [l |-> mid, u |-> mid, at |-> idx + mid]
Bsearch(idx, count, c) ==
  LET left[k \in Nat] ==
        IF k = 0 THEN [l |-> 0, u |-> count, at |-> -1] ELSE Narrow(left[k - 1], idx, c)
  IN left[count].at

\* search_by_traversal(): the array of the inode it is at is searched for the
\* next component, whatever type that inode has.
Descend(list) ==
  LET at[k \in Nat] ==
        IF k = 0 THEN Root
        ELSE LET c == at[k - 1] IN
             IF c = -1 THEN -1 ELSE Bsearch(InodeAt(c).idx, InodeAt(c).count, list[k])
  IN at[Len(list)]

\* What lies behind the mountpoint is not looked at, and one character is
\* skipped: "beside" stands for a mountpoint followed by another character
\* than a slash, "out" for a path elsewhere.
search_by_traversal(path) ==
  IF Len(path) < 2 \/ path = <<"mnt", 0>> \/ Head(path) = "out" THEN [err |-> "EINVAL", val |-> -1]
  ELSE LET c == Descend(Tail(path)) IN
       [err |-> IF c = -1 THEN "ENOENT" ELSE "OK", val |-> c]

search_by_map(path) ==
  LET c == kh_get(map, Names(inode), hash, path) IN
  [err |-> IF c = -1 THEN "EINVAL" ELSE "OK", val |-> c]

\* xal_get_inode(), xal_get_extents() and xal_get_dentries()
xal_get_inode(path) == IF map # NoMap THEN search_by_map(path) ELSE search_by_traversal(path)

xal_get_typed(path, ftype, refusal) ==
  LET r == xal_get_inode(path) IN
  IF r.err = "OK" /\ inode[r.val].ftype # ftype THEN [err |-> refusal, val |-> -1] ELSE r
xal_get_extents(path) == xal_get_typed(path, "reg", "EINVAL")
xal_get_dentries(path) == xal_get_typed(path, "dir", "ENOTDIR")

-----------------------------------------------------------------------------
Exists(path) == path \in DOMAIN tree

\* The path goes on behind a regular file.
ThroughFile(path) ==
  \E k \in 2 .. Len(path) - 1 : Exists(SubSeq(path, 1, k)) /\ tree[SubSeq(path, 1, k)] >= 0

\* libxal.h on xal_get_extents() and xal_get_dentries(): "This call fails if
\* the entry at the given path is not a file", or not a directory: after an
\* index, in both lookup modes and in a view, each of them succeeds for the
\* paths of its kind, with the inode of that path, and fails for every other
\* path.  (A map that several indexes have filled is LookupReturnsAsked; a
\* path that goes on behind a file, or beside the mountpoint, is only
\* refused by the map.)
Answers(r, path, ok) ==
  IF ok THEN r.err = "OK" /\ inode[r.val].name = path ELSE r.err # "OK"
LookupAnswers ==
  err = "OK" /\ (map # NoMap => synced /\ filled = 1) =>
    \A p \in Asked :
      map # NoMap \/ (Head(p) # "beside" /\ ~ThroughFile(p)) =>
        /\ Answers(xal_get_extents(p), p, Exists(p) /\ tree[p] >= 0)
        /\ Answers(xal_get_dentries(p), p, Exists(p) /\ tree[p] = -1)

\* The map of an owner is never cleared, its keys point into the pool that
\* every index writes anew, and a refresh may resize it at any time: still a
\* path is found if and only if it is in the tree.
MapFindsTree ==
  err = "OK" /\ map # NoMap /\ synced =>
    \A p \in Asked : search_by_map(p).err = "OK" <=> Exists(p)

\* A view is not told of an index: with a map that is out of date it may miss
\* a path, but what it finds is what it was asked for.
ViewMapNeverWrong ==
  role = "view" /\ map # NoMap =>
    \A p \in Asked : search_by_map(p).err = "OK" =>
                       inode[search_by_map(p).val].name = p

\* The searches of kh_get() and kh_put() end at an empty bucket: there is one
\* whatever has accumulated in the map.
SearchesEnd ==
  map # NoMap /\ map.n_buckets > 0 =>
    \E i \in DOMAIN map.bucket : map.bucket[i] = NoEntry

\* libxal.h on xal_get_inode(): "Retrieve the inode that represent the file or
\* directory at the given path", and on xal_index(): "When called, any index
\* created from previous calls to xal_index() are cleared".
LookupReturnsAsked ==
  err = "OK" /\ map # NoMap =>
    \A p \in Asked : search_by_map(p).err = "OK" =>
                       inode[search_by_map(p).val].name = p
=============================================================================
