----------------------------- MODULE XalHandle -----------------------------
(***************************************************************************)
(* The life of a struct xal (src/xal.c and the open and close functions of  *)
(* both backends): what xal_open() acquires step by step, any of which may  *)
(* fail; what xal_close() gives back; xal_index() as far as other processes *)
(* see it in shared memory; and the views other processes build on the      *)
(* pools with xal_from_pools().  Shared memory objects are never unlinked:  *)
(* they outlive the handle and a killed process, and the next xal_open()    *)
(* finds them.                                                              *)
(***************************************************************************)
EXTENDS Naturals, Sequences

CONSTANTS
  Options,   \* the struct xal_opts the client may pass
  Rules      \* what the client takes care of, see MayOpen, MayIndex,
             \* MayStop and MayClose

VARIABLES
  mounted,   \* the device is listed in /proc/mounts
  held,      \* what the last xal_open() acquired and was not given back
  state,     \* "none", "open", or "error": xal_open() failed and left *xal set
  opt,       \* the options of the handle, with the backend that was chosen
  err,       \* result of the last xal_index(), "none" before the first
  root,      \* xal->root_idx # XAL_POOL_IDX_NONE
  own,       \* xal->_dirty_storage
  shared,    \* the shared memory object {shm_name}_dirty
  tree,      \* the tree in the shared memory objects of the pools
  view,      \* another process was told of them, and may have a view on them
  client     \* what the client's thread is in: "idle", "indexing", "stopping"

handleVars == <<mounted, held, state, opt, err, root, own, shared, tree, view>>

Opts == [be : {"FIEMAP", "XFS"}, watch : {"none", "dirty", "extent"},
         hash : BOOLEAN, shm : BOOLEAN]
ASSUME OptionsAssumption ==
  /\ Options \subseteq [be : {"auto", "FIEMAP", "XFS"},
                        watch : {"none", "dirty", "extent"},
                        hash : BOOLEAN, shm : BOOLEAN]
  /\ Rules \subseteq {"unshared", "unviewed", "started", "stopped", "ended"}

Resources == {"xal", "mountpoint", "inotify", "fd", "wdMap", "inodes", "extents",
              "pathMap", "dirtyMap", "buf", "ags", "dinodes", "dinodesMap"}

\* What no path of the code gives back: struct xal_inotify and the group
\* headers; a directory stream, a half-built struct and a replaced buffer of
\* inodes, each left by an error or a repeated call.
Leaked == {"inotify", "ags", "DIR", "cand", "replaced"}

NoOpts == [be |-> "FIEMAP", watch |-> "none", hash |-> FALSE, shm |-> FALSE]

HandleTypeOK ==
  /\ mounted \in BOOLEAN /\ held \subseteq Resources \cup Leaked
  /\ state \in {"none", "open", "error"}
  /\ opt \in Opts
  /\ err \in {"none", "OK", "EIO", "EINVAL"} /\ root \in BOOLEAN
  /\ own \in BOOLEAN /\ shared \in BOOLEAN
  /\ tree \in {"absent", "zeroed", "partial", "built"} /\ view \in BOOLEAN
  /\ client \in {"idle", "indexing", "stopping"}

HandleInit ==
  /\ mounted \in BOOLEAN
  /\ held = {} /\ state = "none" /\ opt = NoOpts
  /\ err = "none" /\ root = FALSE
  /\ own = FALSE /\ shared = FALSE /\ tree = "absent" /\ view = FALSE
  /\ client = "idle"

\* *xal->dirty
Dirty == IF opt.shm THEN shared ELSE own
SetDirty(value) ==
  IF opt.shm THEN shared' = value /\ UNCHANGED own
             ELSE own' = value /\ UNCHANGED shared

\* Mistakes the properties of WatchSession must notice: the backend that was
\* detected is not recorded; closing forgets the descriptor of inotify; a
\* failed index clears the dirty flag.
Mutant_Detected(o) == o.be
Mutant_Released(be) ==
  {"inodes", "extents", "dirtyMap", "xal", "mountpoint", "wdMap", "pathMap"}
Mutant_IndexFailed ==
  err' = "EIO" /\ root' \in {root, TRUE} /\ SetDirty(FALSE) /\ UNCHANGED tree

-----------------------------------------------------------------------------
\* What xal_open() does in order, one name per step that may fail.  The steps
\* that acquire something bear its name.
FiemapSteps(o) ==
  <<"mounts", "xal", "mountpoint">>
  \o (IF o.watch = "none" THEN <<>> ELSE <<"inotify", "fd", "wdMap">>)
  \o <<"count", "stat", "inodes", "extents">>
  \o (IF o.hash THEN <<"pathMap">> ELSE <<>>)
XfsSteps == <<"buf", "superblock", "xal", "ags", "groups", "inodes", "extents">>
OpenSteps(o, be) ==
  (IF be = "XFS" THEN XfsSteps ELSE FiemapSteps(o))
  \o (IF o.shm THEN <<"dirtyMap">> ELSE <<>>) \o <<"ns">>

Before(steps, k) == {steps[i] : i \in 1 .. k - 1}

\* xal_close() of a handle that is no view: the pools, the flag, and what the
\* close function of the backend knows of.
Released(be) ==
  {"inodes", "extents", "dirtyMap", "xal"}
  \cup IF be = "XFS" THEN {"buf", "dinodes", "dinodesMap"}
                     ELSE {"mountpoint", "wdMap", "fd", "pathMap"}

\* Without a choice of the client, a mounted device is opened by FIEMAP.
Detected(o) ==
  IF o.be # "auto" THEN o.be ELSE IF mounted THEN "FIEMAP" ELSE "XFS"

\* What is left when step k fails: nothing was acquired before the struct or
\* the buffer; a superblock that cannot be decoded frees the buffer only; a
\* failing count leaves the streams of the directories it was in; then the
\* candidate is closed, but not when the namespace cannot be identified.
LeftBy(be, steps, k) ==
  LET got  == Before(steps, k) \cap Resources
      kept == got \ Released(be)
  IN IF steps[k] = "ns" THEN {got}
     ELSE IF steps[k] = "ags" THEN {{"cand"}}
     ELSE IF steps[k] = "count" THEN {kept, kept \cup {"DIR"}}
     ELSE {kept}

\* Mapping a pool on shared memory zeroes it; a new flag is created zeroed.
MapsShared(o, steps, k) == o.shm /\ "inodes" \in Before(steps, k)

\* "unshared": no new producer under a view that takes its tree for clean.
MayOpen(o) == "unshared" \in Rules /\ o.shm => ~view \/ shared

xal_open(o) ==
  /\ client = "idle" /\ state = "none" /\ MayOpen(o)
  /\ LET be == Detected(o)
         steps == OpenSteps(o, be)
         done == Len(steps) + 1
     IN \E k \in 1 .. done :
        /\ be = "FIEMAP" /\ ~mounted => k = 1
        /\ tree' = IF MapsShared(o, steps, k) THEN "zeroed" ELSE tree
        /\ IF k = done
             THEN held' = Before(steps, k) \cap Resources
             ELSE held' \in LeftBy(be, steps, k)
        /\ state' = IF k = done THEN "open"
                    ELSE IF k = done - 1 THEN "error" ELSE "none"
        /\ opt' = IF k >= done - 1 THEN [o EXCEPT !.be = be] ELSE NoOpts
  /\ err' = "none" /\ root' = FALSE /\ own' = FALSE
  /\ UNCHANGED <<mounted, shared, view, client>>

\* The process ends: everything but the shared memory objects is gone.
Gone ==
  /\ held' = {} /\ state' = "none" /\ opt' = NoOpts
  /\ err' = "none" /\ root' = FALSE /\ own' = FALSE
  /\ client' = "idle"
  /\ UNCHANGED <<mounted, shared, tree, view>>

\* xal_close(), but for the watcher thread.
Close ==
  /\ client = "idle" /\ state # "none"
  /\ held' = held \ Released(opt.be)
  /\ state' = "none" /\ opt' = NoOpts
  /\ err' = "none" /\ root' = FALSE /\ own' = FALSE
  /\ UNCHANGED <<mounted, shared, tree, view, client>>

\* xal_dinodes_retrieve(): a repeated call drops the old map, and the buffer
\* unless there is no memory for a new map.
xal_dinodes_retrieve ==
  /\ client = "idle" /\ state = "open" /\ opt.be = "XFS"
  /\ \E got \in {held \cap {"dinodes"}, {"dinodesMap"}, {"dinodesMap", "dinodes"}} :
       held' = (held \ {"dinodes", "dinodesMap"}) \cup got
               \cup (IF "dinodesMap" \in held THEN {"replaced"} ELSE {})
  /\ UNCHANGED <<mounted, state, opt, err, root, own, shared, tree, view, client>>

-----------------------------------------------------------------------------
\* xal_index(), at any time: for the first time, after a failure, of a tree
\* that is stale or of one that is not.  The pools are cleared, which leaves
\* the flag as it was.  With a buffer of inodes and no map the process dies,
\* see WatchSession's Crash.
IndexRefused ==
  /\ opt.be = "XFS" /\ "dinodes" \notin held
  /\ err' = "EINVAL"
  /\ UNCHANGED <<tree, client>>

IndexBegin ==
  /\ opt.be = "XFS" => {"dinodes", "dinodesMap"} \subseteq held
  /\ client' = "indexing"
  /\ tree' = IF opt.shm THEN "partial" ELSE tree
  /\ UNCHANGED err

\* "unviewed": no index under a view that takes its tree for clean.
MayIndex == "unviewed" \in Rules /\ opt.shm => ~view \/ shared

xal_index ==
  /\ client = "idle" /\ state = "open" /\ MayIndex
  /\ IndexRefused \/ IndexBegin
  /\ UNCHANGED <<mounted, held, state, opt, root, own, shared, view>>

IndexDone ==
  /\ err' = "OK" /\ root' = TRUE
  /\ tree' = IF opt.shm THEN "built" ELSE tree
  /\ SetDirty(FALSE)

IndexFailed ==
  /\ err' = "EIO" /\ root' \in {root, TRUE}
  /\ UNCHANGED <<own, shared, tree>>

IndexReturn(Outcome) ==
  /\ client = "indexing" /\ Outcome
  /\ client' = "idle"
  /\ UNCHANGED <<mounted, held, state, opt, view>>

-----------------------------------------------------------------------------
\* Another process is told that the objects are indexed, and may map them from
\* then on; xal_close() of its view leaves the memory alone.
xal_from_pools ==
  /\ ~view /\ state = "open" /\ opt.shm /\ err = "OK" /\ client = "idle"
  /\ view' = TRUE
  /\ UNCHANGED <<mounted, held, state, opt, err, root, own, shared, tree, client>>

CloseView ==
  /\ view /\ view' = FALSE
  /\ UNCHANGED <<mounted, held, state, opt, err, root, own, shared, tree, client>>

\* Mounting matters to xal_open() only.
Remount ==
  /\ state = "none" /\ mounted' = ~mounted
  /\ UNCHANGED <<held, state, opt, err, root, own, shared, tree, view, client>>
=============================================================================
