---------------------------- MODULE FiemapSystem ----------------------------
(***************************************************************************)
(* The FIEMAP backend as a program uses it: one thread indexes, starts the  *)
(* watcher after its first successful index and indexes again when the tree *)
(* is dirty or the last index failed; the watcher thread runs beside it;    *)
(* other processes change the file system; and a reader uses the sequence   *)
(* lock the way include/libxal.h describes.                                 *)
(***************************************************************************)
EXTENDS TreeWalk

CONSTANTS
  MaxIndex,        \* bound on the number of calls of xal_index()
  IndexWhenStale   \* the client's rule about them, see MayIndex

VARIABLE
  calls           \* calls of xal_index() so far

vars == <<fsVars, indexVars, watchVars, calls, readVars>>

ASSUME SystemAssumption == MaxIndex \in Nat /\ IndexWhenStale \in BOOLEAN

TypeOK ==
  /\ FsTypeOK /\ IndexTypeOK /\ WatchTypeOK /\ WalkTypeOK
  /\ calls \in 0 .. MaxIndex

Init ==
  /\ IndexInit /\ WatchInit /\ WalkInit
  /\ calls = 0

\* xal_index() itself refuses no call.  README asks for it first of all, and
\* again when the tree is dirty: the dirty flag keeps the threads apart for a
\* client that does no more than that, or tries again after an error.
MayIndex == IndexWhenStale => err # "OK" \/ dirty

CallIndex ==
  /\ calls < MaxIndex /\ MayIndex
  /\ calls' = calls + 1
  /\ IndexStart
  /\ UNCHANGED <<watchVars, readVars>>

StartWatching ==
  /\ mpc = "idle" /\ err = "OK"
  /\ WatchStart
  /\ UNCHANGED <<calls, readVars>>

Reader == WalkNext /\ UNCHANGED calls

Environment == FsNext /\ UNCHANGED <<indexVars, watchVars, calls, readVars>>
Indexer == IndexNext /\ UNCHANGED <<watchVars, calls, readVars>>
Watcher == WatchNext /\ UNCHANGED <<calls, readVars>>

Next == Environment \/ CallIndex \/ StartWatching \/ Indexer \/ Watcher \/ Reader

Spec == Init /\ [][Next]_vars

Fairness ==
  /\ WF_vars(Indexer) /\ WF_vars(CallIndex) /\ WF_vars(StartWatching)
  /\ WF_vars(Watcher)
FairSpec == Spec /\ Fairness
-----------------------------------------------------------------------------
\* The tree says what the file system says.
Fresh ==
  /\ \A d \in Dirs \cap present : kids[d] = Children(d)
  /\ \A f \in Files \cap present : text[f] = ext[f]

\* Something will still make the watcher look at the tree.
Pending == queue # <<>> \/ buf # <<>> \/ wpc = "mark"

\* The xal struct records in 'dirty' "Whether the file system has changed since
\* last index": after a successful index, a change to a directory or to a
\* mapping is either already marked, or an event of it is on its way.  A
\* change during the walk must not slip between the listing of a directory
\* and its watch, nor between the last event read and the end of the index.
NoMissedChange ==
  mpc = "idle" /\ err = "OK" /\ wpc \notin {"failed", "dead"} /\ ~Fresh =>
    dirty \/ Pending

\* libxal.h on xal_get_seq_lock(): "An uneven number indicates the struct is
\* being modified": nobody is inside a modification while it is even.
Modifying ==
  \/ mpc \in Steps \ {"idle"}
  \/ wpc \in {"open", "map", "store", "stat", "failed"}
OddWhileModified == Modifying => seq % 2 = 1

\* A walk that finds the same even number before and after has visited every
\* inode of one tree, seen each one complete, and, once the watcher runs, the
\* tree of an index that succeeded.  Neither the flag, which an index may
\* clear between two inodes, nor the number, which is even after an index
\* that failed, shows this by itself.
WalksSeeOneTree ==
  rpc = "check" /\ seq = rseq =>
    /\ DOMAIN rsaw = InTree
    /\ \A e \in InTree : rsaw[e] = Content(e)
    /\ \A f \in InTree \cap Files : rsaw[f] # Blank
    /\ wpc # "off" => err = "OK"

\* The indexing thread and the watcher never work on the tree at once.
Exclusive ==
  ~(mpc \in {"clear", "entry", "watch", "list", "open", "map", "store"}
    /\ wpc \in {"event", "lock", "open", "map", "store", "stat", "failed", "mark"})

\* README: modifications "trigger an automatic in-place extent refresh for the
\* affected file": only an unmounted file system ends the watcher.
WatcherSurvives == wpc = "dead" => buf # <<>> /\ Head(buf).kind = "unmount"

\* Once the changes stop, the tree catches up with the file system.
CatchesUp == <>[](Fresh /\ ~dirty)
=============================================================================
