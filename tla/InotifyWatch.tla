---------------------------- MODULE InotifyWatch ----------------------------
(***************************************************************************)
(* The background thread of src/xal_be_fiemap_inotify.c.  It spins while    *)
(* the tree is dirty; while it is clean it reads inotify events, and either *)
(* marks the tree dirty or, in extent-update mode, refreshes the extents of *)
(* the modified file under the sequence lock.  Any error ends the thread.   *)
(***************************************************************************)
EXTENDS FiemapIndex

CONSTANT MaxRead   \* events that fit in the 4096 bytes of one read()
ASSUME MaxReadAssumption == MaxRead \in Nat \ {0}

VARIABLES
  wpc,    \* where the thread is, "off" before xal_watch_filesystem()
  buf,    \* events read and not yet handled
  wcur,   \* the file being refreshed
  wnmap, wgot   \* as nmap and got, in this thread's read_fiemap()

watchVars == <<wpc, buf, wcur, wnmap, wgot>>

WatchSteps == {"off", "load", "read", "event", "lock", "open", "map", "store",
               "stat", "mark", "failed", "dead"}

WatchTypeOK ==
  /\ wpc \in WatchSteps
  /\ buf \in Seq(Events) /\ Len(buf) <= MaxRead
  /\ wcur \in Entries
  /\ wnmap \in Nat
  /\ wgot \in Mappings

WatchInit ==
  /\ wpc = "off" /\ buf = <<>>
  /\ wcur = Root /\ wnmap = 0 /\ wgot = <<>>

WGoto(step) == wpc' = step

\* Mistakes the properties of FiemapSystem must notice: events are read while
\* the tree is dirty; only the first event of a read is handled.
Mutant_LoadDirty ==
  /\ wpc = "load" /\ WGoto("read")
  /\ UNCHANGED <<fsVars, indexVars, buf, wcur, wnmap, wgot>>
Mutant_NextEvent(rest) == buf' = <<>> /\ WGoto("read")

\* xal_watch_filesystem(), called by the thread that indexes.
WatchStart ==
  /\ wpc = "off"
  /\ WatchMode # "none"
  /\ rootIdx # -1
  /\ WGoto("load")
  /\ UNCHANGED <<fsVars, indexVars, buf, wcur, wnmap, wgot>>

\* The loop of background_thread_start(): nothing is read while dirty.
LoadDirty ==
  /\ wpc = "load"
  /\ ~dirty
  /\ WGoto("read")
  /\ UNCHANGED <<fsVars, indexVars, buf, wcur, wnmap, wgot>>

\* read() of the non-blocking descriptor in check_events()
Least(a, b) == IF a < b THEN a ELSE b

ReadEvents ==
  /\ wpc = "read"
  /\ LET n == Least(Len(queue), MaxRead) IN
     /\ buf' = SubSeq(queue, 1, n)
     /\ queue' = SubSeq(queue, n + 1, Len(queue))
     /\ WGoto(IF n = 0 THEN "load" ELSE "event")
  /\ UNCHANGED <<present, gone, ext, watched, changes, indexVars, wcur, wnmap, wgot>>

NextEvent(rest) ==
  /\ buf' = rest
  /\ WGoto(IF rest = <<>> THEN "read" ELSE "event")

\* check_events() returns 1: what is left of the buffer is dropped.
Breaking == buf' = <<>> /\ WGoto("mark")

\* The event of a change below a watched directory is looked up by watch
\* descriptor; the name of the file is compared under the sequence lock.
HandleEvent ==
  /\ wpc = "event"
  /\ LET ev == Head(buf) IN
     \/ /\ WatchMode = "dirty"
        /\ Breaking
     \/ /\ WatchMode = "extent" /\ ev.kind = "unmount"
        /\ WGoto("dead") /\ UNCHANGED buf
     \/ /\ WatchMode = "extent" /\ ev.kind = "modify"
        /\ WGoto(IF ev.dir \in wdMap THEN "lock" ELSE "dead")
        /\ UNCHANGED buf
     \/ /\ WatchMode = "extent" /\ ev.kind \in {"create", "delete"}
        /\ Breaking
     \/ /\ WatchMode = "extent" /\ ev.kind \in {"ignored", "overflow"}
        /\ NextEvent(Tail(buf))
  /\ UNCHANGED <<fsVars, indexVars, wcur, wnmap, wgot>>

\* The path of an event is made of the directory's name, and the root inode
\* has the empty name whereas the names of its children start with the
\* mountpoint: no file of the root directory is ever found.
Finds(dir, name) == dir # Root /\ name \in kids[dir]

LockAndFind ==
  /\ wpc = "lock"
  /\ seq' = seq + 1
  /\ LET ev == Head(buf) IN
     IF Finds(ev.dir, ev.name) /\ ev.name \in Files
       THEN wcur' = ev.name /\ WGoto("open")
       ELSE WGoto("failed") /\ UNCHANGED wcur
  /\ UNCHANGED <<fsVars, dirty, treeVars, walkVars, buf, wnmap, wgot>>

\* xal_be_fiemap_process_inode_file() in this thread.
RefreshOpen ==
  /\ wpc = "open"
  /\ \/ wcur \in present /\ WGoto("map") /\ wnmap' = Len(ext[wcur])
     \/ (wcur \notin present \/ OtherErrors) /\ WGoto("failed") /\ UNCHANGED wnmap
  /\ UNCHANGED <<fsVars, indexVars, buf, wcur, wgot>>

RefreshMap ==
  /\ wpc = "map"
  /\ \/ /\ MappedCount(wnmap, ext[wcur]) = 0
        /\ WGoto("stat") /\ UNCHANGED <<wgot, text, extents>>
     \/ /\ MappedCount(wnmap, ext[wcur]) > 0
        /\ ClaimMapping(wcur, wnmap)
        /\ wgot' = Mapped(wnmap, ext[wcur])
        /\ WGoto("store")
     \/ /\ MappedCount(wnmap, ext[wcur]) > 0
        /\ \E e \in PoolErrors : ClaimMappingError(wcur, wnmap, e)
        /\ WGoto("failed") /\ UNCHANGED <<wgot, text, extents>>
     \/ OtherErrors /\ WGoto("failed") /\ UNCHANGED <<wgot, text, extents>>
  /\ UNCHANGED <<fsVars, dirty, seq, rootIdx, kids, wdMap, inodes, walkVars,
                 buf, wcur, wnmap>>

RefreshStore ==
  /\ wpc = "store"
  /\ text' = [text EXCEPT ![wcur] = wgot]
  /\ WGoto("stat")
  /\ UNCHANGED <<fsVars, dirty, seq, rootIdx, kids, wdMap, inodes, extents,
                 walkVars, buf, wcur, wnmap, wgot>>

\* stat() for the new size, then the sequence lock is released.
RefreshStat ==
  /\ wpc = "stat"
  /\ IF wcur \in present
       THEN seq' = seq + 1 /\ NextEvent(Tail(buf))
       ELSE WGoto("failed") /\ UNCHANGED <<seq, buf>>
  /\ UNCHANGED <<fsVars, dirty, treeVars, walkVars, wcur, wnmap, wgot>>

\* failed_with_lock: the lock is released and the thread ends.
RefreshFailed ==
  /\ wpc = "failed"
  /\ seq' = seq + 1
  /\ WGoto("dead")
  /\ UNCHANGED <<fsVars, dirty, treeVars, walkVars, buf, wcur, wnmap, wgot>>

\* Breaking changes: dirty, then the callback, which is the client's code.
MarkDirty ==
  /\ wpc = "mark"
  /\ dirty' = TRUE
  /\ WGoto("load")
  /\ UNCHANGED <<fsVars, seq, treeVars, walkVars, buf, wcur, wnmap, wgot>>

WatchNext ==
  \/ LoadDirty \/ ReadEvents \/ HandleEvent
  \/ LockAndFind \/ RefreshOpen \/ RefreshMap \/ RefreshStore \/ RefreshStat
  \/ RefreshFailed \/ MarkDirty
=============================================================================
