---------------------------- MODULE WatchSession ----------------------------
(***************************************************************************)
(* A client from xal_open() to xal_close(), with the background threads of  *)
(* src/xal_be_fiemap_inotify.c.  A thread announces itself in               *)
(* inotify->flag when it runs; a stop cancels the thread in                 *)
(* watch_thread_id and clears the flag without waiting for it.  A cancelled *)
(* thread ends at its next cancellation point (read(), or open() and        *)
(* close() inside a refresh) and runs no clean-up.  What a thread does with *)
(* events and how it meets xal_index() is InotifyWatch and FiemapSystem;    *)
(* here an event is nothing more than what it makes the thread do.          *)
(***************************************************************************)
EXTENDS XalHandle

CONSTANTS
  MaxThreads,   \* bound on the threads that exist at once; no more are created
  CancelEnded   \* what pthread_cancel() returns for a thread that has ended

ASSUME SessionAssumption ==
  MaxThreads \in Nat /\ CancelEnded \in {"OK", "ESRCH"}

Threads == 1 .. MaxThreads

VARIABLES
  flag,     \* inotify->flag & XAL_BE_FIEMAP_INOTIFY_RUNNING
  tid,      \* inotify->watch_thread_id, 0 before the first thread
  th,       \* where every thread is
  cancel,   \* threads with a cancellation pending
  ret       \* what the last call about the watcher returned

threadVars == <<flag, tid, th, cancel, ret>>
vars == <<handleVars, client, threadVars>>

TypeOK ==
  /\ HandleTypeOK
  /\ flag \in BOOLEAN /\ tid \in {0} \cup Threads
  /\ th \in [Threads -> {"none", "new", "spin", "read", "refresh", "mark", "dead"}]
  /\ cancel \subseteq Threads
  /\ ret \in {"none", "OK", "EINVAL", "EAGAIN", "ESRCH"}

Init ==
  /\ HandleInit
  /\ flag = FALSE /\ tid = 0
  /\ th = [t \in Threads |-> "none"] /\ cancel = {} /\ ret = "none"

Alive(t) == th[t] \notin {"none", "dead"}
Watched == opt.be = "FIEMAP" /\ opt.watch # "none"

\* A mistake the properties must notice: a stop leaves the flag set.
Mutant_Stopped == ret' = "OK" /\ UNCHANGED flag

-----------------------------------------------------------------------------
ForgetThreads ==
  /\ flag' = FALSE /\ tid' = 0 /\ th' = [t \in Threads |-> "none"]
  /\ cancel' = {} /\ ret' = "none"

\* The process is killed, at any point, or dies of a null pointer: opening
\* with XFS uses one when a failed read of the superblock leaves errno zero,
\* and when it closes the candidate before xal->dev is set; indexing does
\* when a repeated xal_dinodes_retrieve() left no map.
Crash == Gone /\ ForgetThreads

\* xal_watch_filesystem(): a thread is created unless the flag is set.
xal_watch_filesystem ==
  /\ client = "idle" /\ state = "open"
  /\ \/ /\ ~Watched \/ (~flag /\ ~root)
        /\ ret' = "EINVAL" /\ UNCHANGED <<tid, th, cancel>>
     \/ /\ Watched /\ flag
        /\ ret' = "OK" /\ UNCHANGED <<tid, th, cancel>>
     \/ /\ Watched /\ ~flag /\ root /\ \A t \in Threads : th[t] # "none"
        /\ ret' = "EAGAIN" /\ UNCHANGED <<tid, th, cancel>>
     \/ /\ Watched /\ ~flag /\ root
        /\ \E t \in Threads :
             /\ th[t] = "none" /\ \A u \in 1 .. t - 1 : th[u] # "none"
             /\ tid' = t /\ th' = [th EXCEPT ![t] = "new"]
             /\ cancel' = cancel \ {t}
        /\ ret' = "OK"
  /\ UNCHANGED <<handleVars, client, flag>>

\* "started": only a thread that has announced itself is stopped.
MayStop == "started" \in Rules => th[tid] # "new"

\* xal_stop_watching_filesystem(): its test for a running thread, flag &
\* ~RUNNING, never fails.  Without any thread the first pthread_cancel() is
\* handed a zero identifier, and the process dies.
StopRefused ==
  /\ client = "idle" /\ state = "open" /\ ~Watched
  /\ ret' = "EINVAL"
  /\ UNCHANGED <<handleVars, client, flag, tid, th, cancel>>

StopWithoutThread ==
  /\ client = "idle" /\ state = "open" /\ Watched /\ tid = 0
  /\ Crash

StopBegin ==
  /\ client = "idle" /\ state = "open" /\ Watched /\ tid # 0 /\ MayStop
  /\ cancel' = cancel \cup {tid}
  /\ client' = "stopping"
  /\ UNCHANGED <<handleVars, flag, tid, th, ret>>

\* Only the second of the two calls of pthread_cancel() is looked at.
Stopped == ret' = "OK" /\ flag' = FALSE

StopEnd ==
  /\ client = "stopping"
  /\ IF th[tid] = "dead" /\ CancelEnded # "OK"
       THEN ret' = CancelEnded /\ UNCHANGED flag
       ELSE Stopped
  /\ client' = "idle"
  /\ UNCHANGED <<handleVars, tid, th, cancel>>

\* "stopped": every thread was told to stop before; "ended": and has ended.
MayClose ==
  \A t \in Threads : Alive(t) =>
    /\ "ended" \notin Rules
    /\ "stopped" \in Rules => t \in cancel /\ ret = "OK"

\* xal_close(): after the memory is unmapped a running thread is cancelled,
\* and the struct is freed without waiting for it.
xal_close ==
  /\ MayClose
  /\ Close
  /\ cancel' = IF flag THEN cancel \cup {tid} ELSE cancel
  /\ th' = [t \in Threads |-> IF th[t] = "dead" THEN "none" ELSE th[t]]
  /\ flag' = FALSE /\ tid' = 0 /\ ret' = "none"

-----------------------------------------------------------------------------
Moves(t, from, to) == th[t] = from /\ th' = [th EXCEPT ![t] = to]

\* background_thread_start() up to its loop.
ThreadStart(t) ==
  /\ Moves(t, "new", "spin")
  /\ flag' = TRUE
  /\ UNCHANGED <<handleVars, client, tid, cancel, ret>>

\* The loop spins while the tree is dirty, without a cancellation point.
ThreadLoop(t) ==
  /\ Moves(t, "spin", "read") /\ ~Dirty
  /\ UNCHANGED <<handleVars, client, flag, tid, cancel, ret>>

\* A mistake the properties must notice: read() is no cancellation point.
Mutant_ThreadRead(t) ==
  /\ \/ Moves(t, "read", "spin")
     \/ Moves(t, "read", "mark")
     \/ Moves(t, "read", "refresh") /\ opt.watch = "extent"
  /\ UNCHANGED <<handleVars, client, flag, tid, cancel, ret>>

\* read() in check_events(): nothing more to read, a breaking change, or a
\* modified file to refresh.
ThreadRead(t) ==
  /\ t \notin cancel
  /\ \/ Moves(t, "read", "spin")
     \/ Moves(t, "read", "mark")
     \/ Moves(t, "read", "refresh") /\ opt.watch = "extent"
  /\ UNCHANGED <<handleVars, client, flag, tid, cancel, ret>>

\* xal_be_fiemap_process_inode_file() and stat() of the modified file.
ThreadRefresh(t) ==
  /\ t \notin cancel
  /\ Moves(t, "refresh", "read")
  /\ UNCHANGED <<handleVars, client, flag, tid, cancel, ret>>

\* Any error of check_events() ends the thread.
ThreadFail(t) ==
  /\ opt.watch = "extent"
  /\ \/ Moves(t, "read", "dead") /\ t \notin cancel
     \/ Moves(t, "refresh", "dead")
  /\ flag' = FALSE
  /\ UNCHANGED <<handleVars, client, tid, cancel, ret>>

ThreadMark(t) ==
  /\ Moves(t, "mark", "spin")
  /\ SetDirty(TRUE)
  /\ UNCHANGED <<mounted, held, state, opt, err, root, tree, view, client,
                 flag, tid, cancel, ret>>

ThreadCancelled(t) ==
  /\ t \in cancel
  /\ Moves(t, "read", "dead") \/ Moves(t, "refresh", "dead")
  /\ UNCHANGED <<handleVars, client, flag, tid, cancel, ret>>

Thread(t) ==
  \/ ThreadStart(t) \/ ThreadLoop(t) \/ ThreadRead(t) \/ ThreadRefresh(t)
  \/ ThreadFail(t) \/ ThreadMark(t) \/ ThreadCancelled(t)

-----------------------------------------------------------------------------
Handle ==
  /\ \/ \E o \in Options : xal_open(o)
     \/ xal_dinodes_retrieve \/ xal_index
     \/ IndexReturn(IndexDone) \/ IndexReturn(IndexFailed)
     \/ xal_from_pools \/ CloseView \/ Remount
  /\ UNCHANGED threadVars

Next ==
  \/ Handle
  \/ xal_watch_filesystem
  \/ StopRefused \/ StopWithoutThread \/ StopBegin \/ StopEnd
  \/ xal_close \/ Crash
  \/ \E t \in Threads : Thread(t)

Spec == Init /\ [][Next]_vars

\* A thread that can run does run.  Nothing is asked of the client.
Fairness == \A t \in Threads : WF_vars(Thread(t))
FairSpec == Spec /\ Fairness

-----------------------------------------------------------------------------
\* xal_close(), and an xal_open() that fails at any of its steps, give back
\* the memory, mappings, descriptors and maps of both backends.  Leaked names
\* what is known not to come back; a handle whose namespace could not be
\* identified is still in the caller's hands.
NothingOutlivesHandle == state = "none" => held \subseteq Leaked

\* What a process that shares the pools relies on before a walk: while the
\* flag in shared memory is clear, the tree next to it is complete, whenever
\* the producer fails, is killed or starts again.  Neither xal_open() nor
\* xal_index() sets the flag: a client that opens the objects anew, or indexes
\* a clean tree, under a view breaks it (rules "unshared" and "unviewed").
ViewsSeeBuiltTree == view /\ ~shared => tree = "built"

\* libxal.h on xal_watch_filesystem(): "Start a background thread listening
\* to inotify events": the flag that makes a call return 0 and start nothing
\* stands for a thread that is there to stay.
WatchMeansWatched ==
  client = "idle" /\ flag => \E t \in Threads : Alive(t) /\ t \notin cancel

\* A thread that was told to stop ends, wherever it is, provided only that the
\* tree is left clean: the loop has no cancellation point while it is dirty,
\* so a client that waits for the thread before it indexes waits for ever.
StopEnds ==
  \A t \in Threads : <>[]~Dirty => (t \in cancel /\ Alive(t) ~> ~Alive(t))

\* libxal.h on xal_stop_watching_filesystem(): "Stop the background thread":
\* after a stop that succeeded the handle may be closed, and no thread is at
\* work on the freed struct.
ClosedMeansUnused == state = "none" => \A t \in Threads : ~Alive(t)
=============================================================================
