------------------------ MODULE WatchSession_proofs ------------------------
(***************************************************************************)
(* Proofs about WatchSession: for every set of options the client may pass, *)
(* every number of threads, and, where a theorem says so, a client that     *)
(* keeps the rules it names.                                                *)
(***************************************************************************)
EXTENDS WatchSession, SequenceTheorems, TLAPS

-----------------------------------------------------------------------------
\* The steps of xal_open() for either backend but the last one, "ns".
StepNames(be) ==
  {"inodes", "extents", "dirtyMap", "xal"}
  \cup IF be = "XFS" THEN {"buf", "superblock", "ags", "groups"}
                     ELSE {"mounts", "mountpoint", "inotify", "fd", "wdMap",
                           "count", "stat", "pathMap"}

\* xal_open() runs steps of its backend, then identifies the namespace.
LEMMA OpenStepsForm ==
  ASSUME NEW o \in Options, NEW be \in {"FIEMAP", "XFS"}
  PROVE  /\ Len(OpenSteps(o, be)) \in Nat \ {0}
         /\ \A k \in 1 .. Len(OpenSteps(o, be)) :
              IF k = Len(OpenSteps(o, be)) THEN OpenSteps(o, be)[k] = "ns"
              ELSE OpenSteps(o, be)[k] \in StepNames(be)
  <1> DEFINE S == StepNames(be)
             first == IF be = "XFS" THEN XfsSteps ELSE FiemapSteps(o)
             flag1 == IF o.shm THEN <<"dirtyMap">> ELSE <<>>
  <1>0. <<>> \in Seq(S)
    BY EmptySeq
  <1>1. first \in Seq(S)
    <2>1. CASE be = "XFS"
      BY <2>1 DEF XfsSteps, StepNames
    <2>2. CASE be = "FIEMAP"
      <3>1. <<"mounts", "xal", "mountpoint">> \in Seq(S)
        BY <2>2 DEF StepNames
      <3>2. (IF o.watch = "none" THEN <<>> ELSE <<"inotify", "fd", "wdMap">>) \in Seq(S)
        <4>1. <<"inotify", "fd", "wdMap">> \in Seq(S)
          BY <2>2 DEF StepNames
        <4> QED BY <1>0, <4>1
      <3>3. <<"count", "stat", "inodes", "extents">> \in Seq(S)
        BY <2>2 DEF StepNames
      <3>4. (IF o.hash THEN <<"pathMap">> ELSE <<>>) \in Seq(S)
        <4>1. <<"pathMap">> \in Seq(S)
          BY <2>2 DEF StepNames
        <4> QED BY <1>0, <4>1
      <3> QED BY <2>2, <3>1, <3>2, <3>3, <3>4, ConcatProperties DEF FiemapSteps
    <2> QED BY <2>1, <2>2
  <1>2. flag1 \in Seq(S)
    <2>1. <<"dirtyMap">> \in Seq(S)
      BY DEF StepNames
    <2> QED BY <1>0, <2>1
  <1>3. PICK prefix \in Seq(S) : OpenSteps(o, be) = prefix \o <<"ns">>
    BY <1>1, <1>2, ConcatProperties DEF OpenSteps
  <1> HIDE DEF S
  <1>4. Len(prefix \o <<"ns">>) = Len(prefix) + 1 /\ Len(prefix) \in Nat
    BY <1>3
  <1>5. \A k \in 1 .. Len(prefix) + 1 :
          (prefix \o <<"ns">>)[k] = IF k <= Len(prefix) THEN prefix[k] ELSE "ns"
    BY <1>3, <1>4
  <1>6. \A k \in 1 .. Len(prefix) : prefix[k] \in S
    BY <1>3
  <1> QED BY <1>3, <1>4, <1>5, <1>6 DEF S
-----------------------------------------------------------------------------
\* A handle holds what its close function gives back and what is leaked; no
\* handle, only what is leaked.
HeldInv ==
  held \subseteq IF state = "none" THEN Leaked ELSE Released(opt.be) \cup Leaked

\* Whatever step of xal_open() fails, and if none does, this is what is left.
LEMMA OpenOutcome ==
  ASSUME HandleTypeOK, NEW o \in Options, xal_open(o)
  PROVE  /\ HandleTypeOK'
         /\ HeldInv'
         /\ state' # "none" => opt'.shm = o.shm
         /\ ~o.shm => tree' = tree
  <1> DEFINE be == Detected(o)
             steps == OpenSteps(o, be)
             done == Len(steps) + 1
  <1>1. be \in {"FIEMAP", "XFS"} /\ o \in [be : {"auto", "FIEMAP", "XFS"},
                        watch : {"none", "dirty", "extent"},
                        hash : BOOLEAN, shm : BOOLEAN]
    BY OptionsAssumption DEF Detected
  <1>2. PICK k \in 1 .. done :
          /\ tree' = IF MapsShared(o, steps, k) THEN "zeroed" ELSE tree
          /\ IF k = done
               THEN held' = Before(steps, k) \cap Resources
               ELSE held' \in LeftBy(be, steps, k)
          /\ state' = IF k = done THEN "open"
                      ELSE IF k = done - 1 THEN "error" ELSE "none"
          /\ opt' = IF k >= done - 1 THEN [o EXCEPT !.be = be] ELSE NoOpts
    BY DEF xal_open
  <1> HIDE DEF be
  <1>3. /\ Len(steps) \in Nat \ {0}
        /\ \A i \in 1 .. Len(steps) :
             IF i = Len(steps) THEN steps[i] = "ns" ELSE steps[i] \in StepNames(be)
    BY <1>1, OpenStepsForm
  <1> HIDE DEF steps
  <1>4. Before(steps, k) \cap Resources \subseteq Released(be) \cup Leaked
    BY <1>1, <1>3 DEF Before, StepNames, Released, Leaked, Resources
  <1>5. held' \subseteq Resources \cup Leaked
    BY <1>2 DEF LeftBy, Leaked
  <1>6. state' # "none" => /\ held' \subseteq Released(be) \cup Leaked
                           /\ opt' = [o EXCEPT !.be = be]
    <2>1. CASE k = done
      BY <1>2, <1>3, <1>4, <2>1
    <2>2. CASE k = done - 1
      <3>1. steps[k] = "ns"
        BY <1>3, <2>2
      <3> QED BY <1>2, <1>3, <1>4, <2>2, <3>1 DEF LeftBy
    <2> QED BY <1>2, <1>3, <2>1, <2>2
  <1>7. state' = "none" => held' \subseteq Leaked /\ opt' = NoOpts
    <2>1. SUFFICES ASSUME k < done - 1 PROVE held' \subseteq Leaked /\ opt' = NoOpts
      BY <1>2, <1>3
    <2>2. steps[k] \in StepNames(be)
      BY <1>3, <2>1
    <2>3. steps[k] # "ns"
      BY <1>1, <2>2 DEF StepNames
    <2> QED BY <1>2, <1>3, <1>4, <2>1, <2>3 DEF LeftBy, Leaked
  <1>8. [o EXCEPT !.be = be] \in Opts /\ [o EXCEPT !.be = be].shm = o.shm
        /\ [o EXCEPT !.be = be].be = be
    BY <1>1 DEF Opts
  <1>9. HandleTypeOK'
    <2>1. opt' \in Opts
      BY <1>2, <1>8 DEF Opts, NoOpts
    <2>2. tree' \in {"absent", "zeroed", "partial", "built"}
      BY <1>2 DEF HandleTypeOK
    <2>3. state' \in {"none", "open", "error"}
      BY <1>2
    <2> QED BY <1>5, <2>1, <2>2, <2>3 DEF xal_open, HandleTypeOK
  <1> QED BY <1>2, <1>6, <1>7, <1>8, <1>9 DEF HeldInv, MapsShared
-----------------------------------------------------------------------------
\* What a step of a thread does to the handle: it touches the dirty flag.
HandleDuringThread ==
  /\ own' \in BOOLEAN /\ shared' \in BOOLEAN /\ (shared => shared')
  /\ UNCHANGED <<mounted, held, state, opt, err, root, tree, view, client>>

LEMMA ThreadLeavesHandle ==
  ASSUME HandleTypeOK, NEW t \in Threads, Thread(t)
  PROVE  HandleDuringThread
  <1>1. CASE ThreadMark(t)
    BY <1>1 DEF ThreadMark, SetDirty, HandleTypeOK, HandleDuringThread
  <1>2. CASE ~ThreadMark(t)
    BY <1>2 DEF Thread, ThreadStart, ThreadLoop, ThreadRead, ThreadRefresh, ThreadFail,
                ThreadCancelled, HandleTypeOK, HandleDuringThread, handleVars
  <1> QED BY <1>1, <1>2

\* The handle keeps its type whatever the threads and the client do.
LEMMA HandleTypeStep ==
  ASSUME HandleTypeOK, [Next]_vars
  PROVE  HandleTypeOK'
  <1>1. ASSUME NEW o \in Options, xal_open(o) PROVE HandleTypeOK'
    BY <1>1, OpenOutcome
  <1>2. CASE xal_dinodes_retrieve
    BY <1>2 DEF xal_dinodes_retrieve, HandleTypeOK, Resources, Leaked
  <1>3. CASE xal_index
    BY <1>3 DEF xal_index, IndexRefused, IndexBegin, HandleTypeOK
  <1>4. CASE IndexReturn(IndexDone)
    BY <1>4 DEF IndexReturn, IndexDone, SetDirty, HandleTypeOK
  <1>5. CASE IndexReturn(IndexFailed)
    BY <1>5 DEF IndexReturn, IndexFailed, HandleTypeOK
  <1>6. CASE xal_from_pools \/ CloseView \/ Remount
    BY <1>6 DEF xal_from_pools, CloseView, Remount, HandleTypeOK
  <1>7. CASE xal_watch_filesystem \/ StopRefused
    BY <1>7 DEF xal_watch_filesystem, StopRefused, handleVars, HandleTypeOK
  <1>8. CASE StopBegin \/ StopEnd
    BY <1>8 DEF StopBegin, StopEnd, handleVars, HandleTypeOK
  <1>9. CASE Crash \/ xal_close
    <2>1. CASE Crash
      BY <2>1 DEF Crash, Gone, NoOpts, Opts, HandleTypeOK
    <2>2. CASE xal_close
      BY <2>2 DEF xal_close, Close, NoOpts, Opts, HandleTypeOK
    <2> QED BY <1>9, <2>1, <2>2
  <1>10. ASSUME NEW t \in Threads, Thread(t) PROVE HandleTypeOK'
    BY <1>10, ThreadLeavesHandle DEF HandleDuringThread, HandleTypeOK
  <1>11. CASE UNCHANGED vars
    BY <1>11 DEF vars, handleVars, HandleTypeOK
  <1> QED BY <1>1, <1>2, <1>3, <1>4, <1>5, <1>6, <1>7, <1>8, <1>9, <1>10, <1>11
          DEF Next, Handle, StopWithoutThread

LEMMA HandleTypeInit == Init => HandleTypeOK
  <1> SUFFICES ASSUME Init PROVE HandleTypeOK
    OBVIOUS
  <1>1. opt \in Opts
    BY DEF Init, HandleInit, NoOpts, Opts
  <1> QED BY <1>1 DEF Init, HandleInit, HandleTypeOK
-----------------------------------------------------------------------------
LEMMA HeldStep ==
  ASSUME HandleTypeOK, HeldInv, [Next]_vars
  PROVE  HeldInv'
  <1>1. CASE Handle
    <2>1. ASSUME NEW o \in Options, xal_open(o) PROVE HeldInv'
      BY <2>1, OpenOutcome
    <2>2. CASE xal_dinodes_retrieve
      BY <2>2 DEF xal_dinodes_retrieve, HeldInv, Released, Leaked
    <2>3. CASE ~(xal_dinodes_retrieve \/ \E o \in Options : xal_open(o))
      <3>1. UNCHANGED <<held, state, opt>>
        BY <1>1, <2>3 DEF Handle, xal_index, IndexReturn, xal_from_pools, CloseView, Remount
      <3> QED BY <3>1 DEF HeldInv
    <2> QED BY <2>1, <2>2, <2>3
  <1>2. CASE xal_close
    BY <1>2 DEF xal_close, Close, HeldInv
  <1>3. CASE Crash
    BY <1>3 DEF Crash, Gone, HeldInv
  <1>4. CASE UNCHANGED <<held, state, opt>>
    BY <1>4 DEF HeldInv
  <1>5. ASSUME NEW t \in Threads, Thread(t) PROVE UNCHANGED <<held, state, opt>>
    BY <1>5, ThreadLeavesHandle DEF HandleDuringThread
  <1>6. CASE xal_watch_filesystem \/ StopRefused \/ StopBegin \/ StopEnd
    BY <1>4, <1>6 DEF xal_watch_filesystem, StopRefused, StopBegin, StopEnd, handleVars
  <1> QED BY <1>1, <1>2, <1>3, <1>4, <1>5, <1>6
          DEF Next, StopWithoutThread, vars, handleVars

\* xal_open() that fails at any step, and xal_close() after any use of the
\* handle, leave nothing behind but what Leaked names: both close functions
\* know everything their own open function, and xal_dinodes_retrieve(), ever
\* acquires.
THEOREM NothingIsLeftBehind == Spec => []NothingOutlivesHandle
  <1>1. Init => HeldInv
    BY DEF Init, HandleInit, HeldInv
  <1>2. HeldInv => NothingOutlivesHandle
    BY DEF HeldInv, NothingOutlivesHandle
  <1> QED BY <1>1, <1>2, HandleTypeInit, HandleTypeStep, HeldStep, PTL DEF Spec
-----------------------------------------------------------------------------
\* Why a view may trust the flag: while it is clear, the producer that has the
\* objects open has finished an index and is in no other; and whenever that is
\* so the tree is built.
ViewInv ==
  /\ ViewsSeeBuiltTree
  /\ view /\ ~shared /\ state # "none" /\ opt.shm => err = "OK" /\ client # "indexing"
  /\ state = "open" /\ opt.shm /\ err = "OK" /\ client # "indexing" => tree = "built"

LEMMA ViewStep ==
  ASSUME {"unshared", "unviewed"} \subseteq Rules, HandleTypeOK, ViewInv, [Next]_vars
  PROVE  ViewInv'
  <1> USE DEF ViewInv, ViewsSeeBuiltTree
  <1>1. CASE Handle
    <2>1. ASSUME NEW o \in Options, xal_open(o) PROVE ViewInv'
      <3>1. /\ state' # "none" => opt'.shm = o.shm
            /\ ~o.shm => tree' = tree
        BY <2>1, OpenOutcome
      <3>2. o.shm => ~view \/ shared
        BY <2>1 DEF xal_open, MayOpen
      <3> QED BY <2>1, <3>1, <3>2 DEF xal_open
    <2>2. CASE xal_dinodes_retrieve
      BY <2>2 DEF xal_dinodes_retrieve
    <2>3. CASE xal_index
      BY <2>3 DEF xal_index, MayIndex, IndexRefused, IndexBegin
    <2>4. CASE IndexReturn(IndexDone)
      BY <2>4 DEF IndexReturn, IndexDone, SetDirty, HandleTypeOK
    <2>5. CASE IndexReturn(IndexFailed)
      BY <2>5 DEF IndexReturn, IndexFailed
    <2>6. CASE xal_from_pools
      BY <2>6 DEF xal_from_pools
    <2>7. CASE CloseView \/ Remount
      BY <2>7 DEF CloseView, Remount
    <2> QED BY <1>1, <2>1, <2>2, <2>3, <2>4, <2>5, <2>6, <2>7 DEF Handle
  <1>2. CASE xal_close
    BY <1>2 DEF xal_close, Close
  <1>3. CASE Crash
    BY <1>3 DEF Crash, Gone
  <1>4. ASSUME NEW t \in Threads, Thread(t) PROVE ViewInv'
    BY <1>4, ThreadLeavesHandle DEF HandleDuringThread
  <1>5. CASE xal_watch_filesystem \/ StopRefused \/ StopBegin \/ StopEnd
    BY <1>5 DEF xal_watch_filesystem, StopRefused, StopBegin, StopEnd, handleVars
  <1>6. CASE UNCHANGED vars
    BY <1>6 DEF vars, handleVars
  <1> QED BY <1>1, <1>2, <1>3, <1>4, <1>5, <1>6 DEF Next, StopWithoutThread

\* A view that finds the flag in shared memory clear finds a complete tree
\* next to it, through failed indexes, crashes and restarts of the producer,
\* if no producer opens the objects anew, or indexes again, under a view that
\* takes its tree for clean.
THEOREM ViewsTrustBuiltTrees ==
  ASSUME {"unshared", "unviewed"} \subseteq Rules
  PROVE  Spec => []ViewsSeeBuiltTree
  <1>1. Init => ViewInv
    BY DEF Init, HandleInit, ViewInv, ViewsSeeBuiltTree
  <1>2. ViewInv => ViewsSeeBuiltTree
    BY DEF ViewInv
  <1> QED BY <1>1, <1>2, HandleTypeInit, HandleTypeStep, ViewStep, PTL DEF Spec
-----------------------------------------------------------------------------
\* What a step of one thread may do: it moves, from where it was started to
\* its end, and sets the flag only when it has just been started.
ThreadDoes(t) ==
  /\ flag' \in BOOLEAN
  /\ th' \in [Threads -> {"none", "new", "spin", "read", "refresh", "mark", "dead"}]
  /\ \A u \in Threads \ {t} : th'[u] = th[u]
  /\ th'[t] # "new" /\ (flag' => flag \/ th[t] = "new")
  /\ th'[t] = "dead" => t \in cancel \/ ~flag'
  /\ th[t] # "none" /\ th'[t] # "none"
  /\ UNCHANGED <<client, tid, cancel, ret>>

LEMMA ThreadEffect ==
  ASSUME TypeOK, NEW t \in Threads, Thread(t)
  PROVE  ThreadDoes(t)
  <1> USE DEF ThreadDoes, Moves, TypeOK
  <1>1. CASE ThreadStart(t)
    BY <1>1 DEF ThreadStart
  <1>2. CASE ThreadLoop(t)
    BY <1>2 DEF ThreadLoop
  <1>3. CASE ThreadRead(t)
    BY <1>3 DEF ThreadRead
  <1>4. CASE ThreadRefresh(t)
    BY <1>4 DEF ThreadRefresh
  <1>5. CASE ThreadFail(t)
    BY <1>5 DEF ThreadFail
  <1>6. CASE ThreadMark(t)
    BY <1>6 DEF ThreadMark
  <1>7. CASE ThreadCancelled(t)
    BY <1>7 DEF ThreadCancelled
  <1> QED BY <1>1, <1>2, <1>3, <1>4, <1>5, <1>6, <1>7 DEF Thread

\* The client stops no thread that has not announced itself, and closes the
\* handle only after every thread was stopped, or has ended.
WaitsForThreads ==
  "started" \in Rules /\ ("stopped" \in Rules \/ "ended" \in Rules)

\* Without watch_thread_id there is neither a flag nor a thread to set it, and
\* a thread that has not announced itself was not told to stop.
ThreadInv ==
  /\ tid = 0 => ~flag /\ \A t \in Threads : th[t] # "new"
  /\ \A t \in Threads : th[t] = "new" => t \notin cancel

LEMMA TypeStep ==
  ASSUME WaitsForThreads, TypeOK, ThreadInv, [Next]_vars
  PROVE  TypeOK' /\ ThreadInv'
  <1>0. HandleTypeOK'
    BY HandleTypeStep DEF TypeOK
  <1>1. CASE Handle
    BY <1>0, <1>1 DEF Handle, threadVars, TypeOK, ThreadInv
  <1>2. CASE xal_watch_filesystem
    <2>1. TypeOK'
      BY <1>0, <1>2 DEF xal_watch_filesystem, TypeOK
    <2> QED BY <1>2, <2>1 DEF xal_watch_filesystem, TypeOK, ThreadInv, Threads
  <1>3. CASE StopRefused
    BY <1>0, <1>3 DEF StopRefused, TypeOK, ThreadInv
  <1>4. CASE Crash
    BY <1>0, <1>4 DEF Crash, ForgetThreads, TypeOK, ThreadInv
  <1>5. CASE StopBegin
    BY <1>0, <1>5 DEF StopBegin, MayStop, WaitsForThreads, TypeOK, ThreadInv
  <1>6. CASE StopEnd
    <2>1. ret' \in {"OK", "ESRCH"} /\ flag' \in BOOLEAN /\ (flag' => flag)
      BY <1>6, SessionAssumption DEF StopEnd, Stopped, TypeOK
    <2> QED BY <1>0, <1>6, <2>1 DEF StopEnd, TypeOK, ThreadInv
  <1>7. CASE xal_close
    <2>1. cancel' \subseteq Threads
      BY <1>7 DEF xal_close, TypeOK, ThreadInv
    <2>2. \A t \in Threads : th'[t] # "new"
      BY <1>7 DEF xal_close, MayClose, Alive, WaitsForThreads, ThreadInv
    <2>3. th' \in [Threads -> {"none", "new", "spin", "read", "refresh", "mark", "dead"}]
      BY <1>7 DEF xal_close, TypeOK
    <2> QED BY <1>0, <1>7, <2>1, <2>2, <2>3 DEF xal_close, TypeOK, ThreadInv
  <1>8. ASSUME NEW t \in Threads, Thread(t) PROVE TypeOK' /\ ThreadInv'
    BY <1>0, <1>8, ThreadEffect DEF ThreadDoes, TypeOK, ThreadInv
  <1>9. CASE UNCHANGED vars
    BY <1>0, <1>9 DEF vars, threadVars, TypeOK, ThreadInv
  <1> QED BY <1>1, <1>2, <1>3, <1>4, <1>5, <1>6, <1>7, <1>8, <1>9
          DEF Next, StopWithoutThread

LEMMA TypeInit == Init => TypeOK /\ ThreadInv
  BY HandleTypeInit DEF Init, TypeOK, ThreadInv

\* Type correctness of the session: the client's handle, the shared memory
\* and the threads, for every set of options and number of threads.
THEOREM SessionTypeCorrect ==
  ASSUME WaitsForThreads
  PROVE  Spec => []TypeOK
  <1> QED BY TypeInit, TypeStep, PTL DEF Spec
-----------------------------------------------------------------------------
\* But for the moment between the two halves of a stop, the flag stands for a
\* thread that nobody told to stop.
RunningInv ==
  client # "stopping" /\ flag => \E t \in Threads : Alive(t) /\ t \notin cancel

LEMMA RunningStep ==
  ASSUME CancelEnded = "OK", TypeOK, ThreadInv, RunningInv, [Next]_vars
  PROVE  RunningInv'
  <1>1. CASE Handle
    <2>1. client # "stopping" \/ client' = "stopping"
      BY <1>1 DEF Handle, xal_open, xal_dinodes_retrieve, xal_index, IndexReturn,
                  xal_from_pools, CloseView, Remount
    <2> QED BY <1>1, <2>1 DEF Handle, threadVars, RunningInv, Alive
  <1>2. CASE xal_watch_filesystem
    BY <1>2 DEF xal_watch_filesystem, RunningInv, Alive, TypeOK
  <1>3. CASE StopEnd
    BY <1>3 DEF StopEnd, Stopped, RunningInv
  <1>4. CASE xal_close \/ Crash
    BY <1>4 DEF xal_close, Crash, ForgetThreads, RunningInv
  <1>5. ASSUME NEW t \in Threads, Thread(t) PROVE RunningInv'
    <2>1. ThreadDoes(t)
      BY <1>5, ThreadEffect
    <2>2. SUFFICES ASSUME client # "stopping", flag'
                   PROVE  \E u \in Threads : Alive(u)' /\ u \notin cancel
      BY <2>1 DEF RunningInv, ThreadDoes
    <2>3. CASE flag
      BY <2>1, <2>2, <2>3 DEF RunningInv, ThreadDoes, Alive
    <2>4. CASE th[t] = "new"
      BY <2>1, <2>2, <2>4 DEF ThreadInv, ThreadDoes, Alive
    <2> QED BY <2>1, <2>2, <2>3, <2>4 DEF ThreadDoes
  <1>6. CASE StopRefused \/ StopBegin
    BY <1>6 DEF StopRefused, StopBegin, RunningInv, Alive
  <1>7. CASE UNCHANGED vars
    BY <1>7 DEF vars, threadVars, RunningInv, Alive
  <1> QED BY <1>1, <1>2, <1>3, <1>4, <1>5, <1>6, <1>7 DEF Next, StopWithoutThread

\* Whenever the flag lets xal_watch_filesystem() return 0 and start nothing,
\* a thread is watching: if the client stops no thread before it has
\* announced itself, and pthread_cancel() of an ended thread succeeds.
THEOREM FlagMeansWatching ==
  ASSUME WaitsForThreads, CancelEnded = "OK"
  PROVE  Spec => []WatchMeansWatched
  <1>1. Init => RunningInv
    BY DEF Init, RunningInv
  <1>2. RunningInv => WatchMeansWatched
    BY DEF RunningInv, WatchMeansWatched
  <1> QED BY <1>1, <1>2, TypeInit, TypeStep, RunningStep, PTL DEF Spec
=============================================================================
