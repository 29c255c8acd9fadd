------------------------------ MODULE FsKernel ------------------------------
(***************************************************************************)
(* What xal relies on but does not contain: a mounted file system that      *)
(* other processes change, the extent mapping FIEMAP reports for each file, *)
(* and the inotify instance that xal_be_fiemap_inotify_init() opens.        *)
(*                                                                         *)
(* Directories and files are numbers in the order in which a depth-first    *)
(* walk that sorts each directory by name meets them, so that the smallest  *)
(* of the entries still to be processed is the one xal processes next.      *)
(* A number stands for a full path.                                         *)
(***************************************************************************)
EXTENDS Integers, Sequences, FiniteSets

CONSTANTS
  Dirs, Files,   \* the paths that may hold a directory or a regular file
  Root,          \* the mountpoint
  Parent,        \* the directory of every other path
  Path,          \* the path itself and all directories above it
  ExtMaps,       \* the extent mappings a file can have
  MaxQueue,      \* events the inotify queue holds before it overflows
  MaxChanges     \* bound on the number of changes by other processes

Entries == Dirs \cup Files

ASSUME FsAssumption ==
  /\ Dirs \subseteq Nat /\ Files \subseteq Nat /\ Dirs \cap Files = {}
  /\ IsFiniteSet(Dirs) /\ IsFiniteSet(Files)
  /\ Root \in Dirs
  /\ Parent \in [Entries \ {Root} -> Dirs]
  /\ \A e \in Entries \ {Root} : Parent[e] < e
  /\ ExtMaps # {} /\ \A m \in ExtMaps : m \in Seq(STRING)
  /\ MaxQueue \in Nat \ {0} /\ MaxChanges \in Nat

ASSUME PathAssumption ==
  /\ Path \in [Entries -> SUBSET Entries]
  /\ Path[Root] = {Root}
  /\ \A e \in Entries \ {Root} : Path[e] = {e} \cup Path[Parent[e]]
  /\ \A e \in Entries : Root \in Path[e]
  /\ \A e \in Entries : \A a \in Path[e] \ {e} :
       \E c \in Path[e] \ {Root} : Parent[c] = a

VARIABLES
  present,   \* the paths that exist
  gone,      \* directories that were removed
  ext,       \* the extent mapping of every file
  watched,   \* directories with an inotify watch
  queue,     \* events not yet read
  changes    \* changes so far

fsVars == <<present, gone, ext, watched, queue, changes>>

\* inotify events: the kind of change, the watched directory, the entry.
Kinds == {"modify", "create", "delete", "ignored", "unmount", "overflow"}
Event(kind, dir, name) == [kind |-> kind, dir |-> dir, name |-> name]
Events == [kind : Kinds, dir : Dirs, name : Entries]
Overflow == Event("overflow", Root, Root)

Children(d) == {e \in present \ {Root} : Parent[e] = d}

FsTypeOK ==
  /\ present \subseteq Entries /\ Root \in present
  /\ gone \subseteq Dirs
  /\ ext \in [Files -> ExtMaps]
  /\ watched \subseteq Dirs
  /\ queue \in Seq(Events) /\ Len(queue) <= MaxQueue + 1
  /\ changes \in 0 .. MaxChanges

FsInit(initial) ==
  /\ present = initial
  /\ gone = {}
  /\ ext \in [Files -> ExtMaps]
  /\ watched = {}
  /\ queue = <<>>
  /\ changes = 0

Last(q) == q[Len(q)]

\* A queue without a limit.
Mutant_Enqueue(q, ev) == Append(q, ev)

\* The kernel merges an event with an equal one at the tail, and replaces
\* what does not fit by a single overflow event.
Enqueue(q, ev) ==
  IF q # <<>> /\ Last(q) = ev THEN q
  ELSE IF Len(q) < MaxQueue THEN Append(q, ev)
  ELSE IF Last(q) = Overflow THEN q
  ELSE Append(q, Overflow)

Notify(q, d, ev) == IF d \in watched THEN Enqueue(q, ev) ELSE q

Change == changes < MaxChanges /\ changes' = changes + 1

\* open(O_CREAT), or a rename into place that brings contents along.
CreateFile(f) ==
  /\ Change
  /\ f \in Files \ present /\ Parent[f] \in present
  /\ present' = present \cup {f}
  /\ \E m \in ExtMaps : ext' = [ext EXCEPT ![f] = m]
  /\ queue' = Notify(queue, Parent[f], Event("create", Parent[f], f))
  /\ UNCHANGED <<gone, watched>>

\* A removed directory does not come back under the same watch descriptor.
Mkdir(d) ==
  /\ Change
  /\ d \in Dirs \ (present \cup gone) /\ Parent[d] \in present
  /\ present' = present \cup {d}
  /\ queue' = Notify(queue, Parent[d], Event("create", Parent[d], d))
  /\ UNCHANGED <<gone, ext, watched>>

Unlink(f) ==
  /\ Change
  /\ f \in Files \cap present
  /\ present' = present \ {f}
  /\ queue' = Notify(queue, Parent[f], Event("delete", Parent[f], f))
  /\ UNCHANGED <<gone, ext, watched>>

Rmdir(d) ==
  /\ Change
  /\ d \in (Dirs \cap present) \ {Root} /\ Children(d) = {}
  /\ present' = present \ {d}
  /\ gone' = gone \cup {d}
  /\ queue' = Notify(Notify(queue, Parent[d], Event("delete", Parent[d], d)),
                     d, Event("ignored", d, d))
  /\ watched' = watched \ {d}
  /\ UNCHANGED ext

\* A write or truncation that changes the extents of a file.
Modify(f) ==
  /\ Change
  /\ f \in Files \cap present
  /\ \E m \in ExtMaps \ {ext[f]} : ext' = [ext EXCEPT ![f] = m]
  /\ queue' = Notify(queue, Parent[f], Event("modify", Parent[f], f))
  /\ UNCHANGED <<present, gone, watched>>

\* The file system is unmounted: an empty mountpoint is left, nothing below
\* it can be seen any more, and the watches are removed with an event.
Unmount ==
  /\ changes < MaxChanges
  /\ present' = {Root}
  /\ gone' = Dirs
  /\ changes' = MaxChanges
  /\ queue' = IF watched = {} THEN queue
              ELSE Enqueue(queue, Event("unmount", Root, Root))
  /\ watched' = {}
  /\ UNCHANGED ext

FsNext ==
  \/ \E f \in Files : CreateFile(f) \/ Unlink(f) \/ Modify(f)
  \/ \E d \in Dirs : Mkdir(d) \/ Rmdir(d)
  \/ Unmount
=============================================================================
