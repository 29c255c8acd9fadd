----------------------------- MODULE TreeWalk -----------------------------
(***************************************************************************)
(* A reader in a thread of its own: xal_walk() of src/xal.c from the root,  *)
(* with a callback that looks at the inode it is given, inside the sequence *)
(* lock the way include/libxal.h describes it.  The walk looks at the dirty *)
(* flag before every inode and gives up with -ESTALE; a reader that found   *)
(* the number odd or changed throws away what it saw and starts again.      *)
(***************************************************************************)
EXTENDS InotifyWatch

CONSTANT WithReader   \* a reader runs beside the other threads
ASSUME ReaderAssumption == WithReader \in BOOLEAN

VARIABLES
  rpc,     \* where the reader is
  rseq,    \* xal_get_seq_lock() before the walk
  rtodo,   \* inodes the walk has come to and not yet visited
  rsaw     \* what it saw of every inode it visited

readVars == <<rpc, rseq, rtodo, rsaw>>

\* What an inode says: its children or its extents.
Content(e) == IF e \in Dirs THEN kids[e] ELSE text[e]
InTree == {Root} \cup UNION {kids[d] : d \in Dirs}

WalkTypeOK ==
  /\ rpc \in {"start", "walk", "check", "accepted"}
  /\ rseq \in Nat /\ rtodo \subseteq Entries
  /\ DOMAIN rsaw \subseteq Entries
  /\ \A e \in DOMAIN rsaw :
       IF e \in Dirs THEN rsaw[e] \subseteq Entries ELSE rsaw[e] \in Mappings

Nothing == [e \in {} |-> {}]
WalkInit == rpc = "start" /\ rseq = 0 /\ rtodo = {} /\ rsaw = Nothing

\* A mistake the properties must notice: the walk does not look at the flag.
Mutant_Stale == FALSE

\* _walk() at an inode returns -ESTALE
Stale == dirty

ReadSeq ==
  /\ WithReader
  /\ rpc = "start" /\ rootIdx # -1
  /\ seq % 2 = 0
  /\ rseq' = seq /\ rtodo' = {Root} /\ rpc' = "walk"
  /\ UNCHANGED rsaw

Ends(step) == rpc' = step /\ rseq' = 0 /\ rtodo' = {} /\ rsaw' = Nothing

\* _walk() of one inode; the children of a directory come next, in order.
_walk ==
  /\ rpc = "walk"
  /\ \E e \in rtodo :
       /\ \A x \in rtodo : e <= x
       /\ IF Stale THEN Ends("start")
          ELSE /\ rsaw' = [x \in DOMAIN rsaw \cup {e} |->
                             IF x = e THEN Content(e) ELSE rsaw[x]]
               /\ rtodo' = (rtodo \ {e}) \cup (IF e \in Dirs THEN kids[e] ELSE {})
               /\ rpc' = IF rtodo' = {} THEN "check" ELSE "walk"
               /\ UNCHANGED rseq

CheckSeq ==
  /\ rpc = "check"
  /\ Ends(IF seq = rseq THEN "accepted" ELSE "start")

WalkNext ==
  /\ ReadSeq \/ _walk \/ CheckSeq
  /\ UNCHANGED <<fsVars, indexVars, watchVars>>
=============================================================================
