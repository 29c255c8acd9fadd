--------------------------- MODULE BumpAllocator ---------------------------
(***************************************************************************)
(* What a pool promises to the backends: it hands out contiguous arrays of  *)
(* elements that lie inside the reserve and belong to nobody else, until    *)
(* everything is taken back at once.                                        *)
(***************************************************************************)
EXTENDS Integers

CONSTANT Limit    \* number of elements of the reserve

VARIABLE owned    \* the elements handed out

Init == owned = {}

Grant(base, count) ==
  LET array == base .. base + count - 1 IN
  /\ array \subseteq (0 .. Limit - 1) \ owned
  /\ owned' = owned \cup array

TakeBack == owned' = {}

Next ==
  \/ \E base, count \in 0 .. Limit : Grant(base, count)
  \/ TakeBack

Spec == Init /\ [][Next]_owned
=============================================================================
