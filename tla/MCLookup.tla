------------------------------ MODULE MCLookup ------------------------------
(***************************************************************************)
(* Instances of Lookup: up to two directories with files in them and files  *)
(* beside them, and hash functions that send few or many paths to the same  *)
(* bucket.                                                                  *)
(***************************************************************************)
EXTENDS Lookup

P(a) == <<"mnt", a>>
Q(a, b) == <<"mnt", a, b>>

\* /1 and /3 are directories, the others files, each with as many extents as
\* its last component says, less one below /1.
Entries == {P(1), P(2), P(3), Q(1, 1), Q(1, 2)}
Closed(s) == \A p \in s : Len(p) = 3 => Front(p) \in s
Extents(p) == IF p \in {P(1), P(3)} THEN -1 ELSE IF Len(p) = 3 THEN Last(p) - 1 ELSE Last(p)
MCTrees == {[p \in s |-> Extents(p)] : s \in {x \in SUBSET Entries : Closed(x) /\ P(1) \in x}}

\* Paths that may exist; through a file; with an empty component; beside the
\* mountpoint; the mountpoint itself; elsewhere.
MCAsked ==
  Entries \cup {Q(2, 1), Q(2, 2), Q(1, 0), P(0), <<"mnt">>, <<"beside", 1>>, <<"out", 1>>}
Strings == MCAsked \cup {<<>>}

\* The hash of the empty string is 0.
Code(p, a, b) == IF p = <<>> THEN 0
                 ELSE IF Len(p) = 1 THEN 1 ELSE IF Len(p) = 2 THEN a * p[2] ELSE a * p[2] + b * p[3]
MCHashes == {[p \in Strings |-> Code(p, ab[1], ab[2])] :
              ab \in {<<0, 0>>, <<1, 3>>, <<4, 1>>}}
=============================================================================
