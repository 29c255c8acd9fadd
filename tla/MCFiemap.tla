------------------------------ MODULE MCFiemap ------------------------------
(***************************************************************************)
(* Instances of FiemapSystem: a mountpoint (0) with a directory (1) that    *)
(* holds a file (2), and a file of its own (3).                             *)
(***************************************************************************)
EXTENDS FiemapSystem, TLC

MCParent == 1 :> 0 @@ 2 :> 1 @@ 3 :> 0
MCPath == 0 :> {0} @@ 1 :> {0, 1} @@ 2 :> {0, 1, 2} @@ 3 :> {0, 3}

\* Files without extents and with two.
MCAnyMap == {<<>>, <<"a", "b">>}
\* Files that are never truncated to nothing, one of them with more extents
\* than there are entries below the mountpoint.
MCNonEmpty == {<<"a">>, <<"b", "c">>, <<"d", "e", "f", "g">>}
=============================================================================
