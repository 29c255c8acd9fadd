----------------------------- MODULE MCSession -----------------------------
(***************************************************************************)
(* Options of the client for model checking: both backends, chosen and      *)
(* detected, with and without shared memory, all watch modes.               *)
(***************************************************************************)
EXTENDS WatchSession

Opt(be, watch, hash, shm) == [be |-> be, watch |-> watch, hash |-> hash, shm |-> shm]

MCOptions ==
  { Opt("auto", "none", FALSE, FALSE), Opt("auto", "dirty", TRUE, TRUE),
    Opt("FIEMAP", "extent", FALSE, TRUE), Opt("FIEMAP", "extent", TRUE, FALSE),
    Opt("XFS", "none", FALSE, TRUE) }
=============================================================================
