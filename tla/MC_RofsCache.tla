----------------------------- MODULE MC_RofsCache -----------------------------
(***************************************************************************)
(* Small builds for RofsCache: two workers, two host files and two nodes,  *)
(* three builds and an edit.                                        *)
(***************************************************************************)
EXTENDS RofsCache, TLC

CONSTANTS w1, w2, dll, exe, n1, n2

MCWorkers == {w1, w2}
MCFiles == {dll, exe}
MCNodes == {n1, n2}

MCFileName == n1 :> dll @@ n2 :> exe
=============================================================================
