----------------------------- MODULE MC_BsymPages -----------------------------
(***************************************************************************)
(* Small symbol data for BsymPages: three bytes to a page and at most four *)
(* pages.                                                                  *)
(***************************************************************************)
EXTENDS BsymPages

CONSTANTS w1, w2, w3

MCWorkers == {w1, w2, w3}

\* What BytePairCompress makes of a page: one byte, two, or more than it had.
PackedSizes == {1, 2, 4}

DataOf(lengths) ==
  UNION { [length : {l}, packed : [0..(CeilDiv(l, PageSize) - 1) -> PackedSizes]] : l \in lengths }

\* A process that flushes two files: a core image and an extension.
MCTwoImages == {<<d, e>> : d, e \in {x \in DataOf({6}) : \A p \in {0, 1} : x.packed[p] = 2}}

MCRuns == MCTwoImages \cup {<<d>> : d \in {e \in DataOf({2, 6, 8, 11}) : LastFits(e)}}
=============================================================================
