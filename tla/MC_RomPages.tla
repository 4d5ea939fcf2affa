------------------------------ MODULE MC_RomPages ------------------------------
(***************************************************************************)
(* Small ROMs for RomPages: three bytes to a page and at most four pages.  *)
(***************************************************************************)
EXTENDS RomPages

CONSTANTS w1, w2, w3

MCWorkers == {w1, w2, w3}

\* What BytePairCompress makes of a page: one byte, two, or more than it had.
PackedSizes == {1, 2, 4}

RomsOf(useds) ==
  UNION { {r \in [used : {u}, pagedStart : 0..RoundUp(u),
                  packed : [0..(CeilDiv(u, PageSize) - 1) -> PackedSizes]] :
             r.pagedStart % PageSize = 0 \/ r.pagedStart = u} : u \in useds }

PagesOf(r) == CeilDiv(r.used, PageSize)
FirstOf(r) == CeilDiv(r.pagedStart, PageSize)
SavedBytes(r) == LET P == FirstOf(r)..(PagesOf(r) - 1)
                     S == {p \in P : r.packed[p] = 1}
                     T == {p \in P : r.packed[p] = 2}
                 IN 2 * Cardinality(S) + Cardinality(T)

\* The packed pages need no more room than the bytes in use.
Shrinks(r) == SavedBytes(r) >= PagesOf(r) * PageSize - r.used

\* The packed size of an unpaged page does not matter.
Canonical(r) == \A p \in DOMAIN r.packed : p < FirstOf(r) => r.packed[p] = 1

MCRoms == {r \in RomsOf({7, 9, 11}) : Canonical(r) /\ (FirstOf(r) < PagesOf(r) => Shrinks(r))}
=============================================================================
