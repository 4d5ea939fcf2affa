------------------------------ MODULE RomAreas ------------------------------
(***************************************************************************)
(* The areas of a ROM (r_areaset.cpp of rombuild): named ranges of run     *)
(* addresses.  Addresses are machine words, so that sums wrap at Limit.    *)
(* An area of the name KDefaultAreaName has a pointer of its own, the      *)
(* others are in a list.                                                   *)
(***************************************************************************)
EXTENDS Naturals, Sequences

CONSTANTS
    Limit,       \* one past the largest address: 2^32 in the program
    AreaNames,
    KDefaultAreaName

ASSUME LimitAssumption == Limit \in Nat \ {0}

Address == 0 .. (Limit - 1)
Area == [name : AreaNames, base : Address, size : Address \ {0}]

Wrap(a) == IF a < Limit THEN a ELSE a - Limit

(* The last address of an area: Area::DestBaseAddr() + MaxSize() - 1.      *)
EndAddr(a) == Wrap(a.base + a.size) - 1

EOverflow(a) == Wrap(a.base + a.size) <= a.base

IsInRange(addr, first, last) == first <= addr /\ addr <= last

\* Mutation: an area that contains another is not noticed.
EOverlapEnds(new, cur) ==
    \/ IsInRange(EndAddr(new), cur.base, EndAddr(cur))
    \/ IsInRange(new.base, cur.base, EndAddr(cur))

(* Two ranges overlap when an end of the first is in the second, or the    *)
(* start of the second is in the first.                                    *)
EOverlap(new, cur) ==
    \/ IsInRange(EndAddr(new), cur.base, EndAddr(cur))
    \/ IsInRange(new.base, cur.base, EndAddr(cur))
    \/ IsInRange(cur.base, new.base, EndAddr(new))

EDuplicateName(new, cur) == cur.name = new.name

(* The null pointer: no area has the size 0.                               *)
NoArea == [name |-> KDefaultAreaName, base |-> 0, size |-> 0]

(* The list is in the order of adding; the program's runs the other way.   *)
AreaSet == [iNonDefaultAreas : Seq(Area), iDefaultArea : Area \cup {NoArea}, iAreaCount : Nat]

EmptyAreaSet == [iNonDefaultAreas |-> <<>>, iDefaultArea |-> NoArea, iAreaCount |-> 0]

NonDefaultAreas(set) ==
    {set.iNonDefaultAreas[i] : i \in 1 .. Len(set.iNonDefaultAreas)}

(* The areas that AddArea looks at.  It comes to the default area behind   *)
(* the last of the others, and so not at all when there is no other.       *)
Compared(set) ==
    IF set.iNonDefaultAreas = <<>> THEN {}
    ELSE NonDefaultAreas(set) \cup ({set.iDefaultArea} \ {NoArea})

(* AddArea returns EAdded.                                                 *)
CanAdd(set, new) ==
    /\ ~EOverflow(new)
    /\ \A cur \in Compared(set) : ~EDuplicateName(new, cur) /\ ~EOverlap(new, cur)

(* A default area that is there already is replaced, and counted on.       *)
Added(set, new) ==
    IF new.name = KDefaultAreaName
      THEN [set EXCEPT !.iDefaultArea = new, !.iAreaCount = @ + 1]
      ELSE [set EXCEPT !.iNonDefaultAreas = Append(@, new), !.iAreaCount = @ + 1]

(* What the comment on AddArea asks of areas.                              *)
Overflows(a) == a.base + a.size > Limit
Disjoint(a, b) == a.base + a.size <= b.base \/ b.base + b.size <= a.base
AreApart(a, b) == a.name # b.name /\ Disjoint(a, b)
=============================================================================
