-------------------------- MODULE RomLayout_proofs --------------------------
(***************************************************************************)
(* What holds of the layout of every image: its areas are apart, its types *)
(* are kept, and no piece of a built image is written over another; and    *)
(* of every image whose files the walk comes to: none is lost, and each is *)
(* in the part of the image that its line asks for.                        *)
(***************************************************************************)
EXTENDS RomLayout, FiniteSetTheorems, WellFoundedInduction, TLAPS

-----------------------------------------------------------------------------
(* Lemmas on the operators of the model.                                   *)

\* Rounding up gives a number that is not below its argument.
LEMMA AlignedUp ==
  ASSUME NEW n \in Nat, NEW a \in Nat \ {0}
  PROVE  Aligned(n, a) \in Nat /\ n <= Aligned(n, a)
<1> DEFINE q == (n + a - 1) \div a
<1>1. n + a - 1 \in Nat /\ a \in Nat /\ a > 0
  OBVIOUS
<1>2. q \in Int /\ q * a <= n + a - 1 /\ n + a - 1 < q * a + a
  BY <1>1, SMTT(30)
<1>3. QED
  BY <1>1, <1>2 DEF Aligned

\* The test in wrapping words finds every area that passes the last address.
LEMMA AreaFits ==
  ASSUME NEW a \in Area, ~EOverflow(a)
  PROVE  a.base + a.size < Limit /\ ~Overflows(a)
  BY LimitAssumption DEF Area, EOverflow, Wrap, Overflows, Address

\* The tests on the ends of two ranges find every overlap.
LEMMA AreasDisjoint ==
  ASSUME NEW a \in Area, NEW b \in Area, ~EOverflow(a), ~EOverflow(b), ~EOverlap(a, b)
  PROVE  Disjoint(a, b) /\ Disjoint(b, a)
<1>1. a.base + a.size < Limit /\ b.base + b.size < Limit
  BY AreaFits
<1>2. QED
  BY <1>1, LimitAssumption DEF Area, EOverlap, IsInRange, EndAddr, Wrap, Disjoint, Address

\* The head of a list that is not empty is its least file.
LEMMA FirstLeast ==
  ASSUME NEW l \in SUBSET Nat, l # {}
  PROVE  First(l) \in l /\ \A j \in l : First(l) <= j
<1> DEFINE R == {ss \in Nat \X Nat : ss[1] < ss[2]}
<1>1. IsWellFoundedOn(R, Nat)
  BY NatLessThanWellFounded DEF OpToRel
<1> HIDE DEF R
<1>2. PICK i \in l : \A j \in l : ~(<<j, i>> \in R)
  BY <1>1, WFMin
<1>3. \A j \in l : i <= j
  <2> SUFFICES ASSUME NEW j \in l PROVE i <= j
    OBVIOUS
  <2>1. i \in Nat /\ j \in Nat
    OBVIOUS
  <2>2. <<j, i>> \in Nat \X Nat /\ <<j, i>>[1] = j /\ <<j, i>>[2] = i
    BY <2>1
  <2>3. ~(j < i)
    BY <1>2, <2>2 DEF R
  <2>4. QED
    BY <2>1, <2>3
<1>4. QED
  BY <1>3 DEF First

\* The head of a list of files is null or one of the files.
LEMMA FirstIn ==
  ASSUME NEW n \in Nat, NEW l \in SUBSET (1 .. n)
  PROVE  First(l) \in 0 .. n
<1>1. CASE l = {}
  BY <1>1 DEF First, Null
<1>2. CASE l # {}
  <2>1. l \in SUBSET Nat
    OBVIOUS
  <2>2. First(l) \in 1 .. n
    BY <1>2, <2>1, FirstLeast
  <2>3. QED
    BY <2>2
<1>3. QED
  BY <1>1, <1>2

\* As many numbers as the last of them says.
LEMMA CountAll ==
  ASSUME NEW n \in Nat
  PROVE  Cardinality(1 .. n) = n
  BY FS_Interval

\* Sets of file numbers have a size.
LEMMA CountType ==
  ASSUME NEW n \in Nat, NEW s \in SUBSET (1 .. n)
  PROVE  Cardinality(s) \in Nat
<1>1. IsFiniteSet(1 .. n)
  BY FS_Interval
<1>2. IsFiniteSet(s)
  BY <1>1, FS_Subset
<1>3. QED
  BY <1>2, FS_CardinalityType

\* What the assumptions say of single constants.
LEMMA Constants ==
  /\ Base \in Nat /\ 0 < Base /\ Base < Limit /\ Limit \in Nat
  /\ RomAlign \in Nat \ {0} /\ PageSize \in Nat \ {0}
  /\ HeadSize \in Nat /\ SectionHeader \in Nat /\ ImageHeader \in Nat /\ Reloc \in Nat
  BY LayoutAssumption, LimitAssumption DEF Address

\* What the assumptions say of an obey file.
LEMMA RomType ==
  ASSUME NEW r \in Roms
  PROVE  /\ r \in Rom /\ r.size \in Nat /\ r.size \in Address \ {0}
         /\ r.areas \in Seq(Area) /\ r.lines \in Seq(Line)
  BY LayoutAssumption, LimitAssumption DEF Rom, Address

\* The default area is an area.
LEMMA DefaultIsArea ==
  ASSUME rom \in Roms
  PROVE  TheDefaultArea \in Area
  BY RomType, LayoutAssumption, Constants DEF TheDefaultArea, Area, Address

(* The areas as AddArea has let them in, each compared with those before.  *)
Kept(areas) ==
  /\ areas \in Seq(Area)
  /\ \A i \in 1 .. Len(areas) : ~EOverflow(areas[i])
  /\ \A i, j \in 1 .. Len(areas) :
       i < j => /\ areas[i].name # areas[j].name
                /\ ~EOverlap(areas[j], areas[i])

\* An area that is apart from those of a list can join it.
LEMMA AddKeeps ==
  ASSUME NEW areas, NEW new \in Area, Kept(areas), ~EOverflow(new),
         \A i \in 1 .. Len(areas) : areas[i].name # new.name /\ ~EOverlap(new, areas[i])
  PROVE  Kept(Append(areas, new))
<1> DEFINE more == Append(areas, new)
           n == Len(areas)
<1>1. areas \in Seq(Area) /\ n \in Nat
  BY DEF Kept
<1>2. more \in Seq(Area) /\ Len(more) = n + 1 /\ more[n + 1] = new
  BY <1>1
<1>3. \A i \in 1 .. n : more[i] = areas[i]
  BY <1>1
<1>4. ~EOverflow(new)
  OBVIOUS
<1>5. \A i \in 1 .. n : areas[i].name # new.name /\ ~EOverlap(new, areas[i])
  OBVIOUS
<1> HIDE DEF more, n
<1>6. \A i \in 1 .. Len(more) : ~EOverflow(more[i])
  <2> SUFFICES ASSUME NEW i \in 1 .. Len(more) PROVE ~EOverflow(more[i])
    OBVIOUS
  <2>1. CASE i = n + 1
    BY <2>1, <1>2, <1>4
  <2>2. CASE i # n + 1
    <3>1. i \in 1 .. n
      BY <2>2, <1>1, <1>2
    <3>2. ~EOverflow(areas[i])
      BY <3>1 DEF Kept, n
    <3>3. QED
      BY <3>1, <3>2, <1>3
  <2>3. QED
    BY <2>1, <2>2
<1>7. \A i, j \in 1 .. Len(more) :
        i < j => more[i].name # more[j].name /\ ~EOverlap(more[j], more[i])
  <2> SUFFICES ASSUME NEW i \in 1 .. Len(more), NEW j \in 1 .. Len(more), i < j
               PROVE  more[i].name # more[j].name /\ ~EOverlap(more[j], more[i])
    OBVIOUS
  <2>0. i \in 1 .. n /\ more[i] = areas[i]
    BY <1>1, <1>2, <1>3
  <2>1. CASE j = n + 1
    BY <2>0, <2>1, <1>2, <1>5
  <2>2. CASE j # n + 1
    <3>1. j \in 1 .. n /\ more[j] = areas[j]
      BY <2>2, <1>1, <1>2, <1>3
    <3>2. areas[i].name # areas[j].name /\ ~EOverlap(areas[j], areas[i])
      BY <2>0, <3>1 DEF Kept, n
    <3>3. QED
      BY <2>0, <3>1, <3>2
  <2>3. QED
    BY <2>1, <2>2
<1>8. QED
  BY <1>2, <1>6, <1>7 DEF Kept, more

(* The area set: its list is kept apart, and the default area is not in    *)
(* the list.                                                               *)
SetKept(set) ==
  /\ set \in AreaSet
  /\ Kept(set.iNonDefaultAreas)
  /\ \A i \in 1 .. Len(set.iNonDefaultAreas) : set.iNonDefaultAreas[i].name # KDefaultAreaName
  /\ set.iDefaultArea # NoArea => set.iDefaultArea.name = KDefaultAreaName

\* What CanAdd compares an area with: all of the list, and the default area behind it.
LEMMA CanAddToList ==
  ASSUME NEW set \in AreaSet, NEW new, CanAdd(set, new)
  PROVE  /\ ~EOverflow(new)
         /\ \A i \in 1 .. Len(set.iNonDefaultAreas) :
              /\ set.iNonDefaultAreas[i].name # new.name
              /\ ~EOverlap(new, set.iNonDefaultAreas[i])
<1> DEFINE list == set.iNonDefaultAreas
<1>1. list \in Seq(Area)
  BY DEF AreaSet
<1>2. ASSUME NEW i \in 1 .. Len(list)
      PROVE  list[i].name # new.name /\ ~EOverlap(new, list[i])
  <2>1. list # <<>>
    BY <1>1, <1>2
  <2>2. list[i] \in Compared(set)
    BY <2>1, <1>2 DEF Compared, NonDefaultAreas
  <2>3. QED
    BY <2>2 DEF CanAdd, EDuplicateName
<1>3. QED
  BY <1>2 DEF CanAdd

\* An area set with one area more is an area set.
LEMMA AddedType ==
  ASSUME NEW set \in AreaSet, NEW new \in Area
  PROVE  Added(set, new) \in AreaSet
<1>0. set.iNonDefaultAreas \in Seq(Area) /\ set.iAreaCount \in Nat
  BY DEF AreaSet
<1>1. Append(set.iNonDefaultAreas, new) \in Seq(Area) /\ set.iAreaCount + 1 \in Nat
  BY <1>0
<1>2. CASE new.name = KDefaultAreaName
  BY <1>1, <1>2 DEF Added, AreaSet
<1>3. CASE new.name # KDefaultAreaName
  BY <1>1, <1>3 DEF Added, AreaSet
<1>4. QED
  BY <1>2, <1>3

\* An area that CanAdd lets in leaves the list apart.
LEMMA AddedKept ==
  ASSUME NEW set, NEW new \in Area, SetKept(set), CanAdd(set, new)
  PROVE  SetKept(Added(set, new))
<1> DEFINE list == set.iNonDefaultAreas
           more == Added(set, new)
<1>0. set \in AreaSet /\ list \in Seq(Area) /\ Len(list) \in Nat /\ set.iAreaCount \in Nat
  BY DEF SetKept, AreaSet
<1>1. CASE new.name = KDefaultAreaName
  <2>1. more = [set EXCEPT !.iDefaultArea = new, !.iAreaCount = @ + 1]
    BY <1>1 DEF Added
  <2>2. more \in AreaSet
    BY <1>0, AddedType
  <2>3. more.iNonDefaultAreas = list /\ more.iDefaultArea = new
    BY <2>1, <1>0 DEF AreaSet
  <2>4. QED
    BY <1>1, <2>2, <2>3 DEF SetKept
<1>2. CASE new.name # KDefaultAreaName
  <2>1. more = [set EXCEPT !.iNonDefaultAreas = Append(@, new), !.iAreaCount = @ + 1]
    BY <1>2 DEF Added
  <2>2. more.iNonDefaultAreas = Append(list, new) /\ more.iDefaultArea = set.iDefaultArea
    BY <2>1, <1>0 DEF AreaSet
  <2>3. more \in AreaSet
    BY <1>0, AddedType
  <2>4. Kept(Append(list, new))
    BY <1>0, CanAddToList, AddKeeps DEF SetKept
  <2>5. ASSUME NEW i \in 1 .. Len(Append(list, new))
        PROVE  Append(list, new)[i].name # KDefaultAreaName
    <3>1. CASE i = Len(list) + 1
      BY <3>1, <1>0, <1>2
    <3>2. CASE i # Len(list) + 1
      <4>1. i \in 1 .. Len(list) /\ Append(list, new)[i] = list[i]
        BY <3>2, <1>0
      <4>2. QED
        BY <4>1 DEF SetKept
    <3>3. QED
      BY <3>1, <3>2
  <2>6. QED
    BY <2>2, <2>3, <2>4, <2>5 DEF SetKept
<1>3. QED
  BY <1>1, <1>2

(* The default area is that of the whole ROM, and was compared with every  *)
(* other one.                                                              *)
DefaultKept ==
  LET list == iAreaSet.iNonDefaultAreas
  IN  /\ iAreaSet.iDefaultArea = TheDefaultArea
      /\ ~EOverflow(TheDefaultArea)
      /\ \A i \in 1 .. Len(list) : ~EOverlap(TheDefaultArea, list[i])

(* The invariant of the area set.                                          *)
AreasInv ==
  /\ rom \in Roms
  /\ line \in Nat \ {0}
  /\ SetKept(iAreaSet)
  /\ outcome = "refused" => pc = "done"
  /\ (pc # "areas" /\ outcome # "refused") => DefaultKept

\* No area is there at first.
LEMMA AreasInvInit == Init => AreasInv
<1>1. EmptyAreaSet \in AreaSet /\ EmptyAreaSet.iNonDefaultAreas = <<>>
      /\ EmptyAreaSet.iDefaultArea = NoArea
  BY DEF EmptyAreaSet, AreaSet
<1>2. SetKept(EmptyAreaSet)
  BY <1>1 DEF SetKept, Kept
<1>3. QED
  BY <1>2 DEF Init, AreasInv

\* What the steps leave alone that add no area.
LEMMA AreasUntouched ==
  ASSUME [Next]_vars, ~(ParseAreaKeyword \/ CreateDefaultArea),
         outcome = "refused" => pc = "done"
  PROVE  /\ rom' = rom /\ iAreaSet' = iAreaSet
         /\ \/ pc' = pc /\ outcome' = outcome
            \/ /\ pc \notin {"areas", "done"}
               /\ outcome' = "refused" => pc' = "done"
<1> USE DEF obeyVars, Fail, ReadLine
<1>1. CASE UNCHANGED vars \/ SkipLine
  BY <1>1 DEF vars, SkipLine
<1>2. CASE ParseSection
  BY <1>2 DEF ParseSection
<1>3. CASE ProcessFile
  BY <1>3 DEF ProcessFile
<1>4. CASE EndObey
  BY <1>4 DEF EndObey
<1>5. CASE SortFilesForPagedRom
  BY <1>5 DEF SortFilesForPagedRom
<1>6. CASE ReserveRomExceptionSearchTable
  BY <1>6 DEF ReserveRomExceptionSearchTable
<1>7. CASE WriteDirectory
  BY <1>7 DEF WriteDirectory
<1>8. CASE AllocateRelocationTable
  BY <1>8 DEF AllocateRelocationTable
<1>9. CASE NextRom
  BY <1>9 DEF NextRom
<1>10. CASE LayoutData
  BY <1>10 DEF LayoutData, GoToNext
<1>11. CASE LayoutExecutable
  BY <1>11 DEF LayoutExecutable, GoToNext
<1>12. CASE EndLayout
  BY <1>12 DEF EndLayout
<1>13. CASE SizeUsed
  BY <1>13 DEF SizeUsed
<1>14. CASE SetupPages
  BY <1>14 DEF SetupPages
<1>15. QED
  BY <1>1, <1>2, <1>3, <1>4, <1>5, <1>6, <1>7, <1>8,
     <1>9, <1>10, <1>11, <1>12, <1>13, <1>14 DEF Next

\* Areas stay apart: AddArea is called by two actions only.
LEMMA AreasInvStep == AreasInv /\ [Next]_vars => AreasInv'
<1> SUFFICES ASSUME AreasInv, [Next]_vars PROVE AreasInv'
  OBVIOUS
<1>0. rom \in Roms /\ line \in Nat \ {0} /\ SetKept(iAreaSet) /\ iAreaSet \in AreaSet
  BY DEF AreasInv, SetKept
<1>1. line' \in Nat \ {0}
  <2>1. line' \in {line, line + 1, 1}
    BY DEF Next, vars, Fail, AddArea, ParseAreaKeyword, CreateDefaultArea, SkipLine, ParseSection,
       ProcessFile, EndObey, SortFilesForPagedRom, ReserveRomExceptionSearchTable, WriteDirectory,
       AllocateRelocationTable, NextRom, GoToNext, LayoutData, LayoutExecutable, EndLayout, SizeUsed,
       SetupPages
  <2>2. QED
    BY <2>1, <1>0
<1>2. CASE ParseAreaKeyword
  <2>1. rom.areas \in Seq(Area) /\ line \in 1 .. Len(rom.areas)
    BY <1>0, <1>2, RomType DEF ParseAreaKeyword
  <2>2. rom.areas[line] \in Area
    BY <2>1
  <2>3. CASE CanAdd(iAreaSet, rom.areas[line])
    <3>1. /\ iAreaSet' = Added(iAreaSet, rom.areas[line])
          /\ UNCHANGED <<rom, pc, outcome>> /\ pc = "areas"
      BY <1>2, <2>3 DEF ParseAreaKeyword, AddArea
    <3>2. SetKept(iAreaSet')
      BY <3>1, <2>2, <2>3, <1>0, AddedKept
    <3>3. QED
      BY <3>1, <3>2, <1>0, <1>1 DEF AreasInv
  <2>4. CASE ~CanAdd(iAreaSet, rom.areas[line])
    <3>1. UNCHANGED <<rom, iAreaSet>> /\ outcome' = "refused" /\ pc' = "done"
      BY <1>2, <2>4 DEF ParseAreaKeyword, Fail, obeyVars
    <3>2. QED
      BY <3>1, <1>0, <1>1 DEF AreasInv
  <2>5. QED
    BY <2>3, <2>4
<1>3. CASE CreateDefaultArea
  <2> DEFINE adds == (rom.extension \/ HasPrimary) /\ CanAdd(iAreaSet, TheDefaultArea)
             list == iAreaSet.iNonDefaultAreas
  <2>1. CASE adds
    <3>1. /\ iAreaSet' = Added(iAreaSet, TheDefaultArea)
          /\ UNCHANGED <<rom, outcome>> /\ pc = "areas" /\ pc' = "obey"
      BY <1>3, <2>1 DEF CreateDefaultArea, AddArea
    <3>2. TheDefaultArea \in Area /\ TheDefaultArea' = TheDefaultArea
      BY <1>0, <3>1, DefaultIsArea DEF TheDefaultArea
    <3>3. SetKept(iAreaSet')
      BY <3>1, <3>2, <2>1, <1>0, AddedKept
    <3>4. iAreaSet'.iNonDefaultAreas = list /\ iAreaSet'.iDefaultArea = TheDefaultArea
      <4>1. TheDefaultArea.name = KDefaultAreaName
        BY DEF TheDefaultArea
      <4>2. QED
        BY <3>1, <4>1, <1>0 DEF Added, AreaSet
    <3>5. /\ ~EOverflow(TheDefaultArea)
          /\ \A i \in 1 .. Len(list) : ~EOverlap(TheDefaultArea, list[i])
      BY <2>1, <1>0, CanAddToList
    <3>6. DefaultKept'
      BY <3>2, <3>4, <3>5 DEF DefaultKept
    <3>7. outcome # "refused"
      BY <3>1 DEF AreasInv
    <3>8. QED
      BY <3>1, <3>3, <3>6, <3>7, <1>0, <1>1 DEF AreasInv
  <2>2. CASE ~adds
    <3>1. UNCHANGED <<rom, iAreaSet>> /\ outcome' = "refused" /\ pc' = "done"
      BY <1>3, <2>2 DEF CreateDefaultArea, Fail, obeyVars
    <3>2. QED
      BY <3>1, <1>0, <1>1 DEF AreasInv
  <2>3. QED
    BY <2>1, <2>2
<1>4. CASE ~(ParseAreaKeyword \/ CreateDefaultArea)
  <2>1. /\ UNCHANGED <<rom, iAreaSet>>
        /\ \/ pc' = pc /\ outcome' = outcome
           \/ /\ pc \notin {"areas", "done"}
              /\ outcome' = "refused" => pc' = "done"
    BY <1>4, AreasUntouched DEF AreasInv
  <2>2. DefaultKept' = DefaultKept
    BY <2>1 DEF DefaultKept, TheDefaultArea
  <2>3. QED
    BY <2>1, <2>2, <1>0, <1>1 DEF AreasInv
<1>5. QED
  BY <1>2, <1>3, <1>4

\* Areas kept apart in words are apart as ranges.
LEMMA KeptApart == AreasInv => AreasApart
<1> SUFFICES ASSUME AreasInv PROVE AreasApart
  OBVIOUS
<1> DEFINE list == iAreaSet.iNonDefaultAreas
<1>0. Kept(list) /\ list \in Seq(Area) /\ Len(list) \in Nat
  BY DEF AreasInv, SetKept, Kept
<1> HIDE DEF list
<1>1. \A i \in 1 .. Len(list) : list[i] \in Area /\ ~EOverflow(list[i]) /\ ~Overflows(list[i])
  BY <1>0, AreaFits DEF Kept
<1>2. ASSUME NEW i \in 1 .. Len(list), NEW j \in 1 .. Len(list) \ {i}
      PROVE  AreApart(list[i], list[j])
  <2>1. list[i] \in Area /\ ~EOverflow(list[i]) /\ list[j] \in Area /\ ~EOverflow(list[j])
    BY <1>1
  <2>2. CASE i < j
    <3>1. list[i].name # list[j].name /\ ~EOverlap(list[j], list[i])
      BY <2>2, <1>0 DEF Kept
    <3>2. QED
      BY <3>1, <2>1, AreasDisjoint DEF AreApart
  <2>3. CASE j < i
    <3>1. list[j].name # list[i].name /\ ~EOverlap(list[i], list[j])
      BY <2>3, <1>0 DEF Kept
    <3>2. QED
      BY <3>1, <2>1, AreasDisjoint DEF AreApart
  <2>4. i < j \/ j < i
    BY <1>0
  <2>5. QED
    BY <2>2, <2>3, <2>4
<1>3. ASSUME pc # "areas", outcome # "refused"
      PROVE  /\ iAreaSet.iDefaultArea = TheDefaultArea
             /\ ~Overflows(TheDefaultArea)
             /\ \A i \in 1 .. Len(list) : AreApart(list[i], TheDefaultArea)
  <2>1. DefaultKept /\ TheDefaultArea \in Area
    BY <1>3, DefaultIsArea DEF AreasInv
  <2>2. ~EOverflow(TheDefaultArea) /\ ~Overflows(TheDefaultArea)
    BY <2>1, AreaFits DEF DefaultKept
  <2>3. ASSUME NEW i \in 1 .. Len(list) PROVE AreApart(list[i], TheDefaultArea)
    <3>1. list[i].name # KDefaultAreaName /\ ~EOverlap(TheDefaultArea, list[i])
      BY <2>1 DEF AreasInv, SetKept, DefaultKept, list
    <3>2. list[i].name # TheDefaultArea.name
      BY <3>1 DEF TheDefaultArea
    <3>3. Disjoint(list[i], TheDefaultArea)
      BY <3>1, <2>1, <2>2, <1>1, AreasDisjoint
    <3>4. QED
      BY <3>2, <3>3 DEF AreApart
  <2>4. QED
    BY <2>1, <2>2, <2>3 DEF DefaultKept
<1>4. QED
  BY <1>1, <1>2, <1>3 DEF AreasApart, list

\* The areas of the list have distinct names, none goes past the last address, and no two
\* overlap, whatever areas the obey file asks for, an area of the default area's name among
\* them (AreaSet::AddArea); when the image has got its default area (CreateDefaultArea),
\* that one is the whole ROM and apart from them all.
THEOREM AreasApartAlways == Spec => []AreasApart
<1>1. AreasInv /\ UNCHANGED vars => AreasInv'
  BY AreasInvStep
<1>2. QED
  BY AreasInvInit, AreasInvStep, KeptApart, PTL DEF Spec

-----------------------------------------------------------------------------

Resting == {"sort", "exceptions", "directory", "relocations", "layout", "exceptions last",
            "size", "pages"}

(* What the types rest on: where the walk has come to.                     *)
Order ==
  /\ pc \in Resting => Base <= main
  /\ pc = "layout" => romaddr <= main
  /\ second # Null => iSectionStart <= second
  /\ pc \in {"areas", "obey"} => second = Null

(* The types with what they rest on.                                       *)
TypeStrong ==
  /\ TypeOK
  /\ rom \in Roms
  /\ line # 0
  /\ Order

\* A list of n values with one more is a list of n + 1.
LEMMA AppendType ==
  ASSUME NEW n \in Nat, NEW S, NEW f \in [1 .. n -> S], NEW x \in S
  PROVE  /\ Len(f) = n
         /\ Append(f, x) \in [1 .. (n + 1) -> S]
<1>1. f \in Seq(S)
  OBVIOUS
<1>2. Len(f) = n /\ DOMAIN f = 1 .. n
  BY <1>1
<1>3. Append(f, x) \in Seq(S) /\ Len(Append(f, x)) = n + 1
  BY <1>1, <1>2
<1>4. \A s \in Seq(S) : s \in [1 .. Len(s) -> S]
  OBVIOUS
<1>5. Append(f, x) \in [1 .. (n + 1) -> S]
  BY <1>3, <1>4
<1>6. QED
  BY <1>2, <1>5

\* A new entry keeps the links inside the list.
LEMMA LinkedType ==
  ASSUME NEW n \in Nat, NEW f \in [1 .. n -> 0 .. n]
  PROVE  Linked(f) \in [1 .. (n + 1) -> 0 .. (n + 1)]
<1>1. Len(f) = n
  BY AppendType
<1>2. ASSUME NEW i \in 1 .. (n + 1)
      PROVE  (IF i > n THEN Null ELSE IF i = n THEN i + 1 ELSE f[i]) \in 0 .. (n + 1)
  BY DEF Null
<1>3. QED
  BY <1>1, <1>2 DEF Linked

\* A file starts at or above the address the walk has come to.
LEMMA StartType ==
  ASSUME NEW f \in Line, main \in Nat
  PROVE  StartOf(f) \in Nat /\ main <= StartOf(f)
<1>1. ASSUME NEW n \in Nat, NEW a \in Nat \ {0}
      PROVE  Gap(n, a) \in Nat
  BY <1>1, AlignedUp DEF Gap
<1>2. f.align \in Nat /\ f.codeAlign \in Nat
  BY DEF Line
<1> DEFINE al == IF f.align > RomAlign THEN f.align ELSE RomAlign
           a == main + Gap(main, al)
<1>3. al \in Nat \ {0}
  BY <1>2, Constants
<1> HIDE DEF al
<1>4. Gap(main, al) \in Nat
  BY <1>1, <1>3
<1>5. a \in Nat /\ main <= a
  BY <1>4
<1> HIDE DEF a
<1>6. f.codeAlign # 0 => Gap(a + ImageHeader, f.codeAlign) \in Nat
  BY <1>1, <1>2, <1>5, Constants
<1>7. StartOf(f) = IF f.codeAlign = 0 THEN a ELSE a + Gap(a + ImageHeader, f.codeAlign)
  BY DEF StartOf, a, al
<1>8. QED
  BY <1>5, <1>6, <1>7

\* Sizes of tables, and heads of lists, have their types.
LEMMA Counts ==
  ASSUME files \in Seq(Line)
  PROVE  /\ ExceptionTable \in Nat
         /\ DirectorySize \in Nat
         /\ NumberOfFiles \in Nat
         /\ \A k : First(List(k)) \in 0 .. Len(files)
<1>1. Len(files) \in Nat
  OBVIOUS
<1>2. Cardinality({i \in 1 .. Len(files) : IsPe(i)}) \in Nat
  BY <1>1, CountType
<1>3. Cardinality({i \in 1 .. Len(files) : files[i].listed}) \in Nat
  BY <1>1, CountType
<1>4. Cardinality({i \in 1 .. Len(files) : files[i].keyword # "hcr"}) \in Nat
  BY <1>1, CountType
<1>5. \A k : List(k) \in SUBSET (1 .. Len(files))
  BY DEF List
<1>6. \A k : First(List(k)) \in 0 .. Len(files)
  BY <1>1, <1>5, FirstIn
<1>7. QED
  BY <1>2, <1>3, <1>4, <1>6 DEF ExceptionTable, DirectorySize, NumberOfFiles

\* Sorting keeps the links inside the list.
LEMMA ChainedType ==
  ASSUME files \in Seq(Line), iNextInArea \in [1 .. Len(files) -> 0 .. Len(files)],
         NEW i \in 1 .. Len(files)
  PROVE  Chained(i) \in 0 .. Len(files)
<1> DEFINE after == {j \in List(ListOf(files[i])) : i < j}
<1>1. Len(files) \in Nat
  OBVIOUS
<1>2. First(after) \in 0 .. Len(files)
  BY <1>1, FirstIn DEF List
<1>3. \A k : First(List(k)) \in 0 .. Len(files)
  BY Counts
<1>4. ListOf(files[i]) \in {"extention", "unpaged", "normal"}
  BY DEF ListOf
<1>5. ASSUME NEW kind \in {"extention", "unpaged", "normal"}
      PROVE  Following(kind) \in 0 .. Len(files)
  <2>1. CASE kind = "extention" /\ List("unpaged") # {}
    BY <2>1, <1>3 DEF Following
  <2>2. CASE kind = "extention" /\ List("unpaged") = {}
    BY <2>2, <1>3 DEF Following
  <2>3. CASE kind = "unpaged"
    BY <2>3, <1>3 DEF Following
  <2>4. CASE kind = "normal"
    BY <2>4, <1>1 DEF Following, Null
  <2>5. QED
    BY <2>1, <2>2, <2>3, <2>4, <1>5
<1>6. iNextInArea[i] \in 0 .. Len(files)
  OBVIOUS
<1>7. Following(ListOf(files[i])) \in 0 .. Len(files)
  BY <1>4, <1>5
<1> HIDE DEF after
<1>8. Chained(i) = IF after # {} THEN First(after)
                   ELSE IF List("extention") # {} THEN Following(ListOf(files[i]))
                   ELSE iNextInArea[i]
  BY DEF Chained, after
<1>9. QED
  BY <1>2, <1>6, <1>7, <1>8

\* The types hold at first.
LEMMA TypeInit == Init => TypeStrong
<1> SUFFICES ASSUME Init PROVE TypeStrong
  OBVIOUS
<1>1. rom \in Rom /\ rom \in Roms
  BY RomType DEF Init
<1>2. Len(files) = 0 /\ files \in Seq(Line) /\ iAreaSet \in AreaSet
  BY DEF Init, EmptyAreaSet, AreaSet
<1>3. /\ iRomSectionNumber \in [1 .. 0 -> {0, 1}]
      /\ iNextInArea \in [1 .. 0 -> 0 .. 0]
      /\ entry \in [1 .. 0 -> Nat]
  BY DEF Init
<1>4. QED
  BY <1>1, <1>2, <1>3 DEF Init, TypeStrong, TypeOK, Order, Null, NotSectioned, Resting

\* Every action keeps the types.
LEMMA TypeStep == TypeStrong /\ [Next]_vars => TypeStrong'
<1> SUFFICES ASSUME TypeStrong, [Next]_vars PROVE TypeStrong'
  OBVIOUS
<1> USE DEF obeyVars, listVars, layoutVars, endVars, Resting
<1>a. TypeOK /\ rom \in Roms /\ line # 0
  BY DEF TypeStrong
<1>b. rom \in Rom /\ line \in Nat /\ files \in Seq(Line) /\ iAreaSet \in AreaSet
  BY <1>a DEF TypeOK
<1>c. main \in Nat /\ second \in Nat /\ romaddr \in Nat /\ iSectionStart \in Nat
      /\ fileCount \in Nat /\ current \in 0 .. Len(files)
  BY <1>a DEF TypeOK
<1>d. /\ iNextInArea \in [1 .. Len(files) -> 0 .. Len(files)]
      /\ entry \in [1 .. Len(files) -> Nat]
      /\ iFirstPagedCode \in 0 .. Len(files)
  BY <1>a DEF TypeOK
<1>p. \A p \in placed : p.of \in 0 .. Len(files)
  BY <1>a DEF TypeOK
<1>o. Order
  BY DEF TypeStrong
<1>e. Len(files) \in Nat /\ iAreaSet.iAreaCount \in Nat /\ line \in Nat \ {0} /\ rom \in Roms
  BY <1>a, <1>b DEF AreaSet
<1>0. /\ rom \in Rom /\ rom \in Roms /\ line \in Nat \ {0}
      /\ files \in Seq(Line) /\ Len(files) \in Nat
      /\ main \in Nat /\ second \in Nat /\ romaddr \in Nat /\ iSectionStart \in Nat
      /\ current \in 0 .. Len(files) /\ fileCount \in Nat
      /\ iNextInArea \in [1 .. Len(files) -> 0 .. Len(files)]
      /\ entry \in [1 .. Len(files) -> Nat]
  BY <1>b, <1>c, <1>d, <1>e
<1>q. ASSUME NEW what, NEW of \in 0 .. Len(files), NEW part, NEW lo, NEW hi
      PROVE  Piece(what, of, part, lo, hi).of \in 0 .. Len(files)
  BY DEF Piece
<1>z. 0 \in 0 .. Len(files)
  BY <1>0
<1>1. /\ rom.size \in Nat /\ rom.areas \in Seq(Area) /\ rom.lines \in Seq(Line)
  BY <1>0, RomType
<1>2. ExceptionTable \in Nat /\ DirectorySize \in Nat /\ NumberOfFiles \in Nat
  BY <1>0, Counts
<1>3. ASSUME NEW how \in {"refused", "no room", "crashed",
                          "first section overflowed", "directory overwritten"},
             Fail(how)
      PROVE  TypeStrong'
  BY <1>3 DEF Fail, TypeStrong, TypeOK, Order
<1>4. CASE ParseAreaKeyword
  <2>1. CASE CanAdd(iAreaSet, rom.areas[line])
    <3>1. rom.areas[line] \in Area
      BY <1>0, <1>1, <1>4 DEF ParseAreaKeyword
    <3>0. AddArea(rom.areas[line])
      BY <1>4, <2>1 DEF ParseAreaKeyword
    <3>2. iAreaSet' \in AreaSet
      BY <1>b, <3>0, <3>1, AddedType DEF AddArea
    <3>3. line' \in Nat /\ line' # 0
      BY <1>0, <1>4, <2>1 DEF ParseAreaKeyword
    <3>4. QED
      BY <1>4, <2>1, <3>2, <3>3 DEF ParseAreaKeyword, AddArea, TypeStrong, TypeOK, Order
  <2>2. QED
    BY <1>3, <1>4, <2>1 DEF ParseAreaKeyword
<1>5. CASE CreateDefaultArea
  <2>1. CASE Fail("refused")
    BY <1>3, <2>1
  <2>2. CASE ~Fail("refused")
    <3>0. AddArea(TheDefaultArea) /\ line' = 1 /\ pc' = "obey"
      BY <1>5, <2>2 DEF CreateDefaultArea
    <3>1. iAreaSet' \in AreaSet
      BY <1>0, <1>b, <3>0, DefaultIsArea, AddedType DEF AddArea
    <3>2. line' = 1 /\ pc' = "obey"
      BY <1>5, <2>2 DEF CreateDefaultArea
    <3>5. pc = "areas" /\ second' = second
      BY <1>5, <3>0 DEF CreateDefaultArea, AddArea
    <3>3. Order'
      BY <1>o, <3>2, <3>5 DEF Order
    <3>4. rom' \in Roms /\ line' # 0 /\ TypeOK'
      <4>1. /\ UNCHANGED <<rom, outcome, files, iRomSectionNumber, iSectionStart, iSectionPosition>>
            /\ UNCHANGED <<iFiles, iNextInArea, iFirstPagedCode>>
            /\ UNCHANGED <<romaddr, main, second, current, fileCount, placed, directory, entry>>
            /\ UNCHANGED <<iSizeUsed, pageable>>
        BY <3>0 DEF AddArea
      <4>2. line' = 1 /\ pc' = "obey"
        BY <3>0
      <4>3. QED
        <5>1. TypeOK
          BY <1>a
        <5>2. line' \in Nat /\ line' # 0 /\ rom' \in Roms /\ rom' \in Rom
          BY <1>0, <4>1, <4>2
        <5>3. pc' \in {"obey"}
          BY <4>2
        <5>4. TypeOK'
          BY <3>1, <4>1, <5>1, <5>2, <5>3 DEF TypeOK
        <5>5. QED
          BY <5>2, <5>4
    <3>6. QED
      BY <3>3, <3>4 DEF TypeStrong
  <2>3. QED
    BY <2>1, <2>2
<1>6. CASE SkipLine
  <2>1. line' \in Nat /\ line' # 0
    BY <1>0, <1>6 DEF SkipLine
  <2>2. TypeOK' /\ rom' \in Roms
    BY <1>a, <1>6, <2>1 DEF SkipLine, TypeOK
  <2>3. Order'
    BY <1>o, <1>6 DEF SkipLine, Order
  <2>4. QED
    BY <2>1, <2>2, <2>3 DEF TypeStrong
<1>7. CASE ParseSection
  <2>1. CASE Fail("refused")
    BY <1>3, <2>1
  <2>2. CASE ~Fail("refused")
    <3>1. rom.lines[line] \in Line
      BY <1>0, <1>1, <1>7 DEF ParseSection, ReadLine
    <3>2. rom.lines[line].offset \in Nat
      BY <3>1 DEF Line
    <3>3. /\ iSectionStart' = Base + rom.lines[line].offset
          /\ iSectionPosition' = NumberOfFiles
          /\ line' = line + 1
          /\ UNCHANGED <<rom, pc, outcome, iAreaSet, files, iRomSectionNumber,
                         listVars, layoutVars, endVars>>
      BY <1>7, <2>2 DEF ParseSection
    <3>4. iSectionStart' \in Nat /\ line' \in Nat /\ line' # 0
      <4>1. Base + rom.lines[line].offset \in Nat
        BY <3>2, Constants
      <4>2. line + 1 \in Nat /\ line + 1 # 0
        BY <1>e
      <4>3. QED
        BY <3>3, <4>1, <4>2
    <3>5. pc = "obey"
      BY <1>7 DEF ParseSection, ReadLine
    <3>8. UNCHANGED <<pc, main, second, romaddr>>
      BY <3>3
    <3>9. second = Null
      BY <3>5, <1>o DEF Order
    <3>6. Order' /\ second' \in Nat
      BY <1>0, <3>5, <3>8, <3>9 DEF Order
    <3>7. QED
      BY <1>2, <3>3, <3>4, <3>6 DEF TypeStrong, TypeOK
  <2>3. QED
    BY <2>1, <2>2
<1>8. CASE ProcessFile
  <2>1. CASE Fail("refused")
    BY <1>3, <2>1
  <2>2. CASE ~Fail("refused")
    <3> DEFINE n == Len(files)
    <3>1. rom.lines[line] \in Line
      BY <1>0, <1>1, <1>8 DEF ProcessFile, ReadLine
    <3>2. /\ files' = Append(files, rom.lines[line])
          /\ iRomSectionNumber' = Append(iRomSectionNumber,
                                     IF iSectionPosition = NotSectioned THEN 0 ELSE 1)
          /\ iNextInArea' = Linked(iNextInArea)
          /\ iFiles' = 1
          /\ entry' = Append(entry, 0)
          /\ line' = line + 1
          /\ UNCHANGED <<rom, pc, outcome, iAreaSet, iSectionStart, iSectionPosition,
                         iFirstPagedCode, romaddr, main, second, current, fileCount,
                         placed, directory, endVars>>
      BY <1>8, <2>2 DEF ProcessFile
    <3>3. files' \in Seq(Line) /\ Len(files') = n + 1 /\ n \in Nat
      BY <1>0, <3>1, <3>2
    <3>4. iRomSectionNumber \in [1 .. n -> {0, 1}]
      BY DEF TypeStrong, TypeOK
    <3> HIDE DEF n
    <3>5. iRomSectionNumber' \in [1 .. (n + 1) -> {0, 1}]
      BY <3>2, <3>3, <3>4, AppendType
    <3>6. entry' \in [1 .. (n + 1) -> Nat]
      BY <1>0, <3>2, <3>3, AppendType DEF n
    <3>7. iNextInArea' \in [1 .. (n + 1) -> 0 .. (n + 1)]
      BY <1>0, <3>2, <3>3, LinkedType DEF n
    <3>12. 0 .. n \subseteq 0 .. (n + 1) /\ 1 \in 0 .. (n + 1)
      BY <3>3
    <3>13. UNCHANGED <<iFirstPagedCode, current, placed>> /\ iFiles' = 1
      BY <3>2
    <3>14. /\ iFirstPagedCode \in 0 .. n /\ current \in 0 .. n
           /\ \A p \in placed : p.of \in 0 .. n
      BY <1>c, <1>d, <1>p DEF n
    <3>8. /\ iFiles' \in 0 .. (n + 1) /\ iFirstPagedCode' \in 0 .. (n + 1)
          /\ current' \in 0 .. (n + 1) /\ \A p \in placed' : p.of \in 0 .. (n + 1)
      BY <3>12, <3>13, <3>14
    <3>9. line' \in Nat /\ line' # 0
      BY <1>0, <3>2
    <3>10. Order'
      BY <3>2 DEF TypeStrong, Order
    <3>11. QED
      BY <3>2, <3>3, <3>5, <3>6, <3>7, <3>8, <3>9, <3>10 DEF TypeStrong, TypeOK
  <2>3. QED
    BY <2>1, <2>2
<1>9. CASE EndObey
  <2>1. CASE Fail("refused")
    BY <1>3, <2>1
  <2>2. CASE ~Fail("refused")
    <3>1. /\ pc' = IF rom.paged THEN "sort" ELSE "directory"
          /\ main' = Base + HeadSize
          /\ placed' = {Piece("head", 0, 1, Base, Base + HeadSize)}
          /\ UNCHANGED <<rom, line, outcome, obeyVars, listVars, romaddr, second,
                         current, fileCount, directory, entry, endVars>>
      BY <1>9, <2>2 DEF EndObey
    <3>2. main' \in Nat /\ Base <= main'
      BY <3>1, Constants
    <3>3. \A p \in placed' : p.of \in 0 .. Len(files)
      BY <1>0, <3>1 DEF Piece
    <3>4. QED
      BY <1>9, <3>1, <3>2, <3>3 DEF TypeStrong, TypeOK, Order, EndObey
  <2>3. QED
    BY <2>1, <2>2
<1>10. CASE SortFilesForPagedRom
  <2>1. iNextInArea' \in [1 .. Len(files) -> 0 .. Len(files)]
    BY <1>0, <1>10, ChainedType DEF SortFilesForPagedRom
  <2>2. iFiles' \in 0 .. Len(files) /\ iFirstPagedCode' \in 0 .. Len(files)
    BY <1>0, <1>10, Counts DEF SortFilesForPagedRom, TypeStrong, TypeOK
  <2>3. QED
    BY <1>10, <2>1, <2>2 DEF SortFilesForPagedRom, TypeStrong, TypeOK, Order
<1>11. CASE ReserveRomExceptionSearchTable
  <2>1. CASE Fail("no room")
    BY <1>3, <2>1
  <2>2. CASE ~Fail("no room")
    <3>1. /\ placed' = placed \cup {Piece("exceptions", 0, 1, main, main + ExceptionTable)}
          /\ main' = main + ExceptionTable
          /\ pc' = IF pc = "exceptions" THEN "directory" ELSE "size"
          /\ pc \in {"exceptions", "exceptions last"}
          /\ UNCHANGED <<rom, line, outcome, obeyVars, listVars, romaddr, second,
                         current, fileCount, directory, entry, endVars>>
      BY <1>11, <2>2 DEF ReserveRomExceptionSearchTable
    <3>6. main' = main + ExceptionTable /\ pc \in Resting
      BY <3>1
    <3>8. main \in Nat /\ ExceptionTable \in Nat
      BY <1>c, <1>2
    <3>9. \A x, y \in Nat : x + y \in Nat /\ x <= x + y
      OBVIOUS
    <3>10. main + ExceptionTable \in Nat /\ main <= main + ExceptionTable
      BY <3>8, <3>9
    <3>2. main' \in Nat /\ main <= main'
      BY <3>6, <3>10
    <3>7. Base <= main
      BY <1>o, <3>6 DEF Order
    <3>3. Base <= main'
      BY <1>c, <3>2, <3>7, Constants
    <3>4. \A p \in placed' : p.of \in 0 .. Len(files)
      BY <1>p, <1>q, <1>z, <3>1
    <3>5. QED
      BY <3>1, <3>2, <3>3, <3>4 DEF TypeStrong, TypeOK, Order
  <2>3. QED
    BY <2>1, <2>2
<1>12. CASE WriteDirectory
  <2>1. CASE Fail("crashed")
    BY <1>3, <2>1
  <2>2. CASE ~Fail("crashed")
    <3>1. /\ pc = "directory" /\ pc' = "relocations"
          /\ placed' = placed \cup
               {Piece("directory", 0, 1, DirectoryAddr, DirectoryAddr + DirectorySize)}
          /\ main' = IF iSectionPosition = NotSectioned
                       THEN main + Aligned(DirectorySize, RomAlign) ELSE main
          /\ UNCHANGED <<rom, line, outcome, obeyVars, listVars, romaddr, second,
                         current, fileCount, entry, endVars>>
      BY <1>12, <2>2 DEF WriteDirectory
    <3>2. Aligned(DirectorySize, RomAlign) \in Nat
      BY <1>2, AlignedUp, Constants
    <3>7. main' = main \/ main' = main + Aligned(DirectorySize, RomAlign)
      BY <3>1
    <3>3. main' \in Nat /\ main <= main'
      BY <1>c, <3>2, <3>7
    <3>8. Base <= main
      BY <1>o, <3>1 DEF Order
    <3>4. Base <= main'
      BY <1>c, <3>3, <3>8, Constants
    <3>5. \A p \in placed' : p.of \in 0 .. Len(files)
      BY <1>0, <1>p, <1>q, <1>z, <3>1
    <3>6. QED
      BY <3>1, <3>3, <3>4, <3>5 DEF TypeStrong, TypeOK, Order
  <2>3. QED
    BY <2>1, <2>2
<1>13. CASE AllocateRelocationTable
  <2> DEFINE size == IF iAreaSet.iAreaCount > 1 THEN iAreaSet.iAreaCount * Reloc ELSE 0
  <2>1. size \in Nat
    BY <1>e, Constants
  <2>2. Aligned(size, RomAlign) \in Nat
    BY <2>1, AlignedUp, Constants
  <2>3. /\ placed' = placed \cup {p \in {Piece("relocations", 0, 1, main, main + size)} : size > 0}
        /\ main' = main + Aligned(size, RomAlign)
        /\ romaddr' = main + Aligned(size, RomAlign)
        /\ second' = IF iSectionStart # 0 THEN iSectionStart + SectionHeader ELSE Null
        /\ current' = iFiles
        /\ fileCount' = 0
        /\ pc = "relocations" /\ pc' = "layout"
        /\ UNCHANGED <<rom, line, outcome, obeyVars, listVars, directory, entry, endVars>>
    BY <1>13 DEF AllocateRelocationTable
  <2> HIDE DEF size
  <2>4. main' \in Nat /\ romaddr' = main' /\ main <= main'
    BY <1>0, <2>2, <2>3
  <2>5. Base <= main'
    BY <1>0, <2>3, <2>4, Constants DEF TypeStrong, Order
  <2>6. second' \in Nat /\ (second' # Null => iSectionStart <= second')
    BY <1>0, <2>3, Constants DEF Null
  <2>7. \A p \in placed' : p.of \in 0 .. Len(files)
    BY <1>p, <1>q, <1>z, <2>3
  <2>8. UNCHANGED <<rom, line, outcome, obeyVars, listVars, directory, entry, endVars>>
    BY <2>3
  <2>9. current' \in 0 .. Len(files) /\ fileCount' \in Nat /\ romaddr' \in Nat
    BY <1>a, <2>3, <2>4 DEF TypeOK
  <2>10. pc' = "layout" /\ romaddr' <= main'
    BY <2>3, <2>4
  <2>11. TypeOK'
    BY <1>a, <2>4, <2>6, <2>7, <2>8, <2>9, <2>10 DEF TypeOK
  <2>12. Order'
    BY <2>5, <2>6, <2>8, <2>10 DEF Order
  <2>13. QED
    BY <1>a, <2>8, <2>11, <2>12 DEF TypeStrong
<1>14. CASE NextRom
  <2>1. CASE Fail("first section overflowed") \/ Fail("directory overwritten")
    BY <1>3, <2>1
  <2>2. CASE ~(Fail("first section overflowed") \/ Fail("directory overwritten"))
    <3>1. /\ pc = "layout" /\ ~(main > iSectionStart) /\ second # Null
          /\ main' = second + DirectorySize
          /\ second' = Null
          /\ placed' = placed \cup {p \in {Piece("section", 0, 1, iSectionStart,
                                              iSectionStart + SectionHeader)} : SectionHeader > 0}
          /\ UNCHANGED <<rom, line, pc, outcome, obeyVars, listVars, romaddr, current,
                         fileCount, directory, entry, endVars>>
      BY <1>14, <2>2 DEF NextRom, AfterDirectory, AtSection
    <3>2. iSectionStart <= second /\ romaddr <= main /\ Base <= main
      BY <3>1 DEF TypeStrong, Order
    <3>3. main' \in Nat /\ main <= main'
      BY <1>0, <1>2, <3>1, <3>2
    <3>4. romaddr' <= main' /\ Base <= main'
      BY <1>0, <3>1, <3>2, <3>3, Constants
    <3>5. \A p \in placed' : p.of \in 0 .. Len(files)
      BY <1>0, <1>p, <1>q, <1>z, <3>1
    <3>6. second' \in Nat
      BY <3>1 DEF Null
    <3>7. QED
      BY <3>1, <3>3, <3>4, <3>5, <3>6 DEF TypeStrong, TypeOK, Order
  <2>3. QED
    BY <2>1, <2>2
<1>15. CASE LayoutData
  <2>1. CASE Fail("no room")
    BY <1>3, <2>1
  <2>2. CASE ~Fail("no room")
    <3> DEFINE f == files[current]
               a == StartOf(f)
    <3>1. /\ pc = "layout" /\ current # Null
          /\ main' = a + f.size1
          /\ placed' = placed \cup
               {p \in {Piece("file", current, 1, a, a + f.size1)} : f.size1 > 0}
          /\ entry' = IF FirstOverflowed(a + f.size1) THEN entry
                      ELSE [entry EXCEPT ![current] = IF f.size1 > 0 THEN a ELSE 0]
          /\ UNCHANGED second
          /\ GoToNext
      BY <1>15, <2>2 DEF LayoutData
    <3>2. f \in Line /\ current \in 1 .. Len(files)
      BY <1>0, <3>1 DEF Null
    <3>3. f.size1 \in Nat /\ a \in Nat /\ main <= a
      BY <1>0, <3>2, StartType DEF Line
    <3> HIDE DEF f, a
    <3>4. main' \in Nat /\ main <= main'
      BY <1>0, <3>1, <3>3
    <3>5. entry' \in [1 .. Len(files) -> Nat]
      BY <1>0, <3>1, <3>3
    <3>6. romaddr <= main' /\ Base <= main'
      BY <1>0, <3>1, <3>4, Constants DEF TypeStrong, Order
    <3>7. \A p \in placed' : p.of \in 0 .. Len(files)
      BY <1>0, <1>p, <1>q, <1>z, <3>1
    <3>8. current' \in 0 .. Len(files) /\ fileCount' \in Nat
      BY <1>0, <3>1, <3>2 DEF GoToNext
    <3>9. QED
      BY <3>1, <3>4, <3>5, <3>6, <3>7, <3>8 DEF TypeStrong, TypeOK, Order, GoToNext
  <2>3. QED
    BY <2>1, <2>2
<1>16. CASE LayoutExecutable
  <2>1. CASE Fail("no room") \/ Fail("crashed")
    BY <1>3, <2>1
  <2>2. CASE ~(Fail("no room") \/ Fail("crashed"))
    <3> DEFINE f == files[current]
               a == StartOf(f)
               b == IF second # Null THEN second ELSE a + f.size1
               fits == ~FirstOverflowed(a + f.size1)
               both == {p \in {Piece("file", current, 1, a, a + f.size1),
                               Piece("file", current, 2, b, b + f.size2)} : p.lo < p.hi}
    <3>1. /\ pc = "layout" /\ current # Null
          /\ main' = IF second # Null THEN a + f.size1 ELSE a + f.size1 + f.size2
          /\ second' = IF second # Null THEN second + f.size2 ELSE Null
          /\ placed' = IF fits THEN placed \cup both ELSE placed
          /\ entry' = IF fits THEN [entry EXCEPT ![current] = a] ELSE entry
          /\ GoToNext
      BY <1>16, <2>2 DEF LayoutExecutable
    <3>2. f \in Line /\ current \in 1 .. Len(files)
      BY <1>0, <3>1 DEF Null
    <3>3. f.size1 \in Nat /\ f.size2 \in Nat /\ a \in Nat /\ main <= a
      BY <1>0, <3>2, StartType DEF Line
    <3>4. \A p \in both : p.of \in 0 .. Len(files)
      BY <1>0 DEF Piece
    <3> HIDE DEF f, a, b, fits, both
    <3>5. main' \in Nat /\ main <= main' /\ second' \in Nat
      <4>1. main' = a + f.size1 \/ main' = a + f.size1 + f.size2
        BY <3>1
      <4>2. second' = second + f.size2 \/ second' = 0
        BY <3>1 DEF Null
      <4>3. a + f.size1 \in Nat /\ main <= a + f.size1
        BY <1>c, <3>3
      <4>4. a + f.size1 + f.size2 \in Nat /\ main <= a + f.size1 + f.size2
        BY <1>c, <3>3, <4>3
      <4>5. second + f.size2 \in Nat
        BY <1>c, <3>3
      <4>6. QED
        BY <4>1, <4>2, <4>3, <4>4, <4>5
    <3>6. entry' \in [1 .. Len(files) -> Nat]
      BY <1>0, <3>1, <3>3
    <3>7. romaddr <= main' /\ Base <= main'
      BY <1>0, <3>1, <3>5, Constants DEF TypeStrong, Order
    <3>8. second' # Null => iSectionStart <= second'
      BY <1>0, <3>1, <3>3 DEF TypeStrong, Order, Null
    <3>9. \A p \in placed' : p.of \in 0 .. Len(files)
      BY <1>p, <3>1, <3>4
    <3>10. current' \in 0 .. Len(files) /\ fileCount' \in Nat
      BY <1>0, <3>1, <3>2 DEF GoToNext
    <3>11. QED
      BY <3>1, <3>5, <3>6, <3>7, <3>8, <3>9, <3>10 DEF TypeStrong, TypeOK, Order, GoToNext
  <2>3. QED
    BY <2>1, <2>2
<1>17. CASE EndLayout
  <2>1. romaddr <= main /\ Base <= main
    BY <1>17 DEF EndLayout, TypeStrong, Order
  <2>2. main - romaddr \in Nat
    BY <1>0, <2>1
  <2>3. main' = romaddr + Aligned(main - romaddr, RomAlign)
    BY <1>17 DEF EndLayout
  <2>4. Aligned(main - romaddr, RomAlign) \in Nat /\ main - romaddr <= Aligned(main - romaddr, RomAlign)
    BY <2>2, AlignedUp, Constants
  <2>5. main' \in Nat /\ main <= main'
    BY <1>0, <2>3, <2>4
  <2>6. Base <= main'
    BY <1>0, <2>1, <2>5, Constants
  <2>7. QED
    BY <1>17, <2>5, <2>6 DEF EndLayout, TypeStrong, TypeOK, Order
<1>18. CASE SizeUsed
  <2>1. iSizeUsed' \in Nat
    BY <1>0, <1>18, Constants DEF SizeUsed, TypeStrong, Order
  <2>2. QED
    BY <1>18, <2>1 DEF SizeUsed, TypeStrong, TypeOK, Order
<1>19. CASE SetupPages
  <2>1. iSizeUsed \in Nat /\ iFirstPagedCode \in 0 .. Len(files) /\ pageable \in [start : Nat, size : Nat]
    BY DEF TypeStrong, TypeOK
  <2>2. pageable' \in [start : Nat, size : Nat]
    <3> DEFINE start == RoundUp(Wrap(entry[iFirstPagedCode] + Limit - Base))
    <3>1. CASE pageable' = [start |-> iSizeUsed, size |-> 0]
      BY <2>1, <3>1
    <3>2. CASE pageable' = pageable
      BY <2>1, <3>2
    <3>3. CASE /\ iFirstPagedCode # Null
               /\ pageable' = [start |-> start, size |-> IF iSizeUsed > start THEN iSizeUsed - start ELSE 0]
      <4>1. entry[iFirstPagedCode] \in Nat
        BY <1>0, <2>1, <3>3 DEF Null
      <4>2. entry[iFirstPagedCode] + Limit - Base \in Nat
        BY <4>1, Constants
      <4>3. Wrap(entry[iFirstPagedCode] + Limit - Base) \in Nat
        BY <4>2, Constants DEF Wrap
      <4>4. start \in Nat
        BY <4>3, AlignedUp, Constants DEF RoundUp
      <4> HIDE DEF start
      <4>5. QED
        BY <2>1, <3>3, <4>4
    <3>4. QED
      BY <1>19, <3>1, <3>2, <3>3 DEF SetupPages
  <2>3. outcome' \in {"built", "crashed"} /\ pc' = "done"
    BY <1>19 DEF SetupPages
  <2>4. QED
    BY <1>19, <2>2, <2>3 DEF SetupPages, TypeStrong, TypeOK, Order
<1>20. CASE UNCHANGED vars
  BY <1>20 DEF vars, TypeStrong, TypeOK, Order
<1>21. QED
  BY <1>4, <1>5, <1>6, <1>7, <1>8, <1>9, <1>10, <1>11, <1>12, <1>13, <1>14, <1>15, <1>16, <1>17,
     <1>18, <1>19, <1>20 DEF Next

\* The types of the walk's state, for every list of images that satisfies the
\* assumptions on the constants; with them, that links stay inside the list of files
\* and that the address of the walk never falls below its start.
THEOREM TypeCorrect == Spec => []TypeOK
<1>1. TypeStrong => TypeOK
  BY DEF TypeStrong
<1>2. QED
  BY TypeInit, TypeStep, <1>1, PTL DEF Spec

-----------------------------------------------------------------------------

(* The pieces ps have places of their own from lo to hi.                   *)
Within(ps, lo, hi) ==
  /\ \A p \in ps : p.lo \in Nat /\ p.hi \in Nat /\ lo <= p.lo /\ p.lo <= p.hi /\ p.hi <= hi
  /\ \A p \in ps : \A q \in ps \ {p} : p.hi <= q.lo \/ q.hi <= p.lo

Tables(ps) == {p \in ps : p.what = "file" /\ p.part = 2}
Directories(ps) == {p \in ps : p.what = "directory"}
Firsts(ps) == {p \in ps : ~(p.what = "file" /\ p.part = 2) /\ p.what # "directory"}

TheDirectory == Piece("directory", 0, 1, directory, directory + DirectorySize)

(* Until the walk comes to the second section, the directory and the       *)
(* tables of the first section's files are beyond it.                      *)
Apart ==
  /\ Within(Firsts(placed), Base, main)
  /\ Within(Tables(placed), iSectionStart + SectionHeader, second)
  /\ Directories(placed) \subseteq {TheDirectory}

(* Where the pieces are at each stage of LoadContents.                     *)
PiecesInv ==
  /\ pc # "done" => outcome = "building"
  /\ (iSectionStart = 0) <=> (iSectionPosition = NotSectioned)
  /\ pc \in {"sort", "exceptions", "directory"} =>
       Within(placed, Base, main) /\ \A p \in placed : p.what \in {"head", "exceptions"}
  /\ pc = "relocations" =>
       IF iSectionPosition = NotSectioned
         THEN Within(placed, Base, main)
         ELSE /\ Within(Firsts(placed), Base, main)
              /\ Tables(placed) = {}
              /\ Directories(placed) \subseteq {TheDirectory}
  /\ pc = "layout" /\ second # Null => Apart /\ iSectionStart + SectionHeader <= second
  /\ pc \in {"layout", "exceptions last", "size", "pages"} /\ second = Null =>
       Within(placed, Base, main)
  /\ pc = "pages" => iSizeUsed = main - Base
  /\ outcome = "built" /\ second = Null =>
       Within(placed, Base, main) /\ iSizeUsed = main - Base

\* No piece is anywhere.
LEMMA WithinNone ==
  ASSUME NEW lo, NEW hi
  PROVE  Within({}, lo, hi)
  BY DEF Within

\* A piece is in its own range.
LEMMA WithinOne ==
  ASSUME NEW q, q.lo \in Nat, q.hi \in Nat, q.lo <= q.hi
  PROVE  Within({q}, q.lo, q.hi)
  BY DEF Within

\* Fewer pieces are in the same range, and in a longer one.
LEMMA WithinLess ==
  ASSUME NEW ps, NEW qs \in SUBSET ps, NEW lo \in Nat, NEW hi \in Nat, NEW top \in Nat,
         Within(ps, lo, hi), hi <= top
  PROVE  Within(qs, lo, top)
  BY DEF Within

\* Pieces of two ranges that follow each other are apart.
LEMMA WithinJoin ==
  ASSUME NEW ps, NEW qs, NEW a \in Nat, NEW b \in Nat, NEW c \in Nat, NEW d \in Nat,
         a <= b, b <= c, c <= d, Within(ps, a, b), Within(qs, c, d)
  PROVE  Within(ps \cup qs, a, d)
<1>1. ASSUME NEW p \in ps \cup qs
      PROVE  p.lo \in Nat /\ p.hi \in Nat /\ a <= p.lo /\ p.lo <= p.hi /\ p.hi <= d
  BY <1>1 DEF Within
<1>2. ASSUME NEW p \in ps \cup qs, NEW q \in (ps \cup qs) \ {p}
      PROVE  p.hi <= q.lo \/ q.hi <= p.lo
  <2>1. CASE p \in ps /\ q \in ps
    BY <2>1 DEF Within
  <2>2. CASE p \in qs /\ q \in qs
    BY <2>2 DEF Within
  <2>3. CASE p \in ps /\ q \in qs
    <3>1. p.hi \in Nat /\ q.lo \in Nat /\ p.hi <= b /\ c <= q.lo
      BY <2>3 DEF Within
    <3>2. QED
      BY <3>1
  <2>4. CASE p \in qs /\ q \in ps
    <3>1. q.hi \in Nat /\ p.lo \in Nat /\ q.hi <= b /\ c <= p.lo
      BY <2>4 DEF Within
    <3>2. QED
      BY <3>1
  <2>5. QED
    BY <1>2, <2>1, <2>2, <2>3, <2>4
<1>3. QED
  BY <1>1, <1>2 DEF Within

(* A piece goes on top of those below it.                                  *)
LEMMA WithinPush ==
  ASSUME NEW ps, NEW lo \in Nat, NEW hi \in Nat, NEW top \in Nat,
         NEW what, NEW of, NEW part, NEW a \in Nat, NEW b \in Nat,
         Within(ps, lo, hi), lo <= hi, hi <= a, a <= b, b <= top
  PROVE  /\ Within(ps \cup {Piece(what, of, part, a, b)}, lo, top)
         /\ Within(ps, lo, top)
<1> DEFINE q == Piece(what, of, part, a, b)
<1>1. q.lo = a /\ q.hi = b
  BY DEF Piece
<1> HIDE DEF q
<1>2. Within({q}, a, b)
  BY <1>1, WithinOne
<1>3. Within(ps \cup {q}, lo, b)
  BY <1>2, WithinJoin
<1>4. Within(ps \cup {q}, lo, top) /\ Within(ps, lo, top)
  BY <1>3, WithinLess
<1>5. QED
  BY <1>4 DEF q

\* The invariant gives the property.
LEMMA PiecesShow == TypeStrong /\ PiecesInv => RangesApart
<1> SUFFICES ASSUME TypeStrong, PiecesInv, outcome = "built", second = Null, NEW p \in placed
             PROVE  /\ Base <= p.lo /\ p.hi <= Base + iSizeUsed
                    /\ \A q \in placed \ {p} : p.hi <= q.lo \/ q.hi <= p.lo
  BY DEF RangesApart
<1>1. Within(placed, Base, main) /\ iSizeUsed = main - Base
  BY DEF PiecesInv
<1>2. main \in Nat
  BY DEF TypeStrong, TypeOK
<1>3. Base + iSizeUsed = main
  BY <1>1, <1>2, Constants
<1>4. QED
  BY <1>1, <1>3 DEF Within

\* Nothing is placed at first.
LEMMA PiecesInit == Init => PiecesInv
  BY DEF Init, PiecesInv

\* Where a table of a file belongs.
LEMMA PartTable ==
  ASSUME NEW ps, NEW q, q.what = "file", q.part = 2
  PROVE  /\ Tables(ps \cup {q}) = Tables(ps) \cup {q}
         /\ Firsts(ps \cup {q}) = Firsts(ps)
         /\ Directories(ps \cup {q}) = Directories(ps)
  BY DEF Tables, Firsts, Directories

\* Where the directory belongs.
LEMMA PartDirectory ==
  ASSUME NEW ps, NEW q, q.what = "directory"
  PROVE  /\ Tables(ps \cup {q}) = Tables(ps)
         /\ Firsts(ps \cup {q}) = Firsts(ps)
         /\ Directories(ps \cup {q}) = Directories(ps) \cup {q}
  BY DEF Tables, Firsts, Directories

\* Where any other piece belongs.
LEMMA PartFirst ==
  ASSUME NEW ps, NEW q, q.what # "directory", q.part = 1
  PROVE  /\ Tables(ps \cup {q}) = Tables(ps)
         /\ Firsts(ps \cup {q}) = Firsts(ps) \cup {q}
         /\ Directories(ps \cup {q}) = Directories(ps)
  BY DEF Tables, Firsts, Directories

\* Sums of naturals.
LEMMA SumUp ==
  ASSUME NEW x \in Nat, NEW y \in Nat
  PROVE  x + y \in Nat /\ x <= x + y /\ x <= x
  OBVIOUS

\* Every piece is of one of the three kinds.
LEMMA Whole ==
  ASSUME NEW ps
  PROVE  ps = Firsts(ps) \cup Tables(ps) \cup Directories(ps)
  BY DEF Firsts, Tables, Directories

\* Every action keeps the pieces apart; NextRom joins the three ranges.
LEMMA PiecesStep == TypeStrong /\ TypeStrong' /\ PiecesInv /\ [Next]_vars => PiecesInv'
<1> SUFFICES ASSUME TypeStrong, TypeStrong', PiecesInv, [Next]_vars PROVE PiecesInv'
  OBVIOUS
<1> USE DEF obeyVars, listVars, layoutVars, endVars
<1>a. /\ main \in Nat /\ main' \in Nat /\ second \in Nat /\ second' \in Nat /\ iSectionStart \in Nat
      /\ files \in Seq(Line)
  BY DEF TypeStrong, TypeOK
<1>b. Base \in Nat /\ 0 < Base /\ SectionHeader \in Nat /\ HeadSize \in Nat
  BY Constants
<1>c. ExceptionTable \in Nat /\ DirectorySize \in Nat
  BY <1>a, Counts
<1>d. /\ pc \in {"sort", "exceptions", "directory", "relocations", "layout", "exceptions last",
                 "size", "pages"} => Base <= main
      /\ pc = "layout" => romaddr <= main
      /\ pc \in {"areas", "obey"} => second = Null
  BY DEF TypeStrong, Order, Resting
<1>e. current \in 0 .. Len(files) /\ Len(files) \in Nat
  <2>1. TypeOK
    BY DEF TypeStrong
  <2>2. current \in 0 .. Len(files)
    BY <2>1 DEF TypeOK
  <2>3. Len(files) \in Nat
    BY <1>a
  <2>4. QED
    BY <2>2, <2>3
<1>1. ASSUME NEW how \in {"refused", "no room", "crashed",
                          "first section overflowed", "directory overwritten"},
             Fail(how)
      PROVE  PiecesInv'
  BY <1>1 DEF Fail, PiecesInv
<1>2. ASSUME pc \in {"areas", "obey"}, pc' \in {"areas", "obey"}, outcome' = "building",
             (iSectionStart' = 0) <=> (iSectionPosition' = NotSectioned)
      PROVE  PiecesInv'
  BY <1>2 DEF PiecesInv
<1>3. CASE ParseAreaKeyword
  BY <1>1, <1>2, <1>3 DEF ParseAreaKeyword, AddArea, PiecesInv
<1>4. CASE CreateDefaultArea
  BY <1>1, <1>2, <1>4 DEF CreateDefaultArea, AddArea, PiecesInv
<1>5. CASE SkipLine
  BY <1>2, <1>5 DEF SkipLine, ReadLine, PiecesInv
<1>6. CASE ParseSection
  <2>1. CASE Fail("refused")
    BY <1>1, <2>1
  <2>2. CASE ~Fail("refused")
    <3>1. /\ iSectionStart' = Base + rom.lines[line].offset
          /\ iSectionPosition' = NumberOfFiles
          /\ UNCHANGED <<pc, outcome>> /\ pc = "obey"
      BY <1>6, <2>2 DEF ParseSection, ReadLine
    <3>2. rom.lines[line].offset \in Nat
      <4>1. rom.lines \in Seq(Line) /\ line \in Nat \ {0}
        BY RomType DEF TypeStrong, TypeOK
      <4>2. rom.lines[line] \in Line
        BY <1>6, <4>1 DEF ParseSection, ReadLine
      <4>3. QED
        BY <4>2 DEF Line
    <3>3. iSectionStart' # 0
      BY <1>b, <3>1, <3>2
    <3>4. iSectionPosition' # NotSectioned
      BY <1>a, <3>1, Counts DEF NotSectioned
    <3>5. outcome' = "building"
      BY <3>1 DEF PiecesInv
    <3>6. QED
      BY <1>2, <3>1, <3>3, <3>4, <3>5
  <2>3. QED
    BY <2>1, <2>2
<1>7. CASE ProcessFile
  <2>1. CASE Fail("refused")
    BY <1>1, <2>1
  <2>2. CASE ~Fail("refused")
    <3>1. UNCHANGED <<pc, outcome, iSectionStart, iSectionPosition>> /\ pc = "obey"
      BY <1>7, <2>2 DEF ProcessFile, ReadLine
    <3>2. QED
      BY <1>2, <3>1 DEF PiecesInv
  <2>3. QED
    BY <2>1, <2>2
<1>8. CASE EndObey
  <2>1. CASE Fail("refused")
    BY <1>1, <2>1
  <2>2. CASE ~Fail("refused")
    <3>1. /\ pc' \in {"sort", "directory"} /\ pc = "obey"
          /\ main' = Base + HeadSize
          /\ placed' = {Piece("head", 0, 1, Base, Base + HeadSize)}
          /\ UNCHANGED <<outcome, iSectionStart, iSectionPosition>>
      BY <1>8, <2>2 DEF EndObey
    <3>2. Within(placed', Base, main')
      <4> DEFINE q == Piece("head", 0, 1, Base, Base + HeadSize)
      <4>1. q.lo = Base /\ q.hi = Base + HeadSize
        BY DEF Piece
      <4> HIDE DEF q
      <4>2. Base + HeadSize \in Nat /\ Base <= Base + HeadSize
        BY <1>b
      <4>3. Within({q}, Base, Base + HeadSize)
        BY <1>b, <4>1, <4>2, WithinOne
      <4>4. QED
        BY <3>1, <4>3 DEF q
    <3>3. \A p \in placed' : p.what \in {"head", "exceptions"}
      BY <3>1 DEF Piece
    <3>4. QED
      BY <3>1, <3>2, <3>3 DEF PiecesInv
  <2>3. QED
    BY <2>1, <2>2
<1>9. CASE SortFilesForPagedRom
  <2>1. /\ pc = "sort" /\ pc' = "exceptions"
        /\ UNCHANGED <<outcome, iSectionStart, iSectionPosition, placed, main>>
    BY <1>9 DEF SortFilesForPagedRom
  <2>2. QED
    BY <2>1 DEF PiecesInv
<1>10. CASE ReserveRomExceptionSearchTable
  <2>1. CASE Fail("no room")
    BY <1>1, <2>1
  <2>2. CASE ~Fail("no room")
    <3>1. /\ placed' = placed \cup {Piece("exceptions", 0, 1, main, main + ExceptionTable)}
          /\ main' = main + ExceptionTable
          /\ pc' = IF pc = "exceptions" THEN "directory" ELSE "size"
          /\ pc \in {"exceptions", "exceptions last"}
          /\ UNCHANGED <<outcome, iSectionStart, iSectionPosition, second>>
      BY <1>10, <2>2 DEF ReserveRomExceptionSearchTable
    <3>2. main' \in Nat /\ main <= main' /\ Base <= main /\ main <= main /\ main' <= main'
      <4>1. main + ExceptionTable \in Nat /\ main <= main + ExceptionTable
        BY <1>a, <1>c, SumUp
      <4>2. pc = "exceptions" \/ pc = "exceptions last"
        BY <3>1
      <4>3. Base <= main
        BY <1>d, <4>2
      <4>4. main' = main + ExceptionTable
        BY <3>1
      <4>5. main <= main /\ main' <= main'
        BY <1>a
      <4>6. QED
        BY <1>a, <4>1, <4>3, <4>4, <4>5
    <3>3. Within(placed, Base, main) => Within(placed', Base, main')
      <4>1. placed' = placed \cup {Piece("exceptions", 0, 1, main, main')}
        BY <3>1
      <4>2. QED
        BY <1>a, <1>b, <3>2, <4>1, WithinPush
    <3>4. CASE pc = "exceptions"
      <4>1. Within(placed, Base, main) /\ \A p \in placed : p.what \in {"head", "exceptions"}
        BY <3>4 DEF PiecesInv
      <4>2. \A p \in placed' : p.what \in {"head", "exceptions"}
        <5>1. Piece("exceptions", 0, 1, main, main + ExceptionTable).what = "exceptions"
          BY DEF Piece
        <5>2. QED
          BY <3>1, <4>1, <5>1
      <4>3. QED
        BY <3>1, <3>3, <3>4, <4>1, <4>2 DEF PiecesInv
    <3>5. CASE pc = "exceptions last"
      <4>1. second = Null => Within(placed, Base, main)
        BY <3>5 DEF PiecesInv
      <4>2. pc' = "size" /\ outcome' = "building"
        BY <3>1, <3>5 DEF PiecesInv
      <4>3. QED
        BY <3>1, <3>3, <4>1, <4>2 DEF PiecesInv
    <3>6. QED
      BY <3>1, <3>4, <3>5
  <2>3. QED
    BY <2>1, <2>2
<1>11. CASE WriteDirectory
  <2>1. CASE Fail("crashed")
    BY <1>1, <2>1
  <2>2. CASE ~Fail("crashed")
    <3>1. /\ pc = "directory" /\ pc' = "relocations"
          /\ directory' = DirectoryAddr
          /\ placed' = placed \cup
               {Piece("directory", 0, 1, DirectoryAddr, DirectoryAddr + DirectorySize)}
          /\ main' = IF iSectionPosition = NotSectioned
                       THEN main + Aligned(DirectorySize, RomAlign) ELSE main
          /\ UNCHANGED <<outcome, files, iSectionStart, iSectionPosition>>
      BY <1>11, <2>2 DEF WriteDirectory
    <3>2. Within(placed, Base, main) /\ (\A p \in placed : p.what \in {"head", "exceptions"})
          /\ Base <= main /\ outcome' = "building"
      BY <1>d, <3>1 DEF PiecesInv
    <3>3. CASE iSectionPosition = NotSectioned
      <4>1. Aligned(DirectorySize, RomAlign) \in Nat /\ DirectorySize <= Aligned(DirectorySize, RomAlign)
        BY <1>c, AlignedUp, Constants
      <4>2. DirectoryAddr = main /\ main' = main + Aligned(DirectorySize, RomAlign)
        BY <3>1, <3>3 DEF DirectoryAddr
      <4>3. main + DirectorySize \in Nat /\ main <= main + DirectorySize
            /\ main + DirectorySize <= main'
        BY <1>a, <1>c, <4>1, <4>2
      <4>4. Within(placed', Base, main')
        BY <1>a, <1>b, <3>1, <3>2, <4>2, <4>3, WithinPush
      <4>5. QED
        BY <3>1, <3>2, <3>3, <4>4 DEF PiecesInv
    <3>4. CASE iSectionPosition # NotSectioned
      <4> DEFINE q == Piece("directory", 0, 1, DirectoryAddr, DirectoryAddr + DirectorySize)
      <4>1. q.what = "directory" /\ q = TheDirectory' /\ placed' = placed \cup {q}
        BY <3>1 DEF Piece, TheDirectory, DirectorySize
      <4> HIDE DEF q
      <4>2. Tables(placed) = {} /\ Firsts(placed) = placed /\ Directories(placed) = {}
        BY <3>2 DEF Tables, Firsts, Directories
      <4>3. Tables(placed') = {} /\ Firsts(placed') = placed /\ Directories(placed') = {q}
        BY <4>1, <4>2, PartDirectory
      <4>4. Within(Firsts(placed'), Base, main')
        BY <3>1, <3>2, <3>4, <4>3
      <4>5. QED
        BY <3>1, <3>2, <3>4, <4>1, <4>3, <4>4 DEF PiecesInv
    <3>5. QED
      BY <3>3, <3>4
  <2>3. QED
    BY <2>1, <2>2
<1>12. CASE AllocateRelocationTable
  <2> DEFINE size == IF iAreaSet.iAreaCount > 1 THEN iAreaSet.iAreaCount * Reloc ELSE 0
             q == Piece("relocations", 0, 1, main, main + size)
             new == {p \in {q} : size > 0}
  <2>1. size \in Nat
    <3>1. iAreaSet \in AreaSet
      BY DEF TypeStrong, TypeOK
    <3>2. iAreaSet.iAreaCount \in Nat
      BY <3>1 DEF AreaSet
    <3>3. QED
      BY <3>2, Constants
  <2>2. size <= Aligned(size, RomAlign) /\ Aligned(size, RomAlign) \in Nat
    BY <2>1, AlignedUp, Constants
  <2>3. /\ placed' = placed \cup new
        /\ main' = main + Aligned(size, RomAlign)
        /\ second' = IF iSectionStart # 0 THEN iSectionStart + SectionHeader ELSE Null
        /\ pc = "relocations" /\ pc' = "layout"
        /\ UNCHANGED <<outcome, files, directory, iSectionStart, iSectionPosition>>
    BY <1>12 DEF AllocateRelocationTable
  <2>4. q.what = "relocations" /\ q.part = 1
    BY DEF Piece
  <2>5. new = IF size > 0 THEN {q} ELSE {}
    OBVIOUS
  <2>6. main + size \in Nat /\ main <= main + size /\ main + size <= main' /\ main <= main' /\ Base <= main
    <3> HIDE DEF size, q, new
    <3>1. QED
      BY <1>a, <1>d, <2>1, <2>2, <2>3
  <2>7. ASSUME NEW ps, Within(ps, Base, main)
        PROVE  Within(ps \cup {q}, Base, main') /\ Within(ps, Base, main')
    <3> HIDE DEF size
    <3>1. main <= main
      BY <1>a
    <3>2. QED
      BY <1>a, <1>b, <2>6, <2>7, <3>1, WithinPush
  <2> HIDE DEF size, q, new
  <2>8. CASE iSectionStart = 0
    <3>1. iSectionPosition = NotSectioned /\ outcome = "building"
      BY <2>3, <2>8 DEF PiecesInv
    <3>2. Within(placed, Base, main)
      BY <2>3, <3>1 DEF PiecesInv
    <3>3. Within(placed', Base, main')
      BY <2>3, <2>5, <2>7, <3>2
    <3>4. second' = Null
      BY <2>3, <2>8
    <3>5. QED
      BY <2>3, <2>8, <3>1, <3>3, <3>4 DEF PiecesInv
  <2>9. CASE iSectionStart # 0
    <3>1. iSectionPosition # NotSectioned /\ outcome = "building"
      BY <2>3, <2>9 DEF PiecesInv
    <3>2. /\ Within(Firsts(placed), Base, main)
          /\ Tables(placed) = {}
          /\ Directories(placed) \subseteq {TheDirectory}
      BY <2>3, <3>1 DEF PiecesInv
    <3>3. /\ Firsts(placed') = Firsts(placed) \/ Firsts(placed') = Firsts(placed) \cup {q}
          /\ Tables(placed') = {}
          /\ Directories(placed') = Directories(placed)
      <4>1. Firsts(placed \cup {q}) = Firsts(placed) \cup {q}
            /\ Tables(placed \cup {q}) = Tables(placed)
            /\ Directories(placed \cup {q}) = Directories(placed)
        <5>1. q.what # "directory"
          BY <2>4
        <5>2. QED
          BY <2>4, <5>1, PartFirst
      <4>2. placed' = placed \/ placed' = placed \cup {q}
        BY <2>3, <2>5
      <4>3. QED
        BY <3>2, <4>1, <4>2
    <3>4. Within(Firsts(placed'), Base, main')
      BY <2>7, <3>2, <3>3
    <3>5. second' = iSectionStart + SectionHeader /\ second' # Null
      BY <1>a, <1>b, <2>3, <2>9 DEF Null
    <3>6. TheDirectory' = TheDirectory
      BY <2>3 DEF TheDirectory, DirectorySize
    <3>7. Apart'
      BY <2>3, <3>2, <3>3, <3>4, <3>6, WithinNone DEF Apart
    <3>8. (iSectionStart + SectionHeader <= second)'
      <4>1. iSectionStart' = iSectionStart
        BY <2>3
      <4>2. iSectionStart + SectionHeader <= iSectionStart + SectionHeader
        BY <1>a, <1>b
      <4>3. QED
        BY <3>5, <4>1, <4>2
    <3>9. QED
      BY <2>3, <2>9, <3>1, <3>5, <3>7, <3>8 DEF PiecesInv
  <2>10. QED
    BY <2>8, <2>9
<1>13. CASE NextRom
  <2>1. CASE Fail("first section overflowed") \/ Fail("directory overwritten")
    BY <1>1, <2>1
  <2>2. CASE ~(Fail("first section overflowed") \/ Fail("directory overwritten"))
    <3> DEFINE q == Piece("section", 0, 1, iSectionStart, iSectionStart + SectionHeader)
               new == {p \in {q} : SectionHeader > 0}
               S == iSectionStart + SectionHeader
    <3>1. /\ pc = "layout" /\ ~(main > iSectionStart) /\ second # Null /\ second = directory
          /\ main' = second + DirectorySize
          /\ second' = Null
          /\ placed' = placed \cup new
          /\ UNCHANGED <<pc, outcome, files, iSectionStart, iSectionPosition, directory>>
      BY <1>13, <2>2 DEF NextRom, AfterDirectory, AtSection
    <3>2. Apart /\ S <= second /\ outcome = "building"
      BY <3>1 DEF PiecesInv
    <3>3. new = {} \/ new = {q}
      OBVIOUS
    <3>4. S \in Nat /\ main <= iSectionStart /\ iSectionStart <= S /\ Base <= main
          /\ second <= main'
      BY <1>a, <1>b, <1>c, <1>d, <3>1
    <3> HIDE DEF S
    <3>5. Within(Firsts(placed), Base, main) /\ Within(Tables(placed), S, second)
      BY <3>2 DEF Apart, S
    <3>6. Within(Firsts(placed) \cup new, Base, S)
      <4>1. q.lo = iSectionStart /\ q.hi = S
        BY DEF Piece, S
      <4> HIDE DEF q, new
      <4>2. Within({q}, iSectionStart, S)
        BY <1>a, <3>4, <4>1, WithinOne
      <4>3. Within(new, iSectionStart, S)
        BY <3>3, <4>2, WithinNone
      <4>4. QED
        BY <1>a, <1>b, <3>4, <3>5, <4>3, WithinJoin
    <3> HIDE DEF q, new
    <3>7. Within((Firsts(placed) \cup new) \cup Tables(placed), Base, second)
      <4>1. S <= S /\ Base <= S
        BY <1>a, <1>b, <3>4
      <4>2. QED
        BY <1>a, <1>b, <3>2, <3>4, <3>5, <3>6, <4>1, WithinJoin
    <3>8. Within(Directories(placed), second, main')
      <4>1. TheDirectory.lo = second /\ TheDirectory.hi = main'
        BY <3>1 DEF TheDirectory, Piece
      <4>2. Within({TheDirectory}, second, main')
        BY <1>a, <3>4, <4>1, WithinOne
      <4>3. Directories(placed) \subseteq {TheDirectory}
        BY <3>2 DEF Apart
      <4>4. main' <= main'
        BY <1>a
      <4>5. QED
        BY <1>a, <4>2, <4>3, <4>4, WithinLess
    <3>9. Base <= second
      BY <1>a, <1>b, <3>2, <3>4
    <3>10. Within((Firsts(placed) \cup new \cup Tables(placed)) \cup Directories(placed), Base, main')
      <4>1. second <= second
        BY <1>a
      <4>2. QED
        BY <1>a, <1>b, <3>4, <3>7, <3>8, <3>9, <4>1, WithinJoin
    <3>11. placed' = (Firsts(placed) \cup new \cup Tables(placed)) \cup Directories(placed)
      <4>1. placed = Firsts(placed) \cup Tables(placed) \cup Directories(placed)
        BY Whole
      <4>2. QED
        BY <3>1, <4>1
    <3>12. Within(placed', Base, main')
      BY <3>10, <3>11
    <3>13. QED
      BY <3>1, <3>2, <3>12 DEF PiecesInv
  <2>3. QED
    BY <2>1, <2>2
<1>14. CASE LayoutData
  <2>1. CASE Fail("no room")
    BY <1>1, <2>1
  <2>2. CASE ~Fail("no room")
    <3> DEFINE f == files[current]
               a == StartOf(f)
               q == Piece("file", current, 1, a, a + f.size1)
               new == {p \in {q} : f.size1 > 0}
    <3>1. /\ pc = "layout" /\ current # Null
          /\ main' = a + f.size1
          /\ placed' = placed \cup new
          /\ UNCHANGED second
          /\ GoToNext
      BY <1>14, <2>2 DEF LayoutData
    <3>2. /\ pc' = "layout"
          /\ UNCHANGED <<outcome, files, directory, iSectionStart, iSectionPosition>>
      BY <3>1 DEF GoToNext
    <3>3. f \in Line
      <4>1. current \in 1 .. Len(files)
        BY <1>e, <3>1 DEF Null
      <4>2. QED
        BY <1>a, <4>1
    <3>4. f.size1 \in Nat /\ a \in Nat /\ main <= a
      BY <1>a, <3>3, StartType DEF Line
    <3>5. q.what = "file" /\ q.part = 1
      BY DEF Piece
    <3>6. q = Piece("file", current, 1, a, main')
      BY <3>1
    <3>7. new = {} \/ new = {q}
      OBVIOUS
    <3> HIDE DEF f, a, new
    <3>8. a <= main' /\ main' <= main' /\ Base <= main /\ main <= main'
      BY <1>a, <1>d, <3>1, <3>4
    <3>9. ASSUME NEW ps, Within(ps, Base, main)
          PROVE  Within(ps \cup {q}, Base, main') /\ Within(ps, Base, main')
      <4> HIDE DEF q
      <4>1. QED
        BY <1>a, <1>b, <3>4, <3>6, <3>8, <3>9, WithinPush
    <3> HIDE DEF q
    <3>10. placed' = placed \/ placed' = placed \cup {q}
      BY <3>1, <3>7
    <3>11. outcome = "building"
      BY <3>1 DEF PiecesInv
    <3>12. CASE second = Null
      <4>1. Within(placed, Base, main)
        BY <3>1, <3>12 DEF PiecesInv
      <4>2. Within(placed', Base, main')
        BY <3>9, <3>10, <4>1
      <4>3. QED
        BY <3>1, <3>2, <3>11, <3>12, <4>2 DEF PiecesInv
    <3>13. CASE second # Null
      <4>1. Apart /\ iSectionStart + SectionHeader <= second
        BY <3>1, <3>13 DEF PiecesInv
      <4>2. /\ Firsts(placed \cup {q}) = Firsts(placed) \cup {q}
            /\ Tables(placed \cup {q}) = Tables(placed)
            /\ Directories(placed \cup {q}) = Directories(placed)
        <5>1. q.what # "directory"
          BY <3>5
        <5>2. QED
          BY <3>5, <5>1, PartFirst
      <4>3. Within(Firsts(placed'), Base, main')
        BY <3>9, <3>10, <4>1, <4>2 DEF Apart
      <4>4. Tables(placed') = Tables(placed) /\ Directories(placed') = Directories(placed)
        BY <3>10, <4>2
      <4>5. TheDirectory' = TheDirectory
        BY <3>2 DEF TheDirectory, DirectorySize
      <4>6. Apart'
        BY <3>1, <3>2, <4>1, <4>3, <4>4, <4>5 DEF Apart
      <4>7. iSectionStart' + SectionHeader <= second'
        BY <3>1, <3>2, <4>1
      <4>8. QED
        BY <3>1, <3>2, <3>11, <3>13, <4>6, <4>7 DEF PiecesInv
    <3>14. QED
      BY <3>12, <3>13
  <2>3. QED
    BY <2>1, <2>2
<1>15. CASE LayoutExecutable
  <2>1. CASE Fail("no room") \/ Fail("crashed")
    BY <1>1, <2>1
  <2>2. CASE ~(Fail("no room") \/ Fail("crashed"))
    <3> DEFINE f == files[current]
               a == StartOf(f)
               c == a + f.size1
               b == IF second # Null THEN second ELSE c
               q == Piece("file", current, 1, a, c)
               t == Piece("file", current, 2, b, b + f.size2)
               new == {p \in {q, t} : p.lo < p.hi}
    <3>1. /\ pc = "layout" /\ current # Null
          /\ main' = IF second # Null THEN c ELSE c + f.size2
          /\ second' = IF second # Null THEN second + f.size2 ELSE Null
          /\ placed' = placed \cup new \/ placed' = placed
          /\ GoToNext
      BY <1>15, <2>2 DEF LayoutExecutable
    <3>2. /\ pc' = "layout"
          /\ UNCHANGED <<outcome, files, directory, iSectionStart, iSectionPosition>>
      BY <3>1 DEF GoToNext
    <3>3. f \in Line
      <4>1. current \in 1 .. Len(files)
        BY <1>e, <3>1 DEF Null
      <4>2. QED
        BY <1>a, <4>1
    <3>4. f.size1 \in Nat /\ f.size2 \in Nat /\ a \in Nat /\ main <= a
      BY <1>a, <3>3, StartType DEF Line
    <3>5. q.what = "file" /\ q.part = 1 /\ t.what = "file" /\ t.part = 2
      BY DEF Piece
    <3>6. new \subseteq {q, t}
      OBVIOUS
    <3> HIDE DEF f, a, new
    <3>7. c \in Nat /\ a <= c /\ c <= c
      BY <3>4
    <3>8. outcome = "building" /\ Base <= main
      BY <1>d, <3>1 DEF PiecesInv
    <3>9. CASE second = Null
      <4>1. Within(placed, Base, main)
        BY <3>1, <3>9 DEF PiecesInv
      <4>2. Within(placed \cup {q}, Base, c)
        <5> HIDE DEF c
        <5>1. QED
          BY <1>a, <1>b, <3>4, <3>7, <3>8, <4>1, WithinPush
      <4>3. t = Piece("file", current, 2, c, main') /\ main' = c + f.size2
        BY <3>1, <3>9
      <4>4. c <= main' /\ main' <= main' /\ Base <= c
        <5> HIDE DEF c, q, t
        <5>1. c <= main' /\ main' <= main'
          BY <1>a, <3>4, <3>7, <4>3, SumUp
        <5>2. Base <= c
          BY <1>a, <1>b, <3>4, <3>7, <3>8
        <5>3. QED
          BY <5>1, <5>2
      <4> HIDE DEF c, q, t
      <4>5. Within((placed \cup {q}) \cup {t}, Base, main')
        BY <1>a, <1>b, <3>7, <4>2, <4>3, <4>4, WithinPush
      <4>6. placed' \subseteq (placed \cup {q}) \cup {t}
        BY <3>1, <3>6
      <4>7. Within(placed', Base, main')
        BY <1>a, <1>b, <4>4, <4>5, <4>6, WithinLess
      <4>8. second' = Null
        BY <3>1, <3>9
      <4>9. QED
        BY <3>2, <3>8, <4>7, <4>8 DEF PiecesInv
    <3>10. CASE second # Null
      <4> DEFINE S == iSectionStart + SectionHeader
      <4>1. Apart /\ S <= second
        BY <3>1, <3>10 DEF PiecesInv
      <4>2. main' = c /\ second' = second + f.size2 /\ t = Piece("file", current, 2, second, second')
        BY <3>1, <3>10
      <4> HIDE DEF c
      <4>3. S \in Nat /\ second <= second'
        <5>1. S \in Nat
          BY <1>a, <1>b
        <5>2. second <= second'
          BY <1>a, <3>4, <4>2, SumUp
        <5>3. QED
          BY <5>1, <5>2
      <4> HIDE DEF S
      <4>4. Within(Firsts(placed) \cup {q}, Base, main')
        <5>1. Within(Firsts(placed), Base, main)
          BY <4>1 DEF Apart
        <5>2. QED
          BY <1>a, <1>b, <3>4, <3>7, <3>8, <4>2, <5>1, WithinPush
      <4>5. Within(Tables(placed) \cup {t}, S, second')
        <5>1. Within(Tables(placed), S, second)
          BY <4>1 DEF Apart, S
        <5>2. second <= second /\ second' <= second'
          BY <1>a
        <5>3. QED
          BY <1>a, <4>1, <4>2, <4>3, <5>1, <5>2, WithinPush
      <4> HIDE DEF q, t
      <4>6. /\ Firsts((placed \cup {q}) \cup {t}) = Firsts(placed) \cup {q}
            /\ Tables((placed \cup {q}) \cup {t}) = Tables(placed) \cup {t}
            /\ Directories((placed \cup {q}) \cup {t}) = Directories(placed)
        <5>1. q.what # "directory"
          BY <3>5
        <5>2. /\ Firsts(placed \cup {q}) = Firsts(placed) \cup {q}
              /\ Tables(placed \cup {q}) = Tables(placed)
              /\ Directories(placed \cup {q}) = Directories(placed)
          BY <3>5, <5>1, PartFirst
        <5>3. /\ Firsts((placed \cup {q}) \cup {t}) = Firsts(placed \cup {q})
              /\ Tables((placed \cup {q}) \cup {t}) = Tables(placed \cup {q}) \cup {t}
              /\ Directories((placed \cup {q}) \cup {t}) = Directories(placed \cup {q})
          BY <3>5, PartTable
        <5>4. QED
          BY <5>2, <5>3
      <4>7. placed' \subseteq (placed \cup {q}) \cup {t}
        BY <3>1, <3>6
      <4>8. /\ Firsts(placed') \subseteq Firsts(placed) \cup {q}
            /\ Tables(placed') \subseteq Tables(placed) \cup {t}
            /\ Directories(placed') \subseteq Directories(placed)
        <5>1. /\ Firsts(placed') \subseteq Firsts((placed \cup {q}) \cup {t})
              /\ Tables(placed') \subseteq Tables((placed \cup {q}) \cup {t})
              /\ Directories(placed') \subseteq Directories((placed \cup {q}) \cup {t})
          BY <4>7 DEF Firsts, Tables, Directories
        <5>2. QED
          BY <4>6, <5>1
      <4>9. main' <= main' /\ second' <= second'
        BY <1>a
      <4>10. Within(Firsts(placed'), Base, main')
        BY <1>a, <1>b, <4>4, <4>8, <4>9, WithinLess
      <4>11. Within(Tables(placed'), S, second')
        BY <1>a, <4>3, <4>5, <4>8, <4>9, WithinLess
      <4>12. TheDirectory' = TheDirectory
        BY <3>2 DEF TheDirectory, DirectorySize
      <4>13. Directories(placed') \subseteq {TheDirectory'}
        BY <4>1, <4>8, <4>12 DEF Apart
      <4>14. S = iSectionStart' + SectionHeader
        BY <3>2 DEF S
      <4>15. Apart'
        BY <4>10, <4>11, <4>13, <4>14 DEF Apart
      <4>16. iSectionStart' + SectionHeader <= second'
        <5>1. S <= second'
          BY <1>a, <4>1, <4>3
        <5>2. QED
          BY <4>14, <5>1
      <4>17. second' # Null
        BY <1>a, <3>10, <4>3 DEF Null
      <4>18. QED
        BY <3>2, <3>8, <4>15, <4>16, <4>17 DEF PiecesInv
    <3>11. QED
      BY <3>9, <3>10
  <2>3. QED
    BY <2>1, <2>2
<1>16. CASE EndLayout
  <2>1. /\ pc = "layout" /\ pc' \in {"size", "exceptions last"}
        /\ main' = romaddr + Aligned(main - romaddr, RomAlign)
        /\ UNCHANGED <<outcome, iSectionStart, iSectionPosition, second, placed>>
    BY <1>16 DEF EndLayout
  <2>2. romaddr \in Nat /\ romaddr <= main
    BY <1>d, <2>1 DEF TypeStrong, TypeOK
  <2>3. main - romaddr \in Nat
    BY <1>a, <2>2
  <2>4. main - romaddr <= Aligned(main - romaddr, RomAlign) /\ Aligned(main - romaddr, RomAlign) \in Nat
    BY <2>3, AlignedUp, Constants
  <2>5. main <= main'
    <3>1. ASSUME NEW x \in Nat, NEW y \in Nat, NEW z \in Nat, y - x <= z
          PROVE  y <= x + z
      BY <3>1
    <3>2. QED
      BY <1>a, <2>1, <2>2, <2>4, <3>1
  <2>6. ASSUME Within(placed, Base, main)
        PROVE  Within(placed', Base, main')
    <3>1. placed' \in SUBSET placed
      BY <2>1
    <3>2. QED
      BY <1>a, <1>b, <2>5, <2>6, <3>1, WithinLess
  <2>7. outcome = "building" /\ (second = Null => Within(placed, Base, main))
    BY <2>1 DEF PiecesInv
  <2>8. QED
    BY <2>1, <2>6, <2>7 DEF PiecesInv
<1>17. CASE SizeUsed
  <2>1. /\ pc = "size" /\ iSizeUsed' = main - Base
        /\ pc' \in {"done", "pages"} /\ outcome' \in {outcome, "built"}
        /\ pc' = "pages" => outcome' = outcome
        /\ UNCHANGED <<iSectionStart, iSectionPosition, second, placed, main>>
    BY <1>17 DEF SizeUsed
  <2>2. outcome = "building" /\ (second = Null => Within(placed, Base, main))
    BY <2>1 DEF PiecesInv
  <2>3. QED
    BY <2>1, <2>2 DEF PiecesInv
<1>18. CASE SetupPages
  <2>1. /\ pc = "pages" /\ pc' = "done" /\ outcome' \in {"built", "crashed"}
        /\ UNCHANGED <<iSectionStart, iSectionPosition, second, placed, main, iSizeUsed>>
    BY <1>18 DEF SetupPages
  <2>2. iSizeUsed = main - Base /\ (second = Null => Within(placed, Base, main))
    BY <2>1 DEF PiecesInv
  <2>3. QED
    BY <2>1, <2>2 DEF PiecesInv
<1>19. CASE UNCHANGED vars
  <2>1. /\ UNCHANGED <<pc, outcome, iSectionStart, iSectionPosition, placed, main, second>>
        /\ UNCHANGED <<iSizeUsed, files, directory>>
    BY <1>19 DEF vars
  <2>2. TheDirectory' = TheDirectory
    BY <2>1 DEF TheDirectory, DirectorySize
  <2>3. Apart' = Apart
    BY <2>1, <2>2 DEF Apart
  <2>4. QED
    BY <2>1, <2>2, <2>3 DEF PiecesInv
<1>20. QED
  BY <1>3, <1>4, <1>5, <1>6, <1>7, <1>8, <1>9, <1>10, <1>11, <1>12, <1>13, <1>14, <1>15, <1>16,
     <1>17, <1>18, <1>19 DEF Next

\* Nothing in a built image is written over, and all of it is inside the bytes the
\* image reports as used, whatever files, sizes, alignments and section are asked for:
\* the stack of LayoutRom, and the test in NextRom that the tables of the first
\* section end where the directory was forecast to be.
THEOREM NothingOverwritten == Spec => []RangesApart
<1>1. Init => TypeStrong /\ PiecesInv
  BY TypeInit, PiecesInit
<1>2. (TypeStrong /\ PiecesInv) /\ [Next]_vars => (TypeStrong /\ PiecesInv)'
  BY TypeStep, PiecesStep
<1>3. TypeStrong /\ PiecesInv => RangesApart
  BY PiecesShow
<1>4. QED
  BY <1>1, <1>2, <1>3, PTL DEF Spec

-----------------------------------------------------------------------------
(* The walk over the files.                                              *)

(* The place of a file among the lists that are joined.                    *)
Rank(f) ==
  IF ~rom.paged THEN 0
  ELSE IF ListOf(f) = "extention" THEN 0 ELSE IF ListOf(f) = "unpaged" THEN 1 ELSE 2

(* The walk comes to file i before it comes to file j.                     *)
Before(i, j) ==
  \/ Rank(files[i]) < Rank(files[j])
  \/ (Rank(files[i]) = Rank(files[j]) /\ i < j)

Walked(c) ==
  IF c = Null THEN 1 .. Len(files) ELSE {i \in 1 .. Len(files) : Before(i, c)}

(* The links lead through all files.                                       *)
Joined ==
  /\ Walked(iFiles) = {}
  /\ \A c \in 1 .. Len(files) : Walked(iNextInArea[c]) = Walked(c) \cup {c}

(* The bytes of file i are where its directory entries say.                *)
Done(i) ==
  files[i].size1 > 0 =>
    \E p \in placed :
      /\ p.what = "file" /\ p.of = i /\ p.part = 1
      /\ p.hi = p.lo + files[i].size1
      /\ p.hi <= RomEnd
      /\ files[i].listed => entry[i] = p.lo

HasCore == \E i \in 1 .. Len(files) : files[i].keyword = "core"

InOrder ==
  /\ iFiles = IF Len(files) = 0 THEN Null ELSE 1
  /\ \A i \in 1 .. Len(files) : iNextInArea[i] = IF i = Len(files) THEN Null ELSE i + 1

(* While the obey file is read.                                            *)
Reading ==
  /\ line <= Len(rom.lines) + 1
  /\ InOrder
  /\ rom.extension \/ HasPrimary
  /\ \A j \in 1 .. Len(rom.lines) :
       (j < line /\ rom.lines[j].keyword = "core" /\ ~rom.extension) => HasCore
  /\ \/ iSectionPosition < Len(files)
     \/ /\ iSectionPosition <= Len(files)
        /\ ~rom.extension
        /\ line > 1
        /\ rom.lines[line - 1].keyword = "section"

FilesInv ==
  /\ pc = "areas" => Len(files) = 0 /\ iFiles = Null /\ iSectionPosition = NotSectioned
  /\ pc = "obey" => Reading
  /\ pc = "sort" => InOrder /\ HasCore /\ rom.paged
  /\ pc \in {"sort", "exceptions", "directory", "relocations", "layout"} =>
       Len(files) > 0 /\ iSectionPosition < Len(files)
  /\ pc \in {"exceptions", "directory", "relocations", "layout"} => Joined
  /\ pc = "layout" =>
       /\ fileCount = Cardinality(Walked(current))
       /\ second # Null => iSectionPosition # NotSectioned /\ fileCount <= iSectionPosition
       /\ second = Null \/ main <= iSectionStart => \A i \in Walked(current) : Done(i)
  /\ pc \in {"exceptions last", "size", "pages"} \/ outcome = "built" =>
       second = Null /\ \A i \in 1 .. Len(files) : Done(i)

-----------------------------------------------------------------------------
(* The links of the files.                                                 *)

\* A file has one rank of three.
LEMMA RankType ==
  ASSUME NEW f
  PROVE  /\ Rank(f) \in {0, 1, 2}
         /\ ~rom.paged => Rank(f) = 0
         /\ rom.paged => /\ Rank(f) = 0 <=> ListOf(f) = "extention"
                         /\ Rank(f) = 1 <=> ListOf(f) = "unpaged"
                         /\ Rank(f) = 2 <=> ListOf(f) = "normal"
  BY DEF Rank, ListOf

\* The order of the walk goes from each file to another.
LEMMA BeforeIrreflexive ==
  ASSUME NEW c \in Nat
  PROVE  ~Before(c, c)
<1>1. Rank(files[c]) \in {0, 1, 2}
  BY RankType
<1>2. QED
  BY <1>1 DEF Before

\* The files that were walked when the walk is at c; there, c was not.
LEMMA WalkedIn ==
  ASSUME NEW c \in 0 .. Len(files), files \in Seq(Line)
  PROVE  Walked(c) \in SUBSET (1 .. Len(files)) /\ c \notin Walked(c)
<1>1. CASE c = Null
  BY <1>1 DEF Walked, Null
<1>2. CASE c # Null
  <2>1. c \in Nat /\ ~Before(c, c)
    BY BeforeIrreflexive
  <2>2. QED
    BY <1>2, <2>1 DEF Walked
<1>3. QED
  BY <1>1, <1>2

\* One file more was walked.
LEMMA WalkedOne ==
  ASSUME NEW c \in 1 .. Len(files), files \in Seq(Line), NEW d,
         Walked(d) = Walked(c) \cup {c}
  PROVE  Cardinality(Walked(d)) = Cardinality(Walked(c)) + 1
<1>1. Len(files) \in Nat /\ c \in 0 .. Len(files)
  OBVIOUS
<1>2. Walked(c) \in SUBSET (1 .. Len(files)) /\ c \notin Walked(c)
  BY <1>1, WalkedIn
<1>3. IsFiniteSet(Walked(c))
  <2>1. IsFiniteSet(1 .. Len(files))
    BY <1>1, FS_Interval
  <2>2. QED
    BY <1>2, <2>1, FS_Subset
<1>4. QED
  BY <1>2, <1>3, FS_AddElement

\* The links in the order of the obey file lead through all files of an image that
\* is not paged.
LEMMA JoinedAtOnce ==
  ASSUME files \in Seq(Line), ~rom.paged, InOrder, Len(files) > 0
  PROVE  Joined
<1>0. Len(files) \in Nat
  OBVIOUS
<1> DEFINE n == Len(files)
<1>1. ASSUME NEW c \in 1 .. n
      PROVE  Walked(c) = {i \in 1 .. n : i < c}
  <2>1. \A i : Before(i, c) <=> i < c
    BY RankType DEF Before
  <2>2. c # Null
    BY <1>0 DEF Null
  <2>3. QED
    BY <2>1, <2>2 DEF Walked
<1>2. Walked(iFiles) = {}
  <2>1. iFiles = 1 /\ 1 \in 1 .. n
    BY <1>0 DEF InOrder
  <2>2. Walked(1) = {i \in 1 .. n : i < 1}
    BY <1>1, <2>1
  <2>3. {i \in 1 .. n : i < 1} = {}
    BY <1>0
  <2>4. QED
    BY <2>1, <2>2, <2>3
<1>3. ASSUME NEW c \in 1 .. n
      PROVE  Walked(iNextInArea[c]) = Walked(c) \cup {c}
  <2>1. CASE c = n
    <3>1. iNextInArea[c] = Null
      BY <2>1 DEF InOrder
    <3>2. Walked(Null) = 1 .. n
      BY DEF Walked
    <3>3. Walked(c) = {i \in 1 .. n : i < c}
      BY <1>1
    <3>4. 1 .. n = {i \in 1 .. n : i < c} \cup {c}
      BY <1>0, <2>1
    <3>5. QED
      BY <3>1, <3>2, <3>3, <3>4
  <2>2. CASE c # n
    <3>1. iNextInArea[c] = c + 1 /\ c + 1 \in 1 .. n
      BY <1>0, <2>2 DEF InOrder
    <3>2. Walked(c) = {i \in 1 .. n : i < c} /\ Walked(c + 1) = {i \in 1 .. n : i < c + 1}
      BY <1>1, <3>1
    <3>3. {i \in 1 .. n : i < c + 1} = {i \in 1 .. n : i < c} \cup {c}
      BY <1>0
    <3>4. QED
      BY <3>1, <3>2, <3>3
  <2>3. QED
    BY <2>1, <2>2
<1>4. QED
  BY <1>2, <1>3 DEF Joined

\* Of a file, what was walked before is what is in earlier lists, and in its own list
\* before it.
LEMMA WalkedOfList ==
  ASSUME files \in Seq(Line), rom.paged, NEW c \in 1 .. Len(files)
  PROVE  Walked(c) =
           {i \in 1 .. Len(files) :
              \/ Rank(files[i]) < Rank(files[c])
              \/ (ListOf(files[i]) = ListOf(files[c]) /\ i < c)}
<1>1. c # Null
  BY DEF Null
<1>2. \A i : Rank(files[i]) = Rank(files[c]) <=> ListOf(files[i]) = ListOf(files[c])
  BY DEF Rank, ListOf
<1>3. QED
  BY <1>1, <1>2 DEF Walked, Before

\* What was walked at the head of a list, or at the end where there is none.
LEMMA WalkedAtHead ==
  ASSUME files \in Seq(Line), rom.paged, NEW kind, List(kind) # {}
  PROVE  /\ First(List(kind)) \in List(kind)
         /\ \A g : ListOf(g) = kind =>
              Walked(First(List(kind))) = {i \in 1 .. Len(files) : Rank(files[i]) < Rank(g)}
<1> DEFINE c == First(List(kind))
<1>0. Len(files) \in Nat
  OBVIOUS
<1>1. List(kind) \in SUBSET Nat
  BY <1>0 DEF List
<1>2. c \in List(kind) /\ \A j \in List(kind) : c <= j
  BY <1>1, FirstLeast
<1> HIDE DEF c
<1>3. c \in 1 .. Len(files) /\ ListOf(files[c]) = kind
  BY <1>2 DEF List
<1>4. ASSUME NEW g, ListOf(g) = kind
      PROVE  Walked(c) = {i \in 1 .. Len(files) : Rank(files[i]) < Rank(g)}
  <2>1. Rank(g) = Rank(files[c])
    BY <1>3, <1>4 DEF Rank
  <2>2. ASSUME NEW i \in 1 .. Len(files), ListOf(files[i]) = ListOf(files[c]), i < c
        PROVE  FALSE
    <3>1. i \in List(kind)
      BY <1>3, <2>2 DEF List
    <3>2. c <= i
      BY <1>2, <3>1
    <3>3. QED
      BY <1>0, <1>3, <2>2, <3>2
  <2>3. QED
    BY <1>3, <2>1, <2>2, WalkedOfList
<1>5. QED
  BY <1>2, <1>4 DEF c

\* The ranks of lists that are not empty, and of their heads.
LEMMA WalkedAtFirst ==
  ASSUME files \in Seq(Line), rom.paged, NEW kind \in {"extention", "unpaged", "normal"}
  PROVE  Walked(First(List(kind))) =
           IF List(kind) # {}
             THEN {i \in 1 .. Len(files) :
                     Rank(files[i]) < (CASE kind = "extention" -> 0
                                         [] kind = "unpaged" -> 1
                                         [] kind = "normal" -> 2)}
             ELSE 1 .. Len(files)
<1>1. CASE List(kind) = {}
  BY <1>1 DEF First, Walked
<1>2. CASE List(kind) # {}
  <2>1. PICK g : g = files[First(List(kind))]
    OBVIOUS
  <2>2. ListOf(g) = kind
    BY <1>2, <2>1, WalkedAtHead DEF List
  <2>3. Walked(First(List(kind))) = {i \in 1 .. Len(files) : Rank(files[i]) < Rank(g)}
    BY <1>2, <2>2, WalkedAtHead
  <2>4. Rank(g) = CASE kind = "extention" -> 0 [] kind = "unpaged" -> 1 [] kind = "normal" -> 2
    BY <2>2 DEF Rank
  <2>5. QED
    BY <1>2, <2>3, <2>4
<1>3. QED
  BY <1>1, <1>2

\* The lists of a paged ROM are joined in the order core executables, unpaged, others.
LEMMA JoinedAfterSort ==
  ASSUME files \in Seq(Line), rom.paged, List("extention") # {}
  PROVE  /\ Walked(First(List("extention"))) = {}
         /\ \A c \in 1 .. Len(files) : Walked(Chained(c)) = Walked(c) \cup {c}
<1> DEFINE n == Len(files)
           Lower(r) == {i \in 1 .. n : Rank(files[i]) < r}
<1>0. n \in Nat
  OBVIOUS
<1>r. \A i : Rank(files[i]) \in {0, 1, 2}
  BY RankType
<1>k. \A i : /\ Rank(files[i]) = 0 <=> ListOf(files[i]) = "extention"
             /\ Rank(files[i]) = 1 <=> ListOf(files[i]) = "unpaged"
             /\ Rank(files[i]) = 2 <=> ListOf(files[i]) = "normal"
  BY RankType
<1>1. /\ Lower(0) = {}
      /\ Lower(1) = List("extention")
      /\ Lower(2) = List("extention") \cup List("unpaged")
      /\ 1 .. n = List("extention") \cup List("unpaged") \cup List("normal")
  BY <1>r, <1>k DEF List
<1>2. /\ Walked(First(List("extention"))) = Lower(0)
      /\ Walked(First(List("unpaged"))) = IF List("unpaged") # {} THEN Lower(1) ELSE 1 .. n
      /\ Walked(First(List("normal"))) = IF List("normal") # {} THEN Lower(2) ELSE 1 .. n
  BY WalkedAtFirst
<1>3. ASSUME NEW c \in 1 .. n
      PROVE  Walked(Chained(c)) = Walked(c) \cup {c}
  <2> DEFINE kind == ListOf(files[c])
             after == {j \in List(kind) : c < j}
  <2>1. kind \in {"extention", "unpaged", "normal"} /\ c \in List(kind)
    BY DEF ListOf, List
  <2>2. Walked(c) = Lower(Rank(files[c])) \cup {i \in List(kind) : i < c}
    <3>1. Walked(c) = {i \in 1 .. n : \/ Rank(files[i]) < Rank(files[c])
                                      \/ (ListOf(files[i]) = ListOf(files[c]) /\ i < c)}
      BY WalkedOfList
    <3>2. QED
      BY <3>1 DEF List
  <2>3. CASE after # {}
    <3>1. Chained(c) = First(after)
      BY <2>3 DEF Chained
    <3>2. after \in SUBSET Nat
      BY <1>0 DEF List
    <3>3. PICK d : d = First(after)
      OBVIOUS
    <3>4. d \in after /\ \A j \in after : d <= j
      BY <2>3, <3>2, <3>3, FirstLeast
    <3>5. d \in 1 .. n /\ ListOf(files[d]) = kind /\ d \in List(kind) /\ c < d
      BY <3>4 DEF List
    <3>6. Rank(files[d]) = Rank(files[c])
      BY <3>5 DEF Rank
    <3>7. Walked(d) = Lower(Rank(files[c])) \cup {i \in List(kind) : i < d}
      <4>1. Walked(d) = {i \in 1 .. n : \/ Rank(files[i]) < Rank(files[d])
                                        \/ (ListOf(files[i]) = ListOf(files[d]) /\ i < d)}
        BY <3>5, WalkedOfList
      <4>2. QED
        BY <3>5, <3>6, <4>1 DEF List
    <3>8. {i \in List(kind) : i < d} = {i \in List(kind) : i < c} \cup {c}
      <4>1. \A i \in List(kind) : i \in Nat
        BY <1>0 DEF List
      <4>2. \A i \in List(kind) : i < d => ~(c < i)
        <5> SUFFICES ASSUME NEW i \in List(kind), i < d, c < i PROVE FALSE
          OBVIOUS
        <5>1. i \in after
          OBVIOUS
        <5>2. d <= i /\ i \in Nat /\ d \in Nat
          BY <1>0, <3>4, <3>5, <4>1, <5>1
        <5>3. QED
          BY <5>2
      <4>3. \A i \in List(kind) : i < d <=> (i < c \/ i = c)
        BY <1>0, <3>5, <4>1, <4>2
      <4>4. QED
        BY <2>1, <4>3
    <3>9. QED
      BY <2>2, <3>1, <3>3, <3>7, <3>8
  <2>4. CASE after = {}
    <3>1. Chained(c) = Following(kind)
      BY <2>4 DEF Chained
    <3>2. {i \in List(kind) : i < c} \cup {c} = List(kind)
      <4>1. \A i \in List(kind) : i \in Nat /\ ~(c < i)
        BY <1>0, <2>4 DEF List
      <4>2. \A i \in List(kind) : i < c \/ i = c
        BY <1>0, <4>1
      <4>3. QED
        BY <2>1, <4>2
    <3> HIDE DEF after
    <3>3. Walked(c) \cup {c} = Lower(Rank(files[c])) \cup List(kind)
      BY <2>2, <3>2
    <3>4. List(kind) # {}
      BY <2>1
    <3>n. Walked(Null) = 1 .. n
      BY DEF Walked
    <3> HIDE DEF n, Lower
    <3>5. CASE kind = "extention"
      <4>1. Walked(c) \cup {c} = List("extention")
        BY <1>1, <1>k, <3>3, <3>5
      <4>2. CASE List("unpaged") # {}
        BY <1>1, <1>2, <3>1, <3>5, <4>1, <4>2 DEF Following
      <4>3. CASE List("unpaged") = {}
        <5>1. Walked(Following(kind)) = List("extention")
          BY <1>1, <1>2, <3>5, <4>3 DEF Following
        <5>2. QED
          BY <3>1, <4>1, <5>1
      <4>4. QED
        BY <4>2, <4>3
    <3>6. CASE kind = "unpaged"
      <4>1. Walked(c) \cup {c} = List("extention") \cup List("unpaged")
        BY <1>1, <1>k, <3>3, <3>6
      <4>2. Following(kind) = First(List("normal"))
        BY <3>6 DEF Following
      <4>3. QED
        BY <1>1, <1>2, <3>1, <4>1, <4>2
    <3>7. CASE kind = "normal"
      <4>1. Walked(c) \cup {c} = 1 .. n
        BY <1>1, <1>k, <3>3, <3>7
      <4>2. Following(kind) = Null
        BY <3>7 DEF Following
      <4>3. QED
        BY <3>1, <3>n, <4>1, <4>2
    <3>8. QED
      BY <2>1, <3>5, <3>6, <3>7
  <2>5. QED
    BY <2>3, <2>4
<1>4. QED
  BY <1>1, <1>2, <1>3

-----------------------------------------------------------------------------
(* The files, from the obey file to the image.                             *)

\* The links and the order of the walk do not change while files and links do not.
LEMMA SameWalked ==
  ASSUME UNCHANGED <<files, rom>>, NEW c
  PROVE  (Walked(c))' = Walked(c)
  BY DEF Walked, Before, Rank, ListOf, Null

LEMMA SameJoined ==
  ASSUME UNCHANGED <<files, rom, iFiles, iNextInArea>>, Joined
  PROVE  Joined'
<1>1. Walked(iFiles)' = Walked(iFiles)
  BY DEF Walked, Before, Rank, ListOf, Null
<1>2. \A c \in 1 .. Len(files) : Walked(iNextInArea[c])' = Walked(iNextInArea[c])
  BY DEF Walked, Before, Rank, ListOf, Null
<1>3. \A c : (Walked(c))' = Walked(c)
  BY SameWalked
<1>4. QED
  BY <1>1, <1>2, <1>3 DEF Joined

\* A file that is in the image stays there.
LEMMA DoneStays ==
  ASSUME UNCHANGED <<files, rom>>, placed \subseteq placed', NEW i, Done(i),
         entry'[i] = entry[i]
  PROVE  (Done(i))'
  BY DEF Done, RomEnd

\* Nothing has been read at first.
LEMMA FilesInit == Init => FilesInv
  BY DEF Init, FilesInv

\* A failure leaves nothing to show.
LEMMA FilesFail ==
  ASSUME NEW how, Fail(how), how # "built"
  PROVE  FilesInv'
  BY DEF Fail, FilesInv

\* As many files at most as there are.
LEMMA NumberOfFilesIs ==
  ASSUME files \in Seq(Line)
  PROVE  NumberOfFiles \in 0 .. Len(files)
<1>0. Len(files) \in Nat
  OBVIOUS
<1>1. IsFiniteSet(1 .. Len(files)) /\ Cardinality(1 .. Len(files)) = Len(files)
  BY <1>0, FS_Interval
<1> DEFINE S == {i \in 1 .. Len(files) : files[i].keyword # "hcr"}
<1>2. S \subseteq 1 .. Len(files)
  OBVIOUS
<1> HIDE DEF S
<1>3. Cardinality(S) <= Len(files)
  BY <1>1, <1>2, FS_Subset
<1>4. Cardinality(S) \in Nat
  BY <1>0, <1>2, CountType
<1>5. QED
  BY <1>3, <1>4 DEF NumberOfFiles, S

\* A new entry goes to the end of the links.
LEMMA LinkedInOrder ==
  ASSUME files \in Seq(Line), iNextInArea \in [1 .. Len(files) -> 0 .. Len(files)],
         InOrder, Len(files') = Len(files) + 1,
         iNextInArea' = Linked(iNextInArea), iFiles' = 1
  PROVE  InOrder'
<1>1. Len(files) \in Nat /\ Len(iNextInArea) = Len(files)
  OBVIOUS
<1>2. ASSUME NEW i \in 1 .. (Len(files) + 1)
      PROVE  iNextInArea'[i] = IF i = Len(files) + 1 THEN Null ELSE i + 1
  <2>0. i \in Nat /\ i <= Len(files) + 1 /\ 1 <= i
    BY <1>1
  <2>1. iNextInArea'[i] =
          IF i > Len(files) THEN Null ELSE IF i = Len(files) THEN i + 1 ELSE iNextInArea[i]
    BY <1>1 DEF Linked
  <2>2. i \in 1 .. Len(files) => iNextInArea[i] = IF i = Len(files) THEN Null ELSE i + 1
    BY DEF InOrder
  <2>3. CASE i = Len(files) + 1
    <3>1. i > Len(files)
      BY <1>1, <2>3
    <3>2. iNextInArea'[i] = Null
      BY <2>1, <3>1
    <3>3. QED
      BY <2>3, <3>2
  <2>4. CASE i # Len(files) + 1
    <3>1. i \in 1 .. Len(files) /\ ~(i > Len(files))
      BY <1>1, <2>0, <2>4
    <3>2. iNextInArea'[i] = IF i = Len(files) THEN i + 1 ELSE iNextInArea[i]
      BY <2>1, <3>1
    <3>3. QED
      BY <2>2, <2>4, <3>1, <3>2
  <2>5. QED
    BY <2>3, <2>4
<1>3. iFiles' = 1 /\ Len(files') # 0
  BY <1>1
<1>4. QED
  BY <1>2, <1>3 DEF InOrder

\* What the invariants before this one say of a step.
LEMMA FilesFacts ==
  ASSUME \A r \in Roms : Reached(r), TypeStrong, PiecesInv
  PROVE  /\ files \in Seq(Line) /\ Len(files) \in Nat
         /\ rom \in Roms /\ Reached(rom) /\ rom.lines \in Seq(Line) /\ Len(rom.lines) \in Nat
         /\ line \in Nat \ {0}
         /\ iNextInArea \in [1 .. Len(files) -> 0 .. Len(files)]
         /\ iSectionPosition \in Int /\ (iSectionPosition = NotSectioned \/ iSectionPosition >= 0)
         /\ current \in 0 .. Len(files) /\ fileCount \in Nat
         /\ main \in Nat /\ second \in Nat /\ iSectionStart \in Nat
         /\ entry \in [1 .. Len(files) -> Nat]
         /\ pc # "done" => outcome = "building"
<1>1. rom \in Roms /\ line \in Nat /\ line # 0 /\ files \in Seq(Line)
  BY DEF TypeStrong, TypeOK
<1>2. rom.lines \in Seq(Line)
  BY <1>1, RomType
<1>3. Len(files) \in Nat /\ Len(rom.lines) \in Nat
  BY <1>1, <1>2
<1>4. iSectionPosition \in Int /\ (iSectionPosition = NotSectioned \/ iSectionPosition >= 0)
  <2>1. iSectionPosition \in Nat \/ iSectionPosition = NotSectioned
    BY DEF TypeStrong, TypeOK
  <2>2. CASE iSectionPosition \in Nat
    BY <2>2
  <2>3. CASE iSectionPosition = NotSectioned
    BY <2>3 DEF NotSectioned
  <2>4. QED
    BY <2>1, <2>2, <2>3
<1>5. QED
  BY <1>1, <1>2, <1>3, <1>4 DEF TypeStrong, TypeOK, PiecesInv

\* The passes over the obey file.
LEMMA FilesRead ==
  ASSUME \A r \in Roms : Reached(r), TypeStrong, PiecesInv, FilesInv,
         ParseAreaKeyword \/ CreateDefaultArea \/ SkipLine \/ ParseSection \/ ProcessFile
  PROVE  FilesInv'
<1>0. /\ files \in Seq(Line) /\ Len(files) \in Nat
      /\ rom.lines \in Seq(Line) /\ Len(rom.lines) \in Nat
      /\ line \in Nat \ {0}
      /\ iNextInArea \in [1 .. Len(files) -> 0 .. Len(files)]
      /\ iSectionPosition \in Int
      /\ pc # "done" => outcome = "building"
  BY FilesFacts
<1> USE DEF obeyVars, listVars, layoutVars, endVars
<1>f. Fail("refused") => FilesInv'
  BY FilesFail
<1>1. CASE ParseAreaKeyword
  <2>1. CASE ~Fail("refused")
    <3>1. pc = "areas" /\ pc' = "areas" /\ UNCHANGED <<outcome, files, iFiles, iSectionPosition>>
      BY <1>1, <2>1 DEF ParseAreaKeyword, AddArea
    <3>2. outcome' # "built"
      BY <1>0, <3>1
    <3>3. QED
      BY <3>1, <3>2 DEF FilesInv
  <2>2. QED
    BY <1>f, <2>1
<1>2. CASE CreateDefaultArea
  <2>1. CASE ~Fail("refused")
    <3>1. /\ pc = "areas" /\ pc' = "obey" /\ line' = 1
          /\ UNCHANGED <<rom, outcome, files, iFiles, iNextInArea, iSectionPosition>>
          /\ rom.extension \/ HasPrimary
      BY <1>2, <2>1 DEF CreateDefaultArea, AddArea
    <3>2. outcome' # "built"
      BY <1>0, <3>1
    <3>3. Len(files) = 0 /\ iFiles = Null /\ iSectionPosition = NotSectioned
      BY <3>1 DEF FilesInv
    <3>4. Reading'
      <4>1. InOrder'
        BY <1>0, <3>1, <3>3 DEF InOrder
      <4>2. line' <= Len(rom'.lines) + 1
        BY <1>0, <3>1
      <4>3. rom'.extension \/ HasPrimary'
        BY <3>1 DEF HasPrimary
      <4>4. \A j \in 1 .. Len(rom'.lines) : ~(j < line')
        BY <1>0, <3>1
      <4>5. iSectionPosition' < Len(files')
        BY <3>1, <3>3 DEF NotSectioned
      <4>6. QED
        BY <4>1, <4>2, <4>3, <4>4, <4>5 DEF Reading
    <3>5. QED
      BY <3>1, <3>2, <3>4 DEF FilesInv
  <2>2. QED
    BY <1>f, <2>1
<1>8. CASE SkipLine /\ pc = "areas"
  <2>1. pc' = "areas" /\ UNCHANGED <<outcome, files, iFiles, iSectionPosition>>
    BY <1>8 DEF SkipLine
  <2>2. QED
    BY <1>0, <1>8, <2>1 DEF FilesInv
<1>3. CASE SkipLine /\ pc # "areas"
  <2>1. /\ pc = "obey" /\ pc' = "obey" /\ line' = line + 1 /\ line <= Len(rom.lines)
        /\ UNCHANGED <<rom, outcome, files, iFiles, iNextInArea, iSectionPosition>>
        /\ rom.extension
    BY <1>3 DEF SkipLine, ReadLine, NotSupported
  <2>2. outcome' # "built"
    BY <1>0, <2>1
  <2>3. Reading
    BY <2>1 DEF FilesInv
  <2>4. Reading'
    <3>1. InOrder'
      BY <2>1, <2>3 DEF InOrder, Reading
    <3>2. line' <= Len(rom'.lines) + 1
      BY <1>0, <2>1
    <3>3. rom'.extension
      BY <2>1
    <3>4. iSectionPosition' < Len(files')
      BY <2>1, <2>3 DEF Reading
    <3>5. QED
      BY <3>1, <3>2, <3>3, <3>4 DEF Reading
  <2>5. QED
    BY <2>1, <2>2, <2>4 DEF FilesInv
<1>4. CASE ParseSection
  <2>1. CASE ~Fail("refused")
    <3>1. /\ pc = "obey" /\ pc' = "obey" /\ line' = line + 1 /\ line <= Len(rom.lines)
          /\ UNCHANGED <<rom, outcome, files, iFiles, iNextInArea>>
          /\ iSectionPosition' = NumberOfFiles
          /\ rom.lines[line].keyword = "section"
          /\ ~rom.extension
      BY <1>4, <2>1 DEF ParseSection, ReadLine, NotSupported
    <3>2. outcome' # "built"
      BY <1>0, <3>1
    <3>3. Reading
      BY <3>1 DEF FilesInv
    <3>4. Reading'
      <4>1. InOrder'
        BY <3>1, <3>3 DEF InOrder, Reading
      <4>2. line' <= Len(rom'.lines) + 1 /\ line' > 1 /\ line' - 1 = line
        BY <1>0, <3>1
      <4>3. rom'.extension \/ HasPrimary'
        BY <3>1, <3>3 DEF HasPrimary, Reading
      <4>4. \A j \in 1 .. Len(rom'.lines) :
              (j < line' /\ rom'.lines[j].keyword = "core" /\ ~rom'.extension) => HasCore'
        <5>1. HasCore' <=> HasCore
          BY <3>1 DEF HasCore
        <5>2. ASSUME NEW j \in 1 .. Len(rom.lines), j < line + 1, rom.lines[j].keyword = "core"
              PROVE  HasCore
          <6>1. j # line
            BY <3>1, <5>2
          <6>2. j < line
            BY <1>0, <5>2, <6>1
          <6>3. QED
            BY <3>1, <3>3, <5>2, <6>2 DEF Reading
        <5>3. QED
          BY <3>1, <5>1, <5>2
      <4>5. iSectionPosition' <= Len(files')
        <5>1. NumberOfFiles \in 0 .. Len(files)
          BY <1>0, NumberOfFilesIs
        <5>2. NumberOfFiles <= Len(files)
          BY <1>0, <5>1
        <5>3. QED
          BY <3>1, <5>2
      <4>6. rom'.lines[line' - 1].keyword = "section" /\ ~rom'.extension
        BY <3>1, <4>2
      <4>7. QED
        BY <4>1, <4>2, <4>3, <4>4, <4>5, <4>6 DEF Reading
    <3>5. QED
      BY <3>1, <3>2, <3>4 DEF FilesInv
  <2>2. QED
    BY <1>f, <2>1
<1>5. CASE ProcessFile
  <2>1. CASE ~Fail("refused")
    <3>1. /\ pc = "obey" /\ pc' = "obey" /\ line' = line + 1 /\ line <= Len(rom.lines)
          /\ UNCHANGED <<rom, outcome, iSectionPosition>>
          /\ files' = Append(files, rom.lines[line])
          /\ iNextInArea' = Linked(iNextInArea)
          /\ iFiles' = 1
      BY <1>5, <2>1 DEF ProcessFile, ReadLine
    <3>2. outcome' # "built"
      BY <1>0, <3>1
    <3>3. Reading
      BY <3>1 DEF FilesInv
    <3>a. rom.lines[line] \in Line
      BY <1>0, <3>1
    <3>b. /\ Len(files') = Len(files) + 1
          /\ files'[Len(files) + 1] = rom.lines[line]
          /\ \A i \in 1 .. Len(files) : files'[i] = files[i]
      BY <1>0, <3>1, <3>a
    <3>4. Reading'
      <4>1. InOrder'
        BY <1>0, <3>1, <3>3, <3>b, LinkedInOrder DEF Reading
      <4>2. line' <= Len(rom'.lines) + 1
        BY <1>0, <3>1
      <4>3. rom'.extension \/ HasPrimary'
        BY <3>1, <3>3 DEF HasPrimary, Reading
      <4>4. \A j \in 1 .. Len(rom'.lines) :
              (j < line' /\ rom'.lines[j].keyword = "core" /\ ~rom'.extension) => HasCore'
        <5>1. HasCore => HasCore'
          <6> SUFFICES ASSUME NEW i \in 1 .. Len(files), files[i].keyword = "core" PROVE HasCore'
            BY DEF HasCore
          <6>1. i \in 1 .. Len(files') /\ files'[i].keyword = "core"
            BY <1>0, <3>b
          <6>2. QED
            BY <6>1 DEF HasCore
        <5>2. ASSUME NEW j \in 1 .. Len(rom.lines), j < line + 1, rom.lines[j].keyword = "core",
                     ~rom.extension
              PROVE  HasCore'
          <6>1. CASE j = line
            <7>1. Len(files) + 1 \in 1 .. Len(files') /\ files'[Len(files) + 1].keyword = "core"
              BY <1>0, <3>b, <5>2, <6>1
            <7>2. QED
              BY <7>1 DEF HasCore
          <6>2. CASE j # line
            <7>1. j < line
              BY <1>0, <5>2, <6>2
            <7>2. QED
              BY <3>3, <5>1, <5>2, <7>1 DEF Reading
          <6>3. QED
            BY <6>1, <6>2
        <5>3. QED
          BY <3>1, <5>2
      <4>5. iSectionPosition' < Len(files')
        <5>1. iSectionPosition <= Len(files)
          BY <1>0, <3>3 DEF Reading
        <5>2. QED
          BY <1>0, <3>1, <3>b, <5>1
      <4>6. QED
        BY <4>1, <4>2, <4>3, <4>4, <4>5 DEF Reading
    <3>5. QED
      BY <3>1, <3>2, <3>4 DEF FilesInv
  <2>2. QED
    BY <1>f, <2>1
<1>6. QED
  BY <1>1, <1>2, <1>3, <1>4, <1>5, <1>8

\* The obey file is at its end: every file has a place in the links, and the second
\* section begins before the last file.
LEMMA FilesEndObey ==
  ASSUME \A r \in Roms : Reached(r), TypeStrong, PiecesInv, FilesInv, EndObey
  PROVE  FilesInv'
<1>0. /\ files \in Seq(Line) /\ Len(files) \in Nat
      /\ rom.lines \in Seq(Line) /\ Len(rom.lines) \in Nat /\ Reached(rom)
      /\ line \in Nat \ {0}
      /\ iSectionPosition \in Int
      /\ pc # "done" => outcome = "building"
  BY FilesFacts
<1> USE DEF obeyVars, listVars, layoutVars, endVars
<1>1. CASE Fail("refused")
  BY <1>1, FilesFail
<1>2. CASE ~Fail("refused")
  <2>1. /\ pc = "obey" /\ line > Len(rom.lines) /\ NumberOfFiles # 0
        /\ pc' = IF rom.paged THEN "sort" ELSE "directory"
        /\ UNCHANGED <<rom, outcome, files, iFiles, iNextInArea, iSectionPosition>>
    BY <1>2 DEF EndObey
  <2>2. outcome' # "built" /\ Reading
    BY <1>0, <2>1 DEF FilesInv
  <2>3. line = Len(rom.lines) + 1
    BY <1>0, <2>1, <2>2 DEF Reading
  <2>4. Len(files) > 0
    <3>1. NumberOfFiles \in 0 .. Len(files)
      BY <1>0, NumberOfFilesIs
    <3>2. QED
      BY <1>0, <2>1, <3>1
  <2>5. iSectionPosition < Len(files)
    <3>1. ASSUME ~rom.extension, line > 1, rom.lines[line - 1].keyword = "section"
          PROVE  FALSE
      <4>1. line - 1 = Len(rom.lines) /\ Len(rom.lines) # 0
        BY <1>0, <2>3, <3>1
      <4>2. rom.lines # <<>>
        BY <4>1
      <4>3. SectionLast(rom.lines)
        BY <3>1, <4>1, <4>2 DEF SectionLast
      <4>4. QED
        BY <1>0, <3>1, <4>3 DEF Reached
    <3>2. QED
      BY <2>2, <3>1 DEF Reading
  <2>6. CASE rom.paged
    <3>1. ~rom.extension
      BY <1>0, <2>6 DEF Reached
    <3>2. HasCore
      <4>1. PICK j \in 1 .. Len(rom.lines) : rom.lines[j].keyword = "core"
        BY <2>2, <3>1 DEF Reading, HasPrimary
      <4>2. j < line
        BY <1>0, <2>3
      <4>3. QED
        BY <2>2, <3>1, <4>1, <4>2 DEF Reading
    <3>3. InOrder' /\ HasCore'
      BY <2>1, <2>2, <3>2 DEF Reading, InOrder, HasCore
    <3>4. QED
      BY <2>1, <2>2, <2>4, <2>5, <2>6, <3>3 DEF FilesInv
  <2>7. CASE ~rom.paged
    <3>1. Joined
      BY <1>0, <2>2, <2>4, <2>7, JoinedAtOnce DEF Reading
    <3>2. Joined'
      BY <2>1, <3>1, SameJoined
    <3>3. QED
      BY <2>1, <2>2, <2>4, <2>5, <2>7, <3>2 DEF FilesInv
  <2>8. QED
    BY <2>6, <2>7
<1>3. QED
  BY <1>1, <1>2

\* The lists are joined.
LEMMA FilesSort ==
  ASSUME \A r \in Roms : Reached(r), TypeStrong, PiecesInv, FilesInv, SortFilesForPagedRom
  PROVE  FilesInv'
<1>0. /\ files \in Seq(Line) /\ Len(files) \in Nat
      /\ pc # "done" => outcome = "building"
  BY FilesFacts
<1>1. /\ pc = "sort" /\ pc' = "exceptions"
      /\ iNextInArea' = [i \in 1 .. Len(files) |-> Chained(i)]
      /\ List("extention") # {} => iFiles' = First(List("extention"))
      /\ UNCHANGED <<rom, outcome, files, iSectionPosition>>
  BY DEF SortFilesForPagedRom, obeyVars
<1>2. /\ rom.paged /\ HasCore /\ Len(files) > 0 /\ iSectionPosition < Len(files)
      /\ outcome' # "built"
  BY <1>0, <1>1 DEF FilesInv
<1>3. List("extention") # {}
  BY <1>2 DEF HasCore, List, ListOf
<1>4. /\ Walked(First(List("extention"))) = {}
      /\ \A c \in 1 .. Len(files) : Walked(Chained(c)) = Walked(c) \cup {c}
  BY <1>0, <1>2, <1>3, JoinedAfterSort
<1>5. Joined'
  <2>1. \A c : (Walked(c))' = Walked(c)
    BY <1>1, SameWalked
  <2>2. PICK h : h = First(List("extention"))
    OBVIOUS
  <2>3. (Walked(iFiles))' = (Walked(h))'
    BY <1>1, <1>3, <2>2 DEF Walked, Before, Rank
  <2>4. (Walked(iFiles))' = {}
    BY <1>4, <2>1, <2>2, <2>3
  <2>5. ASSUME NEW c \in 1 .. Len(files)
        PROVE  (Walked(iNextInArea[c]))' = Walked(c) \cup {c}
    <3>1. PICK d : d = Chained(c)
      OBVIOUS
    <3>2. iNextInArea'[c] = d
      BY <1>1, <3>1
    <3>3. (Walked(iNextInArea[c]))' = (Walked(d))'
      BY <3>2 DEF Walked, Before, Rank
    <3>4. QED
      BY <1>4, <2>1, <3>1, <3>3
  <2>6. QED
    BY <1>1, <2>1, <2>4, <2>5 DEF Joined
<1>6. QED
  BY <1>1, <1>2, <1>5 DEF FilesInv

\* The tables go to the start of the image, and after the files.
LEMMA FilesTables ==
  ASSUME \A r \in Roms : Reached(r), TypeStrong, PiecesInv, FilesInv,
         ReserveRomExceptionSearchTable \/ WriteDirectory
  PROVE  FilesInv'
<1> USE DEF obeyVars, listVars, layoutVars, endVars
<1>0. pc # "done" => outcome = "building"
  BY FilesFacts
<1>1. ASSUME Fail("no room") \/ Fail("crashed") PROVE FilesInv'
  BY <1>1, FilesFail
<1>2. CASE ~(Fail("no room") \/ Fail("crashed"))
  <2>1. /\ UNCHANGED <<rom, outcome, files, iFiles, iNextInArea, iSectionPosition, second, entry>>
        /\ placed \subseteq placed'
        /\ \/ pc \in {"exceptions", "directory"} /\ pc' \in {"directory", "relocations"}
           \/ pc = "exceptions last" /\ pc' = "size"
    BY <1>2 DEF ReserveRomExceptionSearchTable, WriteDirectory
  <2>2. outcome' # "built"
    BY <1>0, <2>1
  <2>3. CASE pc \in {"exceptions", "directory"} /\ pc' \in {"directory", "relocations"}
    <3>1. Joined /\ Len(files) > 0 /\ iSectionPosition < Len(files)
      BY <2>3 DEF FilesInv
    <3>2. Joined'
      BY <2>1, <3>1, SameJoined
    <3>3. QED
      BY <2>1, <2>2, <2>3, <3>1, <3>2 DEF FilesInv
  <2>4. CASE pc = "exceptions last" /\ pc' = "size"
    <3>1. second = Null /\ \A i \in 1 .. Len(files) : Done(i)
      BY <2>4 DEF FilesInv
    <3>2. \A i \in 1 .. Len(files) : (Done(i))'
      BY <2>1, <3>1, DoneStays
    <3>3. QED
      BY <2>1, <2>2, <2>4, <3>1, <3>2 DEF FilesInv
  <2>5. QED
    BY <2>1, <2>3, <2>4
<1>3. QED
  BY <1>1, <1>2

\* LayoutRom begins at the first file.
LEMMA FilesAllocate ==
  ASSUME \A r \in Roms : Reached(r), TypeStrong, PiecesInv, FilesInv, AllocateRelocationTable
  PROVE  FilesInv'
<1>0. pc # "done" => outcome = "building"
  BY FilesFacts
<1>1. /\ pc = "relocations" /\ pc' = "layout"
      /\ current' = iFiles /\ fileCount' = 0
      /\ second' = IF iSectionStart # 0 THEN iSectionStart + SectionHeader ELSE Null
      /\ UNCHANGED <<rom, outcome, files, iFiles, iNextInArea, iSectionPosition>>
  BY DEF AllocateRelocationTable, obeyVars, listVars
<1>2. Joined /\ Len(files) > 0 /\ iSectionPosition < Len(files) /\ outcome' # "built"
  BY <1>0, <1>1 DEF FilesInv
<1>3. Joined'
  BY <1>1, <1>2, SameJoined
<1>4. (Walked(current))' = {}
  <2>1. (Walked(current))' = Walked(iFiles)
    BY <1>1 DEF Walked, Before, Rank, ListOf, Null
  <2>2. QED
    BY <1>2, <2>1 DEF Joined
<1>5. fileCount' = Cardinality((Walked(current))')
  BY <1>1, <1>4, FS_EmptySet
<1>6. second' # Null => iSectionPosition' # NotSectioned /\ fileCount' <= iSectionPosition'
  <2>1. second' # Null => iSectionPosition # NotSectioned
    BY <1>1 DEF PiecesInv
  <2>2. iSectionPosition # NotSectioned => 0 <= iSectionPosition
    BY FilesFacts
  <2>3. QED
    BY <1>1, <2>1, <2>2
<1>7. QED
  BY <1>1, <1>2, <1>3, <1>4, <1>5, <1>6 DEF FilesInv

\* The walk has laid out file c, and goes on.
LEMMA FilesWalk ==
  ASSUME \A r \in Roms : Reached(r), TypeStrong, PiecesInv, FilesInv,
         pc = "layout", ~AtSection, GoToNext, NEW c \in 1 .. Len(files), current = c,
         UNCHANGED iSectionStart, placed \subseteq placed', main' \in Nat, main <= main',
         second' = Null <=> second = Null,
         \A i \in 1 .. Len(files) : i # c => entry'[i] = entry[i],
         second' = Null \/ main' <= iSectionStart => (Done(c))'
  PROVE  FilesInv'
<1>0. /\ files \in Seq(Line) /\ Len(files) \in Nat
      /\ iNextInArea \in [1 .. Len(files) -> 0 .. Len(files)]
      /\ iSectionPosition \in Int /\ fileCount \in Nat
      /\ main \in Nat /\ iSectionStart \in Nat
      /\ outcome = "building"
  BY FilesFacts
<1>1. /\ pc' = "layout" /\ current' = iNextInArea[c] /\ fileCount' = fileCount + 1
      /\ UNCHANGED <<rom, outcome, files, iFiles, iNextInArea, iSectionPosition>>
  BY DEF GoToNext, obeyVars, listVars
<1>2. /\ Joined /\ Len(files) > 0 /\ iSectionPosition < Len(files)
      /\ fileCount = Cardinality(Walked(c))
      /\ second # Null => iSectionPosition # NotSectioned /\ fileCount <= iSectionPosition
      /\ second = Null \/ main <= iSectionStart => \A i \in Walked(c) : Done(i)
  BY DEF FilesInv
<1>3. Joined'
  BY <1>1, <1>2, SameJoined
<1>4. (Walked(current))' = Walked(c) \cup {c}
  <2>1. PICK d : d = iNextInArea[c]
    OBVIOUS
  <2>2. (Walked(current))' = Walked(d)
    BY <1>1, <2>1 DEF Walked, Before, Rank, ListOf, Null
  <2>3. QED
    BY <1>2, <2>1, <2>2 DEF Joined
<1>5. fileCount' = Cardinality((Walked(current))')
  <2>1. PICK d : d = iNextInArea[c]
    OBVIOUS
  <2>2. Walked(d) = Walked(c) \cup {c}
    BY <1>2, <2>1 DEF Joined
  <2>3. Cardinality(Walked(d)) = Cardinality(Walked(c)) + 1
    BY <1>0, <2>2, WalkedOne
  <2>4. QED
    BY <1>1, <1>2, <1>4, <2>2, <2>3
<1>6. second' # Null => iSectionPosition' # NotSectioned /\ fileCount' <= iSectionPosition'
  <2>1. second # Null => fileCount # iSectionPosition
    BY DEF AtSection
  <2>2. QED
    BY <1>0, <1>1, <1>2, <2>1
<1>7. second' = Null \/ main' <= iSectionStart' => \A i \in (Walked(current))' : (Done(i))'
  <2> SUFFICES ASSUME second' = Null \/ main' <= iSectionStart, NEW i \in Walked(c) \cup {c}
               PROVE  (Done(i))'
    BY <1>4
  <2>1. CASE i = c
    BY <2>1
  <2>2. CASE i # c
    <3>1. second = Null \/ main <= iSectionStart
      BY <1>0
    <3>2. i \in Walked(c) /\ Done(i)
      BY <1>2, <2>2, <3>1
    <3>3. i \in 1 .. Len(files)
      BY <1>0, <3>2, WalkedIn
    <3>4. entry'[i] = entry[i]
      BY <2>2, <3>3
    <3>5. QED
      BY <1>1, <3>2, <3>4, DoneStays
  <2>3. QED
    BY <2>1, <2>2
<1>8. QED
  BY <1>0, <1>1, <1>2, <1>3, <1>5, <1>6, <1>7 DEF FilesInv

\* The walk lays out a file, or comes to the second section.
LEMMA FilesLayout ==
  ASSUME \A r \in Roms : Reached(r), TypeStrong, TypeStrong', PiecesInv, FilesInv,
         NextRom \/ LayoutData \/ LayoutExecutable
  PROVE  FilesInv'
<1> USE DEF obeyVars, listVars, layoutVars, endVars
<1>0. /\ files \in Seq(Line) /\ Len(files) \in Nat
      /\ current \in 0 .. Len(files)
      /\ entry \in [1 .. Len(files) -> Nat]
      /\ main \in Nat /\ iSectionStart \in Nat /\ second \in Nat
      /\ pc # "done" => outcome = "building"
  BY FilesFacts
<1>b. main' \in Nat
  BY DEF TypeStrong, TypeOK
<1>1. CASE NextRom
  <2>1. CASE Fail("first section overflowed") \/ Fail("directory overwritten")
    BY <2>1, FilesFail
  <2>2. CASE ~(Fail("first section overflowed") \/ Fail("directory overwritten"))
    <3>1. /\ pc = "layout" /\ ~(main > iSectionStart) /\ second' = Null
          /\ placed \subseteq placed'
          /\ UNCHANGED <<rom, pc, outcome, files, iFiles, iNextInArea, iSectionPosition,
                         current, fileCount, entry>>
      BY <1>1, <2>2 DEF NextRom
    <3>2. /\ Joined /\ Len(files) > 0 /\ iSectionPosition < Len(files)
          /\ fileCount = Cardinality(Walked(current))
          /\ \A i \in Walked(current) : Done(i)
      BY <1>0, <3>1 DEF FilesInv
    <3>3. Joined'
      BY <3>1, <3>2, SameJoined
    <3>4. (Walked(current))' = Walked(current)
      BY <3>1 DEF Walked, Before, Rank, ListOf, Null
    <3>5. \A i \in Walked(current) : (Done(i))'
      BY <3>1, <3>2, DoneStays
    <3>6. QED
      BY <1>0, <3>1, <3>2, <3>3, <3>4, <3>5 DEF FilesInv
  <2>3. QED
    BY <2>1, <2>2
<1>2. CASE LayoutData
  <2>1. CASE Fail("no room")
    BY <2>1, FilesFail
  <2>2. CASE ~Fail("no room")
    <3> DEFINE f == files[current]
               a == StartOf(f)
               q == Piece("file", current, 1, a, a + f.size1)
    <3>1. /\ pc = "layout" /\ current # Null /\ ~AtSection
          /\ f.size1 > 0 => ~(a + f.size1 > RomEnd)
          /\ main' = a + f.size1
          /\ placed' = placed \cup {p \in {q} : f.size1 > 0}
          /\ entry' = IF FirstOverflowed(a + f.size1) THEN entry
                      ELSE [entry EXCEPT ![current] = IF f.size1 > 0 THEN a ELSE 0]
          /\ UNCHANGED second
          /\ GoToNext
      BY <1>2, <2>2 DEF LayoutData
    <3>2. PICK c \in 1 .. Len(files) : c = current
      BY <1>0, <3>1 DEF Null
    <3>3. f \in Line
      BY <1>0, <3>2
    <3>4. f.size1 \in Nat /\ a \in Nat /\ main <= a
      BY <1>0, <3>3, StartType DEF Line
    <3>5. main <= main'
      <4> HIDE DEF f, a
      <4>1. QED
        BY <1>0, <3>1, <3>4
    <3>6. UNCHANGED <<iSectionStart, files, rom>>
      BY <3>1 DEF GoToNext
    <3>7. second' = Null \/ main' <= iSectionStart => (Done(c))'
      <4> SUFFICES ASSUME second = Null \/ main' <= iSectionStart, files[c].size1 > 0
                   PROVE  \E p \in placed' :
                            /\ p.what = "file" /\ p.of = c /\ p.part = 1
                            /\ p.hi = p.lo + files[c].size1
                            /\ p.hi <= RomEnd
                            /\ files[c].listed => entry'[c] = p.lo
        BY <3>1, <3>6 DEF Done, RomEnd
      <4>1. /\ q.what = "file" /\ q.of = c /\ q.part = 1 /\ q.lo = a /\ q.hi = a + f.size1
        BY <3>2 DEF Piece
      <4>2. f = files[c] /\ f.size1 > 0 /\ q \in placed'
        BY <3>1, <3>2
      <4> HIDE DEF f, a, q
      <4>3. ~FirstOverflowed(a + f.size1)
        <5>1. second = Null \/ ~(main' > iSectionStart)
          BY <1>0, <1>b
        <5>2. QED
          BY <3>1, <5>1 DEF FirstOverflowed
      <4>4. entry'[c] = a
        BY <1>0, <3>1, <3>2, <4>2, <4>3
      <4>5. RomEnd \in Nat /\ ~(a + f.size1 > RomEnd) /\ a + f.size1 \in Nat
        <5>1. RomEnd \in Nat
          BY FilesFacts, RomType, Constants DEF RomEnd
        <5>2. QED
          BY <3>1, <3>4, <4>2, <5>1
      <4>6. q.hi <= RomEnd
        BY <4>1, <4>5
      <4>7. QED
        BY <4>1, <4>2, <4>4, <4>6
    <3>8. placed \subseteq placed' /\ \A i \in 1 .. Len(files) : i # c => entry'[i] = entry[i]
      <4>1. placed \subseteq placed'
        BY <3>1
      <4> HIDE DEF f, a, q
      <4>2. QED
        BY <1>0, <3>1, <3>2, <4>1
    <3>9. second' = Null <=> second = Null
      BY <3>1
    <3> HIDE DEF f, a, q
    <3>10. QED
      BY <1>b, <3>1, <3>2, <3>5, <3>6, <3>7, <3>8, <3>9, FilesWalk
  <2>3. QED
    BY <2>1, <2>2
<1>3. CASE LayoutExecutable
  <2>1. CASE Fail("no room") \/ Fail("crashed")
    BY <2>1, FilesFail
  <2>2. CASE ~(Fail("no room") \/ Fail("crashed"))
    <3> DEFINE f == files[current]
               a == StartOf(f)
               b == IF second # Null THEN second ELSE a + f.size1
               fits == ~FirstOverflowed(a + f.size1)
               q == Piece("file", current, 1, a, a + f.size1)
               t == Piece("file", current, 2, b, b + f.size2)
    <3>1. /\ pc = "layout" /\ current # Null /\ ~AtSection
          /\ fits => ~(a + f.size1 + f.size2 > RomEnd)
          /\ main' = IF second # Null THEN a + f.size1 ELSE a + f.size1 + f.size2
          /\ second' = IF second # Null THEN second + f.size2 ELSE Null
          /\ placed' = IF fits THEN placed \cup {p \in {q, t} : p.lo < p.hi} ELSE placed
          /\ entry' = IF fits THEN [entry EXCEPT ![current] = a] ELSE entry
          /\ GoToNext
      BY <1>3, <2>2 DEF LayoutExecutable
    <3>2. PICK c \in 1 .. Len(files) : c = current
      BY <1>0, <3>1 DEF Null
    <3>3. f \in Line
      BY <1>0, <3>2
    <3>4. f.size1 \in Nat /\ f.size2 \in Nat /\ a \in Nat /\ main <= a
      BY <1>0, <3>3, StartType DEF Line
    <3>6. UNCHANGED <<iSectionStart, files, rom>>
      BY <3>1 DEF GoToNext
    <3>q. /\ q.what = "file" /\ q.of = c /\ q.part = 1 /\ q.lo = a /\ q.hi = a + f.size1
          /\ f = files[c]
      BY <3>2 DEF Piece
    <3>p. fits /\ q.lo < q.hi => q \in placed'
      BY <3>1
    <3>8. placed \subseteq placed'
      BY <3>1
    <3> HIDE DEF f, a, b, q, t
    <3>5. main <= main'
      <4>1. CASE second # Null
        BY <1>0, <3>1, <3>4, <4>1
      <4>2. CASE second = Null
        BY <1>0, <3>1, <3>4, <4>2
      <4>3. QED
        BY <4>1, <4>2
    <3>9. second' = Null <=> second = Null
      BY <1>0, <3>1, <3>4 DEF Null
    <3>7. second' = Null \/ main' <= iSectionStart => (Done(c))'
      <4> SUFFICES ASSUME second = Null \/ main' <= iSectionStart, files[c].size1 > 0
                   PROVE  \E p \in placed' :
                            /\ p.what = "file" /\ p.of = c /\ p.part = 1
                            /\ p.hi = p.lo + files[c].size1
                            /\ p.hi <= RomEnd
                            /\ files[c].listed => entry'[c] = p.lo
        BY <3>6, <3>9 DEF Done, RomEnd
      <4>1. fits
        <5>1. second # Null => ~(a + f.size1 > iSectionStart)
          BY <1>0, <1>b, <3>1
        <5>2. QED
          BY <5>1 DEF FirstOverflowed
      <4>2. q.lo < q.hi
        BY <3>4, <3>q
      <4>3. q \in placed'
        BY <3>p, <4>1, <4>2
      <4>4. entry'[c] = a
        BY <1>0, <3>1, <3>2, <4>1
      <4>5. q.hi <= RomEnd
        <5>1. RomEnd \in Nat
          BY FilesFacts, RomType, Constants DEF RomEnd
        <5>2. ~(a + f.size1 + f.size2 > RomEnd)
          BY <3>1, <4>1
        <5>3. QED
          BY <3>4, <3>q, <5>1, <5>2
      <4>6. QED
        BY <3>q, <4>3, <4>4, <4>5
    <3>11. \A i \in 1 .. Len(files) : i # c => entry'[i] = entry[i]
      <4> HIDE DEF fits
      <4>1. QED
        BY <1>0, <3>1, <3>2
    <3> HIDE DEF fits
    <3>12. pc = "layout" /\ ~AtSection /\ GoToNext /\ current = c
      BY <3>1, <3>2
    <3>10. QED
      BY <1>b, <3>12, <3>5, <3>6, <3>7, <3>8, <3>9, <3>11, FilesWalk
  <2>3. QED
    BY <2>1, <2>2
<1>4. QED
  BY <1>1, <1>2, <1>3

\* All files were walked, and with them the start of the second section.
LEMMA FilesEnd ==
  ASSUME \A r \in Roms : Reached(r), TypeStrong, PiecesInv, FilesInv, EndLayout
  PROVE  FilesInv'
<1> USE DEF obeyVars, listVars, layoutVars, endVars
<1>0. /\ files \in Seq(Line) /\ Len(files) \in Nat /\ iSectionPosition \in Int
      /\ pc # "done" => outcome = "building"
  BY FilesFacts
<1>1. /\ pc = "layout" /\ current = Null /\ pc' \in {"size", "exceptions last"}
      /\ UNCHANGED <<rom, outcome, files, second, placed, entry>>
  BY DEF EndLayout
<1>2. /\ iSectionPosition < Len(files) /\ fileCount = Cardinality(Walked(current))
      /\ second # Null => fileCount <= iSectionPosition
      /\ second = Null => \A i \in Walked(current) : Done(i)
      /\ outcome' # "built"
  BY <1>0, <1>1 DEF FilesInv
<1>3. Walked(current) = 1 .. Len(files)
  BY <1>1 DEF Walked
<1>4. Cardinality(1 .. Len(files)) = Len(files)
  BY <1>0, CountAll
<1>5. second = Null
  BY <1>0, <1>2, <1>3, <1>4
<1>6. \A i \in 1 .. Len(files) : (Done(i))'
  BY <1>1, <1>2, <1>3, <1>5, DoneStays
<1>7. QED
  BY <1>1, <1>2, <1>5, <1>6 DEF FilesInv

\* Every action keeps the invariant of the files.
LEMMA FilesStep ==
  ASSUME \A r \in Roms : Reached(r), TypeStrong, TypeStrong', PiecesInv, FilesInv, [Next]_vars
  PROVE  FilesInv'
<1> USE DEF obeyVars, listVars, layoutVars, endVars
<1>0. pc # "done" => outcome = "building"
  BY FilesFacts
<1>1. CASE SizeUsed
  <2>1. /\ pc = "size" /\ pc' \in {"done", "pages"}
        /\ UNCHANGED <<rom, files, second, placed, entry>>
    BY <1>1 DEF SizeUsed
  <2>2. second = Null /\ \A i \in 1 .. Len(files) : Done(i)
    BY <2>1 DEF FilesInv
  <2>3. \A i \in 1 .. Len(files) : (Done(i))'
    BY <2>1, <2>2, DoneStays
  <2>4. QED
    BY <2>1, <2>2, <2>3 DEF FilesInv
<1>2. CASE SetupPages
  <2>1. /\ pc = "pages" /\ pc' = "done"
        /\ UNCHANGED <<rom, files, second, placed, entry>>
    BY <1>2 DEF SetupPages
  <2>2. second = Null /\ \A i \in 1 .. Len(files) : Done(i)
    BY <2>1 DEF FilesInv
  <2>3. \A i \in 1 .. Len(files) : (Done(i))'
    BY <2>1, <2>2, DoneStays
  <2>4. QED
    BY <2>1, <2>2, <2>3 DEF FilesInv
<1>3. CASE UNCHANGED vars
  <2>1. UNCHANGED <<rom, line, pc, outcome, files, iSectionStart, iSectionPosition, iFiles,
                    iNextInArea, main, second, current, fileCount, placed, entry>>
    BY <1>3 DEF vars
  <2>2. Joined => Joined'
    BY <2>1, SameJoined
  <2>3. (Walked(current))' = Walked(current)
    BY <2>1 DEF Walked, Before, Rank, ListOf, Null
  <2>4. \A i : (Done(i))' <=> Done(i)
    BY <2>1 DEF Done, RomEnd
  <2>5. Reading => Reading'
    BY <2>1 DEF Reading, InOrder, HasPrimary, HasCore
  <2>6. InOrder /\ HasCore => InOrder' /\ HasCore'
    BY <2>1 DEF InOrder, HasCore
  <2>7. QED
    BY <2>1, <2>2, <2>3, <2>4, <2>5, <2>6 DEF FilesInv
<1>4. QED
  BY <1>1, <1>2, <1>3, FilesRead, FilesEndObey, FilesSort, FilesTables, FilesAllocate,
     FilesLayout, FilesEnd DEF Next

\* A built image has every file that the obey file asks for, whole, inside the image
\* and at the address that its directory entry gives, however the lists are joined
\* (SortFilesForPagedRom) and wherever the second section begins (LayoutRom), as long
\* as the walk comes to every file and to the section.
THEOREM NoFileLost ==
  ASSUME \A r \in Roms : Reached(r)
  PROVE  Spec => []FilesAllPlaced
<1>1. Init => TypeStrong /\ PiecesInv /\ FilesInv
  BY TypeInit, PiecesInit, FilesInit
<1>2. (TypeStrong /\ PiecesInv /\ FilesInv) /\ [Next]_vars =>
        (TypeStrong /\ PiecesInv /\ FilesInv)'
  BY TypeStep, PiecesStep, FilesStep
<1>3. FilesInv => FilesAllPlaced
  BY DEF FilesInv, FilesAllPlaced, Done
<1>4. QED
  BY <1>1, <1>2, <1>3, PTL DEF Spec

-----------------------------------------------------------------------------
(* The sum of the tables of the first section.                             *)

(* g is the running sum of d up to n.                                      *)
SumTo(g, d, n) == g = [m \in 0 .. n |-> IF m = 0 THEN 0 ELSE g[m - 1] + d[m]]

\* Sets of numbers: what holds of 0, and of a number whenever of the one before it.
LEMMA Induct ==
  ASSUME NEW S, 0 \in S, \A n \in Nat \ {0} : n - 1 \in S => n \in S
  PROVE  \A n \in Nat : n \in S
<1> SUFFICES ASSUME NEW n \in Nat \ S PROVE FALSE
  OBVIOUS
<1>1. PICK k : k = First(Nat \ S)
  OBVIOUS
<1>2. k \in Nat \ S /\ \A j \in Nat \ S : k <= j
  BY <1>1, FirstLeast
<1>3. k # 0 /\ k - 1 \in Nat /\ ~(k <= k - 1)
  BY <1>2
<1>4. k - 1 \in S
  BY <1>2, <1>3
<1>5. QED
  BY <1>2, <1>3, <1>4

\* A running sum, one element at a time.
LEMMA SumToIs ==
  ASSUME NEW g, NEW d, NEW n \in Nat
  PROVE  SumTo(g, d, n) <=>
           /\ g = [m \in 0 .. n |-> g[m]]
           /\ g[0] = 0
           /\ \A m \in 1 .. n : g[m] = g[m - 1] + d[m]
<1>1. ASSUME SumTo(g, d, n)
      PROVE  /\ g = [m \in 0 .. n |-> g[m]]
             /\ g[0] = 0
             /\ \A m \in 1 .. n : g[m] = g[m - 1] + d[m]
  <2>1. g = [m \in 0 .. n |-> IF m = 0 THEN 0 ELSE g[m - 1] + d[m]]
    BY <1>1 DEF SumTo
  <2>2. \A m \in 0 .. n : g[m] = IF m = 0 THEN 0 ELSE g[m - 1] + d[m]
    BY <2>1
  <2>3. DOMAIN g = 0 .. n
    BY <2>1
  <2>4. g = [m \in 0 .. n |-> g[m]]
    BY <2>1, <2>2
  <2>5. 0 \in 0 .. n /\ \A m \in 1 .. n : m \in 0 .. n /\ m # 0
    OBVIOUS
  <2>6. QED
    BY <2>2, <2>4, <2>5
<1>2. ASSUME g = [m \in 0 .. n |-> g[m]], g[0] = 0,
             \A m \in 1 .. n : g[m] = g[m - 1] + d[m]
      PROVE  SumTo(g, d, n)
  <2>1. \A m \in 0 .. n : m = 0 \/ m \in 1 .. n
    OBVIOUS
  <2>2. \A m \in 0 .. n : g[m] = IF m = 0 THEN 0 ELSE g[m - 1] + d[m]
    BY <1>2, <2>1
  <2>3. QED
    BY <1>2, <2>2 DEF SumTo
<1>3. QED
  BY <1>1, <1>2

\* There is a running sum up to every number.
LEMMA SumExists ==
  ASSUME NEW d
  PROVE  \A n \in Nat : \E g : SumTo(g, d, n)
<1> DEFINE S == {n \in Nat : \E g : SumTo(g, d, n)}
<1>1. 0 \in S
  <2>1. PICK g : g = [m \in 0 .. 0 |-> 0]
    OBVIOUS
  <2>2. g = [m \in 0 .. 0 |-> g[m]] /\ g[0] = 0 /\ 1 .. 0 = {}
    BY <2>1
  <2>3. SumTo(g, d, 0)
    BY <2>2, SumToIs
  <2>4. QED
    BY <2>3
<1>2. ASSUME NEW n \in Nat \ {0}, n - 1 \in S
      PROVE  n \in S
  <2>1. PICK g : SumTo(g, d, n - 1)
    BY <1>2
  <2>2. n - 1 \in Nat
    OBVIOUS
  <2>3. g[0] = 0 /\ \A m \in 1 .. (n - 1) : g[m] = g[m - 1] + d[m]
    BY <2>1, <2>2, SumToIs
  <2>4. PICK v : v = g[n - 1] + d[n]
    OBVIOUS
  <2>5. PICK h : h = [m \in 0 .. n |-> IF m = n THEN v ELSE g[m]]
    OBVIOUS
  <2>6. h[n] = v /\ \A m \in 0 .. (n - 1) : h[m] = g[m]
    BY <2>5
  <2>7. h = [m \in 0 .. n |-> h[m]]
    BY <2>5
  <2>8. h[0] = 0
    BY <2>3, <2>6
  <2>9. \A m \in 1 .. n : h[m] = h[m - 1] + d[m]
    <3> SUFFICES ASSUME NEW m \in 1 .. n PROVE h[m] = h[m - 1] + d[m]
      OBVIOUS
    <3>1. CASE m = n
      <4>1. n - 1 \in 0 .. (n - 1)
        OBVIOUS
      <4>2. QED
        BY <2>4, <2>6, <3>1, <4>1
    <3>2. CASE m # n
      <4>1. m \in 1 .. (n - 1) /\ m \in 0 .. (n - 1) /\ m - 1 \in 0 .. (n - 1)
        BY <3>2
      <4>2. QED
        BY <2>3, <2>6, <4>1
    <3>3. QED
      BY <3>1, <3>2
  <2>10. SumTo(h, d, n)
    BY <2>7, <2>8, <2>9, SumToIs
  <2>11. QED
    BY <2>10
<1> HIDE DEF S
<1>3. \A n \in Nat : n \in S
  BY <1>1, <1>2, Induct
<1>4. QED
  BY <1>3 DEF S

\* Running sums agree as far as both go.
LEMMA SumsAgree ==
  ASSUME NEW d, NEW n \in Nat, NEW k \in Nat, n <= k, NEW g, NEW h,
         SumTo(g, d, n), SumTo(h, d, k)
  PROVE  \A m \in 0 .. n : g[m] = h[m]
<1> DEFINE S == {m \in Nat : m <= n => g[m] = h[m]}
<1>1. g[0] = 0 /\ \A m \in 1 .. n : g[m] = g[m - 1] + d[m]
  BY SumToIs
<1>2. h[0] = 0 /\ \A m \in 1 .. k : h[m] = h[m - 1] + d[m]
  BY SumToIs
<1>3. 0 \in S
  BY <1>1, <1>2
<1>4. ASSUME NEW m \in Nat \ {0}, m - 1 \in S
      PROVE  m \in S
  <2> SUFFICES ASSUME m <= n PROVE g[m] = h[m]
    OBVIOUS
  <2>1. g[m - 1] = h[m - 1]
    BY <1>4
  <2>2. m \in 1 .. n /\ m \in 1 .. k
    OBVIOUS
  <2>3. g[m] = g[m - 1] + d[m] /\ h[m] = h[m - 1] + d[m]
    BY <1>1, <1>2, <2>2
  <2>4. QED
    BY <2>1, <2>3
<1> HIDE DEF S
<1>5. \A m \in Nat : m \in S
  BY <1>3, <1>4, Induct
<1>6. QED
  BY <1>5 DEF S

\* There is a running sum of all elements.
LEMMA SumOfAll ==
  ASSUME NEW d
  PROVE  \E f : f = [n \in Nat |-> IF n = 0 THEN 0 ELSE f[n - 1] + d[n]]
<1>1. PICK g : g = [n \in Nat |-> CHOOSE h : SumTo(h, d, n)]
  OBVIOUS
<1>2. \A n \in Nat : SumTo(g[n], d, n)
  BY <1>1, SumExists
<1>3. PICK f : f = [n \in Nat |-> g[n][n]]
  OBVIOUS
<1>4. ASSUME NEW n \in Nat
      PROVE  f[n] = IF n = 0 THEN 0 ELSE f[n - 1] + d[n]
  <2>1. f[n] = g[n][n]
    BY <1>3
  <2>2. SumTo(g[n], d, n)
    BY <1>2
  <2>3. g[n][0] = 0 /\ \A m \in 1 .. n : g[n][m] = g[n][m - 1] + d[m]
    BY <2>2, SumToIs
  <2>4. CASE n = 0
    BY <2>1, <2>3, <2>4
  <2>5. CASE n # 0
    <3>1. n - 1 \in Nat /\ n \in 1 .. n /\ n - 1 <= n /\ n - 1 \in 0 .. (n - 1)
      BY <2>5
    <3>2. f[n - 1] = g[n - 1][n - 1] /\ SumTo(g[n - 1], d, n - 1)
      BY <1>2, <1>3, <3>1
    <3>3. g[n - 1][n - 1] = g[n][n - 1]
      <4>1. PICK k \in Nat : k = n - 1
        BY <3>1
      <4>2. PICK x, y : x = g[k] /\ y = g[n]
        OBVIOUS
      <4>3. SumTo(x, d, k) /\ SumTo(y, d, n) /\ k <= n /\ k \in 0 .. k
        BY <2>2, <3>1, <3>2, <4>1, <4>2
      <4>4. \A m \in 0 .. k : x[m] = y[m]
        BY <4>3, SumsAgree
      <4>5. QED
        BY <4>1, <4>2, <4>3, <4>4
    <3>4. QED
      BY <2>1, <2>3, <2>5, <3>1, <3>2, <3>3
  <2>6. QED
    BY <2>4, <2>5
<1>5. f = [n \in Nat |-> IF n = 0 THEN 0 ELSE f[n - 1] + d[n]]
  BY <1>3, <1>4
<1>6. QED
  BY <1>5

(* What file n puts in the second section.                                 *)
TableOf(n) == IF IsPe(n) /\ iRomSectionNumber[n] = 0 THEN files[n].size2 ELSE 0

\* The forecast is the running sum of the tables.
LEMMA TablesAre ==
  /\ FirstSectionTables[0] = 0
  /\ \A n \in Nat \ {0} : FirstSectionTables[n] = FirstSectionTables[n - 1] + TableOf(n)
<1>1. PICK d : d = [n \in Nat |-> TableOf(n)]
  OBVIOUS
<1>2. PICK f : f = [n \in Nat |-> IF n = 0 THEN 0 ELSE f[n - 1] + d[n]]
  BY SumOfAll
<1>3. \A n \in Nat : (IF n = 0 THEN 0 ELSE f[n - 1] + d[n]) =
        (IF n = 0 THEN 0 ELSE f[n - 1] + TableOf(n))
  BY <1>1
<1>4. f = [n \in Nat |-> IF n = 0 THEN 0 ELSE f[n - 1] + TableOf(n)]
  BY <1>2, <1>3
<1>5. f = [n \in Nat |-> IF n = 0 THEN 0
                         ELSE f[n - 1] + (IF IsPe(n) /\ iRomSectionNumber[n] = 0
                                            THEN files[n].size2 ELSE 0)]
  BY <1>4 DEF TableOf
<1>6. FirstSectionTables =
        [n \in Nat |-> IF n = 0 THEN 0
                       ELSE FirstSectionTables[n - 1]
                              + (IF IsPe(n) /\ iRomSectionNumber[n] = 0
                                   THEN files[n].size2 ELSE 0)]
  BY <1>5 DEF FirstSectionTables
<1>7. FirstSectionTables =
        [n \in Nat |-> IF n = 0 THEN 0 ELSE FirstSectionTables[n - 1] + TableOf(n)]
  BY <1>6 DEF TableOf
<1> HIDE DEF FirstSectionTables
<1>8. QED
  BY <1>7

\* The forecast changes with the files only.
LEMMA SameTables ==
  ASSUME UNCHANGED <<files, iRomSectionNumber>>
  PROVE  FirstSectionTables' = FirstSectionTables
  BY DEF FirstSectionTables, IsPe

\* The forecast of the files of a section is a number.
LEMMA TablesType ==
  ASSUME files \in Seq(Line)
  PROVE  \A n \in 0 .. Len(files) : FirstSectionTables[n] \in Nat
<1>0. Len(files) \in Nat
  OBVIOUS
<1> DEFINE S == {n \in Nat : n <= Len(files) => FirstSectionTables[n] \in Nat}
<1>1. 0 \in S
  BY TablesAre
<1>2. ASSUME NEW n \in Nat \ {0}, n - 1 \in S
      PROVE  n \in S
  <2> SUFFICES ASSUME n <= Len(files) PROVE FirstSectionTables[n] \in Nat
    OBVIOUS
  <2>1. FirstSectionTables[n - 1] \in Nat
    BY <1>0, <1>2
  <2>2. files[n] \in Line
    BY <1>0
  <2>3. TableOf(n) \in Nat
    BY <2>2 DEF TableOf, Line
  <2>4. FirstSectionTables[n] = FirstSectionTables[n - 1] + TableOf(n)
    BY TablesAre
  <2> HIDE DEF S
  <2>5. QED
    BY <2>1, <2>3, <2>4
<1> HIDE DEF S
<1>3. \A n \in Nat : n \in S
  BY <1>1, <1>2, Induct
<1>4. QED
  BY <1>0, <1>3 DEF S

\* The files of the second section add nothing to the forecast.
LEMMA TablesEnd ==
  ASSUME files \in Seq(Line), NEW k \in 0 .. Len(files),
         \A i \in 1 .. Len(files) : k < i => iRomSectionNumber[i] # 0
  PROVE  FirstSectionTables[Len(files)] = FirstSectionTables[k]
<1>0. Len(files) \in Nat /\ k \in Nat /\ k <= Len(files)
  OBVIOUS
<1> DEFINE S == {n \in Nat : k <= n /\ n <= Len(files) =>
                               FirstSectionTables[n] = FirstSectionTables[k]}
<1>1. 0 \in S
  <2>1. k <= 0 => k = 0
    BY <1>0
  <2>2. QED
    BY <2>1
<1>2. ASSUME NEW n \in Nat \ {0}, n - 1 \in S
      PROVE  n \in S
  <2> SUFFICES ASSUME k <= n, n <= Len(files)
               PROVE  FirstSectionTables[n] = FirstSectionTables[k]
    OBVIOUS
  <2>1. CASE n = k
    BY <2>1
  <2>2. CASE n # k
    <3>1. k <= n - 1 /\ n - 1 <= Len(files) /\ n \in 1 .. Len(files) /\ k < n
      BY <1>0, <2>2
    <3>2. FirstSectionTables[n - 1] = FirstSectionTables[k]
      BY <1>2, <3>1
    <3>3. TableOf(n) = 0
      BY <3>1 DEF TableOf
    <3>4. FirstSectionTables[n] = FirstSectionTables[n - 1] + TableOf(n)
      BY TablesAre
    <3>5. FirstSectionTables[n - 1] \in Nat
      BY <1>0, <3>1, TablesType
    <3> HIDE DEF S
    <3>6. QED
      BY <3>2, <3>3, <3>4, <3>5
  <2>3. QED
    BY <2>1, <2>2
<1> HIDE DEF S
<1>3. \A n \in Nat : n \in S
  BY <1>1, <1>2, Induct
<1>4. QED
  BY <1>0, <1>3 DEF S

-----------------------------------------------------------------------------
(* The two sections.                                                       *)

Sectioned == iSectionPosition # NotSectioned

(* The files of the two sections, as ParseSection counts them.             *)
Counted ==
  /\ iSectionPosition <= Len(files)
  /\ \A i \in 1 .. Len(files) :
       iRomSectionNumber[i] = IF ~Sectioned \/ i <= iSectionPosition THEN 0 ELSE 1

HcrRead ==
  \A i \in 1 .. Len(files) : files[i].keyword = "hcr" =>
    ~rom.extension /\ \E j \in 1 .. Len(rom.lines) : j < line /\ rom.lines[j].keyword = "hcr"

Forecast(n) == iSectionStart + SectionHeader + FirstSectionTables[n]

InSections ==
  \A p \in placed :
    (p.what = "file" /\ p.part = 1) =>
      IF iRomSectionNumber[p.of] = 0
        THEN p.hi <= iSectionStart
        ELSE p.lo >= directory + DirectorySize

SectionsInv ==
  /\ outcome # "directory overwritten"
  /\ Sectioned => ~rom.paged /\ ~rom.extension
  /\ pc \in {"obey", "sort", "exceptions", "directory", "relocations", "layout"} => Counted
  /\ pc = "obey" => HcrRead
  /\ pc \in {"sort", "exceptions", "directory", "relocations"} =>
       \A p \in placed : p.what # "file"
  /\ pc \in {"relocations", "layout"} /\ Sectioned => directory = Forecast(Len(files))
  /\ pc = "layout" /\ Sectioned /\ second # Null =>
       /\ second = Forecast(fileCount)
       /\ \A p \in placed : p.what = "file" => p.of \in Walked(current)
  /\ pc = "layout" /\ Sectioned /\ second = Null =>
       /\ InSections
       /\ directory + DirectorySize <= main
       /\ iSectionPosition <= fileCount
  /\ (pc \in {"exceptions last", "size", "pages"} \/ outcome = "built") /\ Sectioned => InSections

\* What was foreseen is reached.
LEMMA ForeseenReached ==
  ASSUME \A r \in Roms : Foreseen(r)
  PROVE  \A r \in Roms : Reached(r)
  BY DEF Foreseen

\* No section is there at first.
LEMMA SectionsInit == Init => SectionsInv
  BY DEF Init, SectionsInv, Sectioned

\* A failure leaves nothing to show.
LEMMA SectionsFail ==
  ASSUME NEW how, Fail(how), how # "built", how # "directory overwritten", SectionsInv
  PROVE  SectionsInv'
  BY DEF Fail, SectionsInv, Sectioned, obeyVars

\* The passes over the obey file.
LEMMA SectionsRead ==
  ASSUME \A r \in Roms : Foreseen(r), TypeStrong, PiecesInv, FilesInv, SectionsInv,
         ParseAreaKeyword \/ CreateDefaultArea \/ SkipLine \/ ParseSection \/ ProcessFile
  PROVE  SectionsInv'
<1>0. /\ files \in Seq(Line) /\ Len(files) \in Nat
      /\ rom.lines \in Seq(Line) /\ Len(rom.lines) \in Nat
      /\ line \in Nat \ {0} /\ rom \in Roms
      /\ iSectionPosition \in Int
      /\ pc # "done" => outcome = "building"
  BY ForeseenReached, FilesFacts
<1> USE DEF obeyVars, listVars, layoutVars, endVars
<1>f. Fail("refused") => SectionsInv'
  BY SectionsFail
<1>1. CASE ParseAreaKeyword
  <2>1. CASE ~Fail("refused")
    <3>1. pc = "areas" /\ pc' = "areas" /\ UNCHANGED <<rom, outcome, iSectionPosition>>
      BY <1>1, <2>1 DEF ParseAreaKeyword, AddArea
    <3>2. QED
      BY <1>0, <3>1 DEF SectionsInv, Sectioned
  <2>2. QED
    BY <1>f, <2>1
<1>2. CASE CreateDefaultArea
  <2>1. CASE ~Fail("refused")
    <3>1. /\ pc = "areas" /\ pc' = "obey"
          /\ UNCHANGED <<rom, outcome, files, iSectionPosition>>
      BY <1>2, <2>1 DEF CreateDefaultArea, AddArea
    <3>2. Len(files') = 0 /\ iSectionPosition' = NotSectioned
      BY <3>1 DEF FilesInv
    <3>3. \A i \in 1 .. Len(files') : FALSE
      BY <3>2
    <3>4. Counted' /\ HcrRead' /\ ~Sectioned'
      BY <3>2, <3>3 DEF Counted, HcrRead, NotSectioned, Sectioned
    <3>5. QED
      BY <1>0, <3>1, <3>4 DEF SectionsInv
  <2>2. QED
    BY <1>f, <2>1
<1>8. CASE SkipLine /\ pc = "areas"
  <2>1. pc' = "areas" /\ UNCHANGED <<rom, outcome, iSectionPosition>>
    BY <1>8 DEF SkipLine
  <2>2. QED
    BY <1>0, <1>8, <2>1 DEF SectionsInv, Sectioned
<1>3. CASE SkipLine /\ pc # "areas"
  <2>1. /\ pc = "obey" /\ pc' = "obey" /\ line' = line + 1
        /\ UNCHANGED <<rom, outcome, files, iRomSectionNumber, iSectionPosition>>
    BY <1>3 DEF SkipLine, ReadLine
  <2>2. Counted' /\ Sectioned' = Sectioned
    BY <2>1 DEF SectionsInv, Counted, Sectioned
  <2>3. HcrRead'
    <3>1. \A j \in 1 .. Len(rom.lines) : j < line => j < line'
      BY <1>0, <2>1
    <3>2. QED
      BY <2>1, <3>1 DEF SectionsInv, HcrRead
  <2>4. QED
    BY <1>0, <2>1, <2>2, <2>3 DEF SectionsInv
<1>4. CASE ParseSection
  <2>1. CASE ~Fail("refused")
    <3>1. /\ pc = "obey" /\ pc' = "obey" /\ line' = line + 1 /\ line <= Len(rom.lines)
          /\ UNCHANGED <<rom, outcome, files, iRomSectionNumber>>
          /\ iSectionPosition' = NumberOfFiles
          /\ rom.lines[line].keyword = "section"
          /\ ~rom.extension /\ iSectionPosition = NotSectioned
      BY <1>4, <2>1 DEF ParseSection, ReadLine, NotSupported
    <3>2. line \in 1 .. Len(rom.lines)
      BY <1>0, <3>1
    <3>3. ~HcrUncounted(rom.lines) /\ ~rom.paged
      BY <1>0, <3>1, <3>2 DEF Foreseen, HasSection
    <3>4. \A i \in 1 .. Len(files) : files[i].keyword # "hcr"
      BY <3>1, <3>2, <3>3 DEF SectionsInv, HcrRead, HcrUncounted
    <3>5. NumberOfFiles = Len(files)
      <4>1. {i \in 1 .. Len(files) : files[i].keyword # "hcr"} = 1 .. Len(files)
        BY <3>4
      <4>2. Cardinality(1 .. Len(files)) = Len(files)
        BY <1>0, CountAll
      <4>3. QED
        BY <4>1, <4>2 DEF NumberOfFiles
    <3>6. Counted'
      <4>1. \A i \in 1 .. Len(files) : iRomSectionNumber[i] = 0 /\ i <= Len(files)
        BY <1>0, <3>1 DEF SectionsInv, Counted, Sectioned
      <4>2. Len(files) <= Len(files)
        BY <1>0
      <4>3. QED
        BY <3>1, <3>5, <4>1, <4>2 DEF Counted
    <3>7. HcrRead'
      <4>1. \A j \in 1 .. Len(rom.lines) : j < line => j < line'
        BY <1>0, <3>1
      <4>2. QED
        BY <3>1, <4>1 DEF SectionsInv, HcrRead
    <3>8. QED
      BY <1>0, <3>1, <3>3, <3>6, <3>7 DEF SectionsInv
  <2>2. QED
    BY <1>f, <2>1
<1>5. CASE ProcessFile
  <2>1. CASE ~Fail("refused")
    <3>1. /\ pc = "obey" /\ pc' = "obey" /\ line' = line + 1 /\ line <= Len(rom.lines)
          /\ UNCHANGED <<rom, outcome, iSectionPosition>>
          /\ files' = Append(files, rom.lines[line])
          /\ iRomSectionNumber' = Append(iRomSectionNumber, IF ~Sectioned THEN 0 ELSE 1)
          /\ rom.lines[line].keyword = "hcr" => ~rom.extension
      BY <1>5, <2>1 DEF ProcessFile, ReadLine, NotSupported, Sectioned
    <3>2. rom.lines[line] \in Line /\ line \in 1 .. Len(rom.lines)
      BY <1>0, <3>1
    <3>3. PICK n \in Nat : n = Len(files)
      BY <1>0
    <3>4. /\ Len(files') = n + 1
          /\ files'[n + 1] = rom.lines[line]
          /\ \A i \in 1 .. n : files'[i] = files[i]
      BY <1>0, <3>1, <3>2, <3>3
    <3>5. iRomSectionNumber \in [1 .. n -> {0, 1}]
      BY <3>3 DEF TypeStrong, TypeOK
    <3>6. PICK x \in {0, 1} : x = IF ~Sectioned THEN 0 ELSE 1
      OBVIOUS
    <3>7. /\ iRomSectionNumber'[n + 1] = x
          /\ \A i \in 1 .. n : iRomSectionNumber'[i] = iRomSectionNumber[i]
      <4>1. iRomSectionNumber' = Append(iRomSectionNumber, x)
        BY <3>1, <3>6
      <4>2. Len(iRomSectionNumber) = n /\ iRomSectionNumber \in Seq({0, 1})
        BY <3>5, AppendType
      <4>3. QED
        BY <4>1, <4>2
    <3>8. Counted /\ HcrRead
      BY <3>1 DEF SectionsInv
    <3>9. Counted'
      <4>1. iSectionPosition <= n
        BY <3>3, <3>8 DEF Counted
      <4>2. iSectionPosition' <= Len(files')
        BY <1>0, <3>1, <3>4, <4>1
      <4>3. ASSUME NEW i \in 1 .. (n + 1)
            PROVE  iRomSectionNumber'[i] = IF ~Sectioned \/ i <= iSectionPosition THEN 0 ELSE 1
        <5>1. CASE i = n + 1
          <6>1. ~(i <= iSectionPosition)
            BY <1>0, <4>1, <5>1
          <6>2. QED
            BY <3>6, <3>7, <5>1, <6>1
        <5>2. CASE i # n + 1
          <6>1. i \in 1 .. n
            BY <5>2
          <6>2. QED
            BY <3>3, <3>7, <3>8, <6>1 DEF Counted
        <5>3. QED
          BY <5>1, <5>2
      <4>4. Sectioned' = Sectioned
        BY <3>1 DEF Sectioned
      <4>5. QED
        BY <3>1, <3>4, <4>2, <4>3, <4>4 DEF Counted
    <3>10. HcrRead'
      <4>1. ASSUME NEW i \in 1 .. (n + 1), files'[i].keyword = "hcr"
            PROVE  ~rom.extension /\ \E j \in 1 .. Len(rom.lines) :
                                       j < line' /\ rom.lines[j].keyword = "hcr"
        <5>1. CASE i = n + 1
          <6>1. line < line' /\ rom.lines[line].keyword = "hcr"
            BY <1>0, <3>1, <3>4, <4>1, <5>1
          <6>2. QED
            BY <3>1, <3>2, <6>1
        <5>2. CASE i # n + 1
          <6>1. i \in 1 .. n /\ files[i].keyword = "hcr"
            BY <3>4, <4>1, <5>2
          <6>2. ~rom.extension /\ \E j \in 1 .. Len(rom.lines) :
                                    j < line /\ rom.lines[j].keyword = "hcr"
            BY <3>3, <3>8, <6>1 DEF HcrRead
          <6>3. \A j \in 1 .. Len(rom.lines) : j < line => j < line'
            BY <1>0, <3>1
          <6>4. QED
            BY <6>2, <6>3
        <5>3. QED
          BY <5>1, <5>2
      <4>2. QED
        BY <3>1, <3>4, <4>1 DEF HcrRead
    <3>11. Sectioned' = Sectioned
      BY <3>1 DEF Sectioned
    <3>12. QED
      BY <1>0, <3>1, <3>9, <3>10, <3>11 DEF SectionsInv
  <2>2. QED
    BY <1>f, <2>1
<1>6. QED
  BY <1>1, <1>2, <1>3, <1>4, <1>5, <1>8

\* What the second section is does not change while the files do not.
LEMMA SameSections ==
  ASSUME UNCHANGED <<rom, files, iRomSectionNumber, iSectionStart, iSectionPosition>>
  PROVE  /\ Sectioned' = Sectioned
         /\ Counted => Counted'
         /\ DirectorySize' = DirectorySize
         /\ \A n : (Forecast(n))' = Forecast(n)
<1>1. FirstSectionTables' = FirstSectionTables
  BY SameTables
<1>2. \A n : (Forecast(n))' = Forecast(n)
  BY <1>1 DEF Forecast
<1>3. QED
  BY <1>2 DEF Sectioned, Counted, DirectorySize

\* Pieces that are not the first part of a file are in no section.
LEMMA InSectionsStay ==
  ASSUME UNCHANGED <<rom, files, iRomSectionNumber, iSectionStart, iSectionPosition, directory>>,
         NEW what, NEW of, NEW part, NEW lo, NEW hi, what # "file",
         placed' \subseteq placed \cup {Piece(what, of, part, lo, hi)},
         InSections
  PROVE  InSections'
<1>1. DirectorySize' = DirectorySize
  BY SameSections
<1>2. Piece(what, of, part, lo, hi).what # "file"
  BY DEF Piece
<1>3. \A p \in placed' : p.what = "file" => p \in placed
  BY <1>2
<1>4. QED
  BY <1>1, <1>3 DEF InSections

\* The tables before the files, and the directory where it was forecast.
LEMMA SectionsTables ==
  ASSUME \A r \in Roms : Foreseen(r), TypeStrong, PiecesInv, FilesInv, SectionsInv,
         EndObey \/ SortFilesForPagedRom \/ ReserveRomExceptionSearchTable \/ WriteDirectory
  PROVE  SectionsInv'
<1> USE DEF obeyVars, listVars, layoutVars, endVars
<1>0. pc # "done" => outcome = "building"
  BY DEF PiecesInv
<1>f. Fail("refused") \/ Fail("no room") \/ Fail("crashed") => SectionsInv'
  BY SectionsFail
<1>1. CASE EndObey
  <2>1. CASE ~Fail("refused")
    <3>1. /\ pc = "obey" /\ pc' \in {"sort", "directory"}
          /\ placed' = {Piece("head", 0, 1, Base, Base + HeadSize)}
          /\ UNCHANGED <<rom, outcome, files, iRomSectionNumber, iSectionStart,
                         iSectionPosition>>
      BY <1>1, <2>1 DEF EndObey
    <3>2. Counted' /\ Sectioned' = Sectioned
      BY <3>1, SameSections DEF SectionsInv
    <3>3. \A p \in placed' : p.what # "file"
      BY <3>1 DEF Piece
    <3>4. QED
      BY <1>0, <3>1, <3>2, <3>3 DEF SectionsInv
  <2>2. QED
    BY <1>f, <2>1
<1>2. CASE SortFilesForPagedRom
  <2>1. /\ pc = "sort" /\ pc' = "exceptions"
        /\ UNCHANGED <<rom, outcome, files, iRomSectionNumber, iSectionStart,
                       iSectionPosition, placed>>
    BY <1>2 DEF SortFilesForPagedRom
  <2>2. Counted' /\ Sectioned' = Sectioned
    BY <2>1, SameSections DEF SectionsInv
  <2>3. QED
    BY <1>0, <2>1, <2>2 DEF SectionsInv
<1>3. CASE ReserveRomExceptionSearchTable
  <2>1. CASE ~Fail("no room")
    <3>1. PICK q : q = Piece("exceptions", 0, 1, main, main + ExceptionTable)
      OBVIOUS
    <3>2. /\ placed' = placed \cup {q}
          /\ UNCHANGED <<rom, outcome, files, iRomSectionNumber, iSectionStart,
                         iSectionPosition, directory>>
          /\ \/ pc = "exceptions" /\ pc' = "directory"
             \/ pc = "exceptions last" /\ pc' = "size"
      BY <1>3, <2>1, <3>1 DEF ReserveRomExceptionSearchTable
    <3>3. q.what # "file"
      BY <3>1 DEF Piece
    <3>4. CASE pc = "exceptions" /\ pc' = "directory"
      <4>1. Counted' /\ Sectioned' = Sectioned
        BY <3>2, <3>4, SameSections DEF SectionsInv
      <4>2. \A p \in placed' : p.what # "file"
        BY <3>2, <3>3, <3>4 DEF SectionsInv
      <4>3. QED
        BY <1>0, <3>2, <3>4, <4>1, <4>2 DEF SectionsInv
    <3>5. CASE pc = "exceptions last" /\ pc' = "size"
      <4>1. Sectioned' = Sectioned
        BY <3>2, SameSections
      <4>2. InSections => InSections'
        BY <3>1, <3>2, InSectionsStay
      <4>3. QED
        BY <1>0, <3>2, <3>5, <4>1, <4>2 DEF SectionsInv
    <3>6. QED
      BY <3>2, <3>4, <3>5
  <2>2. QED
    BY <1>f, <2>1
<1>4. CASE WriteDirectory
  <2>1. CASE ~Fail("crashed")
    <3>1. PICK q : q = Piece("directory", 0, 1, DirectoryAddr, DirectoryAddr + DirectorySize)
      OBVIOUS
    <3>2. /\ pc = "directory" /\ pc' = "relocations"
          /\ placed' = placed \cup {q} /\ directory' = DirectoryAddr
          /\ UNCHANGED <<rom, outcome, files, iRomSectionNumber, iSectionStart,
                         iSectionPosition>>
      BY <1>4, <2>1, <3>1 DEF WriteDirectory
    <3>3. q.what # "file"
      BY <3>1 DEF Piece
    <3>4. Counted' /\ Sectioned' = Sectioned
      BY <3>2, SameSections DEF SectionsInv
    <3>5. \A p \in placed' : p.what # "file"
      BY <3>2, <3>3 DEF SectionsInv
    <3>6. Sectioned => directory' = Forecast(Len(files))
      BY <3>2 DEF DirectoryAddr, Sectioned, Forecast
    <3>7. (Forecast(Len(files)))' = Forecast(Len(files))
      <4>1. FirstSectionTables' = FirstSectionTables
        BY <3>2, SameTables
      <4>2. QED
        BY <3>2, <4>1 DEF Forecast
    <3>8. QED
      BY <1>0, <3>2, <3>4, <3>5, <3>6, <3>7 DEF SectionsInv
  <2>2. QED
    BY <1>f, <2>1
<1>5. QED
  BY <1>1, <1>2, <1>3, <1>4

\* LayoutRom begins at the first table of the second section.
LEMMA SectionsAllocate ==
  ASSUME \A r \in Roms : Foreseen(r), TypeStrong, PiecesInv, FilesInv, SectionsInv,
         AllocateRelocationTable
  PROVE  SectionsInv'
<1>0. iSectionStart \in Nat /\ SectionHeader \in Nat /\ (pc # "done" => outcome = "building")
  BY Constants DEF PiecesInv, TypeStrong, TypeOK
<1>1. PICK size : size = IF iAreaSet.iAreaCount > 1 THEN iAreaSet.iAreaCount * Reloc ELSE 0
  OBVIOUS
<1>2. PICK q : q = Piece("relocations", 0, 1, main, main + size)
  OBVIOUS
<1>3. /\ pc = "relocations" /\ pc' = "layout"
      /\ placed' \subseteq placed \cup {q}
      /\ second' = IF iSectionStart # 0 THEN iSectionStart + SectionHeader ELSE Null
      /\ fileCount' = 0
      /\ UNCHANGED <<rom, outcome, files, iRomSectionNumber, iSectionStart,
                     iSectionPosition, directory>>
  BY <1>1, <1>2 DEF AllocateRelocationTable, obeyVars
<1>4. q.what # "file"
  BY <1>2 DEF Piece
<1>5. Counted' /\ Sectioned' = Sectioned
  BY <1>3, SameSections DEF SectionsInv
<1>6. \A p \in placed' : p.what # "file"
  BY <1>3, <1>4 DEF SectionsInv
<1>7. FirstSectionTables' = FirstSectionTables
  BY <1>3, SameTables
<1>8. Sectioned => directory' = (Forecast(Len(files)))'
  BY <1>3, <1>7 DEF SectionsInv, Forecast
<1>9. Sectioned => second' # Null /\ second' = (Forecast(fileCount))'
  <2>1. Sectioned => iSectionStart # 0
    BY DEF PiecesInv, Sectioned
  <2>2. Sectioned => second' = iSectionStart + SectionHeader /\ second' # 0
    BY <1>0, <1>3, <2>1
  <2>3. (Forecast(fileCount))' = iSectionStart + SectionHeader + FirstSectionTables[0]
    BY <1>3, <1>7 DEF Forecast
  <2>4. FirstSectionTables[0] = 0
    BY TablesAre
  <2>5. (Forecast(fileCount))' = iSectionStart + SectionHeader
    BY <1>0, <2>3, <2>4
  <2>6. QED
    BY <2>2, <2>5 DEF Null
<1>10. QED
  BY <1>0, <1>3, <1>5, <1>6, <1>8, <1>9 DEF SectionsInv

\* The files of an image that is not paged are walked in the order of the obey file.
LEMMA WalkedUnpaged ==
  ASSUME files \in Seq(Line), ~rom.paged, NEW c \in 1 .. Len(files)
  PROVE  Walked(c) = 1 .. (c - 1) /\ Cardinality(Walked(c)) = c - 1
<1>1. PICK n \in Nat : n = Len(files)
  OBVIOUS
<1>2. \A i : Before(i, c) <=> i < c
  BY RankType DEF Before
<1>3. Walked(c) = {i \in 1 .. n : i < c}
  BY <1>1, <1>2 DEF Walked, Null
<1>4. {i \in 1 .. n : i < c} = 1 .. (c - 1)
  BY <1>1
<1>5. c - 1 \in Nat
  BY <1>1
<1>6. Cardinality(1 .. (c - 1)) = c - 1
  BY <1>5, CountAll
<1>7. QED
  BY <1>3, <1>4, <1>6

\* The walk comes to the second section where it was forecast: the directory is not
\* overwritten, and the files walked are those before the section line.
LEMMA SectionsNextRom ==
  ASSUME \A r \in Roms : Foreseen(r), TypeStrong, PiecesInv, FilesInv, SectionsInv, NextRom
  PROVE  SectionsInv'
<1> USE DEF obeyVars, listVars, layoutVars, endVars
<1>0. /\ files \in Seq(Line) /\ Len(files) \in Nat
      /\ current \in 0 .. Len(files) /\ iSectionStart \in Nat /\ main \in Nat
      /\ iSectionPosition \in Int /\ (iSectionPosition = NotSectioned \/ iSectionPosition >= 0)
      /\ pc # "done" => outcome = "building"
  BY ForeseenReached, FilesFacts
<1>d. DirectorySize \in Nat
  BY <1>0, Counts
<1>1. /\ pc = "layout" /\ current # Null /\ fileCount = iSectionPosition /\ second # Null
  BY DEF NextRom, AtSection
<1>2. PICK c \in 1 .. Len(files) : c = current
  BY <1>0, <1>1 DEF Null
<1>3. /\ Sectioned /\ iSectionPosition < Len(files)
      /\ fileCount = Cardinality(Walked(current))
  BY <1>1 DEF FilesInv, Sectioned
<1>4. /\ ~rom.paged /\ ~rom.extension /\ Counted
      /\ second = Forecast(fileCount) /\ directory = Forecast(Len(files))
      /\ \A p \in placed : p.what = "file" => p.of \in Walked(current)
  BY <1>1, <1>3 DEF SectionsInv
<1>5. Walked(c) = 1 .. (c - 1) /\ iSectionPosition = c - 1
  BY <1>0, <1>1, <1>2, <1>3, <1>4, WalkedUnpaged
<1>6. second = directory
  <2>1. PICK k \in 0 .. Len(files) : k = iSectionPosition
    BY <1>0, <1>2, <1>5
  <2>2. \A i \in 1 .. Len(files) : k < i => iRomSectionNumber[i] # 0
    <3>1. \A i \in 1 .. Len(files) : k < i => ~(i <= k)
      BY <1>0, <2>1
    <3>2. QED
      BY <1>3, <1>4, <2>1, <3>1 DEF Counted
  <2>3. FirstSectionTables[Len(files)] = FirstSectionTables[k]
    BY <1>0, <2>2, TablesEnd
  <2>4. QED
    BY <1>1, <1>4, <2>1, <2>3 DEF Forecast
<1>7. CASE main > iSectionStart
  <2>1. Fail("first section overflowed")
    BY <1>7 DEF NextRom
  <2>2. QED
    BY <2>1, SectionsFail
<1>8. CASE ~(main > iSectionStart)
  <2>1. PICK q : q = Piece("section", 0, 1, iSectionStart, iSectionStart + SectionHeader)
    OBVIOUS
  <2>2. /\ main' = directory + DirectorySize /\ second' = Null
        /\ placed' \subseteq placed \cup {q}
        /\ UNCHANGED <<rom, pc, outcome, files, iRomSectionNumber, iSectionStart,
                       iSectionPosition, current, fileCount, directory>>
    BY <1>6, <1>8, <2>1 DEF NextRom, AfterDirectory
  <2>3. Counted' /\ Sectioned' = Sectioned /\ DirectorySize' = DirectorySize
    BY <1>4, <2>2, SameSections
  <2>4. (Forecast(Len(files)))' = Forecast(Len(files))
    <3>1. FirstSectionTables' = FirstSectionTables
      BY <2>2, SameTables
    <3>2. QED
      BY <2>2, <3>1 DEF Forecast
  <2>5. InSections'
    <3>1. ASSUME NEW p \in placed, p.what = "file", p.part = 1
          PROVE  iRomSectionNumber[p.of] = 0 /\ p.hi <= iSectionStart
      <4>1. p.of \in 1 .. (c - 1)
        BY <1>2, <1>4, <1>5, <3>1
      <4>2. p.of \in 1 .. Len(files) /\ p.of <= iSectionPosition
        BY <1>0, <1>2, <1>5, <4>1
      <4>3. iRomSectionNumber[p.of] = 0
        BY <1>4, <4>2 DEF Counted
      <4>4. p \in Firsts(placed)
        BY <3>1 DEF Firsts
      <4>5. Within(Firsts(placed), Base, main)
        BY <1>1 DEF PiecesInv, Apart
      <4>6. p.hi \in Nat /\ p.hi <= main
        BY <4>4, <4>5 DEF Within
      <4>7. p.hi <= iSectionStart
        BY <1>0, <1>8, <4>6
      <4>8. QED
        BY <4>3, <4>7
    <3>2. \A p \in placed' : p.what = "file" => p \in placed
      BY <2>1, <2>2 DEF Piece
    <3>3. QED
      BY <2>2, <3>1, <3>2 DEF InSections
  <2>6. directory' + DirectorySize' <= main'
    <3>1. directory \in Nat
      <4>1. FirstSectionTables[Len(files)] \in Nat
        BY <1>0, TablesType
      <4>2. QED
        BY <1>0, <1>4, <4>1, Constants DEF Forecast
    <3>2. QED
      BY <1>d, <2>2, <2>3, <3>1
  <2>7. iSectionPosition' <= fileCount'
    BY <1>0, <1>1, <2>2
  <2>8. QED
    BY <1>0, <1>1, <1>3, <1>4, <2>2, <2>3, <2>4, <2>5, <2>6, <2>7 DEF SectionsInv
<1>9. QED
  BY <1>7, <1>8

\* The walk has laid out file c, and goes on: in the first section the tables have come
\* to what was forecast for the files walked, in the second the file is after the
\* directory.
LEMMA SectionsWalk ==
  ASSUME \A r \in Roms : Foreseen(r), TypeStrong, PiecesInv, FilesInv, SectionsInv,
         pc = "layout", ~AtSection, GoToNext, NEW c \in 1 .. Len(files), current = c,
         main' \in Nat, main <= main',
         second' = IF second # Null THEN second + (IF IsPe(c) THEN files[c].size2 ELSE 0)
                                    ELSE Null,
         \A p \in placed' : \/ p \in placed
                            \/ p.what = "file" /\ p.of = c /\ p.lo \in Nat
                               /\ (p.part = 1 => main <= p.lo)
  PROVE  SectionsInv'
<1>0. /\ files \in Seq(Line) /\ Len(files) \in Nat
      /\ iSectionPosition \in Int /\ (iSectionPosition = NotSectioned \/ iSectionPosition >= 0)
      /\ fileCount \in Nat /\ main \in Nat /\ second \in Nat
      /\ iSectionStart \in Nat
      /\ outcome = "building"
      /\ iNextInArea \in [1 .. Len(files) -> 0 .. Len(files)]
  BY ForeseenReached, FilesFacts
<1>d. DirectorySize \in Nat
  BY <1>0, Counts
<1>1. /\ pc' = "layout" /\ current' = iNextInArea[c] /\ fileCount' = fileCount + 1
      /\ UNCHANGED <<rom, outcome, files, iRomSectionNumber, iSectionStart,
                     iSectionPosition, directory>>
  BY DEF GoToNext, obeyVars
<1>2. Counted /\ Counted' /\ Sectioned' = Sectioned /\ DirectorySize' = DirectorySize
  BY <1>1, SameSections DEF SectionsInv
<1>t. FirstSectionTables' = FirstSectionTables
  BY <1>1, SameTables
<1>3. CASE ~Sectioned
  BY <1>0, <1>1, <1>2, <1>3 DEF SectionsInv
<1>4. CASE Sectioned
  <2>1. ~rom.paged /\ ~rom.extension /\ directory = Forecast(Len(files))
    BY <1>4 DEF SectionsInv
  <2>2. directory' = (Forecast(Len(files)))'
    BY <1>1, <1>t, <2>1 DEF Forecast
  <2>3. /\ Walked(c) = 1 .. (c - 1) /\ fileCount = c - 1
    BY <1>0, <2>1, WalkedUnpaged DEF FilesInv
  <2>4. CASE second # Null
    <3>1. iSectionPosition # NotSectioned /\ fileCount <= iSectionPosition
      BY <2>4 DEF FilesInv
    <3>2. c <= iSectionPosition
      <4>1. fileCount # iSectionPosition
        BY <2>4 DEF AtSection
      <4>2. QED
        BY <1>0, <2>3, <3>1, <4>1
    <3>3. iRomSectionNumber[c] = 0
      BY <1>2, <3>2 DEF Counted
    <3>4. TableOf(c) = IF IsPe(c) THEN files[c].size2 ELSE 0
      BY <3>3 DEF TableOf
    <3>5. FirstSectionTables[c] = FirstSectionTables[fileCount] + TableOf(c)
      BY <1>0, <2>3, TablesAre
    <3>6. second = iSectionStart + SectionHeader + FirstSectionTables[fileCount]
      BY <1>4, <2>4 DEF SectionsInv, Forecast
    <3>7. FirstSectionTables[fileCount] \in Nat
      BY <1>0, <2>3, TablesType
    <3>8. files[c] \in Line
      BY <1>0
    <3>9. PICK t \in Nat : t = TableOf(c)
      BY <3>4, <3>8 DEF Line
    <3>10. second' = iSectionStart + SectionHeader + FirstSectionTables[c]
      <4>1. second' = second + t
        BY <2>4, <3>4, <3>9
      <4>2. PICK u \in Nat : u = FirstSectionTables[fileCount]
        BY <3>7
      <4>3. FirstSectionTables[c] = u + t
        BY <3>5, <3>9, <4>2
      <4>4. second = iSectionStart + SectionHeader + u
        BY <3>6, <4>2
      <4>5. QED
        BY <1>0, <4>1, <4>3, <4>4, Constants
    <3>11. c = fileCount'
      BY <1>0, <1>1, <2>3
    <3>12. second' = (Forecast(fileCount))'
      BY <1>1, <1>t, <3>10, <3>11 DEF Forecast
    <3>13. second' # Null
      BY <1>0, <2>4, <3>4, <3>9 DEF Null
    <3>14. (Walked(current))' = Walked(c) \cup {c}
      <4>1. Joined
        BY DEF FilesInv
      <4>2. PICK d : d = iNextInArea[c]
        OBVIOUS
      <4>3. (Walked(current))' = Walked(d)
        BY <1>1, <4>2 DEF Walked, Before, Rank, ListOf, Null
      <4>4. QED
        BY <4>1, <4>2, <4>3 DEF Joined
    <3>15. \A p \in placed' : p.what = "file" => p.of \in Walked(c) \cup {c}
      BY <1>4, <2>4 DEF SectionsInv
    <3>16. QED
      BY <1>0, <1>1, <1>2, <2>1, <2>2, <3>12, <3>13, <3>14, <3>15 DEF SectionsInv
  <2>5. CASE second = Null
    <3>1. /\ InSections /\ directory + DirectorySize <= main /\ iSectionPosition <= fileCount
      BY <1>4, <2>5 DEF SectionsInv
    <3>2. iRomSectionNumber[c] = 1
      <4>1. ~(c <= iSectionPosition)
        BY <1>0, <2>3, <3>1
      <4>2. QED
        BY <1>2, <1>4, <4>1 DEF Counted
    <3>3. directory \in Nat
      <4>1. FirstSectionTables[Len(files)] \in Nat
        BY <1>0, TablesType
      <4>2. QED
        BY <1>0, <2>1, <4>1, Constants DEF Forecast
    <3>4. directory' + DirectorySize' <= main'
      BY <1>0, <1>1, <1>2, <1>d, <3>1, <3>3
    <3>5. ASSUME NEW p \in placed', p \notin placed, p.part = 1
          PROVE  p.of = c /\ p.lo >= directory + DirectorySize
      <4>1. p.of = c /\ p.lo \in Nat /\ main <= p.lo
        BY <3>5
      <4>2. QED
        BY <1>0, <1>d, <3>1, <3>3, <4>1
    <3>6. InSections'
      BY <1>1, <1>2, <3>1, <3>2, <3>5 DEF InSections
    <3>7. iSectionPosition' <= fileCount'
      BY <1>0, <1>1, <3>1
    <3>8. second' = Null
      BY <2>5
    <3>9. QED
      BY <1>0, <1>1, <1>2, <2>1, <2>2, <3>4, <3>6, <3>7, <3>8 DEF SectionsInv
  <2>6. QED
    BY <2>4, <2>5
<1>5. QED
  BY <1>3, <1>4

\* The walk lays out a file.
LEMMA SectionsLayout ==
  ASSUME \A r \in Roms : Foreseen(r), TypeStrong, TypeStrong', PiecesInv, FilesInv, SectionsInv,
         LayoutData \/ LayoutExecutable
  PROVE  SectionsInv'
<1>0. /\ files \in Seq(Line) /\ Len(files) \in Nat
      /\ current \in 0 .. Len(files)
      /\ main \in Nat /\ second \in Nat
  BY ForeseenReached, FilesFacts
<1>b. main' \in Nat
  BY DEF TypeStrong, TypeOK
<1>f. Fail("no room") \/ Fail("crashed") => SectionsInv'
  BY SectionsFail
<1>1. CASE LayoutData
  <2>1. CASE ~Fail("no room")
    <3> DEFINE f == files[current]
               a == StartOf(f)
               q == Piece("file", current, 1, a, a + f.size1)
    <3>1. /\ pc = "layout" /\ current # Null /\ ~AtSection /\ ~IsPe(current)
          /\ main' = a + f.size1
          /\ placed' = placed \cup {p \in {q} : f.size1 > 0}
          /\ UNCHANGED second
          /\ GoToNext
      BY <1>1, <2>1 DEF LayoutData
    <3>2. PICK c \in 1 .. Len(files) : c = current
      BY <1>0, <3>1 DEF Null
    <3>3. f \in Line
      BY <1>0, <3>2
    <3>4. f.size1 \in Nat /\ a \in Nat /\ main <= a
      BY <1>0, <3>3, StartType DEF Line
    <3>5. q.what = "file" /\ q.of = c /\ q.part = 1 /\ q.lo = a
      BY <3>2 DEF Piece
    <3>6. placed' \subseteq placed \cup {q}
      BY <3>1
    <3> HIDE DEF f, a, q
    <3>7. main <= main'
      BY <1>0, <3>1, <3>4
    <3>8. \A p \in placed' : \/ p \in placed
                             \/ p.what = "file" /\ p.of = c /\ p.lo \in Nat
                                /\ (p.part = 1 => main <= p.lo)
      BY <3>4, <3>5, <3>6
    <3>9. second' = IF second # Null THEN second + (IF IsPe(c) THEN files[c].size2 ELSE 0)
                                     ELSE Null
      <4>1. ~IsPe(c) /\ second' = second
        BY <3>1, <3>2
      <4>2. QED
        BY <1>0, <4>1
    <3>10. pc = "layout" /\ ~AtSection /\ GoToNext /\ current = c
      BY <3>1, <3>2
    <3>11. QED
      BY <1>b, <3>7, <3>8, <3>9, <3>10, SectionsWalk
  <2>2. QED
    BY <1>f, <2>1
<1>2. CASE LayoutExecutable
  <2>1. CASE ~(Fail("no room") \/ Fail("crashed"))
    <3> DEFINE f == files[current]
               a == StartOf(f)
               b == IF second # Null THEN second ELSE a + f.size1
               fits == ~FirstOverflowed(a + f.size1)
               q == Piece("file", current, 1, a, a + f.size1)
               t == Piece("file", current, 2, b, b + f.size2)
    <3>1. /\ pc = "layout" /\ current # Null /\ ~AtSection /\ IsPe(current)
          /\ main' = IF second # Null THEN a + f.size1 ELSE a + f.size1 + f.size2
          /\ second' = IF second # Null THEN second + f.size2 ELSE Null
          /\ placed' = IF fits THEN placed \cup {p \in {q, t} : p.lo < p.hi} ELSE placed
          /\ GoToNext
      BY <1>2, <2>1 DEF LayoutExecutable
    <3>2. PICK c \in 1 .. Len(files) : c = current
      BY <1>0, <3>1 DEF Null
    <3>3. f \in Line /\ f = files[c]
      BY <1>0, <3>2
    <3>4. f.size1 \in Nat /\ f.size2 \in Nat /\ a \in Nat /\ main <= a
      BY <1>0, <3>3, StartType DEF Line
    <3>5. /\ q.what = "file" /\ q.of = c /\ q.part = 1 /\ q.lo = a
          /\ t.what = "file" /\ t.of = c /\ t.part = 2 /\ t.lo = b
      BY <3>2 DEF Piece
    <3>6. placed' \subseteq placed \cup {q, t}
      BY <3>1
    <3>b. b \in Nat
      BY <1>0, <3>4
    <3> HIDE DEF f, a, b, q, t, fits
    <3>7. main <= main'
      <4>1. CASE second # Null
        BY <1>0, <3>1, <3>4, <4>1
      <4>2. CASE second = Null
        BY <1>0, <3>1, <3>4, <4>2
      <4>3. QED
        BY <4>1, <4>2
    <3>8. \A p \in placed' : \/ p \in placed
                             \/ p.what = "file" /\ p.of = c /\ p.lo \in Nat
                                /\ (p.part = 1 => main <= p.lo)
      BY <3>4, <3>5, <3>6, <3>b
    <3>9. second' = IF second # Null THEN second + (IF IsPe(c) THEN files[c].size2 ELSE 0)
                                     ELSE Null
      BY <3>1, <3>2, <3>3
    <3>10. pc = "layout" /\ ~AtSection /\ GoToNext /\ current = c
      BY <3>1, <3>2
    <3>11. QED
      BY <1>b, <3>7, <3>8, <3>9, <3>10, SectionsWalk
  <2>2. QED
    BY <1>f, <2>1
<1>3. QED
  BY <1>1, <1>2

\* What is left to do when the files are laid out moves none of them.
LEMMA SectionsRest ==
  ASSUME TypeStrong, PiecesInv, FilesInv', SectionsInv,
         EndLayout \/ SizeUsed \/ SetupPages
  PROVE  SectionsInv'
<1> USE DEF obeyVars, listVars, layoutVars, endVars
<1>0. pc # "done" => outcome = "building"
  BY DEF PiecesInv
<1>1. UNCHANGED <<rom, files, iRomSectionNumber, iSectionStart, iSectionPosition, directory,
                  placed, second>>
  BY DEF EndLayout, SizeUsed, SetupPages
<1>2. Sectioned' = Sectioned /\ DirectorySize' = DirectorySize
  BY <1>1, SameSections
<1>3. InSections => InSections'
  BY <1>1, <1>2 DEF InSections
<1>4. outcome' # "directory overwritten"
  BY <1>0 DEF EndLayout, SizeUsed, SetupPages
<1>5. CASE EndLayout
  <2>1. pc = "layout" /\ pc' \in {"size", "exceptions last"} /\ outcome' # "built"
    BY <1>0, <1>5 DEF EndLayout
  <2>2. second = Null
    BY <1>1, <2>1 DEF FilesInv
  <2>3. Sectioned => InSections
    BY <2>1, <2>2 DEF SectionsInv
  <2>4. QED
    BY <1>1, <1>2, <1>3, <1>4, <2>1, <2>3 DEF SectionsInv
<1>6. CASE SizeUsed \/ SetupPages
  <2>1. pc \in {"size", "pages"} /\ pc' \in {"pages", "done"}
    BY <1>6 DEF SizeUsed, SetupPages
  <2>2. Sectioned => InSections
    BY <2>1 DEF SectionsInv
  <2>3. QED
    BY <1>1, <1>2, <1>3, <1>4, <2>1, <2>2 DEF SectionsInv
<1>7. QED
  BY <1>5, <1>6

\* Every action keeps the invariant of the sections.
LEMMA SectionsStep ==
  ASSUME \A r \in Roms : Foreseen(r), TypeStrong, TypeStrong', PiecesInv, FilesInv, FilesInv',
         SectionsInv, [Next]_vars
  PROVE  SectionsInv'
<1>1. CASE UNCHANGED vars
  <2>1. UNCHANGED <<rom, line, pc, outcome, files, iRomSectionNumber, iSectionStart,
                    iSectionPosition, directory, main, second, current, fileCount, placed>>
    BY <1>1 DEF vars, obeyVars, listVars, layoutVars
  <2>2. Counted => Counted'
    BY <2>1, SameSections
  <2>3. Sectioned' = Sectioned /\ DirectorySize' = DirectorySize
    BY <2>1, SameSections
  <2>4. FirstSectionTables' = FirstSectionTables
    BY <2>1, SameTables
  <2>5. /\ (Forecast(Len(files)))' = Forecast(Len(files))
        /\ (Forecast(fileCount))' = Forecast(fileCount)
    BY <2>1, <2>4 DEF Forecast
  <2>6. (Walked(current))' = Walked(current)
    BY <2>1 DEF Walked, Before, Rank, ListOf, Null
  <2>7. HcrRead => HcrRead'
    BY <2>1 DEF HcrRead
  <2>8. InSections => InSections'
    BY <2>1, <2>3 DEF InSections
  <2>9. QED
    BY <2>1, <2>2, <2>3, <2>5, <2>6, <2>7, <2>8 DEF SectionsInv, Null
<1>2. QED
  BY <1>1, SectionsRead, SectionsTables, SectionsAllocate, SectionsNextRom, SectionsLayout,
     SectionsRest DEF Next

-----------------------------------------------------------------------------
(* The part of the image that is paged.                                    *)

Staying(p) == p.what = "file" => MustStay(files[p.of])

(* File c is the first that is paged: what must stay ends below its bytes, *)
(* if it has any.                                                          *)
Parts(c) ==
  \/ entry[c] = 0
  \/ Base <= entry[c] /\ \A p \in placed : Staying(p) => p.hi <= entry[c]

PagedInv ==
  /\ pc \notin {"areas", "done"} => RomEnd < Limit
  /\ pc = "exceptions last" => ~rom.paged
  /\ pc \in {"exceptions", "directory", "relocations", "layout", "size", "pages"} /\ rom.paged =>
       HasCore /\ iFirstPagedCode = First(List("normal"))
  /\ pc = "layout" /\ rom.paged =>
       /\ \A p \in placed : p.hi <= IF p.what = "file" THEN RomEnd ELSE romaddr
       /\ \A i \in Walked(current) : IsPe(i) => romaddr <= RomEnd
       /\ iFirstPagedCode \in Walked(current) => Parts(iFirstPagedCode)
  /\ pc \in {"size", "pages"} /\ rom.paged =>
       /\ \A p \in placed : p.hi <= RomEnd
       /\ iFirstPagedCode # Null => Parts(iFirstPagedCode)
  /\ UnpagedFirst

\* The list of a file tells if it must stay.
LEMMA ListTells ==
  ASSUME NEW f
  PROVE  MustStay(f) <=> ListOf(f) # "normal"
  BY DEF MustStay, ListOf

\* The heads of the lists change with the files only.
LEMMA SameFirst ==
  ASSUME UNCHANGED files
  PROVE  (First(List("normal")))' = First(List("normal"))
  BY DEF First, List, ListOf, Null

\* Nothing is placed at first.
LEMMA PagedInit == Init => PagedInv
  BY DEF Init, PagedInv, UnpagedFirst

\* A failure leaves nothing to show.
LEMMA PagedFail ==
  ASSUME NEW how, Fail(how), how # "built"
  PROVE  PagedInv'
  BY DEF Fail, PagedInv, UnpagedFirst

\* Of an image that is not paged there is nothing to show.
LEMMA PagedNot ==
  ASSUME ~rom.paged, UNCHANGED rom, pc \notin {"areas", "done"}, PagedInv
  PROVE  PagedInv'
  BY DEF PagedInv, UnpagedFirst, RomEnd

\* The passes over the obey file; the default area ends before the last address.
LEMMA PagedRead ==
  ASSUME TypeStrong, PiecesInv, PagedInv,
         ParseAreaKeyword \/ CreateDefaultArea \/ SkipLine \/ ParseSection \/ ProcessFile
  PROVE  PagedInv'
<1> USE DEF obeyVars, listVars, layoutVars, endVars
<1>0. (pc # "done" => outcome = "building") /\ rom \in Roms
  BY DEF PiecesInv, TypeStrong
<1>f. Fail("refused") => PagedInv'
  BY PagedFail
<1>1. CASE ParseAreaKeyword
  <2>1. CASE ~Fail("refused")
    <3>1. pc = "areas" /\ pc' = "areas" /\ UNCHANGED outcome
      BY <1>1, <2>1 DEF ParseAreaKeyword, AddArea
    <3>2. QED
      BY <1>0, <3>1 DEF PagedInv, UnpagedFirst
  <2>2. QED
    BY <1>f, <2>1
<1>2. CASE CreateDefaultArea
  <2>1. CASE ~Fail("refused")
    <3>1. /\ pc = "areas" /\ pc' = "obey" /\ UNCHANGED <<rom, outcome>>
          /\ CanAdd(iAreaSet, TheDefaultArea)
      BY <1>2, <2>1 DEF CreateDefaultArea, AddArea
    <3>2. TheDefaultArea \in Area /\ ~EOverflow(TheDefaultArea)
      BY <1>0, <3>1, DefaultIsArea DEF CanAdd
    <3>3. PICK d \in Area : d = TheDefaultArea
      BY <3>2
    <3>4. d.base + d.size < Limit
      BY <3>2, <3>3, AreaFits
    <3>5. d.base = Base /\ d.size = rom.size
      BY <3>3 DEF TheDefaultArea
    <3>6. RomEnd' < Limit
      BY <3>1, <3>4, <3>5 DEF RomEnd
    <3>7. QED
      BY <1>0, <3>1, <3>6 DEF PagedInv, UnpagedFirst
  <2>2. QED
    BY <1>f, <2>1
<1>8. CASE SkipLine /\ pc = "areas"
  <2>1. pc' = "areas" /\ UNCHANGED outcome
    BY <1>8 DEF SkipLine
  <2>2. QED
    BY <1>0, <1>8, <2>1 DEF PagedInv, UnpagedFirst
<1>3. CASE (SkipLine /\ pc # "areas") \/ ParseSection \/ ProcessFile
  <2>1. CASE ~Fail("refused")
    <3>1. pc = "obey" /\ pc' = "obey" /\ UNCHANGED <<rom, outcome>>
      BY <1>3, <2>1 DEF SkipLine, ParseSection, ProcessFile, ReadLine
    <3>2. QED
      BY <1>0, <3>1 DEF PagedInv, UnpagedFirst, RomEnd
  <2>2. QED
    BY <1>f, <2>1
<1>4. QED
  BY <1>1, <1>2, <1>3, <1>8

\* The tables before the files; the sorting finds the first paged file.
LEMMA PagedTables ==
  ASSUME TypeStrong, PiecesInv, FilesInv, PagedInv,
         EndObey \/ SortFilesForPagedRom \/ ReserveRomExceptionSearchTable \/ WriteDirectory
  PROVE  PagedInv'
<1> USE DEF obeyVars, listVars, layoutVars, endVars
<1>0. pc # "done" => outcome = "building"
  BY DEF PiecesInv
<1>f. Fail("refused") \/ Fail("no room") \/ Fail("crashed") => PagedInv'
  BY PagedFail
<1>1. CASE EndObey
  <2>1. CASE ~Fail("refused")
    <3>1. /\ pc = "obey" /\ pc' = IF rom.paged THEN "sort" ELSE "directory"
          /\ UNCHANGED <<rom, outcome>>
      BY <1>1, <2>1 DEF EndObey
    <3>2. QED
      BY <1>0, <3>1 DEF PagedInv, UnpagedFirst, RomEnd
  <2>2. QED
    BY <1>f, <2>1
<1>2. CASE SortFilesForPagedRom
  <2>1. /\ pc = "sort" /\ pc' = "exceptions" /\ UNCHANGED <<rom, outcome, files>>
        /\ List("extention") # {} => iFirstPagedCode' = First(List("normal"))
    BY <1>2 DEF SortFilesForPagedRom
  <2>2. HasCore
    BY <2>1 DEF FilesInv
  <2>3. List("extention") # {}
    BY <2>2 DEF HasCore, List, ListOf
  <2>4. HasCore' /\ (First(List("normal")))' = First(List("normal"))
    BY <2>1, <2>2, SameFirst DEF HasCore
  <2>5. QED
    BY <1>0, <2>1, <2>3, <2>4 DEF PagedInv, UnpagedFirst, RomEnd
<1>3. CASE ReserveRomExceptionSearchTable \/ WriteDirectory
  <2>1. CASE ~(Fail("no room") \/ Fail("crashed"))
    <3>1. /\ UNCHANGED <<rom, outcome, files, iFirstPagedCode>>
          /\ \/ pc \in {"exceptions", "directory"} /\ pc' \in {"directory", "relocations"}
             \/ pc = "exceptions last" /\ pc' = "size"
      BY <1>3, <2>1 DEF ReserveRomExceptionSearchTable, WriteDirectory
    <3>2. CASE pc \in {"exceptions", "directory"} /\ pc' \in {"directory", "relocations"}
      <4>1. HasCore' <=> HasCore
        BY <3>1 DEF HasCore
      <4>2. (First(List("normal")))' = First(List("normal"))
        BY <3>1, SameFirst
      <4>3. QED
        BY <1>0, <3>1, <3>2, <4>1, <4>2 DEF PagedInv, UnpagedFirst, RomEnd
    <3>3. CASE pc = "exceptions last" /\ pc' = "size"
      <4>1. ~rom.paged
        BY <3>3 DEF PagedInv
      <4>2. QED
        BY <3>1, <3>3, <4>1, PagedNot
    <3>4. QED
      BY <3>1, <3>2, <3>3
  <2>2. QED
    BY <1>f, <2>1
<1>4. QED
  BY <1>1, <1>2, <1>3

\* LayoutRom begins above all tables.
LEMMA PagedAllocate ==
  ASSUME TypeStrong, PiecesInv, FilesInv, SectionsInv, PagedInv, AllocateRelocationTable
  PROVE  PagedInv'
<1> USE DEF obeyVars, listVars, layoutVars, endVars
<1>1. CASE ~rom.paged
  BY <1>1, PagedNot DEF AllocateRelocationTable
<1>2. CASE rom.paged
  <2>0. /\ main \in Nat /\ iAreaSet.iAreaCount \in Nat
        /\ pc # "done" => outcome = "building"
    BY DEF PiecesInv, TypeStrong, TypeOK, AreaSet
  <2>1. PICK size : size = IF iAreaSet.iAreaCount > 1 THEN iAreaSet.iAreaCount * Reloc ELSE 0
    OBVIOUS
  <2>2. size \in Nat
    BY <2>0, <2>1, Constants
  <2>3. PICK up : up = Aligned(size, RomAlign)
    OBVIOUS
  <2>4. up \in Nat /\ size <= up
    BY <2>2, <2>3, AlignedUp, Constants
  <2>5. PICK q : q = Piece("relocations", 0, 1, main, main + size)
    OBVIOUS
  <2>6. /\ pc = "relocations" /\ pc' = "layout"
        /\ placed' \subseteq placed \cup {q}
        /\ romaddr' = main + up
        /\ current' = iFiles
        /\ UNCHANGED <<rom, outcome, files, iFiles, iNextInArea, iFirstPagedCode>>
    BY <2>1, <2>3, <2>5 DEF AllocateRelocationTable
  <2>7. q.what = "relocations" /\ q.hi = main + size
    BY <2>5 DEF Piece
  <2>8. \A p \in placed : p.what # "file"
    BY <2>6 DEF SectionsInv
  <2>9. iSectionPosition = NotSectioned
    BY <1>2 DEF SectionsInv, Sectioned
  <2>10. Within(placed, Base, main)
    BY <2>6, <2>9 DEF PiecesInv
  <2>11. ASSUME NEW p \in placed'
         PROVE  p.what # "file" /\ p.hi <= romaddr'
    <3>1. CASE p = q
      BY <2>0, <2>2, <2>4, <2>6, <2>7, <3>1
    <3>2. CASE p # q
      <4>1. p \in placed
        BY <2>6, <3>2
      <4>2. p.hi \in Nat /\ p.hi <= main
        BY <2>10, <4>1 DEF Within
      <4>3. QED
        BY <2>0, <2>4, <2>6, <2>8, <4>1, <4>2
    <3>3. QED
      BY <3>1, <3>2
  <2>12. (Walked(current))' = {}
    <3>1. (Walked(current))' = Walked(iFiles)
      BY <2>6 DEF Walked, Before, Rank, ListOf, Null
    <3>2. QED
      BY <2>6, <3>1 DEF FilesInv, Joined
  <2>13. HasCore' /\ iFirstPagedCode' = (First(List("normal")))'
    BY <1>2, <2>6, SameFirst DEF PagedInv, HasCore
  <2>14. QED
    BY <2>0, <2>6, <2>11, <2>12, <2>13 DEF PagedInv, UnpagedFirst, RomEnd
<1>3. QED
  BY <1>1, <1>2

\* The walk through a paged image has laid out file c, at a.
LEMMA PagedWalk ==
  ASSUME \A r \in Roms : Reached(r), TypeStrong, PiecesInv, FilesInv, PagedInv, rom.paged,
         pc = "layout", second = Null, GoToNext, NEW c \in 1 .. Len(files), current = c,
         NEW a \in Nat, main <= a, IsPe(c) => a <= RomEnd,
         \A p \in placed' : \/ p \in placed
                            \/ p.what = "file" /\ p.of = c /\ p.hi <= RomEnd,
         NEW x \in {0, a}, entry' = [entry EXCEPT ![c] = x]
  PROVE  PagedInv'
<1>0. /\ files \in Seq(Line) /\ Len(files) \in Nat /\ rom \in Roms
      /\ iNextInArea \in [1 .. Len(files) -> 0 .. Len(files)]
      /\ entry \in [1 .. Len(files) -> Nat]
      /\ main \in Nat /\ outcome = "building"
  BY FilesFacts
<1>1. romaddr \in Nat /\ romaddr <= main /\ Base <= main
  BY DEF TypeStrong, TypeOK, Order, Resting
<1>c. Base \in Nat /\ 0 < Base /\ RomEnd \in Nat
  BY <1>0, RomType, Constants DEF RomEnd
<1>2. /\ pc' = "layout" /\ current' = iNextInArea[c]
      /\ UNCHANGED <<rom, outcome, files, iFiles, iNextInArea, iFirstPagedCode, romaddr>>
  BY DEF GoToNext, obeyVars, listVars
<1>3. /\ HasCore /\ iFirstPagedCode = First(List("normal")) /\ RomEnd < Limit
      /\ \A p \in placed : p.hi <= IF p.what = "file" THEN RomEnd ELSE romaddr
      /\ \A i \in Walked(c) : IsPe(i) => romaddr <= RomEnd
      /\ iFirstPagedCode \in Walked(c) => Parts(iFirstPagedCode)
  BY DEF PagedInv
<1>4. HasCore' /\ iFirstPagedCode' = (First(List("normal")))' /\ RomEnd' = RomEnd
  BY <1>2, <1>3, SameFirst DEF HasCore, RomEnd
<1>5. (Walked(current))' = Walked(c) \cup {c}
  <2>1. PICK d : d = iNextInArea[c]
    OBVIOUS
  <2>2. (Walked(current))' = Walked(d)
    BY <1>2, <2>1 DEF Walked, Before, Rank, ListOf, Null
  <2>3. QED
    BY <2>1, <2>2 DEF FilesInv, Joined
<1>6. \A p \in placed' : p.hi <= IF p.what = "file" THEN RomEnd ELSE romaddr
  BY <1>3
<1>7. \A i \in Walked(c) \cup {c} : IsPe(i) => romaddr <= RomEnd
  <2>1. IsPe(c) => romaddr <= RomEnd
    BY <1>0, <1>1, <1>c
  <2>2. QED
    BY <1>3, <2>1
<1>8. (IsPe(c))' = IsPe(c) /\ \A i : (IsPe(i))' = IsPe(i)
  BY <1>2 DEF IsPe
<1>s. \A p : (Staying(p))' = Staying(p)
  BY <1>2 DEF Staying, MustStay
<1>9. ASSUME iFirstPagedCode \in Walked(c) \cup {c}
      PROVE  (Parts(iFirstPagedCode))'
  <2>1. PICK g : g = iFirstPagedCode
    OBVIOUS
  <2>2. g \in 1 .. Len(files)
    <3>1. c \in 0 .. Len(files)
      BY <1>0
    <3>2. Walked(c) \in SUBSET (1 .. Len(files))
      BY <1>0, <3>1, WalkedIn
    <3>3. QED
      BY <1>9, <2>1, <3>2
  <2>3. ListOf(files[g]) = "normal"
    <3>1. List("normal") # {}
      <4>1. g # 0
        BY <2>2
      <4>2. QED
        BY <1>3, <2>1, <4>1 DEF First, Null
    <3>2. First(List("normal")) \in List("normal")
      BY <1>0, <3>1, WalkedAtHead
    <3>3. QED
      BY <1>3, <2>1, <3>2 DEF List
  <2>4. ListOf(files[c]) = "normal"
    <3>1. CASE c = g
      BY <2>3, <3>1
    <3>2. CASE c # g
      <4>1. g \in Walked(c)
        BY <1>9, <2>1, <3>2
      <4>2. Before(g, c)
        BY <4>1 DEF Walked, Null
      <4>3. Rank(files[g]) = 2 /\ Rank(files[c]) \in {0, 1, 2}
        BY <2>3, RankType
      <4>4. Rank(files[c]) = 2
        BY <4>2, <4>3 DEF Before
      <4>5. QED
        BY <4>4, RankType
    <3>3. QED
      BY <3>1, <3>2
  <2>5. \A p \in placed' : Staying(p) => p \in placed
    <3>1. ~MustStay(files[c])
      BY <2>4, ListTells
    <3>2. QED
      BY <3>1 DEF Staying
  <2>6. CASE c = g
    <3>1. entry'[g] = x
      BY <1>0, <2>2, <2>6
    <3>2. CASE x = 0
      BY <1>2, <2>1, <3>1, <3>2 DEF Parts
    <3>3. CASE x = a
      <4>1. Within(placed, Base, main)
        BY DEF PiecesInv
      <4>2. \A p \in placed : p.hi \in Nat /\ p.hi <= main
        BY <4>1 DEF Within
      <4>3. \A p \in placed : p.hi <= a
        BY <1>0, <4>2
      <4>4. Base <= a
        BY <1>0, <1>1, <1>c
      <4>5. QED
        BY <1>2, <1>s, <2>1, <2>5, <3>1, <3>3, <4>3, <4>4 DEF Parts
    <3>4. QED
      BY <3>2, <3>3
  <2>7. CASE c # g
    <3>1. entry'[g] = entry[g]
      BY <1>0, <2>2, <2>7
    <3>2. Parts(g)
      BY <1>3, <1>9, <2>1, <2>7
    <3>3. QED
      BY <1>2, <1>s, <2>1, <2>5, <3>1, <3>2 DEF Parts
  <2>8. QED
    BY <2>6, <2>7
<1>10. QED
  BY <1>0, <1>2, <1>3, <1>4, <1>5, <1>6, <1>7, <1>8, <1>9 DEF PagedInv, UnpagedFirst

\* The walk through an image lays out a file; there is no second section in a paged one.
LEMMA PagedLayout ==
  ASSUME \A r \in Roms : Reached(r), TypeStrong, PiecesInv, FilesInv, SectionsInv, PagedInv,
         NextRom \/ LayoutData \/ LayoutExecutable
  PROVE  PagedInv'
<1> USE DEF obeyVars, listVars, layoutVars, endVars
<1>0. /\ files \in Seq(Line) /\ Len(files) \in Nat /\ rom \in Roms
      /\ current \in 0 .. Len(files)
      /\ entry \in [1 .. Len(files) -> Nat]
      /\ main \in Nat /\ second \in Nat
  BY FilesFacts
<1>c. RomEnd \in Nat
  BY <1>0, RomType, Constants DEF RomEnd
<1>1. pc = "layout" /\ UNCHANGED rom
  BY DEF NextRom, LayoutData, LayoutExecutable, GoToNext, Fail
<1>2. CASE ~rom.paged
  BY <1>1, <1>2, PagedNot
<1>3. CASE rom.paged
  <2>1. second = Null
    BY <1>1, <1>3 DEF FilesInv, SectionsInv, Sectioned
  <2>2. ~NextRom /\ (LayoutData \/ LayoutExecutable)
    BY <2>1 DEF NextRom, AtSection
  <2>f. Fail("no room") \/ Fail("crashed") => PagedInv'
    BY PagedFail
  <2>3. CASE LayoutData
    <3>1. CASE ~Fail("no room")
      <4> DEFINE f == files[current]
                 a == StartOf(f)
                 q == Piece("file", current, 1, a, a + f.size1)
                 x == IF f.size1 > 0 THEN a ELSE 0
      <4>1. /\ current # Null /\ ~IsPe(current)
            /\ ~(f.size1 > 0 /\ a + f.size1 > RomEnd)
            /\ placed' = placed \cup {p \in {q} : f.size1 > 0}
            /\ entry' = [entry EXCEPT ![current] = x]
            /\ GoToNext
        BY <2>1, <2>3, <3>1 DEF LayoutData, FirstOverflowed
      <4>2. PICK c \in 1 .. Len(files) : c = current
        BY <1>0, <4>1 DEF Null
      <4>3. f \in Line
        BY <1>0, <4>2
      <4>4. f.size1 \in Nat /\ a \in Nat /\ main <= a
        BY <1>0, <4>3, StartType DEF Line
      <4>5. q.what = "file" /\ q.of = c /\ q.hi = a + f.size1
        BY <4>2 DEF Piece
      <4>6. x = 0 \/ x = a
        OBVIOUS
      <4>7. \A p \in placed' : p \in placed \/ (p = q /\ f.size1 > 0)
        BY <4>1
      <4>8. ~IsPe(c) /\ entry' = [entry EXCEPT ![c] = x]
        BY <4>1, <4>2
      <4> HIDE DEF f, a, q, x
      <4>9. f.size1 > 0 => a + f.size1 <= RomEnd
        BY <1>c, <4>1, <4>4
      <4>10. \A p \in placed' : \/ p \in placed
                                \/ p.what = "file" /\ p.of = c /\ p.hi <= RomEnd
        BY <4>5, <4>7, <4>9
      <4>11. IsPe(c) => a <= RomEnd
        BY <4>8
      <4>12. PICK y : y = x
        OBVIOUS
      <4>13. y \in {0, a} /\ entry' = [entry EXCEPT ![c] = y]
        BY <4>6, <4>8, <4>12
      <4>14. GoToNext /\ current = c /\ a \in Nat /\ main <= a
        BY <4>1, <4>2, <4>4
      <4>15. QED
        BY <1>1, <1>3, <2>1, <4>10, <4>11, <4>13, <4>14, PagedWalk
    <3>2. QED
      BY <2>f, <3>1
  <2>4. CASE LayoutExecutable
    <3>1. CASE ~(Fail("no room") \/ Fail("crashed"))
      <4> DEFINE f == files[current]
                 a == StartOf(f)
                 b == a + f.size1
                 q == Piece("file", current, 1, a, a + f.size1)
                 t == Piece("file", current, 2, b, b + f.size2)
      <4>1. /\ current # Null
            /\ ~(a + f.size1 + f.size2 > RomEnd)
            /\ placed' = placed \cup {p \in {q, t} : p.lo < p.hi}
            /\ entry' = [entry EXCEPT ![current] = a]
            /\ GoToNext
        BY <2>1, <2>4, <3>1 DEF LayoutExecutable, FirstOverflowed
      <4>2. PICK c \in 1 .. Len(files) : c = current
        BY <1>0, <4>1 DEF Null
      <4>3. f \in Line
        BY <1>0, <4>2
      <4>4. f.size1 \in Nat /\ f.size2 \in Nat /\ a \in Nat /\ main <= a
        BY <1>0, <4>3, StartType DEF Line
      <4>5. /\ q.what = "file" /\ q.of = c /\ q.hi = a + f.size1
            /\ t.what = "file" /\ t.of = c /\ t.hi = a + f.size1 + f.size2
        BY <4>2 DEF Piece
      <4>7. \A p \in placed' : p \in placed \/ p = q \/ p = t
        BY <4>1
      <4>8. entry' = [entry EXCEPT ![c] = a] /\ a \in {0, a}
        BY <4>1, <4>2
      <4> HIDE DEF f, a, b, q, t
      <4>9. a + f.size1 <= RomEnd /\ a + f.size1 + f.size2 <= RomEnd /\ a <= RomEnd
        BY <1>c, <4>1, <4>4
      <4>10. \A p \in placed' : \/ p \in placed
                                \/ p.what = "file" /\ p.of = c /\ p.hi <= RomEnd
        BY <4>5, <4>7, <4>9
      <4>11. QED
        BY <1>1, <1>3, <2>1, <4>1, <4>2, <4>4, <4>8, <4>9, <4>10, PagedWalk
    <3>2. QED
      BY <2>f, <3>1
  <2>5. QED
    BY <2>2, <2>3, <2>4
<1>4. QED
  BY <1>2, <1>3

\* The part that is paged begins above all that must stay: it starts at the first paged
\* file, rounded up to a page.
LEMMA PartsSetUp ==
  ASSUME TypeStrong, PiecesInv, FilesInv, PagedInv, rom.paged, SetupPages, outcome' = "built",
         NEW p \in placed, Staying(p)
  PROVE  p.hi <= Base + pageable'.start
<1>0. /\ rom \in Roms /\ main \in Nat /\ pc = "pages"
      /\ iFirstPagedCode \in 0 .. Len(files) /\ files \in Seq(Line)
      /\ entry \in [1 .. Len(files) -> Nat]
      /\ pageable \in [start : Nat, size : Nat]
  BY DEF TypeStrong, TypeOK, SetupPages
<1>c. /\ Base \in Nat /\ 0 < Base /\ Base < Limit /\ Limit \in Nat /\ PageSize \in Nat \ {0}
      /\ RomEnd \in Nat
  BY <1>0, RomType, Constants DEF RomEnd
<1>1. /\ RomEnd < Limit /\ p.hi <= RomEnd
      /\ iFirstPagedCode # Null => Parts(iFirstPagedCode)
  BY <1>0 DEF PagedInv
<1>2. /\ iSizeUsed = main - Base /\ p.hi \in Nat /\ p.hi <= main
  <2>1. second = Null
    BY <1>0 DEF FilesInv
  <2>2. Within(placed, Base, main)
    BY <1>0, <2>1 DEF PiecesInv
  <2>3. QED
    BY <1>0, <2>2 DEF PiecesInv, Within
<1>3. CASE iFirstPagedCode = Null
  <2>1. pageable'.start = main - Base
    BY <1>2, <1>3 DEF SetupPages
  <2>2. QED
    BY <1>0, <1>c, <1>2, <2>1
<1>4. CASE iFirstPagedCode # Null
  <2>1. PICK e : e = entry[iFirstPagedCode]
    OBVIOUS
  <2>2. e \in Nat
    BY <1>0, <1>4, <2>1 DEF Null
  <2>3. PICK w : w = Wrap(e + Limit - Base)
    OBVIOUS
  <2>4. pageable'.start = Aligned(w, PageSize)
    BY <1>0, <1>4, <2>1, <2>3 DEF SetupPages, RoundUp
  <2>5. e = 0 \/ (Base <= e /\ p.hi <= e)
    BY <1>1, <1>4, <2>1 DEF Parts
  <2>6. CASE e = 0
    <3>1. w = Limit - Base /\ w \in Nat
      BY <1>c, <2>3, <2>6 DEF Wrap
    <3>2. w <= Aligned(w, PageSize) /\ Aligned(w, PageSize) \in Nat
      BY <1>c, <3>1, AlignedUp
    <3>3. QED
      BY <1>c, <1>1, <1>2, <2>4, <3>1, <3>2
  <2>7. CASE Base <= e /\ p.hi <= e
    <3>1. w = e - Base /\ w \in Nat
      BY <1>c, <2>2, <2>3, <2>7 DEF Wrap
    <3>2. w <= Aligned(w, PageSize) /\ Aligned(w, PageSize) \in Nat
      BY <1>c, <3>1, AlignedUp
    <3>3. QED
      BY <1>c, <1>2, <2>2, <2>4, <2>7, <3>1, <3>2
  <2>8. QED
    BY <2>5, <2>6, <2>7
<1>5. QED
  BY <1>3, <1>4

\* What is left to do when the files are laid out.
LEMMA PagedRest ==
  ASSUME \A r \in Roms : Reached(r), TypeStrong, PiecesInv, FilesInv, FilesInv', PagedInv,
         EndLayout \/ SizeUsed \/ SetupPages
  PROVE  PagedInv'
<1> USE DEF obeyVars, listVars, layoutVars, endVars
<1>0. /\ rom \in Roms /\ main \in Nat /\ files \in Seq(Line) /\ Len(files) \in Nat
      /\ romaddr \in Nat
      /\ pc # "done" => outcome = "building"
  BY FilesFacts DEF TypeStrong, TypeOK
<1>1. /\ pc \in {"layout", "size", "pages"}
      /\ UNCHANGED <<rom, files, iFirstPagedCode, placed, entry, romaddr>>
  BY DEF EndLayout, SizeUsed, SetupPages
<1>2. CASE ~rom.paged
  BY <1>1, <1>2, PagedNot
<1>3. CASE rom.paged
  <2>1. HasCore /\ iFirstPagedCode = First(List("normal")) /\ RomEnd < Limit
    BY <1>1, <1>3 DEF PagedInv
  <2>2. /\ HasCore' /\ iFirstPagedCode' = (First(List("normal")))' /\ RomEnd' = RomEnd
        /\ iFirstPagedCode # Null /\ Parts(iFirstPagedCode) => (Parts(iFirstPagedCode))'
    <3>1. (First(List("normal")))' = First(List("normal"))
      BY <1>1, SameFirst
    <3>2. QED
      BY <1>1, <2>1, <3>1 DEF HasCore, RomEnd, Parts, Staying, MustStay
  <2>3. CASE EndLayout
    <3>1. pc = "layout" /\ current = Null /\ pc' = "size" /\ outcome' # "built"
      BY <1>0, <1>3, <2>3 DEF EndLayout
    <3>2. Walked(current) = 1 .. Len(files)
      BY <3>1 DEF Walked
    <3>3. romaddr <= RomEnd
      <4>1. PICK i \in 1 .. Len(files) : files[i].keyword = "core"
        BY <2>1 DEF HasCore
      <4>2. IsPe(i)
        BY <4>1 DEF IsPe
      <4>3. QED
        BY <1>3, <3>1, <3>2, <4>1, <4>2 DEF PagedInv
    <3>4. \A p \in placed : p.hi <= RomEnd
      <4> SUFFICES ASSUME NEW p \in placed PROVE p.hi <= RomEnd
        OBVIOUS
      <4>1. p.hi <= IF p.what = "file" THEN RomEnd ELSE romaddr
        BY <1>3, <3>1 DEF PagedInv
      <4>2. second = Null
        BY <1>1, <2>3, <3>1 DEF EndLayout, FilesInv
      <4>3. p.hi \in Nat
        BY <3>1, <4>2 DEF PiecesInv, Within
      <4>4. RomEnd \in Nat
        BY <1>0, RomType, Constants DEF RomEnd
      <4>5. QED
        BY <1>0, <3>3, <4>1, <4>3, <4>4
    <3>5. iFirstPagedCode # Null => Parts(iFirstPagedCode)
      <4>1. iFirstPagedCode \in 0 .. Len(files)
        BY DEF TypeStrong, TypeOK
      <4>2. iFirstPagedCode # Null => iFirstPagedCode \in Walked(current)
        BY <1>0, <3>2, <4>1 DEF Null
      <4>3. QED
        BY <1>3, <3>1, <4>2 DEF PagedInv
    <3>6. QED
      BY <1>1, <1>3, <2>1, <2>2, <3>1, <3>4, <3>5 DEF PagedInv, UnpagedFirst
  <2>4. CASE SizeUsed
    <3>1. /\ pc = "size" /\ pc' = IF rom.extension THEN "done" ELSE "pages"
          /\ outcome' = IF rom.extension THEN "built" ELSE outcome
      BY <2>4 DEF SizeUsed
    <3>2. /\ \A p \in placed : p.hi <= RomEnd
          /\ iFirstPagedCode # Null => Parts(iFirstPagedCode)
      BY <1>3, <3>1 DEF PagedInv
    <3>3. UnpagedFirst'
      BY <1>0, <1>1, <3>1 DEF UnpagedFirst
    <3>4. QED
      BY <1>1, <1>3, <2>1, <2>2, <3>1, <3>2, <3>3 DEF PagedInv
  <2>5. CASE SetupPages
    <3>1. pc' = "done"
      BY <2>5 DEF SetupPages
    <3>2. UnpagedFirst'
      <4>1. ASSUME outcome' = "built", NEW p \in placed, Staying(p)
            PROVE  p.hi <= Base + pageable'.start
        BY <1>3, <2>5, <4>1, PartsSetUp
      <4>2. QED
        BY <1>1, <4>1 DEF UnpagedFirst, Staying, MustStay
    <3>3. QED
      BY <3>1, <3>2 DEF PagedInv
  <2>6. QED
    BY <2>3, <2>4, <2>5
<1>4. QED
  BY <1>2, <1>3

\* Every action keeps the invariant of the paged part.
LEMMA PagedStep ==
  ASSUME \A r \in Roms : Reached(r), TypeStrong, PiecesInv, FilesInv, FilesInv', SectionsInv,
         PagedInv, [Next]_vars
  PROVE  PagedInv'
<1>1. CASE UNCHANGED vars
  <2>1. UNCHANGED <<rom, pc, outcome, files, iFirstPagedCode, current, placed, entry, romaddr,
                    pageable>>
    BY <1>1 DEF vars, obeyVars, listVars, layoutVars, endVars
  <2>2. (First(List("normal")))' = First(List("normal"))
    BY <2>1, SameFirst
  <2>3. (Walked(current))' = Walked(current)
    BY <2>1 DEF Walked, Before, Rank, ListOf, Null
  <2>4. \A c : (Parts(c))' <=> Parts(c)
    BY <2>1 DEF Parts, Staying, MustStay
  <2>5. UnpagedFirst'
    BY <2>1 DEF PagedInv, UnpagedFirst, MustStay
  <2>6. (Parts(iFirstPagedCode))' <=> Parts(iFirstPagedCode)
    BY <2>1 DEF Parts, Staying, MustStay
  <2>7. QED
    BY <2>1, <2>2, <2>3, <2>5, <2>6 DEF PagedInv, HasCore, RomEnd, IsPe, Null
<1>2. QED
  BY <1>1, PagedRead, PagedTables, PagedAllocate, PagedLayout, PagedRest DEF Next

\* Every file is in the part of the image that its line asks for: what comes before a
\* section line below the second section and the rest above the directory, whose place
\* was forecast before any file had one (WriteHeadersToRom), and what must stay in
\* memory below the first page that is paged (SetupPages), for images that come to the
\* section at the line that asks for it.
THEOREM EveryFileInItsPart ==
  ASSUME \A r \in Roms : Foreseen(r)
  PROVE  Spec => []PartsKept
<1> DEFINE Inv == TypeStrong /\ PiecesInv /\ FilesInv /\ SectionsInv /\ PagedInv
<1>1. Init => Inv
  BY TypeInit, PiecesInit, FilesInit, SectionsInit, PagedInit
<1>2. Inv /\ [Next]_vars => Inv'
  <2> SUFFICES ASSUME Inv, [Next]_vars PROVE Inv'
    OBVIOUS
  <2>1. TypeStrong' /\ PiecesInv'
    BY TypeStep, PiecesStep
  <2>2. FilesInv'
    BY <2>1, ForeseenReached, FilesStep
  <2>3. SectionsInv'
    BY <2>1, <2>2, SectionsStep
  <2>4. PagedInv'
    BY <2>2, ForeseenReached, PagedStep
  <2>5. QED
    BY <2>1, <2>2, <2>3, <2>4
<1>3. Inv => PartsKept
  <2> SUFFICES ASSUME Inv PROVE PartsKept
    OBVIOUS
  <2>1. SectionsKept
    BY DEF SectionsInv, SectionsKept, InSections, Sectioned
  <2>2. QED
    BY <2>1 DEF PagedInv, PartsKept
<1> HIDE DEF Inv
<1>4. QED
  BY <1>1, <1>2, <1>3, PTL DEF Spec

-----------------------------------------------------------------------------
(* The end of the walk.                                                    *)

\* A built image has come to its second section, so that nothing that is in it was left
\* out of NothingOverwritten (RangesApart).
THEOREM SectionReached ==
  ASSUME \A r \in Roms : Reached(r)
  PROVE  Spec => [](outcome = "built" => second = Null)
<1>1. Init => TypeStrong /\ PiecesInv /\ FilesInv
  BY TypeInit, PiecesInit, FilesInit
<1>2. (TypeStrong /\ PiecesInv /\ FilesInv) /\ [Next]_vars =>
        (TypeStrong /\ PiecesInv /\ FilesInv)'
  BY TypeStep, PiecesStep, FilesStep
<1>3. FilesInv => (outcome = "built" => second = Null)
  BY DEF FilesInv
<1>4. QED
  BY <1>1, <1>2, <1>3, PTL DEF Spec

(* Each link leads to a later file, as before the lists are joined.        *)
Forward == \A c \in 1 .. Len(files) : iNextInArea[c] # Null => c < iNextInArea[c]

(* The walk does not go round: it follows links that lead through all      *)
(* files, each once, or links that only go forward.                        *)
WalkInv ==
  /\ pc = "areas" => Len(files) = 0 /\ iFiles = Null
  /\ pc \in {"obey", "sort"} => InOrder
  /\ pc = "sort" => rom.paged
  /\ pc \in {"exceptions", "directory", "relocations"} => Joined \/ Forward
  /\ pc = "layout" =>
       \/ Joined /\ fileCount = Cardinality(Walked(current))
       \/ Forward /\ (current # Null => fileCount < current)
  /\ fileCount <= Len(files)
  /\ pc \notin {"layout", "exceptions last", "size", "pages", "done"} => fileCount = 0

\* Links in the order of the obey file go forward.
LEMMA InOrderForward ==
  ASSUME files \in Seq(Line), InOrder
  PROVE  Forward
<1>1. Len(files) \in Nat
  OBVIOUS
<1>2. QED
  BY <1>1 DEF InOrder, Forward

\* Sorting joins the lists, or leaves links that go forward.
LEMMA SortedForward ==
  ASSUME TypeStrong, InOrder, SortFilesForPagedRom, rom.paged
  PROVE  Joined' \/ Forward'
<1>a. files \in Seq(Line)
  BY DEF TypeStrong, TypeOK
<1>b. /\ UNCHANGED <<files, rom>>
      /\ iNextInArea' = [i \in 1 .. Len(files) |-> Chained(i)]
  BY DEF SortFilesForPagedRom, obeyVars
<1>0. /\ files \in Seq(Line) /\ Len(files) \in Nat
      /\ UNCHANGED <<files, rom>>
      /\ iNextInArea' = [i \in 1 .. Len(files) |-> Chained(i)]
  BY <1>a, <1>b
<1>1. CASE List("extention") # {}
  <2>1. iFiles' = First(List("extention"))
    BY <1>1 DEF SortFilesForPagedRom
  <2>2. PICK h : h = First(List("extention"))
    OBVIOUS
  <2>3. Walked(h) = {} /\ \A c \in 1 .. Len(files) : Walked(Chained(c)) = Walked(c) \cup {c}
    BY <1>0, <1>1, <2>2, JoinedAfterSort
  <2>4. \A c : (Walked(c))' = Walked(c)
    BY <1>0, SameWalked
  <2>5. (Walked(iFiles))' = (Walked(h))'
    BY <2>1, <2>2 DEF Walked, Before, Rank
  <2>6. (Walked(iFiles))' = {}
    BY <2>3, <2>4, <2>5
  <2>7. ASSUME NEW c \in 1 .. Len(files)
        PROVE  (Walked(iNextInArea[c]))' = Walked(c) \cup {c}
    <3>1. PICK d : d = Chained(c)
      OBVIOUS
    <3>2. iNextInArea'[c] = d
      BY <1>0, <3>1
    <3>3. (Walked(iNextInArea[c]))' = (Walked(d))'
      BY <3>2 DEF Walked, Before, Rank
    <3>4. QED
      BY <2>3, <2>4, <3>1, <3>3
  <2>8. Joined'
    BY <1>0, <2>4, <2>6, <2>7 DEF Joined
  <2>9. QED
    BY <2>8
<1>2. CASE List("extention") = {}
  <2>1. Forward
    BY <1>0, InOrderForward
  <2>2. ASSUME NEW c \in 1 .. Len(files), Chained(c) # Null
        PROVE  c < Chained(c)
    <3> DEFINE after == {j \in List(ListOf(files[c])) : c < j}
    <3>1. CASE after # {}
      <4>1. Chained(c) = First(after)
        BY <3>1 DEF Chained
      <4>2. after \in SUBSET Nat
        BY <1>0 DEF List
      <4>3. First(after) \in after
        BY <3>1, <4>2, FirstLeast
      <4>4. QED
        BY <4>1, <4>3
    <3>2. CASE after = {}
      <4>1. Chained(c) = iNextInArea[c]
        BY <1>2, <3>2 DEF Chained
      <4>2. QED
        BY <2>1, <2>2, <4>1 DEF Forward
    <3>3. QED
      BY <3>1, <3>2
  <2>3. Forward'
    BY <1>0, <2>2 DEF Forward, Null
  <2>4. QED
    BY <2>3
<1>3. QED
  BY <1>1, <1>2

\* The walk goes on by one link.
LEMMA WalkGoesOn ==
  ASSUME TypeStrong, WalkInv, pc = "layout", current # Null, GoToNext
  PROVE  WalkInv'
<1>a. /\ files \in Seq(Line) /\ current \in 0 .. Len(files) /\ fileCount \in Nat
      /\ iNextInArea \in [1 .. Len(files) -> 0 .. Len(files)]
  BY DEF TypeStrong, TypeOK
<1>b. Len(files) \in Nat
  BY <1>a
<1>1. PICK c \in 1 .. Len(files) : c = current
  BY <1>a, <1>b DEF Null
<1>2. PICK d \in 0 .. Len(files) : d = iNextInArea[c]
  BY <1>a
<1>3. /\ pc' = "layout" /\ current' = d /\ fileCount' = fileCount + 1
      /\ UNCHANGED <<rom, files, iFiles, iNextInArea>>
  BY <1>1, <1>2 DEF GoToNext, obeyVars, listVars
<1>4. CASE Joined /\ fileCount = Cardinality(Walked(current))
  <2>1. Joined'
    BY <1>3, <1>4, SameJoined
  <2>2. Walked(d) = Walked(c) \cup {c}
    BY <1>2, <1>4 DEF Joined
  <2>3. Cardinality(Walked(d)) = Cardinality(Walked(c)) + 1
    BY <1>a, <2>2, WalkedOne
  <2>4. (Walked(current))' = Walked(d)
    BY <1>3 DEF Walked, Before, Rank, ListOf, Null
  <2>5. fileCount' = Cardinality((Walked(current))')
    BY <1>1, <1>3, <1>4, <2>3, <2>4
  <2>6. fileCount' <= Len(files)
    <3>1. IsFiniteSet(1 .. Len(files))
      BY <1>b, FS_Interval
    <3>2. Walked(d) \in SUBSET (1 .. Len(files))
      BY <1>a, WalkedIn
    <3>3. Cardinality(Walked(d)) <= Cardinality(1 .. Len(files))
      BY <3>1, <3>2, FS_Subset
    <3>4. Cardinality(1 .. Len(files)) = Len(files)
      BY <1>b, CountAll
    <3>5. QED
      BY <2>4, <2>5, <3>3, <3>4
  <2>7. QED
    BY <1>3, <2>1, <2>5, <2>6 DEF WalkInv
<1>5. CASE Forward /\ (current # Null => fileCount < current)
  <2>1. Forward'
    BY <1>3, <1>5 DEF Forward, Null
  <2>2. fileCount + 1 <= c /\ fileCount + 1 <= Len(files)
    BY <1>1, <1>5, <1>a, <1>b
  <2>3. d # Null => fileCount + 1 < d
    <3>1. d # Null => c < d
      BY <1>2, <1>5 DEF Forward
    <3>2. QED
      BY <1>a, <1>b, <2>2, <3>1
  <2>4. QED
    BY <1>3, <2>1, <2>2, <2>3 DEF WalkInv, Null
<1>6. QED
  BY <1>4, <1>5 DEF WalkInv

\* Nothing else moves the walk once it has begun.
LEMMA WalkStays ==
  ASSUME UNCHANGED <<rom, files, iFiles, iNextInArea, current, fileCount>>, WalkInv,
         \/ pc' = pc
         \/ pc \in {"exceptions", "directory"} /\ pc' \in {"directory", "relocations"}
         \/ pc \in {"layout", "exceptions last", "size", "pages"}
              /\ pc' \in {"exceptions last", "size", "pages", "done"}
         \/ pc' = "done"
  PROVE  WalkInv'
<1>1. Joined => Joined'
  BY SameJoined
<1>2. Forward => Forward'
  BY DEF Forward, Null
<1>3. (Walked(current))' = Walked(current)
  BY DEF Walked, Before, Rank, ListOf, Null
<1>4. InOrder => InOrder'
  BY DEF InOrder, Null
<1>5. QED
  BY <1>1, <1>2, <1>3, <1>4 DEF WalkInv, Null

\* Reading the obey file keeps the links in its order.
LEMMA WalkRead ==
  ASSUME TypeStrong, WalkInv,
         ParseAreaKeyword \/ CreateDefaultArea \/ SkipLine \/ ParseSection \/ ProcessFile
           \/ EndObey
  PROVE  WalkInv'
<1> USE DEF obeyVars, listVars, layoutVars, endVars
<1>0. files \in Seq(Line) /\ iNextInArea \in [1 .. Len(files) -> 0 .. Len(files)]
  BY DEF TypeStrong, TypeOK
<1>r. rom \in Roms /\ line \in Nat /\ line # 0
  BY DEF TypeStrong, TypeOK
<1>n. Len(files) \in Nat
  BY <1>0
<1>f. Fail("refused") => WalkInv'
  BY WalkStays DEF Fail
<1>1. CASE ParseAreaKeyword \/ SkipLine \/ ParseSection
  <2>1. /\ UNCHANGED <<rom, files, iFiles, iNextInArea, current, fileCount>>
        /\ pc' = pc \/ pc' = "done"
    BY <1>1 DEF ParseAreaKeyword, AddArea, SkipLine, ParseSection, Fail
  <2>2. QED
    BY <2>1, WalkStays
<1>2. CASE CreateDefaultArea
  <2>1. CASE ~Fail("refused")
    <3>1. /\ pc = "areas" /\ pc' = "obey"
          /\ UNCHANGED <<files, iFiles, iNextInArea, fileCount>>
      BY <1>2, <2>1 DEF CreateDefaultArea, AddArea
    <3>2. Len(files) = 0 /\ iFiles = Null /\ fileCount = 0
      BY <3>1 DEF WalkInv
    <3>3. InOrder'
      BY <3>1, <3>2 DEF InOrder
    <3>4. QED
      BY <3>1, <3>2, <3>3 DEF WalkInv
  <2>2. QED
    BY <1>f, <2>1
<1>3. CASE ProcessFile
  <2>1. CASE ~Fail("refused")
    <3>1. /\ pc = "obey" /\ pc' = "obey" /\ line <= Len(rom.lines)
          /\ files' = Append(files, rom.lines[line])
          /\ iNextInArea' = Linked(iNextInArea)
          /\ iFiles' = 1
          /\ UNCHANGED fileCount
      BY <1>3, <2>1 DEF ProcessFile, ReadLine
    <3>2. InOrder /\ fileCount = 0
      BY <3>1 DEF WalkInv
    <3>3. Len(files') = Len(files) + 1
      <4>1. rom.lines \in Seq(Line)
        BY <1>r, RomType
      <4>2. rom.lines[line] \in Line
        BY <1>r, <3>1, <4>1
      <4>3. QED
        BY <1>0, <3>1, <4>2
    <3>4. InOrder'
      BY <1>0, <3>1, <3>2, <3>3, LinkedInOrder
    <3>5. fileCount' <= Len(files')
      BY <1>n, <3>1, <3>2, <3>3
    <3>6. QED
      BY <3>1, <3>2, <3>4, <3>5 DEF WalkInv
  <2>2. QED
    BY <1>f, <2>1
<1>4. CASE EndObey
  <2>1. CASE ~Fail("refused")
    <3>1. /\ pc = "obey" /\ pc' = IF rom.paged THEN "sort" ELSE "directory"
          /\ UNCHANGED <<rom, files, iFiles, iNextInArea, fileCount>>
      BY <1>4, <2>1 DEF EndObey
    <3>2. InOrder /\ fileCount = 0 /\ fileCount <= Len(files)
      BY <3>1 DEF WalkInv
    <3>3. InOrder'
      BY <3>1, <3>2 DEF InOrder, Null
    <3>4. Forward'
      <4>1. Forward
        BY <1>0, <3>2, InOrderForward
      <4>2. QED
        BY <3>1, <4>1 DEF Forward, Null
    <3>5. QED
      BY <3>1, <3>2, <3>3, <3>4 DEF WalkInv
  <2>2. QED
    BY <1>f, <2>1
<1>5. QED
  BY <1>1, <1>2, <1>3, <1>4

\* Every action keeps the walk from going round.
LEMMA WalkStep == TypeStrong /\ WalkInv /\ [Next]_vars => WalkInv'
<1> SUFFICES ASSUME TypeStrong, WalkInv, [Next]_vars PROVE WalkInv'
  OBVIOUS
<1> USE DEF obeyVars, listVars, layoutVars, endVars
<1>1. CASE SortFilesForPagedRom
  <2>1. /\ pc = "sort" /\ pc' = "exceptions" /\ UNCHANGED <<files, fileCount>>
    BY <1>1 DEF SortFilesForPagedRom
  <2>2. rom.paged /\ InOrder /\ fileCount = 0 /\ fileCount <= Len(files)
    BY <2>1 DEF WalkInv
  <2>3. Joined' \/ Forward'
    BY <1>1, <2>2, SortedForward
  <2>4. QED
    BY <2>1, <2>2, <2>3 DEF WalkInv
<1>2. CASE ReserveRomExceptionSearchTable \/ WriteDirectory
  <2>1. /\ UNCHANGED <<rom, files, iFiles, iNextInArea, current, fileCount>>
        /\ \/ pc \in {"exceptions", "directory"} /\ pc' \in {"directory", "relocations"}
           \/ pc = "exceptions last" /\ pc' = "size"
           \/ pc' = "done"
    BY <1>2 DEF ReserveRomExceptionSearchTable, WriteDirectory, Fail
  <2>2. QED
    BY <2>1, WalkStays
<1>3. CASE AllocateRelocationTable
  <2>1. /\ pc = "relocations" /\ pc' = "layout" /\ current' = iFiles /\ fileCount' = 0
        /\ UNCHANGED <<rom, files, iFiles, iNextInArea>>
    BY <1>3 DEF AllocateRelocationTable
  <2>2. files \in Seq(Line) /\ iFiles \in 0 .. Len(files)
    BY DEF TypeStrong, TypeOK
  <2>3. Len(files) \in Nat
    BY <2>2
  <2>4. CASE Joined
    <3>1. Joined'
      BY <2>1, <2>4, SameJoined
    <3>2. (Walked(current))' = Walked(iFiles)
      BY <2>1 DEF Walked, Before, Rank, ListOf, Null
    <3>3. fileCount' = Cardinality((Walked(current))')
      BY <2>1, <2>4, <3>2, FS_EmptySet DEF Joined
    <3>4. QED
      BY <2>1, <2>3, <3>1, <3>3 DEF WalkInv
  <2>5. CASE Forward
    <3>1. Forward'
      BY <2>1, <2>5 DEF Forward, Null
    <3>2. current' # Null => fileCount' < current'
      BY <2>1, <2>2, <2>3 DEF Null
    <3>3. QED
      BY <2>1, <2>3, <3>1, <3>2 DEF WalkInv, Null
  <2>6. QED
    BY <2>1, <2>4, <2>5 DEF WalkInv
<1>4. CASE LayoutData
  <2>1. CASE Fail("no room")
    BY <2>1, WalkStays DEF Fail
  <2>2. CASE ~Fail("no room")
    <3>1. pc = "layout" /\ current # Null /\ GoToNext
      BY <1>4, <2>2 DEF LayoutData
    <3>2. QED
      BY <3>1, WalkGoesOn
  <2>3. QED
    BY <2>1, <2>2
<1>5. CASE LayoutExecutable
  <2>1. CASE Fail("no room") \/ Fail("crashed")
    BY <2>1, WalkStays DEF Fail
  <2>2. CASE ~(Fail("no room") \/ Fail("crashed"))
    <3>1. pc = "layout" /\ current # Null /\ GoToNext
      BY <1>5, <2>2 DEF LayoutExecutable
    <3>2. QED
      BY <3>1, WalkGoesOn
  <2>3. QED
    BY <2>1, <2>2
<1>6. CASE NextRom \/ EndLayout \/ SizeUsed \/ SetupPages
  <2>1. /\ UNCHANGED <<rom, files, iFiles, iNextInArea, current, fileCount>>
        /\ \/ pc' = pc
           \/ pc \in {"layout", "exceptions last", "size", "pages"}
                /\ pc' \in {"exceptions last", "size", "pages", "done"}
           \/ pc' = "done"
    BY <1>6 DEF NextRom, EndLayout, SizeUsed, SetupPages, Fail
  <2>2. QED
    BY <2>1, WalkStays
<1>7. CASE UNCHANGED vars
  BY <1>7, WalkStays DEF vars
<1>8. QED
  BY <1>1, <1>2, <1>3, <1>4, <1>5, <1>6, <1>7, WalkRead DEF Next

\* LayoutRom comes to each file once at most and does not go round, whatever links
\* SortFilesForPagedRom leaves: also where it leaves lists unjoined, in a paged
\* extension ROM.
THEOREM WalkEnds == Spec => [](fileCount <= Len(files))
<1>1. Init => WalkInv
  BY DEF Init, WalkInv
<1>2. WalkInv => fileCount <= Len(files)
  BY DEF WalkInv
<1>3. QED
  BY <1>1, <1>2, TypeInit, TypeStep, WalkStep, PTL DEF Spec
=============================================================================
