--------------------------- MODULE BsymPages_proofs ---------------------------
(***************************************************************************)
(* Proofs about BsymPages for every sequence of files, every page size and *)
(* every finite set of threads.                                            *)
(***************************************************************************)
EXTENDS BsymPages, TLAPS

-----------------------------------------------------------------------------
(* Where pages lie *)

\* A page begins where the one before it ends, or later.
LEMMA PagesInOrder ==
  ASSUME NEW p \in Nat, NEW q \in Nat, p < q
  PROVE  Start(p) \in Nat /\ Start(q) \in Nat /\ Start(p) + PageSize <= Start(q)
<1>1. PageSize \in Nat \ {0}
  BY PageSizeAssumption
<1>2. p + 1 <= q
  OBVIOUS
<1>3. PICK k \in Nat : q = p + 1 + k
  <2>1. q - (p + 1) \in Nat /\ q = p + 1 + (q - (p + 1))
    BY <1>2
  <2>2. QED
    BY <2>1
<1>4. k * PageSize \in Nat /\ p * PageSize \in Nat
  BY <1>1, <1>3
<1>5. q * PageSize = p * PageSize + PageSize + k * PageSize
  BY <1>1, <1>3
<1>6. QED
  BY <1>1, <1>4, <1>5 DEF Start

\* The number of pages, and the first byte of each is a byte of the data.
LEMMA PageCount ==
  ASSUME NEW l \in Nat \ {0}
  PROVE  /\ CeilDiv(l, PageSize) \in Nat
         /\ \A p \in 0..(CeilDiv(l, PageSize) - 1) : Start(p) \in Nat /\ Start(p) < l
<1> DEFINE n == CeilDiv(l, PageSize)
<1>1. PageSize \in Nat \ {0} /\ l + PageSize - 1 \in Nat
  BY PageSizeAssumption
<1>2. /\ n \in Int /\ n * PageSize <= l + PageSize - 1
      /\ l + PageSize - 1 < n * PageSize + PageSize
  BY <1>1, SMTT(30) DEF CeilDiv
<1> HIDE DEF n
<1>3. n \in Nat
  <2>1. 0 < n * PageSize + PageSize
    BY <1>1, <1>2
  <2>2. n * PageSize + PageSize = (n + 1) * PageSize
    BY <1>1, <1>2
  <2>3. 0 < n + 1
    BY <1>1, <1>2, <2>1, <2>2
  <2>4. QED
    BY <1>2, <2>3
<1>4. ASSUME NEW p \in 0..(n - 1) PROVE Start(p) \in Nat /\ Start(p) < l
  <2>1. p \in Nat /\ p < n
    BY <1>3, <1>4
  <2>2. Start(p) \in Nat /\ Start(p) + PageSize <= Start(n)
    BY <1>3, <2>1, PagesInOrder
  <2>3. QED
    BY <1>1, <1>2, <2>2 DEF Start
<1>5. QED
  BY <1>3, <1>4 DEF n

-----------------------------------------------------------------------------
(* The threads' claims *)

Working(w) == pc[w] = "compress"

\* The state of a flush, as far as the threads are concerned.
FlushTypes ==
  /\ run \in Runs /\ file \in 1..Len(run)
  /\ currentPage \in Nat
  /\ page \in [PageWorkers -> Nat \cup {None}]
  /\ pc \in [PageWorkers -> {"claim", "compress", "exit"}]

\* The threads run between CutPages and the join only, ...
RunBeforeJoin == main # "join" => \A w \in PageWorkers : pc[w] = "exit"

\* ... a claimed page is a page of the file and lies before the counter, ...
ClaimsBelow == \A w \in PageWorkers : Working(w) => page[w] \in Pages /\ page[w] < currentPage

\* ... no two threads have claimed the same page, ...
ClaimsDiffer ==
  \A v, w \in PageWorkers : v # w /\ Working(v) /\ Working(w) => page[v] # page[w]

\* ... and the pages in work and those still to come are as they were cut.
UncompressedRaw ==
  main = "join" =>
     /\ DOMAIN memory = 0..(totalPages * PageSize - 1)
     /\ DOMAIN iPages = Pages
     /\ \A p \in Pages :
           /\ iPages[p].size \in Int /\ iPages[p].size <= PageSize
           /\ (p >= currentPage \/ \E w \in PageWorkers : Working(w) /\ page[w] = p)
                 => memory[Start(p)][2] = "raw"

ClaimInv == FlushTypes /\ RunBeforeJoin /\ ClaimsBelow /\ ClaimsDiffer /\ UncompressedRaw

LEMMA InitClaims == Init => ClaimInv
BY RunsAssumption
   DEF Init, ClaimInv, FlushTypes, RunBeforeJoin, ClaimsBelow, ClaimsDiffer, UncompressedRaw, Working

LEMMA DataTypes ==
  ASSUME FlushTypes
  PROVE  /\ Data.length \in Nat \ {0} /\ totalPages \in Nat
         /\ Pages \subseteq Nat
         /\ \A p \in Pages : /\ Data.packed[p] \in Nat /\ Start(p) \in Nat /\ Start(p) < Data.length
                             /\ Start(p) \in 0..(totalPages * PageSize - 1)
<1>1. Data.length \in Nat \ {0} /\ Data.packed \in [0..(totalPages - 1) -> Nat \ {0}]
  BY RunsAssumption DEF FlushTypes, IsData, Data, totalPages
<1>2. totalPages \in Nat /\ \A p \in Pages : Start(p) \in Nat /\ Start(p) < Data.length
  BY <1>1, PageCount DEF totalPages, Pages
<1>3. ASSUME NEW p \in Pages PROVE Start(p) \in 0..(totalPages * PageSize - 1)
  <2>1. p \in Nat /\ p < totalPages
    BY <1>2, <1>3 DEF Pages
  <2>2. Start(p) \in Nat /\ Start(totalPages) \in Nat /\ Start(p) + PageSize <= Start(totalPages)
    BY <1>2, <2>1, PagesInOrder
  <2>3. QED
    BY <2>2, PageSizeAssumption DEF Start
<1>4. QED
  BY <1>1, <1>2, <1>3 DEF Pages

LEMMA NextClaims == ClaimInv /\ [Next]_vars => ClaimInv'
<1> SUFFICES ASSUME ClaimInv, [Next]_vars PROVE ClaimInv'
  OBVIOUS
<1>t. FlushTypes /\ PageSize \in Nat \ {0}
  BY PageSizeAssumption DEF ClaimInv
<1>p. /\ totalPages \in Nat /\ Pages \subseteq Nat
      /\ \A q \in Pages : /\ Data.packed[q] \in Nat /\ Start(q) \in Nat /\ Start(q) < Data.length
                          /\ Start(q) \in 0..(totalPages * PageSize - 1)
  BY <1>t, DataTypes
\* Steps of the same file: its pages are the same.
<1>s. UNCHANGED <<run, file>> => totalPages' = totalPages /\ Pages' = Pages /\ Data' = Data
  BY DEF totalPages, Pages, Data
<1>1. CASE CutPages
  <2>1. /\ main = "pages" /\ main' = "join" /\ UNCHANGED <<run, file, currentPage, page>>
        /\ memory' = [o \in 0..(totalPages * PageSize - 1) |-> RawByte(o)]
        /\ iPages' = [q \in Pages |-> [start |-> Start(q), size |-> DataSize(Data, q)]]
        /\ pc' = [w \in PageWorkers |-> "claim"]
    BY <1>1 DEF CutPages
  <2>2. FlushTypes' /\ \A w \in PageWorkers : ~Working(w)'
    BY <1>t, <2>1 DEF FlushTypes, Working
  <2>3. \A q \in Pages : iPages'[q].size \in Int /\ iPages'[q].size <= PageSize
    <3> SUFFICES ASSUME NEW q \in Pages PROVE DataSize(Data, q) \in Int /\ DataSize(Data, q) <= PageSize
      BY <2>1
    <3>1. Data.length \in Nat /\ Start(q) \in Nat
      BY <1>t, <1>p, DataTypes
    <3>2. QED
      BY <1>t, <3>1 DEF DataSize
  <2>4. \A q \in Pages : memory'[Start(q)][2] = "raw"
    BY <1>p, <2>1 DEF RawByte
  <2>5. UncompressedRaw'
    BY <1>s, <2>1, <2>3, <2>4 DEF UncompressedRaw
  <2>6. QED
    BY <2>1, <2>2, <2>5 DEF ClaimInv, RunBeforeJoin, ClaimsBelow, ClaimsDiffer
<1>2. ASSUME NEW w \in PageWorkers, Claim(w) PROVE ClaimInv'
  <2>1. /\ pc[w] = "claim" /\ UNCHANGED <<run, file, memory, iPages, main>>
        /\ page' = [page EXCEPT ![w] = currentPage]
        /\ currentPage' = currentPage + 1
        /\ pc' = [pc EXCEPT ![w] = IF currentPage < totalPages THEN "compress" ELSE "exit"]
    BY <1>2 DEF Claim
  <2>2. main = "join" /\ main' = "join"
    BY <2>1 DEF ClaimInv, RunBeforeJoin
  <2>3. FlushTypes'
    BY <1>t, <2>1 DEF FlushTypes
  <2>4. /\ page'[w] = currentPage /\ (Working(w)' => currentPage < totalPages)
        /\ \A v \in PageWorkers \ {w} : page'[v] = page[v] /\ (Working(v)' <=> Working(v))
    BY <1>t, <2>1 DEF FlushTypes, Working
  <2>5. currentPage \in Nat /\ \A q \in Pages : q \in Nat
    BY <1>t, <1>p DEF FlushTypes
  <2>6. ClaimsBelow'
    BY <1>s, <1>p, <2>1, <2>4, <2>5 DEF ClaimInv, ClaimsBelow, Pages
  <2>7. ClaimsDiffer'
    BY <2>4, <2>5 DEF ClaimInv, ClaimsBelow, ClaimsDiffer
  <2>8. \A q \in Pages :
           (q >= currentPage' \/ \E v \in PageWorkers : Working(v)' /\ page'[v] = q)
              => (q >= currentPage \/ \E v \in PageWorkers : Working(v) /\ page[v] = q)
    BY <2>1, <2>4, <2>5
  <2>9. UncompressedRaw'
    BY <1>s, <2>1, <2>2, <2>8 DEF ClaimInv, UncompressedRaw
  <2>10. QED
    BY <2>2, <2>3, <2>6, <2>7, <2>9 DEF ClaimInv, RunBeforeJoin
<1>3. ASSUME NEW w \in PageWorkers, Compress(w) PROVE ClaimInv'
  <2> DEFINE p == page[w]
             size == IF Fits(p) THEN Data.packed[p] ELSE PageSize
  <2>1. /\ Working(w) /\ UNCHANGED <<run, file, currentPage, page, main>>
        /\ memory' = [o \in DOMAIN memory |->
                        IF Fits(p) /\ o \in Start(p)..(Start(p) + Data.packed[p] - 1)
                        THEN <<p, "packed", o - Start(p)>> ELSE memory[o]]
        /\ iPages' = [iPages EXCEPT ![p].size = size]
        /\ pc' = [pc EXCEPT ![w] = "claim"]
    BY <1>3 DEF Compress, Working
  <2>2. main = "join" /\ p \in Pages /\ p < currentPage
    BY <2>1 DEF ClaimInv, RunBeforeJoin, ClaimsBelow, Working
  <2>3. /\ DOMAIN memory = 0..(totalPages * PageSize - 1) /\ DOMAIN iPages = Pages
        /\ \A q \in Pages : iPages[q].size \in Int /\ iPages[q].size <= PageSize
    BY <2>2 DEF ClaimInv, UncompressedRaw
  <2>4. size \in Int /\ size <= PageSize /\ (Fits(p) => Data.packed[p] < PageSize)
    <3>1. Data.packed[p] \in Nat /\ iPages[p].size \in Int /\ iPages[p].size <= PageSize
      BY <1>p, <2>2, <2>3
    <3>2. ASSUME NEW x \in Nat, NEW y \in Int, x < y, y <= PageSize PROVE x < PageSize
      BY <1>t, <3>2
    <3>3. Fits(p) => Data.packed[p] < PageSize
      BY <3>1, <3>2 DEF Fits
    <3>4. size = Data.packed[p] \/ size = PageSize
      OBVIOUS
    <3> HIDE DEF size
    <3>5. size \in Int
      BY <1>t, <3>1, <3>4
    <3>6. size <= PageSize
      <4>1. CASE Fits(p)
        BY <1>t, <3>1, <3>3, <4>1 DEF size
      <4>2. CASE ~Fits(p)
        BY <1>t, <4>2 DEF size
      <4>3. QED
        BY <4>1, <4>2
    <3>7. QED
      BY <3>3, <3>5, <3>6
  <2>5. FlushTypes'
    BY <1>t, <2>1 DEF FlushTypes
  <2>6. \A v \in PageWorkers : Working(v)' => v # w /\ Working(v)
    BY <1>t, <2>1 DEF FlushTypes, Working
  <2>7. ClaimsBelow' /\ ClaimsDiffer'
    BY <1>s, <2>1, <2>6 DEF ClaimInv, ClaimsBelow, ClaimsDiffer
  <2>8. ASSUME NEW q \in Pages, q # p PROVE memory'[Start(q)] = memory[Start(q)]
    <3>1. /\ p \in Nat /\ q \in Nat /\ Start(p) \in Nat /\ Start(q) \in Nat
          /\ Data.packed[p] \in Nat /\ Start(q) \in DOMAIN memory
      BY <1>p, <2>2, <2>3
    <3>2. Start(q) + PageSize <= Start(p) \/ Start(p) + PageSize <= Start(q)
      BY <2>8, <3>1, PagesInOrder
    <3>3. Fits(p) => Start(q) \notin Start(p)..(Start(p) + Data.packed[p] - 1)
      BY <1>t, <2>4, <3>1, <3>2
    <3>4. QED
      BY <2>1, <3>1, <3>3
  <2>9. \A q \in Pages : iPages'[q].size \in Int /\ iPages'[q].size <= PageSize
    <3> HIDE DEF size, p
    <3>1. ASSUME NEW q \in Pages, q # p PROVE iPages'[q] = iPages[q]
      BY <2>1, <2>3, <3>1
    <3>2. iPages'[p] = [iPages[p] EXCEPT !.size = size]
      BY <2>1, <2>2, <2>3
    <3>3. iPages'[p].size = size
      BY <3>2, <2>3, <2>2
    <3>4. QED
      BY <2>3, <2>4, <3>1, <3>3
  <2>10. DOMAIN memory' = DOMAIN memory /\ DOMAIN iPages' = DOMAIN iPages
    BY <2>1
  <2>11. ASSUME NEW q \in Pages,
                q >= currentPage \/ \E v \in PageWorkers : Working(v)' /\ page[v] = q
         PROVE  memory'[Start(q)][2] = "raw"
    <3>1. q # p
      BY <1>p, <1>t, <2>1, <2>2, <2>6, <2>11 DEF ClaimInv, ClaimsDiffer, FlushTypes
    <3>2. memory[Start(q)][2] = "raw"
      BY <2>2, <2>6, <2>11 DEF ClaimInv, UncompressedRaw
    <3>3. QED
      BY <2>8, <3>1, <3>2
  <2> HIDE DEF p, size
  <2>12. UncompressedRaw'
    BY <1>s, <2>1, <2>3, <2>9, <2>10, <2>11 DEF UncompressedRaw
  <2>13. QED
    BY <2>1, <2>2, <2>5, <2>7, <2>12 DEF ClaimInv, RunBeforeJoin
<1>4. CASE JoinAll \/ Pack \/ WriteFile
  <2>1. /\ UNCHANGED <<run, currentPage, page, pc>>
        /\ main' # "join"
        /\ \A w \in PageWorkers : pc[w] = "exit"
        /\ file' = file \/ (file < Len(run) /\ file' = file + 1)
    BY <1>4 DEF JoinAll, Pack, WriteFile, ClaimInv, RunBeforeJoin
  <2>2. Len(run) \in Nat
    BY <1>t, RunsAssumption DEF FlushTypes
  <2>3. file' \in 1..Len(run)
    BY <1>t, <2>1, <2>2 DEF FlushTypes
  <2>4. QED
    BY <1>t, <2>1, <2>3
       DEF ClaimInv, FlushTypes, RunBeforeJoin, ClaimsBelow, ClaimsDiffer, UncompressedRaw, Working
<1>5. CASE UNCHANGED vars
  BY <1>5, <1>s DEF vars, ClaimInv, FlushTypes, RunBeforeJoin, ClaimsBelow, ClaimsDiffer,
     UncompressedRaw, Working
<1>6. QED
  BY <1>1, <1>2, <1>3, <1>4, <1>5 DEF Next, MainThread, Work

\* The threads compress in place under no lock but the counter's, and yet no two have the
\* same page and none takes a page that was compressed: for every sequence of files, every
\* page size and every number of threads.
THEOREM PagesClaimedOnce == Spec => []CompressedOnce
<1>1. ClaimInv => CompressedOnce
  <2> SUFFICES ASSUME ClaimInv, NEW w \in PageWorkers, Working(w)
               PROVE  /\ memory[Start(page[w])][2] = "raw"
                      /\ \A v \in PageWorkers \ {w} : Working(v) => page[v] # page[w]
    BY DEF CompressedOnce, Working
  <2>1. main = "join" /\ page[w] \in Pages
    BY DEF ClaimInv, RunBeforeJoin, ClaimsBelow, Working
  <2>2. QED
    BY <2>1 DEF ClaimInv, ClaimsDiffer, UncompressedRaw
<1>2. QED
  BY InitClaims, NextClaims, <1>1, PTL DEF Spec

-----------------------------------------------------------------------------
(* The first file of a process *)

\* A page as it was cut, and as the threads leave it.
RawAt(p) ==
  /\ iPages[p].size = DataSize(Data, p)
  /\ \A k \in 0..(DataSize(Data, p) - 1) : memory[Start(p) + k] = <<p, "raw", k>>
StoredAt(p) ==
  /\ iPages[p].size = StoredSize(Data, p)
  /\ \A k \in 0..(StoredSize(Data, p) - 1) : memory[iPages[p].start + k] = <<p, Form(Data, p), k>>

\* Until the first file is written the counter starts from 0.
FirstInv ==
  /\ main \in {"pages", "join", "pack", "done"}
  /\ written = <<>> => file = 1 /\ main # "done" /\ (main = "pages" => currentPage = 0)

First == written = <<>>

\* The data lies in memory in whole pages.
CutInv ==
  First /\ main \in {"join", "pack"} =>
    /\ DOMAIN memory = 0..(totalPages * PageSize - 1) /\ DOMAIN iPages = Pages
    /\ \A p \in Pages : DOMAIN iPages[p] = {"start", "size"}

\* While the threads run a page lies where it was cut, raw if it is in work or still to
\* come, and stored otherwise.
JoinInv ==
  First /\ main = "join" =>
    /\ \A w \in PageWorkers : pc[w] = "exit" => currentPage >= totalPages
    /\ \A p \in Pages :
          /\ iPages[p].start = Start(p)
          /\ \/ RawAt(p) /\ (p >= currentPage \/ \E w \in PageWorkers : Working(w) /\ page[w] = p)
             \/ StoredAt(p) /\ p < currentPage /\ \A w \in PageWorkers : Working(w) => page[w] # p

\* The pages up to packed have been moved together, and the others have not been touched.
MovedInv ==
  First /\ main = "pack" =>
    /\ packed \in Nat /\ packed < totalPages /\ iPages[0].start = 0
    /\ \A p \in Pages : /\ StoredAt(p)
                        /\ iPages[p].start \in Nat /\ iPages[p].start <= Start(p)
                        /\ p > packed => iPages[p].start = Start(p)
    /\ \A p, q \in Pages : p < q => iPages[p].start + StoredSize(Data, p) <= iPages[q].start
    /\ \A p \in 0..(totalPages - 2) : p < packed => iPages[p].start + StoredSize(Data, p) = iPages[p + 1].start

PagesInv == FirstInv /\ (LastFits(run[1]) => CutInv /\ JoinInv /\ MovedInv)

WrittenInv == LastFits(run[1]) /\ written # <<>> => FilePacked(run[1], written[1])

\* Where a byte of a page lies says which byte of which page it is.
LEMMA Digits ==
  ASSUME NEW p \in Nat, NEW k \in 0..(PageSize - 1)
  PROVE  /\ (Start(p) + k) \div PageSize = p
         /\ (Start(p) + k) % PageSize = k
<1>1. PageSize \in Nat \ {0} /\ k \in Nat /\ k < PageSize
  BY PageSizeAssumption
<1> DEFINE o == Start(p) + k
           d == o \div PageSize
<1>2. Start(p) = PageSize * p /\ Start(p) \in Nat
  BY <1>1 DEF Start
<1>3. o \in Nat /\ d \in Nat /\ o = PageSize * d + (o % PageSize) /\ o % PageSize \in 0..(PageSize - 1)
  BY <1>1, <1>2
<1>4. ~(d < p)
  <2>1. SUFFICES ASSUME d < p PROVE FALSE
    OBVIOUS
  <2> HIDE DEF d
  <2>2. d * PageSize + PageSize <= p * PageSize
    BY <1>3, <2>1, PagesInOrder DEF Start
  <2>3. d * PageSize = PageSize * d
    BY <1>1, <1>3
  <2>4. PageSize * d \in Nat
    BY <1>1, <1>3
  <2>5. QED
    BY <1>1, <1>2, <1>3, <2>2, <2>3, <2>4 DEF Start
<1>5. ~(p < d)
  <2>1. SUFFICES ASSUME p < d PROVE FALSE
    OBVIOUS
  <2> HIDE DEF d
  <2>2. p * PageSize + PageSize <= d * PageSize
    BY <1>3, <2>1, PagesInOrder DEF Start
  <2>3. d * PageSize = PageSize * d
    BY <1>1, <1>3
  <2>4. PageSize * d \in Nat
    BY <1>1, <1>3
  <2>5. QED
    BY <1>1, <1>2, <1>3, <2>2, <2>3, <2>4 DEF Start
<1>6. d = p
  BY <1>3, <1>4, <1>5
<1>7. o % PageSize = k
  BY <1>1, <1>2, <1>3, <1>6
<1>8. QED
  BY <1>6, <1>7

\* A file has pages; each lies in the data and in the memory, and takes no more bytes
\* than it was cut to.
LEMMA PageTypes ==
  ASSUME FlushTypes
  PROVE  /\ PageSize \in Nat \ {0} /\ totalPages \in Nat \ {0} /\ Data.length \in Nat \ {0}
         /\ totalPages * PageSize \in Nat /\ 0 \in Pages
         /\ \A p \in Pages :
               /\ p \in Nat /\ p < totalPages /\ Start(p) \in Nat
               /\ Start(p) + PageSize <= totalPages * PageSize
               /\ DataSize(Data, p) \in Nat \ {0} /\ DataSize(Data, p) <= PageSize
               /\ Start(p) + DataSize(Data, p) <= Data.length
               /\ StoredSize(Data, p) \in Nat \ {0} /\ StoredSize(Data, p) <= DataSize(Data, p)
               /\ Shrinks(Data, p) => StoredSize(Data, p) = Data.packed[p]
<1>1. /\ PageSize \in Nat \ {0} /\ Data.length \in Nat \ {0} /\ totalPages \in Nat
      /\ Data.packed \in [Pages -> Nat \ {0}]
  BY PageSizeAssumption, RunsAssumption, DataTypes DEF FlushTypes, IsData, Data, Pages, totalPages
<1>2. totalPages # 0
  <2>1. /\ Data.length + PageSize - 1 \in Nat /\ PageSize <= Data.length + PageSize - 1
        /\ totalPages = (Data.length + PageSize - 1) \div PageSize
    BY <1>1 DEF totalPages, CeilDiv
  <2>2. Data.length + PageSize - 1 = PageSize * totalPages + ((Data.length + PageSize - 1) % PageSize)
    BY <1>1, <2>1
  <2>3. (Data.length + PageSize - 1) % PageSize < PageSize
    BY <1>1, <2>1
  <2>4. totalPages = 0 => PageSize * totalPages = 0
    BY <1>1
  <2>5. (Data.length + PageSize - 1) % PageSize \in Nat
    BY <1>1, <2>1
  <2> DEFINE r == (Data.length + PageSize - 1) % PageSize
  <2>6. r \in Nat /\ r < PageSize /\ (totalPages = 0 => Data.length + PageSize - 1 = r)
    BY <1>1, <2>2, <2>3, <2>4, <2>5
  <2> HIDE DEF r
  <2>7. QED
    BY <1>1, <2>1, <2>6
<1>3. totalPages * PageSize \in Nat /\ 0 \in Pages
  BY <1>1, <1>2 DEF Pages
<1>4. ASSUME NEW p \in Pages
      PROVE  /\ p \in Nat /\ p < totalPages /\ Start(p) \in Nat
             /\ Start(p) + PageSize <= totalPages * PageSize
             /\ DataSize(Data, p) \in Nat \ {0} /\ DataSize(Data, p) <= PageSize
             /\ Start(p) + DataSize(Data, p) <= Data.length
             /\ StoredSize(Data, p) \in Nat \ {0} /\ StoredSize(Data, p) <= DataSize(Data, p)
             /\ Shrinks(Data, p) => StoredSize(Data, p) = Data.packed[p]
  <2>1. p \in Nat /\ p < totalPages
    BY <1>1 DEF Pages
  <2>2. Start(p) \in Nat /\ Start(p) < Data.length
    BY DataTypes
  <2>3. Start(p) + PageSize <= totalPages * PageSize
    BY <1>1, <2>1, PagesInOrder DEF Start
  <2>4. /\ DataSize(Data, p) \in Nat \ {0} /\ DataSize(Data, p) <= PageSize
        /\ Start(p) + DataSize(Data, p) <= Data.length
    BY <1>1, <2>2 DEF DataSize
  <2>5. Data.packed[p] \in Nat \ {0}
    BY <1>1
  <2>6. /\ StoredSize(Data, p) \in Nat \ {0} /\ StoredSize(Data, p) <= DataSize(Data, p)
        /\ Shrinks(Data, p) => StoredSize(Data, p) = Data.packed[p]
    BY <2>4, <2>5 DEF StoredSize, Shrinks
  <2>7. QED
    BY <2>1, <2>2, <2>3, <2>4, <2>6
<1>5. QED
  BY <1>1, <1>2, <1>3, <1>4

\* The first state.
LEMMA InitPages == Init => PagesInv /\ WrittenInv
BY DEF Init, PagesInv, FirstInv, CutInv, JoinInv, MovedInv, WrittenInv

\* The data is cut, and nothing is compressed yet.
LEMMA CutKeeps ==
  ASSUME ClaimInv, PagesInv, CutPages
  PROVE  PagesInv'
<1>1. /\ main = "pages" /\ main' = "join" /\ UNCHANGED <<run, file, currentPage, page, packed, written>>
      /\ memory' = [o \in 0..(totalPages * PageSize - 1) |-> RawByte(o)]
      /\ iPages' = [p \in Pages |-> [start |-> Start(p), size |-> DataSize(Data, p)]]
      /\ pc' = [w \in PageWorkers |-> "claim"]
  BY DEF CutPages
<1>2. Data' = Data /\ totalPages' = totalPages /\ Pages' = Pages
  BY <1>1 DEF Data, totalPages, Pages
<1>3. FlushTypes
  BY DEF ClaimInv
<1>4. ASSUME First, NEW p \in Pages
      PROVE  iPages'[p].start = Start(p) /\ RawAt(p)' /\ p >= currentPage
  <2>1. currentPage = 0 /\ p \in Nat
    BY <1>1, <1>3, <1>4, PageTypes DEF PagesInv, FirstInv, First
  <2>2. iPages'[p].start = Start(p) /\ iPages'[p].size = DataSize(Data, p)
    BY <1>1
  <2>3. ASSUME NEW k \in 0..(DataSize(Data, p) - 1) PROVE memory'[Start(p) + k] = <<p, "raw", k>>
    <3>1. /\ PageSize \in Nat \ {0} /\ totalPages * PageSize \in Nat /\ Start(p) \in Nat
          /\ Start(p) + PageSize <= totalPages * PageSize /\ Data.length \in Nat
          /\ DataSize(Data, p) \in Nat /\ DataSize(Data, p) <= PageSize
          /\ Start(p) + DataSize(Data, p) <= Data.length
      BY <1>3, PageTypes
    <3>2. k \in 0..(PageSize - 1) /\ Start(p) + k < Data.length
      BY <3>1
    <3>3. Start(p) + k \in 0..(totalPages * PageSize - 1)
      BY <3>1, <3>2
    <3>4. RawByte(Start(p) + k) = <<p, "raw", k>>
      BY <2>1, <3>2, Digits DEF RawByte
    <3>5. QED
      BY <1>1, <3>3, <3>4
  <2>4. QED
    BY <1>2, <2>1, <2>2, <2>3 DEF RawAt
<1>5. CutInv'
  BY <1>1, <1>2 DEF CutInv, First
<1>6. JoinInv'
  <2>1. \A w \in PageWorkers : pc'[w] # "exit"
    BY <1>1
  <2>2. First' => First
    BY <1>1 DEF First
  <2>3. QED
    BY <1>1, <1>2, <1>4, <2>1, <2>2 DEF JoinInv
<1>7. FirstInv' /\ MovedInv'
  BY <1>1 DEF PagesInv, FirstInv, MovedInv
<1>8. QED
  BY <1>5, <1>6, <1>7 DEF PagesInv

\* A thread that takes a page takes one that is still raw.
LEMMA ClaimKeeps ==
  ASSUME ClaimInv, PagesInv, NEW w \in PageWorkers, Claim(w)
  PROVE  PagesInv'
<1>1. /\ pc[w] = "claim" /\ UNCHANGED <<run, file, memory, iPages, main, packed, written>>
      /\ page' = [page EXCEPT ![w] = currentPage] /\ currentPage' = currentPage + 1
      /\ pc' = [pc EXCEPT ![w] = IF currentPage < totalPages THEN "compress" ELSE "exit"]
  BY DEF Claim
<1>2. /\ FlushTypes /\ main = "join" /\ currentPage \in Nat /\ totalPages \in Nat
      /\ page \in [PageWorkers -> Nat \cup {None}] /\ pc \in [PageWorkers -> {"claim", "compress", "exit"}]
      /\ \A q \in Pages : q \in Nat /\ q < totalPages
  BY <1>1, PageTypes DEF ClaimInv, FlushTypes, RunBeforeJoin
<1>3. Data' = Data /\ totalPages' = totalPages /\ Pages' = Pages
  BY <1>1 DEF Data, totalPages, Pages
<1>4. \A q : (RawAt(q)' <=> RawAt(q)) /\ (StoredAt(q)' <=> StoredAt(q))
  BY <1>1, <1>3 DEF RawAt, StoredAt
<1>5. /\ page'[w] = currentPage /\ (Working(w)' <=> currentPage < totalPages) /\ ~Working(w)
      /\ pc'[w] = "exit" => currentPage >= totalPages
      /\ \A v \in PageWorkers : v # w => page'[v] = page[v] /\ pc'[v] = pc[v] /\ (Working(v)' <=> Working(v))
  BY <1>1, <1>2 DEF Working
<1>6. ASSUME First, LastFits(run[1]) PROVE JoinInv'
  <2>1. ASSUME NEW v \in PageWorkers, pc'[v] = "exit" PROVE currentPage' >= totalPages
    <3>1. pc[v] = "exit" => currentPage >= totalPages
      BY <1>2, <1>6 DEF PagesInv, JoinInv
    <3>2. currentPage >= totalPages
      BY <1>5, <2>1, <3>1
    <3>3. QED
      BY <1>1, <1>2, <3>2
  <2>2. ASSUME NEW q \in Pages
        PROVE  /\ iPages'[q].start = Start(q)
               /\ \/ RawAt(q)' /\ (q >= currentPage' \/ \E v \in PageWorkers : Working(v)' /\ page'[v] = q)
                  \/ StoredAt(q)' /\ q < currentPage' /\ \A v \in PageWorkers : Working(v)' => page'[v] # q
    <3>1. /\ iPages[q].start = Start(q)
          /\ \/ RawAt(q) /\ (q >= currentPage \/ \E v \in PageWorkers : Working(v) /\ page[v] = q)
             \/ StoredAt(q) /\ q < currentPage /\ \A v \in PageWorkers : Working(v) => page[v] # q
      BY <1>2, <1>6 DEF PagesInv, JoinInv
    <3>2. CASE RawAt(q) /\ q = currentPage
      BY <1>1, <1>2, <1>4, <1>5, <3>1, <3>2
    <3>3. CASE RawAt(q) /\ q >= currentPage /\ q # currentPage
      <4>1. q >= currentPage'
        BY <1>1, <1>2, <3>3
      <4>2. QED
        BY <1>1, <1>4, <3>1, <3>3, <4>1
    <3>4. CASE RawAt(q) /\ \E v \in PageWorkers : Working(v) /\ page[v] = q
      BY <1>1, <1>4, <1>5, <3>1, <3>4
    <3>5. CASE StoredAt(q) /\ q < currentPage /\ \A v \in PageWorkers : Working(v) => page[v] # q
      <4>1. q < currentPage' /\ q # currentPage
        BY <1>1, <1>2, <3>5
      <4>2. \A v \in PageWorkers : Working(v)' => page'[v] # q
        BY <1>5, <3>5, <4>1
      <4>3. QED
        BY <1>1, <1>4, <3>1, <3>5, <4>1, <4>2
    <3>6. QED
      BY <3>1, <3>2, <3>3, <3>4, <3>5
  <2>3. QED
    BY <1>3, <2>1, <2>2 DEF JoinInv
<1>7. First' = First /\ run' = run
  BY <1>1 DEF First
<1>8. FirstInv' /\ MovedInv'
  BY <1>1, <1>2 DEF PagesInv, FirstInv, MovedInv
<1>9. LastFits(run[1]) => CutInv'
  BY <1>1, <1>2, <1>3, <1>7 DEF PagesInv, CutInv
<1>10. LastFits(run[1]) => JoinInv'
  <2>1. ~First => JoinInv'
    BY <1>7 DEF JoinInv
  <2>2. QED
    BY <1>6, <2>1
<1>11. LastFits(run[1])' <=> LastFits(run[1])
  BY <1>7
<1>12. QED
  BY <1>8, <1>9, <1>10, <1>11 DEF PagesInv

\* A compressed page is written back where it lay, and meets no other page.
LEMMA CompressKeeps ==
  ASSUME ClaimInv, PagesInv, NEW w \in PageWorkers, Compress(w)
  PROVE  PagesInv'
<1>p. PICK p : p = page[w]
  OBVIOUS
<1>1. /\ Working(w) /\ UNCHANGED <<run, file, currentPage, page, main, packed, written>>
      /\ memory' = [o \in DOMAIN memory |->
                      IF Fits(p) /\ o \in Start(p)..(Start(p) + Data.packed[p] - 1)
                      THEN <<p, "packed", o - Start(p)>> ELSE memory[o]]
      /\ iPages' = [iPages EXCEPT ![p].size = IF Fits(p) THEN Data.packed[p] ELSE PageSize]
      /\ pc' = [pc EXCEPT ![w] = "claim"]
  BY <1>p DEF Compress, Working
<1>2. /\ FlushTypes /\ main = "join" /\ currentPage \in Nat
      /\ page \in [PageWorkers -> Nat \cup {None}] /\ pc \in [PageWorkers -> {"claim", "compress", "exit"}]
      /\ p \in Pages /\ p < currentPage
  BY <1>p, <1>1 DEF ClaimInv, FlushTypes, RunBeforeJoin, ClaimsBelow, Working
<1>3. Data' = Data /\ totalPages' = totalPages /\ Pages' = Pages
  BY <1>1 DEF Data, totalPages, Pages
<1>4. /\ PageSize \in Nat \ {0} /\ totalPages \in Nat /\ totalPages * PageSize \in Nat
      /\ \A q \in Pages :
            /\ q \in Nat /\ Start(q) \in Nat /\ Start(q) + PageSize <= totalPages * PageSize
            /\ DataSize(Data, q) \in Nat \ {0} /\ DataSize(Data, q) <= PageSize
            /\ StoredSize(Data, q) \in Nat \ {0} /\ StoredSize(Data, q) <= DataSize(Data, q)
            /\ Shrinks(Data, q) => StoredSize(Data, q) = Data.packed[q]
  BY <1>2, PageTypes
<1>7. First' = First /\ run' = run
  BY <1>1 DEF First
<1>8. FirstInv' /\ MovedInv'
  BY <1>1, <1>2 DEF PagesInv, FirstInv, MovedInv
<1>9. LastFits(run[1]) => CutInv'
  <2>1. DOMAIN memory' = DOMAIN memory /\ DOMAIN iPages' = DOMAIN iPages
    BY <1>1
  <2>2. QED
    BY <1>1, <1>2, <1>3, <1>7, <2>1 DEF PagesInv, CutInv
<1>10. ASSUME First, LastFits(run[1]) PROVE JoinInv'
  <2>1. /\ DOMAIN memory = 0..(totalPages * PageSize - 1) /\ DOMAIN iPages = Pages
        /\ Data = run[1]
    BY <1>2, <1>10 DEF PagesInv, FirstInv, CutInv, First, Data
  <2>2. iPages[p].start = Start(p) /\ RawAt(p)
    BY <1>p, <1>1, <1>2, <1>10 DEF PagesInv, JoinInv
  <2>3. (Fits(p) <=> Shrinks(Data, p)) /\ (Fits(p) => Data.packed[p] = StoredSize(Data, p))
    BY <1>2, <1>4, <2>2 DEF RawAt, Fits, Shrinks
  <2>4. ~Fits(p) => PageSize = StoredSize(Data, p)
    <3>1. Pages = 0..(CeilDiv(run[1].length, PageSize) - 1)
      BY <2>1 DEF Pages, totalPages
    <3>2. DataSize(Data, p) < PageSize => Shrinks(Data, p)
      BY <1>2, <1>10, <2>1, <3>1 DEF LastFits
    <3>3. ~Shrinks(Data, p) => DataSize(Data, p) = PageSize
      BY <1>2, <1>4, <3>2
    <3>4. QED
      BY <2>3, <3>3 DEF StoredSize
  <2>5. /\ iPages'[p].start = Start(p) /\ iPages'[p].size = StoredSize(Data, p)
        /\ \A q \in Pages : q # p => iPages'[q] = iPages[q]
    <3>1. iPages'[p] = [iPages[p] EXCEPT !.size = IF Fits(p) THEN Data.packed[p] ELSE PageSize]
      BY <1>1, <1>2, <2>1
    <3>2. iPages'[p].start = iPages[p].start
      BY <3>1
    <3>3. \A q \in Pages : q # p => iPages'[q] = iPages[q]
      BY <1>1, <2>1
    <3>4. p \in DOMAIN iPages
      BY <1>2, <2>1
    <3>5. iPages'[p].size = IF Fits(p) THEN Data.packed[p] ELSE PageSize
      <4>1. "size" \in DOMAIN iPages[p]
        BY <1>2, <1>10 DEF PagesInv, CutInv, First
      <4>2. QED
        BY <3>1, <4>1
    <3>6. QED
      BY <2>2, <2>3, <2>4, <3>2, <3>3, <3>5
  <2>6. ASSUME NEW q \in Pages, q # p, NEW k \in 0..(PageSize - 1)
        PROVE  memory'[Start(q) + k] = memory[Start(q) + k]
    <3>1. /\ p \in Nat /\ q \in Nat /\ Start(p) \in Nat /\ Start(q) \in Nat
          /\ Start(q) + PageSize <= totalPages * PageSize
          /\ DataSize(Data, p) <= PageSize /\ DataSize(Data, p) \in Nat
          /\ StoredSize(Data, p) \in Nat /\ StoredSize(Data, p) <= DataSize(Data, p)
      BY <1>2, <1>4
    <3>2. Start(q) + k \in DOMAIN memory
      BY <1>4, <2>1, <3>1
    <3>3. Start(q) + PageSize <= Start(p) \/ Start(p) + PageSize <= Start(q)
      BY <2>6, <3>1, PagesInOrder
    <3>4. Start(q) + k \notin Start(p)..(Start(p) + StoredSize(Data, p) - 1)
      BY <1>4, <3>1, <3>3
    <3>5. QED
      BY <1>1, <2>3, <3>2, <3>4
  <2>7. StoredAt(p)'
    <3>1. ASSUME NEW k \in 0..(StoredSize(Data, p) - 1) PROVE memory'[Start(p) + k] = <<p, Form(Data, p), k>>
      <4>1. /\ k \in Nat /\ k < StoredSize(Data, p) /\ k \in 0..(DataSize(Data, p) - 1)
            /\ Start(p) \in Nat /\ Start(p) + k \in DOMAIN memory
        BY <1>2, <1>4, <2>1
      <4>2. CASE Fits(p)
        <5>1. Start(p) + k \in Start(p)..(Start(p) + Data.packed[p] - 1) /\ (Start(p) + k) - Start(p) = k
          BY <1>2, <1>4, <2>3, <4>1, <4>2
        <5>2. QED
          BY <1>1, <2>3, <4>1, <4>2, <5>1 DEF Form
      <4>3. CASE ~Fits(p)
        BY <1>1, <2>2, <2>3, <4>1, <4>3 DEF RawAt, Form
      <4>4. QED
        BY <4>2, <4>3
    <3>2. QED
      BY <1>3, <2>5, <3>1 DEF StoredAt
  <2>8. ASSUME NEW q \in Pages, q # p, iPages[q].start = Start(q) PROVE (RawAt(q) => RawAt(q)') /\ (StoredAt(q) => StoredAt(q)')
    <3>1. /\ DataSize(Data, q) \in Nat /\ DataSize(Data, q) <= PageSize
          /\ StoredSize(Data, q) \in Nat /\ StoredSize(Data, q) <= PageSize
      BY <1>4
    <3>2. iPages'[q] = iPages[q]
      BY <2>5, <2>8
    <3>3. \A k \in 0..(DataSize(Data, q) - 1) : memory'[Start(q) + k] = memory[Start(q) + k]
      BY <1>4, <2>6, <2>8, <3>1
    <3>4. \A k \in 0..(StoredSize(Data, q) - 1) : memory'[Start(q) + k] = memory[Start(q) + k]
      BY <1>4, <2>6, <2>8, <3>1
    <3>5. QED
      BY <1>3, <2>8, <3>2, <3>3, <3>4 DEF RawAt, StoredAt
  <2>9. \A v \in PageWorkers : /\ Working(v)' <=> v # w /\ Working(v)
                               /\ pc'[v] = "exit" => pc[v] = "exit"
    BY <1>1, <1>2 DEF Working
  <2>10. ASSUME NEW q \in Pages
         PROVE  /\ iPages'[q].start = Start(q)
                /\ \/ RawAt(q)' /\ (q >= currentPage \/ \E v \in PageWorkers : Working(v)' /\ page[v] = q)
                   \/ StoredAt(q)' /\ q < currentPage /\ \A v \in PageWorkers : Working(v)' => page[v] # q
    <3>1. CASE q = p
      <4>1. \A v \in PageWorkers : Working(v)' => page[v] # q
        BY <1>p, <1>1, <2>9, <3>1 DEF ClaimInv, ClaimsDiffer
      <4>2. QED
        BY <1>2, <2>5, <2>7, <3>1, <4>1
    <3>2. CASE q # p
      <4>1. /\ iPages[q].start = Start(q)
            /\ \/ RawAt(q) /\ (q >= currentPage \/ \E v \in PageWorkers : Working(v) /\ page[v] = q)
               \/ StoredAt(q) /\ q < currentPage /\ \A v \in PageWorkers : Working(v) => page[v] # q
        BY <1>2, <1>10 DEF PagesInv, JoinInv
      <4>2. iPages'[q].start = Start(q) /\ (RawAt(q) => RawAt(q)') /\ (StoredAt(q) => StoredAt(q)')
        BY <2>5, <2>8, <3>2, <4>1
      <4>3. (\E v \in PageWorkers : Working(v) /\ page[v] = q) => \E v \in PageWorkers : Working(v)' /\ page[v] = q
        BY <1>p, <2>9, <3>2
      <4>4. (\A v \in PageWorkers : Working(v) => page[v] # q) => \A v \in PageWorkers : Working(v)' => page[v] # q
        BY <2>9
      <4>5. QED
        BY <4>1, <4>2, <4>3, <4>4
    <3>3. QED
      BY <3>1, <3>2
  <2>11. \A v \in PageWorkers : pc'[v] = "exit" => currentPage >= totalPages
    BY <1>2, <1>10, <2>9 DEF PagesInv, JoinInv
  <2>12. QED
    BY <1>1, <1>3, <2>10, <2>11 DEF JoinInv
<1>11. LastFits(run[1]) => JoinInv'
  <2>1. ~First => JoinInv'
    BY <1>7 DEF JoinInv
  <2>2. QED
    BY <1>10, <2>1
<1>12. LastFits(run[1])' <=> LastFits(run[1])
  BY <1>7
<1>13. QED
  BY <1>8, <1>9, <1>11, <1>12 DEF PagesInv

\* When the threads have been joined no page is left raw.
LEMMA JoinKeeps ==
  ASSUME ClaimInv, PagesInv, JoinAll
  PROVE  PagesInv'
<1>1. /\ main = "join" /\ main' = "pack" /\ \A w \in PageWorkers : pc[w] = "exit"
      /\ packed' = 0 /\ UNCHANGED <<run, file, memory, iPages, currentPage, page, pc, written>>
  BY DEF JoinAll
<1>2. Data' = Data /\ totalPages' = totalPages /\ Pages' = Pages /\ First' = First
  BY <1>1 DEF Data, totalPages, Pages, First
<1>3. \A q : StoredAt(q)' <=> StoredAt(q)
  BY <1>1, <1>2 DEF StoredAt
<1>4. /\ PageSize \in Nat \ {0} /\ totalPages \in Nat \ {0} /\ 0 \in Pages /\ currentPage \in Nat
      /\ \A q \in Pages :
            /\ q \in Nat /\ q < totalPages /\ Start(q) \in Nat
            /\ StoredSize(Data, q) \in Nat \ {0} /\ StoredSize(Data, q) <= PageSize
  <2>1. FlushTypes /\ currentPage \in Nat
    BY DEF ClaimInv, FlushTypes
  <2>2. /\ PageSize \in Nat \ {0} /\ totalPages \in Nat \ {0} /\ 0 \in Pages
        /\ \A q \in Pages :
              /\ q \in Nat /\ q < totalPages /\ Start(q) \in Nat
              /\ DataSize(Data, q) \in Nat /\ DataSize(Data, q) <= PageSize
              /\ StoredSize(Data, q) \in Nat \ {0} /\ StoredSize(Data, q) <= DataSize(Data, q)
    BY <2>1, PageTypes
  <2>3. QED
    BY <2>1, <2>2
<1>5. ASSUME First, LastFits(run[1]) PROVE MovedInv'
  <2>1. currentPage >= totalPages
    <3>1. PICK w : w \in PageWorkers
      BY PageWorkersAssumption
    <3>2. QED
      BY <1>1, <1>5, <3>1 DEF PagesInv, JoinInv
  <2>2. ASSUME NEW q \in Pages PROVE StoredAt(q) /\ iPages[q].start = Start(q)
    <3>1. ~(q >= currentPage) /\ \A w \in PageWorkers : ~Working(w)
      BY <1>1, <1>4, <2>1 DEF Working
    <3>2. QED
      BY <1>1, <1>5, <3>1 DEF PagesInv, JoinInv
  <2>3. ASSUME NEW p \in Pages, NEW q \in Pages, p < q
        PROVE  iPages[p].start + StoredSize(Data, p) <= iPages[q].start
    <3>1. Start(p) \in Nat /\ Start(q) \in Nat /\ Start(p) + PageSize <= Start(q)
      BY <1>4, <2>3, PagesInOrder
    <3>2. QED
      BY <1>4, <2>2, <3>1
  <2>4. iPages[0].start = 0
    BY <1>4, <2>2 DEF Start
  <2>5. \A p \in Pages : iPages[p].start \in Nat /\ iPages[p].start <= Start(p)
    BY <1>4, <2>2
  <2>6. packed' \in Nat /\ packed' < totalPages /\ \A p \in 0..(totalPages - 2) : ~(p < packed')
    BY <1>1, <1>4
  <2>7. QED
    BY <1>1, <1>2, <1>3, <2>2, <2>3, <2>4, <2>5, <2>6 DEF MovedInv
<1>6. LastFits(run[1]) => MovedInv'
  BY <1>2, <1>5 DEF MovedInv
<1>7. LastFits(run[1]) => CutInv'
  BY <1>1, <1>2 DEF PagesInv, CutInv
<1>8. FirstInv' /\ JoinInv' /\ (LastFits(run[1])' <=> LastFits(run[1]))
  BY <1>1 DEF PagesInv, FirstInv, JoinInv
<1>9. QED
  BY <1>6, <1>7, <1>8 DEF PagesInv

\* One turn of the loop that moves the pages together.
LEMMA MoveKeeps ==
  ASSUME ClaimInv, PagesInv, Pack
  PROVE  PagesInv'
<1>n. PICK n : n = packed + 1
  OBVIOUS
<1>d. PICK d : d = iPages[packed].start + iPages[packed].size
  OBVIOUS
<1>1. /\ main = "pack" /\ main' = "pack" /\ packed < totalPages - 1 /\ packed' = n
      /\ memory' = [o \in DOMAIN memory |->
                      IF o \in d..(d + iPages[n].size - 1)
                      THEN memory[iPages[n].start + (o - d)] ELSE memory[o]]
      /\ iPages' = [iPages EXCEPT ![n].start = d]
      /\ UNCHANGED <<run, file, currentPage, page, pc, written>>
  BY <1>n, <1>d DEF Pack
<1>2. Data' = Data /\ totalPages' = totalPages /\ Pages' = Pages /\ First' = First
  BY <1>1 DEF Data, totalPages, Pages, First
<1>3. /\ PageSize \in Nat \ {0} /\ totalPages \in Nat \ {0} /\ totalPages * PageSize \in Nat /\ 0 \in Pages
      /\ \A q \in Pages :
            /\ q \in Nat /\ q < totalPages /\ Start(q) \in Nat
            /\ Start(q) + PageSize <= totalPages * PageSize
            /\ StoredSize(Data, q) \in Nat \ {0} /\ StoredSize(Data, q) <= PageSize
  <2>1. FlushTypes
    BY DEF ClaimInv
  <2>2. /\ PageSize \in Nat \ {0} /\ totalPages \in Nat \ {0} /\ totalPages * PageSize \in Nat /\ 0 \in Pages
        /\ \A q \in Pages :
              /\ q \in Nat /\ q < totalPages /\ Start(q) \in Nat
              /\ Start(q) + PageSize <= totalPages * PageSize
              /\ DataSize(Data, q) \in Nat /\ DataSize(Data, q) <= PageSize
              /\ StoredSize(Data, q) \in Nat \ {0} /\ StoredSize(Data, q) <= DataSize(Data, q)
    BY <2>1, PageTypes
  <2>3. QED
    BY <2>2
<1>4. LastFits(run[1]) => CutInv'
  <2>1. ASSUME First, LastFits(run[1])
        PROVE  DOMAIN memory' = DOMAIN memory /\ DOMAIN iPages' = DOMAIN iPages
               /\ \A p \in Pages : DOMAIN iPages'[p] = {"start", "size"}
    <3>1. DOMAIN iPages = Pages /\ \A p \in Pages : DOMAIN iPages[p] = {"start", "size"}
      BY <1>1, <2>1 DEF PagesInv, CutInv
    <3>2. QED
      BY <1>1, <3>1
  <2>2. QED
    BY <1>1, <1>2, <2>1 DEF PagesInv, CutInv
<1>5. ASSUME First, LastFits(run[1]) PROVE MovedInv'
  <2>1. /\ DOMAIN memory = 0..(totalPages * PageSize - 1) /\ DOMAIN iPages = Pages
        /\ \A p \in Pages : DOMAIN iPages[p] = {"start", "size"}
    BY <1>1, <1>5 DEF PagesInv, CutInv
  <2>2. /\ packed \in Nat /\ packed < totalPages /\ iPages[0].start = 0
        /\ \A p \in 0..(totalPages - 2) : p < packed => iPages[p].start + StoredSize(Data, p) = iPages[p + 1].start
    BY <1>1, <1>5 DEF PagesInv, MovedInv
  <2>3. n \in Nat /\ n \in Pages /\ packed \in Pages /\ packed < n /\ n # 0
    BY <1>n, <1>1, <1>3, <2>2 DEF Pages
  \* What is known of a page before the step.
  <2>4. ASSUME NEW q \in Pages
        PROVE  /\ StoredAt(q) /\ iPages[q].size = StoredSize(Data, q)
               /\ iPages[q].start \in Nat /\ iPages[q].start <= Start(q)
               /\ q > packed => iPages[q].start = Start(q)
    BY <1>1, <1>5 DEF PagesInv, MovedInv, StoredAt
  <2>5. ASSUME NEW p \in Pages, NEW q \in Pages, p < q
        PROVE  iPages[p].start + StoredSize(Data, p) <= iPages[q].start
    BY <1>1, <1>5, <2>5 DEF PagesInv, MovedInv
  \* The page is moved down, to the end of the one before it.
  <2>6. /\ d = iPages[packed].start + StoredSize(Data, packed) /\ d \in Nat
        /\ d <= Start(n) /\ iPages[n].start = Start(n) /\ Start(n) \in Nat
    <3>1. /\ iPages[packed].size = StoredSize(Data, packed) /\ iPages[packed].start \in Nat
          /\ StoredSize(Data, packed) \in Nat
      BY <1>3, <2>3, <2>4
    <3>2. iPages[n].start = Start(n) /\ Start(n) \in Nat
      BY <1>3, <2>3, <2>4
    <3>3. iPages[packed].start + StoredSize(Data, packed) <= iPages[n].start
      BY <2>3, <2>5
    <3>4. QED
      BY <1>d, <3>1, <3>2, <3>3
  <2>7. \A o \in DOMAIN memory :
           memory'[o] = IF o \in d..(d + StoredSize(Data, n) - 1) THEN memory[Start(n) + (o - d)] ELSE memory[o]
    BY <1>1, <2>3, <2>4, <2>6
  <2>8. /\ \A q \in Pages : q # n => iPages'[q] = iPages[q]
        /\ iPages'[n].start = d /\ iPages'[n].size = StoredSize(Data, n)
    <3>1. iPages'[n] = [iPages[n] EXCEPT !.start = d] /\ \A q \in Pages : q # n => iPages'[q] = iPages[q]
      BY <1>1, <2>1, <2>3
    <3>2. DOMAIN iPages[n] = {"start", "size"} /\ iPages[n].size = StoredSize(Data, n)
      BY <2>1, <2>3, <2>4
    <3>3. QED
      BY <3>1, <3>2
  <2>9. StoredAt(n)'
    <3>1. ASSUME NEW k \in 0..(StoredSize(Data, n) - 1) PROVE memory'[d + k] = <<n, Form(Data, n), k>>
      <4>1. /\ StoredSize(Data, n) \in Nat /\ StoredSize(Data, n) <= PageSize
            /\ Start(n) + PageSize <= totalPages * PageSize
        BY <1>3, <2>3
      <4>2. k \in Nat /\ k < StoredSize(Data, n) /\ d + k \in Nat /\ (d + k) - d = k
        BY <2>6, <4>1
      <4>3. d + k \in d..(d + StoredSize(Data, n) - 1)
        BY <2>6, <4>1, <4>2
      <4>4. d + k \in DOMAIN memory
        <5>1. PICK m : m = totalPages * PageSize
          OBVIOUS
        <5>2. m \in Nat /\ Start(n) + PageSize <= m /\ DOMAIN memory = 0..(m - 1)
          BY <1>3, <2>1, <4>1, <5>1
        <5>3. d + k < Start(n) + PageSize
          BY <1>3, <2>6, <4>1, <4>2
        <5>4. PageSize \in Nat /\ Start(n) \in Nat /\ d + k \in Nat
          BY <1>3, <2>6, <4>2
        <5>5. d + k \in 0..(m - 1)
          BY <5>2, <5>3, <5>4
        <5>6. QED
          BY <5>2, <5>5
      <4>5. memory'[d + k] = memory[Start(n) + k]
        BY <2>7, <4>2, <4>3, <4>4
      <4>6. memory[iPages[n].start + k] = <<n, Form(Data, n), k>>
        BY <2>3, <2>4 DEF StoredAt
      <4>7. QED
        BY <2>6, <4>5, <4>6
    <3>2. QED
      BY <1>2, <2>8, <3>1 DEF StoredAt
  \* No other page is touched: those before lie below d, those after above the page that is moved.
  <2>10. ASSUME NEW q \in Pages, q # n PROVE StoredAt(q)'
    <3>1. iPages[q].start + StoredSize(Data, q) <= d \/ d + StoredSize(Data, n) <= iPages[q].start
      <4>1. CASE q = packed
        BY <1>3, <2>4, <2>6, <4>1
      <4>2. CASE q < packed
        <5>1. /\ iPages[q].start + StoredSize(Data, q) <= iPages[packed].start
              /\ iPages[packed].start \in Nat /\ StoredSize(Data, packed) \in Nat
              /\ iPages[q].start \in Nat /\ StoredSize(Data, q) \in Nat
          BY <1>3, <2>3, <2>4, <2>5, <4>2
        <5>2. QED
          BY <2>6, <5>1
      <4>3. CASE q > n
        <5>1. iPages[n].start + StoredSize(Data, n) <= iPages[q].start /\ StoredSize(Data, n) \in Nat /\ iPages[q].start \in Nat
          BY <1>3, <2>3, <2>4, <2>5, <4>3
        <5>2. QED
          BY <2>6, <5>1
      <4>4. q = packed \/ q < packed \/ q > n
        BY <1>n, <1>3, <2>2, <2>3, <2>10
      <4>5. QED
        BY <4>1, <4>2, <4>3, <4>4
    <3>2. ASSUME NEW k \in 0..(StoredSize(Data, q) - 1) PROVE memory'[iPages[q].start + k] = <<q, Form(Data, q), k>>
      <4>1. /\ iPages[q].start \in Nat /\ StoredSize(Data, q) \in Nat /\ StoredSize(Data, q) <= PageSize
            /\ iPages[q].start <= Start(q) /\ Start(q) \in Nat /\ Start(q) + PageSize <= totalPages * PageSize
        BY <1>3, <2>4
      <4>2. iPages[q].start + k \in DOMAIN memory
        BY <1>3, <2>1, <4>1
      <4>3. StoredSize(Data, n) \in Nat
        BY <1>3, <2>3
      <4>4. iPages[q].start + k \notin d..(d + StoredSize(Data, n) - 1)
        BY <2>6, <3>1, <4>1, <4>3
      <4>5. memory[iPages[q].start + k] = <<q, Form(Data, q), k>>
        BY <2>4 DEF StoredAt
      <4>6. QED
        BY <2>7, <4>2, <4>4, <4>5
    <3>3. QED
      BY <1>2, <2>4, <2>8, <2>10, <3>2 DEF StoredAt
  <2>11. ASSUME NEW q \in Pages
         PROVE  /\ StoredAt(q)' /\ iPages'[q].start \in Nat /\ iPages'[q].start <= Start(q)
                /\ q > n => iPages'[q].start = Start(q)
    <3>1. CASE q = n
      BY <2>3, <2>6, <2>8, <2>9, <3>1
    <3>2. CASE q # n
      <4>1. q > n => q > packed
        BY <1>3, <2>2, <2>3
      <4>2. QED
        BY <2>4, <2>8, <2>10, <3>2, <4>1
    <3>3. QED
      BY <3>1, <3>2
  <2>12. ASSUME NEW p \in Pages, NEW q \in Pages, p < q
         PROVE  iPages'[p].start + StoredSize(Data, p) <= iPages'[q].start
    <3>1. CASE p # n /\ q # n
      BY <2>5, <2>8, <2>12, <3>1
    <3>2. CASE p = n
      <4>1. iPages[n].start + StoredSize(Data, n) <= iPages[q].start /\ StoredSize(Data, n) \in Nat /\ iPages[q].start \in Nat
        BY <1>3, <2>3, <2>4, <2>5, <2>12, <3>2
      <4>2. d + StoredSize(Data, n) <= iPages[q].start /\ q # n
        BY <1>3, <2>3, <2>6, <2>12, <3>2, <4>1
      <4>3. QED
        BY <2>8, <3>2, <4>2
    <3>3. CASE q = n /\ p = packed
      <4>1. p # n
        BY <2>2, <2>3, <3>3
      <4>2. iPages'[q].start = d /\ iPages'[p] = iPages[p]
        BY <2>8, <3>3, <4>1
      <4>3. StoredSize(Data, p) \in Nat /\ iPages[p].start \in Nat
        BY <1>3, <2>4
      <4>4. QED
        BY <2>6, <3>3, <4>2, <4>3
    <3>4. CASE q = n /\ p < packed
      <4>1. /\ iPages[p].start + StoredSize(Data, p) <= iPages[packed].start
            /\ StoredSize(Data, p) \in Nat /\ iPages[p].start \in Nat
            /\ StoredSize(Data, packed) \in Nat /\ iPages[packed].start \in Nat /\ p # n
        BY <1>3, <2>2, <2>3, <2>4, <2>5, <3>4
      <4>2. iPages'[q].start = d /\ iPages'[p] = iPages[p]
        BY <2>8, <3>4, <4>1
      <4>3. QED
        BY <2>6, <4>1, <4>2
    <3>5. \/ p # n /\ q # n
          \/ p = n
          \/ q = n /\ p = packed
          \/ q = n /\ p < packed
      <4>1. p \in Nat /\ q \in Nat /\ packed \in Nat
        BY <1>3, <2>2
      <4>2. QED
        BY <1>n, <2>12, <4>1
    <3>6. QED
      BY <3>1, <3>2, <3>3, <3>4, <3>5
  <2>13. ASSUME NEW p \in 0..(totalPages - 2), p < n
         PROVE  iPages'[p].start + StoredSize(Data, p) = iPages'[p + 1].start
    <3>1. p \in Pages /\ p + 1 \in Pages /\ p \in Nat /\ p # n
      BY <1>3, <2>3, <2>13 DEF Pages
    <3>2. CASE p = packed
      <4>1. p + 1 = n
        BY <1>n, <3>2
      <4>2. iPages'[p] = iPages[p] /\ iPages'[n].start = d
        BY <2>8, <3>1
      <4>3. QED
        BY <2>6, <3>2, <4>1, <4>2
    <3>3. CASE p < packed
      <4>1. p + 1 # n
        BY <1>n, <2>2, <3>1, <3>3
      <4>2. iPages'[p] = iPages[p] /\ iPages'[p + 1] = iPages[p + 1]
        BY <2>8, <3>1, <4>1
      <4>3. iPages[p].start + StoredSize(Data, p) = iPages[p + 1].start
        BY <2>2, <3>3
      <4>4. QED
        BY <4>2, <4>3
    <3>4. p = packed \/ p < packed
      BY <1>n, <2>2, <2>13, <3>1
    <3>5. QED
      BY <3>2, <3>3, <3>4
  <2>14. iPages'[0].start = 0 /\ n < totalPages
    BY <1>3, <2>2, <2>3, <2>8
  <2>15. QED
    BY <1>1, <1>2, <2>3, <2>11, <2>12, <2>13, <2>14 DEF MovedInv
<1>6. LastFits(run[1]) => MovedInv'
  BY <1>2, <1>5 DEF MovedInv
<1>7. FirstInv' /\ JoinInv' /\ (LastFits(run[1])' <=> LastFits(run[1]))
  BY <1>1 DEF PagesInv, FirstInv, JoinInv
<1>8. QED
  BY <1>4, <1>6, <1>7 DEF PagesInv

\* The first element of a sequence that another is appended to.
LEMMA AppendFirst ==
  ASSUME NEW S, NEW s \in Seq(S), NEW e
  PROVE  /\ Append(s, e) \in Seq(S \cup {e}) /\ Append(s, e) # <<>>
         /\ Append(s, e)[1] = IF s = <<>> THEN e ELSE s[1]
<1>1. s \in Seq(S \cup {e}) /\ e \in S \cup {e}
  OBVIOUS
<1>2. Append(s, e) \in Seq(S \cup {e}) /\ Len(Append(s, e)) = Len(s) + 1 /\ Len(s) \in Nat
  BY <1>1
<1>3. Append(s, e) # <<>>
  BY <1>2
<1>4. CASE s = <<>>
  BY <1>4
<1>5. CASE s # <<>>
  <2>1. 1 \in 1..Len(s)
    BY <1>2, <1>5
  <2>2. QED
    BY <1>1, <1>5, <2>1
<1>6. QED
  BY <1>2, <1>3, <1>4, <1>5

Flushed == [pages |-> iPages, bytes |-> [i \in 1..CompressedSize |-> memory[i - 1]]]

\* When the pages have been moved together the file is what it should be.
LEMMA FlushedPacked ==
  ASSUME ClaimInv, PagesInv, First, main = "pack", packed >= totalPages - 1, LastFits(run[1])
  PROVE  FilePacked(run[1], Flushed)
<1> DEFINE last == totalPages - 1
           bytes == [i \in 1..CompressedSize |-> memory[i - 1]]
<1>1. Data = run[1] /\ last = CeilDiv(run[1].length, PageSize) - 1
  BY DEF PagesInv, FirstInv, First, Data, totalPages
<1>2. /\ PageSize \in Nat \ {0} /\ totalPages \in Nat \ {0} /\ 0 \in Pages
      /\ \A q \in Pages : q \in Nat /\ q < totalPages /\ StoredSize(Data, q) \in Nat \ {0}
  BY PageTypes DEF ClaimInv
<1>3. /\ packed \in Nat /\ packed = last /\ iPages[0].start = 0
      /\ \A p \in 0..(totalPages - 2) : p < packed => iPages[p].start + StoredSize(Data, p) = iPages[p + 1].start
      /\ \A p \in Pages : StoredAt(p) /\ iPages[p].start \in Nat /\ iPages[p].size = StoredSize(Data, p)
      /\ \A p, q \in Pages : p < q => iPages[p].start + StoredSize(Data, p) <= iPages[q].start
  <2>1. /\ packed \in Nat /\ packed < totalPages /\ iPages[0].start = 0
        /\ \A p \in 0..(totalPages - 2) : p < packed => iPages[p].start + StoredSize(Data, p) = iPages[p + 1].start
        /\ \A p \in Pages : StoredAt(p) /\ iPages[p].start \in Nat
        /\ \A p, q \in Pages : p < q => iPages[p].start + StoredSize(Data, p) <= iPages[q].start
    BY DEF PagesInv, MovedInv
  <2>2. \A p \in Pages : iPages[p].size = StoredSize(Data, p)
    BY <2>1 DEF StoredAt
  <2>3. packed = last
    BY <1>2, <2>1
  <2>4. QED
    BY <2>1, <2>2, <2>3
<1>4. last \in Pages /\ last \in Nat /\ Pages = 0..last
  BY <1>2 DEF Pages
<1>5. /\ CompressedSize = iPages[last].start + StoredSize(Data, last) /\ CompressedSize \in Nat
      /\ \A p \in Pages : iPages[p].start + StoredSize(Data, p) <= CompressedSize
  <2>1. CompressedSize = iPages[last].start + StoredSize(Data, last)
    BY <1>3, <1>4 DEF CompressedSize
  <2>2. CompressedSize \in Nat
    BY <1>2, <1>3, <1>4, <2>1
  <2>3. ASSUME NEW p \in Pages PROVE iPages[p].start + StoredSize(Data, p) <= CompressedSize
    <3>1. CASE p = last
      BY <2>1, <2>2, <3>1
    <3>2. CASE p # last
      <4>1. p < last
        BY <1>2, <1>4, <3>2
      <4>2. iPages[p].start + StoredSize(Data, p) <= iPages[last].start
        BY <1>3, <1>4, <4>1
      <4>3. /\ iPages[p].start \in Nat /\ StoredSize(Data, p) \in Nat
            /\ iPages[last].start \in Nat /\ StoredSize(Data, last) \in Nat
        BY <1>2, <1>3, <1>4
      <4>4. QED
        BY <2>1, <4>2, <4>3
    <3>3. QED
      BY <3>1, <3>2
  <2>4. QED
    BY <2>1, <2>2, <2>3
<1>6. Len(bytes) = CompressedSize
  BY <1>5
<1>7. ASSUME NEW p \in Pages PROVE [i \in 1..iPages[p].size |-> bytes[iPages[p].start + i]] = Stored(Data, p)
  <2>1. /\ iPages[p].size = StoredSize(Data, p) /\ iPages[p].start \in Nat /\ StoredSize(Data, p) \in Nat
        /\ iPages[p].start + StoredSize(Data, p) <= CompressedSize
    BY <1>2, <1>3, <1>5
  <2>2. ASSUME NEW i \in 1..StoredSize(Data, p)
        PROVE  bytes[iPages[p].start + i] = <<p, Form(Data, p), i - 1>>
    <3>1. /\ i - 1 \in 0..(StoredSize(Data, p) - 1) /\ iPages[p].start + i \in 1..CompressedSize
          /\ (iPages[p].start + i) - 1 = iPages[p].start + (i - 1)
      BY <1>5, <2>1
    <3>2. memory[iPages[p].start + (i - 1)] = <<p, Form(Data, p), i - 1>>
      BY <1>3, <3>1 DEF StoredAt
    <3>3. QED
      BY <3>1, <3>2
  <2> HIDE DEF bytes
  <2>3. QED
    BY <2>1, <2>2 DEF Stored
<1>8. ASSUME NEW p \in Pages
      PROVE  iPages[p].start + iPages[p].size = IF p < last THEN iPages[p + 1].start ELSE Len(bytes)
  <2>1. iPages[p].size = StoredSize(Data, p)
    BY <1>3
  <2>2. CASE p < last
    <3>1. p \in 0..(totalPages - 2)
      BY <1>2, <2>2
    <3>2. QED
      BY <1>3, <2>1, <2>2, <3>1
  <2>3. CASE ~(p < last)
    <3>1. p = last
      BY <1>2, <1>4, <2>3
    <3>2. QED
      BY <1>5, <1>6, <2>1, <2>3, <3>1
  <2>4. QED
    BY <2>2, <2>3
<1>9. Flushed.pages = iPages /\ Flushed.bytes = bytes
  BY DEF Flushed
<1> HIDE DEF bytes, last
<1>10. QED
  BY <1>1, <1>3, <1>4, <1>7, <1>8, <1>9 DEF FilePacked

\* The first file is written as it should be, and those after it leave it alone.
FilesInv == WrittenInv /\ \E S : written \in Seq(S)

\* Writing a file keeps the invariant.
LEMMA WriteKeeps ==
  ASSUME ClaimInv, PagesInv, FilesInv, WriteFile
  PROVE  PagesInv' /\ FilesInv'
<1>1. /\ main = "pack" /\ packed >= totalPages - 1 /\ written' = Append(written, Flushed)
      /\ main' \in {"pages", "done"} /\ run' = run
  BY DEF WriteFile, Flushed
<1>2. PICK S : written \in Seq(S)
  BY DEF FilesInv
<1>3. /\ written' \in Seq(S \cup {Flushed}) /\ written' # <<>>
      /\ written'[1] = IF written = <<>> THEN Flushed ELSE written[1]
  BY <1>1, <1>2, AppendFirst
<1>4. ASSUME LastFits(run[1]) PROVE FilePacked(run[1], written'[1])
  <2>1. CASE First
    BY <1>1, <1>3, <1>4, <2>1, FlushedPacked DEF First
  <2>2. CASE ~First
    BY <1>3, <1>4, <2>2 DEF FilesInv, WrittenInv, First
  <2>3. QED
    BY <2>1, <2>2
<1>5. FilesInv'
  BY <1>1, <1>3, <1>4 DEF FilesInv, WrittenInv
<1>6. PagesInv'
  BY <1>1, <1>3 DEF PagesInv, FirstInv, CutInv, JoinInv, MovedInv, First
<1>7. QED
  BY <1>5, <1>6

\* Every step keeps the invariant.
LEMMA NextPages == ClaimInv /\ PagesInv /\ FilesInv /\ [Next]_vars => PagesInv' /\ FilesInv'
<1> SUFFICES ASSUME ClaimInv, PagesInv, FilesInv, [Next]_vars PROVE PagesInv' /\ FilesInv'
  OBVIOUS
<1>1. UNCHANGED <<run, written>> => FilesInv'
  BY DEF FilesInv, WrittenInv
<1>2. CASE CutPages
  BY <1>1, <1>2, CutKeeps DEF CutPages
<1>3. ASSUME NEW w \in PageWorkers, Claim(w) PROVE PagesInv' /\ FilesInv'
  BY <1>1, <1>3, ClaimKeeps DEF Claim
<1>4. ASSUME NEW w \in PageWorkers, Compress(w) PROVE PagesInv' /\ FilesInv'
  BY <1>1, <1>4, CompressKeeps DEF Compress
<1>5. CASE JoinAll
  BY <1>1, <1>5, JoinKeeps DEF JoinAll
<1>6. CASE Pack
  BY <1>1, <1>6, MoveKeeps DEF Pack
<1>7. CASE WriteFile
  BY <1>7, WriteKeeps
<1>8. CASE UNCHANGED vars
  <2>1. UNCHANGED <<run, file, memory, iPages, currentPage, page, pc, main, packed, written>>
    BY <1>8 DEF vars
  <2>2. Data' = Data /\ totalPages' = totalPages /\ Pages' = Pages /\ First' = First
    BY <2>1 DEF Data, totalPages, Pages, First
  <2>3. /\ \A q : (RawAt(q)' <=> RawAt(q)) /\ (StoredAt(q)' <=> StoredAt(q))
        /\ \A w : Working(w)' <=> Working(w)
    BY <2>1, <2>2 DEF RawAt, StoredAt, Working
  <2>4. (CutInv => CutInv') /\ FirstInv'
    BY <2>1, <2>2 DEF PagesInv, CutInv, FirstInv
  <2>5. JoinInv => JoinInv'
    BY <2>1, <2>2, <2>3 DEF JoinInv
  <2>6. MovedInv => MovedInv'
    BY <2>1, <2>2, <2>3 DEF MovedInv
  <2>7. LastFits(run[1])' <=> LastFits(run[1])
    BY <2>1
  <2>8. QED
    BY <1>1, <2>1, <2>4, <2>5, <2>6, <2>7 DEF PagesInv
<1>9. QED
  BY <1>2, <1>3, <1>4, <1>5, <1>6, <1>7, <1>8 DEF Next, MainThread, Work

\* The first .bsym file of a process is its pages, each packed where that is smaller, one
\* behind the other and where its table says, whatever the schedule of the threads: for every
\* page size, every number of threads and all symbol data whose last page is whole or packs.
THEOREM FirstFile == Spec => [](LastFits(run[1]) => FirstFilePacked)
<1>1. PagesInv /\ FilesInv => (LastFits(run[1]) => FirstFilePacked)
  BY DEF FilesInv, WrittenInv, FirstFilePacked
<1>2. Init => PagesInv /\ FilesInv
  <2>1. Init => written \in Seq({})
    BY DEF Init
  <2>2. QED
    BY <2>1, InitPages DEF FilesInv
<1>3. QED
  BY InitClaims, NextClaims, <1>2, NextPages, <1>1, PTL DEF Spec
=============================================================================
