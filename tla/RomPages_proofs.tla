---------------------------- MODULE RomPages_proofs ----------------------------
(***************************************************************************)
(* Proofs about RomPages for every ROM, page size and set of threads.      *)
(***************************************************************************)
EXTENDS RomPages, FiniteSetTheorems, TLAPS

LEMMA DivType ==
  ASSUME NEW a \in Nat, NEW b \in Nat \ {0}
  PROVE  CeilDiv(a, b) \in Nat
<1>1. (a + b - 1) \in Nat
  OBVIOUS
<1>2. QED
  BY <1>1 DEF CeilDiv

LEMMA PageCounts ==
  ASSUME rom \in Roms
  PROVE  numPages \in Nat /\ firstPaged \in Nat
<1>1. PageSize \in Nat \ {0}
  BY PageSizeAssumption
<1>2. rom.used \in Nat /\ CeilDiv(rom.used, PageSize) \in Nat
  BY <1>1, DivType, RomsAssumption DEF IsRom
<1>3. RoundUp(rom.used) \in Nat
  BY <1>1, <1>2 DEF RoundUp
<1>4. rom.pagedStart \in Nat
  BY <1>3, RomsAssumption DEF IsRom
<1>5. QED
  BY <1>1, <1>2, <1>4, DivType DEF numPages, firstPaged

\* The types that the claims of pages rest on.
ClaimTypes ==
  /\ rom \in Roms
  /\ DOMAIN pageInfo = 0..numPages
  /\ m_nextpage \in Nat
  /\ page \in [PageWorkers -> Nat \cup {None}]
  /\ pc \in [PageWorkers -> {"claim", "compress", "exit"}]

Working(w) == pc[w] = "compress"

\* The threads run between IndexUnpaged and JoinAll only.
RunBeforeJoin == main # "join" => \A w \in PageWorkers : pc[w] = "exit"

\* A page in work lies below m_nextpage, belongs to one thread and has no entry yet.
ClaimsBelow == \A w \in PageWorkers : Working(w) => page[w] \in Nat /\ page[w] < m_nextpage /\ page[w] < numPages
ClaimsDiffer == \A v, w \in PageWorkers : v # w /\ Working(v) /\ Working(w) => page[v] # page[w]
ClaimsFresh == \A w \in PageWorkers : Working(w) => pageInfo[page[w]] = NoInfo

\* The entries from m_nextpage on are untouched until the threads have been joined.
RestFresh ==
  /\ main = "index" => m_nextpage = 0
  /\ main \in {"index", "join"} => \A p \in 0..numPages : p >= m_nextpage => pageInfo[p] = NoInfo

ClaimInv ==
  ClaimTypes /\ RunBeforeJoin /\ ClaimsBelow /\ ClaimsDiffer /\ ClaimsFresh /\ RestFresh

LEMMA InitClaims == Init => ClaimInv
<1> SUFFICES ASSUME Init PROVE ClaimInv
  OBVIOUS
<1>1. ClaimTypes
  BY DEF Init, ClaimTypes
<1>2. QED
  BY <1>1 DEF Init, ClaimInv, RunBeforeJoin, ClaimsBelow, ClaimsDiffer, ClaimsFresh, RestFresh, Working

LEMMA NextClaims == ClaimInv /\ [Next]_vars => ClaimInv'
<1> SUFFICES ASSUME ClaimInv, [Next]_vars PROVE ClaimInv'
  OBVIOUS
<1>t. /\ rom \in Roms /\ DOMAIN pageInfo = 0..numPages /\ m_nextpage \in Nat
      /\ page \in [PageWorkers -> Nat \cup {None}]
      /\ pc \in [PageWorkers -> {"claim", "compress", "exit"}]
  BY DEF ClaimInv, ClaimTypes
<1>n. numPages \in Nat /\ firstPaged \in Nat
  BY <1>t, PageCounts
<1>1. CASE IndexUnpaged
  <2>1. /\ main = "index" /\ main' = "join" /\ rom' = rom /\ page' = page
        /\ pageInfo' = [p \in DOMAIN pageInfo |->
                          IF p < firstPaged
                          THEN [start |-> Start(p), size |-> PageSize, type |-> "packed", pageable |-> FALSE]
                          ELSE pageInfo[p]]
        /\ m_nextpage' = firstPaged
        /\ pc' = [w \in PageWorkers |-> "claim"]
    BY <1>1 DEF IndexUnpaged
  <2>2. numPages' = numPages
    BY <2>1 DEF numPages
  <2>3. ClaimTypes'
    BY <1>t, <1>n, <2>1, <2>2 DEF ClaimTypes
  <2>4. \A w \in PageWorkers : ~Working(w)'
    BY <2>1 DEF Working
  <2>5. \A p \in 0..numPages : p >= firstPaged => pageInfo'[p] = pageInfo[p]
    BY <1>t, <1>n, <2>1
  <2>6. RestFresh'
    BY <1>t, <1>n, <2>1, <2>2, <2>5 DEF RestFresh, ClaimInv
  <2>7. QED
    BY <2>1, <2>3, <2>4, <2>6 DEF ClaimInv, RunBeforeJoin, ClaimsBelow, ClaimsDiffer, ClaimsFresh
<1>2. ASSUME NEW w \in PageWorkers, Claim(w) PROVE ClaimInv'
  <2>1. /\ pc[w] = "claim" /\ UNCHANGED <<rom, pageInfo, main>>
        /\ page' = [page EXCEPT ![w] = m_nextpage]
        /\ m_nextpage' = m_nextpage + 1
        /\ pc' = [pc EXCEPT ![w] = IF m_nextpage < numPages THEN "compress" ELSE "exit"]
    BY <1>2 DEF Claim
  <2>2. numPages' = numPages
    BY <2>1 DEF numPages
  <2>3. main = "join" /\ main' = "join"
    BY <2>1 DEF ClaimInv, RunBeforeJoin
  <2>4. ClaimTypes'
    BY <1>t, <2>1, <2>2 DEF ClaimTypes
  <2>5. /\ page'[w] = m_nextpage /\ (Working(w)' => m_nextpage < numPages)
        /\ \A v \in PageWorkers \ {w} : page'[v] = page[v] /\ (Working(v)' <=> Working(v))
    BY <1>t, <2>1 DEF Working
  <2>6. ClaimsBelow'
    BY <1>t, <1>n, <2>1, <2>2, <2>5 DEF ClaimInv, ClaimsBelow
  <2>7. ClaimsDiffer'
    BY <1>t, <2>5 DEF ClaimInv, ClaimsBelow, ClaimsDiffer
  <2>8. ClaimsFresh'
    BY <1>t, <1>n, <2>1, <2>3, <2>5 DEF ClaimInv, ClaimsFresh, RestFresh
  <2>9. RestFresh'
    BY <1>t, <1>n, <2>1, <2>2, <2>3 DEF ClaimInv, RestFresh
  <2>10. QED
    BY <2>3, <2>4, <2>6, <2>7, <2>8, <2>9 DEF ClaimInv, RunBeforeJoin
<1>3. ASSUME NEW w \in PageWorkers, Compress(w) PROVE ClaimInv'
  <2>1. /\ Working(w) /\ UNCHANGED <<rom, m_nextpage, page, main>>
        /\ pc' = [pc EXCEPT ![w] = "claim"]
        /\ \E info : pageInfo' = [pageInfo EXCEPT ![page[w]] = info]
    BY <1>3 DEF Compress, Working
  <2>2. numPages' = numPages
    BY <2>1 DEF numPages
  <2>3. main = "join"
    BY <2>1 DEF ClaimInv, RunBeforeJoin, Working
  <2>4. ClaimTypes'
    BY <1>t, <2>1, <2>2 DEF ClaimTypes
  <2>5. \A v \in PageWorkers : Working(v)' => v # w /\ Working(v)
    BY <1>t, <2>1 DEF Working
  <2>6. \A p \in 0..numPages : p # page[w] => pageInfo'[p] = pageInfo[p]
    BY <1>t, <2>1
  <2>7. page[w] < m_nextpage
    BY <2>1 DEF ClaimInv, ClaimsBelow
  <2>8. ClaimsBelow' /\ ClaimsDiffer'
    BY <2>1, <2>2, <2>5 DEF ClaimInv, ClaimsBelow, ClaimsDiffer
  <2>9. ClaimsFresh'
    BY <1>n, <2>1, <2>5, <2>6 DEF ClaimInv, ClaimsBelow, ClaimsDiffer, ClaimsFresh
  <2>10. RestFresh'
    BY <1>t, <1>n, <2>1, <2>2, <2>3, <2>6, <2>7 DEF ClaimInv, RestFresh, ClaimsBelow
  <2>11. QED
    BY <2>1, <2>3, <2>4, <2>8, <2>9, <2>10 DEF ClaimInv, RunBeforeJoin
<1>4. CASE JoinAll \/ Pack \/ Fill
  <2>1. /\ UNCHANGED <<rom, m_nextpage, page, pc>>
        /\ main' \notin {"index", "join"}
        /\ \A w \in PageWorkers : pc[w] = "exit"
        /\ DOMAIN pageInfo' = DOMAIN pageInfo
    BY <1>4 DEF JoinAll, Pack, Fill, ClaimInv, RunBeforeJoin
  <2>2. numPages' = numPages
    BY <2>1 DEF numPages
  <2>3. QED
    BY <1>t, <2>1, <2>2 DEF ClaimInv, ClaimTypes, RunBeforeJoin, ClaimsBelow, ClaimsDiffer, ClaimsFresh,
       RestFresh, Working
<1>5. CASE UNCHANGED vars
  BY <1>5 DEF vars, ClaimInv, ClaimTypes, RunBeforeJoin, ClaimsBelow, ClaimsDiffer, ClaimsFresh,
     RestFresh, Working, numPages
<1>6. QED
  BY <1>1, <1>2, <1>3, <1>4, <1>5 DEF Next, MainThread, Work

\* No two threads compress the same page, and no page is compressed again, for every
\* ROM, every page size and every number of threads.
THEOREM PagesClaimedOnce == Spec => []CompressedOnce
<1>1. ClaimInv => CompressedOnce
  BY DEF ClaimInv, ClaimsDiffer, ClaimsFresh, CompressedOnce, Working
<1>2. QED
  BY InitClaims, NextClaims, <1>1, PTL DEF Spec

-----------------------------------------------------------------------------
(* The image reads back *)

\* Pages of one size lie one behind the other.
LEMMA StartOrder ==
  ASSUME NEW p \in Nat, NEW q \in Nat, p < q
  PROVE  /\ Start(p) \in Nat /\ Start(q) \in Nat
         /\ Start(p) + PageSize <= Start(q)
         /\ Start(p + 1) = Start(p) + PageSize
<1>1. PageSize \in Nat \ {0}
  BY PageSizeAssumption
<1>2. p * PageSize \in Nat /\ q * PageSize \in Nat
  BY <1>1
<1>3. (p + 1) * PageSize = p * PageSize + PageSize
  BY <1>1
<1>4. PICK d \in Nat : q = p + 1 + d
  <2>1. q - p - 1 \in Nat /\ q = p + 1 + (q - p - 1)
    OBVIOUS
  <2>2. QED
    BY <2>1
<1>5. q * PageSize = (p + 1) * PageSize + d * PageSize /\ d * PageSize \in Nat
  BY <1>1, <1>4
<1>6. QED
  BY <1>1, <1>2, <1>3, <1>5 DEF Start

\* A page starts at an address of the image.
LEMMA StartType == \A p \in Nat : Start(p) \in Nat
BY PageSizeAssumption DEF Start

\* Where a byte of a page lies says which byte of which page it is.
LEMMA Digits ==
  ASSUME NEW p \in Nat, NEW k \in 0..(PageSize - 1)
  PROVE  RawByte(Start(p) + k) = <<p, "raw", k>>
<1>1. PageSize \in Nat \ {0} /\ k \in Nat /\ k < PageSize
  BY PageSizeAssumption
<1> DEFINE o == Start(p) + k
           d == o \div PageSize
<1>2. Start(p) = PageSize * p /\ Start(p) \in Nat
  BY <1>1 DEF Start
<1>3. o \in Nat /\ d \in Nat /\ o = PageSize * d + (o % PageSize) /\ o % PageSize \in 0..(PageSize - 1)
  BY <1>1, <1>2
<1>4. ~(d < p)
  <2>1. SUFFICES ASSUME d < p PROVE FALSE
    OBVIOUS
  <2> HIDE DEF d
  <2>2. d * PageSize + PageSize <= p * PageSize
    BY <1>3, <2>1, StartOrder DEF Start
  <2>3. d * PageSize = PageSize * d
    BY <1>1, <1>3
  <2>4. PageSize * d \in Nat
    BY <1>1, <1>3
  <2>5. QED
    BY <1>1, <1>2, <1>3, <2>2, <2>3, <2>4 DEF Start
<1>5. ~(p < d)
  <2>1. SUFFICES ASSUME p < d PROVE FALSE
    OBVIOUS
  <2> HIDE DEF d
  <2>2. p * PageSize + PageSize <= d * PageSize
    BY <1>3, <2>1, StartOrder DEF Start
  <2>3. d * PageSize = PageSize * d
    BY <1>1, <1>3
  <2>4. PageSize * d \in Nat
    BY <1>1, <1>3
  <2>5. QED
    BY <1>1, <1>2, <1>3, <2>2, <2>3, <2>4 DEF Start
<1>6. d = p
  BY <1>3, <1>4, <1>5
<1>7. o % PageSize = k
  BY <1>1, <1>2, <1>3, <1>6
<1>8. QED
  BY <1>6, <1>7 DEF RawByte

\* A quotient that is rounded up, and the multiple it stands for.
LEMMA CeilBound ==
  ASSUME NEW a \in Nat
  PROVE  a <= CeilDiv(a, PageSize) * PageSize /\ (\A n \in Nat : a <= n * PageSize => CeilDiv(a, PageSize) <= n)
<1>1. PageSize \in Nat \ {0}
  BY PageSizeAssumption
<1> DEFINE o == a + PageSize - 1
           d == o \div PageSize
<1>2. o \in Nat /\ d \in Nat /\ o = PageSize * d + (o % PageSize) /\ o % PageSize \in 0..(PageSize - 1)
      /\ CeilDiv(a, PageSize) = d /\ PageSize * d = d * PageSize /\ d * PageSize \in Nat
  BY <1>1 DEF CeilDiv
<1> HIDE DEF d
<1>3. a <= d * PageSize
  BY <1>1, <1>2
<1>4. ASSUME NEW n \in Nat, a <= n * PageSize PROVE d <= n
  <2>1. SUFFICES ASSUME n < d PROVE FALSE
    BY <1>2
  <2>2. n * PageSize + PageSize <= d * PageSize
    BY <1>2, <2>1, StartOrder DEF Start
  <2>3. n * PageSize \in Nat
    BY <1>1
  <2>4. QED
    BY <1>1, <1>2, <1>4, <2>2, <2>3
<1>5. QED
  BY <1>2, <1>3, <1>4

\* The paged pages are among those of the ROM, and the image is long enough for them.
LEMMA PagedFits ==
  ASSUME rom \in Roms
  PROVE  /\ numPages \in Nat \ {0} /\ firstPaged \in Nat /\ firstPaged <= numPages
         /\ rom.used \in Nat \ {0}
         /\ rom.packed \in [Pages -> Nat \ {0}]
<1>1. numPages \in Nat /\ firstPaged \in Nat
  BY PageCounts
<1>2. IsRom(rom)
  BY RomsAssumption
<1>3. rom.used \in Nat \ {0} /\ rom.packed \in [Pages -> Nat \ {0}]
  BY <1>2 DEF IsRom, Pages, numPages
<1>4. numPages # 0
  <2>1. rom.used <= numPages * PageSize
    BY <1>3, CeilBound DEF numPages
  <2>2. numPages = 0 => numPages * PageSize = 0
    BY PageSizeAssumption
  <2>3. QED
    BY <1>3, <2>1, <2>2
<1>5. firstPaged <= numPages
  <2>1. PageSize * numPages = numPages * PageSize /\ numPages * PageSize \in Nat
    BY <1>1, PageSizeAssumption
  <2>2. rom.pagedStart \in Nat /\ rom.pagedStart <= numPages * PageSize
    BY <1>2, <2>1 DEF IsRom, RoundUp, numPages
  <2>3. QED
    BY <1>1, <2>2, CeilBound DEF firstPaged
<1>6. QED
  BY <1>1, <1>3, <1>4, <1>5

Paged == firstPaged..(numPages - 1)
Form(p) == IF Fits(p) THEN "packed" ELSE "raw"

\* The page lies where it was laid out, as it was.
RawAt(p) == \A k \in 0..(PageSize - 1) : image[Start(p) + k] = <<p, "raw", k>>

\* The entry of the table says what became of the page, and where it says so the bytes are.
StoredAt(p) ==
  /\ pageInfo[p].size = StoredSize(p) /\ pageInfo[p].type = Form(p) /\ pageInfo[p].pageable = TRUE
  /\ \A k \in 0..(StoredSize(p) - 1) : image[pageInfo[p].start + k] = <<p, Form(p), k>>

UnpagedInv ==
  /\ DOMAIN image = 0..(numPages * PageSize - 1)
  /\ pageInfo[numPages] = NoInfo
  /\ main \in {"index", "join", "pack", "fill", "done", "crashed"}
  /\ \A p \in Pages : p < firstPaged => RawAt(p) /\ ~pageInfo[p].pageable
  /\ main # "done" => iSizeUsed = rom.used
IndexInv == main = "index" => \A p \in Pages : RawAt(p)
JoinInv ==
  main = "join" =>
    /\ pi = firstPaged /\ firstPaged <= m_nextpage
    /\ \A w \in PageWorkers : Working(w) => page[w] \in Paged
    /\ \A w \in PageWorkers : pc[w] = "exit" => m_nextpage >= numPages
    /\ \A p \in Paged :
          \/ RawAt(p) /\ (p >= m_nextpage \/ \E w \in PageWorkers : Working(w) /\ page[w] = p)
          \/ StoredAt(p) /\ pageInfo[p].start = Start(p)

\* The pages up to pi have been moved together, and the others have not been touched.
MovedInv ==
  main \in {"pack", "fill", "done"} =>
    /\ pi \in Nat /\ firstPaged <= pi /\ (pi < numPages \/ pi = firstPaged)
    /\ main # "pack" => pi >= numPages - 1
    /\ \A p \in Paged :
          /\ StoredAt(p)
          /\ pageInfo[p].start \in Nat
          /\ Start(firstPaged) <= pageInfo[p].start /\ pageInfo[p].start <= Start(p)
          /\ p > pi => pageInfo[p].start = Start(p)
    /\ \A p, q \in Paged : p < q => pageInfo[p].start + StoredSize(p) <= pageInfo[q].start
    /\ \A p \in firstPaged..(numPages - 2) : p < pi => pageInfo[p].start + StoredSize(p) = pageInfo[p + 1].start
    /\ main = "done" => iSizeUsed = IF firstPaged < numPages
                                    THEN pageInfo[numPages - 1].start + StoredSize(numPages - 1)
                                    ELSE rom.used

PagesInv == UnpagedInv /\ IndexInv /\ JoinInv /\ MovedInv

\* A stored page has bytes, and never more than a page's.
LEMMA SizeType == \A p \in Pages : rom \in Roms => StoredSize(p) \in Nat \ {0} /\ StoredSize(p) <= PageSize
BY PagedFits, PageSizeAssumption DEF StoredSize, Fits

\* The bytes of a page are bytes of the image.
LEMMA InImage ==
  ASSUME rom \in Roms, NEW p \in Pages, NEW k \in 0..(PageSize - 1)
  PROVE  /\ p \in Nat /\ Start(p) \in Nat
         /\ Start(p) + PageSize <= numPages * PageSize
         /\ Start(p) + k \in 0..(numPages * PageSize - 1)
         /\ \A s \in Nat : s <= Start(p) => s + k \in 0..(numPages * PageSize - 1)
<1>1. numPages \in Nat /\ PageSize \in Nat \ {0}
  BY PageCounts, PageSizeAssumption
<1>2. p \in Nat /\ p < numPages
  BY <1>1 DEF Pages
<1>3. Start(p) \in Nat /\ Start(numPages) \in Nat /\ Start(p) + PageSize <= Start(numPages)
  BY <1>1, <1>2, StartOrder
<1>4. Start(numPages) = numPages * PageSize
  BY DEF Start
<1>5. QED
  BY <1>1, <1>2, <1>3, <1>4

\* The image starts out as it was laid out, with an empty table.
LEMMA InitPages == Init => PagesInv
<1> SUFFICES ASSUME Init PROVE PagesInv
  OBVIOUS
<1>1. /\ rom \in Roms /\ image = [o \in 0..(numPages * PageSize - 1) |-> RawByte(o)]
      /\ pageInfo = [p \in 0..numPages |-> NoInfo] /\ main = "index" /\ iSizeUsed = rom.used
  BY DEF Init
<1>2. numPages \in Nat
  BY <1>1, PageCounts
<1>3. ASSUME NEW p \in Pages PROVE RawAt(p)
  <2>1. ASSUME NEW k \in 0..(PageSize - 1) PROVE image[Start(p) + k] = <<p, "raw", k>>
    <3>1. p \in Nat /\ Start(p) + k \in 0..(numPages * PageSize - 1)
      BY <1>1, InImage
    <3>2. QED
      BY <1>1, <3>1, Digits
  <2>2. QED
    BY <2>1 DEF RawAt
<1>4. pageInfo[numPages] = NoInfo /\ \A p \in Pages : ~pageInfo[p].pageable
  BY <1>1, <1>2 DEF NoInfo, Pages
<1>5. QED
  BY <1>1, <1>3, <1>4 DEF PagesInv, UnpagedInv, IndexInv, JoinInv, MovedInv

\* The bytes of two pages are not the same bytes.
LEMMA Apart ==
  ASSUME rom \in Roms, NEW p \in Pages, NEW q \in Pages, p # q, NEW k \in 0..(PageSize - 1)
  PROVE  Start(q) + k \notin Start(p)..(Start(p) + PageSize - 1)
<1>1. p \in Nat /\ q \in Nat /\ PageSize \in Nat \ {0} /\ Start(p) \in Nat /\ Start(q) \in Nat
  BY InImage, PageSizeAssumption
<1>2. Start(p) + PageSize <= Start(q) \/ Start(q) + PageSize <= Start(p)
  BY <1>1, StartOrder
<1>3. QED
  BY <1>1, <1>2

\* The unpaged pages get their entries, and no byte is touched.
LEMMA IndexPages ==
  ASSUME ClaimInv, PagesInv, IndexUnpaged
  PROVE  PagesInv'
<1>1. /\ main = "index" /\ main' = "join" /\ UNCHANGED <<rom, image, page, iSizeUsed>>
      /\ pageInfo' = [p \in DOMAIN pageInfo |->
                        IF p < firstPaged
                        THEN [start |-> Start(p), size |-> PageSize, type |-> "packed", pageable |-> FALSE]
                        ELSE pageInfo[p]]
      /\ m_nextpage' = firstPaged /\ pi' = firstPaged /\ pc' = [w \in PageWorkers |-> "claim"]
  BY DEF IndexUnpaged
<1>2. /\ numPages \in Nat /\ firstPaged \in Nat /\ firstPaged <= numPages
      /\ DOMAIN pageInfo = 0..numPages /\ Pages = 0..(numPages - 1)
  BY PagedFits DEF ClaimInv, ClaimTypes, Pages
<1>3. /\ numPages' = numPages /\ firstPaged' = firstPaged /\ Pages' = Pages /\ Paged' = Paged
  BY <1>1 DEF numPages, firstPaged, Pages, Paged
<1>4. \A p \in Pages : RawAt(p)' /\ RawAt(p)
  BY <1>1 DEF PagesInv, IndexInv, RawAt
<1>5. UnpagedInv'
  <2>1. pageInfo'[numPages] = NoInfo
    BY <1>1, <1>2 DEF PagesInv, UnpagedInv
  <2>2. \A p \in Pages : p < firstPaged => ~pageInfo'[p].pageable
    BY <1>1, <1>2
  <2>3. QED
    BY <1>1, <1>3, <1>4, <2>1, <2>2 DEF PagesInv, UnpagedInv
<1>6. JoinInv'
  <2>1. \A p \in Paged : p \in Pages /\ p >= firstPaged
    BY <1>2 DEF Paged
  <2>2. \A w \in PageWorkers : pc'[w] # "exit" /\ ~Working(w)'
    BY <1>1 DEF Working
  <2>3. firstPaged <= m_nextpage'
    BY <1>1, <1>2
  <2>4. \A p \in Paged : RawAt(p)' /\ p >= m_nextpage'
    BY <1>1, <1>4, <2>1
  <2>5. QED
    BY <1>1, <1>3, <2>2, <2>3, <2>4 DEF JoinInv
<1>7. QED
  BY <1>1, <1>5, <1>6 DEF PagesInv, IndexInv, MovedInv

\* A thread that takes a page takes one that is still raw.
LEMMA ClaimPages ==
  ASSUME ClaimInv, PagesInv, NEW w \in PageWorkers, Claim(w)
  PROVE  PagesInv'
<1>1. /\ pc[w] = "claim" /\ UNCHANGED <<rom, image, pageInfo, main, pi, iSizeUsed>>
      /\ page' = [page EXCEPT ![w] = m_nextpage] /\ m_nextpage' = m_nextpage + 1
      /\ pc' = [pc EXCEPT ![w] = IF m_nextpage < numPages THEN "compress" ELSE "exit"]
  BY DEF Claim
<1>2. /\ numPages \in Nat /\ firstPaged \in Nat /\ m_nextpage \in Nat /\ main = "join"
      /\ page \in [PageWorkers -> Nat \cup {None}] /\ pc \in [PageWorkers -> {"claim", "compress", "exit"}]
  BY <1>1, PageCounts DEF ClaimInv, ClaimTypes, RunBeforeJoin
<1>3. numPages' = numPages /\ firstPaged' = firstPaged /\ Pages' = Pages /\ Paged' = Paged
  BY <1>1 DEF numPages, firstPaged, Pages, Paged
<1>4. \A p : (RawAt(p)' <=> RawAt(p)) /\ (StoredAt(p)' <=> StoredAt(p))
  BY <1>1 DEF RawAt, StoredAt, Form, Fits, StoredSize
<1>5. /\ page'[w] = m_nextpage /\ (Working(w)' <=> m_nextpage < numPages) /\ ~Working(w)
      /\ pc'[w] = "exit" => m_nextpage >= numPages
      /\ \A v \in PageWorkers : v # w => page'[v] = page[v] /\ pc'[v] = pc[v] /\ (Working(v)' <=> Working(v))
  BY <1>1, <1>2 DEF Working
<1>6. \A p \in Paged : p \in Nat /\ p < numPages
  BY <1>2 DEF Paged
<1>7. JoinInv'
  <2>1. ASSUME NEW v \in PageWorkers PROVE /\ Working(v)' => page'[v] \in Paged
                                           /\ pc'[v] = "exit" => m_nextpage' >= numPages
    <3>1. CASE v = w
      BY <1>1, <1>2, <1>5, <3>1 DEF PagesInv, JoinInv, Paged
    <3>2. CASE v # w
      <4>1. pc[v] = "exit" => m_nextpage >= numPages
        BY <1>2 DEF PagesInv, JoinInv
      <4>2. QED
        BY <1>1, <1>2, <1>5, <3>2, <4>1 DEF PagesInv, JoinInv
    <3>3. QED
      BY <3>1, <3>2
  <2>2. ASSUME NEW p \in Paged, RawAt(p), p >= m_nextpage \/ \E v \in PageWorkers : Working(v) /\ page[v] = p
        PROVE  p >= m_nextpage' \/ \E v \in PageWorkers : Working(v)' /\ page'[v] = p
    <3>1. CASE p = m_nextpage
      BY <1>5, <1>6, <3>1
    <3>2. CASE p >= m_nextpage /\ p # m_nextpage
      BY <1>1, <1>2, <1>6, <3>2
    <3>3. CASE \E v \in PageWorkers : Working(v) /\ page[v] = p
      BY <1>5, <3>3
    <3>4. QED
      BY <2>2, <3>1, <3>2, <3>3
  <2>3. ASSUME NEW p \in Paged
        PROVE  \/ RawAt(p)' /\ (p >= m_nextpage' \/ \E v \in PageWorkers : Working(v)' /\ page'[v] = p)
               \/ StoredAt(p)' /\ pageInfo'[p].start = Start(p)
    BY <1>1, <1>2, <1>4, <2>2 DEF PagesInv, JoinInv
  <2>4. pi' = firstPaged /\ firstPaged <= m_nextpage'
    BY <1>1, <1>2 DEF PagesInv, JoinInv
  <2>5. QED
    BY <1>3, <2>1, <2>3, <2>4 DEF JoinInv
<1>8. UnpagedInv'
  BY <1>1, <1>3, <1>4 DEF PagesInv, UnpagedInv
<1>9. QED
  BY <1>1, <1>2, <1>7, <1>8 DEF PagesInv, IndexInv, MovedInv

\* A compressed page is written back where it lay, and meets no other page.
LEMMA CompressedPages ==
  ASSUME ClaimInv, PagesInv, NEW w \in PageWorkers, Compress(w)
  PROVE  PagesInv'
<1>p. PICK p : p = page[w]
  OBVIOUS
<1>1. /\ Working(w) /\ UNCHANGED <<rom, m_nextpage, page, main, pi, iSizeUsed>>
      /\ image' = [o \in DOMAIN image |->
                     IF Fits(p) /\ o \in Start(p)..(Start(p) + rom.packed[p] - 1)
                     THEN <<p, "packed", o - Start(p)>> ELSE image[o]]
      /\ pageInfo' = [pageInfo EXCEPT ![p] =
                        [start |-> Start(p), size |-> StoredSize(p), type |-> Form(p), pageable |-> TRUE]]
      /\ pc' = [pc EXCEPT ![w] = "claim"]
  BY <1>p DEF Compress, Working, Form
<1>2. /\ numPages \in Nat /\ firstPaged \in Nat /\ firstPaged <= numPages /\ m_nextpage \in Nat /\ main = "join"
      /\ rom \in Roms /\ DOMAIN pageInfo = 0..numPages
      /\ page \in [PageWorkers -> Nat \cup {None}] /\ pc \in [PageWorkers -> {"claim", "compress", "exit"}]
      /\ PageSize \in Nat \ {0}
  BY <1>1, PagedFits, PageSizeAssumption DEF ClaimInv, ClaimTypes, RunBeforeJoin, Working
<1>3. /\ numPages' = numPages /\ firstPaged' = firstPaged /\ Pages' = Pages /\ Paged' = Paged
      /\ \A q : StoredSize(q)' = StoredSize(q) /\ Form(q)' = Form(q)
  BY <1>1 DEF numPages, firstPaged, Pages, Paged, StoredSize, Form, Fits
<1>4. p \in Paged /\ p \in Pages /\ p \in Nat /\ p >= firstPaged /\ p # numPages
      /\ \A q \in Paged : q \in Pages /\ q \in Nat /\ q >= firstPaged
  BY <1>p, <1>1, <1>2 DEF PagesInv, JoinInv, Paged, Pages
<1>5. DOMAIN image = 0..(numPages * PageSize - 1) /\ DOMAIN image' = DOMAIN image
  BY <1>1 DEF PagesInv, UnpagedInv
<1>6. /\ StoredSize(p) \in Nat \ {0} /\ StoredSize(p) <= PageSize
      /\ Fits(p) => StoredSize(p) = rom.packed[p]
      /\ ~Fits(p) => StoredSize(p) = PageSize
  BY <1>2, <1>4, SizeType DEF StoredSize
<1>7. ASSUME NEW q \in Pages, q # p, NEW k \in 0..(PageSize - 1) PROVE image'[Start(q) + k] = image[Start(q) + k]
  <2>1. Start(q) + k \in DOMAIN image
    BY <1>2, <1>5, <1>7, InImage
  <2>2. Start(q) + k \notin Start(p)..(Start(p) + PageSize - 1)
    BY <1>2, <1>4, <1>7, Apart
  <2>3. Start(p) \in Nat
    BY <1>4, StartType
  <2>4. Fits(p) => Start(q) + k \notin Start(p)..(Start(p) + rom.packed[p] - 1)
    BY <1>2, <1>6, <2>2, <2>3
  <2>5. QED
    BY <1>1, <2>1, <2>4
<1>8. ASSUME NEW q \in Pages, q # p, RawAt(q) PROVE RawAt(q)'
  <2>1. \A k \in 0..(PageSize - 1) : image'[Start(q) + k] = <<q, "raw", k>>
    BY <1>7, <1>8 DEF RawAt
  <2>2. QED
    BY <2>1 DEF RawAt
<1>9. ASSUME NEW q \in Paged, q # p, StoredAt(q), pageInfo[q].start = Start(q)
      PROVE  StoredAt(q)' /\ pageInfo'[q].start = Start(q)
  <2>1. pageInfo'[q] = pageInfo[q]
    BY <1>1, <1>9
  <2>2. StoredSize(q) \in Nat /\ StoredSize(q) <= PageSize /\ q \in Pages
    BY <1>2, <1>4, <1>9, SizeType
  <2>3. ASSUME NEW k \in 0..(StoredSize(q) - 1) PROVE image'[Start(q) + k] = <<q, Form(q), k>>
    <3>1. k \in 0..(PageSize - 1)
      BY <1>2, <2>2
    <3>2. image[Start(q) + k] = <<q, Form(q), k>>
      BY <1>9 DEF StoredAt
    <3>3. QED
      BY <1>7, <1>9, <2>2, <3>1, <3>2
  <2>4. QED
    BY <1>3, <1>9, <2>1, <2>3 DEF StoredAt
<1>10. StoredAt(p)' /\ pageInfo'[p].start = Start(p)
  <2>1. RawAt(p)
    <3>1. pageInfo[p] = NoInfo
      BY <1>p, <1>1 DEF ClaimInv, ClaimsFresh
    <3>2. ~StoredAt(p)
      BY <3>1 DEF StoredAt, NoInfo
    <3>3. QED
      BY <1>2, <1>4, <3>2 DEF PagesInv, JoinInv
  <2>2. pageInfo'[p] = [start |-> Start(p), size |-> StoredSize(p), type |-> Form(p), pageable |-> TRUE]
    BY <1>1, <1>2, <1>4 DEF Pages
  <2>3. ASSUME NEW k \in 0..(StoredSize(p) - 1) PROVE image'[Start(p) + k] = <<p, Form(p), k>>
    <3>1. k \in 0..(PageSize - 1) /\ k \in Nat
      BY <1>2, <1>6
    <3>2. Start(p) \in Nat /\ Start(p) + k \in DOMAIN image
      BY <1>2, <1>4, <1>5, <3>1, InImage
    <3>3. CASE Fits(p)
      <4>1. Start(p) + k \in Start(p)..(Start(p) + rom.packed[p] - 1) /\ (Start(p) + k) - Start(p) = k
        BY <1>6, <3>1, <3>2, <3>3, <2>3
      <4>2. QED
        BY <1>1, <3>2, <3>3, <4>1 DEF Form
    <3>4. CASE ~Fits(p)
      BY <1>1, <2>1, <3>1, <3>2, <3>4 DEF RawAt, Form
    <3>5. QED
      BY <3>3, <3>4
  <2>4. /\ pageInfo'[p].start = Start(p)
        /\ pageInfo'[p].size = StoredSize(p) /\ pageInfo'[p].type = Form(p) /\ pageInfo'[p].pageable = TRUE
    BY <2>2
  <2>5. QED
    BY <1>3, <2>3, <2>4 DEF StoredAt
<1>11. UnpagedInv'
  <2>1. \A q \in Pages : q < firstPaged => q # p /\ pageInfo'[q] = pageInfo[q]
    BY <1>1, <1>2, <1>4 DEF Pages
  <2>2. pageInfo'[numPages] = NoInfo
    BY <1>1, <1>4 DEF PagesInv, UnpagedInv
  <2>3. \A q \in Pages : q < firstPaged => RawAt(q)' /\ ~pageInfo'[q].pageable
    BY <1>8, <2>1 DEF PagesInv, UnpagedInv
  <2>4. QED
    BY <1>1, <1>3, <1>5, <2>2, <2>3 DEF PagesInv, UnpagedInv
<1>12. JoinInv'
  <2>1. \A v \in PageWorkers : /\ Working(v)' <=> v # w /\ Working(v)
                               /\ pc'[v] = "exit" => pc[v] = "exit"
    BY <1>1, <1>2 DEF Working
  <2>2. ASSUME NEW q \in Paged
        PROVE  \/ RawAt(q)' /\ (q >= m_nextpage' \/ \E v \in PageWorkers : Working(v)' /\ page'[v] = q)
               \/ StoredAt(q)' /\ pageInfo'[q].start = Start(q)
    <3>1. CASE q = p
      BY <1>10, <3>1
    <3>2. CASE q # p
      <4>1. \/ RawAt(q) /\ (q >= m_nextpage \/ \E v \in PageWorkers : Working(v) /\ page[v] = q)
            \/ StoredAt(q) /\ pageInfo[q].start = Start(q)
        BY <1>2 DEF PagesInv, JoinInv
      <4>2. (\E v \in PageWorkers : Working(v) /\ page[v] = q) => \E v \in PageWorkers : Working(v)' /\ page'[v] = q
        BY <1>p, <1>1, <2>1, <3>2
      <4>3. QED
        BY <1>1, <1>4, <1>8, <1>9, <3>2, <4>1, <4>2
    <3>3. QED
      BY <3>1, <3>2
  <2>3. QED
    BY <1>1, <1>2, <1>3, <2>1, <2>2 DEF PagesInv, JoinInv
<1>13. QED
  BY <1>1, <1>2, <1>11, <1>12 DEF PagesInv, IndexInv, MovedInv

\* When the threads have been joined no page is left raw.
LEMMA JoinPages ==
  ASSUME ClaimInv, PagesInv, JoinAll
  PROVE  PagesInv'
<1>1. /\ main = "join" /\ main' = "pack" /\ \A w \in PageWorkers : pc[w] = "exit"
      /\ UNCHANGED <<rom, image, pageInfo, m_nextpage, page, pc, pi, iSizeUsed>>
  BY DEF JoinAll
<1>2. /\ numPages \in Nat \ {0} /\ firstPaged \in Nat /\ firstPaged <= numPages
      /\ rom \in Roms /\ PageSize \in Nat \ {0} /\ m_nextpage \in Nat
  BY PagedFits, PageSizeAssumption DEF ClaimInv, ClaimTypes
<1>3. /\ numPages' = numPages /\ firstPaged' = firstPaged /\ Pages' = Pages /\ Paged' = Paged
      /\ \A q : StoredSize(q)' = StoredSize(q) /\ (RawAt(q)' <=> RawAt(q)) /\ (StoredAt(q)' <=> StoredAt(q))
  BY <1>1 DEF numPages, firstPaged, Pages, Paged, StoredSize, Form, Fits, RawAt, StoredAt
<1>4. \A q \in Paged : q \in Nat /\ q >= firstPaged /\ q < numPages /\ q \in Pages
  BY <1>2 DEF Paged, Pages
<1>5. m_nextpage >= numPages
  <2>1. PICK w : w \in PageWorkers
    BY PageWorkersAssumption
  <2>2. QED
    BY <1>1, <2>1 DEF PagesInv, JoinInv
<1>6. ASSUME NEW q \in Paged PROVE StoredAt(q) /\ pageInfo[q].start = Start(q)
  <2>1. ~(q >= m_nextpage)
    BY <1>2, <1>4, <1>5
  <2>2. \A w \in PageWorkers : ~Working(w)
    BY <1>1 DEF Working
  <2>3. QED
    BY <1>1, <2>1, <2>2 DEF PagesInv, JoinInv
<1>7. \A q \in Paged : Start(q) \in Nat /\ Start(firstPaged) \in Nat /\ Start(firstPaged) <= Start(q)
  <2>1. ASSUME NEW q \in Paged PROVE Start(q) \in Nat /\ Start(firstPaged) \in Nat /\ Start(firstPaged) <= Start(q)
    <3>1. Start(q) \in Nat /\ Start(firstPaged) \in Nat
      BY <1>2, <1>4, StartType
    <3>2. CASE firstPaged = q
      BY <3>1, <3>2
    <3>3. CASE firstPaged < q
      BY <1>2, <1>4, <3>1, <3>3, StartOrder
    <3>4. QED
      BY <1>2, <1>4, <3>1, <3>2, <3>3
  <2>2. QED
    BY <2>1
<1>8. \A p, q \in Paged : p < q => pageInfo[p].start + StoredSize(p) <= pageInfo[q].start
  <2>1. ASSUME NEW p \in Paged, NEW q \in Paged, p < q PROVE pageInfo[p].start + StoredSize(p) <= pageInfo[q].start
    <3>1. Start(p) \in Nat /\ Start(q) \in Nat /\ Start(p) + PageSize <= Start(q)
      BY <1>4, <2>1, StartOrder
    <3>2. StoredSize(p) \in Nat /\ StoredSize(p) <= PageSize
      BY <1>2, <1>4, SizeType
    <3>3. QED
      BY <1>2, <1>6, <3>1, <3>2
  <2>2. QED
    BY <2>1
<1>9. pi = firstPaged /\ \A p \in firstPaged..(numPages - 2) : ~(p < pi)
  <2>1. pi = firstPaged
    BY <1>1 DEF PagesInv, JoinInv
  <2>2. QED
    BY <1>2, <2>1
<1>10. MovedInv'
  <2>1. \A p \in Paged : /\ StoredAt(p)' /\ pageInfo'[p].start \in Nat
                         /\ Start(firstPaged) <= pageInfo'[p].start /\ pageInfo'[p].start <= Start(p)
                         /\ pageInfo'[p].start = Start(p)
    BY <1>1, <1>3, <1>6, <1>7
  <2>2. \A p, q \in Paged : p < q => pageInfo'[p].start + StoredSize(p) <= pageInfo'[q].start
    BY <1>1, <1>8
  <2>3. pi' = firstPaged /\ firstPaged <= pi'
    BY <1>1, <1>2, <1>9
  <2>4. \A p \in firstPaged..(numPages - 2) : ~(p < pi')
    BY <1>1, <1>9
  <2>5. QED
    BY <1>1, <1>2, <1>3, <2>1, <2>2, <2>3, <2>4 DEF MovedInv
<1>11. UnpagedInv'
  BY <1>1, <1>3 DEF PagesInv, UnpagedInv
<1>12. QED
  BY <1>1, <1>10, <1>11 DEF PagesInv, IndexInv, JoinInv

\* One turn of the loop that moves the pages together.
LEMMA MovePages ==
  ASSUME ClaimInv, PagesInv, Pack, pi < numPages - 1
  PROVE  PagesInv'
<1>0. PICK n : n = pi + 1
  OBVIOUS
<1>1. PICK d : d = pageInfo[pi].start + pageInfo[pi].size
  OBVIOUS
<1>2. /\ main = "pack" /\ main' = "pack" /\ pi' = n
      /\ image' = Memcpy(image, d, pageInfo[n].start, pageInfo[n].size)
      /\ pageInfo' = [pageInfo EXCEPT ![n].start = d]
      /\ UNCHANGED <<rom, m_nextpage, page, pc, iSizeUsed>>
  <2>1. main = "pack" /\ pi \in Nat /\ numPages \in Nat
    BY PageCounts DEF Pack, PagesInv, MovedInv, ClaimInv, ClaimTypes
  <2>2. ~(pi >= numPages - 1)
    BY <2>1
  <2>3. /\ main' = main /\ pi' = pi + 1
        /\ image' = Memcpy(image, pageInfo[pi].start + pageInfo[pi].size, pageInfo[pi + 1].start, pageInfo[pi + 1].size)
        /\ pageInfo' = [pageInfo EXCEPT ![pi + 1].start = pageInfo[pi].start + pageInfo[pi].size]
        /\ UNCHANGED <<rom, m_nextpage, page, pc, iSizeUsed>>
    BY <2>2 DEF Pack
  <2>4. QED
    BY <1>0, <1>1, <2>1, <2>3
<1>3. /\ numPages \in Nat \ {0} /\ firstPaged \in Nat /\ firstPaged <= numPages
      /\ rom \in Roms /\ PageSize \in Nat \ {0} /\ DOMAIN pageInfo = 0..numPages
  BY PagedFits, PageSizeAssumption DEF ClaimInv, ClaimTypes
<1>4. /\ numPages' = numPages /\ firstPaged' = firstPaged /\ Pages' = Pages /\ Paged' = Paged
      /\ \A q : StoredSize(q)' = StoredSize(q) /\ Form(q)' = Form(q)
  BY <1>2 DEF numPages, firstPaged, Pages, Paged, StoredSize, Form, Fits
<1>5. \A q \in Paged : q \in Nat /\ q >= firstPaged /\ q < numPages /\ q \in Pages
  BY <1>3 DEF Paged, Pages
<1>6. pi \in Nat /\ firstPaged <= pi /\ pi \in Paged /\ n \in Paged /\ n \in Nat /\ firstPaged \in Paged /\ pi < n
  <2>1. pi \in Nat /\ firstPaged <= pi
    BY <1>2 DEF PagesInv, MovedInv
  <2>2. QED
    BY <1>0, <1>3, <2>1 DEF Paged
\* What is known of a paged page before the step.
<1>7. ASSUME NEW q \in Paged
      PROVE  /\ StoredAt(q) /\ pageInfo[q].start \in Nat /\ pageInfo[q].size = StoredSize(q)
             /\ Start(firstPaged) <= pageInfo[q].start /\ pageInfo[q].start <= Start(q)
             /\ q > pi => pageInfo[q].start = Start(q)
             /\ StoredSize(q) \in Nat \ {0} /\ StoredSize(q) <= PageSize
             /\ Start(q) \in Nat /\ Start(q) + PageSize <= numPages * PageSize
  <2>1. /\ StoredAt(q) /\ pageInfo[q].start \in Nat
        /\ Start(firstPaged) <= pageInfo[q].start /\ pageInfo[q].start <= Start(q)
        /\ q > pi => pageInfo[q].start = Start(q)
    BY <1>2 DEF PagesInv, MovedInv
  <2>2. pageInfo[q].size = StoredSize(q)
    BY <2>1 DEF StoredAt
  <2>3. StoredSize(q) \in Nat \ {0} /\ StoredSize(q) <= PageSize
    BY <1>3, <1>5, SizeType
  <2>4. Start(q) \in Nat /\ Start(q) + PageSize <= numPages * PageSize
    <3>1. 0 \in 0..(PageSize - 1)
      BY <1>3
    <3>2. QED
      BY <1>3, <1>5, <3>1, InImage
  <2>5. QED
    BY <2>1, <2>2, <2>3, <2>4
<1>8. \A p, q \in Paged : p < q => pageInfo[p].start + StoredSize(p) <= pageInfo[q].start
  BY <1>2 DEF PagesInv, MovedInv
\* The page is moved down, to the end of the one before it.
<1>9. /\ d = pageInfo[pi].start + StoredSize(pi) /\ d \in Nat
      /\ d <= Start(n) /\ pageInfo[n].start = Start(n) /\ Start(firstPaged) <= d /\ Start(n) \in Nat
  <2>1. /\ pageInfo[pi].size = StoredSize(pi) /\ pageInfo[pi].start \in Nat /\ StoredSize(pi) \in Nat
        /\ Start(firstPaged) <= pageInfo[pi].start
    BY <1>6, <1>7
  <2>2. pageInfo[n].start = Start(n) /\ Start(n) \in Nat
    BY <1>0, <1>6, <1>7
  <2>3. pageInfo[pi].start + StoredSize(pi) <= pageInfo[n].start
    BY <1>6, <1>8
  <2>4. Start(firstPaged) \in Nat
    BY <1>3, StartType
  <2>5. QED
    BY <1>1, <2>1, <2>2, <2>3, <2>4
<1>10. DOMAIN image = 0..(numPages * PageSize - 1) /\ DOMAIN image' = DOMAIN image /\ numPages * PageSize \in Nat
  <2>1. DOMAIN image = 0..(numPages * PageSize - 1)
    BY DEF PagesInv, UnpagedInv
  <2>2. numPages * PageSize \in Nat
    BY <1>3
  <2>3. QED
    BY <1>2, <2>1, <2>2 DEF Memcpy
<1>11. \A o \in DOMAIN image :
          image'[o] = IF o \in d..(d + StoredSize(n) - 1) THEN image[Start(n) + (o - d)] ELSE image[o]
  BY <1>2, <1>6, <1>7, <1>9 DEF Memcpy
<1>12. /\ \A q \in 0..numPages : q # n => pageInfo'[q] = pageInfo[q]
       /\ pageInfo'[n] = [pageInfo[n] EXCEPT !.start = d]
       /\ DOMAIN pageInfo' = 0..numPages
  <2>1. n \in DOMAIN pageInfo
    BY <1>3, <1>5, <1>6
  <2>2. QED
    BY <1>2, <1>3, <2>1
<1>13. StoredAt(n)' /\ pageInfo'[n].start = d
  <2>1. pageInfo[n].size = StoredSize(n) /\ pageInfo[n].type = Form(n) /\ pageInfo[n].pageable = TRUE
    BY <1>6, <1>7 DEF StoredAt
  <2>2. /\ pageInfo'[n].start = d
        /\ pageInfo'[n].size = StoredSize(n) /\ pageInfo'[n].type = Form(n) /\ pageInfo'[n].pageable = TRUE
    BY <1>12, <2>1
  <2>3. ASSUME NEW k \in 0..(StoredSize(n) - 1) PROVE image'[d + k] = <<n, Form(n), k>>
    <3>1. StoredSize(n) \in Nat /\ StoredSize(n) <= PageSize /\ Start(n) + PageSize <= numPages * PageSize
      BY <1>6, <1>7
    <3>2. d + k \in DOMAIN image /\ d + k \in d..(d + StoredSize(n) - 1) /\ (d + k) - d = k
      <4>1. k \in Nat /\ k < StoredSize(n) /\ d + k \in Nat /\ (d + k) - d = k
        BY <1>9, <3>1
      <4>2. d + k \in d..(d + StoredSize(n) - 1)
        BY <1>9, <3>1, <4>1
      <4>3. PICK m : m = numPages * PageSize
        OBVIOUS
      <4>4. m \in Nat /\ Start(n) + PageSize <= m /\ DOMAIN image = 0..(m - 1)
        BY <1>10, <3>1, <4>3
      <4>5. d + k \in 0..(m - 1)
        <5>1. /\ d \in Nat /\ Start(n) \in Nat /\ d <= Start(n) /\ StoredSize(n) \in Nat
              /\ PageSize \in Nat /\ StoredSize(n) <= PageSize
          BY <1>3, <1>9, <3>1
        <5>2. d + k < Start(n) + PageSize
          BY <4>1, <5>1
        <5>3. QED
          BY <4>1, <4>4, <5>1, <5>2
      <4>6. QED
        BY <4>1, <4>2, <4>4, <4>5
    <3>3. image'[d + k] = image[Start(n) + k]
      BY <1>11, <3>2
    <3>4. image[pageInfo[n].start + k] = <<n, Form(n), k>>
      BY <1>6, <1>7 DEF StoredAt
    <3>5. QED
      BY <1>9, <3>3, <3>4
  <2>4. QED
    BY <1>4, <2>2, <2>3 DEF StoredAt
\* No other page is touched: those before lie below d, those after above the page that is moved.
<1>14. ASSUME NEW q \in Paged, q # n PROVE StoredAt(q)' /\ pageInfo'[q] = pageInfo[q]
  <2>1. pageInfo'[q] = pageInfo[q]
    BY <1>5, <1>12, <1>14, <1>3
  <2>2. pageInfo[q].start + StoredSize(q) <= d \/ d + StoredSize(n) <= pageInfo[q].start
    <3>1. CASE q = pi
      BY <1>7, <1>9, <3>1
    <3>2. CASE q < pi
      <4>1. /\ pageInfo[q].start + StoredSize(q) <= pageInfo[pi].start
            /\ pageInfo[pi].start \in Nat /\ StoredSize(pi) \in Nat
            /\ pageInfo[q].start \in Nat /\ StoredSize(q) \in Nat
        BY <1>6, <1>7, <1>8, <3>2
      <4>2. QED
        BY <1>9, <4>1
    <3>3. CASE q > n
      <4>1. pageInfo[n].start + StoredSize(n) <= pageInfo[q].start /\ StoredSize(n) \in Nat /\ pageInfo[q].start \in Nat
        BY <1>5, <1>6, <1>7, <1>8, <3>3
      <4>2. QED
        BY <1>9, <4>1
    <3>4. q = pi \/ q < pi \/ q > n
      BY <1>0, <1>5, <1>6, <1>14
    <3>5. QED
      BY <3>1, <3>2, <3>3, <3>4
  <2>3. ASSUME NEW k \in 0..(StoredSize(q) - 1) PROVE image'[pageInfo[q].start + k] = <<q, Form(q), k>>
    <3>1. /\ pageInfo[q].start \in Nat /\ StoredSize(q) \in Nat /\ StoredSize(q) <= PageSize
          /\ pageInfo[q].start <= Start(q) /\ Start(q) \in Nat /\ Start(q) + PageSize <= numPages * PageSize
      BY <1>7
    <3>2. pageInfo[q].start + k \in DOMAIN image
      BY <1>3, <1>10, <3>1
    <3>3. StoredSize(n) \in Nat
      BY <1>6, <1>7
    <3>4. pageInfo[q].start + k \notin d..(d + StoredSize(n) - 1)
      BY <1>9, <2>2, <3>1, <3>3
    <3>5. image[pageInfo[q].start + k] = <<q, Form(q), k>>
      BY <1>7 DEF StoredAt
    <3>6. QED
      BY <1>11, <3>2, <3>4, <3>5
  <2>4. StoredAt(q)
    BY <1>7
  <2>5. QED
    BY <1>4, <2>1, <2>3, <2>4 DEF StoredAt
<1>15. UnpagedInv'
  <2>1. ASSUME NEW q \in Pages, q < firstPaged PROVE RawAt(q)' /\ ~pageInfo'[q].pageable
    <3>1. RawAt(q) /\ ~pageInfo[q].pageable
      BY <2>1 DEF PagesInv, UnpagedInv
    <3>2. q \in Nat /\ q \in 0..numPages /\ q # n
      BY <1>3, <1>5, <1>6, <2>1 DEF Pages
    <3>3. ASSUME NEW k \in 0..(PageSize - 1) PROVE image'[Start(q) + k] = <<q, "raw", k>>
      <4>1. Start(q) + PageSize <= Start(firstPaged) /\ Start(q) \in Nat /\ Start(firstPaged) \in Nat
        BY <1>3, <2>1, <3>2, StartOrder
      <4>2. Start(q) + k \in DOMAIN image
        BY <1>3, <1>10, <2>1, InImage
      <4>3. StoredSize(n) \in Nat
        BY <1>6, <1>7
      <4>4. Start(q) + k \notin d..(d + StoredSize(n) - 1)
        BY <1>3, <1>9, <4>1, <4>3
      <4>5. QED
        BY <1>11, <3>1, <4>2, <4>4 DEF RawAt
    <3>4. QED
      BY <1>12, <3>1, <3>2, <3>3 DEF RawAt
  <2>2. pageInfo'[numPages] = NoInfo
    <3>1. numPages # n /\ numPages \in 0..numPages
      BY <1>3, <1>5, <1>6
    <3>2. QED
      BY <1>12, <3>1 DEF PagesInv, UnpagedInv
  <2>3. QED
    BY <1>2, <1>4, <1>10, <2>1, <2>2 DEF PagesInv, UnpagedInv
<1>16. ASSUME NEW q \in Paged
       PROVE  /\ StoredAt(q)' /\ pageInfo'[q].start \in Nat
              /\ Start(firstPaged) <= pageInfo'[q].start /\ pageInfo'[q].start <= Start(q)
              /\ q > n => pageInfo'[q].start = Start(q)
  <2>1. CASE q = n
    BY <1>6, <1>9, <1>13, <2>1
  <2>2. CASE q # n
    <3>1. q > n => q > pi
      BY <1>0, <1>5, <1>6
    <3>2. QED
      BY <1>7, <1>14, <2>2, <3>1
  <2>3. QED
    BY <2>1, <2>2
<1>17. ASSUME NEW p \in Paged, NEW q \in Paged, p < q PROVE pageInfo'[p].start + StoredSize(p) <= pageInfo'[q].start
  <2>1. CASE p # n /\ q # n
    BY <1>8, <1>14, <1>17, <2>1
  <2>2. CASE p = n /\ q # n
    <3>1. pageInfo[n].start + StoredSize(n) <= pageInfo[q].start /\ StoredSize(n) \in Nat /\ pageInfo[q].start \in Nat
      BY <1>6, <1>7, <1>8, <1>17, <2>2
    <3>2. d + StoredSize(n) <= pageInfo[q].start
      BY <1>9, <3>1
    <3>3. QED
      BY <1>13, <1>14, <2>2, <3>2
  <2>3. CASE p # n /\ q = n
    <3>1. CASE p = pi
      <4>1. pageInfo'[q].start = d /\ pageInfo'[p] = pageInfo[p]
        BY <1>13, <1>14, <2>3
      <4>2. StoredSize(p) \in Nat /\ pageInfo[p].start \in Nat
        BY <1>7
      <4>3. QED
        BY <1>9, <3>1, <4>1, <4>2
    <3>2. CASE p < pi
      <4>1. pageInfo'[q].start = d /\ pageInfo'[p] = pageInfo[p]
        BY <1>13, <1>14, <2>3
      <4>2. /\ pageInfo[p].start + StoredSize(p) <= pageInfo[pi].start
            /\ StoredSize(p) \in Nat /\ pageInfo[p].start \in Nat
            /\ StoredSize(pi) \in Nat /\ pageInfo[pi].start \in Nat
        BY <1>6, <1>7, <1>8, <3>2
      <4>3. QED
        BY <1>9, <4>1, <4>2
    <3>3. QED
      BY <1>0, <1>5, <1>6, <1>17, <2>3, <3>1, <3>2
  <2>4. CASE p = n /\ q = n
    BY <1>6, <1>17, <2>4
  <2>5. QED
    BY <2>1, <2>2, <2>3, <2>4
<1>18. ASSUME NEW p \in firstPaged..(numPages - 2), p < n
       PROVE  pageInfo'[p].start + StoredSize(p) = pageInfo'[p + 1].start
  <2>1. p \in Paged /\ p + 1 \in Paged /\ p \in Nat /\ p # n
    BY <1>3, <1>6, <1>18 DEF Paged
  <2>2. CASE p = pi
    <3>1. p + 1 = n
      BY <1>0, <2>2
    <3>2. pageInfo'[p] = pageInfo[p] /\ pageInfo'[n].start = d
      BY <1>13, <1>14, <2>1
    <3>3. QED
      BY <1>9, <2>2, <3>1, <3>2
  <2>3. CASE p < pi
    <3>1. p + 1 # n
      BY <1>0, <1>6, <2>1, <2>3
    <3>2. pageInfo'[p] = pageInfo[p] /\ pageInfo'[p + 1] = pageInfo[p + 1]
      BY <1>14, <2>1, <3>1
    <3>3. pageInfo[p].start + StoredSize(p) = pageInfo[p + 1].start
      BY <1>2, <2>3 DEF PagesInv, MovedInv
    <3>4. QED
      BY <3>2, <3>3
  <2>4. QED
    BY <1>0, <1>6, <1>18, <2>1, <2>2, <2>3
<1>19. MovedInv'
  <2>1. n < numPages /\ firstPaged <= n
    BY <1>5, <1>6
  <2>2. QED
    BY <1>2, <1>4, <1>6, <1>16, <1>17, <1>18, <2>1 DEF MovedInv
<1>20. QED
  BY <1>2, <1>15, <1>19 DEF PagesInv, IndexInv, JoinInv

\* The turn of the loop that ends it.
LEMMA PackEnds ==
  ASSUME ClaimInv, PagesInv, Pack, ~(pi < numPages - 1)
  PROVE  PagesInv'
<1>1. /\ main = "pack" /\ main' = "fill" /\ pi >= numPages - 1
      /\ UNCHANGED <<rom, image, pageInfo, pi, m_nextpage, page, pc, iSizeUsed>>
  BY DEF Pack
<1>2. /\ numPages' = numPages /\ firstPaged' = firstPaged /\ Pages' = Pages /\ Paged' = Paged
      /\ \A q : StoredSize(q)' = StoredSize(q) /\ (RawAt(q)' <=> RawAt(q)) /\ (StoredAt(q)' <=> StoredAt(q))
  BY <1>1 DEF numPages, firstPaged, Pages, Paged, StoredSize, Form, Fits, RawAt, StoredAt
<1>3. UnpagedInv'
  BY <1>1, <1>2 DEF PagesInv, UnpagedInv
<1>4. MovedInv'
  BY <1>1, <1>2 DEF PagesInv, MovedInv
<1>5. QED
  BY <1>1, <1>3, <1>4 DEF PagesInv, IndexInv, JoinInv

\* Clearing the rest of the image touches no page.
LEMMA FillPages ==
  ASSUME ClaimInv, PagesInv, Fill
  PROVE  PagesInv'
<1>1. /\ main = "fill" /\ UNCHANGED <<rom, pageInfo, m_nextpage, page, pc, pi>>
      /\ \/ main' = "crashed" /\ UNCHANGED <<image, iSizeUsed>>
         \/ /\ main' = "done" /\ iSizeUsed' = RelSize
            /\ image' = [o \in DOMAIN image |->
                           IF o \in RelSize..(iSizeUsed - 1) THEN <<None, "fill", 0>> ELSE image[o]]
  BY DEF Fill
<1>2. /\ numPages \in Nat \ {0} /\ firstPaged \in Nat /\ firstPaged <= numPages
      /\ rom \in Roms /\ PageSize \in Nat \ {0} /\ rom.used \in Nat /\ iSizeUsed = rom.used
  BY <1>1, PagedFits, PageSizeAssumption DEF ClaimInv, ClaimTypes, PagesInv, UnpagedInv
<1>3. /\ numPages' = numPages /\ firstPaged' = firstPaged /\ Pages' = Pages /\ Paged' = Paged
      /\ \A q : StoredSize(q)' = StoredSize(q) /\ Form(q)' = Form(q)
  BY <1>1 DEF numPages, firstPaged, Pages, Paged, StoredSize, Form, Fits
<1>4. CASE main' = "crashed" /\ UNCHANGED <<image, iSizeUsed>>
  <2>1. \A q : (RawAt(q)' <=> RawAt(q)) /\ (StoredAt(q)' <=> StoredAt(q))
    BY <1>1, <1>3, <1>4 DEF RawAt, StoredAt
  <2>2. UnpagedInv'
    BY <1>1, <1>3, <1>4, <2>1 DEF PagesInv, UnpagedInv
  <2>3. QED
    BY <1>4, <2>2 DEF PagesInv, IndexInv, JoinInv, MovedInv
<1>5. CASE /\ main' = "done" /\ iSizeUsed' = RelSize
           /\ image' = [o \in DOMAIN image |->
                          IF o \in RelSize..(iSizeUsed - 1) THEN <<None, "fill", 0>> ELSE image[o]]
  <2>1. DOMAIN image = 0..(numPages * PageSize - 1) /\ DOMAIN image' = DOMAIN image
    BY <1>5 DEF PagesInv, UnpagedInv
  <2>2. /\ pi \in Nat /\ firstPaged <= pi /\ (pi < numPages \/ pi = firstPaged) /\ pi >= numPages - 1
        /\ \A q \in Paged : /\ StoredAt(q) /\ pageInfo[q].start \in Nat
                            /\ Start(firstPaged) <= pageInfo[q].start /\ pageInfo[q].start <= Start(q)
        /\ \A p, q \in Paged : p < q => pageInfo[p].start + StoredSize(p) <= pageInfo[q].start
    BY <1>1 DEF PagesInv, MovedInv
  <2>3. ASSUME NEW q \in Paged
        PROVE  /\ q \in Nat /\ q < numPages /\ q >= firstPaged /\ q \in Pages
               /\ StoredSize(q) \in Nat \ {0} /\ StoredSize(q) <= PageSize
               /\ Start(q) \in Nat /\ Start(q) + PageSize <= numPages * PageSize
    <3>1. q \in Nat /\ q < numPages /\ q >= firstPaged /\ q \in Pages
      BY <1>2 DEF Paged, Pages
    <3>2. StoredSize(q) \in Nat \ {0} /\ StoredSize(q) <= PageSize
      BY <1>2, <3>1, SizeType
    <3>3. 0 \in 0..(PageSize - 1)
      BY <1>2
    <3>4. QED
      BY <1>2, <3>1, <3>2, <3>3, InImage
  \* What is filled lies behind the last page, or there is nothing to fill.
  <2>4. CASE firstPaged < numPages
    <3>1. pi = numPages - 1 /\ pi \in Paged
      BY <1>2, <2>2, <2>4 DEF Paged
    <3>2. pageInfo[pi].size = StoredSize(pi) /\ pageInfo[pi].start \in Nat /\ StoredSize(pi) \in Nat \ {0}
      <4>1. StoredAt(pi) /\ pageInfo[pi].start \in Nat
        BY <2>2, <3>1
      <4>2. pageInfo[pi].size = StoredSize(pi)
        BY <4>1 DEF StoredAt
      <4>3. QED
        BY <2>3, <3>1, <4>1, <4>2
    <3>3. RelSize = pageInfo[pi].start + StoredSize(pi) /\ RelSize \in Nat
      BY <3>2 DEF RelSize
    <3>4. ASSUME NEW q \in Paged PROVE StoredAt(q)'
      <4>1. pageInfo[q].start + StoredSize(q) <= RelSize
        <5>1. CASE q = pi
          BY <2>3, <3>2, <3>3, <5>1
        <5>2. CASE q < pi
          BY <2>2, <2>3, <3>1, <3>2, <3>3, <5>2
        <5>3. q = pi \/ q < pi
          BY <1>2, <2>2, <2>3, <3>1
        <5>4. QED
          BY <5>1, <5>2, <5>3
      <4>2. ASSUME NEW k \in 0..(StoredSize(q) - 1) PROVE image'[pageInfo[q].start + k] = <<q, Form(q), k>>
        <5>1. /\ pageInfo[q].start \in Nat /\ StoredSize(q) \in Nat /\ StoredSize(q) <= PageSize
              /\ pageInfo[q].start <= Start(q) /\ Start(q) \in Nat /\ Start(q) + PageSize <= numPages * PageSize
          BY <2>2, <2>3
        <5>2. pageInfo[q].start + k \in DOMAIN image /\ numPages * PageSize \in Nat
          BY <1>2, <2>1, <5>1
        <5>3. pageInfo[q].start + k \notin RelSize..(iSizeUsed - 1)
          BY <1>2, <3>3, <4>1, <5>1
        <5>4. image[pageInfo[q].start + k] = <<q, Form(q), k>>
          BY <2>2 DEF StoredAt
        <5>5. QED
          BY <1>5, <5>2, <5>3, <5>4
      <4>3. StoredAt(q)
        BY <2>2
      <4>4. QED
        BY <1>1, <1>3, <4>2, <4>3 DEF StoredAt
    <3>5. ASSUME NEW q \in Pages, q < firstPaged PROVE RawAt(q)' /\ ~pageInfo'[q].pageable
      <4>1. RawAt(q) /\ ~pageInfo[q].pageable
        BY <3>5 DEF PagesInv, UnpagedInv
      <4>2. Start(firstPaged) <= RelSize
        <5>1. Start(firstPaged) \in Nat /\ Start(firstPaged) <= pageInfo[pi].start
          BY <1>2, <2>2, <3>1, StartType
        <5>2. QED
          BY <3>2, <3>3, <5>1
      <4>3. ASSUME NEW k \in 0..(PageSize - 1) PROVE image'[Start(q) + k] = <<q, "raw", k>>
        <5>1. q \in Nat /\ Start(q) \in Nat /\ Start(q) + k \in DOMAIN image
          BY <1>2, <2>1, InImage
        <5>2. Start(q) + PageSize <= Start(firstPaged) /\ Start(firstPaged) \in Nat
          BY <1>2, <3>5, <5>1, StartOrder
        <5>3. Start(q) + k \notin RelSize..(iSizeUsed - 1)
          BY <1>2, <3>3, <4>2, <5>1, <5>2
        <5>4. QED
          BY <1>5, <4>1, <5>1, <5>3 DEF RawAt
      <4>4. QED
        BY <1>1, <4>1, <4>3 DEF RawAt
    <3>6. UnpagedInv'
      BY <1>1, <1>3, <1>5, <2>1, <3>5 DEF PagesInv, UnpagedInv
    <3>7. MovedInv'
      BY <1>1, <1>3, <1>5, <2>2, <2>4, <3>1, <3>3, <3>4 DEF PagesInv, MovedInv
    <3>8. QED
      BY <1>5, <3>6, <3>7 DEF PagesInv, IndexInv, JoinInv
  <2>5. CASE firstPaged = numPages
    <3>1. pi = numPages /\ Paged = {}
      BY <1>2, <2>2, <2>5 DEF Paged
    <3>2. RelSize = iSizeUsed
      BY <3>1 DEF RelSize, NoInfo, PagesInv, UnpagedInv
    <3>3. \A o \in DOMAIN image : image'[o] = image[o]
      BY <1>2, <1>5, <3>2
    <3>4. ASSUME NEW q \in Pages PROVE RawAt(q) => RawAt(q)'
      <4>1. \A k \in 0..(PageSize - 1) : Start(q) + k \in DOMAIN image
        BY <1>2, <2>1, InImage
      <4>2. QED
        BY <3>3, <4>1 DEF RawAt
    <3>5. UnpagedInv'
      BY <1>1, <1>3, <1>5, <2>1, <3>4 DEF PagesInv, UnpagedInv
    <3>6. MovedInv'
      BY <1>1, <1>2, <1>3, <1>5, <2>2, <2>5, <3>1, <3>2 DEF MovedInv
    <3>7. QED
      BY <1>5, <3>5, <3>6 DEF PagesInv, IndexInv, JoinInv
  <2>6. QED
    BY <1>2, <2>4, <2>5
<1>6. QED
  BY <1>1, <1>4, <1>5

\* Every step keeps the invariant.
LEMMA NextPages == ClaimInv /\ PagesInv /\ [Next]_vars => PagesInv'
<1> SUFFICES ASSUME ClaimInv, PagesInv, [Next]_vars PROVE PagesInv'
  OBVIOUS
<1>1. CASE IndexUnpaged
  BY <1>1, IndexPages
<1>2. ASSUME NEW w \in PageWorkers, Claim(w) PROVE PagesInv'
  BY <1>2, ClaimPages
<1>3. ASSUME NEW w \in PageWorkers, Compress(w) PROVE PagesInv'
  BY <1>3, CompressedPages
<1>4. CASE JoinAll
  BY <1>4, JoinPages
<1>5. CASE Pack
  BY <1>5, MovePages, PackEnds
<1>6. CASE Fill
  BY <1>6, FillPages
<1>7. CASE UNCHANGED vars
  <2>1. UNCHANGED <<rom, image, pageInfo, m_nextpage, page, pc, main, pi, iSizeUsed>>
    BY <1>7 DEF vars
  <2>2. /\ numPages' = numPages /\ firstPaged' = firstPaged /\ Pages' = Pages /\ Paged' = Paged
        /\ \A q : StoredSize(q)' = StoredSize(q) /\ (RawAt(q)' <=> RawAt(q)) /\ (StoredAt(q)' <=> StoredAt(q))
        /\ \A w : Working(w)' <=> Working(w)
    BY <2>1 DEF numPages, firstPaged, Pages, Paged, StoredSize, Form, Fits, RawAt, StoredAt, Working
  <2>3. UnpagedInv'
    BY <2>1, <2>2 DEF PagesInv, UnpagedInv
  <2>4. IndexInv'
    BY <2>1, <2>2 DEF PagesInv, IndexInv
  <2>5. JoinInv'
    BY <2>1, <2>2 DEF PagesInv, JoinInv
  <2>6. MovedInv'
    BY <2>1, <2>2 DEF PagesInv, MovedInv
  <2>7. QED
    BY <2>3, <2>4, <2>5, <2>6 DEF PagesInv
<1>8. QED
  BY <1>1, <1>2, <1>3, <1>4, <1>5, <1>6, <1>7 DEF Next, MainThread, Work

\* What BytePairDecompress makes of the bytes of a page, wherever they lie.
LEMMA LoadsPage ==
  ASSUME rom \in Roms, NEW p \in Paged, StoredAt(p), pageInfo[p].start \in Nat
  PROVE  LoadPage(pageInfo[p]) = RawPage(p)
<1>1. /\ PageSize \in Nat \ {0} /\ p \in Pages
      /\ StoredSize(p) \in Nat \ {0} /\ StoredSize(p) <= PageSize
  <2>1. p \in Pages
    BY PagedFits DEF Paged, Pages
  <2>2. QED
    BY <2>1, SizeType, PageSizeAssumption
<1> DEFINE b == Bytes(pageInfo[p].start, pageInfo[p].size)
<1>2. b = [i \in 1..StoredSize(p) |-> <<p, Form(p), i - 1>>]
  <2>1. pageInfo[p].size = StoredSize(p)
    BY DEF StoredAt
  <2>2. ASSUME NEW i \in 1..StoredSize(p) PROVE image[pageInfo[p].start + i - 1] = <<p, Form(p), i - 1>>
    <3>1. i - 1 \in 0..(StoredSize(p) - 1) /\ pageInfo[p].start + i - 1 = pageInfo[p].start + (i - 1)
      BY <1>1
    <3>2. QED
      BY <3>1 DEF StoredAt
  <2>3. QED
    BY <2>1, <2>2 DEF Bytes
<1>3. LoadPage(pageInfo[p]) = IF pageInfo[p].type = "packed" THEN Decompress(b) ELSE b
  BY DEF LoadPage
<1> HIDE DEF b
<1>4. CASE Fits(p)
  <2>1. pageInfo[p].type = "packed" /\ StoredSize(p) = rom.packed[p] /\ Form(p) = "packed"
    BY <1>4 DEF StoredAt, StoredSize, Form
  <2>2. b = PackedPage(p)
    BY <1>2, <2>1 DEF PackedPage
  <2>3. b[1][1] = p
    BY <1>1, <1>2
  <2>4. QED
    BY <1>1, <1>3, <2>1, <2>2, <2>3 DEF Decompress
<1>5. CASE ~Fits(p)
  <2>1. pageInfo[p].type # "packed" /\ StoredSize(p) = PageSize /\ Form(p) = "raw"
    BY <1>5 DEF StoredAt, StoredSize, Form
  <2>2. b = RawPage(p)
    BY <1>2, <2>1 DEF RawPage
  <2>3. QED
    BY <1>3, <2>1, <2>2
<1>6. QED
  BY <1>4, <1>5

\* The invariant says that the image reads back.
LEMMA ReadsBack == ClaimInv /\ PagesInv => ImageReadsBack
<1> SUFFICES ASSUME ClaimInv, PagesInv, main = "done" PROVE
      /\ ReadBack = [p \in firstPaged..(numPages - 1) |-> RawPage(p)]
      /\ \A p \in Pages : p < firstPaged => Bytes(Start(p), PageSize) = RawPage(p)
      /\ \A p \in firstPaged..(numPages - 2) :
            pageInfo[p].start + pageInfo[p].size = pageInfo[p + 1].start
      /\ iSizeUsed = IF firstPaged < numPages
                     THEN pageInfo[numPages - 1].start + pageInfo[numPages - 1].size
                     ELSE rom.used
  BY DEF ImageReadsBack
<1>1. rom \in Roms /\ numPages \in Nat \ {0} /\ firstPaged \in Nat /\ firstPaged <= numPages /\ PageSize \in Nat \ {0}
  BY PagedFits, PageSizeAssumption DEF ClaimInv, ClaimTypes
<1>2. \A p \in Paged : StoredAt(p) /\ pageInfo[p].start \in Nat /\ pageInfo[p].size = StoredSize(p) /\ pageInfo[p].pageable
  BY DEF PagesInv, MovedInv, StoredAt
<1>3. Pageable = Paged
  <2>1. \A p \in Pages : pageInfo[p].pageable <=> p \in Paged
    BY <1>1, <1>2 DEF PagesInv, UnpagedInv, Pages, Paged
  <2>2. Paged \subseteq Pages
    BY <1>1 DEF Pages, Paged
  <2>3. QED
    BY <2>1, <2>2 DEF Pageable
<1>4. ReadBack = [p \in firstPaged..(numPages - 1) |-> RawPage(p)]
  <2>1. \A p \in Paged : LoadPage(pageInfo[p]) = RawPage(p)
    BY <1>1, <1>2, LoadsPage
  <2>2. QED
    BY <1>3, <2>1 DEF ReadBack, Paged
<1>5. ASSUME NEW p \in Pages, p < firstPaged PROVE Bytes(Start(p), PageSize) = RawPage(p)
  <2>1. RawAt(p) /\ p \in Nat /\ Start(p) \in Nat
    BY <1>5, StartType DEF PagesInv, UnpagedInv, Pages
  <2>2. ASSUME NEW i \in 1..PageSize PROVE image[Start(p) + i - 1] = <<p, "raw", i - 1>>
    <3>1. i - 1 \in 0..(PageSize - 1) /\ Start(p) + i - 1 = Start(p) + (i - 1)
      BY <1>1, <2>1
    <3>2. QED
      BY <2>1, <3>1 DEF RawAt
  <2>3. QED
    BY <2>2 DEF Bytes, RawPage
<1>6. ASSUME NEW p \in firstPaged..(numPages - 2) PROVE pageInfo[p].start + pageInfo[p].size = pageInfo[p + 1].start
  <2>1. p \in Paged /\ p < pi
    BY <1>1 DEF PagesInv, MovedInv, Paged
  <2>2. pageInfo[p].start + StoredSize(p) = pageInfo[p + 1].start
    BY <2>1 DEF PagesInv, MovedInv
  <2>3. QED
    BY <1>2, <2>1, <2>2
<1>7. iSizeUsed = IF firstPaged < numPages
                  THEN pageInfo[numPages - 1].start + pageInfo[numPages - 1].size
                  ELSE rom.used
  <2>1. firstPaged < numPages => numPages - 1 \in Paged
    BY <1>1 DEF Paged
  <2>2. QED
    BY <1>2, <2>1 DEF PagesInv, MovedInv
<1>8. QED
  BY <1>4, <1>5, <1>6, <1>7

\* The core image reader gets back every page as it was laid out, whatever the schedule of
\* the threads, for every ROM, every page size and every number of threads.
THEOREM PagesReadBack == Spec => []ImageReadsBack
BY InitClaims, NextClaims, InitPages, NextPages, ReadsBack, PTL DEF Spec

-----------------------------------------------------------------------------
(* The types *)

Exited == {w \in PageWorkers : pc[w] = "exit"}

\* Each thread pushes the counter past the pages once, when it leaves.
TypeInv ==
  /\ pageInfo \in [0..numPages -> [start : Nat, size : Nat, type : {"none", "packed", "raw"},
                               pageable : BOOLEAN]]
  /\ m_nextpage <= numPages + Cardinality(Exited)
  /\ pi \in 0..numPages
  /\ iSizeUsed \in Nat

\* The counter is bounded by the pages and the threads.
LEMMA ExitedFinite ==
  /\ IsFiniteSet(Exited) /\ Cardinality(Exited) \in Nat
  /\ IsFiniteSet(PageWorkers) /\ Cardinality(PageWorkers) \in Nat
  /\ Cardinality(Exited) <= Cardinality(PageWorkers)
BY FS_Subset, FS_CardinalityType, PageWorkersAssumption DEF Exited

\* The first state is typed.
LEMMA InitTypes == Init => TypeInv
<1> SUFFICES ASSUME Init PROVE TypeInv
  OBVIOUS
<1>1. /\ rom \in Roms /\ pageInfo = [p \in 0..numPages |-> NoInfo] /\ m_nextpage = 0 /\ pi = 0
      /\ iSizeUsed = rom.used
  BY DEF Init
<1>2. numPages \in Nat /\ rom.used \in Nat
  BY <1>1, PagedFits
<1>3. Cardinality(Exited) \in Nat
  BY ExitedFinite
<1>4. QED
  BY <1>1, <1>2, <1>3 DEF TypeInv, NoInfo

\* Every step keeps the types.
LEMMA NextTypes == ClaimInv /\ PagesInv /\ TypeInv /\ [Next]_vars => TypeInv'
<1> SUFFICES ASSUME ClaimInv, PagesInv, TypeInv, [Next]_vars PROVE TypeInv'
  OBVIOUS
<1> DEFINE Infos == [start : Nat, size : Nat, type : {"none", "packed", "raw"}, pageable : BOOLEAN]
<1>t. /\ rom \in Roms /\ m_nextpage \in Nat /\ PageSize \in Nat \ {0}
      /\ numPages \in Nat \ {0} /\ firstPaged \in Nat /\ firstPaged <= numPages
      /\ pc \in [PageWorkers -> {"claim", "compress", "exit"}]
      /\ pageInfo \in [0..numPages -> Infos]
      /\ m_nextpage <= numPages + Cardinality(Exited)
      /\ pi \in 0..numPages /\ iSizeUsed \in Nat
  BY PagedFits, PageSizeAssumption DEF ClaimInv, ClaimTypes, TypeInv
<1>c. Cardinality(Exited) \in Nat /\ IsFiniteSet(Exited) /\ Cardinality(Exited') \in Nat
  <2>1. IsFiniteSet(Exited')
    BY FS_Subset, PageWorkersAssumption DEF Exited
  <2>2. QED
    BY <2>1, ExitedFinite, FS_CardinalityType
<1>1. CASE IndexUnpaged
  <2>1. /\ rom' = rom /\ iSizeUsed' = iSizeUsed /\ m_nextpage' = firstPaged /\ pi' = firstPaged
        /\ pageInfo' = [p \in DOMAIN pageInfo |->
                          IF p < firstPaged
                          THEN [start |-> Start(p), size |-> PageSize, type |-> "packed", pageable |-> FALSE]
                          ELSE pageInfo[p]]
    BY <1>1 DEF IndexUnpaged
  <2>2. numPages' = numPages
    BY <2>1 DEF numPages
  <2>3. pageInfo' \in [0..numPages -> Infos]
    <3>1. ASSUME NEW p \in 0..numPages
          PROVE  [start |-> Start(p), size |-> PageSize, type |-> "packed", pageable |-> FALSE] \in Infos
      <4>0. p \in Nat
        BY <1>t
      <4>1. Start(p) \in Nat
        BY StartType, <4>0
      <4>2. QED
        BY <1>t, <4>1
    <3>2. QED
      BY <1>t, <2>1, <3>1
  <2>4. QED
    BY <1>t, <1>c, <2>1, <2>2, <2>3 DEF TypeInv
<1>2. ASSUME NEW w \in PageWorkers, Claim(w) PROVE TypeInv'
  <2>1. /\ pc[w] = "claim" /\ UNCHANGED <<rom, pageInfo, pi, iSizeUsed>>
        /\ m_nextpage' = m_nextpage + 1
        /\ pc' = [pc EXCEPT ![w] = IF m_nextpage < numPages THEN "compress" ELSE "exit"]
    BY <1>2 DEF Claim
  <2>2. numPages' = numPages
    BY <2>1 DEF numPages
  <2>3. m_nextpage' <= numPages' + Cardinality(Exited')
    <3>1. CASE m_nextpage < numPages
      BY <1>t, <1>c, <2>1, <2>2, <3>1
    <3>2. CASE ~(m_nextpage < numPages)
      <4>1. Exited' = Exited \cup {w} /\ w \notin Exited
        BY <1>t, <2>1, <3>2 DEF Exited
      <4>2. Cardinality(Exited') = Cardinality(Exited) + 1
        BY <1>c, <4>1, FS_AddElement
      <4>3. QED
        BY <1>t, <1>c, <2>1, <2>2, <4>2
    <3>3. QED
      BY <3>1, <3>2
  <2>4. QED
    BY <1>t, <2>1, <2>2, <2>3 DEF TypeInv
<1>3. ASSUME NEW w \in PageWorkers, Compress(w) PROVE TypeInv'
  <2> PICK p : p = page[w]
    OBVIOUS
  <2>1. /\ pc[w] = "compress" /\ UNCHANGED <<rom, m_nextpage, pi, iSizeUsed>>
        /\ pc' = [pc EXCEPT ![w] = "claim"]
        /\ pageInfo' = [pageInfo EXCEPT ![p] =
                          [start |-> Start(p), size |-> StoredSize(p),
                           type |-> IF Fits(p) THEN "packed" ELSE "raw", pageable |-> TRUE]]
    BY <1>3 DEF Compress
  <2>2. numPages' = numPages
    BY <2>1 DEF numPages
  <2>3. p \in Nat /\ p \in Pages
    BY <1>t, <2>1 DEF ClaimInv, ClaimsBelow, Working, Pages
  <2>4. Start(p) \in Nat /\ StoredSize(p) \in Nat
    BY <1>t, <2>3, StartType, SizeType
  <2>5. pageInfo' \in [0..numPages -> Infos]
    BY <1>t, <2>1, <2>4
  <2>6. Exited' = Exited
    BY <1>t, <2>1 DEF Exited
  <2>7. QED
    BY <1>t, <2>1, <2>2, <2>5, <2>6 DEF TypeInv
<1>4. CASE JoinAll
  <2>1. UNCHANGED <<rom, pageInfo, m_nextpage, pc, pi, iSizeUsed>>
    BY <1>4 DEF JoinAll
  <2>2. numPages' = numPages /\ Exited' = Exited
    BY <2>1 DEF numPages, Exited
  <2>3. QED
    BY <1>t, <2>1, <2>2 DEF TypeInv
<1>5. CASE Pack
  <2>1. /\ UNCHANGED <<rom, m_nextpage, pc, iSizeUsed>>
        /\ \/ /\ pi < numPages - 1 /\ pi' = pi + 1
              /\ pageInfo' = [pageInfo EXCEPT ![pi + 1].start = pageInfo[pi].start + pageInfo[pi].size]
           \/ UNCHANGED <<pageInfo, pi>>
    BY <1>5 DEF Pack
  <2>2. numPages' = numPages /\ Exited' = Exited
    BY <2>1 DEF numPages, Exited
  <2>3. pageInfo' \in [0..numPages -> Infos] /\ pi' \in 0..numPages
    <3>1. CASE pi < numPages - 1 /\ pi' = pi + 1
               /\ pageInfo' = [pageInfo EXCEPT ![pi + 1].start = pageInfo[pi].start + pageInfo[pi].size]
      <4>1. pi + 1 \in 0..numPages
        BY <1>t, <3>1
      <4>2. pageInfo[pi].start + pageInfo[pi].size \in Nat
        BY <1>t
      <4>3. QED
        BY <1>t, <3>1, <4>1, <4>2
    <3>2. CASE UNCHANGED <<pageInfo, pi>>
      BY <1>t, <3>2
    <3>3. QED
      BY <2>1, <3>1, <3>2
  <2>4. QED
    BY <1>t, <2>1, <2>2, <2>3 DEF TypeInv
<1>6. CASE Fill
  <2>1. UNCHANGED <<rom, pageInfo, m_nextpage, pc, pi>> /\ (iSizeUsed' = iSizeUsed \/ iSizeUsed' = RelSize)
    BY <1>6 DEF Fill
  <2>2. numPages' = numPages /\ Exited' = Exited
    BY <2>1 DEF numPages, Exited
  <2>3. RelSize \in Nat
    <3>1. pageInfo[pi].start \in Nat /\ pageInfo[pi].size \in Nat
      BY <1>t
    <3>2. QED
      BY <1>t, <3>1 DEF RelSize
  <2>4. QED
    BY <1>t, <2>1, <2>2, <2>3 DEF TypeInv
<1>7. CASE UNCHANGED vars
  <2>1. UNCHANGED <<rom, pageInfo, m_nextpage, pc, pi, iSizeUsed>>
    BY <1>7 DEF vars
  <2>2. numPages' = numPages /\ Exited' = Exited
    BY <2>1 DEF numPages, Exited
  <2>3. QED
    BY <1>t, <2>1, <2>2 DEF TypeInv
<1>8. QED
  BY <1>1, <1>2, <1>3, <1>4, <1>5, <1>6, <1>7 DEF Next, MainThread, Work

\* The state of the packing keeps its types, for every ROM, page size and set of
\* threads: in particular the page counter, which every thread pushes once past the last
\* page, stays within the pages and the threads.
THEOREM TypeCorrect == Spec => []TypeOK
<1>1. ClaimInv /\ PagesInv /\ TypeInv => TypeOK
  <2> SUFFICES ASSUME ClaimInv, PagesInv, TypeInv PROVE TypeOK
    OBVIOUS
  <2>1. m_nextpage \in 0..(numPages + Cardinality(PageWorkers))
    BY ExitedFinite, PagedFits DEF ClaimInv, ClaimTypes, TypeInv
  <2>2. QED
    BY <2>1 DEF ClaimInv, ClaimTypes, PagesInv, UnpagedInv, TypeInv, TypeOK
<1>2. QED
  BY InitClaims, NextClaims, InitPages, NextPages, InitTypes, NextTypes, <1>1, PTL DEF Spec
=============================================================================
