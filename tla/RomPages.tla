------------------------------- MODULE RomPages -------------------------------
(***************************************************************************)
(* E32Rom::CompressPages of rombuild: the pages of the paged part of a ROM *)
(* are compressed in place by gThreadNum threads (CompressPageWorker),     *)
(* which take page numbers from m_nextpage under m_mutex, and the main     *)
(* thread then moves them together.                                        *)
(*                                                                         *)
(* A byte of the image is <<page, form, index>>: the index-th byte of the  *)
(* page as it was laid out ("raw") or as BytePairCompress packed it        *)
(* ("packed").                                                             *)
(***************************************************************************)
EXTENDS Integers, FiniteSets

CONSTANTS
  PageWorkers,  \* the threads
  PageSize,     \* iObey->iPageSize, a small number here
  Roms          \* the images, see IsRom

CeilDiv(a, b) == (a + b - 1) \div b
RoundUp(n) == PageSize * CeilDiv(n, PageSize)

\* A ROM: the bytes used, the offset at which its paged part starts, and the size
\* BytePairCompress would pack each page to.
IsRom(r) ==
  /\ r.used \in Nat \ {0}
  /\ r.pagedStart \in 0..RoundUp(r.used)
  /\ r.packed \in [0..(CeilDiv(r.used, PageSize) - 1) -> Nat \ {0}]

ASSUME PageWorkersAssumption == IsFiniteSet(PageWorkers) /\ PageWorkers # {}
ASSUME PageSizeAssumption == PageSize \in Nat \ {0}
ASSUME RomsAssumption == \A r \in Roms : IsRom(r)

VARIABLES
  rom,
  image,       \* the bytes of the ROM, from offset 0
  pageInfo,    \* the SRomPageInfo table, per page: start, size, type, pageable
  m_nextpage,
  page,        \* per worker: the page it has claimed, or None
  pc,          \* per worker: "claim", "compress" or "exit"
  main,        \* "index", "join", "pack", "fill", "done" or "crashed"
  pi,          \* the page the packing has come to
  iSizeUsed

vars == <<rom, image, pageInfo, m_nextpage, page, pc, main, pi, iSizeUsed>>

None == -1

numPages == CeilDiv(rom.used, PageSize)
firstPaged == CeilDiv(rom.pagedStart, PageSize)
Pages == 0..(numPages - 1)
Start(p) == p * PageSize
NoInfo == [start |-> 0, size |-> 0, type |-> "none", pageable |-> FALSE]   \* the table is zeroed

RawByte(o) == <<o \div PageSize, "raw", o % PageSize>>

\* Copy n bytes; dest lies below src, and the bytes are copied upwards.
Memcpy(img, dest, src, n) ==
  [o \in DOMAIN img |-> IF o \in dest..(dest + n - 1) THEN img[src + (o - dest)] ELSE img[o]]

Init ==
  /\ rom \in Roms
  /\ image = [o \in 0..(numPages * PageSize - 1) |-> RawByte(o)]
  /\ pageInfo = [p \in 0..numPages |-> NoInfo]
  /\ m_nextpage = 0
  /\ page = [w \in PageWorkers |-> None]
  /\ pc = [w \in PageWorkers |-> "exit"]
  /\ main = "index"
  /\ pi = 0
  /\ iSizeUsed = rom.used

\* The pages below the paged part are entered as they are, and the threads start at
\* the first page above.
IndexUnpaged ==
  /\ main = "index"
  /\ pageInfo' = [p \in DOMAIN pageInfo |->
                    IF p < firstPaged THEN 
                      [start |-> Start(p), size |-> PageSize, type |-> "packed", pageable |-> FALSE]
                    ELSE pageInfo[p]]
  /\ m_nextpage' = firstPaged
  /\ pi' = firstPaged
  /\ pc' = [w \in PageWorkers |-> "claim"]
  /\ main' = "join"
  /\ UNCHANGED <<rom, image, page, iSizeUsed>>

-----------------------------------------------------------------------------
(* CompressPageWorker::operator() *)

\* Mutation: m_nextpage is read and written without m_mutex, so that its increment
\* can be lost.
ClaimUnlocked(w) ==
  /\ pc[w] = "claim"
  /\ page' = [page EXCEPT ![w] = m_nextpage]
  /\ m_nextpage' \in {m_nextpage, m_nextpage + 1}
  /\ pc' = [pc EXCEPT ![w] = IF m_nextpage < numPages THEN "compress" ELSE "exit"]
  /\ UNCHANGED <<rom, image, pageInfo, main, pi, iSizeUsed>>

\* Mutation: a thread that finds no page left asks again.
ClaimForever(w) ==
  /\ pc[w] = "claim"
  /\ page' = [page EXCEPT ![w] = m_nextpage]
  /\ m_nextpage' = m_nextpage + 1
  /\ pc' = [pc EXCEPT ![w] = IF m_nextpage < numPages THEN "compress" ELSE "claim"]
  /\ UNCHANGED <<rom, image, pageInfo, main, pi, iSizeUsed>>

Claim(w) ==
  /\ pc[w] = "claim"
  /\ page' = [page EXCEPT ![w] = m_nextpage]
  /\ m_nextpage' = m_nextpage + 1
  /\ pc' = [pc EXCEPT ![w] = IF m_nextpage < numPages THEN "compress" ELSE "exit"]
  /\ UNCHANGED <<rom, image, pageInfo, main, pi, iSizeUsed>>

\* A page that does not get smaller (KErrTooBig) stays as it is.
Fits(p) == rom.packed[p] < PageSize
StoredSize(p) == IF Fits(p) THEN rom.packed[p] ELSE PageSize

\* The worker touches its own page and its entry of the table only.
Compress(w) ==
  LET p == page[w]
  IN /\ pc[w] = "compress"
     /\ image' = [o \in DOMAIN image |->
                    IF Fits(p) /\ o \in Start(p)..(Start(p) + rom.packed[p] - 1)
                    THEN <<p, "packed", o - Start(p)>> ELSE image[o]]
     /\ pageInfo' = [pageInfo EXCEPT ![p] =
                       [start |-> Start(p), size |-> StoredSize(p),
                        type |-> IF Fits(p) THEN "packed" ELSE "raw", pageable |-> TRUE]]
     /\ pc' = [pc EXCEPT ![w] = "claim"]
     /\ UNCHANGED <<rom, m_nextpage, page, main, pi, iSizeUsed>>

-----------------------------------------------------------------------------
(* The main thread *)

\* Mutation: the main thread waits for the page counter, which the last claims of the
\* threads push past the number of pages.
JoinOnCount ==
  /\ main = "join"
  /\ m_nextpage = numPages
  /\ \A w \in PageWorkers : pc[w] # "compress"
  /\ main' = "pack"
  /\ UNCHANGED <<rom, image, pageInfo, m_nextpage, page, pc, pi, iSizeUsed>>

JoinAll ==
  /\ main = "join"
  /\ \A w \in PageWorkers : pc[w] = "exit"
  /\ main' = "pack"
  /\ UNCHANGED <<rom, image, pageInfo, m_nextpage, page, pc, pi, iSizeUsed>>

\* Mutation: the next page is put after the page's raw bytes.
PackLoose ==
  /\ main = "pack"
  /\ \/ /\ pi < numPages - 1
        /\ LET prev == pageInfo[pi]
               next == pageInfo[pi + 1]
               dest == prev.start + PageSize
           IN /\ image' = Memcpy(image, dest, next.start, next.size)
              /\ pageInfo' = [pageInfo EXCEPT ![pi + 1].start = dest]
        /\ pi' = pi + 1
        /\ UNCHANGED main
     \/ /\ pi >= numPages - 1
        /\ main' = "fill"
        /\ UNCHANGED <<image, pageInfo, pi>>
  /\ UNCHANGED <<rom, m_nextpage, page, pc, iSizeUsed>>

\* One turn of the packing loop: the next page is moved to the end of this one.
Pack ==
  /\ main = "pack"
  /\ \/ /\ pi < numPages - 1
        /\ LET prev == pageInfo[pi]
               next == pageInfo[pi + 1]
               dest == prev.start + prev.size
           IN /\ image' = Memcpy(image, dest, next.start, next.size)
              /\ pageInfo' = [pageInfo EXCEPT ![pi + 1].start = dest]
        /\ pi' = pi + 1
        /\ UNCHANGED main
     \/ /\ pi >= numPages - 1
        /\ main' = "fill"
        /\ UNCHANGED <<image, pageInfo, pi>>
  /\ UNCHANGED <<rom, m_nextpage, page, pc, iSizeUsed>>

\* "no page is compressed" when the entry that pi points to is still zero.
RelSize ==
  LET end == pageInfo[pi].start + pageInfo[pi].size
  IN IF end = 0 THEN iSizeUsed ELSE end

\* The rest of the image is filled; memset is given a negative length when the
\* packed pages are longer than the bytes in use.
Fill ==
  /\ main = "fill"
  /\ \/ /\ RelSize <= iSizeUsed
        /\ image' = [o \in DOMAIN image |->
                       IF o \in RelSize..(iSizeUsed - 1) THEN <<None, "fill", 0>> ELSE image[o]]
        /\ iSizeUsed' = RelSize
        /\ main' = "done"
     \/ /\ RelSize > iSizeUsed
        /\ main' = "crashed"
        /\ UNCHANGED <<image, iSizeUsed>>
  /\ UNCHANGED <<rom, pageInfo, m_nextpage, page, pc, pi>>

MainThread == IndexUnpaged \/ JoinAll \/ Pack \/ Fill
Work(w) == Claim(w) \/ Compress(w)

Next == MainThread \/ \E w \in PageWorkers : Work(w)

Spec == Init /\ [][Next]_vars

FairSpec == Spec /\ WF_vars(MainThread) /\ \A w \in PageWorkers : WF_vars(Work(w))

-----------------------------------------------------------------------------
(* Properties *)

\* The types of the state of CompressPages and its threads.
TypeOK ==
  /\ rom \in Roms
  /\ DOMAIN image = 0..(numPages * PageSize - 1)
  /\ pageInfo \in [0..numPages -> [start : Nat, size : Nat, type : {"none", "packed", "raw"},
                               pageable : BOOLEAN]]
  /\ m_nextpage \in 0..(numPages + Cardinality(PageWorkers))
  /\ page \in [PageWorkers -> Nat \cup {None}]
  /\ pc \in [PageWorkers -> {"claim", "compress", "exit"}]
  /\ main \in {"index", "join", "pack", "fill", "done", "crashed"}
  /\ pi \in 0..numPages
  /\ iSizeUsed \in Nat

\* A page is compressed by one thread, once: no two threads hold a page, and a page
\* in work has no entry yet (CompressPageWorker::operator(), m_nextpage).
CompressedOnce ==
  \A w \in PageWorkers :
     pc[w] = "compress" =>
        /\ pageInfo[page[w]] = NoInfo
        /\ \A v \in PageWorkers \ {w} : pc[v] = "compress" => page[v] # page[w]

\* CoreRomImageReader::ProcessImage goes through the table, leaves out the entries that
\* are not pageable ("skip uncompressed part at the beginning of ROM image") and puts
\* what it makes of each of the others behind the one before it.
Bytes(from, n) == [i \in 1..n |-> image[from + i - 1]]
RawPage(p) == [i \in 1..PageSize |-> <<p, "raw", i - 1>>]
PackedPage(p) == [i \in 1..rom.packed[p] |-> <<p, "packed", i - 1>>]

Decompress(b) ==
  LET p == b[1][1] IN IF p \in Pages /\ b = PackedPage(p) THEN RawPage(p) ELSE <<"corrupt">>

LoadPage(info) ==
  LET b == Bytes(info.start, info.size) IN IF info.type = "packed" THEN Decompress(b) ELSE b

Pageable == {p \in Pages : pageInfo[p].pageable}
ReadBack == [p \in Pageable |-> LoadPage(pageInfo[p])]

\* The core image reader gets back from the packed image the pages that were laid
\* out, each whole and in its place, whatever the schedule of the threads: moving the
\* pages down has overwritten none that was still to be moved, nor the unpaged part, and
\* the pages lie without a gap.  A ROM without paged pages is left as it was ("no page
\* is compressed").
ImageReadsBack ==
  main = "done" =>
     /\ ReadBack = [p \in firstPaged..(numPages - 1) |-> RawPage(p)]
     /\ \A p \in Pages : p < firstPaged => Bytes(Start(p), PageSize) = RawPage(p)
     /\ \A p \in firstPaged..(numPages - 2) :
           pageInfo[p].start + pageInfo[p].size = pageInfo[p + 1].start
     /\ iSizeUsed = IF firstPaged < numPages
                    THEN pageInfo[numPages - 1].start + pageInfo[numPages - 1].size
                    ELSE rom.used

\* Every build ends: the threads run out of pages and the main thread packs them.
PackingEnds == <>(main \in {"done", "crashed"})
=============================================================================
