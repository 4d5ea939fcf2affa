------------------------------- MODULE BsymPages -------------------------------
(***************************************************************************)
(* The pages of the .bsym files: SymbolGenerator::FlushSymbolFileContent   *)
(* cuts the symbol data into pages, has gThreadNum threads compress them   *)
(* in place (PageCompressWorker), moves them together and writes them out. *)
(* A process that builds several images does it once for each; the page    *)
(* counter of the workers is a static that belongs to all of them.         *)
(*                                                                         *)
(* Bytes are <<page, form, index>> as in RomPages.  Unlike the pages of a  *)
(* ROM, the last page here is as long as the data left for it.             *)
(***************************************************************************)
EXTENDS Integers, Sequences, FiniteSets

CONSTANTS
  PageWorkers,  \* the threads
  PageSize,     \* BSYM_PAGE_SIZE, a small number here
  Runs          \* what a process flushes: sequences of [length, packed]

\* The symbol data of one image, and what BytePairCompress would pack each page to.
CeilDiv(a, b) == (a + b - 1) \div b
IsData(d) ==
  /\ d.length \in Nat \ {0}
  /\ d.packed \in [0..(CeilDiv(d.length, PageSize) - 1) -> Nat \ {0}]

ASSUME PageWorkersAssumption == IsFiniteSet(PageWorkers) /\ PageWorkers # {}
ASSUME PageSizeAssumption == PageSize \in Nat \ {0}
ASSUME RunsAssumption ==
  \A r \in Runs : /\ Len(r) \in Nat \ {0} /\ DOMAIN r = 1..Len(r)
                  /\ \A i \in DOMAIN r : IsData(r[i])

VARIABLES
  run, file,    \* what is flushed, and which of it is at work
  memory,       \* the data of the file, as the MemoryWriter holds it
  iPages,       \* per page: iPageStartOffset and iPageDataSize
  currentPage,  \* the static counter of PageCompressWorker
  page, pc,     \* per worker: the page it has claimed, and its label
  main, packed, \* the main thread, and the page the packing has come to
  written       \* the files written: their pages table and their bytes

vars == <<run, file, memory, iPages, currentPage, page, pc, main, packed, written>>

None == -1
Data == run[file]
totalPages == CeilDiv(Data.length, PageSize)
Pages == 0..(totalPages - 1)
Start(p) == p * PageSize
DataSize(d, p) == IF Start(p) + PageSize < d.length THEN PageSize ELSE d.length - Start(p)

Junk == <<None, "junk", 0>>
RawByte(o) == IF o < Data.length THEN <<o \div PageSize, "raw", o % PageSize>> ELSE Junk

Init ==
  /\ run \in Runs
  /\ file = 1
  /\ memory = <<>>
  /\ iPages = <<>>
  /\ currentPage = 0
  /\ page = [w \in PageWorkers |-> None]
  /\ pc = [w \in PageWorkers |-> "exit"]
  /\ main = "pages"
  /\ packed = 0
  /\ written = <<>>

\* The page table, and the threads: currentPage is where the last flush left it.
CutPages ==
  /\ main = "pages"
  /\ memory' = [o \in 0..(totalPages * PageSize - 1) |-> RawByte(o)]
  /\ iPages' = [p \in Pages |-> [start |-> Start(p), size |-> DataSize(Data, p)]]
  /\ pc' = [w \in PageWorkers |-> "claim"]
  /\ main' = "join"
  /\ UNCHANGED <<run, file, currentPage, page, packed, written>>

-----------------------------------------------------------------------------
(* PageCompressWorker::operator() *)

\* Mutation: the counter is read and written without m_mutex.
ClaimUnlocked(w) ==
  /\ pc[w] = "claim"
  /\ page' = [page EXCEPT ![w] = currentPage]
  /\ currentPage' \in {currentPage, currentPage + 1}
  /\ pc' = [pc EXCEPT ![w] = IF currentPage < totalPages THEN "compress" ELSE "exit"]
  /\ UNCHANGED <<run, file, memory, iPages, main, packed, written>>

\* Mutation: a thread that finds no page left asks again.
ClaimForever(w) ==
  /\ pc[w] = "claim"
  /\ page' = [page EXCEPT ![w] = currentPage]
  /\ currentPage' = IF currentPage < totalPages THEN currentPage + 1 ELSE currentPage
  /\ pc' = [pc EXCEPT ![w] = IF currentPage < totalPages THEN "compress" ELSE "claim"]
  /\ UNCHANGED <<run, file, memory, iPages, main, packed, written>>

Claim(w) ==
  /\ pc[w] = "claim"
  /\ page' = [page EXCEPT ![w] = currentPage]
  /\ currentPage' = currentPage + 1
  /\ pc' = [pc EXCEPT ![w] = IF currentPage < totalPages THEN "compress" ELSE "exit"]
  /\ UNCHANGED <<run, file, memory, iPages, main, packed, written>>

\* A page that does not get smaller (KErrTooBig) stays as it is, and is given the
\* size of a whole page.
Fits(p) == Data.packed[p] < iPages[p].size

\* Mutation: the bytes are packed and the table is not told.
CompressSilently(w) ==
  LET p == page[w]
  IN /\ pc[w] = "compress"
     /\ memory' = [o \in DOMAIN memory |->
                     IF Fits(p) /\ o \in Start(p)..(Start(p) + Data.packed[p] - 1)
                     THEN <<p, "packed", o - Start(p)>> ELSE memory[o]]
     /\ pc' = [pc EXCEPT ![w] = "claim"]
     /\ UNCHANGED <<run, file, iPages, currentPage, page, main, packed, written>>

Compress(w) ==
  LET p == page[w]
  IN /\ pc[w] = "compress"
     /\ memory' = [o \in DOMAIN memory |->
                     IF Fits(p) /\ o \in Start(p)..(Start(p) + Data.packed[p] - 1)
                     THEN <<p, "packed", o - Start(p)>> ELSE memory[o]]
     /\ iPages' = [iPages EXCEPT ![p].size = IF Fits(p) THEN Data.packed[p] ELSE PageSize]
     /\ pc' = [pc EXCEPT ![w] = "claim"]
     /\ UNCHANGED <<run, file, currentPage, page, main, packed, written>>

-----------------------------------------------------------------------------
(* FlushSymbolFileContent, from the join on *)

JoinAll ==
  /\ main = "join"
  /\ \A w \in PageWorkers : pc[w] = "exit"
  /\ main' = "pack"
  /\ packed' = 0
  /\ UNCHANGED <<run, file, memory, iPages, currentPage, page, pc, written>>

\* One turn of the packing loop: the next page is moved to the end of this one.
Pack ==
  /\ main = "pack"
  /\ packed < totalPages - 1
  /\ LET prev == iPages[packed]
         next == iPages[packed + 1]
         dest == prev.start + prev.size
     IN /\ memory' = [o \in DOMAIN memory |->
                        IF o \in dest..(dest + next.size - 1)
                        THEN memory[next.start + (o - dest)] ELSE memory[o]]
        /\ iPages' = [iPages EXCEPT ![packed + 1].start = dest]
  /\ packed' = packed + 1
  /\ UNCHANGED <<run, file, currentPage, page, pc, main, written>>

CompressedSize == iPages[totalPages - 1].start + iPages[totalPages - 1].size

\* The file is written, and the next image of the process is flushed in its turn.
WriteFile ==
  /\ main = "pack"
  /\ packed >= totalPages - 1
  /\ written' = Append(written, [pages |-> iPages,
                                 bytes |-> [i \in 1..CompressedSize |-> memory[i - 1]]])
  /\ \/ /\ file < Len(run)
        /\ file' = file + 1
        /\ main' = "pages"
     \/ /\ file = Len(run)
        /\ main' = "done"
        /\ UNCHANGED file
  /\ UNCHANGED <<run, memory, iPages, currentPage, page, pc, packed>>

MainThread == CutPages \/ JoinAll \/ Pack \/ WriteFile
Work(w) == Claim(w) \/ Compress(w)

Next == MainThread \/ \E w \in PageWorkers : Work(w)

Spec == Init /\ [][Next]_vars

FairSpec == Spec /\ WF_vars(MainThread) /\ \A w \in PageWorkers : WF_vars(Work(w))

-----------------------------------------------------------------------------
(* Properties *)

\* The pages of a file as it should hold them: packed where that is smaller, as they
\* were otherwise.
Shrinks(d, p) == d.packed[p] < DataSize(d, p)
Form(d, p) == IF Shrinks(d, p) THEN "packed" ELSE "raw"
StoredSize(d, p) == IF Shrinks(d, p) THEN d.packed[p] ELSE DataSize(d, p)
Stored(d, p) == [i \in 1..StoredSize(d, p) |-> <<p, Form(d, p), i - 1>>]

\* A file consists of its compressed pages, the first at its beginning and each of the
\* others behind the one before it; its table says where they are, and there is nothing
\* after the last one.
FilePacked(d, f) ==
  LET last == CeilDiv(d.length, PageSize) - 1
  IN /\ f.pages[0].start = 0
     /\ \A p \in 0..last :
          /\ [i \in 1..f.pages[p].size |-> f.bytes[f.pages[p].start + i]] = Stored(d, p)
          /\ f.pages[p].start + f.pages[p].size = IF p < last THEN f.pages[p + 1].start ELSE Len(f.bytes)

\* A last page that is not whole gets smaller: otherwise it is given the size of a
\* whole one, and the file ends with bytes that nobody wrote.
LastFits(d) == \A p \in 0..(CeilDiv(d.length, PageSize) - 1) : DataSize(d, p) < PageSize => Shrinks(d, p)

\* "Complete compress for Bsymbol file", "pack all the pages together": the first file
\* that a process flushes is packed, however the threads share its pages.  (A second one
\* need not be: currentPage is not reset.)
FirstFilePacked == written # <<>> => FilePacked(run[1], written[1])

\* A page is compressed by one thread, once: a page in work is still as it was, and
\* no other thread has it (PageCompressWorker::operator()).
CompressedOnce ==
  \A w \in PageWorkers :
     pc[w] = "compress" =>
        /\ memory[Start(page[w])][2] = "raw"
        /\ \A v \in PageWorkers \ {w} : pc[v] = "compress" => page[v] # page[w]

\* Every flush ends, so that the generator's thread can be joined.
FlushesEnd == <>(main = "done")
=============================================================================
