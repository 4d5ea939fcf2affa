------------------------------ MODULE RomLayout ------------------------------
(***************************************************************************)
(* How rombuild lays an image out: the two passes over the obey file       *)
(* (r_obey.cpp), the sorting of a paged ROM (r_areaset.cpp) and the walk   *)
(* over the files (r_rom.cpp).  One thread; what is hard is that the       *)
(* positions of things in a second section are forecast before the files  *)
(* are placed, and that the list of files is relinked in place.            *)
(*                                                                         *)
(* Sizes and addresses are counted in words of four bytes.  A line of the  *)
(* obey file is a record; its size1 and size2 are what                     *)
(* TRomBuilderEntry::SizeInSections returns for an executable, size1 alone *)
(* for data.                                                               *)
(***************************************************************************)
EXTENDS RomAreas, Integers, FiniteSets

CONSTANTS
    Roms,          \* the images asked for
    Base,          \* iRomLinearBase
    RomAlign,      \* iRomAlign
    PageSize,      \* iPageSize
    SectionAlign,  \* the boundary a second section must be on
    HeadSize,          \* bootstrap and page index, or TExtensionRomHeader
    SectionHeader, \* sizeof(TRomSectionHeader)
    ImageHeader,   \* sizeof(TRomImageHeader)
    Reloc          \* sizeof(TReloc)

Keywords == {"core", "file", "data", "hcr", "section"}

(* "core" is a primary, variant, extension or device; "file" any other     *)
(* executable.  A file that is hidden or patched is not listed: nothing    *)
(* in the directory points to it.                                          *)
Line == [keyword : Keywords, offset : Nat, align : Nat, codeAlign : Nat,
         unpaged : BOOLEAN, listed : BOOLEAN, size1 : Nat, size2 : Nat]

Rom == [extension : BOOLEAN, paged : BOOLEAN, size : Nat \ {0},
        areas : Seq(Area), lines : Seq(Line)]

ASSUME LayoutAssumption ==
    /\ Roms \subseteq Rom
    /\ \A r \in Roms : r.size \in Address
    /\ KDefaultAreaName \in AreaNames
    /\ Base \in Address \ {0}
    /\ 2 * Base >= Limit       \* else the TInt offsets of SetupPages change sign
    /\ RomAlign \in Nat \ {0}
    /\ PageSize \in Nat \ {0}
    /\ SectionAlign \in Nat \ {0}
    /\ HeadSize \in Nat
    /\ SectionHeader \in Nat
    /\ ImageHeader \in Nat
    /\ Reloc \in Nat

VARIABLES
    rom,           \* the obey file, and the global gPagedRom
    line,          \* the line to be read
    pc,
    outcome,       \* "building", "built", or how the build has ended
    iAreaSet,
    files,         \* the entries in the order of iNext
    iRomSectionNumber, \* of each entry
    iSectionStart, \* 0: no second section
    iSectionPosition, \* -1: no second section
    iFiles,        \* the head of the default area's list; 0 is null
    iNextInArea,
    iFirstPagedCode,
    romaddr,       \* where LayoutRom starts
    main,          \* the address mainptr has come to
    second,        \* the address secondptr has come to; 0 is null
    current,       \* the file the iterator is at
    fileCount,
    placed,        \* what has been written, and where
    directory,     \* address of the directory
    entry,         \* file -> the address its directory entries give
    iSizeUsed,
    pageable       \* iPageableRomStart and iPageableRomSize

obeyVars == <<iAreaSet, files, iRomSectionNumber, iSectionStart, iSectionPosition>>
listVars == <<iFiles, iNextInArea, iFirstPagedCode>>
layoutVars == <<romaddr, main, second, current, fileCount, placed, directory, entry>>
endVars == <<iSizeUsed, pageable>>
vars == <<rom, line, pc, outcome, obeyVars, listVars, layoutVars, endVars>>

NotSectioned == -1
Null == 0

Init ==
    /\ rom \in Roms
    /\ line = 1
    /\ pc = "areas"
    /\ outcome = "building"
    /\ iAreaSet = EmptyAreaSet
    /\ files = <<>>
    /\ iRomSectionNumber = <<>>
    /\ iSectionStart = 0
    /\ iSectionPosition = NotSectioned
    /\ iFiles = Null
    /\ iNextInArea = <<>>
    /\ iFirstPagedCode = Null
    /\ romaddr = 0
    /\ main = 0
    /\ second = Null
    /\ current = Null
    /\ fileCount = 0
    /\ placed = {}
    /\ directory = 0
    /\ entry = <<>>
    /\ iSizeUsed = 0
    /\ pageable = [start |-> 0, size |-> 0]

(* An error that ends the tool: a return of KErrGeneral or a call of exit. *)
Fail(how) ==
    /\ outcome' = how
    /\ pc' = "done"
    /\ UNCHANGED <<rom, line, obeyVars, listVars, layoutVars, endVars>>

-----------------------------------------------------------------------------
(* The obey file.                                                          *)

AddArea(area) ==
    /\ iAreaSet' = Added(iAreaSet, area)
    /\ UNCHANGED <<rom, outcome, files, iRomSectionNumber, iSectionStart, iSectionPosition,
                   listVars, layoutVars, endVars>>

(* The first pass: ParseAreaKeyword for each area line of a core ROM.      *)
ParseAreaKeyword ==
    /\ pc = "areas"
    /\ line <= Len(rom.areas)
    /\ ~rom.extension
    /\ IF CanAdd(iAreaSet, rom.areas[line])
         THEN /\ AddArea(rom.areas[line])
              /\ line' = line + 1
              /\ UNCHANGED pc
         ELSE Fail("refused")

HasPrimary == \E i \in 1 .. Len(rom.lines) : rom.lines[i].keyword = "core"

TheDefaultArea == [name |-> KDefaultAreaName, base |-> Base, size |-> rom.size]

(* GotKeyVariables wants a primary; then the area of all files is added,   *)
(* and the reader is rewound for the second pass.                          *)
CreateDefaultArea ==
    /\ pc = "areas"
    /\ line > Len(rom.areas)
    /\ IF (rom.extension \/ HasPrimary) /\ CanAdd(iAreaSet, TheDefaultArea)
         THEN /\ AddArea(TheDefaultArea)
              /\ line' = 1
              /\ pc' = "obey"
         ELSE Fail("refused")

ReadLine == pc = "obey" /\ line <= Len(rom.lines)

(* What the passes over an extension ROM (ProcessExtensionKeyword,         *)
(* ProcessExtensionRom) complain of and go on without: area lines in the   *)
(* first, and these in the second.                                         *)
NotSupported(l) == rom.extension /\ l.keyword \in {"section", "core", "hcr"}

SkipLine ==
    /\ \/ pc = "areas" /\ line <= Len(rom.areas) /\ rom.extension
       \/ ReadLine /\ NotSupported(rom.lines[line])
    /\ line' = line + 1
    /\ UNCHANGED <<rom, pc, outcome, obeyVars, listVars, layoutVars, endVars>>

\* Mutation: the position counts the executables only.
NumberOfPeFiles == Cardinality({i \in 1 .. Len(files) : files[i].keyword \in {"core", "file"}})

(* iNumberOfDataFiles + iNumberOfPeFiles: an HCR file is neither.          *)
NumberOfFiles == Cardinality({i \in 1 .. Len(files) : files[i].keyword # "hcr"})

ParseSection ==
    /\ ReadLine
    /\ ~NotSupported(rom.lines[line])
    /\ rom.lines[line].keyword = "section"
    /\ LET offset == rom.lines[line].offset
       IN  IF /\ iSectionPosition = NotSectioned
              /\ offset < rom.size
              /\ offset % SectionAlign = 0
             THEN /\ iSectionStart' = Base + offset
                  /\ iSectionPosition' = NumberOfFiles
                  /\ line' = line + 1
                  /\ UNCHANGED <<rom, pc, outcome, iAreaSet, files, iRomSectionNumber,
                                 listVars, layoutVars, endVars>>
             ELSE Fail("refused")

\* Mutation: the link of the new entry is not null.
LinkedOn(next) ==
    [i \in 1 .. (Len(next) + 1) |-> IF i >= Len(next) THEN i + 1 ELSE next[i]]

(* ProcessFile and AddFile: the entry goes to the end of the obey file's   *)
(* list (files) and of the default area's (iFiles, iNextInArea).  The      *)
(* attribute area=<name> is checked and then forgotten, so that no file    *)
(* is ever in another area.                                                *)
Linked(next) ==
    [i \in 1 .. (Len(next) + 1) |->
       IF i > Len(next) THEN Null ELSE IF i = Len(next) THEN i + 1 ELSE next[i]]

ProcessFile ==
    /\ ReadLine
    /\ ~NotSupported(rom.lines[line])
    /\ rom.lines[line].keyword # "section"
    /\ IF /\ rom.lines[line].keyword = "hcr"
          /\ \E i \in 1 .. Len(files) : files[i].keyword = "hcr"
         THEN Fail("refused")
         ELSE /\ files' = Append(files, rom.lines[line])
              /\ iRomSectionNumber' = Append(iRomSectionNumber,
                                         IF iSectionPosition = NotSectioned THEN 0 ELSE 1)
              /\ iNextInArea' = Linked(iNextInArea)
              /\ iFiles' = 1
              /\ entry' = Append(entry, 0)
              /\ line' = line + 1
              /\ UNCHANGED <<rom, pc, outcome, iAreaSet, iSectionStart, iSectionPosition,
                             iFirstPagedCode, romaddr, main, second, current, fileCount,
                             placed, directory, endVars>>

(* The end of the obey file; E32Rom is made, and the bootstrap with the    *)
(* page index, or the extension header, is at its start.                   *)
Piece(what, of, part, lo, hi) ==
    [what |-> what, of |-> of, part |-> part, lo |-> lo, hi |-> hi]

EndObey ==
    /\ pc = "obey"
    /\ line > Len(rom.lines)
    /\ IF NumberOfFiles = 0
         THEN Fail("refused")
         ELSE /\ pc' = IF rom.paged THEN "sort" ELSE "directory"
              /\ main' = Base + HeadSize
              /\ placed' = {Piece("head", 0, 1, Base, Base + HeadSize)}
              /\ UNCHANGED <<rom, line, outcome, obeyVars, listVars, romaddr, second,
                             current, fileCount, directory, entry, endVars>>

-----------------------------------------------------------------------------
(* LoadContents.                                                           *)

RomEnd == Base + rom.size
Aligned(n, a) == ((n + a - 1) \div a) * a

IsPe(i) == files[i].keyword \in {"core", "file"}

\* Mutation: only executables are asked whether they are unpaged.
ListOfCode(f) ==
    IF f.keyword \in {"core", "hcr"} THEN "extention"
    ELSE IF f.unpaged /\ f.keyword = "file" THEN "unpaged" ELSE "normal"

(* The lists of SortFilesForPagedRom.                                      *)
ListOf(f) ==
    IF f.keyword \in {"core", "hcr"} THEN "extention"
    ELSE IF f.unpaged THEN "unpaged" ELSE "normal"

List(kind) == {i \in 1 .. Len(files) : ListOf(files[i]) = kind}

First(l) == IF l = {} THEN Null ELSE CHOOSE i \in l : \A j \in l : i <= j

\* Mutation: the normal files are linked to the first list only.
FollowingFirst(kind) ==
    IF kind # "extention" THEN Null
    ELSE IF List("unpaged") # {} THEN First(List("unpaged")) ELSE First(List("normal"))

(* What comes after the last entry of a list.                              *)
Following(kind) ==
    CASE kind = "extention" /\ List("unpaged") # {} -> First(List("unpaged"))
      [] kind = "extention" /\ List("unpaged") = {} -> First(List("normal"))
      [] kind = "unpaged" -> First(List("normal"))
      [] kind = "normal" -> Null

(* The lists are chained in the order of iNext; the last entry of each     *)
(* goes to the following list.  Without a primary, variant, extension or   *)
(* device the function returns an error here, which LoadContents does not  *)
(* look at: the last entry of each list has kept the link it had.          *)
Chained(i) ==
    LET kind == ListOf(files[i])
        after == {j \in List(kind) : i < j}
    IN  IF after # {} THEN First(after)
        ELSE IF List("extention") # {} THEN Following(kind)
        ELSE iNextInArea[i]

SortFilesForPagedRom ==
    /\ pc = "sort"
    /\ iNextInArea' = [i \in 1 .. Len(files) |-> Chained(i)]
    /\ IF List("extention") # {}
         THEN /\ iFiles' = First(List("extention"))
              /\ iFirstPagedCode' = First(List("normal"))
         ELSE UNCHANGED <<iFiles, iFirstPagedCode>>
    /\ pc' = "exceptions"
    /\ UNCHANGED <<rom, line, outcome, obeyVars, layoutVars, endVars>>

(* An entry for each executable, a fence post and the count.  The test     *)
(* adds the size in bytes to a pointer to words.                           *)
ExceptionTable == 2 + Cardinality({i \in 1 .. Len(files) : IsPe(i)})

ReserveRomExceptionSearchTable ==
    /\ pc \in {"exceptions", "exceptions last"}
    /\ IF main + 1 + 4 * ExceptionTable > RomEnd
         THEN Fail("no room")
         ELSE /\ placed' = placed \cup {Piece("exceptions", 0, 1, main, main + ExceptionTable)}
              /\ main' = main + ExceptionTable
              /\ pc' = IF pc = "exceptions" THEN "directory" ELSE "size"
              /\ UNCHANGED <<rom, line, outcome, obeyVars, listVars, romaddr, second,
                             current, fileCount, directory, entry, endVars>>

(* WriteHeadersToRom: the size of the directory goes with the files that   *)
(* are in it.                                                              *)
DirectorySize == 1 + Cardinality({i \in 1 .. Len(files) : files[i].listed})

(* What the executables of the first section will put in the second.      *)
FirstSectionTables[n \in Nat] ==
    IF n = 0 THEN 0
    ELSE FirstSectionTables[n - 1] +
           (IF IsPe(n) /\ iRomSectionNumber[n] = 0 THEN files[n].size2 ELSE 0)

DirectoryAddr ==
    IF iSectionPosition = NotSectioned
      THEN main
      ELSE iSectionStart + SectionHeader + FirstSectionTables[Len(files)]

(* The headers are written without a test for room: past the end of the    *)
(* image they go over other memory of the tool.                            *)
WriteDirectory ==
    /\ pc = "directory"
    /\ IF DirectoryAddr + DirectorySize > RomEnd
         THEN Fail("crashed")
         ELSE /\ directory' = DirectoryAddr
              /\ placed' = placed \cup
                   {Piece("directory", 0, 1, DirectoryAddr, DirectoryAddr + DirectorySize)}
              /\ main' = IF iSectionPosition = NotSectioned
                           THEN main + Aligned(DirectorySize, RomAlign) ELSE main
              /\ pc' = "relocations"
              /\ UNCHANGED <<rom, line, outcome, obeyVars, listVars, romaddr, second,
                             current, fileCount, entry, endVars>>

(* AllocateRelocationTable, and the start of LayoutRom.  No file is in     *)
(* an area of its own, so that the first loop of LayoutRom places nothing, *)
(* and FillInRelocationTable fills in the sentinel only.                   *)
AllocateRelocationTable ==
    /\ pc = "relocations"
    /\ LET size == IF iAreaSet.iAreaCount > 1 THEN iAreaSet.iAreaCount * Reloc ELSE 0
       IN  /\ placed' = placed \cup
                {p \in {Piece("relocations", 0, 1, main, main + size)} : size > 0}
           /\ main' = main + Aligned(size, RomAlign)
           /\ romaddr' = main + Aligned(size, RomAlign)
    /\ second' = IF iSectionStart # 0 THEN iSectionStart + SectionHeader ELSE Null
    /\ current' = iFiles
    /\ fileCount' = 0
    /\ pc' = "layout"
    /\ UNCHANGED <<rom, line, outcome, obeyVars, listVars, directory, entry, endVars>>

-----------------------------------------------------------------------------
(* LayoutRom.                                                              *)

AtSection == fileCount = iSectionPosition /\ second # Null

\* Mutation: the second range is not extended over the directory.
AtDirectory == second

(* The second section goes on after the directory.                         *)
AfterDirectory == second + DirectorySize

NextRom ==
    /\ pc = "layout"
    /\ current # Null
    /\ AtSection
    /\ IF main > iSectionStart
         THEN Fail("first section overflowed")
         ELSE IF second # directory
         THEN Fail("directory overwritten")
         ELSE /\ main' = AfterDirectory
              /\ second' = Null
              /\ placed' = placed \cup {p \in {Piece("section", 0, 1, iSectionStart,
                                                    iSectionStart + SectionHeader)} : SectionHeader > 0}
              /\ UNCHANGED <<rom, line, pc, outcome, obeyVars, listVars, romaddr, current,
                             fileCount, directory, entry, endVars>>

Gap(addr, a) == Aligned(addr, a) - addr

(* Where LayoutFile starts the file.                                       *)
StartOf(f) ==
    LET a == main + Gap(main, IF f.align > RomAlign THEN f.align ELSE RomAlign)
    IN  IF f.codeAlign = 0 THEN a ELSE a + Gap(a + ImageHeader, f.codeAlign)

FirstOverflowed(addr) == second # Null /\ addr > iSectionStart

GoToNext ==
    /\ current' = iNextInArea[current]
    /\ fileCount' = fileCount + 1
    /\ UNCHANGED <<rom, line, pc, outcome, obeyVars, listVars, romaddr, directory, endVars>>

(* Data: LoadDataToRom, then FixupRomEntries.  A file of no bytes leaves   *)
(* iHeaderRange at its initial 0.                                          *)
LayoutData ==
    /\ pc = "layout"
    /\ current # Null
    /\ ~AtSection
    /\ ~IsPe(current)
    /\ LET f == files[current]
           a == StartOf(f)
       IN  IF f.size1 > 0 /\ a + f.size1 > RomEnd
             THEN Fail("no room")
             ELSE /\ main' = a + f.size1
                  /\ placed' = placed \cup
                       {p \in {Piece("file", current, 1, a, a + f.size1)} : f.size1 > 0}
                  /\ entry' = IF FirstOverflowed(a + f.size1) THEN entry
                              ELSE [entry EXCEPT ![current] = IF f.size1 > 0 THEN a ELSE 0]
                  /\ UNCHANGED second
                  /\ GoToNext

(* An executable: header, code and data go to the main range, the export   *)
(* directory and the DLL reference table to the second section while there *)
(* is one.  LoadFileToRom tests the main range for room, for both parts.   *)
LayoutExecutable ==
    /\ pc = "layout"
    /\ current # Null
    /\ ~AtSection
    /\ IsPe(current)
    /\ LET f == files[current]
           a == StartOf(f)
           b == IF second # Null THEN second ELSE a + f.size1
           fits == ~FirstOverflowed(a + f.size1)
       IN  IF fits /\ a + f.size1 + f.size2 > RomEnd
             THEN Fail("no room")
             ELSE IF fits /\ b + f.size2 > RomEnd
             THEN Fail("crashed")
             ELSE /\ main' = IF second # Null THEN a + f.size1 ELSE a + f.size1 + f.size2
                  /\ second' = IF second # Null THEN second + f.size2 ELSE Null
                  /\ IF fits
                       THEN /\ placed' = placed \cup
                                 {p \in {Piece("file", current, 1, a, a + f.size1),
                                         Piece("file", current, 2, b, b + f.size2)} : p.lo < p.hi}
                            /\ entry' = [entry EXCEPT ![current] = a]
                       ELSE UNCHANGED <<placed, entry>>
                  /\ GoToNext

(* The loop is over; the exception table of an image that is not paged     *)
(* comes after the files.                                                  *)
EndLayout ==
    /\ pc = "layout"
    /\ current = Null
    /\ main' = romaddr + Aligned(main - romaddr, RomAlign)
    /\ pc' = IF rom.paged THEN "size" ELSE "exceptions last"
    /\ UNCHANGED <<rom, line, outcome, obeyVars, listVars, romaddr, second, current,
                   fileCount, placed, directory, entry, endVars>>

-----------------------------------------------------------------------------
(* The rest of LoadContents, and SetupPages for a core image.              *)

RoundUp(offset) == Aligned(offset, PageSize)

SizeUsed ==
    /\ pc = "size"
    /\ iSizeUsed' = main - Base
    /\ pc' = IF rom.extension THEN "done" ELSE "pages"
    /\ outcome' = IF rom.extension THEN "built" ELSE outcome
    /\ UNCHANGED <<rom, line, obeyVars, listVars, layoutVars, pageable>>

(* The first paged file is taken by its directory entry, which a hidden or *)
(* patched file does not have, and which is 0 for one of no bytes.         *)
SetupPages ==
    /\ pc = "pages"
    /\ IF iFirstPagedCode = Null
         THEN /\ pageable' = [start |-> iSizeUsed, size |-> 0]
              /\ outcome' = "built"
         ELSE IF ~files[iFirstPagedCode].listed
         THEN /\ outcome' = "crashed"
              /\ UNCHANGED pageable
         ELSE LET start == RoundUp(Wrap(entry[iFirstPagedCode] + Limit - Base))
              IN  /\ pageable' = [start |-> start,
                                  size |-> IF iSizeUsed > start THEN iSizeUsed - start ELSE 0]
                  /\ outcome' = "built"
    /\ pc' = "done"
    /\ UNCHANGED <<rom, line, obeyVars, listVars, layoutVars, iSizeUsed>>

Next ==
    \/ ParseAreaKeyword
    \/ CreateDefaultArea
    \/ SkipLine
    \/ ParseSection
    \/ ProcessFile
    \/ EndObey
    \/ SortFilesForPagedRom
    \/ ReserveRomExceptionSearchTable
    \/ WriteDirectory
    \/ AllocateRelocationTable
    \/ NextRom
    \/ LayoutData
    \/ LayoutExecutable
    \/ EndLayout
    \/ SizeUsed
    \/ SetupPages

Spec == Init /\ [][Next]_vars

-----------------------------------------------------------------------------
(* The images that the last two properties below are about.                *)

(* An HCR file before the section line, which ParseSection does not count. *)
HcrUncounted(lines) ==
    \E i, j \in 1 .. Len(lines) :
      i < j /\ lines[i].keyword = "hcr" /\ lines[j].keyword = "section"

(* A section line after the last file, to which LayoutRom does not come.   *)
SectionLast(lines) == lines # <<>> /\ lines[Len(lines)].keyword = "section"

HasSection(lines) == \E i \in 1 .. Len(lines) : lines[i].keyword = "section"

(* LayoutRom comes to every file, and to the second section.  It does not  *)
(* for a paged extension ROM: no core executable can be in one, so that    *)
(* the lists of SortFilesForPagedRom stay unjoined.                        *)
Reached(r) == IF r.extension THEN ~r.paged ELSE ~SectionLast(r.lines)

(* It comes to the second section at the line that asks for it: the files  *)
(* of a paged ROM are sorted after the section line was counted to.        *)
Foreseen(r) ==
    /\ Reached(r)
    /\ r.extension \/ ~(HcrUncounted(r.lines) \/ (r.paged /\ HasSection(r.lines)))

-----------------------------------------------------------------------------
(* Properties.                                                             *)

TypeOK ==
    /\ rom \in Rom
    /\ line \in Nat
    /\ pc \in {"areas", "obey", "sort", "exceptions", "directory", "relocations",
               "layout", "exceptions last", "size", "pages", "done"}
    /\ outcome \in {"building", "built", "refused", "no room", "crashed",
                    "first section overflowed", "directory overwritten"}
    /\ iAreaSet \in AreaSet
    /\ files \in Seq(Line)
    /\ iRomSectionNumber \in [1 .. Len(files) -> {0, 1}]
    /\ iSectionStart \in Nat
    /\ iSectionPosition \in Nat \cup {NotSectioned}
    /\ iFiles \in 0 .. Len(files)
    /\ iNextInArea \in [1 .. Len(files) -> 0 .. Len(files)]
    /\ iFirstPagedCode \in 0 .. Len(files)
    /\ romaddr \in Nat
    /\ main \in Nat
    /\ second \in Nat
    /\ current \in 0 .. Len(files)
    /\ fileCount \in Nat
    /\ \A p \in placed : p.of \in 0 .. Len(files)
    /\ entry \in [1 .. Len(files) -> Nat]
    /\ iSizeUsed \in Nat
    /\ pageable \in [start : Nat, size : Nat]

(* "Areas must have unique name, not overlap one another and not overflow  *)
(* the 32-bit address range" (r_areaset.cpp:143).  The tests of AddArea, on *)
(* the ends of ranges and in wrapping words, keep the areas of the list    *)
(* apart at all times.  The default area need not be apart from them while *)
(* area lines are read; once CreateDefaultArea has let the image through,  *)
(* it is, and it is the area of the whole ROM, whatever the lines say.     *)
AreasApart ==
    LET list == iAreaSet.iNonDefaultAreas
    IN  /\ \A i \in 1 .. Len(list) :
             /\ ~Overflows(list[i])
             /\ \A j \in 1 .. Len(list) \ {i} : AreApart(list[i], list[j])
        /\ (pc # "areas" /\ outcome # "refused") =>
             /\ iAreaSet.iDefaultArea = TheDefaultArea
             /\ ~Overflows(TheDefaultArea)
             /\ \A i \in 1 .. Len(list) : AreApart(list[i], TheDefaultArea)

(* Nothing in a built image is written over: head, tables, directory, and  *)
(* both parts of every file have places of their own, all inside the bytes *)
(* that the image reports as used.  It speaks of images whose second       *)
(* section was come to: a section line may be the last of the file.        *)
RangesApart ==
    (outcome = "built" /\ second = Null) =>
      \A p \in placed :
        /\ Base <= p.lo
        /\ p.hi <= Base + iSizeUsed
        /\ \A q \in placed \ {p} : p.hi <= q.lo \/ q.hi <= p.lo

(* "Iterate over every file in a given area" (r_areaset.h:188): a built    *)
(* image holds every file that was asked for, and the directory entry of a *)
(* listed file gives the address of its bytes.                             *)
FilesAllPlaced ==
    outcome = "built" =>
      \A i \in 1 .. Len(files) :
        files[i].size1 > 0 =>
          \E p \in placed :
            /\ p.what = "file" /\ p.of = i /\ p.part = 1
            /\ p.hi = p.lo + files[i].size1
            /\ p.hi <= RomEnd
            /\ files[i].listed => entry[i] = p.lo

(* The directory in the second section is where the first section's  *)
(* tables end, as forecast; the files before the section line are below    *)
(* iSectionStart and those after it are above the directory.               *)
SectionsKept ==
    /\ outcome # "directory overwritten"
    /\ (outcome = "built" /\ iSectionPosition # NotSectioned) =>
         \A p \in placed :
           (p.what = "file" /\ p.part = 1) =>
             IF iRomSectionNumber[p.of] = 0
               THEN p.hi <= iSectionStart
               ELSE p.lo >= directory + DirectorySize

MustStay(f) == f.keyword \in {"core", "hcr"} \/ f.unpaged

(* Nothing that must stay in memory (the tables, core executables, files   *)
(* marked unpaged) is in the part of the image that is paged.              *)
UnpagedFirst ==
    (outcome = "built" /\ rom.paged /\ ~rom.extension) =>
      \A p \in placed :
        (p.what = "file" => MustStay(files[p.of])) => p.hi <= Base + pageable.start

(* Every file is in the part of the image that its line asks for.          *)
PartsKept == SectionsKept /\ UnpagedFirst
=============================================================================
