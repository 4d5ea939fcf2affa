# TLA+ models of the Symbian build tools

This directory models the concurrent and failure-prone parts of this repository:
`rofsbuild` and `rombuild`, which make the ROM images of a phone, `talon`, the shell
that raptor's makefiles give to make, and the build server, which shares the commands
of a build out among client machines.  Each module is translated from
the C and C++ sources; `PROJECT.json` maps every definition to its lines.

- `<Component>.tla` — a component: state, actions, specification, properties.
- `MC_<Component>.tla` and the `.cfg` files — small instances for TLC.
- `<Component>_proofs.tla` — theorems checked by TLAPS.

To check: `tlc -config RofsPlacement2.cfg MC_RofsPlacement`, `tlapm Talon_proofs.tla`.

## 1. The system

The repository holds the build tools of Symbian OS.  A build runs in four stages:

1. **raptor** (`sbsv2/raptor`, Python) reads metadata, writes makefiles and runs
   make, whose `SHELL` is **talon** (C).  The older builders (`sbsv1`) write
   makefiles for make directly.
2. the recipes run compilers and the repository's own **converters**
   (`elf2e32`, `rcomp`, `bintools`).
3. **buildrom** and **imaker** (Perl) prepare an obey file.
4. **rombuild** (XIP ROM) and **rofsbuild** (file system images, built on
   `imgtools/imglib`) make images of it, and **imgcheck** and **readimage** read
   them back.

Around them are release tools (`releasing/cbrtools`, `makecbr`), text tools and the
deprecated **build server**.  `PROJECT.json` lists all of them, with the reason for
each that is not modelled.  Nearly everything is a sequential filter: one input, one
pass, one output.  The behaviour that tests hardly reach is in the parts below.

| Component | State it keeps | Operations | What is hard | What makes it correct |
|---|---|---|---|---|
| ROFS placement, `rofsbuild/r_rofs.cpp` | node list and `iLastNode`, `iVPS`, the alias queue, `iWorkerArrived`, offsets of nodes and entries | `PlaceFiles`, `Worker::thrd_func`, `GetFileNode`, `ArriveDeferPoint`, `GetDeferredJob`, `PlaceFile` | threads share the tree; aliases must wait for their files; a polling barrier | the image does not depend on the schedule; no worker waits for ever |
| Symbol generator, `imglib/symbolutil/symbolgenerator.cpp` | the singleton, `iFinished`, the queue, the open symbol file | `GetInstance`, `SetImageType`, `SetSymbolFileName`, `AddEntry`, `SetFinished`, `Release`, workers | condition variable, unlocked reads, a singleton that outlives its image | every entry is written once, to its image's file; the threads end |
| `.bsym` pages, same file | page table, a static counter | `FlushSymbolFileContent`, `PageCompressWorker` | threads share a counter; pages are packed in place | the file is its packed pages |
| ROM pages, `rombuild/r_rom.cpp` | image, `SRomPageInfo` table, `m_nextpage` | `CompressPages`, `CompressPageWorker` | as above, and short or unpaged ROMs | `CoreRomImageReader` gets the pages back |
| Executable cache, `rofsbuild/src/cache` | `.rofsmeta`, cached files, `entrymap`, the list for the generator | `Validate`, `Invalidate`, `CloseCache`, `CleanCache`, generator thread | a second thread, two files on disk that must agree, crashes, stale times | what is taken from the cache is what would have been rendered |
| Areas and layout of a ROM, `rombuild/r_areaset.cpp`, `r_obey.cpp`, `r_rom.cpp` | area set, lists of files and their links, the section's start and position, the addresses the walk has come to, directory entries | `AddArea`, `ParseSection`, `ProcessFile`, `SortFilesForPagedRom`, `WriteDirectory`, `LayoutRom`, `LayoutFile`, `NextRom`, `SetupPages` | sums that wrap, a directory placed by forecast, lists relinked in place, ignored errors | every file has a place of its own in the part it belongs to, and its entry gives it |
| Build server and clients, `deprecated/buildtools/buildsystemtools` | the command queue and the stage, the waiting list, each client's state, sockets | `rcvd_msg_from_client`, `AddReady`, `result_iteration`, `rcvd_msg_from_server`, `Connect` | clients that come, leave, time out, are killed; names that are not unique; two stages must not overlap | the server does what a staged build promises, and every build ends |
| Talon, `sbsv2/raptor/util/talon` | the attempt, its buffer, child and pipes; the semaphore and log it shares | `process_run`, `sema_wait`, `sema_release`, the retry loop of `main` | poll, signals, timeouts, retries, a lock that may lapse | the log and the exit code tell what happened; outputs stay apart |

How they interact: `PlaceFiles` runs its workers, and each worker calls the
cache (through `PlaceFile`) and the symbol generator (`AddEntry`).  `main` of
`rofsbuild` creates the cache manager and both images; `WriteImage` releases the
generator.  `rombuild` does the same with the generator from `LayoutRom` and
`~E32Rom`.  Within one build these meet only at the calls that the modules have as
actions, so each is modelled alone with its callers as environment: the adders
of `SymbolGenerator` are the placement workers, and the workers of `RofsCache` are
the same threads seen from inside `PlaceFile`.  Talons meet one another only in
the semaphore and the log.  `RomLayout` ends where `RomPages` begins: the used size and
the start of the paged part are its result and the other's input.

## 2. Modules and the code

### RofsTree, RofsLayout, RofsPlacement

`RofsTree` is the input: a flat node list, with the entry each node refers to.  An
entry is named by the node it was created with, so an alias is a node whose
entry is an earlier node.  `WellFormed` is what `CObeyFile` can leave behind.

`RofsLayout` is the abstract specification: no thread at all, the visible files
get addresses in list order, later names share the address of the first, and a
number is returned.

`RofsPlacement` is the code.  `GetFileNode` (one call under `iMuxTree`),
`PlaceFileTest` and `PlaceFileRead` (`TRomNode::PlaceFile`, split because nothing
locks the entry between the test of `iFileOffset` and its assignment), `AddSymbol`,
`ArriveDeferPoint` and `GetDeferredJob` (its poll is the guard) are the workers;
`JoinAll`, `LayoutSection` and `LayoutReturns` are the main thread.
`LayoutCrashes` is what C++ leaves undefined: a negative length given to `memcpy`,
or a section whose `iFileStartOffset` is no pointer.
The refinement is `SerialLayout == Serial!Spec`, where `cursor` is the node of the last
section laid out and `addr` the offsets of the nodes up to it.

### SymbolGenerator

The main thread builds the images of an obey file in order; `Releases` and `GoesOn`
say when `rofsbuild` and `rombuild` release the singleton and go on.  `AddEntry`
pushes under `iMutex`, `NotifyEntry` notifies after it; in `rofsbuild`
`gThreadNum` threads may be between the two (`Adders`).  A worker's
`GetNextPlacedEntry` is `Lock`, `Take` and `Wait`; `Loop` is the unlocked test of
`HasFinished() && IsEmpty()`.  `iImageType` is not initialised by the constructor,
so `ChooseUnit` picks either unit while it is garbage.

### BsymPages, RomPages

Both model compression in place by threads that draw page numbers from a shared
counter, then the packing loop.  A byte is `<<page, form, index>>`, so that one
that was overwritten or moved wrongly shows.  The size each page packs to is
input; how `BytePairCompress` finds it is left out.  `RomPages` reads the image
back as `CoreRomImageReader::ProcessImage` does.  In `BsymPages` a process
flushes several files and the counter is a static that nothing resets.

### RomAreas, RomLayout

`RomAreas` is the area set: `CanAdd` is what `AddArea` tests, with the sums of 32-bit words that
wrap (`Limit`).  As in the code the default area has a pointer of its own and the others are in a
list, and the loop over them (`Compared`) comes to the default area from the last of the list only: when
there is no other area it is compared with nothing.  A line may name the default area
(`KDefaultAreaName`), since a quoted word may hold the space in "DEFAULT AREA".
An extension ROM complains of area lines and goes on without them (`SkipLine`).  `RomLayout` is one image of `rombuild` from the obey file on: the first pass
(`ParseAreaKeyword`, `CreateDefaultArea`), the second (`ParseSection`, `ProcessFile`,
`SkipLine` for what an extension ROM does not support), then `LoadContents` as one action for
each of its calls, with `LayoutRom` as one action for each file.  A ROM that is not paged has its
exception table after the files, a paged one before them.  Data and tables are reduced to their sizes
in words of four bytes; "core" stands for primary, variant, extension and device files.  What
is written is a set of pieces with their addresses, so that two in one place show.  The
attribute `area=` is parsed and forgotten by the code, so that no file is ever in an area of
its own (`release.txt:1384` says it relocates them), and the loop over those areas places nothing.
Every executable has one entry in the exception table, whatever its own table holds, and a listed
file one word in the directory: both are abstractions of data.  `Reached` and `Foreseen` name the images that the last two properties are about:
`LayoutRom` comes to every file, and to the second section at the line that asks for it.

### StagedBuild, BuildServer

`StagedBuild` is the abstract specification: commands in stages, given out in order,
a stage begun when all of the one before is done, each command giving its results once, and a
server that ends of its own only when nothing is under way.  It has no client, no socket and no
environment; that a client gets the environment before its first command is a property of
`BuildServer` (`EnvironmentFirst`).  `BuildServer` is `BuildServer.pm`, `BuildClient.pm` and the loop of `Msg.pm`.
The server's step is one message (`Receive`, with `Ready`, `EnvReady`, `ResultsIn`, each with the
`AddReady` it calls) or the loss of a connection (`Lost`); a client's steps are `Connect`, `ReadMsg`
for each kind of message, `Execute` and `Finish`, `Timeout` of 300 s and `Unplug`.  A client may
be killed (`Crash`).  A connection carries a queue of messages each way.  The module abstracts: the
alphabetical preference among waiting clients is any order; versions of server and
client are equal; a write to a dead connection succeeds and is lost.

### RofsCache

Several builds in a row.  A build starts with `StartBuild` (`Cache::Initialize`),
its workers go through `OpenFile`, `Validate`, then `ReadCached` and `CopyCached`,
or `Render`, `AddEntry` and `AddCacheable` (`CacheManager::Invalidate`); the
generator thread is `GetCacheable`, `OpenCached`, `WriteCached`; `~CacheManager` is
`AddTerminator`, `TruncateMeta`, `SaveMeta`, `Join`.  `Crash` ends the process,
`Edit` changes an executable on the host, `CleanCache` is `-cleancache`.
`Faults` names what may go wrong in an instance.

### Talon

`Fork`, `PollReads`, `PollTimesOut`, `PollInterrupted`, `Kill` and `WaitPid` are
`process_run`; `Tag`, `SemaWait`, `Write` and `Release` are the body of the loop in
`main`, buffers included (`buffer.c`: a new block when a read would not fit).  The
recipe's shell is an environment process that follows a script.  Output is
counted in pieces, one piece for what `read` takes at once (1024 bytes).  `poll` is
one look at both pipes.  `SemaWait` ignores its result as the code does, and
`lapsed` (a history variable) remembers that a talon went on without the semaphore.

## 3. Model checking

TLC checks deadlock only for Talon (which has `Done`); the other programs end, and
their cfgs say `CHECK_DEADLOCK FALSE`; their liveness property says that they end where
they should.  No symmetry is used, because most runs check liveness.

| Run | Instance | What it shows |
|---|---|---|
| `placement` | 2 workers; every list of 3 nodes of 7 kinds (directory, file, hidden file, hidden entry, alias of 1 or 2, hidden alias); image ends 0, 4, 6, 8 and 40 bytes after the base | the order of `iVPS`, the barrier, single reads, symbols, the refinement of the serial layout, and termination |
| `symbols` | 2 workers; images of at most 2 files, a core image and at most one extension, each way `Create` may end, both tools, text and `.bsym` | no lost wakeup, each entry in one place, complete symbol files, termination |
| `bsym_pages` | 3 threads; pages of 3 bytes, data of 2, 6, 8 and 11 bytes, pages that pack to 1, 2 or 4 bytes; processes with two files | no page twice, the first file packed, termination |
| `rom_pages` | 3 threads; 3-byte pages, 7, 9 and 11 bytes used, every start of the paged part | no page twice, the reader gets the pages back, unpaged ROMs left as they are, termination |
| `cache` | 2 workers, 2 files, 2 methods on the host, one `-compressionmethod`; 3 builds or cleans, 1 edit, crashes while files are placed | placed as opened, the cache is sound between builds, nothing rendered in vain, termination |
| `rom_layout` | core and extension ROMs, paged and not; up to 4 lines of 7 kinds of file, one core executable among them; sizes 36 and 60 words; a section at 12 or 20; 14 lists of areas up to the end of the address range, 6 of which name the default area | areas apart, pieces apart and inside the used size, every file placed and its entry right, sections and the unpaged part kept |
| `build_server` | 2 clients with one name or two, 2 connections each, 1 crash, 1 environment variable, 6 command files, exit on error never or at the first | implements `StagedBuild`, results under their stage, environment first, builds end, clients come back |
| `talon` | 2 talons, 1 retry, 2 pieces to a block and 1 to a pipe; recipes that are right, hang, redirect stdout, fail, leave a process behind; the semaphore may not exist | outputs apart until a wait lapses, the log has one group for each attempt, make is told what the log says, every talon ends |

Each bound is the smallest at which the case of interest arises.  Two
workers suffice for every race of `placement` and `symbols` because each conflict is
between two accesses; a list of three nodes has a file, an alias of it and
something between or after them.  Files of 3, 4 and 0 bytes and the five ends of an
image leave no room at all, fit one file exactly, cut the second, are full after the second, and
fit everything.  Four pages and
three threads give a page that is moved over the place of one already moved.  Three
builds are one that fills the cache, one that may be broken off, one that uses
it.  Four lines give a core executable with files on both sides
and three lists to sort; the sizes are one at which a section overflows or a file does not fit,
and one at which everything does; the words of `RomLayout` are counted so that an area
can end at, before and past the last address.  Two clients with one name are what
makes the server rename one, and two connections each are what a timeout leads to.  A block of
two pieces makes `buffer.c` chain blocks; a pipe of one piece makes
the shell sleep.

What each passing property says is in the comment above it.  Every one is paired in
`PROJECT.json` with a mutation of the code (an operator marked `Mutation` in the module)
that violates it.

### Disagreements with what the sources say

Four runs end in a violation.  Each is a line of the repository that the
code contradicts.

- `placement_orphan` — `r_rofs.cpp:306` promises "same outputs regardless of how many
  threads".  When a file is hidden after it was aliased twice, no worker places it before
  the defer point, and its aliases race: the image depends on the schedule, and a
  section may dereference a null pointer.
- `cache_method` — `cachevalidator.cpp:57` says that the compression method is
  compared; the code compares the one of the host file, so that a build with
  another `-compressionmethod` takes bodies compressed in the old way.
- `talon_output` — the poll loop stops at the hang-up after one read of each
  pipe, so a recipe with more to read is reported ok without the rest
  (`talon_test.py:68` expects its output).
- `build_names` — `BuildClient.pm:88` says that after a change of name "the two are in sync".  A
  client that waits for 300 seconds connects again and leaves its old connection open; what it
  then does for that one it reports under the new name, and the stage waits for the old one
  for ever.

### What the passing runs leave out on purpose

These inputs are possible, the modules have them, and a property fails on them.  The
runs exclude them by a named definition, or let them end as the code does where the property
says nothing; `hazards` lists the hazards among them, with a note where no property covers one.

- An image that is exactly full: `PlaceFiles` returns 0, which `Create` takes for
  success (`r_rofs.cpp:384`).  No property speaks of it.
- Nodes whose override is rejected (`bad`): `memcpy` gets a negative length
  (`r_rofs.cpp:391`), and `main` is `crashed`.  `MCObeys` has none.
- Several visible aliases of a hidden file: `OrphansAlone`.
- A failed core image followed by an extension: with text symbols the extension
  uses the core image's generator (`rofsbuild.cpp:647`), which has finished if the core
  image failed after placing.  In `MCBuilds` an image may fail when
  it is the only one or the last one.
- The process unit chosen before `SetImageType` (`symbolgenerator.cpp:312`) and
  the uninitialised `iExecutable` of data files in `rombuild` (`r_rom.cpp:1440`): the model
  has both choices, and no property of the records' contents is stated because none holds.
- A last `.bsym` page shorter than a page that does not compress gets a whole page's size
  (`symbolgenerator.cpp:385`): `LastFits`.
- `rombuild` with an extension: it keeps the core image's generator, already finished, for
  the extension, whose symbols are lost (`r_rom.cpp:1313`, `MCRomExtension`).
- A second `.bsym` file of one process: the page counter is a static that nothing resets, so its
  pages stay uncompressed although its header says otherwise (`symbolgenerator.cpp:355`).
- `-cleancache` on a `.rofsmeta` whose last line a crash has cut off: it reads the file
  first, and fails.
- A paged extension ROM (`gPagedRom` is a global that the core image's obey file sets):
  `SortFilesForPagedRom` finds no core file, reports an error that
  `LoadContents` ignores, and leaves the lists unjoined; a normal, an unpaged and a normal file
  make an image without the second (`r_areaset.cpp:301`, `MCPagedExtensions`: `FilesAllPlaced` fails).
- An area line that names the default area, with no other area before it (`r_areaset.cpp:171`).  The comment at
  `r_areaset.cpp:143` asks that areas have unique names and do not overlap.  After
  `area "DEFAULT AREA" 0x1000 0x1000` the first other area is compared with nothing and may overlap
  it; the build ends later for another reason, when `CreateDefaultArea` finds the name twice.  With
  that line alone `CreateDefaultArea` replaces the default area and counts it again (`iAreaCount` is 2, where
  `r_rom.cpp:2490` expects one more than the other areas), and the image is built with a relocation
  table it does not need.  Both are in the run: `AreasApart` holds the list apart at
  all times, and the default area only once the image is let through.
- A first paged file that is hidden (`SetupPages` dereferences null) or of no bytes (nothing is
  pageable): `r_rom.cpp:582`.  Both are in the run, and end it as `crashed` or with an empty part.
- A section line after which no file comes: the walk never reaches it, an overflow of the first
  section is not noticed and the directory lies outside the used size.  `SectionLast`; `RangesApart`
  asks for `second = Null`.  An HCR file before the section line, which `ParseSection` does
  not count: `HcrUncounted`.  A paged ROM with a section, whose files are counted in another order.
- The room for the exception table is tested at four times its size (`r_rom.cpp:1590` adds bytes to a
  pointer to words), and the directory is written with no test at all: the model has both.
- An area that ends at the last address is refused, because the sum wraps to 0; the model does so.
- Stage numbers that are equal as numbers and not as texts ("1" and "01") keep everyone
  waiting: `StagesDiffer`.
- A ROM whose pages do not shrink enough: `memset` gets a negative length
  (`r_rom.cpp:644`): `Shrinks`.
- The faults `crash while closing`, `edit while building` and `cannot write`, and two nodes of one
  host file: each violates `PlacedAsOpened`.  Extension images use cache singletons that were
  deleted (`rofsbuild.cpp:655`), after which nothing can be said.
- Shells that close stdout and hang, or ignore SIGTERM: `waitpid` has no timeout
  (`process.c:172`), and `TalonsEnd` fails.
- A talon whose semaphore does not exist crashes when it posts (`sema.c:128`); `TalonsEnd` counts that
  as its end.  A poll that a signal interrupts loses the attempt's output (`process.c:123`);
  `LogTellsAttempts` allows it.  After a wait that lapses outputs do mix (`sema.c:111`): `Unscrambled`
  speaks of the time before.  All three are in the run.

## 4. Fairness

Threads are assumed to run when they can (weak fairness of the main
thread, of each worker and of the generator), which a preemptive scheduler gives.  A
mutex that is free again and again is given in the end to each thread that asks
(strong fairness of the lock steps in `SymbolGenerator`): without it a worker could take
and drop `iMutex` for ever while another starves.  The polling loop of
`GetDeferredJob` needs weak fairness only, because the count never falls.

Nobody has to start a build, edit a file or crash; `RofsCache` assumes nothing of these.
In `BuildServer` the server and each step of a client are weakly fair: a loop over `select`
comes to every message in the end.  A crash and a timeout need not happen, and the
messages of the server are assumed to be handled within the timeout once they are sent
(`BuildEnds` names the exception).  `RomLayout` has one thread and states no liveness.
In `Talon` each talon and each shell runs on; a process left behind
(`BackgroundEnds`) need not end, so a talon must get by with its timeout.

## 5. Proofs

The theorems hold for every value of the constants that the named assumptions allow:
any finite set of workers, any node list, build or script.  Each goes by an
inductive invariant; the leaves follow from named steps.

| Theorem | Statement | Inductive invariant |
|---|---|---|
| `RofsPlacement_proofs!TypeCorrect` | `Spec => []TypeOK` | `TypeStrong`, and `ArrivedCount`: `iWorkerArrived` is the number of workers past the barrier, without which its bound is not inductive |
| `RofsPlacement_proofs!ListOrder` | `Spec => []VpsFollowsList` | itself with the types: `iLastNode` is one past the last node handed out |
| `RofsPlacement_proofs!DeferPoint` | `Spec => []AliasesWaitForFiles` | `DeferInv`: every file that is no alias is still to be handed out, marked, or held by a worker that has not arrived; a worker arrives only when the list is exhausted, and passes only when all have |
| `RofsPlacement_proofs!OneReader` | `Spec => [](OrphansAlone(obey) => ReadsOnce)` | `NodesApart`: a node is handed out once, put aside once and in one worker's hand; `ReadingUnmarked`: the entry of a file in a reader's hand has no `Placed` mark; `ReadersApart`: before the defer point each file is its own entry, after it an alias is read only where its file has no visible name |
| `RofsPlacement_proofs!SymbolsComplete` | `Spec => []SymbolsOnceEach` | `SymbolsFollow`: the generator has, each once, the files that are no alias, not hidden and handed out, less those whose worker has not come to `AddFile` |
| `RofsPlacement_proofs!SameOutput` | `Spec => SerialLayout` when `OrphansAlone` holds of every node list | `Inv`: while the workers run every node is `Pending` and `Untouched`, or is as `PlaceFile` leaves it (`PlacedAs`); while the main thread lays out, the sections up to `LastLaid` have addresses and the others are still as the workers left them (`LayoutInv`) |
| `BsymPages_proofs!PagesClaimedOnce` | `Spec => []CompressedOnce` | `ClaimInv`: pages in work are distinct and below `currentPage`, and every page in work or not yet claimed is raw; `PagesInOrder` shows that pages do not overlap in the buffer |
| `BsymPages_proofs!FirstFile` | `Spec => [](LastFits(run[1]) => FirstFilePacked)` | `PagesInv` as in `RomPages`, until the first file is written: until then the counter has started from 0, so that every page is claimed; `FilesInv`: the files that come after leave the first one alone |
| `RofsCache_proofs!TypeCorrect` | `Spec => []TypeOK`, whatever the faults | `TypeStrong`: what is found by name is on the heap, who reads has found an entry, and a rendered entry has its buffer |
| `RofsCache_proofs!PlacedRight`, `CacheSound`, `RendersChanged` | `Spec => []PlacedAsOpened`, `[]CacheIsSound`, `[]RendersChangedOnly`, when no executable is placed twice, all builds have one option, and nothing goes wrong but `crash while placing` | `CacheInv`: an entry or line of the time the file has names a cached file that is whole (`Backed`); what was rendered is of files the cache did not know as they are (`RenderedInv`), and is with its worker, in the list, with the generator, or written (`HandedOn`) |
| `SymbolGenerator_proofs!TypeCorrect` | `Spec => []TypeOK` | `TypeStrong` |
| `SymbolGenerator_proofs!WakeupsReach` | `Spec => []NoLostWakeup` | `WakeInv`: who is between the test and the wait holds `iMutex`, and what the test found still holds while it does |
| `SymbolGenerator_proofs!OnePlace` | `Spec => []EntriesInOnePlace` | `PlacesInv`: what is at a place was handed over, of this image or an earlier one, so that a new entry has a new name; every step takes the places there are after it one-to-one to places before it (`Moved`) |
| `SymbolGenerator_proofs!NoSymbolsLost` | `Spec => [](OneImageEach => SymbolFileComplete)` | `LossInv`: every name that was handed over is on its way (queue, worker, kept) or in its own image's file; what is on its way is of the image whose file is open; a generator ends with nothing on its way, and a worker leaves only on the finished flag and an empty queue |
| `RomPages_proofs!PagesClaimedOnce` | `Spec => []CompressedOnce` | `ClaimInv`: pages in work are distinct and below `m_nextpage`, and until the threads are joined no page from `m_nextpage` on has an entry |
| `RomPages_proofs!TypeCorrect` | `Spec => []TypeOK` | `TypeInv`: the counter is at most the pages plus the threads that have left, since each thread takes one number past the last page before it leaves |
| `RomPages_proofs!PagesReadBack` | `Spec => []ImageReadsBack` | `PagesInv`: while the threads run a paged page is raw, or stored as its entry says in the place where it was laid out; while the pages are moved each lies at or below that place, behind the one before it, without a gap up to `pi`, so that a page that is moved down reaches none that is still to be moved |
| `RomLayout_proofs!AreasApartAlways` | `Spec => []AreasApart` | `AreasInv`: each area of the list was compared with those before it (`SetKept`), also when the default area was not; once `CreateDefaultArea` lets the image through, the default area is the whole ROM's and was compared with the list (`DefaultKept`); `AreasDisjoint` shows that the tests on ends, in words that do not wrap, find every overlap |
| `RomLayout_proofs!TypeCorrect` | `Spec => []TypeOK` | `TypeStrong`, with `Order`: the walk is not below its start, and the second range not below the section |
| `RomLayout_proofs!NothingOverwritten` | `Spec => []RangesApart` | `PiecesInv`: one stack of pieces, or, until the walk comes to the section, three: the first section's, the tables in the second, and the directory; `NextRom` joins them, and its test that the tables end at the directory is what makes the join sound |
| `RomLayout_proofs!NoFileLost` | `Spec => []FilesAllPlaced` if every image is `Reached` | `FilesInv`: once the lists are `Joined` the links lead through every file once; the files that the walk has come to (`Walked`) are whole where their entries say (`Done`) |
| `RomLayout_proofs!EveryFileInItsPart` | `Spec => []PartsKept` if every image is `Foreseen` | `SectionsInv`: the second range begins where the tables of the files walked so far were forecast to end (`second = Forecast(fileCount)`), so that `NextRom` finds it at the directory; the recursive sum `FirstSectionTables` follows the walk (`TablesAre`, by induction along the list); `PagedInv`: what must stay unpaged ends below the first byte of the first paged file (`Parts`) |
| `RomLayout_proofs!SectionReached` | `Spec => [](outcome = "built" => second = Null)` if every image is `Reached` | `FilesInv`: so the condition on `second` in `RangesApart` excludes nothing there |
| `RomLayout_proofs!WalkEnds` | `Spec => [](fileCount <= Len(files))` | `WalkInv`: the links lead through all files, or each leads to a later file; so the walk does not go round even where `SortFilesForPagedRom` leaves the lists unjoined |
| `BuildServer_proofs!TypeCorrect` | `Spec => []TypeOK` | `TypeStrong`: what a queue of a connection may hold, message by message |
| `BuildServer_proofs!EnvironmentComesFirst` | `Spec => []EnvironmentFirst` | `ProtoInv`: a name the server knows has a connection of its own, which its first message opened (`HandlesInv`, `ConnInv`); `ShakeInv`: while there is an environment each client has one connection only, and its next variable is on its way, confirmed, or it has been ready (`Shake`); `EnvInv`: who has been ready has them all, and commands go to no other |
| `BuildServer_proofs!ResultsUnderTheirStage` | `Spec => []ResultsUnderStage` | `CommandInv`: a command given out and not logged is at one place at most, a queue or a client (`FlightInv`); there are no more of them than names that count as busy (`BusyInv`), so that when every name waits none is under way; all are of the stage at work (`StageInv`), which is the stage that is open in the log (`LogWell`) |
| `BuildServer_proofs!BuildIsStaged` | `Spec => ImplementsStagedBuild` | `CommandInv` |
| `RofsPlacement_proofs!NobodyStuck` | while a worker has not left, one can go on | `ArrivedCount`: when all who have not left poll at the defer point, all have arrived |
| `RofsPlacement_proofs!WorkShrinks` | each step of a worker lowers `Left(w)`, a natural number | `TypeStrong` |
| `SymbolGenerator_proofs!NobodyStuck` | until `main` returns, some thread can go on | `StuckInv` and `WakeInv`: `iMutex` is held by a worker about to drop it; while the generator's thread runs the singleton is there; who joins it has called `SetFinished` (`Told`), in rombuild possibly for the core image |
| `RofsCache_proofs!QueueDrained`, `NobodyStuck` | the generator ends with an empty list; until a build is over one of its threads can go on; both whatever the faults | `TerminatorLast`: from the end of the build on the terminator is the last of the list, until the generator takes it |
| `Talon_proofs!TypeCorrect` | `Spec => []TypeOK` | `Shape`: attempts and retries add up, so that there is at most one attempt more than the retries; the buffer has a block while a talon works on it, and only its own attempt's pieces |
| `Talon_proofs!Apart` | `Spec => []Unscrambled` | `ApartInv`: until a wait lapses one talon at most is writing and the semaphore is 0 meanwhile; nothing of another descrambling talon follows its attempt in the log; and no attempt is in the log before its talon writes it |
| `Talon_proofs!TellsAttempts` | `Spec => []LogTellsAttempts` | `TellsInv`: until an attempt writes, the last its talon has said is that the attempt before is tried again, and its buffer is the tag, what was read and the status (`Tagged`, `Rest`); while it writes, log and buffer are the two parts of one group; so each block carries on where the log stops (`CarriesOn`), with or without the semaphore |
| `Talon_proofs!ExitMatches` | `Spec => []ExitMatchesStatus` | `TellsInv` again: the status last written is the one by which `Release` returns or tries again |

The refinement of `RofsLayout` is proved step by step.  Its mapping hides the workers: the serial layout's
`addr` is `iFileStartOffset` of the sections up to `LastLaid` and 0 elsewhere, so that what
the workers write there (the marks of hidden files, the pointers of aliases) is a stutter, and each
section that `PlaceFiles` lays out, stops at or returns behind is a step.  `ReaderIsFirst` is the
heart of it: the node whose worker read the bytes is the first visible name of the file in the
list.  That is where `OrphansAlone` is needed, and without it the run `placement_orphan` finds
the refinement broken.

The refinement of `StagedBuild` maps a command to be logged when its results are in the log.
What the clients do and the messages of the handshake are stutters; the server's steps give a command
out, log one, or end the build.  The heart of it is `BusyInv`: the server never looks at the
commands under way, only at names.  A client that connects again or is renamed leaves a name behind that
counts as busy for ever (the run `build_names`), so busy names may be too many but are never too
few, and a stage may be late but is never early.  `EnvironmentComesFirst` rests on something the
code says nowhere: with an environment each client is answered at once, so none comes to the
timeout of 300 s and none has a second connection.

The theorems about the walk of `RomLayout` name what the code needs and does not test.  `Reached`
excludes a paged extension ROM and a section line after the last file, `Foreseen` also an HCR file
before the section line and a paged ROM with a section (section 3).
`MC_RomLayout` has TLC check that the images of its run are all `Foreseen`.

`NobodyStuck` (of three modules) and `WorkShrinks` are the part of termination that needs no fairness.
What a thread waits for is written out (`CanWork`, `MainCanGoOn`, ...), because `ENABLED` is out of
reach of the prover.  For `RofsPlacement` the two bound the steps of all workers: 4 for each node and 3 for
each worker.  The workers of `SymbolGenerator` have no such bound, since every `notify_all` wakes all of
them.

`OneImageEach` says of a build that no generator serves a second image after it was told that
it has finished: only the last image of rofsbuild may fail after it placed files, and
rombuild's extensions fail before that.  The finished flag is never reset, so that without it
the workers leave before the second image's entries come, as in the builds `MCRomExtension` of
`MC_SymbolGenerator` (section 3).

The cache's invariant says why a build that is broken off does no harm: the generator writes only
the cached files of what was rendered in this build, which no accepted line names, and
`.rofsmeta` is rewritten only when the last build's lines are of no use any more.  Each of
the three hypotheses is needed: the run `cache_method` drops the second, and section 3
says what happens without the others.

Every safety property, action property and refinement that a passing run checks is stated by a
theorem.  Assumptions on constants: the sets of threads, clients and nodes are finite, special
values differ from the others, and inputs are what the parsers can leave behind (`WellFormed`,
`IsBuild`, `BuildServerAssumption`, ...).  `RomLayout` assumes that a ROM is linked in the upper half of
the addresses (`2 * Base >= Limit`, 0x80000000 in the program): below it the signed offsets of
`SetupPages` would change sign, and nothing else needs it.

Lemmas about sequences (what `Append`, `Tail` and concatenation keep) are stated once
in each proof module.  Induction over data goes by the least element of a set of numbers
(`LeastNumber`, `FirstLeast`), from the library's theorem on well-founded orders.

Model-checked only, for the instances above: liveness under fairness (`BuildEnds` of four modules,
`FlushesEnd`, `PackingEnds`, `TalonsEnd`, `ClientsComeBack`), which TLAPS does not reach.

## 6. What is not modelled

Left out of the modelled components:

- `r_rofs.cpp`: directory blocks, headers and the sorting of names, which are byte layout.
- `symbolprocessunit.cpp`: how the lines of a map file become symbols.
- `r_rom.cpp` apart from layout, page compression and the symbol generator: what the bytes of a
  file are, dependences, relocation and imports; of `r_obey.cpp` the parsing of attributes.
- Build server: the parsing of the XML file, what commands print, the check of versions, and the
  tool that reads its logs.
- Talon: Windows (`process_win.c`), `chomp.c`, failures of `malloc` and `pipe`, the cause of
  death in a tag, and the write without descrambling of recipes that have no `|` header.  Only
  the shell is killed at a timeout; what its children then do to files is outside the
  program.  `memcpy` on overlapping ranges is taken to copy upwards, as it does where
  the tool is built.
- In all of them: logging and wording.

The components that are not modelled, with reasons, are in `PROJECT.json`.  In short:
sequential filters, compilers and makefile generators have no interleaving and little
state; third-party archives and generated code are not this repository's logic.

## 7. Plan

Done since the first plan: the build server, and the layout of `rombuild`.  What is left, the most
important first:

1. **Image lifecycle of rofsbuild** (`rofsbuild.cpp` main 488-716, `Create`,
   `CreateExtension`, `WriteImage`): a module over the images of a command line, the
   cache manager and the generator, refined by the parts above; what `main` returns against
   what was built.
2. **rombuild's loading** (`LoadImageWorker`, `r_rom.cpp` 46-119): threads share a queue;
   the order of files must not depend on it.
3. **Talon's semaphore over a build** (`raptor_make.py` `StartTalon`, `StopTalon`,
   `talonctl`): it returns 0 on failure, so that the loop for a unique name never tries
   again.  **Talon on Windows** (`process_win.c`): a reader thread and two semaphores.
4. **ForkManager** of makecbr, and the environment database of cbrtools.

Theorems to add: what `NobodyStuck` and `WorkShrinks` say, for `Talon`, the page compressors and, as
long as no client connects twice, for `BuildServer`.
