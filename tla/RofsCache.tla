------------------------------- MODULE RofsCache -------------------------------
(***************************************************************************)
(* The cache of rofsbuild (-cache, -cleancache): the executables a build   *)
(* has compressed anew are kept in EPOCROOT/epoc32/build/.cache, with one  *)
(* line for each in .rofsmeta, and later builds take them from there.      *)
(*                                                                         *)
(* In a build the placement workers look their file up (CacheValidator),   *)
(* or render it and hand it over (CacheManager::Invalidate) to the thread  *)
(* that writes the cached files (CacheGenerator, by way of CacheableList). *)
(* ~CacheManager ends the build: it queues an empty entry that stops the   *)
(* generator, rewrites .rofsmeta (Cache::CloseCache) and joins.            *)
(*                                                                         *)
(* A list of Cache::entrymap never has more than one entry: AddEntry       *)
(* replaces it, and .rofsmeta is written from such lists.                  *)
(***************************************************************************)
EXTENDS Integers, Sequences, FiniteSets

CONSTANTS
  Workers,
  Files,       \* the executables on the host
  Nodes,       \* what the obey file places: no alias, no DLL data override
  iFileName,   \* the host file of each node
  Methods,     \* compression methods
  Options,     \* what -compressionmethod may say: a method or "keep"
  None,        \* no entry, no file, no node
  Faults,      \* what may go wrong, of AllFaults
  MaxBuilds, MaxEdits

AllFaults == {"crash while placing", "crash while closing", "edit while building", "cannot write"}

ASSUME WorkersAssumption == IsFiniteSet(Workers) /\ Workers # {}
ASSUME NodesAssumption == IsFiniteSet(Nodes) /\ iFileName \in [Nodes -> Files] /\ Files \cap Nodes = {}
ASSUME MethodsAssumption == "keep" \notin Methods /\ Options \subseteq Methods \cup {"keep"}
ASSUME FaultsAssumption == Faults \subseteq AllFaults
ASSUME BoundsAssumption == MaxBuilds \in Nat /\ MaxEdits \in Nat

VARIABLES
  host,          \* per file: the time of its last change, and its compression
  edits, builds,
  cached,        \* the cached files, by name: a body or None
  meta,          \* .rofsmeta: per file its line or None
  torn,          \* .rofsmeta has a line that is cut off
  phase, option, \* of the build: its main thread, and -compressionmethod
  todo,          \* the nodes no worker has taken
  heap,          \* the CacheEntry objects: loaded ones by file, new ones by node
  entrymap,      \* per file: its CacheEntry or None
  filelist,      \* CacheableList: CacheEntry objects and the terminator
  gen, genEntry, \* the generator's thread, and the entry it has taken
  pc, job, seen, hit,  \* per worker: label, node, file as opened, entry found
  image          \* per node: what was placed

diskVars == <<cached, meta, torn>>
cacheVars == <<heap, entrymap>>
genVars == <<gen, genEntry>>
workVars == <<pc, job, seen, hit>>
vars == <<host, edits, builds, diskVars, phase, option, todo, cacheVars, filelist, genVars,
          workVars, image>>

Terminator == "terminator"
Ids == Files \cup Nodes

Times == 0..MaxEdits
Bodies == [of : Times, method : Methods, whole : BOOLEAN]
HostFiles == [time : Times, comp : Methods]
Entries == [file : Files, time : Times, comp : Methods, buffer : Bodies \cup {None}]
ASSUME NoneAssumption == None \notin Ids \cup Bodies \cup HostFiles \cup Entries \cup {Terminator}
ASSUME TerminatorAssumption == Terminator \notin Ids

\* The contents of a file are known by the time of the change that made them.
Body(time, method) == [of |-> time, method |-> method, whole |-> TRUE]
CachedName(file, comp) == <<file, comp>>

Idle ==
  /\ phase = "off"
  /\ todo = {}
  /\ heap = [i \in Ids |-> None] /\ entrymap = [f \in Files |-> None]
  /\ filelist = <<>>
  /\ gen = "ended" /\ genEntry = None
  /\ pc = [w \in Workers |-> "next"] /\ job = [w \in Workers |-> None]
  /\ seen = [w \in Workers |-> None] /\ hit = [w \in Workers |-> None]

Init ==
  /\ Idle
  /\ host \in [Files -> [time : {0}, comp : Methods]]
  /\ edits = 0 /\ builds = 0
  /\ cached = [n \in Files \X Methods |-> None]
  /\ meta = [f \in Files |-> None] /\ torn = FALSE
  /\ option \in Options
  /\ image = [n \in Nodes |-> None]

-----------------------------------------------------------------------------
(* The main thread *)

\* InitializeCache: Cache::Initialize reads .rofsmeta and the generator is started.
StartBuild ==
  /\ phase = "off" /\ builds < MaxBuilds
  /\ builds' = builds + 1
  /\ option' \in Options
  /\ image' = [n \in Nodes |-> None]
  /\ \/ /\ ~torn
        /\ heap' = [i \in Ids |->
                      IF i \in Files /\ meta[i] # None
                      THEN [file |-> i, time |-> meta[i].time, comp |-> meta[i].comp, buffer |-> None]
                      ELSE None]
        /\ entrymap' = [f \in Files |-> IF meta[f] = None THEN None ELSE f]
        /\ todo' = Nodes
        /\ gen' = "get"
        /\ phase' = "placing"
     \/ /\ torn          \* CACHE_INVALID: main gives up
        /\ UNCHANGED <<cacheVars, todo, gen, phase>>
  /\ UNCHANGED <<host, edits, diskVars, filelist, genEntry, workVars>>

\* ~CacheManager, after PlaceFiles has joined its workers.
AddTerminator ==
  /\ phase = "placing" /\ todo = {} /\ \A w \in Workers : pc[w] = "next"
  /\ filelist' = Append(filelist, Terminator)
  /\ phase' = "close"
  /\ UNCHANGED <<host, edits, builds, diskVars, option, todo, cacheVars, genVars, workVars, image>>

\* CloseCache opens .rofsmeta, which empties it...
TruncateMeta ==
  /\ phase = "close"
  /\ meta' = [f \in Files |-> None]
  /\ phase' = "save"
  /\ UNCHANGED <<host, edits, builds, cached, torn, option, todo, cacheVars, filelist, genVars, workVars, image>>

Line(i) == IF i = None THEN None ELSE [time |-> heap[i].time, comp |-> heap[i].comp]

\* ... and writes the entries.
SaveMeta ==
  /\ phase = "save"
  /\ meta' = [f \in Files |-> Line(entrymap[f])]
  /\ phase' = "join"
  /\ UNCHANGED <<host, edits, builds, cached, torn, option, todo, cacheVars, filelist, genVars, workVars, image>>

\* The process ends, and what it held in memory with it.
EndProcess ==
  /\ phase' = "off"
  /\ todo' = {}
  /\ heap' = [i \in Ids |-> None] /\ entrymap' = [f \in Files |-> None]
  /\ filelist' = <<>>
  /\ gen' = "ended" /\ genEntry' = None
  /\ pc' = [w \in Workers |-> "next"] /\ job' = [w \in Workers |-> None]
  /\ seen' = [w \in Workers |-> None] /\ hit' = [w \in Workers |-> None]
  /\ UNCHANGED <<host, edits, builds, cached, option, image>>

\* Mutation: the generator is not joined.
JoinNot ==
  /\ phase = "join"
  /\ EndProcess
  /\ UNCHANGED <<meta, torn>>

Join ==
  /\ phase = "join" /\ gen = "ended"
  /\ EndProcess
  /\ UNCHANGED <<meta, torn>>

\* The build is broken off from outside.  While .rofsmeta is being written, some of
\* its lines may be there, the last one cut off.
Crash ==
  /\ \/ /\ "crash while placing" \in Faults /\ phase \in {"placing", "close"}
        /\ UNCHANGED <<meta, torn>>
     \/ /\ "crash while closing" \in Faults /\ phase = "save"
        /\ \E S \in SUBSET Files :
              meta' = [f \in Files |-> IF f \in S THEN Line(entrymap[f]) ELSE None]
        /\ torn' \in BOOLEAN
     \/ /\ "crash while closing" \in Faults /\ phase = "join"
        /\ UNCHANGED <<meta, torn>>
  /\ EndProcess

\* -cleancache: GetInstance reads .rofsmeta first, and CleanCache removes the
\* directory.
CleanCache ==
  /\ phase = "off" /\ builds < MaxBuilds
  /\ builds' = builds + 1
  /\ \/ /\ ~torn
        /\ cached' = [n \in DOMAIN cached |-> None]
        /\ meta' = [f \in Files |-> None]
     \/ /\ torn
        /\ UNCHANGED <<cached, meta>>
  /\ UNCHANGED <<host, edits, torn, phase, option, todo, cacheVars, filelist, genVars, workVars, image>>

\* Somebody builds an executable anew.
Edit(f) ==
  /\ edits < MaxEdits
  /\ phase = "off" \/ "edit while building" \in Faults
  /\ edits' = edits + 1
  /\ \E c \in Methods : host' = [host EXCEPT ![f] = [time |-> edits + 1, comp |-> c]]
  /\ UNCHANGED <<builds, diskVars, phase, option, todo, cacheVars, filelist, genVars, workVars, image>>

-----------------------------------------------------------------------------
(* The placement workers: TRomBuilderEntry::PlaceFile *)

Goto(w, label) == pc' = [pc EXCEPT ![w] = label]
File(w) == iFileName[job[w]]

\* A worker takes a node and opens its file; with no node left it takes no part.
OpenFile(w) ==
  /\ phase = "placing" /\ pc[w] = "next"
  /\ \E n \in todo :
        /\ todo' = todo \ {n}
        /\ job' = [job EXCEPT ![w] = n]
        /\ seen' = [seen EXCEPT ![w] = host[iFileName[n]]]
  /\ Goto(w, "look up")
  /\ UNCHANGED <<host, edits, builds, diskVars, phase, option, cacheVars, filelist, genVars, hit, image>>

\* newFileComp: what the file is to be compressed by.
NewFileComp(file) == IF option = "keep" THEN file.comp ELSE option

\* Mutation: the time of the file is not looked at.
ValidatesAnyTime(w, e) == e # None /\ e.comp = seen[w].comp

\* Validate: the time the file has now, and the compression it was opened with.
Validates(w, e) ==
  /\ e # None
  /\ e.time = host[File(w)].time
  /\ e.comp = seen[w].comp

Validate(w) ==
  /\ pc[w] = "look up"
  /\ LET i == entrymap[File(w)]
         e == IF i = None THEN None ELSE heap[i]
     IN \/ /\ Validates(w, e)
           /\ hit' = [hit EXCEPT ![w] = i]
           /\ Goto(w, "read")
        \/ /\ ~Validates(w, e)
           /\ Goto(w, "render")
           /\ UNCHANGED hit
  /\ UNCHANGED <<host, edits, builds, diskVars, phase, option, todo, cacheVars, filelist, genVars, job, seen, image>>

\* ... and the cached file becomes the buffer of the entry, which workers share.
ReadCached(w) ==
  LET name == CachedName(File(w), heap[hit[w]].comp)
  IN /\ pc[w] = "read"
     /\ \/ /\ cached[name] # None
           /\ heap' = [heap EXCEPT ![hit[w]].buffer = cached[name]]
           /\ Goto(w, "copy")
        \/ /\ cached[name] = None
           /\ Goto(w, "render")
           /\ UNCHANGED heap
     /\ UNCHANGED <<host, edits, builds, diskVars, phase, option, todo, entrymap, filelist, genVars,
                    job, seen, hit, image>>

\* What lies in the image: a body, after a header that is made from the file opened.
Placed(w, body) == [opened |-> seen[w].time, method |-> NewFileComp(seen[w]), body |-> body]

CopyCached(w) ==
  /\ pc[w] = "copy"
  /\ image' = [image EXCEPT ![job[w]] = Placed(w, heap[hit[w]].buffer)]
  /\ Goto(w, "next")
  /\ UNCHANGED <<host, edits, builds, diskVars, phase, option, todo, cacheVars, filelist, genVars,
                 job, seen, hit>>

\* Mutation: the entry is saved under the new compression, which no lookup asks for.
RenderAsNew(w) ==
  LET body == Body(seen[w].time, NewFileComp(seen[w]))
  IN /\ pc[w] = "render"
     /\ image' = [image EXCEPT ![job[w]] = Placed(w, body)]
     /\ heap' = [heap EXCEPT ![job[w]] = [file |-> File(w), time |-> host[File(w)].time,
                                          comp |-> NewFileComp(seen[w]), buffer |-> body]]
     /\ Goto(w, "add entry")
     /\ UNCHANGED <<host, edits, builds, diskVars, phase, option, todo, entrymap, filelist, genVars,
                    job, seen, hit>>

\* The file is written into the image, and a CacheEntry made of it: with the time the
\* file has by then, and the compression it was opened with.
Render(w) ==
  LET body == Body(seen[w].time, NewFileComp(seen[w]))
  IN /\ pc[w] = "render"
     /\ image' = [image EXCEPT ![job[w]] = Placed(w, body)]
     /\ heap' = [heap EXCEPT ![job[w]] = [file |-> File(w), time |-> host[File(w)].time,
                                          comp |-> seen[w].comp, buffer |-> body]]
     /\ Goto(w, "add entry")
     /\ UNCHANGED <<host, edits, builds, diskVars, phase, option, todo, entrymap, filelist, genVars,
                    job, seen, hit>>

\* Invalidate: the entry takes the place of the list under the file's name...
AddEntry(w) ==
  /\ pc[w] = "add entry"
  /\ entrymap' = [entrymap EXCEPT ![File(w)] = job[w]]
  /\ Goto(w, "add cacheable")
  /\ UNCHANGED <<host, edits, builds, diskVars, phase, option, todo, heap, filelist, genVars,
                 job, seen, hit, image>>

\* ... and is queued for the generator.
AddCacheable(w) ==
  /\ pc[w] = "add cacheable"
  /\ filelist' = Append(filelist, job[w])
  /\ Goto(w, "next")
  /\ UNCHANGED <<host, edits, builds, diskVars, phase, option, todo, cacheVars, genVars,
                 job, seen, hit, image>>

Work(w) ==
  \/ OpenFile(w) \/ Validate(w) \/ ReadCached(w) \/ CopyCached(w)
  \/ Render(w) \/ AddEntry(w) \/ AddCacheable(w)

-----------------------------------------------------------------------------
(* The generator's thread: CacheGenerator::ProcessFiles *)

genUnchanged == <<host, edits, builds, meta, torn, phase, option, todo, cacheVars, workVars, image>>
GenName == CachedName(heap[genEntry].file, heap[genEntry].comp)

\* Mutation: an entry without a buffer does not stop it.
GetCacheableForever ==
  /\ gen = "get" /\ filelist # <<>>
  /\ filelist' = Tail(filelist)
  /\ IF Head(filelist) = Terminator THEN UNCHANGED genVars
     ELSE genEntry' = Head(filelist) /\ gen' = "open"
  /\ UNCHANGED <<cached, genUnchanged>>

\* Mutation: it stops when it has emptied the list.
GetCacheableWhileAny ==
  /\ gen = "get" /\ filelist # <<>>
  /\ filelist' = Tail(filelist)
  /\ genEntry' = Head(filelist)
  /\ gen' = IF Tail(filelist) = <<>> THEN "ended" ELSE "open"
  /\ UNCHANGED <<cached, genUnchanged>>

\* It sleeps while the list is empty; an entry without a buffer stops it.
GetCacheable ==
  /\ gen = "get" /\ filelist # <<>>
  /\ filelist' = Tail(filelist)
  /\ genEntry' = Head(filelist)
  /\ gen' = IF Head(filelist) = Terminator THEN "ended" ELSE "open"
  /\ UNCHANGED <<cached, genUnchanged>>

\* The cached file is opened, which empties it, or cannot be.
OpenCached ==
  /\ gen = "open"
  /\ \/ /\ cached' = [cached EXCEPT ![GenName] = [heap[genEntry].buffer EXCEPT !.whole = FALSE]]
        /\ gen' = "write"
     \/ /\ "cannot write" \in Faults
        /\ gen' = "get"
        /\ UNCHANGED cached
  /\ UNCHANGED <<genEntry, filelist, genUnchanged>>

WriteCached ==
  /\ gen = "write"
  /\ cached' = [cached EXCEPT ![GenName] = heap[genEntry].buffer]
  /\ gen' = "get"
  /\ UNCHANGED <<genEntry, filelist, genUnchanged>>

Generator == GetCacheable \/ OpenCached \/ WriteCached

MainThread == StartBuild \/ AddTerminator \/ TruncateMeta \/ SaveMeta \/ Join
Outside == Crash \/ CleanCache \/ \E f \in Files : Edit(f)

Next == MainThread \/ Generator \/ (\E w \in Workers : Work(w)) \/ Outside

Spec == Init /\ [][Next]_vars

\* Every thread of a build that can run is run; nobody has to start a build.
FairSpec ==
  /\ Spec
  /\ WF_vars(AddTerminator \/ TruncateMeta \/ SaveMeta \/ Join)
  /\ WF_vars(Generator)
  /\ \A w \in Workers : WF_vars(Work(w))

-----------------------------------------------------------------------------
(* Properties *)

\* The types of the cache, in memory and on disk; the generator runs as long as the
\* build is placing files.
TypeOK ==
  /\ host \in [Files -> HostFiles]
  /\ edits \in 0..MaxEdits /\ builds \in 0..MaxBuilds
  /\ cached \in [Files \X Methods -> Bodies \cup {None}]
  /\ meta \in [Files -> HostFiles \cup {None}] /\ torn \in BOOLEAN
  /\ phase \in {"off", "placing", "close", "save", "join"}
  /\ option \in Options
  /\ todo \subseteq Nodes
  /\ heap \in [Ids -> Entries \cup {None}]
  /\ entrymap \in [Files -> Ids \cup {None}]
  /\ filelist \in Seq(Nodes \cup {Terminator})
  /\ gen \in {"get", "open", "write", "ended"}
  /\ genEntry \in Nodes \cup {Terminator, None}
  /\ pc \in [Workers -> {"next", "look up", "read", "copy", "render", "add entry", "add cacheable"}]
  /\ job \in [Workers -> Nodes \cup {None}]
  /\ seen \in [Workers -> HostFiles \cup {None}]
  /\ hit \in [Workers -> Ids \cup {None}]
  /\ image \in [Nodes -> [opened : Times, method : Methods, body : Bodies] \cup {None}]
  /\ phase = "placing" => gen # "ended"

\* "An executable will be validated if its creation time does not altered and the
\* compression method is not different against previous image build used": what is
\* placed, from the cache or not, is the file that was opened, whole and compressed
\* as its header says (PlaceFile, Validate).
PlacedAsOpened ==
  \A n \in Nodes :
     image[n] # None => image[n].body = Body(image[n].opened, image[n].method)

\* Between two builds, a line of .rofsmeta that the next build would accept names a
\* cached file that is whole and was made from the file as it is, although the meta
\* data were written before the files (CloseCache, join) and a build that was broken
\* off may have left half a file.
CacheIsSound ==
  phase = "off" =>
     \A f \in Files :
        (meta[f] # None /\ meta[f].time = host[f].time) =>
           LET body == cached[CachedName(f, meta[f].comp)]
           IN body # None /\ body.whole /\ body.of = host[f].time

\* What a completed build left in the cache is not rendered again: a file is rendered
\* only if it has changed since the line for it in .rofsmeta ("-cache allow the
\* ROFSBUILD to reuse/generate cached executable files").
RendersChangedOnly ==
  \A w \in Workers :
     (phase = "placing" /\ pc[w] = "render") =>
        (meta[File(w)] = None \/ meta[File(w)].time # host[File(w)].time)

\* Every build ends: the generator takes the terminator, and join returns.
BuildEnds == phase # "off" ~> phase = "off"
=============================================================================
