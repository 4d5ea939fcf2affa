---------------------------- MODULE SymbolGenerator ----------------------------
(***************************************************************************)
(* The symbol generator of rofsbuild and rombuild (-symbols, -bsymbols): a *)
(* singleton whose thread starts gThreadNum workers, which take the placed *)
(* entries the layout hands out and write their symbols while the layout   *)
(* goes on.  The main thread builds the core image and then the extension  *)
(* images of the obey file, one after the other:                           *)
(*                                                                         *)
(*   GetInstance, SetImageType, SetSymbolFileName, AddEntry for every      *)
(*   file, SetFinished, and, when the tool lets the image go, Release.     *)
(*                                                                         *)
(* rofsbuild releases the generator in E32Rofs::WriteImage, which a failed *)
(* Create never reaches; rombuild releases it in ~E32Rom, which for the    *)
(* core image runs after the extensions.                                   *)
(***************************************************************************)
EXTENDS Integers, Sequences, FiniteSets

CONSTANTS
  SymWorkers,  \* the gThreadNum threads of SymbolGenerator::thrd_func
  Builds       \* the builds: [tool, bsym, images], see IsBuild

\* An image is its files, in the order they are placed, and how its Create ends.
Outcome == {"ok", "fails before placing", "fails after placing"}
IsBuild(b) ==
  /\ b.tool \in {"rofsbuild", "rombuild"}
  /\ b.bsym \in BOOLEAN
  /\ b.images \in Seq([files : Seq({"exe", "data"}), create : Outcome])
  /\ b.images # <<>>

ASSUME SymWorkersAssumption == IsFiniteSet(SymWorkers) /\ SymWorkers # {}
ASSUME BuildsAssumption == \A b \in Builds : IsBuild(b)

NoFile == 0       \* iSymFile is not open
Nobody == "nobody"
NoEntry == <<>>
ASSUME NobodyAssumption == Nobody \notin SymWorkers

VARIABLES
  build,
  main, image,            \* the main thread: its label and the image it builds
  handed,                 \* the files of the image that were handed over
  notifying,              \* how many AddEntry calls have still to notify
  iInst,                  \* whether the singleton exists
  iFinished, iImageType, iMutex,
  iQueueFiles,            \* entries [image, file, executable]
  iMapFileInfoSet,        \* the records kept for the .bsym file
  iSymFile,               \* the image whose symbol file is open, or NoFile
  gen,                    \* the generator's own thread
  pc, unit, pe,           \* per worker: label, process unit, the entry it holds
  written                 \* per image: the records in its symbol file

mainVars == <<main, image, handed, notifying>>
queueVars == <<iFinished, iQueueFiles>>
workerVars == <<pc, unit, pe>>
outVars == <<iMapFileInfoSet, written>>
vars == <<build, mainVars, iInst, iImageType, iMutex, queueVars, outVars, iSymFile,
          gen, workerVars>>

Images == DOMAIN build.images
Files == build.images[image].files
Create == build.images[image].create
LastImage == image = Len(build.images)

Init ==
  /\ build \in Builds
  /\ main = "get" /\ image = 1
  /\ handed = {} /\ notifying = 0
  /\ iInst = FALSE
  /\ iFinished = FALSE /\ iImageType = "garbage" /\ iMutex = Nobody
  /\ iQueueFiles = <<>>
  /\ iMapFileInfoSet = <<>>
  /\ iSymFile = NoFile
  /\ gen = "ended"
  /\ pc = [w \in SymWorkers |-> "exit"]
  /\ unit = [w \in SymWorkers |-> "garbage"]
  /\ pe = [w \in SymWorkers |-> NoEntry]
  /\ written = [i \in Images |-> <<>>]

-----------------------------------------------------------------------------
(* The main thread *)

\* rombuild asks for the generator in LayoutRom: an image that fails before that
\* never does, and the tool ends, releasing the core image's generator.
SkipsGenerator == build.tool = "rombuild" /\ Create = "fails before placing"

\* The constructor starts the generator's thread, whose workers wait in
\* GetInstance until iInst is set; iImageType is not initialised.
GetInstance ==
  /\ main = "get" /\ ~SkipsGenerator
  /\ main' = "type"
  /\ \/ /\ iInst
        /\ UNCHANGED <<iInst, iImageType, queueVars, iMapFileInfoSet, iSymFile, gen, workerVars>>
     \/ /\ ~iInst
        /\ iInst' = TRUE
        /\ iImageType' = "garbage"
        /\ iFinished' = FALSE /\ iQueueFiles' = <<>>
        /\ iMapFileInfoSet' = <<>>
        /\ iSymFile' = NoFile
        /\ gen' = "workers"
        /\ pc' = [w \in SymWorkers |-> "start"]
        /\ unit' = [w \in SymWorkers |-> "garbage"]
        /\ pe' = [w \in SymWorkers |-> NoEntry]
  /\ UNCHANGED <<build, image, handed, notifying, iMutex, written>>

SkipGenerator ==
  /\ main = "get" /\ SkipsGenerator
  /\ main' = IF image = 1 THEN "exit" ELSE "last release"
  /\ UNCHANGED <<build, image, handed, notifying, iInst, iImageType, iMutex, queueVars, outVars, iSymFile,
                 gen, workerVars>>

\* A rofs image may fail in LayoutDirectory, before PlaceFiles.
SetImageType ==
  /\ main = "type"
  /\ iImageType' = IF build.tool = "rombuild" THEN "rom" ELSE "rofs"
  /\ main' = IF Create = "fails before placing" THEN "next" ELSE "close"
  /\ UNCHANGED <<build, image, handed, notifying, iInst, iMutex, queueVars, outVars, iSymFile, gen, workerVars>>

\* SetSymbolFileName, which takes no lock: it closes the file that is open...
CloseSymbolFile ==
  /\ main = "close"
  /\ iSymFile' = NoFile
  /\ main' = "open"
  /\ UNCHANGED <<build, image, handed, notifying, iInst, iImageType, iMutex, queueVars, outVars, gen, workerVars>>

\* ... and opens the image's own.
OpenSymbolFile ==
  /\ main = "open"
  /\ iSymFile' = image
  /\ main' = "add"
  /\ UNCHANGED <<build, image, handed, notifying, iInst, iImageType, iMutex, queueVars, outVars, gen, workerVars>>

\* LayoutFile fills a TPlacedEntry() whose iExecutable is not initialised and sets
\* it for executables only; Worker::thrd_func gives the constructor all three.
Executables(kind) ==
  IF build.tool = "rombuild" /\ kind = "data" THEN BOOLEAN ELSE {kind = "exe"}

\* Who calls AddEntry: in rofsbuild the gThreadNum placement workers, in the order
\* they finish their files; in rombuild the main thread.
Adders == IF build.tool = "rombuild" THEN 1 ELSE Cardinality(SymWorkers)
Left == DOMAIN Files \ handed
NextFiles == IF build.tool = "rombuild" THEN {f \in Left : \A g \in Left : f <= g} ELSE Left

\* AddEntry pushes under iMutex...
AddEntry ==
  /\ main = "add" /\ notifying < Adders /\ iMutex = Nobody
  /\ \E f \in NextFiles : \E x \in Executables(Files[f]) :
        /\ handed' = handed \cup {f}
        /\ iQueueFiles' = Append(iQueueFiles, [image |-> image, file |-> f, executable |-> x])
  /\ notifying' = notifying + 1
  /\ UNCHANGED <<build, main, image, iInst, iImageType, iMutex, iFinished, outVars, iSymFile, gen, workerVars>>

NotifyAll == pc' = [w \in SymWorkers |-> IF pc[w] = "waiting" THEN "relock" ELSE pc[w]]

\* ... and calls notify_all after it has let go of it.
NotifyEntry ==
  /\ notifying > 0
  /\ notifying' = notifying - 1
  /\ NotifyAll
  /\ UNCHANGED <<build, main, image, handed, iInst, iImageType, iMutex, queueVars, outVars, iSymFile, gen, unit, pe>>

\* Mutation: no notify_all.
SetFinishedSilent ==
  /\ main = "add" /\ Left = {} /\ notifying = 0 /\ iMutex = Nobody
  /\ iFinished' = TRUE
  /\ main' = "next"
  /\ UNCHANGED <<build, image, handed, notifying, iInst, iImageType, iMutex, iQueueFiles, outVars, iSymFile, gen, workerVars>>

\* Mutation: the flag is set without iMutex.
SetFinishedUnlocked ==
  /\ main = "add" /\ Left = {} /\ notifying = 0
  /\ iFinished' = TRUE
  /\ NotifyAll
  /\ main' = "next"
  /\ UNCHANGED <<build, image, handed, notifying, iInst, iImageType, iMutex, iQueueFiles, outVars, iSymFile, gen, unit, pe>>

SetFinished ==
  /\ main = "add" /\ Left = {} /\ notifying = 0 /\ iMutex = Nobody
  /\ iFinished' = TRUE
  /\ NotifyAll
  /\ main' = "next"
  /\ UNCHANGED <<build, image, handed, notifying, iInst, iImageType, iMutex, iQueueFiles, outVars, iSymFile, gen, unit, pe>>

\* Whether the tool releases the generator once it is done with the image.
\* rofsbuild: WriteImage.  rombuild: ~E32Rom of an extension, and of a core image
\* that failed or that no extension follows.
Releases ==
  IF build.tool = "rofsbuild" THEN Create = "ok"
  ELSE image > 1 \/ Create # "ok" \/ LastImage

\* Whether the tool goes on to the next image: rofsbuild does so even when the core
\* image failed.
GoesOn ==
  ~LastImage /\ (Create = "ok" \/ (build.tool = "rofsbuild" /\ image = 1))

NextImage ==
  /\ \/ /\ GoesOn
        /\ image' = image + 1 /\ handed' = {}
        /\ main' = "get"
     \/ /\ ~GoesOn
        /\ main' = "exit"
        /\ UNCHANGED <<image, handed>>
  /\ UNCHANGED <<build, notifying, iImageType, iMutex, queueVars, outVars, gen, workerVars>>

KeepInstance ==
  /\ main = "next" /\ ~Releases
  /\ NextImage
  /\ UNCHANGED <<iInst, iSymFile>>

Joined == iInst => gen = "ended"

\* Release joins the generator's thread and deletes the generator, which closes
\* the file.  Without a generator it does nothing.
Release ==
  /\ main = "next" /\ Releases /\ Joined
  /\ iInst' = FALSE
  /\ iSymFile' = NoFile
  /\ NextImage

\* ~E32Rom of the core image after a failed extension.
LastRelease ==
  /\ main = "last release" /\ Joined
  /\ iInst' = FALSE
  /\ iSymFile' = NoFile
  /\ main' = "exit"
  /\ UNCHANGED <<build, image, handed, notifying, iImageType, iMutex, queueVars, outVars, gen, workerVars>>

MainThread ==
  \/ GetInstance \/ SkipGenerator \/ SetImageType \/ CloseSymbolFile \/ OpenSymbolFile
  \/ AddEntry \/ NotifyEntry \/ SetFinished \/ KeepInstance \/ Release \/ LastRelease

-----------------------------------------------------------------------------
(* The worker threads: SymbolWorker::operator() *)

Goto(w, label) == pc' = [pc EXCEPT ![w] = label]

\* The process unit is chosen once, by the image type of the moment.
ChooseUnit(w) ==
  /\ pc[w] = "start"
  /\ \E u \in {"rom", "rofs"} :
        /\ iImageType # "garbage" => u = iImageType
        /\ unit' = [unit EXCEPT ![w] = u]
  /\ Goto(w, "loop")
  /\ UNCHANGED <<build, mainVars, iInst, iImageType, iMutex, queueVars, outVars, iSymFile, gen, pe>>

\* Mutation: a worker leaves as soon as the last entry has been added.
LoopEager(w) ==
  /\ pc[w] = "loop"
  /\ Goto(w, IF iFinished THEN "exit" ELSE "lock")
  /\ UNCHANGED <<build, mainVars, iInst, iImageType, iMutex, queueVars, outVars, iSymFile, gen, unit, pe>>

\* HasFinished() && IsEmpty(), read without iMutex.  iFinished is never reset, so
\* the two reads are worth one at the time of the second.
Loop(w) ==
  /\ pc[w] = "loop"
  /\ Goto(w, IF iFinished /\ iQueueFiles = <<>> THEN "exit" ELSE "lock")
  /\ UNCHANGED <<build, mainVars, iInst, iImageType, iMutex, queueVars, outVars, iSymFile, gen, unit, pe>>

\* GetNextPlacedEntry: the lock, and again after the wait
Lock(w) ==
  /\ pc[w] \in {"lock", "relock"} /\ iMutex = Nobody
  /\ iMutex' = w
  /\ Goto(w, "test")
  /\ UNCHANGED <<build, mainVars, iInst, iImageType, queueVars, outVars, iSymFile, gen, unit, pe>>

\* Mutation: the entry taken stays in the queue.
TakeFront(w) ==
  /\ pc[w] = "test"
  /\ \/ /\ iQueueFiles # <<>>
        /\ pe' = [pe EXCEPT ![w] = Head(iQueueFiles)]
        /\ UNCHANGED iQueueFiles
        /\ Goto(w, "process")
        /\ iMutex' = Nobody
     \/ /\ iQueueFiles = <<>> /\ iFinished
        /\ Goto(w, "loop")
        /\ iMutex' = Nobody
        /\ UNCHANGED <<iQueueFiles, pe>>
     \/ /\ iQueueFiles = <<>> /\ ~iFinished
        /\ Goto(w, "to wait")
        /\ UNCHANGED <<iQueueFiles, pe, iMutex>>
  /\ UNCHANGED <<build, mainVars, iInst, iImageType, iFinished, outVars, iSymFile, gen, unit>>

\* Mutation: the entry is copied out and an empty one pushed in its place.
TakeForgotten(w) ==
  /\ pc[w] = "test"
  /\ \/ /\ iQueueFiles # <<>>
        /\ pe' = [pe EXCEPT ![w] = Head(iQueueFiles)]
        /\ iQueueFiles' = Append(Tail(iQueueFiles), NoEntry)
        /\ Goto(w, "process")
        /\ iMutex' = Nobody
     \/ /\ iQueueFiles = <<>>
        /\ Goto(w, IF iFinished THEN "loop" ELSE "to wait")
        /\ iMutex' = IF iFinished THEN Nobody ELSE iMutex
        /\ UNCHANGED <<iQueueFiles, pe>>
  /\ UNCHANGED <<build, mainVars, iInst, iImageType, iFinished, outVars, iSymFile, gen, unit>>

\* The test of the wait loop, and the pop.
Take(w) ==
  /\ pc[w] = "test"
  /\ \/ /\ iQueueFiles # <<>>
        /\ pe' = [pe EXCEPT ![w] = Head(iQueueFiles)]
        /\ iQueueFiles' = Tail(iQueueFiles)
        /\ Goto(w, "process")
        /\ iMutex' = Nobody
     \/ /\ iQueueFiles = <<>> /\ iFinished
        /\ Goto(w, "loop")
        /\ iMutex' = Nobody
        /\ UNCHANGED <<iQueueFiles, pe>>
     \/ /\ iQueueFiles = <<>> /\ ~iFinished
        /\ Goto(w, "to wait")
        /\ UNCHANGED <<iQueueFiles, pe, iMutex>>
  /\ UNCHANGED <<build, mainVars, iInst, iImageType, iFinished, outVars, iSymFile, gen, unit>>

\* iCond.wait lets go of iMutex and waits, in one step.
Wait(w) ==
  /\ pc[w] = "to wait"
  /\ iMutex' = Nobody
  /\ Goto(w, "waiting")
  /\ UNCHANGED <<build, mainVars, iInst, iImageType, queueVars, outVars, iSymFile, gen, unit, pe>>

Record(w) == [image |-> pe[w].image, file |-> pe[w].file,
              executable |-> pe[w].executable, unit |-> unit[w]]

\* ProcessEntry, then under iOutputMutex the log and the symbols: a text unit writes
\* them to the file, which drops them if it is closed; a bsym unit keeps them.
ProcessEntry(w) ==
  /\ pc[w] = "process"
  /\ \/ /\ build.bsym
        /\ iMapFileInfoSet' = Append(iMapFileInfoSet, Record(w))
        /\ UNCHANGED written
     \/ /\ ~build.bsym /\ iSymFile # NoFile
        /\ written' = [written EXCEPT ![iSymFile] = Append(@, Record(w))]
        /\ UNCHANGED iMapFileInfoSet
     \/ /\ ~build.bsym /\ iSymFile = NoFile
        /\ UNCHANGED outVars
  /\ pe' = [pe EXCEPT ![w] = NoEntry]
  /\ Goto(w, "loop")
  /\ UNCHANGED <<build, mainVars, iInst, iImageType, iMutex, queueVars, iSymFile, gen, unit>>

Work(w) ==
  ChooseUnit(w) \/ Loop(w) \/ Lock(w) \/ Take(w) \/ Wait(w) \/ ProcessEntry(w)

\* The generator's own thread: join_all, then FlushSymbolFileContent, which writes
\* the .bsym file and does nothing for a text one.
FlushSymbolFileContent ==
  /\ gen = "workers"
  /\ \A w \in SymWorkers : pc[w] = "exit"
  /\ gen' = "ended"
  /\ \/ /\ build.bsym /\ iSymFile # NoFile
        /\ written' = [written EXCEPT ![iSymFile] = @ \o iMapFileInfoSet]
        /\ iMapFileInfoSet' = <<>>
     \/ /\ build.bsym /\ iSymFile = NoFile
        /\ iMapFileInfoSet' = <<>>
        /\ UNCHANGED written
     \/ /\ ~build.bsym
        /\ UNCHANGED outVars
  /\ UNCHANGED <<build, mainVars, iInst, iImageType, iMutex, queueVars, iSymFile, workerVars>>

\* The process takes its threads with it when main returns.
Next ==
  \/ MainThread
  \/ main # "exit" /\ (FlushSymbolFileContent \/ \E w \in SymWorkers : Work(w))

Spec == Init /\ [][Next]_vars

\* The operating system runs every thread that can run, and a mutex that is free
\* again and again is eventually given to each that asks for it.
Fairness ==
  /\ WF_vars(MainThread) /\ WF_vars(NotifyEntry) /\ SF_vars(AddEntry) /\ SF_vars(SetFinished)
  /\ WF_vars(main # "exit" /\ FlushSymbolFileContent)
  /\ \A w \in SymWorkers :
        WF_vars(main # "exit" /\ Work(w)) /\ SF_vars(main # "exit" /\ Lock(w))

FairSpec == Spec /\ Fairness

-----------------------------------------------------------------------------
(* Properties *)

Labels == {"start", "loop", "lock", "relock", "test", "to wait", "waiting", "process", "exit"}
Units == {"garbage", "rom", "rofs"}
Entries == [image : Nat, file : Nat, executable : BOOLEAN]
Records == [image : Nat, file : Nat, executable : BOOLEAN, unit : Units]

\* The types of the generator's state; the mutex is held across the test of the
\* wait loop and no longer.
TypeOK ==
  /\ build \in Builds
  /\ main \in {"get", "type", "close", "open", "add", "next", "last release", "exit"}
  /\ image \in Images
  /\ handed \subseteq DOMAIN Files
  /\ notifying \in Nat
  /\ iInst \in BOOLEAN /\ iFinished \in BOOLEAN
  /\ iImageType \in Units
  /\ iMutex \in SymWorkers \cup {Nobody}
  /\ iQueueFiles \in Seq(Entries)
  /\ iMapFileInfoSet \in Seq(Records)
  /\ iSymFile \in Images \cup {NoFile}
  /\ gen \in {"workers", "ended"}
  /\ pc \in [SymWorkers -> Labels]
  /\ unit \in [SymWorkers -> Units]
  /\ pe \in [SymWorkers -> Entries \cup {NoEntry}]
  /\ written \in [Images -> Seq(Records)]

\* No wakeup is lost ("rofsbuild hangs occasionally with -symbols"): a worker sleeps
\* in GetNextPlacedEntry only while there is nothing to take and more may come, or
\* an AddEntry is about to notify it (AddEntry, SetFinished, GetNextPlacedEntry).
NoLostWakeup ==
  \A w \in SymWorkers :
     pc[w] = "waiting" => ~iFinished /\ (iQueueFiles = <<>> \/ notifying > 0)

\* An entry that was handed over is in one place: in the queue, with one worker, in
\* the records kept for the .bsym file or in a symbol file.
Name(e) == <<e.image, e.file>>
Queued == {<<"queue", i>> : i \in DOMAIN iQueueFiles}
Held == {<<"worker", w>> : w \in {v \in SymWorkers : pe[v] # NoEntry}}
Kept == {<<"kept", i>> : i \in DOMAIN iMapFileInfoSet}
Written == UNION {{<<"file", i, j>> : j \in DOMAIN written[i]} : i \in Images}
Places == Queued \cup Held \cup Kept \cup Written
At(p) ==
  CASE p[1] = "queue" -> Name(iQueueFiles[p[2]])
    [] p[1] = "worker" -> Name(pe[p[2]])
    [] p[1] = "kept" -> Name(iMapFileInfoSet[p[2]])
    [] p[1] = "file" -> Name(written[p[2]][p[3]])

EntriesInOnePlace == \A p, q \in Places : At(p) = At(q) => p = q

\* "-symbols generate symbol file": when the tool ends, the symbol file of an image
\* that was built has the symbols of each of its files and of no other file.
SymbolFileComplete ==
  main = "exit" =>
     \A i \in Images :
        build.images[i].create = "ok" =>
           {Name(written[i][j]) : j \in DOMAIN written[i]} =
              {<<i, f>> : f \in DOMAIN build.images[i].files}

\* Every build ends: no worker is left asleep, so that Release, which joins them,
\* returns.
BuildEnds == <>(main = "exit")
=============================================================================
