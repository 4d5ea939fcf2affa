----------------------------- MODULE RofsPlacement -----------------------------
(***************************************************************************)
(* E32Rofs::PlaceFiles: gThreadNum worker threads take the nodes of the    *)
(* list one at a time (GetFileNode, under iMuxTree), read and compress     *)
(* their files in parallel (PlaceFile, under no lock), put the aliases     *)
(* aside until every worker has run out of nodes (ArriveDeferPoint,        *)
(* GetDeferredJob), and the main thread joins them and lays the results    *)
(* out in the image.                                                       *)
(*                                                                         *)
(* PlaceFile is two steps, because nothing excludes other workers between  *)
(* its test of iEntry->iFileOffset and its assignment: the file is read    *)
(* and compressed in between.                                              *)
(***************************************************************************)
EXTENDS RofsTree, Sequences

CONSTANT Workers   (* the gThreadNum worker threads *)

ASSUME WorkersAssumption == IsFiniteSet(Workers) /\ Workers # {}

NULL == 0           \* a null TPlacingSection, or the end of the node list
Placed == -1        \* iFileOffset of an entry whose bytes a worker holds
EntryPtr == -2      \* iFileStartOffset holding (TInt)iEntry

gThreadNum == Cardinality(Workers)

VARIABLES
  obey,             \* the node list
  iLastNode,        \* the next node to hand out, N + 1 for NULL
  iVPS,             \* the placing sections, each named by its node
  iQueueAliasNode,  \* the aliases put aside
  iWorkerArrived,   \* the workers that ran out of nodes
  iFileOffset,      \* per entry: 0, Placed or its image offset
  iFileStartOffset, \* per node: 0, KFileHidden, EntryPtr or its image offset
  len,              \* per node: the len of its placing section
  symbols,          \* the entries handed to the symbol generator, in order
  pc, job,          \* per worker: where it is and its placing section
  main,             \* the main thread: "join", "layout", "done" or "crashed"
  laid, offset,     \* sections laid out, and where the next one goes
  ret               \* <<n>> once PlaceFiles has returned n

workerVars == <<pc, job>>
treeVars == <<iFileOffset, iFileStartOffset, len>>
listVars == <<iLastNode, iVPS, iQueueAliasNode, iWorkerArrived>>
mainVars == <<main, laid, offset, ret>>
vars == <<obey, listVars, treeVars, symbols, workerVars, mainVars>>

Init ==
  /\ obey \in Obeys
  /\ iLastNode = 1
  /\ iVPS = <<>>
  /\ iQueueAliasNode = <<>>
  /\ iWorkerArrived = 0
  /\ iFileOffset = [n \in Nodes |-> 0]
  /\ iFileStartOffset = [n \in Nodes |-> 0]
  /\ len = [n \in Nodes |-> 0]
  /\ symbols = <<>>
  /\ pc = [w \in Workers |-> "get"]
  /\ job = [w \in Workers |-> NULL]
  /\ main = "join"
  /\ laid = 0
  /\ offset = Base
  /\ ret = <<>>

-----------------------------------------------------------------------------
(* The worker threads *)

Goto(w, label) == pc' = [pc EXCEPT ![w] = label]

\* The first visible file from iLastNode on.
NextFile(n) ==
  /\ n >= iLastNode
  /\ Visible(obey, n)
  /\ \A m \in iLastNode..(n - 1) : ~Visible(obey, m)

NoMoreFiles == \A n \in Nodes : n >= iLastNode => ~Visible(obey, n)

\* Mutation: without iMuxTree the store to iLastNode can be lost.
GetFileNodeUnlocked(w) ==
  /\ pc[w] = "get"
  /\ \/ \E n \in Nodes :
          /\ NextFile(n)
          /\ iLastNode' \in {iLastNode, n + 1}
          /\ iVPS' = Append(iVPS, n)
          /\ Goto(w, IF IsAlias(obey, n) THEN "get" ELSE "place")
          /\ job' = [job EXCEPT ![w] = n]
          /\ UNCHANGED iQueueAliasNode
     \/ /\ NoMoreFiles
        /\ Goto(w, "arrive")
        /\ UNCHANGED <<iLastNode, iVPS, iQueueAliasNode, job>>
  /\ UNCHANGED <<obey, iWorkerArrived, treeVars, symbols, mainVars>>

\* Mutation: an alias is placed at once instead of being put aside.
GetFileNodeNoDefer(w) ==
  /\ pc[w] = "get"
  /\ \/ \E n \in Nodes :
          /\ NextFile(n)
          /\ iLastNode' = n + 1
          /\ iVPS' = Append(iVPS, n)
          /\ Goto(w, "place")
          /\ job' = [job EXCEPT ![w] = n]
     \/ /\ NoMoreFiles
        /\ Goto(w, "arrive")
        /\ UNCHANGED <<iLastNode, iVPS, job>>
  /\ UNCHANGED <<obey, iQueueAliasNode, iWorkerArrived, treeVars, symbols, mainVars>>

\* One call of GetFileNode.  An alias is queued and the worker asks again.
GetFileNode(w) ==
  /\ pc[w] = "get"
  /\ \/ \E n \in Nodes :
          /\ NextFile(n)
          /\ iLastNode' = n + 1
          /\ iVPS' = Append(iVPS, n)
          /\ \/ /\ IsAlias(obey, n)
                /\ iQueueAliasNode' = Append(iQueueAliasNode, n)
                /\ UNCHANGED workerVars
             \/ /\ ~IsAlias(obey, n)
                /\ Goto(w, "place")
                /\ job' = [job EXCEPT ![w] = n]
                /\ UNCHANGED iQueueAliasNode
     \/ /\ NoMoreFiles
        /\ Goto(w, "arrive")
        /\ UNCHANGED <<iLastNode, iVPS, iQueueAliasNode, job>>
  /\ UNCHANGED <<obey, iWorkerArrived, treeVars, symbols, mainVars>>

\* Where a worker goes once PlaceFile has returned.
AfterPlace(w) ==
  IF pc[w] \in {"place", "read"} THEN "symbol" ELSE "defer"

\* TRomNode::PlaceFile up to the read of the file: a hidden entry and an entry
\* already placed need no bytes.
PlaceFileTest(w) ==
  LET n == job[w]
      e == obey.entry[n]
  IN /\ pc[w] \in {"place", "placeAlias"}
     /\ \/ /\ obey.eHidden[e]
           /\ iFileStartOffset' = [iFileStartOffset EXCEPT ![n] = KFileHidden]
           /\ Goto(w, AfterPlace(w))
        \/ /\ ~obey.eHidden[e] /\ iFileOffset[e] # 0
           /\ iFileStartOffset' = [iFileStartOffset EXCEPT ![n] = EntryPtr]
           /\ Goto(w, AfterPlace(w))
        \/ /\ ~obey.eHidden[e] /\ iFileOffset[e] = 0
           /\ Goto(w, IF pc[w] = "place" THEN "read" ELSE "readAlias")
           /\ UNCHANGED iFileStartOffset
     /\ UNCHANGED <<obey, listVars, iFileOffset, len, symbols, job, mainVars>>

\* The file has been read: the entry is marked and the section gets its length.
PlaceFileRead(w) ==
  LET n == job[w]
      e == obey.entry[n]
  IN /\ pc[w] \in {"read", "readAlias"}
     /\ iFileOffset' = [iFileOffset EXCEPT ![e] = Placed]
     /\ len' = [len EXCEPT ![n] = PlacedLen(obey, n)]
     /\ Goto(w, AfterPlace(w))
     /\ UNCHANGED <<obey, listVars, iFileStartOffset, symbols, job, mainVars>>

\* Mutation: hidden entries get symbols too.
AddSymbolAlways(w) ==
  /\ pc[w] = "symbol"
  /\ symbols' = Append(symbols, obey.entry[job[w]])
  /\ Goto(w, "get")
  /\ UNCHANGED <<obey, listVars, treeVars, job, mainVars>>

\* A placed file that is not hidden gets a symbol.
AddSymbol(w) ==
  LET e == obey.entry[job[w]]
  IN /\ pc[w] = "symbol"
     /\ symbols' = IF obey.eHidden[e] THEN symbols ELSE Append(symbols, e)
     /\ Goto(w, "get")
     /\ UNCHANGED <<obey, listVars, treeVars, job, mainVars>>

\* Mutation: a worker that has arrived asks for nodes again.
ArriveAgain(w) ==
  /\ pc[w] = "arrive"
  /\ iWorkerArrived' = iWorkerArrived + 1
  /\ Goto(w, "get")
  /\ UNCHANGED <<obey, iLastNode, iVPS, iQueueAliasNode, treeVars, symbols, job, mainVars>>

ArriveDeferPoint(w) ==
  /\ pc[w] = "arrive"
  /\ iWorkerArrived' = iWorkerArrived + 1
  /\ Goto(w, "defer")
  /\ UNCHANGED <<obey, iLastNode, iVPS, iQueueAliasNode, treeVars, symbols, job, mainVars>>

\* GetDeferredJob after the poll: pop under iMuxTree.
PopDeferred(w) ==
  /\ \/ /\ iQueueAliasNode # <<>>
        /\ job' = [job EXCEPT ![w] = Head(iQueueAliasNode)]
        /\ iQueueAliasNode' = Tail(iQueueAliasNode)
        /\ Goto(w, "placeAlias")
     \/ /\ iQueueAliasNode = <<>>
        /\ Goto(w, "exit")
        /\ UNCHANGED <<job, iQueueAliasNode>>
  /\ UNCHANGED <<obey, iLastNode, iVPS, iWorkerArrived, treeVars, symbols, mainVars>>

\* Mutation: no waiting at the defer point.
GetDeferredJobAtOnce(w) == pc[w] = "defer" /\ PopDeferred(w)

\* Mutation: the poll waits for one worker more than there are.
GetDeferredJobLate(w) ==
  pc[w] = "defer" /\ iWorkerArrived > gThreadNum /\ PopDeferred(w)

\* GetDeferredJob polls iWorkerArrived without a lock.
GetDeferredJob(w) ==
  /\ pc[w] = "defer"
  /\ iWorkerArrived >= gThreadNum
  /\ PopDeferred(w)

Work(w) ==
  \/ GetFileNode(w) \/ PlaceFileTest(w) \/ PlaceFileRead(w) \/ AddSymbol(w)
  \/ ArriveDeferPoint(w) \/ GetDeferredJob(w)

-----------------------------------------------------------------------------
(* The main thread *)

\* join_all
JoinAll ==
  /\ main = "join"
  /\ \A w \in Workers : pc[w] = "exit"
  /\ main' = "layout"
  /\ UNCHANGED <<obey, listVars, treeVars, symbols, workerVars, laid, offset, ret>>

Room == obey.end - offset
Section == iVPS[laid + 1]

\* Mutation: a section that fits exactly is refused.
LayoutStopsEarly ==
  /\ \/ Room <= 0 /\ ret' = <<Room>>
     \/ /\ Room > 0
        /\ iFileStartOffset[Section] # KFileHidden
        /\ len[Section] >= Room
        /\ ret' = <<Room - len[Section]>>
  /\ main' = "done"
  /\ UNCHANGED <<iFileOffset, iFileStartOffset, laid, offset>>

\* One turn of the layout loop that returns early.
LayoutStops ==
  /\ \/ Room <= 0 /\ ret' = <<Room>>
     \/ /\ Room > 0
        /\ iFileStartOffset[Section] # KFileHidden
        /\ len[Section] > Room
        /\ ret' = <<Room - len[Section]>>
  /\ main' = "done"
  /\ UNCHANGED <<iFileOffset, iFileStartOffset, laid, offset>>

\* One turn of the layout loop that goes on to the next section.
LayoutGoesOn ==
  LET n == Section
      e == obey.entry[n]
  IN /\ Room > 0
     /\ \/ /\ iFileStartOffset[n] = KFileHidden
           /\ UNCHANGED <<iFileOffset, iFileStartOffset>>
        \/ /\ iFileStartOffset[n] # KFileHidden
           /\ len[n] \in 0..Room
           /\ iFileOffset[e] = Placed
           /\ iFileOffset' = [iFileOffset EXCEPT ![e] = offset]
           /\ iFileStartOffset' = [iFileStartOffset EXCEPT ![n] = offset]
        \/ /\ iFileStartOffset[n] = EntryPtr
           /\ len[n] \in 0..Room
           /\ iFileOffset[e] # Placed
           /\ iFileStartOffset' = [iFileStartOffset EXCEPT ![n] = iFileOffset[e]]
           /\ UNCHANGED iFileOffset
     /\ laid' = laid + 1
     /\ offset' = offset + Align4(len[n])
     /\ UNCHANGED <<main, ret>>

\* The two ways the loop dereferences or copies what it must not: a section
\* whose iFileStartOffset is no TRomBuilderEntry*, and a negative length given to
\* memcpy.
LayoutCrashes ==
  LET n == Section
  IN /\ Room > 0
     /\ iFileStartOffset[n] # KFileHidden
     /\ \/ len[n] < 0
        \/ /\ len[n] \in 0..Room
           /\ iFileOffset[obey.entry[n]] # Placed
           /\ iFileStartOffset[n] # EntryPtr
     /\ main' = "crashed"
     /\ UNCHANGED <<iFileOffset, iFileStartOffset, laid, offset, ret>>

LayoutSection ==
  /\ main = "layout"
  /\ laid < Len(iVPS)
  /\ LayoutStops \/ LayoutGoesOn \/ LayoutCrashes
  /\ UNCHANGED <<obey, listVars, len, symbols, workerVars>>

LayoutReturns ==
  /\ main = "layout"
  /\ laid = Len(iVPS)
  /\ ret' = <<offset - Base>>
  /\ main' = "done"
  /\ UNCHANGED <<obey, listVars, treeVars, symbols, workerVars, laid, offset>>

MainThread == JoinAll \/ LayoutSection \/ LayoutReturns

Next == MainThread \/ \E w \in Workers : Work(w)

Spec == Init /\ [][Next]_vars

\* The operating system runs every thread that can run.
FairSpec == Spec /\ WF_vars(MainThread) /\ \A w \in Workers : WF_vars(Work(w))
-----------------------------------------------------------------------------
(* Properties *)

Labels == {"get", "place", "read", "symbol", "arrive", "defer", "placeAlias",
           "readAlias", "exit"}

\* The types of the state of PlaceFiles and its workers.
TypeOK ==
  /\ WellFormed(obey)
  /\ iLastNode \in 1..(N + 1)
  /\ iVPS \in Seq(Nodes)
  /\ iQueueAliasNode \in Seq(Nodes)
  /\ iWorkerArrived \in 0..gThreadNum
  /\ iFileOffset \in [Nodes -> Int]
  /\ iFileStartOffset \in [Nodes -> Int]
  /\ len \in [Nodes -> Int]
  /\ symbols \in Seq(Nodes)
  /\ pc \in [Workers -> Labels]
  /\ job \in [Workers -> {NULL} \cup Nodes]
  /\ main \in {"join", "layout", "done", "crashed"}
  /\ laid \in 0..Len(iVPS)
  /\ offset \in Int
  /\ ret \in Seq(Int)

\* "The iMuxTree also helps to make sure the order in iVPS is consistent with the
\* node list": whatever the threads do, the sections are the visible files handed
\* out so far, each once, in list order (GetFileNode).
VpsFollowsList ==
  /\ \A i, j \in 1..Len(iVPS) : i < j => iVPS[i] < iVPS[j]
  /\ {iVPS[i] : i \in 1..Len(iVPS)} = {n \in Nodes : Visible(obey, n) /\ n < iLastNode}

\* "waiting all the normal node have been placed": no worker touches an alias while
\* a file that is not an alias still has to be placed (ArriveDeferPoint,
\* GetDeferredJob).
AliasesWaitForFiles ==
  (\E w \in Workers : pc[w] \in {"placeAlias", "readAlias"}) =>
     \A n \in Nodes :
        (Visible(obey, n) /\ ~IsAlias(obey, n) /\ ~obey.eHidden[n]) => iFileOffset[n] # 0

\* The bytes of a file are read by one worker, although nothing locks the entry
\* between the test of iFileOffset and its assignment: while a worker reads, no
\* other does and nobody has marked the entry.
ReadsOnce ==
  \A w \in Workers :
     pc[w] \in {"read", "readAlias"} =>
        /\ iFileOffset[obey.entry[job[w]]] = 0
        /\ \A v \in Workers \ {w} :
              pc[v] \in {"read", "readAlias"} => obey.entry[job[v]] # obey.entry[job[w]]

\* When SetFinished is called the symbol generator has been handed every visible
\* file that is not hidden by its entry, once, and no alias.
SymbolsOnceEach ==
  main # "join" =>
     /\ \A i, j \in 1..Len(symbols) : i # j => symbols[i] # symbols[j]
     /\ {symbols[i] : i \in 1..Len(symbols)} =
           {n \in Nodes : Visible(obey, n) /\ ~IsAlias(obey, n) /\ ~obey.eHidden[n]}

\* "this is the guarantee of same outputs regardless of how many threads being
\* used": the threads implement the serial layout of RofsLayout.
LastLaid == IF laid = 0 THEN 0 ELSE iVPS[laid]

Serial == INSTANCE RofsLayout WITH
             cursor <- LastLaid,
             addr <- [n \in Nodes |-> IF n <= LastLaid THEN iFileStartOffset[n] ELSE 0],
             result <- ret

SerialLayout == Serial!Spec

\* Every build ends: no worker waits for ever at the defer point, and the main
\* thread joins them all.
BuildEnds == <>(main \in {"done", "crashed"})
=============================================================================
