------------------------- MODULE RofsPlacement_proofs -------------------------
(***************************************************************************)
(* Proofs about RofsPlacement for every node list, every image size and    *)
(* every finite set of workers.                                            *)
(***************************************************************************)
EXTENDS RofsPlacement, FiniteSetTheorems, TLAPS

-----------------------------------------------------------------------------
(* The workers that have passed the defer point *)

Arrived == {w \in Workers : pc[w] \in {"defer", "placeAlias", "readAlias", "exit"}}

ArrivedCount == iWorkerArrived = Cardinality(Arrived)

\* The count of arrived workers stays within the workers there are.
LEMMA ArrivedBound ==
  ASSUME ArrivedCount
  PROVE  iWorkerArrived \in 0..gThreadNum
<1>1. Arrived \subseteq Workers /\ IsFiniteSet(Workers)
  BY WorkersAssumption DEF Arrived
<1>2. Cardinality(Arrived) <= Cardinality(Workers)
  BY <1>1, FS_Subset
<1>3. Cardinality(Arrived) \in Nat /\ Cardinality(Workers) \in Nat
  BY <1>1, FS_Subset, FS_CardinalityType
<1>4. QED
  BY <1>2, <1>3 DEF ArrivedCount, gThreadNum

LEMMA AppendType ==
  ASSUME NEW S, NEW s \in Seq(S), NEW x \in S
  PROVE  Append(s, x) \in Seq(S)
OBVIOUS

LEMMA ObeyTypes ==
  ASSUME WellFormed(obey), NEW n \in Nodes
  PROVE  /\ obey.entry[n] \in Nodes
         /\ PlacedLen(obey, n) \in Int
BY DEF WellFormed, PlacedLen, KErrNotSupported

\* The types other than the arrival count, action by action.
Types ==
  /\ WellFormed(obey)
  /\ iLastNode \in 1..(N + 1)
  /\ iVPS \in Seq(Nodes)
  /\ iQueueAliasNode \in Seq(Nodes)
  /\ iFileOffset \in [Nodes -> Int]
  /\ iFileStartOffset \in [Nodes -> Int]
  /\ len \in [Nodes -> Int]
  /\ symbols \in Seq(Nodes)
  /\ pc \in [Workers -> Labels]
  /\ job \in [Workers -> {NULL} \cup Nodes]
  /\ main \in {"join", "layout", "done", "crashed"}
  /\ laid \in 0..Len(iVPS)
  /\ offset \in Int
  /\ ret \in Seq(Int)

\* A worker at one of these labels holds a section.
Busy == {"place", "read", "symbol", "placeAlias", "readAlias"}

BusyHasJob == \A w \in Workers : pc[w] \in Busy => job[w] \in Nodes

TypeStrong == Types /\ BusyHasJob

\* A step keeps the types.
LEMMA NextTypes == TypeStrong /\ [Next]_vars => TypeStrong'
<1> SUFFICES ASSUME Types, BusyHasJob, [Next]_vars PROVE Types' /\ BusyHasJob'
  BY DEF TypeStrong
<1> USE DEF Types, Labels, Goto
<1>n. N \in Nat /\ Base \in Nat
  BY LayoutAssumption
<1>1. ASSUME NEW w \in Workers, GetFileNode(w) PROVE Types' /\ BusyHasJob'
  <2>1. CASE NoMoreFiles
    <3>1. /\ pc' = [pc EXCEPT ![w] = "arrive"]
          /\ UNCHANGED <<obey, iLastNode, iVPS, iQueueAliasNode, job, treeVars, symbols, mainVars>>
      BY <1>1, <2>1 DEF GetFileNode, NextFile, NoMoreFiles
    <3>2. BusyHasJob'
      BY <3>1 DEF BusyHasJob, Busy
    <3>3. QED
      BY <3>1, <3>2 DEF treeVars, mainVars
  <2>2. ASSUME NEW n \in Nodes, NextFile(n), iLastNode' = n + 1, iVPS' = Append(iVPS, n),
               \/ /\ IsAlias(obey, n)
                  /\ iQueueAliasNode' = Append(iQueueAliasNode, n)
                  /\ UNCHANGED workerVars
               \/ /\ ~IsAlias(obey, n)
                  /\ Goto(w, "place")
                  /\ job' = [job EXCEPT ![w] = n]
                  /\ UNCHANGED iQueueAliasNode
        PROVE  Types' /\ BusyHasJob'
    <3>1. iLastNode' \in 1..(N + 1)
      BY <1>n, <2>2 DEF Nodes
    <3>2. iVPS' \in Seq(Nodes) /\ laid' \in 0..Len(iVPS')
      BY <1>1, <2>2 DEF GetFileNode, mainVars
    <3>a. /\ iQueueAliasNode' = iQueueAliasNode \/ iQueueAliasNode' = Append(iQueueAliasNode, n)
          /\ pc' = pc \/ pc' = [pc EXCEPT ![w] = "place"]
          /\ job' = job \/ job' = [job EXCEPT ![w] = n]
      BY <2>2 DEF workerVars
    <3>q. iQueueAliasNode \in Seq(Nodes)
      OBVIOUS
    <3>r. Append(iQueueAliasNode, n) \in Seq(Nodes)
      BY <3>q, AppendType
    <3>b. iQueueAliasNode' \in Seq(Nodes)
      BY <3>a, <3>q, <3>r
    <3>3. /\ pc' \in [Workers -> Labels]
          /\ job' \in [Workers -> {NULL} \cup Nodes]
      BY <1>1, <2>2, <3>a
    <3>4. BusyHasJob'
      BY <1>1, <2>2 DEF BusyHasJob, Busy, workerVars
    <3>5. QED
      BY <1>1, <3>1, <3>2, <3>b, <3>3, <3>4 DEF GetFileNode, treeVars, mainVars
  <2>3. QED
    BY <1>1, <2>1, <2>2 DEF GetFileNode
<1>2. ASSUME NEW w \in Workers, PlaceFileTest(w) PROVE Types' /\ BusyHasJob'
  <2>1. job[w] \in Nodes
    BY <1>2 DEF PlaceFileTest, BusyHasJob, Busy
  <2>2. pc' \in [Workers -> {"get", "place", "read", "symbol", "arrive", "defer",
                             "placeAlias", "readAlias", "exit"}]
    BY <1>2 DEF PlaceFileTest, AfterPlace
  <2>3. iFileStartOffset' \in [Nodes -> Int]
    BY <1>2, <2>1 DEF PlaceFileTest, KFileHidden, EntryPtr
  <2>4. BusyHasJob'
    BY <1>2, <2>1 DEF PlaceFileTest, BusyHasJob, Busy
  <2>5. QED
    BY <1>2, <2>2, <2>3, <2>4 DEF PlaceFileTest, listVars, mainVars
<1>3. ASSUME NEW w \in Workers, PlaceFileRead(w) PROVE Types' /\ BusyHasJob'
  <2>1. job[w] \in Nodes
    BY <1>3 DEF PlaceFileRead, BusyHasJob, Busy
  <2>2. iFileOffset' \in [Nodes -> Int] /\ len' \in [Nodes -> Int]
    BY <1>3, <2>1, ObeyTypes DEF PlaceFileRead, Placed
  <2>3. BusyHasJob'
    BY <1>3, <2>1 DEF PlaceFileRead, BusyHasJob, Busy
  <2>4. QED
    BY <1>3, <2>2, <2>3 DEF PlaceFileRead, AfterPlace, listVars, mainVars
<1>4. ASSUME NEW w \in Workers, AddSymbol(w) PROVE Types' /\ BusyHasJob'
  <2>1. job[w] \in Nodes /\ obey.entry[job[w]] \in Nodes
    BY <1>4, ObeyTypes DEF AddSymbol, BusyHasJob, Busy
  <2>2. QED
    BY <1>4, <2>1 DEF AddSymbol, BusyHasJob, Busy, listVars, treeVars, mainVars
<1>5. ASSUME NEW w \in Workers, ArriveDeferPoint(w) PROVE Types' /\ BusyHasJob'
  BY <1>5 DEF ArriveDeferPoint, BusyHasJob, Busy, treeVars, mainVars
<1>6. ASSUME NEW w \in Workers, GetDeferredJob(w) PROVE Types' /\ BusyHasJob'
  <2>1. iQueueAliasNode # <<>> =>
           Head(iQueueAliasNode) \in Nodes /\ Tail(iQueueAliasNode) \in Seq(Nodes)
    OBVIOUS
  <2>2. QED
    BY <1>6, <2>1 DEF GetDeferredJob, PopDeferred, BusyHasJob, Busy, treeVars, mainVars
<1>7. CASE JoinAll
  BY <1>7 DEF JoinAll, BusyHasJob, listVars, treeVars, workerVars
<1>8. CASE LayoutSection
  <2>1. Section \in Nodes /\ laid + 1 \in 0..Len(iVPS)
    BY <1>8 DEF LayoutSection, Section
  <2>2. obey.entry[Section] \in Nodes
    BY <2>1, ObeyTypes
  <2>r. Room \in Int
    BY DEF WellFormed, Room
  <2>3. CASE LayoutStops
    <3>1. Room - len[Section] \in Int
      BY <2>1, <2>r
    <3>2. \A i \in Int : <<i>> \in Seq(Int)
      OBVIOUS
    <3>3. ret' \in Seq(Int)
      BY <2>r, <2>3, <3>1, <3>2 DEF LayoutStops
    <3>4. QED
      BY <1>8, <2>3, <3>3 DEF LayoutSection, LayoutStops, BusyHasJob, listVars, workerVars
  <2>4. CASE LayoutGoesOn
    <3> DEFINE n == Section
               e == obey.entry[n]
    <3> HIDE DEF n, e
    <3>a. n \in Nodes /\ e \in Nodes /\ iFileOffset[e] \in Int
      BY <2>1, <2>2 DEF n, e
    <3>b. \/ UNCHANGED <<iFileOffset, iFileStartOffset>>
          \/ /\ iFileOffset' = [iFileOffset EXCEPT ![e] = offset]
             /\ iFileStartOffset' = [iFileStartOffset EXCEPT ![n] = offset]
          \/ /\ iFileStartOffset' = [iFileStartOffset EXCEPT ![n] = iFileOffset[e]]
             /\ UNCHANGED iFileOffset
      BY <2>4 DEF LayoutGoesOn, n, e
    <3>1. iFileOffset' \in [Nodes -> Int] /\ iFileStartOffset' \in [Nodes -> Int]
      <4>1. /\ iFileOffset \in [Nodes -> Int] /\ iFileStartOffset \in [Nodes -> Int]
            /\ offset \in Int
        OBVIOUS
      <4>2. [iFileOffset EXCEPT ![e] = offset] \in [Nodes -> Int]
        BY <3>a, <4>1
      <4>3. [iFileStartOffset EXCEPT ![n] = offset] \in [Nodes -> Int]
        BY <3>a, <4>1
      <4>4. [iFileStartOffset EXCEPT ![n] = iFileOffset[e]] \in [Nodes -> Int]
        BY <3>a, <4>1
      <4> HIDE DEF Types
      <4>5. QED
        BY <3>b, <4>1, <4>2, <4>3, <4>4
    <3>2. offset' \in Int
      BY <2>1, <2>4 DEF LayoutGoesOn, Align4
    <3>3. QED
      BY <1>8, <2>1, <2>4, <3>1, <3>2 DEF LayoutSection, LayoutGoesOn, BusyHasJob, listVars, workerVars
  <2>5. CASE LayoutCrashes
    BY <1>8, <2>5 DEF LayoutSection, LayoutCrashes, BusyHasJob, listVars, workerVars
  <2>6. QED
    BY <1>8, <2>3, <2>4, <2>5 DEF LayoutSection
<1>9. CASE LayoutReturns
  <2>1. ret' \in Seq(Int)
    BY <1>n, <1>9 DEF LayoutReturns
  <2>2. QED
    BY <1>9, <2>1 DEF LayoutReturns, BusyHasJob, listVars, treeVars, workerVars
<1>10. CASE UNCHANGED vars
  BY <1>10 DEF vars, BusyHasJob, listVars, treeVars, workerVars, mainVars
<1>11. QED
  BY <1>1, <1>2, <1>3, <1>4, <1>5, <1>6, <1>7, <1>8, <1>9, <1>10
     DEF Next, MainThread, Work

\* The types hold at the start.
LEMMA InitTypes == Init => TypeStrong /\ ArrivedCount
<1> SUFFICES ASSUME Init PROVE TypeStrong /\ ArrivedCount
  OBVIOUS
<1>1. Arrived = {}
  BY DEF Init, Arrived
<1>2. ArrivedCount
  BY <1>1, FS_EmptySet DEF Init, ArrivedCount
<1>3. Types
  BY LayoutAssumption DEF Init, Types, Nodes, Labels, NULL
<1>4. BusyHasJob
  BY DEF Init, BusyHasJob, Busy
<1>5. QED
  BY <1>2, <1>3, <1>4 DEF TypeStrong

\* Only ArriveDeferPoint adds a worker to Arrived, and none leaves it.
LEMMA NextArrived == TypeStrong /\ ArrivedCount /\ [Next]_vars => ArrivedCount'
<1> SUFFICES ASSUME TypeStrong, ArrivedCount, [Next]_vars PROVE ArrivedCount'
  OBVIOUS
<1>t. pc \in [Workers -> Labels]
  BY DEF TypeStrong, Types
<1>s. Arrived' = Arrived /\ iWorkerArrived' = iWorkerArrived => ArrivedCount'
  BY DEF ArrivedCount
<1> USE DEF Arrived, Goto
<1>1. ASSUME NEW w \in Workers, GetFileNode(w) PROVE ArrivedCount'
  BY <1>1, <1>t, <1>s DEF GetFileNode, workerVars
<1>2. ASSUME NEW w \in Workers, PlaceFileTest(w) PROVE ArrivedCount'
  BY <1>2, <1>t, <1>s DEF PlaceFileTest, AfterPlace, listVars
<1>3. ASSUME NEW w \in Workers, PlaceFileRead(w) PROVE ArrivedCount'
  BY <1>3, <1>t, <1>s DEF PlaceFileRead, AfterPlace, listVars
<1>4. ASSUME NEW w \in Workers, AddSymbol(w) PROVE ArrivedCount'
  BY <1>4, <1>t, <1>s DEF AddSymbol, listVars
<1>5. ASSUME NEW w \in Workers, ArriveDeferPoint(w) PROVE ArrivedCount'
  <2>1. Arrived' = Arrived \cup {w} /\ w \notin Arrived
    BY <1>5, <1>t DEF ArriveDeferPoint
  <2>2. IsFiniteSet(Arrived)
    BY WorkersAssumption, FS_Subset
  <2>3. Cardinality(Arrived') = Cardinality(Arrived) + 1
    BY <2>1, <2>2, FS_AddElement
  <2>4. QED
    BY <1>5, <2>3 DEF ArriveDeferPoint, ArrivedCount
<1>6. ASSUME NEW w \in Workers, GetDeferredJob(w) PROVE ArrivedCount'
  BY <1>6, <1>t, <1>s DEF GetDeferredJob, PopDeferred
<1>7. CASE MainThread
  BY <1>7, <1>s DEF MainThread, JoinAll, LayoutSection, LayoutReturns, workerVars, listVars
<1>8. CASE UNCHANGED vars
  BY <1>8, <1>s DEF vars, workerVars, listVars
<1>9. QED
  BY <1>1, <1>2, <1>3, <1>4, <1>5, <1>6, <1>7, <1>8 DEF Next, Work

\* The state of PlaceFiles has the types TypeOK says, for every node list and every
\* set of workers; in particular iWorkerArrived never passes gThreadNum, which the
\* poll in GetDeferredJob compares it with.
THEOREM TypeCorrect == Spec => []TypeOK
<1>1. TypeStrong /\ ArrivedCount => TypeOK
  BY ArrivedBound DEF TypeStrong, Types, TypeOK
<1>2. QED
  BY <1>1, InitTypes, NextTypes, NextArrived, PTL DEF Spec

-----------------------------------------------------------------------------
(* The order of iVPS *)

\* A step keeps iVPS in the order of the node list.
LEMMA NextVps == TypeStrong /\ VpsFollowsList /\ [Next]_vars => VpsFollowsList'
<1> SUFFICES ASSUME TypeStrong, VpsFollowsList, [Next]_vars PROVE VpsFollowsList'
  OBVIOUS
<1>t. iVPS \in Seq(Nodes) /\ iLastNode \in 1..(N + 1) /\ N \in Nat
  BY LayoutAssumption DEF TypeStrong, Types
<1>1. ASSUME NEW n \in Nodes, NextFile(n), iLastNode' = n + 1, iVPS' = Append(iVPS, n),
             UNCHANGED obey
      PROVE  VpsFollowsList'
  <2>1. /\ Len(iVPS') = Len(iVPS) + 1
        /\ iVPS'[Len(iVPS) + 1] = n
        /\ \A i \in 1..Len(iVPS) : iVPS'[i] = iVPS[i]
    BY <1>1, <1>t
  <2>e. \A i \in 1..Len(iVPS) :
           iVPS[i] \in {m \in Nodes : Visible(obey, m) /\ m < iLastNode}
    BY DEF VpsFollowsList
  <2>2. \A i \in 1..Len(iVPS) : iVPS[i] \in Nodes /\ iVPS[i] < n
    BY <1>1, <1>t, <2>e DEF NextFile, Nodes
  <2>3. \A i, j \in 1..Len(iVPS') : i < j => iVPS'[i] < iVPS'[j]
    BY <2>1, <2>2, <1>t DEF VpsFollowsList
  <2>4. {iVPS'[i] : i \in 1..Len(iVPS')} = {iVPS[i] : i \in 1..Len(iVPS)} \cup {n}
    BY <2>1, <1>t
  <2>5. {m \in Nodes : Visible(obey, m) /\ m < n + 1}
           = {m \in Nodes : Visible(obey, m) /\ m < iLastNode} \cup {n}
    BY <1>1, <1>t DEF NextFile, Nodes
  <2>6. QED
    BY <1>1, <2>3, <2>4, <2>5 DEF VpsFollowsList
<1>2. CASE UNCHANGED <<obey, iVPS, iLastNode>>
  BY <1>2 DEF VpsFollowsList
<1>3. \/ UNCHANGED <<obey, iVPS, iLastNode>>
      \/ \E n \in Nodes : /\ NextFile(n) /\ iLastNode' = n + 1
                          /\ iVPS' = Append(iVPS, n) /\ UNCHANGED obey
  BY DEF Next, Work, GetFileNode, PlaceFileTest, PlaceFileRead, AddSymbol, ArriveDeferPoint,
         GetDeferredJob, PopDeferred, MainThread, JoinAll, LayoutSection, LayoutReturns,
         vars, listVars
<1>4. QED
  BY <1>1, <1>2, <1>3

\* iVPS is the visible files handed out so far, in list order, whatever the workers
\* do: the new section's node is at or after iLastNode, and no visible file is
\* skipped on the way to it.
THEOREM ListOrder == Spec => []VpsFollowsList
<1>1. Init => VpsFollowsList
  BY DEF Init, VpsFollowsList, Nodes
<1>2. QED
  BY <1>1, NextVps, InitTypes, NextTypes, PTL DEF Spec

-----------------------------------------------------------------------------
(* The defer point *)

Normal(n) == Visible(obey, n) /\ ~IsAlias(obey, n)

\* Why the defer point works.  A worker arrives only when the list is exhausted, ...
ExhaustedOnArrival == (\E w \in Workers : pc[w] = "arrive" \/ w \in Arrived) => NoMoreFiles

\* ... a deferred job is taken only when all have arrived, ...
DeferNeedsAll ==
  (\E w \in Workers : pc[w] \in {"placeAlias", "readAlias", "exit"}) => iWorkerArrived >= gThreadNum

\* ... the files placed before that are not aliases, ...
FirstFilesAreNormal == \A w \in Workers : pc[w] \in {"place", "read"} => Normal(job[w])

\* ... each of them handed out is either marked or in the hands of a worker, ...
HandedOutOrMarked ==
  \A n \in Nodes :
     (Normal(n) /\ ~obey.eHidden[n] /\ n < iLastNode) =>
        \/ iFileOffset[n] # 0
        \/ \E w \in Workers : pc[w] \in {"place", "read"} /\ job[w] = n

\* ... and the main thread does nothing until all have ended.
JoinedMeansExit == main # "join" => \A w \in Workers : pc[w] = "exit"

DeferInv ==
  /\ ExhaustedOnArrival
  /\ DeferNeedsAll
  /\ FirstFilesAreNormal
  /\ main = "join" => HandedOutOrMarked
  /\ JoinedMeansExit

LEMMA AllArrived ==
  ASSUME ArrivedCount, iWorkerArrived >= gThreadNum
  PROVE  Arrived = Workers
<1>1. Arrived \subseteq Workers /\ IsFiniteSet(Workers)
  BY WorkersAssumption DEF Arrived
<1>2. Cardinality(Arrived) \in Nat /\ Cardinality(Workers) \in Nat
  BY <1>1, FS_Subset, FS_CardinalityType
<1>3. Cardinality(Arrived) <= Cardinality(Workers)
  BY <1>1, FS_Subset
<1>4. Cardinality(Arrived) = Cardinality(Workers)
  BY <1>2, <1>3 DEF ArrivedCount, gThreadNum
<1>5. QED
  BY <1>1, <1>4, FS_Subset

LEMMA DeferInvImplies ==
  ASSUME TypeStrong, ArrivedCount, DeferInv
  PROVE  AliasesWaitForFiles
<1> SUFFICES ASSUME NEW w \in Workers, pc[w] \in {"placeAlias", "readAlias"},
                    NEW n \in Nodes, Visible(obey, n), ~IsAlias(obey, n), ~obey.eHidden[n]
             PROVE  iFileOffset[n] # 0
  BY DEF AliasesWaitForFiles
<1>1. Arrived = Workers
  BY AllArrived DEF DeferInv, DeferNeedsAll
<1>2. NoMoreFiles
  BY <1>1 DEF DeferInv, ExhaustedOnArrival
<1>i. n \in Int /\ iLastNode \in Int
  BY LayoutAssumption DEF TypeStrong, Types, Nodes
<1>3. n < iLastNode
  BY <1>2, <1>i DEF NoMoreFiles
<1>4. \A v \in Workers : pc[v] \notin {"place", "read"}
  BY <1>1 DEF Arrived
<1>5. main = "join"
  BY DEF DeferInv, JoinedMeansExit
<1>6. QED
  BY <1>3, <1>4, <1>5 DEF DeferInv, HandedOutOrMarked, Normal

\* A file that is not an alias is its own entry.
LEMMA NormalEntry ==
  ASSUME NEW n \in Nodes, Normal(n)
  PROVE  obey.entry[n] = n
BY DEF Normal, IsAlias

\* The hand-over holds at the start.
LEMMA InitDeferInv == Init => DeferInv
BY LayoutAssumption
   DEF Init, DeferInv, ExhaustedOnArrival, DeferNeedsAll, FirstFilesAreNormal,
       HandedOutOrMarked, JoinedMeansExit, Arrived, Nodes

\* A step keeps the hand-over.
LEMMA NextDeferInv ==
  TypeStrong /\ ArrivedCount /\ DeferInv /\ [Next]_vars => DeferInv'
<1> SUFFICES ASSUME TypeStrong, ArrivedCount, DeferInv, [Next]_vars PROVE DeferInv'
  OBVIOUS
<1>t. /\ pc \in [Workers -> Labels] /\ BusyHasJob
      /\ job \in [Workers -> {NULL} \cup Nodes]
      /\ iFileOffset \in [Nodes -> Int]
      /\ iLastNode \in 1..(N + 1) /\ N \in Nat
  BY LayoutAssumption DEF TypeStrong, Types
<1>a. iWorkerArrived \in Nat /\ gThreadNum \in Nat
  BY ArrivedBound, WorkersAssumption, FS_CardinalityType DEF gThreadNum
<1>d. /\ ExhaustedOnArrival /\ DeferNeedsAll /\ FirstFilesAreNormal /\ JoinedMeansExit
      /\ main = "join" => HandedOutOrMarked
  BY DEF DeferInv
<1>e. \A n \in Nodes : Normal(n) => obey.entry[n] = n
  BY NormalEntry
<1> USE DEF Goto
<1>1. ASSUME NEW w \in Workers, GetFileNode(w) PROVE DeferInv'
  <2>m. main = "join" /\ main' = main /\ UNCHANGED <<obey, iFileOffset, iWorkerArrived>>
        /\ pc[w] = "get"
    BY <1>1, <1>d DEF GetFileNode, JoinedMeansExit, mainVars, treeVars
  <2>1. CASE NoMoreFiles /\ UNCHANGED <<iLastNode, job>> /\ pc' = [pc EXCEPT ![w] = "arrive"]
    <3>1. ExhaustedOnArrival' /\ FirstFilesAreNormal' /\ DeferNeedsAll' /\ JoinedMeansExit'
      BY <1>t, <1>d, <2>m, <2>1
         DEF ExhaustedOnArrival, FirstFilesAreNormal, DeferNeedsAll, JoinedMeansExit,
             NoMoreFiles, Normal
    <3>2. HandedOutOrMarked'
      BY <1>t, <1>d, <2>m, <2>1 DEF HandedOutOrMarked, Normal
    <3>3. QED
      BY <3>1, <3>2 DEF DeferInv
  <2>2. ASSUME NEW n \in Nodes, NextFile(n), iLastNode' = n + 1,
               \/ IsAlias(obey, n) /\ UNCHANGED <<pc, job>>
               \/ /\ ~IsAlias(obey, n) /\ pc' = [pc EXCEPT ![w] = "place"]
                  /\ job' = [job EXCEPT ![w] = n]
        PROVE  DeferInv'
    <3>1. \A v \in Workers : pc[v] # "arrive" /\ v \notin Arrived
      BY <1>d, <2>2 DEF NextFile, NoMoreFiles, ExhaustedOnArrival
    <3>2. \A m \in Nodes : Normal(m) /\ m < n + 1 => m < iLastNode \/ m = n
      BY <1>t, <2>2 DEF NextFile, Normal, Nodes
    <3>3. CASE IsAlias(obey, n) /\ UNCHANGED <<pc, job>>
      <4>1. ExhaustedOnArrival' /\ FirstFilesAreNormal' /\ DeferNeedsAll' /\ JoinedMeansExit'
        BY <1>d, <2>m, <3>1, <3>3
           DEF ExhaustedOnArrival, FirstFilesAreNormal, DeferNeedsAll, JoinedMeansExit,
               Arrived, Normal
      <4>2. HandedOutOrMarked'
        BY <1>t, <1>d, <2>m, <2>2, <3>2, <3>3 DEF HandedOutOrMarked, Normal
      <4>3. QED
        BY <4>1, <4>2 DEF DeferInv
    <3>4. CASE ~IsAlias(obey, n) /\ pc' = [pc EXCEPT ![w] = "place"] /\ job' = [job EXCEPT ![w] = n]
      <4>1. Normal(n)
        BY <2>2, <3>4 DEF NextFile, Normal
      <4>2. ExhaustedOnArrival' /\ DeferNeedsAll' /\ JoinedMeansExit'
        BY <1>t, <1>d, <2>m, <3>1, <3>4
           DEF ExhaustedOnArrival, DeferNeedsAll, JoinedMeansExit, Arrived
      <4>3. FirstFilesAreNormal'
        BY <1>t, <1>d, <2>m, <3>4, <4>1 DEF FirstFilesAreNormal, Normal
      <4>4. HandedOutOrMarked'
        BY <1>t, <1>d, <2>m, <2>2, <3>2, <3>4 DEF HandedOutOrMarked, Normal
      <4>5. QED
        BY <4>2, <4>3, <4>4 DEF DeferInv
    <3>5. QED
      BY <2>2, <3>3, <3>4
  <2>3. QED
    BY <1>1, <2>1, <2>2 DEF GetFileNode, workerVars
<1>2. ASSUME NEW w \in Workers, PlaceFileTest(w) PROVE DeferInv'
  <2>1. /\ UNCHANGED <<obey, iLastNode, iWorkerArrived, iFileOffset, job, main>>
        /\ \/ /\ pc[w] = "place"
              /\ obey.eHidden[obey.entry[job[w]]] \/ iFileOffset[obey.entry[job[w]]] # 0
              /\ pc' = [pc EXCEPT ![w] = "symbol"]
           \/ pc[w] = "place" /\ pc' = [pc EXCEPT ![w] = "read"]
           \/ pc[w] = "placeAlias" /\ pc' = [pc EXCEPT ![w] = "readAlias"]
           \/ pc[w] = "placeAlias" /\ pc' = [pc EXCEPT ![w] = "defer"]
    BY <1>2 DEF PlaceFileTest, mainVars, listVars, AfterPlace
  <2>2. ExhaustedOnArrival' /\ DeferNeedsAll' /\ JoinedMeansExit'
    BY <1>t, <1>d, <2>1
       DEF ExhaustedOnArrival, DeferNeedsAll, JoinedMeansExit, Arrived, NoMoreFiles
  <2>3. FirstFilesAreNormal'
    BY <1>t, <1>d, <2>1 DEF FirstFilesAreNormal, Normal
  <2>4. HandedOutOrMarked => HandedOutOrMarked'
    BY <1>t, <1>d, <1>e, <2>1 DEF HandedOutOrMarked, FirstFilesAreNormal, Normal
  <2>5. QED
    BY <1>d, <2>1, <2>2, <2>3, <2>4 DEF DeferInv
<1>3. ASSUME NEW w \in Workers, PlaceFileRead(w) PROVE DeferInv'
  <2>1. /\ UNCHANGED <<obey, iLastNode, iWorkerArrived, job, main>>
        /\ iFileOffset' = [iFileOffset EXCEPT ![obey.entry[job[w]]] = Placed]
        /\ \/ pc[w] = "read" /\ pc' = [pc EXCEPT ![w] = "symbol"]
           \/ pc[w] = "readAlias" /\ pc' = [pc EXCEPT ![w] = "defer"]
    BY <1>3 DEF PlaceFileRead, mainVars, listVars, AfterPlace
  <2>2. ExhaustedOnArrival' /\ DeferNeedsAll' /\ JoinedMeansExit'
    BY <1>t, <1>d, <2>1
       DEF ExhaustedOnArrival, DeferNeedsAll, JoinedMeansExit, Arrived, NoMoreFiles
  <2>3. FirstFilesAreNormal'
    BY <1>t, <1>d, <2>1 DEF FirstFilesAreNormal, Normal
  <2>4. HandedOutOrMarked => HandedOutOrMarked'
    BY <1>t, <1>d, <1>e, <2>1 DEF HandedOutOrMarked, FirstFilesAreNormal, Normal, Placed
  <2>5. QED
    BY <1>d, <2>1, <2>2, <2>3, <2>4 DEF DeferInv
<1>4. ASSUME NEW w \in Workers, AddSymbol(w) PROVE DeferInv'
  <2>1. /\ UNCHANGED <<obey, iLastNode, iWorkerArrived, iFileOffset, job, main>>
        /\ pc[w] = "symbol" /\ pc' = [pc EXCEPT ![w] = "get"]
    BY <1>4 DEF AddSymbol, mainVars, listVars, treeVars
  <2>2. ExhaustedOnArrival' /\ DeferNeedsAll' /\ JoinedMeansExit' /\ FirstFilesAreNormal'
    BY <1>t, <1>d, <2>1
       DEF ExhaustedOnArrival, DeferNeedsAll, JoinedMeansExit, FirstFilesAreNormal, Arrived,
           NoMoreFiles, Normal
  <2>3. HandedOutOrMarked => HandedOutOrMarked'
    BY <1>t, <2>1 DEF HandedOutOrMarked, Normal
  <2>4. QED
    BY <1>d, <2>1, <2>2, <2>3 DEF DeferInv
<1>5. ASSUME NEW w \in Workers, ArriveDeferPoint(w) PROVE DeferInv'
  <2>1. /\ UNCHANGED <<obey, iLastNode, iFileOffset, job, main>>
        /\ pc[w] = "arrive" /\ pc' = [pc EXCEPT ![w] = "defer"]
        /\ iWorkerArrived' = iWorkerArrived + 1
    BY <1>5 DEF ArriveDeferPoint, mainVars, treeVars
  <2>2. ExhaustedOnArrival' /\ DeferNeedsAll' /\ JoinedMeansExit' /\ FirstFilesAreNormal'
    BY <1>t, <1>a, <1>d, <2>1
       DEF ExhaustedOnArrival, DeferNeedsAll, JoinedMeansExit, FirstFilesAreNormal, Arrived,
           NoMoreFiles, Normal, gThreadNum
  <2>3. HandedOutOrMarked => HandedOutOrMarked'
    BY <1>t, <2>1 DEF HandedOutOrMarked, Normal
  <2>4. QED
    BY <1>d, <2>1, <2>2, <2>3 DEF DeferInv
<1>6. ASSUME NEW w \in Workers, GetDeferredJob(w) PROVE DeferInv'
  <2>1. /\ UNCHANGED <<obey, iLastNode, iFileOffset, iWorkerArrived, main>>
        /\ pc[w] = "defer" /\ iWorkerArrived >= gThreadNum
        /\ \/ pc' = [pc EXCEPT ![w] = "placeAlias"] /\ job' = [job EXCEPT ![w] = Head(iQueueAliasNode)]
           \/ pc' = [pc EXCEPT ![w] = "exit"] /\ job' = job
    BY <1>6 DEF GetDeferredJob, PopDeferred, mainVars, treeVars
  <2>2. ExhaustedOnArrival' /\ DeferNeedsAll' /\ JoinedMeansExit' /\ FirstFilesAreNormal'
    BY <1>t, <1>a, <1>d, <2>1
       DEF ExhaustedOnArrival, DeferNeedsAll, JoinedMeansExit, FirstFilesAreNormal, Arrived,
           NoMoreFiles, Normal, gThreadNum
  <2>3. HandedOutOrMarked => HandedOutOrMarked'
    BY <1>t, <2>1 DEF HandedOutOrMarked, Normal
  <2>4. QED
    BY <1>d, <2>1, <2>2, <2>3 DEF DeferInv
<1>7. CASE MainThread
  <2>1. /\ UNCHANGED <<obey, iLastNode, iWorkerArrived, pc, job>>
        /\ \A v \in Workers : pc[v] = "exit"
        /\ main' # "join"
    BY <1>7, <1>d DEF MainThread, JoinAll, LayoutSection, LayoutStops, LayoutGoesOn, LayoutCrashes,
           LayoutReturns, listVars, workerVars, JoinedMeansExit
  <2>2. QED
    BY <1>d, <2>1 DEF DeferInv, ExhaustedOnArrival, DeferNeedsAll, JoinedMeansExit,
           FirstFilesAreNormal, Arrived, NoMoreFiles, gThreadNum
<1>8. CASE UNCHANGED vars
  BY <1>8, <1>d DEF vars, listVars, treeVars, workerVars, mainVars, DeferInv, ExhaustedOnArrival,
     DeferNeedsAll, JoinedMeansExit, FirstFilesAreNormal, HandedOutOrMarked, Arrived,
     NoMoreFiles, Normal, gThreadNum
<1>9. QED
  BY <1>1, <1>2, <1>3, <1>4, <1>5, <1>6, <1>7, <1>8 DEF Next, Work

\* No alias is touched before every other file has been placed, although the workers
\* poll iWorkerArrived without a lock: for every node list and every set of workers.
THEOREM DeferPoint == Spec => []AliasesWaitForFiles
BY DeferInvImplies, InitTypes, NextTypes, NextArrived, InitDeferInv, NextDeferInv, PTL DEF Spec
-----------------------------------------------------------------------------
(* One reader for each file *)

LEMMA AppendElements ==
  ASSUME NEW S, NEW s \in Seq(S), NEW x \in S
  PROVE  /\ Append(s, x) \in Seq(S) /\ Len(Append(s, x)) = Len(s) + 1 /\ Len(s) \in Nat
         /\ Append(s, x)[Len(s) + 1] = x
         /\ \A i \in 1..Len(s) : Append(s, x)[i] = s[i]
OBVIOUS

LEMMA TailElements ==
  ASSUME NEW S, NEW s \in Seq(S), s # <<>>
  PROVE  /\ Len(s) \in Nat /\ 1 <= Len(s) /\ Head(s) = s[1]
         /\ Len(Tail(s)) = Len(s) - 1
         /\ \A i \in 1..Len(Tail(s)) : Tail(s)[i] = s[i + 1] /\ i + 1 \in 1..Len(s)
OBVIOUS

Queued == {iQueueAliasNode[i] : i \in 1..Len(iQueueAliasNode)}

\* A worker has been handed visible nodes only, an alias where the code treats it as one, ...
JobKinds ==
  \A w \in Workers :
     /\ pc[w] \in Busy => Visible(obey, job[w]) /\ job[w] < iLastNode
     /\ pc[w] \in {"place", "read", "symbol"} => ~IsAlias(obey, job[w])
     /\ pc[w] \in {"placeAlias", "readAlias"} => IsAlias(obey, job[w])

\* ... the aliases put aside are nodes handed out, ...
QueuedKinds == \A n \in Queued : Visible(obey, n) /\ IsAlias(obey, n) /\ n < iLastNode

\* ... no two workers have one node, nor is it still put aside, ...
JobsApart ==
  \A w \in Workers : pc[w] \in Busy =>
     /\ job[w] \notin Queued
     /\ \A v \in Workers \ {w} : pc[v] \in Busy => job[v] # job[w]

\* ... and none is put aside twice.
QueuedOnce ==
  \A i, j \in 1..Len(iQueueAliasNode) : i # j => iQueueAliasNode[i] # iQueueAliasNode[j]

NodesApart == JobKinds /\ QueuedKinds /\ JobsApart /\ QueuedOnce

\* No node is in hand at the start.
LEMMA InitNodesApart == Init => NodesApart
BY DEF Init, NodesApart, JobKinds, QueuedKinds, JobsApart, QueuedOnce, Queued, Busy

\* A step keeps the workers on nodes of their own.
LEMMA NextNodesApart == TypeStrong /\ NodesApart /\ [Next]_vars => NodesApart'
<1> SUFFICES ASSUME TypeStrong, NodesApart, [Next]_vars PROVE NodesApart'
  OBVIOUS
<1>t. /\ pc \in [Workers -> Labels] /\ job \in [Workers -> {NULL} \cup Nodes]
      /\ \A w \in Workers : pc[w] \in Busy => job[w] \in Nodes
      /\ iQueueAliasNode \in Seq(Nodes)
      /\ iLastNode \in 1..(N + 1) /\ N \in Nat
  BY LayoutAssumption DEF TypeStrong, Types, BusyHasJob
<1>d. JobKinds /\ QueuedKinds /\ JobsApart /\ QueuedOnce
  BY DEF NodesApart
<1>l. iLastNode \in Int /\ \A n \in Nodes : n \in Int
  BY <1>t DEF Nodes
<1>q. Queued \subseteq Nodes
  BY <1>t DEF Queued
<1> USE DEF Goto
\* Steps that hand out nothing: a worker keeps its node, moves within its kind or lets it go.
<1>k. ASSUME NEW w \in Workers,
             UNCHANGED <<obey, iLastNode, iQueueAliasNode, job>>,
             NEW l \in Labels, pc' = [pc EXCEPT ![w] = l],
             \/ l \notin Busy
             \/ pc[w] \in {"place", "read", "symbol"} /\ l \in {"place", "read", "symbol"}
             \/ pc[w] \in {"placeAlias", "readAlias"} /\ l \in {"placeAlias", "readAlias"}
      PROVE  NodesApart'
  <2>1. \A v \in Workers : /\ pc'[v] \in Busy => pc[v] \in Busy
                           /\ pc'[v] \in {"place", "read", "symbol"} => pc[v] \in {"place", "read", "symbol"}
                           /\ pc'[v] \in {"placeAlias", "readAlias"} => pc[v] \in {"placeAlias", "readAlias"}
    BY <1>k, <1>t DEF Busy
  <2>2. Queued' = Queued
    BY <1>k DEF Queued
  <2>3. JobKinds' /\ JobsApart'
    BY <1>k, <1>d, <2>1, <2>2 DEF JobKinds, JobsApart, Visible, IsAlias
  <2>4. QueuedKinds' /\ QueuedOnce'
    BY <1>k, <1>d, <2>2 DEF QueuedKinds, QueuedOnce, Visible, IsAlias
  <2>5. QED
    BY <2>3, <2>4 DEF NodesApart
<1>1. ASSUME NEW w \in Workers, GetFileNode(w) PROVE NodesApart'
  <2>o. pc[w] = "get" /\ UNCHANGED obey
    BY <1>1 DEF GetFileNode
  <2>1. CASE NoMoreFiles /\ UNCHANGED <<iLastNode, iQueueAliasNode, job>> /\ pc' = [pc EXCEPT ![w] = "arrive"]
    BY <2>1, <2>o, <1>k DEF Busy, Labels
  <2>2. ASSUME NEW n \in Nodes, NextFile(n), iLastNode' = n + 1,
               \/ /\ IsAlias(obey, n) /\ UNCHANGED <<pc, job>>
                  /\ iQueueAliasNode' = Append(iQueueAliasNode, n)
               \/ /\ ~IsAlias(obey, n) /\ pc' = [pc EXCEPT ![w] = "place"]
                  /\ job' = [job EXCEPT ![w] = n] /\ UNCHANGED iQueueAliasNode
        PROVE  NodesApart'
    <3>1. /\ n \in Int /\ iLastNode <= n /\ iLastNode < iLastNode' /\ n < iLastNode'
          /\ Visible(obey, n) /\ UNCHANGED obey
      BY <1>l, <2>o, <2>2 DEF NextFile
    <3>2. /\ n \notin Queued
          /\ \A v \in Workers : pc[v] \in Busy => job[v] # n
      BY <1>d, <1>l, <1>q, <1>t, <3>1 DEF JobKinds, QueuedKinds
    <3>3. \A m \in Nodes : m < iLastNode => m < iLastNode'
      BY <1>l, <2>2, <3>1
    <3>4. CASE /\ IsAlias(obey, n) /\ UNCHANGED <<pc, job>>
               /\ iQueueAliasNode' = Append(iQueueAliasNode, n)
      <4>1. /\ Len(iQueueAliasNode') = Len(iQueueAliasNode) + 1 /\ Len(iQueueAliasNode) \in Nat
            /\ iQueueAliasNode'[Len(iQueueAliasNode) + 1] = n
            /\ \A i \in 1..Len(iQueueAliasNode) : iQueueAliasNode'[i] = iQueueAliasNode[i]
        BY <1>t, <3>4, AppendElements
      <4>2. Queued' = Queued \cup {n}
        BY <4>1 DEF Queued
      <4>3. QueuedOnce'
        BY <1>d, <3>2, <4>1 DEF QueuedOnce, Queued
      <4>4. JobKinds'
        BY <1>d, <1>t, <3>1, <3>3, <3>4 DEF JobKinds, Visible, IsAlias
      <4>5. QueuedKinds'
        BY <1>d, <1>q, <3>1, <3>3, <3>4, <4>2 DEF QueuedKinds, Visible, IsAlias
      <4>6. JobsApart'
        BY <1>d, <3>2, <3>4, <4>2 DEF JobsApart
      <4>7. QED
        BY <4>3, <4>4, <4>5, <4>6 DEF NodesApart
    <3>5. CASE /\ ~IsAlias(obey, n) /\ pc' = [pc EXCEPT ![w] = "place"]
               /\ job' = [job EXCEPT ![w] = n] /\ UNCHANGED iQueueAliasNode
      <4>1. Queued' = Queued /\ QueuedOnce'
        BY <1>d, <3>5 DEF Queued, QueuedOnce
      <4>2. /\ pc'[w] = "place" /\ job'[w] = n
            /\ \A v \in Workers \ {w} : pc'[v] = pc[v] /\ job'[v] = job[v]
        BY <1>t, <3>5
      <4>3. JobKinds'
        <5> SUFFICES ASSUME NEW v \in Workers
                     PROVE  /\ pc'[v] \in Busy => Visible(obey, job'[v]) /\ job'[v] < iLastNode'
                            /\ pc'[v] \in {"place", "read", "symbol"} => ~IsAlias(obey, job'[v])
                            /\ pc'[v] \in {"placeAlias", "readAlias"} => IsAlias(obey, job'[v])
          BY <3>1 DEF JobKinds, Visible, IsAlias
        <5>1. CASE v = w
          BY <3>1, <3>5, <4>2, <5>1
        <5>2. CASE v # w
          BY <1>d, <1>t, <3>3, <4>2, <5>2 DEF JobKinds
        <5>3. QED
          BY <5>1, <5>2
      <4>4. QueuedKinds'
        BY <1>d, <1>q, <3>1, <3>3, <4>1 DEF QueuedKinds, Visible, IsAlias
      <4>5. JobsApart'
        BY <1>d, <3>2, <4>1, <4>2 DEF JobsApart
      <4>6. QED
        BY <4>1, <4>3, <4>4, <4>5 DEF NodesApart
    <3>6. QED
      BY <2>2, <3>4, <3>5
  <2>3. QED
    BY <1>1, <2>1, <2>2 DEF GetFileNode, workerVars
<1>2. ASSUME NEW w \in Workers, PlaceFileTest(w) PROVE NodesApart'
  BY <1>2, <1>k DEF PlaceFileTest, listVars, AfterPlace, Labels, Busy
<1>3. ASSUME NEW w \in Workers, PlaceFileRead(w) PROVE NodesApart'
  BY <1>3, <1>k DEF PlaceFileRead, listVars, AfterPlace, Labels, Busy
<1>4. ASSUME NEW w \in Workers, AddSymbol(w) PROVE NodesApart'
  BY <1>4, <1>k DEF AddSymbol, listVars, Labels, Busy
<1>5. ASSUME NEW w \in Workers, ArriveDeferPoint(w) PROVE NodesApart'
  BY <1>5, <1>k DEF ArriveDeferPoint, Labels, Busy
<1>6. ASSUME NEW w \in Workers, GetDeferredJob(w) PROVE NodesApart'
  <2>1. CASE /\ UNCHANGED <<obey, iLastNode, iQueueAliasNode, job>>
             /\ pc' = [pc EXCEPT ![w] = "exit"]
    BY <2>1, <1>k DEF Labels, Busy
  <2>2. CASE /\ iQueueAliasNode # <<>> /\ UNCHANGED <<obey, iLastNode>>
             /\ job' = [job EXCEPT ![w] = Head(iQueueAliasNode)]
             /\ iQueueAliasNode' = Tail(iQueueAliasNode)
             /\ pc' = [pc EXCEPT ![w] = "placeAlias"]
    <3> DEFINE n == iQueueAliasNode[1]
    <3>1. /\ Len(iQueueAliasNode) \in Nat /\ 1 <= Len(iQueueAliasNode)
          /\ Head(iQueueAliasNode) = n /\ Len(iQueueAliasNode') = Len(iQueueAliasNode) - 1
          /\ \A i \in 1..Len(iQueueAliasNode') :
                iQueueAliasNode'[i] = iQueueAliasNode[i + 1] /\ i + 1 \in 1..Len(iQueueAliasNode)
      BY <1>t, <2>2, TailElements
    <3>2. 1 \in 1..Len(iQueueAliasNode) /\ n \in Queued
      BY <3>1 DEF Queued
    <3>3. \A i \in 1..Len(iQueueAliasNode') : i + 1 # 1
      BY <3>1
    <3>4. Queued' \subseteq Queued /\ n \notin Queued'
      BY <1>d, <3>1, <3>2, <3>3 DEF Queued, QueuedOnce
    <3>5. QueuedOnce'
      <4> SUFFICES ASSUME NEW i \in 1..Len(iQueueAliasNode'), NEW j \in 1..Len(iQueueAliasNode'), i # j
                   PROVE  iQueueAliasNode'[i] # iQueueAliasNode'[j]
        BY DEF QueuedOnce
      <4>1. i + 1 # j + 1
        BY <3>1
      <4>2. QED
        BY <1>d, <3>1, <4>1 DEF QueuedOnce
    <3>6. /\ pc'[w] = "placeAlias" /\ job'[w] = n
          /\ \A v \in Workers \ {w} : pc'[v] = pc[v] /\ job'[v] = job[v]
      BY <1>t, <2>2, <3>1
    <3> HIDE DEF n
    <3>7. Visible(obey, n) /\ IsAlias(obey, n) /\ n < iLastNode
      BY <1>d, <3>2 DEF QueuedKinds
    <3>8. JobKinds'
      <4> SUFFICES ASSUME NEW v \in Workers
                   PROVE  /\ pc'[v] \in Busy => Visible(obey, job'[v]) /\ job'[v] < iLastNode
                          /\ pc'[v] \in {"place", "read", "symbol"} => ~IsAlias(obey, job'[v])
                          /\ pc'[v] \in {"placeAlias", "readAlias"} => IsAlias(obey, job'[v])
        BY <2>2 DEF JobKinds, Visible, IsAlias
      <4>1. CASE v = w
        BY <3>6, <3>7, <4>1
      <4>2. CASE v # w
        BY <1>d, <3>6, <4>2 DEF JobKinds
      <4>3. QED
        BY <4>1, <4>2
    <3>9. QueuedKinds'
      BY <1>d, <2>2, <3>4 DEF QueuedKinds, Visible, IsAlias
    <3>10. JobsApart'
      <4> SUFFICES ASSUME NEW v \in Workers, pc'[v] \in Busy
                   PROVE  /\ job'[v] \notin Queued'
                          /\ \A u \in Workers \ {v} : pc'[u] \in Busy => job'[u] # job'[v]
        BY DEF JobsApart
      <4>1. \A u \in Workers \ {w} : pc[u] \in Busy => job[u] # n
        BY <1>d, <3>2 DEF JobsApart
      <4>2. CASE v = w
        BY <3>4, <3>6, <4>1, <4>2
      <4>3. CASE v # w
        BY <1>d, <3>4, <3>6, <4>1, <4>3 DEF JobsApart
      <4>4. QED
        BY <4>2, <4>3
    <3>11. QED
      BY <3>5, <3>8, <3>9, <3>10 DEF NodesApart
  <2>3. QED
    BY <1>6, <2>1, <2>2 DEF GetDeferredJob, PopDeferred
<1>7. CASE MainThread
  <2>1. UNCHANGED <<obey, iLastNode, iQueueAliasNode, pc, job>>
    BY <1>7 DEF MainThread, JoinAll, LayoutSection, LayoutReturns, listVars, workerVars
  <2>2. QED
    BY <1>d, <2>1 DEF NodesApart, JobKinds, QueuedKinds, JobsApart, QueuedOnce, Queued, Visible, IsAlias
<1>8. CASE UNCHANGED vars
  BY <1>8, <1>d DEF vars, listVars, workerVars, NodesApart, JobKinds, QueuedKinds, JobsApart,
     QueuedOnce, Queued, Visible, IsAlias
<1>9. QED
  BY <1>1, <1>2, <1>3, <1>4, <1>5, <1>6, <1>7, <1>8 DEF Next, Work

\* A file that a worker reads is not hidden, and nobody has marked its entry.
ReadingUnmarked ==
  \A w \in Workers :
     pc[w] \in {"read", "readAlias"} =>
        /\ ~obey.eHidden[obey.entry[job[w]]]
        /\ iFileOffset[obey.entry[job[w]]] = 0

\* Two workers never read one entry: before the defer point a file is its own entry,
\* and after it an alias is read only where its file has no visible name of its own.
LEMMA ReadersApart ==
  ASSUME TypeStrong, ArrivedCount, DeferInv, NodesApart, OrphansAlone(obey),
         NEW v \in Workers, NEW w \in Workers, v # w,
         pc[v] \in {"read", "readAlias"}, pc[w] \in {"read", "readAlias"},
         ~obey.eHidden[obey.entry[job[w]]], iFileOffset[obey.entry[job[w]]] = 0
  PROVE  obey.entry[job[v]] # obey.entry[job[w]]
<1>t. /\ job[v] \in Nodes /\ job[w] \in Nodes /\ WellFormed(obey)
      /\ pc[v] \in Busy /\ pc[w] \in Busy
  BY DEF TypeStrong, Types, BusyHasJob, Busy
<1>d. /\ JobKinds /\ JobsApart
      /\ ExhaustedOnArrival /\ DeferNeedsAll
  BY DEF NodesApart, DeferInv
<1>1. job[v] # job[w] /\ Visible(obey, job[v]) /\ Visible(obey, job[w])
  BY <1>d, <1>t DEF JobKinds, JobsApart
<1>2. CASE pc[v] = "read" /\ pc[w] = "read"
  BY <1>1, <1>2, <1>d DEF JobKinds, IsAlias
<1>3. CASE pc[v] = "readAlias" \/ pc[w] = "readAlias"
  <2>1. Arrived = Workers
    BY <1>3, <1>d, AllArrived DEF DeferNeedsAll
  <2>2. pc[v] = "readAlias" /\ pc[w] = "readAlias"
    BY <2>1 DEF Arrived
  <2> DEFINE e == obey.entry[job[w]]
  <2>3. e \in Nodes /\ obey.entry[e] = e
    BY <1>t DEF WellFormed
  <2>4. AliasesWaitForFiles
    BY DeferInvImplies
  <2>5. ~Visible(obey, e)
    BY <2>2, <2>3, <2>4 DEF AliasesWaitForFiles, IsAlias
  <2>6. Orphaned(obey, e)
    BY <1>1, <1>t, <2>5 DEF Orphaned
  <2>7. QED
    BY <1>1, <1>t, <2>6 DEF OrphansAlone
<1>4. QED
  BY <1>2, <1>3

\* A step keeps the file in a reader's hand unmarked.
LEMMA NextReading ==
  TypeStrong /\ ArrivedCount /\ DeferInv /\ NodesApart /\ (OrphansAlone(obey) => ReadingUnmarked)
     /\ [Next]_vars => (OrphansAlone(obey) => ReadingUnmarked)'
<1> SUFFICES ASSUME TypeStrong, ArrivedCount, DeferInv, NodesApart, [Next]_vars, UNCHANGED obey,
                    OrphansAlone(obey), ReadingUnmarked
             PROVE  ReadingUnmarked'
  BY DEF Next, Work, GetFileNode, PlaceFileTest, PlaceFileRead, AddSymbol, ArriveDeferPoint,
         GetDeferredJob, PopDeferred, MainThread, JoinAll, LayoutSection, LayoutReturns, vars,
         OrphansAlone, Orphaned, Visible
<1>t. /\ pc \in [Workers -> Labels] /\ job \in [Workers -> {NULL} \cup Nodes]
      /\ iFileOffset \in [Nodes -> Int]
      /\ \A w \in Workers : pc[w] \in Busy => job[w] \in Nodes /\ obey.entry[job[w]] \in Nodes
  BY DEF TypeStrong, Types, BusyHasJob, WellFormed
<1> USE DEF Goto
\* Where no worker begins to read and no entry is marked.
<1>k. ASSUME UNCHANGED iFileOffset,
             \A w \in Workers : pc'[w] \in {"read", "readAlias"} => pc[w] = pc'[w] /\ job[w] = job'[w]
      PROVE  ReadingUnmarked'
  BY <1>k DEF ReadingUnmarked
<1>1. ASSUME NEW w \in Workers, GetFileNode(w) PROVE ReadingUnmarked'
  BY <1>1, <1>k, <1>t DEF GetFileNode, treeVars, workerVars
<1>2. ASSUME NEW w \in Workers, PlaceFileTest(w) PROVE ReadingUnmarked'
  <2>1. /\ UNCHANGED <<iFileOffset, job>>
        /\ \A v \in Workers \ {w} : pc'[v] = pc[v]
        /\ \/ pc'[w] \in {"symbol", "defer"}
           \/ ~obey.eHidden[obey.entry[job[w]]] /\ iFileOffset[obey.entry[job[w]]] = 0
    BY <1>2, <1>t DEF PlaceFileTest, AfterPlace
  <2>2. QED
    BY <2>1 DEF ReadingUnmarked
<1>3. ASSUME NEW w \in Workers, PlaceFileRead(w) PROVE ReadingUnmarked'
  <2>1. /\ UNCHANGED job /\ pc[w] \in {"read", "readAlias"}
        /\ pc'[w] \in {"symbol", "defer"}
        /\ \A v \in Workers \ {w} : pc'[v] = pc[v]
        /\ iFileOffset' = [iFileOffset EXCEPT ![obey.entry[job[w]]] = Placed]
    BY <1>3, <1>t DEF PlaceFileRead, AfterPlace
  <2> SUFFICES ASSUME NEW v \in Workers, pc'[v] \in {"read", "readAlias"}
               PROVE  /\ ~obey.eHidden[obey.entry[job[v]]]
                      /\ iFileOffset'[obey.entry[job[v]]] = 0
    BY <2>1 DEF ReadingUnmarked
  <2>2. v # w /\ pc[v] \in {"read", "readAlias"}
    BY <2>1
  <2>3. ~obey.eHidden[obey.entry[job[v]]] /\ iFileOffset[obey.entry[job[v]]] = 0
    BY <2>2 DEF ReadingUnmarked
  <2>4. obey.entry[job[w]] # obey.entry[job[v]]
    BY <2>1, <2>2, <2>3, ReadersApart
  <2>5. obey.entry[job[v]] \in Nodes
    BY <1>t, <2>2 DEF Busy
  <2>6. QED
    BY <1>t, <2>1, <2>3, <2>4, <2>5
<1>4. ASSUME NEW w \in Workers, AddSymbol(w) PROVE ReadingUnmarked'
  BY <1>4, <1>k, <1>t DEF AddSymbol, treeVars
<1>5. ASSUME NEW w \in Workers, ArriveDeferPoint(w) PROVE ReadingUnmarked'
  BY <1>5, <1>k, <1>t DEF ArriveDeferPoint, treeVars
<1>6. ASSUME NEW w \in Workers, GetDeferredJob(w) PROVE ReadingUnmarked'
  BY <1>6, <1>k, <1>t DEF GetDeferredJob, PopDeferred, treeVars
<1>7. CASE MainThread
  <2>1. UNCHANGED pc /\ \A w \in Workers : pc[w] = "exit"
    BY <1>7 DEF MainThread, JoinAll, LayoutSection, LayoutReturns, workerVars, DeferInv, JoinedMeansExit
  <2>2. QED
    BY <2>1 DEF ReadingUnmarked
<1>8. CASE UNCHANGED vars
  BY <1>8, <1>k DEF vars, treeVars, workerVars
<1>9. QED
  BY <1>1, <1>2, <1>3, <1>4, <1>5, <1>6, <1>7, <1>8 DEF Next, Work

\* The bytes of a file are read by one worker, although PlaceFile tests and marks the
\* entry under no lock: for every set of workers and every node list that leaves an
\* orphaned file one visible alias.  (With two of them the workers may race, and they do.)
THEOREM OneReader == Spec => [](OrphansAlone(obey) => ReadsOnce)
<1>1. TypeStrong /\ ArrivedCount /\ DeferInv /\ NodesApart /\ (OrphansAlone(obey) => ReadingUnmarked)
         => (OrphansAlone(obey) => ReadsOnce)
  BY ReadersApart DEF ReadingUnmarked, ReadsOnce
<1>2. Init => (OrphansAlone(obey) => ReadingUnmarked)
  BY DEF Init, ReadingUnmarked
<1>3. QED
  BY <1>1, <1>2, InitTypes, NextTypes, NextArrived, InitDeferInv, NextDeferInv,
     InitNodesApart, NextNodesApart, NextReading, PTL DEF Spec

-----------------------------------------------------------------------------
(* One symbol for each file *)

HasSymbol == {symbols[i] : i \in 1..Len(symbols)}

\* A file that gets a symbol has one as soon as its worker has let go of it.
SymbolsFollow ==
  /\ \A i, j \in 1..Len(symbols) : i # j => symbols[i] # symbols[j]
  /\ \A n \in Nodes :
        n \in HasSymbol <=>
           /\ Normal(n) /\ ~obey.eHidden[n] /\ n < iLastNode
           /\ \A w \in Workers : pc[w] \in {"place", "read", "symbol"} => job[w] # n

\* A step adds the symbol of a node that had none.
LEMMA NextSymbols ==
  TypeStrong /\ NodesApart /\ SymbolsFollow /\ [Next]_vars => SymbolsFollow'
<1> SUFFICES ASSUME TypeStrong, NodesApart, SymbolsFollow, [Next]_vars PROVE SymbolsFollow'
  OBVIOUS
<1> DEFINE Early == {"place", "read", "symbol"}
<1>t. /\ pc \in [Workers -> Labels] /\ job \in [Workers -> {NULL} \cup Nodes]
      /\ \A w \in Workers : pc[w] \in Early => job[w] \in Nodes
      /\ symbols \in Seq(Nodes) /\ WellFormed(obey)
      /\ iLastNode \in Int /\ \A n \in Nodes : n \in Int
  BY LayoutAssumption DEF TypeStrong, Types, BusyHasJob, Busy, Nodes
<1>d. JobKinds /\ JobsApart
  BY DEF NodesApart
<1> USE DEF Goto
\* Where no symbol is added and no node handed out.
<1>k. ASSUME UNCHANGED <<obey, symbols, iLastNode>>,
             \A w \in Workers : /\ pc'[w] \in Early <=> pc[w] \in Early
                                /\ pc[w] \in Early => job'[w] = job[w]
      PROVE  SymbolsFollow'
  BY <1>k DEF SymbolsFollow, HasSymbol, Normal, Visible, IsAlias
<1>1. ASSUME NEW w \in Workers, GetFileNode(w) PROVE SymbolsFollow'
  <2>o. pc[w] = "get" /\ UNCHANGED <<obey, symbols>> /\ HasSymbol' = HasSymbol
    BY <1>1 DEF GetFileNode, HasSymbol
  <2>1. CASE UNCHANGED <<iLastNode, job>> /\ pc' = [pc EXCEPT ![w] = "arrive"]
    BY <1>t, <2>o, <2>1, <1>k
  <2>2. ASSUME NEW n \in Nodes, NextFile(n), iLastNode' = n + 1,
               \/ IsAlias(obey, n) /\ UNCHANGED <<pc, job>>
               \/ /\ ~IsAlias(obey, n) /\ pc' = [pc EXCEPT ![w] = "place"]
                  /\ job' = [job EXCEPT ![w] = n]
        PROVE  SymbolsFollow'
    <3>1. /\ iLastNode <= n
          /\ \A m \in Nodes : m < iLastNode' <=> m < n \/ m = n
          /\ \A m \in Nodes : Normal(m) /\ m < n => m < iLastNode
          /\ \A m \in Nodes : m < iLastNode => m < n
      BY <1>t, <2>2 DEF NextFile, Normal, Nodes
    <3>2. \A m \in Nodes : Normal(m) <=> Normal(m)'
      BY <2>o DEF Normal, Visible, IsAlias
    <3>3. \A v \in Workers : pc[v] \in Early => job[v] # n /\ v # w
      BY <1>d, <1>t, <2>o, <3>1 DEF JobKinds, Busy
    <3>4. n \notin HasSymbol
      BY <1>t, <3>1 DEF SymbolsFollow
    <3>5. \A m \in Nodes \ {n} :
             (\A v \in Workers : pc'[v] \in Early => job'[v] # m)
                <=> (\A v \in Workers : pc[v] \in Early => job[v] # m)
      BY <1>t, <2>2, <2>o
    <3>6. ~Normal(n) \/ \E v \in Workers : pc'[v] \in Early /\ job'[v] = n
      BY <1>t, <2>2 DEF Normal
    <3>7. \A m \in Nodes :
             m \in HasSymbol' <=>
                /\ Normal(m)' /\ ~obey'.eHidden[m] /\ m < iLastNode'
                /\ \A v \in Workers : pc'[v] \in Early => job'[v] # m
      <4> SUFFICES ASSUME NEW m \in Nodes
                   PROVE  m \in HasSymbol' <=>
                             /\ Normal(m)' /\ ~obey'.eHidden[m] /\ m < iLastNode'
                             /\ \A v \in Workers : pc'[v] \in Early => job'[v] # m
        OBVIOUS
      <4>1. CASE m = n
        BY <2>o, <3>2, <3>4, <3>6, <4>1
      <4>2. CASE m # n
        <5>1. Normal(m) => (m < iLastNode' <=> m < iLastNode)
          BY <3>1, <4>2
        <5>2. m \in HasSymbol <=>
                 /\ Normal(m) /\ ~obey.eHidden[m] /\ m < iLastNode
                 /\ \A v \in Workers : pc[v] \in Early => job[v] # m
          BY DEF SymbolsFollow
        <5>3. QED
          BY <2>o, <3>2, <3>5, <4>2, <5>1, <5>2
      <4>3. QED
        BY <4>1, <4>2
    <3>8. QED
      BY <2>o, <3>7 DEF SymbolsFollow
  <2>3. QED
    BY <1>1, <2>1, <2>2 DEF GetFileNode, workerVars
<1>2. ASSUME NEW w \in Workers, PlaceFileTest(w) PROVE SymbolsFollow'
  BY <1>2, <1>k, <1>t DEF PlaceFileTest, AfterPlace, listVars
<1>3. ASSUME NEW w \in Workers, PlaceFileRead(w) PROVE SymbolsFollow'
  BY <1>3, <1>k, <1>t DEF PlaceFileRead, AfterPlace, listVars
<1>4. ASSUME NEW w \in Workers, AddSymbol(w) PROVE SymbolsFollow'
  <2> DEFINE n == job[w]
  <2>1. /\ pc[w] = "symbol" /\ pc' = [pc EXCEPT ![w] = "get"]
        /\ UNCHANGED <<obey, iLastNode, job>>
        /\ symbols' = IF obey.eHidden[obey.entry[n]] THEN symbols ELSE Append(symbols, obey.entry[n])
    BY <1>4 DEF AddSymbol, listVars
  <2>2. n \in Nodes /\ Normal(n) /\ obey.entry[n] = n /\ n < iLastNode
    BY <1>d, <1>t, <2>1 DEF JobKinds, Normal, IsAlias, Busy
  <2>3. /\ \A v \in Workers \ {w} : pc[v] \in Early => job[v] # n
        /\ \A v \in Workers : pc'[v] \in Early <=> pc[v] \in Early /\ v # w
    BY <1>d, <1>t, <2>1 DEF JobsApart, Busy
  <2>4. n \notin HasSymbol
    BY <2>1, <2>2 DEF SymbolsFollow
  <2> HIDE DEF n
  <2>5. \A m \in Nodes \ {n} :
           (\A v \in Workers : pc'[v] \in Early => job'[v] # m)
              <=> (\A v \in Workers : pc[v] \in Early => job[v] # m)
    BY <2>1, <2>3 DEF n
  <2>6. \A v \in Workers : pc'[v] \in Early => job'[v] # n
    BY <2>1, <2>3
  <2>7. \A m \in Nodes : Normal(m) <=> Normal(m)'
    BY <2>1 DEF Normal, Visible, IsAlias
  <2>8. \A m \in Nodes : m \in HasSymbol <=>
                 /\ Normal(m) /\ ~obey.eHidden[m] /\ m < iLastNode
                 /\ \A v \in Workers : pc[v] \in Early => job[v] # m
    BY DEF SymbolsFollow
  <2>9. CASE obey.eHidden[n]
    <3>1. symbols' = symbols /\ HasSymbol' = HasSymbol
      BY <2>1, <2>2, <2>9 DEF HasSymbol
    <3>2. \A m \in Nodes : m \in HasSymbol' <=>
                 /\ Normal(m)' /\ ~obey'.eHidden[m] /\ m < iLastNode'
                 /\ \A v \in Workers : pc'[v] \in Early => job'[v] # m
      BY <2>1, <2>4, <2>5, <2>7, <2>8, <2>9, <3>1
    <3>3. QED
      BY <3>1, <3>2 DEF SymbolsFollow
  <2>10. CASE ~obey.eHidden[n]
    <3>1. symbols' = Append(symbols, n)
      BY <2>1, <2>2, <2>10
    <3>2. /\ Len(symbols') = Len(symbols) + 1 /\ Len(symbols) \in Nat
          /\ symbols'[Len(symbols) + 1] = n
          /\ \A i \in 1..Len(symbols) : symbols'[i] = symbols[i]
      BY <1>t, <2>2, <3>1, AppendElements
    <3>3. HasSymbol' = HasSymbol \cup {n}
      BY <3>2 DEF HasSymbol
    <3>4. \A i, j \in 1..Len(symbols') : i # j => symbols'[i] # symbols'[j]
      BY <2>4, <3>2 DEF HasSymbol, SymbolsFollow
    <3>5. \A m \in Nodes : m \in HasSymbol' <=>
                 /\ Normal(m)' /\ ~obey'.eHidden[m] /\ m < iLastNode'
                 /\ \A v \in Workers : pc'[v] \in Early => job'[v] # m
      BY <2>1, <2>2, <2>5, <2>6, <2>7, <2>8, <2>10, <3>3
    <3>6. QED
      BY <3>4, <3>5 DEF SymbolsFollow
  <2>11. QED
    BY <2>9, <2>10
<1>5. ASSUME NEW w \in Workers, ArriveDeferPoint(w) PROVE SymbolsFollow'
  BY <1>5, <1>k, <1>t DEF ArriveDeferPoint
<1>6. ASSUME NEW w \in Workers, GetDeferredJob(w) PROVE SymbolsFollow'
  BY <1>6, <1>k, <1>t DEF GetDeferredJob, PopDeferred
<1>7. CASE MainThread
  BY <1>7, <1>k DEF MainThread, JoinAll, LayoutSection, LayoutReturns, listVars, workerVars
<1>8. CASE UNCHANGED vars
  BY <1>8, <1>k DEF vars, listVars, workerVars
<1>9. QED
  BY <1>1, <1>2, <1>3, <1>4, <1>5, <1>6, <1>7, <1>8 DEF Next, Work

\* When the threads have been joined the symbol generator has been handed every visible
\* file that its entry does not hide, each once, and no alias: for every node list and
\* every set of workers.
THEOREM SymbolsComplete == Spec => []SymbolsOnceEach
<1>1. Init => SymbolsFollow
  BY LayoutAssumption DEF Init, SymbolsFollow, HasSymbol, Nodes
<1>2. TypeStrong /\ ArrivedCount /\ DeferInv /\ SymbolsFollow => SymbolsOnceEach
  <2> SUFFICES ASSUME TypeStrong, DeferInv, SymbolsFollow, main # "join" PROVE SymbolsOnceEach
    BY DEF SymbolsOnceEach
  <2>1. \A w \in Workers : pc[w] = "exit"
    BY DEF DeferInv, JoinedMeansExit
  <2>2. NoMoreFiles
    BY <2>1, WorkersAssumption DEF DeferInv, ExhaustedOnArrival, Arrived
  <2>3. \A n \in Nodes : Visible(obey, n) => n < iLastNode
    BY <2>2, LayoutAssumption DEF NoMoreFiles, TypeStrong, Types, Nodes
  <2>4. HasSymbol \subseteq Nodes
    BY DEF HasSymbol, TypeStrong, Types
  <2>5. HasSymbol = {n \in Nodes : Visible(obey, n) /\ ~IsAlias(obey, n) /\ ~obey.eHidden[n]}
    BY <2>1, <2>3, <2>4 DEF SymbolsFollow, Normal
  <2>6. QED
    BY <2>5 DEF SymbolsFollow, SymbolsOnceEach, HasSymbol
<1>3. QED
  BY <1>1, <1>2, InitTypes, NextTypes, NextArrived, InitDeferInv, NextDeferInv,
     InitNodesApart, NextNodesApart, NextSymbols, PTL DEF Spec

-----------------------------------------------------------------------------
(***************************************************************************)
(* The threads implement the serial layout of RofsLayout, for every node   *)
(* list that leaves an orphaned file one visible alias.                    *)
(***************************************************************************)

(* The names of a file *)

\* The node whose worker reads the file: the file's own, or the alias of an orphaned one.
Reader(n) == obey.entry[n] = n \/ ~Visible(obey, obey.entry[n])

Shown(n) == Visible(obey, n) /\ ~obey.eHidden[obey.entry[n]]

\* It is the first visible name of the file...
LEMMA ReaderIsFirst ==
  ASSUME WellFormed(obey), OrphansAlone(obey), NEW n \in Nodes, Shown(n)
  PROVE  FirstName(obey, n) <=> Reader(n)
<1> DEFINE e == obey.entry[n]
<1>1. /\ e \in Nodes /\ obey.entry[e] = e /\ e <= n /\ N \in Nat /\ Visible(obey, n)
      /\ n \in Int /\ 1 <= n /\ n <= N
  BY LayoutAssumption DEF WellFormed, Nodes, Shown
<1>2. ASSUME FirstName(obey, n), e # n, Visible(obey, e) PROVE FALSE
  <2>1. e \in 1..(n - 1)
    BY <1>1, <1>2 DEF Nodes
  <2>2. QED
    BY <1>1, <1>2, <2>1 DEF FirstName
<1>3. ASSUME e = n PROVE FirstName(obey, n)
  <2> SUFFICES ASSUME NEW m \in 1..(n - 1) PROVE obey.entry[m] # n
    BY <1>3 DEF FirstName
  <2>1. m \in Nodes /\ m < n
    BY <1>1 DEF Nodes
  <2>2. obey.entry[m] <= m /\ obey.entry[m] \in Nodes
    BY <2>1 DEF WellFormed
  <2>3. QED
    BY <1>1, <2>1, <2>2 DEF Nodes
<1>4. ASSUME ~Visible(obey, e) PROVE FirstName(obey, n)
  <2> SUFFICES ASSUME NEW m \in 1..(n - 1), Visible(obey, m), obey.entry[m] = e PROVE FALSE
    BY DEF FirstName
  <2>1. m \in Nodes /\ m # n
    BY <1>1 DEF Nodes
  <2>2. Orphaned(obey, e)
    BY <1>1, <1>4 DEF Orphaned
  <2>3. QED
    BY <1>1, <2>1, <2>2 DEF OrphansAlone, Shown
<1>5. QED
  BY <1>2, <1>3, <1>4 DEF Reader

\* ... and the only such name.
LEMMA ReaderIsOne ==
  ASSUME OrphansAlone(obey), NEW m \in Nodes, NEW n \in Nodes, Shown(m), Shown(n),
         Reader(m), Reader(n), obey.entry[m] = obey.entry[n]
  PROVE  m = n
BY DEF Reader, Shown, OrphansAlone, Orphaned

\* A name that is not the reader's is an alias of a file that has its own.
LEMMA NoReader ==
  ASSUME WellFormed(obey), NEW n \in Nodes, Shown(n), ~Reader(n)
  PROVE  LET e == obey.entry[n]
         IN  e \in Nodes /\ e < n /\ Shown(e) /\ Reader(e) /\ obey.entry[e] = e
<1> DEFINE e == obey.entry[n]
<1>1. e \in Nodes /\ obey.entry[e] = e /\ e <= n /\ e # n /\ Visible(obey, e) /\ ~obey.eHidden[e]
  BY DEF WellFormed, Reader, Shown
<1>2. e < n
  BY <1>1, LayoutAssumption DEF Nodes
<1>3. QED
  BY <1>1, <1>2 DEF Shown, Reader

-----------------------------------------------------------------------------
(* What the workers leave in the sections *)

InHand == {"place", "read", "placeAlias", "readAlias"}

\* The nodes whose PlaceFile has not returned.
Pending ==
  {n \in Nodes : n >= iLastNode} \cup Queued
     \cup {n \in Nodes : \E w \in Workers : pc[w] \in InHand /\ job[w] = n}

\* What PlaceFile leaves for a node.
PlacedAs(n) ==
  LET e == obey.entry[n]
  IN  IF obey.eHidden[e] THEN iFileStartOffset[n] = KFileHidden /\ len[n] = 0
      ELSE IF Reader(n)
           THEN iFileStartOffset[n] = 0 /\ len[n] = PlacedLen(obey, n) /\ iFileOffset[e] = Placed
           ELSE iFileStartOffset[n] = EntryPtr /\ len[n] = 0

\* Nothing is left for a node that is pending or no visible file, and its file is not
\* marked when it is the one to read it.
Untouched(n) ==
  /\ iFileStartOffset[n] = 0 /\ len[n] = 0
  /\ Shown(n) /\ Reader(n) => iFileOffset[obey.entry[n]] = 0

SectionsInv ==
  /\ \A n \in Nodes : ~Visible(obey, n) => iFileStartOffset[n] = 0
  /\ \A n \in Nodes : Visible(obey, n) => IF n \in Pending THEN Untouched(n) ELSE PlacedAs(n)
  /\ \A w \in Workers : pc[w] \in {"read", "readAlias"} => Shown(job[w]) /\ Reader(job[w])

\* A worker leaves when nothing is put aside, and nothing is put aside after that.
ExitsEmpty == \A w \in Workers : pc[w] = "exit" => iQueueAliasNode = <<>>

\* While the workers run the main thread has laid out nothing.
JoinInv ==
  /\ ExitsEmpty
  /\ main = "join" => laid = 0 /\ offset = Base /\ ret = <<>> /\ SectionsInv

\* All that is known of the workers.
WorkersInv == TypeStrong /\ ArrivedCount /\ DeferInv /\ NodesApart /\ OrphansAlone(obey)

\* Nothing is placed when the threads start.
LEMMA InitJoin == Init => JoinInv
<1> SUFFICES ASSUME Init PROVE JoinInv
  OBVIOUS
<1>1. Pending = Nodes
  BY LayoutAssumption DEF Init, Pending, Nodes, Queued
<1>2. \A n \in Nodes : iFileStartOffset[n] = 0 /\ len[n] = 0
  BY DEF Init
<1>3. \A n \in Nodes : obey.entry[n] \in Nodes
  BY LayoutAssumption DEF Init, WellFormed
<1>4. SectionsInv
  BY <1>1, <1>2, <1>3 DEF Init, SectionsInv, Untouched
<1>5. QED
  BY <1>4 DEF Init, JoinInv, ExitsEmpty

\* Once a worker runs, the main thread waits for it.
LEMMA WorkerMeansJoin ==
  ASSUME DeferInv, NEW w \in Workers, pc[w] # "exit"
  PROVE  main = "join"
BY DEF DeferInv, JoinedMeansExit

\* A worker that leaves finds nothing put aside, and nobody is left to put anything aside.
LEMMA NextExits == TypeStrong /\ ArrivedCount /\ DeferInv /\ ExitsEmpty /\ [Next]_vars => ExitsEmpty'
<1> SUFFICES ASSUME TypeStrong, ArrivedCount, DeferInv, ExitsEmpty, [Next]_vars PROVE ExitsEmpty'
  OBVIOUS
<1>t. pc \in [Workers -> Labels]
  BY DEF TypeStrong, Types
<1>k. ASSUME UNCHANGED iQueueAliasNode, \A w \in Workers : pc'[w] = "exit" => pc[w] = "exit"
      PROVE  ExitsEmpty'
  BY <1>k DEF ExitsEmpty
<1> USE DEF Goto
<1>1. ASSUME NEW w \in Workers, GetFileNode(w) PROVE ExitsEmpty'
  <2>1. \A v \in Workers : pc[v] # "exit"
    <3> SUFFICES ASSUME NEW v \in Workers, pc[v] = "exit" PROVE FALSE
      OBVIOUS
    <3>1. Arrived = Workers
      BY AllArrived DEF DeferInv, DeferNeedsAll
    <3>2. QED
      BY <1>1, <3>1 DEF GetFileNode, Arrived
  <2>2. \A v \in Workers : pc'[v] # "exit"
    BY <1>1, <1>t, <2>1 DEF GetFileNode, workerVars
  <2>3. QED
    BY <2>2 DEF ExitsEmpty
<1>2. ASSUME NEW w \in Workers, PlaceFileTest(w) PROVE ExitsEmpty'
  BY <1>2, <1>k, <1>t DEF PlaceFileTest, AfterPlace, listVars
<1>3. ASSUME NEW w \in Workers, PlaceFileRead(w) PROVE ExitsEmpty'
  BY <1>3, <1>k, <1>t DEF PlaceFileRead, AfterPlace, listVars
<1>4. ASSUME NEW w \in Workers, AddSymbol(w) PROVE ExitsEmpty'
  BY <1>4, <1>k, <1>t DEF AddSymbol, listVars
<1>5. ASSUME NEW w \in Workers, ArriveDeferPoint(w) PROVE ExitsEmpty'
  BY <1>5, <1>k, <1>t DEF ArriveDeferPoint
<1>6. ASSUME NEW w \in Workers, GetDeferredJob(w) PROVE ExitsEmpty'
  BY <1>6, <1>t DEF GetDeferredJob, PopDeferred, ExitsEmpty
<1>7. CASE MainThread
  BY <1>7, <1>k DEF MainThread, JoinAll, LayoutSection, LayoutReturns, listVars, workerVars
<1>8. CASE UNCHANGED vars
  BY <1>8, <1>k DEF vars, listVars, workerVars
<1>9. QED
  BY <1>1, <1>2, <1>3, <1>4, <1>5, <1>6, <1>7, <1>8 DEF Next, Work

\* A step that leaves the entries and sections alone, and the same visible files pending.
LEMMA SectionsKept ==
  ASSUME SectionsInv, UNCHANGED <<obey, treeVars>>,
         \A n \in Nodes : Visible(obey, n) => (n \in Pending' <=> n \in Pending),
         \A w \in Workers : pc'[w] \in {"read", "readAlias"} => pc[w] = pc'[w] /\ job[w] = job'[w]
  PROVE  SectionsInv'
BY DEF SectionsInv, treeVars, Untouched, PlacedAs, Shown, Reader, Visible, PlacedLen

\* A visible file that is handed out stays pending.
LEMMA HandOut ==
  ASSUME TypeStrong, NEW w \in Workers, GetFileNode(w)
  PROVE  \A m \in Nodes : Visible(obey, m) => (m \in Pending' <=> m \in Pending)
<1>t. /\ pc \in [Workers -> Labels] /\ job \in [Workers -> {NULL} \cup Nodes]
      /\ iQueueAliasNode \in Seq(Nodes)
      /\ iLastNode \in Int /\ \A n \in Nodes : n \in Int
  BY LayoutAssumption DEF TypeStrong, Types, Nodes
<1>o. pc[w] = "get" /\ \A v \in Workers \ {w} : pc'[v] = pc[v] /\ job'[v] = job[v]
  BY <1>t DEF GetFileNode, workerVars, Goto
<1>1. CASE UNCHANGED <<iLastNode, iQueueAliasNode, job>> /\ pc' = [pc EXCEPT ![w] = "arrive"]
  <2>1. Queued' = Queued /\ pc'[w] = "arrive"
    BY <1>t, <1>1 DEF Queued
  <2>2. QED
    BY <1>o, <1>1, <2>1 DEF Pending, InHand
<1>2. ASSUME NEW n \in Nodes, NextFile(n), iLastNode' = n + 1,
             \/ /\ IsAlias(obey, n) /\ UNCHANGED <<pc, job>>
                /\ iQueueAliasNode' = Append(iQueueAliasNode, n)
             \/ /\ ~IsAlias(obey, n) /\ pc' = [pc EXCEPT ![w] = "place"]
                /\ job' = [job EXCEPT ![w] = n] /\ UNCHANGED iQueueAliasNode
      PROVE  \A m \in Nodes : Visible(obey, m) => (m \in Pending' <=> m \in Pending)
  <2> SUFFICES ASSUME NEW m \in Nodes, Visible(obey, m) PROVE m \in Pending' <=> m \in Pending
    OBVIOUS
  <2> DEFINE hand == \E v \in Workers : pc[v] \in InHand /\ job[v] = m
             handNow == \E v \in Workers : pc'[v] \in InHand /\ job'[v] = m
  <2>1. m >= iLastNode <=> m >= iLastNode' \/ m = n
    BY <1>t, <1>2 DEF NextFile, Nodes
  <2>2. CASE /\ UNCHANGED <<pc, job>>
             /\ iQueueAliasNode' = Append(iQueueAliasNode, n)
    <3>1. /\ Len(iQueueAliasNode') = Len(iQueueAliasNode) + 1 /\ Len(iQueueAliasNode) \in Nat
          /\ iQueueAliasNode'[Len(iQueueAliasNode) + 1] = n
          /\ \A i \in 1..Len(iQueueAliasNode) : iQueueAliasNode'[i] = iQueueAliasNode[i]
      BY <1>t, <2>2, AppendElements
    <3>2. Queued' = Queued \cup {n}
      BY <3>1 DEF Queued
    <3>3. QED
      BY <2>1, <2>2, <3>2, <1>t, <1>2 DEF Pending, NextFile
  <2>3. CASE /\ pc' = [pc EXCEPT ![w] = "place"]
             /\ job' = [job EXCEPT ![w] = n] /\ UNCHANGED iQueueAliasNode
    <3>1. Queued' = Queued
      BY <2>3 DEF Queued
    <3>2. pc'[w] = "place" /\ job'[w] = n
      BY <1>t, <2>3
    <3>3. handNow <=> hand \/ m = n
      BY <1>o, <3>2 DEF InHand
    <3>4. QED
      BY <2>1, <3>1, <3>3, <1>t, <1>2 DEF Pending, NextFile
  <2>4. QED
    BY <1>2, <2>2, <2>3
<1>3. QED
  BY <1>1, <1>2 DEF GetFileNode, workerVars, Goto

\* So does an alias that a worker takes from those put aside.
LEMMA TakeDeferred ==
  ASSUME TypeStrong, NEW w \in Workers, GetDeferredJob(w)
  PROVE  Pending' = Pending
<1>t. /\ pc \in [Workers -> Labels] /\ job \in [Workers -> {NULL} \cup Nodes]
      /\ iQueueAliasNode \in Seq(Nodes)
  BY DEF TypeStrong, Types
<1>o. /\ pc[w] = "defer" /\ UNCHANGED iLastNode
      /\ \A v \in Workers \ {w} : pc'[v] = pc[v] /\ job'[v] = job[v]
  BY <1>t DEF GetDeferredJob, PopDeferred, Goto
<1>1. CASE UNCHANGED <<iQueueAliasNode, job>> /\ pc' = [pc EXCEPT ![w] = "exit"]
  <2>1. Queued' = Queued /\ pc'[w] = "exit"
    BY <1>t, <1>1 DEF Queued
  <2>2. QED
    BY <1>o, <1>1, <2>1 DEF Pending, InHand
<1>2. CASE /\ iQueueAliasNode # <<>>
           /\ job' = [job EXCEPT ![w] = Head(iQueueAliasNode)]
           /\ iQueueAliasNode' = Tail(iQueueAliasNode)
           /\ pc' = [pc EXCEPT ![w] = "placeAlias"]
  <2> DEFINE n == iQueueAliasNode[1]
             hand == {m \in Nodes : \E v \in Workers : pc[v] \in InHand /\ job[v] = m}
  <2>1. /\ Len(iQueueAliasNode) \in Nat /\ 1 <= Len(iQueueAliasNode)
        /\ Head(iQueueAliasNode) = n /\ Len(iQueueAliasNode') = Len(iQueueAliasNode) - 1
        /\ \A i \in 1..Len(iQueueAliasNode') :
              iQueueAliasNode'[i] = iQueueAliasNode[i + 1] /\ i + 1 \in 1..Len(iQueueAliasNode)
    BY <1>t, <1>2, TailElements
  <2>2. Queued = Queued' \cup {n}
    <3>1. Queued' \cup {n} \subseteq Queued
      BY <2>1 DEF Queued
    <3>2. ASSUME NEW i \in 1..Len(iQueueAliasNode) PROVE iQueueAliasNode[i] \in Queued' \cup {n}
      <4>1. CASE i = 1
        BY <4>1
      <4>2. CASE i # 1
        <5>1. i - 1 \in 1..Len(iQueueAliasNode') /\ (i - 1) + 1 = i
          BY <2>1, <4>2
        <5>2. iQueueAliasNode'[i - 1] = iQueueAliasNode[i]
          BY <2>1, <5>1
        <5>3. QED
          BY <5>1, <5>2 DEF Queued
      <4>3. QED
        BY <4>1, <4>2
    <3>3. QED
      BY <3>1, <3>2 DEF Queued
  <2>3. n \in Nodes /\ pc'[w] = "placeAlias" /\ job'[w] = n
    BY <1>t, <1>2, <2>1
  <2> HIDE DEF n
  <2>4. hand' = hand \cup {n}
    BY <1>o, <2>3 DEF InHand
  <2>5. QED
    BY <1>o, <2>2, <2>4 DEF Pending
<1>3. QED
  BY <1>1, <1>2 DEF GetDeferredJob, PopDeferred, Goto

\* A worker whose PlaceFile has returned: its node alone is no longer pending.
LEMMA LetGo ==
  ASSUME WorkersInv, NEW w \in Workers, pc[w] \in InHand,
         UNCHANGED <<iLastNode, iQueueAliasNode, job>>,
         NEW l \in {"symbol", "defer"}, pc' = [pc EXCEPT ![w] = l]
  PROVE  \A m \in Nodes : m \in Pending' <=> m \in Pending /\ m # job[w]
<1>t. /\ pc \in [Workers -> Labels] /\ pc[w] \in Busy /\ job[w] \in Nodes
      /\ iLastNode \in Int /\ \A n \in Nodes : n \in Int
  BY LayoutAssumption DEF WorkersInv, TypeStrong, Types, Nodes, BusyHasJob, Busy, InHand
<1>1. /\ job[w] \notin Queued /\ job[w] < iLastNode
      /\ \A v \in Workers \ {w} : pc[v] \in Busy => job[v] # job[w]
  BY <1>t DEF WorkersInv, NodesApart, JobsApart, JobKinds
<1>2. Queued' = Queued
  BY DEF Queued
<1>3. \A v \in Workers : pc'[v] \in InHand <=> pc[v] \in InHand /\ v # w
  BY <1>t DEF InHand
<1> SUFFICES ASSUME NEW m \in Nodes PROVE m \in Pending' <=> m \in Pending /\ m # job[w]
  OBVIOUS
<1>4. CASE m = job[w]
  BY <1>t, <1>1, <1>2, <1>3, <1>4 DEF Pending, InHand, Busy
<1>5. CASE m # job[w]
  BY <1>t, <1>1, <1>2, <1>3, <1>5 DEF Pending
<1>6. QED
  BY <1>4, <1>5

\* The node of a worker at PlaceFile is pending.
LEMMA InHandPending ==
  ASSUME WorkersInv, NEW w \in Workers, pc[w] \in InHand
  PROVE  job[w] \in Nodes /\ job[w] \in Pending /\ Visible(obey, job[w])
         /\ obey.entry[job[w]] \in Nodes
BY DEF WorkersInv, TypeStrong, Types, BusyHasJob, Busy, InHand, Pending, NodesApart, JobKinds, WellFormed

\* PlaceFile of a hidden entry, of one that is marked, and of one to be read.
LEMMA TestSections ==
  ASSUME WorkersInv, JoinInv, main = "join", NEW w \in Workers, PlaceFileTest(w)
  PROVE  SectionsInv'
<1> DEFINE n == job[w]
           e == obey.entry[n]
<1>t. /\ pc \in [Workers -> Labels] /\ job \in [Workers -> {NULL} \cup Nodes]
      /\ iFileStartOffset \in [Nodes -> Int] /\ WellFormed(obey)
  BY DEF WorkersInv, TypeStrong, Types
<1>1. /\ pc[w] \in {"place", "placeAlias"} /\ pc[w] \in InHand
      /\ UNCHANGED <<obey, iFileOffset, len, job, iLastNode, iQueueAliasNode>>
      /\ \A v \in Workers \ {w} : pc'[v] = pc[v]
  BY <1>t DEF PlaceFileTest, listVars, InHand, Goto
<1>2. n \in Nodes /\ n \in Pending /\ Visible(obey, n) /\ e \in Nodes
  BY <1>1, InHandPending
<1>3. SectionsInv
  BY DEF JoinInv
<1>4. iFileStartOffset[n] = 0 /\ len[n] = 0 /\ (Shown(n) /\ Reader(n) => iFileOffset[e] = 0)
  BY <1>2, <1>3 DEF SectionsInv, Untouched
<1>5. \A m \in Nodes : /\ Shown(m)' = Shown(m) /\ Reader(m)' = Reader(m)
                       /\ Visible(obey, m)' = Visible(obey, m) /\ PlacedLen(obey, m)' = PlacedLen(obey, m)
  BY <1>1 DEF Shown, Reader, Visible, PlacedLen
\* The two ends without a read.
<1>6. ASSUME NEW s, iFileStartOffset' = [iFileStartOffset EXCEPT ![n] = s],
             pc' = [pc EXCEPT ![w] = AfterPlace(w)],
             \/ obey.eHidden[e] /\ s = KFileHidden
             \/ ~obey.eHidden[e] /\ iFileOffset[e] # 0 /\ s = EntryPtr
      PROVE  SectionsInv'
  <2>1. AfterPlace(w) \in {"symbol", "defer"} /\ pc'[w] \in {"symbol", "defer"}
    BY <1>t, <1>6 DEF AfterPlace
  <2>2. \A m \in Nodes : m \in Pending' <=> m \in Pending /\ m # n
    BY <1>1, <1>6, <2>1, LetGo
  <2>3. iFileStartOffset'[n] = s /\ \A m \in Nodes \ {n} : iFileStartOffset'[m] = iFileStartOffset[m]
    BY <1>t, <1>2, <1>6
  <2>4. PlacedAs(n)'
    <3>1. CASE obey.eHidden[e] /\ s = KFileHidden
      BY <1>1, <1>4, <2>3, <3>1 DEF PlacedAs
    <3>2. CASE ~obey.eHidden[e] /\ iFileOffset[e] # 0 /\ s = EntryPtr
      BY <1>1, <1>2, <1>4, <1>5, <2>3, <3>2 DEF PlacedAs, Shown
    <3>3. QED
      BY <1>6, <3>1, <3>2
  <2>5. ASSUME NEW m \in Nodes, m # n, Visible(obey, m)
        PROVE  IF m \in Pending' THEN Untouched(m)' ELSE PlacedAs(m)'
    <3>1. IF m \in Pending THEN Untouched(m) ELSE PlacedAs(m)
      BY <1>3, <2>5 DEF SectionsInv
    <3>2. m \in Pending' <=> m \in Pending
      BY <2>2, <2>5
    <3>3. QED
      BY <1>1, <1>5, <2>3, <2>5, <3>1, <3>2 DEF Untouched, PlacedAs
  <2>6. \A m \in Nodes : ~Visible(obey, m) => iFileStartOffset'[m] = 0
    BY <1>2, <1>3, <2>3 DEF SectionsInv
  <2>7. \A v \in Workers : pc'[v] \in {"read", "readAlias"} => Shown(job[v])' /\ Reader(job[v])'
    <3> SUFFICES ASSUME NEW v \in Workers, pc'[v] \in {"read", "readAlias"}
                 PROVE  Shown(job[v])' /\ Reader(job[v])'
      OBVIOUS
    <3>1. pc[v] \in {"read", "readAlias"}
      BY <1>1, <2>1
    <3>2. job[v] \in Nodes
      BY <3>1, InHandPending DEF InHand
    <3>3. Shown(job[v]) /\ Reader(job[v])
      BY <1>3, <3>1 DEF SectionsInv
    <3>4. QED
      BY <1>1, <3>3 DEF Shown, Reader, Visible
  <2>8. QED
    BY <1>1, <1>5, <2>2, <2>4, <2>5, <2>6, <2>7 DEF SectionsInv
\* The start of a read.
<1>7. ASSUME ~obey.eHidden[e], iFileOffset[e] = 0, UNCHANGED iFileStartOffset,
             NEW l \in {"read", "readAlias"}, pc' = [pc EXCEPT ![w] = l]
      PROVE  SectionsInv'
  <2>1. Shown(n)
    BY <1>2, <1>7 DEF Shown
  <2>2. Reader(n)
    <3>1. CASE pc[w] = "place"
      BY <3>1 DEF WorkersInv, NodesApart, JobKinds, IsAlias, Reader
    <3>2. CASE pc[w] = "placeAlias"
      <4>1. AliasesWaitForFiles
        BY DeferInvImplies DEF WorkersInv
      <4>2. obey.entry[e] = e
        BY <1>t, <1>2 DEF WellFormed
      <4>3. QED
        BY <1>2, <1>7, <3>2, <4>1, <4>2 DEF AliasesWaitForFiles, IsAlias, Reader
    <3>3. QED
      BY <1>1, <3>1, <3>2
  <2>3. Pending' = Pending
    <3>1. Queued' = Queued
      BY <1>1 DEF Queued
    <3>2. \A v \in Workers : pc'[v] \in InHand <=> pc[v] \in InHand
      BY <1>t, <1>1, <1>7 DEF InHand
    <3>3. QED
      BY <1>1, <3>1, <3>2 DEF Pending
  <2>4. \A v \in Workers : pc'[v] \in {"read", "readAlias"} => Shown(job[v]) /\ Reader(job[v])
    BY <1>1, <1>3, <2>1, <2>2 DEF SectionsInv
  <2>5. QED
    BY <1>1, <1>3, <1>7, <2>3, <2>4 DEF SectionsInv, Untouched, PlacedAs, Shown, Reader, Visible, PlacedLen
<1>8. QED
  BY <1>1, <1>6, <1>7 DEF PlaceFileTest, Goto

\* The end of a read.
LEMMA ReadSections ==
  ASSUME WorkersInv, JoinInv, main = "join", NEW w \in Workers, PlaceFileRead(w)
  PROVE  SectionsInv'
<1> DEFINE n == job[w]
           e == obey.entry[n]
<1>t. /\ pc \in [Workers -> Labels]
      /\ iFileOffset \in [Nodes -> Int] /\ len \in [Nodes -> Int]
      /\ WellFormed(obey) /\ OrphansAlone(obey)
  BY DEF WorkersInv, TypeStrong, Types
<1>1. /\ pc[w] \in {"read", "readAlias"} /\ pc[w] \in InHand
      /\ UNCHANGED <<obey, iFileStartOffset, job, iLastNode, iQueueAliasNode>>
      /\ iFileOffset' = [iFileOffset EXCEPT ![e] = Placed]
      /\ len' = [len EXCEPT ![n] = PlacedLen(obey, n)]
      /\ pc' = [pc EXCEPT ![w] = AfterPlace(w)]
      /\ AfterPlace(w) \in {"symbol", "defer"}
  BY DEF PlaceFileRead, listVars, InHand, Goto, AfterPlace
<1>2. n \in Nodes /\ n \in Pending /\ Visible(obey, n) /\ e \in Nodes
  BY <1>1, InHandPending
<1>3. SectionsInv
  BY DEF JoinInv
<1>4. iFileStartOffset[n] = 0 /\ Shown(n) /\ Reader(n)
  BY <1>1, <1>2, <1>3 DEF SectionsInv, Untouched
<1>5. \A m \in Nodes : m \in Pending' <=> m \in Pending /\ m # n
  BY <1>1, LetGo
<1>6. /\ iFileOffset'[e] = Placed /\ \A d \in Nodes \ {e} : iFileOffset'[d] = iFileOffset[d]
      /\ len'[n] = PlacedLen(obey, n) /\ \A m \in Nodes \ {n} : len'[m] = len[m]
  BY <1>t, <1>1, <1>2
<1> HIDE DEF n, e
<1>7. ASSUME NEW m \in Nodes, m = n PROVE PlacedAs(m)'
  BY <1>1, <1>4, <1>6, <1>7 DEF PlacedAs, Shown, Reader, Visible, PlacedLen, n, e
<1>8. ASSUME NEW m \in Nodes, m # n, Visible(obey, m)
      PROVE  IF m \in Pending' THEN Untouched(m)' ELSE PlacedAs(m)'
  <2>1. IF m \in Pending THEN Untouched(m) ELSE PlacedAs(m)
    BY <1>3, <1>8 DEF SectionsInv
  <2>2. m \in Pending' <=> m \in Pending
    BY <1>5, <1>8
  <2>3. obey.entry[m] \in Nodes /\ len'[m] = len[m]
    BY <1>t, <1>6, <1>8 DEF WellFormed
  <2>4. Shown(m) /\ Reader(m) => obey.entry[m] # e
    BY <1>t, <1>2, <1>4, <1>8, ReaderIsOne DEF e
  <2>5. Shown(m) /\ Reader(m) => iFileOffset'[obey.entry[m]] = iFileOffset[obey.entry[m]]
    BY <1>6, <2>3, <2>4
  <2>6. Shown(m)' = Shown(m) /\ Reader(m)' = Reader(m) /\ PlacedLen(obey, m)' = PlacedLen(obey, m)
    BY <1>1 DEF Shown, Reader, Visible, PlacedLen
  <2>7. CASE m \in Pending
    BY <1>1, <2>1, <2>2, <2>3, <2>5, <2>6, <2>7 DEF Untouched
  <2>8. CASE m \notin Pending
    BY <1>1, <1>8, <2>1, <2>2, <2>3, <2>5, <2>6, <2>8 DEF PlacedAs, Shown
  <2>9. QED
    BY <2>2, <2>7, <2>8
<1>9. \A v \in Workers : pc'[v] \in {"read", "readAlias"} => Shown(job[v]) /\ Reader(job[v])
  BY <1>t, <1>1, <1>3 DEF SectionsInv
<1>10. \A m \in Nodes : ~Visible(obey, m)' => iFileStartOffset'[m] = 0
  BY <1>1, <1>3 DEF SectionsInv, Visible
<1>11. \A m \in Nodes : Visible(obey, m)' => IF m \in Pending' THEN Untouched(m)' ELSE PlacedAs(m)'
  <2>1. n \notin Pending'
    BY <1>2, <1>5
  <2>2. \A m \in Nodes : Visible(obey, m)' = Visible(obey, m)
    BY <1>1 DEF Visible
  <2>3. QED
    BY <1>7, <1>8, <2>1, <2>2
<1>12. \A v \in Workers : pc'[v] \in {"read", "readAlias"} => Shown(job[v])' /\ Reader(job[v])'
  BY <1>1, <1>9 DEF Shown, Reader, Visible
<1>13. QED
  BY <1>10, <1>11, <1>12 DEF SectionsInv

\* A worker's step leaves each of its sections as PlaceFile does.
LEMMA NextJoin == WorkersInv /\ JoinInv /\ [Next]_vars => JoinInv'
<1> SUFFICES ASSUME WorkersInv, JoinInv, [Next]_vars PROVE JoinInv'
  OBVIOUS
<1>t. TypeStrong /\ ArrivedCount /\ DeferInv /\ pc \in [Workers -> Labels]
  BY DEF WorkersInv, TypeStrong, Types
<1>e. ExitsEmpty'
  BY <1>t, NextExits DEF JoinInv
\* A step of a worker, which the main thread waits for.
<1>k. ASSUME UNCHANGED mainVars, main = "join" => SectionsInv' PROVE JoinInv'
  BY <1>k, <1>e DEF mainVars, JoinInv
<1> USE DEF Goto
<1>1. ASSUME NEW w \in Workers, GetFileNode(w) PROVE JoinInv'
  <2>1. UNCHANGED <<obey, treeVars, mainVars>>
    BY <1>1 DEF GetFileNode
  <2>2. \A v \in Workers : pc'[v] \in {"read", "readAlias"} => pc[v] = pc'[v] /\ job[v] = job'[v]
    BY <1>1, <1>t, <2>1 DEF GetFileNode, workerVars, TypeStrong, Types
  <2>3. \A n \in Nodes : Visible(obey, n) => (n \in Pending' <=> n \in Pending)
    BY <1>1, <1>t, HandOut
  <2>4. QED
    BY <1>k, <2>1, <2>2, <2>3, SectionsKept DEF JoinInv
<1>2. ASSUME NEW w \in Workers, PlaceFileTest(w) PROVE JoinInv'
  BY <1>2, <1>k, TestSections DEF PlaceFileTest
<1>3. ASSUME NEW w \in Workers, PlaceFileRead(w) PROVE JoinInv'
  BY <1>3, <1>k, ReadSections DEF PlaceFileRead
\* Steps of a worker that has no node in hand.
<1>o. ASSUME NEW w \in Workers, pc[w] \notin InHand, NEW l \in Labels \ InHand,
             l \notin {"read", "readAlias"}, pc' = [pc EXCEPT ![w] = l],
             UNCHANGED <<obey, treeVars, mainVars, iLastNode, iQueueAliasNode, job>>
      PROVE  JoinInv'
  <2>1. Queued' = Queued /\ \A v \in Workers : pc'[v] \in InHand <=> pc[v] \in InHand
    BY <1>o, <1>t DEF Queued, InHand
  <2>2. Pending' = Pending
    BY <1>o, <2>1 DEF Pending
  <2>3. \A v \in Workers : pc'[v] \in {"read", "readAlias"} => pc[v] = pc'[v] /\ job[v] = job'[v]
    BY <1>o, <1>t
  <2>4. QED
    BY <1>k, <1>o, <2>2, <2>3, SectionsKept DEF JoinInv
<1>4. ASSUME NEW w \in Workers, AddSymbol(w) PROVE JoinInv'
  BY <1>4, <1>o DEF AddSymbol, listVars, Labels, InHand
<1>5. ASSUME NEW w \in Workers, ArriveDeferPoint(w) PROVE JoinInv'
  BY <1>5, <1>o DEF ArriveDeferPoint, Labels, InHand
<1>6. ASSUME NEW w \in Workers, GetDeferredJob(w) PROVE JoinInv'
  <2>1. Pending' = Pending
    BY <1>6, <1>t, TakeDeferred
  <2>2. UNCHANGED <<obey, treeVars, mainVars>>
    BY <1>6 DEF GetDeferredJob, PopDeferred
  <2>3. \A v \in Workers : pc'[v] \in {"read", "readAlias"} => pc[v] = pc'[v] /\ job[v] = job'[v]
    BY <1>6, <1>t DEF GetDeferredJob, PopDeferred, TypeStrong, Types
  <2>4. QED
    BY <1>k, <2>1, <2>2, <2>3, SectionsKept DEF JoinInv
<1>7. CASE MainThread
  <2>1. main' # "join"
    BY <1>7, <1>t DEF MainThread, JoinAll, LayoutSection, LayoutReturns, LayoutStops, LayoutGoesOn,
           LayoutCrashes, DeferInv, JoinedMeansExit
  <2>2. QED
    BY <1>e, <2>1 DEF JoinInv
<1>8. CASE UNCHANGED vars
  <2>1. /\ UNCHANGED <<obey, treeVars, mainVars, iLastNode, iQueueAliasNode, pc, job>>
    BY <1>8 DEF vars, listVars, workerVars
  <2>2. Pending' = Pending
    BY <2>1 DEF Pending, Queued
  <2>3. QED
    BY <1>k, <2>1, <2>2, SectionsKept DEF JoinInv
<1>9. QED
  BY <1>1, <1>2, <1>3, <1>4, <1>5, <1>6, <1>7, <1>8 DEF Next, Work

-----------------------------------------------------------------------------
(* The layout loop *)

\* The sections behind LastLaid are as the workers left them; those up to it have their
\* addresses, and so have the files their readers read.
LayoutInv ==
  main = "layout" =>
     /\ ret = <<>> /\ Base <= offset
     /\ \A n \in Nodes : ~Visible(obey, n) => iFileStartOffset[n] = 0
     /\ \A n \in Nodes : Visible(obey, n) /\ n > LastLaid => PlacedAs(n)
     /\ \A n \in Nodes :
           Shown(n) /\ Reader(n) /\ n <= LastLaid =>
              Base <= iFileStartOffset[n] /\ iFileOffset[obey.entry[n]] = iFileStartOffset[n]

Inv == WorkersInv /\ JoinInv /\ LayoutInv /\ VpsFollowsList

\* The list of sections and the place reached in it.
LEMMA ListTypes ==
  ASSUME TypeStrong
  PROVE  iVPS \in Seq(Nodes) /\ laid \in 0..Len(iVPS) /\ Len(iVPS) \in Nat
<1>1. iVPS \in Seq(Nodes) /\ laid \in 0..Len(iVPS)
  BY DEF TypeStrong, Types
<1>2. QED
  BY <1>1

\* A node is its place in the list.
LEMMA NodeNumbers == \A m \in Nodes : m \in Nat /\ m \in Int
BY LayoutAssumption DEF Nodes

\* The node laid out last, and the next one.
LEMMA LaidType ==
  ASSUME TypeStrong
  PROVE  LastLaid \in Nat /\ (laid < Len(iVPS) => Section \in Nodes)
<1>1. iVPS \in Seq(Nodes) /\ laid \in 0..Len(iVPS) /\ N \in Nat
  BY LayoutAssumption DEF TypeStrong, Types
<1>2. laid # 0 => iVPS[laid] \in Nodes
  BY <1>1
<1>3. laid < Len(iVPS) => iVPS[laid + 1] \in Nodes
  BY <1>1
<1>4. QED
  BY <1>1, <1>2, <1>3 DEF LastLaid, Section, Nodes

\* No visible file lies between two sections that follow one another.
LEMMA SectionFollows ==
  ASSUME TypeStrong, VpsFollowsList, laid < Len(iVPS)
  PROVE  /\ Section > LastLaid /\ Visible(obey, Section) /\ Section < iLastNode
         /\ \A m \in Nodes : Visible(obey, m) /\ m < iLastNode /\ m > LastLaid => Section <= m
<1>1. /\ iVPS \in Seq(Nodes) /\ laid \in 0..Len(iVPS) /\ Len(iVPS) \in Nat
      /\ \A m \in Nodes : m \in Nat
  BY ListTypes, NodeNumbers
<1>2. \A i \in 1..Len(iVPS) : iVPS[i] \in Nodes
  BY <1>1
<1>3. /\ \A i, j \in 1..Len(iVPS) : i < j => iVPS[i] < iVPS[j]
      /\ {iVPS[i] : i \in 1..Len(iVPS)} = {n \in Nodes : Visible(obey, n) /\ n < iLastNode}
  BY DEF VpsFollowsList
<1>4. laid + 1 \in 1..Len(iVPS) /\ (laid # 0 => laid \in 1..Len(iVPS))
  BY <1>1
<1>5. Visible(obey, Section) /\ Section < iLastNode
  BY <1>3, <1>4 DEF Section
<1>6. Section > LastLaid
  <2>1. Section \in Nodes /\ 1 <= Section
    BY <1>2, <1>4, LayoutAssumption DEF Section, Nodes
  <2>2. CASE laid = 0
    BY <2>1, <2>2, <1>1 DEF LastLaid
  <2>3. CASE laid # 0
    BY <1>1, <1>2, <1>3, <1>4, <2>3 DEF LastLaid, Section
  <2>4. QED
    BY <2>2, <2>3
<1>7. ASSUME NEW m \in Nodes, Visible(obey, m), m < iLastNode, m > LastLaid PROVE Section <= m
  <2>1. PICK i \in 1..Len(iVPS) : m = iVPS[i]
    BY <1>3, <1>7
  <2>2. CASE i > laid + 1
    BY <1>1, <1>2, <1>3, <1>4, <2>1, <2>2 DEF Section
  <2>3. CASE i = laid + 1
    BY <1>1, <1>2, <2>1, <2>3 DEF Section
  <2>4. CASE i <= laid
    <3>1. laid # 0 /\ LastLaid = iVPS[laid]
      BY <1>1, <2>4 DEF LastLaid
    <3>2. i = laid \/ iVPS[i] < iVPS[laid]
      BY <1>1, <1>3, <1>4, <2>4, <3>1
    <3>3. m <= LastLaid /\ m \in Nat /\ LastLaid \in Nat
      BY <1>1, <1>2, <1>4, <2>1, <3>1, <3>2
    <3>4. QED
      BY <1>7, <3>3
  <2>5. QED
    BY <1>1, <2>2, <2>3, <2>4
<1>8. QED
  BY <1>5, <1>6, <1>7

\* After the join every visible file has its section.
LEMMA AllHandedOut ==
  ASSUME WorkersInv, main # "join"
  PROVE  (\A w \in Workers : pc[w] = "exit") /\ \A n \in Nodes : Visible(obey, n) => n < iLastNode
<1>1. \A w \in Workers : pc[w] = "exit"
  BY DEF WorkersInv, DeferInv, JoinedMeansExit
<1>2. NoMoreFiles
  BY <1>1, WorkersAssumption DEF WorkersInv, DeferInv, ExhaustedOnArrival, Arrived
<1>3. QED
  BY <1>1, <1>2, LayoutAssumption DEF NoMoreFiles, WorkersInv, TypeStrong, Types, Nodes

\* The join: nothing is pending.
LEMMA JoinLayout == Inv /\ JoinAll => LayoutInv'
<1> SUFFICES ASSUME Inv, JoinAll PROVE LayoutInv'
  OBVIOUS
<1>1. /\ main = "join" /\ \A w \in Workers : pc[w] = "exit"
      /\ UNCHANGED <<obey, iVPS, iFileOffset, iFileStartOffset, len, laid, offset, ret>>
  BY DEF JoinAll, listVars, treeVars
<1>2. SectionsInv /\ laid = 0 /\ offset = Base /\ ret = <<>> /\ iQueueAliasNode = <<>>
  <2>1. PICK w \in Workers : pc[w] = "exit"
    BY <1>1, WorkersAssumption
  <2>2. QED
    BY <1>1, <2>1 DEF Inv, JoinInv, ExitsEmpty
<1>3. \A n \in Nodes : Visible(obey, n) => n < iLastNode
  <2>1. NoMoreFiles
    BY <1>1, WorkersAssumption DEF Inv, WorkersInv, DeferInv, ExhaustedOnArrival, Arrived
  <2>2. QED
    BY <2>1, LayoutAssumption DEF NoMoreFiles, Inv, WorkersInv, TypeStrong, Types, Nodes
<1>4. Queued = {}
  BY <1>2 DEF Queued
<1>5. iLastNode \in Int /\ \A n \in Nodes : n \in Int /\ n > 0
  BY LayoutAssumption DEF Inv, WorkersInv, TypeStrong, Types, Nodes
<1>6. \A n \in Nodes : Visible(obey, n) => n \notin Pending
  BY <1>1, <1>3, <1>4, <1>5 DEF Pending, InHand
<1>7. \A n \in Nodes : Visible(obey, n) => PlacedAs(n)
  BY <1>2, <1>6 DEF SectionsInv
<1>8. LastLaid' = 0 /\ Base <= offset'
  BY <1>1, <1>2, LayoutAssumption DEF LastLaid
<1>9. \A n \in Nodes : PlacedAs(n)' = PlacedAs(n) /\ Visible(obey, n)' = Visible(obey, n)
  BY <1>1 DEF PlacedAs, Reader, Visible, PlacedLen
<1>10. \A n \in Nodes : ~(n <= 0)
  BY <1>5
<1>11. \A n \in Nodes : ~Visible(obey, n) => iFileStartOffset'[n] = 0
  BY <1>1, <1>2 DEF SectionsInv
<1>12. QED
  BY <1>1, <1>2, <1>7, <1>8, <1>9, <1>10, <1>11 DEF LayoutInv

\* What a section is when its turn comes, and what is known of a file read before it.
LEMMA SectionCases ==
  ASSUME Inv, main = "layout", laid < Len(iVPS)
  PROVE  LET n == Section
             e == obey.entry[n]
         IN  /\ n \in Nodes /\ e \in Nodes /\ Visible(obey, n) /\ n > LastLaid
             /\ \/ obey.eHidden[e] /\ iFileStartOffset[n] = KFileHidden /\ len[n] = 0
                \/ /\ Shown(n) /\ Reader(n) /\ FirstName(obey, n)
                   /\ iFileStartOffset[n] = 0 /\ iFileOffset[e] = Placed
                   /\ len[n] = PlacedLen(obey, n)
                \/ /\ Shown(n) /\ ~Reader(n) /\ ~FirstName(obey, n)
                   /\ iFileStartOffset[n] = EntryPtr /\ len[n] = 0
                   /\ iFileOffset[e] = iFileStartOffset[e] /\ Base <= iFileOffset[e]
                   /\ e <= LastLaid /\ e < n
                   /\ Visible(obey, e) /\ obey.entry[e] = e /\ FirstName(obey, e)
<1> DEFINE n == Section
           e == obey.entry[n]
<1>0. TypeStrong /\ WellFormed(obey) /\ OrphansAlone(obey) /\ VpsFollowsList
  BY DEF Inv, WorkersInv, TypeStrong, Types
<1>1. n \in Nodes /\ n > LastLaid /\ Visible(obey, n) /\ LastLaid \in Nat
  BY <1>0, SectionFollows, LaidType
<1>2. e \in Nodes /\ PlacedAs(n)
  BY <1>0, <1>1 DEF WellFormed, Inv, LayoutInv
<1>3. CASE obey.eHidden[e]
  BY <1>1, <1>2, <1>3 DEF PlacedAs
<1>4. CASE ~obey.eHidden[e] /\ Reader(n)
  <2>1. Shown(n) /\ FirstName(obey, n)
    BY <1>0, <1>1, <1>4, ReaderIsFirst DEF Shown
  <2>2. QED
    BY <1>1, <1>2, <1>4, <2>1 DEF PlacedAs
<1>5. CASE ~obey.eHidden[e] /\ ~Reader(n)
  <2>1. Shown(n) /\ ~FirstName(obey, n)
    BY <1>0, <1>1, <1>5, ReaderIsFirst DEF Shown
  <2>2. e < n /\ Shown(e) /\ Reader(e) /\ obey.entry[e] = e
    BY <1>0, <1>1, <1>5, <2>1, NoReader
  <2>3. Visible(obey, e) /\ FirstName(obey, e)
    BY <1>0, <1>2, <2>2, ReaderIsFirst DEF Shown
  <2>4. e < iLastNode
    BY <1>2, <2>3, AllHandedOut DEF Inv
  <2>5. ~(e > LastLaid)
    <3> SUFFICES ASSUME e > LastLaid PROVE FALSE
      OBVIOUS
    <3>1. n <= e
      BY <1>0, <1>2, <2>3, <2>4, SectionFollows
    <3>2. n \in Int /\ e \in Int
      BY <1>1, <1>2, LayoutAssumption DEF Nodes
    <3> HIDE DEF n, e
    <3>3. QED
      BY <2>2, <3>1, <3>2
  <2>6. e <= LastLaid
    <3>1. e \in Int
      BY <1>2, LayoutAssumption DEF Nodes
    <3> HIDE DEF n, e
    <3>2. QED
      BY <1>1, <2>5, <3>1
  <2>7. Base <= iFileStartOffset[e] /\ iFileOffset[e] = iFileStartOffset[e]
    BY <1>2, <2>2, <2>6 DEF Inv, LayoutInv
  <2>8. QED
    BY <1>1, <1>2, <1>5, <2>1, <2>2, <2>3, <2>6, <2>7 DEF PlacedAs
<1>6. QED
  BY <1>3, <1>4, <1>5

\* What a turn of the loop does for each kind of section.
LEMMA GoesOnCases ==
  ASSUME Inv, LayoutSection, LayoutGoesOn
  PROVE  LET n == Section
             e == obey.entry[n]
         IN  /\ main = "layout" /\ laid < Len(iVPS) /\ Room > 0 /\ LastLaid' = n
             /\ UNCHANGED <<obey, iVPS, len, ret, main>>
             /\ \/ /\ obey.eHidden[e] /\ iFileStartOffset[n] = KFileHidden
                   /\ UNCHANGED <<iFileOffset, iFileStartOffset, offset>>
                \/ /\ Shown(n) /\ Reader(n) /\ PlacedLen(obey, n) \in 0..Room
                   /\ iFileOffset' = [iFileOffset EXCEPT ![e] = offset]
                   /\ iFileStartOffset' = [iFileStartOffset EXCEPT ![n] = offset]
                   /\ offset' = offset + Align4(PlacedLen(obey, n))
                \/ /\ Shown(n) /\ ~Reader(n)
                   /\ iFileStartOffset' = [iFileStartOffset EXCEPT ![n] = iFileStartOffset[e]]
                   /\ UNCHANGED <<iFileOffset, offset>>
<1> DEFINE n == Section
           e == obey.entry[n]
<1>1. main = "layout" /\ laid < Len(iVPS) /\ UNCHANGED <<obey, iVPS, len, ret, main>>
      /\ Room > 0 /\ laid' = laid + 1 /\ offset' = offset + Align4(len[n])
  BY DEF LayoutSection, LayoutGoesOn, listVars
<1>2. laid \in Nat /\ offset \in Int /\ Base \in Nat \ {0}
  BY LayoutAssumption DEF Inv, WorkersInv, TypeStrong, Types
<1>3. LastLaid' = n
  BY <1>1, <1>2 DEF LastLaid, Section
<1>4. offset + Align4(0) = offset
  BY <1>2 DEF Align4
<1>5. \/ obey.eHidden[e] /\ iFileStartOffset[n] = KFileHidden /\ len[n] = 0
      \/ /\ Shown(n) /\ Reader(n) /\ iFileStartOffset[n] = 0 /\ iFileOffset[e] = Placed
         /\ len[n] = PlacedLen(obey, n)
      \/ /\ Shown(n) /\ ~Reader(n) /\ iFileStartOffset[n] = EntryPtr /\ len[n] = 0
         /\ iFileOffset[e] = iFileStartOffset[e] /\ Base <= iFileOffset[e]
  BY <1>1, SectionCases
<1>6. \/ /\ iFileStartOffset[n] = KFileHidden
         /\ UNCHANGED <<iFileOffset, iFileStartOffset>>
      \/ /\ iFileStartOffset[n] # KFileHidden
         /\ len[n] \in 0..Room
         /\ iFileOffset[e] = Placed
         /\ iFileOffset' = [iFileOffset EXCEPT ![e] = offset]
         /\ iFileStartOffset' = [iFileStartOffset EXCEPT ![n] = offset]
      \/ /\ iFileStartOffset[n] = EntryPtr
         /\ iFileOffset[e] # Placed
         /\ iFileStartOffset' = [iFileStartOffset EXCEPT ![n] = iFileOffset[e]]
         /\ UNCHANGED iFileOffset
  BY DEF LayoutGoesOn
<1>7. KFileHidden # EntryPtr /\ KFileHidden # 0 /\ EntryPtr # 0
  BY DEF KFileHidden, EntryPtr
<1>8. Base <= iFileOffset[e] => iFileOffset[e] # Placed
  BY <1>2 DEF Placed
<1> HIDE DEF n, e
<1>9. QED
  BY <1>1, <1>3, <1>4, <1>5, <1>6, <1>7, <1>8 DEF n, e

\* A length is rounded up to words.
LEMMA Align4Type ==
  ASSUME NEW l \in Nat
  PROVE  Align4(l) \in Nat
<1>1. (4 - l) % 4 \in 0..3
  OBVIOUS
<1>2. QED
  BY <1>1 DEF Align4

\* A section laid out leaves the others as they were.
LEMMA GoesOnInv == Inv /\ LayoutSection /\ LayoutGoesOn => LayoutInv'
<1> SUFFICES ASSUME Inv, LayoutSection, LayoutGoesOn PROVE LayoutInv'
  OBVIOUS
<1> DEFINE n == Section
           e == obey.entry[n]
<1>0. /\ TypeStrong /\ WellFormed(obey) /\ OrphansAlone(obey) /\ VpsFollowsList
      /\ iFileOffset \in [Nodes -> Int] /\ iFileStartOffset \in [Nodes -> Int]
      /\ offset \in Int /\ Base \in Nat \ {0} /\ \A m \in Nodes : m \in Int
  BY LayoutAssumption DEF Inv, WorkersInv, TypeStrong, Types, Nodes
<1>1. main = "layout" /\ laid < Len(iVPS) /\ LastLaid' = n
      /\ UNCHANGED <<obey, iVPS, len, ret, main>>
  BY GoesOnCases
<1>2. n \in Nodes /\ e \in Nodes /\ Visible(obey, n) /\ n > LastLaid /\ LastLaid \in Nat
  BY <1>0, <1>1, SectionCases, LaidType
<1>3. /\ ret = <<>> /\ Base <= offset
      /\ \A m \in Nodes : ~Visible(obey, m) => iFileStartOffset[m] = 0
      /\ \A m \in Nodes : Visible(obey, m) /\ m > LastLaid => PlacedAs(m)
      /\ \A m \in Nodes :
            Shown(m) /\ Reader(m) /\ m <= LastLaid =>
               Base <= iFileStartOffset[m] /\ iFileOffset[obey.entry[m]] = iFileStartOffset[m]
  BY <1>1 DEF Inv, LayoutInv
<1>4. \A m \in Nodes : Visible(obey, m) /\ m > LastLaid => n <= m
  BY <1>0, <1>1, AllHandedOut, SectionFollows DEF Inv
<1>5. \A m \in Nodes : /\ Visible(obey, m)' = Visible(obey, m) /\ Shown(m)' = Shown(m)
                       /\ Reader(m)' = Reader(m) /\ PlacedLen(obey, m)' = PlacedLen(obey, m)
  BY <1>1 DEF Visible, Shown, Reader, PlacedLen
\* The other sections, and the files that other nodes read, are left alone.
<1>6. /\ \A m \in Nodes \ {n} : iFileStartOffset'[m] = iFileStartOffset[m]
      /\ \A m \in Nodes \ {n} : Shown(m) /\ Reader(m) => iFileOffset'[obey.entry[m]] = iFileOffset[obey.entry[m]]
  <2>1. \/ UNCHANGED iFileStartOffset
        \/ \E s : iFileStartOffset' = [iFileStartOffset EXCEPT ![n] = s]
    BY GoesOnCases
  <2>2. \/ UNCHANGED iFileOffset
        \/ /\ Shown(n) /\ Reader(n)
           /\ iFileOffset' = [iFileOffset EXCEPT ![e] = offset]
    BY GoesOnCases
  <2>3. ASSUME NEW m \in Nodes \ {n}, Shown(m), Reader(m)
        PROVE  iFileOffset'[obey.entry[m]] = iFileOffset[obey.entry[m]]
    <3>1. obey.entry[m] \in Nodes
      BY <1>0 DEF WellFormed
    <3>2. Shown(n) /\ Reader(n) => obey.entry[m] # e
      BY <1>0, <1>2, <2>3, ReaderIsOne
    <3> HIDE DEF n, e
    <3>3. QED
      BY <1>0, <1>2, <2>2, <3>1, <3>2
  <2> HIDE DEF n, e
  <2>4. QED
    BY <1>0, <2>1, <2>3
<1>7. Base <= offset'
  <2>1. offset' = offset \/ \E l \in Nat : offset' = offset + Align4(l)
    <3>1. Room \in Int
      BY <1>0 DEF Room, WellFormed
    <3>2. \A l \in 0..Room : l \in Nat
      BY <3>1
    <3>3. QED
      BY <3>2, GoesOnCases
  <2>2. QED
    BY <1>0, <1>3, <2>1, Align4Type
<1>8. Shown(n) /\ Reader(n) => Base <= iFileStartOffset'[n] /\ iFileOffset'[e] = iFileStartOffset'[n]
  <2>1. ASSUME Shown(n), Reader(n)
        PROVE  /\ iFileOffset' = [iFileOffset EXCEPT ![e] = offset]
               /\ iFileStartOffset' = [iFileStartOffset EXCEPT ![n] = offset]
    BY <2>1, GoesOnCases DEF Shown
  <2> HIDE DEF n, e
  <2>2. QED
    BY <1>0, <1>2, <1>3, <2>1
<1> HIDE DEF n
<1>9. \A m \in Nodes : Visible(obey, m) /\ m > n => PlacedAs(m)'
  <2> SUFFICES ASSUME NEW m \in Nodes, Visible(obey, m), m > n PROVE PlacedAs(m)'
    OBVIOUS
  <2>1. m # n /\ m > LastLaid
    BY <1>0, <1>2
  <2>2. PlacedAs(m) /\ iFileStartOffset'[m] = iFileStartOffset[m]
    BY <1>3, <1>6, <2>1
  <2>3. Shown(m) /\ Reader(m) => iFileOffset'[obey.entry[m]] = iFileOffset[obey.entry[m]]
    BY <1>6, <2>1
  <2>4. QED
    BY <1>1, <1>5, <2>2, <2>3 DEF PlacedAs, Shown
<1>10. ASSUME NEW m \in Nodes, Shown(m), Reader(m), m <= n
       PROVE  Base <= iFileStartOffset'[m] /\ iFileOffset'[obey.entry[m]] = iFileStartOffset'[m]
  <2>1. CASE m = n
    BY <1>8, <1>10, <2>1 DEF n
  <2>2. CASE m # n
    <3>1. m <= LastLaid
      <4>1. m < n
        BY <1>0, <1>2, <1>10, <2>2
      <4>2. ~(n <= m)
        BY <1>0, <1>2, <4>1
      <4>3. ~(m > LastLaid)
        BY <1>4, <1>10, <4>2 DEF Shown
      <4>4. QED
        BY <1>0, <1>2, <4>3
    <3>2. QED
      BY <1>3, <1>6, <1>10, <2>2, <3>1
  <2>3. QED
    BY <2>1, <2>2
<1>11. \A m \in Nodes : ~Visible(obey, m) => iFileStartOffset'[m] = 0
  BY <1>2, <1>3, <1>6
<1>12. \A m \in Nodes : (m > LastLaid' <=> m > n) /\ (m <= LastLaid' <=> m <= n)
  BY <1>1 DEF n
<1>13. \A m \in Nodes : Visible(obey, m)' /\ m > LastLaid' => PlacedAs(m)'
  BY <1>5, <1>9, <1>12
<1>14. \A m \in Nodes :
          Shown(m)' /\ Reader(m)' /\ m <= LastLaid' =>
             Base <= iFileStartOffset'[m] /\ iFileOffset'[obey'.entry[m]] = iFileStartOffset'[m]
  BY <1>1, <1>5, <1>10, <1>12
<1>15. QED
  BY <1>1, <1>3, <1>5, <1>7, <1>11, <1>13, <1>14 DEF LayoutInv

\* A step of the main thread keeps what is known of the sections.
LEMMA NextLayout == Inv /\ [Next]_vars => LayoutInv'
<1> SUFFICES ASSUME Inv, [Next]_vars PROVE LayoutInv'
  OBVIOUS
<1>1. ASSUME NEW w \in Workers, Work(w) PROVE LayoutInv'
  <2>1. pc[w] # "exit" /\ UNCHANGED main
    BY <1>1 DEF Work, GetFileNode, PlaceFileTest, PlaceFileRead, AddSymbol, ArriveDeferPoint,
           GetDeferredJob, PopDeferred, mainVars
  <2>2. main' # "layout"
    BY <2>1, WorkerMeansJoin DEF Inv, WorkersInv
  <2>3. QED
    BY <2>2 DEF LayoutInv
<1>2. CASE JoinAll
  BY <1>2, JoinLayout
<1>3. CASE LayoutSection /\ LayoutGoesOn
  BY <1>3, GoesOnInv
<1>4. CASE LayoutSection /\ (LayoutStops \/ LayoutCrashes)
  <2>1. main' # "layout"
    BY <1>4 DEF LayoutStops, LayoutCrashes
  <2>2. QED
    BY <2>1 DEF LayoutInv
<1>5. CASE LayoutReturns
  <2>1. main' # "layout"
    BY <1>5 DEF LayoutReturns
  <2>2. QED
    BY <2>1 DEF LayoutInv
<1>6. CASE UNCHANGED vars
  <2>1. /\ UNCHANGED <<obey, iVPS, iFileOffset, iFileStartOffset, len, laid, offset, ret, main>>
    BY <1>6 DEF vars, listVars, treeVars, mainVars
  <2>2. LastLaid' = LastLaid
    BY <2>1 DEF LastLaid
  <2>3. \A m \in Nodes : /\ Visible(obey, m)' = Visible(obey, m) /\ Shown(m)' = Shown(m)
                         /\ Reader(m)' = Reader(m) /\ PlacedAs(m)' = PlacedAs(m)
    BY <2>1 DEF Visible, Shown, Reader, PlacedAs, PlacedLen
  <2>4. LayoutInv
    BY DEF Inv
  <2>5. QED
    BY <2>1, <2>2, <2>3, <2>4 DEF LayoutInv
<1>7. QED
  BY <1>1, <1>2, <1>3, <1>4, <1>5, <1>6 DEF Next, MainThread, LayoutSection

-----------------------------------------------------------------------------
(* The refinement *)

\* The addresses the serial layout has given out.
Addr == [n \in Nodes |-> IF n <= LastLaid THEN iFileStartOffset[n] ELSE 0]

\* The instance reads the node list as RofsPlacement does.
LEMMA SameTree ==
  /\ Serial!Nodes = Nodes /\ Serial!KFileHidden = KFileHidden
  /\ \A o, n : Serial!Visible(o, n) = Visible(o, n)
  /\ \A o, n : Serial!FirstName(o, n) = FirstName(o, n)
  /\ \A o, n : Serial!PlacedLen(o, n) = PlacedLen(o, n)
  /\ \A l : Serial!Align4(l) = Align4(l)
BY DEF Serial!Nodes, Nodes, Serial!KFileHidden, KFileHidden, Serial!Visible, Visible,
       Serial!FirstName, FirstName, Serial!PlacedLen, PlacedLen, Serial!KErrNotSupported,
       KErrNotSupported, Serial!Align4, Align4

\* The first states are those of the serial layout.
LEMMA InitSerial == Init => Serial!Init
<1> SUFFICES ASSUME Init PROVE Serial!Init
  OBVIOUS
<1>1. LastLaid = 0 /\ \A n \in Nodes : iFileStartOffset[n] = 0
  BY DEF Init, LastLaid
<1>2. obey \in Obeys /\ offset = Base /\ ret = <<>>
  BY DEF Init
<1>3. [n \in Nodes |-> IF n <= LastLaid THEN iFileStartOffset[n] ELSE 0] = [n \in Nodes |-> 0]
  BY <1>1
<1>4. QED
  BY <1>1, <1>2, <1>3, SameTree DEF Serial!Init

\* Steps that the serial layout does not see.
LEMMA Stutter ==
  ASSUME UNCHANGED <<obey, offset, ret>>, LastLaid' = LastLaid,
         \A n \in Nodes : n <= LastLaid => iFileStartOffset'[n] = iFileStartOffset[n]
  PROVE  UNCHANGED Serial!vars
<1>1. [n \in Nodes |-> IF n <= LastLaid THEN iFileStartOffset[n] ELSE 0]' =
         [n \in Nodes |-> IF n <= LastLaid THEN iFileStartOffset[n] ELSE 0]
  OBVIOUS
<1>2. QED
  BY <1>1 DEF Serial!vars

\* A node that the serial layout lays out, or stops at, is a step of it.
LEMMA SerialStep ==
  ASSUME NEW m \in Serial!Nodes, ret = <<>>, UNCHANGED obey, Serial!Following(m),
         Serial!Stop(m) \/ Serial!Lay(m)
  PROVE  Serial!Next
BY DEF Serial!Next

\* A section that is laid out: the next visible node gets its address.
LEMMA LaySerial ==
  ASSUME Inv, LayoutSection, LayoutGoesOn
  PROVE  Serial!Next
<1> DEFINE n == Section
           e == obey.entry[n]
           next == [m \in Nodes |-> IF m <= LastLaid' THEN iFileStartOffset'[m] ELSE 0]
<1>0. /\ TypeStrong /\ WellFormed(obey) /\ VpsFollowsList
      /\ iFileStartOffset \in [Nodes -> Int] /\ \A m \in Nodes : m \in Int
  BY LayoutAssumption DEF Inv, WorkersInv, TypeStrong, Types, Nodes
<1>1. /\ main = "layout" /\ laid < Len(iVPS) /\ Room > 0 /\ LastLaid' = n
      /\ UNCHANGED <<obey, ret>> /\ ret = <<>>
  <2>1. main = "layout"
    BY GoesOnCases
  <2>2. QED
    BY <2>1, GoesOnCases DEF Inv, LayoutInv
<1>2. n \in Nodes /\ e \in Nodes /\ Visible(obey, n) /\ n > LastLaid /\ LastLaid \in Nat
  BY <1>0, <1>1, SectionCases, LaidType
<1>3. \A m \in Nodes : Visible(obey, m) /\ m > LastLaid => n <= m
  BY <1>0, <1>1, AllHandedOut, SectionFollows DEF Inv
<1>4. Serial!Following(n)
  <2>1. \A m \in (LastLaid + 1)..(n - 1) : m \in Nodes /\ m > LastLaid /\ ~(n <= m)
    BY <1>0, <1>2, LayoutAssumption DEF Nodes
  <2>2. \A m \in (LastLaid + 1)..(n - 1) : ~Visible(obey, m)
    BY <1>3, <2>1
  <2> HIDE DEF n, e
  <2>3. QED
    BY <1>2, <2>2, SameTree DEF Serial!Following
\* Behind the section nothing has an address, and before it nothing changes.
<1>5. ASSUME NEW s, iFileStartOffset' = [iFileStartOffset EXCEPT ![n] = s]
      PROVE  next = [Addr EXCEPT ![n] = s]
  <2>1. DOMAIN Addr = Nodes
    BY DEF Addr
  <2> SUFFICES ASSUME NEW m \in Nodes PROVE next[m] = (IF m = n THEN s ELSE Addr[m])
    BY <1>2, <2>1 DEF Addr
  <2>2. CASE m = n
    BY <1>0, <1>1, <1>2, <1>5, <2>2
  <2>3. CASE m # n
    <3>1. iFileStartOffset'[m] = iFileStartOffset[m]
      BY <1>0, <1>5, <2>3
    <3>2. CASE m <= LastLaid
      BY <1>0, <1>1, <1>2, <2>3, <3>1, <3>2 DEF Addr
    <3>3. CASE m > LastLaid /\ m <= n
      <4>1. ~Visible(obey, m)
        <5> HIDE DEF n, e
        <5>1. ~(n <= m)
          BY <1>0, <1>2, <2>3, <3>3
        <5>2. QED
          BY <1>3, <3>3, <5>1
      <4>2. iFileStartOffset[m] = 0
        BY <1>1, <4>1 DEF Inv, LayoutInv
      <4>3. ~(m <= LastLaid)
        BY <1>0, <1>2, <3>3
      <4>4. next[m] = 0
        <5> HIDE DEF n, e
        <5>1. iFileStartOffset'[m] = 0
          BY <3>1, <4>2
        <5>2. QED
          BY <5>1
      <4>5. Addr[m] = 0
        BY <4>3 DEF Addr
      <4>6. QED
        <5> HIDE DEF n, e, next
        <5>1. QED
          BY <2>3, <4>4, <4>5
    <3>4. CASE m > n
      <4>1. ~(m <= LastLaid) /\ ~(m <= n)
        <5> HIDE DEF n, e
        <5>1. QED
          BY <1>0, <1>2, <3>4
      <4>2. next[m] = 0
        <5> HIDE DEF n, e
        <5>1. ~(m <= LastLaid')
          BY <1>1, <4>1
        <5>2. QED
          BY <5>1
      <4>3. Addr[m] = 0
        BY <4>1 DEF Addr
      <4>4. QED
        <5> HIDE DEF n, e, next
        <5>1. QED
          BY <2>3, <4>2, <4>3
    <3>5. QED
      <4>1. m <= LastLaid \/ (m > LastLaid /\ m <= n) \/ m > n
        <5> HIDE DEF n, e
        <5>1. QED
          BY <1>0, <1>2
      <4>2. QED
        BY <3>2, <3>3, <3>4, <4>1
  <2>4. QED
    BY <2>2, <2>3
<1>6. UNCHANGED iFileStartOffset => iFileStartOffset' = [iFileStartOffset EXCEPT ![n] = iFileStartOffset[n]]
  BY <1>0, <1>2
<1>7. \/ obey.eHidden[e] /\ next = [Addr EXCEPT ![n] = KFileHidden] /\ UNCHANGED offset
      \/ /\ ~obey.eHidden[e] /\ FirstName(obey, n) /\ PlacedLen(obey, n) \in 0..Room
         /\ next = [Addr EXCEPT ![n] = offset]
         /\ offset' = offset + Align4(PlacedLen(obey, n))
      \/ /\ ~obey.eHidden[e] /\ ~FirstName(obey, n)
         /\ e < n /\ Visible(obey, e) /\ obey.entry[e] = e /\ FirstName(obey, e)
         /\ next = [Addr EXCEPT ![n] = Addr[e]]
         /\ UNCHANGED offset
  <2>1. CASE obey.eHidden[e] /\ iFileStartOffset[n] = KFileHidden
             /\ UNCHANGED <<iFileOffset, iFileStartOffset, offset>>
    <3> HIDE DEF next
    <3>1. QED
      BY <1>5, <1>6, <2>1
  <2>2. CASE /\ Shown(n) /\ Reader(n) /\ PlacedLen(obey, n) \in 0..Room
             /\ iFileStartOffset' = [iFileStartOffset EXCEPT ![n] = offset]
             /\ offset' = offset + Align4(PlacedLen(obey, n))
    <3>1. FirstName(obey, n)
      BY <1>0, <1>2, <2>2, ReaderIsFirst DEF Inv, WorkersInv
    <3> HIDE DEF next
    <3>2. QED
      BY <1>5, <2>2, <3>1 DEF Shown
  <2>3. CASE /\ Shown(n) /\ ~Reader(n)
             /\ iFileStartOffset' = [iFileStartOffset EXCEPT ![n] = iFileStartOffset[e]]
             /\ UNCHANGED offset
    <3>1. /\ ~FirstName(obey, n) /\ e <= LastLaid /\ e < n
          /\ Visible(obey, e) /\ obey.entry[e] = e /\ FirstName(obey, e)
      BY <1>1, <2>3, SectionCases DEF Shown
    <3>2. Addr[e] = iFileStartOffset[e]
      BY <1>2, <3>1 DEF Addr
    <3> HIDE DEF next
    <3>3. QED
      BY <1>5, <2>3, <3>1, <3>2 DEF Shown
  <2>4. QED
    BY <2>1, <2>2, <2>3, GoesOnCases
<1>8. ASSUME NEW c \in Nodes, c = n PROVE Serial!Lay(c)
  <2>1. next = [m \in Nodes |-> IF m <= LastLaid THEN iFileStartOffset[m] ELSE 0]'
    OBVIOUS
  <2>2. obey.end - offset > 0 /\ 0..Room = 0..(obey.end - offset)
    BY <1>1 DEF Room
  <2>3. LastLaid' = c /\ UNCHANGED ret /\ e = obey.entry[c]
    BY <1>1, <1>8
  <2>4. CASE obey.eHidden[e] /\ next = [Addr EXCEPT ![n] = KFileHidden] /\ UNCHANGED offset
    <3>1. obey.eHidden[obey.entry[c]] /\ next = [Addr EXCEPT ![c] = KFileHidden] /\ UNCHANGED offset
      BY <1>8, <2>3, <2>4
    <3> HIDE DEF n, e, next
    <3>2. QED
      BY <2>1, <2>2, <2>3, <3>1, SameTree DEF Serial!Lay, Addr
  <2>5. CASE /\ ~obey.eHidden[e] /\ FirstName(obey, n) /\ PlacedLen(obey, n) \in 0..Room
             /\ next = [Addr EXCEPT ![n] = offset]
             /\ offset' = offset + Align4(PlacedLen(obey, n))
    <3>1. /\ ~obey.eHidden[obey.entry[c]] /\ FirstName(obey, c) /\ PlacedLen(obey, c) \in 0..Room
          /\ next = [Addr EXCEPT ![c] = offset]
          /\ offset' = offset + Align4(PlacedLen(obey, c))
      BY <1>8, <2>3, <2>5
    <3> HIDE DEF n, e, next
    <3>2. QED
      BY <2>1, <2>2, <2>3, <3>1, SameTree DEF Serial!Lay, Addr
  <2>6. CASE /\ ~obey.eHidden[e] /\ ~FirstName(obey, n)
             /\ e < n /\ Visible(obey, e) /\ obey.entry[e] = e /\ FirstName(obey, e)
             /\ next = [Addr EXCEPT ![n] = Addr[e]]
             /\ UNCHANGED offset
    <3>1. /\ ~obey.eHidden[obey.entry[c]] /\ ~FirstName(obey, c) /\ UNCHANGED offset
      BY <1>8, <2>3, <2>6
    <3>2. \E m \in Serial!Nodes : /\ m < c
                           /\ Serial!Visible(obey, m) /\ obey.entry[m] = obey.entry[c]
                           /\ Serial!FirstName(obey, m)
                           /\ next = [Addr EXCEPT ![c] = Addr[m]]
      <4>1. e \in Serial!Nodes /\ e < c /\ next = [Addr EXCEPT ![c] = Addr[e]]
        BY <1>2, <1>8, <2>6, SameTree
      <4> HIDE DEF n, e, next
      <4>2. QED
        BY <2>3, <2>6, <4>1, SameTree
    <3> HIDE DEF n, e, next
    <3>3. QED
      BY <2>1, <2>2, <2>3, <3>1, <3>2, SameTree DEF Serial!Lay, Addr
  <2>7. QED
    BY <1>7, <2>4, <2>5, <2>6
<1>9. PICK c \in Nodes : c = n
  BY <1>2
<1>10. QED
  <2>1. ret = <<>> /\ UNCHANGED obey
    BY <1>1
  <2>2. c \in Serial!Nodes
    BY SameTree
  <2>3. Serial!Following(c) /\ Serial!Lay(c)
    BY <1>4, <1>8, <1>9
  <2>4. QED
    BY <2>1, <2>2, <2>3, SerialStep

\* A section that does not fit: PlaceFiles returns what the serial layout returns.
LEMMA StopSerial ==
  ASSUME Inv, LayoutSection, LayoutStops
  PROVE  Serial!Next
<1> DEFINE n == Section
           e == obey.entry[n]
<1>0. /\ TypeStrong /\ WellFormed(obey) /\ VpsFollowsList /\ \A m \in Nodes : m \in Int
  BY LayoutAssumption DEF Inv, WorkersInv, TypeStrong, Types, Nodes
<1>1. /\ main = "layout" /\ laid < Len(iVPS)
      /\ UNCHANGED <<obey, iVPS, iFileOffset, iFileStartOffset, laid, offset>> /\ ret = <<>>
  BY DEF LayoutSection, LayoutStops, listVars, Inv, LayoutInv
<1>2. n \in Nodes /\ e \in Nodes /\ Visible(obey, n) /\ n > LastLaid /\ LastLaid \in Nat
  BY <1>0, <1>1, SectionCases, LaidType
<1>3. \A m \in Nodes : Visible(obey, m) /\ m > LastLaid => n <= m
  BY <1>0, <1>1, AllHandedOut, SectionFollows DEF Inv
<1>4. Serial!Following(n)
  <2>1. \A m \in (LastLaid + 1)..(n - 1) : m \in Nodes /\ m > LastLaid /\ ~(n <= m)
    BY <1>0, <1>2, LayoutAssumption DEF Nodes
  <2>2. \A m \in (LastLaid + 1)..(n - 1) : ~Visible(obey, m)
    BY <1>3, <2>1
  <2> HIDE DEF n, e
  <2>3. QED
    BY <1>2, <2>2, SameTree DEF Serial!Following
<1>5. LastLaid' = LastLaid
  BY <1>1 DEF LastLaid
<1>6. \/ Room <= 0 /\ ret' = <<Room>>
      \/ /\ Room > 0 /\ ~obey.eHidden[e] /\ FirstName(obey, n)
         /\ PlacedLen(obey, n) > Room /\ ret' = <<Room - PlacedLen(obey, n)>>
  <2>1. \/ Room <= 0 /\ ret' = <<Room>>
        \/ /\ Room > 0 /\ iFileStartOffset[n] # KFileHidden
           /\ len[n] > Room /\ ret' = <<Room - len[n]>>
    BY DEF LayoutStops
  <2>2. \/ iFileStartOffset[n] = KFileHidden
        \/ ~obey.eHidden[e] /\ FirstName(obey, n) /\ len[n] = PlacedLen(obey, n)
        \/ len[n] = 0
    BY <1>1, SectionCases DEF Shown
  <2>3. Room > 0 => ~(0 > Room)
    <3>1. Room \in Int
      BY DEF Room, Inv, WorkersInv, TypeStrong, Types, WellFormed
    <3>2. QED
      BY <3>1
  <2> HIDE DEF n, e
  <2>4. QED
    BY <2>1, <2>2, <2>3
<1>7. Serial!Stop(n)
  <2>1. [m \in Nodes |-> IF m <= LastLaid THEN iFileStartOffset[m] ELSE 0]' =
           [m \in Nodes |-> IF m <= LastLaid THEN iFileStartOffset[m] ELSE 0]
    BY <1>1, <1>5
  <2> HIDE DEF n
  <2>2. QED
    BY <1>1, <1>5, <1>6, <2>1, SameTree DEF Serial!Stop, Room
<1>8. QED
  BY <1>1, <1>2, <1>4, <1>7, SameTree DEF Serial!Next

\* The end of the list.
LEMMA ReturnSerial ==
  ASSUME Inv, LayoutReturns
  PROVE  Serial!Next
<1>0. /\ iVPS \in Seq(Nodes) /\ laid \in 0..Len(iVPS) /\ LastLaid \in Nat /\ \A m \in Nodes : m \in Int
  BY ListTypes, LaidType, NodeNumbers DEF Inv, WorkersInv
<1>1. /\ main = "layout" /\ laid = Len(iVPS) /\ ret' = <<offset - Base>>
      /\ UNCHANGED <<obey, iVPS, iFileStartOffset, laid, offset>> /\ ret = <<>>
  BY DEF LayoutReturns, listVars, treeVars, Inv, LayoutInv
<1>2. ASSUME NEW m \in Nodes, m > LastLaid PROVE ~Visible(obey, m)
  <2> SUFFICES ASSUME Visible(obey, m) PROVE FALSE
    OBVIOUS
  <2>1. m < iLastNode
    BY <1>1, AllHandedOut DEF Inv
  <2>2. PICK i \in 1..Len(iVPS) : m = iVPS[i]
    BY <2>1 DEF Inv, VpsFollowsList
  <2>3. laid # 0 /\ LastLaid = iVPS[laid] /\ laid \in 1..Len(iVPS)
    BY <1>0, <1>1, <2>2 DEF LastLaid
  <2>4. i = laid \/ iVPS[i] < iVPS[laid]
    BY <1>0, <1>1, <2>2, <2>3 DEF Inv, VpsFollowsList
  <2>5. m = LastLaid \/ m < LastLaid
    BY <2>2, <2>3, <2>4
  <2>6. QED
    BY <1>0, <1>2, <2>5
<1>3. LastLaid' = LastLaid
  BY <1>1 DEF LastLaid
<1>4. [m \in Nodes |-> IF m <= LastLaid THEN iFileStartOffset[m] ELSE 0]' =
         [m \in Nodes |-> IF m <= LastLaid THEN iFileStartOffset[m] ELSE 0]
  BY <1>1, <1>3
<1>5. Serial!Finish
  BY <1>1, <1>2, <1>3, <1>4, SameTree DEF Serial!Finish
<1>6. QED
  BY <1>1, <1>5 DEF Serial!Next

\* A step of the threads is a step of the serial layout, or one it does not see.
LEMMA NextSerial == Inv /\ [Next]_vars => [Serial!Next]_(Serial!vars)
<1> SUFFICES ASSUME Inv, [Next]_vars PROVE Serial!Next \/ UNCHANGED Serial!vars
  OBVIOUS
<1>1. ASSUME NEW w \in Workers, Work(w) PROVE UNCHANGED Serial!vars
  <2>1. pc[w] # "exit" /\ UNCHANGED <<obey, laid, offset, ret>>
    BY <1>1 DEF Work, GetFileNode, PlaceFileTest, PlaceFileRead, AddSymbol, ArriveDeferPoint,
           GetDeferredJob, PopDeferred, mainVars
  <2>2. main = "join"
    BY <2>1, WorkerMeansJoin DEF Inv, WorkersInv
  <2>3. LastLaid = 0 /\ LastLaid' = 0
    BY <2>1, <2>2 DEF Inv, JoinInv, LastLaid
  <2>4. \A n \in Nodes : ~(n <= LastLaid)
    BY <2>3, LayoutAssumption DEF Nodes
  <2>5. QED
    BY <2>1, <2>3, <2>4, Stutter
<1>2. CASE JoinAll
  BY <1>2, Stutter DEF JoinAll, listVars, treeVars, LastLaid
<1>3. CASE LayoutSection /\ LayoutGoesOn
  BY <1>3, LaySerial
<1>4. CASE LayoutSection /\ LayoutStops
  BY <1>4, StopSerial
<1>5. CASE LayoutSection /\ LayoutCrashes
  BY <1>5, Stutter DEF LayoutSection, LayoutCrashes, listVars, LastLaid
<1>6. CASE LayoutReturns
  BY <1>6, ReturnSerial
<1>7. CASE UNCHANGED vars
  BY <1>7, Stutter DEF vars, listVars, treeVars, mainVars, LastLaid
<1>8. QED
  BY <1>1, <1>2, <1>3, <1>4, <1>5, <1>6, <1>7 DEF Next, MainThread, LayoutSection

\* "this is the guarantee of same outputs regardless of how many threads being used":
\* every image that the threads of PlaceFiles lay out is the one of the serial layout, for
\* every set of workers, every node list and every size of image, when an orphaned file has
\* one visible alias only.
THEOREM SameOutput ==
  ASSUME \A o \in Obeys : OrphansAlone(o)
  PROVE  Spec => SerialLayout
<1>1. Init => Inv
  <2> SUFFICES ASSUME Init PROVE Inv
    OBVIOUS
  <2>1. VpsFollowsList
    BY DEF Init, VpsFollowsList, Nodes
  <2>2. LayoutInv
    BY DEF Init, LayoutInv
  <2>3. OrphansAlone(obey)
    BY DEF Init
  <2>4. QED
    BY <2>1, <2>2, <2>3, InitTypes, InitDeferInv, InitNodesApart, InitJoin DEF Inv, WorkersInv
<1>2. Inv /\ [Next]_vars => Inv'
  <2> SUFFICES ASSUME Inv, [Next]_vars PROVE Inv'
    OBVIOUS
  <2>1. OrphansAlone(obey)'
    <3>1. UNCHANGED obey
      BY DEF Next, Work, GetFileNode, PlaceFileTest, PlaceFileRead, AddSymbol, ArriveDeferPoint,
             GetDeferredJob, PopDeferred, MainThread, JoinAll, LayoutSection, LayoutReturns, vars
    <3>2. QED
      BY <3>1 DEF Inv, WorkersInv, OrphansAlone, Orphaned, Visible
  <2>2. VpsFollowsList'
    BY NextVps DEF Inv, WorkersInv
  <2>3. QED
    BY <2>1, <2>2, NextTypes, NextArrived, NextDeferInv, NextNodesApart, NextJoin, NextLayout
       DEF Inv, WorkersInv
<1>3. QED
  BY <1>1, <1>2, InitSerial, NextSerial, PTL DEF Spec, SerialLayout, Serial!Spec

-----------------------------------------------------------------------------
(* Why every build ends: no worker is stuck, and no worker goes round for ever *)

\* Induction over a set of numbers: it has a least one.
LEMMA LeastNumber ==
  ASSUME NEW S \in SUBSET Nat, S # {}
  PROVE  \E n \in S : \A m \in S : n <= m
<1> DEFINE R == {ss \in Nat \X Nat : ss[1] < ss[2]}
<1>1. IsWellFoundedOn(R, Nat)
  BY NatLessThanWellFounded DEF OpToRel
<1> HIDE DEF R
<1>2. PICK n \in S : \A m \in S : ~(<<m, n>> \in R)
  BY <1>1, WFMin
<1>3. ASSUME NEW m \in S PROVE n <= m
  <2>1. n \in Nat /\ m \in Nat
    OBVIOUS
  <2>2. <<m, n>> \in Nat \X Nat /\ <<m, n>>[1] = m /\ <<m, n>>[2] = n
    BY <2>1
  <2>3. ~(m < n)
    BY <1>2, <2>2 DEF R
  <2>4. QED
    BY <2>1, <2>3
<1>4. QED
  BY <1>3

\* From iLastNode on there is a first visible file, or there is none.
LEMMA NextFileOrNone ==
  ASSUME TypeStrong
  PROVE  NoMoreFiles \/ \E n \in Nodes : NextFile(n)
<1> DEFINE S == {n \in Nodes : n >= iLastNode /\ Visible(obey, n)}
<1>1. S \subseteq Nat
  BY DEF Nodes
<1>2. CASE S = {}
  BY <1>2 DEF NoMoreFiles
<1>3. CASE S # {}
  <2>1. PICK n \in S : \A m \in S : n <= m
    <3> HIDE DEF S
    <3>1. QED
      BY <1>1, <1>3, LeastNumber
  <2>2. N \in Nat /\ iLastNode \in 1..(N + 1) /\ n \in 1..N
    BY LayoutAssumption DEF TypeStrong, Types, Nodes
  <2>3. ASSUME NEW m \in iLastNode..(n - 1) PROVE ~Visible(obey, m)
    <3>1. m \in Nodes /\ m >= iLastNode /\ ~(n <= m)
      BY <2>2, <2>3 DEF Nodes
    <3>2. QED
      BY <2>1, <3>1
  <2>4. n \in Nodes /\ n >= iLastNode /\ Visible(obey, n)
    OBVIOUS
  <2>5. QED
    BY <2>3, <2>4 DEF NextFile
<1>4. QED
  BY <1>2, <1>3

\* What a worker at each label waits for: GetFileNode has a node or the end of the
\* list, the poll of GetDeferredJob has the count it asks for, the rest goes on.
CanWork(w) ==
  \/ pc[w] = "get" /\ (NoMoreFiles \/ \E n \in Nodes : NextFile(n))
  \/ pc[w] \in {"place", "read", "symbol", "arrive", "placeAlias", "readAlias"}
  \/ pc[w] = "defer" /\ iWorkerArrived >= gThreadNum

\* The defer point lets the workers through: while one has not left, one can go on,
\* so that the poll of GetDeferredJob never has everyone waiting for everyone.
THEOREM NobodyStuck ==
  Spec => []((\E w \in Workers : pc[w] # "exit") => \E w \in Workers : CanWork(w))
<1>1. TypeStrong /\ ArrivedCount =>
        ((\E w \in Workers : pc[w] # "exit") => \E w \in Workers : CanWork(w))
  <2> SUFFICES ASSUME TypeStrong, ArrivedCount, NEW w \in Workers, pc[w] # "exit",
                      \A v \in Workers : ~CanWork(v)
               PROVE  FALSE
    OBVIOUS
  <2>1. \A v \in Workers : pc[v] \in {"defer", "exit"}
    BY NextFileOrNone DEF CanWork, TypeStrong, Types, Labels
  <2>2. Arrived = Workers
    BY <2>1 DEF Arrived
  <2>3. iWorkerArrived = gThreadNum
    BY <2>2 DEF ArrivedCount, gThreadNum
  <2>4. gThreadNum \in Nat
    BY WorkersAssumption, FS_CardinalityType DEF gThreadNum
  <2>5. QED
    BY <2>1, <2>3, <2>4 DEF CanWork
<1>2. QED
  BY <1>1, InitTypes, NextTypes, NextArrived, PTL DEF Spec

\* What is left to do as far as worker w is concerned: nodes to hand out, nodes put
\* aside, and the steps w takes with what it holds.
StepsOf == [l \in Labels |->
  CASE l = "exit" -> 0 [] l = "defer" -> 1 [] l = "arrive" -> 2 [] l = "get" -> 3
    [] l = "symbol" -> 4 [] l = "read" -> 5 [] l = "place" -> 6
    [] l = "readAlias" -> 2 [] l = "placeAlias" -> 3]

Left(w) == 4 * ((N + 1) - iLastNode) + 3 * Len(iQueueAliasNode) + StepsOf[pc[w]]

LEMMA NodesLeft ==
  ASSUME NEW n \in Nat, NEW i \in 1..(n + 1)
  PROVE  (n + 1) - i \in Nat
OBVIOUS

\* The sums of Left before and after a step: nodes, nodes put aside, steps.
LEMMA LessLeft ==
  ASSUME NEW n \in Int, NEW i \in Int, NEW j \in Int, NEW q \in Nat, NEW r \in Nat,
         NEW a \in 0..6, NEW b \in 0..6,
         \/ j >= i + 1 /\ \/ r = q + 1 /\ b = a
                          \/ r = q /\ a = 3 /\ b = 6
         \/ j = i /\ \/ q = r + 1 /\ a = 1 /\ b = 3
                     \/ r = q /\ b < a
  PROVE  4 * ((n + 1) - j) + 3 * r + b < 4 * ((n + 1) - i) + 3 * q + a
OBVIOUS

\* No thread goes round for ever: each step of a worker leaves less to do, and takes
\* nothing from what the others have left.  With NobodyStuck it bounds a build to
\* 4 * N + 3 * gThreadNum steps of the workers.
THEOREM WorkShrinks ==
  Spec => [][\A w \in Workers :
               Work(w) => /\ Left(w)' \in Nat
                          /\ Left(w)' < Left(w)
                          /\ \A v \in Workers \ {w} : StepsOf[pc'[v]] = StepsOf[pc[v]]]_vars
<1> DEFINE Shrinks == \A w \in Workers :
               Work(w) => /\ Left(w)' \in Nat
                          /\ Left(w)' < Left(w)
                          /\ \A v \in Workers \ {w} : StepsOf[pc'[v]] = StepsOf[pc[v]]
<1>1. TypeStrong /\ TypeStrong' => Shrinks
  <2> SUFFICES ASSUME TypeStrong, TypeStrong', NEW w \in Workers, Work(w)
               PROVE  /\ Left(w)' \in Nat
                      /\ Left(w)' < Left(w)
                      /\ \A v \in Workers \ {w} : StepsOf[pc'[v]] = StepsOf[pc[v]]
    OBVIOUS
  <2>1. /\ N \in Nat
        /\ iLastNode \in 1..(N + 1) /\ iLastNode' \in 1..(N + 1)
        /\ iQueueAliasNode \in Seq(Nodes) /\ iQueueAliasNode' \in Seq(Nodes)
        /\ pc \in [Workers -> Labels] /\ pc' \in [Workers -> Labels]
    BY LayoutAssumption DEF TypeStrong, Types
  <2>2. Len(iQueueAliasNode) \in Nat /\ Len(iQueueAliasNode') \in Nat
    BY <2>1
  <2>3. /\ StepsOf["exit"] = 0 /\ StepsOf["defer"] = 1 /\ StepsOf["arrive"] = 2
        /\ StepsOf["get"] = 3 /\ StepsOf["symbol"] = 4 /\ StepsOf["read"] = 5
        /\ StepsOf["place"] = 6 /\ StepsOf["readAlias"] = 2 /\ StepsOf["placeAlias"] = 3
    BY DEF StepsOf, Labels
  <2>4. StepsOf[pc[w]] \in 0..6 /\ StepsOf[pc'[w]] \in 0..6
    <3>1. \A l \in Labels : StepsOf[l] \in 0..6
      BY <2>3 DEF Labels
    <3>2. pc[w] \in Labels /\ pc'[w] \in Labels
      BY <2>1
    <3>3. QED
      BY <3>1, <3>2
  <2>5. Left(w)' \in Nat
    <3>0. N \in Nat /\ iLastNode' \in 1..(N + 1)
      BY <2>1
    <3>1. (N + 1) - iLastNode' \in Nat
      BY <3>0, NodesLeft
    <3>2. StepsOf[pc'[w]] \in Nat
      BY <2>4
    <3>3. QED
      BY <2>2, <3>1, <3>2 DEF Left
  <2>6. \A v \in Workers \ {w} : pc'[v] = pc[v]
    BY <2>1 DEF Work, GetFileNode, PlaceFileTest, PlaceFileRead, AddSymbol, ArriveDeferPoint,
                GetDeferredJob, PopDeferred, Goto, workerVars
  <2>7. \/ /\ iLastNode' > iLastNode
           /\ \/ Len(iQueueAliasNode') = Len(iQueueAliasNode) + 1 /\ pc'[w] = pc[w]
              \/ Len(iQueueAliasNode') = Len(iQueueAliasNode) /\ pc[w] = "get" /\ pc'[w] = "place"
        \/ /\ iLastNode' = iLastNode
           /\ \/ /\ Len(iQueueAliasNode) = Len(iQueueAliasNode') + 1
                 /\ pc[w] = "defer" /\ pc'[w] = "placeAlias"
              \/ /\ iQueueAliasNode' = iQueueAliasNode
                 /\ <<pc[w], pc'[w]>> \in
                       {<<"get", "arrive">>, <<"place", "symbol">>, <<"place", "read">>,
                        <<"read", "symbol">>, <<"symbol", "get">>, <<"arrive", "defer">>,
                        <<"placeAlias", "defer">>, <<"placeAlias", "readAlias">>,
                        <<"readAlias", "defer">>, <<"defer", "exit">>}
    <3>1. CASE GetFileNode(w)
      <4>1. CASE NoMoreFiles /\ Goto(w, "arrive")
                 /\ UNCHANGED <<iLastNode, iVPS, iQueueAliasNode, job>>
        BY <2>1, <3>1, <4>1 DEF GetFileNode, Goto
      <4>2. CASE \E n \in Nodes :
                   /\ NextFile(n) /\ iLastNode' = n + 1
                   /\ \/ iQueueAliasNode' = Append(iQueueAliasNode, n) /\ pc' = pc
                      \/ Goto(w, "place") /\ UNCHANGED iQueueAliasNode
        <5>1. PICK n \in Nodes :
                   /\ NextFile(n) /\ iLastNode' = n + 1
                   /\ \/ iQueueAliasNode' = Append(iQueueAliasNode, n) /\ pc' = pc
                      \/ Goto(w, "place") /\ UNCHANGED iQueueAliasNode
          BY <4>2
        <5>2. iLastNode' > iLastNode
          BY <2>1, <5>1 DEF NextFile, Nodes
        <5>3. Len(Append(iQueueAliasNode, n)) = Len(iQueueAliasNode) + 1
          BY <2>1
        <5>4. pc[w] = "get"
          BY <3>1 DEF GetFileNode
        <5>5. QED
          BY <2>1, <5>1, <5>2, <5>3, <5>4 DEF Goto
      <4>3. QED
        BY <3>1, <4>1, <4>2 DEF GetFileNode, workerVars
    <3>2. CASE PlaceFileTest(w) \/ PlaceFileRead(w) \/ AddSymbol(w) \/ ArriveDeferPoint(w)
      BY <2>1, <3>2 DEF PlaceFileTest, PlaceFileRead, AddSymbol, ArriveDeferPoint, AfterPlace,
                        Goto, listVars
    <3>3. CASE GetDeferredJob(w)
      <4>1. pc[w] = "defer" /\ iLastNode' = iLastNode
        BY <3>3 DEF GetDeferredJob, PopDeferred
      <4>2. CASE iQueueAliasNode # <<>> /\ iQueueAliasNode' = Tail(iQueueAliasNode)
                 /\ Goto(w, "placeAlias")
        <5>1. Len(iQueueAliasNode) = Len(iQueueAliasNode') + 1
          BY <2>1, <4>2
        <5>2. QED
          BY <2>1, <4>1, <4>2, <5>1 DEF Goto
      <4>3. CASE Goto(w, "exit") /\ UNCHANGED iQueueAliasNode
        BY <2>1, <4>1, <4>3 DEF Goto
      <4>4. QED
        BY <3>3, <4>2, <4>3 DEF GetDeferredJob, PopDeferred
    <3>4. QED
      BY <3>1, <3>2, <3>3 DEF Work
  <2>8. Left(w)' < Left(w)
    <3> DEFINE a == StepsOf[pc[w]]
               b == StepsOf[pc'[w]]
               q == Len(iQueueAliasNode)
               r == Len(iQueueAliasNode')
    <3>1. \/ iLastNode' >= iLastNode + 1 /\ \/ r = q + 1 /\ b = a
                                            \/ r = q /\ a = 3 /\ b = 6
          \/ iLastNode' = iLastNode /\ \/ q = r + 1 /\ a = 1 /\ b = 3
                                       \/ r = q /\ b < a
      BY <2>1, <2>3, <2>7
    <3>2. a \in 0..6 /\ b \in 0..6 /\ q \in Nat /\ r \in Nat
      BY <2>2, <2>4
    <3>3. 4 * ((N + 1) - iLastNode') + 3 * r + b < 4 * ((N + 1) - iLastNode) + 3 * q + a
      <4>1. N \in Int /\ iLastNode \in Int /\ iLastNode' \in Int
        BY <2>1
      <4>2. QED
        BY <3>1, <3>2, <4>1, LessLeft
    <3>4. QED
      BY <3>3 DEF Left
  <2>9. QED
    BY <2>5, <2>6, <2>8
<1>2. TypeStrong /\ TypeStrong' /\ [Next]_vars => [Shrinks]_vars
  BY <1>1
<1>3. QED
  BY <1>2, InitTypes, NextTypes, PTL DEF Spec
=============================================================================
