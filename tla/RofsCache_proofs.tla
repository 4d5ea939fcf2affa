--------------------------- MODULE RofsCache_proofs ---------------------------
(***************************************************************************)
(* Proofs about RofsCache for every finite set of workers, every set of    *)
(* files and nodes, and any number of builds and edits.                    *)
(***************************************************************************)
EXTENDS RofsCache, SequenceTheorems, TLAPS

Reading == {"read", "copy"}
Adding == {"add entry", "add cacheable"}
Closing == {"close", "save", "join"}

\* A worker that has a node has opened its file, and who reads a cached file has found
\* an entry for it.
WorkersTyped ==
  /\ \A w \in Workers : pc[w] # "next" => job[w] \in Nodes /\ seen[w] \in HostFiles /\ phase = "placing"
  /\ \A w \in Workers : pc[w] \in Reading => hit[w] \in Ids /\ heap[hit[w]] # None
  /\ \A w \in Workers : pc[w] = "copy" => heap[hit[w]].buffer # None
  /\ \A w \in Workers : pc[w] \in Adding => heap[job[w]] # None

\* What is found by name exists, and what was rendered has a body.
EntriesTyped ==
  /\ \A f \in Files : entrymap[f] # None => heap[entrymap[f]] # None
  /\ \A n \in Nodes : heap[n] # None => heap[n].buffer # None

\* The generator gets rendered entries, and the terminator from the end of a build only.
QueueTyped ==
  /\ \A i \in 1..Len(filelist) :
        IF filelist[i] = Terminator THEN phase \in Closing ELSE heap[filelist[i]] # None
  /\ gen \in {"open", "write"} => genEntry \in Nodes /\ heap[genEntry] # None
  /\ phase = "off" => filelist = <<>> /\ gen = "ended"

TypeStrong == TypeOK /\ WorkersTyped /\ EntriesTyped /\ QueueTyped

\* The fields of an entry of the cache.
LEMMA EntryFields ==
  ASSUME NEW e \in Entries
  PROVE  /\ e.file \in Files /\ e.time \in Times /\ e.comp \in Methods
         /\ e.buffer \in Bodies \cup {None}
BY DEF Entries

\* What is on the heap is an entry or nothing.
LEMMA HeapTypes ==
  ASSUME TypeOK, NEW i \in Ids, heap[i] # None
  PROVE  heap[i] \in Entries
BY DEF TypeOK

\* The fields of a file that was opened, and what it is rendered to.
LEMMA SeenFields ==
  ASSUME TypeOK, WorkersTyped, NEW w \in Workers, pc[w] # "next"
  PROVE  /\ job[w] \in Nodes /\ File(w) \in Files
         /\ seen[w].time \in Times /\ seen[w].comp \in Methods
         /\ NewFileComp(seen[w]) \in Methods
         /\ Body(seen[w].time, NewFileComp(seen[w])) \in Bodies
<1>1. job[w] \in Nodes /\ seen[w] \in HostFiles
  BY DEF WorkersTyped
<1>2. File(w) \in Files
  BY <1>1, NodesAssumption DEF File
<1>3. seen[w].time \in Times /\ seen[w].comp \in Methods
  BY <1>1 DEF HostFiles
<1>4. option \in Methods \/ option = "keep"
  BY MethodsAssumption DEF TypeOK
<1>5. NewFileComp(seen[w]) \in Methods
  BY <1>3, <1>4 DEF NewFileComp
<1>6. QED
  BY <1>1, <1>2, <1>3, <1>5 DEF Body, Bodies

\* The elements of a list with one more at its end.
LEMMA AppendElements ==
  ASSUME NEW S, NEW s \in Seq(S), NEW x \in S
  PROVE  /\ Append(s, x) \in Seq(S) /\ Len(s) \in Nat /\ Len(Append(s, x)) = Len(s) + 1
         /\ \A i \in 1..Len(s) : Append(s, x)[i] = s[i]
         /\ Append(s, x)[Len(s) + 1] = x
OBVIOUS

\* The list of the generator when something is queued...
LEMMA QueuedElements ==
  ASSUME TypeOK, NEW x \in Nodes \cup {Terminator}
  PROVE  /\ Append(filelist, x) \in Seq(Nodes \cup {Terminator}) /\ Len(filelist) \in Nat
         /\ Len(Append(filelist, x)) = Len(filelist) + 1
         /\ \A i \in 1..Len(filelist) : Append(filelist, x)[i] = filelist[i]
         /\ Append(filelist, x)[Len(filelist) + 1] = x
<1> DEFINE S == Nodes \cup {Terminator}
<1>1. filelist \in Seq(S) /\ x \in S
  BY DEF TypeOK
<1> HIDE DEF S
<1>2. /\ Append(filelist, x) \in Seq(S) /\ Len(filelist) \in Nat
      /\ Len(Append(filelist, x)) = Len(filelist) + 1
      /\ \A i \in 1..Len(filelist) : Append(filelist, x)[i] = filelist[i]
      /\ Append(filelist, x)[Len(filelist) + 1] = x
  BY <1>1, AppendElements
<1>3. QED
  BY <1>2 DEF S

\* ... and a list of which the head was taken.
LEMMA TailElements ==
  ASSUME NEW S, NEW s \in Seq(S), s # <<>>
  PROVE  /\ Head(s) \in S /\ Tail(s) \in Seq(S) /\ Len(s) \in Nat \ {0}
         /\ Len(Tail(s)) = Len(s) - 1 /\ Head(s) = s[1]
         /\ \A i \in 1..Len(Tail(s)) : Tail(s)[i] = s[i + 1]
BY HeadTailProperties, EmptySeq

\* A process that ends leaves nothing in memory.
LEMMA EndTypes ==
  ASSUME TypeOK, EndProcess, meta' \in [Files -> HostFiles \cup {None}], torn' \in BOOLEAN
  PROVE  TypeStrong'
<1>1. /\ phase' = "off" /\ todo' = {} /\ filelist' = <<>> /\ gen' = "ended" /\ genEntry' = None
      /\ \A i \in Ids : heap'[i] = None
      /\ \A f \in Files : entrymap'[f] = None
      /\ \A w \in Workers : pc'[w] = "next"
  BY DEF EndProcess
<1>2. TypeOK'
  BY EmptySeq DEF EndProcess, TypeOK
<1>3. WorkersTyped'
  BY <1>1 DEF WorkersTyped, Reading, Adding
<1>4. EntriesTyped'
  BY <1>1 DEF EntriesTyped, Ids
<1>5. QueueTyped'
  <2>1. Len(filelist') = 0
    BY <1>1, EmptySeq
  <2>2. QED
    BY <1>1, <2>1 DEF QueueTyped
<1>6. QED
  BY <1>2, <1>3, <1>4, <1>5 DEF TypeStrong

\* The types hold at the start.
LEMMA InitTypes == Init => TypeStrong
<1> SUFFICES ASSUME Init PROVE TypeStrong
  OBVIOUS
<1>0. MaxEdits \in Nat /\ MaxBuilds \in Nat /\ 0 \in Times
  BY BoundsAssumption DEF Times
<1>1. /\ phase = "off" /\ filelist = <<>> /\ gen = "ended"
      /\ \A i \in Ids : heap[i] = None
      /\ \A f \in Files : entrymap[f] = None
      /\ \A w \in Workers : pc[w] = "next"
  BY DEF Init, Idle
<1>2. host \in [Files -> HostFiles]
  BY <1>0 DEF Init, HostFiles
<1>3. TypeOK
  <2>1. edits \in 0..MaxEdits /\ builds \in 0..MaxBuilds /\ option \in Options
    BY <1>0 DEF Init
  <2>2. cached \in [Files \X Methods -> Bodies \cup {None}]
    BY DEF Init
  <2>3. /\ meta \in [Files -> HostFiles \cup {None}] /\ torn \in BOOLEAN
        /\ image \in [Nodes -> [opened : Times, method : Methods, body : Bodies] \cup {None}]
    BY DEF Init
  <2>4. /\ phase \in {"off", "placing", "close", "save", "join"} /\ todo \subseteq Nodes
        /\ heap \in [Ids -> Entries \cup {None}] /\ entrymap \in [Files -> Ids \cup {None}]
        /\ filelist \in Seq(Nodes \cup {Terminator})
        /\ gen \in {"get", "open", "write", "ended"} /\ genEntry \in Nodes \cup {Terminator, None}
    BY EmptySeq DEF Init, Idle
  <2>5. /\ pc \in [Workers -> {"next", "look up", "read", "copy", "render", "add entry", "add cacheable"}]
        /\ job \in [Workers -> Nodes \cup {None}]
        /\ seen \in [Workers -> HostFiles \cup {None}] /\ hit \in [Workers -> Ids \cup {None}]
    BY DEF Init, Idle
  <2>6. QED
    BY <1>1, <1>2, <2>1, <2>2, <2>3, <2>4, <2>5 DEF TypeOK
<1>4. WorkersTyped /\ EntriesTyped
  BY <1>1 DEF WorkersTyped, EntriesTyped, Reading, Adding, Ids
<1>5. QueueTyped
  <2>1. Len(filelist) = 0
    BY <1>1, EmptySeq
  <2>2. QED
    BY <1>1, <2>1 DEF QueueTyped
<1>6. QED
  BY <1>3, <1>4, <1>5 DEF TypeStrong

\* A step of a worker that leaves the entries, the list and the generator alone.
LEMMA WorkerStep ==
  ASSUME TypeStrong, UNCHANGED <<phase, cacheVars, filelist, genVars>>
  PROVE  EntriesTyped' /\ QueueTyped'
BY DEF TypeStrong, EntriesTyped, QueueTyped, cacheVars, genVars

\* A step keeps the types.
LEMMA NextTypes == TypeStrong /\ [Next]_vars => TypeStrong'
<1> SUFFICES ASSUME TypeStrong, [Next]_vars PROVE TypeStrong'
  OBVIOUS
<1> USE DEF diskVars, cacheVars, genVars, workVars
<1>t. TypeOK /\ WorkersTyped /\ EntriesTyped /\ QueueTyped
  BY DEF TypeStrong
<1>p. /\ pc \in [Workers -> {"next", "look up", "read", "copy", "render", "add entry", "add cacheable"}]
      /\ job \in [Workers -> Nodes \cup {None}]
      /\ seen \in [Workers -> HostFiles \cup {None}]
      /\ hit \in [Workers -> Ids \cup {None}]
      /\ heap \in [Ids -> Entries \cup {None}] /\ entrymap \in [Files -> Ids \cup {None}]
      /\ filelist \in Seq(Nodes \cup {Terminator})
      /\ Files \subseteq Ids /\ Nodes \subseteq Ids /\ todo \subseteq Nodes
  BY <1>t DEF TypeOK, Ids
<1>1. CASE StartBuild
  <2>1. phase = "off" /\ builds' = builds + 1 /\ builds' \in 0..MaxBuilds /\ option' \in Options
    <3>1. builds \in 0..MaxBuilds /\ MaxBuilds \in Nat
      BY <1>t, BoundsAssumption DEF TypeOK
    <3>2. QED
      BY <1>1, <3>1 DEF StartBuild
  <2>2. /\ UNCHANGED <<host, edits, diskVars, filelist, genEntry, workVars>>
        /\ image' = [n \in Nodes |-> None]
    BY <1>1 DEF StartBuild
  <2>3. \A w \in Workers : pc[w] = "next"
    BY <1>p, <1>t, <2>1 DEF WorkersTyped
  <2>4. filelist = <<>> /\ gen = "ended"
    BY <1>t, <2>1 DEF QueueTyped
  <2>5. CASE UNCHANGED <<cacheVars, todo, gen, phase>>
    <3>1. TypeOK'
      BY <1>t, <2>1, <2>2, <2>5 DEF TypeOK
    <3>2. WorkersTyped' /\ EntriesTyped' /\ QueueTyped'
      BY <1>t, <2>2, <2>5 DEF WorkersTyped, EntriesTyped, QueueTyped
    <3>3. QED
      BY <3>1, <3>2 DEF TypeStrong
  <2>6. CASE /\ heap' = [i \in Ids |->
                      IF i \in Files /\ meta[i] # None
                      THEN [file |-> i, time |-> meta[i].time, comp |-> meta[i].comp, buffer |-> None]
                      ELSE None]
             /\ entrymap' = [f \in Files |-> IF meta[f] = None THEN None ELSE f]
             /\ todo' = Nodes /\ gen' = "get" /\ phase' = "placing"
    <3>1. ASSUME NEW f \in Files, meta[f] # None
          PROVE  [file |-> f, time |-> meta[f].time, comp |-> meta[f].comp, buffer |-> None] \in Entries
      <4>1. meta[f] \in HostFiles
        BY <1>t, <3>1 DEF TypeOK
      <4>2. meta[f].time \in Times /\ meta[f].comp \in Methods
        BY <4>1 DEF HostFiles
      <4>3. QED
        BY <4>2 DEF Entries
    <3>2. heap' \in [Ids -> Entries \cup {None}]
      BY <2>6, <3>1
    <3>3. entrymap' \in [Files -> Ids \cup {None}]
      BY <1>p, <2>6
    <3>4. TypeOK'
      BY <1>t, <2>1, <2>2, <2>6, <3>2, <3>3 DEF TypeOK
    <3>5. WorkersTyped'
      BY <2>2, <2>3 DEF WorkersTyped, Reading, Adding
    <3>6. EntriesTyped'
      <4>1. \A n \in Nodes : heap'[n] = None
        BY <1>p, <2>6, NodesAssumption
      <4>2. ASSUME NEW f \in Files, entrymap'[f] # None PROVE heap'[entrymap'[f]] # None
        <5>1. entrymap'[f] = f /\ meta[f] # None
          BY <2>6, <4>2
        <5>2. heap'[f] \in Entries
          BY <1>p, <2>6, <3>1, <5>1
        <5>3. QED
          BY <5>1, <5>2, NoneAssumption
      <4>3. QED
        BY <4>1, <4>2 DEF EntriesTyped
    <3>7. QueueTyped'
      <4>1. Len(filelist') = 0
        BY <2>2, <2>4, EmptySeq
      <4>2. QED
        BY <2>6, <4>1 DEF QueueTyped
    <3>8. QED
      BY <3>4, <3>5, <3>6, <3>7 DEF TypeStrong
  <2>7. QED
    BY <1>1, <2>5, <2>6 DEF StartBuild
<1>2. CASE AddTerminator
  <2>1. /\ phase = "placing" /\ phase' = "close" /\ filelist' = Append(filelist, Terminator)
        /\ \A w \in Workers : pc[w] = "next"
        /\ UNCHANGED <<host, edits, builds, diskVars, option, todo, cacheVars, genVars, workVars, image>>
    BY <1>2 DEF AddTerminator
  <2>2. /\ filelist' \in Seq(Nodes \cup {Terminator}) /\ Len(filelist') = Len(filelist) + 1
        /\ Len(filelist) \in Nat
        /\ \A i \in 1..Len(filelist) : filelist'[i] = filelist[i]
        /\ filelist'[Len(filelist) + 1] = Terminator
    <3>1. Terminator \in Nodes \cup {Terminator}
      OBVIOUS
    <3>2. /\ Append(filelist, Terminator) \in Seq(Nodes \cup {Terminator}) /\ Len(filelist) \in Nat
          /\ Len(Append(filelist, Terminator)) = Len(filelist) + 1
          /\ \A i \in 1..Len(filelist) : Append(filelist, Terminator)[i] = filelist[i]
          /\ Append(filelist, Terminator)[Len(filelist) + 1] = Terminator
      BY <1>t, <3>1, QueuedElements
    <3>3. QED
      BY <2>1, <3>2
  <2>3. TypeOK'
    BY <1>t, <2>1, <2>2 DEF TypeOK
  <2>4. WorkersTyped' /\ EntriesTyped'
    BY <1>t, <2>1 DEF WorkersTyped, EntriesTyped, Reading, Adding
  <2>5. QueueTyped'
    <3>1. ASSUME NEW i \in 1..Len(filelist'), filelist'[i] # Terminator PROVE heap[filelist'[i]] # None
      <4>1. i \in 1..Len(filelist)
        BY <2>2, <3>1
      <4>2. QED
        BY <1>t, <2>2, <3>1, <4>1 DEF QueueTyped
    <3>2. QED
      BY <1>t, <2>1, <3>1 DEF QueueTyped, Closing
  <2>6. QED
    BY <2>3, <2>4, <2>5 DEF TypeStrong
<1>3. CASE TruncateMeta
  <2>1. /\ phase = "close" /\ phase' = "save" /\ meta' = [f \in Files |-> None]
        /\ UNCHANGED <<host, edits, builds, cached, torn, option, todo, cacheVars, filelist, genVars, workVars, image>>
    BY <1>3 DEF TruncateMeta
  <2>2. TypeOK'
    BY <1>t, <2>1 DEF TypeOK
  <2>3. WorkersTyped' /\ EntriesTyped' /\ QueueTyped'
    BY <1>t, <2>1 DEF WorkersTyped, EntriesTyped, QueueTyped, Closing, Reading, Adding
  <2>4. QED
    BY <2>2, <2>3 DEF TypeStrong
<1>4. CASE SaveMeta
  <2>1. /\ phase = "save" /\ phase' = "join" /\ meta' = [f \in Files |-> Line(entrymap[f])]
        /\ UNCHANGED <<host, edits, builds, cached, torn, option, todo, cacheVars, filelist, genVars, workVars, image>>
    BY <1>4 DEF SaveMeta
  <2>2. ASSUME NEW f \in Files PROVE Line(entrymap[f]) \in HostFiles \cup {None}
    <3>1. CASE entrymap[f] = None
      BY <3>1 DEF Line
    <3>2. CASE entrymap[f] # None
      <4>1. heap[entrymap[f]] \in Entries
        BY <1>t, <1>p, <3>2, HeapTypes DEF EntriesTyped
      <4>2. heap[entrymap[f]].time \in Times /\ heap[entrymap[f]].comp \in Methods
        BY <4>1, EntryFields
      <4>3. QED
        BY <3>2, <4>2 DEF Line, HostFiles
    <3>3. QED
      BY <3>1, <3>2
  <2>3. TypeOK'
    BY <1>t, <2>1, <2>2 DEF TypeOK
  <2>4. WorkersTyped' /\ EntriesTyped' /\ QueueTyped'
    BY <1>t, <2>1 DEF WorkersTyped, EntriesTyped, QueueTyped, Closing, Reading, Adding
  <2>5. QED
    BY <2>3, <2>4 DEF TypeStrong
<1>5. CASE Join
  BY <1>5, <1>t, EndTypes DEF Join, TypeOK
<1>6. CASE Crash
  <2>1. EndProcess /\ torn' \in BOOLEAN
    BY <1>6, <1>t DEF Crash, TypeOK
  <2>2. ASSUME NEW f \in Files PROVE Line(entrymap[f]) \in HostFiles \cup {None}
    <3>1. CASE entrymap[f] = None
      BY <3>1 DEF Line
    <3>2. CASE entrymap[f] # None
      <4>1. heap[entrymap[f]] \in Entries
        BY <1>t, <1>p, <3>2, HeapTypes DEF EntriesTyped
      <4>2. heap[entrymap[f]].time \in Times /\ heap[entrymap[f]].comp \in Methods
        BY <4>1, EntryFields
      <4>3. QED
        BY <3>2, <4>2 DEF Line, HostFiles
    <3>3. QED
      BY <3>1, <3>2
  <2>3. meta' \in [Files -> HostFiles \cup {None}]
    BY <1>6, <1>t, <2>2 DEF Crash, TypeOK
  <2>4. QED
    BY <1>t, <2>1, <2>3, EndTypes
<1>7. CASE CleanCache
  <2>1. /\ phase = "off" /\ builds' \in 0..MaxBuilds
        /\ UNCHANGED <<host, edits, torn, phase, option, todo, cacheVars, filelist, genVars, workVars, image>>
    <3>1. builds \in 0..MaxBuilds /\ MaxBuilds \in Nat
      BY <1>t, BoundsAssumption DEF TypeOK
    <3>2. QED
      BY <1>7, <3>1 DEF CleanCache
  <2>2. /\ cached' \in [Files \X Methods -> Bodies \cup {None}]
        /\ meta' \in [Files -> HostFiles \cup {None}]
    BY <1>7, <1>t DEF CleanCache, TypeOK
  <2>3. TypeOK'
    BY <1>t, <2>1, <2>2 DEF TypeOK
  <2>4. WorkersTyped' /\ EntriesTyped' /\ QueueTyped'
    BY <1>t, <2>1 DEF WorkersTyped, EntriesTyped, QueueTyped
  <2>5. QED
    BY <2>3, <2>4 DEF TypeStrong
<1>8. ASSUME NEW f \in Files, Edit(f) PROVE TypeStrong'
  <2>1. /\ edits' = edits + 1 /\ edits < MaxEdits
        /\ \E c \in Methods : host' = [host EXCEPT ![f] = [time |-> edits + 1, comp |-> c]]
        /\ UNCHANGED <<builds, diskVars, phase, option, todo, cacheVars, filelist, genVars, workVars, image>>
    BY <1>8 DEF Edit
  <2>2. edits' \in 0..MaxEdits /\ edits + 1 \in Times
    <3>1. edits \in 0..MaxEdits /\ MaxEdits \in Nat
      BY <1>t, BoundsAssumption DEF TypeOK
    <3>2. QED
      BY <2>1, <3>1 DEF Times
  <2>3. host' \in [Files -> HostFiles]
    <3>1. \A c \in Methods : [time |-> edits + 1, comp |-> c] \in HostFiles
      BY <2>2 DEF HostFiles
    <3>2. host \in [Files -> HostFiles]
      BY <1>t DEF TypeOK
    <3>3. QED
      BY <2>1, <3>1, <3>2
  <2>4. TypeOK'
    BY <1>t, <2>1, <2>2, <2>3 DEF TypeOK
  <2>5. WorkersTyped' /\ EntriesTyped' /\ QueueTyped'
    BY <1>t, <2>1 DEF WorkersTyped, EntriesTyped, QueueTyped
  <2>6. QED
    BY <2>4, <2>5 DEF TypeStrong
<1>9. ASSUME NEW w \in Workers, OpenFile(w) PROVE TypeStrong'
  <2>1. PICK n \in todo : /\ todo' = todo \ {n} /\ job' = [job EXCEPT ![w] = n]
                          /\ seen' = [seen EXCEPT ![w] = host[iFileName[n]]]
    BY <1>9 DEF OpenFile
  <2>2. /\ phase = "placing" /\ pc' = [pc EXCEPT ![w] = "look up"]
        /\ UNCHANGED <<host, edits, builds, diskVars, phase, option, cacheVars, filelist, genVars, hit, image>>
    BY <1>9 DEF OpenFile, Goto
  <2>3. n \in Nodes /\ host[iFileName[n]] \in HostFiles
    <3>1. n \in Nodes /\ iFileName[n] \in Files
      BY <1>p, NodesAssumption
    <3>2. QED
      BY <1>t, <3>1 DEF TypeOK
  <2>4. TypeOK'
    <3>1. job' \in [Workers -> Nodes \cup {None}] /\ seen' \in [Workers -> HostFiles \cup {None}]
      BY <1>p, <2>1, <2>3
    <3>2. pc' \in [Workers -> {"next", "look up", "read", "copy", "render", "add entry", "add cacheable"}]
      BY <1>p, <2>2
    <3>3. todo' \subseteq Nodes
      BY <1>p, <2>1
    <3>4. QED
      BY <1>t, <2>2, <3>1, <3>2, <3>3 DEF TypeOK
  <2>5. WorkersTyped'
    <3>1. \A v \in Workers : v # w => pc'[v] = pc[v] /\ job'[v] = job[v] /\ seen'[v] = seen[v]
      BY <1>p, <2>1, <2>2
    <3>2. pc'[w] = "look up" /\ job'[w] = n /\ seen'[w] = host[iFileName[n]]
      BY <1>p, <2>1, <2>2
    <3>3. \A v \in Workers :
             pc'[v] # "next" => job'[v] \in Nodes /\ seen'[v] \in HostFiles /\ phase = "placing"
      BY <1>t, <2>2, <2>3, <3>1, <3>2 DEF WorkersTyped
    <3>4. \A v \in Workers : pc'[v] \in Reading \/ pc'[v] \in Adding => v # w
      BY <3>2 DEF Reading, Adding
    <3>5. QED
      BY <1>t, <2>2, <3>1, <3>2, <3>3, <3>4 DEF WorkersTyped, Reading
  <2>6. QED
    BY <2>2, <2>4, <2>5, WorkerStep DEF TypeStrong
<1>10. ASSUME NEW w \in Workers, Validate(w) PROVE TypeStrong'
  <2>1. /\ pc[w] = "look up"
        /\ UNCHANGED <<host, edits, builds, diskVars, phase, option, todo, cacheVars, filelist, genVars, job, seen, image>>
        /\ \/ /\ pc' = [pc EXCEPT ![w] = "read"]
              /\ hit' = [hit EXCEPT ![w] = entrymap[File(w)]] /\ entrymap[File(w)] # None
           \/ pc' = [pc EXCEPT ![w] = "render"] /\ UNCHANGED hit
    BY <1>10 DEF Validate, Validates, Goto
  <2>2. job[w] \in Nodes /\ File(w) \in Files /\ entrymap[File(w)] \in Ids \cup {None}
    BY <1>t, <1>p, <2>1, SeenFields
  <2>3. TypeOK'
    <3>1. pc' \in [Workers -> {"next", "look up", "read", "copy", "render", "add entry", "add cacheable"}]
      BY <1>p, <2>1
    <3>2. hit' \in [Workers -> Ids \cup {None}]
      BY <1>p, <2>1, <2>2
    <3>3. QED
      BY <1>t, <2>1, <3>1, <3>2 DEF TypeOK
  <2>4. WorkersTyped'
    <3>1. \A v \in Workers : v # w => pc'[v] = pc[v] /\ hit'[v] = hit[v]
      BY <1>p, <2>1
    <3>2. /\ pc'[w] \in {"read", "render"}
          /\ pc'[w] = "read" => hit'[w] = entrymap[File(w)] /\ entrymap[File(w)] # None
      BY <1>p, <2>1
    <3>3. pc'[w] = "read" => hit'[w] \in Ids /\ heap[hit'[w]] # None
      BY <1>t, <2>2, <3>2 DEF EntriesTyped
    <3>4. QED
      BY <1>t, <2>1, <2>2, <3>1, <3>2, <3>3 DEF WorkersTyped, Reading, Adding
  <2>5. QED
    BY <2>1, <2>3, <2>4, WorkerStep DEF TypeStrong
<1>11. ASSUME NEW w \in Workers, ReadCached(w) PROVE TypeStrong'
  <2> DEFINE name == CachedName(File(w), heap[hit[w]].comp)
  <2>1. /\ pc[w] = "read"
        /\ UNCHANGED <<host, edits, builds, diskVars, phase, option, todo, entrymap, filelist, genVars,
                       job, seen, hit, image>>
        /\ \/ /\ cached[name] # None /\ heap' = [heap EXCEPT ![hit[w]].buffer = cached[name]]
              /\ pc' = [pc EXCEPT ![w] = "copy"]
           \/ pc' = [pc EXCEPT ![w] = "render"] /\ UNCHANGED heap
    BY <1>11 DEF ReadCached, Goto
  <2>2. hit[w] \in Ids /\ heap[hit[w]] # None /\ heap[hit[w]] \in Entries /\ File(w) \in Files
    BY <1>t, <2>1, HeapTypes, SeenFields DEF WorkersTyped, Reading
  <2>3. cached[name] \in Bodies \cup {None}
    <3>1. name \in Files \X Methods
      BY <2>2, EntryFields DEF CachedName
    <3>2. QED
      BY <1>t, <3>1 DEF TypeOK
  <2>4. CASE pc' = [pc EXCEPT ![w] = "render"] /\ UNCHANGED heap
    <3>1. TypeOK'
      BY <1>t, <1>p, <2>1, <2>4 DEF TypeOK
    <3>2. \A v \in Workers : pc'[v] = pc[v] \/ (v = w /\ pc'[v] = "render")
      BY <1>p, <2>4
    <3>3. WorkersTyped'
      BY <1>t, <2>1, <2>4, <3>2 DEF WorkersTyped, Reading, Adding
    <3>4. QED
      BY <2>1, <2>4, <3>1, <3>3, WorkerStep DEF TypeStrong
  <2>5. CASE /\ cached[name] # None /\ heap' = [heap EXCEPT ![hit[w]].buffer = cached[name]]
             /\ pc' = [pc EXCEPT ![w] = "copy"]
    <3> HIDE DEF name
    <3>1. /\ heap' \in [Ids -> Entries \cup {None}]
          /\ heap'[hit[w]] \in Entries /\ heap'[hit[w]].buffer = cached[name]
          /\ \A i \in Ids : i # hit[w] => heap'[i] = heap[i]
      <4>1. [heap[hit[w]] EXCEPT !.buffer = cached[name]] \in Entries
        BY <2>2, <2>3 DEF Entries
      <4>2. [heap[hit[w]] EXCEPT !.buffer = cached[name]].buffer = cached[name]
        BY <2>2 DEF Entries
      <4>3. heap' = [heap EXCEPT ![hit[w]] = [heap[hit[w]] EXCEPT !.buffer = cached[name]]]
        BY <2>5
      <4>4. QED
        BY <1>p, <2>2, <4>1, <4>2, <4>3
    <3>2. heap'[hit[w]] # None /\ \A i \in Ids : heap[i] # None => heap'[i] # None
      BY <3>1, NoneAssumption
    <3>3. \A i \in Ids : heap[i] # None /\ heap[i].buffer # None => heap'[i].buffer # None
      BY <2>5, <3>1
    <3>4. TypeOK'
      BY <1>t, <1>p, <2>1, <2>5, <3>1 DEF TypeOK
    <3>5. \A v \in Workers : pc'[v] = pc[v] \/ (v = w /\ pc'[v] = "copy")
      BY <1>p, <2>5
    <3>6. WorkersTyped'
      <4>1. \A v \in Workers : pc'[v] # "next" => job[v] \in Nodes /\ seen[v] \in HostFiles /\ phase = "placing"
        BY <1>t, <2>1, <3>5 DEF WorkersTyped
      <4>2. \A v \in Workers : pc'[v] \in Reading => hit[v] \in Ids /\ heap'[hit[v]] # None
        BY <1>t, <2>2, <3>2, <3>5 DEF WorkersTyped, Reading
      <4>3. \A v \in Workers : pc'[v] = "copy" => heap'[hit[v]].buffer # None
        BY <1>t, <2>5, <3>1, <3>3, <3>5 DEF WorkersTyped, Reading
      <4>4. \A v \in Workers : pc'[v] \in Adding => heap'[job[v]] # None
        BY <1>t, <1>p, <3>2, <3>5 DEF WorkersTyped, Adding
      <4>5. QED
        BY <2>1, <4>1, <4>2, <4>3, <4>4 DEF WorkersTyped
    <3>7. EntriesTyped'
      <4>1. \A f \in Files : entrymap[f] # None => heap'[entrymap[f]] # None
        BY <1>t, <1>p, <3>2 DEF EntriesTyped
      <4>2. \A n \in Nodes : heap'[n] # None => heap'[n].buffer # None
        BY <1>t, <1>p, <2>5, <3>1 DEF EntriesTyped
      <4>3. QED
        BY <2>1, <4>1, <4>2 DEF EntriesTyped
    <3>8. QueueTyped'
      <4>1. \A i \in 1..Len(filelist) : filelist[i] \in Nodes \cup {Terminator}
        BY <1>p, ElementOfSeq
      <4>2. QED
        BY <1>t, <1>p, <2>1, <3>2, <4>1 DEF QueueTyped
    <3>9. QED
      BY <3>4, <3>6, <3>7, <3>8 DEF TypeStrong
  <2>6. QED
    BY <2>1, <2>4, <2>5
<1>12. ASSUME NEW w \in Workers, CopyCached(w) PROVE TypeStrong'
  <2>1. /\ pc[w] = "copy" /\ pc' = [pc EXCEPT ![w] = "next"]
        /\ image' = [image EXCEPT ![job[w]] = Placed(w, heap[hit[w]].buffer)]
        /\ UNCHANGED <<host, edits, builds, diskVars, phase, option, todo, cacheVars, filelist, genVars,
                       job, seen, hit>>
    BY <1>12 DEF CopyCached, Goto
  <2>2. heap[hit[w]].buffer \in Bodies
    <3>1. hit[w] \in Ids /\ heap[hit[w]] \in Entries /\ heap[hit[w]].buffer # None
      BY <1>t, <2>1, HeapTypes DEF WorkersTyped, Reading
    <3>2. QED
      BY <3>1, EntryFields
  <2>3. Placed(w, heap[hit[w]].buffer) \in [opened : Times, method : Methods, body : Bodies]
    BY <1>t, <2>1, <2>2, SeenFields DEF Placed
  <2>4. TypeOK'
    BY <1>t, <1>p, <2>1, <2>3 DEF TypeOK
  <2>5. \A v \in Workers : pc'[v] = pc[v] \/ pc'[v] = "next"
    BY <1>p, <2>1
  <2>6. WorkersTyped'
    BY <1>t, <2>1, <2>5 DEF WorkersTyped, Reading, Adding
  <2>7. QED
    BY <2>1, <2>4, <2>6, WorkerStep DEF TypeStrong
<1>13. ASSUME NEW w \in Workers, Render(w) PROVE TypeStrong'
  <2> DEFINE body == Body(seen[w].time, NewFileComp(seen[w]))
             entry == [file |-> File(w), time |-> host[File(w)].time, comp |-> seen[w].comp, buffer |-> body]
  <2>1. /\ pc[w] = "render" /\ pc' = [pc EXCEPT ![w] = "add entry"]
        /\ image' = [image EXCEPT ![job[w]] = Placed(w, body)]
        /\ heap' = [heap EXCEPT ![job[w]] = entry]
        /\ UNCHANGED <<host, edits, builds, diskVars, phase, option, todo, entrymap, filelist, genVars,
                       job, seen, hit>>
    BY <1>13 DEF Render, Goto
  <2>2. job[w] \in Nodes /\ File(w) \in Files /\ body \in Bodies /\ seen[w].comp \in Methods
    BY <1>t, <2>1, SeenFields
  <2>3. entry \in Entries /\ entry.buffer = body
    <3>1. host[File(w)].time \in Times
      BY <1>t, <2>2 DEF TypeOK, HostFiles
    <3>2. QED
      BY <2>2, <3>1 DEF Entries
  <2>4. Placed(w, body) \in [opened : Times, method : Methods, body : Bodies]
    BY <1>t, <2>1, SeenFields DEF Placed
  <2> HIDE DEF body, entry
  <2>5. /\ heap' \in [Ids -> Entries \cup {None}] /\ heap'[job[w]] = entry
        /\ \A i \in Ids : i # job[w] => heap'[i] = heap[i]
    BY <1>p, <2>1, <2>2, <2>3
  <2>6. entry # None /\ entry.buffer # None
    BY <2>2, <2>3, NoneAssumption
  <2>7. /\ \A i \in Ids : heap[i] # None => heap'[i] # None
        /\ \A i \in Ids : heap[i] # None /\ heap[i].buffer # None => heap'[i].buffer # None
    BY <2>5, <2>6
  <2>8. TypeOK'
    BY <1>t, <1>p, <2>1, <2>4, <2>5 DEF TypeOK
  <2>9. \A v \in Workers : pc'[v] = pc[v] \/ (v = w /\ pc'[v] = "add entry")
    BY <1>p, <2>1
  <2>10. WorkersTyped'
    <3>1. \A v \in Workers : pc'[v] # "next" => job[v] \in Nodes /\ seen[v] \in HostFiles /\ phase = "placing"
      BY <1>t, <2>1, <2>9 DEF WorkersTyped
    <3>2. \A v \in Workers : pc'[v] \in Reading => hit[v] \in Ids /\ heap'[hit[v]] # None
      BY <1>t, <2>7, <2>9 DEF WorkersTyped, Reading
    <3>3. \A v \in Workers : pc'[v] = "copy" => heap'[hit[v]].buffer # None
      BY <1>t, <2>7, <2>9 DEF WorkersTyped, Reading
    <3>4. \A v \in Workers : pc'[v] \in Adding => heap'[job[v]] # None
      BY <1>t, <1>p, <2>5, <2>6, <2>7, <2>9 DEF WorkersTyped, Adding
    <3>5. QED
      BY <2>1, <3>1, <3>2, <3>3, <3>4 DEF WorkersTyped
  <2>11. EntriesTyped'
    <3>1. \A f \in Files : entrymap[f] # None => heap'[entrymap[f]] # None
      BY <1>t, <1>p, <2>7 DEF EntriesTyped
    <3>2. \A n \in Nodes : heap'[n] # None => heap'[n].buffer # None
      BY <1>t, <1>p, <2>5, <2>6 DEF EntriesTyped
    <3>3. QED
      BY <2>1, <3>1, <3>2 DEF EntriesTyped
  <2>12. QueueTyped'
    <3>1. \A i \in 1..Len(filelist) : filelist[i] \in Nodes \cup {Terminator}
      BY <1>p, ElementOfSeq
    <3>2. QED
      BY <1>t, <1>p, <2>1, <2>7, <3>1 DEF QueueTyped
  <2>13. QED
    BY <2>8, <2>10, <2>11, <2>12 DEF TypeStrong
<1>14. ASSUME NEW w \in Workers, AddEntry(w) PROVE TypeStrong'
  <2>1. /\ pc[w] = "add entry" /\ pc' = [pc EXCEPT ![w] = "add cacheable"]
        /\ entrymap' = [entrymap EXCEPT ![File(w)] = job[w]]
        /\ UNCHANGED <<host, edits, builds, diskVars, phase, option, todo, heap, filelist, genVars,
                       job, seen, hit, image>>
    BY <1>14 DEF AddEntry, Goto
  <2>2. job[w] \in Nodes /\ File(w) \in Files /\ heap[job[w]] # None
    BY <1>t, <2>1, SeenFields DEF WorkersTyped, Adding
  <2>3. entrymap' \in [Files -> Ids \cup {None}]
    BY <1>p, <2>1, <2>2
  <2>4. TypeOK'
    BY <1>t, <1>p, <2>1, <2>3 DEF TypeOK
  <2>5. \A v \in Workers : pc'[v] = pc[v] \/ (v = w /\ pc'[v] = "add cacheable")
    BY <1>p, <2>1
  <2>6. WorkersTyped'
    BY <1>t, <2>1, <2>2, <2>5 DEF WorkersTyped, Reading, Adding
  <2>7. EntriesTyped'
    BY <1>t, <1>p, <2>1, <2>2 DEF EntriesTyped
  <2>8. QueueTyped'
    BY <1>t, <2>1 DEF QueueTyped
  <2>9. QED
    BY <2>4, <2>6, <2>7, <2>8 DEF TypeStrong
<1>15. ASSUME NEW w \in Workers, AddCacheable(w) PROVE TypeStrong'
  <2>1. /\ pc[w] = "add cacheable" /\ pc' = [pc EXCEPT ![w] = "next"]
        /\ filelist' = Append(filelist, job[w])
        /\ UNCHANGED <<host, edits, builds, diskVars, phase, option, todo, cacheVars, genVars,
                       job, seen, hit, image>>
    BY <1>15 DEF AddCacheable, Goto
  <2>2. job[w] \in Nodes /\ heap[job[w]] # None /\ job[w] # Terminator /\ phase = "placing"
    BY <1>t, <1>p, <2>1, TerminatorAssumption DEF WorkersTyped, Adding
  <2>3. /\ filelist' \in Seq(Nodes \cup {Terminator}) /\ Len(filelist') = Len(filelist) + 1
        /\ Len(filelist) \in Nat
        /\ \A i \in 1..Len(filelist) : filelist'[i] = filelist[i]
        /\ filelist'[Len(filelist) + 1] = job[w]
    <3>1. job[w] \in Nodes \cup {Terminator}
      BY <2>2
    <3>2. /\ Append(filelist, job[w]) \in Seq(Nodes \cup {Terminator}) /\ Len(filelist) \in Nat
          /\ Len(Append(filelist, job[w])) = Len(filelist) + 1
          /\ \A i \in 1..Len(filelist) : Append(filelist, job[w])[i] = filelist[i]
          /\ Append(filelist, job[w])[Len(filelist) + 1] = job[w]
      BY <1>t, <3>1, QueuedElements
    <3>3. QED
      BY <2>1, <3>2
  <2>4. TypeOK'
    BY <1>t, <1>p, <2>1, <2>3 DEF TypeOK
  <2>5. \A v \in Workers : pc'[v] = pc[v] \/ pc'[v] = "next"
    BY <1>p, <2>1
  <2>6. WorkersTyped' /\ EntriesTyped'
    BY <1>t, <2>1, <2>5 DEF WorkersTyped, EntriesTyped, Reading, Adding
  <2>7. QueueTyped'
    <3>1. ASSUME NEW i \in 1..Len(filelist')
          PROVE  IF filelist'[i] = Terminator THEN phase \in Closing ELSE heap[filelist'[i]] # None
      <4>1. i \in 1..Len(filelist) \/ i = Len(filelist) + 1
        BY <2>3
      <4>2. QED
        BY <1>t, <2>2, <2>3, <4>1 DEF QueueTyped
    <3>2. QED
      BY <1>t, <2>1, <2>2, <3>1 DEF QueueTyped
  <2>8. QED
    BY <2>4, <2>6, <2>7 DEF TypeStrong
<1>16. CASE GetCacheable
  <2>1. /\ gen = "get" /\ filelist # <<>> /\ filelist' = Tail(filelist)
        /\ genEntry' = Head(filelist)
        /\ gen' = (IF Head(filelist) = Terminator THEN "ended" ELSE "open")
        /\ UNCHANGED <<cached, genUnchanged>>
    BY <1>16 DEF GetCacheable
  <2>2. /\ Head(filelist) \in Nodes \cup {Terminator} /\ Tail(filelist) \in Seq(Nodes \cup {Terminator})
        /\ Len(filelist) \in Nat \ {0} /\ Len(Tail(filelist)) = Len(filelist) - 1
        /\ Head(filelist) = filelist[1]
        /\ \A i \in 1..Len(Tail(filelist)) : Tail(filelist)[i] = filelist[i + 1]
    BY <1>p, <2>1, TailElements
  <2>3. IF Head(filelist) = Terminator THEN phase \in Closing ELSE heap[Head(filelist)] # None
    <3>1. 1 \in 1..Len(filelist)
      BY <2>2
    <3>2. QED
      BY <1>t, <2>2, <3>1 DEF QueueTyped
  <2>4. TypeOK'
    BY <1>t, <2>1, <2>2, <2>3 DEF TypeOK, genUnchanged, Closing
  <2>5. WorkersTyped' /\ EntriesTyped'
    BY <1>t, <2>1 DEF WorkersTyped, EntriesTyped, genUnchanged
  <2>6. QueueTyped'
    <3>1. ASSUME NEW i \in 1..Len(filelist')
          PROVE  IF filelist'[i] = Terminator THEN phase \in Closing ELSE heap[filelist'[i]] # None
      <4>1. i + 1 \in 1..Len(filelist) /\ filelist'[i] = filelist[i + 1]
        BY <2>1, <2>2
      <4>2. QED
        BY <1>t, <4>1 DEF QueueTyped
    <3>2. phase # "off"
      BY <1>t, <2>1 DEF QueueTyped
    <3>3. QED
      BY <2>1, <2>2, <2>3, <3>1, <3>2 DEF QueueTyped, genUnchanged
  <2>7. QED
    BY <2>4, <2>5, <2>6 DEF TypeStrong
<1>17. CASE OpenCached \/ WriteCached
  <2>1. /\ gen \in {"open", "write"} /\ gen' \in {"get", "write"}
        /\ UNCHANGED <<genEntry, filelist, genUnchanged>>
        /\ \E b \in {[heap[genEntry].buffer EXCEPT !.whole = FALSE], heap[genEntry].buffer} :
              \/ cached' = [cached EXCEPT ![GenName] = b]
              \/ UNCHANGED cached
    BY <1>17 DEF OpenCached, WriteCached
  <2>2. genEntry \in Nodes /\ heap[genEntry] \in Entries /\ heap[genEntry].buffer \in Bodies
    <3>1. genEntry \in Nodes /\ heap[genEntry] # None
      BY <1>t, <2>1 DEF QueueTyped
    <3>2. genEntry \in Ids /\ heap[genEntry].buffer # None
      BY <1>t, <1>p, <3>1 DEF EntriesTyped
    <3>3. QED
      BY <1>t, <3>1, <3>2, HeapTypes, EntryFields
  <2>3. GenName \in Files \X Methods
    BY <2>2, EntryFields DEF GenName, CachedName
  <2>4. [heap[genEntry].buffer EXCEPT !.whole = FALSE] \in Bodies
    BY <2>2 DEF Bodies
  <2>5. cached' \in [Files \X Methods -> Bodies \cup {None}]
    <3>1. cached \in [Files \X Methods -> Bodies \cup {None}]
      BY <1>t DEF TypeOK
    <3>2. PICK b \in {[heap[genEntry].buffer EXCEPT !.whole = FALSE], heap[genEntry].buffer} :
             cached' = [cached EXCEPT ![GenName] = b] \/ cached' = cached
      BY <2>1
    <3>3. b \in Bodies
      BY <2>2, <2>4
    <3>4. QED
      BY <2>3, <3>1, <3>2, <3>3
  <2>6. TypeOK'
    BY <1>t, <2>1, <2>5 DEF TypeOK, genUnchanged
  <2>7. WorkersTyped' /\ EntriesTyped'
    BY <1>t, <2>1 DEF WorkersTyped, EntriesTyped, genUnchanged
  <2>8. QueueTyped'
    BY <1>t, <2>1 DEF QueueTyped, genUnchanged
  <2>9. QED
    BY <2>6, <2>7, <2>8 DEF TypeStrong
<1>18. CASE UNCHANGED vars
  BY <1>t, <1>18 DEF vars, TypeStrong, TypeOK, WorkersTyped, EntriesTyped, QueueTyped
<1>19. QED
  BY <1>1, <1>2, <1>3, <1>4, <1>5, <1>6, <1>7, <1>8, <1>9, <1>10, <1>11, <1>12, <1>13, <1>14,
     <1>15, <1>16, <1>17, <1>18 DEF Next, MainThread, Generator, Work, Outside

\* The cache keeps its types, in memory and on disk, whatever goes wrong: for every set
\* of files, any number of builds, and every fault.
THEOREM TypeCorrect == Spec => []TypeOK
<1>1. TypeStrong => TypeOK
  BY DEF TypeStrong
<1>2. QED
  BY InitTypes, NextTypes, <1>1, PTL DEF Spec

-----------------------------------------------------------------------------
(* The cache is right, when nothing but a crash of a placing build goes wrong *)

\* The hypotheses: no executable is placed twice, all builds compress alike, and no
\* fault but a build that is broken off before it rewrites .rofsmeta.
OneNodePerFile == \A m, n \in Nodes : iFileName[m] = iFileName[n] => m = n
OneOption == \A o, p \in Options : o = p
CrashWhilePlacing == Faults \subseteq {"crash while placing"}

\* What a file of a compression is rendered to in these builds.
Rendering(time, comp) == Body(time, IF option = "keep" THEN comp ELSE option)

\* A line or an entry that tells of the file as it is...
Current(f, e) == e # None /\ e.time = host[f].time

\* ... tells its compression, and no line is of the future.
OfThePast(f, e) ==
  e # None => e.time <= host[f].time /\ (e.time = host[f].time => e.comp = host[f].comp)

\* ... and has its cached file.
Backed(f, e) == Current(f, e) => cached[CachedName(f, e.comp)] = Rendering(e.time, e.comp)

\* Between the builds: nothing is in memory, and the lines that would be accepted are good.
BetweenBuilds ==
  phase = "off" =>
     /\ \A i \in Ids : heap[i] = None
     /\ \A f \in Files : OfThePast(f, meta[f]) /\ Backed(f, meta[f])

\* The entries that were read from .rofsmeta; they stay good while the generator
\* writes other files.
LoadedInv ==
  phase # "off" =>
     \A f \in Files :
        /\ OfThePast(f, heap[f]) /\ Backed(f, heap[f])
        /\ entrymap[f] = None => heap[f] = None
        /\ entrymap[f] \in Nodes => iFileName[entrymap[f]] = f
        /\ entrymap[f] \in Files => entrymap[f] = f

\* Until .rofsmeta is rewritten it says what was read from it.
SameAsMeta ==
  phase \in {"placing", "close"} =>
     \A f \in Files :
        IF meta[f] = None THEN heap[f] = None
        ELSE heap[f] # None /\ heap[f].time = meta[f].time /\ heap[f].comp = meta[f].comp

\* What has been rendered in this build: files the cache did not know as they are.
RenderedInv ==
  \A n \in Nodes :
     heap[n] # None =>
        LET f == iFileName[n]
        IN /\ heap[n].file = f
           /\ heap[n].time = host[f].time
           /\ heap[n].comp = host[f].comp
           /\ heap[n].buffer = Rendering(host[f].time, host[f].comp)
           /\ ~Current(f, heap[f])

\* Each worker is alone with its node, and with the entry of its file.
JobsInv ==
  /\ \A n \in todo : heap[n] = None
  /\ \A w \in Workers :
        pc[w] # "next" =>
           /\ job[w] \notin todo
           /\ \A v \in Workers \ {w} : pc[v] # "next" => job[v] # job[w]
           /\ seen[w] = host[File(w)]
           /\ pc[w] \notin Adding => heap[job[w]] = None
           /\ pc[w] \in Reading => hit[w] = File(w) /\ Current(File(w), heap[File(w)])
           /\ pc[w] = "copy" => heap[File(w)].buffer = Rendering(seen[w].time, seen[w].comp)
           /\ pc[w] = "render" => ~Current(File(w), heap[File(w)])

\* A rendered entry is with its worker, in the list, with the generator or written.
OnItsWay(n) ==
  \/ \E w \in Workers : pc[w] \in Adding /\ job[w] = n
  \/ \E i \in 1..Len(filelist) : filelist[i] = n
  \/ gen \in {"open", "write"} /\ genEntry = n
HandedOn ==
  \A n \in Nodes :
     heap[n] # None =>
        OnItsWay(n) \/ cached[CachedName(heap[n].file, heap[n].comp)] = heap[n].buffer

\* The generator ends with an empty list, and every file is edited at its time.
GeneratorInv ==
  /\ \A i \in 1..Len(filelist) : filelist[i] = Terminator => i = Len(filelist)
  /\ gen = "ended" => filelist = <<>>
  /\ phase = "join" => \A f \in Files : meta[f] = Line(entrymap[f])
  /\ \A f \in Files : host[f].time <= edits

CacheInv ==
  /\ BetweenBuilds /\ LoadedInv /\ SameAsMeta /\ RenderedInv /\ JobsInv /\ HandedOn
  /\ GeneratorInv /\ PlacedAsOpened

InMemory == BetweenBuilds /\ LoadedInv /\ SameAsMeta /\ RenderedInv

\* What a step that leaves the cache alone does not disturb, in memory and on disk...
LEMMA QuietMemory ==
  ASSUME InMemory, UNCHANGED <<host, cached, meta, phase, option, heap, entrymap>>
  PROVE  InMemory'
BY DEF InMemory, BetweenBuilds, LoadedInv, SameAsMeta, RenderedInv,
       OfThePast, Backed, Current, Rendering

\* ... and in the workers.
LEMMA QuietJobs ==
  ASSUME JobsInv, UNCHANGED <<host, option, heap, todo, workVars>>
  PROVE  JobsInv'
BY DEF JobsInv, workVars, File, Current, Rendering

\* Nor do the steps a worker takes when its file is placed.
LEMMA PlacedJobs ==
  ASSUME JobsInv, UNCHANGED <<host, option, heap, todo, job, seen, hit>>,
         \A w \in Workers :
            pc'[w] = pc[w] \/ pc'[w] = "next" \/ (pc[w] \in Adding /\ pc'[w] = "add cacheable")
  PROVE  JobsInv'
<1>1. \A w \in Workers : File(w)' = File(w)
  BY DEF File
<1>2. ASSUME NEW w \in Workers, pc'[w] # "next"
      PROVE  /\ pc[w] # "next"
             /\ pc'[w] \notin Adding => pc[w] \notin Adding
             /\ pc'[w] \in {"read", "copy", "render"} => pc'[w] = pc[w]
  BY <1>2 DEF Adding
<1>3. ASSUME NEW w \in Workers, pc'[w] # "next"
      PROVE  /\ job[w] \notin todo
             /\ \A v \in Workers \ {w} : pc'[v] # "next" => job[v] # job[w]
             /\ seen[w] = host[File(w)]
             /\ pc'[w] \notin Adding => heap[job[w]] = None
  BY <1>2, <1>3 DEF JobsInv
<1>4. ASSUME NEW w \in Workers, pc'[w] # "next"
      PROVE  /\ pc'[w] \in Reading => hit[w] = File(w) /\ Current(File(w), heap[File(w)])
             /\ pc'[w] = "copy" => heap[File(w)].buffer = Rendering(seen[w].time, seen[w].comp)
             /\ pc'[w] = "render" => ~Current(File(w), heap[File(w)])
  BY <1>2, <1>4 DEF JobsInv, Reading
<1>5. \A n \in todo : heap[n] = None
  BY DEF JobsInv
<1>6. ASSUME NEW w \in Workers, pc'[w] # "next"
      PROVE  /\ Current(File(w), heap[File(w)])' <=> Current(File(w), heap[File(w)])
             /\ Rendering(seen[w].time, seen[w].comp)' = Rendering(seen[w].time, seen[w].comp)
             /\ heap'[File(w)'] = heap[File(w)]
  BY <1>1 DEF Current, Rendering
<1>7. ASSUME NEW w \in Workers, pc'[w] # "next"
      PROVE  /\ pc'[w] \in Reading => hit'[w] = File(w)' /\ Current(File(w), heap[File(w)])'
             /\ pc'[w] = "copy" => heap'[File(w)'].buffer = Rendering(seen[w].time, seen[w].comp)'
             /\ pc'[w] = "render" => ~Current(File(w), heap[File(w)])'
  BY <1>1, <1>4, <1>6, <1>7
<1>8. ASSUME NEW w \in Workers, pc'[w] # "next"
      PROVE  /\ job'[w] \notin todo' /\ seen'[w] = host'[File(w)']
             /\ \A v \in Workers \ {w} : pc'[v] # "next" => job'[v] # job'[w]
             /\ pc'[w] \notin Adding => heap'[job'[w]] = None
  BY <1>1, <1>3, <1>8
<1>9. \A n \in todo' : heap'[n] = None
  BY <1>5
<1>10. QED
  BY <1>7, <1>8, <1>9 DEF JobsInv

\* A list of which nothing is lost keeps what was handed on.
LEMMA QuietQueue ==
  ASSUME HandedOn, GeneratorInv, UNCHANGED <<heap, cached, filelist, genVars, host, edits, phase>>,
         \A w \in Workers : pc[w] \in Adding => pc'[w] \in Adding /\ job'[w] = job[w],
         phase # "join"
  PROVE  HandedOn' /\ GeneratorInv'
<1>1. \A n \in Nodes : OnItsWay(n) => OnItsWay(n)'
  BY DEF OnItsWay, genVars
<1>2. QED
  BY <1>1 DEF HandedOn, GeneratorInv, genVars

\* A process that ends while the lines of .rofsmeta are good leaves a good cache.
LEMMA EndCache ==
  ASSUME CacheInv, EndProcess,
         \A f \in Files : OfThePast(f, meta'[f]) /\ Backed(f, meta'[f])
  PROVE  CacheInv'
<1>1. /\ phase' = "off" /\ todo' = {} /\ filelist' = <<>> /\ gen' = "ended"
      /\ \A i \in Ids : heap'[i] = None
      /\ \A w \in Workers : pc'[w] = "next"
      /\ UNCHANGED <<host, edits, cached, option, image>>
  BY DEF EndProcess
<1>2. BetweenBuilds' /\ LoadedInv' /\ SameAsMeta'
  BY <1>1 DEF BetweenBuilds, LoadedInv, SameAsMeta, OfThePast, Backed, Current, Rendering
<1>3. RenderedInv' /\ JobsInv' /\ HandedOn'
  BY <1>1 DEF RenderedInv, JobsInv, HandedOn, Ids
<1>4. GeneratorInv'
  <2>1. Len(filelist') = 0
    BY <1>1, EmptySeq
  <2>2. QED
    BY <1>1, <2>1 DEF GeneratorInv, CacheInv
<1>5. PlacedAsOpened'
  BY <1>1 DEF PlacedAsOpened, CacheInv
<1>6. QED
  BY <1>2, <1>3, <1>4, <1>5 DEF CacheInv

\* The cache is right at the start.
LEMMA InitCache == Init => CacheInv
<1> SUFFICES ASSUME Init PROVE CacheInv
  OBVIOUS
<1>1. /\ phase = "off" /\ filelist = <<>> /\ todo = {}
      /\ \A i \in Ids : heap[i] = None
      /\ \A w \in Workers : pc[w] = "next"
      /\ \A f \in Files : meta[f] = None
      /\ \A n \in Nodes : image[n] = None
  BY DEF Init, Idle
<1>2. BetweenBuilds /\ LoadedInv /\ SameAsMeta
  BY <1>1 DEF BetweenBuilds, LoadedInv, SameAsMeta, OfThePast, Backed, Current
<1>3. RenderedInv /\ JobsInv /\ HandedOn /\ PlacedAsOpened
  BY <1>1 DEF RenderedInv, JobsInv, HandedOn, PlacedAsOpened, Ids
<1>4. GeneratorInv
  <2>1. Len(filelist) = 0
    BY <1>1, EmptySeq
  <2>2. \A f \in Files : host[f].time = 0
    BY DEF Init
  <2>3. edits = 0
    BY DEF Init
  <2>4. QED
    BY <1>1, <2>1, <2>2, <2>3 DEF GeneratorInv
<1>5. QED
  BY <1>2, <1>3, <1>4 DEF CacheInv

\* What the parts of the invariant are about.
LEMMA CacheTypes ==
  ASSUME TypeStrong
  PROVE  /\ Files \subseteq Ids /\ Nodes \subseteq Ids /\ todo \subseteq Nodes
         /\ \A n \in Nodes : iFileName[n] \in Files /\ n \notin Files
         /\ None \notin Ids /\ None \notin Bodies /\ None \notin Entries
         /\ \A f \in Files : entrymap[f] = None \/ entrymap[f] \in Files \/ entrymap[f] \in Nodes
         /\ \A i \in Ids : heap[i] = None \/ heap[i] \in Entries
BY NodesAssumption, NoneAssumption DEF Ids, TypeStrong, TypeOK

\* The steps of the main thread keep the cache right: what Join leaves in .rofsmeta
\* has been written, for the list is empty when the generator has ended.
LEMMA MainThreadCache ==
  ASSUME OneOption, TypeStrong, CacheInv, MainThread
  PROVE  CacheInv'
<1> USE DEF diskVars, cacheVars, genVars, workVars
<1>t. /\ TypeOK /\ WorkersTyped /\ EntriesTyped /\ QueueTyped
      /\ BetweenBuilds /\ LoadedInv /\ SameAsMeta /\ RenderedInv /\ JobsInv /\ HandedOn
      /\ GeneratorInv /\ PlacedAsOpened
  BY DEF TypeStrong, CacheInv
<1>p. /\ Files \subseteq Ids /\ Nodes \subseteq Ids /\ todo \subseteq Nodes
      /\ \A n \in Nodes : iFileName[n] \in Files /\ n \notin Files
      /\ None \notin Ids /\ None \notin Bodies /\ None \notin Entries
      /\ \A f \in Files : entrymap[f] = None \/ entrymap[f] \in Files \/ entrymap[f] \in Nodes
      /\ \A i \in Ids : heap[i] = None \/ heap[i] \in Entries
  BY CacheTypes
<1>1. CASE StartBuild
  <2>1. /\ phase = "off" /\ option' = option
        /\ UNCHANGED <<host, edits, diskVars, filelist, genEntry, workVars>>
        /\ \A n \in Nodes : image'[n] = None
    <3>1. option \in Options /\ option' \in Options
      BY <1>1, <1>t DEF StartBuild, TypeOK
    <3>2. option' = option
      BY <3>1 DEF OneOption
    <3>3. QED
      BY <1>1, <3>2 DEF StartBuild
  <2>2. /\ \A w \in Workers : pc[w] = "next"
        /\ filelist = <<>> /\ gen = "ended"
        /\ \A i \in Ids : heap[i] = None
        /\ \A f \in Files : OfThePast(f, meta[f]) /\ Backed(f, meta[f])
    BY <1>t, <2>1 DEF WorkersTyped, QueueTyped, BetweenBuilds
  <2>3. PlacedAsOpened'
    BY <2>1 DEF PlacedAsOpened
  <2>4. CASE UNCHANGED <<cacheVars, todo, gen, phase>>
    <3>1. InMemory'
      BY <1>t, <2>1, <2>4, QuietMemory DEF InMemory
    <3>2. JobsInv'
      BY <1>t, <2>1, <2>4, QuietJobs
    <3>3. HandedOn' /\ GeneratorInv'
      BY <1>t, <2>1, <2>4, QuietQueue
    <3>4. QED
      BY <2>3, <3>1, <3>2, <3>3 DEF CacheInv, InMemory
  <2>5. CASE /\ heap' = [i \in Ids |->
                      IF i \in Files /\ meta[i] # None
                      THEN [file |-> i, time |-> meta[i].time, comp |-> meta[i].comp, buffer |-> None]
                      ELSE None]
             /\ entrymap' = [f \in Files |-> IF meta[f] = None THEN None ELSE f]
             /\ todo' = Nodes /\ gen' = "get" /\ phase' = "placing"
    <3>1. \A n \in Nodes : heap'[n] = None
      BY <1>p, <2>5
    <3>2. \A f \in Files :
             IF meta[f] = None THEN heap'[f] = None /\ entrymap'[f] = None
             ELSE /\ heap'[f] # None /\ heap'[f].time = meta[f].time /\ heap'[f].comp = meta[f].comp
                  /\ entrymap'[f] = f
      <4>1. ASSUME NEW f \in Files, meta[f] # None
            PROVE  [file |-> f, time |-> meta[f].time, comp |-> meta[f].comp, buffer |-> None] # None
        <5>1. meta[f] \in HostFiles
          BY <1>t, <4>1 DEF TypeOK
        <5>2. [file |-> f, time |-> meta[f].time, comp |-> meta[f].comp, buffer |-> None] \in Entries
          BY <5>1 DEF HostFiles, Entries
        <5>3. QED
          BY <1>p, <5>2
      <4>2. QED
        BY <1>p, <2>5, <4>1
    <3>3. BetweenBuilds' /\ SameAsMeta'
      BY <2>1, <2>5, <3>2 DEF BetweenBuilds, SameAsMeta
    <3>4. LoadedInv'
      <4>1. ASSUME NEW f \in Files
            PROVE  OfThePast(f, heap[f])' /\ Backed(f, heap[f])'
        BY <2>1, <2>2, <3>2 DEF OfThePast, Backed, Current, Rendering
      <4>2. \A f \in Files : entrymap'[f] \in {None, f} /\ (entrymap'[f] = None => heap'[f] = None)
        BY <1>p, <3>2
      <4>3. \A f \in Files : entrymap'[f] \notin Nodes
        BY <1>p, <4>2
      <4>4. QED
        BY <1>p, <4>1, <4>2, <4>3 DEF LoadedInv
    <3>5. RenderedInv' /\ HandedOn'
      BY <3>1 DEF RenderedInv, HandedOn
    <3>6. JobsInv'
      BY <2>1, <2>2, <2>5, <3>1 DEF JobsInv
    <3>7. GeneratorInv'
      <4>1. Len(filelist') = 0
        BY <2>1, <2>2, EmptySeq
      <4>2. QED
        BY <1>t, <2>1, <2>5, <4>1 DEF GeneratorInv
    <3>8. QED
      BY <2>3, <3>3, <3>4, <3>5, <3>6, <3>7 DEF CacheInv
  <2>6. QED
    BY <1>1, <2>4, <2>5 DEF StartBuild
<1>2. CASE AddTerminator
  <2>1. /\ phase = "placing" /\ phase' = "close" /\ filelist' = Append(filelist, Terminator)
        /\ \A w \in Workers : pc[w] = "next"
        /\ UNCHANGED <<host, edits, builds, diskVars, option, todo, cacheVars, genVars, workVars, image>>
    BY <1>2 DEF AddTerminator
  <2>2. /\ Len(filelist) \in Nat /\ Len(filelist') = Len(filelist) + 1
        /\ \A i \in 1..Len(filelist) : filelist'[i] = filelist[i]
    <3>1. Terminator \in Nodes \cup {Terminator}
      OBVIOUS
    <3>2. QED
      BY <1>t, <2>1, <3>1, QueuedElements
  <2>3. BetweenBuilds' /\ LoadedInv' /\ SameAsMeta' /\ RenderedInv'
    BY <1>t, <2>1 DEF BetweenBuilds, LoadedInv, SameAsMeta, RenderedInv, OfThePast, Backed, Current, Rendering
  <2>4. JobsInv'
    BY <1>t, <2>1, QuietJobs
  <2>5. HandedOn'
    <3>1. ASSUME NEW n \in Nodes, OnItsWay(n) PROVE OnItsWay(n)'
      BY <2>1, <2>2, <3>1 DEF OnItsWay
    <3>2. QED
      BY <1>t, <2>1, <3>1 DEF HandedOn
  <2>6. GeneratorInv'
    <3>1. \A i \in 1..Len(filelist) : filelist[i] # Terminator
      BY <1>t, <2>1 DEF QueueTyped, Closing
    <3>2. \A i \in 1..Len(filelist') : filelist'[i] = Terminator => i = Len(filelist')
      BY <2>2, <3>1
    <3>3. gen # "ended"
      BY <1>t, <2>1 DEF TypeOK
    <3>4. QED
      BY <1>t, <2>1, <3>2, <3>3 DEF GeneratorInv
  <2>7. QED
    BY <1>t, <2>1, <2>3, <2>4, <2>5, <2>6 DEF CacheInv, PlacedAsOpened
<1>3. CASE TruncateMeta \/ SaveMeta
  <2>1. /\ phase \in {"close", "save"} /\ phase' \in {"save", "join"}
        /\ phase' = "join" => \A f \in Files : meta'[f] = Line(entrymap[f])
        /\ UNCHANGED <<host, edits, builds, cached, torn, option, todo, cacheVars, filelist, genVars, workVars, image>>
    BY <1>3 DEF TruncateMeta, SaveMeta
  <2>2. BetweenBuilds' /\ LoadedInv' /\ SameAsMeta' /\ RenderedInv'
    BY <1>t, <2>1 DEF BetweenBuilds, LoadedInv, SameAsMeta, RenderedInv, OfThePast, Backed, Current, Rendering
  <2>3. JobsInv'
    BY <1>t, <2>1, QuietJobs
  <2>4. HandedOn' /\ GeneratorInv'
    BY <1>t, <2>1 DEF HandedOn, OnItsWay, GeneratorInv, Line
  <2>5. QED
    BY <1>t, <2>1, <2>2, <2>3, <2>4 DEF CacheInv, PlacedAsOpened
<1>4. CASE Join
  <2>1. phase = "join" /\ gen = "ended" /\ EndProcess /\ meta' = meta
    BY <1>4 DEF Join
  <2>2. ASSUME NEW n \in Nodes, heap[n] # None
        PROVE  cached[CachedName(heap[n].file, heap[n].comp)] = heap[n].buffer
    <3>1. filelist = <<>> /\ \A w \in Workers : pc[w] = "next"
      BY <1>t, <2>1 DEF GeneratorInv, WorkersTyped
    <3>2. Len(filelist) = 0
      BY <3>1, EmptySeq
    <3>3. ~OnItsWay(n)
      <4>1. ~\E w \in Workers : pc[w] \in Adding /\ job[w] = n
        BY <3>1 DEF Adding
      <4>2. ~\E i \in 1..Len(filelist) : filelist[i] = n
        BY <3>2
      <4>3. gen \notin {"open", "write"}
        BY <2>1
      <4>4. QED
        BY <4>1, <4>2, <4>3 DEF OnItsWay
    <3>4. QED
      BY <1>t, <2>2, <3>3 DEF HandedOn
  <2>3. ASSUME NEW f \in Files
        PROVE  OfThePast(f, meta[f]) /\ Backed(f, meta[f])
    <3>0. meta[f] = Line(entrymap[f])
      BY <1>t, <2>1 DEF GeneratorInv
    <3>1. CASE entrymap[f] = None
      BY <3>0, <3>1 DEF Line, OfThePast, Backed, Current
    <3>2. CASE entrymap[f] \in Files
      <4>1. /\ entrymap[f] = f /\ OfThePast(f, heap[f]) /\ Backed(f, heap[f])
            /\ entrymap[f] # None /\ heap[f] # None
        BY <1>t, <1>p, <2>1, <3>2 DEF LoadedInv, EntriesTyped
      <4>2. meta[f] = [time |-> heap[f].time, comp |-> heap[f].comp]
        BY <3>0, <4>1 DEF Line
      <4>3. QED
        BY <4>1, <4>2 DEF OfThePast, Backed, Current
    <3>3. CASE entrymap[f] \in Nodes
      <4>1. PICK n \in Nodes : n = entrymap[f]
        BY <3>3
      <4>2. iFileName[n] = f /\ heap[n] # None /\ n # None
        BY <1>t, <1>p, <2>1, <4>1 DEF LoadedInv, EntriesTyped
      <4>3. /\ heap[n].file = f /\ heap[n].time = host[f].time /\ heap[n].comp = host[f].comp
            /\ heap[n].buffer = Rendering(host[f].time, host[f].comp)
        BY <1>t, <4>2 DEF RenderedInv
      <4>4. meta[f] = [time |-> heap[n].time, comp |-> heap[n].comp]
        BY <3>0, <4>1, <4>2 DEF Line
      <4>5. meta[f].time = host[f].time /\ meta[f].comp = host[f].comp
        BY <4>3, <4>4
      <4>6. cached[CachedName(f, meta[f].comp)] = Rendering(meta[f].time, meta[f].comp)
        BY <2>2, <4>2, <4>3, <4>5
      <4>7. host[f].time \in Int
        <5>1. host[f] \in HostFiles /\ MaxEdits \in Nat
          BY <1>t, BoundsAssumption DEF TypeOK
        <5>2. QED
          BY <5>1 DEF HostFiles, Times
      <4>8. QED
        BY <4>5, <4>6, <4>7 DEF OfThePast, Backed
    <3>4. QED
      BY <1>p, <3>1, <3>2, <3>3
  <2>4. QED
    BY <2>1, <2>3, EndCache
<1>5. QED
  BY <1>1, <1>2, <1>3, <1>4 DEF MainThread

\* A build that is broken off while it is placing leaves the lines it has read, and
\* what they name has not been written since; an edited file is newer than all lines.
LEMMA OutsideCache ==
  ASSUME CrashWhilePlacing, TypeStrong, CacheInv, Outside
  PROVE  CacheInv'
<1> USE DEF diskVars, cacheVars, genVars, workVars
<1>t. /\ TypeOK /\ WorkersTyped /\ EntriesTyped /\ QueueTyped
      /\ BetweenBuilds /\ LoadedInv /\ SameAsMeta /\ RenderedInv /\ JobsInv /\ HandedOn
      /\ GeneratorInv /\ PlacedAsOpened
  BY DEF TypeStrong, CacheInv
<1>1. CASE Crash
  <2>1. phase \in {"placing", "close"} /\ meta' = meta /\ EndProcess
    BY <1>1 DEF Crash, CrashWhilePlacing
  <2>2. ASSUME NEW f \in Files
        PROVE  OfThePast(f, meta[f]) /\ Backed(f, meta[f])
    <3>1. CASE meta[f] = None
      BY <3>1 DEF OfThePast, Backed, Current
    <3>2. CASE meta[f] # None
      <4>1. heap[f] # None /\ heap[f].time = meta[f].time /\ heap[f].comp = meta[f].comp
        BY <1>t, <2>1, <3>2 DEF SameAsMeta
      <4>2. OfThePast(f, heap[f]) /\ Backed(f, heap[f])
        BY <1>t, <2>1 DEF LoadedInv
      <4>3. QED
        BY <4>1, <4>2 DEF OfThePast, Backed, Current
    <3>3. QED
      BY <3>1, <3>2
  <2>3. QED
    BY <2>1, <2>2, EndCache
<1>2. CASE CleanCache
  <2>1. /\ phase = "off"
        /\ UNCHANGED <<host, edits, torn, phase, option, todo, cacheVars, filelist, genVars, workVars, image>>
        /\ (\A f \in Files : meta'[f] = None) \/ UNCHANGED <<cached, meta>>
    BY <1>2 DEF CleanCache
  <2>2. \A i \in Ids : heap[i] = None
    BY <1>t, <2>1 DEF BetweenBuilds
  <2>3. BetweenBuilds'
    <3>1. CASE \A f \in Files : meta'[f] = None
      BY <2>1, <2>2, <3>1 DEF BetweenBuilds, OfThePast, Backed, Current
    <3>2. CASE UNCHANGED <<cached, meta>>
      BY <1>t, <2>1, <3>2 DEF BetweenBuilds, OfThePast, Backed, Current, Rendering
    <3>3. QED
      BY <2>1, <3>1, <3>2
  <2>4. LoadedInv' /\ SameAsMeta'
    BY <2>1 DEF LoadedInv, SameAsMeta
  <2>5. JobsInv'
    BY <1>t, <2>1, QuietJobs
  <2>6. RenderedInv' /\ HandedOn'
    BY <2>1, <2>2 DEF RenderedInv, HandedOn, Ids
  <2>7. GeneratorInv' /\ PlacedAsOpened'
    BY <1>t, <2>1 DEF GeneratorInv, PlacedAsOpened
  <2>8. QED
    BY <2>3, <2>4, <2>5, <2>6, <2>7 DEF CacheInv
<1>3. ASSUME NEW f \in Files, Edit(f) PROVE CacheInv'
  <2>1. /\ phase = "off" /\ edits' = edits + 1
        /\ \E c \in Methods : host' = [host EXCEPT ![f] = [time |-> edits + 1, comp |-> c]]
        /\ UNCHANGED <<builds, diskVars, phase, option, todo, cacheVars, filelist, genVars, workVars, image>>
    BY <1>3 DEF Edit, CrashWhilePlacing
  <2>2. host'[f].time = edits + 1 /\ \A g \in Files : g # f => host'[g] = host[g]
    <3>1. PICK c \in Methods : host' = [host EXCEPT ![f] = [time |-> edits + 1, comp |-> c]]
      BY <2>1
    <3>2. host \in [Files -> HostFiles]
      BY <1>t DEF TypeOK
    <3>3. host'[f] = [time |-> edits + 1, comp |-> c] /\ \A g \in Files : g # f => host'[g] = host[g]
      BY <3>1, <3>2
    <3>4. QED
      BY <3>3
  <2>3. edits \in Nat /\ \A g \in Files : host[g].time \in Nat /\ host[g].time <= edits
    <3>1. edits \in 0..MaxEdits /\ MaxEdits \in Nat /\ \A g \in Files : host[g] \in HostFiles
      BY <1>t, BoundsAssumption DEF TypeOK
    <3>2. \A g \in Files : host[g].time \in Nat
      BY <3>1 DEF HostFiles, Times
    <3>3. QED
      BY <1>t, <3>1, <3>2 DEF GeneratorInv
  <2>4. \A i \in Ids : heap[i] = None
    BY <1>t, <2>1 DEF BetweenBuilds
  <2>5. BetweenBuilds'
    <3>1. ASSUME NEW g \in Files
          PROVE  OfThePast(g, meta[g])' /\ Backed(g, meta[g])'
      <4>1. OfThePast(g, meta[g]) /\ Backed(g, meta[g])
        BY <1>t, <2>1 DEF BetweenBuilds
      <4>2. CASE meta[g] = None
        BY <2>1, <4>2 DEF OfThePast, Backed, Current
      <4>3. CASE g # f
        BY <2>1, <2>2, <4>1, <4>3 DEF OfThePast, Backed, Current, Rendering
      <4>4. CASE g = f /\ meta[g] # None
        <5>1. meta[f].time \in Nat
          <6>1. meta[f] \in HostFiles /\ MaxEdits \in Nat
            BY <1>t, <4>4, BoundsAssumption DEF TypeOK
          <6>2. QED
            BY <6>1 DEF HostFiles, Times
        <5>2. meta[f].time <= host[f].time
          BY <4>1, <4>4 DEF OfThePast
        <5>3. meta[f].time < edits + 1
          BY <2>3, <5>1, <5>2
        <5>4. meta[f].time # edits + 1 /\ meta[f].time <= edits + 1
          BY <2>3, <5>1, <5>3
        <5>5. QED
          BY <2>1, <2>2, <4>4, <5>4 DEF OfThePast, Backed, Current
      <4>5. QED
        BY <4>2, <4>3, <4>4
    <3>2. QED
      BY <2>1, <2>4, <3>1 DEF BetweenBuilds
  <2>6. LoadedInv' /\ SameAsMeta'
    BY <2>1 DEF LoadedInv, SameAsMeta
  <2>7. RenderedInv' /\ HandedOn'
    BY <2>1, <2>4 DEF RenderedInv, HandedOn, Ids
  <2>8. JobsInv'
    <3>1. \A w \in Workers : pc[w] = "next"
      BY <1>t, <2>1 DEF WorkersTyped
    <3>2. QED
      BY <1>t, <2>1, <3>1 DEF JobsInv
  <2>9. GeneratorInv'
    <3>1. \A g \in Files : host'[g].time <= edits + 1
      BY <2>2, <2>3
    <3>2. QED
      BY <1>t, <2>1, <3>1 DEF GeneratorInv
  <2>10. QED
    BY <1>t, <2>1, <2>5, <2>6, <2>7, <2>8, <2>9 DEF CacheInv, PlacedAsOpened
<1>4. QED
  BY <1>1, <1>2, <1>3 DEF Outside

\* The generator writes only the cached files of what has been rendered in this build,
\* and those are not named by an entry that would be accepted.
LEMMA GeneratorCache ==
  ASSUME OneNodePerFile, CrashWhilePlacing, TypeStrong, CacheInv, Generator
  PROVE  CacheInv'
<1> USE DEF cacheVars, genVars, workVars, genUnchanged
<1>t. /\ TypeOK /\ WorkersTyped /\ EntriesTyped /\ QueueTyped
      /\ BetweenBuilds /\ LoadedInv /\ SameAsMeta /\ RenderedInv /\ JobsInv /\ HandedOn
      /\ GeneratorInv /\ PlacedAsOpened
  BY DEF TypeStrong, CacheInv
<1>u. UNCHANGED <<host, edits, meta, phase, option, todo, heap, entrymap, workVars, image>> /\ phase # "off"
  BY <1>t DEF Generator, GetCacheable, OpenCached, WriteCached, QueueTyped
<1>q. JobsInv' /\ PlacedAsOpened'
  BY <1>t, <1>u, QuietJobs DEF PlacedAsOpened
<1>1. CASE GetCacheable
  <2>1. /\ gen = "get" /\ filelist # <<>> /\ filelist' = Tail(filelist)
        /\ genEntry' = Head(filelist) /\ cached' = cached
        /\ gen' = (IF Head(filelist) = Terminator THEN "ended" ELSE "open")
    BY <1>1 DEF GetCacheable
  <2>2. /\ filelist' \in Seq(Nodes \cup {Terminator})
        /\ Len(filelist) \in Nat \ {0} /\ Len(filelist') = Len(filelist) - 1
        /\ genEntry' = filelist[1]
        /\ \A i \in 1..Len(filelist') : filelist'[i] = filelist[i + 1]
    <3>1. filelist \in Seq(Nodes \cup {Terminator})
      BY <1>t DEF TypeOK
    <3>2. /\ Tail(filelist) \in Seq(Nodes \cup {Terminator})
          /\ Len(filelist) \in Nat \ {0} /\ Len(Tail(filelist)) = Len(filelist) - 1
          /\ Head(filelist) = filelist[1]
          /\ \A i \in 1..Len(Tail(filelist)) : Tail(filelist)[i] = filelist[i + 1]
      BY <2>1, <3>1, TailElements
    <3>3. QED
      BY <2>1, <3>2
  <2>3. InMemory'
    BY <1>t, <1>u, <2>1, QuietMemory DEF InMemory
  <2>4. HandedOn'
    <3>1. ASSUME NEW n \in Nodes, OnItsWay(n) PROVE OnItsWay(n)'
      <4>1. CASE \E w \in Workers : pc[w] \in Adding /\ job[w] = n
        BY <1>u, <4>1 DEF OnItsWay
      <4>2. CASE \E i \in 1..Len(filelist) : filelist[i] = n
        <5>1. PICK i \in 1..Len(filelist) : filelist[i] = n
          BY <4>2
        <5>2. CASE i = 1
          <6>1. n # Terminator
            BY TerminatorAssumption DEF Ids
          <6>2. QED
            BY <2>1, <2>2, <5>1, <5>2, <6>1 DEF OnItsWay
        <5>3. CASE i # 1
          <6>1. i - 1 \in 1..Len(filelist') /\ filelist'[i - 1] = n
            BY <2>2, <5>1, <5>3
          <6>2. QED
            BY <6>1 DEF OnItsWay
        <5>4. QED
          BY <5>2, <5>3
      <4>3. QED
        BY <2>1, <3>1, <4>1, <4>2 DEF OnItsWay
    <3>2. QED
      BY <1>t, <1>u, <2>1, <3>1 DEF HandedOn
  <2>5. GeneratorInv'
    <3>1. ASSUME NEW i \in 1..Len(filelist'), filelist'[i] = Terminator PROVE i = Len(filelist')
      <4>1. i + 1 \in 1..Len(filelist) /\ filelist[i + 1] = Terminator
        BY <2>2, <3>1
      <4>2. i + 1 = Len(filelist)
        BY <1>t, <4>1 DEF GeneratorInv
      <4>3. QED
        BY <2>2, <4>2
    <3>2. gen' = "ended" => filelist' = <<>>
      <4>1. SUFFICES ASSUME gen' = "ended" PROVE filelist' = <<>>
        OBVIOUS
      <4>2. 1 \in 1..Len(filelist) /\ filelist[1] = Terminator
        BY <2>1, <2>2, <4>1
      <4>3. Len(filelist) = 1
        BY <1>t, <4>2 DEF GeneratorInv
      <4>4. Len(filelist') = 0
        BY <2>2, <4>3
      <4>5. QED
        BY <2>2, <4>4, EmptySeq
    <3>3. QED
      BY <1>t, <1>u, <3>1, <3>2 DEF GeneratorInv, Line
  <2>6. QED
    BY <1>q, <2>3, <2>4, <2>5 DEF CacheInv, InMemory
<1>2. CASE OpenCached \/ WriteCached
  <2>1. /\ gen \in {"open", "write"} /\ gen' \in {"get", "write"} /\ genEntry' = genEntry
        /\ filelist' = filelist
        /\ \E b \in {[heap[genEntry].buffer EXCEPT !.whole = FALSE], heap[genEntry].buffer} :
              /\ cached' = [cached EXCEPT ![GenName] = b]
              /\ gen' = "get" => b = heap[genEntry].buffer
    BY <1>2 DEF OpenCached, WriteCached, CrashWhilePlacing
  <2>2. PICK n \in Nodes : n = genEntry /\ heap[n] # None
    BY <1>t, <2>1 DEF QueueTyped
  <2>3. /\ heap[n].file = iFileName[n] /\ ~Current(iFileName[n], heap[iFileName[n]])
        /\ heap[n] \in Entries
    BY <1>t, <2>2, HeapTypes DEF RenderedInv, Ids
  <2>4. GenName = CachedName(iFileName[n], heap[n].comp) /\ GenName \in Files \X Methods
    BY <2>2, <2>3, EntryFields DEF GenName, CachedName
  <2>5. \A f \in Files, c \in Methods :
           f # iFileName[n] => cached'[CachedName(f, c)] = cached[CachedName(f, c)]
    <3>1. cached \in [Files \X Methods -> Bodies \cup {None}]
      BY <1>t DEF TypeOK
    <3>2. QED
      BY <2>1, <2>4, <3>1 DEF CachedName
  <2>6. gen' = "get" => cached'[GenName] = heap[n].buffer
    <3>1. cached \in [Files \X Methods -> Bodies \cup {None}]
      BY <1>t DEF TypeOK
    <3>2. QED
      BY <2>1, <2>2, <2>4, <3>1
  <2>7. BetweenBuilds' /\ SameAsMeta' /\ RenderedInv'
    BY <1>t, <1>u DEF BetweenBuilds, SameAsMeta, RenderedInv, Current, Rendering
  <2>8. LoadedInv'
    <3>1. ASSUME NEW f \in Files PROVE OfThePast(f, heap[f])' /\ Backed(f, heap[f])'
      <4>1. OfThePast(f, heap[f]) /\ Backed(f, heap[f])
        BY <1>t, <1>u DEF LoadedInv
      <4>2. CASE ~Current(f, heap[f])
        BY <1>u, <4>1, <4>2 DEF OfThePast, Backed, Current
      <4>3. CASE Current(f, heap[f])
        <5>1. f # iFileName[n]
          BY <2>3, <4>3
        <5>2. heap[f].comp \in Methods
          BY <1>t, <4>3, HeapTypes, EntryFields DEF Current, Ids
        <5>3. cached'[CachedName(f, heap[f].comp)] = cached[CachedName(f, heap[f].comp)]
          BY <2>5, <5>1, <5>2
        <5>4. QED
          BY <1>u, <4>1, <5>3 DEF OfThePast, Backed, Current, Rendering
      <4>4. QED
        BY <4>2, <4>3
    <3>2. QED
      BY <1>t, <1>u, <3>1 DEF LoadedInv
  <2>9. HandedOn'
    <3>1. ASSUME NEW m \in Nodes, heap[m] # None
          PROVE  OnItsWay(m)' \/ cached'[CachedName(heap[m].file, heap[m].comp)] = heap[m].buffer
      <4>1. OnItsWay(m) \/ cached[CachedName(heap[m].file, heap[m].comp)] = heap[m].buffer
        BY <1>t, <3>1 DEF HandedOn
      <4>2. CASE m = n
        <5>1. CASE gen' = "get"
          BY <2>3, <2>4, <2>6, <4>2, <5>1
        <5>2. CASE gen' = "write"
          BY <2>1, <2>2, <4>2, <5>2 DEF OnItsWay
        <5>3. QED
          BY <2>1, <5>1, <5>2
      <4>3. CASE m # n
        <5>1. iFileName[m] # iFileName[n] /\ heap[m].file = iFileName[m] /\ iFileName[m] \in Files
          BY <1>t, <3>1, <4>3, NodesAssumption DEF OneNodePerFile, RenderedInv
        <5>2. heap[m].comp \in Methods
          BY <1>t, <3>1, HeapTypes, EntryFields DEF Ids
        <5>3. cached'[CachedName(heap[m].file, heap[m].comp)] = cached[CachedName(heap[m].file, heap[m].comp)]
          BY <2>5, <5>1, <5>2
        <5>4. OnItsWay(m) => OnItsWay(m)'
          BY <1>u, <2>1, <2>2, <4>3 DEF OnItsWay
        <5>5. QED
          BY <4>1, <5>3, <5>4
      <4>4. QED
        BY <4>2, <4>3
    <3>2. QED
      BY <1>u, <3>1 DEF HandedOn
  <2>10. GeneratorInv'
    BY <1>t, <1>u, <2>1 DEF GeneratorInv, Line
  <2>11. QED
    BY <1>q, <2>7, <2>8, <2>9, <2>10 DEF CacheInv
<1>3. QED
  BY <1>1, <1>2 DEF Generator

\* The steps of a worker keep the cache right: it takes from the cache only the file
\* that is as it was opened, and hands over only what the cache does not know as it is.
LEMMA WorkCache ==
  ASSUME OneNodePerFile, TypeStrong, CacheInv, NEW w \in Workers, Work(w)
  PROVE  CacheInv'
<1> USE DEF diskVars, cacheVars, genVars, workVars
<1>t. /\ TypeOK /\ WorkersTyped /\ EntriesTyped /\ QueueTyped
      /\ BetweenBuilds /\ LoadedInv /\ SameAsMeta /\ RenderedInv /\ JobsInv /\ HandedOn
      /\ GeneratorInv /\ PlacedAsOpened
  BY DEF TypeStrong, CacheInv
<1>p. /\ Files \subseteq Ids /\ Nodes \subseteq Ids /\ todo \subseteq Nodes
      /\ \A n \in Nodes : iFileName[n] \in Files /\ n \notin Files
      /\ None \notin Ids /\ None \notin Bodies /\ None \notin Entries
      /\ \A f \in Files : entrymap[f] = None \/ entrymap[f] \in Files \/ entrymap[f] \in Nodes
      /\ \A i \in Ids : heap[i] = None \/ heap[i] \in Entries
  BY CacheTypes
<1>q. /\ pc \in [Workers -> {"next", "look up", "read", "copy", "render", "add entry", "add cacheable"}]
      /\ job \in [Workers -> Nodes \cup {None}]
      /\ seen \in [Workers -> HostFiles \cup {None}]
      /\ hit \in [Workers -> Ids \cup {None}]
      /\ heap \in [Ids -> Entries \cup {None}]
      /\ entrymap \in [Files -> Ids \cup {None}]
  BY <1>t DEF TypeOK
<1>f. \A v \in Workers : pc[v] # "next" => job[v] \in Nodes /\ File(v) \in Files
  BY <1>t, <1>p DEF WorkersTyped, File
<1>d. \A v \in Workers : v # w /\ pc[v] # "next" /\ pc[w] # "next" => job[v] # job[w] /\ File(v) # File(w)
  BY <1>t, <1>f DEF JobsInv, OneNodePerFile, File
<1>ph. phase = "placing"
  BY <1>t DEF Work, OpenFile, Validate, ReadCached, CopyCached, Render, AddEntry, AddCacheable, WorkersTyped
<1>w. pc[w] # "next" => /\ job[w] \in Nodes /\ File(w) = iFileName[job[w]] /\ File(w) \in Files
                        /\ seen[w] = host[File(w)] /\ job[w] \notin todo
                        /\ pc[w] \notin Adding => heap[job[w]] = None
  BY <1>t, <1>f DEF JobsInv, File
<1>1. CASE OpenFile(w)
  <2>1. PICK n \in todo : /\ todo' = todo \ {n} /\ job' = [job EXCEPT ![w] = n]
                          /\ seen' = [seen EXCEPT ![w] = host[iFileName[n]]]
    BY <1>1 DEF OpenFile
  <2>2. /\ pc[w] = "next" /\ pc' = [pc EXCEPT ![w] = "look up"]
        /\ UNCHANGED <<host, edits, builds, diskVars, phase, option, cacheVars, filelist, genVars, hit, image>>
    BY <1>1 DEF OpenFile, Goto
  <2>3. /\ \A v \in Workers : v # w => pc'[v] = pc[v] /\ job'[v] = job[v] /\ seen'[v] = seen[v]
        /\ pc'[w] = "look up" /\ job'[w] = n /\ seen'[w] = host[iFileName[n]]
    BY <1>p, <1>q, <2>1, <2>2
  <2>4. InMemory'
    BY <1>t, <2>2, QuietMemory DEF InMemory
  <2>5. HandedOn' /\ GeneratorInv'
    <3>1. \A v \in Workers : pc[v] \in Adding => pc'[v] \in Adding /\ job'[v] = job[v]
      BY <2>2, <2>3 DEF Adding
    <3>2. QED
      BY <1>t, <1>ph, <2>2, <3>1, QuietQueue
  <2>6. JobsInv'
    <3>1. \A m \in todo' : heap'[m] = None
      BY <1>t, <2>1, <2>2 DEF JobsInv
    <3>2. /\ \A v \in Workers : pc[v] # "next" => job[v] \notin todo /\ job[v] # n
          /\ n \notin todo' /\ heap[n] = None
      BY <1>t, <2>1 DEF JobsInv
    <3>3. ASSUME NEW v \in Workers, NEW u \in Workers, u # v, pc'[v] # "next", pc'[u] # "next"
          PROVE  job'[u] # job'[v]
      <4>1. CASE v = w
        BY <2>3, <3>2, <3>3, <4>1
      <4>2. CASE u = w
        BY <2>3, <3>2, <3>3, <4>2
      <4>3. CASE v # w /\ u # w
        <5>1. pc[u] # "next" /\ pc[v] # "next" /\ job'[u] = job[u] /\ job'[v] = job[v]
          BY <2>3, <3>3, <4>3
        <5>2. job[u] # job[v]
          BY <1>t, <3>3, <5>1 DEF JobsInv
        <5>3. QED
          BY <5>1, <5>2
      <4>4. QED
        BY <4>1, <4>2, <4>3
    <3>4. ASSUME NEW v \in Workers, pc'[v] # "next"
          PROVE  /\ job'[v] \notin todo' /\ seen'[v] = host[File(v)']
                 /\ pc'[v] \notin Adding => heap[job'[v]] = None
                 /\ pc'[v] \in Reading => hit[v] = File(v)' /\ Current(File(v)', heap[File(v)'])
                 /\ pc'[v] = "copy" => heap[File(v)'].buffer = Rendering(seen'[v].time, seen'[v].comp)
                 /\ pc'[v] = "render" => ~Current(File(v)', heap[File(v)'])
      <4>1. CASE v = w
        <5>1. File(v)' = iFileName[n]
          BY <2>3, <4>1 DEF File
        <5>2. QED
          BY <2>3, <3>2, <4>1, <5>1 DEF Reading
      <4>2. CASE v # w
        <5>1. pc[v] # "next" /\ pc'[v] = pc[v] /\ job'[v] = job[v] /\ seen'[v] = seen[v] /\ File(v)' = File(v)
          BY <2>3, <3>4, <4>2 DEF File
        <5>2. QED
          BY <1>t, <2>1, <5>1 DEF JobsInv
      <4>3. QED
        BY <4>1, <4>2
    <3>5. QED
      BY <2>2, <3>1, <3>3, <3>4 DEF JobsInv, Current, Rendering
  <2>7. QED
    BY <1>t, <2>2, <2>4, <2>5, <2>6 DEF CacheInv, InMemory, PlacedAsOpened
<1>2. CASE Validate(w)
  <2>1. /\ pc[w] = "look up"
        /\ UNCHANGED <<host, edits, builds, diskVars, phase, option, todo, cacheVars, filelist, genVars, job, seen, image>>
    BY <1>2 DEF Validate
  <2> DEFINE i == entrymap[File(w)]
             e == IF i = None THEN None ELSE heap[i]
  <2>2. \/ /\ Validates(w, e) /\ hit' = [hit EXCEPT ![w] = i] /\ pc' = [pc EXCEPT ![w] = "read"]
        \/ /\ ~Validates(w, e) /\ hit' = hit /\ pc' = [pc EXCEPT ![w] = "render"]
    BY <1>2 DEF Validate, Goto
  <2>3. /\ job[w] \in Nodes /\ File(w) = iFileName[job[w]] /\ File(w) \in Files
        /\ seen[w] = host[File(w)] /\ heap[job[w]] = None
    BY <1>w, <2>1 DEF Adding
  <2>4. i = None \/ i = File(w)
    <3>1. i \in Nodes => i = job[w]
      BY <1>t, <1>ph, <2>3 DEF LoadedInv, OneNodePerFile
    <3>2. i # None => heap[i] # None
      BY <1>t, <2>3 DEF EntriesTyped
    <3>3. i \notin Nodes
      BY <1>p, <2>3, <3>1, <3>2
    <3>4. QED
      BY <1>t, <1>p, <1>ph, <2>3, <3>3 DEF LoadedInv
  <2>5. i = None => heap[File(w)] = None
    BY <1>t, <1>ph, <2>3 DEF LoadedInv
  <2>6. Validates(w, e) <=> i = File(w) /\ Current(File(w), heap[File(w)])
    <3>1. OfThePast(File(w), heap[File(w)])
      BY <1>t, <1>ph, <2>3 DEF LoadedInv
    <3>2. File(w) # None
      BY <1>p, <2>3
    <3>3. QED
      BY <2>3, <2>4, <2>5, <3>1, <3>2 DEF Validates, Current, OfThePast
  <2> HIDE DEF i, e
  <2>7. /\ \A v \in Workers : v # w => pc'[v] = pc[v] /\ hit'[v] = hit[v]
        /\ \/ pc'[w] = "read" /\ hit'[w] = File(w) /\ Current(File(w), heap[File(w)])
           \/ pc'[w] = "render" /\ ~Current(File(w), heap[File(w)])
    <3>1. CASE Validates(w, e)
      BY <1>q, <2>2, <2>6, <3>1
    <3>2. CASE ~Validates(w, e)
      <4>1. ~Current(File(w), heap[File(w)])
        BY <2>4, <2>5, <2>6, <3>2 DEF Current
      <4>2. QED
        BY <1>q, <2>2, <3>2, <4>1
    <3>3. QED
      BY <3>1, <3>2
  <2>8. InMemory'
    BY <1>t, <2>1, QuietMemory DEF InMemory
  <2>9. HandedOn' /\ GeneratorInv'
    <3>1. \A v \in Workers : pc[v] \in Adding => pc'[v] \in Adding /\ job'[v] = job[v]
      BY <2>1, <2>7 DEF Adding
    <3>2. QED
      BY <1>t, <1>ph, <2>1, <3>1, QuietQueue
  <2>10. JobsInv'
    <3>1. \A v \in Workers : (pc'[v] # "next" <=> pc[v] # "next")
      BY <2>1, <2>7
    <3>2. \A v \in Workers : (pc'[v] \in Adding <=> pc[v] \in Adding)
      BY <2>1, <2>7 DEF Adding
    <3>3. ASSUME NEW v \in Workers, pc[v] # "next"
          PROVE  /\ pc'[v] \in Reading => hit'[v] = File(v) /\ Current(File(v), heap[File(v)])
                 /\ pc'[v] = "copy" => heap[File(v)].buffer = Rendering(seen[v].time, seen[v].comp)
                 /\ pc'[v] = "render" => ~Current(File(v), heap[File(v)])
      <4>1. CASE v = w
        BY <2>7, <4>1 DEF Reading
      <4>2. CASE v # w
        BY <1>t, <2>7, <3>3, <4>2 DEF JobsInv
      <4>3. QED
        BY <4>1, <4>2
    <3>4. QED
      BY <1>t, <2>1, <3>1, <3>2, <3>3 DEF JobsInv, Current, Rendering, File
  <2>11. QED
    BY <1>t, <2>1, <2>8, <2>9, <2>10 DEF CacheInv, InMemory, PlacedAsOpened
<1>3. CASE ReadCached(w)
  <2> DEFINE F == File(w)
             name == CachedName(F, heap[F].comp)
  <2>1. /\ pc[w] = "read"
        /\ UNCHANGED <<host, edits, builds, diskVars, phase, option, todo, entrymap, filelist, genVars,
                       job, seen, hit, image>>
    BY <1>3 DEF ReadCached
  <2>2. /\ F \in Files /\ seen[w] = host[F] /\ hit[w] = F /\ Current(F, heap[F])
        /\ heap[F] \in Entries
    BY <1>t, <1>p, <1>w, <2>1 DEF JobsInv, Reading, Current
  <2>3. cached[name] = Rendering(seen[w].time, seen[w].comp) /\ cached[name] # None
    <3>1. OfThePast(F, heap[F]) /\ Backed(F, heap[F])
      BY <1>t, <1>ph, <2>2 DEF LoadedInv
    <3>2. /\ heap[F].time = seen[w].time /\ heap[F].comp = seen[w].comp
          /\ cached[name] = Rendering(seen[w].time, seen[w].comp)
      BY <2>2, <3>1 DEF Current, OfThePast, Backed
    <3>3. Rendering(seen[w].time, seen[w].comp) \in Bodies
      BY <1>t, <2>1, SeenFields DEF Rendering, NewFileComp
    <3>4. QED
      BY <1>p, <3>2, <3>3
  <2>4. /\ heap' = [heap EXCEPT ![F].buffer = cached[name]]
        /\ pc' = [pc EXCEPT ![w] = "copy"]
    BY <1>3, <2>2, <2>3 DEF ReadCached, Goto
  <2> HIDE DEF F, name
  <2>5. /\ heap'[F] # None /\ heap'[F].time = heap[F].time /\ heap'[F].comp = heap[F].comp
        /\ heap'[F].buffer = Rendering(seen[w].time, seen[w].comp)
        /\ \A i \in Ids : i # F => heap'[i] = heap[i]
    <3>1. cached[name] \in Bodies
      BY <1>t, <2>1, <2>3, SeenFields DEF Rendering, NewFileComp
    <3>2. heap' = [heap EXCEPT ![F] = [heap[F] EXCEPT !.buffer = cached[name]]]
      BY <2>4
    <3>3. heap'[F] = [heap[F] EXCEPT !.buffer = cached[name]] /\ \A i \in Ids : i # F => heap'[i] = heap[i]
      BY <1>p, <1>q, <2>2, <3>2
    <3>4. /\ [heap[F] EXCEPT !.buffer = cached[name]] \in Entries
          /\ [heap[F] EXCEPT !.buffer = cached[name]].time = heap[F].time
          /\ [heap[F] EXCEPT !.buffer = cached[name]].comp = heap[F].comp
          /\ [heap[F] EXCEPT !.buffer = cached[name]].buffer = cached[name]
      BY <2>2, <3>1 DEF Entries
    <3>5. QED
      BY <1>p, <2>3, <3>3, <3>4
  <2>6. \A f \in Files : /\ (heap'[f] = None) = (heap[f] = None)
                         /\ heap'[f].time = heap[f].time /\ heap'[f].comp = heap[f].comp
    BY <1>p, <2>2, <2>5 DEF Current
  <2>7. \A n \in Nodes : heap'[n] = heap[n]
    BY <1>p, <2>2, <2>5
  <2>8. \A f \in Files : Current(f, heap[f])' <=> Current(f, heap[f])
    BY <2>1, <2>6 DEF Current
  <2>9. BetweenBuilds' /\ SameAsMeta'
    BY <1>t, <1>ph, <2>1, <2>6 DEF BetweenBuilds, SameAsMeta
  <2>10. LoadedInv'
    <3>1. ASSUME NEW f \in Files PROVE OfThePast(f, heap[f])' /\ Backed(f, heap[f])'
      <4>1. OfThePast(f, heap[f]) /\ Backed(f, heap[f])
        BY <1>t, <1>ph DEF LoadedInv
      <4>2. QED
        BY <2>1, <2>6, <4>1 DEF OfThePast, Backed, Current, Rendering
    <3>2. QED
      BY <1>t, <1>ph, <2>1, <2>6, <3>1 DEF LoadedInv
  <2>11. RenderedInv'
    <3>1. ASSUME NEW n \in Nodes, heap[n] # None
          PROVE  /\ heap[n].file = iFileName[n]
                 /\ heap[n].time = host[iFileName[n]].time /\ heap[n].comp = host[iFileName[n]].comp
                 /\ heap[n].buffer = Rendering(host[iFileName[n]].time, host[iFileName[n]].comp)
                 /\ ~Current(iFileName[n], heap[iFileName[n]])
      BY <1>t, <3>1 DEF RenderedInv
    <3>2. \A n \in Nodes : heap[n] # None => ~Current(iFileName[n], heap[iFileName[n]])'
      BY <1>p, <2>8, <3>1
    <3>3. QED
      BY <2>1, <2>7, <3>1, <3>2 DEF RenderedInv, Rendering
  <2>12. JobsInv'
    <3>1. /\ \A v \in Workers : v # w => pc'[v] = pc[v]
          /\ pc'[w] = "copy"
      BY <1>q, <2>4
    <3>2. \A v \in Workers : (pc'[v] # "next" <=> pc[v] # "next") /\ (pc'[v] \in Adding <=> pc[v] \in Adding)
      BY <2>1, <3>1 DEF Adding
    <3>3. \A v \in Workers : pc'[v] \in Reading => pc[v] \in Reading
      BY <2>1, <3>1 DEF Reading
    <3>4. ASSUME NEW v \in Workers, pc[v] # "next", pc'[v] = "copy"
          PROVE  heap'[File(v)].buffer = Rendering(seen[v].time, seen[v].comp)
      <4>1. CASE v = w
        BY <2>5, <4>1 DEF F
      <4>2. CASE v # w
        <5>1. File(v) # F /\ File(v) \in Ids
          BY <1>d, <1>f, <1>p, <2>1, <3>4, <4>2 DEF F
        <5>2. pc[v] = "copy"
          BY <3>1, <3>4, <4>2
        <5>3. heap[File(v)].buffer = Rendering(seen[v].time, seen[v].comp)
          BY <1>t, <5>2 DEF JobsInv
        <5>4. QED
          BY <2>5, <5>1, <5>3
      <4>3. QED
        BY <4>1, <4>2
    <3>5. ASSUME NEW v \in Workers, pc[v] # "next"
          PROVE  /\ pc'[v] \in Reading => hit[v] = File(v) /\ Current(File(v), heap[File(v)])'
                 /\ pc'[v] = "render" => ~Current(File(v), heap[File(v)])'
      <4>1. File(v)' = File(v) /\ File(v) \in Files
        BY <1>f, <2>1, <3>5 DEF File
      <4>2. Current(File(v), heap[File(v)])' <=> Current(File(v), heap[File(v)])
        BY <2>8, <4>1
      <4>3. pc'[v] = "render" => pc[v] = "render"
        BY <3>1
      <4>4. QED
        BY <1>t, <3>3, <3>5, <4>2, <4>3 DEF JobsInv
    <3>6. \A n \in todo : heap'[n] = None
      BY <1>t, <1>p, <2>7 DEF JobsInv
    <3>7. \A v \in Workers : pc[v] # "next" => heap'[job[v]] = heap[job[v]]
      BY <1>f, <2>7
    <3>8. QED
      BY <1>t, <2>1, <3>2, <3>4, <3>5, <3>6, <3>7 DEF JobsInv, Current, Rendering, File
  <2>13. HandedOn'
    <3>1. \A v \in Workers : pc[v] \in Adding => pc'[v] \in Adding
      BY <1>q, <2>1, <2>4 DEF Adding
    <3>2. \A n \in Nodes : OnItsWay(n) => OnItsWay(n)'
      BY <2>1, <3>1 DEF OnItsWay
    <3>3. QED
      BY <1>t, <2>1, <2>7, <3>2 DEF HandedOn
  <2>14. GeneratorInv' /\ PlacedAsOpened'
    BY <1>t, <1>ph, <2>1 DEF GeneratorInv, PlacedAsOpened
  <2>15. QED
    BY <2>9, <2>10, <2>11, <2>12, <2>13, <2>14 DEF CacheInv
<1>4. CASE CopyCached(w)
  <2>1. /\ pc[w] = "copy" /\ pc' = [pc EXCEPT ![w] = "next"]
        /\ image' = [image EXCEPT ![job[w]] = Placed(w, heap[hit[w]].buffer)]
        /\ UNCHANGED <<host, edits, builds, diskVars, phase, option, todo, cacheVars, filelist, genVars,
                       job, seen, hit>>
    BY <1>4 DEF CopyCached, Goto
  <2>2. InMemory'
    BY <1>t, <2>1, QuietMemory DEF InMemory
  <2>3. HandedOn' /\ GeneratorInv'
    <3>1. \A v \in Workers : pc[v] \in Adding => pc'[v] \in Adding /\ job'[v] = job[v]
      BY <1>q, <2>1 DEF Adding
    <3>2. QED
      BY <1>t, <1>ph, <2>1, <3>1, QuietQueue
  <2>4. JobsInv'
    <3>1. \A v \in Workers : pc'[v] = pc[v] \/ pc'[v] = "next"
      BY <1>q, <2>1
    <3>2. QED
      BY <1>t, <2>1, <3>1, PlacedJobs
  <2>5. PlacedAsOpened'
    <3>1. /\ job[w] \in Nodes /\ heap[hit[w]].buffer = Rendering(seen[w].time, seen[w].comp)
      BY <1>t, <1>w, <2>1 DEF JobsInv, Reading
    <3>2. heap[hit[w]].buffer = Body(seen[w].time, NewFileComp(seen[w]))
      BY <3>1 DEF Rendering, NewFileComp
    <3>3. \A n \in Nodes : image'[n] = IF n = job[w] THEN Placed(w, heap[hit[w]].buffer) ELSE image[n]
      BY <1>t, <2>1 DEF TypeOK
    <3>4. QED
      BY <1>t, <3>2, <3>3 DEF PlacedAsOpened, Placed
  <2>6. QED
    BY <2>2, <2>3, <2>4, <2>5 DEF CacheInv, InMemory
<1>5. CASE Render(w)
  <2> DEFINE body == Body(seen[w].time, NewFileComp(seen[w]))
             entry == [file |-> File(w), time |-> host[File(w)].time, comp |-> seen[w].comp, buffer |-> body]
  <2>1. /\ pc[w] = "render" /\ pc' = [pc EXCEPT ![w] = "add entry"]
        /\ image' = [image EXCEPT ![job[w]] = Placed(w, body)]
        /\ heap' = [heap EXCEPT ![job[w]] = entry]
        /\ UNCHANGED <<host, edits, builds, diskVars, phase, option, todo, entrymap, filelist, genVars,
                       job, seen, hit>>
    BY <1>5 DEF Render, Goto
  <2>2. /\ job[w] \in Nodes /\ File(w) = iFileName[job[w]] /\ File(w) \in Files
        /\ seen[w] = host[File(w)] /\ job[w] \notin todo /\ ~Current(File(w), heap[File(w)])
    BY <1>t, <1>w, <2>1 DEF JobsInv
  <2>3. body = Rendering(seen[w].time, seen[w].comp)
    BY DEF Rendering, NewFileComp
  <2>4. /\ entry.file = iFileName[job[w]] /\ entry.time = host[iFileName[job[w]]].time
        /\ entry.comp = host[iFileName[job[w]]].comp
        /\ entry.buffer = Rendering(host[iFileName[job[w]]].time, host[iFileName[job[w]]].comp)
    BY <2>2, <2>3
  <2>5. PlacedAsOpened'
    <3>1. \A n \in Nodes : image'[n] = IF n = job[w] THEN Placed(w, body) ELSE image[n]
      BY <1>t, <2>1 DEF TypeOK
    <3>2. QED
      BY <1>t, <3>1 DEF PlacedAsOpened, Placed
  <2> HIDE DEF body, entry
  <2>6. heap'[job[w]] = entry /\ \A i \in Ids : i # job[w] => heap'[i] = heap[i]
    BY <1>p, <1>q, <2>1, <2>2
  <2>7. \A f \in Files : heap'[f] = heap[f]
    BY <1>p, <2>2, <2>6
  <2>8. /\ \A v \in Workers : v # w => pc'[v] = pc[v]
        /\ pc'[w] = "add entry"
    BY <1>q, <2>1
  <2>9. BetweenBuilds' /\ SameAsMeta' /\ LoadedInv'
    <3>1. BetweenBuilds' /\ SameAsMeta'
      BY <1>t, <1>ph, <2>1, <2>7 DEF BetweenBuilds, SameAsMeta
    <3>2. ASSUME NEW f \in Files PROVE OfThePast(f, heap[f])' /\ Backed(f, heap[f])'
      <4>1. OfThePast(f, heap[f]) /\ Backed(f, heap[f])
        BY <1>t, <1>ph DEF LoadedInv
      <4>2. QED
        BY <2>1, <2>7, <4>1 DEF OfThePast, Backed, Current, Rendering
    <3>3. QED
      BY <1>t, <1>ph, <2>1, <2>7, <3>1, <3>2 DEF LoadedInv
  <2>10. RenderedInv'
    <3>1. ASSUME NEW n \in Nodes, heap'[n] # None
          PROVE  /\ heap'[n].file = iFileName[n] /\ heap'[n].time = host[iFileName[n]].time
                 /\ heap'[n].comp = host[iFileName[n]].comp
                 /\ heap'[n].buffer = Rendering(host[iFileName[n]].time, host[iFileName[n]].comp)
                 /\ ~Current(iFileName[n], heap[iFileName[n]])
      <4>1. CASE n = job[w]
        BY <2>2, <2>4, <2>6, <4>1
      <4>2. CASE n # job[w]
        <5>1. heap'[n] = heap[n]
          BY <1>p, <2>6, <4>2
        <5>2. QED
          BY <1>t, <3>1, <5>1 DEF RenderedInv
      <4>3. QED
        BY <4>1, <4>2
    <3>2. \A n \in Nodes : heap'[iFileName[n]] = heap[iFileName[n]]
      BY <1>p, <2>7
    <3>3. ASSUME NEW n \in Nodes, heap'[n] # None
          PROVE  /\ ~Current(iFileName[n], heap[iFileName[n]])'
                 /\ Rendering(host[iFileName[n]].time, host[iFileName[n]].comp)'
                      = Rendering(host[iFileName[n]].time, host[iFileName[n]].comp)
      BY <2>1, <3>1, <3>2, <3>3 DEF Rendering, Current
    <3>4. QED
      BY <2>1, <3>1, <3>3 DEF RenderedInv
  <2>11. JobsInv'
    <3>1. \A n \in todo : heap'[n] = None
      BY <1>t, <1>p, <2>2, <2>6 DEF JobsInv
    <3>2. ASSUME NEW v \in Workers, pc'[v] # "next" PROVE pc[v] # "next"
      BY <2>1, <2>8, <3>2
    <3>3. ASSUME NEW v \in Workers, pc'[v] # "next", pc'[v] \notin Adding
          PROVE  heap'[job[v]] = None
      <4>1. v # w /\ pc[v] # "next" /\ pc[v] \notin Adding
        BY <2>8, <3>3 DEF Adding
      <4>2. job[v] # job[w] /\ job[v] \in Ids
        BY <1>d, <1>f, <1>p, <2>1, <4>1
      <4>3. QED
        BY <1>t, <2>6, <4>1, <4>2 DEF JobsInv
    <3>4. ASSUME NEW v \in Workers, pc'[v] # "next"
          PROVE  /\ pc'[v] \in Reading => hit[v] = File(v) /\ Current(File(v), heap[File(v)])
                 /\ pc'[v] = "copy" => heap[File(v)].buffer = Rendering(seen[v].time, seen[v].comp)
                 /\ pc'[v] = "render" => ~Current(File(v), heap[File(v)])
                 /\ heap'[File(v)] = heap[File(v)]
      <4>1. heap'[File(v)] = heap[File(v)]
        BY <1>f, <2>7, <3>2, <3>4
      <4>2. CASE v = w
        BY <2>8, <4>1, <4>2 DEF Reading
      <4>3. CASE v # w
        BY <1>t, <2>8, <3>2, <3>4, <4>1, <4>3 DEF JobsInv
      <4>4. QED
        BY <4>2, <4>3
    <3>5. ASSUME NEW v \in Workers, pc'[v] # "next"
          PROVE  /\ job[v] \notin todo /\ seen[v] = host[File(v)]
                 /\ \A u \in Workers \ {v} : pc'[u] # "next" => job[u] # job[v]
      BY <1>t, <3>2, <3>5 DEF JobsInv
    <3>6. \A v \in Workers : File(v)' = File(v)
      BY <2>1 DEF File
    <3>7. ASSUME NEW v \in Workers, pc'[v] # "next"
          PROVE  /\ pc'[v] \in Reading => hit'[v] = File(v)' /\ Current(File(v), heap[File(v)])'
                 /\ pc'[v] = "copy" => (heap[File(v)].buffer = Rendering(seen[v].time, seen[v].comp))'
                 /\ pc'[v] = "render" => ~Current(File(v), heap[File(v)])'
      <4>1. File(v)' = File(v) /\ heap'[File(v)] = heap[File(v)]
        BY <3>4, <3>6, <3>7
      <4>2. Rendering(seen[v].time, seen[v].comp)' = Rendering(seen[v].time, seen[v].comp)
        BY <2>1 DEF Rendering
      <4>3. Current(File(v), heap[File(v)])' <=> Current(File(v), heap[File(v)])
        BY <2>1, <4>1 DEF Current
      <4>4. QED
        BY <2>1, <3>4, <3>7, <4>1, <4>2, <4>3
    <3>8. ASSUME NEW v \in Workers, pc'[v] # "next"
          PROVE  /\ job'[v] \notin todo' /\ seen'[v] = host'[File(v)']
                 /\ \A u \in Workers \ {v} : pc'[u] # "next" => job'[u] # job'[v]
                 /\ pc'[v] \notin Adding => heap'[job'[v]] = None
      BY <2>1, <3>3, <3>5, <3>6, <3>8
    <3>9. QED
      BY <2>1, <3>1, <3>7, <3>8 DEF JobsInv
  <2>12. HandedOn'
    <3>1. ASSUME NEW n \in Nodes, heap'[n] # None
          PROVE  OnItsWay(n)' \/ cached[CachedName(heap'[n].file, heap'[n].comp)] = heap'[n].buffer
      <4>1. CASE n = job[w]
        BY <2>1, <2>8, <4>1 DEF OnItsWay, Adding
      <4>2. CASE n # job[w]
        <5>1. heap'[n] = heap[n]
          BY <1>p, <2>6, <4>2
        <5>2. OnItsWay(n) => OnItsWay(n)'
          <6>1. \A v \in Workers : pc[v] \in Adding => pc'[v] \in Adding
            BY <2>8 DEF Adding
          <6>2. QED
            BY <2>1, <6>1 DEF OnItsWay
        <5>3. QED
          BY <1>t, <3>1, <5>1, <5>2 DEF HandedOn
      <4>3. QED
        BY <4>1, <4>2
    <3>2. QED
      BY <2>1, <3>1 DEF HandedOn
  <2>13. GeneratorInv'
    BY <1>t, <1>ph, <2>1 DEF GeneratorInv
  <2>14. QED
    BY <2>5, <2>9, <2>10, <2>11, <2>12, <2>13 DEF CacheInv
<1>6. CASE AddEntry(w)
  <2>1. /\ pc[w] = "add entry" /\ pc' = [pc EXCEPT ![w] = "add cacheable"]
        /\ entrymap' = [entrymap EXCEPT ![File(w)] = job[w]]
        /\ UNCHANGED <<host, edits, builds, diskVars, phase, option, todo, heap, filelist, genVars,
                       job, seen, hit, image>>
    BY <1>6 DEF AddEntry, Goto
  <2>2. job[w] \in Nodes /\ File(w) = iFileName[job[w]] /\ File(w) \in Files
    BY <1>w, <2>1
  <2>3. /\ \A v \in Workers : v # w => pc'[v] = pc[v]
        /\ pc'[w] = "add cacheable"
    BY <1>q, <2>1
  <2>4. /\ entrymap'[File(w)] = job[w]
        /\ \A f \in Files : f # File(w) => entrymap'[f] = entrymap[f]
    BY <1>q, <2>1, <2>2
  <2>5. BetweenBuilds' /\ SameAsMeta' /\ RenderedInv'
    BY <1>t, <1>ph, <2>1 DEF BetweenBuilds, SameAsMeta, RenderedInv, Current, Rendering
  <2>6. LoadedInv'
    <3>1. ASSUME NEW f \in Files PROVE OfThePast(f, heap[f])' /\ Backed(f, heap[f])'
      <4>1. OfThePast(f, heap[f]) /\ Backed(f, heap[f])
        BY <1>t, <1>ph DEF LoadedInv
      <4>2. QED
        BY <2>1, <4>1 DEF OfThePast, Backed, Current, Rendering
    <3>2. ASSUME NEW f \in Files
          PROVE  /\ entrymap'[f] = None => heap[f] = None
                 /\ entrymap'[f] \in Nodes => iFileName[entrymap'[f]] = f
                 /\ entrymap'[f] \in Files => entrymap'[f] = f
      <4>1. CASE f = File(w)
        <5>1. job[w] # None /\ job[w] \notin Files
          BY <1>p, <2>2
        <5>2. QED
          BY <2>2, <2>4, <4>1, <5>1
      <4>2. CASE f # File(w)
        BY <1>t, <1>ph, <2>4, <4>2 DEF LoadedInv
      <4>3. QED
        BY <4>1, <4>2
    <3>3. QED
      BY <2>1, <3>1, <3>2 DEF LoadedInv
  <2>7. JobsInv'
    <3>1. \A v \in Workers : pc'[v] = pc[v] \/ (pc[v] \in Adding /\ pc'[v] = "add cacheable")
      BY <2>1, <2>3 DEF Adding
    <3>2. QED
      BY <1>t, <2>1, <3>1, PlacedJobs
  <2>8. HandedOn' /\ GeneratorInv'
    <3>1. \A v \in Workers : pc[v] \in Adding => pc'[v] \in Adding /\ job'[v] = job[v]
      BY <2>1, <2>3 DEF Adding
    <3>2. QED
      BY <1>t, <1>ph, <2>1, <3>1, QuietQueue
  <2>9. QED
    BY <1>t, <2>1, <2>5, <2>6, <2>7, <2>8 DEF CacheInv, PlacedAsOpened
<1>7. CASE AddCacheable(w)
  <2>1. /\ pc[w] = "add cacheable" /\ pc' = [pc EXCEPT ![w] = "next"]
        /\ filelist' = Append(filelist, job[w])
        /\ UNCHANGED <<host, edits, builds, diskVars, phase, option, todo, cacheVars, genVars,
                       job, seen, hit, image>>
    BY <1>7 DEF AddCacheable, Goto
  <2>2. job[w] \in Nodes
    BY <1>w, <2>1
  <2>3. /\ Len(filelist) \in Nat /\ Len(filelist') = Len(filelist) + 1
        /\ \A i \in 1..Len(filelist) : filelist'[i] = filelist[i]
        /\ filelist'[Len(filelist) + 1] = job[w]
    <3>1. job[w] \in Nodes \cup {Terminator}
      BY <2>2
    <3>2. /\ Len(filelist) \in Nat
          /\ Len(Append(filelist, job[w])) = Len(filelist) + 1
          /\ \A i \in 1..Len(filelist) : Append(filelist, job[w])[i] = filelist[i]
          /\ Append(filelist, job[w])[Len(filelist) + 1] = job[w]
      BY <1>t, <3>1, QueuedElements
    <3>3. QED
      BY <2>1, <3>2
  <2>4. /\ \A v \in Workers : v # w => pc'[v] = pc[v]
        /\ pc'[w] = "next"
    BY <1>q, <2>1
  <2>5. InMemory'
    BY <1>t, <2>1, QuietMemory DEF InMemory
  <2>6. JobsInv'
    <3>1. \A v \in Workers : pc'[v] = pc[v] \/ pc'[v] = "next"
      BY <2>4
    <3>2. QED
      BY <1>t, <2>1, <3>1, PlacedJobs
  <2>7. HandedOn'
    <3>1. ASSUME NEW n \in Nodes, OnItsWay(n) PROVE OnItsWay(n)'
      <4>1. CASE \E v \in Workers : pc[v] \in Adding /\ job[v] = n
        <5>1. PICK v \in Workers : pc[v] \in Adding /\ job[v] = n
          BY <4>1
        <5>2. CASE v = w
          <6>1. Len(filelist) + 1 \in 1..Len(filelist') /\ filelist'[Len(filelist) + 1] = n
            BY <2>3, <5>1, <5>2
          <6>2. QED
            BY <6>1 DEF OnItsWay
        <5>3. CASE v # w
          BY <2>1, <2>4, <5>1, <5>3 DEF OnItsWay
        <5>4. QED
          BY <5>2, <5>3
      <4>2. CASE \E i \in 1..Len(filelist) : filelist[i] = n
        <5>1. \A i \in 1..Len(filelist) : i \in 1..Len(filelist') /\ filelist'[i] = filelist[i]
          BY <2>3
        <5>2. QED
          BY <4>2, <5>1 DEF OnItsWay
      <4>3. CASE gen \in {"open", "write"} /\ genEntry = n
        BY <2>1, <4>3 DEF OnItsWay
      <4>4. QED
        BY <3>1, <4>1, <4>2, <4>3 DEF OnItsWay
    <3>2. QED
      BY <1>t, <2>1, <3>1 DEF HandedOn
  <2>8. GeneratorInv'
    <3>1. \A i \in 1..Len(filelist) : filelist[i] # Terminator
      BY <1>t, <1>ph DEF QueueTyped, Closing
    <3>2. job[w] # Terminator
      BY <1>p, <2>2, TerminatorAssumption
    <3>3. \A i \in 1..Len(filelist') : filelist'[i] # Terminator
      <4>1. ASSUME NEW i \in 1..Len(filelist') PROVE filelist'[i] # Terminator
        <5>1. i \in 1..Len(filelist) \/ i = Len(filelist) + 1
          BY <2>3
        <5>2. QED
          BY <2>3, <3>1, <3>2, <5>1
      <4>2. QED
        BY <4>1
    <3>4. gen # "ended"
      BY <1>t, <1>ph DEF TypeOK
    <3>5. QED
      BY <1>t, <1>ph, <2>1, <3>3, <3>4 DEF GeneratorInv
  <2>9. QED
    BY <1>t, <2>1, <2>5, <2>6, <2>7, <2>8 DEF CacheInv, InMemory, PlacedAsOpened
<1>8. QED
  BY <1>1, <1>2, <1>3, <1>4, <1>5, <1>6, <1>7 DEF Work

\* A step keeps the cache right.
LEMMA NextCache ==
  ASSUME OneNodePerFile, OneOption, CrashWhilePlacing
  PROVE  TypeStrong /\ CacheInv /\ [Next]_vars => CacheInv'
<1> SUFFICES ASSUME TypeStrong, CacheInv, [Next]_vars PROVE CacheInv'
  OBVIOUS
<1>1. CASE MainThread
  BY <1>1, MainThreadCache
<1>2. CASE Generator
  BY <1>2, GeneratorCache
<1>3. ASSUME NEW w \in Workers, Work(w) PROVE CacheInv'
  BY <1>3, WorkCache
<1>4. CASE Outside
  BY <1>4, OutsideCache
<1>5. CASE UNCHANGED vars
  <2> USE DEF vars, diskVars, cacheVars, genVars, workVars
  <2>1. /\ InMemory /\ JobsInv /\ HandedOn /\ GeneratorInv /\ PlacedAsOpened
    BY DEF CacheInv, InMemory
  <2>2. InMemory'
    BY <1>5, <2>1, QuietMemory
  <2>3. JobsInv'
    BY <1>5, <2>1, QuietJobs
  <2>4. HandedOn' /\ GeneratorInv' /\ PlacedAsOpened'
    BY <1>5, <2>1 DEF HandedOn, OnItsWay, GeneratorInv, Line, PlacedAsOpened
  <2>5. QED
    BY <2>2, <2>3, <2>4 DEF CacheInv, InMemory
<1>6. QED
  BY <1>1, <1>2, <1>3, <1>4, <1>5 DEF Next

\* The invariant that carries the three theorems.
LEMMA CacheRight ==
  ASSUME OneNodePerFile, OneOption, CrashWhilePlacing
  PROVE  Spec => [](TypeStrong /\ CacheInv)
<1>1. TypeStrong /\ CacheInv /\ [Next]_vars => (TypeStrong /\ CacheInv)'
  BY NextTypes, NextCache
<1>2. Init => TypeStrong /\ CacheInv
  BY InitTypes, InitCache
<1>3. QED
  BY <1>1, <1>2, PTL DEF Spec

\* What is placed is the file that was opened, whole and compressed as its header says,
\* whether it came from the cache or not, in every build of any sequence of builds,
\* edits, cleanings and builds that were broken off (PlaceFile, Validate, Invalidate).
THEOREM PlacedRight ==
  ASSUME OneNodePerFile, OneOption, CrashWhilePlacing
  PROVE  Spec => []PlacedAsOpened
<1>1. CacheInv => PlacedAsOpened
  BY DEF CacheInv
<1>2. QED
  BY CacheRight, <1>1, PTL

\* Between two builds every line of .rofsmeta that would be accepted has its whole
\* cached file, although the lines are written first and a build may have been broken
\* off with a file half written (CloseCache, ProcessFiles).
THEOREM CacheSound ==
  ASSUME OneNodePerFile, OneOption, CrashWhilePlacing
  PROVE  Spec => []CacheIsSound
<1>1. TypeStrong /\ CacheInv => CacheIsSound
  <2> SUFFICES ASSUME TypeStrong, CacheInv, phase = "off", NEW f \in Files, meta[f] # None,
                      meta[f].time = host[f].time
               PROVE  LET body == cached[CachedName(f, meta[f].comp)]
                      IN body # None /\ body.whole /\ body.of = host[f].time
    BY DEF CacheIsSound
  <2>1. cached[CachedName(f, meta[f].comp)] = Rendering(host[f].time, meta[f].comp)
    BY DEF CacheInv, BetweenBuilds, Backed, Current
  <2>2. meta[f] \in HostFiles /\ host[f] \in HostFiles /\ (option \in Methods \/ option = "keep")
    BY MethodsAssumption DEF TypeStrong, TypeOK
  <2>3. Rendering(host[f].time, meta[f].comp) \in Bodies
    BY <2>2 DEF Rendering, Body, Bodies, HostFiles
  <2>4. /\ Rendering(host[f].time, meta[f].comp).whole
        /\ Rendering(host[f].time, meta[f].comp).of = host[f].time
    BY DEF Rendering, Body
  <2>5. QED
    BY <2>1, <2>3, <2>4, NoneAssumption
<1>2. QED
  BY CacheRight, <1>1, PTL

\* A build renders a file only when it has changed since its line in .rofsmeta, so what
\* a completed build left in the cache is not rendered again (Validate, CloseCache).
THEOREM RendersChanged ==
  ASSUME OneNodePerFile, OneOption, CrashWhilePlacing
  PROVE  Spec => []RendersChangedOnly
<1>1. TypeStrong /\ CacheInv => RendersChangedOnly
  <2> SUFFICES ASSUME TypeStrong, CacheInv, NEW w \in Workers, phase = "placing", pc[w] = "render",
                      meta[File(w)] # None
               PROVE  meta[File(w)].time # host[File(w)].time
    BY DEF RendersChangedOnly
  <2>1. File(w) \in Files
    BY SeenFields DEF TypeStrong
  <2>2. ~Current(File(w), heap[File(w)])
    BY DEF CacheInv, JobsInv
  <2>3. heap[File(w)] # None /\ heap[File(w)].time = meta[File(w)].time
    BY <2>1 DEF CacheInv, SameAsMeta
  <2>4. QED
    BY <2>2, <2>3 DEF Current
<1>2. QED
  BY CacheRight, <1>1, PTL

-----------------------------------------------------------------------------
(* The generator stops, and the build ends *)

\* The terminator comes last in the list, and from the end of the build on it is there
\* until the generator has taken it.
TerminatorLast ==
  /\ \A i \in 1..Len(filelist) : filelist[i] = Terminator => i = Len(filelist)
  /\ phase \in Closing /\ gen # "ended" => filelist # <<>> /\ filelist[Len(filelist)] = Terminator
  /\ gen = "ended" => filelist = <<>>

LEMMA InitTerminator == Init => TerminatorLast
BY DEF Init, Idle, TerminatorLast, Closing

LEMMA ShorterByOne ==
  ASSUME NEW n \in Nat \ {0}, n # 1, NEW m, m = n - 1
  PROVE  n - 1 \in 1..m /\ m # 0 /\ (n - 1) + 1 = n
OBVIOUS

LEMMA NextTerminator == TypeStrong /\ TerminatorLast /\ [Next]_vars => TerminatorLast'
<1> SUFFICES ASSUME TypeStrong, TerminatorLast, [Next]_vars PROVE TerminatorLast'
  OBVIOUS
<1>t. /\ filelist \in Seq(Nodes \cup {Terminator})
      /\ phase = "placing" => gen # "ended"
      /\ \A i \in 1..Len(filelist) : filelist[i] = Terminator => phase \in Closing
      /\ phase = "off" => filelist = <<>> /\ gen = "ended"
      /\ \A w \in Workers : pc[w] # "next" => phase = "placing" /\ job[w] \in Nodes
  BY DEF TypeStrong, TypeOK, QueueTyped, WorkersTyped
<1>s. UNCHANGED <<filelist, gen>> /\ (phase' \in Closing => phase \in Closing) => TerminatorLast'
  BY DEF TerminatorLast
<1>1. CASE StartBuild
  <2>1. /\ phase = "off" /\ phase' \in {"placing", "off"} /\ filelist' = filelist
        /\ gen' = gen \/ gen' = "get"
    BY <1>1 DEF StartBuild
  <2>2. QED
    BY <1>t, <2>1 DEF TerminatorLast, Closing
<1>2. CASE AddTerminator
  <2>1. phase = "placing" /\ filelist' = Append(filelist, Terminator) /\ gen' = gen
    BY <1>2 DEF AddTerminator, genVars
  <2>2. /\ Append(filelist, Terminator) \in Seq(Nodes \cup {Terminator}) /\ Len(filelist) \in Nat
        /\ Len(Append(filelist, Terminator)) = Len(filelist) + 1
        /\ \A i \in 1..Len(filelist) : Append(filelist, Terminator)[i] = filelist[i]
        /\ Append(filelist, Terminator)[Len(filelist) + 1] = Terminator
    BY <1>t, AppendElements
  <2>3. \A i \in 1..Len(filelist) : filelist[i] # Terminator
    BY <1>t, <2>1 DEF Closing
  <2>4. Append(filelist, Terminator) # <<>>
    BY <2>2
  <2>5. \A i \in 1..Len(filelist') : filelist'[i] = Terminator => i = Len(filelist')
    <3>1. SUFFICES ASSUME NEW i \in 1..(Len(filelist) + 1), filelist'[i] = Terminator,
                          i # Len(filelist) + 1
                   PROVE  FALSE
      BY <2>1, <2>2
    <3>2. i \in 1..Len(filelist)
      BY <2>2, <3>1
    <3>3. QED
      BY <2>1, <2>2, <2>3, <3>1, <3>2
  <2>6. QED
    BY <1>t, <2>1, <2>2, <2>4, <2>5 DEF TerminatorLast
<1>3. CASE TruncateMeta \/ SaveMeta
  BY <1>s, <1>3 DEF TruncateMeta, SaveMeta, genVars, Closing
<1>4. CASE Join \/ Crash
  <2>1. filelist' = <<>> /\ phase' = "off"
    BY <1>4 DEF Join, Crash, EndProcess
  <2>2. \A i \in 1..Len(filelist') : FALSE
    BY <2>1
  <2>3. QED
    BY <2>1, <2>2 DEF TerminatorLast, Closing
<1>5. CASE CleanCache \/ \E f \in Files : Edit(f)
  BY <1>s, <1>5 DEF CleanCache, Edit, genVars
<1>6. ASSUME NEW w \in Workers,
             OpenFile(w) \/ Validate(w) \/ ReadCached(w) \/ CopyCached(w) \/ Render(w) \/ AddEntry(w)
      PROVE  TerminatorLast'
  BY <1>s, <1>6 DEF OpenFile, Validate, ReadCached, CopyCached, Render, AddEntry, genVars
<1>7. ASSUME NEW w \in Workers, AddCacheable(w) PROVE TerminatorLast'
  <2>1. /\ phase = "placing" /\ phase' = phase /\ job[w] \in Nodes /\ gen' = gen
        /\ filelist' = Append(filelist, job[w])
    BY <1>t, <1>7 DEF AddCacheable, genVars
  <2>2. /\ Len(filelist) \in Nat
        /\ Len(Append(filelist, job[w])) = Len(filelist) + 1
        /\ \A i \in 1..Len(filelist) : Append(filelist, job[w])[i] = filelist[i]
        /\ Append(filelist, job[w])[Len(filelist) + 1] = job[w]
    BY <1>t, <2>1, AppendElements
  <2>3. job[w] # Terminator
    BY <2>1, TerminatorAssumption DEF Ids
  <2>4. \A i \in 1..Len(filelist') : filelist'[i] # Terminator
    <3>1. SUFFICES ASSUME NEW i \in 1..(Len(filelist) + 1) PROVE filelist'[i] # Terminator
      BY <2>1, <2>2
    <3>2. i \in 1..Len(filelist) \/ i = Len(filelist) + 1
      BY <2>2
    <3>3. QED
      BY <1>t, <2>1, <2>2, <2>3, <3>2 DEF Closing
  <2>5. QED
    BY <1>t, <2>1, <2>4 DEF TerminatorLast, Closing
<1>8. CASE GetCacheable
  <2>1. /\ gen = "get" /\ filelist # <<>> /\ filelist' = Tail(filelist) /\ phase' = phase
        /\ gen' = IF Head(filelist) = Terminator THEN "ended" ELSE "open"
    BY <1>8 DEF GetCacheable, genUnchanged
  <2>2. /\ Tail(filelist) \in Seq(Nodes \cup {Terminator})
        /\ Len(filelist) \in Nat \ {0} /\ Len(Tail(filelist)) = Len(filelist) - 1
        /\ Head(filelist) = filelist[1]
        /\ \A i \in 1..Len(Tail(filelist)) : Tail(filelist)[i] = filelist[i + 1]
    BY <1>t, <2>1, TailElements
  <2>3. \A i \in 1..Len(filelist') : filelist'[i] = Terminator => i = Len(filelist')
    <3>1. SUFFICES ASSUME NEW i \in 1..(Len(filelist) - 1), filelist[i + 1] = Terminator
                   PROVE  i = Len(filelist) - 1
      BY <2>1, <2>2
    <3>2. i + 1 \in 1..Len(filelist)
      BY <2>2
    <3>3. i + 1 = Len(filelist)
      BY <3>1, <3>2 DEF TerminatorLast
    <3>4. Len(filelist) \in Nat /\ i \in Int
      BY <2>2
    <3>5. QED
      BY <3>3, <3>4
  <2>4. CASE Head(filelist) = Terminator
    <3>1. 1 = Len(filelist)
      <4>1. 1 \in 1..Len(filelist)
        BY <2>2
      <4>2. QED
        BY <2>2, <2>4, <4>1 DEF TerminatorLast
    <3>2. filelist' = <<>>
      BY <2>1, <2>2, <3>1, EmptySeq
    <3>3. QED
      BY <2>1, <2>3, <2>4, <3>2 DEF TerminatorLast
  <2>5. CASE Head(filelist) # Terminator
    <3>1. ASSUME phase \in Closing
          PROVE  filelist' # <<>> /\ filelist'[Len(filelist')] = Terminator
      <4>1. filelist[Len(filelist)] = Terminator
        BY <2>1, <3>1 DEF TerminatorLast
      <4>2. Len(filelist) # 1
        BY <2>2, <2>5, <4>1
      <4>3. /\ Len(filelist) - 1 \in 1..Len(Tail(filelist)) /\ Len(Tail(filelist)) # 0
            /\ (Len(filelist) - 1) + 1 = Len(filelist)
        <5>1. Len(filelist) \in Nat \ {0} /\ Len(filelist) # 1
          BY <2>2, <4>2
        <5>2. Len(Tail(filelist)) = Len(filelist) - 1
          BY <2>2
        <5>3. QED
          BY <5>1, <5>2, ShorterByOne
      <4>4. Tail(filelist)[Len(filelist) - 1] = Terminator
        <5>1. Tail(filelist)[Len(filelist) - 1] = filelist[(Len(filelist) - 1) + 1]
          BY <2>2, <4>3
        <5>2. QED
          BY <4>1, <4>3, <5>1
      <4>5. Tail(filelist) # <<>>
        <5>1. Len(Tail(filelist)) # 0
          BY <4>3
        <5>2. Len(<<>>) = 0
          OBVIOUS
        <5>3. QED
          BY <5>1, <5>2, Zenon
      <4>6. QED
        BY <2>1, <2>2, <4>4, <4>5
    <3>2. gen' = "open"
      BY <2>1, <2>5
    <3>3. QED
      BY <2>1, <2>3, <3>1, <3>2 DEF TerminatorLast
  <2>6. QED
    BY <2>4, <2>5
<1>9. CASE OpenCached \/ WriteCached
  <2>1. /\ UNCHANGED <<filelist, phase>> /\ gen \in {"open", "write"} /\ gen' \in {"get", "write"}
    BY <1>9 DEF OpenCached, WriteCached, genUnchanged
  <2>2. QED
    BY <2>1 DEF TerminatorLast
<1>10. CASE UNCHANGED vars
  BY <1>s, <1>10 DEF vars, genVars
<1>11. QED
  BY <1>1, <1>2, <1>3, <1>4, <1>5, <1>6, <1>7, <1>8, <1>9, <1>10
     DEF Next, MainThread, Generator, Work, Outside

\* When join returns, the generator has taken everything the workers handed over,
\* whatever goes wrong: the empty entry that stops it is the last of the list.
THEOREM QueueDrained == Spec => [](gen = "ended" => filelist = <<>>)
<1>1. TerminatorLast => (gen = "ended" => filelist = <<>>)
  BY DEF TerminatorLast
<1>2. QED
  BY <1>1, InitTypes, NextTypes, InitTerminator, NextTerminator, PTL DEF Spec

\* What the threads of a build wait for: the main thread for its workers and, in join,
\* for the generator; the generator for an entry; a worker at "next" for a node.
MainCanGoOn ==
  \/ phase = "placing" /\ todo = {} /\ \A w \in Workers : pc[w] = "next"
  \/ phase \in {"close", "save"}
  \/ phase = "join" /\ gen = "ended"
GeneratorCanGoOn == gen \in {"open", "write"} \/ (gen = "get" /\ filelist # <<>>)
WorkerCanGoOn(w) == pc[w] # "next" \/ (phase = "placing" /\ todo # {})

\* A build never hangs: until it is over one of its threads can go on, whatever goes
\* wrong; in particular the generator, which sleeps while its list is empty, does not
\* when ~CacheManager joins it.
THEOREM NobodyStuck ==
  Spec => [](phase # "off" => MainCanGoOn \/ GeneratorCanGoOn \/ \E w \in Workers : WorkerCanGoOn(w))
<1>1. TypeStrong /\ TerminatorLast =>
        (phase # "off" => MainCanGoOn \/ GeneratorCanGoOn \/ \E w \in Workers : WorkerCanGoOn(w))
  <2> SUFFICES ASSUME TypeStrong, TerminatorLast, phase # "off", ~GeneratorCanGoOn,
                      \A w \in Workers : ~WorkerCanGoOn(w)
               PROVE  MainCanGoOn
    OBVIOUS
  <2>1. /\ phase \in {"placing", "close", "save", "join"} /\ gen \in {"get", "open", "write", "ended"}
    BY DEF TypeStrong, TypeOK
  <2>2. \A w \in Workers : pc[w] = "next"
    BY DEF WorkerCanGoOn
  <2>3. phase = "placing" => todo = {}
    BY WorkersAssumption DEF WorkerCanGoOn
  <2>4. phase = "join" => gen = "ended"
    BY <2>1 DEF GeneratorCanGoOn, TerminatorLast, Closing
  <2>5. QED
    BY <2>1, <2>2, <2>3, <2>4 DEF MainCanGoOn
<1>2. QED
  BY <1>1, InitTypes, NextTypes, InitTerminator, NextTerminator, PTL DEF Spec
====
