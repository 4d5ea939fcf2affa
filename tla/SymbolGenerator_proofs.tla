------------------------ MODULE SymbolGenerator_proofs ------------------------
(***************************************************************************)
(* Proofs about SymbolGenerator for every finite set of workers and every  *)
(* sequence of images.                                                     *)
(***************************************************************************)
EXTENDS SymbolGenerator, FiniteSetTheorems, SequenceTheorems, TLAPS

LEMMA AppendType ==
  ASSUME NEW S, NEW s \in Seq(S), NEW x \in S
  PROVE  Append(s, x) \in Seq(S)
OBVIOUS

LEMMA ConcatType ==
  ASSUME NEW S, NEW s \in Seq(S), NEW t \in Seq(S)
  PROVE  s \o t \in Seq(S)
OBVIOUS

LEMMA TailType ==
  ASSUME NEW S, NEW s \in Seq(S), s # <<>>
  PROVE  Head(s) \in S /\ Tail(s) \in Seq(S)
OBVIOUS

LEMMA ElementType ==
  ASSUME NEW S, NEW s \in Seq(S), NEW i \in DOMAIN s
  PROVE  s[i] \in S
OBVIOUS

\* The parts of a build that is well formed.
LEMMA BuildTypes ==
  ASSUME build \in Builds
  PROVE  /\ build.images # <<>>
         /\ Len(build.images) \in Nat \ {0}
         /\ Images = 1..Len(build.images)
         /\ \A i \in Images : build.images[i].files \in Seq({"exe", "data"})
<1>1. build.images \in Seq([files : Seq({"exe", "data"}), create : Outcome]) /\ build.images # <<>>
  BY BuildsAssumption DEF IsBuild
<1>2. Len(build.images) \in Nat /\ Images = 1..Len(build.images)
  BY <1>1 DEF Images
<1>3. Len(build.images) # 0
  BY <1>1, EmptySeq
<1>4. \A i \in Images : build.images[i] \in [files : Seq({"exe", "data"}), create : Outcome]
  BY <1>1, ElementType DEF Images
<1>5. QED
  BY <1>1, <1>2, <1>3, <1>4

\* A worker at "process" holds an entry.
HoldsEntry == \A w \in SymWorkers : pc[w] = "process" => pe[w] \in Entries

TypeStrong == TypeOK /\ HoldsEntry

LEMMA InitTypes == Init => TypeStrong
<1> SUFFICES ASSUME Init PROVE TypeStrong
  OBVIOUS
<1>1. build \in Builds /\ image \in Images
  BY BuildTypes DEF Init
<1>2. written \in [Images -> Seq(Records)]
  BY EmptySeq DEF Init
<1>3. HoldsEntry
  BY DEF Init, HoldsEntry
<1>4. QED
  BY <1>1, <1>2, <1>3, EmptySeq DEF Init, TypeStrong, TypeOK, Units, Labels, NoFile

LEMMA NextTypes == TypeStrong /\ [Next]_vars => TypeStrong'
<1> SUFFICES ASSUME TypeOK, HoldsEntry, [Next]_vars PROVE TypeOK' /\ HoldsEntry'
  BY DEF TypeStrong
<1> USE DEF mainVars, queueVars, workerVars, outVars
<1>b. /\ Images = 1..Len(build.images) /\ Len(build.images) \in Nat \ {0}
      /\ \A i \in Images : build.images[i].files \in Seq({"exe", "data"})
  BY BuildTypes DEF TypeOK
<1>i. image \in Images /\ image \in 1..Len(build.images) /\ image \in Nat
  <2>1. image \in Images
    BY DEF TypeOK
  <2>2. QED
    BY <1>b, <2>1
<1>1. CASE GetInstance
  <2>1. /\ pc' \in [SymWorkers -> Labels] /\ unit' \in [SymWorkers -> Units]
        /\ pe' \in [SymWorkers -> Entries \cup {NoEntry}]
        /\ HoldsEntry'
    BY <1>1 DEF GetInstance, TypeOK, Labels, Units, HoldsEntry
  <2>2. iQueueFiles' \in Seq(Entries) /\ iMapFileInfoSet' \in Seq(Records)
    BY <1>1, EmptySeq DEF GetInstance, TypeOK
  <2>3. /\ UNCHANGED <<build, image, handed, notifying, iMutex, written>> /\ main' = "type"
        /\ iInst' \in BOOLEAN /\ iFinished' \in BOOLEAN /\ iImageType' \in Units
        /\ iSymFile' \in Images \cup {NoFile} /\ gen' \in {"workers", "ended"}
    BY <1>1 DEF GetInstance, TypeOK, Units
  <2>4. QED
    BY <2>1, <2>2, <2>3 DEF TypeOK, Images, Files
<1>2. CASE SkipGenerator
  BY <1>2 DEF SkipGenerator, TypeOK, HoldsEntry, Images, Files
<1>3. CASE SetImageType
  BY <1>3 DEF SetImageType, TypeOK, HoldsEntry, Images, Files, Units
<1>4. CASE CloseSymbolFile
  BY <1>4 DEF CloseSymbolFile, TypeOK, HoldsEntry, Images, Files
<1>5. CASE OpenSymbolFile
  BY <1>5 DEF OpenSymbolFile, TypeOK, HoldsEntry, Images, Files
<1>6. CASE AddEntry
  <2>a. PICK f \in NextFiles : \E y \in Executables(Files[f]) :
           /\ handed' = handed \cup {f}
           /\ iQueueFiles' = Append(iQueueFiles, [image |-> image, file |-> f, executable |-> y])
    BY <1>6 DEF AddEntry
  <2>1. PICK x \in Executables(Files[f]) :
           /\ handed' = handed \cup {f}
           /\ iQueueFiles' = Append(iQueueFiles, [image |-> image, file |-> f, executable |-> x])
    BY <2>a
  <2>2. f \in DOMAIN Files /\ f \in Nat
    <3>1. f \in DOMAIN Files
      BY DEF NextFiles, Left
    <3>2. Files \in Seq({"exe", "data"})
      BY <1>b, <1>i DEF Files
    <3>3. QED
      BY <3>1, <3>2
  <2>3. x \in BOOLEAN
    BY DEF Executables
  <2>4. iQueueFiles' \in Seq(Entries)
    <3>2. [image |-> image, file |-> f, executable |-> x] \in Entries
      BY <2>2, <2>3, <1>i DEF Entries
    <3>3. iQueueFiles \in Seq(Entries)
      BY DEF TypeOK
    <3>4. QED
      BY <2>1, <3>2, <3>3, AppendType
  <2>5. /\ UNCHANGED <<build, main, image, iInst, iImageType, iMutex, iFinished, outVars, iSymFile, gen, workerVars>>
        /\ notifying' = notifying + 1
    BY <1>6 DEF AddEntry
  <2>6. handed' \subseteq DOMAIN Files' /\ notifying' \in Nat
    <3>1. Files' = Files
      BY <2>5 DEF Files
    <3>2. handed \subseteq DOMAIN Files /\ notifying \in Nat
      BY DEF TypeOK
    <3>3. QED
      BY <2>1, <2>2, <2>5, <3>1, <3>2
  <2>7. HoldsEntry'
    BY <2>5 DEF HoldsEntry
  <2>8. QED
    BY <2>4, <2>5, <2>6, <2>7 DEF TypeOK, Images
<1>7. CASE NotifyEntry
  <2>1. notifying' \in Nat
    <3>1. notifying \in Nat
      BY DEF TypeOK
    <3>2. notifying > 0 /\ notifying' = notifying - 1
      BY <1>7 DEF NotifyEntry
    <3>3. QED
      BY <3>1, <3>2
  <2>2. pc' \in [SymWorkers -> Labels] /\ HoldsEntry'
    BY <1>7 DEF NotifyEntry, NotifyAll, TypeOK, HoldsEntry, Labels
  <2>3. QED
    BY <1>7, <2>1, <2>2 DEF NotifyEntry, TypeOK, Images, Files
<1>8. CASE SetFinished
  BY <1>8 DEF SetFinished, NotifyAll, TypeOK, HoldsEntry, Labels, Images, Files
<1>9. CASE KeepInstance \/ Release
  <2>1. /\ UNCHANGED <<build, notifying, iImageType, iMutex, queueVars, outVars, gen, workerVars>>
        /\ iInst' \in BOOLEAN /\ iSymFile' \in Images \cup {NoFile}
        /\ main' \in {"get", "exit"}
        /\ \/ image' = image + 1 /\ handed' = {} /\ ~LastImage
           \/ UNCHANGED <<image, handed>>
    BY <1>9 DEF KeepInstance, Release, NextImage, GoesOn, TypeOK
  <2>2. image' \in Images
    BY <1>b, <1>i, <2>1 DEF LastImage
  <2>3. handed' \subseteq DOMAIN Files'
    BY <2>1 DEF TypeOK, Files
  <2>4. QED
    BY <2>1, <2>2, <2>3 DEF TypeOK, HoldsEntry, Images
<1>10. CASE LastRelease
  BY <1>10 DEF LastRelease, TypeOK, HoldsEntry, Images, Files
<1>11. ASSUME NEW w \in SymWorkers, ChooseUnit(w) PROVE TypeOK' /\ HoldsEntry'
  <2>1. unit' \in [SymWorkers -> Units]
    BY <1>11 DEF ChooseUnit, TypeOK, Units
  <2>2. /\ pc' \in [SymWorkers -> Labels]
        /\ \A v \in SymWorkers : pc'[v] = "process" => pc[v] = "process"
    BY <1>11 DEF ChooseUnit, Goto, TypeOK, Labels
  <2>3. UNCHANGED <<build, mainVars, iInst, iImageType, iMutex, queueVars, outVars, iSymFile, gen, pe>>
    BY <1>11 DEF ChooseUnit
  <2>4. HoldsEntry'
    BY <2>2, <2>3 DEF HoldsEntry
  <2>5. QED
    BY <2>1, <2>2, <2>3, <2>4 DEF TypeOK, Images, Files
<1>12. ASSUME NEW w \in SymWorkers, Loop(w) PROVE TypeOK' /\ HoldsEntry'
  BY <1>12 DEF Loop, Goto, TypeOK, HoldsEntry, Labels, Images, Files
<1>13. ASSUME NEW w \in SymWorkers, Lock(w) PROVE TypeOK' /\ HoldsEntry'
  BY <1>13 DEF Lock, Goto, TypeOK, HoldsEntry, Labels, Images, Files
<1>14. ASSUME NEW w \in SymWorkers, Take(w) PROVE TypeOK' /\ HoldsEntry'
  <2>1. iQueueFiles # <<>> => Head(iQueueFiles) \in Entries /\ Tail(iQueueFiles) \in Seq(Entries)
    BY TailType DEF TypeOK
  <2>2. /\ iQueueFiles' \in Seq(Entries)
        /\ pe' \in [SymWorkers -> Entries \cup {NoEntry}]
        /\ pc' \in [SymWorkers -> Labels]
        /\ iMutex' \in SymWorkers \cup {Nobody}
    BY <1>14, <2>1 DEF Take, Goto, TypeOK, Labels
  <2>3. HoldsEntry'
    BY <1>14, <2>1 DEF Take, Goto, TypeOK, HoldsEntry
  <2>4. UNCHANGED <<build, mainVars, iInst, iImageType, iFinished, outVars, iSymFile, gen, unit>>
    BY <1>14 DEF Take
  <2>5. QED
    BY <2>2, <2>3, <2>4 DEF TypeOK, Images, Files
<1>15. ASSUME NEW w \in SymWorkers, Wait(w) PROVE TypeOK' /\ HoldsEntry'
  BY <1>15 DEF Wait, Goto, TypeOK, HoldsEntry, Labels, Images, Files
<1>16. ASSUME NEW w \in SymWorkers, ProcessEntry(w) PROVE TypeOK' /\ HoldsEntry'
  <2>1. Record(w) \in Records
    BY <1>16 DEF ProcessEntry, HoldsEntry, Record, Records, Entries, TypeOK
  <2>2. iMapFileInfoSet' \in Seq(Records)
    <3>1. iMapFileInfoSet \in Seq(Records)
      BY DEF TypeOK
    <3>2. Append(iMapFileInfoSet, Record(w)) \in Seq(Records)
      BY <2>1, <3>1, AppendType
    <3>3. QED
      BY <1>16, <3>1, <3>2 DEF ProcessEntry
  <2>3. written' \in [Images -> Seq(Records)]
    <3>1. ASSUME iSymFile # NoFile PROVE Append(written[iSymFile], Record(w)) \in Seq(Records)
      BY <2>1, <3>1, AppendType DEF TypeOK
    <3>2. QED
      BY <1>16, <3>1 DEF ProcessEntry, TypeOK
  <2>4. /\ UNCHANGED <<build, mainVars, iInst, iImageType, iMutex, queueVars, iSymFile, gen, unit>>
        /\ pe' = [pe EXCEPT ![w] = NoEntry] /\ pc' = [pc EXCEPT ![w] = "loop"]
    BY <1>16 DEF ProcessEntry, Goto
  <2>5. QED
    BY <2>2, <2>3, <2>4 DEF TypeOK, HoldsEntry, Labels, Images, Files
<1>17. CASE FlushSymbolFileContent
  <2>1. written' \in [Images -> Seq(Records)]
    <3>1. ASSUME iSymFile # NoFile PROVE written[iSymFile] \o iMapFileInfoSet \in Seq(Records)
      BY <3>1, ConcatType DEF TypeOK
    <3>2. QED
      BY <1>17, <3>1 DEF FlushSymbolFileContent, TypeOK
  <2>2. iMapFileInfoSet' \in Seq(Records)
    BY <1>17, EmptySeq DEF FlushSymbolFileContent, TypeOK
  <2>3. /\ UNCHANGED <<build, mainVars, iInst, iImageType, iMutex, queueVars, iSymFile, workerVars>>
        /\ gen' = "ended"
    BY <1>17 DEF FlushSymbolFileContent
  <2>4. QED
    BY <2>1, <2>2, <2>3 DEF TypeOK, HoldsEntry, Images, Files
<1>18. CASE UNCHANGED vars
  BY <1>18 DEF vars, TypeOK, HoldsEntry, Images, Files
<1>19. QED
  BY <1>1, <1>2, <1>3, <1>4, <1>5, <1>6, <1>7, <1>8, <1>9, <1>10, <1>11, <1>12, <1>13, <1>14,
     <1>15, <1>16, <1>17, <1>18 DEF Next, MainThread, Work

\* The state of the generator keeps its types, whatever the builds and the workers
\* are, and however SetImageType, SetFinished and Release follow on each other.
THEOREM TypeCorrect == Spec => []TypeOK
<1>1. TypeStrong => TypeOK
  BY DEF TypeStrong
<1>2. QED
  BY InitTypes, NextTypes, <1>1, PTL DEF Spec

-----------------------------------------------------------------------------
(* No wakeup is lost *)

\* iMutex is held from the test of the wait loop to the wait...
Guarded == \A w \in SymWorkers : pc[w] \in {"test", "to wait"} => iMutex = w

\* ... so that what the test has seen still holds when the wait begins.
TestHolds == \A w \in SymWorkers : pc[w] = "to wait" => iQueueFiles = <<>> /\ ~iFinished

WakeInv == Guarded /\ TestHolds /\ NoLostWakeup

LEMMA InitWake == Init => WakeInv
BY DEF Init, WakeInv, Guarded, TestHolds, NoLostWakeup

LEMMA NextWake == TypeStrong /\ WakeInv /\ [Next]_vars => WakeInv'
<1> SUFFICES ASSUME TypeStrong, WakeInv, [Next]_vars PROVE WakeInv'
  OBVIOUS
<1> USE DEF mainVars, queueVars, workerVars, outVars
<1>t. /\ pc \in [SymWorkers -> Labels] /\ notifying \in Nat
      /\ iQueueFiles \in Seq(Entries)
  BY DEF TypeStrong, TypeOK
<1>f. iMutex = Nobody => \A w \in SymWorkers : pc[w] \notin {"test", "to wait"}
  BY NobodyAssumption DEF WakeInv, Guarded
<1>1. CASE GetInstance
  <2>1. \/ UNCHANGED <<pc, iMutex, queueVars, notifying>>
        \/ pc' = [w \in SymWorkers |-> "start"]
    BY <1>1 DEF GetInstance
  <2>2. CASE UNCHANGED <<pc, iMutex, queueVars, notifying>>
    BY <2>2 DEF WakeInv, Guarded, TestHolds, NoLostWakeup
  <2>3. CASE pc' = [w \in SymWorkers |-> "start"]
    <3>1. \A w \in SymWorkers : pc'[w] = "start"
      BY <2>3
    <3>2. QED
      BY <3>1 DEF WakeInv, Guarded, TestHolds, NoLostWakeup
  <2>4. QED
    BY <2>1, <2>2, <2>3
<1>2. CASE SkipGenerator \/ SetImageType \/ CloseSymbolFile \/ OpenSymbolFile
  <2>1. UNCHANGED <<pc, iMutex, queueVars, notifying>>
    BY <1>2 DEF SkipGenerator, SetImageType, CloseSymbolFile, OpenSymbolFile
  <2>2. QED
    BY <2>1 DEF WakeInv, Guarded, TestHolds, NoLostWakeup
<1>3. CASE AddEntry
  <2>1. /\ iMutex = Nobody /\ UNCHANGED <<pc, iMutex, iFinished>>
        /\ notifying' = notifying + 1
    BY <1>3 DEF AddEntry
  <2>2. \A w \in SymWorkers : pc[w] = "waiting" => ~iFinished
    BY DEF WakeInv, NoLostWakeup
  <2>3. notifying' > 0
    BY <1>t, <2>1
  <2>4. QED
    BY <1>f, <2>1, <2>2, <2>3 DEF WakeInv, Guarded, TestHolds, NoLostWakeup
<1>4. CASE NotifyEntry
  <2>1. /\ pc' = [w \in SymWorkers |-> IF pc[w] = "waiting" THEN "relock" ELSE pc[w]]
        /\ UNCHANGED <<iMutex, queueVars>>
    BY <1>4 DEF NotifyEntry, NotifyAll
  <2>2. \A w \in SymWorkers : pc'[w] # "waiting" /\ (pc'[w] \in {"test", "to wait"} => pc'[w] = pc[w])
    BY <2>1
  <2>3. QED
    BY <2>1, <2>2 DEF WakeInv, Guarded, TestHolds, NoLostWakeup
<1>5. CASE SetFinished
  <2>1. /\ iMutex = Nobody
        /\ pc' = [w \in SymWorkers |-> IF pc[w] = "waiting" THEN "relock" ELSE pc[w]]
    BY <1>5 DEF SetFinished, NotifyAll
  <2>2. \A w \in SymWorkers : pc'[w] \notin {"waiting", "test", "to wait"}
    BY <1>f, <2>1
  <2>3. QED
    BY <2>2 DEF WakeInv, Guarded, TestHolds, NoLostWakeup
<1>6. CASE KeepInstance \/ Release \/ LastRelease
  <2>1. UNCHANGED <<pc, iMutex, queueVars, notifying>>
    BY <1>6 DEF KeepInstance, Release, LastRelease, NextImage
  <2>2. QED
    BY <2>1 DEF WakeInv, Guarded, TestHolds, NoLostWakeup
<1>7. ASSUME NEW w \in SymWorkers, ChooseUnit(w) \/ Loop(w) \/ ProcessEntry(w) PROVE WakeInv'
  <2>1. /\ UNCHANGED <<iMutex, queueVars, notifying>>
        /\ \E l \in {"loop", "exit", "lock"} : pc' = [pc EXCEPT ![w] = l]
    BY <1>7 DEF ChooseUnit, Loop, ProcessEntry, Goto
  <2>2. \A v \in SymWorkers : pc'[v] \in {"waiting", "test", "to wait"} => pc'[v] = pc[v]
    BY <1>t, <2>1
  <2>3. QED
    BY <2>1, <2>2 DEF WakeInv, Guarded, TestHolds, NoLostWakeup
<1>8. ASSUME NEW w \in SymWorkers, Lock(w) PROVE WakeInv'
  <2>1. /\ UNCHANGED <<queueVars, notifying>>
        /\ iMutex = Nobody /\ iMutex' = w /\ pc' = [pc EXCEPT ![w] = "test"]
    BY <1>8 DEF Lock, Goto
  <2>2. QED
    BY <1>t, <1>f, <2>1 DEF WakeInv, Guarded, TestHolds, NoLostWakeup
<1>9. ASSUME NEW w \in SymWorkers, Take(w) PROVE WakeInv'
  <2>1. pc[w] = "test" /\ UNCHANGED <<iFinished, notifying>>
    BY <1>9 DEF Take
  <2>2. iMutex = w /\ \A v \in SymWorkers \ {w} : pc[v] \notin {"test", "to wait"}
    BY <2>1 DEF WakeInv, Guarded
  <2>3. CASE iQueueFiles # <<>>
    <3>1. pc' = [pc EXCEPT ![w] = "process"]
      BY <1>9, <2>3 DEF Take, Goto
    <3>2. \A v \in SymWorkers : pc'[v] \notin {"test", "to wait"}
      BY <1>t, <2>2, <3>1
    <3>3. \A v \in SymWorkers : pc'[v] = "waiting" => ~iFinished /\ notifying > 0
      BY <1>t, <2>3, <3>1 DEF WakeInv, NoLostWakeup
    <3>4. QED
      BY <2>1, <3>2, <3>3 DEF WakeInv, Guarded, TestHolds, NoLostWakeup
  <2>4. CASE iQueueFiles = <<>> /\ iFinished
    <3>1. pc' = [pc EXCEPT ![w] = "loop"]
      BY <1>9, <2>4 DEF Take, Goto
    <3>2. \A v \in SymWorkers : pc'[v] \notin {"test", "to wait", "waiting"}
      BY <1>t, <2>2, <2>4, <3>1 DEF WakeInv, NoLostWakeup
    <3>3. QED
      BY <3>2 DEF WakeInv, Guarded, TestHolds, NoLostWakeup
  <2>5. CASE iQueueFiles = <<>> /\ ~iFinished
    <3>1. pc' = [pc EXCEPT ![w] = "to wait"] /\ UNCHANGED <<iMutex, iQueueFiles>>
      BY <1>9, <2>5 DEF Take, Goto
    <3>2. QED
      BY <1>t, <2>1, <2>2, <2>5, <3>1 DEF WakeInv, Guarded, TestHolds, NoLostWakeup
  <2>6. QED
    BY <2>3, <2>4, <2>5
<1>10. ASSUME NEW w \in SymWorkers, Wait(w) PROVE WakeInv'
  <2>1. /\ pc[w] = "to wait" /\ UNCHANGED <<queueVars, notifying>>
        /\ iMutex' = Nobody /\ pc' = [pc EXCEPT ![w] = "waiting"]
    BY <1>10 DEF Wait, Goto
  <2>2. iMutex = w /\ iQueueFiles = <<>> /\ ~iFinished
    BY <2>1 DEF WakeInv, Guarded, TestHolds
  <2>3. \A v \in SymWorkers : pc'[v] \notin {"test", "to wait"}
    BY <1>t, <2>1, <2>2 DEF WakeInv, Guarded
  <2>4. QED
    BY <1>t, <2>1, <2>2, <2>3 DEF WakeInv, Guarded, TestHolds, NoLostWakeup
<1>11. CASE FlushSymbolFileContent
  <2>1. UNCHANGED <<pc, iMutex, queueVars, notifying>>
    BY <1>11 DEF FlushSymbolFileContent
  <2>2. QED
    BY <2>1 DEF WakeInv, Guarded, TestHolds, NoLostWakeup
<1>12. CASE UNCHANGED vars
  BY <1>12 DEF vars, WakeInv, Guarded, TestHolds, NoLostWakeup
<1>13. QED
  BY <1>1, <1>2, <1>3, <1>4, <1>5, <1>6, <1>7, <1>8, <1>9, <1>10, <1>11, <1>12 DEF Next, MainThread, Work

\* No worker sleeps while there is work and nobody is about to wake it, for every
\* number of workers and every sequence of images ("rofsbuild hangs occasionally with
\* -symbols").
THEOREM WakeupsReach == Spec => []NoLostWakeup
<1>1. WakeInv => NoLostWakeup
  BY DEF WakeInv
<1>2. QED
  BY InitTypes, NextTypes, InitWake, NextWake, <1>1, PTL DEF Spec

-----------------------------------------------------------------------------
(* An entry is in one place *)

\* What was handed over is of an image up to this one, and of this one is in handed.
HandedOver(n) == n[1] \in Nat /\ n[1] <= image /\ (n[1] = image => n[2] \in handed)

\* What is at each place.
NameAt == [p \in Places |-> At(p)]

PlacesInv ==
  /\ \A p, q \in Places : NameAt[p] = NameAt[q] => p = q
  /\ \A p \in Places : HandedOver(NameAt[p])

\* When each place there is now can be told from where its entry comes, and no two come
\* from one place, entries are still in one place.
LEMMA Moved ==
  ASSUME PlacesInv, NEW r,
         \A p \in Places' : r[p] \in Places /\ NameAt'[p] = NameAt[r[p]],
         \A p, q \in Places' : r[p] = r[q] => p = q,
         \A n : HandedOver(n) => HandedOver(n)'
  PROVE  PlacesInv'
<1>1. ASSUME NEW p \in Places', NEW q \in Places', NameAt'[p] = NameAt'[q] PROVE p = q
  <2>1. /\ r[p] \in Places /\ NameAt'[p] = NameAt[r[p]]
        /\ r[q] \in Places /\ NameAt'[q] = NameAt[r[q]]
    OBVIOUS
  <2>2. r[p] = r[q]
    BY <1>1, <2>1 DEF PlacesInv
  <2>3. QED
    BY <2>2
<1>2. ASSUME NEW p \in Places' PROVE HandedOver(NameAt[p])'
  <2>1. r[p] \in Places /\ NameAt'[p] = NameAt[r[p]]
    OBVIOUS
  <2>2. PICK n : n = NameAt[r[p]]
    OBVIOUS
  <2>3. HandedOver(n)
    BY <2>1, <2>2 DEF PlacesInv
  <2>4. HandedOver(n)' /\ NameAt'[p] = n
    BY <2>1, <2>2, <2>3
  <2>5. QED
    BY <2>4 DEF HandedOver
<1>3. QED
  BY <1>1, <1>2 DEF PlacesInv

\* The places, by kind.
AtQueue ==
  \A i \in DOMAIN iQueueFiles :
     <<"queue", i>> \in Places /\ NameAt[<<"queue", i>>] = Name(iQueueFiles[i])
AtWorker ==
  \A w \in SymWorkers :
     pe[w] # NoEntry => <<"worker", w>> \in Places /\ NameAt[<<"worker", w>>] = Name(pe[w])
AtKept ==
  \A i \in DOMAIN iMapFileInfoSet :
     <<"kept", i>> \in Places /\ NameAt[<<"kept", i>>] = Name(iMapFileInfoSet[i])
AtFile ==
  \A i \in Images : \A j \in DOMAIN written[i] :
     <<"file", i, j>> \in Places /\ NameAt[<<"file", i, j>>] = Name(written[i][j])
AtThese ==
  \A p \in Places :
     \/ \E i \in DOMAIN iQueueFiles : p = <<"queue", i>>
     \/ \E w \in SymWorkers : pe[w] # NoEntry /\ p = <<"worker", w>>
     \/ \E i \in DOMAIN iMapFileInfoSet : p = <<"kept", i>>
     \/ \E i \in Images : \E j \in DOMAIN written[i] : p = <<"file", i, j>>
Kinds == AtQueue /\ AtWorker /\ AtKept /\ AtFile /\ AtThese

\* The four kinds of place are all there are, and what is at each.
LEMMA PlaceKinds == Kinds
<1>1. \A i : At(<<"queue", i>>) = Name(iQueueFiles[i])
  BY DEF At
<1>2. \A w : At(<<"worker", w>>) = Name(pe[w])
  BY DEF At
<1>3. \A i : At(<<"kept", i>>) = Name(iMapFileInfoSet[i])
  BY DEF At
<1>4. \A i, j : At(<<"file", i, j>>) = Name(written[i][j])
  BY DEF At
<1>5. \A p \in Places : NameAt[p] = At(p)
  BY DEF NameAt
<1>6. QED
  BY <1>1, <1>2, <1>3, <1>4, <1>5 DEF Kinds, AtQueue, AtWorker, AtKept, AtFile, AtThese, Places, Queued, Held, Kept, Written

\* At first no entry is anywhere.
LEMMA InitPlaces == Init => PlacesInv
<1> SUFFICES ASSUME Init PROVE PlacesInv
  OBVIOUS
<1>1. /\ iQueueFiles = <<>> /\ iMapFileInfoSet = <<>>
      /\ \A w \in SymWorkers : pe[w] = NoEntry
      /\ \A i \in Images : written[i] = <<>>
  BY DEF Init
<1>2. Places = {}
  BY <1>1, PlaceKinds DEF Kinds, AtThese
<1>3. QED
  BY <1>2 DEF PlacesInv

\* A step that adds nothing to the places.
LEMMA SamePlaces ==
  ASSUME PlacesInv, UNCHANGED <<build, written>>,
         \/ UNCHANGED <<iQueueFiles, iMapFileInfoSet, pe>>
         \/ iQueueFiles' = <<>> /\ iMapFileInfoSet' = <<>> /\ pe' = [w \in SymWorkers |-> NoEntry],
         \A n : HandedOver(n) => HandedOver(n)'
  PROVE  PlacesInv'
<1>0. /\ AtQueue /\ AtWorker /\ AtKept /\ AtFile
      /\ AtQueue' /\ AtWorker' /\ AtKept' /\ AtFile' /\ AtThese'
  BY PlaceKinds, PTL DEF Kinds
<1>1. Images' = Images
  BY DEF Images
<1>2. CASE UNCHANGED <<iQueueFiles, iMapFileInfoSet, pe>>
  <2>1. Places' = Places /\ NameAt' = NameAt
    <3>1. Places' = Places
      BY <1>1, <1>2 DEF Places, Queued, Held, Kept, Written
    <3>2. QED
      BY <1>1, <1>2, <3>1 DEF NameAt, At
  <2>2. PICK r : r = [p \in Places |-> p]
    OBVIOUS
  <2>3. \A p \in Places' : r[p] = p
    BY <2>1, <2>2
  <2>4. QED
    BY <2>1, <2>3, Moved
<1>3. CASE iQueueFiles' = <<>> /\ iMapFileInfoSet' = <<>> /\ pe' = [w \in SymWorkers |-> NoEntry]
  <2>1. ASSUME NEW p \in Places' PROVE p \in Places /\ NameAt'[p] = NameAt[p]
    <3>1. PICK i \in Images : \E j \in DOMAIN written[i] : p = <<"file", i, j>>
      BY <1>0, <1>1, <1>3, <2>1 DEF AtThese
    <3>2. PICK j \in DOMAIN written[i] : p = <<"file", i, j>>
      BY <3>1
    <3>3. QED
      BY <1>0, <1>1, <3>2 DEF AtFile
  <2>2. PICK r : r = [p \in Places |-> p]
    OBVIOUS
  <2>3. \A p \in Places' : r[p] = p
    BY <2>1, <2>2
  <2>4. QED
    BY <2>1, <2>3, Moved
<1>4. QED
  BY <1>2, <1>3

\* A new entry comes to the end of the queue.
LEMMA AddPlaces ==
  ASSUME TypeStrong, PlacesInv, AddEntry
  PROVE  PlacesInv'
<1>0. /\ AtQueue /\ AtWorker /\ AtKept /\ AtFile
      /\ AtQueue' /\ AtWorker' /\ AtKept' /\ AtFile' /\ AtThese'
  BY PlaceKinds, PTL DEF Kinds
<1>1. PICK f \in NextFiles : \E y \in Executables(Files[f]) :
         /\ handed' = handed \cup {f}
         /\ iQueueFiles' = Append(iQueueFiles, [image |-> image, file |-> f, executable |-> y])
  BY DEF AddEntry
<1>2. PICK x \in Executables(Files[f]) :
         /\ handed' = handed \cup {f}
         /\ iQueueFiles' = Append(iQueueFiles, [image |-> image, file |-> f, executable |-> x])
  BY <1>1
<1>3. f \notin handed
  BY DEF NextFiles, Left
<1>4. UNCHANGED <<build, image, iMapFileInfoSet, written, pe>> /\ Images' = Images
  BY DEF AddEntry, outVars, workerVars, Images
<1>5. image \in Nat
  <2>1. image \in Images /\ Images = 1..Len(build.images) /\ Len(build.images) \in Nat
    BY BuildTypes DEF TypeStrong, TypeOK
  <2>2. QED
    BY <2>1
<1> DEFINE new == <<"queue", Len(iQueueFiles) + 1>>
<1>6. /\ DOMAIN iQueueFiles' = DOMAIN iQueueFiles \cup {Len(iQueueFiles) + 1}
      /\ Len(iQueueFiles) + 1 \notin DOMAIN iQueueFiles
      /\ \A i \in DOMAIN iQueueFiles : iQueueFiles'[i] = iQueueFiles[i]
      /\ Name(iQueueFiles'[Len(iQueueFiles) + 1]) = <<image, f>>
  <2>1. iQueueFiles \in Seq(Entries)
    BY DEF TypeStrong, TypeOK
  <2>2. QED
    BY <1>2, <2>1 DEF Name
<1>7. new \in Places' /\ NameAt'[new] = <<image, f>>
  BY <1>0, <1>6 DEF AtQueue
<1>8. ASSUME NEW p \in Places', p # new PROVE p \in Places /\ NameAt'[p] = NameAt[p]
  <2>1. CASE \E i \in DOMAIN iQueueFiles' : p = <<"queue", i>>
    <3>1. PICK i \in DOMAIN iQueueFiles' : p = <<"queue", i>>
      BY <2>1
    <3>2. i \in DOMAIN iQueueFiles
      BY <1>6, <1>8, <3>1
    <3>3. QED
      BY <1>0, <1>6, <3>1, <3>2 DEF AtQueue
  <2>2. CASE \E w \in SymWorkers : pe[w] # NoEntry /\ p = <<"worker", w>>
    BY <1>0, <1>4, <2>2 DEF AtWorker
  <2>3. CASE \E i \in DOMAIN iMapFileInfoSet : p = <<"kept", i>>
    BY <1>0, <1>4, <2>3 DEF AtKept
  <2>4. CASE \E i \in Images : \E j \in DOMAIN written[i] : p = <<"file", i, j>>
    BY <1>0, <1>4, <2>4 DEF AtFile
  <2>5. QED
    BY <1>0, <1>4, <2>1, <2>2, <2>3, <2>4 DEF AtThese
<1>9. \A p \in Places : NameAt[p] # <<image, f>>
  BY <1>3, <1>5 DEF PlacesInv, HandedOver
<1>10. \A p, q \in Places' : NameAt'[p] = NameAt'[q] => p = q
  BY <1>7, <1>8, <1>9 DEF PlacesInv
<1>11. ASSUME NEW p \in Places' PROVE HandedOver(NameAt[p])'
  <2>1. CASE p = new
    BY <1>2, <1>4, <1>5, <1>7, <2>1 DEF HandedOver
  <2>2. CASE p # new
    <3>1. HandedOver(NameAt[p]) /\ NameAt'[p] = NameAt[p]
      BY <1>8, <2>2 DEF PlacesInv
    <3>2. QED
      BY <1>2, <1>4, <3>1 DEF HandedOver
  <2>3. QED
    BY <2>1, <2>2
<1>12. QED
  BY <1>10, <1>11 DEF PlacesInv

\* A worker takes the first entry of the queue, and the others move up.
LEMMA TakePlaces ==
  ASSUME TypeStrong, PlacesInv, NEW w \in SymWorkers, Take(w), iQueueFiles # <<>>
  PROVE  PlacesInv'
<1>0. /\ AtQueue /\ AtWorker /\ AtKept /\ AtFile
      /\ AtQueue' /\ AtWorker' /\ AtKept' /\ AtFile' /\ AtThese'
  BY PlaceKinds, PTL DEF Kinds
<1>1. /\ pe' = [pe EXCEPT ![w] = Head(iQueueFiles)] /\ iQueueFiles' = Tail(iQueueFiles)
      /\ UNCHANGED <<build, image, handed, iMapFileInfoSet, written>> /\ Images' = Images
  BY DEF Take, outVars, mainVars, Images
<1>2. /\ 1 \in DOMAIN iQueueFiles /\ pe'[w] = iQueueFiles[1]
      /\ \A v \in SymWorkers : v # w => pe'[v] = pe[v]
      /\ \A i \in DOMAIN iQueueFiles' :
            i + 1 \in DOMAIN iQueueFiles /\ iQueueFiles'[i] = iQueueFiles[i + 1] /\ i \in Nat \ {0}
  <2>1. iQueueFiles \in Seq(Entries) /\ pe \in [SymWorkers -> Entries \cup {NoEntry}]
    BY DEF TypeStrong, TypeOK
  <2>2. Len(iQueueFiles) \in Nat \ {0} /\ Head(iQueueFiles) = iQueueFiles[1]
    BY <2>1, EmptySeq
  <2>3. /\ Tail(iQueueFiles) \in Seq(Entries) /\ Len(Tail(iQueueFiles)) = Len(iQueueFiles) - 1
        /\ \A i \in 1..Len(Tail(iQueueFiles)) : Tail(iQueueFiles)[i] = iQueueFiles[i + 1]
    BY <2>1, HeadTailProperties
  <2>4. DOMAIN iQueueFiles = 1..Len(iQueueFiles) /\ DOMAIN iQueueFiles' = 1..Len(Tail(iQueueFiles))
    BY <1>1, <2>1, <2>3
  <2>5. QED
    BY <1>1, <2>1, <2>2, <2>3, <2>4
<1>3. PICK r : r = [p \in Places' |->
                      IF p[1] = "queue" THEN <<"queue", p[2] + 1>>
                      ELSE IF p = <<"worker", w>> THEN <<"queue", 1>> ELSE p]
  OBVIOUS
<1>4. ASSUME NEW p \in Places'
      PROVE  /\ r[p] \in Places /\ NameAt'[p] = NameAt[r[p]]
             /\ \/ \E i \in DOMAIN iQueueFiles' : p = <<"queue", i>> /\ r[p] = <<"queue", i + 1>>
                \/ p = <<"worker", w>> /\ r[p] = <<"queue", 1>>
                \/ r[p] = p /\ p[1] # "queue"
  <2>1. CASE \E i \in DOMAIN iQueueFiles' : p = <<"queue", i>>
    <3>1. PICK i \in DOMAIN iQueueFiles' : p = <<"queue", i>>
      BY <2>1
    <3>2. r[p] = <<"queue", i + 1>>
      BY <1>3, <3>1
    <3>3. QED
      BY <1>0, <1>2, <3>1, <3>2 DEF AtQueue
  <2>2. CASE p = <<"worker", w>>
    <3>1. r[p] = <<"queue", 1>>
      BY <1>3, <2>2
    <3>2. pe'[w] # NoEntry
      BY <1>0, <2>2 DEF AtThese
    <3>3. QED
      BY <1>0, <1>2, <2>2, <3>1, <3>2 DEF AtQueue, AtWorker
  <2>3. CASE \E v \in SymWorkers : v # w /\ pe'[v] # NoEntry /\ p = <<"worker", v>>
    <3>1. PICK v \in SymWorkers : v # w /\ pe'[v] # NoEntry /\ p = <<"worker", v>>
      BY <2>3
    <3>2. r[p] = p /\ p[1] # "queue"
      BY <1>3, <3>1
    <3>3. QED
      BY <1>0, <1>2, <3>1, <3>2 DEF AtWorker
  <2>4. CASE \E i \in DOMAIN iMapFileInfoSet : p = <<"kept", i>>
    <3>1. r[p] = p /\ p[1] # "queue"
      BY <1>3, <2>4
    <3>2. QED
      BY <1>0, <1>1, <2>4, <3>1 DEF AtKept
  <2>5. CASE \E i \in Images : \E j \in DOMAIN written[i] : p = <<"file", i, j>>
    <3>1. r[p] = p /\ p[1] # "queue"
      BY <1>3, <2>5
    <3>2. QED
      BY <1>0, <1>1, <2>5, <3>1 DEF AtFile
  <2>6. QED
    BY <1>0, <1>1, <2>1, <2>2, <2>3, <2>4, <2>5 DEF AtThese
<1>5. ASSUME NEW p \in Places', NEW q \in Places', r[p] = r[q] PROVE p = q
  BY <1>2, <1>4, <1>5
<1>6. \A n : HandedOver(n) => HandedOver(n)'
  BY <1>1 DEF HandedOver
<1>7. QED
  BY <1>4, <1>5, <1>6, Moved

\* One entry goes from the worker that held it to another place, or to none.
LEMMA OneMoves ==
  ASSUME PlacesInv, NEW old \in Places, NEW new, old \notin Places',
         \A p \in Places' :
            \/ p = new /\ NameAt'[p] = NameAt[old]
            \/ p # new /\ p \in Places /\ NameAt'[p] = NameAt[p],
         \A n : HandedOver(n) => HandedOver(n)'
  PROVE  PlacesInv'
<1>1. PICK r : r = [p \in Places' |-> IF p = new THEN old ELSE p]
  OBVIOUS
<1>2. \A p \in Places' : r[p] = IF p = new THEN old ELSE p
  BY <1>1
<1>3. \A p \in Places' : r[p] \in Places /\ NameAt'[p] = NameAt[r[p]]
  BY <1>2
<1>4. \A p, q \in Places' : r[p] = r[q] => p = q
  BY <1>2
<1>5. QED
  BY <1>3, <1>4, Moved

\* An entry is not mistaken for none.
LEMMA EntryOrNone ==
  ASSUME NEW e \in Entries
  PROVE  e # NoEntry
<1>1. DOMAIN e = {"image", "file", "executable"}
  BY DEF Entries
<1>2. NoEntry \in Seq(Nat) /\ Len(NoEntry) = 0
  BY EmptySeq DEF NoEntry
<1>3. DOMAIN NoEntry = {}
  <2>1. DOMAIN NoEntry = 1..0
    BY <1>2
  <2>2. 1..0 = {}
    OBVIOUS
  <2>3. QED
    BY <2>1, <2>2
<1>4. QED
  BY <1>1, <1>3, Zenon

\* What a worker held goes to the records that are kept or to the symbol file.
LEMMA ProcessPlaces ==
  ASSUME TypeStrong, PlacesInv, NEW w \in SymWorkers, ProcessEntry(w)
  PROVE  PlacesInv'
<1>0. /\ AtQueue /\ AtWorker /\ AtKept /\ AtFile
      /\ AtQueue' /\ AtWorker' /\ AtKept' /\ AtFile' /\ AtThese'
  BY PlaceKinds, PTL DEF Kinds
<1>1. /\ pc[w] = "process" /\ pe' = [pe EXCEPT ![w] = NoEntry]
      /\ UNCHANGED <<build, image, handed, iQueueFiles>> /\ Images' = Images
  BY DEF ProcessEntry, mainVars, queueVars, Images
<1>2. /\ pe \in [SymWorkers -> Entries \cup {NoEntry}] /\ pe[w] \in Entries
      /\ iMapFileInfoSet \in Seq(Records) /\ written \in [Images -> Seq(Records)]
      /\ iSymFile \in Images \cup {NoFile}
  BY <1>1 DEF TypeStrong, TypeOK, HoldsEntry
<1>3. pe[w] # NoEntry /\ pe'[w] = NoEntry /\ \A v \in SymWorkers : v # w => pe'[v] = pe[v]
  <2>1. pe[w] # NoEntry
    BY <1>2, EntryOrNone
  <2>2. QED
    BY <1>1, <1>2, <2>1
<1> DEFINE old == <<"worker", w>>
<1>4. old \in Places /\ NameAt[old] = Name(pe[w]) /\ Name(Record(w)) = Name(pe[w])
  BY <1>0, <1>3 DEF AtWorker, Record, Name
<1>5. old \notin Places'
  BY <1>0, <1>3 DEF AtThese
<1>6. \A n : HandedOver(n) => HandedOver(n)'
  BY <1>1 DEF HandedOver
<1>7. ASSUME NEW p \in Places', \E i \in DOMAIN iQueueFiles : p = <<"queue", i>>
      PROVE  p \in Places /\ NameAt'[p] = NameAt[p]
  BY <1>0, <1>1, <1>7 DEF AtQueue
<1>8. ASSUME NEW p \in Places', \E v \in SymWorkers : pe'[v] # NoEntry /\ p = <<"worker", v>>
      PROVE  p \in Places /\ NameAt'[p] = NameAt[p]
  <2>1. PICK v \in SymWorkers : pe'[v] # NoEntry /\ p = <<"worker", v>>
    BY <1>8
  <2>2. v # w /\ pe'[v] = pe[v]
    BY <1>3, <2>1
  <2>3. QED
    BY <1>0, <2>1, <2>2 DEF AtWorker
<1>9. CASE UNCHANGED outVars
  <2> DEFINE new == <<"none">>
  <2>1. UNCHANGED <<iMapFileInfoSet, written>>
    BY <1>9 DEF outVars
  <2>2. ASSUME NEW p \in Places' PROVE p # new /\ p \in Places /\ NameAt'[p] = NameAt[p]
    <3>1. CASE \E i \in DOMAIN iMapFileInfoSet : p = <<"kept", i>>
      BY <1>0, <2>1, <3>1 DEF AtKept
    <3>2. CASE \E i \in Images : \E j \in DOMAIN written[i] : p = <<"file", i, j>>
      BY <1>0, <1>1, <2>1, <3>2 DEF AtFile
    <3>3. p # new
      BY <1>0 DEF AtThese
    <3>4. QED
      BY <1>0, <1>1, <1>7, <1>8, <2>1, <3>1, <3>2, <3>3 DEF AtThese
  <2> HIDE DEF old, new
  <2>3. QED
    BY <1>4, <1>5, <1>6, <2>2, OneMoves
<1>10. CASE /\ iMapFileInfoSet' = Append(iMapFileInfoSet, Record(w))
            /\ UNCHANGED written
  <2> DEFINE n == Len(iMapFileInfoSet) + 1
             new == <<"kept", n>>
  <2>1. /\ DOMAIN iMapFileInfoSet' = DOMAIN iMapFileInfoSet \cup {n} /\ n \notin DOMAIN iMapFileInfoSet
        /\ \A i \in DOMAIN iMapFileInfoSet : iMapFileInfoSet'[i] = iMapFileInfoSet[i]
        /\ iMapFileInfoSet'[n] = Record(w)
    BY <1>2, <1>10
  <2>2. NameAt'[new] = NameAt[old]
    BY <1>0, <1>4, <2>1 DEF AtKept
  <2>3. ASSUME NEW p \in Places', p # new PROVE p \in Places /\ NameAt'[p] = NameAt[p]
    <3>1. CASE \E i \in DOMAIN iMapFileInfoSet' : p = <<"kept", i>>
      <4>1. PICK i \in DOMAIN iMapFileInfoSet : p = <<"kept", i>>
        BY <2>1, <2>3, <3>1
      <4>2. QED
        BY <1>0, <2>1, <4>1 DEF AtKept
    <3>2. CASE \E i \in Images : \E j \in DOMAIN written[i] : p = <<"file", i, j>>
      BY <1>0, <1>1, <1>10, <3>2 DEF AtFile
    <3>3. QED
      BY <1>0, <1>1, <1>7, <1>8, <1>10, <3>1, <3>2 DEF AtThese
  <2> HIDE DEF old, new
  <2>4. QED
    BY <1>4, <1>5, <1>6, <2>2, <2>3, OneMoves
<1>11. CASE /\ iSymFile # NoFile /\ UNCHANGED iMapFileInfoSet
            /\ written' = [written EXCEPT ![iSymFile] = Append(@, Record(w))]
  <2>1. PICK s \in Images : s = iSymFile
    BY <1>2, <1>11
  <2> DEFINE n == Len(written[s]) + 1
             new == <<"file", s, n>>
  <2>2. written'[s] = Append(written[s], Record(w)) /\ \A i \in Images : i # s => written'[i] = written[i]
    BY <1>2, <1>11, <2>1
  <2>3. /\ DOMAIN written'[s] = DOMAIN written[s] \cup {n} /\ n \notin DOMAIN written[s]
        /\ \A j \in DOMAIN written[s] : written'[s][j] = written[s][j]
        /\ written'[s][n] = Record(w)
    <3>1. written[s] \in Seq(Records)
      BY <1>2
    <3>2. QED
      BY <2>2, <3>1
  <2>4. NameAt'[new] = NameAt[old]
    BY <1>0, <1>1, <1>4, <2>3 DEF AtFile
  <2>5. ASSUME NEW p \in Places', p # new PROVE p \in Places /\ NameAt'[p] = NameAt[p]
    <3>1. CASE \E i \in DOMAIN iMapFileInfoSet : p = <<"kept", i>>
      BY <1>0, <1>11, <3>1 DEF AtKept
    <3>2. CASE \E i \in Images : \E j \in DOMAIN written'[i] : p = <<"file", i, j>>
      <4>1. PICK i \in Images : \E j \in DOMAIN written'[i] : p = <<"file", i, j>>
        BY <3>2
      <4>2. PICK j \in DOMAIN written'[i] : p = <<"file", i, j>>
        BY <4>1
      <4>3. j \in DOMAIN written[i] /\ written'[i][j] = written[i][j]
        BY <2>2, <2>3, <2>5, <4>2
      <4>4. QED
        BY <1>0, <1>1, <4>2, <4>3 DEF AtFile
    <3>3. QED
      BY <1>0, <1>1, <1>7, <1>8, <1>11, <3>1, <3>2 DEF AtThese
  <2> HIDE DEF old, new
  <2>6. QED
    BY <1>4, <1>5, <1>6, <2>4, <2>5, OneMoves
<1>12. QED
  BY <1>9, <1>10, <1>11 DEF ProcessEntry

\* The records that were kept go to the end of the file.
LEMMA FlushPlaces ==
  ASSUME TypeStrong, PlacesInv, FlushSymbolFileContent
  PROVE  PlacesInv'
<1>0. /\ AtQueue /\ AtWorker /\ AtKept /\ AtFile
      /\ AtQueue' /\ AtWorker' /\ AtKept' /\ AtFile' /\ AtThese'
  BY PlaceKinds, PTL DEF Kinds
<1>1. UNCHANGED <<build, image, handed, iQueueFiles, pe>> /\ Images' = Images
  BY DEF FlushSymbolFileContent, mainVars, queueVars, workerVars, Images
<1>2. /\ iMapFileInfoSet \in Seq(Records) /\ written \in [Images -> Seq(Records)]
      /\ iSymFile \in Images \cup {NoFile}
  BY DEF TypeStrong, TypeOK
<1>3. \A n : HandedOver(n) => HandedOver(n)'
  BY <1>1 DEF HandedOver
<1>4. ASSUME NEW p \in Places', \/ \E i \in DOMAIN iQueueFiles : p = <<"queue", i>>
                                \/ \E v \in SymWorkers : pe[v] # NoEntry /\ p = <<"worker", v>>
      PROVE  p \in Places /\ NameAt'[p] = NameAt[p] /\ p[1] # "file"
  <2>1. CASE \E i \in DOMAIN iQueueFiles : p = <<"queue", i>>
    BY <1>0, <1>1, <2>1 DEF AtQueue
  <2>2. CASE \E v \in SymWorkers : pe[v] # NoEntry /\ p = <<"worker", v>>
    BY <1>0, <1>1, <2>2 DEF AtWorker
  <2>3. QED
    BY <1>4, <2>1, <2>2
<1>5. CASE UNCHANGED written /\ (UNCHANGED iMapFileInfoSet \/ iMapFileInfoSet' = <<>>)
  <2>1. ASSUME NEW p \in Places' PROVE p \in Places /\ NameAt'[p] = NameAt[p]
    <3>1. CASE \E i \in DOMAIN iMapFileInfoSet' : p = <<"kept", i>>
      <4>1. iMapFileInfoSet' = iMapFileInfoSet
        BY <1>5, <3>1
      <4>2. QED
        BY <1>0, <3>1, <4>1 DEF AtKept
    <3>2. CASE \E i \in Images : \E j \in DOMAIN written[i] : p = <<"file", i, j>>
      BY <1>0, <1>1, <1>5, <3>2 DEF AtFile
    <3>3. QED
      BY <1>0, <1>1, <1>4, <1>5, <3>1, <3>2 DEF AtThese
  <2>2. PICK r : r = [p \in Places |-> p]
    OBVIOUS
  <2>3. \A p \in Places' : r[p] = p
    BY <2>1, <2>2
  <2>4. QED
    BY <1>3, <2>1, <2>3, Moved
<1>6. CASE /\ iSymFile # NoFile /\ iMapFileInfoSet' = <<>>
           /\ written' = [written EXCEPT ![iSymFile] = @ \o iMapFileInfoSet]
  <2>1. PICK s \in Images : s = iSymFile
    BY <1>2, <1>6
  <2>2. PICK n \in Nat : n = Len(written[s])
    BY <1>2
  <2>3. /\ \A i \in Images : i # s => written'[i] = written[i]
        /\ \A j \in DOMAIN written'[s] :
              \/ j \in DOMAIN written[s] /\ written'[s][j] = written[s][j] /\ j \in Nat /\ ~(j > n)
              \/ /\ j \in Nat /\ j > n /\ j - n \in DOMAIN iMapFileInfoSet
                 /\ written'[s][j] = iMapFileInfoSet[j - n]
    <3>1. written[s] \in Seq(Records)
      BY <1>2
    <3>2. written'[s] = written[s] \o iMapFileInfoSet /\ \A i \in Images : i # s => written'[i] = written[i]
      BY <1>2, <1>6, <2>1
    <3>3. QED
      BY <1>2, <2>2, <3>1, <3>2
  <2>4. PICK r : r = [p \in Places' |->
                        IF p[1] = "file" /\ p[2] = s /\ p[3] > n THEN <<"kept", p[3] - n>> ELSE p]
    OBVIOUS
  <2>5. ASSUME NEW p \in Places'
        PROVE  /\ r[p] \in Places /\ NameAt'[p] = NameAt[r[p]]
               /\ \/ r[p] = p /\ p[1] # "kept"
                  \/ \E j \in Nat : p = <<"file", s, j>> /\ r[p] = <<"kept", j - n>>
    <3>1. ~\E i \in DOMAIN iMapFileInfoSet' : p = <<"kept", i>>
      BY <1>6
    <3>2. CASE \/ \E i \in DOMAIN iQueueFiles : p = <<"queue", i>>
               \/ \E v \in SymWorkers : pe[v] # NoEntry /\ p = <<"worker", v>>
      <4>1. p \in Places /\ NameAt'[p] = NameAt[p] /\ r[p] = p
        BY <1>4, <2>4, <3>2
      <4>2. p[1] # "kept"
        BY <3>2
      <4>3. QED
        BY <4>1, <4>2
    <3>3. CASE \E i \in Images : \E j \in DOMAIN written'[i] : p = <<"file", i, j>>
      <4>1. PICK i \in Images : \E j \in DOMAIN written'[i] : p = <<"file", i, j>>
        BY <3>3
      <4>2. PICK j \in DOMAIN written'[i] : p = <<"file", i, j>>
        BY <4>1
      <4>3. NameAt'[p] = Name(written'[i][j])
        BY <1>0, <1>1, <4>2 DEF AtFile
      <4>4. CASE i = s /\ j \in Nat /\ j > n /\ j - n \in DOMAIN iMapFileInfoSet /\ written'[s][j] = iMapFileInfoSet[j - n]
        <5>1. r[p] = <<"kept", j - n>>
          BY <2>4, <4>2, <4>4
        <5>2. QED
          BY <1>0, <4>2, <4>3, <4>4, <5>1 DEF AtKept
      <4>5. CASE /\ j \in DOMAIN written[i] /\ written'[i][j] = written[i][j]
                 /\ i # s \/ ~(j > n)
        <5>1. r[p] = p /\ p[1] # "kept"
          BY <2>4, <4>2, <4>5
        <5>2. p \in Places /\ NameAt[p] = Name(written[i][j])
          BY <1>0, <4>2, <4>5 DEF AtFile
        <5>3. QED
          BY <4>3, <4>5, <5>1, <5>2
      <4>6. QED
        BY <2>3, <4>4, <4>5
    <3>4. QED
      BY <1>0, <1>1, <3>1, <3>2, <3>3 DEF AtThese
  <2>6. ASSUME NEW p \in Places', NEW q \in Places', r[p] = r[q] PROVE p = q
    <3>1. CASE r[p] = p /\ p[1] # "kept"
      <4>1. ~\E k \in Nat : q = <<"file", s, k>> /\ r[q] = <<"kept", k - n>>
        BY <2>6, <3>1
      <4>2. r[q] = q
        BY <2>5, <4>1
      <4>3. QED
        BY <2>6, <3>1, <4>2
    <3>2. CASE \E j \in Nat : p = <<"file", s, j>> /\ r[p] = <<"kept", j - n>>
      <4>1. PICK j \in Nat : p = <<"file", s, j>> /\ r[p] = <<"kept", j - n>>
        BY <3>2
      <4>2. ~(r[q] = q /\ q[1] # "kept")
        BY <2>6, <4>1
      <4>3. PICK k \in Nat : q = <<"file", s, k>> /\ r[q] = <<"kept", k - n>>
        BY <2>5, <4>2
      <4>4. j - n = k - n
        BY <2>6, <4>1, <4>3
      <4>5. j = k
        BY <4>4
      <4>6. QED
        BY <4>1, <4>3, <4>5
    <3>3. QED
      BY <2>5, <3>1, <3>2
  <2>7. QED
    BY <1>3, <2>5, <2>6, Moved
<1>7. QED
  BY <1>5, <1>6 DEF FlushSymbolFileContent, outVars

\* Every step keeps an entry in one place.
LEMMA NextPlaces == TypeStrong /\ PlacesInv /\ [Next]_vars => PlacesInv'
<1> SUFFICES ASSUME TypeStrong, PlacesInv, [Next]_vars PROVE PlacesInv'
  OBVIOUS
<1> USE DEF mainVars, queueVars, workerVars, outVars
<1>1. CASE \/ GetInstance \/ SkipGenerator \/ SetImageType \/ CloseSymbolFile \/ OpenSymbolFile
           \/ NotifyEntry \/ SetFinished \/ LastRelease \/ UNCHANGED vars
           \/ \E w \in SymWorkers : ChooseUnit(w) \/ Loop(w) \/ Lock(w) \/ Wait(w)
  <2>1. /\ UNCHANGED <<build, written, image, handed>>
        /\ \/ UNCHANGED <<iQueueFiles, iMapFileInfoSet, pe>>
           \/ iQueueFiles' = <<>> /\ iMapFileInfoSet' = <<>> /\ pe' = [w \in SymWorkers |-> NoEntry]
    BY <1>1 DEF GetInstance, SkipGenerator, SetImageType, CloseSymbolFile, OpenSymbolFile,
                NotifyEntry, SetFinished, LastRelease, ChooseUnit, Loop, Lock, Wait, vars
  <2>2. \A n : HandedOver(n) => HandedOver(n)'
    BY <2>1 DEF HandedOver
  <2>3. QED
    BY <2>1, <2>2, SamePlaces
<1>2. CASE AddEntry
  BY <1>2, AddPlaces
<1>3. CASE KeepInstance \/ Release
  <2>1. /\ UNCHANGED <<build, written, iQueueFiles, iMapFileInfoSet, pe>>
        /\ \/ image' = image + 1
           \/ UNCHANGED <<image, handed>>
    BY <1>3 DEF KeepInstance, Release, NextImage
  <2>2. image \in Nat
    <3>1. image \in Images /\ Images = 1..Len(build.images) /\ Len(build.images) \in Nat
      BY BuildTypes DEF TypeStrong, TypeOK
    <3>2. QED
      BY <3>1
  <2>3. \A n : HandedOver(n) => HandedOver(n)'
    BY <2>1, <2>2 DEF HandedOver
  <2>4. QED
    BY <2>1, <2>3, SamePlaces
<1>4. ASSUME NEW w \in SymWorkers, Take(w) PROVE PlacesInv'
  <2>1. CASE iQueueFiles # <<>>
    BY <1>4, <2>1, TakePlaces
  <2>2. CASE iQueueFiles = <<>>
    <3>1. UNCHANGED <<build, written, image, handed, iQueueFiles, iMapFileInfoSet, pe>>
      BY <1>4, <2>2 DEF Take
    <3>2. \A n : HandedOver(n) => HandedOver(n)'
      BY <3>1 DEF HandedOver
    <3>3. QED
      BY <3>1, <3>2, SamePlaces
  <2>3. QED
    BY <2>1, <2>2
<1>5. ASSUME NEW w \in SymWorkers, ProcessEntry(w) PROVE PlacesInv'
  BY <1>5, ProcessPlaces
<1>6. CASE FlushSymbolFileContent
  BY <1>6, FlushPlaces
<1>7. QED
  BY <1>1, <1>2, <1>3, <1>4, <1>5, <1>6 DEF Next, MainThread, Work

\* An entry that was handed over is in the queue, with one worker, in the records kept
\* for the .bsym file or in a symbol file, and never in two of them: none is written
\* twice, whatever the images and however many workers there are.
THEOREM OnePlace == Spec => []EntriesInOnePlace
<1>1. PlacesInv => EntriesInOnePlace
  <2> SUFFICES ASSUME PlacesInv, NEW p \in Places, NEW q \in Places, At(p) = At(q) PROVE p = q
    BY DEF EntriesInOnePlace
  <2>1. NameAt[p] = NameAt[q]
    BY DEF NameAt
  <2>2. QED
    BY <2>1 DEF PlacesInv
<1>2. QED
  BY InitTypes, NextTypes, InitPlaces, NextPlaces, <1>1, PTL DEF Spec

-----------------------------------------------------------------------------
(* The symbol files are complete *)

\* No generator takes the entries of a second image once it has been told that it has
\* finished: rofsbuild goes on to another image only when Create was ok or failed before it
\* placed anything, and rombuild's extensions fail before that.
OneImageEach ==
  \A i \in Images :
     IF build.tool = "rofsbuild"
     THEN i < Len(build.images) =>
             build.images[i].create = "ok" \/ (i = 1 /\ build.images[i].create = "fails before placing")
     ELSE i > 1 => build.images[i].create = "fails before placing"

NamesOf(s) == {Name(s[i]) : i \in DOMAIN s}
HeldNames == {Name(pe[w]) : w \in {v \in SymWorkers : pe[v] # NoEntry}}

\* The names of the entries that are not in a symbol file yet, and of those in each.
Loose == NamesOf(iQueueFiles) \cup HeldNames \cup NamesOf(iMapFileInfoSet)
FiledIn == [i \in Images |-> NamesOf(written[i])]
OwnNames == [i \in Images |-> {<<i, f>> : f \in DOMAIN build.images[i].files}]

\* Every name is of the image whose symbol file it is in or will come to.
NamesRight ==
  /\ \A i \in Images : FiledIn[i] \subseteq OwnNames[i]
  /\ Loose # {} => iSymFile \in Images /\ Loose \subseteq OwnNames[iSymFile]
  /\ Loose # {} /\ build.tool = "rofsbuild" => iSymFile = image

\* What was handed over is in its image's file or on its way.
WasHanded ==
  [i \in Images |->
     IF i < image /\ build.images[i].create = "ok" THEN OwnNames[i]
     ELSE IF i = image THEN {<<i, f>> : f \in handed} ELSE {}]
NothingLost == \A i \in Images : WasHanded[i] \subseteq Loose \cup FiledIn[i]

\* The main thread is before an image's first AddEntry and uses or will use a generator.
Early ==
  \/ main \in {"type", "close", "open"}
  \/ main = "get" /\ ~SkipsGenerator
  \/ main = "next" /\ Create = "fails before placing"
MainPhase ==
  /\ Early \/ main = "add" => main = "get" \/ iInst
  /\ Early => Loose = {}
  /\ main \in {"close", "open", "add"} => Create # "fails before placing"
  /\ main = "add" => iSymFile = image
  /\ main \in {"next", "exit"} /\ Create = "ok" => handed = DOMAIN Files
  /\ main = "last release" => SkipsGenerator
  /\ main = "exit" /\ (Create = "ok" \/ build.tool = "rombuild") => gen = "ended"
  /\ main = "exit" /\ build.tool = "rofsbuild" => LastImage
\* The generator ends with nothing left to write, and only when it was told to.
GenPhase ==
  /\ ~iInst \/ (image = 1 /\ main = "get") => gen = "ended" /\ ~iInst
  /\ (Early \/ main = "add") /\ iInst => gen = "workers" /\ ~iFinished
  /\ gen = "ended" => Loose = {}
  /\ ~build.bsym => iMapFileInfoSet = <<>>
WorkerPhase ==
  \A w \in SymWorkers :
     /\ pe[w] # NoEntry => pc[w] = "process"
     /\ pc[w] = "exit" /\ gen = "workers" => iFinished /\ iQueueFiles = <<>>

LossInv == NamesRight /\ NothingLost /\ MainPhase /\ GenPhase /\ WorkerPhase

\* What Append, Tail and concatenation do to the names in a sequence.
LEMMA AppendNames ==
  ASSUME NEW S, NEW s \in Seq(S), NEW x \in S
  PROVE  NamesOf(Append(s, x)) = NamesOf(s) \cup {Name(x)}
<1>1. /\ DOMAIN s = 1..Len(s) /\ Len(s) \in Nat
      /\ DOMAIN Append(s, x) = 1..(Len(s) + 1)
      /\ Append(s, x)[Len(s) + 1] = x
      /\ \A i \in DOMAIN s : Append(s, x)[i] = s[i]
  OBVIOUS
<1>2. DOMAIN Append(s, x) = DOMAIN s \cup {Len(s) + 1}
  BY <1>1
<1>3. QED
  BY <1>1, <1>2, Zenon DEF NamesOf

LEMMA HeadNames ==
  ASSUME NEW S, NEW s \in Seq(S), s # <<>>
  PROVE  NamesOf(s) = {Name(Head(s))} \cup NamesOf(Tail(s))
<1>1. /\ DOMAIN s = 1..Len(s) /\ Len(s) \in Nat \ {0} /\ Head(s) = s[1]
      /\ DOMAIN Tail(s) = 1..(Len(s) - 1)
      /\ \A i \in 1..(Len(s) - 1) : Tail(s)[i] = s[i + 1]
  <2>1. Tail(s) \in Seq(S) /\ Len(Tail(s)) = Len(s) - 1
        /\ \A i \in 1..Len(Tail(s)) : Tail(s)[i] = s[i + 1]
    BY HeadTailProperties
  <2>2. Len(s) \in Nat \ {0} /\ Head(s) = s[1]
    BY EmptySeq
  <2>3. QED
    BY <2>1, <2>2
<1>2. ASSUME NEW i \in DOMAIN s PROVE Name(s[i]) \in {Name(Head(s))} \cup NamesOf(Tail(s))
  <2>1. CASE i = 1
    BY <1>1, <2>1
  <2>2. CASE i # 1
    <3>1. i - 1 \in DOMAIN Tail(s) /\ Tail(s)[i - 1] = s[i]
      BY <1>1, <2>2
    <3>2. QED
      BY <3>1 DEF NamesOf
  <2>3. QED
    BY <2>1, <2>2
<1>3. ASSUME NEW i \in DOMAIN Tail(s) PROVE Name(Tail(s)[i]) \in NamesOf(s)
  <2>1. i + 1 \in DOMAIN s /\ Tail(s)[i] = s[i + 1]
    BY <1>1
  <2>2. QED
    BY <2>1 DEF NamesOf
<1>4. Name(Head(s)) \in NamesOf(s)
  BY <1>1 DEF NamesOf
<1>5. QED
  BY <1>2, <1>3, <1>4 DEF NamesOf

LEMMA ConcatNames ==
  ASSUME NEW S, NEW s \in Seq(S), NEW t \in Seq(S)
  PROVE  NamesOf(s \o t) = NamesOf(s) \cup NamesOf(t)
<1>1. /\ DOMAIN s = 1..Len(s) /\ Len(s) \in Nat /\ DOMAIN t = 1..Len(t) /\ Len(t) \in Nat
      /\ DOMAIN (s \o t) = 1..(Len(s) + Len(t))
      /\ \A i \in 1..(Len(s) + Len(t)) : (s \o t)[i] = IF i <= Len(s) THEN s[i] ELSE t[i - Len(s)]
  BY ConcatProperties
<1>2. ASSUME NEW i \in DOMAIN (s \o t) PROVE Name((s \o t)[i]) \in NamesOf(s) \cup NamesOf(t)
  <2>1. CASE i <= Len(s)
    <3>1. i \in DOMAIN s /\ (s \o t)[i] = s[i]
      BY <1>1, <2>1
    <3>2. QED
      BY <3>1 DEF NamesOf
  <2>2. CASE ~(i <= Len(s))
    <3>1. i - Len(s) \in DOMAIN t /\ (s \o t)[i] = t[i - Len(s)]
      BY <1>1, <2>2
    <3>2. QED
      BY <3>1 DEF NamesOf
  <2>3. QED
    BY <2>1, <2>2
<1>3. ASSUME NEW i \in DOMAIN s PROVE Name(s[i]) \in NamesOf(s \o t)
  <2>1. i \in DOMAIN (s \o t) /\ (s \o t)[i] = s[i]
    BY <1>1
  <2>2. QED
    BY <2>1 DEF NamesOf
<1>4. ASSUME NEW i \in DOMAIN t PROVE Name(t[i]) \in NamesOf(s \o t)
  <2>1. i + Len(s) \in DOMAIN (s \o t) /\ (s \o t)[i + Len(s)] = t[i]
    BY <1>1
  <2>2. QED
    BY <2>1 DEF NamesOf
<1>5. QED
  BY <1>2, <1>3, <1>4 DEF NamesOf

LEMMA EmptyNames == NamesOf(<<>>) = {}
<1>1. <<>> \in Seq(Nat) /\ Len(<<>>) = 0
  BY EmptySeq
<1>2. DOMAIN <<>> = {}
  <2>1. DOMAIN <<>> = 1..0
    BY <1>1
  <2>2. QED
    BY <2>1
<1>3. QED
  BY <1>2 DEF NamesOf

\* Steps that move no entry.
LEMMA StayNames ==
  ASSUME NamesRight, NothingLost, UNCHANGED <<build, image, handed>>,
         Loose' = Loose, FiledIn' = FiledIn, iSymFile' = iSymFile \/ Loose = {}
  PROVE  NamesRight' /\ NothingLost'
<1>1. Images' = Images /\ OwnNames' = OwnNames
  BY DEF Images, OwnNames
<1>2. WasHanded' = WasHanded
  BY <1>1 DEF WasHanded
<1>3. QED
  BY <1>1, <1>2 DEF NamesRight, NothingLost

\* What leaves the variables of the entries alone leaves the names alone.
LEMMA SameNames ==
  ASSUME UNCHANGED <<build, iQueueFiles, iMapFileInfoSet, pe, written>>
  PROVE  Loose' = Loose /\ FiledIn' = FiledIn
<1>1. Images' = Images
  BY DEF Images
<1>2. Loose' = Loose
  BY DEF Loose, HeldNames
<1>3. FiledIn' = FiledIn
  BY <1>1 DEF FiledIn
<1>4. QED
  BY <1>2, <1>3

\* At first nothing was handed over.
LEMMA InitLoss == Init => LossInv
<1> SUFFICES ASSUME Init PROVE LossInv
  OBVIOUS
<1>1. /\ iQueueFiles = <<>> /\ iMapFileInfoSet = <<>> /\ pe = [w \in SymWorkers |-> NoEntry]
      /\ written = [i \in Images |-> <<>>] /\ main = "get" /\ image = 1 /\ handed = {}
      /\ iInst = FALSE /\ gen = "ended" /\ build \in Builds
  BY DEF Init
<1>2. Loose = {}
  <2>1. HeldNames = {}
    BY <1>1 DEF HeldNames
  <2>2. QED
    BY <1>1, <2>1, EmptyNames DEF Loose
<1>3. \A i \in Images : FiledIn[i] = {}
  BY <1>1, EmptyNames DEF FiledIn
<1>4. \A i \in Images : WasHanded[i] = {}
  <2>1. Images = 1..Len(build.images) /\ Len(build.images) \in Nat
    BY <1>1, BuildTypes
  <2>2. \A i \in Images : ~(i < 1)
    BY <2>1
  <2>3. QED
    BY <1>1, <2>2 DEF WasHanded
<1>5. NamesRight /\ NothingLost
  BY <1>2, <1>3, <1>4 DEF NamesRight, NothingLost
<1>6. MainPhase /\ GenPhase /\ WorkerPhase
  BY <1>1, <1>2 DEF MainPhase, GenPhase, WorkerPhase, Early
<1>7. QED
  BY <1>5, <1>6 DEF LossInv

\* Of each image the names that were handed over are its own.
LEMMA HandedNames == \A i \in Images : \A n \in WasHanded[i] : n[1] = i
BY DEF WasHanded, OwnNames

\* A new entry's name joins those that are on their way.
LEMMA AddLoss ==
  ASSUME TypeStrong, LossInv, AddEntry
  PROVE  LossInv'
<1>1. PICK f \in NextFiles : \E y \in Executables(Files[f]) :
         /\ handed' = handed \cup {f}
         /\ iQueueFiles' = Append(iQueueFiles, [image |-> image, file |-> f, executable |-> y])
  BY DEF AddEntry
<1>2. PICK x \in Executables(Files[f]) :
         /\ handed' = handed \cup {f}
         /\ iQueueFiles' = Append(iQueueFiles, [image |-> image, file |-> f, executable |-> x])
  BY <1>1
<1>3. f \in DOMAIN Files
  BY DEF NextFiles, Left
<1>4. /\ UNCHANGED <<build, main, image, iMapFileInfoSet, written, pe, pc, iInst, iFinished, iSymFile, gen>>
      /\ main = "add"
  BY DEF AddEntry, outVars, workerVars
<1>5. Images' = Images /\ OwnNames' = OwnNames /\ image \in Images
  BY <1>4 DEF Images, OwnNames, TypeStrong, TypeOK
<1>6. Loose' = Loose \cup {<<image, f>>} /\ FiledIn' = FiledIn
  <2>1. iQueueFiles \in Seq(Entries) /\ [image |-> image, file |-> f, executable |-> x] \in Entries
    <3>1. f \in Nat /\ image \in Nat /\ x \in BOOLEAN
      <4>1. Files \in Seq({"exe", "data"}) /\ Images = 1..Len(build.images) /\ Len(build.images) \in Nat
        BY <1>5, BuildTypes DEF TypeStrong, TypeOK, Files
      <4>2. f \in Nat /\ image \in Nat
        BY <1>3, <1>5, <4>1
      <4>3. QED
        BY <1>2, <4>2 DEF Executables
    <3>2. QED
      BY <3>1 DEF TypeStrong, TypeOK, Entries
  <2>2. NamesOf(iQueueFiles') = NamesOf(iQueueFiles) \cup {<<image, f>>}
    <3>1. NamesOf(iQueueFiles') = NamesOf(iQueueFiles) \cup {Name([image |-> image, file |-> f, executable |-> x])}
      BY <1>2, <2>1, AppendNames
    <3>2. QED
      BY <3>1 DEF Name
  <2>3. HeldNames' = HeldNames /\ FiledIn' = FiledIn
    BY <1>4, <1>5 DEF HeldNames, FiledIn
  <2>4. QED
    BY <1>4, <2>2, <2>3 DEF Loose
<1>7. iInst /\ iSymFile = image /\ gen = "workers" /\ ~iFinished /\ <<image, f>> \in OwnNames[image]
  BY <1>3, <1>4, <1>5 DEF LossInv, MainPhase, GenPhase, OwnNames, Files
<1>8. NamesRight'
  BY <1>4, <1>5, <1>6, <1>7 DEF LossInv, NamesRight
<1>9. NothingLost'
  <2>1. ASSUME NEW i \in Images PROVE WasHanded'[i] \subseteq WasHanded[i] \cup {<<image, f>>}
    BY <1>2, <1>4, <1>5 DEF WasHanded
  <2>2. QED
    BY <1>5, <1>6, <2>1 DEF LossInv, NothingLost
<1>10. MainPhase' /\ GenPhase'
  BY <1>4, <1>7 DEF LossInv, MainPhase, GenPhase, Early, Create, Files, LastImage, SkipsGenerator
<1>11. WorkerPhase'
  BY <1>4, <1>7 DEF LossInv, WorkerPhase
<1>12. QED
  BY <1>8, <1>9, <1>10, <1>11 DEF LossInv

\* A worker takes an entry: the names on their way are the same.
LEMMA TakeLoss ==
  ASSUME TypeStrong, LossInv, NEW w \in SymWorkers, Take(w), iQueueFiles # <<>>
  PROVE  LossInv'
<1>1. /\ pe' = [pe EXCEPT ![w] = Head(iQueueFiles)] /\ iQueueFiles' = Tail(iQueueFiles)
      /\ pc[w] = "test" /\ pc' = [pc EXCEPT ![w] = "process"]
      /\ UNCHANGED <<build, main, image, handed, iInst, iFinished, iMapFileInfoSet, written, iSymFile, gen>>
  BY DEF Take, outVars, mainVars, Goto
<1>2. /\ iQueueFiles \in Seq(Entries) /\ pe \in [SymWorkers -> Entries \cup {NoEntry}]
      /\ pc \in [SymWorkers -> Labels]
  BY DEF TypeStrong, TypeOK
<1>3. pe[w] = NoEntry /\ Head(iQueueFiles) # NoEntry
  <2>1. Head(iQueueFiles) \in Entries
    BY <1>2, TailType
  <2>2. QED
    BY <1>1, <2>1, EntryOrNone DEF LossInv, WorkerPhase
<1>4. HeldNames' = HeldNames \cup {Name(Head(iQueueFiles))}
  <2>1. pe'[w] = Head(iQueueFiles) /\ \A v \in SymWorkers : v # w => pe'[v] = pe[v]
    BY <1>1, <1>2
  <2>2. \A n : n \in HeldNames' <=> \E v \in SymWorkers : pe'[v] # NoEntry /\ n = Name(pe'[v])
    BY DEF HeldNames
  <2>3. \A n : n \in HeldNames <=> \E v \in SymWorkers : pe[v] # NoEntry /\ n = Name(pe[v])
    BY DEF HeldNames
  <2>4. \A n : n \in HeldNames' <=> n \in HeldNames \/ n = Name(Head(iQueueFiles))
    BY <1>3, <2>1, <2>2, <2>3
  <2>5. QED
    BY <2>4
<1>5. Loose' = Loose /\ FiledIn' = FiledIn
  <2>1. NamesOf(iQueueFiles) = {Name(Head(iQueueFiles))} \cup NamesOf(iQueueFiles')
    BY <1>1, <1>2, HeadNames
  <2>2. FiledIn' = FiledIn
    BY <1>1 DEF FiledIn, Images
  <2>3. QED
    BY <1>1, <1>4, <2>1, <2>2 DEF Loose
<1>6. NamesRight' /\ NothingLost'
  BY <1>1, <1>5, StayNames DEF LossInv
<1>7. MainPhase' /\ GenPhase'
  BY <1>1, <1>5 DEF LossInv, MainPhase, GenPhase, Early, Create, Files, LastImage, SkipsGenerator
<1>8. WorkerPhase'
  <2>1. ASSUME NEW v \in SymWorkers PROVE pe'[v] # NoEntry => pc'[v] = "process"
    BY <1>1, <1>2 DEF LossInv, WorkerPhase
  <2>2. ASSUME NEW v \in SymWorkers, pc'[v] = "exit", gen' = "workers" PROVE iFinished' /\ iQueueFiles' = <<>>
    <3>1. pc[v] = "exit" /\ gen = "workers"
      BY <1>1, <1>2, <2>2
    <3>2. QED
      BY <1>1, <3>1 DEF LossInv, WorkerPhase
  <2>3. QED
    BY <2>1, <2>2 DEF WorkerPhase
<1>9. QED
  BY <1>6, <1>7, <1>8 DEF LossInv

\* What a worker held is kept, or comes to the symbol file that is open.
LEMMA ProcessLoss ==
  ASSUME TypeStrong, LossInv, NEW w \in SymWorkers, ProcessEntry(w)
  PROVE  LossInv'
<1>1. /\ pc[w] = "process" /\ pe' = [pe EXCEPT ![w] = NoEntry] /\ pc' = [pc EXCEPT ![w] = "loop"]
      /\ UNCHANGED <<build, main, image, handed, iInst, iQueueFiles, iFinished, iSymFile, gen>>
  BY DEF ProcessEntry, mainVars, queueVars, Goto
<1>2. /\ pe \in [SymWorkers -> Entries \cup {NoEntry}] /\ pe[w] \in Entries
      /\ iMapFileInfoSet \in Seq(Records) /\ written \in [Images -> Seq(Records)]
      /\ pc \in [SymWorkers -> Labels] /\ Images = 1..Len(build.images) /\ Len(build.images) \in Nat
      /\ unit[w] \in Units
  BY <1>1, BuildTypes DEF TypeStrong, TypeOK, HoldsEntry
<1>3. Record(w) \in Records /\ Name(Record(w)) = Name(pe[w])
  BY <1>2 DEF Record, Records, Entries, Name
<1>4. HeldNames = HeldNames' \cup {Name(pe[w])}
  <2>1. pe[w] # NoEntry /\ pe'[w] = NoEntry /\ \A v \in SymWorkers : v # w => pe'[v] = pe[v]
    BY <1>1, <1>2, EntryOrNone
  <2>2. \A n : n \in HeldNames' <=> \E v \in SymWorkers : pe'[v] # NoEntry /\ n = Name(pe'[v])
    BY DEF HeldNames
  <2>3. \A n : n \in HeldNames <=> \E v \in SymWorkers : pe[v] # NoEntry /\ n = Name(pe[v])
    BY DEF HeldNames
  <2>4. \A n : n \in HeldNames <=> n \in HeldNames' \/ n = Name(pe[w])
    BY <2>1, <2>2, <2>3
  <2>5. QED
    BY <2>4
<1>5. Name(pe[w]) \in Loose
  BY <1>4 DEF Loose
<1>6. /\ iSymFile \in Images /\ iSymFile # NoFile /\ Loose \subseteq OwnNames[iSymFile]
      /\ Name(pe[w]) \in OwnNames[iSymFile] /\ gen # "ended"
  <2>1. iSymFile \in Images /\ Loose \subseteq OwnNames[iSymFile] /\ gen # "ended"
    BY <1>5 DEF LossInv, NamesRight, GenPhase
  <2>2. iSymFile # NoFile
    BY <1>2, <2>1 DEF NoFile
  <2>3. QED
    BY <1>5, <2>1, <2>2
<1>7. Images' = Images /\ OwnNames' = OwnNames /\ WasHanded' = WasHanded
  BY <1>1 DEF Images, OwnNames, WasHanded
<1>8. /\ Loose' \subseteq Loose
      /\ \A i \in Images : i # iSymFile => FiledIn'[i] = FiledIn[i]
      /\ FiledIn[iSymFile] \subseteq FiledIn'[iSymFile] /\ FiledIn'[iSymFile] \subseteq FiledIn[iSymFile] \cup Loose
      /\ Loose \subseteq Loose' \cup FiledIn'[iSymFile]
  <2>1. CASE /\ build.bsym
             /\ iMapFileInfoSet' = Append(iMapFileInfoSet, Record(w))
             /\ UNCHANGED written
    <3>1. NamesOf(iMapFileInfoSet') = NamesOf(iMapFileInfoSet) \cup {Name(pe[w])}
      BY <1>2, <1>3, <2>1, AppendNames
    <3>2. FiledIn' = FiledIn
      BY <1>7, <2>1 DEF FiledIn
    <3>3. Loose' = Loose
      BY <1>1, <1>4, <3>1 DEF Loose
    <3>4. QED
      BY <3>2, <3>3
  <2>2. CASE /\ ~build.bsym /\ iSymFile # NoFile
             /\ written' = [written EXCEPT ![iSymFile] = Append(@, Record(w))]
             /\ UNCHANGED iMapFileInfoSet
    <3>1. written[iSymFile] \in Seq(Records) /\ written'[iSymFile] = Append(written[iSymFile], Record(w))
          /\ \A i \in Images : i # iSymFile => written'[i] = written[i]
      BY <1>2, <1>6, <2>2
    <3>2. NamesOf(written'[iSymFile]) = NamesOf(written[iSymFile]) \cup {Name(pe[w])}
      BY <1>3, <3>1, AppendNames
    <3>3. FiledIn'[iSymFile] = FiledIn[iSymFile] \cup {Name(pe[w])}
      BY <1>6, <1>7, <3>2 DEF FiledIn
    <3>4. \A i \in Images : i # iSymFile => FiledIn'[i] = FiledIn[i]
      BY <1>7, <3>1 DEF FiledIn
    <3>5. Loose = Loose' \cup {Name(pe[w])}
      BY <1>1, <1>4, <2>2 DEF Loose
    <3>6. QED
      BY <3>3, <3>4, <3>5
  <2>3. QED
    BY <1>6, <2>1, <2>2 DEF ProcessEntry
<1>9. NamesRight'
  BY <1>1, <1>6, <1>7, <1>8 DEF LossInv, NamesRight
<1>10. NothingLost'
  <2>1. ASSUME NEW i \in Images, NEW n \in WasHanded[i] PROVE n \in Loose' \cup FiledIn'[i]
    <3>1. n \in Loose \cup FiledIn[i]
      BY <2>1 DEF LossInv, NothingLost
    <3>2. CASE i = iSymFile
      BY <1>8, <3>1, <3>2
    <3>3. CASE i # iSymFile
      <4>1. n \notin OwnNames[iSymFile]
        <5>1. n[1] = i
          BY <2>1, HandedNames
        <5>2. \A m \in OwnNames[iSymFile] : m[1] = iSymFile
          BY <1>6 DEF OwnNames
        <5>3. QED
          BY <3>3, <5>1, <5>2
      <4>2. n \in FiledIn[i]
        BY <1>6, <3>1, <4>1
      <4>3. QED
        BY <1>8, <3>3, <4>2
    <3>4. QED
      BY <3>2, <3>3
  <2>2. QED
    BY <1>7, <2>1 DEF NothingLost
<1>11. MainPhase'
  BY <1>1, <1>5 DEF LossInv, MainPhase, Early, Create, Files, LastImage, SkipsGenerator
<1>12. GenPhase'
  <2>1. ~build'.bsym => iMapFileInfoSet' = <<>>
    BY <1>1, <1>6 DEF LossInv, GenPhase, ProcessEntry
  <2>2. QED
    BY <1>1, <1>6, <2>1 DEF LossInv, GenPhase, Early, Create, SkipsGenerator
<1>13. WorkerPhase'
  BY <1>1, <1>2 DEF LossInv, WorkerPhase
<1>14. QED
  BY <1>9, <1>10, <1>11, <1>12, <1>13 DEF LossInv

\* The workers have left: what was kept comes to the symbol file.
LEMMA FlushLoss ==
  ASSUME TypeStrong, LossInv, FlushSymbolFileContent
  PROVE  LossInv'
<1>1. /\ gen = "workers" /\ gen' = "ended" /\ \A w \in SymWorkers : pc[w] = "exit"
      /\ UNCHANGED <<build, main, image, handed, iInst, iQueueFiles, iFinished, iSymFile, pc, pe>>
  BY DEF FlushSymbolFileContent, mainVars, queueVars, workerVars
<1>2. /\ iMapFileInfoSet \in Seq(Records) /\ written \in [Images -> Seq(Records)]
      /\ Images = 1..Len(build.images) /\ Len(build.images) \in Nat
  BY BuildTypes DEF TypeStrong, TypeOK
<1>3. iFinished /\ iQueueFiles = <<>> /\ iInst /\ HeldNames = {}
  <2>1. PICK w : w \in SymWorkers
    BY SymWorkersAssumption
  <2>2. iFinished /\ iQueueFiles = <<>>
    BY <1>1, <2>1 DEF LossInv, WorkerPhase
  <2>3. \A v \in SymWorkers : pe[v] = NoEntry
    BY <1>1 DEF LossInv, WorkerPhase
  <2>4. QED
    BY <1>1, <2>2, <2>3 DEF LossInv, GenPhase, HeldNames
<1>4. ~Early /\ main # "add"
  BY <1>3 DEF LossInv, GenPhase
<1>5. Loose = NamesOf(iMapFileInfoSet) /\ HeldNames' = {}
  BY <1>1, <1>3, EmptyNames DEF Loose, HeldNames
<1>6. Loose' = NamesOf(iMapFileInfoSet')
  BY <1>1, <1>3, <1>5, EmptyNames DEF Loose
<1>7. Images' = Images /\ OwnNames' = OwnNames /\ WasHanded' = WasHanded
  BY <1>1 DEF Images, OwnNames, WasHanded
<1>8. /\ Loose' = {} /\ (~build.bsym => iMapFileInfoSet' = <<>>)
      /\ \A i \in Images : FiledIn'[i] = FiledIn[i] \cup (IF i = iSymFile THEN Loose ELSE {})
  <2>1. CASE /\ build.bsym /\ iSymFile # NoFile
             /\ written' = [written EXCEPT ![iSymFile] = @ \o iMapFileInfoSet]
             /\ iMapFileInfoSet' = <<>>
    <3>1. ASSUME NEW i \in Images PROVE FiledIn'[i] = FiledIn[i] \cup (IF i = iSymFile THEN Loose ELSE {})
      <4>1. CASE i = iSymFile
        <5>1. written[i] \in Seq(Records) /\ written'[i] = written[i] \o iMapFileInfoSet
          BY <1>2, <2>1, <4>1
        <5>2. NamesOf(written'[i]) = NamesOf(written[i]) \cup NamesOf(iMapFileInfoSet)
          BY <1>2, <5>1, ConcatNames
        <5>3. QED
          BY <1>5, <1>7, <4>1, <5>2 DEF FiledIn
      <4>2. CASE i # iSymFile
        <5>1. written'[i] = written[i]
          BY <1>2, <2>1, <4>2
        <5>2. QED
          BY <1>7, <4>2, <5>1 DEF FiledIn
      <4>3. QED
        BY <4>1, <4>2
    <3>2. QED
      BY <1>6, <2>1, <3>1, EmptyNames
  <2>2. CASE /\ UNCHANGED written
             /\ \/ (build.bsym /\ iSymFile = NoFile /\ iMapFileInfoSet' = <<>>)
                \/ (~build.bsym /\ UNCHANGED iMapFileInfoSet)
    <3>1. Loose = {}
      <4>1. CASE build.bsym /\ iSymFile = NoFile
        <5>1. iSymFile \notin Images
          BY <1>2, <4>1 DEF NoFile
        <5>2. QED
          BY <5>1 DEF LossInv, NamesRight
      <4>2. CASE ~build.bsym
        BY <1>5, <4>2, EmptyNames DEF LossInv, GenPhase
      <4>3. QED
        BY <2>2, <4>1, <4>2
    <3>2. iMapFileInfoSet' = <<>> \/ UNCHANGED iMapFileInfoSet
      BY <2>2
    <3>3. Loose' = {}
      BY <1>5, <1>6, <3>1, <3>2, EmptyNames
    <3>4. FiledIn' = FiledIn
      BY <1>7, <2>2 DEF FiledIn
    <3>5. ~build.bsym => iMapFileInfoSet' = <<>>
      BY <2>2 DEF LossInv, GenPhase
    <3>6. QED
      BY <3>1, <3>3, <3>4, <3>5
  <2>3. QED
    BY <2>1, <2>2 DEF FlushSymbolFileContent, outVars
<1>9. NamesRight'
  BY <1>1, <1>7, <1>8 DEF LossInv, NamesRight
<1>10. NothingLost'
  <2>1. ASSUME NEW i \in Images, NEW n \in WasHanded[i] PROVE n \in FiledIn'[i]
    <3>1. n \in Loose \cup FiledIn[i] /\ n[1] = i
      BY <2>1, HandedNames DEF LossInv, NothingLost
    <3>2. CASE n \in Loose
      <4>1. iSymFile \in Images /\ n \in OwnNames[iSymFile]
        BY <3>2 DEF LossInv, NamesRight
      <4>2. n[1] = iSymFile
        BY <4>1 DEF OwnNames
      <4>3. QED
        BY <1>8, <3>1, <3>2, <4>2
    <3>3. QED
      BY <1>8, <3>1, <3>2
  <2>2. QED
    BY <1>7, <2>1 DEF NothingLost
<1>11. MainPhase' /\ GenPhase' /\ WorkerPhase'
  BY <1>1, <1>3, <1>4, <1>8 DEF LossInv, MainPhase, GenPhase, WorkerPhase, Early, Create, Files, LastImage, SkipsGenerator
<1>12. QED
  BY <1>9, <1>10, <1>11 DEF LossInv

\* The next image, and the end.
LEMMA ImageLoss ==
  ASSUME TypeStrong, OneImageEach, LossInv, KeepInstance \/ Release
  PROVE  LossInv'
<1>1. /\ main = "next"
      /\ UNCHANGED <<build, iQueueFiles, iMapFileInfoSet, pe, written, pc, gen, iFinished>>
      /\ \/ KeepInstance /\ ~Releases /\ UNCHANGED <<iInst, iSymFile>>
         \/ Release /\ Releases /\ Joined /\ iInst' = FALSE /\ iSymFile' = NoFile
      /\ \/ GoesOn /\ image' = image + 1 /\ handed' = {} /\ main' = "get"
         \/ ~GoesOn /\ main' = "exit" /\ UNCHANGED <<image, handed>>
  BY DEF KeepInstance, Release, NextImage, queueVars, outVars, workerVars
<1>2. /\ Images = 1..Len(build.images) /\ Len(build.images) \in Nat /\ image \in Images
      /\ image \in Nat /\ image >= 1 /\ image <= Len(build.images)
  <2>1. Images = 1..Len(build.images) /\ Len(build.images) \in Nat /\ image \in Images
    BY BuildTypes DEF TypeStrong, TypeOK
  <2>2. QED
    BY <2>1
<1>b. build.tool = "rofsbuild" \/ build.tool = "rombuild"
  BY BuildsAssumption DEF TypeStrong, TypeOK, IsBuild
<1>3. Loose' = Loose /\ FiledIn' = FiledIn /\ Images' = Images /\ OwnNames' = OwnNames
  BY <1>1, SameNames DEF Images, OwnNames
<1>4. Release => Loose = {} /\ gen = "ended"
  <2>1. ASSUME Release PROVE Loose = {} /\ gen = "ended"
    <3>1. Joined
      BY <2>1 DEF Release
    <3>2. gen = "ended"
      BY <3>1 DEF Joined, LossInv, GenPhase
    <3>3. QED
      BY <3>2 DEF LossInv, GenPhase
  <2>2. QED
    BY <2>1
<1>5. ASSUME build.tool = "rofsbuild", KeepInstance, ~Releases, GoesOn
      PROVE  Create = "fails before placing" /\ Early /\ Loose = {} /\ iInst /\ gen = "workers" /\ ~iFinished
  <2>1. Create = "fails before placing"
    <3>1. Create # "ok" /\ image # Len(build.images)
      BY <1>5 DEF Releases, GoesOn, LastImage
    <3>2. image < Len(build.images)
      BY <1>2, <3>1
    <3>3. Create = "ok" \/ Create = "fails before placing"
      BY <1>2, <1>5, <3>2 DEF OneImageEach, Create
    <3>4. QED
      BY <3>1, <3>3
  <2>2. Early
    BY <1>1, <2>1 DEF Early
  <2>3. QED
    BY <1>1, <2>1, <2>2 DEF LossInv, MainPhase, GenPhase
<1>6. Create = "ok" => WasHanded[image] = OwnNames[image]
  BY <1>1, <1>2 DEF LossInv, MainPhase, WasHanded, OwnNames, Files
<1>7. NothingLost'
  <2>1. ASSUME NEW i \in Images PROVE WasHanded'[i] \subseteq WasHanded[i]
    <3>1. CASE UNCHANGED <<image, handed>>
      BY <1>1, <1>3, <3>1 DEF WasHanded
    <3>2. CASE image' = image + 1 /\ handed' = {}
      <4>1. i \in Nat
        BY <1>2
      <4>2. CASE i < image
        <5>1. i < image + 1
          BY <1>2, <4>1, <4>2
        <5>2. QED
          BY <1>1, <1>3, <3>2, <4>2, <5>1 DEF WasHanded
      <4>3. CASE i = image
        <5>1. WasHanded'[i] = IF Create = "ok" THEN OwnNames[i] ELSE {}
          <6>1. i < image + 1 /\ i # image + 1
            BY <1>2, <4>3
          <6>2. QED
            BY <1>1, <1>3, <3>2, <4>3, <6>1 DEF WasHanded, Create
        <5>2. QED
          BY <1>6, <4>3, <5>1
      <4>4. CASE i > image
        <5>1. ~(i < image + 1)
          BY <1>2, <4>1, <4>4
        <5>2. WasHanded'[i] = {}
          BY <1>1, <1>3, <3>2, <5>1 DEF WasHanded
        <5>3. QED
          BY <5>2
      <4>5. QED
        BY <1>2, <4>1, <4>2, <4>3, <4>4
    <3>3. QED
      BY <1>1, <3>1, <3>2
  <2>2. QED
    BY <1>3, <2>1 DEF LossInv, NothingLost
<1>8. NamesRight'
  <2>1. CASE Loose = {}
    BY <1>3, <2>1 DEF LossInv, NamesRight
  <2>2. CASE Loose # {}
    <3>1. KeepInstance /\ ~Releases /\ UNCHANGED <<iInst, iSymFile>>
      BY <1>1, <1>4, <2>2
    <3>2. build.tool = "rofsbuild" => image' = image
      BY <1>1, <1>5, <2>2, <3>1
    <3>3. QED
      BY <1>1, <1>3, <2>2, <3>1, <3>2 DEF LossInv, NamesRight
  <2>3. QED
    BY <2>1, <2>2
<1>9. CASE GoesOn /\ image' = image + 1 /\ handed' = {} /\ main' = "get"
  <2>1. image' # 1 /\ image' \in Images /\ image' > 1
    BY <1>2, <1>9 DEF GoesOn, LastImage
  <2>2. build.tool = "rombuild" => SkipsGenerator'
    <3>1. build.tool = "rombuild" => build.images[image'].create = "fails before placing"
      BY <2>1 DEF OneImageEach
    <3>2. QED
      BY <1>1, <3>1 DEF SkipsGenerator, Create
  <2>3. Early' => Loose = {} /\ (iInst' => gen = "workers" /\ ~iFinished)
    <3>1. CASE build.tool = "rombuild"
      BY <1>9, <2>2, <3>1 DEF Early
    <3>2. CASE build.tool = "rofsbuild"
      BY <1>1, <1>4, <1>5, <1>9, <3>2
    <3>3. QED
      BY <1>b, <3>1, <3>2
  <2>4. MainPhase'
    BY <1>3, <1>9, <2>3 DEF MainPhase
  <2>5. GenPhase'
    <3>1. ~iInst' => gen' = "ended"
      BY <1>1, <1>4 DEF LossInv, GenPhase
    <3>2. QED
      BY <1>1, <1>3, <1>9, <2>1, <2>3, <3>1 DEF LossInv, GenPhase
  <2>6. QED
    <3>1. WorkerPhase'
      BY <1>1 DEF LossInv, WorkerPhase
    <3>2. QED
      BY <1>7, <1>8, <2>4, <2>5, <3>1 DEF LossInv
<1>10. CASE ~GoesOn /\ main' = "exit" /\ UNCHANGED <<image, handed>>
  <2>1. ~Early'
    BY <1>10 DEF Early
  <2>2. Create' = Create /\ Files' = Files /\ LastImage' = LastImage
    BY <1>1, <1>10 DEF Create, Files, LastImage
  <2>3. Create = "ok" \/ build.tool = "rombuild" => gen = "ended"
    <3>1. CASE Release
      BY <1>4, <3>1
    <3>2. CASE KeepInstance /\ ~Releases
      BY <1>10, <3>2 DEF Releases, GoesOn
    <3>3. QED
      BY <1>1, <3>1, <3>2
  <2>4. build.tool = "rofsbuild" => LastImage
    <3>1. ASSUME build.tool = "rofsbuild", ~LastImage PROVE FALSE
      <4>1. image < Len(build.images)
        BY <1>2, <3>1 DEF LastImage
      <4>2. Create = "ok" \/ image = 1
        BY <1>2, <3>1, <4>1 DEF OneImageEach, Create
      <4>3. QED
        BY <1>10, <3>1, <4>2 DEF GoesOn
    <3>2. QED
      BY <3>1
  <2>5. MainPhase'
    BY <1>1, <1>3, <1>10, <2>1, <2>2, <2>3, <2>4 DEF LossInv, MainPhase
  <2>6. GenPhase'
    <3>1. ~iInst' => gen' = "ended"
      BY <1>1, <1>4 DEF LossInv, GenPhase
    <3>2. QED
      BY <1>1, <1>3, <1>10, <2>1, <3>1 DEF LossInv, GenPhase
  <2>7. QED
    <3>1. WorkerPhase'
      BY <1>1 DEF LossInv, WorkerPhase
    <3>2. QED
      BY <1>7, <1>8, <2>5, <2>6, <3>1 DEF LossInv
<1>11. QED
  BY <1>1, <1>9, <1>10

\* A generator comes, with nothing in it.
LEMMA GetLoss ==
  ASSUME TypeStrong, LossInv, GetInstance
  PROVE  LossInv'
<1>1. /\ main = "get" /\ ~SkipsGenerator /\ main' = "type"
      /\ UNCHANGED <<build, image, handed, written>>
  BY DEF GetInstance
<1>2. Loose = {} /\ Early /\ ~(image = 1 /\ iInst) /\ Images' = Images
      /\ Create' = Create
  BY <1>1 DEF LossInv, MainPhase, GenPhase, Early, Images, Create
<1>3. CASE iInst /\ UNCHANGED <<iInst, iImageType, queueVars, iMapFileInfoSet, iSymFile, gen, workerVars>>
  <2>1. UNCHANGED <<iInst, iQueueFiles, iFinished, iMapFileInfoSet, iSymFile, gen, pc, pe>>
    BY <1>3 DEF queueVars, workerVars
  <2>2. Loose' = Loose /\ FiledIn' = FiledIn
    BY <1>1, <2>1, SameNames
  <2>3. NamesRight' /\ NothingLost'
    BY <1>1, <2>1, <2>2, StayNames DEF LossInv
  <2>4. MainPhase' /\ GenPhase' /\ WorkerPhase'
    BY <1>1, <1>2, <1>3, <2>1, <2>2 DEF LossInv, MainPhase, GenPhase, WorkerPhase
  <2>5. QED
    BY <2>3, <2>4 DEF LossInv
<1>4. CASE /\ iInst' = TRUE /\ iFinished' = FALSE /\ iQueueFiles' = <<>> /\ iMapFileInfoSet' = <<>>
           /\ gen' = "workers" /\ pc' = [w \in SymWorkers |-> "start"] /\ pe' = [w \in SymWorkers |-> NoEntry]
  <2>1. HeldNames' = {}
    BY <1>4 DEF HeldNames
  <2>2. Loose' = Loose
    BY <1>2, <1>4, <2>1, EmptyNames DEF Loose
  <2>3. FiledIn' = FiledIn
    BY <1>1, <1>2 DEF FiledIn
  <2>4. NamesRight' /\ NothingLost'
    BY <1>1, <1>2, <2>2, <2>3, StayNames DEF LossInv
  <2>5. MainPhase' /\ GenPhase' /\ WorkerPhase'
    BY <1>1, <1>2, <1>4, <2>2 DEF MainPhase, GenPhase, WorkerPhase
  <2>6. QED
    BY <2>4, <2>5 DEF LossInv
<1>5. QED
  BY <1>3, <1>4 DEF GetInstance

\* The other steps of the main thread move no entry.
LEMMA MainLoss ==
  ASSUME TypeStrong, OneImageEach, LossInv,
         SkipGenerator \/ SetImageType \/ CloseSymbolFile \/ OpenSymbolFile \/ NotifyEntry \/ SetFinished \/ LastRelease
  PROVE  LossInv'
<1>1. UNCHANGED <<build, image, handed, iQueueFiles, iMapFileInfoSet, pe, written, gen>>
  BY DEF SkipGenerator, SetImageType, CloseSymbolFile, OpenSymbolFile, NotifyEntry, SetFinished,
         LastRelease, queueVars, outVars, workerVars
<1>2. Loose' = Loose /\ FiledIn' = FiledIn
  BY <1>1, SameNames
<1>3. LastRelease => Loose = {} /\ gen = "ended"
  BY DEF LastRelease, Joined, LossInv, GenPhase
<1>4. NamesRight' /\ NothingLost'
  <2>1. iSymFile' = iSymFile \/ Loose = {}
    BY <1>3 DEF SkipGenerator, SetImageType, CloseSymbolFile, OpenSymbolFile, NotifyEntry, SetFinished,
                LossInv, MainPhase, Early
  <2>2. QED
    BY <1>1, <1>2, <2>1, StayNames DEF LossInv
<1>b. build.tool = "rofsbuild" \/ build.tool = "rombuild"
  BY BuildsAssumption DEF TypeStrong, TypeOK, IsBuild
<1>5. /\ Create' = Create /\ Files' = Files /\ LastImage' = LastImage
      /\ SkipsGenerator' = SkipsGenerator
  BY <1>1 DEF Create, Files, LastImage, SkipsGenerator
<1>6. WorkerPhase'
  <2>1. \A w \in SymWorkers : (pc[w] = "process" <=> pc'[w] = "process") /\ (pc[w] = "exit" <=> pc'[w] = "exit")
    BY DEF SkipGenerator, SetImageType, CloseSymbolFile, OpenSymbolFile, NotifyEntry, SetFinished,
           LastRelease, NotifyAll, queueVars, outVars, workerVars, TypeStrong, TypeOK
  <2>2. iFinished => iFinished'
    BY DEF SkipGenerator, SetImageType, CloseSymbolFile, OpenSymbolFile, NotifyEntry, SetFinished,
           LastRelease, queueVars
  <2>3. QED
    BY <1>1, <2>1, <2>2 DEF LossInv, WorkerPhase
<1>7. MainPhase' /\ GenPhase'
  <2>1. CASE SkipGenerator
    <3>1. /\ main = "get" /\ SkipsGenerator /\ main' = IF image = 1 THEN "exit" ELSE "last release"
          /\ UNCHANGED <<iInst, iFinished, iSymFile>>
      BY <2>1 DEF SkipGenerator, queueVars
    <3>2. Create = "fails before placing" /\ build.tool = "rombuild"
      BY <3>1 DEF SkipsGenerator
    <3>3. ~Early' /\ (image = 1 => gen = "ended")
      BY <3>1 DEF Early, LossInv, GenPhase
    <3>4. QED
      BY <1>1, <1>2, <1>5, <3>1, <3>2, <3>3 DEF LossInv, MainPhase, GenPhase
  <2>2. CASE SetImageType
    <3>1. /\ main = "type" /\ main' = IF Create = "fails before placing" THEN "next" ELSE "close"
          /\ UNCHANGED <<iInst, iFinished, iSymFile>>
      BY <2>2 DEF SetImageType, queueVars
    <3>2. Early
      BY <3>1 DEF Early
    <3>3. QED
      BY <1>1, <1>2, <1>5, <3>1, <3>2 DEF LossInv, MainPhase, GenPhase
  <2>3. CASE CloseSymbolFile
    <3>1. main = "close" /\ main' = "open" /\ UNCHANGED <<iInst, iFinished>>
      BY <2>3 DEF CloseSymbolFile, queueVars
    <3>2. Early
      BY <3>1 DEF Early
    <3>3. QED
      BY <1>1, <1>2, <1>5, <3>1, <3>2 DEF LossInv, MainPhase, GenPhase
  <2>4. CASE OpenSymbolFile
    <3>1. main = "open" /\ main' = "add" /\ iSymFile' = image /\ UNCHANGED <<iInst, iFinished>>
      BY <2>4 DEF OpenSymbolFile, queueVars
    <3>2. Early /\ ~Early'
      BY <3>1 DEF Early
    <3>3. QED
      BY <1>1, <1>2, <1>5, <3>1, <3>2 DEF LossInv, MainPhase, GenPhase
  <2>5. CASE NotifyEntry
    <3>1. UNCHANGED <<main, iInst, iFinished, iSymFile>>
      BY <2>5 DEF NotifyEntry, queueVars
    <3>2. Early' <=> Early
      BY <1>5, <3>1 DEF Early
    <3>3. QED
      BY <1>1, <1>2, <1>5, <3>1, <3>2 DEF LossInv, MainPhase, GenPhase
  <2>6. CASE SetFinished
    <3>1. /\ main = "add" /\ main' = "next" /\ Left = {} /\ UNCHANGED <<iInst, iSymFile>>
      BY <2>6 DEF SetFinished
    <3>2. Create # "fails before placing" /\ ~Early' /\ iInst
      BY <1>5, <3>1 DEF Early, LossInv, MainPhase
    <3>3. handed = DOMAIN Files
      BY <3>1 DEF Left, TypeStrong, TypeOK
    <3>4. QED
      BY <1>1, <1>2, <1>5, <3>1, <3>2, <3>3 DEF LossInv, MainPhase, GenPhase
  <2>7. CASE LastRelease
    <3>1. main = "last release" /\ main' = "exit" /\ iInst' = FALSE /\ UNCHANGED iFinished
      BY <2>7 DEF LastRelease, queueVars
    <3>2. Create = "fails before placing" /\ build.tool = "rombuild" /\ ~Early' /\ gen = "ended"
      BY <1>3, <2>7, <3>1 DEF LossInv, MainPhase, SkipsGenerator, Early
    <3>3. QED
      BY <1>1, <1>2, <1>5, <3>1, <3>2 DEF LossInv, MainPhase, GenPhase
  <2>8. QED
    BY <2>1, <2>2, <2>3, <2>4, <2>5, <2>6, <2>7
<1>8. QED
  BY <1>4, <1>6, <1>7 DEF LossInv

\* The steps of a worker that move no entry.
LEMMA WorkerLoss ==
  ASSUME TypeStrong, LossInv, NEW w \in SymWorkers,
         ChooseUnit(w) \/ Loop(w) \/ Lock(w) \/ Wait(w) \/ (Take(w) /\ iQueueFiles = <<>>)
  PROVE  LossInv'
<1>1. UNCHANGED <<build, main, image, handed, iInst, iFinished, iQueueFiles, iMapFileInfoSet, iSymFile, pe, written, gen>>
  BY DEF ChooseUnit, Loop, Lock, Wait, Take, mainVars, queueVars, outVars
<1>2. Loose' = Loose /\ FiledIn' = FiledIn
  BY <1>1, SameNames
<1>3. NamesRight' /\ NothingLost'
  BY <1>1, <1>2, StayNames DEF LossInv
<1>4. MainPhase' /\ GenPhase'
  BY <1>1, <1>2 DEF LossInv, MainPhase, GenPhase, Early, Create, Files, LastImage, SkipsGenerator
<1>5. WorkerPhase'
  <2>1. /\ pc[w] # "process"
        /\ pc'[w] = "exit" => iFinished /\ iQueueFiles = <<>>
        /\ \A v \in SymWorkers : v # w => pc'[v] = pc[v]
    BY DEF ChooseUnit, Loop, Lock, Wait, Take, Goto, TypeStrong, TypeOK
  <2>2. QED
    BY <1>1, <2>1 DEF LossInv, WorkerPhase
<1>6. QED
  BY <1>3, <1>4, <1>5 DEF LossInv

\* Every step keeps the invariant.
LEMMA NextLoss == TypeStrong /\ OneImageEach /\ LossInv /\ [Next]_vars => LossInv'
<1> SUFFICES ASSUME TypeStrong, OneImageEach, LossInv, [Next]_vars PROVE LossInv'
  OBVIOUS
<1>1. CASE GetInstance
  BY <1>1, GetLoss
<1>2. CASE SkipGenerator \/ SetImageType \/ CloseSymbolFile \/ OpenSymbolFile \/ NotifyEntry \/ SetFinished \/ LastRelease
  BY <1>2, MainLoss
<1>3. CASE AddEntry
  BY <1>3, AddLoss
<1>4. CASE KeepInstance \/ Release
  BY <1>4, ImageLoss
<1>5. ASSUME NEW w \in SymWorkers, ChooseUnit(w) \/ Loop(w) \/ Lock(w) \/ Wait(w) PROVE LossInv'
  BY <1>5, WorkerLoss
<1>6. ASSUME NEW w \in SymWorkers, Take(w) PROVE LossInv'
  BY <1>6, WorkerLoss, TakeLoss
<1>7. ASSUME NEW w \in SymWorkers, ProcessEntry(w) PROVE LossInv'
  BY <1>7, ProcessLoss
<1>8. CASE FlushSymbolFileContent
  BY <1>8, FlushLoss
<1>9. CASE UNCHANGED vars
  <2>1. UNCHANGED <<build, main, image, handed, iInst, iFinished, iQueueFiles, iMapFileInfoSet, iSymFile, pc, pe, written, gen>>
    BY <1>9 DEF vars, mainVars, queueVars, outVars, workerVars
  <2>2. Loose' = Loose /\ FiledIn' = FiledIn
    BY <2>1, SameNames
  <2>3. NamesRight' /\ NothingLost'
    BY <2>1, <2>2, StayNames DEF LossInv
  <2>4. MainPhase' /\ GenPhase' /\ WorkerPhase'
    BY <2>1, <2>2 DEF LossInv, MainPhase, GenPhase, WorkerPhase, Early, Create, Files, LastImage, SkipsGenerator
  <2>5. QED
    BY <2>3, <2>4 DEF LossInv
<1>10. QED
  BY <1>1, <1>2, <1>3, <1>4, <1>5, <1>6, <1>7, <1>8, <1>9 DEF Next, MainThread, Work

\* A build is one build from its start to its end.
LEMMA BuildStays == [Next]_vars => (OneImageEach' <=> OneImageEach)
<1> SUFFICES ASSUME [Next]_vars PROVE OneImageEach' <=> OneImageEach
  OBVIOUS
<1>1. build' = build
  BY DEF Next, MainThread, Work, GetInstance, SkipGenerator, SetImageType, CloseSymbolFile, OpenSymbolFile, AddEntry,
         NotifyEntry, SetFinished, KeepInstance, Release, NextImage, LastRelease, FlushSymbolFileContent,
         ChooseUnit, Loop, Lock, Take, Wait, ProcessEntry, vars
<1>2. QED
  BY <1>1 DEF OneImageEach, Images

\* At the end nothing is on its way, so that each file has all its names.
LEMMA Complete == TypeStrong /\ OneImageEach /\ LossInv => SymbolFileComplete
<1> SUFFICES ASSUME TypeStrong, OneImageEach, LossInv, main = "exit",
                    NEW i \in Images, build.images[i].create = "ok"
             PROVE  {Name(written[i][j]) : j \in DOMAIN written[i]} =
                       {<<i, f>> : f \in DOMAIN build.images[i].files}
  BY DEF SymbolFileComplete
<1>1. /\ Images = 1..Len(build.images) /\ Len(build.images) \in Nat /\ image \in Images
      /\ image \in Nat /\ image >= 1 /\ i \in Nat /\ i >= 1 /\ i <= Len(build.images)
  <2>1. Images = 1..Len(build.images) /\ Len(build.images) \in Nat /\ image \in Images
    BY BuildTypes DEF TypeStrong, TypeOK
  <2>2. QED
    BY <2>1
<1>b. build.tool = "rofsbuild" \/ build.tool = "rombuild"
  BY BuildsAssumption DEF TypeStrong, TypeOK, IsBuild
<1>2. i <= image
  <2>1. CASE build.tool = "rofsbuild"
    BY <1>1, <2>1 DEF LossInv, MainPhase, LastImage
  <2>2. CASE build.tool = "rombuild"
    <3>1. i > 1 => build.images[i].create = "fails before placing"
      BY <2>2 DEF OneImageEach
    <3>2. ~(i > 1)
      BY <3>1
    <3>3. QED
      BY <1>1, <3>2
  <2>3. QED
    BY <1>b, <2>1, <2>2
<1>3. WasHanded[i] = OwnNames[i]
  <2>1. CASE i < image
    BY <2>1 DEF WasHanded
  <2>2. CASE i = image
    <3>1. handed = DOMAIN Files
      BY <2>2 DEF LossInv, MainPhase, Create
    <3>2. QED
      BY <1>1, <2>2, <3>1 DEF WasHanded, OwnNames, Files
  <2>3. QED
    BY <1>1, <1>2, <2>1, <2>2
<1>4. OwnNames[i] \cap Loose = {}
  <2>1. CASE i = image \/ build.tool = "rombuild"
    BY <2>1 DEF LossInv, MainPhase, GenPhase, Create
  <2>2. CASE i # image /\ build.tool = "rofsbuild"
    <3>1. Loose # {} => iSymFile = image /\ Loose \subseteq OwnNames[image]
      BY <2>2 DEF LossInv, NamesRight
    <3>2. \A n \in OwnNames[image] : n[1] = image
      BY <1>1 DEF OwnNames
    <3>3. \A n \in OwnNames[i] : n[1] = i
      BY DEF OwnNames
    <3>4. QED
      BY <2>2, <3>1, <3>2, <3>3
  <2>3. QED
    BY <1>b, <2>1, <2>2
<1>5. FiledIn[i] = OwnNames[i]
  BY <1>3, <1>4 DEF LossInv, NamesRight, NothingLost
<1>6. QED
  BY <1>5 DEF FiledIn, NamesOf, OwnNames

\* When the tool ends, the symbol file of every image that was built has the symbols of each
\* of its files and of no other, for every number of workers, if each generator serves one
\* image.
THEOREM NoSymbolsLost == Spec => [](OneImageEach => SymbolFileComplete)
<1> DEFINE I == TypeStrong /\ (OneImageEach => LossInv)
<1>1. Init => I
  BY InitTypes, InitLoss
<1>2. I /\ [Next]_vars => I'
  BY NextTypes, NextLoss, BuildStays
<1>3. I => (OneImageEach => SymbolFileComplete)
  BY Complete
<1>4. QED
  BY <1>1, <1>2, <1>3, PTL DEF Spec
-----------------------------------------------------------------------------
(* Nobody waits for everybody *)

\* While the generator's own thread runs there is a generator; when it has ended its
\* workers have left.
Lifetime ==
  /\ gen = "workers" => iInst
  /\ gen = "ended" => \A w \in SymWorkers : pc[w] = "exit"

\* iMutex is held by a worker that is about to let it go.
MutexHeld == iMutex # Nobody => pc[iMutex] \in {"test", "to wait"}

\* Who joins the workers has told them that no more files come: in rombuild a generator
\* that is still there after the core image has been told so.
Told ==
  /\ main = "next" /\ Create # "fails before placing" => iFinished
  /\ build.tool = "rombuild" /\ main \in {"type", "close", "open", "add", "next"}
       => Create # "fails before placing"
  /\ build.tool = "rombuild" /\ image > 1 /\ main = "get" /\ iInst => iFinished
  /\ main = "last release" /\ iInst => iFinished

StuckInv == Lifetime /\ MutexHeld /\ Told

LEMMA InitStuck == Init => StuckInv
BY DEF Init, StuckInv, Lifetime, MutexHeld, Told

\* What the steps of one worker do to the labels and to the mutex.
LEMMA WorkStuck ==
  ASSUME TypeStrong, Guarded, StuckInv, NEW w \in SymWorkers, main # "exit", Work(w)
  PROVE  StuckInv'
<1>1. /\ pc \in [SymWorkers -> Labels] /\ iMutex \in SymWorkers \cup {Nobody}
      /\ gen \in {"workers", "ended"}
  BY DEF TypeStrong, TypeOK
<1>2. pc[w] # "exit" /\ UNCHANGED <<build, main, image, iInst, iFinished, gen>>
  BY DEF Work, ChooseUnit, Loop, Lock, Take, Wait, ProcessEntry, mainVars, queueVars
<1>3. gen = "workers"
  BY <1>1, <1>2 DEF StuckInv, Lifetime
<1>4. Lifetime'
  BY <1>2, <1>3 DEF StuckInv, Lifetime
<1>5. Told'
  BY <1>2 DEF StuckInv, Told, Releases, Create
<1>6. MutexHeld'
  <2>1. CASE ChooseUnit(w) \/ Loop(w) \/ ProcessEntry(w)
    <3>1. iMutex' = iMutex /\ pc[w] \notin {"test", "to wait"}
      BY <2>1 DEF ChooseUnit, Loop, ProcessEntry
    <3>2. \A v \in SymWorkers \ {w} : pc'[v] = pc[v]
      BY <1>1, <2>1 DEF ChooseUnit, Loop, ProcessEntry, Goto
    <3>3. QED
      BY <1>1, <3>1, <3>2 DEF StuckInv, MutexHeld
  <2>2. CASE Lock(w)
    BY <1>1, <2>2 DEF Lock, Goto, MutexHeld
  <2>3. CASE Take(w)
    BY <1>1, <2>3 DEF Take, Goto, MutexHeld, Guarded
  <2>4. CASE Wait(w)
    BY <1>1, <2>4 DEF Wait, Goto, MutexHeld
  <2>5. QED
    BY <2>1, <2>2, <2>3, <2>4 DEF Work
<1>7. QED
  BY <1>4, <1>5, <1>6 DEF StuckInv

\* A notification wakes who sleeps, and takes nobody's lock away.
LEMMA NotifyKeeps ==
  ASSUME StuckInv, pc \in [SymWorkers -> Labels], iMutex \in SymWorkers \cup {Nobody},
         NotifyAll, UNCHANGED <<iMutex, iInst, gen>>
  PROVE  Lifetime' /\ MutexHeld'
<1>1. \A w \in SymWorkers : pc[w] \in {"test", "to wait", "exit"} => pc'[w] = pc[w]
  BY DEF NotifyAll
<1>2. QED
  BY <1>1 DEF StuckInv, Lifetime, MutexHeld

LEMMA OneOrMore ==
  ASSUME NEW n \in Nat \ {0}
  PROVE  n = 1 \/ n > 1
OBVIOUS

LEMMA NextStuck == TypeStrong /\ Guarded /\ StuckInv /\ [Next]_vars => StuckInv'
<1> SUFFICES ASSUME TypeStrong, Guarded, StuckInv, [Next]_vars PROVE StuckInv'
  OBVIOUS
<1> USE DEF mainVars, queueVars, workerVars, outVars
<1>t. /\ pc \in [SymWorkers -> Labels] /\ iMutex \in SymWorkers \cup {Nobody}
      /\ gen \in {"workers", "ended"} /\ iInst \in BOOLEAN
  BY DEF TypeStrong, TypeOK
<1>1. CASE GetInstance
  <2>1. build' = build /\ image' = image /\ main = "get" /\ main' = "type" /\ ~SkipsGenerator
    BY <1>1 DEF GetInstance
  <2>2. Told'
    BY <2>1 DEF Told, SkipsGenerator, Releases, Create
  <2>3. CASE iInst
    BY <1>1, <2>2, <2>3 DEF GetInstance, StuckInv, Lifetime, MutexHeld
  <2>4. CASE ~iInst
    <3>1. /\ iInst' = TRUE /\ gen' = "workers" /\ iMutex' = iMutex
      BY <1>1, <2>4 DEF GetInstance
    <3>2. \A w \in SymWorkers : pc[w] = "exit"
      BY <1>t, <2>4 DEF StuckInv, Lifetime
    <3>3. iMutex = Nobody
      BY <1>t, <3>2 DEF StuckInv, MutexHeld
    <3>4. QED
      BY <2>2, <3>1, <3>3 DEF StuckInv, Lifetime, MutexHeld
  <2>5. QED
    BY <2>3, <2>4
<1>2. CASE SkipGenerator
  <2>1. /\ main = "get" /\ main' = IF image = 1 THEN "exit" ELSE "last release"
        /\ SkipsGenerator /\ image \in Nat \ {0}
        /\ UNCHANGED <<build, image, iInst, iFinished, iMutex, gen, pc>>
    <3>1. image \in Nat \ {0}
      <4>1. image \in 1..Len(build.images) /\ Len(build.images) \in Nat
        BY BuildTypes DEF TypeStrong, TypeOK
      <4>2. QED
        BY <4>1
    <3>2. QED
      BY <1>2, <3>1 DEF SkipGenerator
  <2>2. main' = "last release" => image > 1
    <3>1. image = 1 \/ image > 1
      <4>1. image \in Nat \ {0}
        BY <2>1
      <4>2. QED
        BY <4>1, OneOrMore
    <3>2. image = 1 => main' = "exit"
      BY <2>1
    <3>3. QED
      BY <3>1, <3>2
  <2>3. Lifetime' /\ MutexHeld'
    BY <2>1 DEF StuckInv, Lifetime, MutexHeld
  <2>4. Told'
    BY <2>1, <2>2 DEF StuckInv, Told, SkipsGenerator
  <2>5. QED
    BY <2>3, <2>4 DEF StuckInv
<1>3. CASE SetImageType \/ CloseSymbolFile \/ OpenSymbolFile
  <2>1. /\ UNCHANGED <<build, image, iInst, iFinished, iMutex, gen, pc>>
        /\ main \in {"type", "close", "open"}
        /\ \/ main' \in {"close", "open", "add"}
           \/ main' = "next" /\ Create = "fails before placing"
    BY <1>3 DEF SetImageType, CloseSymbolFile, OpenSymbolFile
  <2>2. QED
    BY <2>1 DEF StuckInv, Lifetime, MutexHeld, Told, Releases, Create
<1>4. CASE AddEntry
  <2>1. UNCHANGED <<build, main, image, iInst, iFinished, iMutex, gen, pc>>
    BY <1>4 DEF AddEntry
  <2>2. QED
    BY <2>1 DEF StuckInv, Lifetime, MutexHeld, Told, Releases, Create
<1>5. CASE NotifyEntry
  <2>1. UNCHANGED <<build, main, image, iInst, iFinished, iMutex, gen>> /\ NotifyAll
    BY <1>5 DEF NotifyEntry
  <2>2. Told'
    BY <2>1 DEF StuckInv, Told, Releases, Create
  <2>3. QED
    BY <1>t, <2>1, <2>2, NotifyKeeps DEF StuckInv
<1>6. CASE SetFinished
  <2>1. /\ UNCHANGED <<build, image, iInst, iMutex, gen>> /\ NotifyAll
        /\ main = "add" /\ main' = "next" /\ iFinished' = TRUE
    BY <1>6 DEF SetFinished
  <2>2. Told'
    BY <2>1 DEF StuckInv, Told, Releases, Create
  <2>3. QED
    BY <1>t, <2>1, <2>2, NotifyKeeps DEF StuckInv
<1>7. CASE KeepInstance \/ Release
  <2>1. /\ main = "next" /\ main' \in {"get", "exit"}
        /\ UNCHANGED <<build, iFinished, iMutex, gen, pc>>
        /\ iInst' = iInst \/ (iInst' = FALSE /\ Joined)
    BY <1>7 DEF KeepInstance, Release, NextImage
  <2>2. build.tool = "rombuild" => iFinished
    BY <2>1 DEF StuckInv, Told
  <2>3. Told'
    BY <2>1, <2>2 DEF Told
  <2>4. Lifetime'
    BY <1>t, <2>1 DEF StuckInv, Lifetime, Joined
  <2>5. QED
    BY <2>1, <2>3, <2>4 DEF StuckInv, MutexHeld
<1>8. CASE LastRelease
  <2>1. /\ main' = "exit" /\ Joined /\ iInst' = FALSE
        /\ UNCHANGED <<iMutex, gen, pc>>
    BY <1>8 DEF LastRelease
  <2>2. QED
    BY <1>t, <2>1 DEF StuckInv, Lifetime, MutexHeld, Told, Joined
<1>9. CASE main # "exit" /\ FlushSymbolFileContent
  <2>1. /\ UNCHANGED <<build, main, image, iInst, iFinished, iMutex, pc>>
        /\ \A w \in SymWorkers : pc[w] = "exit"
        /\ gen' = "ended"
    BY <1>9 DEF FlushSymbolFileContent
  <2>2. QED
    BY <2>1 DEF StuckInv, Lifetime, MutexHeld, Told, Releases, Create
<1>10. CASE main # "exit" /\ \E w \in SymWorkers : Work(w)
  BY <1>10, WorkStuck
<1>11. CASE UNCHANGED vars
  BY <1>11 DEF vars, StuckInv, Lifetime, MutexHeld, Told, Releases, Create
<1>12. QED
  BY <1>1, <1>2, <1>3, <1>4, <1>5, <1>6, <1>7, <1>8, <1>9, <1>10, <1>11 DEF Next, MainThread

\* Induction over a set of numbers: it has a least one.
LEMMA LeastNumber ==
  ASSUME NEW S \in SUBSET Nat, S # {}
  PROVE  \E n \in S : \A m \in S : n <= m
<1> DEFINE R == {ss \in Nat \X Nat : ss[1] < ss[2]}
<1>1. IsWellFoundedOn(R, Nat)
  BY NatLessThanWellFounded DEF OpToRel
<1> HIDE DEF R
<1>2. PICK n \in S : \A m \in S : ~(<<m, n>> \in R)
  BY <1>1, WFMin
<1>3. ASSUME NEW m \in S PROVE n <= m
  <2>1. n \in Nat /\ m \in Nat
    OBVIOUS
  <2>2. <<m, n>> \in Nat \X Nat /\ <<m, n>>[1] = m /\ <<m, n>>[2] = n
    BY <2>1
  <2>3. ~(m < n)
    BY <1>2, <2>2 DEF R
  <2>4. QED
    BY <2>1, <2>3
<1>4. QED
  BY <1>3

\* While files are left one of them is next.
LEMMA SomeFileNext ==
  ASSUME TypeStrong, Left # {}
  PROVE  NextFiles # {}
<1>1. Left \subseteq Nat
  <2>1. image \in Images /\ build.images[image].files \in Seq({"exe", "data"})
    BY BuildTypes DEF TypeStrong, TypeOK
  <2>2. DOMAIN Files = 1..Len(Files) /\ Len(Files) \in Nat
    BY <2>1 DEF Files
  <2>3. QED
    BY <2>2 DEF Left
<1>2. \E f \in Left : \A g \in Left : f <= g
  BY <1>1, LeastNumber
<1>3. QED
  BY <1>2 DEF NextFiles

\* What the threads of the tool wait for: the main thread's steps, the call of AddEntry
\* that has to notify, the generator's own thread and the workers.
MainCanGoOn ==
  \/ main \in {"get", "type", "close", "open"}
  \/ main = "add" /\ iMutex = Nobody /\ notifying < Adders /\ NextFiles # {}
  \/ main = "add" /\ iMutex = Nobody /\ Left = {} /\ notifying = 0
  \/ main = "next" /\ (Releases => Joined)
  \/ main = "last release" /\ Joined
NotifierCanGoOn == notifying > 0
GeneratorCanGoOn == gen = "workers" /\ \A w \in SymWorkers : pc[w] = "exit"
WorkerCanGoOn(w) ==
  \/ pc[w] \in {"start", "loop", "test", "to wait", "process"}
  \/ pc[w] \in {"lock", "relock"} /\ iMutex = Nobody

\* The tool never hangs with everyone waiting ("rofsbuild hangs occasionally with
\* -symbols"): until main returns some thread can go on, also where main joins a
\* generator in Release, whatever images were built before and however they ended.
THEOREM NobodyStuck ==
  Spec => [](main # "exit" =>
                MainCanGoOn \/ NotifierCanGoOn \/ GeneratorCanGoOn
                  \/ \E w \in SymWorkers : WorkerCanGoOn(w))
<1>1. TypeStrong /\ WakeInv /\ StuckInv =>
        (main # "exit" => MainCanGoOn \/ NotifierCanGoOn \/ GeneratorCanGoOn
                            \/ \E w \in SymWorkers : WorkerCanGoOn(w))
  <2> SUFFICES ASSUME TypeStrong, WakeInv, StuckInv, main # "exit", ~MainCanGoOn,
                      ~NotifierCanGoOn, \A w \in SymWorkers : ~WorkerCanGoOn(w)
               PROVE  GeneratorCanGoOn
    OBVIOUS
  <2>t. /\ pc \in [SymWorkers -> Labels] /\ iMutex \in SymWorkers \cup {Nobody}
        /\ gen \in {"workers", "ended"} /\ notifying \in Nat
        /\ main \in {"get", "type", "close", "open", "add", "next", "last release", "exit"}
    BY DEF TypeStrong, TypeOK
  <2>1. iMutex = Nobody
    BY <2>t DEF StuckInv, MutexHeld, WorkerCanGoOn
  <2>2. \A w \in SymWorkers : pc[w] \in {"waiting", "exit"}
    BY <2>t, <2>1 DEF WorkerCanGoOn, Labels
  <2>3. notifying = 0
    <3>1. ~(notifying > 0) /\ notifying \in Nat
      BY <2>t DEF NotifierCanGoOn
    <3>2. QED
      BY <3>1
  <2>4. Adders \in Nat /\ Adders > 0
    <3>1. Cardinality(SymWorkers) \in Nat /\ Cardinality(SymWorkers) # 0
      BY SymWorkersAssumption, FS_CardinalityType, FS_EmptySet
    <3>2. QED
      BY <3>1 DEF Adders
  <2>5. main # "add"
    BY <2>1, <2>3, <2>4, SomeFileNext DEF MainCanGoOn
  <2>6. ~Joined /\ ((main = "next" /\ Releases) \/ main = "last release")
    BY <2>t, <2>5 DEF MainCanGoOn
  <2>7. iInst /\ gen = "workers"
    BY <2>t, <2>6 DEF Joined
  <2>8. iFinished
    <3>1. CASE main = "next" /\ Releases
      <4>0. build.tool \in {"rofsbuild", "rombuild"}
        BY BuildsAssumption DEF TypeStrong, TypeOK, IsBuild
      <4>1. Create # "fails before placing"
        BY <3>1, <4>0 DEF StuckInv, Told, Releases
      <4>2. QED
        BY <3>1, <4>1 DEF StuckInv, Told
    <3>2. CASE main = "last release"
      BY <2>7, <3>2 DEF StuckInv, Told
    <3>3. QED
      BY <2>6, <3>1, <3>2
  <2>9. \A w \in SymWorkers : pc[w] = "exit"
    BY <2>2, <2>8 DEF WakeInv, NoLostWakeup
  <2>10. QED
    BY <2>7, <2>9 DEF GeneratorCanGoOn
<1>2. WakeInv => Guarded
  BY DEF WakeInv
<1>3. QED
  BY <1>1, <1>2, InitTypes, NextTypes, InitWake, NextWake, InitStuck, NextStuck, PTL DEF Spec
=============================================================================
