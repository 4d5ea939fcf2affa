------------------------- MODULE BuildServer_proofs -------------------------
(***************************************************************************)
(* Proofs about BuildServer for every finite set of clients, every command *)
(* file, every environment, and whatever the crashes and timeouts.         *)
(***************************************************************************)
EXTENDS BuildServer, FiniteSetTheorems, SequenceTheorems, TLAPS

-----------------------------------------------------------------------------
(* What is under way on a connection *)

LEMMA RangeType ==
  ASSUME NEW S, NEW s \in Seq(S)
  PROVE  Range(s) \subseteq S
BY DEF Range

LEMMA RangeAppend ==
  ASSUME NEW S, NEW s \in Seq(S), NEW x \in S
  PROVE  /\ Append(s, x) \in Seq(S)
         /\ Append(s, x) # <<>>
         /\ Range(Append(s, x)) = Range(s) \cup {x}
<1>1. /\ Append(s, x) \in Seq(S) /\ Len(Append(s, x)) = Len(s) + 1
      /\ \A i \in 1..Len(s) : Append(s, x)[i] = s[i]
      /\ Append(s, x)[Len(s) + 1] = x
      /\ Append(s, x) # <<>>
  BY AppendProperties
<1>2. Len(s) \in Nat /\ DOMAIN s = 1..Len(s) /\ DOMAIN Append(s, x) = 1..(Len(s) + 1)
  BY <1>1
<1>3. QED
  BY <1>1, <1>2 DEF Range

LEMMA RangeTail ==
  ASSUME NEW S, NEW s \in Seq(S), s # <<>>
  PROVE  /\ Head(s) \in S /\ Tail(s) \in Seq(S)
         /\ Head(s) \in Range(s)
         /\ Range(Tail(s)) \subseteq Range(s)
<1>1. /\ Head(s) \in S /\ Tail(s) \in Seq(S) /\ Len(Tail(s)) = Len(s) - 1
      /\ \A i \in 1..Len(Tail(s)) : Tail(s)[i] = s[i + 1]
  BY HeadTailProperties
<1>2. Head(s) = s[1] /\ Len(s) \in Nat /\ Len(s) > 0
  BY EmptySeq
<1>3. DOMAIN s = 1..Len(s) /\ DOMAIN Tail(s) = 1..(Len(s) - 1)
  BY <1>1, <1>2
<1>4. QED
  BY <1>1, <1>2, <1>3 DEF Range

LEMMA RangeOne ==
  ASSUME NEW x
  PROVE  Range(<<x>>) = {x} /\ <<x>> # <<>>
BY DEF Range

LEMMA TailOne ==
  ASSUME NEW x
  PROVE  Head(<<x>>) = x /\ Tail(<<x>>) = <<>>
OBVIOUS

LEMMA AppendFirst ==
  ASSUME NEW x
  PROVE  Append(<<>>, x) = <<x>>
OBVIOUS

LEMMA AppendSecond ==
  ASSUME NEW x, NEW y
  PROVE  Append(<<x>>, y) = <<x, y>>
<1>1. <<x>> \in Seq({x, y}) /\ <<x, y>> \in Seq({x, y}) /\ y \in {x, y}
  OBVIOUS
<1>2. PICK s, t : s = Append(<<x>>, y) /\ t = <<x, y>>
  OBVIOUS
<1>3. /\ s \in Seq({x, y}) /\ Len(s) = Len(<<x>>) + 1 /\ s[Len(<<x>>) + 1] = y
      /\ \A i \in 1 .. Len(<<x>>) : s[i] = <<x>>[i]
  BY <1>1, <1>2, AppendProperties
<1>4. Len(s) = 2 /\ s[1] = x /\ s[2] = y
  BY <1>3
<1>5. t \in Seq({x, y}) /\ Len(t) = 2 /\ t[1] = x /\ t[2] = y
  BY <1>1, <1>2
<1>6. s = t
  BY <1>3, <1>4, <1>5, SeqEqual
<1>7. QED
  BY <1>2, <1>6

LEMMA RangeNone == Range(<<>>) = {}
BY DEF Range

\* The kinds of messages.
LEMMA ClientMsgKinds ==
  ASSUME NEW m \in ClientMsg
  PROVE  /\ m.name \in Names
         /\ m.cmd \in {"Ready", "SetEnv Ready", "Results"}
         /\ m.cmd = "Results" => m.id \in Nat /\ m.bad \in BOOLEAN
BY DEF ClientMsg, Results

LEMMA ServerMsgKinds ==
  ASSUME NEW m \in ServerMsg
  PROVE  /\ m.cmd \in {"ChangeClientName", "SetEnv", "Execute", "Exit"}
         /\ m.cmd = "ChangeClientName" => m.name \in Names
         /\ m.cmd = "SetEnv" => m.var \in Nat
         /\ m.cmd = "Execute" => m.id \in Nat
BY DEF ServerMsg

LEMMA ToClientMsgs ==
  /\ \A n \in Names : [cmd |-> "ChangeClientName", name |-> n] \in ServerMsg
  /\ \A v \in Nat : [cmd |-> "SetEnv", var |-> v] \in ServerMsg
  /\ \A i \in Nat : [cmd |-> "Execute", id |-> i] \in ServerMsg
  /\ [cmd |-> "Exit"] \in ServerMsg
BY DEF ServerMsg

LEMMA ToServerMsgs ==
  /\ \A n \in Names : [cmd |-> "Ready", name |-> n] \in ClientMsg
  /\ \A n \in Names : [cmd |-> "SetEnv Ready", name |-> n] \in ClientMsg
  /\ \A n \in Names, i \in Nat, b \in BOOLEAN :
       [cmd |-> "Results", name |-> n, id |-> i, bad |-> b] \in ClientMsg
BY DEF ClientMsg, Results

LEMMA LogLines ==
  ASSUME NEW s \in Stages \cup {NoStage}
  PROVE  /\ PrintStageStart(s) \in LogLine
         /\ PrintStageEnd(s) \in LogLine
         /\ \A i \in Nat : [line |-> "results", stage |-> s, id |-> i] \in LogLine
BY DEF PrintStageStart, PrintStageEnd, LogLine

LEMMA NameTypes ==
  /\ \A n \in Names, k \in Conns : Renamed(n, k) \in Names
  /\ TypeOK => \A c \in Clients : Name(c) \in Names
<1>1. ASSUME NEW n \in Names, NEW k \in Conns PROVE Renamed(n, k) \in Names
  BY DEF Renamed, Names
<1>2. ASSUME TypeOK, NEW c \in Clients PROVE Name(c) \in Names
  BY <1>2, NamesAssumption DEF TypeOK, Name, Names
<1>3. QED
  BY <1>1, <1>2

-----------------------------------------------------------------------------
(* What AddReady does *)

SentVars ==
  \A k \in Conns : \A m \in Range(toClient[k]) : m.cmd = "SetEnv" => m.var < gSetEnv

ReadyVars ==
  \A k \in Conns : \A m \in Range(toServer[k]) : m.cmd = "SetEnv Ready" => gSetEnv > 0

JobConns ==
  \A c \in Clients : pc[c] = "execute" => job[c].conn \in Conns /\ job[c].conn[1] = c

TypeStrong == TypeOK /\ SentVars /\ ReadyVars /\ JobConns

\* What a handler adds at last to a channel to a client: a command for a client
\* that waited, or Exit.
Last(k, m) ==
  \/ /\ m.cmd = "Execute"
     /\ \E n \in Names : gClientHandles'[n] = k /\ gClientStatus'[n] # "none"
  \/ /\ m.cmd = "Exit" /\ outcome' = "done"
     /\ \E n \in Names : gClientHandles'[n] = k

Given(ch) ==
  /\ toClient' \in [Conns -> Seq(ServerMsg)]
  /\ \A k \in Conns :
       \/ toClient'[k] = ch[k]
       \/ \E m \in ServerMsg : toClient'[k] = Append(ch[k], m) /\ Last(k, m)

\* After the loop some waiting clients are busy.
MadeBusy(status) ==
  /\ gClientStatus' \in [Names -> {"none", "Waiting", "Busy"}]
  /\ \A m \in Names :
       \/ gClientStatus'[m] = status[m]
       \/ status[m] = "Waiting" /\ gClientStatus'[m] = "Busy"

LEMMA SendCommandsDoes ==
  ASSUME TypeOK,
         NEW ch \in [Conns -> Seq(ServerMsg)],
         NEW status \in [Names -> {"none", "Waiting", "Busy"}],
         NEW waiting, waiting = {m \in Names : status[m] = "Waiting"},
         SendCommands(ch, status, waiting)
  PROVE  /\ gIDCount' \in gIDCount .. (Len(build) + 1)
         /\ MadeBusy(status)
         /\ Given(ch)
<1>1. PICK next \in gIDCount .. (Len(build) + 1) :
        /\ gIDCount' = next
        /\ \E who \in Injection(gIDCount .. (next - 1), waiting) :
             /\ gClientStatus' = [n \in Names |->
                  IF \E i \in DOMAIN who : who[i] = n THEN "Busy" ELSE status[n]]
             /\ toClient' = [k \in Conns |->
                  IF \E i \in DOMAIN who : gClientHandles'[who[i]] = k
                  THEN Append(ch[k], [cmd |-> "Execute",
                         id |-> CHOOSE i \in DOMAIN who : gClientHandles'[who[i]] = k])
                  ELSE ch[k]]
  BY DEF SendCommands
<1>2. PICK who \in Injection(gIDCount .. (next - 1), waiting) :
        /\ gClientStatus' = [n \in Names |->
             IF \E i \in DOMAIN who : who[i] = n THEN "Busy" ELSE status[n]]
        /\ toClient' = [k \in Conns |->
             IF \E i \in DOMAIN who : gClientHandles'[who[i]] = k
             THEN Append(ch[k], [cmd |-> "Execute",
                    id |-> CHOOSE i \in DOMAIN who : gClientHandles'[who[i]] = k])
             ELSE ch[k]]
  BY <1>1
<1>3. who \in [gIDCount .. (next - 1) -> waiting] /\ DOMAIN who = gIDCount .. (next - 1)
  BY DEF Injection
<1>4. \A i \in DOMAIN who : who[i] \in Names /\ status[who[i]] = "Waiting"
  BY <1>3
<1>5. MadeBusy(status)
  <2>1. gClientStatus' \in [Names -> {"none", "Waiting", "Busy"}]
    BY <1>2
  <2>2. ASSUME NEW m \in Names
        PROVE  \/ gClientStatus'[m] = status[m]
               \/ status[m] = "Waiting" /\ gClientStatus'[m] = "Busy"
    BY <1>2, <1>4
  <2>3. QED
    BY <2>1, <2>2 DEF MadeBusy
<1>6. ASSUME NEW k \in Conns
      PROVE  /\ toClient'[k] \in Seq(ServerMsg)
             /\ \/ toClient'[k] = ch[k]
                \/ \E m \in ServerMsg : toClient'[k] = Append(ch[k], m) /\ Last(k, m)
  <2>1. CASE \E i \in DOMAIN who : gClientHandles'[who[i]] = k
    <3>1. PICK j : j = CHOOSE i \in DOMAIN who : gClientHandles'[who[i]] = k
      OBVIOUS
    <3>2. j \in DOMAIN who /\ gClientHandles'[who[j]] = k
      BY <2>1, <3>1
    <3>3. j \in Nat
      BY <1>3, <3>2 DEF TypeOK
    <3>4. PICK m : m = [cmd |-> "Execute", id |-> j]
      OBVIOUS
    <3>5. m \in ServerMsg
      BY <3>3, <3>4, ToClientMsgs
    <3>6. toClient'[k] = Append(ch[k], m)
      BY <1>2, <2>1, <3>1, <3>4
    <3>7. gClientStatus'[who[j]] = "Busy" /\ who[j] \in Names
      BY <1>2, <1>4, <3>2
    <3>8. Last(k, m)
      BY <3>2, <3>4, <3>7 DEF Last
    <3>9. ch[k] \in Seq(ServerMsg)
      OBVIOUS
    <3>10. toClient'[k] \in Seq(ServerMsg)
      BY <3>5, <3>6, <3>9, RangeAppend
    <3>11. QED
      BY <3>5, <3>6, <3>8, <3>10
  <2>2. CASE ~ \E i \in DOMAIN who : gClientHandles'[who[i]] = k
    BY <1>2, <2>2
  <2>3. QED
    BY <2>1, <2>2
<1>7. toClient' \in [Conns -> Seq(ServerMsg)]
  <2>1. toClient' = [k \in Conns |-> toClient'[k]]
    BY <1>2
  <2>2. QED
    BY <1>6, <2>1
<1>8. Given(ch)
  BY <1>6, <1>7 DEF Given
<1>9. QED
  BY <1>1, <1>5, <1>8

LEMMA SendExitDoes ==
  ASSUME NEW ch \in [Conns -> Seq(ServerMsg)],
         toClient' = SendExit(ch), outcome' = "done"
  PROVE  Given(ch)
<1>1. PICK m : m = [cmd |-> "Exit"]
  OBVIOUS
<1>2. m \in ServerMsg
  BY <1>1, ToClientMsgs
<1>3. ASSUME NEW k \in Conns
      PROVE  /\ toClient'[k] \in Seq(ServerMsg)
             /\ \/ toClient'[k] = ch[k]
                \/ toClient'[k] = Append(ch[k], m) /\ Last(k, m)
  <2>1. ch[k] \in Seq(ServerMsg)
    OBVIOUS
  <2>2. Append(ch[k], m) \in Seq(ServerMsg)
    BY <1>2, <2>1, RangeAppend
  <2>3. CASE \E n \in Names : gClientHandles'[n] = k
    BY <1>1, <2>2, <2>3 DEF SendExit, Last
  <2>4. CASE ~ \E n \in Names : gClientHandles'[n] = k
    BY <2>1, <2>4 DEF SendExit
  <2>5. QED
    BY <2>3, <2>4
<1>4. toClient' = [k \in Conns |-> toClient'[k]]
  BY DEF SendExit
<1>5. QED
  BY <1>2, <1>3, <1>4 DEF Given

LEMMA SameGiven ==
  ASSUME NEW ch \in [Conns -> Seq(ServerMsg)], toClient' = ch
  PROVE  Given(ch)
BY DEF Given

\* The four ways in which AddReady ends.
WaitingNow(n) == [gClientStatus EXCEPT ![n] = "Waiting"]
Waiters(n) == {m \in Names : WaitingNow(n)[m] = "Waiting"}
Everyone(n) == Cardinality(Waiters(n)) = Cardinality(accepted)
ExitNext == gExit \/ (More /\ build[gIDCount].type = "Exit")

Ends(n, ch, lines, error) ==
  /\ Everyone(n)
  /\ \/ error /\ outcome' = "error" /\ toClient' = ch
     \/ ~error /\ ExitNext /\ outcome' = "done" /\ toClient' = SendExit(ch)
     \/ ~error /\ ~ExitNext /\ ~More /\ outcome' = "done" /\ toClient' = ch
  /\ log' = Append(lines, PrintStageEnd(gStage))
  /\ gClientStatus' = WaitingNow(n)
  /\ gIDCount' = gIDCount /\ gStage' = gStage

GoesOn(n, ch, lines, error) ==
  /\ ~(Everyone(n) /\ Finished(error, ExitNext))
  /\ outcome' = outcome
  /\ \/ /\ Everyone(n) /\ StageEnds
        /\ gStage' = build[gIDCount].stage
        /\ log' = lines \o <<PrintStageEnd(gStage), PrintStageStart(gStage')>>
     \/ /\ ~(Everyone(n) /\ StageEnds)
        /\ gStage' = gStage /\ log' = lines
  /\ \/ /\ ExitNext \/ error
        /\ gClientStatus' = WaitingNow(n) /\ toClient' = ch /\ gIDCount' = gIDCount
     \/ ~ExitNext /\ ~error /\ SendCommands(ch, WaitingNow(n), Waiters(n))

LEMMA AddReadyCases ==
  ASSUME NEW n, NEW ch, NEW lines, NEW error, AddReady(n, ch, lines, error)
  PROVE  /\ gExit' = ExitNext /\ gRealTimeError' = error
         /\ Ends(n, ch, lines, error) \/ GoesOn(n, ch, lines, error)
<1> DEFINE status == WaitingNow(n)
           waiting == Waiters(n)
           everyone == Everyone(n)
           exit == ExitNext
<1>1. /\ gExit' = exit /\ gRealTimeError' = error
      /\ \/ everyone /\ error /\ EndBuild("error", ch, lines, status)
         \/ everyone /\ ~error /\ exit
              /\ EndBuild("done", SendExit(ch), lines, status)
         \/ everyone /\ ~error /\ ~exit /\ ~More
              /\ EndBuild("done", ch, lines, status)
         \/ ~(everyone /\ Finished(error, exit))
              /\ GoOn(ch, lines, status, waiting, everyone, exit \/ error)
  BY DEF AddReady, WaitingNow, Waiters, Everyone, ExitNext
<1>2. CASE everyone /\ error /\ EndBuild("error", ch, lines, status)
  BY <1>1, <1>2 DEF EndBuild, Ends
<1>3. CASE everyone /\ ~error /\ exit /\ EndBuild("done", SendExit(ch), lines, status)
  BY <1>1, <1>3 DEF EndBuild, Ends
<1>4. CASE everyone /\ ~error /\ ~exit /\ ~More /\ EndBuild("done", ch, lines, status)
  BY <1>1, <1>4 DEF EndBuild, Ends
<1>5. CASE ~(everyone /\ Finished(error, exit))
             /\ GoOn(ch, lines, status, waiting, everyone, exit \/ error)
  <2>1. GoesOn(n, ch, lines, error)
    BY <1>5 DEF GoOn, GoesOn
  <2>2. QED
    BY <1>1, <2>1
<1>6. QED
  BY <1>1, <1>2, <1>3, <1>4, <1>5

LEMMA WaitingNowIs ==
  ASSUME TypeOK, NEW n \in Names
  PROVE  /\ WaitingNow(n) \in [Names -> {"none", "Waiting", "Busy"}]
         /\ WaitingNow(n)[n] = "Waiting"
         /\ \A m \in Names : m # n => WaitingNow(n)[m] = gClientStatus[m]
BY DEF WaitingNow, TypeOK

LEMMA BuildTypes ==
  ASSUME TypeOK
  PROVE  /\ build \in Seq(Command) /\ Len(build) \in Nat
         /\ gIDCount \in Nat /\ gIDCount >= 1 /\ gIDCount <= Len(build) + 1
         /\ gStage \in Stages \cup {NoStage}
         /\ gSetEnv \in Nat
         /\ \A i \in 1..Len(build) : build[i] \in Command /\ build[i].stage \in Stages
<1>1. build \in Seq(Command)
  BY BuildServerAssumption DEF TypeOK
<1>2. Len(build) \in Nat
  BY <1>1
<1>3. \A i \in 1..Len(build) : build[i] \in Command
  BY <1>1
<1>4. QED
  BY <1>1, <1>2, <1>3 DEF TypeOK, Command

\* What changes in AddReady, and how.
LEMMA AddReadyDoes ==
  ASSUME TypeOK, outcome = "running",
         NEW n \in Names,
         NEW ch \in [Conns -> Seq(ServerMsg)],
         NEW lines \in Seq(LogLine),
         NEW error \in BOOLEAN,
         AddReady(n, ch, lines, error)
  PROVE  /\ gExit' \in BOOLEAN /\ gRealTimeError' \in BOOLEAN
         /\ gIDCount' \in gIDCount .. (Len(build) + 1)
         /\ gStage' \in Stages \cup {NoStage}
         /\ log' \in Seq(LogLine) /\ (lines # <<>> => log' # <<>>)
         /\ outcome' \in {"running", "done", "error"}
         /\ MadeBusy(WaitingNow(n))
         /\ Given(ch)
<1>1. /\ gExit' = ExitNext /\ gRealTimeError' = error
      /\ Ends(n, ch, lines, error) \/ GoesOn(n, ch, lines, error)
  BY AddReadyCases
<1>2. gExit' \in BOOLEAN /\ gRealTimeError' \in BOOLEAN
  BY <1>1 DEF ExitNext, TypeOK
<1>3. WaitingNow(n) \in [Names -> {"none", "Waiting", "Busy"}]
  BY WaitingNowIs
<1>4. gIDCount \in gIDCount .. (Len(build) + 1)
  BY BuildTypes
<1>5. PrintStageEnd(gStage) \in LogLine
  BY BuildTypes, LogLines
<1>6. CASE Ends(n, ch, lines, error)
  <2>1. /\ gIDCount' = gIDCount /\ gStage' = gStage
        /\ log' = Append(lines, PrintStageEnd(gStage))
        /\ gClientStatus' = WaitingNow(n) /\ outcome' \in {"done", "error"}
    BY <1>6 DEF Ends
  <2>2. log' \in Seq(LogLine) /\ log' # <<>>
    BY <1>5, <2>1, RangeAppend
  <2>3. MadeBusy(WaitingNow(n))
    BY <1>3, <2>1 DEF MadeBusy
  <2>4. Given(ch)
    BY <1>6, SendExitDoes, SameGiven DEF Ends
  <2>5. QED
    BY <1>2, <1>4, <2>1, <2>2, <2>3, <2>4, BuildTypes
<1>7. CASE GoesOn(n, ch, lines, error)
  <2>1. gStage' \in Stages \cup {NoStage} /\ log' \in Seq(LogLine) /\ (lines # <<>> => log' # <<>>)
    <3>1. CASE ~(Everyone(n) /\ StageEnds)
      BY <1>7, <3>1, BuildTypes DEF GoesOn
    <3>2. CASE Everyone(n) /\ StageEnds
      <4>1. /\ gStage' = build[gIDCount].stage
            /\ log' = lines \o <<PrintStageEnd(gStage), PrintStageStart(gStage')>>
            /\ ~Finished(error, ExitNext)
        BY <1>7, <3>2 DEF GoesOn
      <4>2. gIDCount \in 1..Len(build)
        BY <4>1, BuildTypes DEF Finished, More
      <4>3. gStage' \in Stages
        BY <4>1, <4>2, BuildTypes
      <4>4. PrintStageStart(gStage') \in LogLine
        BY <4>3, LogLines
      <4>5. PICK two : two = <<PrintStageEnd(gStage), PrintStageStart(gStage')>>
        OBVIOUS
      <4>6. two \in Seq(LogLine) /\ Len(two) = 2
        BY <1>5, <4>4, <4>5
      <4>7. log' = lines \o two
        BY <4>1, <4>5
      <4>8. lines \o two \in Seq(LogLine) /\ Len(lines \o two) = Len(lines) + Len(two)
        BY <4>6, ConcatProperties
      <4>9. log' # <<>>
        <5>1. Len(lines \o two) = Len(lines) + 2 /\ Len(lines) \in Nat
          BY <4>6, <4>8
        <5>2. QED
          BY <4>7, <5>1
      <4>10. QED
        BY <4>3, <4>7, <4>8, <4>9
    <3>3. QED
      BY <3>1, <3>2
  <2>2. /\ gIDCount' \in gIDCount .. (Len(build) + 1)
        /\ MadeBusy(WaitingNow(n)) /\ Given(ch)
    <3>1. CASE gClientStatus' = WaitingNow(n) /\ toClient' = ch /\ gIDCount' = gIDCount
      <4>1. MadeBusy(WaitingNow(n))
        BY <1>3, <3>1 DEF MadeBusy
      <4>2. QED
        BY <1>4, <3>1, <4>1, SameGiven
    <3>2. CASE SendCommands(ch, WaitingNow(n), Waiters(n))
      <4>1. Waiters(n) = {m \in Names : WaitingNow(n)[m] = "Waiting"}
        BY DEF Waiters
      <4>2. QED
        BY <1>3, <3>2, <4>1, SendCommandsDoes
    <3>3. QED
      BY <1>7, <3>1, <3>2 DEF GoesOn
  <2>3. QED
    BY <1>2, <1>7, <2>1, <2>2 DEF GoesOn
<1>8. QED
  BY <1>1, <1>6, <1>7

-----------------------------------------------------------------------------
(* What the handlers of a client's message do *)

Known(n) == gClientHandles[n] # NoConn
Used(k) == \E n \in Names : gClientHandles[n] = k

NewName(k, m) == IF Known(m.name) THEN Renamed(m.name, k) ELSE m.name
Greeted(k, m) ==
  IF Known(m.name)
  THEN [toClient EXCEPT ![k] =
          Append(@, [cmd |-> "ChangeClientName", name |-> NewName(k, m)])]
  ELSE toClient
Opened == IF log = <<>> THEN <<PrintStageStart(gStage)>> ELSE log
Reported(m) == Append(log, [line |-> "results", stage |-> gStage, id |-> m.id])

\* The next variable is sent to client n on connection k.
NextVar(n, k, sent, ch, lines) ==
  /\ sent < gSetEnv
  /\ toClient' = [ch EXCEPT ![k] = Append(@, [cmd |-> "SetEnv", var |-> sent])]
  /\ gClientEnvNum' = [gClientEnvNum EXCEPT ![n] = sent + 1]
  /\ log' = lines
  /\ UNCHANGED <<gIDCount, gStage, gExit, gRealTimeError, gClientStatus, outcome>>

\* It has them all.
HasAll(n, sent, ch, lines) ==
  /\ ~(sent < gSetEnv)
  /\ gClientEnvNum' = [gClientEnvNum EXCEPT ![n] = sent]
  /\ AddReady(n, ch, lines, gRealTimeError)

GetsReady(k, m) ==
  /\ m.cmd = "Ready"
  /\ gClientHandles' = [gClientHandles EXCEPT ![NewName(k, m)] = k]
  /\ \/ NextVar(NewName(k, m), k, 0, Greeted(k, m), Opened)
     \/ HasAll(NewName(k, m), 0, Greeted(k, m), Opened)

GetsEnvReady(k, m) ==
  /\ m.cmd = "SetEnv Ready"
  /\ gClientHandles' = gClientHandles
  /\ \/ NextVar(m.name, k, gClientEnvNum[m.name], toClient, log)
     \/ HasAll(m.name, gClientEnvNum[m.name], toClient, log)

GetsResults(m) ==
  /\ m.cmd = "Results"
  /\ gClientHandles' = gClientHandles /\ gClientEnvNum' = gClientEnvNum
  /\ AddReady(m.name, toClient, Reported(m), gRealTimeError \/ m.bad)

LEMMA ReceiveCases ==
  ASSUME NEW k \in Conns, Receive(k)
  PROVE  /\ outcome = "running" /\ k \in accepted /\ toServer[k] # <<>>
         /\ \/ GetsReady(k, Head(toServer[k]))
            \/ GetsEnvReady(k, Head(toServer[k]))
            \/ GetsResults(Head(toServer[k]))
         /\ toServer' = [toServer EXCEPT ![k] = Tail(@)]
         /\ UNCHANGED <<input, accepted, clientVars, open>>
<1> DEFINE m == Head(toServer[k])
<1>1. /\ outcome = "running" /\ k \in accepted /\ toServer[k] # <<>>
      /\ Ready(k, m) \/ EnvReady(k, m) \/ ResultsIn(k, m)
      /\ toServer' = [toServer EXCEPT ![k] = Tail(@)]
      /\ UNCHANGED <<input, accepted, clientVars, open>>
  BY DEF Receive
<1>2. CASE Ready(k, m)
  BY <1>1, <1>2 DEF Ready, SetEnvReady, GetsReady, NextVar, HasAll, NewName, Greeted, Opened, Known
<1>3. CASE EnvReady(k, m)
  BY <1>1, <1>3 DEF EnvReady, SetEnvReady, GetsEnvReady, NextVar, HasAll
<1>4. CASE ResultsIn(k, m)
  BY <1>1, <1>4 DEF ResultsIn, GetsResults, Reported
<1>5. QED
  BY <1>1, <1>2, <1>3, <1>4

\* The message that is read.
LEMMA HeadIs ==
  ASSUME TypeOK, NEW k \in Conns, toServer[k] # <<>>,
         toServer' = [toServer EXCEPT ![k] = Tail(@)]
  PROVE  /\ Head(toServer[k]) \in ClientMsg /\ Head(toServer[k]) \in Range(toServer[k])
         /\ toServer' \in [Conns -> Seq(ClientMsg)]
         /\ toServer'[k] = Tail(toServer[k])
         /\ \A l \in Conns : l # k => toServer'[l] = toServer[l]
         /\ \A l \in Conns : Range(toServer'[l]) \subseteq Range(toServer[l])
<1>1. toServer \in [Conns -> Seq(ClientMsg)]
  BY DEF TypeOK
<1>2. toServer[k] \in Seq(ClientMsg)
  BY <1>1
<1>3. /\ Head(toServer[k]) \in ClientMsg /\ Tail(toServer[k]) \in Seq(ClientMsg)
      /\ Head(toServer[k]) \in Range(toServer[k])
      /\ Range(Tail(toServer[k])) \subseteq Range(toServer[k])
  BY <1>2, RangeTail
<1>4. QED
  BY <1>1, <1>3

LEMMA GreetedIs ==
  ASSUME TypeOK, NEW k \in Conns, NEW m \in ClientMsg
  PROVE  /\ NewName(k, m) \in Names
         /\ Greeted(k, m) \in [Conns -> Seq(ServerMsg)]
         /\ \A l \in Conns : l # k => Greeted(k, m)[l] = toClient[l]
         /\ Known(m.name) =>
              Greeted(k, m)[k] =
                Append(toClient[k], [cmd |-> "ChangeClientName", name |-> NewName(k, m)])
         /\ ~Known(m.name) => Greeted(k, m) = toClient
<1>1. m.name \in Names
  BY ClientMsgKinds
<1>2. NewName(k, m) \in Names
  BY <1>1, NameTypes DEF NewName
<1>3. PICK x : x = [cmd |-> "ChangeClientName", name |-> NewName(k, m)]
  OBVIOUS
<1>4. x \in ServerMsg
  BY <1>2, <1>3, ToClientMsgs
<1>5. toClient \in [Conns -> Seq(ServerMsg)]
  BY DEF TypeOK
<1>6. toClient[k] \in Seq(ServerMsg)
  BY <1>5
<1>7. Append(toClient[k], x) \in Seq(ServerMsg)
  BY <1>4, <1>6, RangeAppend
<1>8. QED
  BY <1>2, <1>3, <1>5, <1>7 DEF Greeted

LEMMA OpenedIs ==
  ASSUME TypeOK
  PROVE  /\ Opened \in Seq(LogLine) /\ Opened # <<>>
         /\ log # <<>> => Opened = log
         /\ log = <<>> => Opened = <<PrintStageStart(gStage)>>
<1>1. PrintStageStart(gStage) \in LogLine /\ log \in Seq(LogLine)
  BY BuildTypes, LogLines DEF TypeOK
<1>2. <<PrintStageStart(gStage)>> \in Seq(LogLine) /\ <<PrintStageStart(gStage)>> # <<>>
  BY <1>1
<1>3. QED
  BY <1>1, <1>2 DEF Opened

LEMMA ReportedIs ==
  ASSUME TypeOK, NEW m \in ClientMsg, m.cmd = "Results"
  PROVE  /\ Reported(m) \in Seq(LogLine) /\ Reported(m) # <<>>
<1>1. [line |-> "results", stage |-> gStage, id |-> m.id] \in LogLine /\ log \in Seq(LogLine)
  BY BuildTypes, LogLines, ClientMsgKinds DEF TypeOK
<1>2. QED
  BY <1>1, RangeAppend DEF Reported

\* What a handler does to the server's variables and its channels, of whatever
\* message: AddReady may have been reached or not.
LEMMA NextVarDoes ==
  ASSUME TypeOK, NEW n \in Names, NEW k \in Conns, NEW sent \in Nat,
         NEW ch \in [Conns -> Seq(ServerMsg)], NEW lines,
         NextVar(n, k, sent, ch, lines)
  PROVE  /\ toClient' \in [Conns -> Seq(ServerMsg)]
         /\ toClient'[k] = Append(ch[k], [cmd |-> "SetEnv", var |-> sent])
         /\ \A l \in Conns : l # k => toClient'[l] = ch[l]
         /\ gClientEnvNum' \in [Names -> 0 .. gSetEnv]
<1>1. PICK x : x = [cmd |-> "SetEnv", var |-> sent]
  OBVIOUS
<1>2. x \in ServerMsg
  BY <1>1, ToClientMsgs
<1>3. ch[k] \in Seq(ServerMsg)
  OBVIOUS
<1>4. Append(ch[k], x) \in Seq(ServerMsg)
  BY <1>2, <1>3, RangeAppend
<1>5. sent + 1 \in 0 .. gSetEnv
  BY BuildTypes DEF NextVar
<1>6. QED
  BY <1>1, <1>4, <1>5 DEF NextVar, TypeOK

LEMMA ReceiveServerTypes ==
  ASSUME TypeOK, NEW k \in Conns, Receive(k)
  PROVE  /\ gIDCount' \in gIDCount .. (Len(build) + 1)
         /\ gStage' \in Stages \cup {NoStage}
         /\ gExit' \in BOOLEAN /\ gRealTimeError' \in BOOLEAN
         /\ gClientEnvNum' \in [Names -> 0 .. gSetEnv]
         /\ gClientStatus' \in [Names -> {"none", "Waiting", "Busy"}]
         /\ gClientHandles' \in [Names -> Conns \cup {NoConn}]
         /\ log' \in Seq(LogLine)
         /\ outcome' \in {"running", "done", "error"}
         /\ toClient' \in [Conns -> Seq(ServerMsg)]
<1> DEFINE m == Head(toServer[k])
<1>1. /\ outcome = "running" /\ toServer[k] # <<>>
      /\ GetsReady(k, m) \/ GetsEnvReady(k, m) \/ GetsResults(m)
      /\ toServer' = [toServer EXCEPT ![k] = Tail(@)]
  BY ReceiveCases
<1>2. m \in ClientMsg /\ m.name \in Names
  BY <1>1, HeadIs, ClientMsgKinds
<1> HIDE DEF m
<1>3. /\ gIDCount \in gIDCount .. (Len(build) + 1) /\ gStage \in Stages \cup {NoStage}
      /\ gRealTimeError \in BOOLEAN /\ toClient \in [Conns -> Seq(ServerMsg)]
      /\ log \in Seq(LogLine) /\ 0 \in 0 .. gSetEnv /\ 0 \in Nat
  BY BuildTypes DEF TypeOK
<1>4. ASSUME NEW n \in Names, NEW sent \in 0 .. gSetEnv,
             NEW ch \in [Conns -> Seq(ServerMsg)], NEW lines \in Seq(LogLine),
             NextVar(n, k, sent, ch, lines) \/ HasAll(n, sent, ch, lines)
      PROVE  /\ gIDCount' \in gIDCount .. (Len(build) + 1)
             /\ gStage' \in Stages \cup {NoStage}
             /\ gExit' \in BOOLEAN /\ gRealTimeError' \in BOOLEAN
             /\ gClientEnvNum' \in [Names -> 0 .. gSetEnv]
             /\ gClientStatus' \in [Names -> {"none", "Waiting", "Busy"}]
             /\ log' \in Seq(LogLine)
             /\ outcome' \in {"running", "done", "error"}
             /\ toClient' \in [Conns -> Seq(ServerMsg)]
  <2>1. CASE NextVar(n, k, sent, ch, lines)
    <3>1. sent \in Nat
      OBVIOUS
    <3>2. toClient' \in [Conns -> Seq(ServerMsg)] /\ gClientEnvNum' \in [Names -> 0 .. gSetEnv]
      BY <2>1, <3>1, NextVarDoes
    <3>3. /\ gIDCount' = gIDCount /\ gStage' = gStage /\ gExit' = gExit /\ log' = lines
          /\ gRealTimeError' = gRealTimeError /\ gClientStatus' = gClientStatus
          /\ outcome' = outcome
      BY <2>1 DEF NextVar
    <3>4. gExit \in BOOLEAN /\ gClientStatus \in [Names -> {"none", "Waiting", "Busy"}]
      BY DEF TypeOK
    <3>5. QED
      BY <1>1, <1>3, <3>2, <3>3, <3>4
  <2>2. CASE HasAll(n, sent, ch, lines)
    <3>1. AddReady(n, ch, lines, gRealTimeError)
      BY <2>2 DEF HasAll
    <3>2. gClientEnvNum' \in [Names -> 0 .. gSetEnv]
      BY <2>2 DEF HasAll, TypeOK
    <3>3. QED
      BY <1>1, <1>3, <3>1, <3>2, AddReadyDoes DEF MadeBusy, Given
  <2>3. QED
    BY <1>4, <2>1, <2>2
<1>5. CASE GetsReady(k, m)
  <2>1. /\ NewName(k, m) \in Names /\ Greeted(k, m) \in [Conns -> Seq(ServerMsg)]
        /\ Opened \in Seq(LogLine)
    BY <1>2, GreetedIs, OpenedIs
  <2>2. gClientHandles' \in [Names -> Conns \cup {NoConn}]
    BY <1>5, <2>1 DEF GetsReady, TypeOK
  <2>3. QED
    BY <1>3, <1>4, <1>5, <2>1, <2>2 DEF GetsReady
<1>6. CASE GetsEnvReady(k, m)
  <2>1. gClientEnvNum[m.name] \in 0 .. gSetEnv /\ gClientHandles' \in [Names -> Conns \cup {NoConn}]
    BY <1>2, <1>6 DEF TypeOK, GetsEnvReady
  <2>2. QED
    BY <1>2, <1>3, <1>4, <1>6, <2>1 DEF GetsEnvReady
<1>7. CASE GetsResults(m)
  <2>1. /\ m.cmd = "Results" /\ AddReady(m.name, toClient, Reported(m), gRealTimeError \/ m.bad)
        /\ gClientEnvNum' = gClientEnvNum /\ gClientHandles' = gClientHandles
    BY <1>7 DEF GetsResults
  <2>2. Reported(m) \in Seq(LogLine) /\ (gRealTimeError \/ m.bad) \in BOOLEAN
    BY <1>2, <1>3, <2>1, ReportedIs
  <2>3. gClientEnvNum' \in [Names -> 0 .. gSetEnv] /\ gClientHandles' \in [Names -> Conns \cup {NoConn}]
    BY <2>1 DEF TypeOK
  <2>4. QED
    BY <1>1, <1>2, <1>3, <2>1, <2>2, <2>3, AddReadyDoes DEF MadeBusy, Given
<1>8. QED
  BY <1>1, <1>5, <1>6, <1>7

\* A message that the handler of connection k has put on connection l.
Fresh(k, l, x) ==
  \/ l = k /\ x.cmd = "SetEnv" /\ x.var < gSetEnv
  \/ l = k /\ x.cmd = "ChangeClientName" /\ x.name \in Names /\ gClientHandles'[x.name] = k
  \/ Last(l, x)

LEMMA GivenFresh ==
  ASSUME NEW k \in Conns, NEW ch \in [Conns -> Seq(ServerMsg)], Given(ch),
         \A l \in Conns : \A x \in Range(ch[l]) : x \in Range(toClient[l]) \/ Fresh(k, l, x),
         \A l \in Conns : l # k => ch[l] = toClient[l]
  PROVE  /\ \A l \in Conns : \A x \in Range(toClient'[l]) :
              x \in Range(toClient[l]) \/ Fresh(k, l, x)
         /\ \A l \in Conns :
              \/ l = k \/ toClient'[l] = toClient[l]
              \/ \E x \in ServerMsg : toClient'[l] = Append(toClient[l], x) /\ Last(l, x)
<1>1. ASSUME NEW l \in Conns, NEW x \in Range(toClient'[l])
      PROVE  x \in Range(toClient[l]) \/ Fresh(k, l, x)
  <2>1. CASE toClient'[l] = ch[l]
    BY <2>1
  <2>2. CASE \E m \in ServerMsg : toClient'[l] = Append(ch[l], m) /\ Last(l, m)
    <3>1. PICK m \in ServerMsg : toClient'[l] = Append(ch[l], m) /\ Last(l, m)
      BY <2>2
    <3>2. ch[l] \in Seq(ServerMsg)
      OBVIOUS
    <3>3. Range(Append(ch[l], m)) = Range(ch[l]) \cup {m}
      BY <3>2, RangeAppend
    <3>4. x \in Range(ch[l]) \/ x = m
      BY <3>1, <3>3
    <3>5. QED
      BY <3>1, <3>4 DEF Fresh
  <2>3. QED
    BY <2>1, <2>2 DEF Given
<1>2. ASSUME NEW l \in Conns, toClient'[l] # toClient[l], l # k
      PROVE  \E x \in ServerMsg : toClient'[l] = Append(toClient[l], x) /\ Last(l, x)
  BY <1>2 DEF Given
<1>3. QED
  BY <1>1, <1>2

LEMMA ReceiveSends ==
  ASSUME TypeOK, NEW k \in Conns, Receive(k)
  PROVE  /\ \A l \in Conns : \A x \in Range(toClient'[l]) :
              x \in Range(toClient[l]) \/ Fresh(k, l, x)
         /\ \A l \in Conns :
              \/ l = k \/ toClient'[l] = toClient[l]
              \/ \E x \in ServerMsg : toClient'[l] = Append(toClient[l], x) /\ Last(l, x)
<1> DEFINE m == Head(toServer[k])
<1>1. /\ outcome = "running" /\ toServer[k] # <<>>
      /\ GetsReady(k, m) \/ GetsEnvReady(k, m) \/ GetsResults(m)
      /\ toServer' = [toServer EXCEPT ![k] = Tail(@)]
  BY ReceiveCases
<1>2. m \in ClientMsg /\ m.name \in Names
  BY <1>1, HeadIs, ClientMsgKinds
<1> HIDE DEF m
<1>3. toClient \in [Conns -> Seq(ServerMsg)] /\ gRealTimeError \in BOOLEAN /\ log \in Seq(LogLine)
  BY DEF TypeOK
<1>4. ASSUME NEW n \in Names, NEW sent \in 0 .. gSetEnv,
             NEW ch \in [Conns -> Seq(ServerMsg)], NEW lines \in Seq(LogLine),
             NextVar(n, k, sent, ch, lines) \/ HasAll(n, sent, ch, lines),
             \A l \in Conns : \A x \in Range(ch[l]) : x \in Range(toClient[l]) \/ Fresh(k, l, x),
             \A l \in Conns : l # k => ch[l] = toClient[l]
      PROVE  /\ \A l \in Conns : \A x \in Range(toClient'[l]) :
                  x \in Range(toClient[l]) \/ Fresh(k, l, x)
             /\ \A l \in Conns :
                  \/ l = k \/ toClient'[l] = toClient[l]
                  \/ \E x \in ServerMsg : toClient'[l] = Append(toClient[l], x) /\ Last(l, x)
  <2>1. CASE NextVar(n, k, sent, ch, lines)
    <3>1. sent \in Nat
      OBVIOUS
    <3>2. PICK x : x = [cmd |-> "SetEnv", var |-> sent]
      OBVIOUS
    <3>3. /\ toClient'[k] = Append(ch[k], x)
          /\ \A l \in Conns : l # k => toClient'[l] = ch[l]
      BY <2>1, <3>1, <3>2, NextVarDoes
    <3>4. x \in ServerMsg /\ ch[k] \in Seq(ServerMsg)
      BY <3>1, <3>2, ToClientMsgs
    <3>5. Range(toClient'[k]) = Range(ch[k]) \cup {x}
      BY <3>3, <3>4, RangeAppend
    <3>6. Fresh(k, k, x)
      BY <2>1, <3>2 DEF Fresh, NextVar
    <3>7. QED
      BY <1>4, <3>3, <3>5, <3>6
  <2>2. CASE HasAll(n, sent, ch, lines)
    <3>1. AddReady(n, ch, lines, gRealTimeError)
      BY <2>2 DEF HasAll
    <3>2. Given(ch)
      BY <1>1, <1>3, <3>1, AddReadyDoes
    <3>3. QED
      BY <1>4, <3>2, GivenFresh
  <2>3. QED
    BY <1>4, <2>1, <2>2
<1>5. CASE GetsReady(k, m)
  <2>1. /\ NewName(k, m) \in Names /\ Greeted(k, m) \in [Conns -> Seq(ServerMsg)]
        /\ Opened \in Seq(LogLine)
        /\ \A l \in Conns : l # k => Greeted(k, m)[l] = toClient[l]
    BY <1>2, GreetedIs, OpenedIs
  <2>2. \A x \in Range(Greeted(k, m)[k]) : x \in Range(toClient[k]) \/ Fresh(k, k, x)
    <3>1. CASE ~Known(m.name)
      BY <1>2, <3>1, GreetedIs
    <3>2. CASE Known(m.name)
      <4>1. PICK y : y = [cmd |-> "ChangeClientName", name |-> NewName(k, m)]
        OBVIOUS
      <4>2. Greeted(k, m)[k] = Append(toClient[k], y)
        BY <1>2, <3>2, <4>1, GreetedIs
      <4>3. y \in ServerMsg /\ toClient[k] \in Seq(ServerMsg)
        BY <1>3, <2>1, <4>1, ToClientMsgs
      <4>4. Range(Greeted(k, m)[k]) = Range(toClient[k]) \cup {y}
        BY <4>2, <4>3, RangeAppend
      <4>5. gClientHandles'[NewName(k, m)] = k
        BY <1>5, <2>1 DEF GetsReady, TypeOK
      <4>6. Fresh(k, k, y)
        BY <2>1, <4>1, <4>5 DEF Fresh
      <4>7. QED
        BY <4>4, <4>6
    <3>3. QED
      BY <3>1, <3>2
  <2>3. \A l \in Conns : \A x \in Range(Greeted(k, m)[l]) :
          x \in Range(toClient[l]) \/ Fresh(k, l, x)
    BY <2>1, <2>2
  <2>4. 0 \in 0 .. gSetEnv
    BY BuildTypes
  <2>5. QED
    BY <1>4, <1>5, <2>1, <2>3, <2>4 DEF GetsReady
<1>6. CASE GetsEnvReady(k, m)
  <2>1. gClientEnvNum[m.name] \in 0 .. gSetEnv
    BY <1>2 DEF TypeOK
  <2>2. QED
    BY <1>2, <1>3, <1>4, <1>6, <2>1 DEF GetsEnvReady
<1>7. CASE GetsResults(m)
  <2>1. m.cmd = "Results" /\ AddReady(m.name, toClient, Reported(m), gRealTimeError \/ m.bad)
    BY <1>7 DEF GetsResults
  <2>2. Reported(m) \in Seq(LogLine) /\ (gRealTimeError \/ m.bad) \in BOOLEAN
    BY <1>2, <1>3, <2>1, ReportedIs
  <2>3. Given(toClient)
    BY <1>1, <1>2, <1>3, <2>1, <2>2, AddReadyDoes
  <2>4. QED
    BY <1>3, <2>3, GivenFresh
<1>8. QED
  BY <1>1, <1>5, <1>6, <1>7

-----------------------------------------------------------------------------
(* Types *)

LEMMA InitTypes == Init => TypeStrong
<1> SUFFICES ASSUME Init PROVE TypeStrong
  OBVIOUS
<1>1. build \in Seq(Command) /\ Len(build) \in Nat
  BY BuildServerAssumption DEF Init
<1>2. gIDCount \in 1 .. (Len(build) + 1)
  BY <1>1 DEF Init
<1>3. gStage \in Stages \cup {NoStage}
  <2>1. CASE build = <<>>
    BY <2>1 DEF Init
  <2>2. CASE build # <<>>
    <3>1. build[1] \in Command
      BY <1>1, <2>2
    <3>2. QED
      BY <2>2, <3>1 DEF Init, Command
  <2>3. QED
    BY <2>1, <2>2
<1>4. \A c \in Clients : Name(c) \in Names
  BY NamesAssumption DEF Init, Name, Names
<1>5. log \in Seq(LogLine) /\ toServer \in [Conns -> Seq(ClientMsg)]
      /\ toClient \in [Conns -> Seq(ServerMsg)]
  BY DEF Init
<1>6. gSetEnv \in Nat
  BY BuildServerAssumption DEF Init
<1>7. env \in [Clients -> SUBSET (0 .. (gSetEnv - 1))]
  BY DEF Init
<1>8. TypeOK
  <2>1. /\ build \in Builds /\ gSetEnv \in 0 .. MaxSetEnv
        /\ iClientName \in CommandLines /\ iExitAfter \in ExitAfters
        /\ gExit \in BOOLEAN /\ gRealTimeError \in BOOLEAN
        /\ outcome \in {"running", "done", "error", "lost"}
        /\ accepted \subseteq Conns /\ open \subseteq Conns
    BY DEF Init
  <2>2. /\ gClientEnvNum \in [Names -> 0 .. gSetEnv]
        /\ gClientStatus \in [Names -> {"none", "Waiting", "Busy"}]
        /\ gClientHandles \in [Names -> Conns \cup {NoConn}]
    BY <1>6 DEF Init
  <2>3. /\ pc \in [Clients -> {"connect", "loop", "execute", "exited", "crashed"}]
        /\ gClientName \in [Clients -> Names]
        /\ timer \in [Clients -> BOOLEAN]
    BY <1>4 DEF Init
  <2>4. iSuccessConnect \in [Clients -> 0 .. MaxConnects]
    BY BuildServerAssumption DEF Init
  <2>5. job \in [Clients -> [conn : Conns \cup {NoConn}, id : Nat]]
    BY DEF Init, NoJob
  <2>6. QED
    BY <1>2, <1>3, <1>5, <1>7, <2>1, <2>2, <2>3, <2>4, <2>5 DEF TypeOK
<1>9. SentVars /\ ReadyVars /\ JobConns
  BY RangeNone DEF Init, SentVars, ReadyVars, JobConns
<1>10. QED
  BY <1>8, <1>9 DEF TypeStrong

LEMMA ReceiveTypes ==
  ASSUME TypeStrong, NEW k \in Conns, Receive(k)
  PROVE  TypeStrong'
<1>1. /\ toServer[k] # <<>>
      /\ toServer' = [toServer EXCEPT ![k] = Tail(@)]
      /\ UNCHANGED <<input, accepted, clientVars, open>>
  BY ReceiveCases
<1>2. /\ toServer' \in [Conns -> Seq(ClientMsg)]
      /\ \A l \in Conns : Range(toServer'[l]) \subseteq Range(toServer[l])
  BY <1>1, HeadIs DEF TypeStrong
<1>3. gIDCount' \in 1 .. (Len(build) + 1)
  BY ReceiveServerTypes, BuildTypes DEF TypeStrong
<1>4. TypeOK'
  BY <1>1, <1>2, <1>3, ReceiveServerTypes DEF TypeStrong, TypeOK, input, clientVars
<1>5. SentVars'
  <2> SUFFICES ASSUME NEW l \in Conns, NEW x \in Range(toClient'[l]), x.cmd = "SetEnv"
               PROVE  x.var < gSetEnv
    BY <1>1 DEF SentVars, input
  <2>1. x \in Range(toClient[l]) \/ Fresh(k, l, x)
    BY ReceiveSends DEF TypeStrong
  <2>2. QED
    BY <2>1 DEF Fresh, Last, TypeStrong, SentVars
<1>6. ReadyVars' /\ JobConns'
  BY <1>1, <1>2 DEF TypeStrong, ReadyVars, JobConns, input, clientVars
<1>7. QED
  BY <1>4, <1>5, <1>6 DEF TypeStrong

\* The server's variables and the input, when a client takes a step.
ServerStill == UNCHANGED <<input, serverVars, accepted>>

LEMMA ReadMsgCases ==
  ASSUME NEW c \in Clients, NEW k \in Conns, ReadMsg(c, k)
  PROVE  /\ ServerStill /\ CanRead(c, k)
         /\ \/ ChangeClientName(c, Head(toClient[k]))
            \/ SetEnv(c, k, Head(toClient[k]))
            \/ Exit(c, Head(toClient[k]))
            \/ Execute(c, k, Head(toClient[k]))
         /\ toClient' = [toClient EXCEPT ![k] = Tail(@)]
         /\ timer' = [timer EXCEPT ![c] = FALSE]
         /\ iSuccessConnect' = iSuccessConnect
BY DEF ReadMsg, ServerStill

LEMMA ToClientHead ==
  ASSUME TypeOK, NEW k \in Conns, toClient[k] # <<>>,
         toClient' = [toClient EXCEPT ![k] = Tail(@)]
  PROVE  /\ Head(toClient[k]) \in ServerMsg /\ Head(toClient[k]) \in Range(toClient[k])
         /\ toClient' \in [Conns -> Seq(ServerMsg)]
         /\ toClient'[k] = Tail(toClient[k])
         /\ \A l \in Conns : l # k => toClient'[l] = toClient[l]
         /\ \A l \in Conns : Range(toClient'[l]) \subseteq Range(toClient[l])
<1>1. toClient \in [Conns -> Seq(ServerMsg)]
  BY DEF TypeOK
<1>2. toClient[k] \in Seq(ServerMsg)
  BY <1>1
<1>3. /\ Head(toClient[k]) \in ServerMsg /\ Tail(toClient[k]) \in Seq(ServerMsg)
      /\ Head(toClient[k]) \in Range(toClient[k])
      /\ Range(Tail(toClient[k])) \subseteq Range(toClient[k])
  BY <1>2, RangeTail
<1>4. QED
  BY <1>1, <1>3

LEMMA ReplyIs ==
  ASSUME TypeOK, NEW k \in Conns, NEW m \in ClientMsg, Reply(k, m)
  PROVE  /\ toServer' \in [Conns -> Seq(ClientMsg)]
         /\ toServer'[k] = Append(toServer[k], m)
         /\ Range(toServer'[k]) = Range(toServer[k]) \cup {m}
         /\ \A l \in Conns : l # k => toServer'[l] = toServer[l]
<1>1. toServer \in [Conns -> Seq(ClientMsg)]
  BY DEF TypeOK
<1>2. toServer[k] \in Seq(ClientMsg)
  BY <1>1
<1>3. /\ Append(toServer[k], m) \in Seq(ClientMsg)
      /\ Range(Append(toServer[k], m)) = Range(toServer[k]) \cup {m}
  BY <1>2, RangeAppend
<1>4. QED
  BY <1>1, <1>3 DEF Reply

\* A step of client c that leaves the server alone keeps the types, when it
\* keeps those of the client and of what it sends.
LEMMA ClientStepTypes ==
  ASSUME TypeStrong, ServerStill,
         pc' \in [Clients -> {"connect", "loop", "execute", "exited", "crashed"}],
         gClientName' \in [Clients -> Names],
         iSuccessConnect' \in [Clients -> 0 .. MaxConnects],
         timer' \in [Clients -> BOOLEAN],
         env' \in [Clients -> SUBSET (0 .. (gSetEnv - 1))],
         job' \in [Clients -> [conn : Conns \cup {NoConn}, id : Nat]],
         open' \subseteq Conns,
         toServer' \in [Conns -> Seq(ClientMsg)],
         toClient' \in [Conns -> Seq(ServerMsg)],
         \A l \in Conns : Range(toClient'[l]) \subseteq Range(toClient[l]),
         \A l \in Conns : \A m \in Range(toServer'[l]) :
           m \in Range(toServer[l]) \/ (m.cmd = "SetEnv Ready" => gSetEnv > 0),
         \A c \in Clients : pc'[c] = "execute" =>
           job'[c].conn \in Conns /\ job'[c].conn[1] = c
  PROVE  TypeStrong'
<1>1. TypeOK'
  BY DEF TypeStrong, TypeOK, ServerStill, input, serverVars
<1>2. SentVars' /\ ReadyVars' /\ JobConns'
  BY DEF TypeStrong, SentVars, ReadyVars, JobConns, ServerStill, input
<1>3. QED
  BY <1>1, <1>2 DEF TypeStrong

\* The same, when neither the channels nor the jobs change.
LEMMA QuietStepTypes ==
  ASSUME TypeStrong, ServerStill,
         pc' \in [Clients -> {"connect", "loop", "execute", "exited", "crashed"}],
         gClientName' \in [Clients -> Names],
         timer' \in [Clients -> BOOLEAN],
         open' \subseteq Conns,
         UNCHANGED <<iSuccessConnect, env, job, toServer, toClient>>,
         \A c \in Clients : pc'[c] = "execute" => pc[c] = "execute"
  PROVE  TypeStrong'
<1>1. /\ iSuccessConnect' \in [Clients -> 0 .. MaxConnects]
      /\ env' \in [Clients -> SUBSET (0 .. (gSetEnv - 1))]
      /\ job' \in [Clients -> [conn : Conns \cup {NoConn}, id : Nat]]
      /\ toServer' \in [Conns -> Seq(ClientMsg)]
      /\ toClient' \in [Conns -> Seq(ServerMsg)]
  BY DEF TypeStrong, TypeOK
<1>2. /\ \A l \in Conns : Range(toClient'[l]) \subseteq Range(toClient[l])
      /\ \A l \in Conns : \A m \in Range(toServer'[l]) : m \in Range(toServer[l])
  OBVIOUS
<1>3. \A c \in Clients : pc'[c] = "execute" => job'[c].conn \in Conns /\ job'[c].conn[1] = c
  BY DEF TypeStrong, JobConns
<1>4. QED
  BY <1>1, <1>2, <1>3, ClientStepTypes

LEMMA LeaveLoopIs ==
  ASSUME TypeOK, NEW c \in Clients, LeaveLoop(c)
  PROVE  /\ pc' \in [Clients -> {"connect", "loop", "execute", "exited", "crashed"}]
         /\ pc'[c] \in {"connect", "exited"}
         /\ \A d \in Clients : d # c => pc'[d] = pc[d]
         /\ gClientName' \in [Clients -> Names]
         /\ gClientName'[c] = Name(c)
         /\ \A d \in Clients : d # c => gClientName'[d] = gClientName[d]
         /\ open' \subseteq open
         /\ \A k \in open \ open' : k[1] = c
<1>1. Name(c) \in Names
  BY NameTypes
<1>2. QED
  BY <1>1 DEF LeaveLoop, Leave, Mine, TypeOK

LEMMA ReadMsgTypes ==
  ASSUME TypeStrong, NEW c \in Clients, NEW k \in Conns, ReadMsg(c, k)
  PROVE  TypeStrong'
<1> DEFINE m == Head(toClient[k])
<1>1. /\ ServerStill /\ CanRead(c, k)
      /\ ChangeClientName(c, m) \/ SetEnv(c, k, m) \/ Exit(c, m) \/ Execute(c, k, m)
      /\ toClient' = [toClient EXCEPT ![k] = Tail(@)]
      /\ timer' = [timer EXCEPT ![c] = FALSE] /\ iSuccessConnect' = iSuccessConnect
  BY ReadMsgCases
<1>2. TypeOK /\ toClient[k] # <<>> /\ k[1] = c
  BY <1>1 DEF CanRead, TypeStrong, Mine
<1>3. /\ m \in ServerMsg /\ m \in Range(toClient[k])
      /\ toClient' \in [Conns -> Seq(ServerMsg)]
      /\ \A l \in Conns : Range(toClient'[l]) \subseteq Range(toClient[l])
  BY <1>1, <1>2, ToClientHead
<1> HIDE DEF m
<1>4. /\ m.cmd = "ChangeClientName" => m.name \in Names
      /\ m.cmd = "SetEnv" => m.var \in Nat /\ m.var < gSetEnv
      /\ m.cmd = "Execute" => m.id \in Nat
  BY <1>3, ServerMsgKinds DEF TypeStrong, SentVars
<1>5. timer' \in [Clients -> BOOLEAN] /\ iSuccessConnect' \in [Clients -> 0 .. MaxConnects]
  BY <1>1, <1>2 DEF TypeOK
<1>6. toServer \in [Conns -> Seq(ClientMsg)] /\ gSetEnv \in Nat /\ gClientName[c] \in Names
  BY <1>2, BuildTypes DEF TypeOK
<1>7. /\ pc' \in [Clients -> {"connect", "loop", "execute", "exited", "crashed"}]
      /\ gClientName' \in [Clients -> Names]
      /\ open' \subseteq Conns
      /\ env' \in [Clients -> SUBSET (0 .. (gSetEnv - 1))]
      /\ job' \in [Clients -> [conn : Conns \cup {NoConn}, id : Nat]]
      /\ toServer' \in [Conns -> Seq(ClientMsg)]
      /\ \A l \in Conns : \A x \in Range(toServer'[l]) :
           x \in Range(toServer[l]) \/ (x.cmd = "SetEnv Ready" => gSetEnv > 0)
      /\ \A d \in Clients : pc'[d] = "execute" => job'[d].conn \in Conns /\ job'[d].conn[1] = d
  <2>1. CASE ChangeClientName(c, m)
    BY <1>2, <1>4, <1>6, <2>1 DEF ChangeClientName, TypeOK, TypeStrong, JobConns
  <2>2. CASE SetEnv(c, k, m)
    <3>1. m.cmd = "SetEnv" /\ m.var \in 0 .. (gSetEnv - 1)
      <4>1. m.cmd = "SetEnv"
        BY <2>2 DEF SetEnv
      <4>2. m.var \in Nat /\ m.var < gSetEnv
        BY <1>4, <4>1
      <4>3. QED
        BY <1>6, <4>1, <4>2
    <3>2. env' \in [Clients -> SUBSET (0 .. (gSetEnv - 1))]
      BY <1>2, <2>2, <3>1 DEF SetEnv, TypeOK
    <3>3. PICK x : x = [cmd |-> "SetEnv Ready", name |-> gClientName[c]]
      OBVIOUS
    <3>4. x \in ClientMsg /\ Reply(k, x)
      BY <1>6, <2>2, <3>3, ToServerMsgs DEF SetEnv
    <3>5. gSetEnv > 0
      BY <1>6, <3>1
    <3>6. /\ toServer' \in [Conns -> Seq(ClientMsg)]
          /\ Range(toServer'[k]) = Range(toServer[k]) \cup {x}
          /\ \A l \in Conns : l # k => toServer'[l] = toServer[l]
      BY <1>2, <3>4, ReplyIs
    <3>7. \A l \in Conns : \A y \in Range(toServer'[l]) :
            y \in Range(toServer[l]) \/ (y.cmd = "SetEnv Ready" => gSetEnv > 0)
      BY <3>5
    <3>8. QED
      BY <1>2, <2>2, <3>2, <3>6, <3>7 DEF SetEnv, TypeOK, TypeStrong, JobConns
  <2>3. CASE Exit(c, m)
    BY <1>2, <1>6, <2>3 DEF Exit, Leave, TypeOK, TypeStrong, JobConns
  <2>4. CASE Execute(c, k, m)
    <3>1. job' = [job EXCEPT ![c] = [conn |-> k, id |-> m.id]] /\ m.id \in Nat
      BY <1>4, <2>4 DEF Execute
    <3>2. PICK j : j = [conn |-> k, id |-> m.id]
      OBVIOUS
    <3>3. j \in [conn : Conns \cup {NoConn}, id : Nat] /\ j.conn = k
      BY <3>1, <3>2
    <3>4. job' = [job EXCEPT ![c] = j]
      BY <3>1, <3>2
    <3>5. job' \in [Clients -> [conn : Conns \cup {NoConn}, id : Nat]]
          /\ job'[c].conn = k /\ \A d \in Clients : d # c => job'[d] = job[d]
      BY <1>2, <3>3, <3>4 DEF TypeOK
    <3>6. QED
      BY <1>2, <1>6, <2>4, <3>5 DEF Execute, TypeOK, TypeStrong, JobConns
  <2>5. QED
    BY <1>1, <2>1, <2>2, <2>3, <2>4
<1>8. QED
  BY <1>1, <1>3, <1>5, <1>7, ClientStepTypes

LEMMA ConnectTypes ==
  ASSUME TypeStrong, NEW c \in Clients, Connect(c)
  PROVE  TypeStrong'
<1> DEFINE k == <<c, iSuccessConnect[c] + 1>>
<1>1. TypeOK /\ MaxConnects \in Nat /\ iSuccessConnect[c] \in 0 .. MaxConnects
  BY BuildServerAssumption DEF TypeStrong, TypeOK
<1>2. iSuccessConnect[c] + 1 \in 1 .. MaxConnects
  BY <1>1 DEF Connect
<1>3. k \in Conns
  BY <1>2 DEF Conns
<1>4. PICK m : m = [cmd |-> "Ready", name |-> gClientName[c]]
  OBVIOUS
<1>5. m \in ClientMsg /\ m.cmd = "Ready"
  BY <1>1, <1>4, ToServerMsgs DEF TypeOK
<1>6. toServer' = [toServer EXCEPT ![k] = <<m>>]
  BY <1>4 DEF Connect
<1> HIDE DEF k
<1>7. /\ toServer' \in [Conns -> Seq(ClientMsg)]
      /\ toServer'[k] = <<m>>
      /\ \A l \in Conns : l # k => toServer'[l] = toServer[l]
  BY <1>1, <1>3, <1>5, <1>6 DEF TypeOK
<1>8. \A l \in Conns : \A x \in Range(toServer'[l]) :
        x \in Range(toServer[l]) \/ (x.cmd = "SetEnv Ready" => gSetEnv > 0)
  <2> SUFFICES ASSUME NEW l \in Conns, NEW x \in Range(toServer'[l])
               PROVE  x \in Range(toServer[l]) \/ (x.cmd = "SetEnv Ready" => gSetEnv > 0)
    OBVIOUS
  <2>1. CASE l = k
    BY <1>5, <1>7, <2>1, RangeOne
  <2>2. CASE l # k
    BY <1>7, <2>2
  <2>3. QED
    BY <2>1, <2>2
<1>9. open' = open \cup {k}
  BY DEF Connect, k
<1>10. /\ pc' \in [Clients -> {"connect", "loop", "execute", "exited", "crashed"}]
       /\ gClientName' \in [Clients -> Names]
       /\ timer' \in [Clients -> BOOLEAN]
       /\ env' \in [Clients -> SUBSET (0 .. (gSetEnv - 1))]
       /\ job' \in [Clients -> [conn : Conns \cup {NoConn}, id : Nat]]
       /\ toClient' \in [Conns -> Seq(ServerMsg)]
  BY <1>1 DEF Connect, TypeOK
<1>11. iSuccessConnect' \in [Clients -> 0 .. MaxConnects]
  BY <1>1, <1>2 DEF Connect, TypeOK
<1>12. open' \subseteq Conns
  BY <1>1, <1>3, <1>9 DEF TypeOK
<1>13. /\ \A l \in Conns : Range(toClient'[l]) \subseteq Range(toClient[l])
       /\ \A d \in Clients : pc'[d] = "execute" => job'[d].conn \in Conns /\ job'[d].conn[1] = d
  BY <1>1 DEF Connect, TypeStrong, TypeOK, JobConns
<1>14. ServerStill
  BY DEF Connect, ServerStill
<1>15. QED
  BY <1>7, <1>8, <1>10, <1>11, <1>12, <1>13, <1>14, ClientStepTypes

LEMMA FinishTypes ==
  ASSUME TypeStrong, NEW c \in Clients, Finish(c)
  PROVE  TypeStrong'
<1> DEFINE k == job[c].conn
<1>1. TypeOK /\ pc[c] = "execute" /\ k \in Conns /\ job[c].id \in Nat /\ gClientName[c] \in Names
  BY DEF TypeStrong, TypeOK, JobConns, Finish
<1>2. PICK bad \in BOOLEAN :
        Reply(k, [cmd |-> "Results", name |-> gClientName[c], id |-> job[c].id, bad |-> bad])
  BY DEF Finish
<1>3. PICK m : m = [cmd |-> "Results", name |-> gClientName[c], id |-> job[c].id, bad |-> bad]
  OBVIOUS
<1>4. m \in ClientMsg /\ m.cmd = "Results" /\ Reply(k, m)
  BY <1>1, <1>2, <1>3, ToServerMsgs
<1> HIDE DEF k
<1>5. /\ toServer' \in [Conns -> Seq(ClientMsg)]
      /\ Range(toServer'[k]) = Range(toServer[k]) \cup {m}
      /\ \A l \in Conns : l # k => toServer'[l] = toServer[l]
  BY <1>1, <1>4, ReplyIs
<1>6. \A l \in Conns : \A x \in Range(toServer'[l]) :
        x \in Range(toServer[l]) \/ (x.cmd = "SetEnv Ready" => gSetEnv > 0)
  BY <1>4, <1>5
<1>7. NoJob \in [conn : Conns \cup {NoConn}, id : Nat]
  BY DEF NoJob
<1>8. /\ pc' \in [Clients -> {"connect", "loop", "execute", "exited", "crashed"}]
      /\ gClientName' \in [Clients -> Names]
      /\ timer' \in [Clients -> BOOLEAN]
      /\ iSuccessConnect' \in [Clients -> 0 .. MaxConnects]
      /\ env' \in [Clients -> SUBSET (0 .. (gSetEnv - 1))]
      /\ toClient' \in [Conns -> Seq(ServerMsg)]
      /\ open' \subseteq Conns
      /\ \A l \in Conns : Range(toClient'[l]) \subseteq Range(toClient[l])
  BY <1>1 DEF Finish, TypeOK
<1>9. /\ job' \in [Clients -> [conn : Conns \cup {NoConn}, id : Nat]]
      /\ \A d \in Clients : d # c => job'[d] = job[d] /\ pc'[d] = pc[d]
      /\ pc'[c] = "loop"
  BY <1>1, <1>7 DEF Finish, TypeOK
<1>10. \A d \in Clients : pc'[d] = "execute" => job'[d].conn \in Conns /\ job'[d].conn[1] = d
  BY <1>9 DEF TypeStrong, JobConns
<1>11. ServerStill
  BY DEF Finish, ServerStill
<1>12. QED
  BY <1>5, <1>6, <1>8, <1>9, <1>10, <1>11, ClientStepTypes

LEMMA QuietTypes ==
  ASSUME TypeStrong, NEW c \in Clients,
         (\E k \in Conns : Unplug(c, k)) \/ Timeout(c) \/ Crash(c)
  PROVE  TypeStrong'
<1>1. TypeOK
  BY DEF TypeStrong
<1>2. ASSUME NEW k \in Conns, Unplug(c, k)
      PROVE  TypeStrong'
  <2>1. /\ ServerStill /\ UNCHANGED <<iSuccessConnect, env, job, toServer, toClient>>
        /\ timer' \in [Clients -> BOOLEAN]
    BY <1>1, <1>2 DEF Unplug, ServerStill, TypeOK
  <2>2. /\ pc' \in [Clients -> {"connect", "loop", "execute", "exited", "crashed"}]
        /\ gClientName' \in [Clients -> Names]
        /\ open' \subseteq Conns
        /\ \A d \in Clients : pc'[d] = "execute" => pc[d] = "execute"
    <3>1. CASE LeaveLoop(c)
      BY <1>1, <3>1, LeaveLoopIs DEF TypeOK
    <3>2. CASE open' = open \ {k} /\ UNCHANGED <<pc, gClientName>>
      BY <1>1, <3>2 DEF TypeOK
    <3>3. QED
      BY <1>2, <3>1, <3>2 DEF Unplug
  <2>3. QED
    BY <2>1, <2>2, QuietStepTypes
<1>3. ASSUME Timeout(c)
      PROVE  TypeStrong'
  <2>1. /\ ServerStill /\ UNCHANGED <<iSuccessConnect, env, job, toServer, toClient>>
        /\ timer' \in [Clients -> BOOLEAN] /\ LeaveLoop(c)
    BY <1>1, <1>3 DEF Timeout, ServerStill, TypeOK
  <2>2. QED
    BY <1>1, <2>1, LeaveLoopIs, QuietStepTypes DEF TypeOK
<1>4. ASSUME Crash(c)
      PROVE  TypeStrong'
  <2>1. /\ ServerStill /\ UNCHANGED <<iSuccessConnect, env, job, toServer, toClient, timer, gClientName>>
        /\ Leave(c, "crashed")
    BY <1>4 DEF Crash, ServerStill
  <2>2. /\ pc' \in [Clients -> {"connect", "loop", "execute", "exited", "crashed"}]
        /\ open' \subseteq Conns
        /\ timer' \in [Clients -> BOOLEAN] /\ gClientName' \in [Clients -> Names]
        /\ \A d \in Clients : pc'[d] = "execute" => pc[d] = "execute"
    BY <1>1, <2>1 DEF Leave, TypeOK
  <2>3. QED
    BY <2>1, <2>2, QuietStepTypes
<1>5. QED
  BY <1>2, <1>3, <1>4

LEMMA LostTypes ==
  ASSUME TypeStrong, NEW k \in Conns, Lost(k) \/ RecentNode(k)
  PROVE  TypeStrong'
<1>1. CASE Lost(k)
  <2>1. TypeOK'
    BY <1>1 DEF Lost, TypeStrong, TypeOK, input, clientVars, netVars
  <2>2. SentVars' /\ ReadyVars' /\ JobConns'
    BY <1>1 DEF Lost, TypeStrong, SentVars, ReadyVars, JobConns, input, clientVars, netVars
  <2>3. QED
    BY <2>1, <2>2 DEF TypeStrong
<1>2. CASE RecentNode(k)
  <2>1. TypeOK'
    BY <1>2 DEF RecentNode, TypeStrong, TypeOK, input, serverVars, clientVars, netVars
  <2>2. SentVars' /\ ReadyVars' /\ JobConns'
    BY <1>2 DEF RecentNode, TypeStrong, SentVars, ReadyVars, JobConns, input, clientVars, netVars
  <2>3. QED
    BY <2>1, <2>2 DEF TypeStrong
<1>3. QED
  BY <1>1, <1>2

\* The steps there are.
LEMMA NextCases ==
  ASSUME [Next]_vars
  PROVE  \/ UNCHANGED vars
         \/ \E k \in Conns : Receive(k)
         \/ \E k \in Conns : Lost(k) \/ RecentNode(k)
         \/ \E c \in Clients : Connect(c)
         \/ \E c \in Clients : Finish(c)
         \/ \E c \in Clients, k \in Conns : ReadMsg(c, k)
         \/ \E c \in Clients : (\E k \in Conns : Unplug(c, k)) \/ Timeout(c) \/ Crash(c)
BY DEF Next, Server, Client

LEMMA NextTypes == TypeStrong /\ [Next]_vars => TypeStrong'
<1> SUFFICES ASSUME TypeStrong, [Next]_vars PROVE TypeStrong'
  OBVIOUS
<1>1. CASE UNCHANGED vars
  BY <1>1 DEF TypeStrong, TypeOK, SentVars, ReadyVars, JobConns, vars, input, serverVars,
              clientVars, netVars
<1>2. QED
  BY <1>1, NextCases, ReceiveTypes, LostTypes, ConnectTypes, FinishTypes, ReadMsgTypes, QuietTypes

(* Every variable of the server, of the clients and of their connections   *)
(* holds a value of its type, however many clients there are: the commands *)
(* and variables that are sent are those of the files (TypeOK).            *)
THEOREM TypeCorrect == Spec => []TypeOK
<1>1. TypeStrong => TypeOK
  BY DEF TypeStrong
<1>2. QED
  BY <1>1, InitTypes, NextTypes, PTL DEF Spec

-----------------------------------------------------------------------------
(* Names and connections *)

\* A name that the server knows has a connection of its own that the server
\* reads; and who has a status is known.
HandlesInv ==
  /\ \A n \in Names : Known(n) =>
       /\ gClientHandles[n] \in accepted
       /\ n[2] \in {Own, gClientHandles[n]}
  /\ \A m, n \in Names : Known(n) /\ gClientHandles[m] = gClientHandles[n] => m = n
  /\ \A n \in Names : gClientStatus[n] # "none" => Known(n)

ReadyMsg(c) == [cmd |-> "Ready", name |-> Name(c)]

\* A connection is opened by its first message, and until that is read nothing
\* else is on it; afterwards the names on it are known.
ConnInv ==
  \A k \in Conns :
    /\ k[2] > iSuccessConnect[k[1]] =>
         k \notin accepted /\ toServer[k] = <<>> /\ toClient[k] = <<>>
    /\ \A m \in Range(toServer[k]) : m.cmd = "Ready" =>
         toServer[k] = <<ReadyMsg(k[1])>> /\ ~Used(k)
    /\ \A m \in Range(toServer[k]) : m.cmd # "Ready" => Used(k) /\ Known(m.name)
    /\ toClient[k] # <<>> => Used(k)
    /\ Used(k) => Known(Name(k[1]))
    /\ \A m \in Range(toClient[k]) : m.cmd = "ChangeClientName" => Known(m.name)

\* A client calls itself by its own name or by one that it was given.
CallerInv ==
  \A c \in Clients :
    /\ pc[c] = "execute" => Used(job[c].conn)
    /\ gClientName[c] = Name(c) \/ Known(gClientName[c])
    /\ outcome = "running" /\ pc[c] = "connect" => gClientName[c] = Name(c)

\* The log is opened by the first client.
LogInv == log = <<>> => \A n \in Names : ~Known(n)

ProtoInv == HandlesInv /\ ConnInv /\ CallerInv /\ LogInv

LEMMA InitProto == Init => ProtoInv
<1> SUFFICES ASSUME Init PROVE ProtoInv
  OBVIOUS
<1>1. \A n \in Names : ~Known(n)
  BY DEF Init, Known
<1>2. \A k \in Conns : ~Used(k)
  BY <1>1, NoConnAssumption DEF Used, Known
<1>3. HandlesInv /\ LogInv
  BY <1>1 DEF Init, HandlesInv, LogInv
<1>4. \A k \in Conns : toServer[k] = <<>> /\ toClient[k] = <<>> /\ k \notin accepted
  BY DEF Init
<1>5. ConnInv
  BY <1>2, <1>4, RangeNone DEF ConnInv
<1>6. CallerInv
  BY DEF Init, CallerInv
<1>7. QED
  BY <1>3, <1>5, <1>6 DEF ProtoInv

\* Who is known stays known, under the same connection.
LEMMA KnownStays ==
  ASSUME TypeStrong, ProtoInv, NEW k \in Conns, Receive(k)
  PROVE  /\ \A n \in Names : Known(n) => gClientHandles'[n] = gClientHandles[n] /\ (Known(n))'
         /\ \A l \in Conns : Used(l) => (Used(l))'
         /\ Head(toServer[k]).cmd = "Ready" =>
              /\ toServer[k] = <<ReadyMsg(k[1])>> /\ ~Used(k)
              /\ Head(toServer[k]) = ReadyMsg(k[1])
              /\ NewName(k, ReadyMsg(k[1])) \in Names
              /\ ~Known(NewName(k, ReadyMsg(k[1])))
              /\ NewName(k, ReadyMsg(k[1]))[2] \in {Own, k}
              /\ gClientHandles' = [gClientHandles EXCEPT ![NewName(k, ReadyMsg(k[1]))] = k]
         /\ Head(toServer[k]).cmd # "Ready" =>
              /\ gClientHandles' = gClientHandles
              /\ Used(k) /\ Known(Head(toServer[k]).name)
<1> DEFINE m == Head(toServer[k])
           n == NewName(k, ReadyMsg(k[1]))
<1>1. /\ toServer[k] # <<>>
      /\ GetsReady(k, m) \/ GetsEnvReady(k, m) \/ GetsResults(m)
      /\ toServer' = [toServer EXCEPT ![k] = Tail(@)]
  BY ReceiveCases
<1>0. TypeOK
  BY DEF TypeStrong
<1>2. TypeOK /\ m \in ClientMsg /\ m \in Range(toServer[k])
  BY <1>0, <1>1, HeadIs
<1>3. gClientHandles \in [Names -> Conns \cup {NoConn}]
  BY <1>2 DEF TypeOK
<1>4. CASE m.cmd = "Ready"
  <2>1. toServer[k] = <<ReadyMsg(k[1])>> /\ ~Used(k)
    BY <1>2, <1>4 DEF ProtoInv, ConnInv
  <2>2. m = ReadyMsg(k[1])
    BY <2>1
  <2>3. m.name = Name(k[1]) /\ k[1] \in Clients
    BY <2>2 DEF ReadyMsg, Conns
  <2>4. n \in Names
    BY <1>2, <2>2, GreetedIs
  <2>5. m.name \in Names /\ m.name[2] = Own /\ Renamed(m.name, k)[2] = k /\ k # Own
    <3>1. m.name[2] = Own
      BY <2>3 DEF Name
    <3>2. k # Own
      BY DEF Conns, Own
    <3>3. QED
      BY <1>2, <3>1, <3>2, ClientMsgKinds DEF Renamed
  <2>6. ~Known(n) /\ n[2] \in {Own, k}
    <3>1. CASE ~Known(m.name)
      BY <2>2, <2>5, <3>1 DEF NewName
    <3>2. CASE Known(m.name)
      <4>1. n[2] = k
        BY <2>2, <2>5, <3>2 DEF NewName
      <4>2. ASSUME Known(n) PROVE FALSE
        <5>1. gClientHandles[n] = k
          BY <2>4, <2>5, <4>1, <4>2 DEF ProtoInv, HandlesInv
        <5>2. QED
          BY <2>1, <2>4, <5>1 DEF Used
      <4>3. QED
        BY <4>1, <4>2
    <3>3. QED
      BY <3>1, <3>2
  <2>7. gClientHandles' = [gClientHandles EXCEPT ![n] = k]
    BY <1>1, <1>4, <2>2 DEF GetsReady, GetsEnvReady, GetsResults
  <2> HIDE DEF n
  <2>8. \A p \in Names : Known(p) => gClientHandles'[p] = gClientHandles[p] /\ (Known(p))'
    BY <1>3, <2>6, <2>7 DEF Known
  <2>9. \A l \in Conns : Used(l) => (Used(l))'
    <3> SUFFICES ASSUME NEW l \in Conns, NEW p \in Names, gClientHandles[p] = l
                 PROVE  \E q \in Names : gClientHandles'[q] = l
      BY DEF Used
    <3>1. Known(p)
      BY NoConnAssumption DEF Known
    <3>2. QED
      BY <2>8, <3>1
  <2>10. QED
    BY <1>4, <2>1, <2>2, <2>4, <2>6, <2>7, <2>8, <2>9 DEF n
<1>5. CASE m.cmd # "Ready"
  <2>1. gClientHandles' = gClientHandles
    BY <1>1, <1>5 DEF GetsReady, GetsEnvReady, GetsResults
  <2>2. Used(k) /\ Known(m.name)
    BY <1>2, <1>5 DEF ProtoInv, ConnInv
  <2>3. QED
    BY <1>5, <2>1, <2>2 DEF Known, Used
<1>6. QED
  BY <1>4, <1>5

\* Whose message is handled.
Served(k) ==
  IF Head(toServer[k]).cmd = "Ready" THEN NewName(k, Head(toServer[k]))
  ELSE Head(toServer[k]).name

\* Either its next variable goes out, or AddReady is reached.
LEMMA ReceiveEnds ==
  ASSUME TypeStrong, NEW k \in Conns, Receive(k)
  PROVE  /\ Served(k) \in Names
         /\ \/ gClientStatus' = gClientStatus /\ outcome' = outcome
            \/ MadeBusy(WaitingNow(Served(k)))
         /\ log # <<>> \/ Head(toServer[k]).cmd = "Ready" => log' # <<>>
<1> DEFINE m == Head(toServer[k])
<1>1. /\ outcome = "running" /\ toServer[k] # <<>>
      /\ GetsReady(k, m) \/ GetsEnvReady(k, m) \/ GetsResults(m)
      /\ toServer' = [toServer EXCEPT ![k] = Tail(@)]
  BY ReceiveCases
<1>2. TypeOK
  BY DEF TypeStrong
<1>3. m \in ClientMsg
  BY <1>1, <1>2, HeadIs
<1>4. m.name \in Names /\ NewName(k, m) \in Names
  BY <1>2, <1>3, ClientMsgKinds, GreetedIs
<1>5. Served(k) = IF m.cmd = "Ready" THEN NewName(k, m) ELSE m.name
  BY DEF Served
<1> HIDE DEF m
<1>6. toClient \in [Conns -> Seq(ServerMsg)] /\ gRealTimeError \in BOOLEAN /\ log \in Seq(LogLine)
  BY <1>2 DEF TypeOK
<1>7. ASSUME NEW n \in Names, NEW sent, NEW ch \in [Conns -> Seq(ServerMsg)],
             NEW lines \in Seq(LogLine),
             NextVar(n, k, sent, ch, lines) \/ HasAll(n, sent, ch, lines)
      PROVE  /\ \/ gClientStatus' = gClientStatus /\ outcome' = outcome
                \/ MadeBusy(WaitingNow(n))
             /\ lines # <<>> => log' # <<>>
  <2>1. CASE NextVar(n, k, sent, ch, lines)
    BY <2>1 DEF NextVar
  <2>2. CASE HasAll(n, sent, ch, lines)
    <3>1. AddReady(n, ch, lines, gRealTimeError)
      BY <2>2 DEF HasAll
    <3>2. QED
      BY <1>1, <1>2, <1>6, <3>1, AddReadyDoes
  <2>3. QED
    BY <1>7, <2>1, <2>2
<1>8. CASE GetsReady(k, m)
  <2>1. Greeted(k, m) \in [Conns -> Seq(ServerMsg)] /\ Opened \in Seq(LogLine) /\ Opened # <<>>
    BY <1>2, <1>3, GreetedIs, OpenedIs
  <2>2. m.cmd = "Ready"
    BY <1>8 DEF GetsReady
  <2>3. QED
    BY <1>4, <1>5, <1>7, <1>8, <2>1, <2>2 DEF GetsReady, m
<1>9. CASE GetsEnvReady(k, m)
  <2>1. m.cmd # "Ready"
    BY <1>9 DEF GetsEnvReady
  <2>2. QED
    BY <1>4, <1>5, <1>6, <1>7, <1>9, <2>1 DEF GetsEnvReady, m
<1>10. CASE GetsResults(m)
  <2>1. m.cmd = "Results" /\ AddReady(m.name, toClient, Reported(m), gRealTimeError \/ m.bad)
    BY <1>10 DEF GetsResults
  <2>2. /\ Reported(m) \in Seq(LogLine) /\ Reported(m) # <<>>
        /\ (gRealTimeError \/ m.bad) \in BOOLEAN
    BY <1>2, <1>3, <1>6, <2>1, ReportedIs, ClientMsgKinds
  <2>3. MadeBusy(WaitingNow(m.name)) /\ log' # <<>>
    BY <1>1, <1>2, <1>4, <1>6, <2>1, <2>2, AddReadyDoes
  <2>4. QED
    BY <1>4, <1>5, <2>1, <2>3
<1>11. QED
  BY <1>1, <1>8, <1>9, <1>10

\* Only the client that is served can be ready for the first time.
LEMMA StatusStays ==
  ASSUME TypeStrong, NEW k \in Conns, Receive(k)
  PROVE  /\ \A p \in Names : gClientStatus[p] # "none" => gClientStatus'[p] # "none"
         /\ \A p \in Names : gClientStatus'[p] # "none" =>
              gClientStatus[p] # "none" \/ p = Served(k)
<1>1. TypeOK
  BY DEF TypeStrong
<1>2. CASE gClientStatus' = gClientStatus
  BY <1>2
<1>3. CASE MadeBusy(WaitingNow(Served(k)))
  <2>1. Served(k) \in Names
    BY ReceiveEnds
  <2>2. /\ WaitingNow(Served(k))[Served(k)] = "Waiting"
        /\ \A m \in Names : m # Served(k) => WaitingNow(Served(k))[m] = gClientStatus[m]
    BY <1>1, <2>1, WaitingNowIs
  <2>3. QED
    BY <1>3, <2>1, <2>2 DEF MadeBusy
<1>4. QED
  BY <1>2, <1>3, ReceiveEnds

LEMMA ReceiveProto ==
  ASSUME TypeStrong, ProtoInv, NEW k \in Conns, Receive(k)
  PROVE  ProtoInv'
<1> DEFINE m == Head(toServer[k])
<1>0. PICK n : n = Served(k)
  OBVIOUS
<1>1. /\ outcome = "running" /\ k \in accepted /\ toServer[k] # <<>>
      /\ toServer' = [toServer EXCEPT ![k] = Tail(@)]
      /\ UNCHANGED <<input, accepted, clientVars, open>>
  BY ReceiveCases
<1>2. TypeOK /\ toServer \in [Conns -> Seq(ClientMsg)]
  BY DEF TypeStrong, TypeOK
<1>3. /\ m \in ClientMsg /\ m \in Range(toServer[k])
      /\ toServer'[k] = Tail(toServer[k])
      /\ \A l \in Conns : l # k => toServer'[l] = toServer[l]
      /\ \A l \in Conns : Range(toServer'[l]) \subseteq Range(toServer[l])
  BY <1>1, <1>2, HeadIs
<1>4. /\ \A p \in Names : Known(p) => gClientHandles'[p] = gClientHandles[p] /\ (Known(p))'
      /\ \A l \in Conns : Used(l) => (Used(l))'
  BY KnownStays
<1>5. n \in Names /\ (Known(n))' /\ gClientHandles \in [Names -> Conns \cup {NoConn}]
      /\ (Used(k))'
  <2>1. n \in Names /\ gClientHandles \in [Names -> Conns \cup {NoConn}]
    BY <1>0, <1>2, ReceiveEnds DEF TypeOK
  <2>2. CASE m.cmd = "Ready"
    <3>1. /\ m = ReadyMsg(k[1])
          /\ gClientHandles' = [gClientHandles EXCEPT ![NewName(k, ReadyMsg(k[1]))] = k]
      BY <2>2, KnownStays
    <3>2. n = NewName(k, ReadyMsg(k[1]))
      BY <1>0, <2>2, <3>1 DEF Served
    <3>3. gClientHandles'[n] = k
      BY <2>1, <3>1, <3>2
    <3>4. QED
      BY <2>1, <3>3, NoConnAssumption DEF Known, Used
  <2>3. CASE m.cmd # "Ready"
    <3>1. gClientHandles' = gClientHandles /\ Used(k) /\ Known(m.name)
      BY <2>3, KnownStays
    <3>2. n = m.name
      BY <1>0, <2>3 DEF Served
    <3>3. QED
      BY <1>4, <2>1, <3>1, <3>2
  <2>4. QED
    BY <2>2, <2>3
<1>6. \A p \in Names : (Known(p))' =>
        \/ Known(p) /\ gClientHandles'[p] = gClientHandles[p]
        \/ ~Known(p) /\ gClientHandles'[p] = k /\ ~Used(k) /\ p[2] \in {Own, k} /\ p = n
  <2>1. CASE m.cmd = "Ready"
    <3>1. /\ m = ReadyMsg(k[1]) /\ ~Used(k)
          /\ gClientHandles' = [gClientHandles EXCEPT ![NewName(k, ReadyMsg(k[1]))] = k]
          /\ NewName(k, ReadyMsg(k[1]))[2] \in {Own, k}
      BY <2>1, KnownStays
    <3>2. n = NewName(k, ReadyMsg(k[1]))
      BY <1>0, <2>1, <3>1 DEF Served
    <3>3. \A p \in Names : p # n => gClientHandles'[p] = gClientHandles[p]
      BY <1>5, <3>1, <3>2
    <3>4. gClientHandles'[n] = k
      BY <1>5, <3>1, <3>2
    <3>5. ~Known(n)
      BY <2>1, <3>2, KnownStays
    <3>6. \A p \in Names : p # n => ((Known(p))' <=> Known(p))
      BY <3>3 DEF Known
    <3>7. QED
      BY <3>1, <3>2, <3>3, <3>4, <3>5, <3>6
  <2>2. CASE m.cmd # "Ready"
    BY <2>2, KnownStays DEF Known
  <2>3. QED
    BY <2>1, <2>2
<1>7. \A l \in Conns : (Used(l))' => Used(l) \/ l = k
  <2> SUFFICES ASSUME NEW l \in Conns, NEW p \in Names, gClientHandles'[p] = l
               PROVE  Used(l) \/ l = k
    BY DEF Used
  <2>1. (Known(p))'
    BY NoConnAssumption DEF Known
  <2>2. QED
    BY <1>6, <2>1 DEF Used
<1>8. HandlesInv'
  <2>1. ASSUME NEW p \in Names, (Known(p))'
        PROVE  gClientHandles'[p] \in accepted' /\ p[2] \in {Own, gClientHandles'[p]}
    BY <1>1, <1>6, <2>1 DEF ProtoInv, HandlesInv
  <2>2. ASSUME NEW p \in Names, NEW q \in Names, (Known(q))', gClientHandles'[p] = gClientHandles'[q]
        PROVE  p = q
    <3>1. (Known(p))'
      BY <2>2 DEF Known
    <3>2. CASE Known(p) /\ Known(q)
      BY <1>6, <2>2, <3>1, <3>2 DEF ProtoInv, HandlesInv
    <3>3. CASE ~Known(p)
      BY <1>6, <2>2, <3>1, <3>3 DEF Used
    <3>4. CASE ~Known(q)
      BY <1>6, <2>2, <3>1, <3>4 DEF Used
    <3>5. QED
      BY <3>2, <3>3, <3>4
  <2>3. \A p \in Names : gClientStatus'[p] # "none" => (Known(p))'
    BY <1>0, <1>4, <1>5, StatusStays DEF ProtoInv, HandlesInv, Known
  <2>4. QED
    BY <2>1, <2>2, <2>3 DEF HandlesInv
<1>9. ASSUME NEW l \in Conns
      PROVE  /\ toClient'[l] # <<>> => (Used(l))'
             /\ (Used(l))' => (Known(Name(l[1])))'
             /\ \A x \in Range(toClient'[l]) : x.cmd = "ChangeClientName" => (Known(x.name))'
             /\ \A x \in Range(toServer'[l]) : x.cmd # "Ready" => (Used(l))' /\ (Known(x.name))'
  <2>0. \A x \in Range(toServer[l]) : x.name \in Names
    <3>1. toServer[l] \in Seq(ClientMsg)
      BY <1>2
    <3>2. QED
      BY <3>1, RangeType, ClientMsgKinds
  <2>1. toClient'[l] # <<>> => (Used(l))'
    <3>1. CASE toClient'[l] = toClient[l]
      BY <1>4, <3>1 DEF ProtoInv, ConnInv
    <3>2. CASE toClient'[l] # toClient[l]
      <4>1. l = k \/ \E p \in Names : gClientHandles'[p] = l
        BY <1>2, <3>2, ReceiveSends DEF Last
      <4>2. QED
        BY <1>5, <4>1 DEF Used
    <3>3. QED
      BY <3>1, <3>2
  <2>2. (Used(l))' => (Known(Name(l[1])))'
    <3>1. l[1] \in Clients /\ Name(l[1]) \in Names /\ (Name(l[1]))' = Name(l[1])
      BY <1>1, <1>2, NameTypes DEF Conns, Name, input
    <3>2. CASE Used(l)
      <4>1. Known(Name(l[1]))
        BY <3>2 DEF ProtoInv, ConnInv
      <4>2. QED
        BY <1>4, <3>1, <4>1 DEF Known
    <3>3. CASE l = k /\ ~Used(l)
      <4>1. m.cmd = "Ready"
        BY <3>3, KnownStays
      <4>2. m.name = Name(k[1])
        <5>1. m = ReadyMsg(k[1])
          BY <4>1, KnownStays
        <5>2. QED
          BY <5>1 DEF ReadyMsg
      <4>3. n = IF Known(m.name) THEN Renamed(m.name, k) ELSE m.name
        BY <1>0, <4>1 DEF Served, NewName
      <4>4. gClientHandles'[Name(k[1])] # NoConn
        BY <1>4, <1>5, <3>1, <3>3, <4>2, <4>3 DEF Known
      <4>5. QED
        BY <3>1, <3>3, <4>4 DEF Known
    <3>4. QED
      BY <1>7, <3>2, <3>3
  <2>3. ASSUME NEW x \in Range(toClient'[l]), x.cmd = "ChangeClientName"
        PROVE  (Known(x.name))'
    <3>1. CASE x \in Range(toClient[l])
      <4>1. toClient[l] \in Seq(ServerMsg)
        BY <1>2 DEF TypeOK
      <4>2. x.name \in Names
        BY <2>3, <3>1, <4>1, RangeType, ServerMsgKinds
      <4>3. Known(x.name)
        BY <2>3, <3>1 DEF ProtoInv, ConnInv
      <4>4. QED
        BY <1>4, <4>2, <4>3
    <3>2. CASE Fresh(k, l, x)
      BY <2>3, <3>2, NoConnAssumption DEF Fresh, Last, Known
    <3>3. QED
      BY <1>2, <3>1, <3>2, ReceiveSends
  <2>4. \A x \in Range(toServer'[l]) : x.cmd # "Ready" => (Used(l))' /\ (Known(x.name))'
    <3> SUFFICES ASSUME NEW x \in Range(toServer'[l]), x.cmd # "Ready"
                 PROVE  (Used(l))' /\ (Known(x.name))'
      OBVIOUS
    <3>1. x \in Range(toServer[l]) /\ x.name \in Names
      BY <1>3, <2>0
    <3>2. Used(l) /\ Known(x.name)
      BY <3>1 DEF ProtoInv, ConnInv
    <3>3. QED
      BY <1>4, <3>1, <3>2
  <2>5. QED
    BY <2>1, <2>2, <2>3, <2>4
<1>10. ASSUME NEW l \in Conns, l[2] > iSuccessConnect'[l[1]]
       PROVE  l \notin accepted' /\ toServer'[l] = <<>> /\ toClient'[l] = <<>>
  <2>1. l[2] > iSuccessConnect[l[1]]
    BY <1>1, <1>10 DEF clientVars
  <2>2. l \notin accepted /\ toServer[l] = <<>> /\ toClient[l] = <<>>
    BY <2>1 DEF ProtoInv, ConnInv
  <2>3. l # k /\ toServer'[l] = <<>> /\ l \notin accepted'
    BY <1>1, <1>3, <2>2
  <2>4. ~(Used(l))'
    BY <1>8, <2>3, NoConnAssumption DEF HandlesInv, Used, Known
  <2>5. QED
    BY <1>9, <2>3, <2>4
<1>11. ASSUME NEW l \in Conns, NEW x \in Range(toServer'[l]), x.cmd = "Ready"
       PROVE  toServer'[l] = <<ReadyMsg(l[1])>> /\ ~(Used(l))'
  <2>1. x \in Range(toServer[l])
    BY <1>3
  <2>2. toServer[l] = <<ReadyMsg(l[1])>> /\ ~Used(l)
    BY <1>11, <2>1 DEF ProtoInv, ConnInv
  <2>3. l # k
    <3>1. ASSUME l = k PROVE FALSE
      <4>1. toServer'[k] = <<>>
        BY <1>3, <2>2, <3>1, TailOne
      <4>2. QED
        BY <1>11, <3>1, <4>1, RangeNone
    <3>2. QED
      BY <3>1
  <2>4. QED
    BY <1>3, <1>7, <2>2, <2>3
<1>12. ConnInv'
  <2>1. \A c \in Clients : (ReadyMsg(c))' = ReadyMsg(c)
    BY <1>1 DEF ReadyMsg, Name, input
  <2>2. \A l \in Conns : l[1] \in Clients
    BY DEF Conns
  <2>3. QED
    BY <1>9, <1>10, <1>11, <2>1, <2>2 DEF ConnInv
<1>13. CallerInv'
  <2> SUFFICES ASSUME NEW c \in Clients
               PROVE  /\ pc'[c] = "execute" => (Used(job[c].conn))'
                      /\ gClientName'[c] = (Name(c))' \/ (Known(gClientName[c]))'
                      /\ outcome' = "running" /\ pc'[c] = "connect" => gClientName'[c] = (Name(c))'
    BY DEF CallerInv
  <2>1. (Name(c))' = Name(c) /\ pc' = pc /\ gClientName' = gClientName /\ job' = job
    BY <1>1 DEF Name, input, clientVars
  <2>2. pc'[c] = "execute" => (Used(job[c].conn))'
    <3> SUFFICES ASSUME pc[c] = "execute" PROVE (Used(job[c].conn))'
      BY <2>1
    <3>1. Used(job[c].conn) /\ job[c].conn \in Conns
      BY DEF ProtoInv, CallerInv, TypeStrong, JobConns
    <3>2. PICK l \in Conns : l = job[c].conn /\ Used(l)
      BY <3>1
    <3>3. (Used(l))'
      BY <1>4, <3>2
    <3>4. QED
      BY <2>1, <3>2, <3>3 DEF Used
  <2>3. gClientName'[c] = (Name(c))' \/ (Known(gClientName[c]))'
    <3>1. gClientName[c] \in Names /\ (gClientName[c] = Name(c) \/ Known(gClientName[c]))
      BY <1>2 DEF ProtoInv, CallerInv, TypeOK
    <3>2. QED
      BY <1>4, <2>1, <3>1 DEF Known
  <2>4. QED
    BY <1>1, <2>1, <2>2, <2>3 DEF ProtoInv, CallerInv
<1>14. LogInv'
  <2>1. m.cmd # "Ready" => log # <<>>
    <3> SUFFICES ASSUME m.cmd # "Ready" PROVE log # <<>>
      OBVIOUS
    <3>1. Known(m.name) /\ m.name \in Names
      BY <1>3, KnownStays, ClientMsgKinds
    <3>2. QED
      BY <3>1 DEF ProtoInv, LogInv
  <2>2. log' # <<>>
    BY <2>1, ReceiveEnds
  <2>3. QED
    BY <2>2 DEF LogInv
<1>15. QED
  BY <1>8, <1>12, <1>13, <1>14 DEF ProtoInv

\* A client's step leaves the names as they are.
LEMMA NamesStill ==
  ASSUME ServerStill
  PROVE  /\ \A n : (Known(n))' <=> gClientHandles[n'] # NoConn
         /\ gClientHandles' = gClientHandles /\ accepted' = accepted
         /\ log' = log /\ outcome' = outcome /\ gClientStatus' = gClientStatus
         /\ gSetEnv' = gSetEnv /\ build' = build /\ gIDCount' = gIDCount
         /\ gClientEnvNum' = gClientEnvNum
         /\ iClientName' = iClientName
         /\ gStage' = gStage /\ gExit' = gExit
         /\ HandlesInv => HandlesInv'
         /\ LogInv => LogInv'
BY DEF ServerStill, serverVars, input, Known, HandlesInv, LogInv

\* A client's step on connection k, which is in use.
LEMMA StepOnUsed ==
  ASSUME TypeStrong, ProtoInv, ServerStill, NEW k \in Conns, Used(k),
         \A l \in Conns : l # k => toServer'[l] = toServer[l],
         \A x \in Range(toServer'[k]) :
           x \in Range(toServer[k]) \/ (x.cmd # "Ready" /\ Known(x.name)),
         \A l \in Conns : Range(toClient'[l]) \subseteq Range(toClient[l]),
         \A l \in Conns : toClient[l] = <<>> => toClient'[l] = <<>>,
         iSuccessConnect' = iSuccessConnect
  PROVE  ConnInv'
<1>1. gClientHandles' = gClientHandles /\ accepted' = accepted /\ iClientName' = iClientName
  BY NamesStill
<1>2. k[2] <= iSuccessConnect[k[1]]
  <2>1. PICK n \in Names : gClientHandles[n] = k
    BY DEF Used
  <2>2. k \in accepted
    BY <2>1, NoConnAssumption DEF ProtoInv, HandlesInv, Known
  <2>3. ~(k[2] > iSuccessConnect[k[1]])
    BY <2>2 DEF ProtoInv, ConnInv
  <2>4. k[2] \in Int /\ iSuccessConnect[k[1]] \in Int
    BY DEF Conns, TypeStrong, TypeOK
  <2>5. QED
    BY <2>3, <2>4
<1>3. ASSUME NEW l \in Conns
      PROVE  /\ l[2] > iSuccessConnect'[l[1]] =>
                  l \notin accepted' /\ toServer'[l] = <<>> /\ toClient'[l] = <<>>
             /\ \A m \in Range(toServer'[l]) : m.cmd = "Ready" =>
                  toServer'[l] = <<ReadyMsg(l[1])>> /\ ~Used(l)
             /\ \A m \in Range(toServer'[l]) : m.cmd # "Ready" => Used(l) /\ Known(m.name)
             /\ toClient'[l] # <<>> => Used(l)
             /\ Used(l) => Known(Name(l[1]))
             /\ \A m \in Range(toClient'[l]) : m.cmd = "ChangeClientName" => Known(m.name)
  <2>1. CASE l = k
    <3>1. \A m \in Range(toServer[k]) : m.cmd # "Ready"
      BY DEF ProtoInv, ConnInv
    <3>2. \A m \in Range(toServer'[k]) : m.cmd # "Ready"
      BY <3>1
    <3>3. ~(l[2] > iSuccessConnect'[l[1]])
      <4>1. k[2] \in Int /\ iSuccessConnect[k[1]] \in Int
        BY DEF Conns, TypeStrong, TypeOK
      <4>2. QED
        BY <1>2, <2>1, <4>1
    <3>4. QED
      BY <2>1, <3>2, <3>3 DEF ProtoInv, ConnInv
  <2>2. CASE l # k
    BY <1>1, <2>2 DEF ProtoInv, ConnInv
  <2>3. QED
    BY <2>1, <2>2
<1>4. \A l \in Conns : (Used(l))' <=> Used(l)
  BY <1>1 DEF Used
<1>5. \A n \in Names : (Known(n))' <=> Known(n)
  BY <1>1 DEF Known
<1>6. \A c \in Clients : (Name(c))' = Name(c) /\ (ReadyMsg(c))' = ReadyMsg(c)
  BY <1>1 DEF Name, ReadyMsg
<1>7. \A l \in Conns : l[1] \in Clients
  BY DEF Conns
<1>8. QED
  <2> SUFFICES ASSUME NEW l \in Conns
               PROVE  (/\ l[2] > iSuccessConnect[l[1]] =>
                           l \notin accepted /\ toServer[l] = <<>> /\ toClient[l] = <<>>
                       /\ \A m \in Range(toServer[l]) : m.cmd = "Ready" =>
                           toServer[l] = <<ReadyMsg(l[1])>> /\ ~Used(l)
                       /\ \A m \in Range(toServer[l]) : m.cmd # "Ready" => Used(l) /\ Known(m.name)
                       /\ toClient[l] # <<>> => Used(l)
                       /\ Used(l) => Known(Name(l[1]))
                       /\ \A m \in Range(toClient[l]) : m.cmd = "ChangeClientName" => Known(m.name))'
    BY DEF ConnInv
  <2>1. \A x : (Known(x.name))' <=> gClientHandles'[x.name] # NoConn
    BY DEF Known
  <2>2. \A x : Known(x.name) <=> gClientHandles[x.name] # NoConn
    BY DEF Known
  <2>3. (Known(Name(l[1])))' <=> Known(Name(l[1]))
    BY <1>1, <1>6, <1>7 DEF Known
  <2>4. QED
    BY <1>1, <1>3, <1>4, <1>6, <1>7, <2>1, <2>2, <2>3

LEMMA ReadMsgProto ==
  ASSUME TypeStrong, ProtoInv, NEW c \in Clients, NEW k \in Conns, ReadMsg(c, k)
  PROVE  ProtoInv'
<1> DEFINE m == Head(toClient[k])
<1>1. /\ ServerStill /\ CanRead(c, k)
      /\ ChangeClientName(c, m) \/ SetEnv(c, k, m) \/ Exit(c, m) \/ Execute(c, k, m)
      /\ toClient' = [toClient EXCEPT ![k] = Tail(@)]
      /\ iSuccessConnect' = iSuccessConnect
  BY ReadMsgCases
<1>2. TypeOK /\ toClient[k] # <<>> /\ k[1] = c /\ Used(k)
  <2>1. toClient[k] # <<>>
    BY <1>1 DEF CanRead
  <2>2. QED
    BY <1>1, <2>1 DEF CanRead, TypeStrong, Mine, ProtoInv, ConnInv
<1>3. /\ m \in ServerMsg /\ m \in Range(toClient[k])
      /\ \A l \in Conns : l # k => toClient'[l] = toClient[l]
      /\ \A l \in Conns : Range(toClient'[l]) \subseteq Range(toClient[l])
  BY <1>1, <1>2, ToClientHead
<1> HIDE DEF m
<1>4. /\ gClientHandles' = gClientHandles /\ iClientName' = iClientName /\ outcome' = outcome
      /\ HandlesInv' /\ LogInv'
  BY <1>1, NamesStill DEF ProtoInv
<1>5. Known(gClientName[c]) /\ gClientName[c] \in Names
  BY <1>2 DEF ProtoInv, ConnInv, CallerInv, TypeOK
<1>6. /\ \A l \in Conns : l # k => toServer'[l] = toServer[l]
      /\ \A x \in Range(toServer'[k]) :
           x \in Range(toServer[k]) \/ (x.cmd # "Ready" /\ Known(x.name))
  <2>1. CASE SetEnv(c, k, m)
    <3>1. PICK x : x = [cmd |-> "SetEnv Ready", name |-> gClientName[c]]
      OBVIOUS
    <3>2. x \in ClientMsg /\ Reply(k, x) /\ x.cmd # "Ready" /\ Known(x.name)
      BY <1>5, <2>1, <3>1, ToServerMsgs DEF SetEnv
    <3>3. QED
      BY <1>2, <3>2, ReplyIs
  <2>2. CASE ~SetEnv(c, k, m)
    BY <1>1, <2>2 DEF ChangeClientName, Exit, Execute
  <2>3. QED
    BY <2>1, <2>2
<1>7. \A l \in Conns : toClient[l] = <<>> => toClient'[l] = <<>>
  BY <1>2, <1>3
<1>8. ConnInv'
  BY <1>1, <1>2, <1>3, <1>6, <1>7, StepOnUsed
<1>9. CallerInv'
  <2> SUFFICES ASSUME NEW d \in Clients
               PROVE  (/\ pc[d] = "execute" => Used(job[d].conn)
                       /\ gClientName[d] = Name(d) \/ Known(gClientName[d])
                       /\ outcome = "running" /\ pc[d] = "connect" => gClientName[d] = Name(d))'
    BY DEF CallerInv
  <2>1. /\ pc[d] = "execute" => Used(job[d].conn)
        /\ gClientName[d] = Name(d) \/ Known(gClientName[d])
        /\ outcome = "running" /\ pc[d] = "connect" => gClientName[d] = Name(d)
    BY DEF ProtoInv, CallerInv
  <2>2. (Name(d))' = Name(d)
    BY <1>4 DEF Name
  <2>3. CASE d # c
    <3>1. pc'[d] = pc[d] /\ job'[d] = job[d] /\ gClientName'[d] = gClientName[d]
      BY <1>1, <1>2, <2>3 DEF ChangeClientName, SetEnv, Exit, Leave, Execute, TypeOK
    <3>2. QED
      BY <1>4, <2>1, <2>2, <3>1 DEF Known, Used
  <2>4. CASE d = c
    <3>1. pc'[c] # "connect"
      BY <1>1, <1>2, <2>4 DEF ChangeClientName, SetEnv, Exit, Leave, Execute, TypeOK, CanRead
    <3>2. pc'[c] = "execute" => job'[c].conn = k
      <4>1. CASE Execute(c, k, m)
        <5>1. PICK j : j = [conn |-> k, id |-> m.id]
          OBVIOUS
        <5>2. job' = [job EXCEPT ![c] = j] /\ j.conn = k
          BY <4>1, <5>1 DEF Execute
        <5>3. QED
          BY <1>2, <5>2 DEF TypeOK
      <4>2. CASE ~Execute(c, k, m)
        <5>1. pc'[c] # "execute"
          BY <1>1, <1>2, <4>2 DEF ChangeClientName, SetEnv, Exit, Leave, TypeOK, CanRead
        <5>2. QED
          BY <5>1
      <4>3. QED
        BY <4>1, <4>2
    <3>3. gClientHandles'[gClientName'[c]] # NoConn
      <4>1. CASE ChangeClientName(c, m)
        <5>1. m.cmd = "ChangeClientName" /\ gClientName'[c] = m.name
          BY <1>2, <4>1 DEF ChangeClientName, TypeOK
        <5>2. Known(m.name)
          BY <1>3, <5>1 DEF ProtoInv, ConnInv
        <5>3. QED
          BY <1>4, <5>1, <5>2 DEF Known
      <4>2. CASE ~ChangeClientName(c, m)
        BY <1>1, <1>4, <1>5, <4>2 DEF SetEnv, Exit, Execute, Known
      <4>3. QED
        BY <4>1, <4>2
    <3>4. QED
      BY <1>2, <1>4, <2>4, <3>1, <3>2, <3>3 DEF Known, Used
  <2>5. QED
    BY <2>3, <2>4
<1>10. QED
  BY <1>4, <1>8, <1>9 DEF ProtoInv

LEMMA FinishProto ==
  ASSUME TypeStrong, ProtoInv, NEW c \in Clients, Finish(c)
  PROVE  ProtoInv'
<1>0. TypeOK /\ pc[c] = "execute"
  BY DEF TypeStrong, Finish
<1>1. PICK k \in Conns : k = job[c].conn /\ k[1] = c /\ Used(k)
  BY <1>0 DEF TypeStrong, JobConns, ProtoInv, CallerInv
<1>2. ServerStill
  BY DEF Finish, ServerStill
<1>3. /\ gClientHandles' = gClientHandles /\ iClientName' = iClientName /\ outcome' = outcome
      /\ HandlesInv' /\ LogInv'
  BY <1>2, NamesStill DEF ProtoInv
<1>4. Known(gClientName[c]) /\ gClientName[c] \in Names /\ job[c].id \in Nat
  BY <1>0, <1>1 DEF ProtoInv, ConnInv, CallerInv, TypeOK
<1>5. PICK bad \in BOOLEAN :
        Reply(k, [cmd |-> "Results", name |-> gClientName[c], id |-> job[c].id, bad |-> bad])
  BY <1>1 DEF Finish
<1>6. PICK x : x = [cmd |-> "Results", name |-> gClientName[c], id |-> job[c].id, bad |-> bad]
  OBVIOUS
<1>7. x \in ClientMsg /\ Reply(k, x) /\ x.cmd # "Ready" /\ Known(x.name)
  BY <1>4, <1>5, <1>6, ToServerMsgs
<1>8. /\ Range(toServer'[k]) = Range(toServer[k]) \cup {x}
      /\ \A l \in Conns : l # k => toServer'[l] = toServer[l]
  BY <1>0, <1>7, ReplyIs
<1>9. /\ toClient' = toClient /\ iSuccessConnect' = iSuccessConnect /\ gClientName' = gClientName
      /\ pc' = [pc EXCEPT ![c] = "loop"] /\ job' = [job EXCEPT ![c] = NoJob]
  BY DEF Finish
<1>10. ConnInv'
  BY <1>1, <1>2, <1>7, <1>8, <1>9, StepOnUsed
<1>11. CallerInv'
  <2> SUFFICES ASSUME NEW d \in Clients
               PROVE  (/\ pc[d] = "execute" => Used(job[d].conn)
                       /\ gClientName[d] = Name(d) \/ Known(gClientName[d])
                       /\ outcome = "running" /\ pc[d] = "connect" => gClientName[d] = Name(d))'
    BY DEF CallerInv
  <2>1. (Name(d))' = Name(d)
    BY <1>3 DEF Name
  <2>2. d # c => pc'[d] = pc[d] /\ job'[d] = job[d]
    BY <1>0, <1>9 DEF TypeOK
  <2>3. pc'[c] = "loop"
    BY <1>0, <1>9 DEF TypeOK
  <2>4. QED
    BY <1>3, <1>9, <2>1, <2>2, <2>3 DEF ProtoInv, CallerInv, Known, Used
<1>12. QED
  BY <1>3, <1>10, <1>11 DEF ProtoInv

LEMMA ConnectProto ==
  ASSUME TypeStrong, ProtoInv, NEW c \in Clients, Connect(c)
  PROVE  ProtoInv'
<1>0. TypeOK /\ pc[c] = "connect" /\ outcome = "running"
  BY DEF TypeStrong, Connect
<1>1. PICK k : k = <<c, iSuccessConnect[c] + 1>>
  OBVIOUS
<1>2. /\ iSuccessConnect[c] \in Nat /\ iSuccessConnect[c] + 1 \in 1 .. MaxConnects
      /\ MaxConnects \in Nat
  BY <1>0, BuildServerAssumption DEF Connect, TypeOK
<1>3. k \in Conns /\ k[1] = c /\ k[2] = iSuccessConnect[c] + 1
  BY <1>1, <1>2 DEF Conns
<1>4. ServerStill
  BY DEF Connect, ServerStill
<1>5. /\ gClientHandles' = gClientHandles /\ iClientName' = iClientName /\ outcome' = outcome
      /\ HandlesInv' /\ LogInv' /\ accepted' = accepted
  BY <1>4, NamesStill DEF ProtoInv
<1>6. k \notin accepted /\ toServer[k] = <<>> /\ toClient[k] = <<>>
  BY <1>2, <1>3 DEF ProtoInv, ConnInv
<1>7. ~Used(k)
  <2> SUFFICES ASSUME NEW n \in Names, gClientHandles[n] = k PROVE FALSE
    BY DEF Used
  <2>1. Known(n)
    BY <1>3, NoConnAssumption DEF Known
  <2>2. QED
    BY <1>6, <2>1 DEF ProtoInv, HandlesInv
<1>8. gClientName[c] = Name(c)
  BY <1>0 DEF ProtoInv, CallerInv
<1>9. /\ toServer' = [toServer EXCEPT ![k] = <<ReadyMsg(c)>>]
      /\ iSuccessConnect' = [iSuccessConnect EXCEPT ![c] = @ + 1]
      /\ pc' = [pc EXCEPT ![c] = "loop"]
      /\ gClientName' = gClientName /\ job' = job /\ toClient' = toClient
  BY <1>1, <1>8 DEF Connect, ReadyMsg
<1>10. /\ toServer'[k] = <<ReadyMsg(c)>>
       /\ \A l \in Conns : l # k => toServer'[l] = toServer[l]
       /\ iSuccessConnect'[c] = iSuccessConnect[c] + 1
       /\ \A d \in Clients : d # c => iSuccessConnect'[d] = iSuccessConnect[d] /\ pc'[d] = pc[d]
       /\ pc'[c] = "loop"
  BY <1>0, <1>3, <1>9 DEF TypeOK
<1>11. ASSUME NEW l \in Conns
       PROVE  /\ l[2] > iSuccessConnect'[l[1]] =>
                   l \notin accepted' /\ toServer'[l] = <<>> /\ toClient'[l] = <<>>
              /\ \A m \in Range(toServer'[l]) : m.cmd = "Ready" =>
                   toServer'[l] = <<ReadyMsg(l[1])>> /\ ~Used(l)
              /\ \A m \in Range(toServer'[l]) : m.cmd # "Ready" => Used(l) /\ Known(m.name)
              /\ toClient'[l] # <<>> => Used(l)
              /\ Used(l) => Known(Name(l[1]))
              /\ \A m \in Range(toClient'[l]) : m.cmd = "ChangeClientName" => Known(m.name)
  <2>1. CASE l = k
    <3>1. Range(toServer'[k]) = {ReadyMsg(c)}
      BY <1>10, RangeOne
    <3>2. ReadyMsg(c).cmd = "Ready"
      BY DEF ReadyMsg
    <3>3. ~(k[2] > iSuccessConnect'[k[1]])
      BY <1>2, <1>3, <1>10
    <3>4. toClient'[k] = <<>>
      BY <1>6, <1>9
    <3>5. QED
      BY <1>3, <1>7, <1>10, <2>1, <3>1, <3>2, <3>3, <3>4, RangeNone
  <2>2. CASE l # k
    <3>1. l[2] > iSuccessConnect'[l[1]] => l[2] > iSuccessConnect[l[1]]
      <4>1. CASE l[1] = c
        BY <1>2, <1>10, <4>1 DEF Conns
      <4>2. CASE l[1] # c
        BY <1>10, <4>2 DEF Conns
      <4>3. QED
        BY <4>1, <4>2
    <3>2. QED
      BY <1>5, <1>9, <1>10, <2>2, <3>1 DEF ProtoInv, ConnInv
  <2>3. QED
    BY <2>1, <2>2
<1>12. \A l \in Conns : (Used(l))' <=> Used(l)
  BY <1>5 DEF Used
<1>13. \A d \in Clients : (Name(d))' = Name(d) /\ (ReadyMsg(d))' = ReadyMsg(d)
  BY <1>5 DEF Name, ReadyMsg
<1>14. \A l \in Conns : l[1] \in Clients
  BY DEF Conns
<1>15. ConnInv'
  <2> SUFFICES ASSUME NEW l \in Conns
               PROVE  (/\ l[2] > iSuccessConnect[l[1]] =>
                           l \notin accepted /\ toServer[l] = <<>> /\ toClient[l] = <<>>
                       /\ \A m \in Range(toServer[l]) : m.cmd = "Ready" =>
                           toServer[l] = <<ReadyMsg(l[1])>> /\ ~Used(l)
                       /\ \A m \in Range(toServer[l]) : m.cmd # "Ready" => Used(l) /\ Known(m.name)
                       /\ toClient[l] # <<>> => Used(l)
                       /\ Used(l) => Known(Name(l[1]))
                       /\ \A m \in Range(toClient[l]) : m.cmd = "ChangeClientName" => Known(m.name))'
    BY DEF ConnInv
  <2>1. \A x : (Known(x.name))' <=> gClientHandles'[x.name] # NoConn
    BY DEF Known
  <2>2. \A x : Known(x.name) <=> gClientHandles[x.name] # NoConn
    BY DEF Known
  <2>3. (Known(Name(l[1])))' <=> Known(Name(l[1]))
    BY <1>5, <1>13, <1>14 DEF Known
  <2>4. QED
    BY <1>5, <1>11, <1>12, <1>13, <1>14, <2>1, <2>2, <2>3
<1>16. CallerInv'
  <2> SUFFICES ASSUME NEW d \in Clients
               PROVE  (/\ pc[d] = "execute" => Used(job[d].conn)
                       /\ gClientName[d] = Name(d) \/ Known(gClientName[d])
                       /\ outcome = "running" /\ pc[d] = "connect" => gClientName[d] = Name(d))'
    BY DEF CallerInv
  <2>1. (Name(d))' = Name(d)
    BY <1>13
  <2>2. QED
    BY <1>5, <1>8, <1>9, <1>10, <2>1 DEF ProtoInv, CallerInv, Known, Used
<1>17. QED
  BY <1>5, <1>15, <1>16 DEF ProtoInv

\* A step that leaves the channels and the names of the server alone.
LEMMA QuietProto ==
  ASSUME TypeStrong, ProtoInv,
         UNCHANGED <<iClientName, gClientHandles, gClientStatus, log, accepted,
                     iSuccessConnect, job, toServer, toClient>>,
         \A c \in Clients : pc'[c] = "execute" => pc[c] = "execute",
         \A c \in Clients : gClientName'[c] \in {Name(c), gClientName[c]},
         \A c \in Clients : outcome' = "running" /\ pc'[c] = "connect" =>
           gClientName'[c] = Name(c)
  PROVE  ProtoInv'
<1>1. /\ \A l \in Conns : (Used(l))' <=> Used(l)
      /\ \A d \in Clients : (Name(d))' = Name(d) /\ (ReadyMsg(d))' = ReadyMsg(d)
      /\ \A l \in Conns : l[1] \in Clients
  BY DEF Name, ReadyMsg, Conns, Used
<1>2. HandlesInv' /\ LogInv'
  BY DEF ProtoInv, HandlesInv, LogInv, Known
<1>3. ConnInv'
  BY <1>1 DEF ProtoInv, ConnInv, Known
<1>4. CallerInv'
  <2> SUFFICES ASSUME NEW d \in Clients
               PROVE  (/\ pc[d] = "execute" => Used(job[d].conn)
                       /\ gClientName[d] = Name(d) \/ Known(gClientName[d])
                       /\ outcome = "running" /\ pc[d] = "connect" => gClientName[d] = Name(d))'
    BY DEF CallerInv
  <2>1. QED
    BY <1>1 DEF ProtoInv, CallerInv, Known, Used
<1>5. QED
  BY <1>2, <1>3, <1>4 DEF ProtoInv

LEMMA ClientQuietProto ==
  ASSUME TypeStrong, ProtoInv, NEW c \in Clients,
         (\E k \in Conns : Unplug(c, k)) \/ Timeout(c) \/ Crash(c)
  PROVE  ProtoInv'
<1>1. TypeOK /\ \A d \in Clients : outcome = "running" /\ pc[d] = "connect" => gClientName[d] = Name(d)
  BY DEF TypeStrong, ProtoInv, CallerInv
<1>2. ASSUME NEW k \in Conns, Unplug(c, k)
      PROVE  ProtoInv'
  <2>1. /\ UNCHANGED <<iClientName, gClientHandles, gClientStatus, log, accepted,
                     iSuccessConnect, job, toServer, toClient>>
        /\ outcome' # "running"
    BY <1>2 DEF Unplug, input, serverVars
  <2>2. /\ \A d \in Clients : pc'[d] = "execute" => pc[d] = "execute"
        /\ \A d \in Clients : gClientName'[d] \in {Name(d), gClientName[d]}
    <3>1. CASE LeaveLoop(c)
      BY <1>1, <3>1, LeaveLoopIs
    <3>2. CASE UNCHANGED <<pc, gClientName>>
      BY <3>2
    <3>3. QED
      BY <1>2, <3>1, <3>2 DEF Unplug
  <2>3. QED
    BY <2>1, <2>2, QuietProto
<1>3. ASSUME Timeout(c)
      PROVE  ProtoInv'
  <2>1. /\ UNCHANGED <<iClientName, gClientHandles, gClientStatus, log, accepted,
                     iSuccessConnect, job, toServer, toClient>>
        /\ LeaveLoop(c) /\ outcome' = outcome
    BY <1>3 DEF Timeout, input, serverVars
  <2>2. /\ \A d \in Clients : pc'[d] = "execute" => pc[d] = "execute"
        /\ \A d \in Clients : gClientName'[d] \in {Name(d), gClientName[d]}
        /\ \A d \in Clients : outcome' = "running" /\ pc'[d] = "connect" => gClientName'[d] = Name(d)
    BY <1>1, <2>1, LeaveLoopIs
  <2>3. QED
    BY <2>1, <2>2, QuietProto
<1>4. ASSUME Crash(c)
      PROVE  ProtoInv'
  <2>1. /\ UNCHANGED <<iClientName, gClientHandles, gClientStatus, log, accepted,
                     iSuccessConnect, job, toServer, toClient>>
        /\ outcome' = outcome /\ gClientName' = gClientName
        /\ \A d \in Clients : pc'[d] \in {pc[d], "crashed"}
    BY <1>1, <1>4 DEF Crash, Leave, input, serverVars, TypeOK
  <2>2. QED
    BY <1>1, <2>1, QuietProto
<1>5. QED
  BY <1>2, <1>3, <1>4

LEMMA LostProto ==
  ASSUME TypeStrong, ProtoInv, NEW k \in Conns, Lost(k) \/ RecentNode(k)
  PROVE  ProtoInv'
<1>1. CASE Lost(k)
  <2>1. /\ UNCHANGED <<iClientName, gClientHandles, gClientStatus, log, accepted,
                     iSuccessConnect, job, toServer, toClient, pc, gClientName>>
        /\ outcome' = "lost"
    BY <1>1 DEF Lost, input, clientVars, netVars
  <2>2. QED
    BY <2>1, QuietProto
<1>2. CASE RecentNode(k)
  <2>1. /\ UNCHANGED <<iClientName, gClientHandles, gClientStatus, log, outcome,
                     iSuccessConnect, job, toServer, toClient, pc, gClientName>>
        /\ accepted' = accepted \cup {k} /\ k[2] <= iSuccessConnect[k[1]]
    BY <1>2 DEF RecentNode, input, serverVars, clientVars, netVars
  <2>2. /\ \A l \in Conns : (Used(l))' <=> Used(l)
        /\ \A d \in Clients : (Name(d))' = Name(d) /\ (ReadyMsg(d))' = ReadyMsg(d)
        /\ \A l \in Conns : l[1] \in Clients
    BY <2>1 DEF Name, ReadyMsg, Conns, Used
  <2>3. ~(k[2] > iSuccessConnect[k[1]])
    <3>1. k[2] \in Int /\ iSuccessConnect[k[1]] \in Int
      BY DEF Conns, TypeStrong, TypeOK
    <3>2. QED
      BY <2>1, <3>1
  <2>4. HandlesInv' /\ LogInv' /\ CallerInv'
    BY <2>1, <2>2 DEF ProtoInv, HandlesInv, LogInv, CallerInv, Known, Used
  <2>5. ConnInv'
    BY <2>1, <2>2, <2>3 DEF ProtoInv, ConnInv, Known
  <2>6. QED
    BY <2>4, <2>5 DEF ProtoInv
<1>3. QED
  BY <1>1, <1>2

LEMMA NextProto == TypeStrong /\ ProtoInv /\ [Next]_vars => ProtoInv'
<1> SUFFICES ASSUME TypeStrong, ProtoInv, [Next]_vars PROVE ProtoInv'
  OBVIOUS
<1>1. CASE UNCHANGED vars
  <2>1. /\ UNCHANGED <<iClientName, gClientHandles, gClientStatus, log, accepted,
                     iSuccessConnect, job, toServer, toClient, pc, gClientName, outcome>>
    BY <1>1 DEF vars, input, serverVars, clientVars, netVars
  <2>2. \A d \in Clients : outcome = "running" /\ pc[d] = "connect" => gClientName[d] = Name(d)
    BY DEF ProtoInv, CallerInv
  <2>3. QED
    BY <2>1, <2>2, QuietProto
<1>2. QED
  BY <1>1, NextCases, ReceiveProto, LostProto, ConnectProto, FinishProto, ReadMsgProto,
     ClientQuietProto

-----------------------------------------------------------------------------
(* The environment *)

AllEnv == 0 .. (gSetEnv - 1)

VarMsg(i) == [cmd |-> "SetEnv", var |-> i]
NameMsg(n) == [cmd |-> "ChangeClientName", name |-> n]
ConfirmMsg(n) == [cmd |-> "SetEnv Ready", name |-> n]

\* The variable last sent is on its way to the client,
VarSent(n, k) ==
  /\ gClientStatus[n] = "none" /\ gClientEnvNum[n] > 0
  /\ pc[k[1]] # "execute"
  /\ toServer[k] = <<>>
  /\ 0 .. (gClientEnvNum[n] - 2) \subseteq env[k[1]]
  /\ \/ /\ toClient[k] = <<VarMsg(gClientEnvNum[n] - 1)>>
        /\ gClientName[k[1]] = n
     \/ toClient[k] = <<NameMsg(n), VarMsg(gClientEnvNum[n] - 1)>>

\* or its confirmation on the way back,
VarConfirmed(n, k) ==
  /\ gClientStatus[n] = "none" /\ gClientEnvNum[n] > 0
  /\ pc[k[1]] # "execute"
  /\ toServer[k] = <<ConfirmMsg(n)>>
  /\ toClient[k] = <<>>
  /\ 0 .. (gClientEnvNum[n] - 1) \subseteq env[k[1]]
  /\ gClientName[k[1]] = n /\ ~timer[k[1]]

\* or the client has been ready, and there are only commands and results.
HasBeenReady(n, k) ==
  /\ gClientStatus[n] # "none"
  /\ \A x \in Range(toServer[k]) : x.cmd = "Results" /\ x.name = n
  /\ \A x \in Range(toClient[k]) : x.cmd = "Execute"
  /\ gClientName[k[1]] = n /\ ~timer[k[1]]

Shake(n, k) == VarSent(n, k) \/ VarConfirmed(n, k) \/ HasBeenReady(n, k)

\* With an environment to send no client runs into its timeout, and so makes
\* one connection only.
OneConnection ==
  /\ \A c \in Clients :
       /\ iSuccessConnect[c] <= 1
       /\ pc[c] = "connect" => iSuccessConnect[c] = 0
       /\ pc[c] \in {"loop", "execute"} => iSuccessConnect[c] = 1 /\ <<c, 1>> \in open
  /\ \A k \in Conns :
       /\ \A x \in Range(toServer[k]) : x.cmd = "Ready" => gClientName[k[1]] = Name(k[1])
       /\ k[2] <= iSuccessConnect[k[1]] => Used(k) \/ toServer[k] = <<ReadyMsg(k[1])>>

Shaken == \A n \in Names : Known(n) => Shake(n, gClientHandles[n])

ShakeInv == outcome = "running" /\ gSetEnv > 0 => OneConnection /\ Shaken

\* Who has been ready has the whole environment, and commands go to no other.
EnvInv ==
  /\ \A n \in Names : gClientStatus[n] # "none" => env[gClientHandles[n][1]] = AllEnv
  /\ \A k \in Conns : \A x \in Range(toClient[k]) : x.cmd = "Execute" => env[k[1]] = AllEnv
  /\ EnvironmentFirst

LEMMA InitEnv == Init => ShakeInv /\ EnvInv
<1> SUFFICES ASSUME Init PROVE ShakeInv /\ EnvInv
  OBVIOUS
<1>1. \A n \in Names : ~Known(n)
  BY DEF Init, Known
<1>2. \A k \in Conns : Range(toServer[k]) = {} /\ Range(toClient[k]) = {}
  BY RangeNone DEF Init
<1>3. \A k \in Conns : ~(k[2] <= iSuccessConnect[k[1]])
  BY DEF Init, Conns
<1>4. OneConnection
  BY <1>2, <1>3 DEF Init, OneConnection
<1>5. ShakeInv
  BY <1>1, <1>4 DEF ShakeInv, Shaken
<1>6. EnvInv
  BY <1>2 DEF Init, EnvInv, EnvironmentFirst
<1>7. QED
  BY <1>5, <1>6

\* A connection in use has been made.
LEMMA UsedMade ==
  ASSUME TypeStrong, ProtoInv, NEW k \in Conns, Used(k)
  PROVE  k \in accepted /\ k[2] <= iSuccessConnect[k[1]]
<1>1. PICK n \in Names : gClientHandles[n] = k
  BY DEF Used
<1>2. k \in accepted
  BY <1>1, NoConnAssumption DEF ProtoInv, HandlesInv, Known
<1>3. ~(k[2] > iSuccessConnect[k[1]])
  BY <1>2 DEF ProtoInv, ConnInv
<1>4. k[2] \in Int /\ iSuccessConnect[k[1]] \in Int
  BY DEF Conns, TypeStrong, TypeOK
<1>5. QED
  BY <1>2, <1>3, <1>4

LEMMA KnownHandle ==
  ASSUME TypeStrong, ProtoInv, NEW n \in Names, Known(n)
  PROVE  gClientHandles[n] \in Conns /\ Used(gClientHandles[n])
BY DEF TypeStrong, TypeOK, Known, Used

\* A client's only connection.
LEMMA SameConnection ==
  ASSUME TypeStrong, OneConnection, NEW k \in Conns, NEW l \in Conns, k[1] = l[1],
         k[2] <= iSuccessConnect[k[1]], l[2] <= iSuccessConnect[l[1]]
  PROVE  k = l
<1>1. k = <<k[1], k[2]>> /\ l = <<l[1], l[2]>> /\ k[1] \in Clients
      /\ k[2] \in 1 .. MaxConnects /\ l[2] \in 1 .. MaxConnects
  BY DEF Conns
<1>2. iSuccessConnect[k[1]] \in Nat /\ iSuccessConnect[k[1]] <= 1
  <2>1. iSuccessConnect \in [Clients -> 0 .. MaxConnects] /\ MaxConnects \in Nat
    BY BuildServerAssumption DEF TypeStrong, TypeOK
  <2>2. iSuccessConnect[k[1]] \in 0 .. MaxConnects
    BY <1>1, <2>1
  <2>3. iSuccessConnect[k[1]] <= 1
    BY <1>1 DEF OneConnection
  <2>4. QED
    BY <2>1, <2>2, <2>3
<1>3. k[2] = 1 /\ l[2] = 1
  BY <1>1, <1>2
<1>4. QED
  BY <1>1, <1>3

\* The clients whose message it is not.
LEMMA OthersShake ==
  ASSUME TypeStrong, ProtoInv, NEW k \in Conns, Receive(k), outcome' = "running",
         NEW q \in Names, Known(q), gClientHandles[q] # k, q # Served(k),
         gClientEnvNum'[q] = gClientEnvNum[q], Shake(q, gClientHandles[q]), ProtoInv'
  PROVE  (Shake(q, gClientHandles[q]))'
<1>0. PICK l \in Conns : l = gClientHandles[q]
  BY KnownHandle
<1>1. TypeOK /\ l # k /\ gClientHandles'[q] = l
  BY <1>0, KnownStays DEF TypeStrong
<1>2. /\ toServer[k] # <<>> /\ toServer' = [toServer EXCEPT ![k] = Tail(@)]
      /\ pc' = pc /\ gClientName' = gClientName /\ env' = env /\ timer' = timer
  BY ReceiveCases DEF clientVars
<1>3. toServer'[l] = toServer[l]
  BY <1>1, <1>2, HeadIs
<1>4. gClientStatus'[q] # "none" <=> gClientStatus[q] # "none"
  BY StatusStays
<1>5. \/ toClient'[l] = toClient[l]
      \/ /\ gClientStatus[q] # "none"
         /\ \E x \in ServerMsg : toClient'[l] = Append(toClient[l], x) /\ x.cmd = "Execute"
  <2>1. \/ toClient'[l] = toClient[l]
        \/ \E x \in ServerMsg : toClient'[l] = Append(toClient[l], x) /\ Last(l, x)
    BY <1>1, ReceiveSends
  <2>2. ASSUME NEW x, Last(l, x)
        PROVE  x.cmd = "Execute" /\ gClientStatus[q] # "none"
    <3>1. PICK p \in Names : x.cmd = "Execute" /\ gClientHandles'[p] = l /\ gClientStatus'[p] # "none"
      BY <2>2 DEF Last
    <3>2. p = q
      BY <1>1, <3>1, NoConnAssumption DEF ProtoInv, HandlesInv, Known
    <3>3. QED
      BY <1>4, <3>1, <3>2
  <2>3. QED
    BY <2>1, <2>2
<1>6. Shake(q, l)
  BY <1>0
<1>7. CASE VarSent(q, l)
  <2>1. toClient'[l] = toClient[l] /\ gClientStatus'[q] = "none"
    BY <1>4, <1>5, <1>7 DEF VarSent
  <2>2. (VarSent(q, gClientHandles[q]))'
    BY <1>1, <1>2, <1>3, <1>7, <2>1 DEF VarSent, VarMsg, NameMsg
  <2>3. QED
    BY <2>2 DEF Shake
<1>8. CASE VarConfirmed(q, l)
  <2>1. toClient'[l] = toClient[l] /\ gClientStatus'[q] = "none"
    BY <1>4, <1>5, <1>8 DEF VarConfirmed
  <2>2. (VarConfirmed(q, gClientHandles[q]))'
    BY <1>1, <1>2, <1>3, <1>8, <2>1 DEF VarConfirmed, ConfirmMsg
  <2>3. QED
    BY <2>2 DEF Shake
<1>9. CASE HasBeenReady(q, l)
  <2>1. \A x \in Range(toClient'[l]) : x.cmd = "Execute"
    <3>1. CASE toClient'[l] = toClient[l]
      BY <1>9, <3>1 DEF HasBeenReady
    <3>2. CASE \E x \in ServerMsg : toClient'[l] = Append(toClient[l], x) /\ x.cmd = "Execute"
      <4>1. PICK x \in ServerMsg : toClient'[l] = Append(toClient[l], x) /\ x.cmd = "Execute"
        BY <3>2
      <4>2. toClient[l] \in Seq(ServerMsg)
        BY <1>1 DEF TypeOK
      <4>3. Range(toClient'[l]) = Range(toClient[l]) \cup {x}
        BY <4>1, <4>2, RangeAppend
      <4>4. QED
        BY <1>9, <4>1, <4>3 DEF HasBeenReady
    <3>3. QED
      BY <1>5, <3>1, <3>2
  <2>2. (HasBeenReady(q, gClientHandles[q]))'
    BY <1>1, <1>2, <1>3, <1>4, <1>9, <2>1 DEF HasBeenReady
  <2>3. QED
    BY <2>2 DEF Shake
<1>10. QED
  BY <1>6, <1>7, <1>8, <1>9 DEF Shake

\* What the client that is served has confirmed, when its message is not Ready.
LEMMA ServedShake ==
  ASSUME TypeStrong, ProtoInv, Shaken, NEW k \in Conns, toServer[k] # <<>>, Used(k)
  PROVE  LET m == Head(toServer[k])
         IN  /\ gClientHandles[m.name] = k /\ m.name \in Names
             /\ \/ /\ m = ConfirmMsg(m.name) /\ VarConfirmed(m.name, k)
                   /\ Tail(toServer[k]) = <<>>
                \/ m.cmd = "Results" /\ HasBeenReady(m.name, k)
<1> DEFINE m == Head(toServer[k])
<1>1. PICK n \in Names : gClientHandles[n] = k
  BY DEF Used
<1>2. Known(n) /\ Shake(n, k)
  BY <1>1, NoConnAssumption DEF Known, Shaken
<1>3. toServer[k] \in Seq(ClientMsg) /\ m \in Range(toServer[k])
  BY RangeTail DEF TypeStrong, TypeOK
<1>4. ~VarSent(n, k)
  BY DEF VarSent
<1>5. CASE VarConfirmed(n, k)
  <2>1. toServer[k] = <<ConfirmMsg(n)>>
    BY <1>5 DEF VarConfirmed
  <2>2. m = ConfirmMsg(n) /\ Tail(toServer[k]) = <<>>
    BY <2>1, TailOne
  <2>3. m.name = n
    <3>1. ConfirmMsg(n).name = n
      BY DEF ConfirmMsg
    <3>2. QED
      BY <2>2, <3>1
  <2>4. QED
    BY <1>1, <1>5, <2>2, <2>3
<1>6. CASE HasBeenReady(n, k)
  <2>1. m.cmd = "Results" /\ m.name = n
    BY <1>3, <1>6 DEF HasBeenReady
  <2>2. QED
    BY <1>1, <1>6, <2>1
<1>7. QED
  BY <1>2, <1>4, <1>5, <1>6 DEF Shake

\* Until AddReady is reached with a connection in use, its channel is as it was
\* but for a command or Exit at its end.
LEMMA AddedLast ==
  ASSUME TypeOK, Given(toClient), NEW k \in Conns, outcome' = "running",
         \A x \in Range(toClient[k]) : x.cmd = "Execute"
  PROVE  \A x \in Range(toClient'[k]) : x.cmd = "Execute"
<1>1. CASE toClient'[k] = toClient[k]
  BY <1>1
<1>2. CASE \E m \in ServerMsg : toClient'[k] = Append(toClient[k], m) /\ Last(k, m)
  <2>1. PICK m \in ServerMsg : toClient'[k] = Append(toClient[k], m) /\ m.cmd = "Execute"
    BY <1>2 DEF Last
  <2>2. toClient[k] \in Seq(ServerMsg)
    BY DEF TypeOK
  <2>3. Range(toClient'[k]) = Range(toClient[k]) \cup {m}
    BY <2>1, <2>2, RangeAppend
  <2>4. QED
    BY <2>1, <2>3
<1>3. QED
  BY <1>1, <1>2 DEF Given

\* The client whose message is read.
LEMMA ServedStillShakes ==
  ASSUME TypeStrong, ProtoInv, ShakeInv, gSetEnv > 0, NEW k \in Conns, Receive(k),
         outcome' = "running"
  PROVE  \E n \in Names :
              /\ n = Served(k) /\ gClientHandles'[n] = k
              /\ (Shake(n, gClientHandles[n]))'
              /\ \A q \in Names : q # n => gClientEnvNum'[q] = gClientEnvNum[q]
<1> DEFINE m == Head(toServer[k])
<1>0. PICK n : n = Served(k)
  OBVIOUS
<1>1. /\ outcome = "running" /\ toServer[k] # <<>>
      /\ GetsReady(k, m) \/ GetsEnvReady(k, m) \/ GetsResults(m)
      /\ toServer' = [toServer EXCEPT ![k] = Tail(@)]
      /\ UNCHANGED <<input, accepted, clientVars, open>>
  BY ReceiveCases
<1>2. TypeOK /\ OneConnection /\ Shaken /\ n \in Names /\ gSetEnv \in Nat
  BY <1>0, <1>1, ReceiveEnds, BuildTypes DEF TypeStrong, ShakeInv
<1>3. /\ m \in ClientMsg /\ m.name \in Names /\ m \in Range(toServer[k])
      /\ toServer'[k] = Tail(toServer[k])
  BY <1>1, <1>2, HeadIs, ClientMsgKinds
<1>4. /\ pc' = pc /\ gClientName' = gClientName /\ env' = env /\ timer' = timer
      /\ gSetEnv' = gSetEnv
      /\ toClient \in [Conns -> Seq(ServerMsg)] /\ k[1] \in Clients
  BY <1>1, <1>2 DEF input, clientVars, TypeOK, Conns
<1>5. CASE GetsReady(k, m)
  <2>1. m.cmd = "Ready"
    BY <1>5 DEF GetsReady
  <2>2. /\ toServer[k] = <<ReadyMsg(k[1])>> /\ ~Used(k) /\ m = ReadyMsg(k[1])
        /\ ~Known(NewName(k, ReadyMsg(k[1])))
        /\ gClientHandles' = [gClientHandles EXCEPT ![NewName(k, ReadyMsg(k[1]))] = k]
    BY <2>1, KnownStays
  <2>3. n = NewName(k, m) /\ ~Known(n) /\ gClientHandles' = [gClientHandles EXCEPT ![n] = k]
    BY <1>0, <2>1, <2>2 DEF Served
  <2>4. gClientHandles'[n] = k
    BY <1>2, <2>3 DEF TypeOK
  <2>5. NextVar(n, k, 0, Greeted(k, m), Opened)
    BY <1>2, <1>5, <2>3 DEF GetsReady, HasAll
  <2>6. Greeted(k, m) \in [Conns -> Seq(ServerMsg)]
    BY <1>2, <1>3, GreetedIs
  <2>7. toClient'[k] = Append(Greeted(k, m)[k], VarMsg(0))
    BY <1>2, <2>5, <2>6, NextVarDoes DEF VarMsg
  <2>8. /\ gClientEnvNum' = [gClientEnvNum EXCEPT ![n] = 1]
        /\ gClientStatus' = gClientStatus
    BY <2>5 DEF NextVar
  <2>9. /\ gClientEnvNum'[n] = 1 /\ \A q \in Names : q # n => gClientEnvNum'[q] = gClientEnvNum[q]
        /\ gClientStatus'[n] = "none"
    BY <1>2, <2>3, <2>8 DEF TypeOK, ProtoInv, HandlesInv
  <2>10. toClient[k] = <<>>
    BY <2>2 DEF ProtoInv, ConnInv
  <2>11. toServer'[k] = <<>>
    BY <1>3, <2>2, TailOne
  <2>12. gClientName[k[1]] = Name(k[1]) /\ m.name = Name(k[1])
    <3>1. gClientName[k[1]] = Name(k[1])
      BY <1>2, <1>3, <2>1 DEF OneConnection
    <3>2. ReadyMsg(k[1]).name = Name(k[1])
      BY DEF ReadyMsg
    <3>3. QED
      BY <2>2, <3>1, <3>2
  <2>13. pc[k[1]] # "execute"
    <3> SUFFICES ASSUME pc[k[1]] = "execute" PROVE FALSE
      OBVIOUS
    <3>1. PICK l \in Conns : l = job[k[1]].conn /\ l[1] = k[1] /\ Used(l)
      BY <1>4 DEF TypeStrong, JobConns, ProtoInv, CallerInv
    <3>2. l[2] <= iSuccessConnect[l[1]]
      BY <3>1, UsedMade
    <3>3. k[2] <= iSuccessConnect[k[1]]
      <4>1. ~(k[2] > iSuccessConnect[k[1]])
        BY <1>1 DEF ProtoInv, ConnInv
      <4>2. k[2] \in Int /\ iSuccessConnect[k[1]] \in Int
        BY <1>2, <1>4 DEF Conns, TypeOK
      <4>3. QED
        BY <4>1, <4>2
    <3>4. k = l
      BY <1>2, <3>1, <3>2, <3>3, SameConnection
    <3>5. QED
      BY <2>2, <3>1, <3>4
  <2>14. \/ toClient'[k] = <<VarMsg(0)>> /\ gClientName'[k[1]] = n
         \/ toClient'[k] = <<NameMsg(n), VarMsg(0)>>
    <3>0. PICK v, w : v = VarMsg(0) /\ w = NameMsg(n)
      OBVIOUS
    <3>1. CASE ~Known(m.name)
      <4>1. Greeted(k, m) = toClient
        BY <1>2, <1>3, <3>1, GreetedIs
      <4>2. n = m.name
        BY <2>3, <3>1 DEF NewName
      <4>3. toClient'[k] = Append(<<>>, v)
        BY <2>7, <2>10, <3>0, <4>1
      <4>4. toClient'[k] = <<v>>
        BY <4>3, AppendFirst
      <4>5. gClientName'[k[1]] = n
        BY <1>4, <2>12, <4>2
      <4>6. QED
        BY <3>0, <4>4, <4>5
    <3>2. CASE Known(m.name)
      <4>1. Greeted(k, m)[k] = Append(toClient[k], w)
        BY <1>2, <1>3, <2>3, <3>0, <3>2, GreetedIs DEF NameMsg
      <4>2. Greeted(k, m)[k] = <<w>>
        BY <2>10, <4>1, AppendFirst
      <4>3. toClient'[k] = Append(<<w>>, v)
        BY <2>7, <3>0, <4>2
      <4>4. toClient'[k] = <<w, v>>
        BY <4>3, AppendSecond
      <4>5. QED
        BY <3>0, <4>4
    <3>3. QED
      BY <3>1, <3>2
  <2>15. (VarSent(n, gClientHandles[n]))'
    <3>1. 0 .. (1 - 2) = {} /\ 1 - 1 = 0
      OBVIOUS
    <3>2. QED
      BY <1>4, <2>4, <2>9, <2>11, <2>13, <2>14, <3>1 DEF VarSent, VarMsg, NameMsg
  <2>16. QED
    BY <1>0, <1>2, <2>4, <2>9, <2>15 DEF Shake
<1>6. CASE GetsEnvReady(k, m)
  <2>1. m.cmd = "SetEnv Ready" /\ gClientHandles' = gClientHandles
    BY <1>6 DEF GetsEnvReady
  <2>2. Used(k)
    BY <2>1, KnownStays
  <2>3. /\ gClientHandles[m.name] = k /\ VarConfirmed(m.name, k) /\ Tail(toServer[k]) = <<>>
    BY <1>1, <1>2, <2>1, <2>2, ServedShake
  <2>4. n = m.name /\ gClientHandles'[n] = k
    BY <1>0, <2>1, <2>3 DEF Served
  <2>5. toServer'[k] = <<>>
    BY <1>3, <2>3
  <2>6. /\ gClientStatus[n] = "none" /\ gClientEnvNum[n] > 0 /\ pc[k[1]] # "execute"
        /\ toClient[k] = <<>> /\ 0 .. (gClientEnvNum[n] - 1) \subseteq env[k[1]]
        /\ gClientName[k[1]] = n /\ ~timer[k[1]]
    BY <2>3, <2>4 DEF VarConfirmed
  <2>7. gClientEnvNum \in [Names -> 0 .. gSetEnv] /\ gClientEnvNum[n] \in Nat
    BY <1>2 DEF TypeOK
  <2>8. CASE NextVar(n, k, gClientEnvNum[n], toClient, log)
    <3>1. toClient'[k] = <<VarMsg(gClientEnvNum[n])>>
      <4>1. toClient'[k] = Append(toClient[k], VarMsg(gClientEnvNum[n]))
        BY <1>2, <1>4, <2>7, <2>8, NextVarDoes DEF VarMsg
      <4>2. QED
        BY <2>6, <4>1
    <3>2. gClientEnvNum' = [gClientEnvNum EXCEPT ![n] = gClientEnvNum[n] + 1]
          /\ gClientStatus' = gClientStatus
      BY <2>8 DEF NextVar
    <3>3. /\ gClientEnvNum'[n] = gClientEnvNum[n] + 1
          /\ \A q \in Names : q # n => gClientEnvNum'[q] = gClientEnvNum[q]
      BY <1>2, <2>7, <3>2
    <3>4. /\ gClientEnvNum'[n] > 0 /\ gClientEnvNum'[n] - 1 = gClientEnvNum[n]
          /\ gClientEnvNum'[n] - 2 = gClientEnvNum[n] - 1
      BY <2>7, <3>3
    <3>5. (VarSent(n, gClientHandles[n]))'
      BY <1>4, <2>4, <2>5, <2>6, <3>1, <3>2, <3>4 DEF VarSent, VarMsg
    <3>6. QED
      BY <1>0, <1>2, <2>4, <3>3, <3>5 DEF Shake
  <2>9. CASE HasAll(n, gClientEnvNum[n], toClient, log)
    <3>1. AddReady(n, toClient, log, gRealTimeError)
      BY <2>9 DEF HasAll
    <3>2. Given(toClient)
      BY <1>1, <1>2, <1>4, <3>1, AddReadyDoes DEF TypeOK
    <3>3. MadeBusy(WaitingNow(n))
      BY <1>1, <1>2, <1>4, <3>1, AddReadyDoes DEF TypeOK
    <3>4. gClientStatus'[n] # "none"
      BY <1>2, <3>3, WaitingNowIs DEF MadeBusy
    <3>5. \A x \in Range(toClient'[k]) : x.cmd = "Execute"
      BY <1>2, <2>6, <3>2, AddedLast, RangeNone
    <3>6. \A q \in Names : q # n => gClientEnvNum'[q] = gClientEnvNum[q]
      BY <2>7, <2>9 DEF HasAll
    <3>7. (HasBeenReady(n, gClientHandles[n]))'
      BY <1>4, <2>4, <2>5, <2>6, <3>4, <3>5, RangeNone DEF HasBeenReady
    <3>8. QED
      BY <1>0, <1>2, <2>4, <3>6, <3>7 DEF Shake
  <2>10. QED
    BY <1>6, <2>4, <2>8, <2>9 DEF GetsEnvReady
<1>7. CASE GetsResults(m)
  <2>1. /\ m.cmd = "Results" /\ gClientHandles' = gClientHandles /\ gClientEnvNum' = gClientEnvNum
        /\ AddReady(m.name, toClient, Reported(m), gRealTimeError \/ m.bad)
    BY <1>7 DEF GetsResults
  <2>2. Used(k)
    BY <2>1, KnownStays
  <2>3. gClientHandles[m.name] = k /\ HasBeenReady(m.name, k)
    <3>1. ConfirmMsg(m.name).cmd = "SetEnv Ready"
      BY DEF ConfirmMsg
    <3>2. QED
      BY <1>1, <1>2, <2>1, <2>2, <3>1, ServedShake
  <2>4. n = m.name /\ gClientHandles'[n] = k
    BY <1>0, <2>1, <2>3 DEF Served
  <2>5. Reported(m) \in Seq(LogLine) /\ (gRealTimeError \/ m.bad) \in BOOLEAN
    <3>1. gRealTimeError \in BOOLEAN /\ m.bad \in BOOLEAN
      BY <1>2, <1>3, <2>1, ClientMsgKinds DEF TypeOK
    <3>2. QED
      BY <1>2, <1>3, <2>1, <3>1, ReportedIs
  <2>6. Given(toClient)
    BY <1>1, <1>2, <1>3, <1>4, <2>1, <2>5, AddReadyDoes
  <2>7. \A x \in Range(toClient'[k]) : x.cmd = "Execute"
    BY <1>2, <2>3, <2>6, AddedLast DEF HasBeenReady
  <2>8. gClientStatus'[n] # "none"
    BY <1>2, <2>3, <2>4, StatusStays DEF HasBeenReady
  <2>9. \A x \in Range(toServer'[k]) : x.cmd = "Results" /\ x.name = n
    BY <1>1, <1>2, <2>3, <2>4, HeadIs DEF HasBeenReady
  <2>10. (HasBeenReady(n, gClientHandles[n]))'
    BY <1>4, <2>3, <2>4, <2>7, <2>8, <2>9 DEF HasBeenReady
  <2>11. QED
    BY <1>0, <1>2, <2>1, <2>4, <2>10 DEF Shake
<1>8. QED
  BY <1>1, <1>5, <1>6, <1>7

LEMMA ReceiveShake ==
  ASSUME TypeStrong, ProtoInv, ShakeInv, NEW k \in Conns, Receive(k), ProtoInv'
  PROVE  ShakeInv'
<1> SUFFICES ASSUME outcome' = "running", gSetEnv' > 0
             PROVE  OneConnection' /\ Shaken'
  BY DEF ShakeInv
<1>1. /\ outcome = "running" /\ toServer[k] # <<>>
      /\ toServer' = [toServer EXCEPT ![k] = Tail(@)]
      /\ UNCHANGED <<input, accepted, clientVars, open>>
  BY ReceiveCases
<1>2. /\ gSetEnv' = gSetEnv /\ iClientName' = iClientName /\ pc' = pc
      /\ gClientName' = gClientName /\ iSuccessConnect' = iSuccessConnect /\ open' = open
  BY <1>1 DEF input, clientVars
<1>3. TypeOK /\ OneConnection /\ Shaken /\ gSetEnv > 0
  BY <1>1, <1>2 DEF TypeStrong, ShakeInv
<1>4. PICK n \in Names :
        /\ n = Served(k) /\ gClientHandles'[n] = k
        /\ (Shake(n, gClientHandles[n]))'
        /\ \A q \in Names : q # n => gClientEnvNum'[q] = gClientEnvNum[q]
  BY <1>3, ServedStillShakes
<1>5. /\ \A l \in Conns : l # k => toServer'[l] = toServer[l]
      /\ \A l \in Conns : Range(toServer'[l]) \subseteq Range(toServer[l])
  BY <1>1, <1>3, HeadIs
<1>6. \A q \in Names : q # n => gClientHandles'[q] = gClientHandles[q]
  <2>1. CASE Head(toServer[k]).cmd = "Ready"
    <3>1. /\ Head(toServer[k]) = ReadyMsg(k[1])
          /\ gClientHandles' = [gClientHandles EXCEPT ![NewName(k, ReadyMsg(k[1]))] = k]
      BY <2>1, KnownStays
    <3>2. n = NewName(k, ReadyMsg(k[1]))
      BY <1>4, <2>1, <3>1 DEF Served
    <3>3. QED
      BY <1>3, <3>1, <3>2 DEF TypeOK
  <2>2. CASE Head(toServer[k]).cmd # "Ready"
    BY <2>2, KnownStays
  <2>3. QED
    BY <2>1, <2>2
<1>7. Shaken'
  <2> SUFFICES ASSUME NEW q \in Names, (Known(q))'
               PROVE  (Shake(q, gClientHandles[q]))'
    BY DEF Shaken
  <2>1. CASE q = n
    BY <1>4, <2>1
  <2>2. CASE q # n
    <3>1. gClientHandles'[q] = gClientHandles[q] /\ Known(q)
      BY <1>6, <2>2 DEF Known
    <3>2. gClientHandles[q] # k
      BY <1>4, <2>2, <3>1 DEF ProtoInv, HandlesInv
    <3>3. Shake(q, gClientHandles[q])
      BY <1>3, <3>1 DEF Shaken
    <3>4. QED
      BY <1>4, <2>2, <3>1, <3>2, <3>3, OthersShake
  <2>3. QED
    BY <2>1, <2>2
<1>8. OneConnection'
  <2>1. \A l \in Conns : (ReadyMsg(l[1]))' = ReadyMsg(l[1]) /\ (Name(l[1]))' = Name(l[1])
    BY <1>2 DEF ReadyMsg, Name
  <2>2. ASSUME NEW l \in Conns, l[2] <= iSuccessConnect[l[1]]
        PROVE  (Used(l))' \/ toServer'[l] = <<ReadyMsg(l[1])>>
    <3>1. CASE l = k
      BY <1>4, <3>1 DEF Used
    <3>2. CASE l # k
      <4>1. Used(l) \/ toServer[l] = <<ReadyMsg(l[1])>>
        BY <1>3, <2>2 DEF OneConnection
      <4>2. Used(l) => (Used(l))'
        BY KnownStays
      <4>3. QED
        BY <1>5, <3>2, <4>1, <4>2
    <3>3. QED
      BY <3>1, <3>2
  <2>3. \A l \in Conns : \A x \in Range(toServer'[l]) :
          x.cmd = "Ready" => gClientName[l[1]] = Name(l[1])
    BY <1>3, <1>5 DEF OneConnection
  <2>4. QED
    BY <1>2, <1>3, <2>1, <2>2, <2>3 DEF OneConnection
<1>9. QED
  BY <1>7, <1>8

\* A step of the client of connection k, which is in use and its only one.
LEMMA StepShakes ==
  ASSUME TypeStrong, ProtoInv, OneConnection, Shaken, ServerStill,
         NEW k \in Conns, NEW n \in Names, gClientHandles[n] = k,
         UNCHANGED <<iSuccessConnect, open>>,
         {pc[k[1]], pc'[k[1]]} \subseteq {"loop", "execute"},
         \A d \in Clients : d # k[1] =>
           /\ pc'[d] = pc[d] /\ gClientName'[d] = gClientName[d]
           /\ env'[d] = env[d] /\ timer'[d] = timer[d],
         \A l \in Conns : l # k => toServer'[l] = toServer[l] /\ toClient'[l] = toClient[l],
         \A x \in Range(toServer'[k]) : x.cmd # "Ready",
         (Shake(n, gClientHandles[n]))'
  PROVE  OneConnection' /\ Shaken'
<1>1. /\ gClientHandles' = gClientHandles /\ iClientName' = iClientName
      /\ gClientStatus' = gClientStatus /\ gClientEnvNum' = gClientEnvNum
  BY NamesStill
<1>2. Used(k) /\ k[2] <= iSuccessConnect[k[1]]
  BY UsedMade DEF Used
<1>3. ASSUME NEW l \in Conns, l # k, l[1] = k[1]
      PROVE  ~(l[2] <= iSuccessConnect[l[1]])
  BY <1>2, <1>3, SameConnection
<1>4. ASSUME NEW l \in Conns, l # k, l[1] = k[1]
      PROVE  toServer[l] = <<>> /\ ~Used(l)
  <2>1. ~(l[2] <= iSuccessConnect[l[1]])
    BY <1>3, <1>4
  <2>2. l[2] \in Int /\ iSuccessConnect[l[1]] \in Int
    BY DEF Conns, TypeStrong, TypeOK
  <2>3. toServer[l] = <<>>
    BY <2>1, <2>2 DEF ProtoInv, ConnInv
  <2>4. QED
    BY <2>1, <2>3, UsedMade
<1>5. \A l \in Conns : l[1] \in Clients
  BY DEF Conns
<1>6. Shaken'
  <2> SUFFICES ASSUME NEW q \in Names, (Known(q))'
               PROVE  (Shake(q, gClientHandles[q]))'
    BY DEF Shaken
  <2>1. Known(q)
    BY <1>1 DEF Known
  <2>2. PICK l \in Conns : l = gClientHandles[q] /\ Used(l)
    BY <2>1, KnownHandle
  <2>3. CASE l = k
    <3>1. q = n
      <4>1. gClientHandles[q] = gClientHandles[n] /\ Known(q)
        BY <2>1, <2>2, <2>3
      <4>2. \A x, y \in Names : Known(x) /\ gClientHandles[y] = gClientHandles[x] => y = x
        BY DEF ProtoInv, HandlesInv
      <4>3. QED
        BY <4>1, <4>2
    <3>2. QED
      BY <3>1
  <2>4. CASE l # k
    <3>1. l[1] # k[1] /\ l[1] \in Clients
      BY <1>4, <1>5, <2>2, <2>4
    <3>2. /\ pc'[l[1]] = pc[l[1]] /\ gClientName'[l[1]] = gClientName[l[1]]
          /\ env'[l[1]] = env[l[1]] /\ timer'[l[1]] = timer[l[1]]
          /\ toServer'[l] = toServer[l] /\ toClient'[l] = toClient[l]
      BY <2>4, <3>1
    <3>3. gClientHandles'[q] = l
      BY <1>1, <2>2
    <3>4. Shake(q, l)
      BY <2>1, <2>2 DEF Shaken
    <3>5. QED
      BY <1>1, <3>2, <3>3, <3>4 DEF Shake, VarSent, VarConfirmed, HasBeenReady,
                                    VarMsg, NameMsg, ConfirmMsg
  <2>5. QED
    BY <2>3, <2>4
<1>7. OneConnection'
  <2>1. \A l \in Conns : /\ (ReadyMsg(l[1]))' = ReadyMsg(l[1]) /\ (Name(l[1]))' = Name(l[1])
                         /\ (Used(l))' <=> Used(l)
    BY <1>1 DEF ReadyMsg, Name, Used
  <2>2. ASSUME NEW c \in Clients
        PROVE  /\ iSuccessConnect'[c] <= 1
               /\ pc'[c] = "connect" => iSuccessConnect'[c] = 0
               /\ pc'[c] \in {"loop", "execute"} =>
                    iSuccessConnect'[c] = 1 /\ <<c, 1>> \in open'
    <3>1. /\ iSuccessConnect[c] <= 1
          /\ pc[c] = "connect" => iSuccessConnect[c] = 0
          /\ pc[c] \in {"loop", "execute"} => iSuccessConnect[c] = 1 /\ <<c, 1>> \in open
      BY DEF OneConnection
    <3>2. iSuccessConnect' = iSuccessConnect /\ open' = open
      OBVIOUS
    <3>3. CASE c = k[1]
      <4>1. pc[c] \in {"loop", "execute"} /\ pc'[c] # "connect"
        BY <3>3
      <4>2. QED
        BY <3>1, <3>2, <4>1
    <3>4. CASE c # k[1]
      <4>1. pc'[c] = pc[c]
        BY <3>4
      <4>2. QED
        BY <3>1, <3>2, <4>1
    <3>5. QED
      BY <3>3, <3>4
  <2>3. ASSUME NEW l \in Conns, NEW x \in Range(toServer'[l]), x.cmd = "Ready"
        PROVE  gClientName'[l[1]] = Name(l[1])
    <3>1. l # k
      BY <2>3
    <3>2. toServer'[l] = toServer[l] /\ toServer[l] # <<>>
      BY <2>3, <3>1, RangeNone
    <3>3. l[1] # k[1]
      BY <1>4, <3>1, <3>2
    <3>4. gClientName[l[1]] = Name(l[1])
      BY <2>3, <3>2 DEF OneConnection
    <3>5. QED
      BY <1>5, <3>3, <3>4
  <2>4. ASSUME NEW l \in Conns, l[2] <= iSuccessConnect[l[1]]
        PROVE  Used(l) \/ toServer'[l] = <<ReadyMsg(l[1])>>
    <3>1. Used(l) \/ toServer[l] = <<ReadyMsg(l[1])>>
      BY <2>4 DEF OneConnection
    <3>2. QED
      BY <1>2, <3>1
  <2>5. QED
    BY <2>1, <2>2, <2>3, <2>4 DEF OneConnection
<1>8. QED
  BY <1>6, <1>7

LEMMA ReadMsgShake ==
  ASSUME TypeStrong, ProtoInv, OneConnection, Shaken,
         NEW c \in Clients, NEW k \in Conns, ReadMsg(c, k)
  PROVE  OneConnection' /\ Shaken'
<1>0. PICK m : m = Head(toClient[k])
  OBVIOUS
<1>1. /\ ServerStill /\ CanRead(c, k)
      /\ ChangeClientName(c, m) \/ SetEnv(c, k, m) \/ Exit(c, m) \/ Execute(c, k, m)
      /\ toClient' = [toClient EXCEPT ![k] = Tail(@)]
      /\ timer' = [timer EXCEPT ![c] = FALSE] /\ iSuccessConnect' = iSuccessConnect
  BY <1>0, ReadMsgCases
<1>2. TypeOK /\ toClient[k] # <<>> /\ k[1] = c /\ pc[c] = "loop"
  BY <1>1 DEF CanRead, TypeStrong, Mine
<1>3. Used(k)
  BY <1>2 DEF ProtoInv, ConnInv
<1>4. PICK n \in Names : gClientHandles[n] = k
  BY <1>3 DEF Used
<1>5. Known(n) /\ Shake(n, k)
  BY <1>4, NoConnAssumption DEF Known, Shaken
<1>6. /\ m \in ServerMsg /\ m \in Range(toClient[k])
      /\ toClient'[k] = Tail(toClient[k])
      /\ \A l \in Conns : l # k => toClient'[l] = toClient[l]
      /\ Range(toClient'[k]) \subseteq Range(toClient[k])
  BY <1>0, <1>1, <1>2, ToClientHead
<1>7. /\ gClientHandles' = gClientHandles
      /\ gClientStatus' = gClientStatus /\ gClientEnvNum' = gClientEnvNum
  BY <1>1, NamesStill
<1>8. /\ ~timer'[c] /\ \A d \in Clients : d # c => timer'[d] = timer[d]
  BY <1>1, <1>2 DEF TypeOK
<1>9. \A x \in Range(toServer[k]) : x.cmd # "Ready"
  BY <1>3 DEF ProtoInv, ConnInv
<1>10. CASE VarSent(n, k)
  <2>0. PICK v, w : v = VarMsg(gClientEnvNum[n] - 1) /\ w = NameMsg(n)
    OBVIOUS
  <2>1. v.cmd = "SetEnv" /\ v.var = gClientEnvNum[n] - 1 /\ w.cmd = "ChangeClientName" /\ w.name = n
    BY <2>0 DEF VarMsg, NameMsg
  <2>2. /\ toServer[k] = <<>> /\ gClientStatus[n] = "none" /\ gClientEnvNum[n] > 0
        /\ 0 .. (gClientEnvNum[n] - 2) \subseteq env[c]
        /\ \/ toClient[k] = <<v>> /\ gClientName[c] = n
           \/ toClient[k] = <<w, v>>
    BY <1>2, <1>10, <2>0 DEF VarSent
  <2>3. gClientEnvNum[n] \in Nat
    BY <1>2 DEF TypeOK
  <2>4. CASE toClient[k] = <<v>> /\ gClientName[c] = n
    <3>1. m = v /\ toClient'[k] = <<>>
      BY <1>0, <1>6, <2>4, TailOne
    <3>2. SetEnv(c, k, m)
      BY <1>1, <2>1, <3>1 DEF ChangeClientName, Exit, Execute
    <3>3. /\ env' = [env EXCEPT ![c] = @ \cup {gClientEnvNum[n] - 1}]
          /\ pc' = pc /\ gClientName' = gClientName /\ open' = open
          /\ Reply(k, [cmd |-> "SetEnv Ready", name |-> gClientName[c]])
      BY <2>1, <3>1, <3>2 DEF SetEnv
    <3>4. PICK x : x = ConfirmMsg(n)
      OBVIOUS
    <3>5. x \in ClientMsg /\ x.cmd = "SetEnv Ready" /\ Reply(k, x)
      BY <2>4, <3>3, <3>4, ToServerMsgs DEF ConfirmMsg
    <3>6. /\ toServer'[k] = Append(toServer[k], x)
          /\ \A l \in Conns : l # k => toServer'[l] = toServer[l]
          /\ Range(toServer'[k]) = Range(toServer[k]) \cup {x}
      BY <1>2, <3>5, ReplyIs
    <3>7. toServer'[k] = <<x>>
      BY <2>2, <3>6, AppendFirst
    <3>8. 0 .. (gClientEnvNum[n] - 1) \subseteq env'[c]
      <4>1. env'[c] = env[c] \cup {gClientEnvNum[n] - 1}
        BY <1>2, <3>3 DEF TypeOK
      <4>2. 0 .. (gClientEnvNum[n] - 1) = (0 .. (gClientEnvNum[n] - 2)) \cup {gClientEnvNum[n] - 1}
        BY <2>2, <2>3
      <4>3. QED
        BY <2>2, <4>1, <4>2
    <3>9. (VarConfirmed(n, gClientHandles[n]))'
      BY <1>2, <1>4, <1>7, <1>8, <2>2, <2>4, <3>1, <3>3, <3>4, <3>7, <3>8
         DEF VarConfirmed, ConfirmMsg
    <3>10. (Shake(n, gClientHandles[n]))'
      BY <3>9 DEF Shake
    <3>11. \A d \in Clients : d # c =>
             pc'[d] = pc[d] /\ gClientName'[d] = gClientName[d] /\ env'[d] = env[d]
      BY <1>2, <3>3 DEF TypeOK
    <3>12. \A y \in Range(toServer'[k]) : y.cmd # "Ready"
      BY <1>9, <3>5, <3>6
    <3>13. {pc[k[1]], pc'[k[1]]} \subseteq {"loop", "execute"}
      BY <1>2, <3>3
    <3>14. \A d \in Clients : d # k[1] =>
             /\ pc'[d] = pc[d] /\ gClientName'[d] = gClientName[d]
             /\ env'[d] = env[d] /\ timer'[d] = timer[d]
      BY <1>2, <1>8, <3>11
    <3>15. \A l \in Conns : l # k => toServer'[l] = toServer[l] /\ toClient'[l] = toClient[l]
      BY <1>6, <3>6
    <3>16. UNCHANGED <<iSuccessConnect, open>>
      BY <1>1, <3>3
    <3>17. QED
      BY <1>1, <1>4, <3>10, <3>12, <3>13, <3>14, <3>15, <3>16, StepShakes
  <2>5. CASE toClient[k] = <<w, v>>
    <3>1. m = w /\ toClient'[k] = <<v>>
      BY <1>0, <1>6, <2>5
    <3>2. ChangeClientName(c, m)
      BY <1>1, <2>1, <3>1 DEF SetEnv, Exit, Execute
    <3>3. gClientName' = [gClientName EXCEPT ![c] = n] /\ UNCHANGED <<pc, env, job, open, toServer>>
      BY <2>1, <3>1, <3>2 DEF ChangeClientName
    <3>4. /\ gClientName'[c] = n
          /\ \A d \in Clients : d # c => gClientName'[d] = gClientName[d]
      BY <1>2, <3>3 DEF TypeOK
    <3>5. (VarSent(n, gClientHandles[n]))'
      BY <1>2, <1>4, <1>7, <2>0, <2>2, <3>1, <3>3, <3>4 DEF VarSent, VarMsg
    <3>6. (Shake(n, gClientHandles[n]))'
      BY <3>5 DEF Shake
    <3>7. {pc[k[1]], pc'[k[1]]} \subseteq {"loop", "execute"}
      BY <1>2, <3>3
    <3>8. \A d \in Clients : d # k[1] =>
             /\ pc'[d] = pc[d] /\ gClientName'[d] = gClientName[d]
             /\ env'[d] = env[d] /\ timer'[d] = timer[d]
      <4>1. pc' = pc /\ env' = env
        BY <3>3
      <4>2. QED
        BY <1>2, <1>8, <3>4, <4>1
    <3>9. \A l \in Conns : l # k => toServer'[l] = toServer[l] /\ toClient'[l] = toClient[l]
      BY <1>6, <3>3
    <3>10. UNCHANGED <<iSuccessConnect, open>>
      BY <1>1, <3>3
    <3>11. \A x \in Range(toServer'[k]) : x.cmd # "Ready"
      BY <1>9, <3>3
    <3>12. ServerStill
      BY <1>1
    <3>13. QED
      BY <1>4, <3>6, <3>7, <3>8, <3>9, <3>10, <3>11, <3>12, StepShakes
  <2>6. QED
    BY <2>2, <2>4, <2>5
<1>11. CASE HasBeenReady(n, k)
  <2>1. m.cmd = "Execute"
    BY <1>6, <1>11 DEF HasBeenReady
  <2>2. Execute(c, k, m)
    BY <1>1, <2>1 DEF ChangeClientName, SetEnv, Exit
  <2>3. pc' = [pc EXCEPT ![c] = "execute"] /\ UNCHANGED <<gClientName, env, open, toServer>>
    BY <2>2 DEF Execute
  <2>4. pc'[c] = "execute" /\ \A d \in Clients : d # c => pc'[d] = pc[d]
    BY <1>2, <2>3 DEF TypeOK
  <2>5. (HasBeenReady(n, gClientHandles[n]))'
    BY <1>2, <1>4, <1>6, <1>7, <1>8, <1>11, <2>3 DEF HasBeenReady
  <2>6. (Shake(n, gClientHandles[n]))'
    BY <2>5 DEF Shake
  <2>7. {pc[k[1]], pc'[k[1]]} \subseteq {"loop", "execute"}
    BY <1>2, <2>4
  <2>8. QED
    BY <1>1, <1>2, <1>4, <1>6, <1>8, <1>9, <2>3, <2>4, <2>6, <2>7, StepShakes
<1>12. QED
  BY <1>2, <1>5, <1>10, <1>11 DEF Shake, VarConfirmed

LEMMA FinishShake ==
  ASSUME TypeStrong, ProtoInv, OneConnection, Shaken, NEW c \in Clients, Finish(c)
  PROVE  OneConnection' /\ Shaken'
<1>0. TypeOK /\ pc[c] = "execute"
  BY DEF TypeStrong, Finish
<1>1. PICK k \in Conns : k = job[c].conn /\ k[1] = c /\ Used(k)
  BY <1>0 DEF TypeStrong, JobConns, ProtoInv, CallerInv
<1>2. ServerStill /\ UNCHANGED <<iSuccessConnect, open, gClientName, timer, env, toClient>>
  BY DEF Finish, ServerStill
<1>3. PICK n \in Names : gClientHandles[n] = k
  BY <1>1 DEF Used
<1>4. HasBeenReady(n, k)
  <2>1. Shake(n, k)
    BY <1>3, NoConnAssumption DEF Known, Shaken
  <2>2. QED
    BY <1>0, <1>1, <2>1 DEF Shake, VarSent, VarConfirmed
<1>5. job[c].id \in Nat /\ gClientName[c] = n
  BY <1>0, <1>1, <1>4 DEF TypeOK, HasBeenReady
<1>6. PICK bad \in BOOLEAN :
        Reply(k, [cmd |-> "Results", name |-> gClientName[c], id |-> job[c].id, bad |-> bad])
  BY <1>1 DEF Finish
<1>7. PICK x : x = [cmd |-> "Results", name |-> gClientName[c], id |-> job[c].id, bad |-> bad]
  OBVIOUS
<1>8. x \in ClientMsg /\ x.cmd = "Results" /\ x.name = n /\ Reply(k, x)
  BY <1>5, <1>6, <1>7, ToServerMsgs
<1>9. /\ Range(toServer'[k]) = Range(toServer[k]) \cup {x}
      /\ \A l \in Conns : l # k => toServer'[l] = toServer[l]
  BY <1>0, <1>8, ReplyIs
<1>10. /\ gClientHandles' = gClientHandles
       /\ gClientStatus' = gClientStatus /\ gClientEnvNum' = gClientEnvNum
  BY <1>2, NamesStill
<1>11. pc'[c] = "loop" /\ \A d \in Clients : d # c => pc'[d] = pc[d]
  BY <1>0 DEF Finish, TypeOK
<1>12. (HasBeenReady(n, gClientHandles[n]))'
  BY <1>2, <1>3, <1>4, <1>8, <1>9, <1>10 DEF HasBeenReady
<1>13. (Shake(n, gClientHandles[n]))'
  BY <1>12 DEF Shake
<1>14. \A y \in Range(toServer'[k]) : y.cmd # "Ready"
  BY <1>4, <1>8, <1>9 DEF HasBeenReady
<1>15. QED
  BY <1>0, <1>1, <1>2, <1>3, <1>9, <1>11, <1>13, <1>14, StepShakes

LEMMA ConnectShake ==
  ASSUME TypeStrong, ProtoInv, OneConnection, Shaken, NEW c \in Clients, Connect(c)
  PROVE  OneConnection' /\ Shaken'
<1>1. /\ TypeOK /\ pc[c] = "connect" /\ outcome = "running" /\ iSuccessConnect[c] = 0
      /\ iSuccessConnect[c] < MaxConnects
  BY DEF TypeStrong, Connect, OneConnection
<1>2. PICK k : k = <<c, 1>>
  OBVIOUS
<1>3. k \in Conns /\ k[1] = c /\ k[2] = 1
  BY <1>1, <1>2, BuildServerAssumption DEF Conns
<1>4. ServerStill /\ UNCHANGED <<gClientName, env, toClient>>
  BY DEF Connect, ServerStill
<1>5. /\ iSuccessConnect' = [iSuccessConnect EXCEPT ![c] = 1]
      /\ open' = open \cup {k}
      /\ toServer' = [toServer EXCEPT ![k] = <<[cmd |-> "Ready", name |-> gClientName[c]]>>]
      /\ timer' = [timer EXCEPT ![c] = TRUE]
      /\ pc' = [pc EXCEPT ![c] = "loop"]
  BY <1>1, <1>2 DEF Connect
<1>6. /\ toServer'[k] = <<ReadyMsg(c)>>
      /\ \A l \in Conns : l # k => toServer'[l] = toServer[l]
      /\ gClientName[c] = Name(c)
  <2>1. gClientName[c] = Name(c)
    BY <1>1 DEF ProtoInv, CallerInv
  <2>2. QED
    BY <1>1, <1>3, <1>5, <2>1 DEF ReadyMsg, TypeOK
<1>7. /\ iSuccessConnect'[c] = 1 /\ timer'[c] /\ pc'[c] = "loop"
      /\ \A d \in Clients : d # c =>
           /\ iSuccessConnect'[d] = iSuccessConnect[d]
           /\ timer'[d] = timer[d] /\ pc'[d] = pc[d]
  BY <1>1, <1>5 DEF TypeOK
<1>8. /\ gClientHandles' = gClientHandles /\ iClientName' = iClientName
      /\ gClientStatus' = gClientStatus /\ gClientEnvNum' = gClientEnvNum
  BY <1>4, NamesStill
<1>9. \A l \in Conns : l[1] \in Clients /\ l = <<l[1], l[2]>> /\ l[2] \in Nat /\ l[2] >= 1
  BY BuildServerAssumption DEF Conns
<1>10. \A l \in Conns : Used(l) => l[1] # c
  BY <1>1, <1>9, UsedMade
<1>11. Shaken'
  <2> SUFFICES ASSUME NEW q \in Names, (Known(q))'
               PROVE  (Shake(q, gClientHandles[q]))'
    BY DEF Shaken
  <2>1. Known(q)
    BY <1>8 DEF Known
  <2>2. PICK l \in Conns : l = gClientHandles[q] /\ Used(l)
    BY <2>1, KnownHandle
  <2>3. l[1] # c /\ l # k /\ l[1] \in Clients
    BY <1>3, <1>9, <1>10, <2>2
  <2>4. /\ pc'[l[1]] = pc[l[1]] /\ timer'[l[1]] = timer[l[1]] /\ toServer'[l] = toServer[l]
    BY <1>6, <1>7, <2>3
  <2>5. Shake(q, l) /\ gClientHandles'[q] = l
    BY <1>8, <2>1, <2>2 DEF Shaken
  <2>6. QED
    BY <1>4, <1>8, <2>4, <2>5 DEF Shake, VarSent, VarConfirmed, HasBeenReady,
                                  VarMsg, NameMsg, ConfirmMsg
<1>12. OneConnection'
  <2>1. \A l \in Conns : /\ (ReadyMsg(l[1]))' = ReadyMsg(l[1]) /\ (Name(l[1]))' = Name(l[1])
                         /\ (Used(l))' <=> Used(l)
    BY <1>8 DEF ReadyMsg, Name, Used
  <2>2. ASSUME NEW d \in Clients
        PROVE  /\ iSuccessConnect'[d] <= 1
               /\ pc'[d] = "connect" => iSuccessConnect'[d] = 0
               /\ pc'[d] \in {"loop", "execute"} =>
                    iSuccessConnect'[d] = 1 /\ <<d, 1>> \in open'
    <3>1. CASE d = c
      BY <1>2, <1>5, <1>7, <3>1
    <3>2. CASE d # c
      BY <1>5, <1>7, <3>2 DEF OneConnection
    <3>3. QED
      BY <3>1, <3>2
  <2>3. ASSUME NEW l \in Conns, NEW x \in Range(toServer'[l]), x.cmd = "Ready"
        PROVE  gClientName'[l[1]] = Name(l[1])
    <3>1. CASE l = k
      BY <1>3, <1>4, <1>6, <3>1
    <3>2. CASE l # k
      BY <1>4, <1>6, <2>3, <3>2 DEF OneConnection
    <3>3. QED
      BY <3>1, <3>2
  <2>4. ASSUME NEW l \in Conns, l[2] <= iSuccessConnect'[l[1]]
        PROVE  Used(l) \/ toServer'[l] = <<ReadyMsg(l[1])>>
    <3>1. CASE l = k
      BY <1>3, <1>6, <3>1
    <3>2. CASE l # k
      <4>1. l[1] # c
        <5>1. ASSUME l[1] = c PROVE FALSE
          <6>1. l[2] <= 1
            BY <1>7, <2>4, <5>1
          <6>2. l[2] = 1
            BY <1>9, <6>1
          <6>3. QED
            BY <1>2, <1>9, <3>2, <5>1, <6>2
        <5>2. QED
          BY <5>1
      <4>2. Used(l) \/ toServer[l] = <<ReadyMsg(l[1])>>
        BY <1>7, <1>9, <2>4, <4>1 DEF OneConnection
      <4>3. QED
        BY <1>6, <3>2, <4>2
    <3>3. QED
      BY <3>1, <3>2
  <2>5. QED
    BY <2>1, <2>2, <2>3, <2>4 DEF OneConnection
<1>13. QED
  BY <1>11, <1>12

\* Nobody is given up for lost: the client that waits has been answered before.
LEMMA NoTimeout ==
  ASSUME TypeStrong, ProtoInv, OneConnection, Shaken, NEW c \in Clients
  PROVE  ~Timeout(c)
<1> SUFFICES ASSUME Timeout(c) PROVE FALSE
  OBVIOUS
<1>1. PICK k : k = <<c, 1>>
  OBVIOUS
<1>2. pc[c] = "loop" /\ timer[c] /\ iSuccessConnect[c] = 1 /\ k \in open
  BY <1>1 DEF Timeout, OneConnection
<1>3. k \in Conns /\ k[1] = c /\ k[2] = 1
  BY <1>1, <1>2 DEF TypeStrong, TypeOK
<1>4. toServer[k] = <<>> /\ toClient[k] = <<>>
  BY <1>2, <1>3 DEF Timeout, Mine
<1>5. Used(k)
  <2>1. Used(k) \/ toServer[k] = <<ReadyMsg(k[1])>>
    BY <1>2, <1>3 DEF OneConnection
  <2>2. QED
    BY <1>4, <2>1
<1>6. PICK n \in Names : gClientHandles[n] = k
  BY <1>5 DEF Used
<1>7. Shake(n, k)
  BY <1>3, <1>6, NoConnAssumption DEF Known, Shaken
<1>8. ~VarSent(n, k)
  BY <1>4 DEF VarSent
<1>9. ~VarConfirmed(n, k)
  BY <1>4 DEF VarConfirmed
<1>10. QED
  BY <1>2, <1>3, <1>7, <1>8, <1>9 DEF Shake, HasBeenReady

LEMMA CrashShake ==
  ASSUME TypeStrong, OneConnection, Shaken, ProtoInv, NEW c \in Clients, Crash(c)
  PROVE  OneConnection' /\ Shaken'
<1>1. ServerStill /\ UNCHANGED <<gClientName, iSuccessConnect, timer, env, toServer, toClient>>
  BY DEF Crash, ServerStill
<1>2. TypeOK /\ pc' = [pc EXCEPT ![c] = "crashed"] /\ open' = open \ {k \in open : k[1] = c}
  BY DEF Crash, Leave, Mine, TypeStrong
<1>3. pc'[c] = "crashed" /\ \A d \in Clients : d # c => pc'[d] = pc[d]
  BY <1>2 DEF TypeOK
<1>4. /\ gClientHandles' = gClientHandles /\ iClientName' = iClientName
      /\ gClientStatus' = gClientStatus /\ gClientEnvNum' = gClientEnvNum
  BY <1>1, NamesStill
<1>5. \A l \in Conns : l[1] \in Clients
  BY DEF Conns
<1>6. Shaken'
  <2> SUFFICES ASSUME NEW q \in Names, (Known(q))'
               PROVE  (Shake(q, gClientHandles[q]))'
    BY DEF Shaken
  <2>1. Known(q)
    BY <1>4 DEF Known
  <2>2. PICK l \in Conns : l = gClientHandles[q]
    BY <2>1, KnownHandle
  <2>3. Shake(q, l) /\ gClientHandles'[q] = l
    BY <1>4, <2>1, <2>2 DEF Shaken
  <2>4. pc'[l[1]] = pc[l[1]] \/ pc'[l[1]] = "crashed"
    BY <1>3, <1>5
  <2>5. QED
    BY <1>1, <1>4, <2>3, <2>4 DEF Shake, VarSent, VarConfirmed, HasBeenReady,
                                  VarMsg, NameMsg, ConfirmMsg
<1>7. OneConnection'
  <2>1. \A l \in Conns : /\ (ReadyMsg(l[1]))' = ReadyMsg(l[1]) /\ (Name(l[1]))' = Name(l[1])
                         /\ (Used(l))' <=> Used(l)
    BY <1>4 DEF ReadyMsg, Name, Used
  <2>2. ASSUME NEW d \in Clients
        PROVE  /\ iSuccessConnect[d] <= 1
               /\ pc'[d] = "connect" => iSuccessConnect[d] = 0
               /\ pc'[d] \in {"loop", "execute"} =>
                    iSuccessConnect[d] = 1 /\ <<d, 1>> \in open'
    <3>1. CASE d = c
      BY <1>3, <3>1 DEF OneConnection
    <3>2. CASE d # c
      <4>1. <<d, 1>>[1] = d
        OBVIOUS
      <4>2. QED
        BY <1>2, <1>3, <3>2, <4>1 DEF OneConnection
    <3>3. QED
      BY <3>1, <3>2
  <2>3. QED
    BY <1>1, <2>1, <2>2 DEF OneConnection
<1>8. QED
  BY <1>6, <1>7

\* Nothing that the handshake looks at has changed.
LEMMA SameShake ==
  ASSUME ShakeInv, outcome' = "running" => outcome = "running",
         UNCHANGED <<gSetEnv, iClientName, gClientEnvNum, gClientStatus, gClientHandles,
                     clientVars, netVars>>
  PROVE  ShakeInv'
<1>1. /\ \A l \in Conns : (Used(l))' <=> Used(l)
      /\ \A d : (Name(d))' = Name(d) /\ (ReadyMsg(d))' = ReadyMsg(d)
  BY DEF Used, Name, ReadyMsg
<1>2. OneConnection => OneConnection'
  BY <1>1 DEF OneConnection, clientVars, netVars
<1>3. Shaken => Shaken'
  <2>1. /\ UNCHANGED <<pc, gClientName, timer, env, toServer, toClient>>
        /\ UNCHANGED <<gClientStatus, gClientEnvNum, gClientHandles>>
    BY DEF clientVars, netVars
  <2>2. ASSUME NEW n \in Names, NEW k, Shake(n, k)
        PROVE  (Shake(n, k))'
    BY <2>1, <2>2 DEF Shake, VarSent, VarConfirmed, HasBeenReady, VarMsg, NameMsg, ConfirmMsg
  <2>3. \A n \in Names : (Known(n))' <=> Known(n)
    BY <2>1 DEF Known
  <2>4. QED
    BY <2>1, <2>2, <2>3 DEF Shaken
<1>4. QED
  BY <1>2, <1>3 DEF ShakeInv

LEMMA NextShake ==
  ASSUME TypeStrong, ProtoInv, ShakeInv, [Next]_vars
  PROVE  ShakeInv'
<1>1. CASE UNCHANGED vars
  BY <1>1, SameShake DEF vars, input, serverVars
<1>2. ASSUME NEW k \in Conns, Receive(k) PROVE ShakeInv'
  BY <1>2, ReceiveShake, ReceiveProto
<1>3. ASSUME NEW k \in Conns, Lost(k) \/ RecentNode(k) PROVE ShakeInv'
  BY <1>3, SameShake DEF Lost, RecentNode, input, serverVars
<1>4. ASSUME NEW c \in Clients,
             Connect(c) \/ Finish(c) \/ (\E k \in Conns : ReadMsg(c, k)) \/ Timeout(c) \/ Crash(c)
      PROVE  ShakeInv'
  <2>1. outcome' = outcome /\ gSetEnv' = gSetEnv
    BY <1>4 DEF Connect, Finish, ReadMsg, Timeout, Crash, serverVars, input
  <2>2. OneConnection /\ Shaken => OneConnection' /\ Shaken'
    BY <1>4, ConnectShake, FinishShake, ReadMsgShake, NoTimeout, CrashShake
  <2>3. QED
    BY <2>1, <2>2 DEF ShakeInv
<1>5. ASSUME NEW c \in Clients, NEW k \in Conns, Unplug(c, k) PROVE ShakeInv'
  BY <1>5 DEF Unplug, serverVars, ShakeInv
<1>6. QED
  BY <1>1, <1>2, <1>3, <1>4, <1>5, NextCases

\* The steps of clients and sockets.
LEMMA StepEnv ==
  ASSUME TypeOK', ProtoInv, EnvInv, TypeOK,
         UNCHANGED <<gSetEnv, gClientStatus, gClientHandles>>,
         \A c \in Clients : env[c] \subseteq env'[c],
         \A l \in Conns : Range(toClient'[l]) \subseteq Range(toClient[l]),
         \A c \in Clients : pc'[c] = "execute" =>
           \/ pc[c] = "execute"
           \/ \E l \in Conns : l[1] = c /\ \E x \in Range(toClient[l]) : x.cmd = "Execute"
  PROVE  EnvInv'
<1>1. AllEnv' = AllEnv /\ AllEnv = 0 .. (gSetEnv - 1)
  BY DEF AllEnv
<1>2. \A c \in Clients : env[c] = AllEnv => env'[c] = AllEnv
  BY <1>1 DEF TypeOK
<1>3. \A l \in Conns : l[1] \in Clients
  BY DEF Conns
<1>4. \A n \in Names : gClientStatus[n] # "none" => gClientHandles[n] \in Conns
  BY DEF ProtoInv, HandlesInv, Known, TypeOK
<1>5. \A c \in Clients : pc'[c] = "execute" => env'[c] = AllEnv
  BY <1>1, <1>2 DEF EnvInv, EnvironmentFirst
<1>6. EnvironmentFirst'
  BY <1>1, <1>5 DEF EnvironmentFirst
<1>7. QED
  BY <1>1, <1>2, <1>3, <1>4, <1>6 DEF EnvInv

\* Without an environment there is nothing to set.
LEMMA NoEnv ==
  ASSUME TypeOK', ProtoInv', gSetEnv' = 0
  PROVE  EnvInv'
<1>1. AllEnv' = {} /\ 0 .. (gSetEnv' - 1) = {}
  BY DEF AllEnv
<1>2. \A c \in Clients : env'[c] = {}
  BY <1>1 DEF TypeOK
<1>3. \A l \in Conns : l[1] \in Clients
  BY DEF Conns
<1>4. \A n \in Names : gClientStatus'[n] # "none" => gClientHandles'[n] \in Conns
  BY DEF ProtoInv, HandlesInv, Known, TypeOK
<1>5. QED
  BY <1>1, <1>2, <1>3, <1>4 DEF EnvInv, EnvironmentFirst

LEMMA ReceiveEnv ==
  ASSUME TypeStrong, ProtoInv, ShakeInv, EnvInv, NEW k \in Conns, Receive(k),
         TypeStrong', ProtoInv'
  PROVE  EnvInv'
<1> DEFINE m == Head(toServer[k])
<1>0. PICK n : n = Served(k)
  OBVIOUS
<1>1. /\ outcome = "running" /\ toServer[k] # <<>>
      /\ GetsReady(k, m) \/ GetsEnvReady(k, m) \/ GetsResults(m)
      /\ UNCHANGED <<input, accepted, clientVars, open>>
  BY ReceiveCases
<1>2. gSetEnv' = gSetEnv /\ pc' = pc /\ env' = env /\ TypeOK /\ TypeOK' /\ gSetEnv \in Nat
  BY <1>1, BuildTypes DEF TypeStrong, input, clientVars
<1>3. CASE gSetEnv = 0
  BY <1>2, <1>3, NoEnv
<1>4. CASE gSetEnv > 0
  <2>1. OneConnection /\ Shaken /\ AllEnv' = AllEnv
    BY <1>1, <1>2, <1>4 DEF ShakeInv, AllEnv
  <2>2. \A p \in Names : gClientStatus'[p] # "none" => gClientStatus[p] # "none" \/ p = n
    BY <1>0, StatusStays
  <2>3. gClientStatus'[n] # "none" =>
          \/ gClientStatus[n] # "none"
          \/ gClientHandles'[n] = k /\ env[k[1]] = AllEnv
    <3>1. CASE GetsReady(k, m)
      BY <1>4, <3>1 DEF GetsReady, NextVar, HasAll
    <3>2. CASE GetsEnvReady(k, m)
      <4>1. m.cmd = "SetEnv Ready" /\ gClientHandles' = gClientHandles
        BY <3>2 DEF GetsEnvReady
      <4>2. Used(k)
        BY <4>1, KnownStays
      <4>3. /\ gClientHandles[m.name] = k /\ m.name \in Names /\ VarConfirmed(m.name, k)
        BY <1>1, <2>1, <4>1, <4>2, ServedShake
      <4>4. n = m.name
        BY <1>0, <4>1 DEF Served
      <4>5. 0 .. (gClientEnvNum[n] - 1) \subseteq env[k[1]] /\ gClientEnvNum[n] \in 0 .. gSetEnv
            /\ env[k[1]] \subseteq AllEnv
        BY <1>2, <4>3, <4>4 DEF VarConfirmed, TypeOK, Conns, AllEnv
      <4>6. CASE NextVar(m.name, k, gClientEnvNum[m.name], toClient, log)
        BY <4>6 DEF NextVar
      <4>7. CASE HasAll(m.name, gClientEnvNum[m.name], toClient, log)
        <5>1. ~(gClientEnvNum[n] < gSetEnv)
          BY <4>4, <4>7 DEF HasAll
        <5>2. gClientEnvNum[n] = gSetEnv
          BY <1>2, <4>5, <5>1
        <5>3. env[k[1]] = AllEnv
          BY <4>5, <5>2 DEF AllEnv
        <5>4. QED
          BY <4>1, <4>3, <4>4, <5>3
      <4>8. QED
        BY <3>2, <4>6, <4>7 DEF GetsEnvReady
    <3>3. CASE GetsResults(m)
      <4>1. m.cmd = "Results"
        BY <3>3 DEF GetsResults
      <4>2. Used(k)
        BY <4>1, KnownStays
      <4>3. HasBeenReady(m.name, k)
        <5>1. ConfirmMsg(m.name).cmd = "SetEnv Ready"
          BY DEF ConfirmMsg
        <5>2. QED
          BY <1>1, <2>1, <4>1, <4>2, <5>1, ServedShake
      <4>4. n = m.name
        BY <1>0, <4>1 DEF Served
      <4>5. QED
        BY <4>3, <4>4 DEF HasBeenReady
    <3>4. QED
      BY <1>1, <3>1, <3>2, <3>3
  <2>4. \A p \in Names : gClientStatus'[p] # "none" => env[gClientHandles'[p][1]] = AllEnv
    <3> SUFFICES ASSUME NEW p \in Names, gClientStatus'[p] # "none"
                 PROVE  env[gClientHandles'[p][1]] = AllEnv
      OBVIOUS
    <3>1. CASE gClientStatus[p] # "none"
      <4>1. Known(p)
        BY <3>1 DEF ProtoInv, HandlesInv
      <4>2. gClientHandles'[p] = gClientHandles[p]
        BY <4>1, KnownStays
      <4>3. QED
        BY <3>1, <4>2 DEF EnvInv
    <3>2. CASE p = n /\ gClientStatus[p] = "none"
      BY <2>3, <3>2
    <3>3. QED
      BY <2>2, <3>1, <3>2
  <2>5. ASSUME NEW l \in Conns, NEW x \in Range(toClient'[l]), x.cmd = "Execute"
        PROVE  env[l[1]] = AllEnv
    <3>1. x \in Range(toClient[l]) \/ Fresh(k, l, x)
      BY <1>2, ReceiveSends
    <3>2. CASE x \in Range(toClient[l])
      BY <2>5, <3>2 DEF EnvInv
    <3>3. CASE Fresh(k, l, x)
      BY <2>4, <2>5, <3>3 DEF Fresh, Last
    <3>4. QED
      BY <3>1, <3>2, <3>3
  <2>6. EnvironmentFirst'
    BY <1>2 DEF EnvInv, EnvironmentFirst
  <2>7. QED
    BY <1>2, <2>1, <2>4, <2>5, <2>6 DEF EnvInv
<1>5. QED
  BY <1>2, <1>3, <1>4

LEMMA NextEnv ==
  ASSUME TypeStrong, ProtoInv, ShakeInv, EnvInv, [Next]_vars, TypeStrong', ProtoInv'
  PROVE  EnvInv'
<1>1. TypeOK /\ TypeOK'
  BY DEF TypeStrong
<1>2. CASE UNCHANGED <<gSetEnv, gClientStatus, gClientHandles, env, toClient>>
             /\ \A c \in Clients : pc'[c] = "execute" => pc[c] = "execute"
  BY <1>1, <1>2, StepEnv
<1>3. CASE UNCHANGED vars
  BY <1>2, <1>3 DEF vars, input, serverVars, clientVars, netVars
<1>4. ASSUME NEW k \in Conns, Receive(k) PROVE EnvInv'
  BY <1>4, ReceiveEnv
<1>5. ASSUME NEW k \in Conns, Lost(k) \/ RecentNode(k) PROVE EnvInv'
  BY <1>2, <1>5 DEF Lost, RecentNode, input, serverVars, clientVars, netVars
<1>6. ASSUME NEW c \in Clients,
             Connect(c) \/ Finish(c) \/ (\E k \in Conns : Unplug(c, k)) \/ Timeout(c) \/ Crash(c)
      PROVE  EnvInv'
  <2>1. UNCHANGED <<gSetEnv, gClientStatus, gClientHandles, env, toClient>>
    BY <1>6 DEF Connect, Finish, Unplug, Timeout, Crash, serverVars, input
  <2>2. \A d \in Clients : pc'[d] = "execute" => pc[d] = "execute"
    <3>1. CASE Connect(c) \/ Finish(c) \/ Crash(c)
      BY <1>1, <3>1 DEF Connect, Finish, Crash, Leave, TypeOK
    <3>2. CASE LeaveLoop(c)
      <4>1. pc'[c] \in {"connect", "exited"} /\ \A d \in Clients : d # c => pc'[d] = pc[d]
        BY <1>1, <3>2, LeaveLoopIs
      <4>2. QED
        BY <4>1
    <3>3. CASE pc' = pc
      BY <3>3
    <3>4. QED
      BY <1>6, <3>1, <3>2, <3>3 DEF Unplug, Timeout
  <2>3. QED
    BY <1>2, <2>1, <2>2
<1>7. ASSUME NEW c \in Clients, NEW k \in Conns, ReadMsg(c, k) PROVE EnvInv'
  <2>0. PICK m : m = Head(toClient[k])
    OBVIOUS
  <2>1. /\ ServerStill /\ CanRead(c, k)
        /\ ChangeClientName(c, m) \/ SetEnv(c, k, m) \/ Exit(c, m) \/ Execute(c, k, m)
        /\ toClient' = [toClient EXCEPT ![k] = Tail(@)]
    BY <1>7, <2>0, ReadMsgCases
  <2>2. /\ toClient[k] # <<>> /\ k[1] = c /\ pc[c] = "loop"
        /\ gSetEnv' = gSetEnv /\ gClientStatus' = gClientStatus /\ gClientHandles' = gClientHandles
    BY <2>1, NamesStill DEF CanRead, Mine
  <2>3. /\ m \in Range(toClient[k])
        /\ \A l \in Conns : Range(toClient'[l]) \subseteq Range(toClient[l])
    BY <1>1, <2>0, <2>1, <2>2, ToClientHead
  <2>4. \A d \in Clients : env[d] \subseteq env'[d]
    <3>1. env' = env \/ SetEnv(c, k, m)
      BY <2>1 DEF ChangeClientName, Exit, Execute
    <3>2. CASE SetEnv(c, k, m)
      <4>1. env' = [env EXCEPT ![c] = @ \cup {m.var}]
        BY <3>2 DEF SetEnv
      <4>2. DOMAIN env = Clients
        BY <1>1 DEF TypeOK
      <4>3. QED
        BY <4>1, <4>2
    <3>3. QED
      BY <3>1, <3>2
  <2>5. ASSUME NEW d \in Clients, pc'[d] = "execute"
        PROVE  \/ pc[d] = "execute"
               \/ \E l \in Conns : l[1] = d /\ \E x \in Range(toClient[l]) : x.cmd = "Execute"
    <3>1. CASE pc' = pc
      BY <2>5, <3>1
    <3>2. CASE Exit(c, m)
      BY <1>1, <2>5, <3>2 DEF Exit, Leave, TypeOK
    <3>3. CASE Execute(c, k, m)
      <4>1. m.cmd = "Execute" /\ (d = c \/ pc'[d] = pc[d])
        BY <1>1, <3>3 DEF Execute, TypeOK
      <4>2. QED
        BY <2>2, <2>3, <2>5, <4>1
    <3>4. QED
      BY <2>1, <3>1, <3>2, <3>3 DEF ChangeClientName, SetEnv
  <2>6. QED
    BY <1>1, <2>2, <2>3, <2>4, <2>5, StepEnv
<1>8. QED
  BY <1>3, <1>4, <1>5, <1>6, <1>7, NextCases

EnvStrong == TypeStrong /\ ProtoInv /\ ShakeInv /\ EnvInv

LEMMA InitStrong == Init => EnvStrong
BY InitTypes, InitProto, InitEnv DEF EnvStrong

LEMMA NextStrong == EnvStrong /\ [Next]_vars => EnvStrong'
BY NextTypes, NextProto, NextShake, NextEnv DEF EnvStrong

(* No client starts a command before it has set the whole environment,     *)
(* whatever the number of clients and variables, the names and the order   *)
(* of messages, and whoever crashes or is renamed (EnvironmentFirst).      *)
THEOREM EnvironmentComesFirst == Spec => []EnvironmentFirst
<1>1. EnvStrong => EnvironmentFirst
  BY DEF EnvStrong, EnvInv
<1>2. QED
  BY <1>1, InitStrong, NextStrong, PTL DEF Spec

-----------------------------------------------------------------------------
(* Numbers of commands on a channel, and results in the log *)

JobMsg(x) == x.cmd \in {"Execute", "Results"}
JobsAt(s) == {p \in DOMAIN s : JobMsg(s[p])}
Ids(s) == {s[p].id : p \in JobsAt(s)}
IdsOnce(s) == \A p, q \in JobsAt(s) : s[p].id = s[q].id => p = q

LEMMA IdsNone == Ids(<<>>) = {} /\ IdsOnce(<<>>)
BY DEF Ids, IdsOnce, JobsAt

LEMMA IdsAppend ==
  ASSUME NEW S, NEW s \in Seq(S), NEW x \in S
  PROVE  /\ ~JobMsg(x) => /\ Ids(Append(s, x)) = Ids(s)
                          /\ IdsOnce(s) => IdsOnce(Append(s, x))
         /\ JobMsg(x) => /\ Ids(Append(s, x)) = Ids(s) \cup {x.id}
                         /\ IdsOnce(s) /\ x.id \notin Ids(s) => IdsOnce(Append(s, x))
<1>1. PICK t, n : t = Append(s, x) /\ n = Len(s)
  OBVIOUS
<1>2. /\ n \in Nat /\ DOMAIN s = 1 .. n /\ DOMAIN t = 1 .. (n + 1)
      /\ \A i \in 1 .. n : t[i] = s[i]
      /\ t[n + 1] = x
  BY <1>1, AppendProperties
<1>3. CASE ~JobMsg(x)
  <2>1. JobsAt(t) = JobsAt(s)
    BY <1>2, <1>3 DEF JobsAt
  <2>2. \A p \in JobsAt(s) : t[p] = s[p]
    BY <1>2 DEF JobsAt
  <2>3. QED
    BY <1>1, <1>3, <2>1, <2>2 DEF Ids, IdsOnce
<1>4. CASE JobMsg(x)
  <2>1. JobsAt(t) = JobsAt(s) \cup {n + 1} /\ n + 1 \notin JobsAt(s)
    BY <1>2, <1>4 DEF JobsAt
  <2>2. \A p \in JobsAt(s) : t[p] = s[p]
    BY <1>2 DEF JobsAt
  <2>3. Ids(t) = Ids(s) \cup {x.id}
    BY <1>2, <2>1, <2>2 DEF Ids
  <2>4. ASSUME IdsOnce(s), x.id \notin Ids(s)
        PROVE  IdsOnce(t)
    BY <1>2, <2>1, <2>2, <2>4 DEF Ids, IdsOnce
  <2>5. QED
    BY <1>1, <1>4, <2>3, <2>4
<1>5. QED
  BY <1>3, <1>4

LEMMA IdsTail ==
  ASSUME NEW S, NEW s \in Seq(S), s # <<>>, IdsOnce(s)
  PROVE  /\ Ids(Tail(s)) \subseteq Ids(s) /\ IdsOnce(Tail(s))
         /\ JobMsg(Head(s)) => Head(s).id \in Ids(s) /\ Head(s).id \notin Ids(Tail(s))
<1>1. PICK t, n : t = Tail(s) /\ n = Len(s)
  OBVIOUS
<1>2. /\ n \in Nat /\ n > 0 /\ DOMAIN s = 1 .. n /\ DOMAIN t = 1 .. (n - 1)
      /\ \A i \in 1 .. (n - 1) : t[i] = s[i + 1]
      /\ Head(s) = s[1]
  BY <1>1, HeadTailProperties, EmptySeq
<1>3. \A p \in JobsAt(t) : p \in Nat /\ p >= 1 /\ p + 1 \in JobsAt(s) /\ t[p] = s[p + 1]
  BY <1>2 DEF JobsAt
<1>4. Ids(t) \subseteq Ids(s)
  BY <1>3 DEF Ids
<1>5. IdsOnce(t)
  BY <1>3 DEF IdsOnce
<1>6. ASSUME JobMsg(Head(s))
      PROVE  Head(s).id \in Ids(s) /\ Head(s).id \notin Ids(t)
  <2>1. 1 \in JobsAt(s)
    BY <1>2, <1>6 DEF JobsAt
  <2>2. s[1].id \in Ids(s)
    BY <2>1 DEF Ids
  <2>3. ASSUME NEW p \in JobsAt(t), t[p].id = s[1].id PROVE FALSE
    <3>1. p + 1 = 1
      BY <1>3, <2>1, <2>3 DEF IdsOnce
    <3>2. QED
      BY <1>3, <3>1
  <2>4. QED
    BY <1>2, <2>2, <2>3 DEF Ids
<1>7. QED
  BY <1>1, <1>4, <1>5, <1>6

\* The results in a log, and how a log grows.
ResultsAt(s) == {p \in DOMAIN s : s[p].line = "results"}
LoggedIn(s) == {s[p].id : p \in ResultsAt(s)}

\* The results of a stage are printed under it.
Under(s, p) ==
  \E q \in 1 .. (p - 1) :
    /\ s[q] = PrintStageStart(s[p].stage)
    /\ \A r \in (q + 1) .. (p - 1) : s[r].line = "results"

Orderly(s) ==
  \A p \in ResultsAt(s) :
    /\ \A q \in ResultsAt(s) : s[p].id = s[q].id => p = q
    /\ s[p].stage = build[s[p].id].stage
    /\ Under(s, p)

\* A stage is open at the end of the log.
OpenIn(s, stage) ==
  \E q \in DOMAIN s :
    /\ s[q] = PrintStageStart(stage)
    /\ \A r \in (q + 1) .. Len(s) : s[r].line = "results"

LEMMA LogAppend ==
  ASSUME NEW s \in Seq(LogLine), NEW x \in LogLine
  PROVE  /\ Append(s, x) \in Seq(LogLine)
         /\ x.line # "results" =>
              /\ LoggedIn(Append(s, x)) = LoggedIn(s)
              /\ Orderly(s) => Orderly(Append(s, x))
         /\ \A stage : x = PrintStageStart(stage) => OpenIn(Append(s, x), stage)
         /\ x.line = "results" =>
              /\ LoggedIn(Append(s, x)) = LoggedIn(s) \cup {x.id}
              /\ /\ Orderly(s) /\ x.id \notin LoggedIn(s)
                 /\ x.stage = build[x.id].stage /\ OpenIn(s, x.stage)
                 => Orderly(Append(s, x))
              /\ \A stage : OpenIn(s, stage) => OpenIn(Append(s, x), stage)
<1>1. PICK t, n : t = Append(s, x) /\ n = Len(s)
  OBVIOUS
<1>2. /\ t \in Seq(LogLine)
      /\ n \in Nat /\ DOMAIN s = 1 .. n /\ DOMAIN t = 1 .. (n + 1) /\ Len(t) = n + 1
      /\ \A i \in 1 .. n : t[i] = s[i]
      /\ t[n + 1] = x
  BY <1>1, AppendProperties
<1>3. ASSUME NEW p \in 1 .. n
      PROVE  Under(s, p) => Under(t, p)
  <2> SUFFICES ASSUME Under(s, p) PROVE Under(t, p)
    OBVIOUS
  <2>1. PICK q \in 1 .. (p - 1) :
          /\ s[q] = PrintStageStart(s[p].stage)
          /\ \A r \in (q + 1) .. (p - 1) : s[r].line = "results"
    BY DEF Under
  <2>2. p \in Nat /\ q \in Nat /\ q \in 1 .. n /\ \A r \in (q + 1) .. (p - 1) : r \in 1 .. n
    BY <1>2, <2>1
  <2>3. t[p] = s[p] /\ t[q] = s[q] /\ \A r \in (q + 1) .. (p - 1) : t[r] = s[r]
    BY <1>2, <2>2
  <2>4. QED
    BY <2>1, <2>3 DEF Under
<1>4. CASE x.line # "results"
  <2>1. ResultsAt(t) = ResultsAt(s) /\ \A p \in ResultsAt(s) : t[p] = s[p] /\ p \in 1 .. n
    BY <1>2, <1>4 DEF ResultsAt
  <2>2. LoggedIn(t) = LoggedIn(s)
    BY <2>1 DEF LoggedIn
  <2>3. Orderly(s) => Orderly(t)
    BY <1>3, <2>1 DEF Orderly
  <2>4. ASSUME NEW stage, x = PrintStageStart(stage) PROVE OpenIn(t, stage)
    <3>1. n + 1 \in DOMAIN t /\ ((n + 1) + 1) .. Len(t) = {}
      BY <1>2
    <3>2. QED
      BY <1>2, <2>4, <3>1 DEF OpenIn
  <2>5. QED
    BY <1>1, <1>2, <1>4, <2>2, <2>3, <2>4
<1>5. CASE x.line = "results"
  <2>1. /\ ResultsAt(t) = ResultsAt(s) \cup {n + 1} /\ n + 1 \notin ResultsAt(s)
        /\ \A p \in ResultsAt(s) : t[p] = s[p] /\ p \in 1 .. n
    BY <1>2, <1>5 DEF ResultsAt
  <2>2. LoggedIn(t) = LoggedIn(s) \cup {x.id}
    BY <1>2, <2>1 DEF LoggedIn
  <2>3. ASSUME NEW stage, OpenIn(s, stage)
        PROVE  /\ OpenIn(t, stage)
               /\ x.stage = stage => Under(t, n + 1)
    <3>1. PICK q \in DOMAIN s :
            /\ s[q] = PrintStageStart(stage)
            /\ \A r \in (q + 1) .. Len(s) : s[r].line = "results"
      BY <2>3 DEF OpenIn
    <3>2. q \in 1 .. n /\ q \in DOMAIN t /\ t[q] = PrintStageStart(stage)
      BY <1>2, <3>1
    <3>3. \A r \in (q + 1) .. n : t[r].line = "results"
      BY <1>1, <1>2, <3>1
    <3>4. \A r \in (q + 1) .. Len(t) : t[r].line = "results"
      BY <1>2, <1>5, <3>2, <3>3
    <3>5. OpenIn(t, stage)
      BY <3>2, <3>4 DEF OpenIn
    <3>6. (n + 1) - 1 = n
      BY <1>2
    <3>7. x.stage = stage => Under(t, n + 1)
      BY <1>2, <3>2, <3>3, <3>6 DEF Under
    <3>8. QED
      BY <3>5, <3>7
  <2>4. ASSUME Orderly(s), x.id \notin LoggedIn(s), x.stage = build[x.id].stage,
               OpenIn(s, x.stage)
        PROVE  Orderly(t)
    <3> SUFFICES ASSUME NEW p \in ResultsAt(t)
                 PROVE  /\ \A q \in ResultsAt(t) : t[p].id = t[q].id => p = q
                        /\ t[p].stage = build[t[p].id].stage
                        /\ Under(t, p)
      BY DEF Orderly
    <3>1. \A q \in ResultsAt(s) : s[q].id # x.id
      BY <2>4 DEF LoggedIn
    <3>2. CASE p = n + 1
      <4>1. \A q \in ResultsAt(t) : t[p].id = t[q].id => p = q
        BY <1>2, <2>1, <3>1, <3>2
      <4>2. Under(t, p)
        BY <2>3, <2>4, <3>2
      <4>3. QED
        BY <1>2, <2>4, <3>2, <4>1, <4>2
    <3>3. CASE p \in ResultsAt(s)
      <4>1. t[p] = s[p] /\ p \in 1 .. n /\ s[p].id # x.id
        BY <2>1, <3>1, <3>3
      <4>2. \A q \in ResultsAt(t) : t[p].id = t[q].id => p = q
        BY <1>2, <2>1, <2>4, <3>3, <4>1 DEF Orderly
      <4>3. Under(t, p) /\ s[p].stage = build[s[p].id].stage
        BY <1>3, <2>4, <3>3, <4>1 DEF Orderly
      <4>4. QED
        BY <4>1, <4>2, <4>3
    <3>4. QED
      BY <2>1, <3>2, <3>3
  <2>5. \A stage : x = PrintStageStart(stage) => FALSE
    BY <1>5 DEF PrintStageStart
  <2>6. QED
    BY <1>1, <1>2, <1>5, <2>2, <2>3, <2>4, <2>5
<1>6. QED
  BY <1>4, <1>5

\* Two lines at once are one after the other.
LEMMA ConcatTwo ==
  ASSUME NEW S, NEW s \in Seq(S), NEW x \in S, NEW y \in S
  PROVE  s \o <<x, y>> = Append(Append(s, x), y)
<1>1. PICK u, t, v : u = <<x, y>> /\ t = Append(s, x) /\ v = s \o u
  OBVIOUS
<1>2. u \in Seq(S) /\ Len(u) = 2 /\ u[1] = x /\ u[2] = y
  BY <1>1
<1>3. /\ t \in Seq(S) /\ Len(t) = Len(s) + 1 /\ t[Len(s) + 1] = x
      /\ \A i \in 1 .. Len(s) : t[i] = s[i]
  BY <1>1, AppendProperties
<1>4. PICK w : w = Append(t, y)
  OBVIOUS
<1>5. /\ w \in Seq(S) /\ Len(w) = Len(t) + 1 /\ w[Len(t) + 1] = y
      /\ \A i \in 1 .. Len(t) : w[i] = t[i]
  BY <1>3, <1>4, AppendProperties
<1>6. /\ v \in Seq(S) /\ Len(v) = Len(s) + 2
      /\ \A i \in 1 .. (Len(s) + 2) : v[i] = IF i <= Len(s) THEN s[i] ELSE u[i - Len(s)]
  BY <1>1, <1>2, ConcatProperties
<1>7. Len(s) \in Nat
  OBVIOUS
<1>8. ASSUME NEW i \in 1 .. Len(v) PROVE v[i] = w[i]
  <2>1. CASE i <= Len(s)
    BY <1>3, <1>5, <1>6, <1>7, <2>1
  <2>2. CASE i = Len(s) + 1
    <3>1. i - Len(s) = 1 /\ i \in 1 .. Len(t) /\ ~(i <= Len(s))
      BY <1>3, <1>7, <2>2
    <3>2. QED
      BY <1>2, <1>3, <1>5, <1>6, <2>2, <3>1
  <2>3. CASE i = Len(s) + 2
    <3>1. i - Len(s) = 2 /\ i = Len(t) + 1 /\ ~(i <= Len(s))
      BY <1>3, <1>7, <2>3
    <3>2. QED
      BY <1>2, <1>5, <1>6, <2>3, <3>1
  <2>4. QED
    BY <1>6, <1>7, <2>1, <2>2, <2>3
<1>9. v = w
  BY <1>3, <1>5, <1>6, <1>8, SeqEqual
<1>10. QED
  BY <1>1, <1>4, <1>9

-----------------------------------------------------------------------------
(* What AddReady gives out *)

NewIds == gIDCount .. (gIDCount' - 1)

\* The channels take the new commands, one each, or a message of another kind.
Sends(ch, to) ==
  \A l \in Conns :
    \/ toClient'[l] = ch[l]
    \/ \E x \in ServerMsg : ~JobMsg(x) /\ toClient'[l] = Append(ch[l], x)
    \/ \E j \in NewIds :
         to[j] = l /\ toClient'[l] = Append(ch[l], [cmd |-> "Execute", id |-> j])

\* As many names as commands become busy, and none of them was.
Takes(status, R) ==
  /\ IsFiniteSet(R) /\ R \subseteq Names /\ Cardinality(R) = gIDCount' - gIDCount
  /\ \A n \in R : status[n] = "Waiting" /\ gClientStatus'[n] = "Busy"
  /\ \A n \in Names \ R : gClientStatus'[n] = status[n]

LEMMA SendCommandsGives ==
  ASSUME TypeOK,
         NEW ch \in [Conns -> Seq(ServerMsg)],
         NEW status \in [Names -> {"none", "Waiting", "Busy"}],
         NEW waiting, waiting = {m \in Names : status[m] = "Waiting"},
         SendCommands(ch, status, waiting)
  PROVE  /\ \E to : Sends(ch, to)
         /\ \E R : Takes(status, R)
         /\ \A j \in NewIds : MaySend(j, gStage', status)
         /\ gIDCount' \in gIDCount .. (Len(build) + 1)
<1>1. PICK next \in gIDCount .. (Len(build) + 1) :
        /\ gIDCount' = next
        /\ \A i \in gIDCount .. (next - 1) : MaySend(i, gStage', status)
        /\ \E who \in Injection(gIDCount .. (next - 1), waiting) :
             /\ gClientStatus' = [n \in Names |->
                  IF \E i \in DOMAIN who : who[i] = n THEN "Busy" ELSE status[n]]
             /\ toClient' = [k \in Conns |->
                  IF \E i \in DOMAIN who : gClientHandles'[who[i]] = k
                  THEN Append(ch[k], [cmd |-> "Execute",
                         id |-> CHOOSE i \in DOMAIN who : gClientHandles'[who[i]] = k])
                  ELSE ch[k]]
  BY DEF SendCommands
<1>2. PICK who \in Injection(gIDCount .. (next - 1), waiting) :
        /\ gClientStatus' = [n \in Names |->
             IF \E i \in DOMAIN who : who[i] = n THEN "Busy" ELSE status[n]]
        /\ toClient' = [k \in Conns |->
             IF \E i \in DOMAIN who : gClientHandles'[who[i]] = k
             THEN Append(ch[k], [cmd |-> "Execute",
                    id |-> CHOOSE i \in DOMAIN who : gClientHandles'[who[i]] = k])
             ELSE ch[k]]
  BY <1>1
<1>3. PICK I : I = gIDCount .. (next - 1)
  OBVIOUS
<1>4. /\ NewIds = I /\ who \in [I -> waiting] /\ DOMAIN who = I /\ who \in Injection(I, waiting)
      /\ \A i, j \in I : who[i] = who[j] => i = j
  BY <1>1, <1>2, <1>3 DEF NewIds, Injection, IsInjective
<1>5. PICK to : to = [i \in I |-> gClientHandles'[who[i]]]
  OBVIOUS
<1>6. Sends(ch, to)
  <2> SUFFICES ASSUME NEW k \in Conns
               PROVE  \/ toClient'[k] = ch[k]
                      \/ \E j \in NewIds :
                           to[j] = k /\ toClient'[k] = Append(ch[k], [cmd |-> "Execute", id |-> j])
    BY DEF Sends
  <2>1. CASE \E i \in I : gClientHandles'[who[i]] = k
    <3>1. PICK j : j = CHOOSE i \in I : gClientHandles'[who[i]] = k
      OBVIOUS
    <3>2. j \in I /\ gClientHandles'[who[j]] = k
      BY <2>1, <3>1
    <3>3. toClient'[k] = Append(ch[k], [cmd |-> "Execute", id |-> j])
      BY <1>2, <1>4, <2>1, <3>1
    <3>4. QED
      BY <1>4, <1>5, <3>2, <3>3
  <2>2. CASE ~ \E i \in I : gClientHandles'[who[i]] = k
    BY <1>2, <1>4, <2>2
  <2>3. QED
    BY <2>1, <2>2
<1>7. PICK R : R = {who[i] : i \in I}
  OBVIOUS
<1>8. Takes(status, R)
  <2>1. gIDCount \in Nat /\ next \in Nat /\ next >= gIDCount /\ Len(build) \in Nat
    BY <1>1, BuildTypes
  <2>2. IsFiniteSet(I) /\ Cardinality(I) = next - gIDCount
    <3>1. /\ IsFiniteSet(gIDCount .. (next - 1))
          /\ Cardinality(gIDCount .. (next - 1)) =
               IF gIDCount > next - 1 THEN 0 ELSE (next - 1) - gIDCount + 1
      BY <2>1, FS_Interval
    <3>2. QED
      BY <1>3, <2>1, <3>1
  <2>3. who \in Injection(I, R) /\ who \in Surjection(I, R)
    <3>1. who \in [I -> R]
      BY <1>4, <1>7
    <3>2. \A t \in R : \E i \in I : who[i] = t
      BY <1>7
    <3>3. QED
      BY <1>4, <3>1, <3>2 DEF Injection, Surjection, IsInjective
  <2>4. IsFiniteSet(R) /\ Cardinality(R) = Cardinality(I)
    BY <2>2, <2>3, FS_Surjection
  <2>5. R \subseteq waiting
    BY <1>4, <1>7
  <2>6. \A n \in Names : n \in R <=> \E i \in DOMAIN who : who[i] = n
    BY <1>4, <1>7
  <2>7. \A n \in R : n \in Names /\ status[n] = "Waiting" /\ gClientStatus'[n] = "Busy"
    BY <1>2, <2>5, <2>6
  <2>8. \A n \in Names \ R : gClientStatus'[n] = status[n]
    BY <1>2, <2>6
  <2>9. QED
    BY <1>1, <2>2, <2>4, <2>7, <2>8 DEF Takes
<1>9. \A j \in NewIds : MaySend(j, gStage', status)
  BY <1>1, <1>3, <1>4
<1>10. QED
  BY <1>1, <1>6, <1>8, <1>9

\* Nothing is given out.
LEMMA NothingGiven ==
  ASSUME TypeOK, gIDCount' = gIDCount, NEW status, gClientStatus' = status
  PROVE  Takes(status, {}) /\ NewIds = {} /\ Cardinality(NewIds) = 0
<1>1. gIDCount \in Nat
  BY BuildTypes
<1>2. IsFiniteSet({}) /\ Cardinality({}) = 0
  BY FS_EmptySet
<1>3. NewIds = {}
  BY <1>1 DEF NewIds
<1>4. QED
  BY <1>1, <1>2, <1>3 DEF Takes

LEMMA AddReadyGives ==
  ASSUME TypeOK, NEW n \in Names, NEW ch \in [Conns -> Seq(ServerMsg)],
         NEW lines, NEW error, AddReady(n, ch, lines, error)
  PROVE  /\ \E to : Sends(ch, to)
         /\ \E R : Takes(WaitingNow(n), R)
         /\ \A j \in NewIds : MaySend(j, gStage', WaitingNow(n))
         /\ gIDCount' \in gIDCount .. (Len(build) + 1)
         /\ gExit' => ExitNext /\ gIDCount' = gIDCount
         /\ gStage' = gStage \/ Everyone(n)
         /\ \/ outcome' = outcome
            \/ /\ Everyone(n) /\ gIDCount' = gIDCount
               /\ (outcome' = "error" \/ (outcome' = "done" /\ (gExit' \/ ~More)))
<1>1. /\ gExit' = ExitNext /\ gRealTimeError' = error
      /\ Ends(n, ch, lines, error) \/ GoesOn(n, ch, lines, error)
  BY AddReadyCases
<1>2. /\ WaitingNow(n) \in [Names -> {"none", "Waiting", "Busy"}]
      /\ Waiters(n) = {m \in Names : WaitingNow(n)[m] = "Waiting"}
  BY WaitingNowIs DEF Waiters
<1>3. gIDCount \in gIDCount .. (Len(build) + 1)
  BY BuildTypes
<1>4. CASE Ends(n, ch, lines, error)
  <2>1. /\ Everyone(n) /\ gIDCount' = gIDCount /\ gStage' = gStage
        /\ gClientStatus' = WaitingNow(n)
        /\ (outcome' = "error" \/ (outcome' = "done" /\ (gExit' \/ ~More)))
        /\ toClient' = ch \/ toClient' = SendExit(ch)
    BY <1>1, <1>4 DEF Ends
  <2>2. Takes(WaitingNow(n), {}) /\ NewIds = {}
    BY <2>1, NothingGiven
  <2>3. Sends(ch, {})
    <3>1. CASE toClient' = ch
      BY <3>1 DEF Sends
    <3>2. CASE toClient' = SendExit(ch)
      <4>1. PICK x : x = [cmd |-> "Exit"]
        OBVIOUS
      <4>2. x \in ServerMsg /\ ~JobMsg(x)
        BY <4>1, ToClientMsgs DEF JobMsg
      <4>3. \A l \in Conns : toClient'[l] = ch[l] \/ toClient'[l] = Append(ch[l], x)
        BY <3>2, <4>1 DEF SendExit
      <4>4. QED
        BY <4>2, <4>3 DEF Sends
    <3>3. QED
      BY <2>1, <3>1, <3>2
  <2>4. QED
    BY <1>1, <1>3, <2>1, <2>2, <2>3
<1>5. CASE GoesOn(n, ch, lines, error)
  <2>1. outcome' = outcome /\ (gStage' = gStage \/ Everyone(n))
    BY <1>5 DEF GoesOn
  <2>2. CASE gClientStatus' = WaitingNow(n) /\ toClient' = ch /\ gIDCount' = gIDCount
    <3>1. Takes(WaitingNow(n), {}) /\ NewIds = {}
      BY <2>2, NothingGiven
    <3>2. Sends(ch, {})
      BY <2>2 DEF Sends
    <3>3. QED
      BY <1>1, <1>3, <2>1, <2>2, <3>1, <3>2
  <2>3. CASE ~ExitNext /\ SendCommands(ch, WaitingNow(n), Waiters(n))
    BY <1>1, <1>2, <2>1, <2>3, SendCommandsGives
  <2>4. QED
    BY <1>5, <2>2, <2>3 DEF GoesOn
<1>6. QED
  BY <1>1, <1>4, <1>5

\* What it writes into the log.
LEMMA AddReadyLogs ==
  ASSUME TypeOK, NEW n \in Names, NEW ch, NEW lines \in Seq(LogLine), NEW error,
         AddReady(n, ch, lines, error), outcome = "running",
         Orderly(lines), OpenIn(lines, gStage)
  PROVE  /\ LoggedIn(log') = LoggedIn(lines)
         /\ Orderly(log')
         /\ outcome' = "running" => OpenIn(log', gStage')
<1>1. Ends(n, ch, lines, error) \/ GoesOn(n, ch, lines, error)
  BY AddReadyCases
<1>2. PICK x : x = PrintStageEnd(gStage)
  OBVIOUS
<1>3. x \in LogLine /\ x.line # "results"
  <2>1. x \in LogLine
    BY <1>2, BuildTypes, LogLines
  <2>2. x.line = "finished"
    BY <1>2 DEF PrintStageEnd
  <2>3. QED
    BY <2>1, <2>2
<1>4. /\ Append(lines, x) \in Seq(LogLine)
      /\ LoggedIn(Append(lines, x)) = LoggedIn(lines)
      /\ Orderly(Append(lines, x))
  BY <1>3, LogAppend
<1>5. CASE Ends(n, ch, lines, error)
  BY <1>2, <1>4, <1>5 DEF Ends
<1>6. CASE GoesOn(n, ch, lines, error) /\ ~(Everyone(n) /\ StageEnds)
  BY <1>6 DEF GoesOn
<1>7. CASE GoesOn(n, ch, lines, error) /\ Everyone(n) /\ StageEnds
  <2>1. /\ gStage' = build[gIDCount].stage /\ ~Finished(error, ExitNext)
        /\ log' = lines \o <<x, PrintStageStart(gStage')>>
    BY <1>2, <1>7 DEF GoesOn
  <2>2. gStage' \in Stages
    BY <2>1, BuildTypes DEF Finished, More
  <2>3. PICK y : y = PrintStageStart(gStage')
    OBVIOUS
  <2>4. y \in LogLine /\ y.line # "results"
    <3>1. y \in LogLine
      BY <2>2, <2>3, LogLines
    <3>2. y.line = "started"
      BY <2>3 DEF PrintStageStart
    <3>3. QED
      BY <3>1, <3>2
  <2>5. log' = Append(Append(lines, x), y)
    BY <1>3, <2>1, <2>3, <2>4, ConcatTwo
  <2>6. /\ LoggedIn(Append(Append(lines, x), y)) = LoggedIn(Append(lines, x))
        /\ Orderly(Append(Append(lines, x), y))
        /\ OpenIn(Append(Append(lines, x), y), gStage')
    BY <1>4, <2>3, <2>4, LogAppend
  <2>7. QED
    BY <1>4, <2>5, <2>6
<1>8. QED
  BY <1>1, <1>5, <1>6, <1>7

-----------------------------------------------------------------------------
(* The commands under way *)

UnderWay == 1 .. (gIDCount - 1) \ LoggedIn(log)
BusyNames == {n \in Names : gClientStatus[n] = "Busy"}

\* Where a command can be: on its way to a client, at work, or its results on
\* their way back.
Places == ({"sent", "back"} \X Conns) \cup ({"job"} \X Clients)
At(x) ==
  IF x[1] = "sent" THEN Ids(toClient[x[2]])
  ELSE IF x[1] = "back" THEN Ids(toServer[x[2]])
  ELSE IF pc[x[2]] = "execute" THEN {job[x[2]].id} ELSE {}

\* A command is at one place at most, and has been given out but not logged.
FlightInv ==
  /\ \A k \in Conns : IdsOnce(toClient[k]) /\ IdsOnce(toServer[k])
  /\ \A x, y \in Places : \A i : i \in At(x) /\ i \in At(y) => x = y
  /\ \A x \in Places : At(x) \subseteq UnderWay
  /\ LoggedIn(log) \subseteq 1 .. (gIDCount - 1)

\* For every command that is under way some client counts as busy, though not
\* always the one that has it.
BusyInv == IsFiniteSet(BusyNames) /\ Cardinality(UnderWay) <= Cardinality(BusyNames)

\* All commands under way are of the stage at work.
StageInv ==
  /\ \A i \in UnderWay : build[i].stage = gStage /\ build[gIDCount - 1].stage = gStage
  /\ gExit /\ outcome = "running" => More /\ build[gIDCount].type = "Exit"

LogWell ==
  /\ Orderly(log)
  /\ outcome = "running" /\ log # <<>> => OpenIn(log, gStage)

CommandInv == FlightInv /\ BusyInv /\ StageInv /\ LogWell

LEMMA InitCommands == Init => CommandInv
<1> SUFFICES ASSUME Init PROVE CommandInv
  OBVIOUS
<1>1. ResultsAt(log) = {}
  BY DEF Init, ResultsAt
<1>2. LoggedIn(log) = {} /\ Orderly(log)
  BY <1>1 DEF LoggedIn, Orderly
<1>3. 1 .. (gIDCount - 1) = {} /\ UnderWay = {}
  <2>1. 1 .. (1 - 1) = {}
    OBVIOUS
  <2>2. QED
    BY <2>1 DEF Init, UnderWay
<1>4. \A k \in Conns : toClient[k] = <<>> /\ toServer[k] = <<>>
  BY DEF Init
<1>5. ASSUME NEW x \in Places PROVE At(x) = {}
  <2>1. CASE x \in {"sent", "back"} \X Conns
    BY <1>4, <2>1, IdsNone DEF At
  <2>2. CASE x \in {"job"} \X Clients
    BY <2>2 DEF At, Init
  <2>3. QED
    BY <2>1, <2>2 DEF Places
<1>6. FlightInv
  BY <1>2, <1>4, <1>5, IdsNone DEF FlightInv
<1>7. BusyInv
  <2>1. BusyNames = {}
    BY DEF Init, BusyNames
  <2>2. QED
    BY <1>3, <2>1, FS_EmptySet DEF BusyInv
<1>8. StageInv /\ LogWell
  BY <1>2, <1>3 DEF Init, StageInv, LogWell
<1>9. QED
  BY <1>6, <1>7, <1>8 DEF CommandInv

LEMMA LeftFinite ==
  ASSUME TypeOK, NEW S
  PROVE  IsFiniteSet(1 .. (gIDCount - 1) \ S) /\ Cardinality(1 .. (gIDCount - 1) \ S) \in Nat
<1>1. gIDCount - 1 \in Int
  BY BuildTypes
<1>2. IsFiniteSet(1 .. (gIDCount - 1))
  BY <1>1, FS_Interval
<1>3. IsFiniteSet(1 .. (gIDCount - 1) \ S)
  BY <1>2, FS_Subset
<1>4. QED
  BY <1>3, FS_CardinalityType

\* There are only so many connections, and so many names.
LEMMA ConnsFinite == IsFiniteSet(Conns)
<1>1. IsFiniteSet(1 .. MaxConnects)
  BY BuildServerAssumption, FS_Interval
<1>2. QED
  BY <1>1, BuildServerAssumption, FS_Product DEF Conns

\* When everyone waits nobody is busy: every name that has a status has a
\* connection of its own among those that are counted.
LEMMA EveryoneWaits ==
  ASSUME TypeOK, TypeOK', HandlesInv', accepted' = accepted,
         NEW n \in Names, (Known(n))', Everyone(n),
         \A m \in Names : gClientStatus[m] # "none" => (Known(m))'
  PROVE  \A m \in Names : WaitingNow(n)[m] # "Busy"
<1>1. PICK K : K = {m \in Names : gClientHandles'[m] # NoConn}
  OBVIOUS
<1>2. PICK f : f = [m \in K |-> gClientHandles'[m]]
  OBVIOUS
<1>3. f \in Injection(K, accepted)
  <2>1. \A m \in K : m \in Names /\ f[m] = gClientHandles'[m] /\ gClientHandles'[m] \in accepted
    BY <1>1, <1>2 DEF HandlesInv, Known
  <2>2. f \in [K -> accepted]
    BY <1>2, <2>1
  <2>3. \A p, q \in K : f[p] = f[q] => p = q
    BY <1>1, <2>1 DEF HandlesInv, Known
  <2>4. QED
    BY <2>2, <2>3 DEF Injection, IsInjective
<1>4. IsFiniteSet(accepted)
  BY ConnsFinite, FS_Subset DEF TypeOK
<1>5. IsFiniteSet(K) /\ Cardinality(K) <= Cardinality(accepted)
  BY <1>3, <1>4, FS_Injection
<1>6. PICK W : W = Waiters(n)
  OBVIOUS
<1>7. /\ WaitingNow(n)[n] = "Waiting"
      /\ \A m \in Names : m # n => WaitingNow(n)[m] = gClientStatus[m]
  BY WaitingNowIs
<1>8. W \subseteq K
  BY <1>1, <1>6, <1>7 DEF Waiters, Known
<1>9. IsFiniteSet(W) /\ Cardinality(W) <= Cardinality(K) /\ (Cardinality(K) = Cardinality(W) => K = W)
  BY <1>5, <1>8, FS_Subset
<1>10. Cardinality(W) \in Nat /\ Cardinality(K) \in Nat
  BY <1>5, <1>9, FS_CardinalityType
<1>11. Cardinality(W) = Cardinality(accepted)
  BY <1>6 DEF Everyone
<1>12. K = W
  BY <1>5, <1>9, <1>10, <1>11
<1>13. \A m \in Names : WaitingNow(n)[m] = "Busy" => m \in K
  BY <1>1, <1>7 DEF Known
<1>14. QED
  BY <1>6, <1>12, <1>13 DEF Waiters

\* The lines that a handler has written by the time it comes to AddReady.
Lines(k) ==
  IF Head(toServer[k]).cmd = "Results" THEN Reported(Head(toServer[k]))
  ELSE IF Head(toServer[k]).cmd = "Ready" THEN Opened ELSE log

\* Every handler ends in the next variable or in AddReady, and only results
\* come from a client that is busy.
LEMMA ReceiveReaches ==
  ASSUME TypeStrong, ProtoInv, ShakeInv, NEW k \in Conns, Receive(k)
  PROVE  \E n \in Names, ch \in [Conns -> Seq(ServerMsg)] :
           /\ n = Served(k) /\ (Known(n))'
           /\ \A l \in Conns :
                \/ ch[l] = toClient[l]
                \/ \E x \in ServerMsg : ~JobMsg(x) /\ ch[l] = Append(toClient[l], x)
           /\ \/ /\ Head(toServer[k]).cmd # "Results"
                 /\ \E sent \in Nat : NextVar(n, k, sent, ch, Lines(k))
              \/ /\ \E error : AddReady(n, ch, Lines(k), error)
                 /\ Head(toServer[k]).cmd = "Results" \/ gClientStatus[n] # "Busy"
<1>0. PICK m : m = Head(toServer[k])
  OBVIOUS
<1>1. /\ outcome = "running" /\ toServer[k] # <<>>
      /\ GetsReady(k, m) \/ GetsEnvReady(k, m) \/ GetsResults(m)
      /\ toServer' = [toServer EXCEPT ![k] = Tail(@)]
  BY <1>0, ReceiveCases
<1>2. TypeOK /\ m \in ClientMsg /\ m.name \in Names /\ m \in Range(toServer[k])
      /\ toClient \in [Conns -> Seq(ServerMsg)]
  <2>1. TypeOK /\ toClient \in [Conns -> Seq(ServerMsg)]
    BY DEF TypeStrong, TypeOK
  <2>2. QED
    BY <1>0, <1>1, <2>1, HeadIs, ClientMsgKinds
<1>3. CASE GetsReady(k, m)
  <2>1. m.cmd = "Ready"
    BY <1>3 DEF GetsReady
  <2>2. m = ReadyMsg(k[1]) /\ ~Known(NewName(k, ReadyMsg(k[1])))
    BY <1>0, <2>1, KnownStays
  <2>3. PICK n : n = NewName(k, m)
    OBVIOUS
  <2>4. n = Served(k) /\ ~Known(n) /\ Lines(k) = Opened
    BY <1>0, <2>1, <2>2, <2>3 DEF Served, Lines
  <2>5. PICK ch : ch = Greeted(k, m)
    OBVIOUS
  <2>6. /\ n \in Names /\ ch \in [Conns -> Seq(ServerMsg)]
        /\ \A l \in Conns : l # k => ch[l] = toClient[l]
        /\ Known(m.name) => ch[k] = Append(toClient[k], [cmd |-> "ChangeClientName", name |-> n])
        /\ ~Known(m.name) => ch = toClient
    BY <1>2, <2>3, <2>5, GreetedIs
  <2>7. \A l \in Conns :
          \/ ch[l] = toClient[l]
          \/ \E x \in ServerMsg : ~JobMsg(x) /\ ch[l] = Append(toClient[l], x)
    <3>1. PICK x : x = [cmd |-> "ChangeClientName", name |-> n]
      OBVIOUS
    <3>2. x \in ServerMsg /\ ~JobMsg(x)
      BY <2>6, <3>1, ToClientMsgs DEF JobMsg
    <3>3. QED
      BY <2>6, <3>1, <3>2
  <2>8. gClientStatus[n] # "Busy"
    BY <2>4, <2>6 DEF ProtoInv, HandlesInv
  <2>9. (Known(n))'
    BY <1>2, <1>3, <2>3, <2>6, NoConnAssumption DEF GetsReady, Known, TypeOK
  <2>10. \/ \E sent \in Nat : NextVar(n, k, sent, ch, Opened)
         \/ \E error : AddReady(n, ch, Opened, error)
    <3>1. NextVar(n, k, 0, ch, Opened) \/ HasAll(n, 0, ch, Opened)
      BY <1>3, <2>3, <2>5 DEF GetsReady
    <3>2. HasAll(n, 0, ch, Opened) => AddReady(n, ch, Opened, gRealTimeError)
      BY DEF HasAll
    <3>3. 0 \in Nat
      OBVIOUS
    <3>4. QED
      BY <3>1, <3>2, <3>3
  <2>11. QED
    BY <1>0, <2>1, <2>4, <2>6, <2>7, <2>8, <2>9, <2>10
<1>4. CASE GetsEnvReady(k, m)
  <2>1. m.cmd = "SetEnv Ready" /\ gClientHandles' = gClientHandles
    BY <1>4 DEF GetsEnvReady
  <2>2. Used(k) /\ (Known(m.name))'
    BY <1>0, <1>2, <2>1, KnownStays
  <2>3. gSetEnv > 0
    BY <1>2, <2>1 DEF TypeStrong, ReadyVars
  <2>4. VarConfirmed(m.name, k)
    BY <1>0, <1>1, <2>1, <2>2, <2>3, ServedShake DEF ShakeInv
  <2>5. m.name = Served(k) /\ Lines(k) = log /\ gClientStatus[m.name] # "Busy"
    BY <1>0, <2>1, <2>4 DEF Served, Lines, VarConfirmed
  <2>6. gClientEnvNum[m.name] \in Nat
    BY <1>2 DEF TypeOK
  <2>7. \/ NextVar(m.name, k, gClientEnvNum[m.name], toClient, log)
        \/ AddReady(m.name, toClient, log, gRealTimeError)
    BY <1>4 DEF GetsEnvReady, HasAll
  <2>8. QED
    BY <1>0, <1>2, <2>1, <2>2, <2>5, <2>6, <2>7
<1>5. CASE GetsResults(m)
  <2>1. /\ m.cmd = "Results"
        /\ AddReady(m.name, toClient, Reported(m), gRealTimeError \/ m.bad)
    BY <1>5 DEF GetsResults
  <2>2. (Known(m.name))'
    BY <1>0, <1>2, <2>1, KnownStays
  <2>3. m.name = Served(k) /\ Lines(k) = Reported(m)
    BY <1>0, <2>1 DEF Served, Lines
  <2>4. QED
    BY <1>0, <1>2, <2>1, <2>2, <2>3
<1>6. QED
  BY <1>1, <1>3, <1>4, <1>5

\* The results that are read are of a command under way, and nobody else's.
LEMMA LinesAre ==
  ASSUME TypeStrong, ProtoInv, CommandInv, NEW k \in Conns, Receive(k)
  PROVE  /\ Lines(k) \in Seq(LogLine) /\ Orderly(Lines(k)) /\ OpenIn(Lines(k), gStage)
         /\ \E i \in UnderWay \cup {0} :
              /\ LoggedIn(Lines(k)) = LoggedIn(log) \cup ({i} \ {0})
              /\ i # 0 => i \in Ids(toServer[k]) /\ i \notin Ids(toServer'[k])
              /\ i = 0 => Head(toServer[k]).cmd # "Results"
<1>0. PICK m : m = Head(toServer[k])
  OBVIOUS
<1>1. /\ outcome = "running" /\ toServer[k] # <<>>
      /\ toServer' = [toServer EXCEPT ![k] = Tail(@)]
  BY ReceiveCases
<1>2. TypeOK /\ log \in Seq(LogLine) /\ toServer \in [Conns -> Seq(ClientMsg)]
  BY DEF TypeStrong, TypeOK
<1>3. m \in ClientMsg /\ m.name \in Names /\ toServer'[k] = Tail(toServer[k])
  BY <1>0, <1>1, <1>2, HeadIs, ClientMsgKinds
<1>4. Orderly(log) /\ (log # <<>> => OpenIn(log, gStage))
  BY <1>1 DEF CommandInv, LogWell
<1>5. m.cmd # "Ready" => log # <<>>
  <2> SUFFICES ASSUME m.cmd # "Ready" PROVE log # <<>>
    OBVIOUS
  <2>1. Known(m.name)
    BY <1>0, KnownStays
  <2>2. QED
    BY <1>3, <2>1 DEF ProtoInv, LogInv
<1>6. ASSUME m.cmd # "Results", Lines(k) = log, log # <<>>
      PROVE  /\ Lines(k) \in Seq(LogLine) /\ Orderly(Lines(k)) /\ OpenIn(Lines(k), gStage)
             /\ LoggedIn(Lines(k)) = LoggedIn(log) \cup ({0} \ {0})
  BY <1>2, <1>4, <1>6
<1>7. CASE m.cmd = "Results"
  <2>1. Lines(k) = Reported(m) /\ m.id \in Nat
    BY <1>0, <1>3, <1>7, ClientMsgKinds DEF Lines
  <2>2. PICK x : x = [line |-> "results", stage |-> gStage, id |-> m.id]
    OBVIOUS
  <2>3. x.line = "results" /\ x.stage = gStage /\ x.id = m.id /\ Lines(k) = Append(log, x)
    BY <2>1, <2>2 DEF Reported
  <2>4. x \in LogLine
    BY <1>2, <2>1, <2>2, BuildTypes, LogLines
  <2>5. m.id \in Ids(toServer[k]) /\ m.id \notin Ids(Tail(toServer[k]))
    <3>1. toServer[k] \in Seq(ClientMsg) /\ IdsOnce(toServer[k])
      BY <1>2 DEF CommandInv, FlightInv
    <3>2. JobMsg(Head(toServer[k]))
      BY <1>0, <1>7 DEF JobMsg
    <3>3. QED
      BY <1>0, <1>1, <3>1, <3>2, IdsTail
  <2>6. m.id \in UnderWay
    <3>1. PICK b : b = <<"back", k>>
      OBVIOUS
    <3>2. b \in Places /\ At(b) = Ids(toServer[k])
      BY <3>1 DEF Places, At
    <3>3. QED
      BY <2>5, <3>2 DEF CommandInv, FlightInv
  <2>7. m.id \notin LoggedIn(log) /\ gStage = build[m.id].stage /\ m.id \in 1 .. (gIDCount - 1)
    BY <2>6 DEF UnderWay, CommandInv, StageInv
  <2>8. /\ Append(log, x) \in Seq(LogLine)
        /\ LoggedIn(Append(log, x)) = LoggedIn(log) \cup {x.id}
        /\ Orderly(Append(log, x)) /\ OpenIn(Append(log, x), gStage)
    BY <1>2, <1>4, <1>5, <1>7, <2>3, <2>4, <2>7, LogAppend
  <2>9. m.id # 0
    BY <2>7
  <2>10. LoggedIn(Lines(k)) = LoggedIn(log) \cup ({m.id} \ {0})
    BY <2>3, <2>8, <2>9
  <2>11. QED
    BY <1>3, <2>3, <2>5, <2>6, <2>8, <2>9, <2>10
<1>8. CASE m.cmd = "Ready"
  <2>1. Lines(k) = Opened /\ m.cmd # "Results"
    BY <1>0, <1>8 DEF Lines
  <2>2. CASE log # <<>>
    <3>1. Lines(k) = log
      BY <1>2, <2>1, <2>2, OpenedIs
    <3>2. QED
      BY <1>0, <1>6, <2>1, <2>2, <3>1
  <2>3. CASE log = <<>>
    <3>1. PICK x : x = PrintStageStart(gStage)
      OBVIOUS
    <3>2. x \in LogLine /\ x.line # "results"
      <4>1. x \in LogLine
        BY <1>2, <3>1, BuildTypes, LogLines
      <4>2. x.line = "started"
        BY <3>1 DEF PrintStageStart
      <4>3. QED
        BY <4>1, <4>2
    <3>3. Lines(k) = Append(log, x)
      <4>1. Lines(k) = <<x>>
        BY <1>2, <2>1, <2>3, <3>1, OpenedIs
      <4>2. QED
        BY <2>3, <4>1, AppendFirst
    <3>4. /\ Append(log, x) \in Seq(LogLine)
          /\ LoggedIn(Append(log, x)) = LoggedIn(log)
          /\ Orderly(Append(log, x)) /\ OpenIn(Append(log, x), gStage)
      BY <1>2, <1>4, <3>1, <3>2, LogAppend
    <3>5. QED
      BY <1>0, <2>1, <3>3, <3>4
  <2>4. QED
    BY <2>2, <2>3
<1>9. CASE m.cmd # "Results" /\ m.cmd # "Ready"
  <2>1. Lines(k) = log
    BY <1>0, <1>9 DEF Lines
  <2>2. QED
    BY <1>0, <1>5, <1>6, <1>9, <2>1
<1>10. QED
  BY <1>7, <1>8, <1>9

\* What is still under way of the commands given out before.
Left == 1 .. (gIDCount - 1) \ LoggedIn(log')

\* What reading a message of connection k does to the commands.
CommandStep(k) ==
  /\ \E i \in UnderWay \cup {0} :
       /\ LoggedIn(log') = LoggedIn(log) \cup ({i} \ {0})
       /\ i # 0 => i \in Ids(toServer[k]) /\ i \notin Ids(toServer'[k])
  /\ gIDCount' \in gIDCount .. (Len(build) + 1)
  /\ \E to : \A l \in Conns :
       Ids(toClient'[l]) \subseteq Ids(toClient[l]) \cup {j \in NewIds : to[j] = l}
  /\ \A l \in Conns : /\ IdsOnce(toClient'[l]) /\ IdsOnce(toServer'[l])
                      /\ Ids(toServer'[l]) \subseteq Ids(toServer[l])
  /\ \A j \in NewIds :
       /\ build[j].stage = gStage' /\ build[j].type # "Exit"
       /\ Unstaged(Previous(j)) /\ Unstaged(j) => j = gIDCount /\ Left = {}
  /\ gStage' = gStage \/ Left = {}
  /\ \/ outcome' = outcome
     \/ /\ Left = {} /\ gIDCount' = gIDCount
        /\ (outcome' = "error" \/ (outcome' = "done" /\ (gExit' \/ ~More)))
  /\ gExit' => (gExit \/ (More /\ build[gIDCount].type = "Exit")) /\ gIDCount' = gIDCount
  /\ IsFiniteSet(BusyNames') /\ Cardinality(Left) + Cardinality(NewIds) <= Cardinality(BusyNames')
  /\ Orderly(log') /\ (outcome' = "running" => OpenIn(log', gStage'))

LEMMA NewIdsAre ==
  ASSUME TypeOK, gIDCount' \in gIDCount .. (Len(build) + 1)
  PROVE  /\ IsFiniteSet(NewIds) /\ Cardinality(NewIds) = gIDCount' - gIDCount
         /\ gIDCount \in Nat /\ gIDCount >= 1 /\ gIDCount' \in Nat /\ gIDCount' >= gIDCount
         /\ NewIds = gIDCount .. (gIDCount' - 1)
         /\ NewIds \subseteq Nat \ {0}
<1>1. /\ gIDCount \in Nat /\ gIDCount >= 1 /\ gIDCount' \in Nat /\ gIDCount' >= gIDCount
      /\ NewIds = gIDCount .. (gIDCount' - 1)
  BY BuildTypes DEF NewIds
<1>2. PICK a, c : a = gIDCount /\ c = gIDCount'
  OBVIOUS
<1>3. a \in Nat /\ a >= 1 /\ c \in Nat /\ c >= a /\ NewIds = a .. (c - 1)
  BY <1>1, <1>2
<1>4. /\ IsFiniteSet(a .. (c - 1))
      /\ Cardinality(a .. (c - 1)) = IF a > c - 1 THEN 0 ELSE (c - 1) - a + 1
  <2>1. a \in Int /\ c - 1 \in Int
    BY <1>3
  <2>2. QED
    BY <2>1, FS_Interval
<1>5. Cardinality(a .. (c - 1)) = c - a
  BY <1>3, <1>4
<1>6. a .. (c - 1) \subseteq Nat \ {0}
  BY <1>3
<1>7. IsFiniteSet(NewIds) /\ Cardinality(NewIds) = gIDCount' - gIDCount /\ NewIds \subseteq Nat \ {0}
  <2>1. Cardinality(NewIds) = c - a
    BY <1>3, <1>5
  <2>2. QED
    BY <1>2, <1>3, <1>4, <1>6, <2>1
<1>8. QED
  BY <1>1, <1>7

\* The channels: two messages at most are added, one of them a command.
LEMMA ChannelsGrow ==
  ASSUME TypeOK, FlightInv, gIDCount' \in gIDCount .. (Len(build) + 1),
         NEW ch \in [Conns -> Seq(ServerMsg)],
         \A l \in Conns :
           \/ ch[l] = toClient[l]
           \/ \E x \in ServerMsg : ~JobMsg(x) /\ ch[l] = Append(toClient[l], x),
         NEW to, Sends(ch, to)
  PROVE  \A l \in Conns :
           /\ Ids(toClient'[l]) \subseteq Ids(toClient[l]) \cup {j \in NewIds : to[j] = l}
           /\ IdsOnce(toClient'[l])
<1> SUFFICES ASSUME NEW l \in Conns
             PROVE  /\ Ids(toClient'[l]) \subseteq Ids(toClient[l]) \cup {j \in NewIds : to[j] = l}
                    /\ IdsOnce(toClient'[l])
  OBVIOUS
<1>1. toClient[l] \in Seq(ServerMsg) /\ ch[l] \in Seq(ServerMsg) /\ IdsOnce(toClient[l])
  BY DEF TypeOK, FlightInv
<1>2. Ids(ch[l]) = Ids(toClient[l]) /\ IdsOnce(ch[l])
  <2>1. CASE ch[l] = toClient[l]
    BY <1>1, <2>1
  <2>2. CASE \E x \in ServerMsg : ~JobMsg(x) /\ ch[l] = Append(toClient[l], x)
    <3>1. PICK x \in ServerMsg : ~JobMsg(x) /\ ch[l] = Append(toClient[l], x)
      BY <2>2
    <3>2. QED
      BY <1>1, <3>1, IdsAppend
  <2>3. QED
    BY <2>1, <2>2
<1>3. CASE toClient'[l] = ch[l]
  BY <1>2, <1>3
<1>4. CASE \E x \in ServerMsg : ~JobMsg(x) /\ toClient'[l] = Append(ch[l], x)
  <2>1. PICK x \in ServerMsg : ~JobMsg(x) /\ toClient'[l] = Append(ch[l], x)
    BY <1>4
  <2>2. Ids(Append(ch[l], x)) = Ids(ch[l]) /\ IdsOnce(Append(ch[l], x))
    BY <1>1, <1>2, <2>1, IdsAppend
  <2>3. QED
    BY <1>2, <2>1, <2>2
<1>5. CASE \E j \in NewIds :
             to[j] = l /\ toClient'[l] = Append(ch[l], [cmd |-> "Execute", id |-> j])
  <2>1. PICK j \in NewIds :
          to[j] = l /\ toClient'[l] = Append(ch[l], [cmd |-> "Execute", id |-> j])
    BY <1>5
  <2>2. PICK x : x = [cmd |-> "Execute", id |-> j]
    OBVIOUS
  <2>3. j \in Nat /\ j \notin 1 .. (gIDCount - 1)
    BY <2>1, NewIdsAre
  <2>4. x \in ServerMsg /\ JobMsg(x) /\ x.id = j
    BY <2>2, <2>3, ToClientMsgs DEF JobMsg
  <2>5. PICK s : s = <<"sent", l>>
    OBVIOUS
  <2>6. s \in Places /\ At(s) = Ids(toClient[l])
    BY <2>5 DEF Places, At
  <2>7. Ids(toClient[l]) \subseteq 1 .. (gIDCount - 1)
    BY <2>6 DEF FlightInv, UnderWay
  <2>8. x.id \notin Ids(ch[l])
    BY <1>2, <2>3, <2>4, <2>7
  <2>9. Ids(Append(ch[l], x)) = Ids(ch[l]) \cup {x.id} /\ IdsOnce(Append(ch[l], x))
    BY <1>1, <1>2, <2>4, <2>8, IdsAppend
  <2>10. QED
    BY <1>2, <2>1, <2>2, <2>4, <2>9
<1>6. QED
  BY <1>3, <1>4, <1>5 DEF Sends

LEMMA ReceiveCommands ==
  ASSUME TypeStrong, ProtoInv, ShakeInv, CommandInv, NEW k \in Conns, Receive(k),
         TypeStrong', ProtoInv'
  PROVE  CommandStep(k)
<1>0. PICK m : m = Head(toServer[k])
  OBVIOUS
<1>1. /\ outcome = "running" /\ toServer[k] # <<>>
      /\ toServer' = [toServer EXCEPT ![k] = Tail(@)]
      /\ accepted' = accepted
  BY ReceiveCases
<1>2. TypeOK /\ TypeOK' /\ HandlesInv' /\ FlightInv /\ BusyInv /\ HandlesInv
      /\ toServer \in [Conns -> Seq(ClientMsg)] /\ gIDCount \in gIDCount .. (Len(build) + 1)
  <2>1. TypeOK /\ TypeOK'
    BY DEF TypeStrong
  <2>2. HandlesInv' /\ FlightInv /\ BusyInv /\ HandlesInv
    BY DEF ProtoInv, CommandInv
  <2>3. toServer \in [Conns -> Seq(ClientMsg)]
    BY <2>1 DEF TypeOK
  <2>4. gIDCount \in gIDCount .. (Len(build) + 1)
    BY <2>1, BuildTypes
  <2>5. QED
    BY <2>1, <2>2, <2>3, <2>4
<1>3. PICK n \in Names, ch \in [Conns -> Seq(ServerMsg)] :
        /\ n = Served(k) /\ (Known(n))'
        /\ \A l \in Conns :
             \/ ch[l] = toClient[l]
             \/ \E x \in ServerMsg : ~JobMsg(x) /\ ch[l] = Append(toClient[l], x)
        /\ \/ /\ Head(toServer[k]).cmd # "Results"
              /\ \E sent \in Nat : NextVar(n, k, sent, ch, Lines(k))
           \/ /\ \E error : AddReady(n, ch, Lines(k), error)
              /\ Head(toServer[k]).cmd = "Results" \/ gClientStatus[n] # "Busy"
  BY ReceiveReaches
<1>4. /\ Lines(k) \in Seq(LogLine) /\ Orderly(Lines(k)) /\ OpenIn(Lines(k), gStage)
      /\ \E i \in UnderWay \cup {0} :
           /\ LoggedIn(Lines(k)) = LoggedIn(log) \cup ({i} \ {0})
           /\ i # 0 => i \in Ids(toServer[k]) /\ i \notin Ids(toServer'[k])
           /\ i = 0 => Head(toServer[k]).cmd # "Results"
  BY LinesAre
<1>5. PICK i \in UnderWay \cup {0} :
        /\ LoggedIn(Lines(k)) = LoggedIn(log) \cup ({i} \ {0})
        /\ i # 0 => i \in Ids(toServer[k]) /\ i \notin Ids(toServer'[k])
        /\ i = 0 => Head(toServer[k]).cmd # "Results"
  BY <1>4
<1>6. \A l \in Conns : IdsOnce(toServer'[l]) /\ Ids(toServer'[l]) \subseteq Ids(toServer[l])
  <2> SUFFICES ASSUME NEW l \in Conns
               PROVE  IdsOnce(toServer'[l]) /\ Ids(toServer'[l]) \subseteq Ids(toServer[l])
    OBVIOUS
  <2>1. toServer[l] \in Seq(ClientMsg) /\ IdsOnce(toServer[l])
    BY <1>2 DEF FlightInv
  <2>2. CASE l = k
    BY <1>1, <1>2, <2>1, <2>2, HeadIs, IdsTail
  <2>3. CASE l # k
    BY <1>1, <1>2, <2>1, <2>3, HeadIs
  <2>4. QED
    BY <2>2, <2>3
<1>7. 0 \notin UnderWay /\ i \notin LoggedIn(log) \ {0}
  BY <1>5 DEF UnderWay
<1>8. PICK L : L = 1 .. (gIDCount - 1) \ LoggedIn(Lines(k))
  OBVIOUS
<1>9. L = UnderWay \ {i}
  BY <1>5, <1>7, <1>8 DEF UnderWay
<1>10. /\ IsFiniteSet(UnderWay) /\ Cardinality(UnderWay) \in Nat
       /\ IsFiniteSet(BusyNames) /\ Cardinality(BusyNames) \in Nat
       /\ Cardinality(UnderWay) <= Cardinality(BusyNames)
  BY <1>2, LeftFinite, FS_CardinalityType DEF BusyInv, UnderWay
<1>11. CASE Head(toServer[k]).cmd # "Results" /\ \E sent \in Nat : NextVar(n, k, sent, ch, Lines(k))
  <2>1. PICK sent \in Nat : NextVar(n, k, sent, ch, Lines(k))
    BY <1>11
  <2>2. /\ gIDCount' = gIDCount /\ gStage' = gStage /\ gExit' = gExit /\ outcome' = outcome
        /\ gClientStatus' = gClientStatus /\ log' = Lines(k)
    BY <2>1 DEF NextVar
  <2>3. NewIds = {} /\ Cardinality(NewIds) = 0
    BY <1>2, <2>2, NothingGiven
  <2>4. Sends(ch, {})
    <3>1. PICK x : x = [cmd |-> "SetEnv", var |-> sent]
      OBVIOUS
    <3>2. x \in ServerMsg /\ ~JobMsg(x)
      BY <3>1, ToClientMsgs DEF JobMsg
    <3>3. toClient'[k] = Append(ch[k], x) /\ \A l \in Conns : l # k => toClient'[l] = ch[l]
      <4>1. toClient' = [ch EXCEPT ![k] = Append(ch[k], x)]
        BY <2>1, <3>1 DEF NextVar
      <4>2. PICK y : y = Append(ch[k], x)
        OBVIOUS
      <4>3. toClient' = [ch EXCEPT ![k] = y]
        BY <4>1, <4>2
      <4>4. DOMAIN ch = Conns
        BY <1>3
      <4>5. toClient'[k] = y /\ \A l \in Conns : l # k => toClient'[l] = ch[l]
        BY <4>3, <4>4
      <4>6. QED
        BY <4>2, <4>5
    <3>4. QED
      BY <3>2, <3>3 DEF Sends
  <2>5. \A l \in Conns :
          /\ Ids(toClient'[l]) \subseteq Ids(toClient[l]) \cup {j \in NewIds : {}[j] = l}
          /\ IdsOnce(toClient'[l])
    BY <1>2, <1>3, <2>2, <2>4, ChannelsGrow
  <2>6. Left = L /\ BusyNames' = BusyNames
    BY <1>8, <2>2 DEF Left, BusyNames
  <2>7. Cardinality(L) <= Cardinality(UnderWay) /\ Cardinality(L) \in Nat
    <3>1. IsFiniteSet(L) /\ Cardinality(L) <= Cardinality(UnderWay)
      BY <1>9, <1>10, FS_Subset
    <3>2. QED
      BY <3>1, FS_CardinalityType
  <2>8. IsFiniteSet(BusyNames') /\ Cardinality(Left) + Cardinality(NewIds) <= Cardinality(BusyNames')
    BY <1>10, <2>3, <2>6, <2>7
  <2>9. \E to : \A l \in Conns :
          Ids(toClient'[l]) \subseteq Ids(toClient[l]) \cup {j \in NewIds : to[j] = l}
    BY <2>5
  <2>10. \A l \in Conns : /\ IdsOnce(toClient'[l]) /\ IdsOnce(toServer'[l])
                          /\ Ids(toServer'[l]) \subseteq Ids(toServer[l])
    BY <1>6, <2>5
  <2>11. \E j \in UnderWay \cup {0} :
           /\ LoggedIn(log') = LoggedIn(log) \cup ({j} \ {0})
           /\ j # 0 => j \in Ids(toServer[k]) /\ j \notin Ids(toServer'[k])
    BY <1>5, <2>2
  <2>12. gIDCount' \in gIDCount .. (Len(build) + 1)
    BY <1>2, <2>2
  <2>13. QED
    BY <1>4, <2>2, <2>3, <2>8, <2>9, <2>10, <2>11, <2>12 DEF CommandStep
<1>12. CASE /\ \E error : AddReady(n, ch, Lines(k), error)
            /\ Head(toServer[k]).cmd = "Results" \/ gClientStatus[n] # "Busy"
  <2>1. PICK error : AddReady(n, ch, Lines(k), error)
    BY <1>12
  <2>2. /\ LoggedIn(log') = LoggedIn(Lines(k))
        /\ Orderly(log')
        /\ outcome' = "running" => OpenIn(log', gStage')
    BY <1>1, <1>2, <1>4, <2>1, AddReadyLogs
  <2>3. /\ \E to : Sends(ch, to)
        /\ \E R : Takes(WaitingNow(n), R)
        /\ \A j \in NewIds : MaySend(j, gStage', WaitingNow(n))
        /\ gIDCount' \in gIDCount .. (Len(build) + 1)
        /\ gExit' => ExitNext /\ gIDCount' = gIDCount
        /\ gStage' = gStage \/ Everyone(n)
        /\ \/ outcome' = outcome
           \/ /\ Everyone(n) /\ gIDCount' = gIDCount
              /\ (outcome' = "error" \/ (outcome' = "done" /\ (gExit' \/ ~More)))
    BY <1>2, <2>1, AddReadyGives
  <2>4. PICK to : Sends(ch, to)
    BY <2>3
  <2>5. PICK R : Takes(WaitingNow(n), R)
    BY <2>3
  <2>6. PICK B : B = {x \in Names : WaitingNow(n)[x] = "Busy"}
    OBVIOUS
  <2>7. B = BusyNames \ {n}
    BY <1>2, <2>6, WaitingNowIs DEF BusyNames
  <2>8. Left = L
    BY <1>8, <2>2 DEF Left
  <2>9. /\ IsFiniteSet(B) /\ IsFiniteSet(L) /\ Cardinality(B) \in Nat /\ Cardinality(L) \in Nat
        /\ Cardinality(L) <= Cardinality(B)
    <3>1. /\ IsFiniteSet(L)
          /\ Cardinality(L) = IF i \in UnderWay THEN Cardinality(UnderWay) - 1
                              ELSE Cardinality(UnderWay)
      BY <1>9, <1>10, FS_RemoveElement
    <3>2. /\ IsFiniteSet(B)
          /\ Cardinality(B) = IF n \in BusyNames THEN Cardinality(BusyNames) - 1
                              ELSE Cardinality(BusyNames)
      BY <1>10, <2>7, FS_RemoveElement
    <3>3. Cardinality(B) \in Nat /\ Cardinality(L) \in Nat
      BY <3>1, <3>2, FS_CardinalityType
    <3>4. i \in UnderWay \/ n \notin BusyNames
      BY <1>5, <1>12 DEF BusyNames
    <3>5. QED
      BY <1>10, <3>1, <3>2, <3>3, <3>4
  <2>10. B = {} => Left = {}
    <3> SUFFICES ASSUME B = {} PROVE L = {}
      BY <2>8
    <3>1. Cardinality(B) = 0
      BY FS_EmptySet
    <3>2. Cardinality(L) = 0
      BY <2>9, <3>1
    <3>3. QED
      BY <2>9, <3>2, FS_EmptySet
  <2>11. Everyone(n) => Left = {}
    <3> SUFFICES ASSUME Everyone(n) PROVE B = {}
      BY <2>10
    <3>1. \A x \in Names : gClientStatus[x] # "none" => (Known(x))'
      <4>1. \A x \in Names : gClientStatus[x] # "none" => Known(x)
        BY <1>2 DEF HandlesInv
      <4>2. QED
        BY <4>1, KnownStays
    <3>2. \A x \in Names : WaitingNow(n)[x] # "Busy"
      BY <1>1, <1>2, <1>3, <3>1, EveryoneWaits
    <3>3. QED
      BY <2>6, <3>2
  <2>12. IsFiniteSet(BusyNames') /\ Cardinality(BusyNames') = Cardinality(B) + Cardinality(R)
    <3>1. /\ IsFiniteSet(R) /\ R \subseteq Names
          /\ \A x \in R : WaitingNow(n)[x] = "Waiting" /\ gClientStatus'[x] = "Busy"
          /\ \A x \in Names \ R : gClientStatus'[x] = WaitingNow(n)[x]
      BY <2>5 DEF Takes
    <3>2. BusyNames' = B \cup R /\ B \cap R = {}
      BY <2>6, <3>1 DEF BusyNames
    <3>3. /\ IsFiniteSet(B \cup R)
          /\ Cardinality(B \cup R) = Cardinality(B) + Cardinality(R) - Cardinality(B \cap R)
      BY <2>9, <3>1, FS_Union
    <3>4. Cardinality(B \cap R) = 0 /\ Cardinality(R) \in Nat
      BY <3>1, <3>2, FS_EmptySet, FS_CardinalityType
    <3>5. QED
      BY <2>9, <3>2, <3>3, <3>4
  <2>13. Cardinality(NewIds) = gIDCount' - gIDCount /\ Cardinality(R) = gIDCount' - gIDCount
    BY <1>2, <2>3, <2>5, NewIdsAre DEF Takes
  <2>14. Cardinality(Left) + Cardinality(NewIds) <= Cardinality(BusyNames')
    <3>1. gIDCount \in Nat /\ gIDCount' \in Nat
      BY <1>2, <2>3, NewIdsAre
    <3>2. QED
      BY <2>8, <2>9, <2>12, <2>13, <3>1
  <2>15. \A l \in Conns :
           /\ Ids(toClient'[l]) \subseteq Ids(toClient[l]) \cup {j \in NewIds : to[j] = l}
           /\ IdsOnce(toClient'[l])
    BY <1>2, <1>3, <2>3, <2>4, ChannelsGrow
  <2>16. \A j \in NewIds :
           /\ build[j].stage = gStage' /\ build[j].type # "Exit"
           /\ Unstaged(Previous(j)) /\ Unstaged(j) => j = gIDCount /\ Left = {}
    <3> SUFFICES ASSUME NEW j \in NewIds
                 PROVE  /\ build[j].stage = gStage' /\ build[j].type # "Exit"
                        /\ Unstaged(Previous(j)) /\ Unstaged(j) => j = gIDCount /\ Left = {}
      OBVIOUS
    <3>1. MaySend(j, gStage', WaitingNow(n))
      BY <2>3
    <3>2. build[j].stage = gStage' /\ build[j].type # "Exit"
      BY <3>1 DEF MaySend
    <3>3. ASSUME Unstaged(Previous(j)), Unstaged(j)
          PROVE  j = gIDCount /\ B = {}
      BY <2>6, <3>1, <3>3 DEF MaySend
    <3>4. QED
      BY <2>10, <3>2, <3>3
  <2>17. \E j \in UnderWay \cup {0} :
           /\ LoggedIn(log') = LoggedIn(log) \cup ({j} \ {0})
           /\ j # 0 => j \in Ids(toServer[k]) /\ j \notin Ids(toServer'[k])
    BY <1>5, <2>2
  <2>18. \E t : \A l \in Conns :
           Ids(toClient'[l]) \subseteq Ids(toClient[l]) \cup {j \in NewIds : t[j] = l}
    BY <2>15
  <2>19. \A l \in Conns : /\ IdsOnce(toClient'[l]) /\ IdsOnce(toServer'[l])
                          /\ Ids(toServer'[l]) \subseteq Ids(toServer[l])
    BY <1>6, <2>15
  <2>20. gExit' => (gExit \/ (More /\ build[gIDCount].type = "Exit")) /\ gIDCount' = gIDCount
    BY <2>3 DEF ExitNext
  <2>21. /\ gStage' = gStage \/ Left = {}
         /\ \/ outcome' = outcome
            \/ /\ Left = {} /\ gIDCount' = gIDCount
               /\ (outcome' = "error" \/ (outcome' = "done" /\ (gExit' \/ ~More)))
    BY <2>3, <2>11
  <2>22. QED
    BY <2>2, <2>3, <2>12, <2>14, <2>16, <2>17, <2>18, <2>19, <2>20, <2>21 DEF CommandStep
<1>13. QED
  BY <1>3, <1>11, <1>12

\* What such a step makes of the commands under way.
LEMMA StepUnderWay ==
  ASSUME TypeOK, FlightInv, NEW k \in Conns, CommandStep(k)
  PROVE  /\ UnderWay' = Left \cup NewIds
         /\ Left \subseteq UnderWay
         /\ LoggedIn(log') \subseteq 1 .. (gIDCount' - 1)
         /\ NewIds \cap 1 .. (gIDCount - 1) = {}
<1>1. PICK i \in UnderWay \cup {0} : LoggedIn(log') = LoggedIn(log) \cup ({i} \ {0})
  BY DEF CommandStep
<1>2. gIDCount' \in gIDCount .. (Len(build) + 1)
  BY DEF CommandStep
<1>3. /\ gIDCount \in Nat /\ gIDCount >= 1 /\ gIDCount' \in Nat /\ gIDCount' >= gIDCount
      /\ NewIds = gIDCount .. (gIDCount' - 1)
  BY <1>2, NewIdsAre
<1>4. LoggedIn(log') \subseteq 1 .. (gIDCount - 1)
  BY <1>1 DEF FlightInv, UnderWay
<1>5. PICK a, b, S : a = gIDCount /\ b = gIDCount' /\ S = LoggedIn(log')
  OBVIOUS
<1>6. /\ a \in Nat /\ b \in Nat /\ a >= 1 /\ b >= a /\ S \subseteq 1 .. (a - 1)
      /\ NewIds = a .. (b - 1) /\ Left = 1 .. (a - 1) \ S /\ UnderWay' = 1 .. (b - 1) \ S
  BY <1>3, <1>4, <1>5 DEF Left, UnderWay
<1>7. 1 .. (b - 1) = 1 .. (a - 1) \cup a .. (b - 1) /\ 1 .. (a - 1) \cap a .. (b - 1) = {}
  BY <1>6
<1>8. UnderWay' = Left \cup NewIds /\ S \subseteq 1 .. (b - 1)
  BY <1>6, <1>7
<1>9. Left \subseteq UnderWay
  BY <1>1 DEF Left, UnderWay
<1>10. QED
  BY <1>5, <1>6, <1>7, <1>8, <1>9

LEMMA ReceiveFlight ==
  ASSUME TypeOK, FlightInv, NEW k \in Conns, CommandStep(k), UNCHANGED <<pc, job>>
  PROVE  FlightInv'
<1>1. PICK i \in UnderWay \cup {0} :
        /\ LoggedIn(log') = LoggedIn(log) \cup ({i} \ {0})
        /\ i # 0 => i \in Ids(toServer[k]) /\ i \notin Ids(toServer'[k])
  BY DEF CommandStep
<1>2. PICK to : \A l \in Conns :
        Ids(toClient'[l]) \subseteq Ids(toClient[l]) \cup {j \in NewIds : to[j] = l}
  BY DEF CommandStep
<1>3. \A l \in Conns : /\ IdsOnce(toClient'[l]) /\ IdsOnce(toServer'[l])
                       /\ Ids(toServer'[l]) \subseteq Ids(toServer[l])
  BY DEF CommandStep
<1>4. /\ UnderWay' = Left \cup NewIds /\ Left \subseteq UnderWay
      /\ LoggedIn(log') \subseteq 1 .. (gIDCount' - 1)
      /\ NewIds \cap 1 .. (gIDCount - 1) = {}
  BY StepUnderWay
<1>5. UnderWay \subseteq 1 .. (gIDCount - 1) /\ Left = UnderWay \ {i}
  BY <1>1 DEF UnderWay, Left
<1>6. ASSUME NEW x \in Places
      PROVE  (At(x))' \subseteq At(x) \cup {j \in NewIds : x[1] = "sent" /\ to[j] = x[2]}
  <2>1. CASE x[1] = "sent"
    <3>1. x[2] \in Conns
      BY <2>1 DEF Places
    <3>2. At(x) = Ids(toClient[x[2]]) /\ (At(x))' = Ids(toClient'[x[2]])
      BY <2>1 DEF At
    <3>3. QED
      BY <1>2, <2>1, <3>1, <3>2
  <2>2. CASE x[1] = "back"
    <3>1. x[2] \in Conns
      BY <2>2 DEF Places
    <3>2. At(x) = Ids(toServer[x[2]]) /\ (At(x))' = Ids(toServer'[x[2]])
      BY <2>2 DEF At
    <3>3. QED
      BY <1>3, <3>1, <3>2
  <2>3. CASE x[1] # "sent" /\ x[1] # "back"
    BY <2>3 DEF At
  <2>4. QED
    BY <2>1, <2>2, <2>3
<1>7. ASSUME NEW x \in Places, i \in (At(x))', i # 0 PROVE FALSE
  <2>1. i \in UnderWay /\ i \notin NewIds
    BY <1>1, <1>4, <1>5, <1>7
  <2>2. i \in At(x)
    BY <1>6, <1>7, <2>1
  <2>3. PICK b : b = <<"back", k>>
    OBVIOUS
  <2>4. b \in Places /\ At(b) = Ids(toServer[k]) /\ (At(b))' = Ids(toServer'[k])
    BY <2>3 DEF Places, At
  <2>5. x = b
    BY <1>1, <1>7, <2>2, <2>4 DEF FlightInv
  <2>6. QED
    BY <1>1, <1>7, <2>4, <2>5
<1>8. \A x \in Places : At(x) \subseteq UnderWay
  BY DEF FlightInv
<1>9. 0 \notin UnderWay
  BY DEF UnderWay
<1>10. ASSUME NEW x \in Places PROVE (At(x))' \subseteq UnderWay'
  <2>1. ASSUME NEW j \in (At(x))', j \notin NewIds PROVE j \in Left
    BY <1>5, <1>6, <1>7, <1>8, <1>9, <2>1
  <2>2. QED
    BY <1>4, <2>1
<1>11. ASSUME NEW x \in Places, NEW y \in Places, NEW j, j \in (At(x))', j \in (At(y))'
       PROVE  x = y
  <2>1. CASE j \in NewIds
    <3>1. j \notin At(x) /\ j \notin At(y)
      BY <1>4, <1>5, <1>8, <2>1
    <3>2. /\ x[1] = "sent" /\ to[j] = x[2]
          /\ y[1] = "sent" /\ to[j] = y[2]
      BY <1>6, <1>11, <3>1
    <3>3. x = <<x[1], x[2]>> /\ y = <<y[1], y[2]>>
      BY DEF Places
    <3>4. QED
      BY <3>2, <3>3
  <2>2. CASE j \notin NewIds
    <3>1. j \in At(x) /\ j \in At(y)
      BY <1>6, <1>11, <2>2
    <3>2. QED
      BY <3>1 DEF FlightInv
  <2>3. QED
    BY <2>1, <2>2
<1>12. QED
  BY <1>3, <1>4, <1>10, <1>11 DEF FlightInv

LEMMA ReceiveCommandInv ==
  ASSUME TypeStrong, ProtoInv, ShakeInv, CommandInv, NEW k \in Conns, Receive(k),
         TypeStrong', ProtoInv'
  PROVE  CommandInv'
<1>1. CommandStep(k)
  BY ReceiveCommands
<1>2. outcome = "running" /\ UNCHANGED <<pc, job, build>>
  BY ReceiveCases DEF clientVars, input
<1>3. TypeOK /\ FlightInv /\ StageInv /\ LogWell
  BY DEF TypeStrong, CommandInv
<1>4. FlightInv'
  BY <1>1, <1>2, <1>3, ReceiveFlight
<1>5. UnderWay' = Left \cup NewIds /\ Left \subseteq UnderWay
  BY <1>1, <1>3, StepUnderWay
<1>6. gIDCount' \in gIDCount .. (Len(build) + 1)
  BY <1>1 DEF CommandStep
<1>7. /\ IsFiniteSet(NewIds)
      /\ gIDCount \in Nat /\ gIDCount >= 1 /\ gIDCount' \in Nat /\ gIDCount' >= gIDCount
      /\ NewIds = gIDCount .. (gIDCount' - 1)
  BY <1>3, <1>6, NewIdsAre
<1>8. BusyInv'
  <2>1. IsFiniteSet(BusyNames') /\ Cardinality(Left) + Cardinality(NewIds) <= Cardinality(BusyNames')
    BY <1>1 DEF CommandStep
  <2>2. IsFiniteSet(Left) /\ Cardinality(Left) \in Nat
    BY <1>3, LeftFinite DEF Left
  <2>3. /\ IsFiniteSet(Left \cup NewIds)
        /\ Cardinality(Left \cup NewIds) =
             Cardinality(Left) + Cardinality(NewIds) - Cardinality(Left \cap NewIds)
    BY <1>7, <2>2, FS_Union
  <2>4. IsFiniteSet(Left \cap NewIds)
    BY <2>2, FS_Subset
  <2>5. Cardinality(Left \cap NewIds) \in Nat /\ Cardinality(NewIds) \in Nat
        /\ Cardinality(BusyNames') \in Nat
    BY <1>7, <2>1, <2>4, FS_CardinalityType
  <2>6. Cardinality(UnderWay') <= Cardinality(BusyNames')
    BY <1>5, <2>1, <2>2, <2>3, <2>5
  <2>7. QED
    BY <2>1, <2>6 DEF BusyInv
<1>9. StageInv'
  <2>1. ASSUME NEW j \in UnderWay'
        PROVE  build[j].stage = gStage' /\ build[gIDCount' - 1].stage = gStage'
    <3>1. \A x \in NewIds : build[x].stage = gStage'
      BY <1>1 DEF CommandStep
    <3>2. \A x \in Left : build[x].stage = gStage' /\ build[gIDCount - 1].stage = gStage'
      <4>1. gStage' = gStage \/ Left = {}
        BY <1>1 DEF CommandStep
      <4>2. QED
        BY <1>3, <1>5, <4>1 DEF StageInv
    <3>3. build[j].stage = gStage'
      BY <1>5, <3>1, <3>2
    <3>4. build[gIDCount' - 1].stage = gStage'
      <4>1. CASE gIDCount' = gIDCount
        <5>1. NewIds = {}
          BY <1>7, <4>1
        <5>2. QED
          BY <1>5, <3>2, <4>1, <5>1
      <4>2. CASE gIDCount' # gIDCount
        <5>1. gIDCount' - 1 \in NewIds
          <6>1. PICK a, c : a = gIDCount /\ c = gIDCount'
            OBVIOUS
          <6>2. a \in Nat /\ c \in Nat /\ c >= a /\ NewIds = a .. (c - 1) /\ c # a
            BY <1>7, <4>2, <6>1
          <6>3. c - 1 \in a .. (c - 1)
            BY <6>2
          <6>4. QED
            BY <6>1, <6>2, <6>3
        <5>2. QED
          BY <3>1, <5>1
      <4>3. QED
        BY <4>1, <4>2
    <3>5. QED
      BY <3>3, <3>4
  <2>2. ASSUME gExit'
        PROVE  gIDCount' <= Len(build) /\ build[gIDCount'].type = "Exit"
    BY <1>1, <1>2, <1>3, <2>2 DEF CommandStep, StageInv, More
  <2>3. QED
    BY <1>2, <2>1, <2>2 DEF StageInv, More
<1>10. LogWell'
  <2>1. Orderly(log') /\ (outcome' = "running" => OpenIn(log', gStage'))
    BY <1>1 DEF CommandStep
  <2>2. (Orderly(log))'
    BY <1>2, <2>1 DEF Orderly, ResultsAt, Under, PrintStageStart
  <2>3. (OpenIn(log, gStage))' <=> OpenIn(log', gStage')
    BY DEF OpenIn, PrintStageStart
  <2>4. QED
    BY <2>1, <2>2, <2>3 DEF LogWell
<1>11. QED
  BY <1>4, <1>8, <1>9, <1>10 DEF CommandInv

\* A step of the others leaves what the server knows of its commands alone.
CommandsStill ==
  /\ UNCHANGED <<build, gIDCount, gStage, gExit, log, gClientStatus>>
  /\ outcome' = "running" => outcome = "running"

LEMMA StillCounts ==
  ASSUME CommandInv, CommandsStill
  PROVE  BusyInv' /\ StageInv' /\ LogWell' /\ UnderWay' = UnderWay /\ LoggedIn(log') = LoggedIn(log)
<1>1. UNCHANGED <<build, gIDCount, gStage, gExit, log, gClientStatus>>
  BY DEF CommandsStill
<1>2. LoggedIn(log') = LoggedIn(log) /\ UnderWay' = UnderWay /\ BusyNames' = BusyNames
  BY <1>1 DEF UnderWay, BusyNames
<1>3. BusyInv'
  BY <1>2 DEF CommandInv, BusyInv
<1>4. StageInv'
  BY <1>1, <1>2 DEF CommandInv, StageInv, CommandsStill, More
<1>5. (Orderly(log))' <=> Orderly(log)
  BY <1>1 DEF Orderly, ResultsAt, Under, PrintStageStart
<1>6. (OpenIn(log, gStage))' <=> OpenIn(log, gStage)
  BY <1>1 DEF OpenIn, PrintStageStart
<1>7. LogWell'
  BY <1>1, <1>5, <1>6 DEF CommandInv, LogWell, CommandsStill
<1>8. QED
  BY <1>2, <1>3, <1>4, <1>7

\* No command goes to another place.
LEMMA CommandsStay ==
  ASSUME CommandInv, CommandsStill,
         \A l \in Conns : IdsOnce(toClient'[l]) /\ IdsOnce(toServer'[l]),
         \A x \in Places : (At(x))' \subseteq At(x)
  PROVE  CommandInv'
<1>1. BusyInv' /\ StageInv' /\ LogWell' /\ UnderWay' = UnderWay /\ LoggedIn(log') = LoggedIn(log)
      /\ gIDCount' = gIDCount
  BY StillCounts DEF CommandsStill
<1>2. /\ \A x, y \in Places : \A i : i \in At(x) /\ i \in At(y) => x = y
      /\ \A x \in Places : At(x) \subseteq UnderWay
      /\ LoggedIn(log) \subseteq 1 .. (gIDCount - 1)
  BY DEF CommandInv, FlightInv
<1>3. \A x, y \in Places : \A i : i \in (At(x))' /\ i \in (At(y))' => x = y
  BY <1>2
<1>4. \A x \in Places : (At(x))' \subseteq UnderWay'
  BY <1>1, <1>2
<1>5. FlightInv'
  BY <1>1, <1>2, <1>3, <1>4 DEF FlightInv
<1>6. QED
  BY <1>1, <1>5 DEF CommandInv

\* One command goes from one place to another.
LEMMA CommandMoves ==
  ASSUME CommandInv, CommandsStill,
         \A l \in Conns : IdsOnce(toClient'[l]) /\ IdsOnce(toServer'[l]),
         NEW from \in Places, NEW to \in Places, NEW i, i \in At(from), i \notin (At(from))',
         \A x \in Places : \A j \in (At(x))' : j \in At(x) \/ (x = to /\ j = i)
  PROVE  CommandInv'
<1>1. BusyInv' /\ StageInv' /\ LogWell' /\ UnderWay' = UnderWay /\ LoggedIn(log') = LoggedIn(log)
      /\ gIDCount' = gIDCount
  BY StillCounts DEF CommandsStill
<1>2. /\ \A x, y \in Places : \A j : j \in At(x) /\ j \in At(y) => x = y
      /\ \A x \in Places : At(x) \subseteq UnderWay
      /\ LoggedIn(log) \subseteq 1 .. (gIDCount - 1)
  BY DEF CommandInv, FlightInv
<1>3. \A x \in Places : i \in (At(x))' => x = to
  BY <1>2
<1>4. ASSUME NEW x \in Places, NEW y \in Places, NEW j, j \in (At(x))', j \in (At(y))'
      PROVE  x = y
  <2>1. CASE j = i
    BY <1>3, <1>4, <2>1
  <2>2. CASE j # i
    <3>1. j \in At(x) /\ j \in At(y)
      BY <1>4, <2>2
    <3>2. QED
      BY <1>2, <3>1
  <2>3. QED
    BY <2>1, <2>2
<1>5. \A x \in Places : (At(x))' \subseteq UnderWay'
  BY <1>1, <1>2
<1>6. FlightInv'
  BY <1>1, <1>2, <1>4, <1>5 DEF FlightInv
<1>7. QED
  BY <1>1, <1>6 DEF CommandInv

\* What is at a place, seen from the variables.
LEMMA Where ==
  /\ \A l \in Conns : /\ <<"sent", l>> \in Places /\ At(<<"sent", l>>) = Ids(toClient[l])
                      /\ (At(<<"sent", l>>))' = Ids(toClient'[l])
  /\ \A l \in Conns : /\ <<"back", l>> \in Places /\ At(<<"back", l>>) = Ids(toServer[l])
                      /\ (At(<<"back", l>>))' = Ids(toServer'[l])
  /\ \A c \in Clients : /\ <<"job", c>> \in Places
                        /\ At(<<"job", c>>) = IF pc[c] = "execute" THEN {job[c].id} ELSE {}
                        /\ (At(<<"job", c>>))' = IF pc'[c] = "execute" THEN {job'[c].id} ELSE {}
  /\ \A x \in Places : \/ \E l \in Conns : x = <<"sent", l>> \/ x = <<"back", l>>
                       \/ \E c \in Clients : x = <<"job", c>>
<1>1. ASSUME NEW l \in Conns
      PROVE  <<"sent", l>> \in Places /\ <<"back", l>> \in Places
  BY DEF Places
<1>2. ASSUME NEW c \in Clients PROVE <<"job", c>> \in Places
  BY DEF Places
<1>3. ASSUME NEW x \in Places
      PROVE  \/ \E l \in Conns : x = <<"sent", l>> \/ x = <<"back", l>>
             \/ \E c \in Clients : x = <<"job", c>>
  BY DEF Places
<1>4. \A l \in Conns : /\ At(<<"sent", l>>) = Ids(toClient[l])
                       /\ (At(<<"sent", l>>))' = Ids(toClient'[l])
                       /\ At(<<"back", l>>) = Ids(toServer[l])
                       /\ (At(<<"back", l>>))' = Ids(toServer'[l])
  BY DEF At
<1>5. \A c \in Clients :
        /\ At(<<"job", c>>) = IF pc[c] = "execute" THEN {job[c].id} ELSE {}
        /\ (At(<<"job", c>>))' = IF pc'[c] = "execute" THEN {job'[c].id} ELSE {}
  BY DEF At
<1>6. QED
  BY <1>1, <1>2, <1>3, <1>4, <1>5

LEMMA StillStill == ServerStill => CommandsStill
BY DEF ServerStill, CommandsStill, serverVars, input

LEMMA QuietCommands ==
  ASSUME CommandInv, CommandsStill, UNCHANGED <<toServer, toClient, job>>,
         \A d \in Clients : pc'[d] = "execute" => pc[d] = "execute"
  PROVE  CommandInv'
<1>1. \A l \in Conns : IdsOnce(toClient'[l]) /\ IdsOnce(toServer'[l])
  BY DEF CommandInv, FlightInv
<1>2. ASSUME NEW x \in Places PROVE (At(x))' \subseteq At(x)
  <2>1. CASE \E l \in Conns : x = <<"sent", l>> \/ x = <<"back", l>>
    BY <2>1, Where
  <2>2. CASE \E d \in Clients : x = <<"job", d>>
    <3>1. PICK d \in Clients : x = <<"job", d>>
      BY <2>2
    <3>2. /\ At(x) = IF pc[d] = "execute" THEN {job[d].id} ELSE {}
          /\ (At(x))' = IF pc'[d] = "execute" THEN {job'[d].id} ELSE {}
      BY <3>1 DEF At
    <3>3. QED
      BY <3>2
  <2>3. QED
    BY <2>1, <2>2, Where
<1>3. QED
  BY <1>1, <1>2, CommandsStay

LEMMA LostCommands ==
  ASSUME CommandInv, NEW k \in Conns, Lost(k) \/ RecentNode(k)
  PROVE  CommandInv'
<1>1. CommandsStill
  BY DEF Lost, RecentNode, CommandsStill, input, serverVars
<1>2. UNCHANGED <<toServer, toClient, job, pc>>
  BY DEF Lost, RecentNode, clientVars, netVars
<1>3. QED
  BY <1>1, <1>2, QuietCommands

LEMMA ClientQuietCommands ==
  ASSUME TypeOK, CommandInv, NEW c \in Clients,
         (\E k \in Conns : Unplug(c, k)) \/ Timeout(c) \/ Crash(c)
  PROVE  CommandInv'
<1>1. CommandsStill
  BY DEF Unplug, Timeout, Crash, CommandsStill, input, serverVars
<1>2. UNCHANGED <<toServer, toClient, job>>
  BY DEF Unplug, Timeout, Crash
<1>3. \A d \in Clients : pc'[d] = "execute" => pc[d] = "execute"
  <2>1. CASE Crash(c)
    BY <2>1 DEF Crash, Leave, TypeOK
  <2>2. CASE LeaveLoop(c)
    <3>1. pc'[c] \in {"connect", "exited"} /\ \A d \in Clients : d # c => pc'[d] = pc[d]
      BY <2>2, LeaveLoopIs
    <3>2. QED
      BY <3>1
  <2>3. CASE pc' = pc
    BY <2>3
  <2>4. QED
    BY <2>1, <2>2, <2>3 DEF Unplug, Timeout
<1>4. QED
  BY <1>1, <1>2, <1>3, QuietCommands

LEMMA ConnectCommands ==
  ASSUME TypeStrong, ProtoInv, CommandInv, NEW c \in Clients, Connect(c)
  PROVE  CommandInv'
<1>0. TypeOK
  BY DEF TypeStrong
<1>1. PICK k : k = <<c, iSuccessConnect[c] + 1>>
  OBVIOUS
<1>2. PICK x : x = [cmd |-> "Ready", name |-> gClientName[c]]
  OBVIOUS
<1>3. /\ toServer' = [toServer EXCEPT ![k] = <<x>>] /\ toClient' = toClient /\ job' = job
      /\ pc' = [pc EXCEPT ![c] = "loop"]
  BY <1>1, <1>2 DEF Connect
<1>4. CommandsStill
  BY DEF Connect, CommandsStill, input, serverVars
<1>5. x \in ClientMsg /\ ~JobMsg(x)
  <2>1. gClientName[c] \in Names
    BY <1>0 DEF TypeOK
  <2>2. x \in ClientMsg /\ x.cmd = "Ready"
    BY <1>2, <2>1, ToServerMsgs
  <2>3. QED
    BY <2>2 DEF JobMsg
<1>6. Ids(<<x>>) = {} /\ IdsOnce(<<x>>)
  <2>1. <<>> \in Seq(ClientMsg)
    OBVIOUS
  <2>2. Ids(Append(<<>>, x)) = Ids(<<>>) /\ IdsOnce(Append(<<>>, x))
    BY <1>5, <2>1, IdsAppend, IdsNone
  <2>3. QED
    BY <2>2, AppendFirst, IdsNone
<1>7. \A l \in Conns : toServer'[l] = toServer[l] \/ toServer'[l] = <<x>>
  BY <1>0, <1>3 DEF TypeOK
<1>8. \A l \in Conns : IdsOnce(toClient'[l]) /\ IdsOnce(toServer'[l])
  BY <1>3, <1>6, <1>7 DEF CommandInv, FlightInv
<1>9. \A d \in Clients : pc'[d] = "execute" => pc[d] = "execute"
  BY <1>0, <1>3 DEF TypeOK
<1>10. ASSUME NEW y \in Places PROVE (At(y))' \subseteq At(y)
  <2>1. CASE \E l \in Conns : y = <<"sent", l>>
    BY <1>3, <2>1, Where
  <2>2. CASE \E l \in Conns : y = <<"back", l>>
    <3>1. PICK l \in Conns : y = <<"back", l>>
      BY <2>2
    <3>2. At(y) = Ids(toServer[l]) /\ (At(y))' = Ids(toServer'[l])
      BY <3>1 DEF At
    <3>3. QED
      BY <1>6, <1>7, <3>2
  <2>3. CASE \E d \in Clients : y = <<"job", d>>
    <3>1. PICK d \in Clients : y = <<"job", d>>
      BY <2>3
    <3>2. /\ At(y) = IF pc[d] = "execute" THEN {job[d].id} ELSE {}
          /\ (At(y))' = IF pc'[d] = "execute" THEN {job'[d].id} ELSE {}
      BY <3>1 DEF At
    <3>3. QED
      BY <1>3, <1>9, <3>2
  <2>4. QED
    BY <2>1, <2>2, <2>3, Where
<1>11. QED
  BY <1>4, <1>8, <1>10, CommandsStay

\* The results go on the connection that the command came on.
LEMMA FinishCommands ==
  ASSUME TypeStrong, CommandInv, NEW c \in Clients, Finish(c)
  PROVE  CommandInv'
<1>0. TypeOK /\ pc[c] = "execute"
  BY DEF TypeStrong, Finish
<1>1. PICK k \in Conns : k = job[c].conn
  BY <1>0 DEF TypeStrong, JobConns
<1>2. PICK i : i = job[c].id
  OBVIOUS
<1>3. PICK bad \in BOOLEAN :
        Reply(k, [cmd |-> "Results", name |-> gClientName[c], id |-> i, bad |-> bad])
  BY <1>1, <1>2 DEF Finish
<1>4. PICK x : x = [cmd |-> "Results", name |-> gClientName[c], id |-> i, bad |-> bad]
  OBVIOUS
<1>5. x \in ClientMsg /\ JobMsg(x) /\ x.id = i
  <2>1. gClientName[c] \in Names /\ i \in Nat
    BY <1>0, <1>2 DEF TypeOK
  <2>2. x \in ClientMsg /\ x.cmd = "Results" /\ x.id = i
    BY <1>4, <2>1, ToServerMsgs
  <2>3. QED
    BY <2>2 DEF JobMsg
<1>6. /\ toServer'[k] = Append(toServer[k], x)
      /\ \A l \in Conns : l # k => toServer'[l] = toServer[l]
  BY <1>0, <1>3, <1>4, <1>5, ReplyIs
<1>7. /\ toClient' = toClient
      /\ \A d \in Clients : d # c => pc'[d] = pc[d] /\ job'[d] = job[d]
      /\ pc'[c] = "loop"
  BY <1>0 DEF Finish, TypeOK
<1>8. CommandsStill
  BY DEF Finish, CommandsStill, input, serverVars
<1>9. PICK from, to : from = <<"job", c>> /\ to = <<"back", k>>
  OBVIOUS
<1>10. /\ from \in Places /\ to \in Places
       /\ At(from) = {i} /\ (At(from))' = {}
       /\ At(to) = Ids(toServer[k]) /\ (At(to))' = Ids(toServer'[k])
       /\ from # to
  <2>1. from \in Places /\ to \in Places /\ from # to
    BY <1>9, Where
  <2>2. At(from) = {i} /\ (At(from))' = {}
    BY <1>0, <1>2, <1>7, <1>9 DEF At
  <2>3. At(to) = Ids(toServer[k]) /\ (At(to))' = Ids(toServer'[k])
    BY <1>9 DEF At
  <2>4. QED
    BY <2>1, <2>2, <2>3
<1>11. i \notin Ids(toServer[k])
  BY <1>10 DEF CommandInv, FlightInv
<1>12. toServer[k] \in Seq(ClientMsg) /\ IdsOnce(toServer[k])
  BY <1>0 DEF TypeOK, CommandInv, FlightInv
<1>13. Ids(toServer'[k]) = Ids(toServer[k]) \cup {i} /\ IdsOnce(toServer'[k])
  BY <1>5, <1>6, <1>11, <1>12, IdsAppend
<1>14. \A l \in Conns : IdsOnce(toClient'[l]) /\ IdsOnce(toServer'[l])
  BY <1>6, <1>7, <1>13 DEF CommandInv, FlightInv
<1>15. ASSUME NEW y \in Places, NEW j \in (At(y))'
       PROVE  j \in At(y) \/ (y = to /\ j = i)
  <2>1. CASE \E l \in Conns : y = <<"sent", l>>
    BY <1>7, <1>15, <2>1, Where
  <2>2. CASE \E l \in Conns : y = <<"back", l>>
    <3>1. PICK l \in Conns : y = <<"back", l>>
      BY <2>2
    <3>2. At(y) = Ids(toServer[l]) /\ (At(y))' = Ids(toServer'[l])
      BY <3>1 DEF At
    <3>3. CASE l = k
      BY <1>9, <1>13, <1>15, <3>1, <3>2, <3>3
    <3>4. CASE l # k
      BY <1>6, <1>15, <3>2, <3>4
    <3>5. QED
      BY <3>3, <3>4
  <2>3. CASE \E d \in Clients : y = <<"job", d>>
    <3>1. PICK d \in Clients : y = <<"job", d>>
      BY <2>3
    <3>2. /\ At(y) = IF pc[d] = "execute" THEN {job[d].id} ELSE {}
          /\ (At(y))' = IF pc'[d] = "execute" THEN {job'[d].id} ELSE {}
      BY <3>1 DEF At
    <3>3. d # c
      BY <1>7, <1>15, <3>2
    <3>4. QED
      BY <1>7, <1>15, <3>2, <3>3
  <2>4. QED
    BY <2>1, <2>2, <2>3, Where
<1>16. QED
  BY <1>8, <1>10, <1>14, <1>15, CommandMoves

LEMMA ReadMsgCommands ==
  ASSUME TypeStrong, ProtoInv, CommandInv, NEW c \in Clients, NEW k \in Conns, ReadMsg(c, k)
  PROVE  CommandInv'
<1>0. PICK m : m = Head(toClient[k])
  OBVIOUS
<1>1. /\ ServerStill /\ CanRead(c, k)
      /\ ChangeClientName(c, m) \/ SetEnv(c, k, m) \/ Exit(c, m) \/ Execute(c, k, m)
      /\ toClient' = [toClient EXCEPT ![k] = Tail(@)]
  BY <1>0, ReadMsgCases
<1>2. TypeOK /\ toClient[k] # <<>> /\ pc[c] = "loop"
  BY <1>1 DEF CanRead, TypeStrong
<1>3. /\ m \in ServerMsg /\ toClient'[k] = Tail(toClient[k])
      /\ \A l \in Conns : l # k => toClient'[l] = toClient[l]
  BY <1>0, <1>1, <1>2, ToClientHead
<1>4. CommandsStill
  BY <1>1, StillStill
<1>5. toClient[k] \in Seq(ServerMsg) /\ IdsOnce(toClient[k])
  BY <1>2 DEF TypeOK, CommandInv, FlightInv
<1>6. /\ Ids(toClient'[k]) \subseteq Ids(toClient[k]) /\ IdsOnce(toClient'[k])
      /\ JobMsg(m) => m.id \in Ids(toClient[k]) /\ m.id \notin Ids(toClient'[k])
  BY <1>0, <1>2, <1>3, <1>5, IdsTail
<1>7. ASSUME NEW l \in Conns
      PROVE  /\ Ids(toClient'[l]) \subseteq Ids(toClient[l]) /\ IdsOnce(toClient'[l])
             /\ Ids(toServer'[l]) = Ids(toServer[l]) /\ IdsOnce(toServer'[l])
  <2>1. Ids(toClient'[l]) \subseteq Ids(toClient[l]) /\ IdsOnce(toClient'[l])
    BY <1>3, <1>6 DEF CommandInv, FlightInv
  <2>2. IdsOnce(toServer[l]) /\ toServer[l] \in Seq(ClientMsg)
    BY <1>2 DEF TypeOK, CommandInv, FlightInv
  <2>3. CASE SetEnv(c, k, m)
    <3>1. PICK x : x = [cmd |-> "SetEnv Ready", name |-> gClientName[c]]
      OBVIOUS
    <3>2. x \in ClientMsg /\ Reply(k, x) /\ ~JobMsg(x)
      <4>1. gClientName[c] \in Names
        BY <1>2 DEF TypeOK
      <4>2. x \in ClientMsg /\ x.cmd = "SetEnv Ready"
        BY <3>1, <4>1, ToServerMsgs
      <4>3. QED
        BY <2>3, <3>1, <4>2 DEF SetEnv, JobMsg
    <3>3. toServer'[k] = Append(toServer[k], x) /\ (l # k => toServer'[l] = toServer[l])
      BY <1>2, <3>2, ReplyIs
    <3>4. CASE l = k
      <4>1. Ids(Append(toServer[l], x)) = Ids(toServer[l]) /\ IdsOnce(Append(toServer[l], x))
        BY <2>2, <3>2, IdsAppend
      <4>2. QED
        BY <2>1, <3>3, <3>4, <4>1
    <3>5. CASE l # k
      BY <2>1, <2>2, <3>3, <3>5
    <3>6. QED
      BY <3>4, <3>5
  <2>4. CASE ~SetEnv(c, k, m)
    <3>1. toServer' = toServer
      BY <1>1, <2>4 DEF ChangeClientName, Exit, Execute
    <3>2. QED
      BY <2>1, <2>2, <3>1
  <2>5. QED
    BY <2>3, <2>4
<1>8. \A l \in Conns : IdsOnce(toClient'[l]) /\ IdsOnce(toServer'[l])
  BY <1>7
<1>9. CASE ~Execute(c, k, m)
  <2>1. /\ job' = job
        /\ \A d \in Clients : pc'[d] = "execute" => pc[d] = "execute"
    BY <1>1, <1>2, <1>9 DEF ChangeClientName, SetEnv, Exit, Leave, TypeOK
  <2>2. ASSUME NEW y \in Places PROVE (At(y))' \subseteq At(y)
    <3>1. CASE \E l \in Conns : y = <<"sent", l>> \/ y = <<"back", l>>
      BY <1>7, <3>1, Where
    <3>2. CASE \E d \in Clients : y = <<"job", d>>
      <4>1. PICK d \in Clients : y = <<"job", d>>
        BY <3>2
      <4>2. /\ At(y) = IF pc[d] = "execute" THEN {job[d].id} ELSE {}
            /\ (At(y))' = IF pc'[d] = "execute" THEN {job'[d].id} ELSE {}
        BY <4>1 DEF At
      <4>3. QED
        BY <2>1, <4>2
    <3>3. QED
      BY <3>1, <3>2, Where
  <2>3. QED
    BY <1>4, <1>8, <2>2, CommandsStay
<1>10. CASE Execute(c, k, m)
  <2>1. m.cmd = "Execute" /\ JobMsg(m)
    BY <1>10 DEF Execute, JobMsg
  <2>2. PICK i : i = m.id
    OBVIOUS
  <2>3. /\ \A d \in Clients : d # c => pc'[d] = pc[d] /\ job'[d] = job[d]
        /\ pc'[c] = "execute" /\ job'[c].id = i
    <3>1. PICK j : j = [conn |-> k, id |-> i]
      OBVIOUS
    <3>2. job' = [job EXCEPT ![c] = j] /\ j.id = i /\ pc' = [pc EXCEPT ![c] = "execute"]
      BY <1>10, <2>2, <3>1 DEF Execute
    <3>3. QED
      BY <1>2, <3>2 DEF TypeOK
  <2>4. PICK from, to : from = <<"sent", k>> /\ to = <<"job", c>>
    OBVIOUS
  <2>5. /\ from \in Places /\ to \in Places
        /\ At(from) = Ids(toClient[k]) /\ (At(from))' = Ids(toClient'[k])
    <3>1. from \in Places /\ to \in Places
      BY <2>4, Where
    <3>2. At(from) = Ids(toClient[k]) /\ (At(from))' = Ids(toClient'[k])
      BY <2>4 DEF At
    <3>3. QED
      BY <3>1, <3>2
  <2>6. i \in At(from) /\ i \notin (At(from))'
    BY <1>6, <2>1, <2>2, <2>5
  <2>7. ASSUME NEW y \in Places, NEW j \in (At(y))'
        PROVE  j \in At(y) \/ (y = to /\ j = i)
    <3>1. CASE \E l \in Conns : y = <<"sent", l>> \/ y = <<"back", l>>
      <4>1. (At(y))' \subseteq At(y)
        BY <1>7, <3>1, Where
      <4>2. QED
        BY <2>7, <4>1
    <3>2. CASE \E d \in Clients : y = <<"job", d>>
      <4>1. PICK d \in Clients : y = <<"job", d>>
        BY <3>2
      <4>2. /\ At(y) = IF pc[d] = "execute" THEN {job[d].id} ELSE {}
            /\ (At(y))' = IF pc'[d] = "execute" THEN {job'[d].id} ELSE {}
        BY <4>1 DEF At
      <4>3. QED
        BY <2>3, <2>4, <2>7, <4>1, <4>2
    <3>3. QED
      BY <3>1, <3>2, Where
  <2>8. QED
    BY <1>4, <1>8, <2>5, <2>6, <2>7, CommandMoves
<1>11. QED
  BY <1>9, <1>10

LEMMA NextCommands ==
  ASSUME TypeStrong, ProtoInv, ShakeInv, CommandInv, [Next]_vars, TypeStrong', ProtoInv'
  PROVE  CommandInv'
<1>1. CASE UNCHANGED vars
  <2>1. CommandsStill /\ UNCHANGED <<toServer, toClient, job, pc>>
    BY <1>1 DEF vars, input, serverVars, clientVars, netVars, CommandsStill
  <2>2. QED
    BY <2>1, QuietCommands
<1>2. TypeOK
  BY DEF TypeStrong
<1>3. QED
  BY <1>1, <1>2, NextCases, ReceiveCommandInv, LostCommands, ConnectCommands, FinishCommands,
     ReadMsgCommands, ClientQuietCommands

AllStrong == EnvStrong /\ CommandInv

LEMMA InitAll == Init => AllStrong
BY InitStrong, InitCommands DEF AllStrong

LEMMA NextAll == AllStrong /\ [Next]_vars => AllStrong'
<1> SUFFICES ASSUME AllStrong, [Next]_vars PROVE AllStrong'
  OBVIOUS
<1>1. EnvStrong' /\ EnvStrong
  BY NextStrong DEF AllStrong
<1>2. TypeStrong /\ ProtoInv /\ ShakeInv /\ CommandInv /\ TypeStrong' /\ ProtoInv'
  BY <1>1 DEF EnvStrong, AllStrong
<1>3. CommandInv'
  BY <1>2, NextCommands
<1>4. QED
  BY <1>1, <1>3 DEF AllStrong

(* Results are in the log once, under the stage of their command and       *)
(* between the lines that open and close it, however many clients work at  *)
(* a time and whoever crashes or runs into its timeout: the server is in   *)
(* the stage of every command that is under way (ResultsUnderStage).       *)
THEOREM ResultsUnderTheirStage == Spec => []ResultsUnderStage
<1>1. AllStrong => ResultsUnderStage
  BY DEF AllStrong, CommandInv, LogWell, Orderly, ResultsAt, Under, ResultsUnderStage, ResultLines
<1>2. QED
  BY <1>1, InitAll, NextAll, PTL DEF Spec

-----------------------------------------------------------------------------
(* The staged build *)

LEMMA LoggedIs == Logged = LoggedIn(log) /\ Logged' = LoggedIn(log')
<1>1. Logged = LoggedIn(log)
  BY DEF Logged, ResultLines, LoggedIn, ResultsAt
<1>2. Logged' = LoggedIn(log')
  BY DEF Logged, ResultLines, LoggedIn, ResultsAt
<1>3. QED
  BY <1>1, <1>2

LEMMA InitStaged == Init => Staged!Init
<1> SUFFICES ASSUME Init PROVE Staged!Init
  OBVIOUS
<1>1. build \in Seq(Command)
  BY BuildServerAssumption DEF Init
<1>2. build \in Seq(Staged!Command)
  BY <1>1 DEF Command, CommandTypes, Staged!Command, Staged!CommandTypes
<1>3. ResultsAt(log) = {}
  BY DEF Init, ResultsAt
<1>4. Logged = {}
  BY <1>3, LoggedIs DEF LoggedIn
<1>5. QED
  BY <1>2, <1>4 DEF Init, Staged!Init

\* The commands that are under way at once name one stage.
LEMMA GivenTogether ==
  ASSUME TypeOK, StageInv, FlightInv, NEW k \in Conns, CommandStep(k),
         NEW j \in NewIds, NEW i \in 1 .. (j - 1), i \notin LoggedIn(log')
  PROVE  build[i].stage = build[j].stage /\ build[i].stage # NoStage
<1>1. /\ \A x \in NewIds :
           /\ build[x].stage = gStage'
           /\ Unstaged(Previous(x)) /\ Unstaged(x) => x = gIDCount /\ Left = {}
      /\ gStage' = gStage \/ Left = {}
      /\ gIDCount' \in gIDCount .. (Len(build) + 1)
  BY DEF CommandStep
<1>2. PICK a, b : a = gIDCount /\ b = gIDCount'
  OBVIOUS
<1>3. a \in Nat /\ a >= 1 /\ b \in Nat /\ NewIds = a .. (b - 1)
  BY <1>1, <1>2, NewIdsAre
<1>4. j \in Nat /\ i \in Nat /\ i >= 1 /\ i < j /\ a <= j /\ j <= b - 1
  BY <1>3
<1>5. Left = 1 .. (a - 1) \ LoggedIn(log')
  BY <1>2 DEF Left
<1>6. Left \subseteq UnderWay
  BY <1>1, StepUnderWay
<1>7. ASSUME NEW x \in Left
      PROVE  build[x].stage = gStage' /\ build[a - 1].stage = gStage'
  BY <1>1, <1>2, <1>6, <1>7 DEF StageInv
<1>8. build[i].stage = gStage'
  <2>1. CASE i >= a
    <3>1. i \in NewIds
      BY <1>3, <1>4, <2>1
    <3>2. QED
      BY <1>1, <3>1
  <2>2. CASE i < a
    <3>1. i \in Left
      BY <1>3, <1>4, <1>5, <2>2
    <3>2. QED
      BY <1>7, <3>1
  <2>3. QED
    BY <1>3, <1>4, <2>1, <2>2
<1>9. ASSUME gStage' = NoStage PROVE FALSE
  <2>1. Unstaged(j)
    BY <1>1, <1>9 DEF Unstaged
  <2>2. build[j - 1].stage = gStage'
    <3>1. CASE j - 1 >= a
      <4>1. j - 1 \in NewIds
        BY <1>3, <1>4, <3>1
      <4>2. QED
        BY <1>1, <4>1
    <3>2. CASE j - 1 < a
      <4>1. j = a
        BY <1>3, <1>4, <3>2
      <4>2. i \in Left
        BY <1>3, <1>4, <1>5, <4>1
      <4>3. QED
        BY <1>7, <4>1, <4>2
    <3>3. QED
      BY <1>3, <1>4, <3>1, <3>2
  <2>3. Previous(j) = j - 1
    BY <1>4 DEF Previous
  <2>4. j = a /\ Left = {}
    BY <1>1, <1>2, <1>9, <2>1, <2>2, <2>3 DEF Unstaged
  <2>5. i \in Left
    BY <1>3, <1>4, <1>5, <2>4
  <2>6. QED
    BY <2>4, <2>5
<1>10. QED
  BY <1>1, <1>8, <1>9

LEMMA ReceiveStaged ==
  ASSUME TypeStrong, ProtoInv, ShakeInv, CommandInv, NEW k \in Conns, Receive(k),
         TypeStrong', ProtoInv'
  PROVE  Staged!Serve
<1>1. CommandStep(k)
  BY ReceiveCommands
<1>2. TypeOK /\ FlightInv /\ StageInv
  BY DEF TypeStrong, CommandInv
<1>3. outcome = "running" /\ build' = build
  BY ReceiveCases DEF input
<1>4. PICK i \in UnderWay \cup {0} : LoggedIn(log') = LoggedIn(log) \cup ({i} \ {0})
  BY <1>1 DEF CommandStep
<1>5. UnderWay = Staged!UnderWay
  BY LoggedIs DEF UnderWay, Staged!UnderWay
<1>6. \E x \in Staged!UnderWay \cup {0} : Logged' = Logged \cup ({x} \ {0})
  BY <1>4, <1>5, LoggedIs
<1>7. gIDCount' \in gIDCount .. (Len(build) + 1)
  BY <1>1 DEF CommandStep
<1>8. build \in Seq(Command) /\ gIDCount \in 1 .. (Len(build) + 1) /\ Len(build) \in Nat
  BY <1>2, BuildTypes, BuildServerAssumption DEF TypeOK
<1>9. ASSUME outcome' = outcome
      PROVE  Staged!GiveOut
  <2>1. NewIds = gIDCount .. (gIDCount' - 1)
    BY DEF NewIds
  <2>2. ASSUME NEW j \in NewIds
        PROVE  /\ build[j].type = "Execute"
               /\ \A x \in 1 .. (j - 1) : x \in Logged' \/ Staged!Together(x, j)
    <3>1. build[j].type # "Exit"
      BY <1>1 DEF CommandStep
    <3>2. j \in 1 .. Len(build)
      <4>1. PICK a, b, n : a = gIDCount /\ b = gIDCount' /\ n = Len(build)
        OBVIOUS
      <4>2. a \in 1 .. (n + 1) /\ b \in a .. (n + 1) /\ n \in Nat /\ j \in a .. (b - 1)
        BY <1>7, <1>8, <2>1, <4>1
      <4>3. j \in 1 .. n
        BY <4>2
      <4>4. QED
        BY <4>1, <4>3
    <3>3. build[j] \in Command
      BY <1>8, <3>2
    <3>4. build[j].type = "Execute"
      BY <3>1, <3>3 DEF Command, CommandTypes
    <3>5. ASSUME NEW x \in 1 .. (j - 1), x \notin Logged'
          PROVE  Staged!Together(x, j)
      <4>1. x \notin LoggedIn(log')
        BY <3>5, LoggedIs
      <4>2. build[x].stage = build[j].stage /\ build[x].stage # NoStage
        BY <1>1, <1>2, <4>1, GivenTogether
      <4>3. QED
        BY <4>2 DEF Staged!Together, Staged!NoStage, NoStage
    <3>6. QED
      BY <3>4, <3>5
  <2>3. QED
    BY <1>7, <1>9, <2>1, <2>2 DEF Staged!GiveOut
<1>10. ASSUME Left = {}, gIDCount' = gIDCount,
              outcome' = "error" \/ (outcome' = "done" /\ (gExit' \/ ~More))
       PROVE  Staged!End
  <2>1. (Staged!UnderWay)' = {}
    BY <1>10, LoggedIs DEF Left, Staged!UnderWay
  <2>2. ASSUME gExit' \/ ~More PROVE Staged!Complete
    <3>1. CASE gExit'
      <4>1. build[gIDCount].type = "Exit"
        BY <1>1, <1>2, <1>3, <3>1 DEF CommandStep, StageInv
      <4>2. QED
        BY <4>1 DEF Staged!Complete
    <3>2. CASE ~More
      <4>1. gIDCount = Len(build) + 1
        BY <1>8, <3>2 DEF More
      <4>2. QED
        BY <4>1 DEF Staged!Complete
    <3>3. QED
      BY <2>2, <3>1, <3>2
  <2>3. QED
    BY <1>10, <2>1, <2>2 DEF Staged!End
<1>11. Staged!GiveOut \/ Staged!End
  BY <1>1, <1>9, <1>10 DEF CommandStep
<1>12. QED
  BY <1>3, <1>6, <1>11 DEF Staged!Serve

LEMMA NextStaged ==
  ASSUME AllStrong, [Next]_vars, AllStrong'
  PROVE  [Staged!Next]_(Staged!vars)
<1>1. TypeStrong /\ ProtoInv /\ ShakeInv /\ CommandInv /\ TypeStrong' /\ ProtoInv'
  BY DEF AllStrong, EnvStrong
<1>2. ASSUME build' = build, gIDCount' = gIDCount, log' = log, outcome' = outcome
      PROVE  UNCHANGED Staged!vars
  <2>1. Logged' = Logged
    BY <1>2, LoggedIs
  <2>2. QED
    BY <1>2, <2>1 DEF Staged!vars
<1>3. CASE UNCHANGED vars
  BY <1>2, <1>3 DEF vars, input, serverVars
<1>4. ASSUME NEW k \in Conns, Receive(k) PROVE Staged!Next
  BY <1>1, <1>4, ReceiveStaged DEF Staged!Next
<1>5. ASSUME NEW k \in Conns, Lost(k) PROVE Staged!Next
  <2>1. /\ outcome = "running" /\ outcome' = "lost"
        /\ UNCHANGED <<build, gIDCount>> /\ log' = log
    BY <1>5 DEF Lost, input
  <2>2. Logged' = Logged
    BY <2>1, LoggedIs
  <2>3. Staged!Lose
    BY <2>1, <2>2 DEF Staged!Lose
  <2>4. QED
    BY <2>3 DEF Staged!Next
<1>6. ASSUME NEW k \in Conns, RecentNode(k) PROVE UNCHANGED Staged!vars
  BY <1>2, <1>6 DEF RecentNode, input, serverVars
<1>7. ASSUME NEW c \in Clients,
             \/ Connect(c) \/ Finish(c) \/ Timeout(c) \/ Crash(c)
             \/ \E k \in Conns : ReadMsg(c, k) \/ Unplug(c, k)
      PROVE  UNCHANGED Staged!vars
  <2>1. UNCHANGED <<input, serverVars>>
    BY <1>7 DEF Connect, Finish, Timeout, Crash, ReadMsg, Unplug
  <2>2. QED
    BY <1>2, <2>1 DEF input, serverVars
<1>8. QED
  BY <1>3, <1>4, <1>5, <1>6, <1>7, NextCases

(* The server, its clients and the sockets do what a staged build          *)
(* promises: commands start in the order of the file, none before all of   *)
(* an earlier stage have given their results, two steps without a stage    *)
(* never at once, each gives its results once, and the server ends of its  *)
(* own accord only when nothing is under way (ImplementsStagedBuild).      *)
THEOREM BuildIsStaged == Spec => ImplementsStagedBuild
<1>1. AllStrong /\ [Next]_vars => [Staged!Next]_(Staged!vars)
  BY NextAll, NextStaged
<1>2. QED
  BY <1>1, InitAll, NextAll, InitStaged, PTL DEF Spec, ImplementsStagedBuild, Staged!Spec
=============================================================================
