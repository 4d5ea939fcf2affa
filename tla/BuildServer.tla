---------------------------- MODULE BuildServer ----------------------------
(***************************************************************************)
(* The build server and its clients                                        *)
(* (src/deprecated/buildtools/buildsystemtools: BuildServer.pm,            *)
(* BuildClient.pm, and the event loop and sockets of Msg.pm).  One server  *)
(* reads a file of commands, each of a stage, and hands them to the        *)
(* clients that connect to it: several at once within a stage, the next    *)
(* stage only when every client waits.  Before its first command a client  *)
(* is sent the environment, one variable at a time.  Server and clients    *)
(* are processes with one thread; a connection is a pair of channels that  *)
(* neither lose nor reorder, and end when one end's process does.          *)
(*                                                                         *)
(* Abstracted: what a command prints (its results are only its number and  *)
(* whether Scanlog finds a real-time error in them), the alphabetical      *)
(* preference among waiting clients, and the versions, taken to be equal.  *)
(***************************************************************************)
EXTENDS Integers, Sequences, FiniteSets, Functions

CONSTANTS
    Clients,       \* the client processes
    CommandLines,  \* -c of the clients: the names they are given
    Stages,        \* the names that stages have in command files
    StageNumber,   \* the number perl makes of each of them
    Builds,        \* the command files
    MaxSetEnv,     \* bound: the variables of @gSetEnv
    ExitAfters,    \* -e of the clients: connections to make, or Never
    MaxConnects,   \* bound: connections of one client
    MaxCrashes,    \* bound: clients that are killed
    NoConn         \* no connection

CommandTypes == {"Execute", "Exit"}
Never == -1
Command == [type : CommandTypes, stage : Stages]
NoStage == ""

ASSUME BuildServerAssumption ==
    /\ IsFiniteSet(Clients)
    /\ StageNumber \in [Stages -> Nat]
    /\ Builds \subseteq Seq(Command)
    /\ MaxSetEnv \in Nat
    /\ MaxConnects \in Nat /\ MaxCrashes \in Nat
    /\ ExitAfters \subseteq Int

(* The k-th connection that client c makes.                                *)
Conns == Clients \X (1 .. MaxConnects)
ASSUME NoConnAssumption == NoConn \notin Conns

(* The names of clients: a given one, or one with the random number that   *)
(* the server adds when it knows the name, for the connection at hand.     *)
Own == <<>>
Renamed(n, k) == <<n[1], k>>
GivenNames == UNION {Range(l) : l \in CommandLines}
Names == GivenNames \X (Conns \cup {Own})
ASSUME NamesAssumption == CommandLines \subseteq [Clients -> GivenNames]

Results == [cmd : {"Results"}, name : Names, id : Nat, bad : BOOLEAN]
ClientMsg == [cmd : {"Ready", "SetEnv Ready"}, name : Names] \cup Results
ServerMsg == [cmd : {"ChangeClientName"}, name : Names]
             \cup [cmd : {"SetEnv"}, var : Nat]
             \cup [cmd : {"Execute"}, id : Nat]
             \cup [cmd : {"Exit"}]
LogLine == [line : {"started", "finished"}, stage : Stages \cup {NoStage}]
           \cup [line : {"results"}, stage : Stages \cup {NoStage}, id : Nat]

VARIABLES
    \* the server
    build,           \* @gCommands
    gSetEnv,         \* how many variables @gSetEnv holds
    iClientName,     \* the name on each client's command line
    iExitAfter,      \* -e on the clients' command lines
    gIDCount,        \* index of the next command (from 1)
    gStage,          \* the stage at work
    gExit,           \* the next command is Exit
    gRealTimeError,  \* some results showed a real-time error
    gClientEnvNum,   \* how many variables each client was sent
    gClientStatus,   \* "Waiting" or "Busy", once the client is ready
    gClientHandles,  \* the connection of each client
    accepted,        \* the connections that $AllAssociations counts
    log,             \* the lines of the log file
    outcome,         \* "running", "done" (exit 0), "error" (die), "lost" (croak)
    \* the clients
    pc,              \* where each client is
    gClientName,     \* the name a client puts into its messages
    iSuccessConnect, \* how many connections it has made
    timer,           \* $starting_scan_break is still set
    env,             \* the variables it has set
    job,             \* the command it executes, and the connection it came on
    \* the sockets
    open,            \* the connections whose client end is open
    toServer,        \* what is under way to the server
    toClient         \* and to the clients

Name(c) == <<iClientName[c], Own>>

serverVars == <<gIDCount, gStage, gExit, gRealTimeError, gClientEnvNum,
                gClientStatus, gClientHandles, log, outcome>>
clientVars == <<pc, gClientName, iSuccessConnect, timer, env, job>>
netVars == <<open, toServer, toClient>>
input == <<build, gSetEnv, iClientName, iExitAfter>>

vars == <<input, serverVars, accepted, clientVars, netVars>>

NoJob == [conn |-> NoConn, id |-> 0]

Init ==
    /\ build \in Builds
    /\ gSetEnv \in 0 .. MaxSetEnv
    /\ iClientName \in CommandLines /\ iExitAfter \in ExitAfters
    /\ gIDCount = 1
    /\ gStage = IF build = <<>> THEN NoStage ELSE build[1].stage
    /\ gExit = FALSE
    /\ gRealTimeError = FALSE
    /\ gClientEnvNum = [n \in Names |-> 0]
    /\ gClientStatus = [n \in Names |-> "none"]
    /\ gClientHandles = [n \in Names |-> NoConn]
    /\ accepted = {}
    /\ log = <<>>
    /\ outcome = "running"
    /\ pc = [c \in Clients |-> "connect"]
    /\ gClientName = [c \in Clients |-> Name(c)]
    /\ iSuccessConnect = [c \in Clients |-> 0]
    /\ timer = [c \in Clients |-> FALSE]
    /\ env = [c \in Clients |-> {}]
    /\ job = [c \in Clients |-> NoJob]
    /\ open = {}
    /\ toServer = [k \in Conns |-> <<>>]
    /\ toClient = [k \in Conns |-> <<>>]

-----------------------------------------------------------------------------
(* The server: AddReady, which every handler ends with.  The operators'    *)
(* parameters are what the handler has changed by then: the channels to    *)
(* the clients, the log, the status of the clients, the error flag.        *)

PrintStageStart(stage) == [line |-> "started", stage |-> stage]
PrintStageEnd(stage) == [line |-> "finished", stage |-> stage]

More == gIDCount <= Len(build)
Unstaged(i) == build[i].stage = NoStage

(* The command before: index gIDCount - 1 of a perl array, whose -1 is the *)
(* last element.                                                           *)
Previous(i) == IF i = 1 THEN Len(build) ELSE i - 1

\* Mutation: what has no stage has no end either.
M_StageEnds ==
    /\ gStage # NoStage
    /\ StageNumber[gStage] # StageNumber[build[gIDCount].stage]

(* The end of a stage as AddReady finds it: != compares numbers.           *)
StageEnds ==
    \/ gStage = NoStage
    \/ StageNumber[gStage] # StageNumber[build[gIDCount].stage]

\* Mutation: two steps without a stage are taken for one stage.
M_MaySend(i, stage, status) == build[i].stage = stage /\ build[i].type # "Exit"

(* Command i may be sent while the clients have the given status and this  *)
(* round has sent those from gIDCount on: ne compares text.                *)
MaySend(i, stage, status) ==
    /\ build[i].stage = stage
    /\ build[i].type # "Exit"
    /\ (Unstaged(Previous(i)) /\ Unstaged(i)) =>
         /\ i = gIDCount
         /\ \A n \in Names : status[n] # "Busy"

\* Mutation: the number of the command is not advanced past the last one.
M_SendCommands(ch, status, waiting) ==
    /\ gIDCount' = gIDCount + Cardinality(waiting)
    /\ gClientStatus' = status
    /\ toClient' = ch

(* The loop that gives the next commands to the waiting clients.           *)
SendCommands(ch, status, waiting) ==
    \E next \in gIDCount .. (Len(build) + 1) :
      /\ \A i \in gIDCount .. (next - 1) : MaySend(i, gStage', status)
      /\ next - gIDCount <= Cardinality(waiting)
      /\ (next <= Len(build) /\ next - gIDCount < Cardinality(waiting)) =>
           ~MaySend(next, gStage', status)
      /\ gIDCount' = next
      /\ \E who \in Injection(gIDCount .. (next - 1), waiting) :
           /\ gClientStatus' = [n \in Names |->
                IF \E i \in DOMAIN who : who[i] = n THEN "Busy" ELSE status[n]]
           /\ toClient' = [k \in Conns |->
                IF \E i \in DOMAIN who : gClientHandles'[who[i]] = k
                THEN Append(ch[k], [cmd |-> "Execute",
                       id |-> CHOOSE i \in DOMAIN who : gClientHandles'[who[i]] = k])
                ELSE ch[k]]

(* exit or die at the end of the build.                                    *)
EndBuild(how, ch, lines, status) ==
    /\ outcome' = how
    /\ log' = Append(lines, PrintStageEnd(gStage))
    /\ toClient' = ch
    /\ gClientStatus' = status
    /\ UNCHANGED <<gIDCount, gStage>>

(* Exit is sent to the connection of every client.                         *)
SendExit(ch) ==
    [k \in Conns |-> IF \E n \in Names : gClientHandles'[n] = k
                     THEN Append(ch[k], [cmd |-> "Exit"]) ELSE ch[k]]

(* Everyone waits and there is nothing left to give out.                   *)
Finished(error, exit) == error \/ exit \/ ~More

\* Mutation: the stage is changed before its end is printed.
M_GoOn(ch, lines, status, waiting, everyone, held) ==
    LET ends == everyone /\ StageEnds
    IN  /\ gStage' = IF More THEN build[gIDCount].stage ELSE gStage
        /\ log' = IF ends
                  THEN lines \o <<PrintStageEnd(gStage), PrintStageStart(gStage')>>
                  ELSE lines
        /\ \/ /\ held
              /\ gClientStatus' = status
              /\ toClient' = ch
              /\ UNCHANGED gIDCount
           \/ ~held /\ SendCommands(ch, status, waiting)
        /\ UNCHANGED outcome

GoOn(ch, lines, status, waiting, everyone, held) ==
    LET ends == everyone /\ StageEnds
    IN  /\ gStage' = IF ends THEN build[gIDCount].stage ELSE gStage
        /\ log' = IF ends
                  THEN lines \o <<PrintStageEnd(gStage), PrintStageStart(gStage')>>
                  ELSE lines
        /\ \/ /\ held
              /\ gClientStatus' = status
              /\ toClient' = ch
              /\ UNCHANGED gIDCount
           \/ ~held /\ SendCommands(ch, status, waiting)
        /\ UNCHANGED outcome

AddReady(n, ch, lines, error) ==
    LET status == [gClientStatus EXCEPT ![n] = "Waiting"]
        waiting == {m \in Names : status[m] = "Waiting"}
        everyone == Cardinality(waiting) = Cardinality(accepted)
        exit == gExit \/ (More /\ build[gIDCount].type = "Exit")
    IN  /\ gExit' = exit
        /\ gRealTimeError' = error
        /\ \/ everyone /\ error /\ EndBuild("error", ch, lines, status)
           \/ everyone /\ ~error /\ exit
                /\ EndBuild("done", SendExit(ch), lines, status)
           \/ everyone /\ ~error /\ ~exit /\ ~More
                /\ EndBuild("done", ch, lines, status)
           \/ ~(everyone /\ Finished(error, exit))
                /\ GoOn(ch, lines, status, waiting, everyone, exit \/ error)

\* Mutation: the last variable is taken for sent before it is.
M_SetEnvReady(n, k, sent, ch, lines) ==
    IF sent + 1 < gSetEnv
    THEN /\ toClient' = [ch EXCEPT ![k] = Append(@, [cmd |-> "SetEnv", var |-> sent])]
         /\ gClientEnvNum' = [gClientEnvNum EXCEPT ![n] = sent + 1]
         /\ log' = lines
         /\ UNCHANGED <<gIDCount, gStage, gExit, gRealTimeError, gClientStatus, outcome>>
    ELSE /\ gClientEnvNum' = [gClientEnvNum EXCEPT ![n] = sent]
         /\ AddReady(n, ch, lines, gRealTimeError)

(* The client n, whose message came on connection k, gets its next         *)
(* variable, or is ready once it has them all.  sent: how many it had.     *)
SetEnvReady(n, k, sent, ch, lines) ==
    IF sent < gSetEnv
    THEN /\ toClient' = [ch EXCEPT ![k] = Append(@, [cmd |-> "SetEnv", var |-> sent])]
         /\ gClientEnvNum' = [gClientEnvNum EXCEPT ![n] = sent + 1]
         /\ log' = lines
         /\ UNCHANGED <<gIDCount, gStage, gExit, gRealTimeError, gClientStatus, outcome>>
    ELSE /\ gClientEnvNum' = [gClientEnvNum EXCEPT ![n] = sent]
         /\ AddReady(n, ch, lines, gRealTimeError)

(* A client introduces itself; it is given another name when the server    *)
(* has met its name before.                                                *)
Ready(k, m) ==
    LET known == gClientHandles[m.name] # NoConn
        n == IF known THEN Renamed(m.name, k) ELSE m.name
        ch == IF known
              THEN [toClient EXCEPT ![k] =
                      Append(@, [cmd |-> "ChangeClientName", name |-> n])]
              ELSE toClient
        lines == IF log = <<>> THEN <<PrintStageStart(gStage)>> ELSE log
    IN  /\ m.cmd = "Ready"
        /\ gClientHandles' = [gClientHandles EXCEPT ![n] = k]
        /\ SetEnvReady(n, k, 0, ch, lines)

EnvReady(k, m) ==
    /\ m.cmd = "SetEnv Ready"
    /\ UNCHANGED gClientHandles
    /\ SetEnvReady(m.name, k, gClientEnvNum[m.name], toClient, log)

ResultsIn(k, m) ==
    /\ m.cmd = "Results"
    /\ UNCHANGED <<gClientHandles, gClientEnvNum>>
    /\ AddReady(m.name, toClient,
                Append(log, [line |-> "results", stage |-> gStage, id |-> m.id]),
                gRealTimeError \/ m.bad)

(* A message of connection k is read.                                      *)
Receive(k) ==
    /\ outcome = "running" /\ k \in accepted
    /\ toServer[k] # <<>>
    /\ LET m == Head(toServer[k])
       IN  Ready(k, m) \/ EnvReady(k, m) \/ ResultsIn(k, m)
    /\ toServer' = [toServer EXCEPT ![k] = Tail(@)]
    /\ UNCHANGED <<input, accepted, clientVars, open>>

(* The end of connection k is read: the server gives up.  What the client  *)
(* sent before is read first, unless the client left messages unread: then *)
(* the system may reset the connection.  A write to such a connection is   *)
(* taken to succeed.                                                       *)
Lost(k) ==
    /\ outcome = "running" /\ k \in accepted /\ k \notin open
    /\ toServer[k] = <<>> \/ toClient[k] # <<>>
    /\ outcome' = "lost"
    /\ UNCHANGED <<input, gIDCount, gStage, gExit, gRealTimeError, gClientEnvNum,
                   gClientStatus, gClientHandles, accepted, log, clientVars, netVars>>

(* A connection that a client has made is accepted.                        *)
RecentNode(k) ==
    /\ outcome = "running" /\ k \notin accepted
    /\ k[2] <= iSuccessConnect[k[1]]
    /\ accepted' = accepted \cup {k}
    /\ UNCHANGED <<input, serverVars, clientVars, netVars>>

Server == \E k \in Conns : Receive(k) \/ Lost(k) \/ RecentNode(k)

-----------------------------------------------------------------------------
(* The clients.                                                            *)

Mine(c) == {k \in open : k[1] = c}

(* The client's process ends, and its sockets with it.                     *)
Leave(c, how) ==
    /\ pc' = [pc EXCEPT ![c] = how]
    /\ open' = open \ Mine(c)

Connect(c) ==
    LET k == <<c, iSuccessConnect[c] + 1>>
    IN  /\ pc[c] = "connect" /\ outcome = "running"
        /\ iSuccessConnect[c] < MaxConnects
        /\ iSuccessConnect' = [iSuccessConnect EXCEPT ![c] = @ + 1]
        /\ open' = open \cup {k}
        /\ toServer' = [toServer EXCEPT ![k] =
                          <<[cmd |-> "Ready", name |-> gClientName[c]]>>]
        /\ timer' = [timer EXCEPT ![c] = TRUE]
        /\ pc' = [pc EXCEPT ![c] = "loop"]
        /\ UNCHANGED <<input, serverVars, accepted, gClientName, env, job, toClient>>

\* Mutation: the client stays in its loop.
M_LeaveLoop(c) ==
    /\ gClientName' = [gClientName EXCEPT ![c] = Name(c)]
    /\ open' = open \ {k \in Mine(c) : outcome # "running"}
    /\ UNCHANGED pc

(* The event loop is left: the client tries its servers again, unless it   *)
(* has been connected often enough.                                        *)
LeaveLoop(c) ==
    /\ gClientName' = [gClientName EXCEPT ![c] = Name(c)]
    /\ IF iExitAfter # Never /\ iSuccessConnect[c] >= iExitAfter
       THEN Leave(c, "exited")
       ELSE /\ pc' = [pc EXCEPT ![c] = "connect"]
            /\ open' = open \ {k \in Mine(c) : outcome # "running"}

(* A message of the server is there for client c to read on k.             *)
CanRead(c, k) == pc[c] = "loop" /\ k \in Mine(c) /\ toClient[k] # <<>>

Reply(k, m) == toServer' = [toServer EXCEPT ![k] = Append(@, m)]

ChangeClientName(c, m) ==
    /\ m.cmd = "ChangeClientName"
    /\ gClientName' = [gClientName EXCEPT ![c] = m.name]
    /\ UNCHANGED <<pc, env, job, open, toServer>>

SetEnv(c, k, m) ==
    /\ m.cmd = "SetEnv"
    /\ env' = [env EXCEPT ![c] = @ \cup {m.var}]
    /\ Reply(k, [cmd |-> "SetEnv Ready", name |-> gClientName[c]])
    /\ UNCHANGED <<pc, gClientName, job, open>>

Exit(c, m) ==
    /\ m.cmd = "Exit"
    /\ Leave(c, "exited")
    /\ UNCHANGED <<gClientName, env, job, toServer>>

Execute(c, k, m) ==
    /\ m.cmd = "Execute"
    /\ pc' = [pc EXCEPT ![c] = "execute"]
    /\ job' = [job EXCEPT ![c] = [conn |-> k, id |-> m.id]]
    /\ UNCHANGED <<gClientName, env, open, toServer>>

ReadMsg(c, k) ==
    /\ CanRead(c, k)
    /\ LET m == Head(toClient[k])
       IN  ChangeClientName(c, m) \/ SetEnv(c, k, m) \/ Exit(c, m) \/ Execute(c, k, m)
    /\ toClient' = [toClient EXCEPT ![k] = Tail(@)]
    /\ timer' = [timer EXCEPT ![c] = FALSE]
    /\ UNCHANGED <<input, serverVars, accepted, iSuccessConnect>>

(* The command has ended: its results are sent under the client's name of  *)
(* this moment.                                                            *)
Finish(c) ==
    /\ pc[c] = "execute"
    /\ \E bad \in BOOLEAN :
         Reply(job[c].conn, [cmd |-> "Results", name |-> gClientName[c],
                             id |-> job[c].id, bad |-> bad])
    /\ pc' = [pc EXCEPT ![c] = "loop"]
    /\ job' = [job EXCEPT ![c] = NoJob]
    /\ UNCHANGED <<input, serverVars, accepted, gClientName, iSuccessConnect, timer,
                   env, open, toClient>>

(* The server is gone: what it has sent is read first, unless the system   *)
(* resets a connection with unread messages.  The loop ends with the last  *)
(* socket.                                                                 *)
Unplug(c, k) ==
    /\ pc[c] = "loop" /\ k \in Mine(c) /\ outcome # "running"
    /\ toClient[k] = <<>> \/ toServer[k] # <<>>
    /\ timer' = [timer EXCEPT ![c] = FALSE]
    /\ IF Mine(c) = {k}
       THEN LeaveLoop(c)
       ELSE open' = open \ {k} /\ UNCHANGED <<pc, gClientName>>
    /\ UNCHANGED <<input, serverVars, accepted, iSuccessConnect, env, job,
                   toServer, toClient>>

(* Nothing came in the 300 seconds after the connection was made.  The     *)
(* server's handlers wait for nothing, so this is a client that is ready   *)
(* and is given nothing to do, not one whose message is still unread.      *)
Timeout(c) ==
    /\ pc[c] = "loop" /\ timer[c] /\ outcome = "running"
    /\ \A k \in Mine(c) :
         k \in accepted /\ toServer[k] = <<>> /\ toClient[k] = <<>>
    /\ timer' = [timer EXCEPT ![c] = FALSE]
    /\ LeaveLoop(c)
    /\ UNCHANGED <<input, serverVars, accepted, iSuccessConnect, env, job,
                   toServer, toClient>>

(* The client's machine or process dies.                                   *)
Crash(c) ==
    /\ pc[c] \in {"loop", "execute"} /\ outcome = "running"
    /\ Cardinality({d \in Clients : pc[d] = "crashed"}) < MaxCrashes
    /\ Leave(c, "crashed")
    /\ UNCHANGED <<input, serverVars, accepted, gClientName, iSuccessConnect, timer,
                   env, job, toServer, toClient>>

Client(c) ==
    \/ Connect(c) \/ Finish(c)
    \/ \E k \in Conns : ReadMsg(c, k) \/ Unplug(c, k)

Next ==
    \/ Server
    \/ \E c \in Clients : Client(c) \/ Timeout(c) \/ Crash(c)

Spec == Init /\ [][Next]_vars

(* The server's event loop goes on while a socket is readable, a client's  *)
(* too, and commands end.  Nothing is fair about crashes and timeouts.     *)
FairSpec ==
    /\ Spec
    /\ WF_vars(Server)
    /\ \A c \in Clients : WF_vars(Client(c))

-----------------------------------------------------------------------------
(* Properties.                                                             *)

(* Every variable holds a value of its type: the globals of the server and *)
(* of the clients, and the messages of the protocol.                       *)
TypeOK ==
    /\ build \in Builds /\ gSetEnv \in 0 .. MaxSetEnv
    /\ iClientName \in CommandLines /\ iExitAfter \in ExitAfters
    /\ gIDCount \in 1 .. (Len(build) + 1)
    /\ gStage \in Stages \cup {NoStage}
    /\ gExit \in BOOLEAN /\ gRealTimeError \in BOOLEAN
    /\ gClientEnvNum \in [Names -> 0 .. gSetEnv]
    /\ gClientStatus \in [Names -> {"none", "Waiting", "Busy"}]
    /\ gClientHandles \in [Names -> Conns \cup {NoConn}]
    /\ accepted \subseteq Conns /\ open \subseteq Conns
    /\ log \in Seq(LogLine)
    /\ outcome \in {"running", "done", "error", "lost"}
    /\ pc \in [Clients -> {"connect", "loop", "execute", "exited", "crashed"}]
    /\ gClientName \in [Clients -> Names]
    /\ iSuccessConnect \in [Clients -> 0 .. MaxConnects]
    /\ timer \in [Clients -> BOOLEAN]
    /\ env \in [Clients -> SUBSET (0 .. (gSetEnv - 1))]
    /\ job \in [Clients -> [conn : Conns \cup {NoConn}, id : Nat]]
    /\ toServer \in [Conns -> Seq(ClientMsg)]
    /\ toClient \in [Conns -> Seq(ServerMsg)]

ResultLines == {p \in DOMAIN log : log[p].line = "results"}
Logged == {log[p].id : p \in ResultLines}

(* The server, its clients and the sockets do what a staged build          *)
(* promises, whatever the clients' number and timing: commands start in    *)
(* the order of the file, none before all of an earlier stage have given   *)
(* their results, two steps without a stage never at once, and the server  *)
(* ends of its own accord only when nothing is under way (SendCommands and *)
(* the cases of AddReady).                                                 *)
Staged == INSTANCE StagedBuild WITH logged <- Logged
ImplementsStagedBuild == Staged!Spec

(* The log can be read by stages: the results of a command are there at    *)
(* most once, and between the lines that open and close its own stage,     *)
(* although rcvd_msg_from_client prints the stage the server is in and not *)
(* the one that the message names.                                         *)
ResultsUnderStage ==
    \A p \in ResultLines :
      /\ \A q \in ResultLines : log[p].id = log[q].id => p = q
      /\ log[p].stage = build[log[p].id].stage
      /\ \E q \in 1 .. (p - 1) :
           /\ log[q] = PrintStageStart(log[p].stage)
           /\ \A r \in (q + 1) .. (p - 1) : log[r].line = "results"

(* No client starts a command before it has set every variable of the      *)
(* environment: SetEnv and Execute come on one connection in order, and    *)
(* AddReady is reached by a client that has confirmed the last variable.   *)
EnvironmentFirst ==
    \A c \in Clients : pc[c] = "execute" => env[c] = 0 .. (gSetEnv - 1)

(* Two stages that follow one another in the file and differ as text also  *)
(* differ as numbers.                                                      *)
StagesDiffer ==
    \A i \in 1 .. (Len(build) - 1) :
      build[i].stage # build[i + 1].stage =>
        StageNumber[build[i].stage] # StageNumber[build[i + 1].stage]

(* A build with a client ends, when its stages are told apart by their     *)
(* numbers: AddReady never leaves everyone waiting for everyone.  A client *)
(* that ran into its timeout is excepted (see NamesInSync), and so is the  *)
(* build whose clients have all been killed before they were connected.    *)
BuildEnds ==
    (Clients # {} /\ StagesDiffer) =>
      <>(outcome # "running" \/ \E c \in Clients : iSuccessConnect[c] > 1)

(* Once the server is gone every client finds out: it ends, or goes back   *)
(* to trying to connect (Unplug, LeaveLoop).                               *)
ClientsComeBack ==
    \A c \in Clients :
      outcome # "running" ~> pc[c] \in {"connect", "exited", "crashed"}

(* What the comment on ChangeClientName says, "so the two are in sync": a  *)
(* name that the server holds for busy has a command, or its results,      *)
(* under way under this name.                                              *)
InFlight(n) ==
    LET k == gClientHandles[n]
    IN  \/ \E p \in DOMAIN toClient[k] : toClient[k][p].cmd = "Execute"
        \/ \E c \in Clients : pc[c] = "execute" /\ gClientName[c] = n
        \/ \E l \in Conns : \E p \in DOMAIN toServer[l] :
             toServer[l][p].cmd = "Results" /\ toServer[l][p].name = n
NamesInSync ==
    (outcome = "running" /\ \A c \in Clients : pc[c] # "crashed") =>
      \A n \in Names : gClientStatus[n] = "Busy" => InFlight(n)
=============================================================================
