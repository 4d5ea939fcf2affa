---------------------------- MODULE StagedBuild ----------------------------
(***************************************************************************)
(* What a build of the build server promises, with no clients, sockets or  *)
(* environment in it (src/deprecated/buildtools/buildsystemtools): the     *)
(* commands are given out in the order of the command file, two at once    *)
(* only when they name the same stage, each gives its results once, and    *)
(* the server ends of its own only when nothing is under way.              *)
(***************************************************************************)
EXTENDS Naturals, Sequences

CONSTANT Stages      \* the names that stages have in command files

CommandTypes == {"Execute", "Exit"}
Command == [type : CommandTypes, stage : Stages]

(* A step without a stage: ParseXML leaves it undefined or empty.          *)
NoStage == ""

VARIABLES
    build,       \* @gCommands
    gIDCount,    \* the next command to be given out
    logged,      \* the commands whose results are in the log
    outcome      \* "running", or how the server has ended

vars == <<build, gIDCount, logged, outcome>>

(* The commands that were given out and have not given their results.      *)
UnderWay == 1 .. (gIDCount - 1) \ logged

(* Two commands that may run at once.                                      *)
Together(i, j) ==
    /\ build[i].stage = build[j].stage
    /\ build[i].stage # NoStage

(* Everything has been run: up to the first Exit, or up to the end.        *)
Complete ==
    \/ gIDCount = Len(build) + 1
    \/ build[gIDCount].type = "Exit"

Init ==
    /\ build \in Seq(Command)
    /\ gIDCount = 1
    /\ logged = {}
    /\ outcome = "running"

GiveOut ==
    /\ gIDCount' \in gIDCount .. (Len(build) + 1)
    /\ \A j \in gIDCount .. (gIDCount' - 1) :
         /\ build[j].type = "Execute"
         /\ \A i \in 1 .. (j - 1) : i \in logged' \/ Together(i, j)
    /\ UNCHANGED outcome

(* The server ends of its own: with nothing under way, and with all done   *)
(* when it reports success.                                                *)
End ==
    /\ UNCHANGED gIDCount
    /\ UnderWay' = {}
    /\ \/ outcome' = "done" /\ Complete
       \/ outcome' = "error"

Serve ==
    /\ outcome = "running"
    /\ \E i \in UnderWay \cup {0} : logged' = logged \cup ({i} \ {0})
    /\ GiveOut \/ End
    /\ UNCHANGED build

Lose ==
    /\ outcome = "running"
    /\ outcome' = "lost"
    /\ UNCHANGED <<build, gIDCount, logged>>

Next == Serve \/ Lose

Spec == Init /\ [][Next]_vars
=============================================================================
