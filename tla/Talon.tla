------------------------------- MODULE Talon -------------------------------
(***************************************************************************)
(* talon is the shell that the makefiles of raptor give to make            *)
(* (src/sbsv2/raptor/util/talon).  With make -j several talons run at      *)
(* once, each with one recipe: it forks the real shell, reads the shell's  *)
(* stdout and stderr from two pipes, tries the recipe again when it fails, *)
(* and writes what the attempt has said, between tags, to the log that all *)
(* of them share.  A named semaphore, which raptor makes before the build  *)
(* (talonctl start), keeps the output of two recipes apart.                *)
(*                                                                         *)
(* Data are counted in reads: what read() takes at once (1024 bytes) is    *)
(* one piece.  What a recipe's shell does is a script, a sequence of       *)
(*     "out", "err"  write one piece to that stream                        *)
(*     "close"       send what comes next on stdout to a file              *)
(*     "bg"          leave a process behind that keeps both pipes open     *)
(* that ends with an exit code, or never (Hang).  A shell that a signal  *)
(* of somebody else's ends counts as one with a non-zero code.             *)
(***************************************************************************)
EXTENDS Naturals, Integers, Sequences, FiniteSets, SequencesExt

CONSTANTS
    Talons,       \* the talons that make starts, one for each recipe
    Scripts,      \* what the shell of a talon's recipe may do
    Options,      \* what the makefile may say of each talon's recipe
    MaxRetries,   \* TALON_RETRIES
    BlockSize,    \* ALLOCSIZE in pieces
    PipeSize,     \* what a pipe holds, in pieces
    NoSema        \* the semaphore could not be created

Streams == {"out", "err"}
Hang == -1
Ends == {0, 1, Hang}
ShellOps == Streams \cup {"close", "bg"}

(* What make gets of a talon that has not ended, or that a signal ended.   *)
NotYet == -1
Signal == 139

ASSUME TalonAssumption ==
    /\ \A t \in Talons : Scripts[t] # {}
    /\ \A t \in Talons : \A s \in Scripts[t] :
         s \in [todo : Seq(ShellOps), end : Ends]
    /\ \A o \in Options : \A t \in Talons :
         o[t] \in [tagging : BOOLEAN, descramble : BOOLEAN, force : BOOLEAN]
    /\ MaxRetries \in Nat
    /\ BlockSize \in Nat /\ BlockSize >= 2
    /\ PipeSize \in Nat \ {0}
    /\ NoSema \notin Nat

VARIABLES
    opts,       \* what |..;| and the environment tell a talon
    pc,         \* where a talon is
    attempt,    \* TALON_ATTEMPT
    retries,    \* the attempts that are left
    script,     \* the script of this attempt's shell
    shell,      \* that shell: what it still has to do, and whether it lives
    sigchld,    \* SIGCHLD has been sent and not been delivered
    open,       \* the streams of the shell that go to its talon
    lingers,    \* the streams that a process it left behind keeps open
    pipe,       \* the pieces in a talon's pipes
    output,     \* proc.output: a sequence of blocks of pieces
    returncode, \* proc.returncode
    returned,   \* what a talon has returned to make
    sema,       \* the count of the semaphore, or NoSema
    log,        \* the pieces that have reached make's stdout
    lapsed      \* a talon has gone on without the semaphore it waited for

talonVars == <<attempt, retries, script, output, returncode, returned>>
shellVars == <<shell, sigchld, open, lingers, pipe>>
logVars == <<sema, log, lapsed>>
vars == <<opts, pc, talonVars, shellVars, logVars>>

Init ==
    /\ opts \in Options
    /\ pc = [t \in Talons |-> "spawn"]
    /\ attempt = [t \in Talons |-> 0]
    /\ retries = [t \in Talons |-> MaxRetries]
    /\ script = [t \in Talons |-> [todo |-> <<>>, end |-> 0]]
    /\ shell = [t \in Talons |-> [todo |-> <<>>, state |-> "none"]]
    /\ sigchld = [t \in Talons |-> FALSE]
    /\ open = [t \in Talons |-> {}]
    /\ lingers = [t \in Talons |-> {}]
    /\ pipe = [t \in Talons |-> [s \in Streams |-> 0]]
    /\ output = [t \in Talons |-> <<>>]
    /\ returncode = [t \in Talons |-> 1]
    /\ returned = [t \in Talons |-> NotYet]
    /\ sema \in {1, NoSema}
    /\ log = <<>>
    /\ lapsed = FALSE

(***************************************************************************)
(* The buffer (buffer.c).  A new one has one empty block.  Room for a read *)
(* is made in the last block when more than that is free, else in a new    *)
(* one; the tags are short and always fit.                                 *)
(***************************************************************************)
Piece(t, k) == [talon |-> t, attempt |-> attempt[t], kind |-> k]

Fill(block) == Len(SelectSeq(block, LAMBDA p : p.kind \in Streams))

AddRead(b, p) ==
    IF BlockSize - Fill(Last(b)) > 1
    THEN Front(b) \o << Append(Last(b), p) >>
    ELSE b \o << <<p>> >>

AddText(b, p) == Front(b) \o << Append(Last(b), p) >>

PrependText(b, p) == << <<p>> >> \o b

-----------------------------------------------------------------------------
(* The shell of a talon's recipe.                                          *)

ShellRuns(t) == shell[t].state = "running"

NextOp(t, op) ==
    /\ ShellRuns(t)
    /\ shell[t].todo # <<>>
    /\ Head(shell[t].todo) = op
    /\ shell' = [shell EXCEPT ![t].todo = Tail(@)]

(* A shell that writes to a full pipe sleeps.                              *)
ShellWrites(t) ==
    \E s \in Streams :
      /\ NextOp(t, s)
      /\ s \in open[t] => pipe[t][s] < PipeSize
      /\ pipe' = IF s \in open[t] THEN [pipe EXCEPT ![t][s] = @ + 1] ELSE pipe
      /\ UNCHANGED <<opts, pc, talonVars, sigchld, open, lingers, logVars>>

ShellCloses(t) ==
    /\ NextOp(t, "close")
    /\ open' = [open EXCEPT ![t] = @ \ {"out"}]
    /\ UNCHANGED <<opts, pc, talonVars, sigchld, lingers, pipe, logVars>>

ShellLeaves(t) ==
    /\ NextOp(t, "bg")
    /\ lingers' = [lingers EXCEPT ![t] = open[t]]
    /\ UNCHANGED <<opts, pc, talonVars, sigchld, open, pipe, logVars>>

(* A shell closes its streams before its parent gets SIGCHLD.              *)
ShellExits(t) ==
    /\ ShellRuns(t)
    /\ shell[t].todo = <<>>
    /\ script[t].end # Hang
    /\ shell' = [shell EXCEPT ![t].state = "exited"]
    /\ sigchld' = [sigchld EXCEPT ![t] = TRUE]
    /\ UNCHANGED <<opts, pc, talonVars, open, lingers, pipe, logVars>>

BackgroundEnds(t) ==
    /\ lingers[t] # {}
    /\ lingers' = [lingers EXCEPT ![t] = {}]
    /\ UNCHANGED <<opts, pc, talonVars, shell, sigchld, open, pipe, logVars>>

Shell(t) ==
    ShellWrites(t) \/ ShellCloses(t) \/ ShellLeaves(t) \/ ShellExits(t)

-----------------------------------------------------------------------------
(* process_run: fork, poll both pipes, kill on a timeout, wait.            *)

Go(t, l) == pc' = [pc EXCEPT ![t] = l]

NewProc(t) ==
    /\ attempt' = [attempt EXCEPT ![t] = @ + 1]
    /\ output' = [output EXCEPT ![t] = << <<>> >>]
    /\ returncode' = [returncode EXCEPT ![t] = 1]

Fork(t) ==
    /\ pc[t] = "spawn"
    /\ NewProc(t)
    /\ \E s \in Scripts[t] :
         /\ script' = [script EXCEPT ![t] = s]
         /\ shell' = [shell EXCEPT ![t] = [todo |-> s.todo,
                                           state |-> "running"]]
    /\ sigchld' = [sigchld EXCEPT ![t] = FALSE]
    /\ open' = [open EXCEPT ![t] = Streams]
    /\ lingers' = [lingers EXCEPT ![t] = {}]
    /\ pipe' = [pipe EXCEPT ![t] = [s \in Streams |-> 0]]
    /\ Go(t, "poll")
    /\ UNCHANGED <<opts, retries, returned, logVars>>

ForkFails(t) ==
    /\ pc[t] = "spawn"
    /\ NewProc(t)
    /\ Go(t, "tag")
    /\ UNCHANGED <<opts, retries, script, returned, shellVars, logVars>>

Readable(t) == {s \in Streams : pipe[t][s] > 0}
HungUp(t) ==
    (Streams \ lingers[t]) \ (IF ShellRuns(t) THEN open[t] ELSE {})
Quiet(t) == Readable(t) \cup HungUp(t) = {}

(* stdout is read before stderr, each at most once.                        *)
ReadAll(b, t) ==
    LET one(bb, s) == IF s \in Readable(t) THEN AddRead(bb, Piece(t, s))
                      ELSE bb
    IN  one(one(b, "out"), "err")

(* poll reports an event.  The loop goes on until one of the streams has   *)
(* been hung up.                                                           *)
PollReads(t) ==
    /\ pc[t] = "poll"
    /\ ~ Quiet(t)
    /\ output' = [output EXCEPT ![t] = ReadAll(@, t)]
    /\ pipe' = [pipe EXCEPT ![t] = [s \in Streams |->
                  IF s \in Readable(t) THEN @[s] - 1 ELSE @[s]]]
    /\ Go(t, IF HungUp(t) # {} THEN "wait" ELSE "poll")
    /\ UNCHANGED <<opts, attempt, retries, script, returncode, returned,
                   shell, sigchld, open, lingers, logVars>>

(* Nobody reads this attempt's pipes, or waits for its processes, again.   *)
ForgetShell(t) ==
    /\ shell' = [shell EXCEPT ![t] = [todo |-> <<>>, state |-> "none"]]
    /\ sigchld' = [sigchld EXCEPT ![t] = FALSE]
    /\ open' = [open EXCEPT ![t] = {}]
    /\ lingers' = [lingers EXCEPT ![t] = {}]
    /\ pipe' = [pipe EXCEPT ![t] = [s \in Streams |-> 0]]

(* The handler of SIGCHLD runs while talon is not asleep in poll.          *)
ChildSig(t) ==
    /\ pc[t] = "poll"
    /\ sigchld[t]
    /\ sigchld' = [sigchld EXCEPT ![t] = FALSE]
    /\ UNCHANGED <<opts, pc, talonVars, shell, open, lingers, pipe, logVars>>

(* It runs inside poll, which returns EINTR: process_run returns NULL and  *)
(* main gives up.                                                          *)
PollInterrupted(t) ==
    /\ pc[t] = "poll"
    /\ Quiet(t)
    /\ sigchld[t]
    /\ ForgetShell(t)
    /\ returned' = [returned EXCEPT ![t] = 1]
    /\ output' = [output EXCEPT ![t] = <<>>]
    /\ Go(t, "failed")
    /\ UNCHANGED <<opts, attempt, retries, script, returncode, logVars>>

(* Nothing has happened for TALON_TIMEOUT milliseconds.                    *)
PollTimesOut(t) ==
    /\ pc[t] = "poll"
    /\ Quiet(t)
    /\ Go(t, "kill")
    /\ UNCHANGED <<opts, talonVars, shellVars, logVars>>

\* Mutation: the shell is not killed before its end is awaited.
KillNobody(t) ==
    /\ pc[t] = "kill"
    /\ Go(t, "wait")
    /\ UNCHANGED <<opts, talonVars, shellVars, logVars>>

Kill(t) ==
    /\ pc[t] = "kill"
    /\ shell' = IF ShellRuns(t) THEN [shell EXCEPT ![t].state = "killed"]
                ELSE shell
    /\ Go(t, "wait")
    /\ UNCHANGED <<opts, attempt, retries, script, output, returncode,
                   returned, sigchld, open, lingers, pipe, logVars>>

(* waitpid has no timeout.  What the shell died of is told in the tags     *)
(* only, and left out.                                                     *)
WaitPid(t) ==
    /\ pc[t] = "wait"
    /\ shell[t].state \in {"exited", "killed"}
    /\ returncode' = [returncode EXCEPT ![t] =
                        IF shell[t].state = "exited" THEN script[t].end ELSE 128]
    /\ ForgetShell(t)
    /\ Go(t, "tag")
    /\ UNCHANGED <<opts, attempt, retries, script, output, returned, logVars>>

-----------------------------------------------------------------------------
(* main: tags around the output, the output to the log, the next attempt.  *)

\* Mutation: forced success is forgotten.
StatusUnforced(t) ==
    IF returncode[t] = 0 THEN "ok"
    ELSE IF retries[t] <= 0 THEN "failed" ELSE "retry"

Status(t) ==
    IF returncode[t] = 0 THEN "ok"
    ELSE IF opts[t].force \/ retries[t] <= 0 THEN "failed" ELSE "retry"

Tag(t) ==
    /\ pc[t] = "tag"
    /\ output' = IF opts[t].tagging
                 THEN [output EXCEPT ![t] =
                         AddText(PrependText(@, Piece(t, "recipe")),
                                 Piece(t, Status(t)))]
                 ELSE output
    /\ Go(t, IF opts[t].descramble THEN "sema" ELSE "write")
    /\ UNCHANGED <<opts, attempt, retries, script, returncode, returned,
                   shellVars, logVars>>

\* Mutation: the semaphore is looked at and not taken.
SemaPeek(t) ==
    /\ pc[t] = "sema"
    /\ lapsed' = (lapsed \/ sema \notin Nat \ {0})
    /\ Go(t, "write")
    /\ UNCHANGED <<opts, talonVars, shellVars, sema, log>>

(* Its result is not looked at: talon goes on when the semaphore cannot be *)
(* opened and when it does not become free in time.                        *)
SemaWait(t) ==
    /\ pc[t] = "sema"
    /\ IF sema \in Nat \ {0}
       THEN sema' = sema - 1 /\ UNCHANGED lapsed
       ELSE lapsed' = TRUE /\ UNCHANGED sema
    /\ Go(t, "write")
    /\ UNCHANGED <<opts, talonVars, shellVars, log>>

Write(t) ==
    /\ pc[t] = "write"
    /\ output[t] # <<>>
    /\ log' = log \o Head(output[t])
    /\ output' = [output EXCEPT ![t] = Tail(@)]
    /\ UNCHANGED <<opts, pc, attempt, retries, script, returncode,
                   returned, shellVars, sema, lapsed>>

\* Mutation: the retries are counted after the test.
TriesOnceMore(t) == retries[t] >= 0
TriesAgain(t) == retries[t] - 1 >= 0

\* Mutation: only the first attempt's code is kept for make.
ReturnFirst(t) ==
    /\ returned' = [returned EXCEPT ![t] = IF opts[t].force THEN 0
                      ELSE IF attempt[t] > 1 THEN 1 ELSE returncode[t]]
    /\ Go(t, "done")

Return(t) ==
    /\ returned' = [returned EXCEPT ![t] =
                      IF opts[t].force THEN 0 ELSE returncode[t]]
    /\ Go(t, "done")

(* sema_release, and the end of the loop's body.  To post SEM_FAILED, a    *)
(* null pointer, is the end of the process.                                *)
Release(t) ==
    /\ pc[t] = "write"
    /\ output[t] = <<>>
    /\ IF opts[t].descramble /\ sema = NoSema
       THEN /\ returned' = [returned EXCEPT ![t] = Signal]
            /\ Go(t, "crashed")
            /\ UNCHANGED <<retries, sema>>
       ELSE /\ sema' = IF opts[t].descramble THEN sema + 1 ELSE sema
            /\ IF returncode[t] = 0 \/ opts[t].force
               THEN Return(t) /\ UNCHANGED retries
               ELSE /\ retries' = [retries EXCEPT ![t] = @ - 1]
                    /\ IF TriesAgain(t)
                       THEN Go(t, "spawn") /\ UNCHANGED returned
                       ELSE Return(t)
    /\ UNCHANGED <<opts, attempt, script, output, returncode,
                   shellVars, log, lapsed>>

Talon(t) ==
    \/ Fork(t) \/ ForkFails(t)
    \/ PollReads(t) \/ PollInterrupted(t) \/ PollTimesOut(t)
    \/ Kill(t) \/ WaitPid(t)
    \/ Tag(t) \/ SemaWait(t) \/ Write(t) \/ Release(t)

Ended(t) == pc[t] \in {"done", "failed", "crashed"}

(* make has seen every talon end.                                          *)
Done == (\A t \in Talons : Ended(t)) /\ UNCHANGED vars

Next ==
    \/ \E t \in Talons : Talon(t)
    \/ \E t \in Talons : Shell(t)
    \/ \E t \in Talons : BackgroundEnds(t)
    \/ \E t \in Talons : ChildSig(t)
    \/ Done

(* poll, waitpid and sem_timedwait return when they can, and the           *)
(* shells run; nobody makes a process end that was left behind.            *)
Fairness == \A t \in Talons : WF_vars(Talon(t)) /\ WF_vars(Shell(t))

Spec == Init /\ [][Next]_vars /\ Fairness

-----------------------------------------------------------------------------
Kinds == Streams \cup {"recipe", "ok", "failed", "retry"}
Pieces == [talon : Talons, attempt : 1 .. MaxRetries + 1, kind : Kinds]
Labels == {"spawn", "poll", "kill", "wait", "tag", "sema", "write", "done",
           "failed", "crashed"}

TypeOK ==
    /\ opts \in Options
    /\ pc \in [Talons -> Labels]
    /\ attempt \in [Talons -> 0 .. MaxRetries + 1]
    /\ retries \in [Talons -> -1 .. MaxRetries]
    /\ script \in [Talons -> [todo : Seq(ShellOps), end : Ends]]
    /\ shell \in [Talons -> [todo : Seq(ShellOps),
                             state : {"none", "running", "exited", "killed"}]]
    /\ sigchld \in [Talons -> BOOLEAN]
    /\ open \in [Talons -> SUBSET Streams]
    /\ lingers \in [Talons -> SUBSET Streams]
    /\ pipe \in [Talons -> [Streams -> 0 .. PipeSize]]
    /\ output \in [Talons -> Seq(Seq(Pieces))]
    /\ returncode \in [Talons -> {0, 1, 128}]
    /\ returned \in [Talons -> {NotYet, Signal, 0, 1, 128}]
    /\ sema \in Nat \cup {NoSema}
    /\ log \in Seq(Pieces)
    /\ lapsed \in BOOLEAN

(* Talons that ask for it write one at a time, until one of them has gone  *)
(* on without the semaphore: no piece of another talon stands between two  *)
(* of one attempt.  (sema.c: sema_wait, sema_release; talon.c:612-619.)        *)
Unscrambled ==
    ~ lapsed =>
      \A i, j, k \in DOMAIN log :
        /\ i < j /\ j < k
        /\ log[i].talon = log[k].talon /\ log[i].attempt = log[k].attempt
        /\ opts[log[i].talon].descramble /\ opts[log[j].talon].descramble
        => log[j].talon = log[i].talon

(* The log of a recipe is one group for each attempt, in order, from its   *)
(* tag to its status: only an attempt that says retry is followed by       *)
(* another, nothing of an earlier attempt comes up in a later one, and     *)
(* talon does not leave a retry open when it returns (talon.c: the loop    *)
(* that main runs the recipe in).                                          *)
Statuses == {"ok", "failed", "retry"}
Mine(t) == {i \in DOMAIN log : log[i].talon = t}
IsLast(t, i) == i \in Mine(t) /\ \A j \in Mine(t) : j <= i

Follows(p, q) ==
    IF q.kind = "recipe"
    THEN p.kind = "retry" /\ q.attempt = p.attempt + 1
    ELSE p.kind \notin Statuses /\ q.attempt = p.attempt

Told(t) ==
    \A j \in Mine(t) :
      \/ /\ log[j].kind = "recipe" /\ log[j].attempt = 1
         /\ \A k \in Mine(t) : k >= j
      \/ \E i \in Mine(t) :
           /\ i < j /\ Follows(log[i], log[j])
           /\ \A k \in Mine(t) : k <= i \/ k >= j

LogTellsAttempts ==
    \A t \in Talons : opts[t].tagging =>
      /\ Told(t)
      /\ pc[t] = "done" =>
           \E i \in Mine(t) : IsLast(t, i) /\ log[i].kind \in {"ok", "failed"}

(* make is told what the log says: a talon that returns has 0 for an       *)
(* attempt that is ok, or because the caller forces success (talon.c: the  *)
(* status, and the value main returns).                                    *)
ExitMatchesStatus ==
    \A t \in Talons :
      pc[t] = "done" /\ opts[t].tagging /\ ~ opts[t].force =>
        \E i \in Mine(t) :
          IsLast(t, i) /\ (returned[t] = 0 <=> log[i].kind = "ok")

(* Every talon ends: no recipe, however slow, and no other talon holds it  *)
(* up for ever (process.c: the timeout of poll; sema.c: sem_timedwait).    *)
TalonsEnd == \A t \in Talons : <> Ended(t)

(* A recipe that is reported ok has its whole output in the log, as        *)
(* test/smoke_suite/talon_test.py:68-70 expects of it.                     *)
Written(t, b) == Len(SelectSeq(FlattenSeq(b), LAMBDA p : p.kind \in Streams))

OutputComplete ==
    \A t \in Talons :
      pc[t] = "sema" /\ returncode[t] = 0 /\ script[t].todo \in Seq(Streams) =>
        Written(t, output[t]) =
          Len(SelectSeq(script[t].todo, LAMBDA op : op \in Streams))
=============================================================================
