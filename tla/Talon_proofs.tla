---------------------------- MODULE Talon_proofs ----------------------------
(***************************************************************************)
(* Proofs about Talon for every set of talons, every recipe and any number *)
(* of retries.                                                             *)
(***************************************************************************)
EXTENDS Talon, SequenceTheorems, TLAPS

LEMMA AppendType ==
  ASSUME NEW S, NEW s \in Seq(S), NEW x \in S
  PROVE  Append(s, x) \in Seq(S) /\ Append(s, x) # <<>>
<1>1. Append(s, x) \in Seq(S) /\ Len(Append(s, x)) = Len(s) + 1 /\ Len(s) \in Nat
  OBVIOUS
<1>2. Append(s, x) # <<>>
  BY <1>1
<1>3. QED
  BY <1>1, <1>2

LEMMA ConcatType ==
  ASSUME NEW S, NEW s \in Seq(S), NEW t \in Seq(S)
  PROVE  s \o t \in Seq(S) /\ (t # <<>> => s \o t # <<>>)
OBVIOUS

LEMMA UnitType ==
  ASSUME NEW S, NEW x \in S
  PROVE  <<x>> \in Seq(S) /\ <<x>> # <<>>
OBVIOUS

LEMMA TailType ==
  ASSUME NEW S, NEW s \in Seq(S), s # <<>>
  PROVE  Head(s) \in S /\ Tail(s) \in Seq(S)
OBVIOUS

LEMMA EndsType ==
  ASSUME NEW S, NEW s \in Seq(S), s # <<>>
  PROVE  Front(s) \in Seq(S) /\ Last(s) \in S
<1>1. Len(s) \in Nat /\ Len(s) # 0
  BY EmptySeq
<1>2. Last(s) \in S
  BY <1>1 DEF Last
<1>3. Front(s) \in Seq(S)
  BY <1>1 DEF Front
<1>4. QED
  BY <1>2, <1>3

\* What s \o b holds at each place.
LEMMA ConcatPlaces ==
  ASSUME NEW S, NEW T, NEW s \in Seq(S), NEW b \in Seq(T)
  PROVE  /\ Len(s) \in Nat /\ DOMAIN s = 1..Len(s)
         /\ \A i \in DOMAIN (s \o b) :
              /\ i \in Nat
              /\ \/ i \in DOMAIN s /\ (s \o b)[i] = s[i]
                 \/ i > Len(s) /\ (s \o b)[i] \in T
OBVIOUS

-----------------------------------------------------------------------------
(* The buffer keeps to the pieces it is given, and never becomes empty.    *)

LEMMA BufferTypes ==
  ASSUME NEW P, NEW b \in Seq(Seq(P)), b # <<>>, NEW p \in P
  PROVE  /\ AddRead(b, p) \in Seq(Seq(P)) /\ AddRead(b, p) # <<>>
         /\ AddText(b, p) \in Seq(Seq(P)) /\ AddText(b, p) # <<>>
         /\ PrependText(b, p) \in Seq(Seq(P)) /\ PrependText(b, p) # <<>>
<1>1. Front(b) \in Seq(Seq(P)) /\ Last(b) \in Seq(P)
  BY EndsType
<1>2. <<p>> \in Seq(P)
  BY UnitType
<1>3. Append(Last(b), p) \in Seq(P)
  BY <1>1, AppendType
<1>4. << Append(Last(b), p) >> \in Seq(Seq(P)) /\ << Append(Last(b), p) >> # <<>>
  BY <1>3, UnitType
<1>5. << <<p>> >> \in Seq(Seq(P)) /\ << <<p>> >> # <<>>
  BY <1>2, UnitType
<1>6. AddText(b, p) \in Seq(Seq(P)) /\ AddText(b, p) # <<>>
  BY <1>1, <1>4, ConcatType DEF AddText
<1>7. b \o << <<p>> >> \in Seq(Seq(P)) /\ b \o << <<p>> >> # <<>>
  BY <1>5, ConcatType
<1>8. AddRead(b, p) \in Seq(Seq(P)) /\ AddRead(b, p) # <<>>
  BY <1>6, <1>7 DEF AddRead, AddText
<1>9. PrependText(b, p) \in Seq(Seq(P)) /\ PrependText(b, p) # <<>>
  BY <1>5, ConcatType DEF PrependText
<1>10. QED
  BY <1>6, <1>8, <1>9

-----------------------------------------------------------------------------
(* The invariant of the types.  The attempts that were made and those that *)
(* are left add up; a process that has a proc has a block in its buffer;   *)
(* and the buffer holds pieces of the attempt that is going on.            *)

Own(t) == {p \in Pieces : p.talon = t /\ p.attempt = attempt[t]}

Counted(t) ==
  /\ pc[t] = "spawn" => retries[t] >= 0 /\ attempt[t] + retries[t] = MaxRetries
  /\ pc[t] \notin {"spawn", "done"} =>
       retries[t] >= 0 /\ attempt[t] + retries[t] = MaxRetries + 1

\* A shell that has ended had an end.
Exits(t) == shell[t].state = "exited" => script[t].end \in {0, 1}

Running == {"poll", "kill", "wait", "tag"}

Shape ==
  /\ TypeOK
  /\ \A t \in Talons : Counted(t) /\ Exits(t)
  /\ \A t \in Talons : pc[t] \in Running => output[t] # <<>>
  /\ \A t \in Talons : output[t] \in Seq(Seq(Own(t)))

LEMMA OptionTypes ==
  ASSUME opts \in Options, NEW t \in Talons
  PROVE  /\ opts[t].descramble \in BOOLEAN /\ opts[t].tagging \in BOOLEAN
         /\ opts[t].force \in BOOLEAN
BY TalonAssumption

\* TypeOK in three parts, for what talon, its shell and the build hold.
TalonTypes ==
  /\ opts \in Options
  /\ pc \in [Talons -> Labels]
  /\ attempt \in [Talons -> 0 .. MaxRetries + 1]
  /\ retries \in [Talons -> -1 .. MaxRetries]
  /\ returncode \in [Talons -> {0, 1, 128}]
  /\ returned \in [Talons -> {NotYet, Signal, 0, 1, 128}]

ShellTypes ==
  /\ script \in [Talons -> [todo : Seq(ShellOps), end : Ends]]
  /\ shell \in [Talons -> [todo : Seq(ShellOps),
                           state : {"none", "running", "exited", "killed"}]]
  /\ sigchld \in [Talons -> BOOLEAN]
  /\ open \in [Talons -> SUBSET Streams]
  /\ lingers \in [Talons -> SUBSET Streams]
  /\ pipe \in [Talons -> [Streams -> 0 .. PipeSize]]
  /\ \A t \in Talons : Exits(t)

LogTypes ==
  /\ sema \in Nat \cup {NoSema}
  /\ log \in Seq(Pieces)
  /\ lapsed \in BOOLEAN

LEMMA TypeParts ==
  TypeOK /\ (\A t \in Talons : Exits(t)) <=>
    /\ TalonTypes /\ ShellTypes /\ LogTypes
    /\ output \in [Talons -> Seq(Seq(Pieces))]
BY DEF TypeOK, TalonTypes, ShellTypes, LogTypes

LEMMA InitShape == Init => Shape
<1> SUFFICES ASSUME Init PROVE Shape
  OBVIOUS
<1>1. <<>> \in Seq(Pieces) /\ <<>> \in Seq(ShellOps) /\ <<>> \in Seq(Seq(Pieces))
      /\ \A t \in Talons : <<>> \in Seq(Seq(Own(t)))
  BY EmptySeq
<1>a. MaxRetries \in Nat /\ PipeSize \in Nat
  BY TalonAssumption
<1>2. TalonTypes
  BY <1>a DEF Init, TalonTypes, Labels, NotYet, Signal
<1>3. ShellTypes
  <2>1. [todo |-> <<>>, end |-> 0] \in [todo : Seq(ShellOps), end : Ends]
    BY <1>1 DEF Ends
  <2>2. [todo |-> <<>>, state |-> "none"] \in
          [todo : Seq(ShellOps), state : {"none", "running", "exited", "killed"}]
    BY <1>1
  <2>3. [s \in Streams |-> 0] \in [Streams -> 0 .. PipeSize]
    BY <1>a
  <2>4. QED
    BY <2>1, <2>2, <2>3 DEF Init, ShellTypes, Exits
<1>4. LogTypes
  <2>1. sema \in {1, NoSema}
    BY DEF Init
  <2>2. log = <<>> /\ lapsed = FALSE
    BY DEF Init
  <2>3. sema \in Nat \cup {NoSema}
    BY <2>1
  <2>4. log \in Seq(Pieces)
    BY <1>1, <2>2
  <2>5. QED
    BY <2>2, <2>3, <2>4 DEF LogTypes
<1>5. output \in [Talons -> Seq(Seq(Pieces))]
  BY <1>1 DEF Init
<1>6. \A t \in Talons : Counted(t)
  BY <1>a DEF Init, Counted
<1>7. \A t \in Talons : pc[t] \notin Running /\ output[t] = <<>>
  BY DEF Init, Running
<1>8. QED
  BY <1>1, <1>2, <1>3, <1>4, <1>5, <1>6, <1>7, TypeParts DEF Shape

\* The types of the shell do not depend on what talon does but to forget it.
LEMMA ForgetTypes ==
  ASSUME ShellTypes, NEW t \in Talons, ForgetShell(t), UNCHANGED script
  PROVE  ShellTypes'
<1>1. <<>> \in Seq(ShellOps) /\ PipeSize \in Nat
  BY EmptySeq, TalonAssumption
<1>2. [todo |-> <<>>, state |-> "none"] \in
        [todo : Seq(ShellOps), state : {"none", "running", "exited", "killed"}]
  BY <1>1
<1>3. [s \in Streams |-> 0] \in [Streams -> 0 .. PipeSize]
  BY <1>1
<1>4. QED
  BY <1>2, <1>3 DEF ShellTypes, ForgetShell, Exits

LEMMA SeqMono ==
  ASSUME NEW S, NEW T, S \subseteq T, NEW s \in Seq(S)
  PROVE  s \in Seq(T)
OBVIOUS

LEMMA OwnPieces ==
  ASSUME NEW t \in Talons, NEW b \in Seq(Seq(Own(t)))
  PROVE  b \in Seq(Seq(Pieces))
<1>1. Own(t) \subseteq Pieces
  BY DEF Own
<1>2. Seq(Own(t)) \subseteq Seq(Pieces)
  BY <1>1, SeqMono
<1>3. QED
  BY <1>2, SeqMono

\* What a step has to show of the buffers and of the attempts.
BufferShape ==
  /\ output \in [Talons -> Seq(Seq(Pieces))]
  /\ \A t \in Talons : pc[t] \in Running => output[t] # <<>>
  /\ \A t \in Talons : output[t] \in Seq(Seq(Own(t)))

AttemptShape == TalonTypes /\ \A t \in Talons : Counted(t)

LEMMA ShapeParts ==
  /\ Shape <=> AttemptShape /\ ShellTypes /\ LogTypes /\ BufferShape
  /\ Shape' <=> AttemptShape' /\ ShellTypes' /\ LogTypes' /\ BufferShape'
<1>1. TypeOK' /\ (\A t \in Talons : Exits(t)') <=>
        /\ TalonTypes' /\ ShellTypes' /\ LogTypes'
        /\ output' \in [Talons -> Seq(Seq(Pieces))]
  BY DEF TypeOK, TalonTypes, ShellTypes, LogTypes
<1>2. QED
  BY <1>1, TypeParts DEF Shape, AttemptShape, BufferShape

LEMMA KeepsTalons ==
  ASSUME AttemptShape, BufferShape, UNCHANGED <<opts, pc, talonVars>>
  PROVE  AttemptShape' /\ BufferShape'
<1>1. UNCHANGED <<opts, pc, attempt, retries, script, output, returncode, returned>>
  BY DEF talonVars
<1>2. AttemptShape'
  BY <1>1 DEF AttemptShape, TalonTypes, Counted
<1>3. BufferShape'
  BY <1>1 DEF BufferShape, Own
<1>4. QED
  BY <1>2, <1>3

\* A talon goes on within an attempt.
LEMMA GoesOn ==
  ASSUME AttemptShape, NEW t \in Talons, NEW l \in Labels \ {"spawn"},
         pc[t] \notin {"spawn", "done"}, Go(t, l),
         UNCHANGED <<opts, attempt, retries>>,
         returncode' \in [Talons -> {0, 1, 128}],
         returned' \in [Talons -> {NotYet, Signal, 0, 1, 128}]
  PROVE  AttemptShape'
<1>1. TalonTypes'
  BY DEF AttemptShape, TalonTypes, Go
<1>2. ASSUME NEW u \in Talons PROVE Counted(u)'
  <2>1. pc'[u] = IF u = t THEN l ELSE pc[u]
    BY DEF AttemptShape, TalonTypes, Go
  <2>2. QED
    BY <2>1 DEF AttemptShape, Counted
<1>3. QED
  BY <1>1, <1>2 DEF AttemptShape

\* Its buffer gets the pieces of the attempt that is going on.
LEMMA KeepsBuffer ==
  ASSUME TalonTypes, BufferShape, NEW t \in Talons, NEW l \in Labels,
         NEW b \in Seq(Seq(Own(t))), l \in Running => b # <<>>,
         output' = [output EXCEPT ![t] = b],
         pc' = [pc EXCEPT ![t] = l], UNCHANGED attempt
  PROVE  BufferShape'
<1>1. \A u \in Talons : Own(u)' = Own(u)
  BY DEF Own
<1>2. \A u \in Talons : /\ output'[u] = IF u = t THEN b ELSE output[u]
                        /\ pc'[u] = IF u = t THEN l ELSE pc[u]
  BY DEF BufferShape, TalonTypes
<1>3. b \in Seq(Seq(Pieces))
  BY OwnPieces
<1>4. output' \in [Talons -> Seq(Seq(Pieces))]
  BY <1>3 DEF BufferShape
<1>5. \A u \in Talons : output'[u] \in Seq(Seq(Own(u)'))
  BY <1>1, <1>2 DEF BufferShape
<1>6. \A u \in Talons : pc'[u] \in Running => output'[u] # <<>>
  BY <1>2 DEF BufferShape
<1>7. QED
  BY <1>4, <1>5, <1>6 DEF BufferShape

LEMMA OwnPiece ==
  ASSUME TalonTypes, NEW t \in Talons, NEW k \in Kinds, attempt[t] >= 1
  PROVE  Piece(t, k) \in Own(t)
<1>1. MaxRetries \in Nat
  BY TalonAssumption
<1>2. attempt[t] \in 1 .. MaxRetries + 1
  BY <1>1 DEF TalonTypes
<1>3. QED
  BY <1>2 DEF Piece, Own, Pieces

\* An attempt that is going on is at least the first.
LEMMA AttemptBegun ==
  ASSUME AttemptShape, NEW t \in Talons, pc[t] \in Running
  PROVE  attempt[t] >= 1
<1>1. MaxRetries \in Nat /\ attempt[t] \in Int /\ retries[t] \in -1 .. MaxRetries
  BY TalonAssumption DEF AttemptShape, TalonTypes
<1>2. attempt[t] + retries[t] = MaxRetries + 1
  BY DEF AttemptShape, Counted, Running
<1>3. QED
  BY <1>1, <1>2

-----------------------------------------------------------------------------
(* The shell's steps and the signal leave the talons alone.                *)

LEMMA NextOpTypes ==
  ASSUME ShellTypes, NEW t \in Talons, NEW op, NextOp(t, op)
  PROVE  /\ shell' \in [Talons -> [todo : Seq(ShellOps),
                       state : {"none", "running", "exited", "killed"}]]
         /\ UNCHANGED script => \A u \in Talons : Exits(u)'
<1>1. shell[t].todo \in Seq(ShellOps) /\ shell[t].todo # <<>>
  BY DEF ShellTypes, NextOp
<1>2. Tail(shell[t].todo) \in Seq(ShellOps)
  BY <1>1, TailType
<1>3. \A u \in Talons : shell'[u].state = shell[u].state
  BY DEF ShellTypes, NextOp
<1>4. PICK rest \in Seq(ShellOps) : rest = Tail(shell[t].todo)
  BY <1>2
<1>5. shell' = [shell EXCEPT ![t].todo = rest]
  BY <1>4 DEF NextOp
<1>6. shell' \in [Talons -> [todo : Seq(ShellOps),
                   state : {"none", "running", "exited", "killed"}]]
  BY <1>5 DEF ShellTypes
<1>7. UNCHANGED script => \A u \in Talons : Exits(u)'
  BY <1>3 DEF ShellTypes, Exits
<1>8. QED
  BY <1>6, <1>7

LEMMA ShellShape ==
  ASSUME Shape, NEW t \in Talons, Shell(t) \/ BackgroundEnds(t) \/ ChildSig(t)
  PROVE  Shape'
<1>1. /\ UNCHANGED <<opts, pc, talonVars, logVars>>
      /\ UNCHANGED script
  BY DEF Shell, ShellWrites, ShellCloses, ShellLeaves, ShellExits,
         BackgroundEnds, ChildSig, talonVars
<1>2. AttemptShape' /\ BufferShape'
  BY <1>1, KeepsTalons, ShapeParts
<1>3. LogTypes'
  BY <1>1, ShapeParts DEF LogTypes, logVars
<1>4. ShellTypes
  BY ShapeParts
<1>5. CASE ShellWrites(t)
  <2>1. PICK s \in Streams :
          /\ NextOp(t, s)
          /\ s \in open[t] => pipe[t][s] < PipeSize
          /\ pipe' = IF s \in open[t] THEN [pipe EXCEPT ![t][s] = @ + 1] ELSE pipe
          /\ UNCHANGED <<sigchld, open, lingers>>
    BY <1>5 DEF ShellWrites
  <2>2. /\ shell' \in [Talons -> [todo : Seq(ShellOps),
                          state : {"none", "running", "exited", "killed"}]]
        /\ \A u \in Talons : Exits(u)'
    BY <1>1, <1>4, <2>1, NextOpTypes
  <2>3. pipe' \in [Talons -> [Streams -> 0 .. PipeSize]]
    <3>1. PipeSize \in Nat /\ pipe \in [Talons -> [Streams -> 0 .. PipeSize]]
      BY <1>4, TalonAssumption DEF ShellTypes
    <3>2. CASE s \in open[t]
      <4>1. pipe[t][s] + 1 \in 0 .. PipeSize
        BY <2>1, <3>1, <3>2
      <4>2. QED
        BY <2>1, <3>1, <3>2, <4>1
    <3>3. QED
      BY <2>1, <3>1, <3>2
  <2>4. ShellTypes'
    BY <1>1, <1>4, <2>1, <2>2, <2>3 DEF ShellTypes
  <2>5. QED
    BY <1>2, <1>3, <2>4, ShapeParts
<1>6. CASE ShellCloses(t)
  <2>1. NextOp(t, "close") /\ open' = [open EXCEPT ![t] = @ \ {"out"}]
        /\ UNCHANGED <<sigchld, lingers, pipe>>
    BY <1>6 DEF ShellCloses
  <2>2. /\ shell' \in [Talons -> [todo : Seq(ShellOps),
                          state : {"none", "running", "exited", "killed"}]]
        /\ \A u \in Talons : Exits(u)'
    BY <1>1, <1>4, <2>1, NextOpTypes
  <2>3. ShellTypes'
    BY <1>1, <1>4, <2>1, <2>2 DEF ShellTypes
  <2>4. QED
    BY <1>2, <1>3, <2>3, ShapeParts
<1>7. CASE ShellLeaves(t)
  <2>1. NextOp(t, "bg") /\ lingers' = [lingers EXCEPT ![t] = open[t]]
        /\ UNCHANGED <<sigchld, open, pipe>>
    BY <1>7 DEF ShellLeaves
  <2>2. /\ shell' \in [Talons -> [todo : Seq(ShellOps),
                          state : {"none", "running", "exited", "killed"}]]
        /\ \A u \in Talons : Exits(u)'
    BY <1>1, <1>4, <2>1, NextOpTypes
  <2>3. ShellTypes'
    BY <1>1, <1>4, <2>1, <2>2 DEF ShellTypes
  <2>4. QED
    BY <1>2, <1>3, <2>3, ShapeParts
<1>8. CASE ShellExits(t) \/ BackgroundEnds(t) \/ ChildSig(t)
  <2>a. ASSUME ShellExits(t) PROVE ShellTypes'
    <3>1. /\ shell' = [shell EXCEPT ![t].state = "exited"]
          /\ sigchld' = [sigchld EXCEPT ![t] = TRUE]
          /\ UNCHANGED <<open, lingers, pipe>>
          /\ script[t].end # Hang
      BY <2>a DEF ShellExits
    <3>2. shell \in [Talons -> [todo : Seq(ShellOps),
                      state : {"none", "running", "exited", "killed"}]]
      BY <1>4 DEF ShellTypes
    <3>3. shell' \in [Talons -> [todo : Seq(ShellOps),
                       state : {"none", "running", "exited", "killed"}]]
      <4>1. PICK r \in [todo : Seq(ShellOps), state : {"none", "running", "exited", "killed"}] :
              r = [shell[t] EXCEPT !.state = "exited"]
        BY <3>2
      <4>2. shell' = [shell EXCEPT ![t] = r]
        BY <3>1, <4>1
      <4>3. QED
        BY <3>2, <4>2
    <3>4. script[t].end \in {0, 1}
      BY <1>4, <3>1 DEF ShellTypes, Ends
    <3>5. \A u \in Talons : u # t => shell'[u] = shell[u]
      BY <3>1, <3>2
    <3>6. \A u \in Talons : Exits(u)'
      BY <1>1, <1>4, <3>4, <3>5 DEF ShellTypes, Exits
    <3>7. QED
      <4>1. sigchld' \in [Talons -> BOOLEAN]
        BY <1>4, <3>1 DEF ShellTypes
      <4>2. script' = script /\ open' = open /\ lingers' = lingers /\ pipe' = pipe
        BY <1>1, <3>1
      <4>3. QED
        BY <1>4, <3>3, <3>6, <4>1, <4>2 DEF ShellTypes
  <2>b. ASSUME BackgroundEnds(t) PROVE ShellTypes'
    BY <1>1, <1>4, <2>b DEF ShellTypes, BackgroundEnds, Exits
  <2>c. ASSUME ChildSig(t) PROVE ShellTypes'
    BY <1>1, <1>4, <2>c DEF ShellTypes, ChildSig, Exits
  <2>1. ShellTypes'
    BY <1>8, <2>a, <2>b, <2>c
  <2>2. QED
    BY <1>2, <1>3, <2>1, ShapeParts
<1>9. QED
  BY <1>5, <1>6, <1>7, <1>8 DEF Shell

-----------------------------------------------------------------------------
(* The steps of process_run.                                               *)

\* An attempt begins.
LEMMA BeginsShape ==
  ASSUME Shape, NEW t \in Talons, pc[t] = "spawn", NewProc(t),
         NEW l \in {"poll", "tag"}, Go(t, l),
         UNCHANGED <<opts, retries, returned, logVars>>
  PROVE  AttemptShape' /\ BufferShape' /\ LogTypes'
<1>1. /\ MaxRetries \in Nat /\ attempt \in [Talons -> 0 .. MaxRetries + 1]
      /\ retries \in [Talons -> -1 .. MaxRetries] /\ pc \in [Talons -> Labels]
      /\ output \in [Talons -> Seq(Seq(Pieces))]
  BY TalonAssumption, ShapeParts DEF AttemptShape, TalonTypes, BufferShape
<1>2. retries[t] >= 0 /\ attempt[t] + retries[t] = MaxRetries
  BY ShapeParts DEF AttemptShape, Counted
<1>3. attempt[t] + 1 \in 0 .. MaxRetries + 1
  BY <1>1, <1>2
<1>4. TalonTypes'
  <2>1. attempt' \in [Talons -> 0 .. MaxRetries + 1]
    BY <1>1, <1>3 DEF NewProc
  <2>2. pc' \in [Talons -> Labels]
    BY <1>1 DEF Go, Labels
  <2>3. returncode' \in [Talons -> {0, 1, 128}]
    BY ShapeParts DEF NewProc, AttemptShape, TalonTypes
  <2>4. QED
    BY <2>1, <2>2, <2>3, ShapeParts DEF AttemptShape, TalonTypes
<1>5. ASSUME NEW u \in Talons PROVE Counted(u)'
  <2>1. CASE u = t
    <3>1. pc'[t] = l /\ attempt'[t] = attempt[t] + 1 /\ retries'[t] = retries[t]
      BY <1>1 DEF Go, NewProc
    <3>2. attempt'[t] + retries'[t] = MaxRetries + 1 /\ retries'[t] >= 0
      BY <1>1, <1>2, <3>1
    <3>3. pc'[t] # "spawn"
      BY <3>1
    <3>4. QED
      BY <2>1, <3>2, <3>3 DEF Counted
  <2>2. CASE u # t
    <3>1. pc'[u] = pc[u] /\ attempt'[u] = attempt[u] /\ retries'[u] = retries[u]
      BY <1>1, <2>2 DEF Go, NewProc
    <3>2. QED
      BY <3>1, ShapeParts DEF Counted, AttemptShape
  <2>3. QED
    BY <2>1, <2>2
<1>6. << <<>> >> # <<>> /\ << <<>> >> \in Seq(Seq(Pieces))
      /\ << <<>> >> \in Seq(Seq(Own(t)'))
  OBVIOUS
<1>7. ASSUME NEW u \in Talons
      PROVE  /\ (pc[u] \in Running)' => output'[u] # <<>>
             /\ output'[u] \in Seq(Seq(Own(u)'))
  <2>1. CASE u = t
    BY <1>1, <1>6, <2>1 DEF NewProc
  <2>2. CASE u # t
    <3>1. pc'[u] = pc[u] /\ attempt'[u] = attempt[u] /\ output'[u] = output[u]
      BY <1>1, <2>2 DEF Go, NewProc
    <3>2. Own(u)' = Own(u)
      BY <3>1 DEF Own
    <3>3. QED
      BY <3>1, <3>2, ShapeParts DEF BufferShape
  <2>3. QED
    BY <2>1, <2>2
<1>8. output' \in [Talons -> Seq(Seq(Pieces))]
  BY <1>1, <1>6 DEF NewProc
<1>9. LogTypes'
  BY ShapeParts DEF LogTypes, logVars
<1>10. QED
  BY <1>4, <1>5, <1>7, <1>8, <1>9 DEF AttemptShape, BufferShape

LEMMA ReadTypes ==
  ASSUME NEW t \in Talons, TalonTypes, attempt[t] >= 1,
         NEW b \in Seq(Seq(Own(t))), b # <<>>
  PROVE  ReadAll(b, t) \in Seq(Seq(Own(t))) /\ ReadAll(b, t) # <<>>
<1>1. Piece(t, "out") \in Own(t) /\ Piece(t, "err") \in Own(t)
  BY OwnPiece DEF Kinds, Streams
<1> DEFINE one(bb, s) == IF s \in Readable(t) THEN AddRead(bb, Piece(t, s)) ELSE bb
<1>2. one(b, "out") \in Seq(Seq(Own(t))) /\ one(b, "out") # <<>>
  BY <1>1, BufferTypes
<1>3. one(one(b, "out"), "err") \in Seq(Seq(Own(t)))
      /\ one(one(b, "out"), "err") # <<>>
  <2> DEFINE c == one(b, "out")
  <2>1. c \in Seq(Seq(Own(t))) /\ c # <<>>
    BY <1>2
  <2> HIDE DEF c
  <2>2. one(c, "err") \in Seq(Seq(Own(t))) /\ one(c, "err") # <<>>
    BY <1>1, <2>1, BufferTypes
  <2>3. QED
    BY <2>2 DEF c
<1>4. ReadAll(b, t) = one(one(b, "out"), "err")
  BY DEF ReadAll
<1>5. QED
  BY <1>3, <1>4

LEMMA TagTypes ==
  ASSUME NEW t \in Talons, TalonTypes, attempt[t] >= 1,
         NEW b \in Seq(Seq(Own(t))), b # <<>>
  PROVE  AddText(PrependText(b, Piece(t, "recipe")), Piece(t, Status(t)))
           \in Seq(Seq(Own(t)))
<1>1. Piece(t, "recipe") \in Own(t) /\ Piece(t, Status(t)) \in Own(t)
  BY OwnPiece DEF Kinds, Status
<1> DEFINE c == PrependText(b, Piece(t, "recipe"))
<1>2. c \in Seq(Seq(Own(t))) /\ c # <<>>
  BY <1>1, BufferTypes
<1> HIDE DEF c
<1>3. AddText(c, Piece(t, Status(t))) \in Seq(Seq(Own(t)))
  BY <1>1, <1>2, BufferTypes
<1>4. QED
  BY <1>3 DEF c

\* An attempt that goes on, and what it does to the buffer.
LEMMA RunsShape ==
  ASSUME Shape, NEW t \in Talons, NEW l \in Labels \ {"spawn"},
         pc[t] \notin {"spawn", "done"}, Go(t, l),
         NEW b \in Seq(Seq(Own(t))), l \in Running => b # <<>>,
         output' = [output EXCEPT ![t] = b],
         UNCHANGED <<opts, attempt, retries>>,
         returncode' \in [Talons -> {0, 1, 128}],
         returned' \in [Talons -> {NotYet, Signal, 0, 1, 128}],
         ShellTypes', LogTypes'
  PROVE  Shape'
<1>1. AttemptShape'
  BY GoesOn, ShapeParts
<1>2. BufferShape'
  BY KeepsBuffer, ShapeParts DEF Go, AttemptShape
<1>3. QED
  BY <1>1, <1>2, ShapeParts

LEMMA TalonShape ==
  ASSUME Shape, NEW t \in Talons, Talon(t)
  PROVE  Shape'
<1>1. /\ TalonTypes /\ AttemptShape /\ ShellTypes /\ LogTypes /\ BufferShape
      /\ output \in [Talons -> Seq(Seq(Pieces))]
      /\ returncode \in [Talons -> {0, 1, 128}]
      /\ returned \in [Talons -> {NotYet, Signal, 0, 1, 128}]
      /\ output[t] \in Seq(Seq(Own(t)))
      /\ pc[t] \in Running => output[t] # <<>> /\ attempt[t] >= 1
      /\ pc \in [Talons -> Labels]
  BY ShapeParts, AttemptBegun DEF AttemptShape, BufferShape, TalonTypes
<1>2. UNCHANGED logVars => LogTypes'
  BY <1>1 DEF LogTypes, logVars
<1>3. UNCHANGED <<script, shellVars>> => ShellTypes'
  BY <1>1 DEF ShellTypes, shellVars, Exits
<1>4. output = [output EXCEPT ![t] = output[t]]
  BY <1>1
<1>5. CASE Fork(t)
  <2>1. /\ pc[t] = "spawn" /\ NewProc(t) /\ Go(t, "poll")
        /\ UNCHANGED <<opts, retries, returned, logVars>>
    BY <1>5 DEF Fork
  <2>2. AttemptShape' /\ BufferShape' /\ LogTypes'
    BY <2>1, BeginsShape
  <2>3. ShellTypes'
    <3>1. PICK s \in Scripts[t] :
            /\ script' = [script EXCEPT ![t] = s]
            /\ shell' = [shell EXCEPT ![t] = [todo |-> s.todo, state |-> "running"]]
      BY <1>5 DEF Fork
    <3>2. s.todo \in Seq(ShellOps) /\ s.end \in Ends /\ PipeSize \in Nat
          /\ s \in [todo : Seq(ShellOps), end : Ends]
      BY TalonAssumption
    <3>3. [todo |-> s.todo, state |-> "running"] \in
            [todo : Seq(ShellOps), state : {"none", "running", "exited", "killed"}]
      BY <3>2
    <3>4. [u \in Streams |-> 0] \in [Streams -> 0 .. PipeSize]
      BY <3>2
    <3>5. /\ sigchld' = [sigchld EXCEPT ![t] = FALSE]
          /\ open' = [open EXCEPT ![t] = Streams]
          /\ lingers' = [lingers EXCEPT ![t] = {}]
          /\ pipe' = [pipe EXCEPT ![t] = [u \in Streams |-> 0]]
      BY <1>5 DEF Fork
    <3>6. QED
      BY <1>1, <3>1, <3>2, <3>3, <3>4, <3>5 DEF ShellTypes, Exits
  <2>4. QED
    BY <2>2, <2>3, ShapeParts
<1>6. CASE ForkFails(t)
  <2>1. /\ pc[t] = "spawn" /\ NewProc(t) /\ Go(t, "tag")
        /\ UNCHANGED <<opts, retries, returned, logVars>>
        /\ UNCHANGED <<script, shellVars>>
    BY <1>6 DEF ForkFails
  <2>2. AttemptShape' /\ BufferShape' /\ LogTypes'
    BY <2>1, BeginsShape
  <2>3. QED
    BY <1>3, <2>1, <2>2, ShapeParts
<1>7. CASE PollReads(t)
  <2>1. /\ pc[t] = "poll" /\ output' = [output EXCEPT ![t] = ReadAll(output[t], t)]
        /\ UNCHANGED <<opts, attempt, retries, script, returncode, returned, logVars>>
        /\ UNCHANGED <<shell, sigchld, open, lingers>>
        /\ pipe' = [pipe EXCEPT ![t] = [s \in Streams |->
                  IF s \in Readable(t) THEN pipe[t][s] - 1 ELSE pipe[t][s]]]
    BY <1>7 DEF PollReads
  <2>2. PICK l \in {"wait", "poll"} : Go(t, l)
    BY <1>7 DEF PollReads
  <2>3. ReadAll(output[t], t) \in Seq(Seq(Own(t))) /\ ReadAll(output[t], t) # <<>>
    BY <1>1, <2>1, ReadTypes DEF Running
  <2>4. ShellTypes'
    <3>1. pipe[t] \in [Streams -> 0 .. PipeSize] /\ PipeSize \in Nat
      BY <1>1, TalonAssumption DEF ShellTypes
    <3>2. [s \in Streams |-> IF s \in Readable(t) THEN pipe[t][s] - 1 ELSE pipe[t][s]]
            \in [Streams -> 0 .. PipeSize]
      BY <3>1 DEF Readable
    <3>3. QED
      BY <1>1, <2>1, <3>2 DEF ShellTypes, Exits
  <2>5. QED
    BY <1>1, <1>2, <2>1, <2>2, <2>3, <2>4, RunsShape DEF Labels
<1>8. CASE PollInterrupted(t)
  <2>1. /\ pc[t] = "poll" /\ ForgetShell(t) /\ Go(t, "failed")
        /\ returned' = [returned EXCEPT ![t] = 1]
        /\ output' = [output EXCEPT ![t] = <<>>]
        /\ UNCHANGED <<opts, attempt, retries, script, returncode, logVars>>
    BY <1>8 DEF PollInterrupted
  <2>2. ShellTypes'
    BY <1>1, <2>1, ForgetTypes
  <2>3. <<>> \in Seq(Seq(Own(t)))
    OBVIOUS
  <2>4. returned' \in [Talons -> {NotYet, Signal, 0, 1, 128}]
        /\ returncode' \in [Talons -> {0, 1, 128}]
    BY <1>1, <2>1
  <2>5. LogTypes' /\ UNCHANGED <<opts, attempt, retries>>
    BY <1>2, <2>1
  <2>6. /\ "failed" \in Labels \ {"spawn"} /\ "failed" \notin Running
        /\ pc[t] \notin {"spawn", "done"}
    BY <2>1 DEF Labels, Running
  <2>7. QED
    BY <2>1, <2>2, <2>3, <2>4, <2>5, <2>6, RunsShape
<1>9. CASE PollTimesOut(t)
  <2>1. /\ pc[t] = "poll" /\ Go(t, "kill") /\ UNCHANGED <<opts, talonVars, shellVars, logVars>>
    BY <1>9 DEF PollTimesOut
  <2>2. /\ UNCHANGED <<opts, attempt, retries, returncode, returned>>
        /\ UNCHANGED <<script, shellVars>> /\ UNCHANGED logVars
        /\ output' = [output EXCEPT ![t] = output[t]]
    BY <1>4, <2>1 DEF talonVars
  <2>3. QED
    BY <1>1, <1>2, <1>3, <2>1, <2>2, RunsShape DEF Labels, Running
<1>10. CASE Kill(t)
  <2>1. /\ pc[t] = "kill" /\ Go(t, "wait")
        /\ shell' = IF ShellRuns(t) THEN [shell EXCEPT ![t].state = "killed"] ELSE shell
        /\ UNCHANGED <<opts, attempt, retries, script, output, returncode, returned, logVars>>
        /\ UNCHANGED <<sigchld, open, lingers, pipe>>
    BY <1>10 DEF Kill
  <2>2. ShellTypes'
    <3>1. shell' \in [Talons -> [todo : Seq(ShellOps),
                         state : {"none", "running", "exited", "killed"}]]
      <4> DEFINE R == [todo : Seq(ShellOps),
                       state : {"none", "running", "exited", "killed"}]
      <4>1. shell \in [Talons -> R] /\ shell[t] \in R
        BY <1>1 DEF ShellTypes
      <4>2. [shell[t] EXCEPT !.state = "killed"] \in R
        BY <4>1
      <4> HIDE DEF R
      <4>3. shell' \in [Talons -> R]
        BY <2>1, <4>1, <4>2
      <4>4. QED
        BY <4>3 DEF R
    <3>2. \A u \in Talons : shell'[u].state = "exited" => shell[u].state = "exited"
      BY <1>1, <2>1 DEF ShellTypes
    <3>3. QED
      BY <1>1, <2>1, <3>1, <3>2 DEF ShellTypes, Exits
  <2>3. QED
    BY <1>1, <1>2, <1>4, <2>1, <2>2, RunsShape DEF Labels, Running
<1>11. CASE WaitPid(t)
  <2>1. /\ pc[t] = "wait" /\ ForgetShell(t) /\ Go(t, "tag")
        /\ returncode' = [returncode EXCEPT ![t] =
                        IF shell[t].state = "exited" THEN script[t].end ELSE 128]
        /\ UNCHANGED <<opts, attempt, retries, script, output, returned, logVars>>
    BY <1>11 DEF WaitPid
  <2>2. ShellTypes'
    BY <1>1, <2>1, ForgetTypes
  <2>3. returncode' \in [Talons -> {0, 1, 128}]
    BY <1>1, <2>1 DEF ShellTypes, Exits
  <2>4. QED
    BY <1>1, <1>2, <1>4, <2>1, <2>2, <2>3, RunsShape DEF Labels, Running
<1>12. CASE Tag(t)
  <2>1. /\ pc[t] = "tag"
        /\ output' = IF opts[t].tagging
                     THEN [output EXCEPT ![t] =
                             AddText(PrependText(output[t], Piece(t, "recipe")),
                                     Piece(t, Status(t)))]
                     ELSE output
        /\ UNCHANGED <<opts, attempt, retries, returncode, returned>>
        /\ UNCHANGED <<script, shellVars>> /\ UNCHANGED logVars
    BY <1>12 DEF Tag
  <2>2. PICK l \in {"sema", "write"} : Go(t, l)
    BY <1>12 DEF Tag
  <2>3. AddText(PrependText(output[t], Piece(t, "recipe")), Piece(t, Status(t)))
          \in Seq(Seq(Own(t)))
    BY <1>1, <2>1, TagTypes DEF Running
  <2>4. PICK b \in Seq(Seq(Own(t))) : output' = [output EXCEPT ![t] = b]
    BY <1>1, <1>4, <2>1, <2>3
  <2>5. QED
    BY <1>1, <1>2, <1>3, <2>1, <2>2, <2>4, RunsShape DEF Labels, Running
<1>13. CASE SemaWait(t)
  <2>1. /\ pc[t] = "sema" /\ Go(t, "write") /\ log' = log
        /\ IF sema \in Nat \ {0}
           THEN sema' = sema - 1 /\ UNCHANGED lapsed
           ELSE lapsed' = TRUE /\ UNCHANGED sema
        /\ UNCHANGED <<opts, attempt, retries, output, returncode, returned>>
        /\ UNCHANGED <<script, shellVars>>
    BY <1>13 DEF SemaWait, talonVars
  <2>2. LogTypes'
    <3>1. sema' \in Nat \cup {NoSema}
      BY <1>1, <2>1 DEF LogTypes
    <3>2. lapsed' \in BOOLEAN
      BY <1>1, <2>1 DEF LogTypes
    <3>3. QED
      BY <1>1, <2>1, <3>1, <3>2 DEF LogTypes
  <2>3. /\ "write" \in Labels \ {"spawn"} /\ "write" \notin Running
        /\ pc[t] \notin {"spawn", "done"}
    BY <2>1 DEF Labels, Running
  <2>4. output' = [output EXCEPT ![t] = output[t]] /\ ShellTypes'
    BY <1>3, <1>4, <2>1
  <2>5. /\ returncode' \in [Talons -> {0, 1, 128}]
        /\ returned' \in [Talons -> {NotYet, Signal, 0, 1, 128}]
        /\ UNCHANGED <<opts, attempt, retries>>
    BY <1>1, <2>1
  <2>6. output[t] \in Seq(Seq(Own(t))) /\ Go(t, "write")
    BY <1>1, <2>1
  <2>7. QED
    BY <2>2, <2>3, <2>4, <2>5, <2>6, RunsShape
<1>14. CASE Write(t)
  <2>1. /\ pc[t] = "write" /\ output[t] # <<>>
        /\ log' = log \o Head(output[t])
        /\ output' = [output EXCEPT ![t] = Tail(output[t])]
        /\ UNCHANGED <<opts, pc, attempt, retries, returncode, returned>>
        /\ UNCHANGED <<script, shellVars>> /\ UNCHANGED <<sema, lapsed>>
    BY <1>14 DEF Write
  <2>2. Head(output[t]) \in Seq(Own(t)) /\ Tail(output[t]) \in Seq(Seq(Own(t)))
    BY <1>1, <2>1, TailType
  <2>3. LogTypes'
    <3>1. Own(t) \subseteq Pieces
      BY DEF Own
    <3>2. Head(output[t]) \in Seq(Pieces)
      BY <2>2, <3>1, SeqMono
    <3>3. log \in Seq(Pieces)
      BY <1>1 DEF LogTypes
    <3>4. log' \in Seq(Pieces)
      BY <2>1, <3>2, <3>3, ConcatType
    <3>5. QED
      BY <1>1, <2>1, <3>4 DEF LogTypes
  <2>4. Go(t, "write")
    BY <1>1, <2>1 DEF Go
  <2>5. QED
    BY <1>1, <1>3, <2>1, <2>2, <2>3, <2>4, RunsShape DEF Labels, Running
<1>15. CASE Release(t)
  <2>1. /\ pc[t] = "write" /\ output[t] = <<>>
        /\ UNCHANGED <<opts, attempt, output, returncode, log, lapsed>>
        /\ UNCHANGED <<script, shellVars>>
    BY <1>15 DEF Release
  <2>2. LogTypes'
    <3>1. sema' \in Nat \cup {NoSema}
      <4>1. sema \in Nat \cup {NoSema}
        BY <1>1 DEF LogTypes
      <4>2. sema' = sema \/ (sema' = sema + 1 /\ (opts[t].descramble => sema # NoSema) /\ opts[t].descramble)
        BY <1>15 DEF Release
      <4>3. QED
        BY <4>1, <4>2
    <3>2. QED
      BY <1>1, <2>1, <3>1 DEF LogTypes
  <2>3. ShellTypes' /\ BufferShape'
    <3>1. output' = output /\ attempt' = attempt
      BY <2>1
    <3>2. \A u \in Talons : pc'[u] \in Running => pc[u] \in Running
      <4>1. \E l \in {"done", "crashed", "spawn"} : pc' = [pc EXCEPT ![t] = l]
        BY <1>15 DEF Release, Return, Go
      <4>2. QED
        BY <1>1, <4>1 DEF Running
    <3>3. QED
      BY <1>1, <1>3, <2>1, <3>1, <3>2 DEF BufferShape, Own
  <2>4. /\ MaxRetries \in Nat /\ retries \in [Talons -> -1 .. MaxRetries]
        /\ attempt \in [Talons -> 0 .. MaxRetries + 1]
        /\ retries[t] >= 0 /\ attempt[t] + retries[t] = MaxRetries + 1
    BY <1>1, <2>1, TalonAssumption DEF AttemptShape, TalonTypes, Counted
  <2>5. CASE UNCHANGED retries /\ \E l \in {"done", "crashed"} : Go(t, l)
    <3>1. returned' \in [Talons -> {NotYet, Signal, 0, 1, 128}]
      BY <1>1, <1>15, <2>5 DEF Release, Return
    <3>2. AttemptShape'
      BY <1>1, <2>1, <2>5, <3>1, GoesOn DEF Labels
    <3>3. QED
      BY <2>2, <2>3, <3>2, ShapeParts
  <2>6. CASE /\ retries' = [retries EXCEPT ![t] = retries[t] - 1]
             /\ \/ TriesAgain(t) /\ Go(t, "spawn") /\ UNCHANGED returned
                \/ ~ TriesAgain(t) /\ Return(t)
    <3>1. returned' \in [Talons -> {NotYet, Signal, 0, 1, 128}]
      <4>1. CASE UNCHANGED returned
        BY <1>1, <4>1
      <4>2. CASE returned' = [returned EXCEPT ![t] =
                               IF opts[t].force THEN 0 ELSE returncode[t]]
        <5>1. returncode[t] \in {0, 1, 128}
          BY <1>1
        <5>2. QED
          BY <1>1, <4>2, <5>1
      <4>3. QED
        BY <2>6, <4>1, <4>2 DEF Return
    <3>2. retries[t] - 1 \in -1 .. MaxRetries /\ retries[t] - 1 \in Int
      BY <2>4
    <3>3. retries' \in [Talons -> -1 .. MaxRetries]
      BY <2>4, <2>6, <3>2
    <3>4. PICK l \in {"spawn", "done"} : Go(t, l) /\ (l = "spawn" => retries[t] - 1 >= 0)
      BY <2>6 DEF Return, TriesAgain
    <3>5. TalonTypes'
      BY <1>1, <2>1, <3>1, <3>3, <3>4 DEF TalonTypes, Go, Labels
    <3>6. ASSUME NEW u \in Talons PROVE Counted(u)'
      <4>1. CASE u = t
        <5>1. pc'[t] = l /\ retries'[t] = retries[t] - 1 /\ attempt'[t] = attempt[t]
          BY <1>1, <2>1, <2>4, <2>6, <3>4 DEF Go
        <5>2. attempt[t] \in Int /\ retries[t] \in Int
          BY <2>4
        <5>3. attempt'[t] + retries'[t] = MaxRetries
          BY <2>4, <5>1, <5>2
        <5>4. QED
          BY <3>4, <4>1, <5>1, <5>3 DEF Counted
      <4>2. CASE u # t
        <5>1. pc'[u] = pc[u] /\ retries'[u] = retries[u] /\ attempt'[u] = attempt[u]
          BY <1>1, <2>1, <2>4, <2>6, <3>4, <4>2 DEF Go
        <5>2. QED
          BY <1>1, <5>1 DEF Counted, AttemptShape
      <4>3. QED
        BY <4>1, <4>2
    <3>7. QED
      BY <2>2, <2>3, <3>5, <3>6, ShapeParts DEF AttemptShape
  <2>7. QED
    BY <1>15, <2>5, <2>6 DEF Release, Return
<1>16. QED
  BY <1>5, <1>6, <1>7, <1>8, <1>9, <1>10, <1>11, <1>12, <1>13, <1>14, <1>15 DEF Talon

LEMMA NextShape == Shape /\ [Next]_vars => Shape'
<1> SUFFICES ASSUME Shape, [Next]_vars PROVE Shape'
  OBVIOUS
<1>1. CASE UNCHANGED vars
  BY <1>1 DEF vars, talonVars, shellVars, logVars, Shape, TypeOK, Counted, Exits, Own
<1>2. CASE Next
  <2>1. CASE Done
    BY <1>1, <2>1 DEF Done
  <2>2. CASE \E t \in Talons : Talon(t)
    BY <2>2, TalonShape
  <2>3. CASE \E t \in Talons : Shell(t) \/ BackgroundEnds(t) \/ ChildSig(t)
    BY <2>3, ShellShape
  <2>4. QED
    BY <1>2, <2>1, <2>2, <2>3 DEF Next
<1>3. QED
  BY <1>1, <1>2

LEMMA ShapeInvariant == Spec => []Shape
BY InitShape, NextShape, PTL DEF Spec

(* The state keeps its types: above all, talon makes at most one attempt   *)
(* more than TALON_RETRIES.                                                *)
THEOREM TypeCorrect == Spec => []TypeOK
<1>1. Shape => TypeOK
  BY DEF Shape
<1>2. QED
  BY <1>1, ShapeInvariant, PTL
-----------------------------------------------------------------------------
(* Why the log is not scrambled.  Until a talon goes on without it, the    *)
(* semaphore lets one descrambling talon write at a time; what has been    *)
(* written of its attempt is followed by its own pieces or by those of     *)
(* talons that do not descramble; and an attempt that has not begun to     *)
(* write has nothing in the log.                                           *)

Writer(t) == pc[t] = "write" /\ opts[t].descramble
Before == {"poll", "kill", "wait", "tag", "sema"}

Fresh ==
  \A t \in Talons : \A i \in DOMAIN log :
    log[i].talon = t =>
      /\ log[i].attempt <= attempt[t]
      /\ pc[t] \in Before => log[i].attempt < attempt[t]

Mutex ==
  ~ lapsed =>
    /\ sema \in {0, 1, NoSema}
    /\ \A t \in Talons : Writer(t) => sema = 0
    /\ \A t, u \in Talons : Writer(t) /\ Writer(u) => t = u

Open ==
  ~ lapsed =>
    \A t \in Talons : Writer(t) =>
      \A i, j \in DOMAIN log :
        /\ i < j
        /\ log[i].talon = t /\ log[i].attempt = attempt[t]
        /\ opts[log[j].talon].descramble
        => log[j].talon = t

ApartInv == Fresh /\ Mutex /\ Open /\ Unscrambled

\* What the log of a state that has its shape is made of.
LEMMA LogPlaces ==
  ASSUME Shape, NEW i \in DOMAIN log
  PROVE  /\ log[i] \in Pieces /\ log[i].talon \in Talons
         /\ log[i].attempt \in Int /\ i \in Int
<1>1. log \in Seq(Pieces) /\ MaxRetries \in Nat
  BY TalonAssumption DEF Shape, TypeOK
<1>2. log[i] \in Pieces /\ i \in Int
  BY <1>1
<1>3. QED
  BY <1>1, <1>2 DEF Pieces

LEMMA ShapeFacts ==
  ASSUME Shape
  PROVE  /\ pc \in [Talons -> Labels] /\ attempt \in [Talons -> 0 .. MaxRetries + 1]
         /\ output \in [Talons -> Seq(Seq(Pieces))]
         /\ \A t \in Talons : attempt[t] \in Int /\ opts[t].descramble \in BOOLEAN
         /\ sema \in Nat \cup {NoSema} /\ NoSema \notin Nat
<1>1. MaxRetries \in Nat /\ NoSema \notin Nat
  BY TalonAssumption
<1>2. TypeOK
  BY DEF Shape
<1>3. attempt \in [Talons -> 0 .. MaxRetries + 1]
  BY <1>2 DEF TypeOK
<1>4. \A t \in Talons : attempt[t] \in Int
  BY <1>1, <1>3
<1>5. QED
  BY <1>1, <1>2, <1>3, <1>4, OptionTypes DEF TypeOK

\* A step that writes nothing and makes no writer.
LEMMA KeepsApart ==
  ASSUME ApartInv, UNCHANGED <<opts, attempt, sema, log, lapsed>>,
         \A u \in Talons : /\ pc'[u] = "write" => pc[u] = "write" \/ ~ opts[u].descramble
                           /\ pc'[u] \in Before => pc[u] \in Before
  PROVE  ApartInv'
<1>1. \A u \in Talons : Writer(u)' => Writer(u)
  BY DEF Writer
<1>2. Fresh'
  BY DEF ApartInv, Fresh
<1>3. Mutex'
  BY <1>1 DEF ApartInv, Mutex
<1>4. Open'
  BY <1>1 DEF ApartInv, Open
<1>5. Unscrambled'
  BY DEF ApartInv, Unscrambled
<1>6. QED
  BY <1>2, <1>3, <1>4, <1>5 DEF ApartInv

LEMMA BeginsApart ==
  ASSUME Shape, ApartInv, NEW t \in Talons, pc[t] = "spawn", NewProc(t),
         NEW l \in {"poll", "tag"}, Go(t, l), UNCHANGED <<opts, logVars>>
  PROVE  ApartInv'
<1>1. /\ \A u \in Talons : attempt'[u] = IF u = t THEN attempt[t] + 1 ELSE attempt[u]
      /\ \A u \in Talons : pc'[u] = IF u = t THEN l ELSE pc[u]
      /\ UNCHANGED <<sema, log, lapsed>>
  BY ShapeFacts DEF NewProc, Go, logVars
<1>2. \A u \in Talons : Writer(u)' => Writer(u) /\ u # t
  BY <1>1 DEF Writer
<1>3. Fresh'
  <2> SUFFICES ASSUME NEW u \in Talons, NEW i \in DOMAIN log, log[i].talon = u
               PROVE  /\ log[i].attempt <= attempt'[u]
                      /\ pc'[u] \in Before => log[i].attempt < attempt'[u]
    BY <1>1 DEF Fresh
  <2>1. log[i].attempt \in Int /\ attempt[u] \in Int
    BY LogPlaces, ShapeFacts
  <2>2. /\ log[i].attempt <= attempt[u]
        /\ pc[u] \in Before => log[i].attempt < attempt[u]
    BY DEF ApartInv, Fresh
  <2>3. QED
    BY <1>1, <2>1, <2>2
<1>4. Mutex'
  BY <1>1, <1>2 DEF ApartInv, Mutex
<1>5. Open'
  BY <1>1, <1>2 DEF ApartInv, Open
<1>6. Unscrambled'
  BY <1>1 DEF ApartInv, Unscrambled
<1>7. QED
  BY <1>3, <1>4, <1>5, <1>6 DEF ApartInv

LEMMA SemaApart ==
  ASSUME Shape, ApartInv, NEW t \in Talons, SemaWait(t)
  PROVE  ApartInv'
<1>1. /\ pc[t] = "sema" /\ UNCHANGED <<opts, attempt, log>>
      /\ IF sema \in Nat \ {0}
         THEN sema' = sema - 1 /\ UNCHANGED lapsed
         ELSE lapsed' = TRUE /\ UNCHANGED sema
  BY DEF SemaWait, talonVars
<1>2. \A u \in Talons : pc'[u] = IF u = t THEN "write" ELSE pc[u]
  BY ShapeFacts DEF SemaWait, Go
<1>3. Fresh'
  BY <1>1, <1>2 DEF ApartInv, Fresh, Before
<1>4. Unscrambled'
  BY <1>1 DEF ApartInv, Unscrambled
<1>5. CASE lapsed'
  BY <1>3, <1>4, <1>5 DEF ApartInv, Mutex, Open
<1>6. CASE ~ lapsed'
  <2>1. ~ lapsed /\ sema \in Nat \ {0} /\ sema' = sema - 1
    BY <1>1, <1>6
  <2>2. sema = 1 /\ \A u \in Talons : ~ Writer(u)
    BY <2>1, ShapeFacts DEF ApartInv, Mutex
  <2>3. \A u \in Talons : Writer(u)' => u = t
    BY <1>1, <1>2, <2>2 DEF Writer
  <2>4. Mutex'
    BY <2>1, <2>2, <2>3 DEF Mutex
  <2>5. Open'
    <3> SUFFICES ASSUME NEW i \in DOMAIN log, log[i].talon = t,
                        log[i].attempt = attempt[t]
                 PROVE  FALSE
      BY <1>1, <2>3 DEF Open
    <3>1. log[i].attempt < attempt[t]
      BY <1>1 DEF ApartInv, Fresh, Before
    <3>2. QED
      BY <3>1, ShapeFacts
  <2>6. QED
    BY <1>3, <1>4, <2>4, <2>5 DEF ApartInv
<1>7. QED
  BY <1>5, <1>6

LEMMA WriteApart ==
  ASSUME Shape, ApartInv, NEW t \in Talons, Write(t)
  PROVE  ApartInv'
<1> DEFINE b == Head(output[t])
<1>1. /\ pc[t] = "write" /\ output[t] # <<>> /\ log' = log \o b
      /\ UNCHANGED <<opts, pc, attempt, sema, lapsed>>
  BY DEF Write
<1>2. b \in Seq(Own(t)) /\ log \in Seq(Pieces)
  <2>1. output[t] \in Seq(Seq(Own(t)))
    BY DEF Shape
  <2>2. QED
    BY <1>1, <2>1, TailType DEF Shape, TypeOK
<1> HIDE DEF b
<1>3. /\ Len(log) \in Nat /\ DOMAIN log = 1 .. Len(log)
      /\ \A i \in DOMAIN log' :
           /\ i \in Nat
           /\ \/ i \in DOMAIN log /\ log'[i] = log[i]
              \/ /\ i > Len(log)
                 /\ log'[i].talon = t /\ log'[i].attempt = attempt[t]
  BY <1>1, <1>2, ConcatPlaces DEF Own
<1>4. \A u \in Talons : Writer(u)' <=> Writer(u)
  BY <1>1 DEF Writer
<1>5. Fresh'
  <2> SUFFICES ASSUME NEW u \in Talons, NEW i \in DOMAIN log', log'[i].talon = u
               PROVE  /\ log'[i].attempt <= attempt[u]
                      /\ pc[u] \in Before => log'[i].attempt < attempt[u]
    BY <1>1 DEF Fresh
  <2>1. attempt[u] \in Int
    BY ShapeFacts
  <2>2. CASE i \in DOMAIN log /\ log'[i] = log[i]
    BY <2>2 DEF ApartInv, Fresh
  <2>3. CASE log'[i].talon = t /\ log'[i].attempt = attempt[t]
    BY <1>1, <2>1, <2>3 DEF Before
  <2>4. QED
    BY <1>3, <2>2, <2>3
<1>6. Mutex'
  BY <1>1, <1>4 DEF ApartInv, Mutex
<1>7. Open'
  <2> SUFFICES ASSUME ~ lapsed, NEW u \in Talons, Writer(u),
                      NEW i \in DOMAIN log', NEW j \in DOMAIN log', i < j,
                      log'[i].talon = u, log'[i].attempt = attempt[u],
                      opts[log'[j].talon].descramble
               PROVE  log'[j].talon = u
    BY <1>1, <1>4 DEF Open
  <2>1. CASE j \in DOMAIN log /\ log'[j] = log[j]
    <3>1. i \in DOMAIN log /\ log'[i] = log[i]
      BY <1>3, <2>1
    <3>2. QED
      BY <2>1, <3>1 DEF ApartInv, Open
  <2>2. CASE log'[j].talon = t
    BY <1>1, <2>2 DEF Writer, ApartInv, Mutex
  <2>3. QED
    BY <1>3, <2>1, <2>2
<1>8. Unscrambled'
  <2> SUFFICES ASSUME ~ lapsed, NEW i \in DOMAIN log', NEW j \in DOMAIN log',
                      NEW k \in DOMAIN log', i < j, j < k,
                      log'[i].talon = log'[k].talon,
                      log'[i].attempt = log'[k].attempt,
                      opts[log'[i].talon].descramble,
                      opts[log'[j].talon].descramble
               PROVE  log'[j].talon = log'[i].talon
    BY <1>1 DEF Unscrambled
  <2>1. CASE k \in DOMAIN log /\ log'[k] = log[k]
    <3>1. /\ i \in DOMAIN log /\ log'[i] = log[i]
          /\ j \in DOMAIN log /\ log'[j] = log[j]
      BY <1>3, <2>1
    <3>2. QED
      BY <2>1, <3>1 DEF ApartInv, Unscrambled
  <2>2. CASE log'[k].talon = t /\ log'[k].attempt = attempt[t]
    <3>1. Writer(t)
      BY <1>1, <2>2 DEF Writer
    <3>2. CASE j \in DOMAIN log /\ log'[j] = log[j]
      <4>1. i \in DOMAIN log /\ log'[i] = log[i]
        BY <1>3, <3>2
      <4>2. QED
        BY <2>2, <3>1, <3>2, <4>1 DEF ApartInv, Open
    <3>3. CASE log'[j].talon = t
      BY <2>2, <3>3
    <3>4. QED
      BY <1>3, <3>2, <3>3
  <2>3. QED
    BY <1>3, <2>1, <2>2
<1>9. QED
  BY <1>5, <1>6, <1>7, <1>8 DEF ApartInv

LEMMA ReleaseApart ==
  ASSUME Shape, ApartInv, NEW t \in Talons, Release(t)
  PROVE  ApartInv'
<1>1. /\ pc[t] = "write" /\ UNCHANGED <<opts, attempt, log, lapsed>>
      /\ sema' = sema \/ (sema' = sema + 1 /\ opts[t].descramble)
      /\ opts[t].descramble /\ sema # NoSema => sema' = sema + 1
  BY DEF Release
<1>2. PICK l \in {"done", "crashed", "spawn"} : Go(t, l)
  BY DEF Release, Return
<1>3. \A u \in Talons : pc'[u] = IF u = t THEN l ELSE pc[u]
  BY <1>2, ShapeFacts DEF Go
<1>4. \A u \in Talons : Writer(u)' => Writer(u) /\ u # t
  BY <1>1, <1>3 DEF Writer
<1>5. Fresh'
  BY <1>1, <1>3 DEF ApartInv, Fresh, Before
<1>6. Unscrambled'
  BY <1>1 DEF ApartInv, Unscrambled
<1>7. Open'
  BY <1>1, <1>4 DEF ApartInv, Open
<1>8. Mutex'
  <2>1. CASE opts[t].descramble /\ ~ lapsed
    <3>1. Writer(t) /\ sema = 0 /\ sema' = 1
      BY <1>1, <2>1, ShapeFacts DEF ApartInv, Mutex, Writer
    <3>2. \A u \in Talons : ~ Writer(u)'
      BY <1>4, <2>1, <3>1 DEF ApartInv, Mutex
    <3>3. QED
      BY <3>1, <3>2 DEF Mutex
  <2>2. CASE ~ opts[t].descramble
    BY <1>1, <1>4, <2>2 DEF ApartInv, Mutex
  <2>3. CASE lapsed
    BY <1>1, <2>3 DEF Mutex
  <2>4. QED
    BY <2>1, <2>2, <2>3
<1>9. QED
  BY <1>5, <1>6, <1>7, <1>8 DEF ApartInv

\* What the other steps of talon do to the semaphore and the log.
LEMMA TalonApart ==
  ASSUME Shape, ApartInv, NEW t \in Talons, Talon(t)
  PROVE  ApartInv'
<1>1. CASE Fork(t)
  <2>1. pc[t] = "spawn" /\ NewProc(t) /\ Go(t, "poll") /\ UNCHANGED <<opts, logVars>>
    BY <1>1 DEF Fork
  <2>2. QED
    BY <2>1, BeginsApart
<1>2. CASE ForkFails(t)
  <2>1. pc[t] = "spawn" /\ NewProc(t) /\ Go(t, "tag") /\ UNCHANGED <<opts, logVars>>
    BY <1>2 DEF ForkFails
  <2>2. QED
    BY <2>1, BeginsApart
<1>3. CASE PollReads(t) \/ PollInterrupted(t) \/ PollTimesOut(t) \/ Kill(t) \/ WaitPid(t)
  <2>1. pc[t] \in Before /\ UNCHANGED <<opts, attempt, sema, log, lapsed>>
    BY <1>3 DEF PollReads, PollInterrupted, PollTimesOut, Kill, WaitPid, Before,
                talonVars, logVars
  <2>2. PICK l \in {"poll", "wait", "failed", "kill", "tag"} : Go(t, l)
    BY <1>3 DEF PollReads, PollInterrupted, PollTimesOut, Kill, WaitPid
  <2>3. \A u \in Talons : pc'[u] = IF u = t THEN l ELSE pc[u]
    BY <2>2, ShapeFacts DEF Go
  <2>4. QED
    BY <2>1, <2>3, KeepsApart
<1>4. CASE Tag(t)
  <2>1. pc[t] \in Before /\ UNCHANGED <<opts, attempt, sema, log, lapsed>>
    BY <1>4 DEF Tag, Before, logVars
  <2>2. \A u \in Talons :
          pc'[u] = IF u = t THEN IF opts[t].descramble THEN "sema" ELSE "write"
                   ELSE pc[u]
    BY <1>4, ShapeFacts DEF Tag, Go
  <2>3. QED
    BY <2>1, <2>2, KeepsApart
<1>5. QED
  BY <1>1, <1>2, <1>3, <1>4, SemaApart, WriteApart, ReleaseApart DEF Talon

LEMMA NextApart == Shape /\ ApartInv /\ [Next]_vars => ApartInv'
<1> SUFFICES ASSUME Shape, ApartInv, [Next]_vars PROVE ApartInv'
  OBVIOUS
<1>1. CASE \E t \in Talons : Talon(t)
  BY <1>1, TalonApart
<1>2. CASE \/ UNCHANGED vars
           \/ \E t \in Talons : Shell(t) \/ BackgroundEnds(t) \/ ChildSig(t)
  <2>1. UNCHANGED <<opts, pc, attempt, sema, log, lapsed>>
    BY <1>2 DEF vars, talonVars, logVars, Shell, ShellWrites, ShellCloses,
                ShellLeaves, ShellExits, BackgroundEnds, ChildSig
  <2>2. QED
    BY <2>1, KeepsApart
<1>3. QED
  BY <1>1, <1>2 DEF Next, Done

LEMMA ApartInvariant == Spec => []ApartInv
<1>1. Init => ApartInv
  BY DEF Init, ApartInv, Fresh, Mutex, Open, Unscrambled, Writer
<1>2. Shape /\ ApartInv /\ [Next]_vars => ApartInv'
  BY NextApart
<1>3. QED
  BY <1>1, <1>2, ShapeInvariant, PTL DEF Spec

(* The output of one attempt is not torn apart by another talon that       *)
(* descrambles, until a talon has gone on without the semaphore: for any   *)
(* number of talons, of retries and of pieces.  (sema.c, talon.c:612-619.) *)
THEOREM Apart == Spec => []Unscrambled
<1>1. ApartInv => Unscrambled
  BY DEF ApartInv
<1>2. QED
  BY <1>1, ApartInvariant, PTL
-----------------------------------------------------------------------------
(* What the log tells of a recipe.  Until an attempt begins to write, the  *)
(* last that its talon has said is that the one before it is tried again;  *)
(* its buffer then holds the tag, what was read, and its status at the     *)
(* end; and while it writes, what is written and what the buffer still     *)
(* holds are the two parts of one group.                                   *)

Reads(t) == {p \in Own(t) : p.kind \in Streams}

\* Attempt a has been told, and was not the last; or none has.
Heard(t, a) ==
  IF a = 0 THEN Mine(t) = {}
  ELSE \E i \in Mine(t) :
         IsLast(t, i) /\ log[i].kind = "retry" /\ log[i].attempt = a

\* What was read, and the status after it.
Rest(t, b) ==
  \E c \in Seq(Seq(Reads(t))), d \in Seq(Reads(t)) :
    b = Append(c, Append(d, Piece(t, Status(t))))

Tagged(t) ==
  /\ output[t] # <<>>
  /\ Head(output[t]) = <<Piece(t, "recipe")>>
  /\ Rest(t, Tail(output[t]))

Unwritten(t) == Heard(t, attempt[t] - 1) /\ Tagged(t)

Begun(t) ==
  /\ Rest(t, output[t])
  /\ \E i \in Mine(t) : /\ IsLast(t, i) /\ log[i].attempt = attempt[t]
                        /\ log[i].kind \notin Statuses

AllWritten(t) ==
  /\ output[t] = <<>>
  /\ \E i \in Mine(t) : /\ IsLast(t, i) /\ log[i].attempt = attempt[t]
                        /\ log[i].kind = Status(t)

Reported(t) ==
  /\ \E i \in Mine(t) :
       /\ IsLast(t, i)
       /\ log[i].kind = IF returncode[t] = 0 THEN "ok" ELSE "failed"
  /\ ~ opts[t].force => returned[t] = returncode[t]

Tells(t) ==
  /\ Told(t)
  /\ pc[t] = "spawn" => Heard(t, attempt[t])
  /\ pc[t] \in Before => Heard(t, attempt[t] - 1)
  /\ pc[t] \in Running => output[t] \in Seq(Seq(Reads(t)))
  /\ pc[t] = "sema" => Tagged(t)
  /\ pc[t] = "write" => Unwritten(t) \/ Begun(t) \/ AllWritten(t)
  /\ pc[t] = "done" => Reported(t)

TellsInv == \A t \in Talons : opts[t].tagging => Tells(t)

\* What stands before the last of a sequence, and after its first.
LEMMA AppendParts ==
  ASSUME NEW S, NEW s \in Seq(S), NEW x \in S
  PROVE  Front(Append(s, x)) = s /\ Last(Append(s, x)) = x
<1> DEFINE a == Append(s, x)
<1>1. /\ a \in Seq(S) /\ Len(a) = Len(s) + 1 /\ Len(s) \in Nat
      /\ \A i \in 1 .. Len(s) : a[i] = s[i]
      /\ a[Len(s) + 1] = x
  BY AppendProperties
<1> HIDE DEF a
<1>2. Last(a) = x
  BY <1>1 DEF Last
<1>3. Front(a) = SubSeq(a, 1, Len(s))
  BY <1>1 DEF Front
<1>4. \A i \in 1 .. Len(s) : a[i] \in S
  BY <1>1
<1>5. /\ Front(a) \in Seq(S) /\ Len(Front(a)) = Len(s)
      /\ \A i \in 1 .. Len(s) : Front(a)[i] = s[i]
  BY <1>1, <1>3, <1>4, SubSeqProperties
<1>6. Front(a) = s
  BY <1>5, SeqEqual
<1>7. QED
  BY <1>2, <1>6 DEF a

LEMMA UnitConcat ==
  ASSUME NEW S, NEW x \in S, NEW s \in Seq(S)
  PROVE  <<x>> \o s # <<>> /\ Head(<<x>> \o s) = x /\ Tail(<<x>> \o s) = s
<1> DEFINE c == <<x>> \o s
<1>1. /\ <<x>> \in Seq(S) /\ Len(<<x>>) = 1 /\ <<x>>[1] = x /\ Len(s) \in Nat
  OBVIOUS
<1>2. /\ c \in Seq(S) /\ Len(c) = Len(s) + 1
      /\ \A i \in 1 .. 1 + Len(s) : c[i] = IF i <= 1 THEN <<x>>[i] ELSE s[i - 1]
  BY <1>1, ConcatProperties
<1> HIDE DEF c
<1>3. c # <<>> /\ Head(c) = x
  BY <1>1, <1>2
<1>4. /\ Tail(c) \in Seq(S) /\ Len(Tail(c)) = Len(s)
      /\ \A i \in 1 .. Len(s) : Tail(c)[i] = c[i + 1]
  BY <1>1, <1>2, <1>3, HeadTailProperties
<1>5. \A i \in 1 .. Len(s) : Tail(c)[i] = s[i]
  BY <1>1, <1>2, <1>4
<1>6. Tail(c) = s
  BY <1>4, <1>5, SeqEqual
<1>7. QED
  BY <1>3, <1>6 DEF c

\* The tag before a buffer, and something at its end.
LEMMA TagPlaces ==
  ASSUME NEW S, NEW b \in Seq(S), b # <<>>, NEW x \in S, NEW y \in S
  PROVE  /\ Last(<<x>> \o b) = Last(b)
         /\ Front(<<x>> \o b) \o <<y>> # <<>>
         /\ Head(Front(<<x>> \o b) \o <<y>>) = x
         /\ Tail(Front(<<x>> \o b) \o <<y>>) = Append(Front(b), y)
<1>1. PICK a \in Seq(S), e \in S : b = Append(a, e)
  BY SequenceEmptyOrAppend
<1>2. Front(b) = a /\ Last(b) = e
  BY <1>1, AppendParts
<1> DEFINE d == <<x>> \o a
<1>3. <<x>> \in Seq(S) /\ <<y>> \in Seq(S) /\ <<e>> \in Seq(S)
  OBVIOUS
<1>4. d \in Seq(S) /\ a \o <<y>> \in Seq(S)
  BY <1>3, ConcatProperties
<1>5. <<x>> \o b = Append(d, e)
  <2>1. b = a \o <<e>>
    BY <1>1, AppendIsConcat
  <2>2. <<x>> \o (a \o <<e>>) = (<<x>> \o a) \o <<e>>
    BY <1>3, ConcatAssociative
  <2>3. d \o <<e>> = Append(d, e)
    BY <1>4, AppendIsConcat
  <2>4. QED
    BY <2>1, <2>2, <2>3
<1>6. d \o <<y>> = <<x>> \o (a \o <<y>>)
  BY <1>3, ConcatAssociative
<1>7. a \o <<y>> = Append(a, y)
  BY AppendIsConcat
<1> HIDE DEF d
<1>8. Front(<<x>> \o b) = d /\ Last(<<x>> \o b) = e
  BY <1>4, <1>5, AppendParts
<1>9. /\ d \o <<y>> # <<>> /\ Head(d \o <<y>>) = x
      /\ Tail(d \o <<y>>) = a \o <<y>>
  BY <1>4, <1>6, UnitConcat
<1>10. QED
  BY <1>2, <1>7, <1>8, <1>9

-----------------------------------------------------------------------------
(* The buffer of an attempt, from its first read to its last block.        *)

LEMMA ReadsOwn ==
  ASSUME NEW t \in Talons
  PROVE  Seq(Reads(t)) \subseteq Seq(Own(t)) /\ Seq(Seq(Reads(t))) \subseteq Seq(Seq(Own(t)))
<1>1. Reads(t) \subseteq Own(t)
  BY DEF Reads
<1>2. Seq(Reads(t)) \subseteq Seq(Own(t))
  BY <1>1, SeqMono
<1>3. QED
  BY <1>2, SeqMono

LEMMA ReadsKept ==
  ASSUME NEW t \in Talons, TalonTypes, attempt[t] >= 1,
         NEW b \in Seq(Seq(Reads(t))), b # <<>>
  PROVE  ReadAll(b, t) \in Seq(Seq(Reads(t)))
<1>1. Piece(t, "out") \in Reads(t) /\ Piece(t, "err") \in Reads(t)
  BY OwnPiece DEF Kinds, Streams, Reads, Piece
<1> DEFINE one(bb, s) == IF s \in Readable(t) THEN AddRead(bb, Piece(t, s)) ELSE bb
<1> DEFINE c == one(b, "out")
<1>2. c \in Seq(Seq(Reads(t))) /\ c # <<>>
  BY <1>1, BufferTypes
<1> HIDE DEF c
<1>3. one(c, "err") \in Seq(Seq(Reads(t)))
  BY <1>1, <1>2, BufferTypes
<1>4. ReadAll(b, t) = one(c, "err")
  BY DEF ReadAll, c
<1>5. QED
  BY <1>3, <1>4

\* Tag puts the buffer of the attempt between its tag and its status.
LEMMA TagsRest ==
  ASSUME NEW t \in Talons, TalonTypes, attempt[t] >= 1,
         NEW b \in Seq(Seq(Reads(t))), b # <<>>,
         NEW c, c = AddText(PrependText(b, Piece(t, "recipe")), Piece(t, Status(t)))
  PROVE  c # <<>> /\ Head(c) = <<Piece(t, "recipe")>> /\ Rest(t, Tail(c))
<1> DEFINE r == Piece(t, "recipe")
           s == Piece(t, Status(t))
<1>1. r \in Own(t) /\ s \in Own(t)
  BY OwnPiece DEF Kinds, Status
<1>2. Front(b) \in Seq(Seq(Reads(t))) /\ Last(b) \in Seq(Reads(t))
  BY EndsType
<1>3. b \in Seq(Seq(Own(t))) /\ Last(b) \in Seq(Own(t))
  BY <1>2, ReadsOwn
<1> HIDE DEF r, s
<1> DEFINE y == Append(Last(b), s)
<1>4. <<r>> \in Seq(Own(t)) /\ y \in Seq(Own(t))
  BY <1>1, <1>3, AppendType
<1> HIDE DEF y
<1>5. /\ Last(<< <<r>> >> \o b) = Last(b)
      /\ Front(<< <<r>> >> \o b) \o <<y>> # <<>>
      /\ Head(Front(<< <<r>> >> \o b) \o <<y>>) = <<r>>
      /\ Tail(Front(<< <<r>> >> \o b) \o <<y>>) = Append(Front(b), y)
  BY <1>3, <1>4, TagPlaces
<1>6. c = Front(<< <<r>> >> \o b) \o << Append(Last(<< <<r>> >> \o b), s) >>
  BY DEF AddText, PrependText, r, s
<1>7. c = Front(<< <<r>> >> \o b) \o <<y>>
  BY <1>5, <1>6 DEF y
<1>8. Tail(c) = Append(Front(b), Append(Last(b), Piece(t, Status(t))))
  BY <1>5, <1>7 DEF y, s
<1>9. QED
  BY <1>2, <1>5, <1>7, <1>8 DEF Rest, r

\* The next block of a buffer whose tag has been written: what was read, and
\* more to come, or the last block, with the status at its end.
LEMMA RestParts ==
  ASSUME NEW t \in Talons, NEW b, Rest(t, b)
  PROVE  /\ b # <<>>
         /\ \/ Head(b) \in Seq(Reads(t)) /\ Rest(t, Tail(b))
            \/ /\ Tail(b) = <<>>
               /\ \E d \in Seq(Reads(t)) : Head(b) = Append(d, Piece(t, Status(t)))
<1>1. PICK c \in Seq(Seq(Reads(t))), d \in Seq(Reads(t)) :
        b = Append(c, Append(d, Piece(t, Status(t))))
  BY DEF Rest
<1> DEFINE y == Append(d, Piece(t, Status(t)))
<1>2. b = Append(c, y)
  BY <1>1
<1>3. b # <<>>
  <2> HIDE DEF y
  <2>1. Len(b) = Len(c) + 1 /\ Len(c) \in Nat
    BY <1>2
  <2>2. QED
    BY <2>1
<1>4. CASE c = <<>>
  <2>1. Head(b) = y /\ Tail(b) = <<>>
    BY <1>2, <1>4, HeadTailAppend
  <2>2. QED
    BY <1>3, <2>1
<1>5. CASE c # <<>>
  <2>1. Head(b) = Head(c) /\ Tail(b) = Append(Tail(c), y)
    BY <1>2, <1>5, HeadTailAppend
  <2>2. Head(c) \in Seq(Reads(t)) /\ Tail(c) \in Seq(Seq(Reads(t)))
    BY <1>5, TailType
  <2>3. Rest(t, Tail(b))
    BY <2>1, <2>2 DEF Rest
  <2>4. QED
    BY <1>3, <2>1, <2>2, <2>3
<1>6. QED
  BY <1>4, <1>5

-----------------------------------------------------------------------------
(* What a talon's block adds to what the log tells of it.                  *)

\* A block that carries on where the log stops tells one thing after another.
CarriesOn(t, b) ==
  /\ \/ Mine(t) = {} /\ b[1].kind = "recipe" /\ b[1].attempt = 1
     \/ \E i \in Mine(t) : IsLast(t, i) /\ Follows(log[i], b[1])
  /\ \A m \in 1 .. Len(b) - 1 : Follows(b[m], b[m + 1])

LEMMA MineInt ==
  ASSUME Shape, NEW t
  PROVE  \A i \in Mine(t) : i \in 1 .. Len(log)
<1>1. log \in Seq(Pieces)
  BY DEF Shape, TypeOK
<1>2. QED
  BY <1>1 DEF Mine

LEMMA WrittenBlock ==
  ASSUME Shape, NEW t \in Talons, NEW b \in Seq(Own(t)), log' = log \o b
  PROVE  /\ Len(log) \in Nat /\ Len(b) \in Nat
         /\ \A i \in Mine(t) : i \in Mine(t)' /\ log'[i] = log[i]
         /\ \A m \in 1 .. Len(b) : Len(log) + m \in Mine(t)' /\ log'[Len(log) + m] = b[m]
         /\ \A j \in Mine(t)' :
              j \in Mine(t) \/ (\E m \in 1 .. Len(b) : j = Len(log) + m)
         /\ \A u \in Talons : u # t =>
              Mine(u)' = Mine(u) /\ \A i \in Mine(u) : log'[i] = log[i]
<1>1. log \in Seq(Pieces)
  BY DEF Shape, TypeOK
<1>2. Own(t) \subseteq Pieces
  BY DEF Own
<1>3. b \in Seq(Pieces)
  BY <1>2, SeqMono
<1>4. /\ Len(log) \in Nat /\ Len(b) \in Nat
      /\ DOMAIN log = 1 .. Len(log)
      /\ DOMAIN log' = 1 .. Len(log) + Len(b)
      /\ \A i \in 1 .. Len(log) : log'[i] = log[i]
      /\ \A m \in 1 .. Len(b) : log'[Len(log) + m] = b[m]
  <2>1. /\ log' \in Seq(Pieces) /\ Len(log') = Len(log) + Len(b)
        /\ \A i \in 1 .. Len(log) + Len(b) :
             log'[i] = IF i <= Len(log) THEN log[i] ELSE b[i - Len(log)]
    BY <1>1, <1>3, ConcatProperties
  <2>2. Len(log) \in Nat /\ Len(b) \in Nat
    BY <1>1, <1>3
  <2>3. QED
    BY <1>1, <2>1, <2>2
<1>5. \A m \in 1 .. Len(b) : b[m].talon = t
  BY DEF Own
<1>6. \A i \in Mine(t) : i \in Mine(t)' /\ log'[i] = log[i]
  BY <1>4 DEF Mine
<1>7. \A m \in 1 .. Len(b) : Len(log) + m \in Mine(t)' /\ log'[Len(log) + m] = b[m]
  BY <1>4, <1>5 DEF Mine
<1>8. \A j \in DOMAIN log' : j \in DOMAIN log \/ \E m \in 1 .. Len(b) : j = Len(log) + m
  <2> SUFFICES ASSUME NEW j \in DOMAIN log', j \notin DOMAIN log
               PROVE  \E m \in 1 .. Len(b) : j = Len(log) + m
    OBVIOUS
  <2>1. j - Len(log) \in 1 .. Len(b) /\ j = Len(log) + (j - Len(log))
    BY <1>4
  <2>2. QED
    BY <2>1
<1>9. \A j \in Mine(t)' : j \in Mine(t) \/ \E m \in 1 .. Len(b) : j = Len(log) + m
  BY <1>4, <1>8 DEF Mine
<1>10. ASSUME NEW u \in Talons, u # t
       PROVE  Mine(u)' = Mine(u) /\ \A i \in Mine(u) : log'[i] = log[i]
  <2>1. \A j \in Mine(u)' : j \in Mine(u)
    BY <1>4, <1>5, <1>8, <1>10 DEF Mine
  <2>2. \A j \in Mine(u) : j \in Mine(u)' /\ log'[j] = log[j]
    BY <1>4 DEF Mine
  <2>3. QED
    BY <2>1, <2>2
<1>11. QED
  BY <1>4, <1>6, <1>7, <1>9, <1>10

\* The last of a block that is not empty is the last of its talon.
LEMMA LastWritten ==
  ASSUME Shape, NEW t \in Talons, NEW b \in Seq(Own(t)), b # <<>>, log' = log \o b
  PROVE  \E i \in Mine(t)' : IsLast(t, i)' /\ log'[i] = b[Len(b)]
<1>1. /\ Len(log) \in Nat /\ Len(b) \in Nat /\ Len(b) # 0
      /\ \A m \in 1 .. Len(b) : Len(log) + m \in Mine(t)' /\ log'[Len(log) + m] = b[m]
      /\ \A j \in Mine(t)' :
              j \in Mine(t) \/ (\E m \in 1 .. Len(b) : j = Len(log) + m)
  BY WrittenBlock, EmptySeq
<1>2. \A i \in Mine(t) : i \in 1 .. Len(log)
  BY MineInt
<1> DEFINE n == Len(log) + Len(b)
<1>3. n \in Mine(t)' /\ log'[n] = b[Len(b)]
  BY <1>1
<1>4. \A j \in Mine(t)' : j <= n
  BY <1>1, <1>2
<1>5. QED
  BY <1>3, <1>4 DEF IsLast

LEMMA WrittenTold ==
  ASSUME Shape, NEW t \in Talons, NEW b \in Seq(Own(t)), log' = log \o b,
         Told(t), CarriesOn(t, b)
  PROVE  Told(t)'
<1>1. /\ Len(log) \in Nat /\ Len(b) \in Nat
      /\ \A i \in Mine(t) : i \in Mine(t)' /\ log'[i] = log[i]
      /\ \A m \in 1 .. Len(b) : Len(log) + m \in Mine(t)' /\ log'[Len(log) + m] = b[m]
      /\ \A j \in Mine(t)' :
              j \in Mine(t) \/ (\E m \in 1 .. Len(b) : j = Len(log) + m)
  BY WrittenBlock
<1>2. \A i \in Mine(t) : i \in 1 .. Len(log)
  BY MineInt
<1>3. \A k \in Mine(t)' : k \in Mine(t) \/ (k \in Int /\ k > Len(log))
  BY <1>1
<1> SUFFICES ASSUME NEW j \in Mine(t)'
             PROVE  \/ /\ log'[j].kind = "recipe" /\ log'[j].attempt = 1
                       /\ \A k \in Mine(t)' : k >= j
                    \/ \E i \in Mine(t)' :
                         /\ i < j /\ Follows(log'[i], log'[j])
                         /\ \A k \in Mine(t)' : k <= i \/ k >= j
  BY DEF Told, Follows
<1>4. CASE j \in Mine(t)
  <2>1. log'[j] = log[j]
    BY <1>1, <1>4
  <2>2. CASE /\ log[j].kind = "recipe" /\ log[j].attempt = 1
             /\ \A k \in Mine(t) : k >= j
    <3>1. \A k \in Mine(t)' : k >= j
      BY <1>1, <1>2, <1>3, <1>4, <2>2
    <3>2. QED
      BY <2>1, <2>2, <3>1
  <2>3. CASE \E i \in Mine(t) :
                /\ i < j /\ Follows(log[i], log[j])
                /\ \A k \in Mine(t) : k <= i \/ k >= j
    <3>1. PICK i \in Mine(t) :
                /\ i < j /\ Follows(log[i], log[j])
                /\ \A k \in Mine(t) : k <= i \/ k >= j
      BY <2>3
    <3>2. i \in Mine(t)' /\ Follows(log'[i], log'[j])
      BY <1>1, <2>1, <3>1
    <3>3. \A k \in Mine(t)' : k <= i \/ k >= j
      BY <1>1, <1>2, <1>3, <1>4, <3>1
    <3>4. QED
      BY <3>1, <3>2, <3>3
  <2>4. QED
    BY <1>4, <2>2, <2>3 DEF Told
<1>5. ASSUME NEW m \in 1 .. Len(b), j = Len(log) + m
      PROVE  \/ /\ log'[j].kind = "recipe" /\ log'[j].attempt = 1
                /\ \A k \in Mine(t)' : k >= j
             \/ \E i \in Mine(t)' :
                  /\ i < j /\ Follows(log'[i], log'[j])
                  /\ \A k \in Mine(t)' : k <= i \/ k >= j
  <2>1. log'[j] = b[m] /\ m \in Int /\ j \in Int
    BY <1>1, <1>5
  <2>2. CASE m = 1
    <3>1. \A k \in Mine(t)' : k \in Mine(t) \/ k >= j
      BY <1>1, <1>3, <1>5, <2>2
    <3>2. CASE Mine(t) = {} /\ b[1].kind = "recipe" /\ b[1].attempt = 1
      BY <2>1, <2>2, <3>1, <3>2
    <3>3. CASE \E i \in Mine(t) : IsLast(t, i) /\ Follows(log[i], b[1])
      <4>1. PICK i \in Mine(t) : IsLast(t, i) /\ Follows(log[i], b[1])
        BY <3>3
      <4>2. i \in Mine(t)' /\ log'[i] = log[i] /\ log'[j] = b[1]
        BY <1>1, <2>1, <2>2
      <4>3. i < j
        BY <1>1, <1>2, <1>5
      <4>4. Follows(log'[i], log'[j])
        BY <4>1, <4>2
      <4>5. \A k \in Mine(t)' : k <= i \/ k >= j
        BY <3>1, <4>1 DEF IsLast
      <4>6. QED
        BY <4>2, <4>3, <4>4, <4>5
    <3>4. QED
      BY <3>2, <3>3 DEF CarriesOn
  <2>3. CASE m # 1
    <3> DEFINE i == Len(log) + (m - 1)
    <3>1. m - 1 \in 1 .. Len(b) - 1 /\ m - 1 \in 1 .. Len(b) /\ (m - 1) + 1 = m
      BY <1>1, <2>3
    <3>2. i \in Mine(t)' /\ log'[i] = b[m - 1] /\ i < j
      BY <1>1, <1>5, <3>1
    <3>3. Follows(b[m - 1], b[m])
      BY <3>1 DEF CarriesOn
    <3>4. \A k \in Mine(t)' : k <= i \/ k >= j
      BY <1>1, <1>2, <1>5, <2>1, <3>1
    <3>5. QED
      BY <2>1, <3>2, <3>3, <3>4
  <2>4. QED
    BY <2>2, <2>3
<1>6. QED
  BY <1>1, <1>4, <1>5

-----------------------------------------------------------------------------
(* What leaves a talon and its part of the log alone keeps what is told.   *)

LEMMA SameLog ==
  ASSUME NEW t, Mine(t)' = Mine(t), \A i \in Mine(t) : log'[i] = log[i]
  PROVE  /\ Told(t) => Told(t)'
         /\ \A a : Heard(t, a) => Heard(t, a)'
         /\ \A i \in Mine(t) : IsLast(t, i) => IsLast(t, i)'
<1>1. \A i \in Mine(t) : IsLast(t, i) => IsLast(t, i)'
  BY DEF IsLast
<1>2. Told(t) => Told(t)'
  BY DEF Told, Follows
<1>3. \A a : Heard(t, a) => Heard(t, a)'
  BY <1>1 DEF Heard
<1>4. QED
  BY <1>1, <1>2, <1>3

LEMMA SameAttempt ==
  ASSUME NEW t, attempt'[t] = attempt[t]
  PROVE  /\ Reads(t)' = Reads(t)
         /\ \A k : Piece(t, k)' = Piece(t, k)
         /\ /\ opts' = opts /\ retries'[t] = retries[t] /\ returncode'[t] = returncode[t]
            => Status(t)' = Status(t) /\ \A b : Rest(t, b) => Rest(t, b)'
<1>1. Reads(t)' = Reads(t) /\ \A k : Piece(t, k)' = Piece(t, k)
  BY DEF Reads, Own, Piece
<1>2. ASSUME opts' = opts, retries'[t] = retries[t], returncode'[t] = returncode[t]
      PROVE  Status(t)' = Status(t) /\ \A b : Rest(t, b) => Rest(t, b)'
  <2>1. Status(t)' = Status(t)
    BY <1>2 DEF Status
  <2>2. \A b : Rest(t, b) => Rest(t, b)'
    BY <1>1, <2>1 DEF Rest
  <2>3. QED
    BY <2>1, <2>2
<1>3. QED
  BY <1>1, <1>2

Untouched(u) ==
  /\ opts' = opts
  /\ pc'[u] = pc[u] /\ attempt'[u] = attempt[u] /\ retries'[u] = retries[u]
  /\ output'[u] = output[u] /\ returncode'[u] = returncode[u]
  /\ returned'[u] = returned[u]
  /\ Mine(u)' = Mine(u) /\ \A i \in Mine(u) : log'[i] = log[i]

LEMMA UntouchedTells ==
  ASSUME NEW u \in Talons, Tells(u), Untouched(u)
  PROVE  Tells(u)'
<1>1. /\ Told(u)'
      /\ \A a : Heard(u, a) => Heard(u, a)'
      /\ \A i \in Mine(u) : IsLast(u, i) => IsLast(u, i)'
  BY SameLog DEF Untouched, Tells
<1>2. /\ Reads(u)' = Reads(u) /\ \A k : Piece(u, k)' = Piece(u, k)
      /\ Status(u)' = Status(u) /\ \A b : Rest(u, b) => Rest(u, b)'
  BY SameAttempt DEF Untouched
<1>3. (pc[u] = "spawn" => Heard(u, attempt[u]))'
  BY <1>1 DEF Untouched, Tells, Heard
<1>4. Heard(u, attempt[u] - 1) => (Heard(u, attempt[u] - 1))'
  BY <1>1 DEF Untouched, Heard
<1>5. (pc[u] \in Running => output[u] \in Seq(Seq(Reads(u))))'
  BY <1>2 DEF Untouched, Tells, Running
<1>6. Tagged(u) => Tagged(u)'
  BY <1>2 DEF Untouched, Tagged
<1>7. Unwritten(u) => Unwritten(u)'
  BY <1>4, <1>6 DEF Unwritten
<1>8. Begun(u) => Begun(u)'
  BY <1>1, <1>2 DEF Untouched, Begun
<1>9. AllWritten(u) => AllWritten(u)'
  BY <1>1, <1>2 DEF Untouched, AllWritten
<1>10. Reported(u) => Reported(u)'
  BY <1>1 DEF Untouched, Reported
<1>11. QED
  BY <1>1, <1>3, <1>4, <1>5, <1>6, <1>7, <1>8, <1>9, <1>10 DEF Untouched, Tells, Before

LEMMA TalonFunctions ==
  ASSUME Shape
  PROVE  /\ pc \in [Talons -> Labels] /\ attempt \in [Talons -> 0 .. MaxRetries + 1]
         /\ retries \in [Talons -> -1 .. MaxRetries] /\ MaxRetries \in Nat
         /\ output \in [Talons -> Seq(Seq(Pieces))]
         /\ returncode \in [Talons -> {0, 1, 128}]
         /\ returned \in [Talons -> {NotYet, Signal, 0, 1, 128}]
         /\ TalonTypes
BY TalonAssumption DEF Shape, TypeOK, TalonTypes

LEMMA OneTalon ==
  ASSUME Shape, NEW t \in Talons, Talon(t), NEW u \in Talons, u # t
  PROVE  Untouched(u)
<1>1. opts' = opts
  BY DEF Talon, Fork, ForkFails, PollReads, PollInterrupted, PollTimesOut, Kill,
         WaitPid, Tag, SemaWait, Write, Release
<1>2. pc'[u] = pc[u]
  <2>1. UNCHANGED pc \/ \E l : Go(t, l)
    BY DEF Talon, Fork, ForkFails, PollReads, PollInterrupted, PollTimesOut, Kill,
           WaitPid, Tag, SemaWait, Write, Release, Return
  <2>2. QED
    BY <2>1, TalonFunctions DEF Go
<1>3. attempt'[u] = attempt[u]
  <2>1. UNCHANGED attempt \/ NewProc(t)
    BY DEF Talon, Fork, ForkFails, PollReads, PollInterrupted, PollTimesOut, Kill,
           WaitPid, Tag, SemaWait, Write, Release, talonVars
  <2>2. QED
    BY <2>1, TalonFunctions DEF NewProc
<1>4. retries'[u] = retries[u]
  <2>1. UNCHANGED retries \/ retries' = [retries EXCEPT ![t] = @ - 1]
    BY DEF Talon, Fork, ForkFails, PollReads, PollInterrupted, PollTimesOut, Kill,
           WaitPid, Tag, SemaWait, Write, Release, talonVars
  <2>2. QED
    BY <2>1, TalonFunctions
<1>5. output'[u] = output[u]
  <2>1. UNCHANGED output \/ \E b : output' = [output EXCEPT ![t] = b]
    BY DEF Talon, Fork, ForkFails, PollReads, PollInterrupted, PollTimesOut, Kill,
           WaitPid, Tag, SemaWait, Write, Release, talonVars, NewProc
  <2>2. QED
    BY <2>1, TalonFunctions
<1>6. returncode'[u] = returncode[u]
  <2>1. UNCHANGED returncode \/ \E c : returncode' = [returncode EXCEPT ![t] = c]
    BY DEF Talon, Fork, ForkFails, PollReads, PollInterrupted, PollTimesOut, Kill,
           WaitPid, Tag, SemaWait, Write, Release, talonVars, NewProc
  <2>2. QED
    BY <2>1, TalonFunctions
<1>7. returned'[u] = returned[u]
  <2>1. UNCHANGED returned \/ \E c : returned' = [returned EXCEPT ![t] = c]
    BY DEF Talon, Fork, ForkFails, PollReads, PollInterrupted, PollTimesOut, Kill,
           WaitPid, Tag, SemaWait, Write, Release, talonVars, Return
  <2>2. QED
    BY <2>1, TalonFunctions
<1>8. Mine(u)' = Mine(u) /\ \A i \in Mine(u) : log'[i] = log[i]
  <2>1. CASE Write(t)
    <3>1. output[t] # <<>> /\ log' = log \o Head(output[t])
      BY <2>1 DEF Write
    <3>2. Head(output[t]) \in Seq(Own(t))
      BY <3>1, TailType DEF Shape
    <3>3. QED
      BY <3>1, <3>2, WrittenBlock
  <2>2. CASE ~ Write(t)
    <3>1. log' = log
      BY <2>2 DEF Talon, Fork, ForkFails, PollReads, PollInterrupted, PollTimesOut,
             Kill, WaitPid, Tag, SemaWait, Release, logVars
    <3>2. QED
      BY <3>1 DEF Mine
  <2>3. QED
    BY <2>1, <2>2
<1>9. QED
  BY <1>1, <1>2, <1>3, <1>4, <1>5, <1>6, <1>7, <1>8 DEF Untouched

\* An attempt begins: nothing is told of it yet, and nothing was read.
LEMMA BeginsTells ==
  ASSUME Shape, NEW t \in Talons, Tells(t), pc[t] = "spawn", NewProc(t),
         NEW l \in {"poll", "tag"}, Go(t, l), log' = log
  PROVE  Tells(t)'
<1>1. /\ pc'[t] = l /\ attempt'[t] = attempt[t] + 1 /\ output'[t] = << <<>> >>
      /\ attempt[t] \in Nat
  BY TalonFunctions DEF Go, NewProc
<1>2. Mine(t)' = Mine(t) /\ \A i \in Mine(t) : log'[i] = log[i]
  BY DEF Mine
<1>3. Told(t)' /\ \A i \in Mine(t) : IsLast(t, i) => IsLast(t, i)'
  BY <1>2, SameLog DEF Tells
<1>4. Heard(t, attempt[t])
  BY DEF Tells
<1>5. attempt'[t] - 1 = attempt[t]
  BY <1>1
<1>6. (Heard(t, attempt[t] - 1))'
  BY <1>2, <1>3, <1>4, <1>5 DEF Heard
<1>7. << <<>> >> \in Seq(Seq(Reads(t)'))
  OBVIOUS
<1>8. QED
  BY <1>1, <1>3, <1>6, <1>7 DEF Tells, Before, Running

\* An attempt that goes on reading, or comes to its tags.
LEMMA ReadsTells ==
  ASSUME Shape, NEW t \in Talons, Tells(t), pc[t] \in Running,
         NEW l \in Running \cup {"failed"}, Go(t, l),
         UNCHANGED <<attempt, log>>,
         NEW b \in Seq(Seq(Reads(t))), output'[t] = b
  PROVE  Tells(t)'
<1>1. pc'[t] = l /\ attempt'[t] = attempt[t]
  BY TalonFunctions DEF Go
<1>2. Mine(t)' = Mine(t) /\ \A i \in Mine(t) : log'[i] = log[i]
  BY DEF Mine
<1>3. Told(t)' /\ \A i \in Mine(t) : IsLast(t, i) => IsLast(t, i)'
  BY <1>2, SameLog DEF Tells
<1>4. Heard(t, attempt[t] - 1)
  BY DEF Tells, Running, Before
<1>5. (Heard(t, attempt[t] - 1))'
  BY <1>1, <1>2, <1>3, <1>4 DEF Heard
<1>6. Reads(t)' = Reads(t)
  BY <1>1, SameAttempt
<1>7. QED
  BY <1>1, <1>3, <1>5, <1>6 DEF Tells, Before, Running

LEMMA RunTells ==
  ASSUME Shape, NEW t \in Talons, Tells(t),
         \/ PollReads(t) \/ PollInterrupted(t) \/ PollTimesOut(t)
         \/ Kill(t) \/ WaitPid(t)
  PROVE  Tells(t)'
<1>1. pc[t] \in Running /\ UNCHANGED <<attempt, log>>
  BY DEF PollReads, PollInterrupted, PollTimesOut, Kill, WaitPid, Running,
         talonVars, logVars
<1>2. output[t] \in Seq(Seq(Reads(t))) /\ output[t] # <<>> /\ attempt[t] >= 1
  BY <1>1, AttemptBegun, ShapeParts DEF Tells, Shape
<1>3. CASE PollReads(t)
  <2>1. PICK l \in Running : Go(t, l)
    BY <1>3 DEF PollReads, Running
  <2>2. output'[t] = ReadAll(output[t], t)
    BY <1>3, TalonFunctions DEF PollReads
  <2>3. ReadAll(output[t], t) \in Seq(Seq(Reads(t)))
    BY <1>2, ReadsKept, TalonFunctions
  <2>4. QED
    BY <1>1, <2>1, <2>2, <2>3, ReadsTells
<1>4. CASE PollInterrupted(t)
  <2>1. Go(t, "failed") /\ output'[t] = <<>> /\ <<>> \in Seq(Seq(Reads(t)))
    BY <1>4, TalonFunctions DEF PollInterrupted
  <2>2. QED
    BY <1>1, <2>1, ReadsTells
<1>5. CASE PollTimesOut(t) \/ Kill(t) \/ WaitPid(t)
  <2>1. PICK l \in Running : Go(t, l)
    BY <1>5 DEF PollTimesOut, Kill, WaitPid, Running
  <2>2. output'[t] = output[t]
    BY <1>5 DEF PollTimesOut, Kill, WaitPid, talonVars
  <2>3. QED
    BY <1>1, <1>2, <2>1, <2>2, ReadsTells
<1>6. QED
  BY <1>3, <1>4, <1>5

\* The tags are put around what was read; nothing is in the log yet.
LEMMA TagTells ==
  ASSUME Shape, NEW t \in Talons, Tells(t), opts[t].tagging, Tag(t)
  PROVE  Tells(t)'
<1>1. /\ pc[t] = "tag" /\ pc[t] \in Running
      /\ UNCHANGED <<opts, attempt, retries, returncode, log>>
      /\ output' = [output EXCEPT ![t] =
                      AddText(PrependText(output[t], Piece(t, "recipe")),
                              Piece(t, Status(t)))]
  BY DEF Tag, logVars, Running
<1>2. pc'[t] \in {"sema", "write"}
  BY TalonFunctions DEF Tag, Go
<1>3. output[t] \in Seq(Seq(Reads(t))) /\ output[t] # <<>> /\ attempt[t] >= 1
  BY <1>1, AttemptBegun, ShapeParts DEF Tells, Shape
<1>4. /\ output'[t] # <<>> /\ Head(output'[t]) = <<Piece(t, "recipe")>>
      /\ Rest(t, Tail(output'[t]))
  <2>1. output'[t] = AddText(PrependText(output[t], Piece(t, "recipe")),
                             Piece(t, Status(t)))
    BY <1>1, TalonFunctions
  <2>2. QED
    BY <1>3, <2>1, TagsRest, TalonFunctions
<1>5. Tagged(t)'
  <2>1. /\ Reads(t)' = Reads(t) /\ \A k : Piece(t, k)' = Piece(t, k)
        /\ Status(t)' = Status(t)
    BY <1>1, SameAttempt
  <2>2. QED
    BY <1>4, <2>1 DEF Tagged, Rest
<1>6. Mine(t)' = Mine(t) /\ \A i \in Mine(t) : log'[i] = log[i]
  BY <1>1 DEF Mine
<1>7. Told(t)' /\ \A i \in Mine(t) : IsLast(t, i) => IsLast(t, i)'
  BY <1>6, SameLog DEF Tells
<1>8. Heard(t, attempt[t] - 1)
  BY <1>1 DEF Tells, Before
<1>9. (Heard(t, attempt[t] - 1))'
  BY <1>1, <1>6, <1>7, <1>8 DEF Heard
<1>10. QED
  BY <1>2, <1>5, <1>7, <1>9 DEF Tells, Unwritten, Running

LEMMA SemaTells ==
  ASSUME Shape, NEW t \in Talons, Tells(t), SemaWait(t)
  PROVE  Tells(t)'
<1>1. /\ pc[t] = "sema"
      /\ UNCHANGED <<opts, attempt, retries, output, returncode, log>>
  BY DEF SemaWait, talonVars
<1>2. pc'[t] = "write"
  BY TalonFunctions DEF SemaWait, Go
<1>3. Mine(t)' = Mine(t) /\ \A i \in Mine(t) : log'[i] = log[i]
  BY <1>1 DEF Mine
<1>4. Told(t)' /\ \A i \in Mine(t) : IsLast(t, i) => IsLast(t, i)'
  BY <1>3, SameLog DEF Tells
<1>5. Heard(t, attempt[t] - 1) /\ Tagged(t)
  BY <1>1 DEF Tells, Before
<1>6. (Heard(t, attempt[t] - 1))'
  BY <1>1, <1>3, <1>4, <1>5 DEF Heard
<1>7. Tagged(t)'
  <2>1. /\ \A k : Piece(t, k)' = Piece(t, k)
        /\ \A b : Rest(t, b) => Rest(t, b)'
    BY <1>1, SameAttempt
  <2>2. QED
    BY <1>1, <1>5, <2>1 DEF Tagged
<1>8. QED
  BY <1>2, <1>4, <1>6, <1>7 DEF Tells, Unwritten, Before, Running

\* A block of what was read, whether or not the status ends it, carries on
\* what is told of the attempt.
LEMMA ReadsCarryOn ==
  ASSUME Shape, NEW t \in Talons,
         NEW b \in Seq(Own(t)), b # <<>>,
         \A m \in 1 .. Len(b) - 1 : b[m].kind \in Streams,
         \A m \in 1 .. Len(b) : b[m].kind # "recipe",
         NEW i \in Mine(t), IsLast(t, i), log[i].attempt = attempt[t],
         log[i].kind \notin Statuses
  PROVE  CarriesOn(t, b)
<1>1. Len(b) \in Nat /\ Len(b) # 0
  BY EmptySeq
<1>2. \A m \in 1 .. Len(b) : b[m] \in Own(t) /\ b[m].attempt = attempt[t]
  BY DEF Own
<1>3. Follows(log[i], b[1])
  BY <1>1, <1>2 DEF Follows
<1>4. \A m \in 1 .. Len(b) - 1 : Follows(b[m], b[m + 1])
  <2> SUFFICES ASSUME NEW m \in 1 .. Len(b) - 1 PROVE Follows(b[m], b[m + 1])
    OBVIOUS
  <2>1. m \in 1 .. Len(b) /\ m + 1 \in 1 .. Len(b)
    BY <1>1
  <2>2. b[m].kind \notin Statuses
    BY DEF Streams, Statuses
  <2>3. QED
    BY <1>2, <2>1, <2>2 DEF Follows
<1>5. QED
  BY <1>3, <1>4 DEF CarriesOn

LEMMA WritesCounted ==
  ASSUME Shape, NEW t \in Talons, pc[t] = "write"
  PROVE  retries[t] >= 0 /\ attempt[t] + retries[t] = MaxRetries + 1
<1>1. Counted(t)
  BY DEF Shape
<1>2. QED
  BY <1>1 DEF Counted

LEMMA WriteTells ==
  ASSUME Shape, NEW t \in Talons, Tells(t), Write(t)
  PROVE  Tells(t)'
<1> DEFINE b == Head(output[t])
<1>1. /\ pc[t] = "write" /\ output[t] # <<>> /\ log' = log \o b
      /\ UNCHANGED <<opts, pc, attempt, retries, returncode>>
  BY DEF Write
<1>2. output'[t] = Tail(output[t])
  BY TalonFunctions DEF Write
<1>3. b \in Seq(Own(t))
  BY <1>1, TailType DEF Shape
<1>4. /\ Reads(t)' = Reads(t) /\ \A k : Piece(t, k)' = Piece(t, k)
      /\ Status(t)' = Status(t) /\ \A c : Rest(t, c) => Rest(t, c)'
  BY <1>1, SameAttempt
<1>5. attempt[t] \in Nat /\ attempt'[t] = attempt[t]
  BY <1>1, TalonFunctions
<1>6. CASE Unwritten(t)
  <2>1. b = <<Piece(t, "recipe")>> /\ Rest(t, Tail(output[t]))
    BY <1>6 DEF Unwritten, Tagged
  <2>2. /\ b # <<>> /\ Len(b) = 1 /\ b[1].kind = "recipe"
        /\ b[1].attempt = attempt[t]
    <3> DEFINE r == Piece(t, "recipe")
    <3>1. r.kind = "recipe" /\ r.attempt = attempt[t] /\ b = <<r>>
      BY <2>1 DEF Piece
    <3> HIDE DEF r, b
    <3>2. QED
      BY <3>1
  <2>3. CarriesOn(t, b)
    <3>1. CASE attempt[t] - 1 = 0
      <4>1. Mine(t) = {} /\ attempt[t] = 1
        BY <1>5, <1>6, <3>1 DEF Unwritten, Heard
      <4>2. QED
        BY <2>2, <4>1 DEF CarriesOn
    <3>2. CASE attempt[t] - 1 # 0
      <4>1. PICK i \in Mine(t) : IsLast(t, i) /\ log[i].kind = "retry"
                                 /\ log[i].attempt = attempt[t] - 1
        BY <1>6, <3>2 DEF Unwritten, Heard
      <4>2. Follows(log[i], b[1])
        BY <1>5, <2>2, <4>1 DEF Follows
      <4>3. QED
        BY <2>2, <4>1, <4>2 DEF CarriesOn
    <3>3. QED
      BY <3>1, <3>2
  <2> HIDE DEF b
  <2>4. Told(t)'
    BY <1>1, <1>3, <2>3, WrittenTold DEF Tells
  <2>5. PICK i \in Mine(t)' : IsLast(t, i)' /\ log'[i] = b[1]
    BY <1>1, <1>3, <2>2, LastWritten
  <2>6. Rest(t, output[t])'
    BY <1>2, <1>4, <2>1 DEF Rest
  <2>7. Begun(t)'
    BY <1>5, <2>2, <2>5, <2>6 DEF Begun, Statuses
  <2>8. QED
    BY <1>1, <2>4, <2>7 DEF Tells, Before, Running
<1>7. CASE Begun(t)
  <2>1. PICK i \in Mine(t) : /\ IsLast(t, i) /\ log[i].attempt = attempt[t]
                             /\ log[i].kind \notin Statuses
    BY <1>7 DEF Begun
  <2>2. Rest(t, output[t])
    BY <1>7 DEF Begun
  <2>3. CASE b \in Seq(Reads(t)) /\ Rest(t, Tail(output[t]))
    <3>1. Rest(t, output[t])'
      BY <1>2, <1>4, <2>3 DEF Rest
    <3>2. CASE b = <<>>
      <4>1. log' = log
        <5>1. log \in Seq(Pieces)
          BY DEF Shape, TypeOK
        <5>2. QED
          BY <1>1, <3>2, <5>1, ConcatEmptySeq
      <4>2. Mine(t)' = Mine(t) /\ \A j \in Mine(t) : log'[j] = log[j]
        BY <4>1 DEF Mine
      <4>3. Told(t)' /\ IsLast(t, i)'
        BY <2>1, <4>2, SameLog DEF Tells
      <4>4. Begun(t)'
        BY <1>5, <2>1, <3>1, <4>2, <4>3 DEF Begun
      <4>5. QED
        BY <1>1, <4>3, <4>4 DEF Tells, Before, Running
    <3>3. CASE b # <<>>
      <4> HIDE DEF b
      <4>1. Len(b) \in Nat /\ Len(b) # 0 /\ \A m \in 1 .. Len(b) : b[m] \in Reads(t)
        BY <2>3, <3>3, EmptySeq
      <4>2. \A m \in 1 .. Len(b) :
              b[m].kind \in Streams /\ b[m].kind # "recipe" /\ b[m].attempt = attempt[t]
        BY <4>1 DEF Reads, Own, Streams
      <4>3. \A m \in 1 .. Len(b) - 1 : b[m].kind \in Streams
        BY <4>1, <4>2
      <4>4. CarriesOn(t, b)
        BY <1>3, <2>1, <2>3, <3>3, <4>2, <4>3, ReadsCarryOn
      <4>5. Told(t)'
        BY <1>1, <1>3, <4>4, WrittenTold DEF Tells
      <4>6. PICK j \in Mine(t)' : IsLast(t, j)' /\ log'[j] = b[Len(b)]
        BY <1>1, <1>3, <3>3, LastWritten
      <4>7. log'[j].kind \notin Statuses /\ log'[j].attempt = attempt[t]
        BY <4>1, <4>2, <4>6 DEF Streams, Statuses
      <4>8. Begun(t)'
        BY <1>5, <3>1, <4>6, <4>7 DEF Begun
      <4>9. QED
        BY <1>1, <4>5, <4>8 DEF Tells, Before, Running
    <3>4. QED
      BY <3>2, <3>3
  <2>4. CASE /\ Tail(output[t]) = <<>>
             /\ \E d \in Seq(Reads(t)) : b = Append(d, Piece(t, Status(t)))
    <3>1. PICK d \in Seq(Reads(t)) : b = Append(d, Piece(t, Status(t)))
      BY <2>4
    <3> DEFINE s == Piece(t, Status(t))
    <3>2. d \in Seq(Own(t)) /\ s \in Own(t)
      <4>1. attempt[t] >= 1
        <5>1. MaxRetries \in Nat /\ retries[t] \in -1 .. MaxRetries
              /\ attempt[t] + retries[t] = MaxRetries + 1
          BY <1>1, TalonFunctions, WritesCounted
        <5>2. QED
          BY <1>5, <5>1
      <4>2. QED
        BY <4>1, ReadsOwn, OwnPiece, TalonFunctions DEF Kinds, Status
    <3>3. /\ s.kind = Status(t) /\ s.attempt = attempt[t]
          /\ Status(t) # "recipe"
      BY DEF Piece, Status
    <3> HIDE DEF s, b
    <3>4. /\ Len(d) \in Nat /\ Len(b) = Len(d) + 1 /\ b # <<>>
          /\ b[Len(b)] = s
          /\ \A m \in 1 .. Len(b) - 1 : b[m] = d[m] /\ d[m] \in Reads(t)
      <4>1. b = Append(d, s)
        BY <3>1 DEF s
      <4>2. /\ b # <<>> /\ Len(b) = Len(d) + 1 /\ b[Len(d) + 1] = s
            /\ \A m \in 1 .. Len(d) : b[m] = d[m]
        BY <3>2, <4>1, AppendProperties
      <4>3. Len(d) \in Nat /\ \A m \in 1 .. Len(d) : d[m] \in Reads(t)
        OBVIOUS
      <4>4. Len(b) - 1 = Len(d)
        BY <4>2, <4>3
      <4>5. QED
        BY <4>2, <4>3, <4>4
    <3>5. \A m \in 1 .. Len(b) - 1 : b[m].kind \in Streams
      BY <3>4 DEF Reads
    <3>6. \A m \in 1 .. Len(b) : b[m].kind # "recipe"
      <4> SUFFICES ASSUME NEW m \in 1 .. Len(b) PROVE b[m].kind # "recipe"
        OBVIOUS
      <4>1. m = Len(b) \/ m \in 1 .. Len(b) - 1
        BY <3>4
      <4>2. QED
        BY <3>3, <3>4, <3>5, <4>1 DEF Streams
    <3>7. CarriesOn(t, b)
      BY <1>3, <2>1, <3>4, <3>5, <3>6, ReadsCarryOn
    <3>8. Told(t)'
      BY <1>1, <1>3, <3>7, WrittenTold DEF Tells
    <3>9. PICK j \in Mine(t)' : IsLast(t, j)' /\ log'[j] = b[Len(b)]
      BY <1>1, <1>3, <3>4, LastWritten
    <3>10. AllWritten(t)'
      BY <1>2, <1>4, <1>5, <2>4, <3>3, <3>4, <3>9 DEF AllWritten
    <3>11. QED
      BY <1>1, <3>8, <3>10 DEF Tells, Before, Running
  <2>5. QED
    BY <2>2, <2>3, <2>4, RestParts
<1>8. CASE AllWritten(t)
  BY <1>1, <1>8 DEF AllWritten
<1>9. QED
  BY <1>1, <1>6, <1>7, <1>8 DEF Tells

\* The status that was written is what becomes of the talon.
LEMMA ReleaseTells ==
  ASSUME Shape, NEW t \in Talons, Tells(t), Release(t)
  PROVE  Tells(t)'
<1>1. /\ pc[t] = "write" /\ output[t] = <<>>
      /\ UNCHANGED <<opts, attempt, output, returncode, log>>
  BY DEF Release
<1>2. Mine(t)' = Mine(t) /\ \A i \in Mine(t) : log'[i] = log[i]
  BY <1>1 DEF Mine
<1>3. Told(t)' /\ \A i \in Mine(t) : IsLast(t, i) => IsLast(t, i)'
  BY <1>2, SameLog DEF Tells
<1>4. AllWritten(t)
  <2>1. ~ Unwritten(t)
    BY <1>1 DEF Unwritten, Tagged
  <2>2. ~ Begun(t)
    BY <1>1, RestParts DEF Begun
  <2>3. QED
    BY <1>1, <2>1, <2>2 DEF Tells
<1>5. PICK i \in Mine(t) : /\ IsLast(t, i) /\ log[i].attempt = attempt[t]
                           /\ log[i].kind = Status(t)
  BY <1>4 DEF AllWritten
<1>6. i \in Mine(t)' /\ IsLast(t, i)' /\ log'[i] = log[i]
  BY <1>2, <1>3, <1>5
<1>7. /\ attempt[t] \in Nat /\ attempt[t] # 0 /\ attempt'[t] = attempt[t]
      /\ retries[t] \in Int
  <2>1. /\ MaxRetries \in Nat /\ attempt[t] \in 0 .. MaxRetries + 1
        /\ retries[t] \in -1 .. MaxRetries
        /\ attempt[t] + retries[t] = MaxRetries + 1
    BY <1>1, TalonFunctions, WritesCounted
  <2>2. QED
    BY <1>1, <2>1
<1>8. ASSUME NEW l, Go(t, l) PROVE pc'[t] = l
  BY <1>8, TalonFunctions DEF Go
<1>9. ASSUME Return(t),
             Status(t) = IF returncode[t] = 0 THEN "ok" ELSE "failed"
      PROVE  Tells(t)'
  <2>1. pc'[t] = "done"
    BY <1>8, <1>9 DEF Return
  <2>2. ~ opts[t].force => returned'[t] = returncode[t]
    BY <1>9, TalonFunctions DEF Return
  <2>3. log'[i].kind = IF returncode'[t] = 0 THEN "ok" ELSE "failed"
    BY <1>1, <1>5, <1>6, <1>9
  <2>4. Reported(t)'
    BY <1>1, <1>6, <2>2, <2>3 DEF Reported
  <2>5. QED
    BY <1>3, <2>1, <2>4 DEF Tells, Before, Running
<1>10. CASE Go(t, "crashed")
  BY <1>3, <1>8, <1>10 DEF Tells, Before, Running
<1>11. CASE (returncode[t] = 0 \/ opts[t].force) /\ Return(t)
  BY <1>9, <1>11 DEF Status
<1>12. CASE returncode[t] # 0 /\ ~ opts[t].force /\ ~ TriesAgain(t) /\ Return(t)
  <2>1. retries[t] <= 0
    BY <1>7, <1>12 DEF TriesAgain
  <2>2. QED
    BY <1>9, <1>12, <2>1 DEF Status
<1>13. CASE returncode[t] # 0 /\ ~ opts[t].force /\ TriesAgain(t) /\ Go(t, "spawn")
  <2>1. ~ (retries[t] <= 0)
    BY <1>7, <1>13 DEF TriesAgain
  <2>2. Status(t) = "retry"
    BY <1>13, <2>1 DEF Status
  <2>3. Heard(t, attempt[t])'
    BY <1>5, <1>6, <1>7, <2>2 DEF Heard
  <2>4. pc'[t] = "spawn"
    BY <1>8, <1>13
  <2>5. QED
    BY <1>3, <1>7, <2>3, <2>4 DEF Tells, Before, Running
<1>14. \/ Go(t, "crashed")
       \/ (returncode[t] = 0 \/ opts[t].force) /\ Return(t)
       \/ returncode[t] # 0 /\ ~ opts[t].force /\ ~ TriesAgain(t) /\ Return(t)
       \/ returncode[t] # 0 /\ ~ opts[t].force /\ TriesAgain(t) /\ Go(t, "spawn")
  BY DEF Release
<1>15. QED
  BY <1>10, <1>11, <1>12, <1>13, <1>14

LEMMA TalonTells ==
  ASSUME Shape, NEW t \in Talons, Tells(t), opts[t].tagging, Talon(t)
  PROVE  Tells(t)'
<1>1. CASE Fork(t)
  <2>1. pc[t] = "spawn" /\ NewProc(t) /\ Go(t, "poll") /\ log' = log
    BY <1>1 DEF Fork, logVars
  <2>2. QED
    BY <2>1, BeginsTells
<1>2. CASE ForkFails(t)
  <2>1. pc[t] = "spawn" /\ NewProc(t) /\ Go(t, "tag") /\ log' = log
    BY <1>2 DEF ForkFails, logVars
  <2>2. QED
    BY <2>1, BeginsTells
<1>3. CASE \/ PollReads(t) \/ PollInterrupted(t) \/ PollTimesOut(t)
           \/ Kill(t) \/ WaitPid(t)
  BY <1>3, RunTells
<1>4. QED
  BY <1>1, <1>2, <1>3, TagTells, SemaTells, WriteTells, ReleaseTells DEF Talon

LEMMA NextTells == Shape /\ TellsInv /\ [Next]_vars => TellsInv'
<1> SUFFICES ASSUME Shape, TellsInv, [Next]_vars,
                    NEW u \in Talons, opts'[u].tagging
             PROVE  Tells(u)'
  BY DEF TellsInv
<1>1. CASE \E t \in Talons : Talon(t)
  <2>1. PICK t \in Talons : Talon(t)
    BY <1>1
  <2>2. opts' = opts
    BY <2>1 DEF Talon, Fork, ForkFails, PollReads, PollInterrupted, PollTimesOut,
                Kill, WaitPid, Tag, SemaWait, Write, Release
  <2>3. Tells(u)
    BY <2>2 DEF TellsInv
  <2>4. CASE u = t
    BY <2>1, <2>2, <2>3, <2>4, TalonTells
  <2>5. CASE u # t
    BY <2>1, <2>3, <2>5, OneTalon, UntouchedTells
  <2>6. QED
    BY <2>4, <2>5
<1>2. CASE \/ UNCHANGED vars
           \/ \E t \in Talons : Shell(t) \/ BackgroundEnds(t) \/ ChildSig(t)
  <2>1. UNCHANGED <<opts, pc, attempt, retries, output, returncode, returned, log>>
    BY <1>2 DEF vars, talonVars, logVars, Shell, ShellWrites, ShellCloses,
                ShellLeaves, ShellExits, BackgroundEnds, ChildSig
  <2>2. Tells(u) /\ Untouched(u)
    BY <2>1 DEF TellsInv, Untouched, Mine
  <2>3. QED
    BY <2>2, UntouchedTells
<1>3. QED
  BY <1>1, <1>2 DEF Next, Done

LEMMA InitTells == Init => TellsInv
<1> SUFFICES ASSUME Init, NEW t \in Talons PROVE Tells(t)
  BY DEF TellsInv
<1>1. pc[t] = "spawn" /\ attempt[t] = 0 /\ log = <<>>
  BY DEF Init
<1>2. Mine(t) = {}
  BY <1>1 DEF Mine
<1>3. Told(t) /\ Heard(t, attempt[t])
  BY <1>1, <1>2 DEF Told, Heard
<1>4. QED
  BY <1>1, <1>3 DEF Tells, Before, Running

LEMMA TellsInvariant == Spec => []TellsInv
BY InitTells, NextTells, ShapeInvariant, PTL DEF Spec

(* The log of a recipe is one group for each attempt, in order, from its   *)
(* tag to its status, and closed when talon returns: for any number of     *)
(* talons that write at once, with or without the semaphore, of retries    *)
(* and of pieces.  (talon.c: the loop of main, and prependattributes.)     *)
THEOREM TellsAttempts == Spec => []LogTellsAttempts
<1>1. TellsInv => LogTellsAttempts
  BY DEF TellsInv, LogTellsAttempts, Tells, Reported
<1>2. QED
  BY <1>1, TellsInvariant, PTL

(* make and the log agree on a recipe: talon returns 0 without being told  *)
(* to exactly when the last status of its log is ok.  (talon.c: main.)     *)
THEOREM ExitMatches == Spec => []ExitMatchesStatus
<1>1. Shape /\ TellsInv => ExitMatchesStatus
  <2> SUFFICES ASSUME Shape, TellsInv, NEW t \in Talons, pc[t] = "done",
                      opts[t].tagging, ~ opts[t].force
               PROVE  \E i \in Mine(t) :
                        IsLast(t, i) /\ (returned[t] = 0 <=> log[i].kind = "ok")
    BY DEF ExitMatchesStatus
  <2>1. Reported(t)
    BY DEF TellsInv, Tells
  <2>2. QED
    BY <2>1 DEF Reported
<1>2. QED
  BY <1>1, TellsInvariant, ShapeInvariant, PTL
=============================================================================
