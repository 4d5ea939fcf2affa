------------------------------ MODULE MC_Talon ------------------------------
(***************************************************************************)
(* Small builds for Talon: two talons of one make.                         *)
(***************************************************************************)
EXTENDS Talon

CONSTANTS t1, t2

MCTalons == {t1, t2}

Todo(ops, end) == [todo |-> ops, end |-> end]

(* t1: a recipe that is right at once, one that hangs, one whose shell     *)
(* sends stdout elsewhere, and one that leaves a process behind and fails. *)
(* t2: a recipe that says something and is right, or hangs.                *)
MCScripts ==
    (t1 :> {Todo(<<"out">>, 0), Todo(<<>>, Hang),
            Todo(<<"close", "err">>, 0), Todo(<<"bg", "out">>, 1)})
    @@ (t2 :> {Todo(<<"out", "out">>, 0), Todo(<<>>, Hang)})

(* t1 is a recipe of startrule, that is tried again; t2 may not fail, with *)
(* tags (FORCESUCCESS) or as raw output (startrawoutput).                  *)
Recipe(tagging, force) ==
    [tagging |-> tagging, descramble |-> TRUE, force |-> force]
MCOptions == {t1 :> Recipe(TRUE, FALSE) @@ t2 :> Recipe(tagging, TRUE) :
                tagging \in BOOLEAN}

(* A recipe that says more than one read takes, and is right.              *)
MCLongOutput == [t \in MCTalons |-> {Todo(<<"out", "out">>, 0)}]
=============================================================================
