--------------------------- MODULE MC_BuildServer ---------------------------
(* Two clients, of one name or of two, and small command files: two      *)
(* stages with commands that may run at once, steps without a stage, an    *)
(* Exit at the end or within a stage, and stages that are one as numbers.  *)
EXTENDS BuildServer

CONSTANTS c1, c2

MCLines == { [c \in {c1, c2} |-> "n1"],
             [c \in {c1, c2} |-> IF c = c1 THEN "n1" ELSE "n2"] }
MCExitAfters == {Never, 1}
MCClients == {c1, c2}
MCStages == {"", "1", "2", "01"}
MCNumber == [s \in MCStages |-> IF s = "" THEN 0 ELSE IF s = "2" THEN 2 ELSE 1]

Do(s) == [type |-> "Execute", stage |-> s]
Quit(s) == [type |-> "Exit", stage |-> s]

MCBuilds ==
    { <<Do("1"), Do("1"), Do("2")>>,
      <<Do("1"), Do("2"), Do("2"), Do("2")>>,
      <<Do(""), Do(""), Do("1"), Quit("1")>>,
      <<Do("1"), Quit("2"), Do("2")>>,
      <<Do("1"), Do("01")>>,
      <<>> }
=============================================================================
