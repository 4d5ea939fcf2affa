--------------------------- MODULE MC_RofsPlacement ---------------------------
(***************************************************************************)
(* Small node lists for RofsPlacement.  A node is a directory, a file of   *)
(* its own (visible, hidden, or naming a hidden entry) or an alias of an   *)
(* earlier file.                                                           *)
(***************************************************************************)
EXTENDS RofsPlacement

CONSTANTS w1, w2

MCWorkers2 == {w1, w2}

Sizes == [n \in Nodes |-> CASE n = 1 -> 3 [] n = 2 -> 4 [] n = 3 -> 0 [] OTHER -> 5]

Kinds == {"dir", "file", "gone", "hideV2", "alias1", "alias2", "goneAlias1"}

Target(k, n) == CASE k \in {"alias1", "goneAlias1"} -> 1 [] k = "alias2" -> 2 [] OTHER -> n

Lists(kinds, ends, bads) ==
  {o \in { [file    |-> [n \in Nodes |-> k[n] # "dir"],
            hidden  |-> [n \in Nodes |-> k[n] \in {"gone", "goneAlias1"}],
            entry   |-> [n \in Nodes |-> Target(k[n], n)],
            eHidden |-> [n \in Nodes |-> k[n] = "hideV2"],
            size    |-> Sizes,
            bad     |-> b,
            end     |-> Base + end] :
              k \in [Nodes -> kinds], b \in bads, end \in ends } :
     WellFormed(o)}

Ends == {0, 4, 6, 8, 40}

\* Lists the code lays out: at most one visible alias of a hidden file, nothing
\* that PlaceFile rejects.
MCObeys == {o \in Lists(Kinds, Ends, {{}}) : OrphansAlone(o)}

\* Lists in which a file was hidden after it was aliased twice.
MCOrphans == {o \in Lists({"dir", "gone", "file", "alias1"}, {40}, {{}}) : ~OrphansAlone(o)}
=============================================================================
