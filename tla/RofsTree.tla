------------------------------- MODULE RofsTree -------------------------------
(***************************************************************************)
(* The input of a ROFS image build: the flat list of TRomNodes that        *)
(* CObeyFile leaves behind.  Nodes are numbered in creation order          *)
(* (TRomNode::FirstNode() is node 1, NextNode() of n is n + 1).  The       *)
(* TRomBuilderEntry of a file is identified with the node it was created   *)
(* with, so an alias is a node whose entry is an earlier node.             *)
(***************************************************************************)
EXTENDS Integers, FiniteSets

CONSTANTS N,       (* number of TRomNodes in the flat list                   *)
          Base,    (* aBaseOffset: where the file area starts in the image   *)
          Obeys    (* the node lists an obey file may describe               *)

Nodes == 1..N

KErrNotSupported == -5
KFileHidden == -1            \* 0xFFFFFFFF

(* A node list: which nodes are files, which are hidden (iHidden), the entry
   each refers to, which entries are hidden (hide statements for files of
   another image), the bytes an entry takes, the nodes whose PlaceFile rejects
   an override (FIXED on a DLL, a header override on plain data), and the end of
   the image (aCoreSize + iSize). *)
WellFormed(o) ==
  /\ o.file \in [Nodes -> BOOLEAN]
  /\ o.hidden \in [Nodes -> BOOLEAN]
  /\ o.entry \in [Nodes -> Nodes]
  /\ o.eHidden \in [Nodes -> BOOLEAN]
  /\ o.size \in [Nodes -> Nat]
  /\ o.bad \in SUBSET Nodes
  /\ o.end \in Int
  /\ \A n \in Nodes : /\ o.entry[n] <= n
                      /\ o.entry[o.entry[n]] = o.entry[n]
                      /\ o.file[o.entry[n]] = o.file[n]
                      /\ n \in o.bad => o.entry[n] = n

ASSUME LayoutAssumption ==
  /\ N \in Nat
  /\ Base \in Nat \ {0}
  /\ \A o \in Obeys : WellFormed(o)

Visible(o, n) == o.file[n] /\ ~o.hidden[n]

IsAlias(o, n) == o.entry[n] # n

\* The first visible name of the file that n is a name of.
FirstName(o, n) == \A m \in 1..(n - 1) : Visible(o, m) => o.entry[m] # o.entry[n]

\* What TRomNode::PlaceFile returns when n is the node that places the bytes.
PlacedLen(o, n) == IF n \in o.bad THEN KErrNotSupported ELSE o.size[o.entry[n]]

\* Round up to the next word boundary.
Align4(len) == len + ((4 - len) % 4)

\* A file hidden after it was aliased: no visible node of the file is the one
\* its entry was created with.
Orphaned(o, e) == ~Visible(o, e) /\ \E n \in Nodes : Visible(o, n) /\ o.entry[n] = e

\* Every orphaned file has one visible alias only.
OrphansAlone(o) ==
  \A m, n \in Nodes :
     (Visible(o, m) /\ Visible(o, n) /\ o.entry[m] = o.entry[n] /\ Orphaned(o, o.entry[n])
        /\ ~o.eHidden[o.entry[n]]) => m = n
=============================================================================
