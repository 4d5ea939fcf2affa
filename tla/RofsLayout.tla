------------------------------ MODULE RofsLayout ------------------------------
(***************************************************************************)
(* What E32Rofs::PlaceFiles promises, without any thread: the visible      *)
(* files of the node list get image addresses one after the other, in list *)
(* order; the first visible name of a file gets the bytes, every later     *)
(* name (an alias) gets the same address; and the build ends with the      *)
(* number of bytes used or with the number that says why it stopped.       *)
(***************************************************************************)
EXTENDS RofsTree

VARIABLES obey,     (* the node list, fixed                                    *)
          cursor,   (* the last node laid out, 0 before the first              *)
          offset,   (* where the next bytes go                                 *)
          addr,     (* the image address of each node, 0 when it has none yet  *)
          result    (* "none" or the number PlaceFiles returns, as <<n>>       *)

vars == <<obey, cursor, offset, addr, result>>

Init ==
  /\ obey \in Obeys
  /\ cursor = 0
  /\ offset = Base
  /\ addr = [n \in Nodes |-> 0]
  /\ result = <<>>

Following(n) ==
  /\ n > cursor
  /\ Visible(obey, n)
  /\ \A m \in (cursor + 1)..(n - 1) : ~Visible(obey, m)

Stop(n) ==
  LET room == obey.end - offset
      fresh == ~obey.eHidden[obey.entry[n]] /\ FirstName(obey, n)
      size == PlacedLen(obey, n)
  IN /\ \/ room <= 0 /\ result' = <<room>>
        \/ room > 0 /\ fresh /\ size > room /\ result' = <<room - size>>
        \/ room > 0 /\ fresh /\ size < 0 /\ result' = <<size>>
     /\ UNCHANGED <<cursor, offset, addr>>

Lay(n) ==
  LET room == obey.end - offset
      e == obey.entry[n]
      size == PlacedLen(obey, n)
  IN /\ room > 0
     /\ \/ /\ obey.eHidden[e]
           /\ addr' = [addr EXCEPT ![n] = KFileHidden]
           /\ UNCHANGED offset
        \/ /\ ~obey.eHidden[e] /\ FirstName(obey, n)
           /\ size \in 0..room
           /\ addr' = [addr EXCEPT ![n] = offset]
           /\ offset' = offset + Align4(size)
        \/ /\ ~obey.eHidden[e] /\ ~FirstName(obey, n)
           /\ \E m \in Nodes : /\ m < n
                               /\ Visible(obey, m) /\ obey.entry[m] = e
                               /\ FirstName(obey, m)
                               /\ addr' = [addr EXCEPT ![n] = addr[m]]
           /\ UNCHANGED offset
     /\ cursor' = n
     /\ UNCHANGED result

Finish ==
  /\ \A n \in Nodes : n > cursor => ~Visible(obey, n)
  /\ result' = <<offset - Base>>
  /\ UNCHANGED <<cursor, offset, addr>>

Next ==
  /\ result = <<>>
  /\ UNCHANGED obey
  /\ \/ \E n \in Nodes : Following(n) /\ (Stop(n) \/ Lay(n))
     \/ Finish

Spec == Init /\ [][Next]_vars
=============================================================================
