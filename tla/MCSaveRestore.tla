---- MODULE MCSaveRestore ----
EXTENDS SaveRestore, TLC

CONSTANTS morning, Morning, path, quads

MCLower == (morning :> morning) @@ (Morning :> morning)

(* The clock is put back between the first save and the second. *)
MCWallClock == 1 :> 2 @@ 2 :> 1

(* By an id, by a name that one snapshot has and another has in capitals,  *)
(* and the latest.                                                         *)
SomeRestores ==
  {[by |-> "id", id |-> 1], [by |-> "name", place |-> path, name |-> morning],
   [by |-> "latest", place |-> quads]}

SomeTakes == {[place |-> path, name |-> Morning], [place |-> quads, name |-> morning]}

Symmetry == Permutations(Calls)
====
