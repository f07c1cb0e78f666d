------------------------------- MODULE Lists -------------------------------
(***************************************************************************)
(* What is left of a list when some of its elements are taken out: the     *)
(* master server's list without those it drops, the commands of a player   *)
(* without those that do nothing.  It is SelectSeq, written as a function  *)
(* on the places of the list so that it can be reasoned about.             *)
(***************************************************************************)
EXTENDS Integers, Sequences

(* The elements of list that are not in gone, in their order. *)
Without(list, gone) ==
  LET Kept[i \in 0 .. Len(list)] ==
        IF i = 0 THEN <<>>
        ELSE IF list[i] \in gone THEN Kept[i - 1]
        ELSE Append(Kept[i - 1], list[i])
  IN  Kept[Len(list)]
=============================================================================
