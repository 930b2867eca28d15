------------------------------ MODULE MCHotExit ------------------------------
(* A text of even number is shorter than one of odd number. *)
EXTENDS HotExit, TLC

Sizes == [t \in Texts |-> t % 2]
Slots == Permutations(SaveSlots)
=============================================================================
