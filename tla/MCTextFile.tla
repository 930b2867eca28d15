------------------------------ MODULE MCTextFile ------------------------------
(* A text of even number is shorter than one of odd number. *)
EXTENDS TextFile

Sizes == [t \in Texts |-> t % 2]
=============================================================================
