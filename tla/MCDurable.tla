----------------------------- MODULE MCDurable -----------------------------
(***************************************************************************)
(* Durable for TLC: the ids and the values are interchangeable, since the  *)
(* specification tests them for equality only.                             *)
(***************************************************************************)
EXTENDS Durable, TLC

DurableSymmetry == Permutations(Ids) \cup Permutations(Vals)

=============================================================================
