------------------------------- MODULE MCStores -------------------------------
(* A small instance of Stores.                                             *)
EXTENDS Stores, TLC

(* Sound: no property and no bound tells conversations or owners apart.    *)
Symmetry == Permutations(Conv) \cup Permutations(Owner)
===============================================================================
