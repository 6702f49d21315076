---------------------------- MODULE MCPostEditing ----------------------------
(* Small instances of PostEditing for TLC.                                  *)
EXTENDS PostEditing, TLC

Symmetry == Permutations(Requests)

===============================================================================
