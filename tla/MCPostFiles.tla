----------------------------- MODULE MCPostFiles -----------------------------
(* Small instances of PostFiles for TLC.                                    *)
EXTENDS PostFiles, TLC

Symmetry == Permutations(Requests)

===============================================================================
