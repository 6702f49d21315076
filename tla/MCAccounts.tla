------------------------------ MODULE MCAccounts ------------------------------
(* Small instances of Accounts for TLC.                                      *)
EXTENDS Accounts, TLC

Symmetry == Permutations(Requests) \cup Permutations(FirstUsers)
            \cup Permutations(FirstCreds) \cup Permutations(Prefixes)

===============================================================================
