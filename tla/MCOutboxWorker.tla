---------------------------- MODULE MCOutboxWorker ----------------------------
(* Small instances of OutboxWorker for TLC.                                 *)
EXTENDS OutboxWorker, TLC

NoBackoff == <<>>
OneUnit   == <<1>>
Growing   == <<1, 2>>

\* Bound of the runs in which an entry may be tried for ever.
FewCalls == \A e \in Entries : calls[e] <= 3

Symmetry == Permutations(Workers)

===============================================================================
