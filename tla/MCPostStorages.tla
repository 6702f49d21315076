---------------------------- MODULE MCPostStorages ----------------------------
(* Small instances of PostStorages for TLC.                                  *)
EXTENDS PostStorages

\* The process runs in UTC.
Utc == 0

CONSTANT Apart

\* Tenants created within about a minute share the first digits of their ids; one
\* came later.
Directories == [t \in Tenants |-> IF t = Apart THEN "0191c3d4" ELSE "0190a1b2"]

Draft == [status |-> "draft", tags |-> {"go"}, title |-> {"alpha"}, text |-> {"gamma"},
          due |-> {[at |-> -5 * Hour, zone |-> 0]}, sched |-> {}]
Ready == [status |-> "ready", tags |-> {"go", "db"}, title |-> {"alpha", "beta"}, text |-> {},
          due |-> {[at |-> 2 * Hour + 1, zone |-> 14 * Hour]},
          sched |-> {[at |-> 30 * Hour + 1, zone |-> 14 * Hour]}]

\* A draft five hours overdue, and a ready post due soon and planned for later, far
\* in the east and off the full second.
TwoFaces  == {Draft, Ready}
ReadFaces == {FaceRead(b, f) : b \in Backends, f \in TwoFaces}

Symmetry == Permutations(Ids)

===============================================================================
