\* Two requests of any kind on one post.
CONSTANTS
  Requests = {r1, r2}
  Posts = {p1}
  Kinds <- AllKinds
  Targets = {"draft", "ready", "scheduled"}
  FirstStatuses = {"draft", "scheduled"}
  SqlMayFail = TRUE
  Keep = Keep
  Original = Original
  Blank = Blank
SPECIFICATION Spec
SYMMETRY Symmetry
INVARIANTS
  CopiesAreFaithful
PROPERTIES
  DeletedStaysDeleted
  RacelessUpdateLosesNothing
  CommitLosesNothing
  AckedIsStored
CHECK_DEADLOCK FALSE
