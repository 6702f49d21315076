\* Two commands of any kind, one post that is there.
CONSTANTS
  Commands = {c1, c2}
  Kinds <- AllKinds
  FirstPosts = {p1}
  Slugs = {s1, s2}
  Bases = {"api", "v1"}
  Targets = {"ready", "published"}
  Edits <- MCEdits
  Nobody = Nobody
  MaxFaults = 1
SPECIFICATION Spec
SYMMETRY Symmetry
INVARIANTS
  DoneIsTrue
  RefusedIsTrue
  OneSaysPublished
CHECK_DEADLOCK FALSE
