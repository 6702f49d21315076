\* Three requests of any kind on one post, with one fault.
CONSTANTS
  Requests = {r1, r2, r3}
  Slugs = {s1}
  Targets = {"ready"}
  Original = Original
  Nobody = Nobody
  Mixed = Mixed
  MaxFaults = 1
SPECIFICATION Spec
SYMMETRY Symmetry
INVARIANTS
  FilesInv
PROPERTIES
  RacelessAckIsCommitted
  RacelessWriteIsExact
CHECK_DEADLOCK FALSE
