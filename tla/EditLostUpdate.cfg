\* Two partial updates of one post.
CONSTANTS
  Requests = {r1, r2}
  Posts = {p1}
  Kinds = {"patch"}
  Targets = {}
  FirstStatuses = {"draft"}
  SqlMayFail = FALSE
  Keep = Keep
  Original = Original
  Blank = Blank
SPECIFICATION Spec
SYMMETRY Symmetry
PROPERTIES
  UpdateLosesNothing
CHECK_DEADLOCK FALSE
