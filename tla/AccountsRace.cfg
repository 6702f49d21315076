\* Two requests of any kind, two users and one credential found.
CONSTANTS
  Requests = {r1, r2}
  FirstUsers = {u1, u2}
  FirstCreds = {c1}
  Emails = {e1, e2}
  External = {x1}
  Prefixes = {p1, p2}
  Kinds <- AllKinds
  FirstHashes = {"bcrypt"}
  FirstRoles = {"owner"}
  TokenRetryLimit = 2
  SqlMayFail = TRUE
  None = None
SPECIFICATION Spec
SYMMETRY Symmetry
INVARIANTS
  AccountsInv
  LetInRightly
  SignedInAsLinked
PROPERTIES
  UsersKeepIdentity
  RacelessDeleteKeepsOwner
CHECK_DEADLOCK FALSE
