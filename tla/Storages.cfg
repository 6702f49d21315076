CONSTANTS
  Ids = {i1, i2}
  Tenants = {t1, t2, t3}
  Slugs = {s1, s2}
  Dir <- Directories
  Here <- Utc
  Faces <- ReadFaces
  Written <- TwoFaces
  PlanDays = {1, 30}
  Home = t1
  Apart = t3
  MaxCalls = 3
  MaxRevision = 3
SYMMETRY Symmetry
SPECIFICATION Spec
INVARIANTS
  StoragesInv
  ReadsAgree
  ApiListsInOrder
  OverdueFirst
PROPERTIES
  StoragesKeepContract
  TenantsStayApart
  MigrationLosesNothing
CHECK_DEADLOCK FALSE
