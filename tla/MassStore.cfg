CONSTANTS
  None = None
  s1 = s1  s2 = s2  s3 = s3  b1 = b1  b2 = b2  p1 = p1  p2 = p2
  Store = {s1, s2, s3}
  Product = {p1}
  Name = {"n"}
  Bug = {b1, b2}
  FirstId <- FirstIds
  MaxRaises = 1
  MaxLostCommits = 0
  MaxCrashes = 1
  SlowStores = FALSE
SPECIFICATION Spec
SYMMETRY Symmetry
CONSTRAINT OneFault
CHECK_DEADLOCK FALSE
INVARIANTS
  OwnTransaction
  CommittedIsWhole
  RunsFit
PROPERTIES
  PromiseSpec
  RefusedOnlyIfGoing
