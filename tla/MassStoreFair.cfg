CONSTANTS
  None = None
  s1 = s1  s2 = s2  s3 = s3  b1 = b1  b2 = b2  p1 = p1  p2 = p2
  Store = {s1, s2}
  Product = {p1}
  Name = {"n"}
  Bug = {b1}
  FirstId <- FirstIds
  MaxRaises = 1
  MaxLostCommits = 1
  MaxCrashes = 0
  SlowStores = TRUE
SPECIFICATION FairSpec
PROPERTIES
  TimerFreesAbandoned
  CallsEnd
CHECK_DEADLOCK FALSE
