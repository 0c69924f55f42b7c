CONSTANTS
  None = None
  s1 = s1  s2 = s2  r1 = r1  old = old  new = new
  p1 = p1  p2 = p2  h1 = h1  h2 = h2
  Store = {s1, s2}
  Removal = {r1}
  Run = {old, new}
  Path = {p1}
  Hash = {h1, h2}
  OldRun = {old}
  OldPath = p1
  OldHash = h1
  Backend = {"sqlite", "postgresql"}
  MaxCrashes = 1
SPECIFICATION FairSpec
CHECK_DEADLOCK FALSE
INVARIANTS
  RowsAgree
  FailsOnlyIfRemoved
PROPERTIES
  RemovesJustThat
  CallsEnd
