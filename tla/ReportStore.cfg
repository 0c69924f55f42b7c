CONSTANTS
  None = None
  b1 = b1  b2 = b2  e1 = e1  e2 = e2
  r1 = r1  r2 = r2  r3 = r3  r4 = r4
  Bug = {b1, b2}
  Event <- MCEvent
  Path <- PrefixFreePath
  ReportId = {r1, r2, r3, r4}
  MaxStores = 3
SPECIFICATION Spec
SYMMETRY Symmetry
INVARIANTS
  OpenReports
  
PROPERTIES
  RowHistory
  
