CONSTANTS
  None = None
  c1 = c1  c2 = c2  u1 = u1  u2 = u2
  Call = {c1, c2}
  Cred = {u1, u2}
  Listed = {}
  External = {u1, u2}
  Soft = 0
  Hard = 1
  LoginsUntilCleanup = 2
  MaxSessions = 2
SPECIFICATION Spec
SYMMETRY Symmetry
INVARIANTS
  
  ValidIsServed
PROPERTIES
  OneSessionEach
  CleanupIsHarmless
