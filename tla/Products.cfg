CONSTANTS
  None = None
  a1 = a1  a2 = a2  q1 = q1  e1 = e1  e2 = e2  t1 = t1
  d1 = d1  d2 = d2
  Admin = {a1, a2}
  Client = {q1}
  Endpoint = {e1, e2}
  Test = {t1}
  Db = {d1, d2}
  Password = {FALSE}
  CommitsFail = TRUE
  MaxId = 2
  Late <- LateAdditions
SPECIFICATION Spec
SYMMETRY Symmetry
INVARIANTS
  TableServed
