CONSTANTS
  None = None  Root = Root  Guest = Guest  Star = Star
  u1 = u1  u2 = u2  g1 = g1  c1 = c1  c2 = c2  c3 = c3
  User = {u1,u2}
  Group = {g1}
  MemberOf <- MCMemberOf
  Call = {c1,c2}
  Caller = {u2,Root}
  Edited = {"PRODUCT_ADMIN", "PRODUCT_ACCESS"}
  MaxId = 3
  Backend = {"sqlite", "postgresql"}
SPECIFICATION Spec
SYMMETRY Symmetry
INVARIANTS
  TypeOK
PROPERTIES
  EditSetsDefault
  GrantsKept
