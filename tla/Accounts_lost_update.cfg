\* An owner's PATCH and an admin's PUT of the same account.
SPECIFICATION Spec
CONSTANTS
  i1 = i1  i2 = i2
  m1 = m1  m2 = m2
  p1 = p1  p2 = p2
  Ids = {i1, i2}
  Emails = {m1, m2}
  SeedEmail = m1
  Procs = {p1, p2}
  NoRow = NoRow  Gone = Gone  NoCopy = NoCopy  NoId = NoId
PROPERTY PatchKeepsRights
