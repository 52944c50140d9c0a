\* Two accounts, two requests at a time.
SPECIFICATION Spec
CONSTANTS
  a1 = a1  a2 = a2
  p1 = p1  p2 = p2
  Accounts = {a1, a2}
  Procs = {p1, p2}
  Lifetime = 1
  MaxLatency = 1
SYMMETRY Symmetry
INVARIANT TypeOK
PROPERTY DemotionBounded DeactivationBounded ImplementsLeases
