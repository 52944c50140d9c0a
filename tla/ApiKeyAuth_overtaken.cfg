\* Two requests at a time, Redis never fails.
SPECIFICATION Spec
CONSTANTS
  a1 = a1  k1 = k1
  p1 = p1  p2 = p2
  Keys = {k1}
  Accounts = {a1}
  KeyOwner <- MCKeyOwner
  Procs = {p1, p2}
  TTL = 2
  MaxLatency = 1
  RedisFails = FALSE
INVARIANT CoherentWhenQuiet
