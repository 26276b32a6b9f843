SPECIFICATION Spec
CONSTANTS
  None = None
  u1 = u1
  u2 = u2
  c1 = c1
  c2 = c2
  w1 = w1
  w2 = w2
  j1 = j1
  j2 = j2
  j3 = j3
  r1 = r1
  r2 = r2
  r3 = r3
  User = {u1}
  ProUser = {}
  Client = {c1}
  Worker = {w1}
  Job = {j1}
  Request = {r1}
  Channels = {"api"}
  InitialCredits = 2
  Cost = 1
  Limit = 1
  MaxTries = 2
  MaxCrashes = 0
SYMMETRY MCSymmetry
INVARIANTS
  PendingIsServed
CHECK_DEADLOCK FALSE
