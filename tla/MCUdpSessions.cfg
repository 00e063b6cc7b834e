SPECIFICATION LiveSpec
CONSTANTS
  c1 = c1  c2 = c2  s1 = s1  s2 = s2  A = A  B = B
  Clients = {c1, c2}
  Slots = {s1, s2}
  Targets = {A, B}
  Limits = {1}
  None = None
INVARIANTS
  TypeOK NoLeak StopIsComplete
PROPERTIES
  IdleSessionsEnd StopEnds
