SPECIFICATION TSpec
CONSTANTS
  A = A  B = B  d1 = d1
  Endpoints = {A, B}
  FirstConfig <- MCFirst
  Dials = {d1}
  None = None
  MaxRun = 2
  Configs <- OnlyFirst
  MaxMisses = 2
INVARIANTS
  FailedChecksMarkDown
