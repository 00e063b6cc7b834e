SPECIFICATION TLiveSpec
CONSTANTS
  A = A  B = B  d1 = d1
  Endpoints = {A, B}
  FirstConfig <- MCFirst
  Dials = {d1}
  None = None
  MaxRun = 2
  Configs <- MCConfigs
  MaxMisses = 0
INVARIANTS
  TypeOK ManualModeHolds RouteSettled
PROPERTIES
  FlipsAreEarned RouteConverges
