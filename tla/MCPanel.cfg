SPECIFICATION Spec
CONSTANTS
  AddrBits = 3
  MaxHosts = 4
  MaxPort = 3
  MaxRange = 1
  DefaultPorts <- MCDefaultPorts
  Options <- MCOptions
  MaxJobs = 2
  c1 = c1
  c2 = c2
  x = x
  Callers <- MCCallers
  Detectors <- MCDetectors
  Profiles <- MCProfiles
  MaxCalls = 2
INVARIANTS
  TypeOK ScanIsThorough
PROPERTIES
  LoneChangeIsWhole ScanEnds
