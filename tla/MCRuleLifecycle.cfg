SPECIFICATION Spec
CONSTANTS
  c1 = c1  c2 = c2  k1 = k1  k2 = k2  w1 = w1  w2 = w2
  any = any  h1 = h1  p1 = p1  p2 = p2
  Callers = {c1, c2}
  Conns = {k1, k2}
  Workers = {w1, w2}
  Hosts <- MCHosts
  Ports <- MCPorts
  AnyHost = any
  Configs <- MCConfigs
  FirstSpec <- MCFirst
  MaxGen = 2
  None = None
SYMMETRY Symmetry
INVARIANTS
  TypeOK StopIsComplete RunningMeansListening OneGeneration Accounting
  UpdateAllOrNothing HealthWorkerIsCurrent
PROPERTIES
  WaitGroupNotReused AdmissionWithinLimit UpdateKeepsConnections
  ImplementsService
