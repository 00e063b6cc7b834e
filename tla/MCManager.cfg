SPECIFICATION Spec
CONSTANTS
  c1 = c1  c2 = c2  i1 = i1  i2 = i2  any = any  h = h
  Callers = {c1, c2}
  Main = Main
  Ids = {i1, i2}
  Addrs <- MCAddrs
  Wild = any
  Requests <- MCRequests
  Profiles <- MCProfiles
  Files <- MCFiles
  MaxObject = 6
  MaxCalls = 2
  None = None
SYMMETRY Symmetry
INVARIANTS
  TypeOK NoConflicts ListenersMatchRules ReplaceAllOrNothing
PROPERTIES
  FileIsFaithful
