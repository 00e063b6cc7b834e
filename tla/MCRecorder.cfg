SPECIFICATION Spec
CONSTANTS
  k1 = k1  k2 = k2 
  Conns = {k1, k2}
  Udp = {k2}
  Limits <- MCLimits
  MaxChunks = 2
  MaxSent = 3
INVARIANTS
  TypeOK Bounded CapturesArePrefixes
PROPERTIES
  CapturesAreKept
