SPECIFICATION Spec
CONSTANTS
  Epochs = {1}
  Ids = {1}
  MaxConns = 2
  AutoPin <- MCAutoPin
  Udp = {}
  Chunks <- MCChunks
  MaxSent = 2
  MaxChanges = 1
  FirstConfig <- MCFirst
  Configs <- OnlyFirst
  QueueSize = 2
  Burst = 2
INVARIANTS
  ScoresOncePerConnection
