SPECIFICATION Spec
CONSTANTS
  Epochs = {1, 2}
  Ids = {1, 2}
  MaxConns = 2
  AutoPin <- MCAutoPin
  Udp <- MCUdp
  Chunks <- MCChunks
  MaxSent = 2
  MaxChanges = 1
  FirstConfig <- MCFirst
  Configs <- MCConfigs
  QueueSize = 2
  Burst = 2
INVARIANTS
  TypeOK FindingsAreSound InspectionIsExact PinsAreDeserved
