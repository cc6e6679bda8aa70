SPECIFICATION FairSpec
CONSTANTS
  MaxBlock = 2
  MaxReorg = 1
  MaxDepth = 1
  FirstHead = 1
  RpcLag = 0
  MaxFaults = 0
  StartBlock = 0
  BatchSize = 1
  EventCount = 1
  Worker = {w1}
  Undecodable <- NoBlock
PROPERTIES CanonicalDelivered
