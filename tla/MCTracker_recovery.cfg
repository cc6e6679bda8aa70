SPECIFICATION FairSpec
CONSTANTS
  MaxBlock = 3
  MaxReorg = 0
  MaxDepth = 1
  FirstHead = 1
  RpcLag = 1
  MaxFaults = 1
  StartBlock = 0
  BatchSize = 2
  EventCount = 1
  Worker = {w1}
  Undecodable <- SecondBlock
INVARIANTS TickLeavesNewest
PROPERTIES
  NoAbandonedBlock
  EventuallyProcessed
  ShutdownCompletes
