SPECIFICATION Spec
CONSTANTS
  MaxBlock = 2
  MaxReorg = 1
  MaxDepth = 2
  FirstHead = 1
  RpcLag = 0
  MaxFaults = 1
  StartBlock = 1
  BatchSize = 1
  EventCount = 2
  Worker = {w1, w2}
  Undecodable <- NoBlock
SYMMETRY WorkerSymmetry
INVARIANTS
  TypeOK
  MarkedMeansDelivered
  BackfillQueueBound
  OnlyExistingBlocksQueued
  NoWorkAfterClose
PROPERTIES LedgerSpec
