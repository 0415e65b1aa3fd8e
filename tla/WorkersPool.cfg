SPECIFICATION FairSpec
CONSTANTS
  head = head tail = tail
  Workers = {w1, w2}
  Tasks <- MCTasks
  Periodic = {head}
  Consumers <- MCConsumers
  None = None
  MaxInput = 2
  MaxAdds = 3
INVARIANTS MutualExclusion NoLostJob
PROPERTIES QueuedIsRun StopReturns
CHECK_DEADLOCK FALSE
