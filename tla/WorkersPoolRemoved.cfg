SPECIFICATION Spec
CONSTANTS
  head = head tail = tail
  Workers = {w1, w2}
  Tasks <- MCTasks
  Periodic = {head}
  Consumers <- MCConsumers
  None = None
  MaxInput = 1
  MaxAdds = 2
INVARIANTS RemovedIsQuiet
CHECK_DEADLOCK FALSE
