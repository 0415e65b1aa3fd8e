SPECIFICATION ControlSpec
CONSTANTS
  Mids = {m1}
  TailF = tailFilter
  None = None
  Delays = {0, 3}
  Reconnect = FALSE
  MaxEvents = 3
  MaxTime = 5
  head = head mid1 = mid1 mid2 = mid2 tail = tail single = single
  Filters <- MCFilters
  MaxWriters <- MCMaxWriters
  MaxReaders <- MCMaxReaders
  Paths = {1, 2, 3}
  Request <- MCDiamond
  AnyId = AnyId
  Ids = {1, 2, 3}
  MaxCreates = 5
  Requests <- MCRequests
  MaxRequests = 5
INVARIANTS InTurn NoDeadlock GraphSound
PROPERTIES AllExecuted 
CHECK_DEADLOCK FALSE
