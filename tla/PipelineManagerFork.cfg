SPECIFICATION Spec
CONSTANTS
  head = head mid1 = mid1 mid2 = mid2 tail = tail single = single
  Filters <- MCFilters
  MaxWriters <- MCMaxWriters
  MaxReaders <- MCMaxReaders
  Paths = {1, 2}
  Request <- MCForkEnding
  AnyId = AnyId
  Ids = {1, 2}
  MaxCreates = 6
INVARIANTS StopSucceeds
CHECK_DEADLOCK FALSE
