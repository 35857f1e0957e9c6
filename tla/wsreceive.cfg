SPECIFICATION FairSpec
CONSTANTS
  Payloads = {8}
  MaxPipe = 2
  Nothing = Nothing
  Garbage = Garbage
PROPERTIES
  DispatchedInOrder
  AllDispatched
CHECK_DEADLOCK FALSE
