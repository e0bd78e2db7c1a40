\* One alert more than the queue and the worker hold together, which is one
\* more than the history; two requests in flight can overtake each other.
SPECIFICATION ConsoleSpec
CONSTANTS
  Rules = {"self-delete"}
  StoreCap = 2
  QueueCap = 1
  MaxAlerts = 3
  MaxRequests = 2
INVARIANTS
  TypeOK
  StoreKeepsNewest
  EveryAlertAccounted
  EndpointSeesEachOnceInOrder
  DeliveredWasReceived
  MainNeverBlocked
PROPERTIES
  ImplementsOutbox
  QueuedIsPosted
  ConsoleCatchesUp
  ConsoleNoticesExit
CHECK_DEADLOCK FALSE
