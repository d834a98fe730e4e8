\* Five commands: orders of one client id space on two prices, a book with room
\* for two, snapshots, and replay sessions.
SPECIFICATION Spec
CONSTANTS
  Ids = {1, 2, 3}
  Prices = {1, 2}
  MaxOrders = 2
  Incoming <- MCIncoming
  Controls = {"SaveSnapshot", "StartReplay", "StopReplay", "Shutdown", "None"}
  MaxCommands = 5
INVARIANTS
  EventStreamExact
  BookMatchesEvents
  PriceTimePriority
  BookUncrossed
  OrdersAddUp
  RestAlwaysFits
  ReplayReproduces
  ReplayLeavesNoTrace
CHECK_DEADLOCK FALSE
