\* A LoadSnapshot command among the recorded ones.
SPECIFICATION Spec
CONSTANTS
  Ids = {1, 2, 3}
  Prices = {1}
  MaxOrders = 2
  Incoming <- MCFew
  Controls = {"SaveSnapshot", "StartReplay", "LoadSnapshot"}
  MaxCommands = 4
INVARIANT ReplayReproduces
CHECK_DEADLOCK FALSE
