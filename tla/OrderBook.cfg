\* Three slots, three prices in two segments.
SPECIFICATION Spec
CONSTANTS
  Ids = {1, 2, 3}
  MinPrice = 5
  MaxPrice = 7
  MaxOrders = 3
  PricesPerSegment = 2
  Quantities = {1, 2}
  Images <- MCImages
INVARIANTS FreelistExact FifosExact BestExact
PROPERTIES ImplementsPriceTimeBook SnapshotRoundTrip
