\* Three slots, two prices in two segments.
SPECIFICATION Spec
CONSTANTS
  Ids = {1, 2, 3}
  MinPrice = 5
  MaxPrice = 6
  MaxOrders = 3
  PricesPerSegment = 2
  Quantities = {1, 2}
  Images <- MCImages
PROPERTY FailedRestoreChangesNothing
