\* The table of a book of three orders: bucket_count_for(3) is 8.
SPECIFICATION Spec
CONSTANTS
  Ids <- MCIds
  Slots = {s1, s2}
  NoSlot = NoSlot
  Empty = Empty
  Buckets = 8
  MaxEntries = 3
  Home <- MCHome
INVARIANT LookupExact
PROPERTIES ImplementsMap
