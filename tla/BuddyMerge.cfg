CONSTANTS
  max_order = 3
  SizeOfPage = 40
  WordBits = 9
  Requests = {1, 2, 3, 4, 8}
SPECIFICATION BuddySpec
INVARIANTS BuddyIsOtherHalf
