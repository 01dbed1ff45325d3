CHECK_DEADLOCK FALSE
SPECIFICATION Spec
CONSTANTS
  NPages = 5
  MaxRequest = 2
  Searches = {"first"}
  Exhausts = TRUE
INVARIANTS NoDoubleAllocation
