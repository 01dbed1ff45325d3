SPECIFICATION SlobSpec
CONSTANTS
  PAGE_SIZE = 12
  SLOB_UNIT = 2
  BIGBLOCK = 3
  HeapPages = 3
  Sizes = {2, 5, 8, 12, 23, 25}
INVARIANT RoomForAll
