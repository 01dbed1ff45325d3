CONSTANTS
  VPage = {0, 1, 2, 3}
  Writable = {0, 1, 3}
  Frame = {f1, f2, f3}
  Value = {a, b}
  Zero = a
  MaxSwapOffset = 4
  MaxAddr = 5
  NPages = 9
  MaxRequest = 3
  Searches = {"first", "best"}
  Exhausts = FALSE
  max_order = 3
  SizeOfPage = 40
  WordBits = 9
  Requests = {1, 2, 3, 4, 8}
  PAGE_SIZE = 12
  SLOB_UNIT = 2
  BIGBLOCK = 3
  HeapPages = 3
  Sizes = {2, 5, 8, 12, 23, 25}
SPECIFICATION MemorySpec
SYMMETRY FrameSymmetry
INVARIANTS FitExact BuddyExact KmallocExact MmapExact IInv
PROPERTIES KeepsPromise PagingInvisible NewestStays
