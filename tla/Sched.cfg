CONSTANTS
  Pid = {first, p2, p3}
  idleproc = idleproc
  first = first
  NULL = NULL
  MAX_TIME_SLICE = 2
  MaxExpires = 3
  Width = 3
  Priority = {1, 2}
  STRIDE_SLICE = 1
  LongSleeps = FALSE
SPECIFICATION ClassSpec
INVARIANTS QueueExact TimersExact StrideExact
PROPERTIES KeepsTime RunnableRuns SleepersReturn PicksLeast
