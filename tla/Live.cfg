CONSTANTS
  MAX_PROCESS = 5
  MAX_PID = 8
  Pid = {init, p2, p3, p4}
  initproc = init
  idleproc = idle
  NULL = NULL
  ANY = ANY
  Mm = {m1}
  CloneFlags = {"CLONE_VM"}
  KillTargets = {p2, p3, p4}
SPECIFICATION LiveSpec
INVARIANTS Inv
PROPERTIES AllocatesFresh ScanEnds RunnableRuns OrphansReaped
