CONSTANTS
  Pid = {init, p2, p3, p4}
  initproc = init
  idleproc = idle
  NULL = NULL
  ANY = ANY
  Mm = {m1}
  MAX_PROCESS = 5
  CloneFlags = {"CLONE_VM"}
  KillTargets = {p2, p3, p4}
SPECIFICATION FairSpec
PROPERTY KilledDies
