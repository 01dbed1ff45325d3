CONSTANTS
  Pid = {init, p2, p3, p4, p5}
  initproc = init
  idleproc = idle
  NULL = NULL
  ANY = ANY
  Mm = {m1, m2, m3}
  MAX_PROCESS = 5
  CloneFlags = {"COPY", "CLONE_VM"}
  KillTargets = {init, p2, p3, p4, p5}
SPECIFICATION Spec
SYMMETRY Symmetry
INVARIANTS FamilyInv MmCounted ChildLists ParentsAlive NoLostWakeup CurrentMayRun NeverAllAsleep InitCheckPasses
PROPERTIES ReapedByParent
