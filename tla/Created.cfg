CONSTANTS
  Proc = {p1}
  Threads = {p1}
  Disk = {disk0}
  Char = {stdin}
  Name = {a}
  NULL = NULL
  MaxLeaks = 1
SPECIFICATION Spec
INVARIANTS MakesWhatWasNamed
