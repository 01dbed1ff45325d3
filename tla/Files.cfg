CONSTANTS
  Proc = {p1, p2}
  Threads = {p1, p2}
  Disk = {disk0}
  Char = {stdin}
  Name = {a}
  NULL = NULL
  MaxLeaks = 2
  ImageBlocks = {3, 27}
  SFS_BLKBITS = 8
  SFS_NDIRECT = 1
  SFS_BLK_NENTRY = 2
  SFS_LN_NBLKS = 6
SYMMETRY ThreadSymmetry
SPECIFICATION FilesSpec
INVARIANTS RefsExact ImageExact ReadsBack
PROPERTIES OnlyCreateLeaks
