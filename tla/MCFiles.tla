------------------------------ MODULE MCFiles ------------------------------
(***************************************************************************)
(* The file systems: the kernel's calls on names and inodes (Vfs), and the *)
(* tool that makes the image of a disk (Mksfs).  The tool runs on the host *)
(* before the kernel does; which says who runs.  Processes that share a    *)
(* files_struct may be exchanged for one another.                          *)
(***************************************************************************)
EXTENDS Vfs, TLC

CONSTANTS ImageBlocks, SFS_BLKBITS, SFS_NDIRECT, SFS_BLK_NENTRY, SFS_LN_NBLKS  \* of Mksfs

\* static_check and the static_assert of append_block
ASSUME ImageAssumption ==
  SFS_LN_NBLKS <= SFS_BLK_NENTRY * SFS_BLK_NENTRY + SFS_BLK_NENTRY + SFS_NDIRECT

VARIABLES which, sfs, dirs, copying, disk

image_vars == <<sfs, dirs, copying, disk>>

Image == INSTANCE Mksfs

ThreadSymmetry == Permutations(Threads)

FilesInit ==
  /\ which \in {"kernel", "mksfs"}
  /\ Init /\ Image!Init
  /\ which = "kernel" => sfs.ninos = CHOOSE n \in ImageBlocks : TRUE

FilesNext ==
  \/ which = "kernel" /\ Next /\ UNCHANGED <<which, image_vars>>
  \/ which = "mksfs" /\ Image!Next /\ UNCHANGED <<which, vars>>

FilesSpec == FilesInit /\ [][FilesNext]_<<which, vars, image_vars>>
-----------------------------------------------------------------------------
\* The properties of the image under names of their own: its blocks are used once and
\* the map tells which; read back it is the directory it was made from.
ImageExact == Image!ImageExact
ReadsBack == Image!ReadsBack
=============================================================================
