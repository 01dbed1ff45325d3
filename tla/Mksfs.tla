------------------------------- MODULE Mksfs -------------------------------
(***************************************************************************)
(* The tool that copies a directory of the host into an image of the       *)
(* simple file system (lab8 tools/mksfs.c).  A step copies a block, adds a *)
(* directory entry, or enters or leaves a directory; what readdir and read *)
(* return next is anything.  Blocks of data and of entries are written as  *)
(* they come, inodes, index blocks, the free map and the super block by    *)
(* close_sfs.  bug() and assert() end the program.                         *)
(***************************************************************************)
EXTENDS Integers, Sequences, FiniteSets, FiniteSetsExt, Functions, SequencesExt

CONSTANTS
  ImageBlocks,           \* the sizes of the image file, in blocks
  SFS_BLKBITS,           \* the bits of a block
  SFS_NDIRECT, SFS_BLK_NENTRY, SFS_LN_NBLKS

VARIABLES
  sfs,       \* ninos, next_ino, unused_blocks; the cached inodes, each with its
             \* l1 and l2; the cached index blocks; failed: "no", or why it ended
  dirs,      \* the open_dir calls, innermost last: current, parent, and what
             \* comes next
  copying,   \* the inode that open_file copies to, or 0
  disk       \* the contents of the blocks written

vars == <<sfs, dirs, copying, disk>>

SFS_BLKN_SUPER == 0
SFS_BLKN_ROOT == 1
SFS_BLKN_FREEMAP == 2
SFS_L1_NBLKS == SFS_BLK_NENTRY + SFS_NDIRECT
SFS_L2_NBLKS == SFS_BLK_NENTRY * SFS_BLK_NENTRY + SFS_L1_NBLKS

NoBlocks == [n \in 0 .. SFS_BLK_NENTRY - 1 |-> 0]

Inode(type) ==
  [type |-> type, nlinks |-> 0, nblks |-> 0,
   direct |-> [n \in 0 .. SFS_NDIRECT - 1 |-> 0], indirect |-> 0, db_indirect |-> 0,
   l1 |-> 0, l2 |-> 0]

FreemapBlocks(ninos) == (ninos + SFS_BLKBITS - 1) \div SFS_BLKBITS

\* create_sfs; an image without room for its own map is refused.
Init ==
  \E ninos \in ImageBlocks :
    LET next == SFS_BLKN_FREEMAP + FreemapBlocks(ninos)
    IN /\ sfs = [ninos |-> ninos, next_ino |-> next, unused_blocks |-> ninos - next,
                 inodes |-> [i \in {SFS_BLKN_ROOT} |-> Inode("dir")], index |-> << >>,
                 failed |-> IF next >= ninos THEN "img file is too small" ELSE "no"]
       /\ dirs = <<[current |-> SFS_BLKN_ROOT, parent |-> SFS_BLKN_ROOT, next |-> "."]>>
       /\ copying = 0
       /\ disk = << >>
-----------------------------------------------------------------------------
Fails(s, why) == IF s.failed = "no" THEN [s EXCEPT !.failed = why] ELSE s

\* sfs_alloc_ino; the block is s.next_ino.
AllocIno(s) ==
  IF s.next_ino < s.ninos
  THEN [s EXCEPT !.next_ino = @ + 1, !.unused_blocks = @ - 1]
  ELSE Fails(s, "out of disk space")

\* alloc_cache_inode
AllocInode(s, type) ==
  [AllocIno(s) EXCEPT !.inodes = (s.next_ino :> Inode(type)) @@ @]

\* update_cache on a pointer to an index block that is ino, where the file has cb
\* cached: a new block if there is none, and no search otherwise.  (A search would
\* fail: alloc_cache_block hashed the block as number 0.)
UpdateCache(s, cb, ino) ==
  IF ino = 0 THEN [s |-> [AllocIno(s) EXCEPT !.index = (s.next_ino :> NoBlocks) @@ @],
                   ino |-> s.next_ino]
  ELSE [s |-> IF cb = ino THEN s ELSE Fails(s, "assert"), ino |-> ino]

\* nblks -= SFS_L1_NBLKS
PlaceInSecond(n) == n - SFS_L1_NBLKS

\* append_block of block ino to a file with n blocks: the pointer to it
Direct(s, file, n, ino) ==
  [s EXCEPT !.inodes[file].direct[n] = ino]

Indirect(s, file, n, ino) ==
  LET u == UpdateCache(s, s.inodes[file].l1, s.inodes[file].indirect)
  IN [u.s EXCEPT !.inodes[file].l1 = u.ino, !.inodes[file].indirect = u.ino,
                 !.index[u.ino][n - SFS_NDIRECT] = ino]

DoublyIndirect(s, file, n, ino) ==
  LET two == UpdateCache(s, s.inodes[file].l2, s.inodes[file].db_indirect)
      i == PlaceInSecond(n) \div SFS_BLK_NENTRY
      one == UpdateCache(two.s, s.inodes[file].l1, two.s.index[two.ino][i])
  IN [one.s EXCEPT !.inodes[file].l2 = two.ino, !.inodes[file].db_indirect = two.ino,
                   !.inodes[file].l1 = one.ino,
                   !.index[two.ino][i] = one.ino,
                   !.index[one.ino][PlaceInSecond(n) % SFS_BLK_NENTRY] = ino]

AppendBlock(s, file, ino) ==
  LET n == s.inodes[file].nblks
      pointed == IF n < SFS_NDIRECT THEN Direct(s, file, n, ino)
                 ELSE IF n < SFS_L1_NBLKS THEN Indirect(s, file, n, ino)
                 ELSE DoublyIndirect(s, file, n, ino)
  IN IF s.failed # "no" THEN s
     ELSE IF n >= SFS_LN_NBLKS THEN Fails(s, "file is too big")
     ELSE [pointed EXCEPT !.inodes[file].nblks = n + 1]

\* write_block; nothing is written once the program has ended.
Write(s, ino, content) == IF s.failed = "no" THEN (ino :> content) @@ disk ELSE disk

\* Mutant: an entry for a file that is there already does not count.
Linked_FirstOnly(s, file) == [s EXCEPT !.inodes[file].nlinks = 1]

\* file->inode.nlinks ++
Linked(s, file) == [s EXCEPT !.inodes[file].nlinks = @ + 1]

\* add_entry of file, under a name, to directory current
AddEntry(s, current, file, name) ==
  LET ino == s.next_ino
      appended == AppendBlock(AllocIno(s), current, ino)
  IN [s |-> IF appended.failed = "no" THEN Linked(appended, file) ELSE appended,
      disk |-> Write(AllocIno(s), ino, [entry |-> file, name |-> name])]

\* The entry is added, and the rest of the step is done if the program goes on.
Adds(s, current, file, name, thenDirs) ==
  LET added == AddEntry(s, current, file, name)
  IN /\ sfs' = added.s
     /\ disk' = IF s.failed = "no" THEN added.disk ELSE disk
     /\ dirs' = thenDirs
-----------------------------------------------------------------------------
Running == sfs.failed = "no" /\ dirs # << >>
here == Last(dirs)
Reads == Running /\ copying = 0 /\ here.next = "readdir"
Then(next) == Append(Front(dirs), [here EXCEPT !.next = next])

\* The two entries open_dir begins with
Dot ==
  /\ Running /\ here.next = "."
  /\ Adds(sfs, here.current, here.current, ".", Then(".."))
  /\ UNCHANGED copying

DotDot ==
  /\ Running /\ here.next = ".."
  /\ Adds(sfs, here.current, here.parent, "..", Then("readdir"))
  /\ UNCHANGED copying

\* readdir returns a regular file that is not cached: add_file begins to copy it.
NewFile ==
  /\ Reads
  /\ sfs' = AllocInode(sfs, "file")
  /\ copying' = sfs.next_ino
  /\ UNCHANGED <<dirs, disk>>

\* A turn of the loop of open_file
CopyBlock ==
  /\ Running /\ copying # 0
  /\ sfs' = AppendBlock(AllocIno(sfs), copying, sfs.next_ino)
  /\ disk' = Write(AllocIno(sfs), sfs.next_ino,
                   [of |-> copying, n |-> sfs.inodes[copying].nblks])
  /\ UNCHANGED <<dirs, copying>>

EndOfFile ==
  /\ Running /\ copying # 0
  /\ copying' = 0
  /\ Adds(sfs, here.current, copying, "name", dirs)

\* Another name of a file that has been copied
HardLink(file) ==
  /\ Reads /\ sfs.inodes[file].type = "file"
  /\ Adds(sfs, here.current, file, "name", dirs)
  /\ UNCHANGED copying

\* add_link copies every symbolic link, and every name of one, afresh.
SymLink ==
  /\ Reads
  /\ LET file == sfs.next_ino
         s == AllocInode(sfs, "link")
         t == AppendBlock(AllocIno(s), file, s.next_ino)
         added == AddEntry(t, here.current, file, "name")
     IN /\ sfs' = IF t.failed = "no" THEN added.s ELSE t
        /\ disk' = IF t.failed = "no"
                   THEN (s.next_ino :> [of |-> file, n |-> 0]) @@ added.disk ELSE disk
  /\ UNCHANGED <<dirs, copying>>

\* add_dir up to the inner open_dir
EnterDir ==
  /\ Reads
  /\ sfs' = AllocInode(sfs, "dir")
  /\ dirs' = Append(dirs, [current |-> sfs.next_ino, parent |-> here.current, next |-> "."])
  /\ UNCHANGED <<copying, disk>>

\* readdir is at its end; add_dir goes on in the directory above.
LeaveDir ==
  /\ Reads /\ Len(dirs) > 1
  /\ Adds(sfs, here.parent, here.current, "name", Front(dirs))
  /\ UNCHANGED copying
-----------------------------------------------------------------------------
(* close_sfs *)

\* Mutant: the last block of the map goes on to its end.
MapEnd_Whole(i) == SFS_BLKBITS

\* The bits of a block of the map that has those from i on
MapEnd(i) == IF i + SFS_BLKBITS > sfs.ninos THEN sfs.ninos - i ELSE SFS_BLKBITS
MapStart(i) == IF i < sfs.next_ino THEN sfs.next_ino - i ELSE 0

Freemap(k) ==
  LET i == k * SFS_BLKBITS
  IN IF i + SFS_BLKBITS > sfs.next_ino
     THEN {i + j : j \in MapStart(i) .. MapEnd(i) - 1} ELSE {}

MapBlocks == 0 .. FreemapBlocks(sfs.ninos) - 1

CloseSfs ==
  /\ Reads /\ Len(dirs) = 1
  /\ disk' = sfs.inodes @@ sfs.index
               @@ (SFS_BLKN_SUPER :> [blocks |-> sfs.ninos, unused |-> sfs.unused_blocks])
               @@ [b \in {SFS_BLKN_FREEMAP + k : k \in MapBlocks} |->
                     Freemap(b - SFS_BLKN_FREEMAP)]
               @@ disk
  /\ dirs' = << >>
  /\ UNCHANGED <<sfs, copying>>

Ended == ~ Running /\ UNCHANGED vars

Next ==
  \/ Dot \/ DotDot \/ NewFile \/ CopyBlock \/ EndOfFile \/ SymLink
  \/ \E file \in DOMAIN sfs.inodes : HardLink(file)
  \/ EnterDir \/ LeaveDir \/ CloseSfs \/ Ended

Spec == Init /\ [][Next]_vars
-----------------------------------------------------------------------------
(* Properties *)

Made == sfs.failed = "no" /\ dirs = << >>
Inodes == DOMAIN sfs.inodes

\* The n-th block of a file, found the way a reader of the image finds it
BlockOf(file, n) ==
  LET inode == disk[file]
      m == n - SFS_L1_NBLKS
  IN IF n < SFS_NDIRECT THEN inode.direct[n]
     ELSE IF n < SFS_L1_NBLKS THEN disk[inode.indirect][n - SFS_NDIRECT]
     ELSE disk[disk[inode.db_indirect][m \div SFS_BLK_NENTRY]][m % SFS_BLK_NENTRY]

BlocksOf(file) == {BlockOf(file, n) : n \in 0 .. disk[file].nblks - 1}

\* The index blocks a file points to
IndexOf(file) ==
  LET inode == disk[file]
  IN {b \in {inode.indirect, inode.db_indirect}
              \cup (IF inode.db_indirect = 0 THEN {} ELSE Range(disk[inode.db_indirect])) :
        b # 0}

\* In an image that was made, the blocks are the super block, the map, the inodes, and
\* the data and index blocks of each of them, each of these used once; the map marks
\* just the others as free, and the super block counts them.  No index block is looked
\* for in vain on the way (the assert of update_cache).
ImageExact ==
  /\ sfs.failed # "assert"
  /\ Made =>
       LET own == [f \in Inodes |-> {f} \cup BlocksOf(f) \cup IndexOf(f)]
           fixed == {SFS_BLKN_SUPER} \cup {SFS_BLKN_FREEMAP + k : k \in MapBlocks}
           used == fixed \cup UNION Range(own)
           free == UNION {disk[SFS_BLKN_FREEMAP + k] : k \in MapBlocks}
       IN /\ Cardinality(used) = Cardinality(fixed)
                                 + MapThenSumSet(LAMBDA f : Cardinality(own[f]), Inodes)
          /\ used \cap free = {} /\ used \cup free = 0 .. sfs.ninos - 1
          /\ disk[SFS_BLKN_SUPER].unused = Cardinality(free)

Entries(d) == {disk[b] : b \in BlocksOf(d)}
DirInodes == {d \in Inodes : disk[d].type = "dir"}
NamesOf(file) ==
  {b \in UNION {BlocksOf(d) : d \in DirInodes} : disk[b].entry = file}

\* Read back through its inode a file has the blocks of the host's file in their order,
\* however many levels of index they went through; a directory begins with itself and
\* the directory that names it; and the link count of an inode is the number of entries
\* that name it.
ReadsBack ==
  Made =>
    \A f \in Inodes :
      /\ disk[f].nlinks = Cardinality(NamesOf(f))
      /\ \A n \in 0 .. disk[f].nblks - 1 :
           disk[f].type # "dir" => disk[BlockOf(f, n)] = [of |-> f, n |-> n]
      /\ disk[f].type = "dir" =>
           /\ disk[BlockOf(f, 0)] = [entry |-> f, name |-> "."]
           /\ \E above \in DirInodes :
                /\ disk[BlockOf(f, 1)] = [entry |-> above, name |-> ".."]
                /\ IF f = SFS_BLKN_ROOT THEN above = f
                   ELSE [entry |-> f, name |-> "name"] \in Entries(above)
=============================================================================
