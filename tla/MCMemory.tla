------------------------------ MODULE MCMemory ------------------------------
(***************************************************************************)
(* The parts of the kernel that divide memory, each alone: the page        *)
(* allocators (struct pmm_manager is one of them at a time), kmalloc, the  *)
(* areas of an address space, and the paging of its pages.  which says who *)
(* runs; the others stay as they were set up.                              *)
(***************************************************************************)
EXTENDS Vma, FreeList, Slob, Buddy, Swap, TLC

VARIABLE which

all_vars == <<which, mmap_vars, vars, buddy_vars, slob_vars, swap_vars>>

\* Frames may be exchanged for one another.
FrameSymmetry == Permutations(Frame)

MemoryInit ==
  /\ which \in {"free list", "buddy", "slob", "vma", "paging"}
  /\ MmapInit /\ Init /\ BuddyInit /\ SlobInit /\ SwapInit
  /\ which # "free list" => search = CHOOSE s \in Searches : TRUE
  /\ which # "paging" => data = [f \in Frame |-> Zero]

MemoryNext ==
  \/ /\ which = "vma" /\ MmapNext
     /\ UNCHANGED <<which, vars, buddy_vars, slob_vars, swap_vars>>
  \/ /\ which = "free list" /\ Next
     /\ UNCHANGED <<which, mmap_vars, buddy_vars, slob_vars, swap_vars>>
  \/ /\ which = "buddy" /\ BuddyNext
     /\ UNCHANGED <<which, mmap_vars, vars, slob_vars, swap_vars>>
  \/ /\ which = "slob" /\ SlobNext
     /\ UNCHANGED <<which, mmap_vars, vars, buddy_vars, swap_vars>>
  \/ /\ which = "paging" /\ SwapNext
     /\ UNCHANGED <<which, mmap_vars, vars, buddy_vars, slob_vars>>

MemorySpec == MemoryInit /\ [][MemoryNext]_all_vars
=============================================================================
