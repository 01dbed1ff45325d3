-------------------------------- MODULE Vma --------------------------------
(***************************************************************************)
(* The areas of an address space in lab3 (vmm.c): insert_vma_struct, the   *)
(* list sorted by start address, find_vma with the area it found last, and *)
(* mm_destroy.                                                             *)
(***************************************************************************)
EXTENDS Integers, Sequences, Functions, SequencesExt

CONSTANT MaxAddr   \* addresses are 0 .. MaxAddr

ASSUME VmaAssumption == MaxAddr \in Nat

VARIABLES
  mmap_list,    \* the areas, first to last
  mmap_cache,   \* the area find_vma returned last, or NULL
  map_count,
  asked,        \* the address of the last find_vma, and its answer
  halted        \* an assertion failed

mmap_vars == <<mmap_list, mmap_cache, map_count, asked, halted>>

Addr == 0 .. MaxAddr
NULL == [vm_start |-> 0, vm_end |-> 0]
VmaSet == [vm_start : Addr, vm_end : Addr]
Covers(vma, addr) == vma.vm_start <= addr /\ addr < vma.vm_end

\* mm_create
MmapInit ==
  /\ mmap_list = << >>
  /\ mmap_cache = NULL
  /\ map_count = 0
  /\ asked = [addr |-> 0, vma |-> NULL]
  /\ halted = FALSE
-----------------------------------------------------------------------------
\* How many areas the loop of insert_vma_struct passes: it stops at the first
\* that starts beyond the new one.
Before(vma) ==
  LET beyond == {i \in 1 .. Len(mmap_list) : mmap_list[i].vm_start > vma.vm_start}
  IN IF beyond = {} THEN Len(mmap_list)
     ELSE (CHOOSE i \in beyond : \A k \in beyond : i <= k) - 1

\* check_vma_overlap
Apart(prev, next) ==
  /\ prev.vm_start < prev.vm_end
  /\ prev.vm_end <= next.vm_start
  /\ next.vm_start < next.vm_end

\* Mutant: only the area before the new one is compared with it.
Accepted_PrevOnly(vma, n) ==
  /\ vma.vm_start < vma.vm_end
  /\ n > 0 => Apart(mmap_list[n], vma)

\* The assertions of insert_vma_struct, for a new area behind the first n.
Accepted(vma, n) ==
  /\ vma.vm_start < vma.vm_end
  /\ n > 0 => Apart(mmap_list[n], vma)
  /\ n < Len(mmap_list) => Apart(vma, mmap_list[n + 1])

InsertVma(vma) ==
  /\ ~ halted
  /\ LET n == Before(vma)
     IN IF Accepted(vma, n)
        THEN /\ mmap_list' = InsertAt(mmap_list, n + 1, vma)
             /\ map_count' = map_count + 1
             /\ UNCHANGED halted
        ELSE halted' = TRUE /\ UNCHANGED <<mmap_list, map_count>>
  /\ UNCHANGED <<mmap_cache, asked>>
-----------------------------------------------------------------------------
\* What the search of the list finds.
Searched(addr) ==
  LET hits == {i \in 1 .. Len(mmap_list) : Covers(mmap_list[i], addr)}
  IN IF hits = {} THEN NULL
     ELSE mmap_list[CHOOSE i \in hits : \A k \in hits : i <= k]

\* find_vma: the cached area first.  Nothing found leaves the cache alone.
FindVma(addr) ==
  /\ ~ halted
  /\ LET vma == IF Covers(mmap_cache, addr) THEN mmap_cache ELSE Searched(addr)
     IN /\ asked' = [addr |-> addr, vma |-> vma]
        /\ mmap_cache' = IF vma = NULL THEN mmap_cache ELSE vma
  /\ UNCHANGED <<mmap_list, map_count, halted>>

\* mm_destroy frees the areas and the mm_struct; mm_create makes the next one.
DestroyMm ==
  /\ ~ halted
  /\ mmap_list' = << >>
  /\ mmap_cache' = NULL
  /\ map_count' = 0
  /\ asked' = [addr |-> 0, vma |-> NULL]
  /\ UNCHANGED halted

Stopped == halted /\ UNCHANGED mmap_vars

MmapNext ==
  \/ \E vma \in VmaSet : InsertVma(vma)
  \/ \E addr \in Addr : FindVma(addr)
  \/ DestroyMm \/ Stopped

MmapSpec == MmapInit /\ [][MmapNext]_mmap_vars
-----------------------------------------------------------------------------
\* The list is sorted and its areas are disjoint, although each insertion looks at
\* two neighbours only, and the cached area still answers as the list would.
MmapExact ==
  /\ \A i, j \in 1 .. Len(mmap_list) :
       i < j => mmap_list[i].vm_end <= mmap_list[j].vm_start
  /\ map_count = Len(mmap_list)
  /\ mmap_cache # NULL => mmap_cache \in Range(mmap_list)
  /\ asked.vma # NULL => asked.vma = Searched(asked.addr)
=============================================================================
