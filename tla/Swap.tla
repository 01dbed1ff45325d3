-------------------------------- MODULE Swap --------------------------------
(***************************************************************************)
(* Demand paging in lab3: do_pgfault (vmm.c), swap_in and swap_out         *)
(* (swap.c), the clock replacement (swap_clock.c), and alloc_pages (pmm.c),*)
(* which swaps a page out when no frame is free.                           *)
(*                                                                         *)
(* There is one address space, check_mm_struct, its page table in place.   *)
(* A page table entry is 0 (never touched), a frame (PTE_V set), or the    *)
(* number of a disk slot, always pra_vaddr/PGSIZE + 1.  The handlers run   *)
(* with interrupts off, so each is one step.                               *)
(***************************************************************************)
EXTENDS Integers, Sequences, Functions, SequencesExt

CONSTANTS
  VPage,           \* the numbers of the pages that belong to a vma
  Writable,        \* those whose vma has VM_WRITE
  Frame,           \* the physical pages that may be handed out
  Value,           \* what a page may contain
  Zero,            \* the content of the fake disk when the system starts
  MaxSwapOffset    \* max_swap_offset: the swap disk has slots 1 .. this-1

ASSUME SwapAssumption ==
  /\ VPage \subseteq Nat
  /\ Writable \subseteq VPage
  /\ MaxSwapOffset \in Nat
  /\ Frame \cap (Nat \cup {"head"}) = {}
  /\ Zero \in Value /\ "none" \notin Value

VARIABLES
  pte,         \* the page table entry of each page
  data,        \* the content of each frame
  disk,        \* the content of each slot
  free,        \* the frames pmm_manager has
  pra_list,    \* pra_list_head: the swappable frames, oldest first
  pra_vaddr,   \* for a swappable frame, the page it holds
  visited,     \* the frames with visited = 1
  curr_ptr,    \* the clock's hand: a frame, or the head of pra_list
  stale,       \* the next pointer left in curr_ptr's frame when it was unlinked
  stopped      \* "no", or why the kernel stopped

clock == <<pra_list, visited, curr_ptr, stale>>
swap_vars == <<pte, data, disk, free, clock, pra_vaddr, stopped>>

HEAD == "head"
Slots == 1 .. MaxSwapOffset - 1
Linked == Range(pra_list)

\* (page->pra_vaddr/PGSIZE+1)<<8, as swap_offset reads it back.
Slot(v) == v + 1

Mapped(v) == pte[v] \in Frame
SwappedOut(v) == pte[v] \notin Frame /\ pte[v] # 0

SwapTypes ==
  /\ pte \in [VPage -> Frame \cup {0} \cup Slots]
  /\ data \in [Frame -> Value]
  /\ disk \in [Slots -> Value]
  /\ free \in SUBSET Frame
  /\ pra_list \in Seq(Frame)
  /\ pra_vaddr \in [Frame -> VPage \cup {0}]
  /\ visited \in SUBSET Frame
  /\ curr_ptr \in Frame \cup {HEAD}
  /\ stale \in Frame \cup {HEAD}
  /\ stopped \in {"no", "invalid swap_entry_t", "no victim", "handle pgfault failed"}

\* _clock_init_mm; the frames hold whatever they hold.
SwapInit ==
  /\ pte = [v \in VPage |-> 0]
  /\ data \in [Frame -> Value]
  /\ disk = [s \in Slots |-> Zero]
  /\ free = Frame
  /\ pra_list = << >>
  /\ pra_vaddr = [f \in Frame |-> 0]
  /\ visited = {}
  /\ curr_ptr = HEAD
  /\ stale = HEAD
  /\ stopped = "no"

Running == stopped = "no"

Halt(why) ==
  /\ stopped' = why
  /\ UNCHANGED <<pte, data, disk, free, clock, pra_vaddr>>
-----------------------------------------------------------------------------
(* The clock: _clock_swap_out_victim *)

\* Mutant: the hand does not go round past the last frame.
Around_Stuck(i) == IF i > Len(pra_list) THEN Len(pra_list) ELSE i

Around(i) == IF i > Len(pra_list) THEN 1 ELSE i

\* The place in pra_list at which the loop first looks: list_next(curr_ptr),
\* and once more if that is the head.  An unlinked hand follows the pointer it
\* was left with.
Starts(i) ==
  CASE curr_ptr = HEAD -> i = 1
    [] curr_ptr \in Linked -> \E k \in DOMAIN pra_list :
                                pra_list[k] = curr_ptr /\ i = Around(k + 1)
    [] OTHER -> IF stale = HEAD THEN i = 1 ELSE pra_list[i] = stale

\* How far the hand moves from place s to place i.
Steps(s, i) == IF i >= s THEN i - s ELSE i - s + Len(pra_list)

Unvisited == {i \in DOMAIN pra_list : pra_list[i] \notin visited}

\* The loop stops at place i: the first unvisited frame or, when it has cleared
\* them all, the frame it began with.
IsVictim(i) ==
  \E s \in DOMAIN pra_list :
    /\ Starts(s)
    /\ IF Unvisited = {} THEN i = s
       ELSE i \in Unvisited /\ \A k \in Unvisited : Steps(s, i) <= Steps(s, k)

\* The frames the hand passes before it stops at place i.
Passed(i) ==
  IF Unvisited = {} THEN Linked
  ELSE {pra_list[k] : k \in {k \in DOMAIN pra_list :
          \E s \in DOMAIN pra_list : Starts(s) /\ Steps(s, k) < Steps(s, i)}}
-----------------------------------------------------------------------------
(* swap_out, for the frame at place i; i = 0 when nothing is swapped out *)

OutPage(i) == pra_vaddr[pra_list[i]]

PteAfter(i) ==
  IF i = 0 THEN pte ELSE [pte EXCEPT ![OutPage(i)] = Slot(OutPage(i))]

\* Mutant: the victim is not written to disk.
DiskAfter_Unwritten(i) == disk

DiskAfter(i) ==
  IF i = 0 THEN disk ELSE [disk EXCEPT ![Slot(OutPage(i))] = data[pra_list[i]]]

\* Mutant: the victim stays linked.
ListAfter_Kept(i) == pra_list

ListAfter(i) == IF i = 0 THEN pra_list ELSE RemoveAt(pra_list, i)

VisitedAfter(i) == IF i = 0 THEN visited ELSE visited \ Passed(i)

MovesHand(i) ==
  IF i = 0 THEN UNCHANGED <<curr_ptr, stale>>
  ELSE /\ curr_ptr' = pra_list[i]
       /\ stale' = IF i = Len(pra_list) THEN HEAD ELSE pra_list[i + 1]

\* alloc_page returns f, after swapping out the frame at place i if none is free.
AllocPage(f, i) ==
  \/ i = 0 /\ f \in free
  \/ /\ free = {}
     /\ i \in DOMAIN pra_list /\ IsVictim(i)
     /\ Slot(OutPage(i)) \in Slots
     /\ f = pra_list[i]

Place == 0 .. Len(pra_list)
-----------------------------------------------------------------------------
(* do_pgfault *)

\* What both ways to map v share: page_insert, swap_map_swappable, pra_vaddr.
Map(v, f, i) ==
  /\ AllocPage(f, i)
  /\ pte' = [PteAfter(i) EXCEPT ![v] = f]
  /\ disk' = DiskAfter(i)
  /\ free' = free \ {f}
  /\ pra_list' = Append(ListAfter(i), f)
  /\ visited' = VisitedAfter(i) \cup {f}
  /\ MovesHand(i)
  /\ pra_vaddr' = [pra_vaddr EXCEPT ![f] = v]
  /\ UNCHANGED stopped

\* pgdir_alloc_page: the frame is not cleared.
FirstTouch(v) ==
  /\ Running /\ pte[v] = 0
  /\ \E f \in Frame, i \in Place : Map(v, f, i)
  /\ UNCHANGED data

\* A page without VM_WRITE is mapped with neither R nor W, and faults again.
Faults(v) == SwappedOut(v) \/ (Mapped(v) /\ v \notin Writable)

\* swap_in reads the entry, and the slot, after alloc_page has perhaps written a
\* page out; that page may be v itself, when it was mapped and faults again.
SwapIn(v) ==
  /\ Running /\ Faults(v)
  /\ \E f \in Frame, i \in Place :
       /\ PteAfter(i)[v] \notin Frame
       /\ Map(v, f, i)
       /\ data' = [data EXCEPT ![f] = DiskAfter(i)[PteAfter(i)[v]]]

\* No vma holds the address: -E_INVAL, on which the trap handler panics.
BadAddress == Running /\ Halt("handle pgfault failed")

\* swap_in takes the entry of a mapped page for a swap entry.
FaultsAgain(v) ==
  /\ Running /\ Faults(v)
  /\ \E f \in Frame, i \in Place : AllocPage(f, i) /\ PteAfter(i)[v] \in Frame
  /\ Halt("invalid swap_entry_t")

\* A store that needs no handler.
Store(v, x) ==
  /\ Running /\ Mapped(v) /\ v \in Writable
  /\ data' = [data EXCEPT ![pte[v]] = x]
  /\ UNCHANGED <<pte, disk, free, clock, pra_vaddr, stopped>>
-----------------------------------------------------------------------------
(* The rest of the kernel *)

\* A page for a page table or for kmalloc.
KernelAlloc ==
  /\ Running
  /\ \E f \in Frame, i \in Place :
       /\ AllocPage(f, i)
       /\ pte' = PteAfter(i)
       /\ disk' = DiskAfter(i)
       /\ free' = free \ {f}
       /\ pra_list' = ListAfter(i)
       /\ visited' = VisitedAfter(i)
       /\ MovesHand(i)
  /\ UNCHANGED <<data, pra_vaddr, stopped>>

\* The page comes back with what the kernel wrote.
KernelFree ==
  /\ Running
  /\ \E f \in Frame \ (free \cup Linked), x \in Value :
       free' = free \cup {f} /\ data' = [data EXCEPT ![f] = x]
  /\ UNCHANGED <<pte, disk, clock, pra_vaddr, stopped>>

\* alloc_page must swap out a page whose slot the disk does not have.
DiskTooSmall ==
  /\ Running /\ free = {}
  /\ \E i \in DOMAIN pra_list : IsVictim(i) /\ Slot(OutPage(i)) \notin Slots
  /\ Halt("invalid swap_entry_t")

\* alloc_page finds neither a free frame nor a swappable one: the clock takes the
\* list head for a page, and the model stops.
NoVictim == Running /\ free = {} /\ pra_list = << >> /\ Halt("no victim")

SwapStopped == ~ Running /\ UNCHANGED swap_vars
-----------------------------------------------------------------------------
SwapNext ==
  \/ \E v \in VPage : FirstTouch(v) \/ SwapIn(v) \/ FaultsAgain(v)
  \/ \E v \in VPage, x \in Value : Store(v, x)
  \/ BadAddress \/ KernelAlloc \/ KernelFree \/ DiskTooSmall \/ NoVictim \/ SwapStopped

SwapSpec == SwapInit /\ [][SwapNext]_swap_vars
-----------------------------------------------------------------------------
(* Properties *)

\* Every frame is free, or linked in pra_list and mapped by the one page its
\* pra_vaddr names, or the kernel's; and a page that is out is in its own slot.
FramesExact ==
  /\ IsInjective(pra_list)
  /\ Linked \cap free = {}
  /\ \A f \in Linked : pra_vaddr[f] \in VPage /\ pte[pra_vaddr[f]] = f
  /\ \A v \in VPage : Mapped(v) => pte[v] \in Linked /\ pra_vaddr[pte[v]] = v
  /\ \A v \in VPage : SwappedOut(v) => pte[v] = Slot(v)

\* The hand can always be advanced: it is the head or linked, or the pointer it
\* was left with still leads into the list.
HandLeadsBack ==
  curr_ptr \in Linked \cup {HEAD} \/ stale \in Linked \cup {HEAD}

\* A hand that stays on the last frame of the list has seen it used: it got there
\* when that frame was swapped out and taken at once for another page.
HandVisited == pra_list # << >> /\ curr_ptr = Last(pra_list) => curr_ptr \in visited

IInv == SwapTypes /\ FramesExact /\ HandLeadsBack /\ HandVisited

\* Paging cannot be seen: a page reads as it was last written, in memory, on
\* disk and back, whatever else is swapped meanwhile.
mem ==
  [v \in VPage |-> CASE pte[v] = 0 -> "none"
                     [] Mapped(v) -> data[pte[v]]
                     [] OTHER -> disk[pte[v]]]
Memory == INSTANCE PagedMemory WITH Untouched <- "none"
PagingInvisible == Memory!Spec

\* A page for which another was swapped out is not the next to go: two pages
\* that are used in turn do not chase each other through one frame.  (It may go
\* if it was brought into a frame that was free, with the hand just before it.)
NewestStays ==
  [][\A v \in VPage : Mapped(v) /\ pte'[v] # pte[v] /\ pte[v] = curr_ptr =>
       curr_ptr # Last(pra_list) \/ Len(pra_list) = 1]_swap_vars
=============================================================================
