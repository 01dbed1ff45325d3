-------------------------------- MODULE Slob --------------------------------
(***************************************************************************)
(* kmalloc, kfree and ksize of Lab5 (kern/mm/kmalloc.c): small blocks come *)
(* from a circular list of free blocks in address order, large ones are    *)
(* whole pages with a bigblock_t on a list of their own.                   *)
(*                                                                         *)
(* Addresses count units of SLOB_UNIT bytes.  The arena, a block of one    *)
(* unit in the kernel's data, lies below every page and belongs to the     *)
(* list for ever.  The two locks keep interrupts out and the kernel is not *)
(* preempted, so that a call is one step.  All callers pass align = 0, and *)
(* nobody asks for 0 bytes.                                                *)
(***************************************************************************)
EXTENDS Integers, Sequences, FiniteSets, FiniteSetsExt, Functions, SequencesExt

CONSTANTS
  PAGE_SIZE, SLOB_UNIT, BIGBLOCK,  \* sizeof(slob_t), sizeof(bigblock_t), in bytes
  HeapPages,                       \* how many pages alloc_pages can give
  Sizes                            \* the sizes asked for, in bytes

\* A bigblock_t has a pointer more than a slob_t has, and pages hold several of each.
ASSUME SlobAssumption ==
  /\ SLOB_UNIT \in Nat \ {0} /\ PAGE_SIZE \in Nat /\ PAGE_SIZE % SLOB_UNIT = 0
  /\ BIGBLOCK \in Nat /\ SLOB_UNIT < BIGBLOCK /\ BIGBLOCK + SLOB_UNIT < PAGE_SIZE
  /\ HeapPages \in Nat /\ Sizes \subseteq Nat \ {0}

VARIABLES
  heap,       \* free: slobfree; next: of the blocks on the list; units: of those
              \* and of the blocks in use
  bigblocks,  \* first to last, each with the size that was asked for
  held,       \* for each small block in use, the size that was asked for
  freepages,  \* the pages that alloc_pages still has
  panicked      \* an assertion failed

slob_vars == <<heap, bigblocks, held, freepages, panicked>>

PageUnits == PAGE_SIZE \div SLOB_UNIT
PageNumbers == 1 .. HeapPages
arena == 0
PageAt(page) == page * PageUnits

\* 1 << order
PageCount[order \in 0 .. HeapPages] ==
  IF order = 0 THEN 1 ELSE 2 * PageCount[order - 1]

PageRun(page, order) == page .. page + PageCount[order] - 1
SLOB_UNITS(size) == (size + SLOB_UNIT - 1) \div SLOB_UNIT

SlobInit ==
  /\ heap = [free |-> arena, next |-> [a \in {arena} |-> arena],
             units |-> [a \in {arena} |-> 1]]
  /\ bigblocks = << >>
  /\ held = << >>
  /\ freepages = PageNumbers
  /\ panicked = FALSE
-----------------------------------------------------------------------------
\* The block that a loop reaches from slobfree in k steps.
Nth(h) ==
  LET w[k \in 0 .. Cardinality(DOMAIN h.next)] ==
        IF k = 0 THEN h.free ELSE h.next[w[k-1]]
  IN  w

\* The steps after which the search of slob_alloc meets a block with room.
Roomy(h, units) ==
  {k \in 1 .. Cardinality(DOMAIN h.next) : h.units[Nth(h)[k]] >= units}

Remainder(size, units) == size - units

\* slob_alloc takes the first units of block cur, which comes after prev.
Carved(h, prev, cur, units) ==
  IF h.units[cur] = units
  THEN [free |-> prev,
        next |-> [a \in DOMAIN h.next \ {cur} |->
                    IF a = prev THEN h.next[cur] ELSE h.next[a]],
        units |-> h.units]
  ELSE LET rest == cur + units
           linked == [h.next EXCEPT ![prev] = rest]
       IN [free |-> prev,
           next |-> [a \in (DOMAIN h.next \ {cur}) \cup {rest} |->
                       IF a = rest THEN linked[cur] ELSE linked[a]],
           units |-> [a \in DOMAIN h.units \cup {rest} |->
                        IF a = rest THEN Remainder(h.units[cur], units)
                        ELSE IF a = cur THEN units ELSE h.units[a]]]

\* The search ends at the first block with room.
Search(h, units) ==
  LET k == Min(Roomy(h, units))
  IN [block |-> Nth(h)[k], heap |-> Carved(h, Nth(h)[k-1], Nth(h)[k], units)]

\* Where slob_free leaves its loop: cur is below b and the next block above it, or
\* the addresses wrap between the two.
IsPlace(h, b, cur) ==
  \/ cur < b /\ b < h.next[cur]
  \/ cur >= h.next[cur] /\ (cur < b \/ b < h.next[cur])

FindsPlace(h, b) == \E k \in 0 .. Cardinality(DOMAIN h.next) : IsPlace(h, b, Nth(h)[k])

\* Mutant: a block is not joined with the one above it.
JoinsNext_Never(h, b, units, cur) == FALSE

JoinsNext(h, b, units, cur) == b + units = h.next[cur]

JoinsPrev(h, b, cur) == cur + h.units[cur] = b

\* slob_free of a block of that many units
Freed(h, b, units) ==
  LET cur == Nth(h)[Min({k \in 0 .. Cardinality(DOMAIN h.next) : IsPlace(h, b, Nth(h)[k])})]
      next == h.next[cur]
      joined == JoinsNext(h, b, units, cur)
      after == IF joined THEN h.next[next] ELSE next
      all == IF joined THEN units + h.units[next] ELSE units
      gone == (IF joined THEN {next} ELSE {}) \cup (IF JoinsPrev(h, b, cur) THEN {b} ELSE {})
      into == IF JoinsPrev(h, b, cur) THEN cur ELSE b
      blocks == (DOMAIN h.next \cup {b}) \ gone
  IN [free |-> cur,
      next |-> [a \in blocks |->
                  IF a = into THEN after
                  ELSE IF a = cur THEN b ELSE h.next[a]],
      units |-> [a \in (DOMAIN h.units \cup {b}) \ gone |->
                   IF a # into THEN h.units[a]
                   ELSE IF a = cur THEN h.units[cur] + all ELSE all]]

\* What slob_alloc(size) may do: it finds a block, or gets a page (any, as far as
\* it knows), frees it into the list and goes on, or fails.
Allocs(size) ==
  LET units == SLOB_UNITS(size)
  IN IF Roomy(heap, units) # {}
     THEN {[found |-> Search(heap, units), page |-> {}]}
     ELSE {[found |-> Search(Freed(heap, PageAt(p), PageUnits), units), page |-> {p}] :
             p \in freepages}

AssertFails(size) == size + SLOB_UNIT >= PAGE_SIZE
-----------------------------------------------------------------------------
IsSmall(size) == size < PAGE_SIZE - SLOB_UNIT

\* kmalloc of a size that is less than a page and its header
KmallocSmall(size) ==
  /\ ~ panicked /\ IsSmall(size) /\ ~ AssertFails(size + SLOB_UNIT)
  /\ \E r \in Allocs(size + SLOB_UNIT) :
       /\ heap' = r.found.heap
       /\ held' = [b \in DOMAIN held \cup {r.found.block} |->
                     IF b = r.found.block THEN size ELSE held[b]]
       /\ freepages' = freepages \ r.page
  /\ UNCHANGED <<bigblocks, panicked>>

\* The assertion of slob_alloc adds the header once more than __kmalloc does.
KmallocPanics(size) ==
  /\ ~ panicked /\ IsSmall(size) /\ AssertFails(size + SLOB_UNIT)
  /\ panicked' = TRUE
  /\ UNCHANGED <<heap, bigblocks, held, freepages>>

\* Mutant: the order is the number of pages rounded down.
find_order_Whole(size) == Max({k \in 0 .. HeapPages : PAGE_SIZE * PageCount[k] <= size})

\* Halved so often, the size is a page at most.  No order above HeapPages is told from
\* HeapPages: there are never so many pages.
find_order(size) ==
  Min({HeapPages} \cup {k \in 0 .. HeapPages : size \div PageCount[k] <= PAGE_SIZE})

\* kmalloc of a large size; without pages the bigblock_t goes back.
KmallocBig(size) ==
  /\ ~ panicked /\ ~ IsSmall(size)
  /\ \E r \in Allocs(BIGBLOCK) :
       LET left == freepages \ r.page
           order == find_order(size)
           runs == {p \in left : PageRun(p, order) \subseteq left}
       IN \/ \E p \in runs :
               /\ heap' = r.found.heap
               /\ bigblocks' = <<[bb |-> r.found.block, order |-> order, page |-> p,
                                  size |-> size]>> \o bigblocks
               /\ freepages' = left \ PageRun(p, order)
          \/ /\ runs = {}
             /\ FindsPlace(r.found.heap, r.found.block)
             /\ heap' = Freed(r.found.heap, r.found.block, SLOB_UNITS(BIGBLOCK))
             /\ UNCHANGED bigblocks
             /\ freepages' = left
  /\ UNCHANGED <<held, panicked>>

\* NULL: neither room on the list nor a page.
KmallocFails(size) ==
  /\ ~ panicked
  /\ Allocs(IF IsSmall(size) THEN size + SLOB_UNIT ELSE BIGBLOCK) = {}
  /\ UNCHANGED slob_vars

\* kfree of a small block: its header says how long it is.
KfreeSmall(b) ==
  /\ ~ panicked /\ b \in DOMAIN held
  /\ FindsPlace(heap, b)
  /\ heap' = Freed(heap, b, heap.units[b])
  /\ held' = Restrict(held, DOMAIN held \ {b})
  /\ UNCHANGED <<bigblocks, freepages, panicked>>

\* kfree of a page address that is found on the list of big blocks.
KfreeBig(i) ==
  /\ ~ panicked
  /\ LET big == bigblocks[i]
     IN /\ FindsPlace(heap, big.bb)
        /\ heap' = Freed(heap, big.bb, SLOB_UNITS(BIGBLOCK))
        /\ freepages' = freepages \cup PageRun(big.page, big.order)
  /\ bigblocks' = RemoveAt(bigblocks, i)
  /\ UNCHANGED <<held, panicked>>

Panicked == panicked /\ UNCHANGED slob_vars

SlobNext ==
  \/ \E size \in Sizes :
       KmallocSmall(size) \/ KmallocPanics(size) \/ KmallocBig(size) \/ KmallocFails(size)
  \/ \E b \in DOMAIN held : KfreeSmall(b)
  \/ \E i \in DOMAIN bigblocks : KfreeBig(i)
  \/ Panicked

SlobSpec == SlobInit /\ [][SlobNext]_slob_vars
-----------------------------------------------------------------------------
(* Properties *)

ListedBlocks == {Nth(heap)[k] : k \in DOMAIN Nth(heap)}
Headers == DOMAIN held \cup {bigblocks[i].bb : i \in DOMAIN bigblocks}
Units(b) == b .. b + heap.units[b] - 1
BigUnits(i) ==
  PageAt(bigblocks[i].page) .. PageAt(bigblocks[i].page + PageCount[bigblocks[i].order]) - 1

\* The free list is one circle in address order through the arena, in which no two
\* blocks touch, whatever order blocks are freed in and wherever slobfree was left.
CircleExact ==
  /\ arena \in ListedBlocks /\ ListedBlocks = DOMAIN heap.next
  /\ Cardinality({b \in ListedBlocks : heap.next[b] <= b}) = 1
  /\ \A b \in ListedBlocks : b + heap.units[b] # heap.next[b]

\* Each block is free, or a small block in use, or the bigblock_t of one big block.
OneOwner ==
  /\ DOMAIN heap.units = ListedBlocks \cup Headers /\ ListedBlocks \cap Headers = {}
  /\ \A i \in DOMAIN bigblocks :
       /\ bigblocks[i].bb \notin DOMAIN held
       /\ \A j \in DOMAIN bigblocks : i # j => bigblocks[i].bb # bigblocks[j].bb

\* Blocks and big blocks divide the pages taken from alloc_pages among them, without
\* overlap and without a unit lost.
PagesDivided ==
  /\ (UNION {Units(b) : b \in DOMAIN heap.units}) \cup (UNION {BigUnits(i) : i \in DOMAIN bigblocks})
       = {arena} \cup (UNION {PageAt(p) .. PageAt(p + 1) - 1 : p \in PageNumbers \ freepages})
  /\ \A b \in DOMAIN heap.units :
       /\ Units(b) # {}
       /\ \A c \in DOMAIN heap.units : b # c => Units(b) \cap Units(c) = {}
       /\ \A i \in DOMAIN bigblocks : Units(b) \cap BigUnits(i) = {}
  /\ \A i, j \in DOMAIN bigblocks : i # j => BigUnits(i) \cap BigUnits(j) = {}

\* ksize: of a small block with its header, of a big one all its pages.
Ksize(b) == heap.units[b] * SLOB_UNIT
KsizeBig(i) == PAGE_SIZE * PageCount[bigblocks[i].order]

\* What is behind the header of a small block, in bytes: kmalloc returns m + 1.
Room(b) == Ksize(b) - SLOB_UNIT

\* A small block has room for what was asked.  find_order rounds down, so a big block
\* may be short (RoomForAll), but by less than a byte for each of its pages, and never
\* for a whole number of 2^order bytes.
RoomEnough ==
  /\ \A b \in DOMAIN held : Room(b) >= held[b]
  /\ \A i \in DOMAIN bigblocks :
       LET size == bigblocks[i].size
           pages == PageCount[bigblocks[i].order]
       IN size - KsizeBig(i) < pages /\ (size % pages = 0 => KsizeBig(i) >= size)

\* kmalloc's memory, whatever is asked for and freed, and in whatever order.
KmallocExact == CircleExact /\ OneOwner /\ PagesDivided /\ RoomEnough

\* A large object gets pages of its own that hold it, as a small one gets a block that
\* does.  It does not where find_order rounds down.
RoomForAll ==
  /\ \A b \in DOMAIN held : Room(b) >= held[b]
  /\ \A i \in DOMAIN bigblocks : KsizeBig(i) >= bigblocks[i].size
=============================================================================
