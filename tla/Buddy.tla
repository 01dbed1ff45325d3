------------------------------- MODULE Buddy -------------------------------
(***************************************************************************)
(* The buddy allocator of lab2 (buddy_system_pmm.c).  A page is named by   *)
(* its place in the array of Page structures; get_buddy works on the byte  *)
(* offset of the structure in that array.  The merging in free_pages is    *)
(* one step for each pair of blocks that are merged.                       *)
(***************************************************************************)
EXTENDS Integers, Sequences, FiniteSets, Functions, SequencesExt, FiniteSetsExt

CONSTANTS
  max_order,     \* init_memmap was given 2^max_order pages, rounded down
  SizeOfPage,    \* sizeof(struct Page)
  WordBits,      \* bits in a size_t
  Requests       \* the numbers of pages asked for

\* 1 << k
Power[k \in 0 .. WordBits] == IF k = 0 THEN 1 ELSE 2 * Power[k-1]

\* The Page structures lie below the end of the address space.
ASSUME BuddyAssumption ==
  /\ WordBits \in Nat /\ max_order \in 0 .. WordBits /\ SizeOfPage \in Nat \ {0}
  /\ SizeOfPage * Power[max_order] < Power[WordBits]
  /\ Requests \subseteq Nat \ {0}

VARIABLES
  buddy_array,   \* for each order the list of its free blocks
  property,      \* the order in the Page structure; -1: not the head of a block
  PG_property,   \* the pages with PG_property, here: the head of a block in use
  buddy_nr_free, \* buddy_s.nr_free
  left_block,    \* the block free_pages is merging, or NONE
  pnum,          \* its local: the number of pages that come back
  allocated,     \* for the head of a block in use, the number of pages asked for
  broken         \* "no", or what free_pages took for a free buddy

buddy_vars == <<buddy_array, property, PG_property, buddy_nr_free, left_block, pnum,
                allocated, broken>>

NONE == -1
BuddyPages == 0 .. Power[max_order] - 1
Orders == 0 .. max_order

\* getOrderOf2(ROUNDUP2(n))
Order(n) == Min({k \in Orders : n <= Power[k]})

PagesOf(b, k) == b .. b + Power[k] - 1

\* buddy_system_init_memmap
BuddyInit ==
  /\ buddy_array = [k \in Orders |-> IF k = max_order THEN <<0>> ELSE << >>]
  /\ property = [p \in BuddyPages |-> IF p = 0 THEN max_order ELSE -1]
  /\ PG_property = {}
  /\ buddy_nr_free = Power[max_order]
  /\ left_block = NONE
  /\ pnum = 0
  /\ allocated = << >>
  /\ broken = "no"

Idle == left_block = NONE /\ broken = "no"
-----------------------------------------------------------------------------
(* alloc_pages *)

\* The orders that can serve a request of order o.
Serve(o) == {i \in Orders : i >= o /\ buddy_array[i] # << >>}

Refused(n) == n > buddy_nr_free \/ Serve(Order(n)) = {}

\* The list of order j after the first block b of order i is split down to
\* order o: each split leaves the upper half, and the lower one is split again.
ListAfterSplit(b, i, o, j) ==
  IF j = i THEN Tail(buddy_array[j])
  ELSE IF o <= j /\ j < i THEN <<b + Power[j]>> \o buddy_array[j]
  ELSE buddy_array[j]

\* Mutant: the upper half keeps the order it had.
PropertyAfterSplit_LowerOnly(b, i, o) == [property EXCEPT ![b] = o]

\* The orders written by buddy_split.
PropertyAfterSplit(b, i, o) ==
  [p \in BuddyPages |-> IF p = b THEN o
                   ELSE IF \E j \in o .. i - 1 : p = b + Power[j]
                        THEN CHOOSE j \in o .. i - 1 : p = b + Power[j]
                   ELSE property[p]]

AllocPages(n) ==
  /\ Idle /\ ~ Refused(n)
  /\ LET o == Order(n)
         i == Min(Serve(o))
         b == Head(buddy_array[i])
     IN /\ buddy_array' = [j \in Orders |-> ListAfterSplit(b, i, o, j)]
        /\ property' = PropertyAfterSplit(b, i, o)
        /\ PG_property' = PG_property \cup {b}
        /\ buddy_nr_free' = buddy_nr_free - Power[o]
        /\ allocated' = [p \in DOMAIN allocated \cup {b} |-> IF p = b THEN n ELSE allocated[p]]
  /\ UNCHANGED <<left_block, pnum, broken>>

RefusePages(n) == Idle /\ Refused(n) /\ UNCHANGED buddy_vars
-----------------------------------------------------------------------------
(* free_pages *)

\* Up to the loop: the block is put on the list of its order.
FreePages(b) ==
  /\ Idle /\ b \in DOMAIN allocated
  /\ Order(allocated[b]) = property[b]    \* assert(ROUNDUP2(n) == pnum)
  /\ pnum' = Power[property[b]]
  /\ buddy_array' = [buddy_array EXCEPT ![property[b]] = <<b>> \o @]
  /\ left_block' = b
  /\ allocated' = [p \in DOMAIN allocated \ {b} |-> allocated[p]]
  /\ UNCHANGED <<property, PG_property, buddy_nr_free, broken>>

\* x ^ y, bit after bit.
Xor(x, y) ==
  LET low[k \in 0 .. WordBits] ==
        IF k = 0 THEN 0
        ELSE IF (x \div Power[k-1]) % 2 = (y \div Power[k-1]) % 2 THEN low[k-1]
        ELSE low[k-1] + Power[k-1]
  IN  low[WordBits]

\* get_buddy: the offset of the Page structure, exclusive-or the bytes that the
\* Page structures of the block take.
BuddyOffset == Xor(left_block * SizeOfPage, Power[property[left_block]] * SizeOfPage)

IsPage(offset) == offset % SizeOfPage = 0 /\ offset \div SizeOfPage \in BuddyPages
BuddyPage == BuddyOffset \div SizeOfPage

Merging == left_block # NONE /\ broken = "no"

\* !PageProperty(buddy).  Between two structures the bit may be anything.
LooksFree == IsPage(BuddyOffset) => BuddyPage \notin PG_property
LooksUsed == IsPage(BuddyOffset) => BuddyPage \in PG_property

\* The buddy heads a free block of the same order.
IsFreeBuddy ==
  IsPage(BuddyOffset) /\ BuddyPage \in Range(buddy_array[property[left_block]])

\* list_del
Unlink(list, p) == RemoveAt(list, CHOOSE i \in DOMAIN list : list[i] = p)

\* One turn of the loop.
MergeBuddies ==
  /\ Merging /\ property[left_block] < max_order
  /\ LooksFree /\ IsFreeBuddy
  /\ LET k == property[left_block]
         l == Min({left_block, BuddyPage})
         right == left_block > BuddyPage
     IN /\ property' = [p \in BuddyPages |->
                          IF p = l THEN k + 1
                          ELSE IF p = left_block /\ right THEN -1 ELSE property[p]]
        /\ PG_property' = IF right THEN PG_property \ {left_block} ELSE PG_property
        /\ buddy_array' =
             [j \in Orders |->
                IF j = k THEN Unlink(Unlink(buddy_array[k], left_block), BuddyPage)
                ELSE IF j = k + 1 THEN <<l>> \o buddy_array[j]
                ELSE buddy_array[j]]
        /\ left_block' = l
  /\ UNCHANGED <<buddy_nr_free, pnum, allocated, broken>>

\* The loop merges with something that is no free block of this order, and
\* list_del unlinks what was not linked there: the model stops.
MergeWrong ==
  /\ Merging /\ property[left_block] < max_order
  /\ LooksFree /\ ~ IsFreeBuddy
  /\ broken' = IF IsPage(BuddyOffset) THEN "no free block of this order" ELSE "no page"
  /\ UNCHANGED <<buddy_array, property, PG_property, buddy_nr_free, left_block, pnum, allocated>>

FreeEnds ==
  /\ Merging
  /\ LooksUsed \/ property[left_block] >= max_order
  /\ PG_property' = PG_property \ {left_block}
  /\ buddy_nr_free' = buddy_nr_free + pnum
  /\ left_block' = NONE
  /\ pnum' = 0
  /\ UNCHANGED <<buddy_array, property, allocated, broken>>

Broken == broken # "no" /\ UNCHANGED buddy_vars
-----------------------------------------------------------------------------
BuddyNext ==
  \/ \E n \in Requests : AllocPages(n) \/ RefusePages(n)
  \/ \E b \in DOMAIN allocated : FreePages(b)
  \/ MergeBuddies \/ MergeWrong \/ FreeEnds \/ Broken

BuddySpec == BuddyInit /\ [][BuddyNext]_buddy_vars
-----------------------------------------------------------------------------
(* Properties *)

FreeBlocks == UNION {{<<b, k>> : b \in Range(buddy_array[k])} : k \in Orders}
HeldBlocks == {<<b, property[b]>> : b \in DOMAIN allocated}
BuddyBlocks == FreeBlocks \cup HeldBlocks

\* As long as no wrong merge has happened, the blocks that are free and the blocks
\* in use cover every page exactly once, each aligned to its size; nr_free counts
\* the pages of the free ones, a block in use has the order it was asked for, and
\* PG_property marks just the blocks in use.
BuddyExact ==
  Idle =>
    /\ \A p \in BuddyPages : Cardinality({c \in BuddyBlocks : p \in PagesOf(c[1], c[2])}) = 1
    /\ \A c \in BuddyBlocks : c[1] % Power[c[2]] = 0 /\ property[c[1]] = c[2]
    /\ buddy_nr_free = Cardinality(UNION {PagesOf(c[1], c[2]) : c \in FreeBlocks})
    /\ \A b \in DOMAIN allocated : property[b] = Order(allocated[b])
    /\ PG_property = DOMAIN allocated

\* The buddy is the other half, of the same size: what free_pages merges with is
\* a page, and a free block of that order.
BuddyIsOtherHalf == broken = "no"
=============================================================================
