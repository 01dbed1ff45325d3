------------------------------ MODULE FreeList ------------------------------
(***************************************************************************)
(* The first-fit page allocator (kern/mm/default_pmm.c of lab2 and lab3)   *)
(* and the best-fit one (lab2 best_fit_pmm.c): the list of free blocks as  *)
(* the code keeps it, with the next and previous pointers of page_link,    *)
(* the property field of the first page of a block and its PG_property     *)
(* flag.  alloc_pages and free_pages run with interrupts off, so each call *)
(* is one step.                                                            *)
(*                                                                         *)
(* What the caller does with the pages is kept in users.  Callers give     *)
(* back pages they hold, any part of what they got at once (default_check  *)
(* and page_remove do).  The fields of a page that no pointer of the list  *)
(* leads to are written before they are read again; area forgets them.     *)
(***************************************************************************)
EXTENDS Integers, FiniteSets, FiniteSetsExt

CONSTANTS
  NPages, MaxRequest,
  Searches,  \* the page allocators looked at: "first" and "best" fit
  Exhausts   \* FALSE: callers never take the last page of memory

ASSUME FreeListAssumption ==
  /\ NPages \in Nat \ {0} /\ MaxRequest \in Nat
  /\ Searches \subseteq {"first", "best"} /\ Exhausts \in BOOLEAN

VARIABLES
  search,    \* which one the kernel was built with
  area,      \* the fields: nxt, prv of every page and of the list head,
             \* property of every page
  flagged,   \* the pages with PG_property set
  nr_free,
  users      \* for each page, how many callers believe to hold it

vars == <<search, area, flagged, nr_free, users>>

Pages == 1 .. NPages
head == 0                    \* &free_list
Nodes == {head} \cup Pages   \* addresses grow with the page number

Run(b, n) == b .. b + n - 1

TypeOK ==
  /\ search \in Searches
  /\ area \in [nxt : [Nodes -> Nodes], prv : [Nodes -> Nodes],
               property : [Pages -> 0 .. NPages]]
  /\ flagged \in SUBSET Pages
  /\ nr_free \in 0 .. NPages
  /\ users \in [Pages -> 0 .. 2]
-----------------------------------------------------------------------------
(* list.h *)

\* __list_add(elm, prev, next)
ListAdd(a, elm, prev, next) ==
  [a EXCEPT !.nxt = [@ EXCEPT ![prev] = elm, ![elm] = next],
            !.prv = [@ EXCEPT ![next] = elm, ![elm] = prev]]

\* list_add, list_add_after
ListAddAfter(a, le, elm) == ListAdd(a, elm, le, a.nxt[le])

ListAddBefore(a, le, elm) == ListAdd(a, elm, a.prv[le], le)

ListDel(a, elm) ==
  [a EXCEPT !.nxt = [@ EXCEPT ![a.prv[elm]] = a.nxt[elm]],
            !.prv = [@ EXCEPT ![a.nxt[elm]] = a.prv[elm]]]

\* The node reached from the head in k steps of list_next.
Step(a) ==
  LET w[k \in 0 .. NPages + 1] == IF k = 0 THEN head ELSE a.nxt[w[k-1]]
  IN  w

\* The pages a loop over the list visits.
Listed(a) ==
  LET w == Step(a)
  IN  {w[k] : k \in {i \in 1 .. NPages : \A j \in 1 .. i : w[j] # head}}

\* The page of S that the loop visits first.
FirstOf(a, S) ==
  LET w == Step(a)
  IN  w[Min({k \in 1 .. NPages + 1 : w[k] \in S})]

\* The loop leaves the list at a node of S; on a cycle without one it never ends
\* and the call does not return.
Returns(a, S) == LET w == Step(a) IN \E k \in 1 .. NPages + 1 : w[k] \in S

\* The fields of pages that no list pointer leads to, forgotten.
Forget(a) ==
  LET listed == Listed(a) \cup {head}
      linked == listed \cup {a.prv[x] : x \in listed}
  IN  [nxt |-> [x \in Nodes |-> IF x \in linked THEN a.nxt[x] ELSE head],
       prv |-> [x \in Nodes |-> IF x \in linked THEN a.prv[x] ELSE head],
       property |-> [p \in Pages |-> IF p \in linked THEN a.property[p] ELSE 0]]
-----------------------------------------------------------------------------
(* alloc_pages *)

Fits(a, n) == {p \in Listed(a) : a.property[p] >= n}

Least(a, S) == {p \in S : \A q \in S : a.property[p] <= a.property[q]}

\* The block the search settles for.
Chosen(a, n) ==
  IF search = "first" THEN FirstOf(a, Fits(a, n))
                      ELSE FirstOf(a, Least(a, Fits(a, n)))

\* list_add(prev, rest)
PutRest(a, prev, rest) == ListAddAfter(a, prev, rest)

\* Mutant: the rest of a split block is one page too long.
Rest_OffByOne(size, n) == size - n + 1

\* property of the rest of a split block
Rest(size, n) == size - n

\* The list with the first n pages of block b taken out of it.
Taken(a, b, n) ==
  LET size == a.property[b]
      deleted == ListDel(a, b)
  IN  IF size > n
      THEN [PutRest(deleted, a.prv[b], b + n)
              EXCEPT !.property = [@ EXCEPT ![b + n] = Rest(size, n)]]
      ELSE deleted

\* Mutant: the flag of the allocated block stays set.
FlaggedByAlloc_NotCleared(b, n) ==
  IF area.property[b] > n THEN flagged \cup {b + n} ELSE flagged

FlaggedByAlloc(b, n) ==
  (IF area.property[b] > n THEN flagged \cup {b + n} ELSE flagged) \ {b}

Alloc(n) ==
  /\ n <= nr_free
  /\ Fits(area, n) # {}
  /\ search = "best" => Returns(area, {head})
  /\ LET b == Chosen(area, n)
     IN  /\ area' = Forget(Taken(area, b, n))
         /\ flagged' = FlaggedByAlloc(b, n)
         /\ users' = [p \in Pages |-> IF p \in Run(b, n) THEN users[p] + 1 ELSE users[p]]
  /\ nr_free' = nr_free - n
  /\ UNCHANGED search
  /\ Exhausts \/ users'[NPages] = 0

\* NULL: too few pages, or no block that is long enough.
Refuse(n) ==
  /\ n > nr_free \/ (Fits(area, n) = {} /\ Returns(area, {head}))
  /\ UNCHANGED vars
-----------------------------------------------------------------------------
(* free_pages *)

\* The insertion loop.  After list_add(le, base) at the tail it goes on, finds
\* base itself at the end of the list and adds it after itself.
Insert(a, base) ==
  LET above == {p \in Listed(a) : base < p}
      tail == CHOOSE p \in Listed(a) : a.nxt[p] = head
  IN  IF a.nxt[head] = head THEN ListAddAfter(a, head, base)
      ELSE IF above # {} THEN ListAddBefore(a, FirstOf(a, above), base)
      ELSE ListAddAfter(ListAddAfter(a, tail, base), base, base)

\* Block q is deleted and its pages added to block p.
Merged(a, p, q) ==
  ListDel([a EXCEPT !.property = [@ EXCEPT ![p] = a.property[p] + a.property[q]]], q)

Adjoins(a, p, q) == p # head /\ q # head /\ p + a.property[p] = q

\* Mutant: only the block before is merged.
MergesNext_Never(a, base) == FALSE

MergesPrev(a, base) == Adjoins(a, a.prv[base], base)
MergesNext(a, base) == Adjoins(a, base, a.nxt[base])

Free(b, n) ==
  /\ Run(b, n) \subseteq {p \in Pages : users[p] > 0}
  /\ Run(b, n) \cap flagged = {}
  /\ Returns(area, {head} \cup {p \in Pages : b < p})
  /\ LET put == Insert([area EXCEPT !.property = [@ EXCEPT ![b] = n]], b)
         prev == put.prv[b]
         base == IF MergesPrev(put, b) THEN prev ELSE b
         one == IF MergesPrev(put, b) THEN Merged(put, prev, b) ELSE put
         next == one.nxt[base]
         two == IF MergesNext(one, base) THEN Merged(one, base, next) ELSE one
     IN  /\ area' = Forget(two)
         /\ flagged' = ((flagged \cup {b}) \ (IF MergesPrev(put, b) THEN {b} ELSE {}))
                         \ (IF MergesNext(one, base) THEN {next} ELSE {})
  /\ nr_free' = nr_free + n
  /\ UNCHANGED search
  /\ users' = [p \in Pages |-> IF p \in Run(b, n) THEN users[p] - 1 ELSE users[p]]
-----------------------------------------------------------------------------
\* After init and the one call of init_memmap, which is given all pages.
Init ==
  /\ search \in Searches
  /\ area = [nxt |-> [x \in Nodes |-> IF x = head THEN 1 ELSE head],
             prv |-> [x \in Nodes |-> IF x = head THEN 1 ELSE head],
             property |-> [p \in Pages |-> IF p = 1 THEN NPages ELSE 0]]
  /\ flagged = {1}
  /\ nr_free = NPages
  /\ users = [p \in Pages |-> 0]

Next ==
  \E n \in 1 .. MaxRequest :
    Alloc(n) \/ Refuse(n) \/ \E b \in Pages : Free(b, n)

Spec == Init /\ [][Next]_vars
-----------------------------------------------------------------------------
(* Properties *)

Unused == {p \in Pages : users[p] = 0}

Block(p) == Run(p, area.property[p])

\* The list read backwards is the list read forwards, and it is sorted by
\* address: what the insertion and both merges of free_pages rely on.
ListSorted ==
  /\ \A x \in Listed(area) \cup {head} : area.prv[area.nxt[x]] = x
  /\ \A p \in Listed(area) : area.nxt[p] # head => p < area.nxt[p]

\* The blocks on the list are exactly the pages nobody holds, each of them in
\* one block, and nr_free counts them (default_check): nothing leaks, and nothing
\* is both free and held.
BlocksExact ==
  /\ UNION {Block(p) : p \in Listed(area)} = Unused
  /\ LET listed == Listed(area)
     IN \A p, q \in listed : p # q => Block(p) \cap Block(q) = {}
  /\ nr_free = Cardinality(Unused)

\* The flags mark the first pages of the blocks on the list and no others, so
\* that the assert of free_pages passes for every caller that holds its pages.
FlagsExact == flagged = Listed(area)

\* What every call relies on and leaves: both chains of pointers are the same sorted
\* list, its blocks are the pages nobody holds, and the flags mark their first pages.
ListExact == TypeOK /\ ListSorted /\ BlocksExact /\ FlagsExact

\* basic_check: no page is allocated twice.
NoDoubleAllocation == \A p \in Pages : users[p] <= 1

\* A request is refused only if there are not that many adjacent free pages:
\* free_pages has merged every two blocks that touch.
RefusesOnlyWhenSplit ==
  \A b \in Pages, n \in 1 .. MaxRequest :
    Run(b, n) \subseteq Unused => Fits(area, n) # {}

\* The two together: what the callers and the code of both allocators rely on.
FitExact == ListExact /\ RefusesOnlyWhenSplit

\* Every call does to the free pages what PageAlloc says.
Promise == INSTANCE PageAlloc WITH
  free <- UNION {Block(p) : p \in Listed(area)}
KeepsPromise == Promise!Spec
=============================================================================
