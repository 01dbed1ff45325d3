----------------------------- MODULE MemoryProofs -----------------------------
(***************************************************************************)
(* Proofs about four ways to divide memory.                                *)
(*                                                                         *)
(* The areas of an address space (Vma): an insertion compares the new area *)
(* with two neighbours, a search trusts the cache, and still every area is *)
(* apart from every other and every answer is what the list would have     *)
(* given.  The invariant adds what the code never writes down: that no     *)
(* area is empty, and that the last answer covers the address it was asked *)
(* for.                                                                    *)
(*                                                                         *)
(* The free list of first and best fit (FreeList): alloc_pages splits a    *)
(* block and free_pages merges at most two, and still the list by address, *)
(* the flags, nr_free and the pages in use agree, and no two free blocks   *)
(* touch.  The list is described by the set of its pages: every pointer    *)
(* leads to the next page of the set by address (Links), the blocks of the *)
(* set follow each other and cover the free pages (Tiles), and none ends   *)
(* where another begins (Coalesced).  That a loop over the pointers visits *)
(* that set and no more is proved once, by counting its steps.             *)
(*                                                                         *)
(* kmalloc (Slob): slob_alloc cuts a block from wherever slobfree was      *)
(* left, slob_free looks for the place where addresses are in order or     *)
(* wrap, and still the list is one circle by address (Circle), its blocks  *)
(* and the blocks in use divide the pages that were taken (Divides) with   *)
(* the big blocks, and every small block has the room that was asked for   *)
(* behind its header.  The invariant adds how long each block in use is,   *)
(* which its header alone knows.                                           *)
(*                                                                         *)
(* The buddy blocks (Buddy): alloc_pages splits a block down, free_pages   *)
(* merges pairs, and still the blocks on the lists and those in use cover  *)
(* every page once, each at a multiple of its size (CoverOnce), with the   *)
(* orders and flags of the Page structures.  get_buddy takes the           *)
(* exclusive-or of an offset with the bytes of the block, seldom a power   *)
(* of two, so it may name no page at all; but where it names a multiple of *)
(* those bytes, that is the other half (OtherOfPair), and so a block is    *)
(* never merged with a free block of its order but its own other half.     *)
(***************************************************************************)
EXTENDS Vma, FreeList, Slob, Buddy, ListLemmas, FiniteSetTheorems, WellFoundedInduction, TLAPS

-----------------------------------------------------------------------------
(* The areas of an address space *)

\* The types of the state.
MmapTypeOK ==
  /\ mmap_list \in Seq(VmaSet)
  /\ map_count = Len(mmap_list)
  /\ mmap_cache \in VmaSet
  /\ asked \in [addr : Addr, vma : VmaSet]
  /\ halted \in BOOLEAN

\* The areas of a list are not empty, and each ends before the next one starts.
InOrder(list) ==
  /\ \A i \in 1 .. Len(list) : list[i].vm_start < list[i].vm_end
  /\ \A i, j \in 1 .. Len(list) : i < j => list[i].vm_end <= list[j].vm_start

\* The cache and the last answer are areas of the list; the answer fits the question.
Known ==
  /\ mmap_cache # NULL => mmap_cache \in Range(mmap_list)
  /\ asked.vma # NULL =>
       asked.vma \in Range(mmap_list) /\ Covers(asked.vma, asked.addr)

MmapIInv == MmapTypeOK /\ InOrder(mmap_list) /\ Known
-----------------------------------------------------------------------------
\* t is s with e behind its first n elements.
With(t, s, n, e) ==
  /\ Len(t) = Len(s) + 1
  /\ \A i \in 1 .. Len(t) :
       t[i] = IF i <= n THEN s[i] ELSE IF i = n + 1 THEN e ELSE s[i-1]

\* list_add after the first n areas: the new one, with the others around it.
LEMMA Inserted ==
  ASSUME NEW S, NEW s \in Seq(S), NEW n \in 0 .. Len(s), NEW e \in S
  PROVE  /\ InsertAt(s, n + 1, e) \in Seq(S)
         /\ With(InsertAt(s, n + 1, e), s, n, e)
<1> DEFINE t == InsertAt(s, n + 1, e)
           a == SubSeq(s, 1, n)
           b == SubSeq(s, n + 1, Len(s))
           c == a \o <<e>>
<1>1. /\ a \in Seq(S) /\ Len(a) = n
      /\ \A i \in 1 .. n : a[i] = s[i]
  OBVIOUS
<1>2. /\ b \in Seq(S) /\ Len(b) = Len(s) - n
      /\ \A i \in 1 .. Len(s) - n : b[i] = s[n + i]
  OBVIOUS
<1>3. t = c \o b
  <2>1. (n + 1) - 1 = n
    OBVIOUS
  <2> QED BY <2>1 DEF InsertAt
<1> HIDE DEF a, b, t
<1>4. /\ c \in Seq(S) /\ Len(c) = n + 1
      /\ \A i \in 1 .. n + 1 : c[i] = IF i <= n THEN s[i] ELSE e
  BY <1>1
<1> HIDE DEF c
<1>5. /\ c \o b \in Seq(S) /\ Len(c \o b) = Len(s) + 1
      /\ \A i \in 1 .. Len(s) + 1 :
           (c \o b)[i] = IF i <= n + 1 THEN c[i] ELSE b[i - (n + 1)]
  BY <1>2, <1>4
<1>6. ASSUME NEW i \in 1 .. Len(s) + 1, ~ (i <= n + 1)
      PROVE  b[i - (n + 1)] = s[i - 1]
  <2>1. i - (n + 1) \in 1 .. Len(s) - n /\ n + (i - (n + 1)) = i - 1
    BY <1>6
  <2> QED BY <2>1, <1>2
<1>7. \A i \in 1 .. Len(s) + 1 :
         (c \o b)[i] = IF i <= n THEN s[i] ELSE IF i = n + 1 THEN e ELSE s[i-1]
  BY <1>4, <1>5, <1>6
<1>8. /\ t \in Seq(S) /\ Len(t) = Len(s) + 1
      /\ \A i \in 1 .. Len(t) :
           t[i] = IF i <= n THEN s[i] ELSE IF i = n + 1 THEN e ELSE s[i-1]
  BY <1>3, <1>5, <1>7
<1> QED BY <1>8 DEF t, With

\* The list keeps what it had.
LEMMA InsertedRange ==
  ASSUME NEW S, NEW s \in Seq(S), NEW n \in 0 .. Len(s), NEW e \in S
  PROVE  Range(s) \subseteq Range(InsertAt(s, n + 1, e))
<1> DEFINE t == InsertAt(s, n + 1, e)
<1>0. t \in Seq(S) /\ With(t, s, n, e)
  BY Inserted
<1>1. /\ t \in Seq(S) /\ Len(t) = Len(s) + 1
      /\ \A i \in 1 .. Len(t) :
           t[i] = IF i <= n THEN s[i] ELSE IF i = n + 1 THEN e ELSE s[i-1]
  BY <1>0 DEF With
<1>2. DOMAIN t = 1 .. Len(s) + 1 /\ DOMAIN s = 1 .. Len(s) /\ Len(s) \in Nat
  BY <1>1
<1> HIDE DEF t
<1>3. ASSUME NEW x \in Range(s) PROVE x \in Range(t)
  <2>1. PICK i \in 1 .. Len(s) : x = s[i]
    BY <1>2 DEF Range
  <2>2. CASE i <= n
    <3>1. i \in DOMAIN t /\ t[i] = x
      BY <1>1, <1>2, <2>1, <2>2
    <3> QED BY <3>1 DEF Range
  <2>3. CASE ~ (i <= n)
    <3>1. i + 1 \in DOMAIN t /\ t[i + 1] = x
      BY <1>1, <1>2, <2>1, <2>3
    <3> QED BY <3>1 DEF Range
  <2> QED BY <2>2, <2>3
<1> QED BY <1>3 DEF t

\* NULL stands for a pointer to nothing: as an area it would be empty.
LEMMA NullIsNoArea ==
  NULL \in VmaSet /\ \A addr \in Addr : ~ Covers(NULL, addr)
BY VmaAssumption DEF NULL, VmaSet, Addr, Covers

\* A set of places on a list has a first one.
LEMMA FirstPlace ==
  ASSUME NEW T, T \subseteq Nat, T # {}
  PROVE  \E i \in T : \A k \in T : i <= k
<1>1. \E i \in T : \A k \in T : ~ (<<k, i>> \in OpToRel(<, Nat))
  BY NatLessThanWellFounded, WFMin
<1>2. PICK i \in T : \A k \in T : ~ (<<k, i>> \in OpToRel(<, Nat))
  BY <1>1
<1>3. ASSUME NEW k \in T PROVE i <= k
  <2>1. i \in Nat /\ k \in Nat
    OBVIOUS
  <2>2. ~ (k < i)
    BY <1>2, <2>1 DEF OpToRel
  <2> QED BY <2>1, <2>2
<1> QED BY <1>3

\* The loop of insert_vma_struct stops on the list.
LEMMA BeforeOnList ==
  ASSUME mmap_list \in Seq(VmaSet), NEW vma \in VmaSet
  PROVE  Before(vma) \in 0 .. Len(mmap_list)
<1> DEFINE beyond == {i \in 1 .. Len(mmap_list) : mmap_list[i].vm_start > vma.vm_start}
           first == CHOOSE i \in beyond : \A k \in beyond : i <= k
<1>1. Len(mmap_list) \in Nat
  OBVIOUS
<1>2. CASE beyond = {}
  BY <1>1, <1>2 DEF Before
<1>3. CASE beyond # {}
  <2>1. beyond \subseteq Nat
    OBVIOUS
  <2>2. \E i \in beyond : \A k \in beyond : i <= k
    BY <1>3, <2>1, FirstPlace
  <2>3. first \in beyond
    BY <2>2
  <2>4. Before(vma) = first - 1
    BY <1>3 DEF Before
  <2> QED BY <2>3, <2>4, <1>1
<1> QED BY <1>2, <1>3

\* Of the areas of a list in order, at most one covers an address: the search finds it.
LEMMA SearchFinds ==
  ASSUME mmap_list \in Seq(VmaSet), InOrder(mmap_list), NEW addr \in Addr,
         NEW vma \in Range(mmap_list), Covers(vma, addr)
  PROVE  Searched(addr) = vma
<1> DEFINE hits == {i \in 1 .. Len(mmap_list) : Covers(mmap_list[i], addr)}
<1>1. PICK n \in 1 .. Len(mmap_list) : vma = mmap_list[n]
  BY DEF Range
<1>2. n \in hits
  BY <1>1
<1>3. ASSUME NEW i \in hits PROVE i = n
  <2>1. i \in 1 .. Len(mmap_list) /\ Covers(mmap_list[i], addr)
    BY <1>3
  <2>2. mmap_list[i] \in VmaSet /\ mmap_list[n] \in VmaSet
    BY <2>1, <1>1
  <2>3. ~ (i < n)
    BY <2>1, <2>2, <1>1 DEF InOrder, Covers, VmaSet, Addr
  <2>4. ~ (n < i)
    BY <2>1, <2>2, <1>1 DEF InOrder, Covers, VmaSet, Addr
  <2> QED BY <2>1, <2>3, <2>4
<1>4. hits = {n}
  BY <1>2, <1>3
<1>5. (CHOOSE i \in hits : \A k \in hits : i <= k) = n
  BY <1>4
<1> QED BY <1>1, <1>2, <1>5 DEF Searched

\* What the search answers is on the list and covers the address.
LEMMA SearchAnswers ==
  ASSUME mmap_list \in Seq(VmaSet), NEW addr \in Addr, Searched(addr) # NULL
  PROVE  Searched(addr) \in Range(mmap_list) /\ Covers(Searched(addr), addr)
<1> DEFINE hits == {i \in 1 .. Len(mmap_list) : Covers(mmap_list[i], addr)}
           first == CHOOSE i \in hits : \A k \in hits : i <= k
<1>1. hits # {}
  BY DEF Searched
<1>2. hits \subseteq Nat
  OBVIOUS
<1>3. \E i \in hits : \A k \in hits : i <= k
  BY <1>1, <1>2, FirstPlace
<1>4. first \in hits
  BY <1>3
<1>5. Searched(addr) = mmap_list[first]
  BY <1>1 DEF Searched
<1> HIDE DEF first
<1> QED BY <1>4, <1>5 DEF Range
-----------------------------------------------------------------------------
\* The invariant says what the run checks.
LEMMA InvariantSuffices == MmapIInv => MmapExact
<1> SUFFICES ASSUME MmapIInv PROVE MmapExact
  OBVIOUS
<1>1. asked.addr \in Addr
  BY DEF MmapIInv, MmapTypeOK
<1>2. asked.vma # NULL => asked.vma = Searched(asked.addr)
  BY <1>1, SearchFinds DEF MmapIInv, MmapTypeOK, Known
<1> QED BY <1>2 DEF MmapIInv, MmapTypeOK, InOrder, Known, MmapExact

LEMMA InitHolds == MmapInit => MmapIInv
<1> SUFFICES ASSUME MmapInit PROVE MmapIInv
  OBVIOUS
<1>1. MmapTypeOK
  <2>1. [addr |-> 0, vma |-> NULL] \in [addr : Addr, vma : VmaSet]
    BY VmaAssumption, NullIsNoArea DEF Addr
  <2>2. mmap_list \in Seq(VmaSet) /\ Len(mmap_list) = 0
    BY DEF MmapInit
  <2> QED BY <2>1, <2>2, NullIsNoArea DEF MmapInit, MmapTypeOK
<1> QED BY <1>1 DEF MmapInit, MmapIInv, InOrder, Known

\* insert_vma_struct: apart from its neighbours, the new area is apart from all.
LEMMA InsertKeeps ==
  ASSUME MmapIInv, NEW vma \in VmaSet, InsertVma(vma)
  PROVE  MmapIInv'
<1> DEFINE n == Before(vma)
<1>1. n \in 0 .. Len(mmap_list)
  BY BeforeOnList DEF MmapIInv, MmapTypeOK
<1>2. CASE ~ Accepted(vma, n)
  BY <1>2 DEF InsertVma, MmapIInv, MmapTypeOK, Known, InOrder
<1>3. CASE Accepted(vma, n)
  <2>1. /\ mmap_list' = InsertAt(mmap_list, n + 1, vma)
        /\ map_count' = map_count + 1
        /\ UNCHANGED <<halted, mmap_cache, asked>>
    BY <1>3 DEF InsertVma
  <2> HIDE DEF n
  <2>2. /\ mmap_list' \in Seq(VmaSet)
        /\ Len(mmap_list') = Len(mmap_list) + 1
        /\ \A i \in 1 .. Len(mmap_list') :
             mmap_list'[i] = IF i <= n THEN mmap_list[i]
                             ELSE IF i = n + 1 THEN vma ELSE mmap_list[i-1]
    <3> DEFINE t == InsertAt(mmap_list, n + 1, vma)
    <3>1. mmap_list \in Seq(VmaSet)
      BY DEF MmapIInv, MmapTypeOK
    <3>2. t \in Seq(VmaSet) /\ With(t, mmap_list, n, vma)
      BY <3>1, <1>1, Inserted
    <3>3. mmap_list' = t
      BY <2>1
    <3> HIDE DEF t
    <3> QED BY <3>2, <3>3 DEF With
  <2>3. MmapTypeOK'
    BY <2>1, <2>2 DEF MmapIInv, MmapTypeOK
  <2>4. /\ Len(mmap_list) \in Nat
        /\ \A i \in 1 .. Len(mmap_list) :
             mmap_list[i].vm_start \in Int /\ mmap_list[i].vm_end \in Int
        /\ vma.vm_start \in Int /\ vma.vm_end \in Int
        /\ vma.vm_start < vma.vm_end
    <3>1. /\ Len(mmap_list) \in Nat
          /\ \A i \in 1 .. Len(mmap_list) : mmap_list[i] \in VmaSet
      BY DEF MmapIInv, MmapTypeOK
    <3>2. \A v \in VmaSet : v.vm_start \in Int /\ v.vm_end \in Int
      BY DEF VmaSet, Addr
    <3> QED BY <3>1, <3>2, <1>3 DEF Accepted
  <2>5. ASSUME NEW i \in 1 .. n PROVE mmap_list[i].vm_end <= vma.vm_start
    <3>1. n \in 1 .. Len(mmap_list) /\ i \in 1 .. Len(mmap_list)
      BY <1>1, <2>5
    <3>2. mmap_list[n].vm_start < mmap_list[n].vm_end /\ mmap_list[n].vm_end <= vma.vm_start
      BY <1>3, <3>1 DEF Accepted, Apart
    <3>3. CASE i = n
      BY <3>2, <3>3
    <3>4. CASE i < n
      <4>1. mmap_list[i].vm_end <= mmap_list[n].vm_start
        BY <3>1, <3>4 DEF MmapIInv, InOrder
      <4> QED BY <4>1, <3>1, <3>2, <2>4
    <3> QED BY <3>1, <3>3, <3>4
  <2>6. ASSUME NEW i \in n + 1 .. Len(mmap_list) PROVE vma.vm_end <= mmap_list[i].vm_start
    <3>1. n + 1 \in 1 .. Len(mmap_list) /\ i \in 1 .. Len(mmap_list)
      BY <1>1, <2>6
    <3>2. /\ vma.vm_end <= mmap_list[n+1].vm_start
          /\ mmap_list[n+1].vm_start < mmap_list[n+1].vm_end
      BY <1>3, <3>1, <1>1 DEF Accepted, Apart
    <3>3. CASE i = n + 1
      BY <3>2, <3>3
    <3>4. CASE n + 1 < i
      <4>1. mmap_list[n+1].vm_end <= mmap_list[i].vm_start
        BY <3>1, <3>4 DEF MmapIInv, InOrder
      <4> QED BY <4>1, <3>1, <3>2, <2>4
    <3> QED BY <3>1, <3>3, <3>4, <1>1
  <2>7. ASSUME NEW i \in 1 .. Len(mmap_list')
        PROVE  mmap_list'[i].vm_start < mmap_list'[i].vm_end
    <3>1. i <= n => i \in 1 .. Len(mmap_list)
      BY <1>1, <2>2, <2>4
    <3>2. ~ (i <= n) /\ i # n + 1 => i - 1 \in 1 .. Len(mmap_list)
      BY <1>1, <2>2, <2>4
    <3> QED BY <3>1, <3>2, <2>2, <2>4 DEF MmapIInv, InOrder
  <2>8. ASSUME NEW i \in 1 .. Len(mmap_list'), NEW j \in 1 .. Len(mmap_list'), i < j
        PROVE  mmap_list'[i].vm_end <= mmap_list'[j].vm_start
    <3>1. CASE j <= n
      <4>1. i \in 1 .. Len(mmap_list) /\ j \in 1 .. Len(mmap_list) /\ i <= n
        BY <3>1, <2>8, <2>2, <1>1, <2>4
      <4>2. mmap_list'[i] = mmap_list[i] /\ mmap_list'[j] = mmap_list[j]
        BY <3>1, <2>2, <4>1
      <4> QED BY <2>8, <4>1, <4>2 DEF MmapIInv, InOrder
    <3>2. CASE j = n + 1
      BY <3>2, <2>8, <2>2, <2>5, <1>1
    <3>3. CASE i = n + 1
      <4>1. j - 1 \in n + 1 .. Len(mmap_list)
        BY <3>3, <2>8, <2>2, <1>1, <2>4
      <4> QED BY <4>1, <3>3, <2>8, <2>2, <2>6, <1>1
    <3>4. CASE i <= n /\ n + 1 < j
      <4>1. j - 1 \in 1 .. Len(mmap_list) /\ i \in 1 .. Len(mmap_list) /\ i < j - 1
        BY <3>4, <2>8, <2>2, <1>1, <2>4
      <4>2. mmap_list'[i] = mmap_list[i] /\ mmap_list'[j] = mmap_list[j-1]
        BY <3>4, <2>2, <1>1
      <4> QED BY <4>1, <4>2 DEF MmapIInv, InOrder
    <3>5. CASE n + 1 < i
      <4>1. j - 1 \in 1 .. Len(mmap_list) /\ i - 1 \in 1 .. Len(mmap_list) /\ i - 1 < j - 1
        BY <3>5, <2>8, <2>2, <1>1, <2>4
      <4>2. mmap_list'[i] = mmap_list[i-1] /\ mmap_list'[j] = mmap_list[j-1]
        BY <3>5, <2>8, <2>2, <1>1
      <4> QED BY <4>1, <4>2 DEF MmapIInv, InOrder
    <3> QED BY <3>1, <3>2, <3>3, <3>4, <3>5, <1>1, <2>8
  <2>9. InOrder(mmap_list)'
    BY <2>7, <2>8 DEF InOrder
  <2>10. Range(mmap_list) \subseteq Range(mmap_list')
    BY <1>1, <2>1, InsertedRange DEF MmapIInv, MmapTypeOK
  <2>11. Known'
    BY <2>1, <2>10 DEF MmapIInv, Known
  <2> QED BY <2>3, <2>9, <2>11 DEF MmapIInv
<1> QED BY <1>2, <1>3

\* find_vma: an area from the cache is on the list, so the list would have given it.
LEMMA FindKeeps ==
  ASSUME MmapIInv, NEW addr \in Addr, FindVma(addr)
  PROVE  MmapIInv'
<1> DEFINE vma == IF Covers(mmap_cache, addr) THEN mmap_cache ELSE Searched(addr)
<1>1. /\ asked' = [addr |-> addr, vma |-> vma]
      /\ mmap_cache' = IF vma = NULL THEN mmap_cache ELSE vma
      /\ UNCHANGED <<mmap_list, map_count, halted>>
  BY DEF FindVma
<1>2. vma # NULL => vma \in Range(mmap_list) /\ Covers(vma, addr)
  BY SearchAnswers DEF MmapIInv, MmapTypeOK, Known
<1> HIDE DEF vma
<1>3. Range(mmap_list) \subseteq VmaSet
  BY DEF MmapIInv, MmapTypeOK, Range
<1>4. vma \in VmaSet
  BY <1>2, <1>3, NullIsNoArea
<1>5. MmapTypeOK'
  BY <1>1, <1>4 DEF MmapIInv, MmapTypeOK
<1>6. Known'
  BY <1>1, <1>2 DEF MmapIInv, Known
<1>7. InOrder(mmap_list)'
  BY <1>1 DEF MmapIInv, InOrder
<1> QED BY <1>5, <1>6, <1>7 DEF MmapIInv

\* mm_destroy and mm_create leave what MmapInit describes.
LEMMA DestroyKeeps ==
  ASSUME MmapIInv, DestroyMm
  PROVE  MmapIInv'
<1>1. MmapTypeOK'
  <2>1. 0 \in Addr
    BY VmaAssumption DEF Addr
  <2> QED BY <2>1, NullIsNoArea DEF DestroyMm, MmapIInv, MmapTypeOK
<1> QED BY <1>1 DEF DestroyMm, MmapIInv, InOrder, Known

\* The areas of an address space are sorted and apart, and what find_vma answered, from
\* the cache or from the list, is what a search of the list gives: for every size of
\* the address space and every sequence of insertions, searches and destructions.
THEOREM AreasAlwaysExact == MmapSpec => []MmapExact
<1>1. MmapInit => MmapIInv
  BY InitHolds
<1>2. MmapIInv /\ [MmapNext]_mmap_vars => MmapIInv'
  <2> SUFFICES ASSUME MmapIInv, [MmapNext]_mmap_vars PROVE MmapIInv'
    OBVIOUS
  <2>1. CASE \E vma \in VmaSet : InsertVma(vma)
    BY <2>1, InsertKeeps
  <2>2. CASE \E addr \in Addr : FindVma(addr)
    BY <2>2, FindKeeps
  <2>3. CASE DestroyMm
    BY <2>3, DestroyKeeps
  <2>4. CASE UNCHANGED mmap_vars
    BY <2>4 DEF mmap_vars, MmapIInv, MmapTypeOK, Known, InOrder
  <2> QED BY <2>1, <2>2, <2>3, <2>4 DEF MmapNext, Stopped
<1>3. MmapIInv => MmapExact
  BY InvariantSuffices
<1> QED BY <1>1, <1>2, <1>3, PTL DEF MmapSpec

\* The fields of a page and of the list head.
AreaType == [nxt : [Nodes -> Nodes], prv : [Nodes -> Nodes], property : [Pages -> 0 .. NPages]]

\* The list holds the pages of S: from each node the pointers lead to the next and to the
\* previous one by address, and back.
Links(a, S) ==
  \A x \in S \cup {head} :
    /\ a.nxt[x] \in S \cup {head} /\ a.prv[x] \in S \cup {head}
    /\ a.prv[a.nxt[x]] = x /\ a.nxt[a.prv[x]] = x
    /\ a.nxt[x] # head => x < a.nxt[x]
    /\ \A y \in S : x < y => a.nxt[x] # head /\ a.nxt[x] <= y

-----------------------------------------------------------------------------
(* The free list *)

(* Loops over the list *)

\* A place of a set of places below a bound is the first of them.
LEMMA FirstOfPlaces ==
  ASSUME NEW n \in Nat, NEW K \in SUBSET (1 .. n), K # {}
  PROVE  \E k \in K : \A j \in K : k <= j
<1>1. K \subseteq Nat
  OBVIOUS
<1>2. PICK k \in K : \A j \in K : ~ (<<j, k>> \in OpToRel(<, Nat))
  BY <1>1, NatLessThanWellFounded, WFMin
<1>3. ASSUME NEW j \in K PROVE k <= j
  <2>1. k \in Nat /\ j \in Nat
    BY <1>1
  <2>2. <<j, k>> \notin OpToRel(<, Nat)
    BY <1>2
  <2> QED BY <2>1, <2>2 DEF OpToRel
<1> QED BY <1>3

\* The nodes a loop visits, one list_next after the other.
LEMMA WalkSteps ==
  ASSUME NEW a \in AreaType
  PROVE  /\ Step(a) \in [0 .. NPages + 1 -> Nodes]
         /\ Step(a)[0] = head
         /\ \A k \in 1 .. NPages + 1 : Step(a)[k] = a.nxt[Step(a)[k-1]]
<1> DEFINE n == NPages + 1
           step == [x \in Nodes \X (1 .. n) |-> a.nxt[x[1]]]
           Def(h) == h = [k \in 0 .. n |-> IF k = 0 THEN head ELSE a.nxt[h[k-1]]]
           g == CHOOSE h : Def(h)
<1>1. n \in Nat /\ head \in Nodes /\ a.nxt \in [Nodes -> Nodes]
  BY FreeListAssumption DEF AreaType, Nodes
<1>2. step \in [Nodes \X (1 .. n) -> Nodes]
  BY <1>1
<1>3. PICK f : Builds(f, n, Nodes, head, step)
  <2> HIDE DEF step, n
  <2> QED BY <1>1, <1>2, BuildsExists
<1>4. f \in [0 .. n -> Nodes] /\ f[0] = head
  BY <1>3 DEF Builds
<1>5. ASSUME NEW k \in 1 .. n PROVE f[k] = a.nxt[f[k-1]]
  <2>1. f[k] = step[<<f[k-1], k>>]
    BY <1>3 DEF Builds
  <2>2. f[k-1] \in Nodes
    BY <1>1, <1>4
  <2> QED BY <2>1, <2>2
<1>6. Def(f)
  <2>1. \A k \in 0 .. n : f[k] = IF k = 0 THEN head ELSE a.nxt[f[k-1]]
    BY <1>1, <1>4, <1>5
  <2> QED BY <1>4, <2>1
<1>7. Def(g)
  <2> HIDE DEF Def
  <2> QED BY <1>6
<1>8. Step(a) = g
  BY DEF Step
<1>9. g[0] = head /\ \A k \in 1 .. n : g[k] = a.nxt[g[k-1]]
  <2> HIDE DEF g
  <2>1. g = [k \in 0 .. n |-> IF k = 0 THEN head ELSE a.nxt[g[k-1]]]
    BY <1>7
  <2>2. 0 \in 0 .. n /\ \A k \in 1 .. n : k \in 0 .. n /\ k # 0
    BY <1>1
  <2> QED BY <2>1, <2>2
<1>10. g \in [0 .. n -> Nodes]
  <2> HIDE DEF g
  <2> DEFINE T == {k \in 0 .. n : g[k] \in Nodes}
  <2>1. 0 \in T /\ \A k \in 1 .. n : k - 1 \in T => k \in T
    BY <1>1, <1>9
  <2>2. \A k \in 0 .. n : k \in T
    <3> HIDE DEF T, n
    <3> QED BY <1>1, <2>1, PlaceInduction
  <2>3. \E R : g \in [0 .. n -> R]
    <3>1. g = [k \in 0 .. n |-> IF k = 0 THEN head ELSE a.nxt[g[k-1]]]
      BY <1>7
    <3>2. DOMAIN g = 0 .. n
      BY <3>1
    <3>3. g = [k \in 0 .. n |-> g[k]]
      BY <3>1, <3>2
    <3> QED BY <2>2, <3>3
  <2> QED BY <2>2, <2>3
<1> QED BY <1>8, <1>9, <1>10

\* As long as page y has not been visited, the loop is below it and goes up.
LEMMA WalkBelow ==
  ASSUME NEW a \in AreaType, NEW S \in SUBSET Pages, Links(a, S), NEW y \in S,
         NEW n \in 0 .. NPages, \A k \in 1 .. n : Step(a)[k] # y
  PROVE  /\ \A k \in 1 .. n : Step(a)[k] # head
         /\ n <= Step(a)[n] /\ Step(a)[n] < y
         /\ Step(a)[n] \in S \cup {head}
<1> DEFINE w == Step(a)
           T == {k \in 0 .. n : /\ \A j \in 1 .. k : w[j] # head
                                /\ w[k] \in S \cup {head} /\ k <= w[k] /\ w[k] < y}
<1>1. /\ w[0] = head /\ \A k \in 1 .. NPages + 1 : w[k] = a.nxt[w[k-1]]
      /\ n \in Nat /\ y \in Nat \ {0} /\ S \subseteq Nat \ {0} /\ head = 0
      /\ \A k \in 1 .. n : k \in 1 .. NPages + 1
  BY WalkSteps, FreeListAssumption DEF Pages, head
<1> HIDE DEF w
<1>2. 0 \in T
  BY <1>1
<1>3. ASSUME NEW k \in 1 .. n, k - 1 \in T PROVE k \in T
  <2>1. w[k] = a.nxt[w[k-1]] /\ w[k] # y
    BY <1>1 DEF w
  <2>2. /\ w[k-1] \in S \cup {head} /\ k - 1 <= w[k-1] /\ w[k-1] < y
        /\ \A j \in 1 .. k - 1 : w[j] # head
    BY <1>3
  <2>3. w[k] \in S \cup {head} /\ w[k] # head /\ w[k] <= y /\ w[k-1] < w[k]
    BY <2>1, <2>2 DEF Links
  <2>4. k <= w[k] /\ w[k] < y
    <3>1. S \cup {head} \subseteq Nat
      BY <1>1
    <3>2. w[k] \in Nat /\ w[k-1] \in Nat
      BY <2>2, <2>3, <3>1
    <3> QED BY <1>1, <2>1, <2>2, <2>3, <3>2
  <2>5. \A j \in 1 .. k : w[j] # head
    BY <2>2, <2>3
  <2> QED BY <2>3, <2>4, <2>5
<1>4. \A k \in 0 .. n : k \in T
  <2> HIDE DEF T
  <2> QED BY <1>1, <1>2, <1>3, PlaceInduction
<1>5. n \in T
  BY <1>1, <1>4
<1> QED BY <1>5 DEF w

\* So every page of the list is visited before the loop comes back to the head,
LEMMA WalkReaches ==
  ASSUME NEW a \in AreaType, NEW S \in SUBSET Pages, Links(a, S), NEW y \in S
  PROVE  \E m \in 1 .. NPages :
           /\ Step(a)[m] = y
           /\ \A j \in 1 .. m : Step(a)[j] # head
           /\ \A j \in 1 .. m - 1 : Step(a)[j] # y
<1> DEFINE w == Step(a)
           K == {k \in 1 .. NPages : w[k] = y}
<1>1. NPages \in Nat /\ y \in 1 .. NPages /\ head = 0
  BY FreeListAssumption DEF Pages, head
<1> HIDE DEF w
<1>2. K # {}
  <2> SUFFICES ASSUME \A k \in 1 .. NPages : w[k] # y PROVE FALSE
    OBVIOUS
  <2>1. NPages \in 0 .. NPages
    BY <1>1
  <2>2. NPages <= w[NPages] /\ w[NPages] < y /\ w[NPages] \in S \cup {head}
    BY <2>1, WalkBelow DEF w
  <2>3. \A x \in S \cup {head} : ~ (NPages <= x /\ x < y)
    BY <1>1 DEF Pages
  <2> QED BY <2>2, <2>3
<1>3. PICK m \in K : \A j \in K : m <= j
  <2> HIDE DEF K
  <2>1. K \in SUBSET (1 .. NPages)
    BY DEF K
  <2> QED BY <1>1, <1>2, <2>1, FirstOfPlaces
<1>4. m \in 1 .. NPages /\ w[m] = y /\ m - 1 \in 0 .. NPages
  BY <1>1, <1>3
<1>5. \A j \in 1 .. m - 1 : w[j] # y
  <2> SUFFICES ASSUME NEW j \in 1 .. m - 1, w[j] = y PROVE FALSE
    OBVIOUS
  <2>1. j \in K
    BY <1>1, <1>4
  <2> QED BY <1>1, <1>3, <1>4, <2>1
<1>6. \A j \in 1 .. m - 1 : w[j] # head
  BY <1>4, <1>5, WalkBelow DEF w
<1>7. \A j \in 1 .. m : w[j] # head
  <2>1. \A j \in 1 .. m : j \in 1 .. m - 1 \/ j = m
    BY <1>1, <1>4
  <2> QED BY <1>1, <1>4, <1>6, <2>1
<1> QED BY <1>4, <1>5, <1>7 DEF w

\* and none but these.
LEMMA WalkStays ==
  ASSUME NEW a \in AreaType, NEW S \in SUBSET Pages, Links(a, S)
  PROVE  \A k \in 0 .. NPages + 1 : Step(a)[k] \in S \cup {head}
<1> DEFINE n == NPages + 1
           T == {k \in 0 .. n : Step(a)[k] \in S \cup {head}}
<1>1. n \in Nat
  BY FreeListAssumption
<1>2. Step(a)[0] = head /\ \A k \in 1 .. n : Step(a)[k] = a.nxt[Step(a)[k-1]]
  BY WalkSteps
<1>3. 0 \in T
  BY <1>1, <1>2
<1>4. ASSUME NEW k \in 1 .. n, k - 1 \in T PROVE k \in T
  BY <1>2, <1>4 DEF Links
<1>5. \A k \in 0 .. n : k \in T
  <2> HIDE DEF T, n
  <2> QED BY <1>1, <1>3, <1>4, PlaceInduction
<1> QED BY <1>5

LEMMA ListedIs ==
  ASSUME NEW a \in AreaType, NEW S \in SUBSET Pages, Links(a, S)
  PROVE  Listed(a) = S
<1> DEFINE w == Step(a)
<1>1. NPages \in Nat /\ \A k \in 1 .. NPages : k \in 0 .. NPages + 1 /\ k \in 1 .. k
  BY FreeListAssumption
<1>2. Listed(a) = {w[k] : k \in {i \in 1 .. NPages : \A j \in 1 .. i : w[j] # head}}
  BY DEF Listed
<1>3. ASSUME NEW k \in 1 .. NPages, \A j \in 1 .. k : w[j] # head PROVE w[k] \in S
  BY <1>1, <1>3, WalkStays
<1>4. ASSUME NEW y \in S PROVE y \in Listed(a)
  BY <1>2, WalkReaches
<1> QED BY <1>2, <1>3, <1>4

\* The loop comes back to the head,
LEMMA WalkReturns ==
  ASSUME NEW a \in AreaType, NEW S \in SUBSET Pages, Links(a, S), NEW T, head \in T
  PROVE  Returns(a, T)
<1> DEFINE w == Step(a)
           R == {k \in 0 .. NPages + 1 : k <= w[k]}
           n == NPages + 1
<1> SUFFICES ASSUME \A k \in 1 .. n : w[k] # head PROVE FALSE
  BY DEF Returns
<1>1. n \in Nat /\ S \subseteq 1 .. NPages /\ head = 0 /\ NPages \in Nat
  BY FreeListAssumption DEF head, Pages
<1>2. w[0] = head /\ \A k \in 1 .. n : w[k] = a.nxt[w[k-1]]
  BY WalkSteps
<1>3. \A k \in 0 .. n : w[k] \in S \cup {head}
  BY WalkStays
<1> HIDE DEF w
<1>4. 0 \in R
  BY <1>1, <1>2
<1>5. ASSUME NEW k \in 1 .. n, k - 1 \in R PROVE k \in R
  <2>1. k - 1 \in 0 .. n /\ k - 1 <= w[k-1] /\ k \in 0 .. n /\ w[k] # head
    BY <1>1, <1>5
  <2>2. w[k-1] < w[k]
    BY <1>2, <1>3, <2>1 DEF Links
  <2>3. w[k-1] \in S \cup {head} /\ w[k] \in S \cup {head}
    BY <1>3, <2>1
  <2>4. S \cup {head} \subseteq Nat
    BY <1>1
  <2>5. w[k-1] \in Nat /\ w[k] \in Nat
    BY <2>3, <2>4
  <2> QED BY <2>1, <2>2, <2>5
<1>6. \A k \in 0 .. n : k \in R
  <2> HIDE DEF R, n
  <2> QED BY <1>1, <1>4, <1>5, PlaceInduction
<1>7. n <= w[n] /\ w[n] \in S \cup {head}
  BY <1>1, <1>3, <1>6
<1>8. \A y \in S \cup {head} : ~ (n <= y)
  BY <1>1
<1> QED BY <1>7, <1>8

\* and of some pages of the list it visits the lowest first.
LEMMA FirstOfIs ==
  ASSUME NEW a \in AreaType, NEW S \in SUBSET Pages, Links(a, S),
         NEW T \in SUBSET S, T # {}
  PROVE  FirstOf(a, T) \in T /\ \A t \in T : FirstOf(a, T) <= t
<1> DEFINE w == Step(a)
           n == NPages + 1
           K == {k \in 1 .. n : w[k] \in T}
           m == Min(K)
<1>1. n \in Nat /\ S \subseteq Nat \ {0} /\ head = 0 /\ NPages \in Nat
  BY FreeListAssumption DEF head, Pages
<1>2. \A k \in 1 .. n : w[k] = a.nxt[w[k-1]]
  BY WalkSteps
<1>3. FirstOf(a, T) = w[m]
  BY DEF FirstOf
<1> HIDE DEF w
<1>4. K # {}
  <2>1. PICK y \in T : TRUE
    OBVIOUS
  <2>2. PICK k \in 1 .. NPages : w[k] = y
    BY <2>1, WalkReaches DEF w
  <2> QED BY <1>1, <2>1, <2>2
<1>5. m \in K /\ \A k \in K : m <= k
  <2> HIDE DEF K
  <2>1. K \in SUBSET (1 .. n)
    BY DEF K
  <2>2. \E k \in K : \A j \in K : k <= j
    <3> HIDE DEF n
    <3> QED BY <1>1, <1>4, <2>1, FirstOfPlaces
  <2> QED BY <2>2 DEF Min
<1> HIDE DEF m
<1>6. m \in 1 .. n /\ w[m] \in T /\ m - 1 \in 0 .. NPages
  BY <1>1, <1>5
<1>7. ASSUME NEW t \in T PROVE w[m] <= t
  <2>1. CASE w[m] = t
    BY <2>1, <1>1
  <2>2. \A j \in 1 .. m - 1 : w[j] # t
    <3> SUFFICES ASSUME NEW j \in 1 .. m - 1, w[j] = t PROVE FALSE
      OBVIOUS
    <3>1. j \in K
      BY <1>1, <1>6
    <3> QED BY <1>1, <1>5, <1>6, <3>1
  <2>3. w[m-1] < t /\ w[m-1] \in S \cup {head}
    BY <1>6, <2>2, WalkBelow DEF w
  <2>4. a.nxt[w[m-1]] <= t
    BY <2>3 DEF Links
  <2> QED BY <1>2, <1>6, <2>4
<1> QED BY <1>3, <1>6, <1>7

-----------------------------------------------------------------------------
(* list.h *)

\* The pages of S are numbers, and the head is below them.
LEMMA NodesInOrder ==
  ASSUME NEW S \in SUBSET Pages
  PROVE  /\ NPages \in Nat /\ head = 0 /\ head \in Nodes /\ S \cup {head} \subseteq Nodes
         /\ \A x \in S : x \in Nat /\ head < x /\ x # head
         /\ \A x \in S \cup {head} : x \in Nat
BY FreeListAssumption DEF Pages, Nodes, head

\* The node before x is the last of the list below it.
LEMMA PrevOf ==
  ASSUME NEW a, NEW S \in SUBSET Pages, Links(a, S), NEW x \in S
  PROVE  /\ a.prv[x] \in S \cup {head} /\ a.nxt[a.prv[x]] = x /\ a.prv[x] < x
         /\ \A y \in S : a.prv[x] < y => x <= y
<1>1. x # head
  BY NodesInOrder
<1>2. a.prv[x] \in S \cup {head} /\ a.nxt[a.prv[x]] = x
  BY DEF Links
<1> QED BY <1>1, <1>2 DEF Links

\* The fields of the result, when both kinds of pointers are written.
LEMMA Rewritten ==
  ASSUME NEW a \in AreaType, NEW f, NEW g
  PROVE  [a EXCEPT !.nxt = f, !.prv = g]
           = [nxt |-> f, prv |-> g, property |-> a.property]
<1>1. a = [nxt |-> a.nxt, prv |-> a.prv, property |-> a.property]
  BY DEF AreaType
<1>2. [a EXCEPT !.nxt = f, !.prv = g] = [[a EXCEPT !.nxt = f] EXCEPT !.prv = g]
  OBVIOUS
<1>3. [a EXCEPT !.nxt = f] = [nxt |-> f, prv |-> a.prv, property |-> a.property]
  BY <1>1
<1>4. ASSUME NEW c, c = [nxt |-> f, prv |-> a.prv, property |-> a.property]
      PROVE  [c EXCEPT !.prv = g] = [nxt |-> f, prv |-> g, property |-> a.property]
  BY <1>4
<1>5. [[a EXCEPT !.nxt = f] EXCEPT !.prv = g]
        = [nxt |-> f, prv |-> g, property |-> a.property]
  BY <1>3, <1>4
<1> QED BY <1>2, <1>5

\* list_del takes one page off the list.
LEMMA DelLinks ==
  ASSUME NEW a \in AreaType, NEW S \in SUBSET Pages, Links(a, S), NEW x \in S
  PROVE  /\ ListDel(a, x) \in AreaType /\ Links(ListDel(a, x), S \ {x})
         /\ ListDel(a, x).property = a.property
<1> DEFINE b == ListDel(a, x)
           p == a.prv[x]
           n == a.nxt[x]
           R == S \ {x}
<1>1. /\ NPages \in Nat /\ head = 0 /\ S \cup {head} \subseteq Nodes
      /\ \A y \in S \cup {head} : y \in Nat
      /\ x # head
  BY NodesInOrder
<1>2. /\ p \in S \cup {head} /\ n \in S \cup {head} /\ a.prv[n] = x /\ a.nxt[p] = x
      /\ n # head => x < n
      /\ \A y \in S : x < y => n # head /\ n <= y
  BY DEF Links
<1>3. p < x /\ \A y \in S : p < y => x <= y
  BY PrevOf
<1>4. p # x /\ n # x
  BY <1>1, <1>2, <1>3
<1>5. /\ a.nxt \in [Nodes -> Nodes] /\ a.prv \in [Nodes -> Nodes]
      /\ a.property \in [Pages -> 0 .. NPages]
  BY DEF AreaType
<1>6. /\ b.nxt = [a.nxt EXCEPT ![p] = n] /\ b.prv = [a.prv EXCEPT ![n] = p]
      /\ b.property = a.property
      /\ b = [nxt |-> b.nxt, prv |-> b.prv, property |-> b.property]
  <2> DEFINE f == [a.nxt EXCEPT ![p] = n]
             g == [a.prv EXCEPT ![n] = p]
  <2>1. b = [a EXCEPT !.nxt = f, !.prv = g]
    BY DEF ListDel
  <2> HIDE DEF b, f, g
  <2>2. b = [nxt |-> f, prv |-> g, property |-> a.property]
    BY <2>1, Rewritten
  <2> QED BY <2>2 DEF f, g
<1> HIDE DEF b, p, n
<1>7. b.nxt \in [Nodes -> Nodes] /\ b.prv \in [Nodes -> Nodes]
  BY <1>1, <1>2, <1>5, <1>6
<1>8. b \in AreaType
  BY <1>5, <1>6, <1>7 DEF AreaType
<1>9. \A z \in S \cup {head} : /\ b.nxt[z] = IF z = p THEN n ELSE a.nxt[z]
                               /\ b.prv[z] = IF z = n THEN p ELSE a.prv[z]
  BY <1>1, <1>2, <1>5, <1>6
<1>10. ASSUME NEW z \in R \cup {head}
       PROVE  /\ b.nxt[z] \in R \cup {head} /\ b.prv[z] \in R \cup {head}
              /\ b.prv[b.nxt[z]] = z /\ b.nxt[b.prv[z]] = z
              /\ b.nxt[z] # head => z < b.nxt[z]
              /\ \A y \in R : z < y => b.nxt[z] # head /\ b.nxt[z] <= y
  <2>1. /\ z \in S \cup {head} /\ z # x
        /\ a.nxt[z] \in S \cup {head} /\ a.prv[z] \in S \cup {head}
        /\ a.prv[a.nxt[z]] = z /\ a.nxt[a.prv[z]] = z
        /\ a.nxt[z] # head => z < a.nxt[z]
        /\ \A y \in S : z < y => a.nxt[z] # head /\ a.nxt[z] <= y
    BY <1>1 DEF Links
  <2>2. (z # p => a.nxt[z] # x /\ a.nxt[z] # n) /\ (z # n => a.prv[z] # x /\ a.prv[z] # p)
    <3>1. a.prv[x] = p /\ a.nxt[x] = n
      BY DEF p, n
    <3> QED BY <1>2, <2>1, <3>1
  <2>3. /\ b.nxt[z] \in R \cup {head} /\ b.prv[z] \in R \cup {head}
    BY <1>2, <1>4, <1>9, <2>1, <2>2
  <2>4. b.prv[b.nxt[z]] = z /\ b.nxt[b.prv[z]] = z
    BY <1>2, <1>9, <2>1, <2>2
  <2>5. CASE z = p
    <3>1. b.nxt[z] = n
      BY <1>9, <2>1, <2>5
    <3>2. n # head => z < n
      BY <1>1, <1>2, <1>3, <2>5
    <3>3. ASSUME NEW y \in R, z < y PROVE n # head /\ n <= y
      <4>1. x < y
        BY <1>1, <1>3, <2>5, <3>3
      <4> QED BY <1>2, <4>1
    <3> QED BY <2>3, <2>4, <3>1, <3>2, <3>3
  <2>6. CASE z # p
    <3>1. b.nxt[z] = a.nxt[z]
      BY <1>9, <2>1, <2>6
    <3> QED BY <2>1, <2>3, <2>4, <3>1
  <2> QED BY <2>5, <2>6
<1>11. Links(b, R)
  BY <1>10 DEF Links
<1> QED BY <1>6, <1>8, <1>11 DEF b

\* list_add puts a page on the list, after a node with nothing between the two.
LEMMA AddLinks ==
  ASSUME NEW a \in AreaType, NEW S \in SUBSET Pages, Links(a, S),
         NEW le \in S \cup {head}, NEW elm \in Pages \ S, le < elm,
         \A y \in S : le < y => elm < y
  PROVE  /\ ListAddAfter(a, le, elm) \in AreaType
         /\ Links(ListAddAfter(a, le, elm), S \cup {elm})
         /\ ListAddAfter(a, le, elm).property = a.property
<1> DEFINE b == ListAddAfter(a, le, elm)
           n == a.nxt[le]
           R == S \cup {elm}
<1>1. /\ NPages \in Nat /\ head = 0 /\ S \cup {head} \subseteq Nodes
      /\ \A y \in S \cup {head} : y \in Nat
      /\ elm \in Nodes /\ elm \in Nat /\ elm # head
      /\ \A y \in S : y # head
  BY NodesInOrder DEF Pages, Nodes
<1>2. /\ n \in S \cup {head} /\ a.prv[n] = le
      /\ n # head => elm < n
      /\ \A y \in S : le < y => n # head /\ n <= y
  BY DEF Links
<1>3. elm \notin S \cup {head} /\ le # elm /\ n # elm
  BY <1>1, <1>2
<1>4. /\ a.nxt \in [Nodes -> Nodes] /\ a.prv \in [Nodes -> Nodes]
      /\ a.property \in [Pages -> 0 .. NPages]
  BY DEF AreaType
<1>5. /\ b.nxt = [a.nxt EXCEPT ![le] = elm, ![elm] = n]
      /\ b.prv = [a.prv EXCEPT ![n] = elm, ![elm] = le]
      /\ b.property = a.property
      /\ b = [nxt |-> b.nxt, prv |-> b.prv, property |-> b.property]
  <2> DEFINE f == [a.nxt EXCEPT ![le] = elm, ![elm] = n]
             g == [a.prv EXCEPT ![n] = elm, ![elm] = le]
  <2>1. b = [a EXCEPT !.nxt = f, !.prv = g]
    BY DEF ListAddAfter, ListAdd
  <2> HIDE DEF b, f, g
  <2>2. b = [nxt |-> f, prv |-> g, property |-> a.property]
    BY <2>1, Rewritten
  <2> QED BY <2>2 DEF f, g
<1> HIDE DEF b, n
<1>6. b.nxt \in [Nodes -> Nodes] /\ b.prv \in [Nodes -> Nodes]
  BY <1>1, <1>2, <1>4, <1>5
<1>7. b \in AreaType
  BY <1>4, <1>5, <1>6 DEF AreaType
<1>8. \A z \in R \cup {head} :
        /\ b.nxt[z] = IF z = elm THEN n ELSE IF z = le THEN elm ELSE a.nxt[z]
        /\ b.prv[z] = IF z = elm THEN le ELSE IF z = n THEN elm ELSE a.prv[z]
  BY <1>1, <1>2, <1>3, <1>4, <1>5
<1>9. ASSUME NEW z \in R \cup {head}
      PROVE  /\ b.nxt[z] \in R \cup {head} /\ b.prv[z] \in R \cup {head}
             /\ b.prv[b.nxt[z]] = z /\ b.nxt[b.prv[z]] = z
             /\ b.nxt[z] # head => z < b.nxt[z]
             /\ \A y \in R : z < y => b.nxt[z] # head /\ b.nxt[z] <= y
  <2>1. CASE z = elm
    <3>1. b.nxt[z] = n /\ b.prv[z] = le
      BY <1>8, <2>1
    <3>2. b.prv[n] = elm /\ b.nxt[le] = elm
      BY <1>2, <1>3, <1>8
    <3>3. ASSUME NEW y \in R, z < y PROVE n # head /\ n <= y
      <4>1. y \in S /\ le < y
        BY <1>1, <2>1, <3>3
      <4> QED BY <1>2, <4>1
    <3> QED BY <1>2, <2>1, <3>1, <3>2, <3>3
  <2>2. CASE z # elm
    <3>1. /\ z \in S \cup {head}
          /\ a.nxt[z] \in S \cup {head} /\ a.prv[z] \in S \cup {head}
          /\ a.prv[a.nxt[z]] = z /\ a.nxt[a.prv[z]] = z
          /\ a.nxt[z] # head => z < a.nxt[z]
          /\ \A y \in S : z < y => a.nxt[z] # head /\ a.nxt[z] <= y
      BY <2>2 DEF Links
    <3>2. (z # le => a.nxt[z] # n) /\ (z # n => a.prv[z] # le)
      <4>1. a.nxt[le] = n
        BY DEF n
      <4> QED BY <1>2, <3>1, <4>1
    <3>3. b.nxt[z] \in R \cup {head} /\ b.prv[z] \in R \cup {head}
      BY <1>8, <2>2, <3>1
    <3>4. b.prv[b.nxt[z]] = z
      BY <1>3, <1>8, <2>2, <3>1, <3>2
    <3>5. b.nxt[b.prv[z]] = z
      BY <1>2, <1>3, <1>8, <2>2, <3>1, <3>2
    <3>6. CASE z = le
      <4>1. b.nxt[z] = elm
        BY <1>8, <2>2, <3>6
      <4>2. ASSUME NEW y \in R, z < y PROVE elm <= y
        BY <1>1, <3>6, <4>2
      <4> QED BY <1>1, <3>3, <3>4, <3>5, <3>6, <4>1, <4>2
    <3>7. CASE z # le
      <4>1. b.nxt[z] = a.nxt[z]
        BY <1>8, <2>2, <3>7
      <4>2. ASSUME z < elm PROVE a.nxt[z] # head /\ a.nxt[z] <= elm
        <5>1. z < le
          <6>1. z \in Nat /\ le \in Nat
            BY <1>1, <3>1
          <6>2. CASE z = head
            BY <1>1, <3>7, <6>1, <6>2
          <6>3. CASE z \in S
            BY <3>7, <4>2, <6>1, <6>3, <1>1
          <6> QED BY <3>1, <6>2, <6>3
        <5>2. le \in S
          BY <1>1, <3>1, <5>1
        <5>3. a.nxt[z] # head /\ a.nxt[z] <= le
          BY <3>1, <5>1, <5>2
        <5>4. a.nxt[z] \in Nat /\ le \in Nat /\ elm \in Nat
          BY <1>1, <3>1
        <5> QED BY <5>3, <5>4
      <4> QED BY <3>1, <3>3, <3>4, <3>5, <4>1, <4>2
    <3> QED BY <3>6, <3>7
  <2> QED BY <2>1, <2>2
<1>10. Links(b, R)
  BY <1>9 DEF Links
<1> QED BY <1>5, <1>7, <1>10 DEF b

\* Nothing on the list is forgotten.
LEMMA ForgetKeeps ==
  ASSUME NEW a \in AreaType, NEW S \in SUBSET Pages, Links(a, S)
  PROVE  /\ Forget(a) \in AreaType /\ Links(Forget(a), S)
         /\ \A p \in S : Forget(a).property[p] = a.property[p]
<1> DEFINE b == Forget(a)
           L == S \cup {head}
<1>1. Listed(a) \cup {head} = L
  BY ListedIs
<1>2. L \cup {a.prv[x] : x \in L} = L
  BY DEF Links
<1>3. /\ b.nxt = [x \in Nodes |-> IF x \in L THEN a.nxt[x] ELSE head]
      /\ b.prv = [x \in Nodes |-> IF x \in L THEN a.prv[x] ELSE head]
      /\ b.property = [p \in Pages |-> IF p \in L THEN a.property[p] ELSE 0]
      /\ b = [nxt |-> b.nxt, prv |-> b.prv, property |-> b.property]
  <2> HIDE DEF L
  <2> QED BY <1>1, <1>2 DEF Forget
<1>4. /\ a.nxt \in [Nodes -> Nodes] /\ a.prv \in [Nodes -> Nodes]
      /\ a.property \in [Pages -> 0 .. NPages]
      /\ L \subseteq Nodes /\ head \in Nodes /\ NPages \in Nat
  BY NodesInOrder DEF AreaType
<1> HIDE DEF b
<1>5. b.nxt \in [Nodes -> Nodes] /\ b.prv \in [Nodes -> Nodes]
  BY <1>3, <1>4
<1>6. b.property \in [Pages -> 0 .. NPages]
  BY <1>3, <1>4
<1>7. b \in AreaType
  BY <1>3, <1>5, <1>6 DEF AreaType
<1>8. \A x \in L : b.nxt[x] = a.nxt[x] /\ b.prv[x] = a.prv[x]
  BY <1>3, <1>4
<1>9. Links(b, S)
  BY <1>8 DEF Links
<1>10. \A p \in S : b.property[p] = a.property[p]
  BY <1>3
<1> QED BY <1>7, <1>9, <1>10 DEF b

-----------------------------------------------------------------------------
(* The blocks on the list *)

\* The page behind block p.
End(a, p) == p + a.property[p]

\* The blocks of the pages of S follow each other and cover the pages of U.
Tiles(a, S, U) ==
  /\ \A p \in S : p < End(a, p) /\ End(a, p) <= NPages + 1
  /\ \A p, q \in S : p < q => End(a, p) <= q
  /\ \A x \in Pages : x \in U <=> \E p \in S : p <= x /\ x < End(a, p)

\* No block touches another.
Coalesced(a, S) == \A p, q \in S : End(a, p) # q

LEMMA EndIs ==
  ASSUME NEW a \in AreaType, NEW S \in SUBSET Pages, NEW p \in S
  PROVE  p \in Nat /\ a.property[p] \in Nat /\ End(a, p) \in Nat /\ a.property[p] <= NPages
<1>1. p \in Pages /\ NPages \in Nat
  BY FreeListAssumption
<1>2. a.property[p] \in 0 .. NPages
  BY <1>1 DEF AreaType
<1> QED BY <1>1, <1>2 DEF End, Pages

\* Writing the property of a page leaves the pointers alone.
LEMMA NewProperty ==
  ASSUME NEW a \in AreaType, NEW f \in [Pages -> 0 .. NPages]
  PROVE  /\ [a EXCEPT !.property = f] \in AreaType
         /\ [a EXCEPT !.property = f].nxt = a.nxt
         /\ [a EXCEPT !.property = f].prv = a.prv
         /\ [a EXCEPT !.property = f].property = f
BY DEF AreaType

LEMMA SameLinks ==
  ASSUME NEW a, NEW b, NEW S, Links(a, S), b.nxt = a.nxt, b.prv = a.prv
  PROVE  Links(b, S)
BY DEF Links

LEMMA SameTiles ==
  ASSUME NEW a, NEW b, NEW S, NEW U, \A p \in S : a.property[p] = b.property[p]
  PROVE  /\ Tiles(a, S, U) => Tiles(b, S, U)
         /\ Coalesced(a, S) => Coalesced(b, S)
<1>1. \A p \in S : End(a, p) = End(b, p)
  BY DEF End
<1> QED BY <1>1 DEF Tiles, Coalesced

\* A block lies above the end of the block on its page: pages of two blocks differ.
LEMMA OneBlock ==
  ASSUME NEW a \in AreaType, NEW S \in SUBSET Pages, NEW U, Tiles(a, S, U),
         NEW p \in S, NEW q \in S, NEW x \in Pages,
         p <= x, x < End(a, p), q <= x, x < End(a, q)
  PROVE  p = q
<1>1. p \in Nat /\ q \in Nat /\ End(a, p) \in Nat /\ End(a, q) \in Nat /\ x \in Nat
  BY EndIs DEF Pages
<1>2. (p < q => End(a, p) <= q) /\ (q < p => End(a, q) <= p)
  BY DEF Tiles
<1> QED BY <1>1, <1>2

\* The first n pages of a block taken, and the rest put back as a block of its own.
LEMMA TakenTiles ==
  ASSUME NEW a \in AreaType, NEW S \in SUBSET Pages, NEW U \in SUBSET Pages,
         Links(a, S), Tiles(a, S, U), Coalesced(a, S),
         NEW b \in S, NEW n \in Nat \ {0}, n <= a.property[b],
         NEW R, R = IF a.property[b] > n THEN (S \cup {b + n}) \ {b} ELSE S \ {b}
  PROVE  /\ R \in SUBSET Pages /\ Taken(a, b, n) \in AreaType
         /\ Links(Taken(a, b, n), R)
         /\ Tiles(Taken(a, b, n), R, U \ Run(b, n))
         /\ Coalesced(Taken(a, b, n), R)
<1> DEFINE d == ListDel(a, b)
           c == Taken(a, b, n)
           D == S \ {b}
<1>1. d \in AreaType /\ Links(d, D) /\ d.property = a.property
  BY DelLinks
<1>2. /\ b \in Nat /\ a.property[b] \in Nat /\ End(a, b) \in Nat
      /\ End(a, b) <= NPages + 1 /\ NPages \in Nat /\ b \in Pages /\ head = 0
      /\ a.property \in [Pages -> 0 .. NPages] /\ End(a, b) = b + a.property[b]
  BY EndIs, FreeListAssumption DEF Tiles, AreaType, End, head
<1>3. \A p \in S : p \in Nat /\ End(a, p) \in Nat /\ p < End(a, p)
                   /\ End(a, p) <= NPages + 1
  BY EndIs DEF Tiles
<1>4. \A x \in Pages : x \in Run(b, n) <=> b <= x /\ x < b + n
  BY <1>2 DEF Run, Pages
<1>5. \A x \in Pages : x \in Nat
  BY DEF Pages
<1>6. CASE a.property[b] > n
  <2> DEFINE e == b + n
             le == a.prv[b]
             f == ListAddAfter(d, le, e)
             new == [f.property EXCEPT ![e] = Rest(a.property[b], n)]
  <2>1. e \in Pages /\ e \in Nat /\ b < e /\ e < End(a, b)
    <3>1. n \in Nat /\ n > 0 /\ a.property[b] > n /\ End(a, b) <= NPages + 1
      BY <1>2, <1>6
    <3>2. e \in Nat /\ b < e /\ e < End(a, b)
      BY ONLY <1>2, <3>1
    <3>3. 1 <= b
      BY <1>2 DEF Pages
    <3>4. e \in 1 .. NPages
      BY ONLY <1>2, <3>1, <3>2, <3>3
    <3> QED BY <3>2, <3>4 DEF Pages
  <2>2. e \notin S
    <3> SUFFICES ASSUME e \in S PROVE FALSE
      OBVIOUS
    <3>1. End(a, b) <= e
      BY <2>1 DEF Tiles
    <3> QED BY <1>2, <2>1, <3>1
  <2>3. /\ le \in D \cup {head} /\ le < b
        /\ \A y \in S : le < y => b <= y
    <3>1. le \in S \cup {head} /\ le < b /\ \A y \in S : le < y => b <= y
      BY PrevOf
    <3> QED BY <1>2, <3>1
  <2>4. le < e
    <3>1. le \in Nat
      BY <1>2, <1>3, <2>3
    <3> QED BY <1>2, <2>1, <2>3, <3>1
  <2>5. ASSUME NEW y \in D, le < y PROVE e < y
    <3>1. b < y
      <4>1. b <= y /\ y # b
        BY <2>3, <2>5
      <4> QED BY ONLY <1>2, <1>3, <4>1
    <3>2. End(a, b) <= y
      BY <3>1 DEF Tiles
    <3> QED BY <1>2, <1>3, <2>1, <3>2
  <2>6. /\ f \in AreaType /\ Links(f, D \cup {e}) /\ f.property = a.property
    <3>1. D \in SUBSET Pages /\ e \in Pages \ D
      BY <2>1, <2>2
    <3> HIDE DEF d, e, le, D
    <3> QED BY <1>1, <2>3, <2>4, <2>5, <3>1, AddLinks
  <2>7. c = [f EXCEPT !.property = new]
    BY <1>6 DEF Taken, PutRest
  <2>8. Rest(a.property[b], n) = a.property[b] - n /\ a.property[b] - n \in 0 .. NPages
    <3>1. a.property[b] \in 0 .. NPages
      BY <1>2
    <3> QED BY <1>2, <1>6, <3>1 DEF Rest
  <2>9. new \in [Pages -> 0 .. NPages] /\ new[e] = a.property[b] - n
        /\ \A p \in S : new[p] = a.property[p]
    <3> HIDE DEF e, f
    <3> QED BY <1>2, <2>1, <2>2, <2>6, <2>8
  <2>10. R = D \cup {e}
    BY <1>2, <1>6, <2>1
  <2>11. c \in AreaType /\ Links(c, R) /\ c.property = new
    <3> HIDE DEF new, f, c, e, D
    <3>1. /\ c \in AreaType /\ c.nxt = f.nxt /\ c.prv = f.prv /\ c.property = new
      BY <2>6, <2>7, <2>9, NewProperty
    <3> QED BY <2>6, <2>10, <3>1, SameLinks
  <2>12. End(c, e) = End(a, b) /\ \A p \in S : End(c, p) = End(a, p)
    <3>1. c.property[e] = a.property[b] - n
      BY <2>9, <2>11
    <3>2. e + (a.property[b] - n) = b + a.property[b]
      BY <1>2
    <3> HIDE DEF c, new
    <3> QED BY <1>2, <2>9, <2>11, <3>1, <3>2 DEF End
  <2> HIDE DEF c, d, f, new
  <2>13. ASSUME NEW p \in R PROVE p < End(c, p) /\ End(c, p) <= NPages + 1
    BY <1>2, <1>3, <2>1, <2>10, <2>12, <2>13
  <2>14. ASSUME NEW p \in R, NEW q \in R, p < q PROVE End(c, p) <= q /\ End(c, p) # q
    <3>1. CASE p \in S /\ q \in S
      BY <2>12, <2>14, <3>1 DEF Tiles, Coalesced
    <3>2. CASE p = e /\ q \in D
      <4>1. b < q
        BY <1>2, <1>3, <2>1, <2>14, <3>2
      <4> QED BY <2>12, <3>2, <4>1 DEF Tiles, Coalesced
    <3>3. CASE p \in D /\ q = e
      <4>1. p < b
        <5>1. p \in Nat /\ p # b /\ (b < p => End(a, b) <= p)
          BY <1>3, <3>3 DEF Tiles
        <5> QED BY <1>2, <2>1, <2>14, <3>3, <5>1
      <4>2. End(a, p) <= b
        BY <3>3, <4>1 DEF Tiles
      <4> QED BY <1>2, <1>3, <2>1, <2>12, <3>3, <4>2
    <3> QED BY <2>1, <2>10, <2>14, <3>1, <3>2, <3>3
  <2>15. Coalesced(c, R)
    <3> SUFFICES ASSUME NEW p \in R, NEW q \in R, End(c, p) = q PROVE FALSE
      BY DEF Coalesced
    <3>1. p < q
      BY <2>13
    <3> QED BY <2>14, <3>1
  <2>16. ASSUME NEW x \in Pages
         PROVE  x \in U \ Run(b, n) <=> \E p \in R : p <= x /\ x < End(c, p)
    <3>1. x \in U <=> \E p \in S : p <= x /\ x < End(a, p)
      BY DEF Tiles
    <3>2. x \in Nat
      BY <1>5
    <3>3. ASSUME NEW p \in D, p <= x, x < End(c, p) PROVE x \in U \ Run(b, n)
      <4>1. x < End(a, p) /\ p \in S /\ p # b
        BY <2>12, <3>3
      <4>2. ~ (b <= x /\ x < End(a, b))
        BY <3>3, <4>1, OneBlock
      <4>3. ~ (b <= x /\ x < b + n)
        BY <1>2, <2>1, <3>2, <4>2
      <4> QED BY <1>4, <3>1, <3>3, <4>1, <4>3
    <3>4. ASSUME e <= x, x < End(c, e) PROVE x \in U \ Run(b, n)
      <4>1. b <= x /\ x < End(a, b) /\ ~ (x < b + n)
        BY <1>2, <2>1, <2>12, <3>2, <3>4
      <4> QED BY <1>4, <3>1, <4>1
    <3>5. ASSUME x \in U \ Run(b, n) PROVE \E p \in R : p <= x /\ x < End(c, p)
      <4>1. PICK p \in S : p <= x /\ x < End(a, p)
        BY <3>1, <3>5
      <4>2. CASE p = b
        <5>1. e <= x
          BY <1>2, <1>4, <2>1, <3>2, <3>5, <4>1, <4>2
        <5> QED BY <2>10, <2>12, <4>1, <4>2, <5>1
      <4>3. CASE p # b
        BY <2>10, <2>12, <4>1, <4>3
      <4> QED BY <4>2, <4>3
    <3> QED BY <2>10, <3>3, <3>4, <3>5
  <2>17. Tiles(c, R, U \ Run(b, n))
    BY <2>13, <2>14, <2>16 DEF Tiles
  <2> QED BY <2>1, <2>10, <2>11, <2>15, <2>17 DEF c
<1>7. CASE ~ (a.property[b] > n)
  <2>1. c = d /\ R = D /\ b + n = End(a, b)
    BY <1>2, <1>7 DEF Taken
  <2>2. \A p \in S : End(d, p) = End(a, p)
    BY <1>1 DEF End
  <2> HIDE DEF c, d
  <2>3. Coalesced(d, D)
    BY <2>2 DEF Coalesced
  <2>4. ASSUME NEW x \in Pages
        PROVE  x \in U \ Run(b, n) <=> \E p \in D : p <= x /\ x < End(d, p)
    <3>1. x \in U <=> \E p \in S : p <= x /\ x < End(a, p)
      BY DEF Tiles
    <3>2. x \in Run(b, n) <=> b <= x /\ x < End(a, b)
      BY <1>4, <2>1
    <3>3. \A p \in D : p <= x /\ x < End(a, p) => x \notin Run(b, n)
      BY <3>2, OneBlock
    <3> QED BY <2>2, <3>1, <3>2, <3>3
  <2>5. Tiles(d, D, U \ Run(b, n))
    <3>1. \A p \in D : p < End(d, p) /\ End(d, p) <= NPages + 1
      BY <1>3, <2>2
    <3>2. \A p, q \in D : p < q => End(d, p) <= q
      BY <2>2 DEF Tiles
    <3> QED BY <2>4, <3>1, <3>2 DEF Tiles
  <2> QED BY <1>1, <2>1, <2>3, <2>5 DEF c, d
<1> QED BY <1>6, <1>7

\* A block that ends where the next one begins takes it over.
LEMMA MergedTiles ==
  ASSUME NEW a \in AreaType, NEW S \in SUBSET Pages, NEW U,
         Links(a, S), Tiles(a, S, U),
         NEW p \in S, NEW q \in S, End(a, p) = q
  PROVE  /\ Merged(a, p, q) \in AreaType
         /\ Links(Merged(a, p, q), S \ {q})
         /\ Tiles(Merged(a, p, q), S \ {q}, U)
         /\ End(Merged(a, p, q), p) = End(a, q)
         /\ \A x \in S \ {q} : x # p => End(Merged(a, p, q), x) = End(a, x)
<1> DEFINE new == [a.property EXCEPT ![p] = a.property[p] + a.property[q]]
           b == [a EXCEPT !.property = new]
           c == Merged(a, p, q)
           D == S \ {q}
<1>1. /\ \A x \in S : /\ x \in Nat /\ a.property[x] \in Nat /\ End(a, x) \in Nat
                      /\ x < End(a, x) /\ End(a, x) <= NPages + 1
                      /\ End(a, x) = x + a.property[x]
      /\ NPages \in Nat /\ a.property \in [Pages -> 0 .. NPages]
      /\ p < q
  BY EndIs, FreeListAssumption DEF Tiles, AreaType, End
<1>2. /\ new \in [Pages -> 0 .. NPages] /\ new[p] = a.property[p] + a.property[q]
      /\ \A x \in S : x # p => new[x] = a.property[x]
  <2>1. a.property[p] + a.property[q] \in 0 .. NPages
    <3>1. p + a.property[p] + a.property[q] <= NPages + 1 /\ p >= 1
      BY <1>1 DEF Pages
    <3> QED BY <1>1, <3>1
  <2> QED BY <1>1, <2>1
<1>3. b \in AreaType /\ b.nxt = a.nxt /\ b.prv = a.prv /\ b.property = new
  <2> HIDE DEF new
  <2> QED BY <1>2, NewProperty
<1>4. c = ListDel(b, q)
  BY DEF Merged
<1> HIDE DEF new, b, c
<1>5. Links(b, S)
  BY <1>3, SameLinks
<1>6. c \in AreaType /\ Links(c, D) /\ c.property = new
  BY <1>3, <1>4, <1>5, DelLinks
<1>7. End(c, p) = End(a, q) /\ \A x \in D : x # p => End(c, x) = End(a, x)
  <2>1. p + (a.property[p] + a.property[q]) = (p + a.property[p]) + a.property[q]
    BY <1>1
  <2> QED BY <1>1, <1>2, <1>6, <2>1 DEF End
<1>8. \A x \in D : x < End(c, x) /\ End(c, x) <= NPages + 1
  BY <1>1, <1>7
<1>9. ASSUME NEW x \in D, NEW y \in D, x < y PROVE End(c, x) <= y
  <2>1. CASE x = p
    <3>1. q < y
      <4>1. End(a, p) <= y
        BY <1>9, <2>1 DEF Tiles
      <4> QED BY <1>1, <4>1
    <3>2. End(a, q) <= y
      BY <3>1 DEF Tiles
    <3> QED BY <1>7, <2>1, <3>2
  <2>2. CASE x # p
    BY <1>7, <1>9, <2>2 DEF Tiles
  <2> QED BY <2>1, <2>2
<1>10. ASSUME NEW x \in Pages
       PROVE  x \in U <=> \E y \in D : y <= x /\ x < End(c, y)
  <2>1. x \in U <=> \E y \in S : y <= x /\ x < End(a, y)
    BY DEF Tiles
  <2>2. x \in Nat
    BY DEF Pages
  <2>3. p <= x /\ x < End(c, p) <=>
          (p <= x /\ x < End(a, p)) \/ (q <= x /\ x < End(a, q))
    BY <1>1, <1>7, <2>2
  <2>4. p \in D
    BY <1>1
  <2> QED BY <1>7, <2>1, <2>3, <2>4
<1>11. Tiles(c, D, U)
  BY <1>8, <1>9, <1>10 DEF Tiles
<1> QED BY <1>6, <1>7, <1>11 DEF c

\* The insertion loop of free_pages, as long as a page above all that are given back is
\* free: the block goes to its place by address.
LEMMA InsertLinks ==
  ASSUME NEW a \in AreaType, NEW S \in SUBSET Pages, Links(a, S),
         NEW b \in Pages \ S, \E y \in S : b < y
  PROVE  /\ Insert(a, b) \in AreaType
         /\ Links(Insert(a, b), S \cup {b})
         /\ Insert(a, b).property = a.property
<1> DEFINE above == {p \in Listed(a) : b < p}
           m == FirstOf(a, above)
           le == a.prv[m]
<1>1. above = {p \in S : b < p} /\ above # {}
  BY ListedIs
<1>2. /\ head = 0 /\ b \in Nat /\ \A y \in S : y \in Nat /\ head < y
      /\ head < b
  BY NodesInOrder DEF Pages
<1>3. m \in S /\ b < m /\ \A y \in S : b < y => m <= y
  <2>1. m \in above /\ \A y \in above : m <= y
    <3> HIDE DEF above
    <3>1. above \in SUBSET S
      BY <1>1
    <3> QED BY <1>1, <3>1, FirstOfIs
  <2> HIDE DEF m
  <2> QED BY <1>1, <2>1
<1>4. a.nxt[head] # head
  BY <1>1, <1>2 DEF Links
<1>5. Insert(a, b) = ListAddBefore(a, m, b)
  BY <1>1, <1>4 DEF Insert
<1> HIDE DEF m, above
<1>6. /\ le \in S \cup {head} /\ a.nxt[le] = m /\ le < m
      /\ \A y \in S : le < y => m <= y
  BY <1>3, PrevOf
<1>7. Insert(a, b) = ListAddAfter(a, le, b)
  BY <1>5, <1>6 DEF ListAddBefore, ListAddAfter
<1> HIDE DEF le
<1>8. le < b
  <2>1. CASE le = head
    BY <1>2, <2>1
  <2>2. CASE le \in S
    <3>1. ~ (b < le) /\ le # b /\ le \in Nat
      BY <1>2, <1>3, <1>6, <2>2
    <3> QED BY <1>2, <3>1
  <2> QED BY <1>6, <2>1, <2>2
<1>9. ASSUME NEW y \in S, le < y PROVE b < y
  <2>1. m <= y /\ b < m
    BY <1>3, <1>6, <1>9
  <2>2. m \in Nat /\ y \in Nat /\ b \in Nat
    BY <1>2, <1>3
  <2> QED BY <2>1, <2>2
<1> QED BY <1>6, <1>7, <1>8, <1>9, AddLinks

\* The list of free_pages after the insertion of block b, its first page with property n.
PutIn(a, b, n) == Insert([a EXCEPT !.property = [@ EXCEPT ![b] = n]], b)

\* A block put among the others, on pages that none of them has.
LEMMA PutTiles ==
  ASSUME NEW a \in AreaType, NEW S \in SUBSET Pages, NEW U \in SUBSET Pages,
         Links(a, S), Tiles(a, S, U), Coalesced(a, S),
         NEW b \in Pages, NEW n \in Nat \ {0},
         Run(b, n) \subseteq Pages \ U, NPages \in U
  PROVE  /\ PutIn(a, b, n) \in AreaType /\ Links(PutIn(a, b, n), S \cup {b}) /\ b \notin S
         /\ Tiles(PutIn(a, b, n), S \cup {b}, U \cup Run(b, n))
         /\ \A p, q \in S \cup {b} : End(PutIn(a, b, n), p) = q => p = b \/ q = b
<1> DEFINE put == PutIn(a, b, n)
           new == [a.property EXCEPT ![b] = n]
           c == [a EXCEPT !.property = new]
           T == S \cup {b}
<1>1. /\ NPages \in Nat /\ b \in Nat /\ \A x \in Pages : x \in Nat
      /\ \A x \in S : x \in Nat /\ End(a, x) \in Nat /\ x < End(a, x) /\ End(a, x) <= NPages + 1
  BY EndIs, FreeListAssumption DEF Tiles, Pages
<1>2. \A x \in Pages : x \in Run(b, n) <=> b <= x /\ x < b + n
  BY <1>1 DEF Run
<1>3. \A x \in Pages : x \in U <=> \E p \in S : p <= x /\ x < End(a, p)
  BY DEF Tiles
<1>4. b + n <= NPages + 1 /\ n \in 0 .. NPages /\ b \notin U
  <2>1. b + n - 1 \in Run(b, n) /\ b \in Run(b, n)
    BY <1>1 DEF Run
  <2>2. b + n - 1 \in Pages /\ b \notin U
    BY <2>1
  <2>3. b + n - 1 <= NPages /\ b >= 1
    BY <1>1, <2>2 DEF Pages
  <2> QED BY <1>1, <2>2, <2>3
<1>5. b \notin S
  <2> SUFFICES ASSUME b \in S PROVE FALSE
    OBVIOUS
  <2>1. b <= b /\ b < End(a, b)
    BY <1>1
  <2> QED BY <1>3, <1>4, <2>1
<1>6. new \in [Pages -> 0 .. NPages] /\ new[b] = n /\ \A x \in S : new[x] = a.property[x]
  <2>1. a.property \in [Pages -> 0 .. NPages]
    BY DEF AreaType
  <2> QED BY <1>4, <1>5, <2>1
<1>7. c \in AreaType /\ c.nxt = a.nxt /\ c.prv = a.prv /\ c.property = new
  <2> HIDE DEF new
  <2> QED BY <1>6, NewProperty
<1>8. put = Insert(c, b)
  BY DEF PutIn
<1>9. \E y \in S : b < y
  <2>1. NPages \in Pages
    BY FreeListAssumption DEF Pages
  <2>2. PICK y \in S : y <= NPages /\ NPages < End(a, y)
    BY <1>3, <2>1
  <2>3. ~ (y <= b)
    <3> SUFFICES ASSUME y <= b PROVE FALSE
      OBVIOUS
    <3>1. b < End(a, y)
      BY <1>1, <2>2 DEF Pages
    <3> QED BY <1>3, <1>4, <3>1
  <2> QED BY <1>1, <2>3
<1> HIDE DEF c, new, put
<1>10. Links(c, S)
  BY <1>7, SameLinks
<1>11. put \in AreaType /\ Links(put, T) /\ put.property = new
  BY <1>5, <1>7, <1>8, <1>9, <1>10, InsertLinks
<1>12. End(put, b) = b + n /\ \A x \in S : End(put, x) = End(a, x)
  BY <1>6, <1>11 DEF End
<1>13. ASSUME NEW p \in S, p < b PROVE End(a, p) <= b
  <2>1. ~ (p <= b /\ b < End(a, p))
    BY <1>3, <1>4
  <2> QED BY <1>1, <1>13, <2>1
<1>14. ASSUME NEW q \in S, b < q PROVE b + n <= q
  <2> SUFFICES ASSUME q < b + n PROVE FALSE
    BY <1>1
  <2>1. q \in Run(b, n) /\ q \in Pages
    BY <1>1, <1>2, <1>14
  <2>2. q <= q /\ q < End(a, q)
    BY <1>1
  <2> QED BY <1>3, <2>1, <2>2
<1>15. \A p, q \in T : p < q => End(put, p) <= q
  <2> SUFFICES ASSUME NEW p \in T, NEW q \in T, p < q PROVE End(put, p) <= q
    OBVIOUS
  <2>1. CASE p \in S /\ q \in S
    BY <1>12, <2>1 DEF Tiles
  <2>2. CASE p = b /\ q \in S
    BY <1>12, <1>14, <2>2
  <2>3. CASE p \in S /\ q = b
    BY <1>12, <1>13, <2>3
  <2> QED BY <1>1, <2>1, <2>2, <2>3
<1>16. \A x \in T : x < End(put, x) /\ End(put, x) <= NPages + 1
  <2>1. b < End(put, b) /\ End(put, b) <= NPages + 1
    BY <1>1, <1>4, <1>12
  <2> QED BY <1>1, <1>12, <2>1
<1>17. ASSUME NEW x \in Pages
       PROVE  x \in U \cup Run(b, n) <=> \E p \in T : p <= x /\ x < End(put, p)
  BY <1>2, <1>3, <1>12
<1>18. Tiles(put, T, U \cup Run(b, n))
  BY <1>15, <1>16, <1>17 DEF Tiles
<1>19. \A p, q \in T : End(put, p) = q => p = b \/ q = b
  BY <1>12 DEF Coalesced
<1> QED BY <1>5, <1>11, <1>18, <1>19 DEF put

\* What touches a block on the list is its neighbour on the list.
LEMMA TouchingIsNext ==
  ASSUME NEW a \in AreaType, NEW S \in SUBSET Pages, NEW U, Links(a, S), Tiles(a, S, U),
         NEW p \in S, NEW q \in S, End(a, p) = q
  PROVE  a.nxt[p] = q /\ a.prv[q] = p
<1>1. p \in Nat /\ q \in Nat /\ p < q /\ p # head
  BY EndIs, NodesInOrder DEF Tiles
<1>2. /\ a.nxt[p] \in S \cup {head} /\ a.nxt[p] # head /\ a.nxt[p] <= q /\ p < a.nxt[p]
      /\ a.prv[a.nxt[p]] = p
  BY <1>1 DEF Links
<1>3. End(a, p) <= a.nxt[p] /\ a.nxt[p] \in Nat
  BY <1>2, NodesInOrder DEF Tiles
<1> QED BY <1>1, <1>2, <1>3

\* The block that has the pages of b after the first merge of free_pages, the list after
\* that merge and after both, and what of the pages of T then begins a block.
BaseOf(put, b) == IF MergesPrev(put, b) THEN put.prv[b] ELSE b

OneMerged(put, b) == IF MergesPrev(put, b) THEN Merged(put, put.prv[b], b) ELSE put

NextOf(put, b) == OneMerged(put, b).nxt[BaseOf(put, b)]

BothMerged(put, b) ==
  IF MergesNext(OneMerged(put, b), BaseOf(put, b))
  THEN Merged(OneMerged(put, b), BaseOf(put, b), NextOf(put, b))
  ELSE OneMerged(put, b)

FirstPages(put, b, T) ==
  (T \ (IF MergesPrev(put, b) THEN {b} ELSE {}))
    \ (IF MergesNext(OneMerged(put, b), BaseOf(put, b)) THEN {NextOf(put, b)} ELSE {})

\* After both merges no block touches another.
LEMMA MergesTiles ==
  ASSUME NEW put \in AreaType, NEW T \in SUBSET Pages, NEW U,
         Links(put, T), Tiles(put, T, U), NEW b \in T,
         \A p, q \in T : End(put, p) = q => p = b \/ q = b
  PROVE  /\ BothMerged(put, b) \in AreaType
         /\ Links(BothMerged(put, b), FirstPages(put, b, T))
         /\ Tiles(BothMerged(put, b), FirstPages(put, b, T), U)
         /\ Coalesced(BothMerged(put, b), FirstPages(put, b, T))
<1> DEFINE prev == put.prv[b]
           base == BaseOf(put, b)
           one == OneMerged(put, b)
           next == NextOf(put, b)
           two == BothMerged(put, b)
           M == T \ (IF MergesPrev(put, b) THEN {b} ELSE {})
           R == FirstPages(put, b, T)
<1>0. /\ base = IF MergesPrev(put, b) THEN prev ELSE b
      /\ one = IF MergesPrev(put, b) THEN Merged(put, prev, b) ELSE put
      /\ next = one.nxt[base]
      /\ two = IF MergesNext(one, base) THEN Merged(one, base, next) ELSE one
      /\ R = M \ (IF MergesNext(one, base) THEN {next} ELSE {})
  BY DEF BaseOf, OneMerged, NextOf, BothMerged, FirstPages
<1> SUFFICES two \in AreaType /\ Links(two, R) /\ Tiles(two, R, U) /\ Coalesced(two, R)
  OBVIOUS
<1> HIDE DEF base, one, next, two, R
<1>1. /\ one \in AreaType /\ M \in SUBSET Pages /\ base \in M
      /\ Links(one, M) /\ Tiles(one, M, U)
      /\ \A p, q \in M : End(one, p) = q => p = base
  <2>1. CASE MergesPrev(put, b)
    <3>1. prev # head /\ End(put, prev) = b
      BY <2>1 DEF MergesPrev, Adjoins, End
    <3>2. prev \in T
      <4>1. prev \in T \cup {head}
        BY DEF Links
      <4> QED BY <3>1, <4>1
    <3>3. M = T \ {b} /\ base = prev /\ one = Merged(put, prev, b)
      BY <1>0, <2>1
    <3>4. prev # b
      BY <3>1, <3>2, EndIs DEF Tiles
    <3>5. /\ one \in AreaType /\ Links(one, M) /\ Tiles(one, M, U)
          /\ End(one, prev) = End(put, b)
          /\ \A x \in M : x # prev => End(one, x) = End(put, x)
      BY <3>1, <3>2, <3>3, MergedTiles
    <3>6. \A p, q \in M : End(one, p) = q => p = base
      BY <3>3, <3>5
    <3> QED BY <3>2, <3>3, <3>4, <3>5, <3>6
  <2>2. CASE ~ MergesPrev(put, b)
    <3>1. M = T /\ base = b /\ one = put
      BY <1>0, <2>2
    <3>2. ASSUME NEW p \in T, End(put, p) = b PROVE FALSE
      <4>1. prev = p /\ p # head /\ b # head
        BY <3>2, TouchingIsNext, NodesInOrder
      <4> QED BY <2>2, <3>2, <4>1 DEF MergesPrev, Adjoins, End
    <3> QED BY <3>1, <3>2
  <2> QED BY <2>1, <2>2
<1> HIDE DEF M
<1>3. CASE MergesNext(one, base)
  <2>1. next # head /\ End(one, base) = next
    BY <1>0, <1>3 DEF MergesNext, Adjoins, End
  <2>2. next \in M
    <3>1. next \in M \cup {head}
      BY <1>0, <1>1 DEF Links
    <3> QED BY <2>1, <3>1
  <2>3. R = M \ {next} /\ two = Merged(one, base, next)
    BY <1>0, <1>3
  <2>4. base # next
    BY <1>1, <2>1, EndIs DEF Tiles
  <2>5. /\ two \in AreaType /\ Links(two, R) /\ Tiles(two, R, U)
        /\ End(two, base) = End(one, next)
        /\ \A x \in R : x # base => End(two, x) = End(one, x)
    <3>1. /\ one \in AreaType /\ M \in SUBSET Pages /\ Links(one, M) /\ Tiles(one, M, U)
          /\ base \in M /\ next \in M /\ End(one, base) = next
      BY <1>1, <2>1, <2>2
    <3>2. /\ Merged(one, base, next) \in AreaType
          /\ Links(Merged(one, base, next), M \ {next})
          /\ Tiles(Merged(one, base, next), M \ {next}, U)
          /\ End(Merged(one, base, next), base) = End(one, next)
          /\ \A x \in M \ {next} :
               x # base => End(Merged(one, base, next), x) = End(one, x)
      BY ONLY <3>1, MergedTiles
    <3> QED BY <2>3, <3>2
  <2>6. Coalesced(two, R)
    BY <1>1, <2>2, <2>3, <2>4, <2>5 DEF Coalesced
  <2> QED BY <2>5, <2>6
<1>4. CASE ~ MergesNext(one, base)
  <2>1. R = M /\ two = one
    BY <1>0, <1>4
  <2>2. ASSUME NEW q \in M, End(one, base) = q PROVE FALSE
    <3>1. next = q /\ q # head /\ base # head
      BY <1>0, <1>1, <2>2, TouchingIsNext, NodesInOrder
    <3> QED BY <1>0, <1>4, <2>2, <3>1 DEF MergesNext, Adjoins, End
  <2>3. Coalesced(one, M)
    BY <1>1, <2>2 DEF Coalesced
  <2> QED BY <1>1, <2>1, <2>3
<1> QED BY <1>3, <1>4

-----------------------------------------------------------------------------
(* The free list and the pages *)

\* The flagged pages are the list; their blocks are the pages nobody holds, no two of
\* them touch, and the last page of memory is among them.
FitInv ==
  /\ search \in Searches /\ area \in AreaType /\ flagged \in SUBSET Pages
  /\ users \in [Pages -> 0 .. 1]
  /\ Links(area, flagged)
  /\ Tiles(area, flagged, Unused)
  /\ Coalesced(area, flagged)
  /\ nr_free = Cardinality(Unused)
  /\ users[NPages] = 0

LEMMA PagesAre ==
  /\ NPages \in Nat \ {0} /\ NPages \in Pages /\ 1 \in Pages
  /\ \A x \in Pages : x \in Nat /\ 1 <= x /\ x <= NPages
BY FreeListAssumption DEF Pages

\* The number of pages in a run, and in what is left without it.
LEMMA RunSize ==
  ASSUME NEW b \in Pages, NEW n \in Nat \ {0}
  PROVE  IsFiniteSet(Run(b, n)) /\ Cardinality(Run(b, n)) = n
<1>1. b \in Int /\ b + n - 1 \in Int /\ b <= b + n - 1 /\ (b + n - 1) - b + 1 = n
  BY PagesAre
<1>2. IsFiniteSet(b .. b + n - 1)
      /\ Cardinality(b .. b + n - 1) = IF b > b + n - 1 THEN 0 ELSE (b + n - 1) - b + 1
  BY ONLY <1>1, FS_Interval
<1> QED BY <1>1, <1>2 DEF Run

LEMMA SomePages ==
  ASSUME NEW U \in SUBSET Pages
  PROVE  IsFiniteSet(U) /\ Cardinality(U) \in 0 .. NPages
<1>1. 1 \in Int /\ NPages \in Int /\ NPages \in Nat /\ ~ (1 > NPages) /\ NPages - 1 + 1 = NPages
  BY PagesAre
<1>2. IsFiniteSet(1 .. NPages) /\ Cardinality(1 .. NPages) = NPages
  <2>1. IsFiniteSet(1 .. NPages)
        /\ Cardinality(1 .. NPages) = IF 1 > NPages THEN 0 ELSE NPages - 1 + 1
    BY ONLY <1>1, FS_Interval
  <2> QED BY <1>1, <2>1
<1>3. IsFiniteSet(U) /\ Cardinality(U) <= NPages
  BY <1>2, FS_Subset DEF Pages
<1>4. Cardinality(U) \in Nat
  BY <1>3, FS_CardinalityType
<1> QED BY <1>1, <1>3, <1>4

\* The blocks of the list, read through the code's loop, are the pages of the tiling.
LEMMA BlocksAre ==
  ASSUME FitInv
  PROVE  /\ Listed(area) = flagged
         /\ \A p \in flagged : \A x \in Pages : x \in Block(p) <=> p <= x /\ x < End(area, p)
         /\ \A p \in flagged : Block(p) \subseteq Pages
         /\ UNION {Block(p) : p \in Listed(area)} = Unused
<1>1. Listed(area) = flagged
  BY ListedIs DEF FitInv
<1>2. \A p \in flagged : /\ p \in Nat /\ End(area, p) \in Nat /\ End(area, p) <= NPages + 1
                         /\ End(area, p) = p + area.property[p] /\ 1 <= p
                         /\ area.property[p] \in Nat
  BY EndIs, PagesAre DEF FitInv, Tiles, End
<1>3. ASSUME NEW p \in flagged
      PROVE  /\ \A x \in Pages : x \in Block(p) <=> p <= x /\ x < End(area, p)
             /\ Block(p) \subseteq Pages
  BY <1>2, PagesAre DEF Block, Run, Pages
<1>4. \A x \in Pages : x \in Unused <=> \E p \in flagged : p <= x /\ x < End(area, p)
  BY DEF FitInv, Tiles
<1>5. Unused \subseteq Pages
  BY DEF Unused
<1> QED BY <1>1, <1>3, <1>4, <1>5

\* Pages that are free and adjacent lie in one block: the next page begins no other.
LEMMA RunInBlock ==
  ASSUME FitInv, NEW b \in Pages, NEW n \in Nat \ {0}, Run(b, n) \subseteq Unused
  PROVE  \E p \in flagged : p <= b /\ b + n <= End(area, p)
<1>1. /\ b \in Nat /\ NPages \in Nat
      /\ \A p \in flagged : p \in Nat /\ End(area, p) \in Nat /\ p < End(area, p)
                            /\ End(area, p) <= NPages + 1
  BY EndIs, PagesAre DEF FitInv, Tiles
<1>2. \A x \in Pages : x \in Unused <=> \E p \in flagged : p <= x /\ x < End(area, p)
  BY DEF FitInv, Tiles
<1>3. b \in Run(b, n)
  BY <1>1 DEF Run
<1>4. PICK p \in flagged : p <= b /\ b < End(area, p)
  BY <1>2, <1>3
<1>5. b + n <= End(area, p)
  <2> DEFINE e == End(area, p)
  <2> SUFFICES ASSUME e < b + n PROVE FALSE
    BY <1>1
  <2>1. e \in Run(b, n)
    BY <1>1, <1>4 DEF Run
  <2>2. e \in Unused /\ e \in Pages
    BY <2>1 DEF Unused
  <2>3. PICK q \in flagged : q <= e /\ e < End(area, q)
    BY <1>2, <2>2
  <2>4. q # e
    BY DEF FitInv, Coalesced
  <2>5. q < e /\ p < q
    <3>1. q < e
      BY <1>1, <2>3, <2>4
    <3>2. ~ (q < p)
      <4> SUFFICES ASSUME q < p PROVE FALSE
        OBVIOUS
      <4>1. End(area, q) <= p
        BY DEF FitInv, Tiles
      <4> QED BY <1>1, <2>3, <4>1
    <3>3. q # p
      BY <1>1, <2>3
    <3> QED BY <1>1, <3>1, <3>2, <3>3
  <2>6. e <= q
    BY <2>5 DEF FitInv, Tiles
  <2> QED BY <1>1, <2>5, <2>6
<1> QED BY <1>4, <1>5

\* The invariant says all that the callers and the code rely on.
LEMMA FitInvExact ==
  ASSUME FitInv
  PROVE  FitExact
<1>1. Listed(area) = flagged
  BY BlocksAre
<1>2. TypeOK
  <2>1. area \in [nxt : [Nodes -> Nodes], prv : [Nodes -> Nodes], property : [Pages -> 0 .. NPages]]
    BY DEF FitInv, AreaType
  <2>2. nr_free \in 0 .. NPages
    <3>1. Unused \in SUBSET Pages
      BY DEF Unused
    <3> QED BY <3>1, SomePages DEF FitInv
  <2>3. users \in [Pages -> 0 .. 2]
    BY DEF FitInv
  <2> QED BY <2>1, <2>2, <2>3 DEF TypeOK, FitInv
<1>3. ListSorted
  BY <1>1 DEF ListSorted, FitInv, Links
<1>4. BlocksExact
  <2>1. ASSUME NEW p \in flagged, NEW q \in flagged, p # q PROVE Block(p) \cap Block(q) = {}
    <3> SUFFICES ASSUME NEW x, x \in Block(p), x \in Block(q) PROVE FALSE
      OBVIOUS
    <3>1. x \in Pages
      BY BlocksAre
    <3>2. p <= x /\ x < End(area, p) /\ q <= x /\ x < End(area, q)
      BY <3>1, BlocksAre
    <3> QED BY <2>1, <3>1, <3>2, OneBlock DEF FitInv
  <2> QED BY <1>1, <2>1, BlocksAre DEF BlocksExact, FitInv
<1>5. FlagsExact
  BY <1>1 DEF FlagsExact
<1>6. RefusesOnlyWhenSplit
  <2> SUFFICES ASSUME NEW b \in Pages, NEW n \in 1 .. MaxRequest, Run(b, n) \subseteq Unused
               PROVE  Fits(area, n) # {}
    BY DEF RefusesOnlyWhenSplit
  <2>1. n \in Nat \ {0}
    BY FreeListAssumption
  <2>2. PICK p \in flagged : p <= b /\ b + n <= End(area, p)
    BY <2>1, RunInBlock
  <2>3. b \in Nat /\ p \in Nat /\ area.property[p] \in Nat
    BY EndIs, PagesAre DEF FitInv
  <2>4. area.property[p] >= n
    BY <2>1, <2>2, <2>3 DEF End
  <2> QED BY <1>1, <2>4 DEF Fits
<1> QED BY <1>2, <1>3, <1>4, <1>5, <1>6 DEF FitExact, ListExact

LEMMA FitInitially == Init => FitInv
<1> SUFFICES ASSUME Init PROVE FitInv
  OBVIOUS
<1>1. NPages \in Nat \ {0} /\ 1 \in Pages /\ NPages \in Pages
      /\ \A x \in Pages : x \in Nat /\ 1 <= x /\ x <= NPages
  BY PagesAre
<1>2. /\ area.nxt = [x \in Nodes |-> IF x = head THEN 1 ELSE head]
      /\ area.prv = [x \in Nodes |-> IF x = head THEN 1 ELSE head]
      /\ area.property = [p \in Pages |-> IF p = 1 THEN NPages ELSE 0]
      /\ flagged = {1} /\ nr_free = NPages /\ users = [p \in Pages |-> 0]
      /\ search \in Searches
      /\ area = [nxt |-> area.nxt, prv |-> area.prv, property |-> area.property]
  BY DEF Init
<1>3. head \in Nodes /\ 1 \in Nodes /\ head = 0
  BY <1>1 DEF Nodes, head
<1>4. area \in AreaType
  <2>1. area.nxt \in [Nodes -> Nodes] /\ area.prv \in [Nodes -> Nodes]
    BY <1>2, <1>3
  <2>2. area.property \in [Pages -> 0 .. NPages]
    BY <1>1, <1>2
  <2> QED BY <1>2, <2>1, <2>2 DEF AreaType
<1>5. area.nxt[head] = 1 /\ area.nxt[1] = head /\ area.prv[head] = 1 /\ area.prv[1] = head
  BY <1>2, <1>3
<1>6. Links(area, flagged)
  BY <1>2, <1>3, <1>5 DEF Links
<1>7. End(area, 1) = NPages + 1
  BY <1>1, <1>2 DEF End
<1>8. Unused = Pages
  BY <1>2 DEF Unused
<1>9. Tiles(area, flagged, Unused)
  <2>1. \A x \in Pages : 1 <= x /\ x < End(area, 1)
    BY <1>1, <1>7
  <2> QED BY <1>1, <1>2, <1>7, <1>8, <2>1 DEF Tiles
<1>10. Coalesced(area, flagged)
  BY <1>1, <1>2, <1>7 DEF Coalesced
<1>11. nr_free = Cardinality(Unused)
  <2>1. Pages = Run(1, NPages)
    BY <1>1 DEF Pages, Run
  <2> QED BY <1>1, <1>2, <1>8, <2>1, RunSize
<1> QED BY <1>1, <1>2, <1>4, <1>6, <1>9, <1>10, <1>11 DEF FitInv

\* Both searches settle for a block that is long enough.
LEMMA ChosenFits ==
  ASSUME FitInv, NEW n \in Nat, Fits(area, n) # {}
  PROVE  Chosen(area, n) \in Fits(area, n)
<1>1. area \in AreaType /\ flagged \in SUBSET Pages /\ Links(area, flagged)
  BY DEF FitInv
<1>2. Fits(area, n) \in SUBSET flagged
  BY BlocksAre DEF Fits
<1>3. FirstOf(area, Fits(area, n)) \in Fits(area, n)
  BY <1>1, <1>2, FirstOfIs
<1>4. FirstOf(area, Least(area, Fits(area, n))) \in Fits(area, n)
  <2> DEFINE F == Fits(area, n)
             L == Least(area, F)
             K == {area.property[p] : p \in F}
  <2>1. \A p \in F : area.property[p] \in 1 .. NPages
    <3>1. ASSUME NEW p \in F PROVE area.property[p] \in 1 .. NPages
      <4>1. p < End(area, p) /\ p \in Nat /\ area.property[p] \in Nat
            /\ area.property[p] <= NPages /\ End(area, p) = p + area.property[p]
        BY <1>1, <1>2, EndIs DEF FitInv, Tiles, End
      <4> QED BY <4>1, PagesAre
    <3> QED BY <3>1
  <2>2. K \in SUBSET (1 .. NPages) /\ K # {} /\ NPages \in Nat
    BY <2>1, PagesAre
  <2>3. PICK k \in K : \A j \in K : k <= j
    <3> HIDE DEF K
    <3> QED BY <2>2, FirstOfPlaces
  <2>4. PICK p \in F : area.property[p] = k
    BY <2>3
  <2>5. p \in L
    BY <2>3, <2>4 DEF Least
  <2>6. L \in SUBSET flagged /\ L # {} /\ L \subseteq F
    BY <1>2, <2>5 DEF Least
  <2> HIDE DEF L
  <2>7. FirstOf(area, L) \in L
    BY <1>1, <2>6, FirstOfIs
  <2> QED BY <2>6, <2>7 DEF L
<1> QED BY <1>3, <1>4 DEF Chosen

\* What a call does to the pages nobody holds.
LEMMA AllocTakes ==
  ASSUME FitInv, ~ Exhausts, NEW n \in 1 .. MaxRequest, Alloc(n)
  PROVE  /\ FitInv'
         /\ \E b \in Pages : Run(b, n) \subseteq Unused /\ Unused' = Unused \ Run(b, n)
<1> DEFINE b == Chosen(area, n)
           R == IF area.property[b] > n THEN (flagged \cup {b + n}) \ {b} ELSE flagged \ {b}
           c == Taken(area, b, n)
<1>1. /\ n \in Nat \ {0} /\ Fits(area, n) # {}
      /\ area' = Forget(c) /\ flagged' = FlaggedByAlloc(b, n)
      /\ users' = [p \in Pages |-> IF p \in Run(b, n) THEN users[p] + 1 ELSE users[p]]
      /\ nr_free' = nr_free - n /\ search' = search /\ users'[NPages] = 0
  BY FreeListAssumption DEF Alloc
<1>2. /\ search \in Searches /\ area \in AreaType /\ flagged \in SUBSET Pages
      /\ users \in [Pages -> 0 .. 1] /\ Links(area, flagged)
      /\ Tiles(area, flagged, Unused) /\ Coalesced(area, flagged)
      /\ nr_free = Cardinality(Unused) /\ Unused \in SUBSET Pages
  BY DEF FitInv, Unused
<1>3. b \in flagged /\ area.property[b] >= n
  <2> HIDE DEF b
  <2>1. b \in Fits(area, n)
    BY <1>1, ChosenFits DEF b
  <2> QED BY <2>1, BlocksAre DEF Fits
<1> HIDE DEF b
<1>4. b \in Nat /\ area.property[b] \in Nat /\ n <= area.property[b] /\ b \in Pages
  BY <1>1, <1>2, <1>3, EndIs
<1>5. flagged' = R
  <2>1. ~ (area.property[b] > n) => flagged \ {b} = R
    OBVIOUS
  <2> QED BY <1>1 DEF FlaggedByAlloc
<1>6. /\ R \in SUBSET Pages /\ c \in AreaType
      /\ Links(c, R) /\ Tiles(c, R, Unused \ Run(b, n)) /\ Coalesced(c, R)
  <2> HIDE DEF R, c
  <2>1. R = IF area.property[b] > n THEN (flagged \cup {b + n}) \ {b} ELSE flagged \ {b}
    BY DEF R
  <2>2. /\ R \in SUBSET Pages /\ Taken(area, b, n) \in AreaType
        /\ Links(Taken(area, b, n), R)
        /\ Tiles(Taken(area, b, n), R, Unused \ Run(b, n))
        /\ Coalesced(Taken(area, b, n), R)
    <3>1. /\ area \in AreaType /\ flagged \in SUBSET Pages /\ Unused \in SUBSET Pages
          /\ Links(area, flagged) /\ Tiles(area, flagged, Unused) /\ Coalesced(area, flagged)
          /\ b \in flagged /\ n \in Nat \ {0} /\ n <= area.property[b]
      BY <1>1, <1>2, <1>3, <1>4
    <3> QED BY ONLY <2>1, <3>1, TakenTiles
  <2> QED BY <2>2 DEF c
<1>7. Run(b, n) \subseteq Unused
  <2>1. End(area, b) = b + area.property[b] /\ End(area, b) <= NPages + 1 /\ 1 <= b
    BY <1>2, <1>3, <1>4, PagesAre DEF End, Tiles
  <2>2. ASSUME NEW x \in Run(b, n) PROVE x \in Unused
    <3>1. x \in Pages /\ b <= x /\ x < End(area, b)
      BY <1>1, <1>4, <2>1, PagesAre DEF Run, Pages
    <3> QED BY <1>2, <1>3, <3>1 DEF Tiles
  <2> QED BY <2>2
<1>8. Unused' = Unused \ Run(b, n)
  <2>1. Unused' = {p \in Pages : users'[p] = 0}
    BY DEF Unused
  <2>2. ASSUME NEW p \in Pages PROVE users'[p] = 0 <=> users[p] = 0 /\ p \notin Run(b, n)
    <3>1. users'[p] = IF p \in Run(b, n) THEN users[p] + 1 ELSE users[p]
      BY <1>1
    <3>2. users[p] \in Nat
      BY <1>2
    <3> QED BY <3>1, <3>2
  <2> QED BY <2>1, <2>2 DEF Unused
<1>9. area' \in AreaType /\ Links(area', R) /\ \A p \in R : c.property[p] = area'.property[p]
  <2> HIDE DEF R, c
  <2> QED BY <1>1, <1>6, ForgetKeeps
<1>10. Tiles(area', R, Unused \ Run(b, n)) /\ Coalesced(area', R)
  <2> HIDE DEF R, c
  <2> QED BY <1>6, <1>9, SameTiles
<1>11. users' \in [Pages -> 0 .. 1]
  <2>1. ASSUME NEW p \in Pages PROVE users'[p] \in 0 .. 1
    <3>1. users'[p] = IF p \in Run(b, n) THEN users[p] + 1 ELSE users[p]
      BY <1>1
    <3>2. p \in Run(b, n) => users[p] = 0
      BY <1>7 DEF Unused
    <3> QED BY <1>2, <3>1, <3>2
  <2>2. users' = [p \in Pages |-> users'[p]]
    BY <1>1
  <2> QED BY <2>1, <2>2
<1>12. nr_free' = Cardinality(Unused')
  <2>1. Cardinality(Run(b, n)) = n /\ IsFiniteSet(Run(b, n)) /\ IsFiniteSet(Unused)
    BY <1>1, <1>2, <1>4, RunSize, SomePages
  <2>2. Run(b, n) \cap Unused = Run(b, n)
    BY <1>7
  <2>3. Cardinality(Unused \ Run(b, n)) = Cardinality(Unused) - Cardinality(Unused \cap Run(b, n))
    BY <2>1, FS_Difference
  <2>4. Unused \cap Run(b, n) = Run(b, n)
    BY <2>2
  <2>5. Cardinality(Unused \ Run(b, n)) = nr_free - n
    BY <1>2, <2>1, <2>3, <2>4
  <2> QED BY <1>1, <1>8, <2>5
<1>13. FitInv'
  <2> HIDE DEF R
  <2> QED BY <1>1, <1>2, <1>5, <1>6, <1>8, <1>9, <1>10, <1>11, <1>12 DEF FitInv
<1> QED BY <1>4, <1>7, <1>8, <1>13

LEMMA FreeGives ==
  ASSUME FitInv, NEW n \in 1 .. MaxRequest, NEW b \in Pages, Free(b, n)
  PROVE  /\ FitInv'
         /\ Run(b, n) \subseteq Pages \ Unused /\ Unused' = Unused \cup Run(b, n)
<1> DEFINE put == PutIn(area, b, n)
           two == BothMerged(put, b)
           T == flagged \cup {b}
           R == FirstPages(put, b, T)
           U == Unused \cup Run(b, n)
<1>1. /\ n \in Nat \ {0} /\ Run(b, n) \subseteq {p \in Pages : users[p] > 0}
      /\ area' = Forget(two) /\ flagged' = R
      /\ users' = [p \in Pages |-> IF p \in Run(b, n) THEN users[p] - 1 ELSE users[p]]
      /\ nr_free' = nr_free + n /\ search' = search
  <2>1. n \in Nat \ {0}
    BY FreeListAssumption
  <2> QED BY <2>1 DEF Free, PutIn, BothMerged, NextOf, OneMerged, BaseOf, FirstPages
<1>2. /\ search \in Searches /\ area \in AreaType /\ flagged \in SUBSET Pages
      /\ users \in [Pages -> 0 .. 1] /\ Links(area, flagged)
      /\ Tiles(area, flagged, Unused) /\ Coalesced(area, flagged)
      /\ nr_free = Cardinality(Unused) /\ Unused \in SUBSET Pages
      /\ users[NPages] = 0 /\ NPages \in Pages
  BY PagesAre DEF FitInv, Unused
<1>3. Run(b, n) \subseteq Pages \ Unused /\ NPages \in Unused
  BY <1>1, <1>2 DEF Unused
<1> HIDE DEF put
<1>4. /\ put \in AreaType /\ Links(put, T)
      /\ Tiles(put, T, U)
      /\ \A p, q \in T : End(put, p) = q => p = b \/ q = b
  <2>1. /\ area \in AreaType /\ flagged \in SUBSET Pages /\ Unused \in SUBSET Pages
        /\ Links(area, flagged) /\ Tiles(area, flagged, Unused) /\ Coalesced(area, flagged)
        /\ b \in Pages /\ n \in Nat \ {0}
        /\ Run(b, n) \subseteq Pages \ Unused /\ NPages \in Unused
    BY <1>1, <1>2, <1>3
  <2>2. /\ PutIn(area, b, n) \in AreaType /\ Links(PutIn(area, b, n), flagged \cup {b})
        /\ Tiles(PutIn(area, b, n), flagged \cup {b}, Unused \cup Run(b, n))
        /\ \A p, q \in flagged \cup {b} : End(PutIn(area, b, n), p) = q => p = b \/ q = b
    <3> HIDE DEF T, U, two, R
    <3> QED BY ONLY <2>1, PutTiles, SMTT(60)
  <2> QED BY ONLY <2>2 DEF put
<1>5. T \in SUBSET Pages /\ b \in T
  BY <1>2
<1>6. R \in SUBSET Pages
  BY <1>5 DEF FirstPages
<1>7. two \in AreaType /\ Links(two, R) /\ Tiles(two, R, U) /\ Coalesced(two, R)
  <2> HIDE DEF T, U
  <2> QED BY <1>4, <1>5, MergesTiles
<1> HIDE DEF two, R, T
<1>8. area' \in AreaType /\ Links(area', R) /\ \A p \in R : two.property[p] = area'.property[p]
  BY <1>1, <1>6, <1>7, ForgetKeeps
<1>9. Tiles(area', R, U) /\ Coalesced(area', R)
  <2> HIDE DEF U
  <2> QED BY <1>7, <1>8, SameTiles
<1>10. \A p \in Pages : users'[p] = IF p \in Run(b, n) THEN 0 ELSE users[p]
  <2> SUFFICES ASSUME NEW p \in Pages, p \in Run(b, n) PROVE users[p] - 1 = 0
    BY <1>1
  <2>1. users[p] > 0 /\ users[p] \in 0 .. 1
    BY <1>1, <1>2
  <2> QED BY <2>1
<1>11. Unused' = U
  <2>1. Unused' = {p \in Pages : users'[p] = 0}
    BY DEF Unused
  <2>2. \A p \in Pages : users'[p] = 0 <=> p \in U
    BY <1>10 DEF Unused
  <2>3. U \subseteq Pages
    BY <1>2, <1>3
  <2> QED BY <2>1, <2>2, <2>3
<1>12. users' \in [Pages -> 0 .. 1] /\ users'[NPages] = 0
  <2>1. \A p \in Pages : users'[p] \in 0 .. 1
    BY <1>2, <1>10
  <2>2. users' = [p \in Pages |-> users'[p]]
    BY <1>1
  <2>3. users'[NPages] = 0
    BY <1>2, <1>10
  <2> QED BY <2>1, <2>2, <2>3
<1>13. nr_free' = Cardinality(Unused')
  <2>1. Cardinality(Run(b, n)) = n /\ IsFiniteSet(Run(b, n)) /\ IsFiniteSet(Unused)
        /\ Cardinality(Unused) \in Nat
    BY <1>1, <1>2, RunSize, SomePages
  <2>2. Unused \cap Run(b, n) = {}
    BY <1>3
  <2>3. Cardinality(Unused \cup Run(b, n))
          = Cardinality(Unused) + Cardinality(Run(b, n)) - Cardinality(Unused \cap Run(b, n))
    BY <2>1, FS_Union
  <2>4. Cardinality(Unused \cap Run(b, n)) = 0
    BY <2>2, FS_EmptySet
  <2>5. Cardinality(Unused \cup Run(b, n)) = nr_free + n
    BY <1>1, <1>2, <2>1, <2>3, <2>4
  <2> QED BY <1>1, <1>11, <2>5
<1>14. FitInv'
  <2> HIDE DEF U
  <2> QED BY <1>1, <1>2, <1>6, <1>8, <1>9, <1>11, <1>12, <1>13 DEF FitInv
<1> QED BY <1>3, <1>11, <1>14

LEMMA FitStep ==
  ASSUME ~ Exhausts, FitInv, [Next]_vars
  PROVE  FitInv'
<1>1. CASE UNCHANGED vars
  BY <1>1 DEF vars, FitInv, Unused
<1>2. ASSUME NEW n \in 1 .. MaxRequest, Alloc(n) PROVE FitInv'
  BY <1>2, AllocTakes
<1>3. ASSUME NEW n \in 1 .. MaxRequest, Refuse(n) PROVE FitInv'
  BY <1>1, <1>3 DEF Refuse
<1>4. ASSUME NEW n \in 1 .. MaxRequest, NEW b \in Pages, Free(b, n) PROVE FitInv'
  BY <1>4, FreeGives
<1> QED BY <1>1, <1>2, <1>3, <1>4 DEF Next

\* As long as its callers leave the last page of memory alone, default_pmm.c and
\* best_fit_pmm.c keep the free list exact: both chains of page_link are the same list by
\* address, its blocks are the pages nobody holds and nr_free counts them, PG_property marks
\* their first pages, and alloc_pages refuses a request only when no run of free pages is
\* that long, because free_pages merges both neighbours.
THEOREM FreeListAlwaysExact ==
  ASSUME ~ Exhausts
  PROVE  Spec => []FitExact
<1>1. Init => FitInv
  BY FitInitially
<1>2. FitInv /\ [Next]_vars => FitInv'
  BY FitStep
<1>3. FitInv => FitExact
  BY FitInvExact
<1> QED BY <1>1, <1>2, <1>3, PTL DEF Spec

\* So, as basic_check asserts of three pages in a row, no page of memory is ever handed
\* out twice: the freelist_tail run breaks this only by taking the last page.
THEOREM NoPageTwice ==
  ASSUME ~ Exhausts
  PROVE  Spec => []NoDoubleAllocation
<1>1. Init => FitInv
  BY FitInitially
<1>2. FitInv /\ [Next]_vars => FitInv'
  BY FitStep
<1>3. FitInv => NoDoubleAllocation
  BY DEF FitInv, NoDoubleAllocation
<1> QED BY <1>1, <1>2, <1>3, PTL DEF Spec

\* And to their callers they are what PageAlloc says: pages that are handed out were free
\* and adjacent, pages that come back are free again, no other page changes hands.
THEOREM FreeListKeepsPromise ==
  ASSUME ~ Exhausts
  PROVE  Spec => KeepsPromise
<1> DEFINE free == UNION {Block(p) : p \in Listed(area)}
           Agree == free = Unused
<1>1. Init => FitInv
  BY FitInitially
<1>2. FitInv /\ [Next]_vars => FitInv'
  BY FitStep
<1>3. FitInv => Agree
  BY BlocksAre
<1>4. FitInv' => Agree'
  <2> HIDE DEF Agree
  <2> QED BY <1>3, PTL
<1>5. Init => Promise!Init
  <2> SUFFICES ASSUME Init PROVE free = Pages
    BY DEF Promise!Init, Promise!Pages, Pages
  <2>1. Unused = Pages
    BY DEF Init, Unused
  <2> QED BY <1>1, <1>3, <2>1
<1>6. FitInv /\ FitInv' /\ [Next]_vars => [Promise!Next]_free
  <2> SUFFICES ASSUME FitInv, FitInv', [Next]_vars PROVE [Promise!Next]_free
    OBVIOUS
  <2>1. free = Unused /\ free' = Unused'
    BY <1>3, <1>4
  <2> HIDE DEF free
  <2>2. CASE UNCHANGED vars
    <3>1. Unused' = Unused
      BY <2>2 DEF vars, Unused
    <3> QED BY <2>1, <3>1
  <2>3. ASSUME NEW n \in 1 .. MaxRequest, Alloc(n) PROVE [Promise!Next]_free
    <3>1. PICK b \in Pages : Run(b, n) \subseteq Unused /\ Unused' = Unused \ Run(b, n)
      BY <2>3, AllocTakes
    <3>2. Promise!Alloc(b, n)
      BY <2>1, <3>1 DEF Promise!Alloc, Promise!Run, Run, free
    <3> QED BY <3>1, <3>2 DEF Promise!Next, Promise!Pages, Pages, free
  <2>4. ASSUME NEW n \in 1 .. MaxRequest, NEW b \in Pages, Free(b, n) PROVE [Promise!Next]_free
    <3>1. Run(b, n) \subseteq Pages \ Unused /\ Unused' = Unused \cup Run(b, n)
      BY <2>4, FreeGives
    <3>2. Promise!Free(b, n)
      BY <2>1, <3>1 DEF Promise!Free, Promise!Run, Promise!Pages, Pages, Run, free
    <3> QED BY <3>2 DEF Promise!Next, Promise!Pages, Pages, free
  <2>5. ASSUME NEW n \in 1 .. MaxRequest, Refuse(n) PROVE [Promise!Next]_free
    BY <2>2, <2>5 DEF Refuse
  <2> QED BY <2>2, <2>3, <2>4, <2>5 DEF Next, free
<1> QED BY <1>1, <1>2, <1>5, <1>6, PTL DEF Spec, KeepsPromise, Promise!Spec
-----------------------------------------------------------------------------
(* Quotients and powers of two *)

\* What a quotient says of multiples.
LEMMA Quotient ==
  ASSUME NEW x \in Nat, NEW d \in Nat \ {0}
  PROVE  x \div d \in Nat /\ \A n \in Nat : n * d <= x <=> n <= x \div d
<1> DEFINE q == x \div d
<1>1. /\ q \in Int /\ x % d \in 0 .. d - 1 /\ x = d * q + (x % d)
  OBVIOUS
<1>2. q \in Nat
  <2> SUFFICES ASSUME q < 0 PROVE FALSE
    BY <1>1
  <2>1. d * q <= 0 - d
    BY <1>1
  <2> QED BY <1>1, <2>1
<1>3. ASSUME NEW n \in Nat PROVE n * d <= x <=> n <= q
  <2>1. CASE n <= q
    <3>1. n * d <= q * d
      BY <1>2, <2>1
    <3> QED BY <1>1, <1>2, <2>1, <3>1
  <2>2. CASE ~ (n <= q)
    <3>1. q + 1 <= n
      BY <1>2, <2>2
    <3>2. (q + 1) * d <= n * d
      BY <1>2, <3>1
    <3>3. (q + 1) * d = d * q + d
      BY <1>2
    <3> QED BY <1>1, <1>2, <2>2, <3>2, <3>3
  <2> QED BY <2>1, <2>2
<1> QED BY <1>2, <1>3

\* A function that is 1 at 0 and doubles from place to place exists, and is such a one.
LEMMA Doubling ==
  ASSUME NEW n \in Nat
  PROVE  LET Def(f) == f = [k \in 0 .. n |-> IF k = 0 THEN 1 ELSE 2 * f[k-1]]
         IN  /\ \E f : Def(f)
             /\ \A f : Def(f) => /\ \A k \in 0 .. n : f[k] \in Nat /\ f[k] > k
                                 /\ f[0] = 1
                                 /\ \A k \in 1 .. n : f[k] = 2 * f[k-1]
<1> DEFINE step == [x \in Nat \X (1 .. n) |-> 2 * x[1]]
           Def(f) == f = [k \in 0 .. n |-> IF k = 0 THEN 1 ELSE 2 * f[k-1]]
<1>1. step \in [Nat \X (1 .. n) -> Nat]
  OBVIOUS
<1>2. PICK f : Builds(f, n, Nat, 1, step)
  <2> HIDE DEF step
  <2> QED BY <1>1, BuildsExists
<1>3. f \in [0 .. n -> Nat] /\ f[0] = 1
  BY <1>2 DEF Builds
<1>4. ASSUME NEW k \in 1 .. n PROVE f[k] = 2 * f[k-1]
  <2>1. f[k] = step[<<f[k-1], k>>]
    BY <1>2 DEF Builds
  <2>2. f[k-1] \in Nat
    BY <1>3
  <2> QED BY <2>1, <2>2
<1>5. Def(f)
  <2>1. \A k \in 0 .. n : f[k] = IF k = 0 THEN 1 ELSE 2 * f[k-1]
    BY <1>3, <1>4
  <2> QED BY <1>3, <2>1
<1>6. ASSUME NEW g, Def(g)
      PROVE  /\ \A k \in 0 .. n : g[k] \in Nat /\ g[k] > k
             /\ g[0] = 1
             /\ \A k \in 1 .. n : g[k] = 2 * g[k-1]
  <2>1. \A k \in 0 .. n : g[k] = IF k = 0 THEN 1 ELSE 2 * g[k-1]
    BY <1>6
  <2>2. g[0] = 1 /\ \A k \in 1 .. n : g[k] = 2 * g[k-1]
    BY <2>1
  <2> DEFINE T == {k \in 0 .. n : g[k] \in Nat /\ g[k] > k}
  <2>3. 0 \in T /\ \A k \in 1 .. n : k - 1 \in T => k \in T
    BY <2>2
  <2>4. \A k \in 0 .. n : k \in T
    <3> HIDE DEF T
    <3> QED BY <2>3, PlaceInduction
  <2> QED BY <2>2, <2>4
<1> QED BY <1>5, <1>6
-----------------------------------------------------------------------------
(* Units and pages *)

\* A page is a whole number of units, three at least.
LEMMA PageUnitsAre == PageUnits \in Nat /\ PageUnits >= 3 /\ PageUnits * SLOB_UNIT = PAGE_SIZE
<1>1. /\ SLOB_UNIT \in Nat \ {0} /\ PAGE_SIZE \in Nat /\ PAGE_SIZE % SLOB_UNIT = 0
      /\ 2 * SLOB_UNIT < PAGE_SIZE
  BY SlobAssumption
<1> DEFINE q == PAGE_SIZE \div SLOB_UNIT
<1>2. q \in Nat /\ \A n \in Nat : n * SLOB_UNIT <= PAGE_SIZE <=> n <= q
  BY <1>1, Quotient
<1>3. PAGE_SIZE = SLOB_UNIT * q + (PAGE_SIZE % SLOB_UNIT)
  BY <1>1
<1>4. q * SLOB_UNIT = PAGE_SIZE
  BY <1>1, <1>2, <1>3
<1>5. q >= 3
  <2> SUFFICES ASSUME q <= 2 PROVE FALSE
    BY <1>2
  <2>1. q = 0 \/ q = 1 \/ q = 2
    BY <1>2
  <2> QED BY <1>1, <1>4, <2>1
<1> QED BY <1>2, <1>4, <1>5 DEF PageUnits

\* How many units a request takes: enough, two at least with its header, and less than
\* a page has when the assertion of slob_alloc holds.
LEMMA UnitsAsked ==
  ASSUME NEW size \in Nat, size > SLOB_UNIT, ~ AssertFails(size)
  PROVE  /\ SLOB_UNITS(size) \in Nat /\ SLOB_UNITS(size) >= 2 /\ SLOB_UNITS(size) <= PageUnits
         /\ SLOB_UNITS(size) * SLOB_UNIT >= size
<1> DEFINE x == size + SLOB_UNIT - 1
           q == x \div SLOB_UNIT
<1>1. /\ SLOB_UNIT \in Nat \ {0} /\ PAGE_SIZE \in Nat /\ x \in Nat
      /\ 2 * SLOB_UNIT <= x /\ x < PAGE_SIZE
  BY SlobAssumption DEF AssertFails
<1>2. q \in Nat /\ \A n \in Nat : n * SLOB_UNIT <= x <=> n <= q
  <2> HIDE DEF x
  <2> QED BY <1>1, Quotient
<1>3. 2 <= q
  BY <1>1, <1>2
<1>4. q < PageUnits
  BY <1>1, <1>2, PageUnitsAre
<1>5. (q + 1) * SLOB_UNIT > x
  <2>1. ~ (q + 1 <= q) /\ q + 1 \in Nat
    BY <1>2
  <2>2. ~ ((q + 1) * SLOB_UNIT <= x)
    BY <1>2, <2>1
  <2> HIDE DEF q, x
  <2>3. (q + 1) * SLOB_UNIT \in Nat
    BY <1>1, <1>2
  <2> QED BY <1>1, <2>2, <2>3
<1>6. (q + 1) * SLOB_UNIT = q * SLOB_UNIT + SLOB_UNIT
  BY <1>1, <1>2
<1>7. q * SLOB_UNIT >= size
  BY <1>1, <1>2, <1>5, <1>6
<1> QED BY <1>2, <1>3, <1>4, <1>7, PageUnitsAre DEF SLOB_UNITS

\* The page a unit is in; the arena's is 0.
PageOf(u) == u \div PageUnits

\* What the page of a unit says of the pages' addresses.
LEMMA PageOfIs ==
  ASSUME NEW u \in Nat
  PROVE  /\ PageOf(u) \in Nat
         /\ \A p \in Nat : PageAt(p) \in Nat /\ (PageAt(p) <= u <=> p <= PageOf(u))
<1>1. PageUnits \in Nat \ {0}
  BY PageUnitsAre
<1>2. PageOf(u) \in Nat /\ \A p \in Nat : p * PageUnits <= u <=> p <= PageOf(u)
  BY <1>1, Quotient DEF PageOf
<1>3. \A p \in Nat : p * PageUnits \in Nat
  BY <1>1
<1> QED BY <1>2, <1>3 DEF PageAt

\* A page begins where the one before it ends.
LEMMA PageAtIs ==
  ASSUME NEW p \in Nat
  PROVE  PageAt(p) \in Nat /\ PageAt(p + 1) = PageAt(p) + PageUnits /\ (p # 0 => PageAt(p) >= PageUnits)
<1>1. PageUnits \in Nat /\ PageUnits >= 3
  BY PageUnitsAre
<1>2. p * PageUnits \in Nat /\ (p + 1) * PageUnits = p * PageUnits + PageUnits
  BY <1>1
<1>3. p # 0 => p * PageUnits >= PageUnits
  <2> SUFFICES ASSUME p # 0 PROVE p * PageUnits >= PageUnits
    OBVIOUS
  <2>1. p - 1 \in Nat
    OBVIOUS
  <2>2. (p - 1) * PageUnits \in Nat
    BY <1>1, <2>1
  <2>3. (p - 1) * PageUnits = p * PageUnits - PageUnits
    BY <1>1
  <2> QED BY <1>1, <1>2, <2>2, <2>3
<1> QED BY <1>2, <1>3 DEF PageAt

\* The units from page p to page r.
LEMMA UnitsOfPages ==
  ASSUME NEW u \in Nat, NEW p \in Nat, NEW r \in Nat
  PROVE  u \in PageAt(p) .. PageAt(r) - 1 <=> p <= PageOf(u) /\ PageOf(u) < r
<1>1. /\ PageOf(u) \in Nat /\ PageAt(p) \in Nat /\ PageAt(r) \in Nat
      /\ (PageAt(p) <= u <=> p <= PageOf(u)) /\ (PageAt(r) <= u <=> r <= PageOf(u))
  BY PageOfIs
<1> QED BY <1>1
-----------------------------------------------------------------------------
(* The circular list *)

\* Block n is next after block a among the blocks of L, by address and round through the
\* arena.
IsNext(L, a, n) ==
  /\ n \in L
  /\ \/ a < n /\ \A c \in L : c <= a \/ n <= c
     \/ n = arena /\ \A c \in L : c <= a

\* The pointers make one circle of L.
Circle(L, nx) == arena \in L /\ \A a \in L : IsNext(L, a, nx[a])

\* Block a is the last of L before address b.
IsBefore(L, a, b) == a \in L /\ a < b /\ \A c \in L : c < b => c <= a

\* The highest place of a set.
LEMMA HighestPlace ==
  ASSUME NEW n \in Nat, NEW T \in SUBSET (0 .. n), T # {}
  PROVE  \E i \in T : \A k \in T : k <= i
<1> DEFINE D == {n - i : i \in T}
<1>1. D \subseteq Nat /\ D # {}
  <2>1. ASSUME NEW i \in T PROVE n - i \in Nat
    OBVIOUS
  <2>2. PICK i \in T : TRUE
    OBVIOUS
  <2>3. n - i \in D
    BY <2>2
  <2> QED BY <2>1, <2>3
<1>2. PICK d \in D : \A e \in D : d <= e
  <2> HIDE DEF D
  <2> QED BY <1>1, FirstPlace
<1>3. PICK i \in T : d = n - i
  BY <1>2
<1>4. ASSUME NEW k \in T PROVE k <= i
  <2>1. n - k \in D
    OBVIOUS
  <2>2. n - i <= n - k
    BY <1>2, <1>3, <2>1
  <2>3. i \in 0 .. n /\ k \in 0 .. n
    OBVIOUS
  <2> QED BY <2>2, <2>3
<1> QED BY <1>4

\* Every address beyond the arena has a block before it.
LEMMA BeforeExists ==
  ASSUME NEW n \in Nat, NEW L \in SUBSET (0 .. n), arena \in L, NEW b \in Nat \ {0}
  PROVE  \E a \in L : IsBefore(L, a, b)
<1> DEFINE T == {a \in L : a < b}
<1>1. T \in SUBSET (0 .. n) /\ T # {}
  <2>1. arena \in T
    BY DEF arena
  <2> QED BY <2>1
<1>2. PICK a \in T : \A k \in T : k <= a
  <2> HIDE DEF T
  <2> QED BY <1>1, HighestPlace
<1>3. IsBefore(L, a, b)
  BY <1>2 DEF IsBefore
<1> QED BY <1>2, <1>3

\* A set of blocks that the pointers do not leave is all of the circle.
LEMMA ClosedIsAll ==
  ASSUME NEW n \in Nat, NEW L \in SUBSET (0 .. n), NEW nx, Circle(L, nx),
         NEW S \in SUBSET L, S # {}, \A a \in S : nx[a] \in S
  PROVE  S = L
<1>1. /\ arena \in L /\ arena = 0 /\ \A a \in L : a \in Nat
      /\ \A a \in L : /\ nx[a] \in L
                      /\ \/ a < nx[a] /\ \A c \in L : c <= a \/ nx[a] <= c
                         \/ nx[a] = arena /\ \A c \in L : c <= a
  BY DEF Circle, IsNext, arena
<1>2. PICK m \in S : \A k \in S : k <= m
  BY HighestPlace
<1>3. arena \in S
  <2>1. nx[m] \in S /\ nx[m] <= m /\ m \in L /\ nx[m] \in Nat /\ m \in Nat
    BY <1>1, <1>2
  <2>2. ~ (m < nx[m])
    BY <2>1
  <2> QED BY <1>1, <2>1, <2>2
<1> SUFFICES ASSUME L \ S # {} PROVE FALSE
  OBVIOUS
<1>4. PICK c \in L \ S : \A k \in L \ S : c <= k
  <2>1. L \ S \subseteq Nat
    BY <1>1
  <2> QED BY <2>1, FirstPlace
<1>5. c \in Nat \ {0} /\ c \in L
  BY <1>1, <1>3, <1>4
<1>6. PICK p \in L : IsBefore(L, p, c)
  BY <1>1, <1>5, BeforeExists
<1>7. p \in L /\ p < c /\ p \in Nat /\ \A k \in L : k < c => k <= p
  BY <1>1, <1>6 DEF IsBefore
<1>8. p \in S
  <2>1. ~ (c <= p)
    BY <1>5, <1>7
  <2> QED BY <1>4, <1>7, <2>1
<1>9. nx[p] = c
  <2>1. p < nx[p] /\ \A k \in L : k <= p \/ nx[p] <= k
    <3>1. ~ (c <= p)
      BY <1>5, <1>7
    <3> QED BY <1>1, <1>5, <1>7, <3>1
  <2>2. nx[p] <= c /\ nx[p] \in Nat /\ nx[p] \in L
    <3>1. nx[p] \in L /\ nx[p] \in Nat
      BY <1>1, <1>7
    <3>2. c <= p \/ nx[p] <= c
      BY <1>5, <2>1
    <3>3. ~ (c <= p)
      BY <1>5, <1>7
    <3> QED BY <3>1, <3>2, <3>3
  <2>3. ~ (nx[p] < c)
    BY <1>7, <2>1, <2>2
  <2> QED BY <1>5, <2>2, <2>3
<1> QED BY <1>4, <1>8, <1>9

\* Past all pages.
HeapEnd == PageAt(HeapPages + 1)

\* The free list is a circle, and slobfree is on it.
ListOK(h) ==
  /\ DOMAIN h.next \in SUBSET (0 .. HeapEnd)
  /\ Circle(DOMAIN h.next, h.next)
  /\ h.free \in DOMAIN h.next

\* The blocks of a list are finitely many, and its pointers stay among them.
LEMMA ListFacts ==
  ASSUME NEW h, ListOK(h)
  PROVE  /\ HeapEnd \in Nat /\ DOMAIN h.next \in SUBSET (0 .. HeapEnd)
         /\ IsFiniteSet(DOMAIN h.next) /\ Cardinality(DOMAIN h.next) \in Nat
         /\ Cardinality(DOMAIN h.next) >= 1
         /\ h.free \in DOMAIN h.next /\ arena \in DOMAIN h.next
         /\ \A a \in DOMAIN h.next : h.next[a] \in DOMAIN h.next
<1> DEFINE L == DOMAIN h.next
<1>1. HeapEnd \in Nat
  BY SlobAssumption, PageAtIs DEF HeapEnd
<1>2. L \in SUBSET (0 .. HeapEnd)
  BY DEF ListOK
<1>3. IsFiniteSet(0 .. HeapEnd)
  BY <1>1, FS_Interval
<1>4. IsFiniteSet(L)
  BY <1>2, <1>3, FS_Subset
<1>5. h.free \in L /\ arena \in L /\ \A a \in L : h.next[a] \in L
  BY DEF ListOK, Circle, IsNext
<1>6. Cardinality(L) \in Nat /\ Cardinality(L) # 0
  BY <1>4, <1>5, FS_EmptySet, FS_CardinalityType
<1> QED BY <1>1, <1>2, <1>4, <1>5, <1>6

\* The blocks a loop visits, one after the other.
LEMMA NthSteps ==
  ASSUME NEW h, ListOK(h)
  PROVE  /\ Nth(h) \in [0 .. Cardinality(DOMAIN h.next) -> DOMAIN h.next]
         /\ Nth(h)[0] = h.free
         /\ \A k \in 1 .. Cardinality(DOMAIN h.next) : Nth(h)[k] = h.next[Nth(h)[k-1]]
<1> DEFINE n == Cardinality(DOMAIN h.next)
           L == DOMAIN h.next
           step == [x \in L \X (1 .. n) |-> h.next[x[1]]]
           Def(f) == f = [k \in 0 .. n |-> IF k = 0 THEN h.free ELSE h.next[f[k-1]]]
           g == CHOOSE f : Def(f)
<1>1. n \in Nat /\ h.free \in L /\ \A a \in L : h.next[a] \in L
  BY ListFacts
<1>2. step \in [L \X (1 .. n) -> L]
  BY <1>1
<1>3. PICK f : Builds(f, n, L, h.free, step)
  <2> HIDE DEF step, n, L
  <2> QED BY <1>1, <1>2, BuildsExists
<1>4. f \in [0 .. n -> L] /\ f[0] = h.free
  BY <1>3 DEF Builds
<1>5. ASSUME NEW k \in 1 .. n PROVE f[k] = h.next[f[k-1]]
  <2>1. f[k] = step[<<f[k-1], k>>]
    BY <1>3 DEF Builds
  <2>2. f[k-1] \in L
    BY <1>1, <1>4
  <2> QED BY <2>1, <2>2
<1>6. Def(f)
  <2>1. \A k \in 0 .. n : f[k] = IF k = 0 THEN h.free ELSE h.next[f[k-1]]
    BY <1>1, <1>4, <1>5
  <2> HIDE DEF n, L
  <2> QED BY <1>4, <2>1
<1>7. Def(g)
  <2> HIDE DEF Def
  <2> QED BY <1>6
<1>8. Nth(h) = g
  BY DEF Nth
<1>9. g[0] = h.free /\ \A k \in 1 .. n : g[k] = h.next[g[k-1]]
  <2> HIDE DEF g, n
  <2>1. \A k \in 0 .. n : g[k] = IF k = 0 THEN h.free ELSE h.next[g[k-1]]
    BY <1>7
  <2> QED BY <1>1, <2>1
<1>10. DOMAIN g = 0 .. n /\ g = [k \in 0 .. n |-> g[k]]
  <2> HIDE DEF g, n
  <2> QED BY <1>7
<1>11. \A k \in 0 .. n : g[k] \in L
  <2> HIDE DEF g, n, L
  <2> DEFINE T == {k \in 0 .. n : g[k] \in L}
  <2>1. 0 \in T
    BY <1>1, <1>9
  <2>2. \A k \in 1 .. n : k - 1 \in T => k \in T
    BY <1>1, <1>9
  <2>3. \A k \in 0 .. n : k \in T
    <3> HIDE DEF T
    <3> QED BY <1>1, <2>1, <2>2, PlaceInduction
  <2> QED BY <2>3
<1> HIDE DEF g, n, L
<1>12. g \in [0 .. n -> L]
  BY <1>10, <1>11
<1> QED BY <1>8, <1>9, <1>12 DEF n, L

\* In as many steps as there are blocks a loop visits every one of them.
LEMMA NthVisits ==
  ASSUME NEW h, ListOK(h), NEW c \in DOMAIN h.next
  PROVE  \E k \in 1 .. Cardinality(DOMAIN h.next) : Nth(h)[k] = c
<1> DEFINE n == Cardinality(DOMAIN h.next)
           L == DOMAIN h.next
           w == Nth(h)
<1>1. /\ n \in Nat /\ IsFiniteSet(L) /\ HeapEnd \in Nat /\ L \in SUBSET (0 .. HeapEnd)
      /\ \A a \in L : h.next[a] \in L
  BY ListFacts
<1>2. Circle(L, h.next)
  BY DEF ListOK
<1>3. /\ w \in [0 .. n -> L] /\ \A k \in 1 .. n : w[k] = h.next[w[k-1]]
  BY NthSteps
<1> HIDE DEF w
<1>4. \E x, y \in 0 .. n : x # y /\ w[x] = w[y]
  <2>1. IsFiniteSet(0 .. n) /\ Cardinality(0 .. n) = n + 1
    BY <1>1, FS_Interval
  <2>2. Cardinality(L) < Cardinality(0 .. n)
    BY <1>1, <2>1
  <2>3. w \in [0 .. n -> L] /\ IsFiniteSet(L)
    BY <1>1, <1>3
  <2> HIDE DEF L
  <2> QED BY ONLY <2>1, <2>2, <2>3, FS_PigeonHole
<1>5. PICK i \in 0 .. n, j \in 0 .. n : i < j /\ w[i] = w[j]
  <2>1. PICK x \in 0 .. n, y \in 0 .. n : x # y /\ w[x] = w[y]
    BY <1>4
  <2>2. x < y \/ y < x
    BY <2>1
  <2> QED BY <2>1, <2>2
<1> DEFINE S == {w[k] : k \in i + 1 .. j}
<1>6. \A k \in i + 1 .. j : k \in 1 .. n /\ k \in 0 .. n /\ w[k] \in L
  BY <1>1, <1>3
<1>7. S \in SUBSET L /\ S # {}
  <2>1. j \in i + 1 .. j
    BY <1>5
  <2> QED BY <1>6, <2>1
<1>8. ASSUME NEW a \in S PROVE h.next[a] \in S
  <2>1. PICK k \in i + 1 .. j : a = w[k]
    OBVIOUS
  <2>2. CASE k = j
    <3>1. i + 1 \in i + 1 .. j /\ i + 1 \in 1 .. n /\ (i + 1) - 1 = i
      BY <1>1, <1>5
    <3>2. w[i + 1] = h.next[w[i]]
      BY <1>3, <3>1
    <3>3. h.next[a] = w[i + 1]
      BY <1>5, <2>1, <2>2, <3>2
    <3> QED BY <3>1, <3>3
  <2>3. CASE k # j
    <3>1. k + 1 \in i + 1 .. j /\ k + 1 \in 1 .. n /\ (k + 1) - 1 = k
      BY <1>1, <1>5, <2>3
    <3>2. w[k + 1] = h.next[w[k]]
      BY <1>3, <3>1
    <3> QED BY <2>1, <3>1, <3>2
  <2> QED BY <2>2, <2>3
<1>9. S = L
  <2> HIDE DEF S, L
  <2> QED BY <1>1, <1>2, <1>7, <1>8, ClosedIsAll
<1>10. PICK k \in i + 1 .. j : w[k] = c
  BY <1>9
<1> QED BY <1>6, <1>10 DEF w

\* A circle is a matter of the pointers of its blocks.
LEMMA CircleSame ==
  ASSUME NEW L, NEW nx, NEW mx, Circle(L, nx), \A a \in L : mx[a] = nx[a]
  PROVE  Circle(L, mx)
BY DEF Circle

\* What IsNext says, with numbers.
LEMMA CircleIs ==
  ASSUME NEW L \in SUBSET Nat, NEW nx, Circle(L, nx)
  PROVE  /\ arena \in L
         /\ \A a \in L : /\ a \in Nat /\ nx[a] \in L /\ nx[a] \in Nat
                         /\ \/ a < nx[a] /\ \A c \in L : c <= a \/ nx[a] <= c
                            \/ nx[a] = arena /\ \A c \in L : c <= a
<1>1. arena = 0 /\ \A a \in L : a \in Nat
  BY DEF arena
<1> QED BY <1>1 DEF Circle, IsNext

\* A block other than the arena comes after one block only, and not after itself.
LEMMA OnePrevious ==
  ASSUME NEW L \in SUBSET Nat, NEW nx, Circle(L, nx), NEW p \in L, nx[p] # arena
  PROVE  /\ p < nx[p] /\ \A c \in L : c < nx[p] => c <= p
         /\ \A a \in L : nx[a] = nx[p] => a = p
<1>1. \A a \in L : a \in Nat /\ nx[a] \in L /\ nx[a] \in Nat
  BY CircleIs
<1>2. \A a \in L : nx[a] # arena => a < nx[a] /\ \A c \in L : c <= a \/ nx[a] <= c
  BY CircleIs
<1>3. p < nx[p] /\ \A c \in L : c <= p \/ nx[p] <= c
  BY <1>2
<1>4. ASSUME NEW c \in L, c < nx[p] PROVE c <= p
  <2>1. ~ (nx[p] <= c)
    BY <1>1, <1>4
  <2> QED BY <1>3, <2>1
<1>5. ASSUME NEW a \in L, nx[a] = nx[p] PROVE a = p
  <2>1. a < nx[a] /\ (p <= a \/ nx[a] <= p)
    BY <1>2, <1>5
  <2>2. a <= p /\ p <= a
    BY <1>1, <1>3, <1>4, <1>5, <2>1
  <2> QED BY <1>1, <2>2
<1> QED BY <1>3, <1>4, <1>5

\* The pointers without the block after p, and with block b after p.
Unlinked(L, nx, p, b) == [a \in L \ {b} |-> IF a = p THEN nx[b] ELSE nx[a]]
LinkedIn(L, nx, p, b) ==
  [a \in L \cup {b} |-> IF a = b THEN nx[p] ELSE IF a = p THEN b ELSE nx[a]]

\* Without a block, the circle goes on from the block before it to the one after it.
LEMMA CircleWithout ==
  ASSUME NEW L \in SUBSET Nat, NEW nx, Circle(L, nx), NEW p \in L, NEW b \in L,
         nx[p] = b, b # arena
  PROVE  Circle(L \ {b}, Unlinked(L, nx, p, b)) /\ p # b
<1> DEFINE M == L \ {b}
           mx == Unlinked(L, nx, p, b)
<1>1. arena \in L /\ \A a \in L : a \in Nat /\ nx[a] \in L /\ nx[a] \in Nat
  BY CircleIs
<1>2. p < b /\ (\A c \in L : c < b => c <= p) /\ \A a \in L : nx[a] = b => a = p
  BY OnePrevious
<1>3. p # b /\ p \in M /\ arena \in M
  BY <1>1, <1>2
<1>4. \A a \in M : mx[a] = IF a = p THEN nx[b] ELSE nx[a]
  BY DEF Unlinked
<1>5. IsNext(M, p, nx[b])
  <2>1. CASE b < nx[b] /\ \A c \in L : c <= b \/ nx[b] <= c
    <3>1. nx[b] \in M /\ p < nx[b]
      BY <1>1, <1>2, <2>1
    <3>2. ASSUME NEW c \in M PROVE c <= p \/ nx[b] <= c
      <4>1. c <= b => c < b
        BY <1>1
      <4> QED BY <1>2, <2>1, <4>1
    <3> QED BY <3>1, <3>2 DEF IsNext
  <2>2. CASE nx[b] = arena /\ \A c \in L : c <= b
    <3>1. ASSUME NEW c \in M PROVE c <= p
      <4>1. c < b
        BY <1>1, <2>2
      <4> QED BY <1>2, <4>1
    <3> QED BY <1>3, <2>2, <3>1 DEF IsNext
  <2> QED BY <2>1, <2>2, CircleIs
<1>6. ASSUME NEW a \in M, a # p PROVE IsNext(M, a, nx[a])
  <2>1. nx[a] # b /\ IsNext(L, a, nx[a])
    BY <1>2, <1>6 DEF Circle
  <2> QED BY <2>1 DEF IsNext
<1> HIDE DEF mx, M
<1>7. \A a \in M : IsNext(M, a, mx[a])
  BY <1>4, <1>5, <1>6
<1> QED BY <1>3, <1>7 DEF Circle, mx, M

\* With a new block behind the last one before it, the circle is a circle still.
LEMMA CircleWith ==
  ASSUME NEW L \in SUBSET Nat, NEW nx, Circle(L, nx), NEW p \in L, NEW b \in Nat,
         IsBefore(L, p, b), b \notin L
  PROVE  Circle(L \cup {b}, LinkedIn(L, nx, p, b))
<1> DEFINE M == L \cup {b}
           mx == LinkedIn(L, nx, p, b)
<1>1. arena \in L /\ \A a \in L : a \in Nat /\ nx[a] \in L /\ nx[a] \in Nat
  BY CircleIs
<1>2. \A a \in L : \/ a < nx[a] /\ \A c \in L : c <= a \/ nx[a] <= c
                   \/ nx[a] = arena /\ \A c \in L : c <= a
  BY CircleIs
<1>3. p < b /\ \A c \in L : c < b => c <= p
  BY DEF IsBefore
<1>4. \A a \in M : mx[a] = IF a = b THEN nx[p] ELSE IF a = p THEN b ELSE nx[a]
  BY DEF LinkedIn
<1>5. IsNext(M, b, nx[p])
  <2>1. CASE p < nx[p] /\ \A c \in L : c <= p \/ nx[p] <= c
    <3>1. b < nx[p]
      <4>1. ~ (nx[p] <= p)
        BY <1>1, <2>1
      <4>2. ~ (nx[p] < b) /\ nx[p] # b
        BY <1>1, <1>3, <4>1
      <4> QED BY <1>1, <4>2
    <3>2. ASSUME NEW c \in M PROVE c <= b \/ nx[p] <= c
      BY <1>1, <1>3, <2>1
    <3> QED BY <1>1, <3>1, <3>2 DEF IsNext
  <2>2. CASE nx[p] = arena /\ \A c \in L : c <= p
    <3>1. ASSUME NEW c \in M PROVE c <= b
      BY <1>1, <1>3, <2>2
    <3> QED BY <1>1, <2>2, <3>1 DEF IsNext
  <2> QED BY <1>2, <2>1, <2>2
<1>6. IsNext(M, p, b)
  <2>1. ASSUME NEW c \in M PROVE c <= p \/ b <= c
    <3>1. CASE c = b
      BY <3>1
    <3>2. CASE c \in L
      <4>1. c \in Nat /\ (c < b => c <= p)
        BY <1>1, <1>3, <3>2
      <4> QED BY <4>1
    <3> QED BY <3>1, <3>2
  <2> QED BY <1>3, <2>1 DEF IsNext
<1>7. ASSUME NEW a \in L, a # p PROVE IsNext(M, a, nx[a])
  <2>1. a \in Nat /\ p \in Nat /\ nx[a] \in L /\ nx[a] \in Nat /\ (a < b => a < p)
    BY <1>1, <1>3, <1>7
  <2>2. CASE a < nx[a] /\ \A c \in L : c <= a \/ nx[a] <= c
    <3>1. b <= a \/ nx[a] <= b
      <4>1. p <= a \/ nx[a] <= p
        BY <2>2
      <4> QED BY <1>3, <2>1, <4>1
    <3>2. \A c \in M : c <= a \/ nx[a] <= c
      BY <2>2, <3>1
    <3> QED BY <2>1, <2>2, <3>2 DEF IsNext
  <2>3. CASE nx[a] = arena /\ \A c \in L : c <= a
    <3>1. p <= a
      BY <2>3
    <3>2. b <= a
      BY <2>1, <3>1
    <3> QED BY <1>1, <2>3, <3>2 DEF IsNext
  <2> QED BY <1>2, <2>2, <2>3
<1> HIDE DEF mx
<1>8. \A a \in M : IsNext(M, a, mx[a])
  BY <1>4, <1>5, <1>6, <1>7
<1> QED BY <1>1, <1>8 DEF Circle, mx
-----------------------------------------------------------------------------
(* Blocks *)

\* The blocks of D, u[a] units from a, lie apart and are made of the units of U.
Divides(D, u, U) ==
  /\ D \in SUBSET Nat /\ \A a \in D : u[a] \in Nat \ {0}
  /\ \A a, b \in D : a < b => a + u[a] <= b
  /\ \A x \in Nat : x \in U <=> \E a \in D : a <= x /\ x < a + u[a]

\* That blocks divide U is a matter of their units.
LEMMA DividesSame ==
  ASSUME NEW D, NEW u, NEW U, Divides(D, u, U), NEW v, \A a \in D : v[a] = u[a]
  PROVE  Divides(D, v, U)
<1>1. \A x \in Nat : (\E a \in D : a <= x /\ x < a + u[a]) <=> (\E a \in D : a <= x /\ x < a + v[a])
  OBVIOUS
<1> QED BY <1>1 DEF Divides

\* The first n units of block c are cut off from the others.
CutAt(D, u, c, n) ==
  [a \in D \cup {c + n} |-> IF a = c + n THEN u[c] - n ELSE IF a = c THEN n ELSE u[a]]

\* A block that is cut in two covers what it covered.
LEMMA DividesCut ==
  ASSUME NEW D, NEW u, NEW U, Divides(D, u, U), NEW c \in D, NEW n \in Nat \ {0}, n < u[c]
  PROVE  /\ Divides(D \cup {c + n}, CutAt(D, u, c, n), U) /\ c + n \notin D
         /\ \A a \in D : c < a => c + n < a
<1> DEFINE r == c + n
           E == D \cup {r}
           v == CutAt(D, u, c, n)
<1>1. /\ \A a \in D : a \in Nat /\ u[a] \in Nat \ {0}
      /\ \A a, b \in D : a < b => a + u[a] <= b
      /\ \A x \in Nat : x \in U <=> \E a \in D : a <= x /\ x < a + u[a]
  BY DEF Divides
<1>2. r \in Nat /\ c < r /\ r < c + u[c] /\ c \in Nat
  BY <1>1
<1>3. \A a \in D : c < a => r < a
  BY <1>1, <1>2
<1>4. r \notin D
  BY <1>2, <1>3
<1>5. v[r] = u[c] - n /\ v[c] = n /\ \A a \in D \ {c} : v[a] = u[a]
  BY <1>2, <1>4 DEF CutAt
<1> HIDE DEF v
<1>6. \A a \in E : a \in Nat /\ v[a] \in Nat \ {0}
  <2>1. v[r] \in Nat \ {0}
    BY <1>1, <1>5
  <2> QED BY <1>1, <1>2, <1>5, <2>1
<1>7. ASSUME NEW a \in E, NEW b \in E, a < b PROVE a + v[a] <= b
  <2>1. CASE a = r
    <3>1. b \in D /\ c < b
      BY <1>2, <1>7, <2>1
    <3>2. c + u[c] <= b
      BY <1>1, <3>1
    <3> QED BY <1>1, <1>2, <1>5, <2>1, <3>2
  <2>2. CASE a = c
    <3>1. b = r \/ r < b
      BY <1>3, <1>7, <2>2
    <3> QED BY <1>2, <1>5, <2>2, <3>1, <1>6
  <2>3. CASE a # r /\ a # c /\ b = r
    <3>1. a \in D /\ v[a] = u[a] /\ a \in Nat
      BY <1>5, <1>6, <2>3
    <3>2. a < c
      BY <1>2, <1>3, <1>7, <2>3, <3>1
    <3>3. a + u[a] <= c
      BY <1>1, <3>1, <3>2
    <3> QED BY <1>1, <1>2, <2>3, <3>1, <3>3
  <2>4. CASE a # r /\ a # c /\ b # r
    BY <1>1, <1>5, <1>7, <2>4
  <2> QED BY <2>1, <2>2, <2>3, <2>4
<1>8. ASSUME NEW x \in Nat PROVE x \in U <=> \E a \in E : a <= x /\ x < a + v[a]
  <2>1. c <= x /\ x < c + u[c] <=> (c <= x /\ x < c + v[c]) \/ (r <= x /\ x < r + v[r])
    BY <1>1, <1>2, <1>5
  <2>2. \A a \in D \ {c} : a <= x /\ x < a + u[a] <=> a <= x /\ x < a + v[a]
    BY <1>5
  <2>3. (\E a \in D : a <= x /\ x < a + u[a])
          <=> (c <= x /\ x < c + u[c]) \/ \E a \in D \ {c} : a <= x /\ x < a + u[a]
    OBVIOUS
  <2>4. (\E a \in E : a <= x /\ x < a + v[a])
          <=> \/ (c <= x /\ x < c + v[c]) \/ (r <= x /\ x < r + v[r])
              \/ \E a \in D \ {c} : a <= x /\ x < a + v[a]
    OBVIOUS
  <2> HIDE DEF r, E
  <2> QED BY <1>1, <2>1, <2>2, <2>3, <2>4
<1>9. Divides(E, v, U)
  <2> HIDE DEF E
  <2> QED BY <1>6, <1>7, <1>8 DEF Divides
<1> QED BY <1>3, <1>4, <1>9 DEF v

\* Block d, which begins where block c ends, becomes part of it.
JoinedTo(D, u, c, d) == [a \in D \ {d} |-> IF a = c THEN u[c] + u[d] ELSE u[a]]

\* So do two blocks that touch and become one.
LEMMA DividesJoined ==
  ASSUME NEW D, NEW u, NEW U, Divides(D, u, U), NEW c \in D, NEW d \in D, c + u[c] = d
  PROVE  Divides(D \ {d}, JoinedTo(D, u, c, d), U) /\ c < d
<1> DEFINE E == D \ {d}
           v == JoinedTo(D, u, c, d)
<1>1. /\ \A a \in D : a \in Nat /\ u[a] \in Nat \ {0}
      /\ \A a, b \in D : a < b => a + u[a] <= b
      /\ \A x \in Nat : x \in U <=> \E a \in D : a <= x /\ x < a + u[a]
  BY DEF Divides
<1>2. c < d /\ c \in E
  BY <1>1
<1>3. v[c] = u[c] + u[d] /\ \A a \in E \ {c} : v[a] = u[a]
  BY <1>2 DEF JoinedTo
<1> HIDE DEF v
<1>4. \A a \in E : a \in Nat /\ v[a] \in Nat \ {0}
  <2>1. v[c] \in Nat \ {0}
    BY <1>1, <1>3
  <2> QED BY <1>1, <1>3, <2>1
<1>5. ASSUME NEW a \in E, NEW b \in E, a < b PROVE a + v[a] <= b
  <2>1. CASE a = c
    <3>1. d <= b /\ d # b /\ b \in Nat /\ d \in Nat
      BY <1>1, <1>5, <2>1
    <3>2. d + u[d] <= b
      BY <1>1, <3>1
    <3> QED BY <1>1, <1>3, <2>1, <3>2
  <2>2. CASE a # c
    BY <1>1, <1>3, <1>5, <2>2
  <2> QED BY <2>1, <2>2
<1>6. ASSUME NEW x \in Nat PROVE x \in U <=> \E a \in E : a <= x /\ x < a + v[a]
  <2>1. c <= x /\ x < c + v[c] <=> (c <= x /\ x < c + u[c]) \/ (d <= x /\ x < d + u[d])
    BY <1>1, <1>2, <1>3
  <2>2. \A a \in E \ {c} : a <= x /\ x < a + u[a] <=> a <= x /\ x < a + v[a]
    BY <1>3
  <2>3. (\E a \in D : a <= x /\ x < a + u[a])
          <=> \/ (c <= x /\ x < c + u[c]) \/ (d <= x /\ x < d + u[d])
              \/ \E a \in E \ {c} : a <= x /\ x < a + u[a]
    OBVIOUS
  <2>4. (\E a \in E : a <= x /\ x < a + v[a])
          <=> (c <= x /\ x < c + v[c]) \/ \E a \in E \ {c} : a <= x /\ x < a + v[a]
    BY <1>2
  <2> HIDE DEF E
  <2> QED BY <1>1, <2>1, <2>2, <2>3, <2>4
<1>7. Divides(E, v, U)
  <2>1. E \in SUBSET Nat
    BY <1>4
  <2> HIDE DEF E
  <2> QED BY <1>4, <1>5, <1>6, <2>1 DEF Divides
<1> QED BY <1>2, <1>7 DEF v

\* A block of units that none of the others has.
AddedTo(D, u, b, n) == [a \in D \cup {b} |-> IF a = b THEN n ELSE u[a]]

\* A new block adds its units.
LEMMA DividesAdded ==
  ASSUME NEW D, NEW u, NEW U, Divides(D, u, U), NEW b \in Nat, NEW n \in Nat \ {0},
         \A x \in U : ~ (b <= x /\ x < b + n)
  PROVE  Divides(D \cup {b}, AddedTo(D, u, b, n), U \cup {x \in Nat : b <= x /\ x < b + n}) /\ b \notin D
<1> DEFINE E == D \cup {b}
           v == AddedTo(D, u, b, n)
           V == U \cup {x \in Nat : b <= x /\ x < b + n}
<1>1. /\ \A a \in D : a \in Nat /\ u[a] \in Nat \ {0}
      /\ \A a, c \in D : a < c => a + u[a] <= c
      /\ \A x \in Nat : x \in U <=> \E a \in D : a <= x /\ x < a + u[a]
  BY DEF Divides
<1>2. \A a \in D : a \in U
  BY <1>1
<1>3. b \notin D /\ b \notin U
  BY <1>2
<1>4. v[b] = n /\ \A a \in D : v[a] = u[a]
  BY <1>3 DEF AddedTo
<1> HIDE DEF v
<1>5. \A a \in E : a \in Nat /\ v[a] \in Nat \ {0}
  BY <1>1, <1>4
<1>6. ASSUME NEW a \in E, NEW c \in E, a < c PROVE a + v[a] <= c
  <2>1. CASE a = b
    <3>1. c \in D /\ c \in U /\ c \in Nat
      BY <1>1, <1>2, <1>6, <2>1
    <3> QED BY <1>4, <1>6, <2>1, <3>1
  <2>2. CASE a # b /\ c = b
    <3>1. a \in D /\ v[a] = u[a] /\ a \in Nat /\ u[a] \in Nat
      BY <1>1, <1>4, <2>2
    <3>2. ~ (a <= b /\ b < a + u[a])
      BY <1>1, <1>3, <3>1
    <3> QED BY <1>6, <2>2, <3>1, <3>2
  <2>3. CASE a # b /\ c # b
    BY <1>1, <1>4, <1>6, <2>3
  <2> QED BY <2>1, <2>2, <2>3
<1>7. ASSUME NEW x \in Nat PROVE x \in V <=> \E a \in E : a <= x /\ x < a + v[a]
  <2>1. x \in V <=> x \in U \/ (b <= x /\ x < b + n)
    OBVIOUS
  <2>2. (\E a \in E : a <= x /\ x < a + v[a])
          <=> (b <= x /\ x < b + n) \/ \E a \in D : a <= x /\ x < a + u[a]
    BY <1>4
  <2> HIDE DEF E, V
  <2> QED BY <1>1, <2>1, <2>2
<1>8. Divides(E, v, V)
  <2>1. E \in SUBSET Nat
    BY <1>5
  <2> HIDE DEF E, V
  <2> QED BY <1>5, <1>6, <1>7, <2>1 DEF Divides
<1> QED BY <1>3, <1>8 DEF v
-----------------------------------------------------------------------------
(* slob_alloc and slob_free on the list *)

\* The blocks L make a circle by nx; they are some of the blocks of D, which divide U.
Ring(L, nx, D, u, U) ==
  /\ L \in SUBSET (0 .. HeapEnd) /\ Circle(L, nx)
  /\ L \in SUBSET D /\ Divides(D, u, U) /\ U \in SUBSET (0 .. HeapEnd)
  /\ u[arena] = 1

\* No block of L begins where another ends.
NoneTouch(L, u) == \A a, b \in L : a + u[a] # b

\* The heap, when its blocks divide U.
HeapOK(h, U) ==
  /\ Ring(DOMAIN h.next, h.next, DOMAIN h.units, h.units, U)
  /\ h.free \in DOMAIN h.next
  /\ NoneTouch(DOMAIN h.next, h.units)

\* The blocks that are not on the list.
InUse(h) == DOMAIN h.units \ DOMAIN h.next

\* What Ring says, with numbers.
LEMMA RingFacts ==
  ASSUME NEW L, NEW nx, NEW D, NEW u, NEW U, Ring(L, nx, D, u, U)
  PROVE  /\ HeapEnd \in Nat /\ L \in SUBSET Nat /\ L \in SUBSET D /\ arena \in L /\ arena = 0
         /\ \A a \in D : a \in Nat /\ u[a] \in Nat \ {0}
         /\ \A a, b \in D : a < b => a + u[a] <= b
         /\ \A a \in L : nx[a] \in L
<1>1. HeapEnd \in Nat
  BY SlobAssumption, PageAtIs DEF HeapEnd
<1>2. L \in SUBSET Nat /\ L \in SUBSET D
  BY <1>1 DEF Ring
<1>3. arena \in L /\ arena = 0 /\ \A a \in L : nx[a] \in L
  BY DEF Ring, Circle, IsNext, arena
<1>4. /\ \A a \in D : a \in Nat /\ u[a] \in Nat \ {0}
      /\ \A a, b \in D : a < b => a + u[a] <= b
  BY DEF Ring, Divides
<1> QED BY <1>1, <1>2, <1>3, <1>4

\* The list of a heap can be walked.
LEMMA HeapListOK ==
  ASSUME NEW h, NEW U, HeapOK(h, U)
  PROVE  ListOK(h)
BY DEF HeapOK, Ring, ListOK

\* What HeapOK says, with numbers.
LEMMA HeapFacts ==
  ASSUME NEW h, NEW U, HeapOK(h, U)
  PROVE  /\ HeapEnd \in Nat /\ DOMAIN h.next \in SUBSET (0 .. HeapEnd)
         /\ DOMAIN h.next \in SUBSET Nat /\ DOMAIN h.next \in SUBSET DOMAIN h.units
         /\ arena \in DOMAIN h.next /\ arena = 0 /\ h.free \in DOMAIN h.next
         /\ \A a \in DOMAIN h.next : h.next[a] \in DOMAIN h.next
         /\ Circle(DOMAIN h.next, h.next) /\ Divides(DOMAIN h.units, h.units, U)
         /\ h.units[arena] = 1
         /\ U \in SUBSET (0 .. HeapEnd) /\ NoneTouch(DOMAIN h.next, h.units)
         /\ \A a \in DOMAIN h.units : a \in Nat /\ h.units[a] \in Nat \ {0}
         /\ \A a, b \in DOMAIN h.units : a < b => a + h.units[a] <= b
<1> DEFINE L == DOMAIN h.next
           D == DOMAIN h.units
<1>1. Ring(L, h.next, D, h.units, U) /\ h.free \in L /\ NoneTouch(L, h.units)
  BY DEF HeapOK
<1> HIDE DEF L, D
<1>2. /\ L \in SUBSET (0 .. HeapEnd) /\ Circle(L, h.next) /\ Divides(D, h.units, U)
      /\ h.units[arena] = 1 /\ U \in SUBSET (0 .. HeapEnd)
  BY <1>1 DEF Ring
<1>3. /\ HeapEnd \in Nat /\ L \in SUBSET Nat /\ L \in SUBSET D /\ arena \in L /\ arena = 0
      /\ \A a \in D : a \in Nat /\ h.units[a] \in Nat \ {0}
      /\ \A a, b \in D : a < b => a + h.units[a] <= b
      /\ \A a \in L : h.next[a] \in L
  BY ONLY <1>1, RingFacts
<1> QED BY <1>1, <1>2, <1>3 DEF L, D

\* slob_alloc cuts its units from the front of a block, or takes all of it.
LEMMA CarvedOK ==
  ASSUME NEW h, NEW U, HeapOK(h, U), NEW prev \in DOMAIN h.next, NEW n \in Nat, n >= 2,
         NEW cur, cur = h.next[prev], h.units[cur] >= n
  PROVE  /\ HeapOK(Carved(h, prev, cur, n), U)
         /\ cur \notin InUse(h) /\ InUse(Carved(h, prev, cur, n)) = InUse(h) \cup {cur}
         /\ Carved(h, prev, cur, n).units[cur] = n
         /\ \A a \in InUse(h) : Carved(h, prev, cur, n).units[a] = h.units[a]
<1> DEFINE L == DOMAIN h.next
           D == DOMAIN h.units
           g == Carved(h, prev, cur, n)
<1>1. /\ HeapEnd \in Nat /\ L \in SUBSET (0 .. HeapEnd) /\ L \in SUBSET Nat /\ L \in SUBSET D
      /\ arena \in L /\ arena = 0 /\ prev \in L /\ cur \in L
      /\ Circle(L, h.next) /\ Divides(D, h.units, U) /\ h.units[arena] = 1
      /\ U \in SUBSET (0 .. HeapEnd)
  BY HeapFacts
<1>2. /\ \A a \in D : a \in Nat /\ h.units[a] \in Nat \ {0}
      /\ \A a, b \in D : a < b => a + h.units[a] <= b
      /\ NoneTouch(L, h.units)
  BY HeapFacts
<1>3. cur # arena
  BY <1>1
<1>4. /\ Circle(L \ {cur}, Unlinked(L, h.next, prev, cur)) /\ prev # cur
      /\ prev < cur /\ \A c \in L : c < cur => c <= prev
  <2>1. Circle(L \ {cur}, Unlinked(L, h.next, prev, cur)) /\ prev # cur
    <3>1. /\ L \in SUBSET Nat /\ Circle(L, h.next) /\ prev \in L /\ cur \in L
          /\ h.next[prev] = cur /\ cur # arena
      BY <1>1, <1>3
    <3> HIDE DEF L
    <3> QED BY ONLY <3>1, CircleWithout
  <2>2. prev < h.next[prev] /\ \A c \in L : c < h.next[prev] => c <= prev
    BY <1>1, <1>3, OnePrevious
  <2> QED BY <2>1, <2>2
<1>5. CASE h.units[cur] = n
  <2>1. g = [free |-> prev,
             next |-> [a \in L \ {cur} |-> IF a = prev THEN h.next[cur] ELSE h.next[a]],
             units |-> h.units]
    BY <1>5 DEF Carved
  <2>2. g.free = prev /\ g.units = h.units /\ g.next = Unlinked(L, h.next, prev, cur)
    BY <2>1 DEF Unlinked
  <2>3. DOMAIN g.next = L \ {cur}
    BY <2>2 DEF Unlinked
  <2> HIDE DEF g
  <2>4. Ring(DOMAIN g.next, g.next, DOMAIN g.units, g.units, U)
    BY <1>1, <1>4, <2>2, <2>3 DEF Ring
  <2>5. NoneTouch(DOMAIN g.next, g.units)
    BY <1>2, <2>2, <2>3 DEF NoneTouch
  <2>6. HeapOK(g, U)
    BY <1>4, <2>2, <2>3, <2>4, <2>5, <1>1 DEF HeapOK
  <2>7. InUse(g) = InUse(h) \cup {cur} /\ cur \notin InUse(h)
    BY <1>1, <2>2, <2>3 DEF InUse
  <2> QED BY <1>5, <2>2, <2>6, <2>7 DEF g
<1>6. CASE h.units[cur] # n
  <2> DEFINE rest == cur + n
             M == L \ {cur}
             mx == Unlinked(L, h.next, prev, cur)
             v == CutAt(D, h.units, cur, n)
  <2>1. n \in Nat \ {0} /\ n < h.units[cur] /\ cur \in D /\ cur \in Nat
    BY <1>1, <1>2, <1>6
  <2>2. /\ Divides(D \cup {rest}, v, U) /\ rest \notin D
        /\ \A a \in D : cur < a => rest < a
    BY <1>1, <2>1, DividesCut
  <2>3. rest \in Nat /\ cur < rest /\ rest \notin L
    BY <1>1, <2>1, <2>2
  <2>4. IsBefore(M, prev, rest)
    <3>1. prev \in M /\ prev < rest
      BY <1>1, <1>4, <2>1, <2>3
    <3>2. ASSUME NEW c \in M, c < rest PROVE c <= prev
      <4>1. ~ (cur < c) /\ c \in Nat
        BY <1>1, <2>1, <2>2, <3>2, <2>3
      <4> QED BY <1>4, <2>1, <4>1
    <3> QED BY <3>1, <3>2 DEF IsBefore
  <2>5. Circle(M \cup {rest}, LinkedIn(M, mx, prev, rest))
    <3>1. M \in SUBSET Nat /\ prev \in M /\ rest \notin M
      BY <1>1, <1>4, <2>3
    <3> HIDE DEF M, mx, rest
    <3> QED BY <1>4, <2>3, <2>4, <3>1, CircleWith DEF mx, M
  <2> DEFINE linked == [h.next EXCEPT ![prev] = rest]
  <2>6. g = [free |-> prev,
             next |-> [a \in M \cup {rest} |-> IF a = rest THEN linked[cur] ELSE linked[a]],
             units |-> [a \in D \cup {rest} |->
                          IF a = rest THEN Remainder(h.units[cur], n)
                          ELSE IF a = cur THEN n ELSE h.units[a]]]
    BY <1>6 DEF Carved
  <2>7. /\ g.free = prev /\ DOMAIN g.next = M \cup {rest} /\ g.units = v
        /\ \A a \in M \cup {rest} : g.next[a] = IF a = rest THEN linked[cur] ELSE linked[a]
    BY <2>6 DEF CutAt, Remainder
  <2>8. ASSUME NEW a \in M \cup {rest} PROVE g.next[a] = LinkedIn(M, mx, prev, rest)[a]
    <3>1. linked[cur] = h.next[cur] /\ linked[prev] = rest
          /\ \A x \in L : x # prev => linked[x] = h.next[x]
      BY <1>1, <1>4
    <3>2. mx[prev] = h.next[cur] /\ \A x \in M : x # prev => mx[x] = h.next[x]
      BY <1>1, <1>4 DEF Unlinked
    <3>3. LinkedIn(M, mx, prev, rest)[a] =
            IF a = rest THEN mx[prev] ELSE IF a = prev THEN rest ELSE mx[a]
      BY DEF LinkedIn
    <3> HIDE DEF linked, mx, g, rest
    <3> QED BY <2>7, <3>1, <3>2, <3>3
  <2>9. DOMAIN v = D \cup {rest} /\ v[rest] = h.units[cur] - n /\ v[cur] = n
        /\ \A a \in D : a # cur => v[a] = h.units[a]
    BY <2>1, <2>2, <2>3 DEF CutAt
  <2> HIDE DEF g, v, mx, linked
  <2>10. Ring(DOMAIN g.next, g.next, DOMAIN g.units, g.units, U)
    <3>1. Circle(M \cup {rest}, g.next)
      <4> HIDE DEF M, rest
      <4> QED BY <2>5, <2>8, CircleSame
    <3>2. M \cup {rest} \in SUBSET (D \cup {rest})
      BY <1>1
    <3>3. rest \in 0 .. HeapEnd
      <4>1. rest \in U
        <5>1. v[rest] \in Nat \ {0} /\ \A x \in Nat : x \in U <=> \E a \in D \cup {rest} : a <= x /\ x < a + v[a]
          BY <2>2 DEF Divides
        <5>2. rest <= rest /\ rest < rest + v[rest]
          BY <2>3, <5>1
        <5> QED BY <2>3, <5>1, <5>2
      <4> QED BY <4>1 DEF HeapOK, Ring
    <3>4. g.units[arena] = 1
      BY <1>1, <1>3, <2>7, <2>9
    <3> QED BY <1>1, <2>2, <2>7, <2>9, <3>1, <3>2, <3>3, <3>4 DEF Ring
  <2>11. NoneTouch(DOMAIN g.next, g.units)
    <3>1. ASSUME NEW a \in M \cup {rest}, NEW b \in M \cup {rest}, a + v[a] = b PROVE FALSE
      <4>1. v[rest] \in Nat \ {0} /\ v[rest] = h.units[cur] - n /\ h.units[cur] \in Nat
        BY <1>2, <2>1, <2>9
      <4>2. CASE a = rest
        <5>1. cur + h.units[cur] = b
          BY <2>1, <3>1, <4>1, <4>2
        <5>2. b # rest
          BY <2>3, <3>1, <4>1, <4>2
        <5> QED BY <1>1, <1>2, <5>1, <5>2 DEF NoneTouch
      <4>3. CASE a # rest
        <5>1. a \in L /\ a \in D /\ a # cur /\ v[a] = h.units[a] /\ a \in Nat /\ h.units[a] \in Nat \ {0}
          BY <1>1, <1>2, <2>9, <4>3
        <5>2. CASE b = rest
          <6>1. ~ (cur < a)
            <7>1. a < rest
              BY <2>3, <3>1, <5>1, <5>2
            <7> QED BY <2>1, <2>2, <2>3, <5>1, <7>1
          <6>2. a + h.units[a] <= cur
            BY <1>2, <2>1, <5>1, <6>1
          <6> QED BY <2>1, <2>3, <3>1, <5>1, <5>2, <6>2
        <5>3. CASE b # rest
          BY <1>2, <3>1, <5>1, <5>3 DEF NoneTouch
        <5> QED BY <5>2, <5>3
      <4> QED BY <4>2, <4>3
    <3> QED BY <2>7, <3>1 DEF NoneTouch
  <2>12. HeapOK(g, U)
    <3>1. g.free \in DOMAIN g.next
      BY <1>1, <1>4, <2>7
    <3> QED BY <2>10, <2>11, <3>1 DEF HeapOK
  <2>13. InUse(g) = InUse(h) \cup {cur} /\ cur \notin InUse(h)
    BY <1>1, <2>1, <2>2, <2>7, <2>9 DEF InUse
  <2>14. g.units[cur] = n /\ \A a \in InUse(h) : g.units[a] = h.units[a]
    BY <1>1, <2>7, <2>9 DEF InUse
  <2> QED BY <2>12, <2>13, <2>14 DEF g
<1> QED BY <1>5, <1>6

\* A set of places has a least one.
LEMMA MinIs ==
  ASSUME NEW K, K \subseteq Nat, K # {}
  PROVE  Min(K) \in K /\ \A k \in K : Min(K) <= k
<1>1. \E x \in K : \A y \in K : x <= y
  BY FirstPlace
<1> QED BY <1>1 DEF Min

\* The loop of slob_free stops at the last block before b and at no other,
LEMMA PlaceIsBefore ==
  ASSUME NEW h, ListOK(h), NEW b \in Nat \ {0}, b \notin DOMAIN h.next, NEW cur \in DOMAIN h.next
  PROVE  IsPlace(h, b, cur) <=> IsBefore(DOMAIN h.next, cur, b)
<1> DEFINE L == DOMAIN h.next
           m == h.next[cur]
<1>1. L \in SUBSET Nat /\ Circle(L, h.next)
  BY ListFacts DEF ListOK
<1>2. /\ \A a \in L : a \in Nat
      /\ m \in L /\ m \in Nat /\ cur \in Nat
      /\ \/ cur < m /\ \A c \in L : c <= cur \/ m <= c
         \/ m = arena /\ \A c \in L : c <= cur
  <2> HIDE DEF L
  <2> QED BY <1>1, CircleIs DEF L
<1>3. arena = 0 /\ m # b /\ cur # b
  BY <1>2 DEF arena
<1>4. IsPlace(h, b, cur) <=> (cur < b /\ b < m) \/ (cur >= m /\ (cur < b \/ b < m))
  BY DEF IsPlace
<1>5. IsBefore(L, cur, b) <=> cur < b /\ \A c \in L : c < b => c <= cur
  BY DEF IsBefore
<1> HIDE DEF m, L
<1>6. CASE cur < m /\ \A c \in L : c <= cur \/ m <= c
  <2>1. cur < b /\ b < m => \A c \in L : c < b => c <= cur
    BY <1>2, <1>6
  <2>2. (cur < b /\ \A c \in L : c < b => c <= cur) => b < m
    BY <1>2, <1>3, <1>6
  <2> QED BY <1>2, <1>4, <1>5, <1>6, <2>1, <2>2 DEF L
<1>7. CASE m = arena /\ \A c \in L : c <= cur
  BY <1>2, <1>3, <1>4, <1>5, <1>7 DEF L
<1> QED BY <1>2, <1>6, <1>7

\* and it does stop.
LEMMA PlaceFound ==
  ASSUME NEW h, ListOK(h), NEW b \in Nat \ {0}, b \notin DOMAIN h.next
  PROVE  /\ FindsPlace(h, b)
         /\ LET cur == Nth(h)[Min({k \in 0 .. Cardinality(DOMAIN h.next) : IsPlace(h, b, Nth(h)[k])})]
            IN  cur \in DOMAIN h.next /\ IsBefore(DOMAIN h.next, cur, b)
<1> DEFINE L == DOMAIN h.next
           n == Cardinality(L)
           K == {k \in 0 .. n : IsPlace(h, b, Nth(h)[k])}
<1>1. n \in Nat /\ HeapEnd \in Nat /\ L \in SUBSET (0 .. HeapEnd) /\ arena \in L
  BY ListFacts
<1>2. PICK a \in L : IsBefore(L, a, b)
  BY <1>1, BeforeExists
<1>3. PICK k \in 1 .. n : Nth(h)[k] = a
  BY <1>2, NthVisits
<1>4. k \in K
  BY <1>1, <1>2, <1>3, PlaceIsBefore
<1>5. K \subseteq Nat /\ K # {}
  BY <1>4
<1>6. Min(K) \in K
  <2> HIDE DEF K
  <2> QED BY <1>5, MinIs
<1>7. Nth(h)[Min(K)] \in L
  BY <1>6, NthSteps
<1>8. IsBefore(L, Nth(h)[Min(K)], b)
  <2>1. IsPlace(h, b, Nth(h)[Min(K)])
    BY <1>6
  <2> HIDE DEF K
  <2> QED BY <1>7, <2>1, PlaceIsBefore
<1>9. FindsPlace(h, b)
  BY <1>4 DEF FindsPlace
<1> QED BY <1>7, <1>8, <1>9

\* Two blocks of a ring that touch become one.
LEMMA RingJoined ==
  ASSUME NEW L, NEW nx, NEW D, NEW u, NEW U, Ring(L, nx, D, u, U),
         NEW p \in L, NEW d \in L, nx[p] = d, p + u[p] = d, p # arena
  PROVE  /\ Ring(L \ {d}, Unlinked(L, nx, p, d), D \ {d}, JoinedTo(D, u, p, d), U)
         /\ p < d
<1>1. /\ HeapEnd \in Nat /\ L \in SUBSET Nat /\ L \in SUBSET D /\ arena \in L /\ arena = 0
      /\ \A a \in D : a \in Nat /\ u[a] \in Nat \ {0}
  BY RingFacts
<1>2. /\ L \in SUBSET (0 .. HeapEnd) /\ Circle(L, nx) /\ Divides(D, u, U)
      /\ U \in SUBSET (0 .. HeapEnd) /\ u[arena] = 1
  BY DEF Ring
<1>3. Divides(D \ {d}, JoinedTo(D, u, p, d), U) /\ p < d
  BY <1>1, <1>2, DividesJoined
<1>4. d # arena
  BY <1>1, <1>3
<1>5. Circle(L \ {d}, Unlinked(L, nx, p, d))
  BY ONLY <1>1, <1>2, <1>4, CircleWithout, p \in L, d \in L, nx[p] = d
<1>6. JoinedTo(D, u, p, d)[arena] = 1
  BY <1>1, <1>2, <1>4 DEF JoinedTo
<1> QED BY <1>1, <1>2, <1>3, <1>5, <1>6 DEF Ring

\* Freed, with the place the loop stops at.
FreedAt(h, b, units, cur) ==
  LET next == h.next[cur]
      joined == JoinsNext(h, b, units, cur)
      after == IF joined THEN h.next[next] ELSE next
      all == IF joined THEN units + h.units[next] ELSE units
      gone == (IF joined THEN {next} ELSE {}) \cup (IF JoinsPrev(h, b, cur) THEN {b} ELSE {})
      into == IF JoinsPrev(h, b, cur) THEN cur ELSE b
      blocks == (DOMAIN h.next \cup {b}) \ gone
  IN [free |-> cur,
      next |-> [a \in blocks |->
                  IF a = into THEN after
                  ELSE IF a = cur THEN b ELSE h.next[a]],
      units |-> [a \in (DOMAIN h.units \cup {b}) \ gone |->
                   IF a # into THEN h.units[a]
                   ELSE IF a = cur THEN h.units[cur] + all ELSE all]]

\* slob_free links the block in where its loop stops.
LEMMA FreedIs ==
  ASSUME NEW h, NEW b, NEW units
  PROVE  Freed(h, b, units) =
           FreedAt(h, b, units, Nth(h)[Min({k \in 0 .. Cardinality(DOMAIN h.next) : IsPlace(h, b, Nth(h)[k])})])
BY DEF Freed, FreedAt

\* The n units from b can be given back: no free block has them, and with them the blocks
\* divide U.
CanFree(h, b, n, U) ==
  /\ ListOK(h) /\ NoneTouch(DOMAIN h.next, h.units)
  /\ DOMAIN h.next \in SUBSET DOMAIN h.units /\ h.units[arena] = 1
  /\ b \in Nat /\ b >= 2 /\ b \notin DOMAIN h.next /\ n \in Nat
  /\ Divides(DOMAIN h.units \cup {b}, AddedTo(DOMAIN h.units, h.units, b, n), U)
  /\ U \in SUBSET (0 .. HeapEnd)

\* The list with the new block, joined with nothing yet.
LEMMA FreedLinked ==
  ASSUME NEW h, NEW b, NEW n, NEW U, CanFree(h, b, n, U),
         NEW cur, IsBefore(DOMAIN h.next, cur, b)
  PROVE  /\ Ring(DOMAIN h.next \cup {b}, LinkedIn(DOMAIN h.next, h.next, cur, b),
                 DOMAIN h.units \cup {b}, AddedTo(DOMAIN h.units, h.units, b, n), U)
         /\ \A x, y \in DOMAIN h.next \cup {b} :
              x + AddedTo(DOMAIN h.units, h.units, b, n)[x] = y =>
                (x = b /\ y = h.next[cur]) \/ (x = cur /\ y = b)
         /\ b < h.next[cur] \/ h.next[cur] = arena
<1> DEFINE L == DOMAIN h.next
           D == DOMAIN h.units
           E == D \cup {b}
           v == AddedTo(D, h.units, b, n)
           M == L \cup {b}
           nx == LinkedIn(L, h.next, cur, b)
<1>0. /\ ListOK(h) /\ L \subseteq D /\ NoneTouch(L, h.units) /\ h.units[arena] = 1
      /\ U \in SUBSET (0 .. HeapEnd) /\ b \in Nat /\ b # arena /\ b \notin L /\ n \in Nat
      /\ Divides(E, v, U) /\ cur \in L
  BY DEF CanFree, IsBefore, arena
<1>1. /\ HeapEnd \in Nat /\ L \in SUBSET (0 .. HeapEnd) /\ L \in SUBSET Nat
      /\ arena \in L /\ arena = 0 /\ Circle(L, h.next)
  BY <1>0, ListFacts DEF ListOK, arena
<1>2. /\ \A a \in E : a \in Nat /\ v[a] \in Nat \ {0}
      /\ \A a, c \in E : a < c => a + v[a] <= c
      /\ \A x \in Nat : x \in U <=> \E a \in E : a <= x /\ x < a + v[a]
  BY <1>0 DEF Divides
<1>3. v[b] = n /\ \A a \in D : a # b => v[a] = h.units[a]
  BY DEF AddedTo
<1>4. cur < b /\ cur \in Nat /\ \A c \in L : c < b => c <= cur
  BY <1>0, <1>1 DEF IsBefore
<1> HIDE DEF v, E
<1>5. Circle(M, nx)
  BY ONLY <1>0, <1>1, CircleWith, IsBefore(L, cur, b)
<1>6. b \in 0 .. HeapEnd
  <2>1. b \in E /\ v[b] \in Nat \ {0}
    BY <1>2 DEF E
  <2>2. b \in U
    BY <1>2, <2>1
  <2> QED BY <1>0, <2>2
<1>7. Ring(M, nx, E, v, U)
  <2>1. v[arena] = 1 /\ M \in SUBSET (0 .. HeapEnd) /\ M \in SUBSET E
    BY <1>0, <1>1, <1>3, <1>6 DEF E
  <2> QED BY <1>0, <1>5, <2>1 DEF Ring
<1>8. /\ h.next[cur] \in L /\ h.next[cur] \in Nat
      /\ \/ cur < h.next[cur] /\ \A c \in L : c <= cur \/ h.next[cur] <= c
         \/ h.next[cur] = arena /\ \A c \in L : c <= cur
  BY ONLY <1>0, <1>1, CircleIs
<1>9. ASSUME NEW x \in M, NEW y \in M, x + v[x] = y
      PROVE  (x = b /\ y = h.next[cur]) \/ (x = cur /\ y = b)
  <2>1. x \in E /\ y \in E /\ x \in Nat /\ y \in Nat /\ v[x] \in Nat \ {0} /\ x < y
    <3>1. x \in E /\ y \in E
      BY <1>0 DEF E
    <3> QED BY <1>2, <1>9, <3>1
  <2>2. CASE x # b /\ y # b
    <3>1. x \in L /\ y \in L /\ x + h.units[x] = y
      BY <1>0, <1>3, <1>9, <2>2
    <3> QED BY <1>0, <3>1 DEF NoneTouch
  <2>3. CASE y = b
    <3>1. x \in L /\ x <= cur /\ cur \in E
      BY <1>0, <1>4, <2>1, <2>3 DEF E
    <3>2. ~ (x < cur)
      <4> SUFFICES ASSUME x < cur PROVE FALSE
        OBVIOUS
      <4>1. x + v[x] <= cur
        BY <1>2, <2>1, <3>1
      <4> QED BY <1>0, <2>1, <1>4, <1>9, <2>3, <4>1
    <3> QED BY <1>4, <2>1, <2>3, <3>1, <3>2
  <2>4. CASE x = b /\ y # b
    <3>1. y \in L /\ b < y /\ ~ (y <= cur)
      BY <1>4, <2>1, <2>4
    <3>2. cur < h.next[cur] /\ h.next[cur] <= y /\ h.next[cur] \in E
      BY <1>0, <1>8, <3>1 DEF E
    <3>3. b < h.next[cur]
      <4>1. ~ (h.next[cur] < b) /\ h.next[cur] # b
        BY <1>0, <1>4, <1>8, <3>2
      <4> QED BY <1>0, <1>8, <4>1
    <3>4. b + v[b] <= h.next[cur]
      BY <1>0, <1>2, <2>1, <2>4, <3>2, <3>3
    <3> QED BY <1>8, <1>9, <2>1, <2>4, <3>2, <3>4
  <2> QED BY <2>2, <2>3, <2>4
<1>10. b < h.next[cur] \/ h.next[cur] = arena
  BY <1>0, <1>4, <1>8
<1> QED BY <1>7, <1>9, <1>10 DEF E, v

\* slob_free puts the block back and joins it with the blocks it touches.
LEMMA FreedOK ==
  ASSUME NEW h, NEW b, NEW n, NEW U, CanFree(h, b, n, U), NEW g, g = Freed(h, b, n)
  PROVE  /\ HeapOK(g, U)
         /\ InUse(g) = InUse(h) \ {b} /\ \A a \in InUse(g) : g.units[a] = h.units[a]
         /\ \E a \in DOMAIN g.next : g.units[a] >= n
<1> DEFINE L == DOMAIN h.next
           D == DOMAIN h.units
           E == D \cup {b}
           v == AddedTo(D, h.units, b, n)
<1>1. PICK cur \in L : g = FreedAt(h, b, n, cur) /\ IsBefore(L, cur, b)
  <2>1. b \in Nat \ {0} /\ ListOK(h) /\ b \notin L
    BY DEF CanFree
  <2> DEFINE c == Nth(h)[Min({k \in 0 .. Cardinality(DOMAIN h.next) : IsPlace(h, b, Nth(h)[k])})]
  <2>2. c \in L /\ IsBefore(L, c, b)
    BY <2>1, PlaceFound
  <2>3. g = FreedAt(h, b, n, c)
    BY FreedIs
  <2> HIDE DEF c
  <2> QED BY <2>2, <2>3
<1> DEFINE m == h.next[cur]
           M == L \cup {b}
           nx == LinkedIn(L, h.next, cur, b)
<1>2. /\ Ring(M, nx, E, v, U)
      /\ \A x, y \in M : x + v[x] = y => (x = b /\ y = m) \/ (x = cur /\ y = b)
      /\ b < m \/ m = arena
  BY <1>1, FreedLinked
<1>3. /\ HeapEnd \in Nat /\ L \in SUBSET (0 .. HeapEnd) /\ L \in SUBSET Nat
      /\ arena \in L /\ arena = 0 /\ \A a \in L : h.next[a] \in L
      /\ L \in SUBSET D /\ b \in Nat /\ b >= 2 /\ b \notin L /\ n \in Nat /\ NoneTouch(L, h.units)
  <2>1. ListOK(h)
    BY DEF CanFree
  <2> QED BY <2>1, ListFacts DEF CanFree, arena
<1>4. /\ \A a \in E : a \in Nat /\ v[a] \in Nat \ {0}
      /\ v[b] = n /\ \A a \in D : a # b => v[a] = h.units[a]
  BY <1>2, RingFacts DEF AddedTo
<1>5. /\ nx[b] = m /\ nx[cur] = b /\ \A a \in L : a # cur => nx[a] = h.next[a]
      /\ cur < b /\ cur # b /\ cur \in Nat /\ m \in L /\ m \in Nat
      /\ cur \in M /\ b \in M /\ m \in M /\ m # b
      /\ cur \in E /\ b \in E /\ m \in E
  BY <1>1, <1>3 DEF IsBefore, LinkedIn
<1> DEFINE joined == b + n = m
           after == IF joined THEN h.next[m] ELSE m
           all == IF joined THEN n + h.units[m] ELSE n
           G == IF joined THEN {m} ELSE {}
           L2 == M \ G
           E2 == E \ G
           nx2 == IF joined THEN Unlinked(M, nx, b, m) ELSE nx
           v2 == IF joined THEN JoinedTo(E, v, b, m) ELSE v
<1> HIDE DEF m, nx, v, M, E
<1>6. joined => m # arena /\ m # cur /\ b + v[b] = m
  BY <1>3, <1>4, <1>5
<1>7. /\ Ring(L2, nx2, E2, v2, U)
      /\ b \in L2 /\ cur \in L2 /\ nx2[cur] = b /\ nx2[b] = after
      /\ \A a \in L2 : a # cur /\ a # b => nx2[a] = nx[a]
      /\ v2[b] = all /\ all >= n /\ \A a \in E2 : a # b => v2[a] = v[a]
      /\ \A x, y \in L2 : x + v2[x] = y => x = cur /\ y = b
  <2>1. CASE joined
    <3>1. L2 = M \ {m} /\ E2 = E \ {m} /\ nx2 = Unlinked(M, nx, b, m) /\ v2 = JoinedTo(E, v, b, m)
          /\ after = h.next[m] /\ all = n + h.units[m]
      BY <2>1
    <3>2. Ring(M \ {m}, Unlinked(M, nx, b, m), E \ {m}, JoinedTo(E, v, b, m), U)
      <4>1. b # arena /\ b \in M /\ m \in M /\ nx[b] = m /\ b + v[b] = m
        BY <1>3, <1>5, <1>6, <2>1
      <4> QED BY ONLY <1>2, <4>1, RingJoined
    <3>3. \A a \in M \ {m} : Unlinked(M, nx, b, m)[a] = IF a = b THEN nx[m] ELSE nx[a]
      BY DEF Unlinked
    <3>4. \A a \in E \ {m} : JoinedTo(E, v, b, m)[a] = IF a = b THEN v[b] + v[m] ELSE v[a]
      BY DEF JoinedTo
    <3>5. v[m] = h.units[m] /\ v[m] \in Nat /\ nx[m] = h.next[m]
      BY <1>3, <1>4, <1>5, <1>6, <2>1 DEF E
    <3> HIDE DEF L2, E2, nx2, v2, after, all
    <3>6. b \in L2 /\ cur \in L2 /\ b \in E2 /\ nx2[cur] = b /\ nx2[b] = after
          /\ \A a \in L2 : a # cur /\ a # b => nx2[a] = nx[a]
      BY <1>5, <1>6, <2>1, <3>1, <3>3, <3>5
    <3>7. v2[b] = all /\ all >= n /\ \A a \in E2 : a # b => v2[a] = v[a]
      BY <1>3, <1>4, <3>1, <3>4, <3>5, <3>6
    <3>8. ASSUME NEW x \in L2, NEW y \in L2, x + v2[x] = y PROVE x = cur /\ y = b
      <4>1. x \in M /\ y \in M /\ y # m /\ x \in E2
        BY <1>3, <3>1 DEF M, E
      <4>2. CASE x # b
        BY <1>2, <3>7, <3>8, <4>1, <4>2
      <4>3. CASE x = b
        <5>1. m + h.units[m] = y
          BY <1>3, <1>4, <1>5, <1>6, <2>1, <3>1, <3>4, <3>5, <3>6, <3>8, <4>3
        <5>2. y # b
          BY <1>3, <1>4, <1>5, <1>6, <2>1, <3>5, <5>1
        <5>3. y \in L
          BY <4>1, <5>2 DEF M
        <5> QED BY <1>3, <1>5, <5>1, <5>3 DEF NoneTouch
      <4> QED BY <4>2, <4>3
    <3> QED BY <3>1, <3>2, <3>6, <3>7, <3>8
  <2>2. CASE ~ joined
    <3>1. L2 = M /\ E2 = E /\ nx2 = nx /\ v2 = v /\ after = m /\ all = n
      BY <2>2
    <3>2. \A x, y \in M : x + v[x] = y => x = cur /\ y = b
      BY <1>2, <1>4, <2>2
    <3> HIDE DEF L2, E2, nx2, v2, after, all
    <3> QED BY <1>2, <1>3, <1>4, <1>5, <3>1, <3>2
  <2> QED BY <2>1, <2>2
<1> HIDE DEF L2, E2, nx2, v2, after, all
<1> DEFINE before == cur + h.units[cur] = b
           H == IF before THEN {b} ELSE {}
           into == IF before THEN cur ELSE b
           L3 == L2 \ H
           E3 == E2 \ H
           nx3 == IF before THEN Unlinked(L2, nx2, cur, b) ELSE nx2
           v3 == IF before THEN JoinedTo(E2, v2, cur, b) ELSE v2
<1>8. /\ cur \in E2 /\ b \in E2 /\ v2[cur] = h.units[cur]
      /\ h.units[cur] \in Nat \ {0} /\ all \in Nat \ {0}
      /\ \A a \in L2 : a \in E2
      /\ \A a \in E2 : a \in Nat /\ v2[a] \in Nat \ {0}
  <2>1. L2 \subseteq E2 /\ \A a \in E2 : a \in Nat /\ v2[a] \in Nat \ {0}
    BY <1>7, RingFacts
  <2>2. v2[cur] = v[cur] /\ v[cur] = h.units[cur]
    BY <1>3, <1>4, <1>5, <1>7, <2>1
  <2> QED BY <1>7, <2>1, <2>2
<1>9. h.units[arena] = 1
  BY DEF CanFree
<1>10. /\ Ring(L3, nx3, E3, v3, U)
       /\ into \in L3 /\ cur \in L3 /\ nx3[into] = after
       /\ (into # cur => nx3[cur] = b)
       /\ \A a \in L3 : a # cur /\ a # into => nx3[a] = nx[a]
       /\ v3[into] = (IF into = cur THEN h.units[cur] + all ELSE all)
       /\ \A a \in E3 : a # into => v3[a] = v[a]
       /\ \A x, y \in L3 : x + v3[x] # y
  <2>1. CASE before
    <3>1. L3 = L2 \ {b} /\ E3 = E2 \ {b} /\ nx3 = Unlinked(L2, nx2, cur, b)
          /\ v3 = JoinedTo(E2, v2, cur, b) /\ into = cur
      BY <2>1
    <3>2. Ring(L2 \ {b}, Unlinked(L2, nx2, cur, b), E2 \ {b}, JoinedTo(E2, v2, cur, b), U)
      <4>1. cur # arena /\ cur + v2[cur] = b
        BY <1>3, <1>8, <1>9, <2>1
      <4> QED BY ONLY <1>7, <4>1, RingJoined
    <3>3. \A a \in L2 \ {b} : Unlinked(L2, nx2, cur, b)[a] = IF a = cur THEN nx2[b] ELSE nx2[a]
      BY DEF Unlinked
    <3>4. \A a \in E2 \ {b} : JoinedTo(E2, v2, cur, b)[a] = IF a = cur THEN v2[cur] + v2[b] ELSE v2[a]
      BY DEF JoinedTo
    <3> HIDE DEF L3, E3, nx3, v3, into
    <3>5. cur \in L3 /\ cur \in E3 /\ nx3[cur] = after /\ \A a \in L3 : a # cur => nx3[a] = nx[a]
      BY <1>5, <1>7, <1>8, <3>1, <3>3
    <3>6. v3[cur] = h.units[cur] + all /\ \A a \in E3 : a # cur => v3[a] = v[a] /\ v3[a] = v2[a]
      BY <1>7, <1>8, <3>1, <3>4, <3>5
    <3>7. ASSUME NEW x \in L3, NEW y \in L3, x + v3[x] = y PROVE FALSE
      <4>1. x \in L2 /\ y \in L2 /\ y # b /\ x \in E3
        BY <1>8, <3>1
      <4>2. CASE x # cur
        BY <1>7, <3>6, <3>7, <4>1, <4>2
      <4>3. CASE x = cur
        <5>1. b + v2[b] = y
          <6>1. cur + (h.units[cur] + all) = y /\ v2[b] = all
            BY <1>7, <3>6, <3>7, <4>3
          <6>2. cur + (h.units[cur] + all) = (cur + h.units[cur]) + all
            BY <1>5, <1>8
          <6> QED BY <2>1, <6>1, <6>2
        <5> QED BY <1>5, <1>7, <4>1, <5>1
      <4> QED BY <4>2, <4>3
    <3> QED BY <3>1, <3>2, <3>5, <3>6, <3>7
  <2>2. CASE ~ before
    <3>1. L3 = L2 /\ E3 = E2 /\ nx3 = nx2 /\ v3 = v2 /\ into = b
      BY <2>2
    <3> HIDE DEF L3, E3, nx3, v3, into
    <3>2. \A x, y \in L2 : x + v2[x] # y
      BY <1>7, <1>8, <2>2
    <3> QED BY <1>5, <1>7, <3>1, <3>2
  <2> QED BY <2>1, <2>2
<1>11. g = [free |-> cur,
            next |-> [a \in (L \cup {b}) \ (G \cup H) |->
                        IF a = into THEN after ELSE IF a = cur THEN b ELSE h.next[a]],
            units |-> [a \in (D \cup {b}) \ (G \cup H) |->
                         IF a # into THEN h.units[a]
                         ELSE IF a = cur THEN h.units[cur] + all ELSE all]]
  <2>1. JoinsNext(h, b, n, cur) = joined /\ JoinsPrev(h, b, cur) = before
    BY DEF JoinsNext, JoinsPrev, m
  <2>2. /\ G = (IF JoinsNext(h, b, n, cur) THEN {h.next[cur]} ELSE {})
        /\ after = (IF JoinsNext(h, b, n, cur) THEN h.next[h.next[cur]] ELSE h.next[cur])
        /\ all = (IF JoinsNext(h, b, n, cur) THEN n + h.units[h.next[cur]] ELSE n)
    BY <2>1, Zenon DEF after, all, m
  <2>3. /\ H = (IF JoinsPrev(h, b, cur) THEN {b} ELSE {})
        /\ into = (IF JoinsPrev(h, b, cur) THEN cur ELSE b)
    BY <2>1, Zenon
  <2> HIDE DEF G, H, into, after, all
  <2> QED BY ONLY <1>1, <2>2, <2>3, Zenon DEF FreedAt, L, D
<1>12. /\ (L \cup {b}) \ (G \cup H) = L3 /\ (D \cup {b}) \ (G \cup H) = E3
  BY DEF L2, E2, M, E
<1> HIDE DEF L3, E3, nx3, v3, into, G, H, joined, before
<1>13. /\ g.free = cur /\ DOMAIN g.next = L3 /\ DOMAIN g.units = E3
       /\ \A a \in L3 : g.next[a] = IF a = into THEN after ELSE IF a = cur THEN b ELSE h.next[a]
       /\ \A a \in E3 : g.units[a] = IF a # into THEN h.units[a]
                                      ELSE IF a = cur THEN h.units[cur] + all ELSE all
  BY <1>11, <1>12
<1>14. /\ L3 \in SUBSET (L \cup {b}) /\ (b \in E3 => into = b) /\ E3 \in SUBSET (D \cup {b})
       /\ E3 \ L3 = (D \ L) \ {b} /\ L3 \in SUBSET E3 /\ b \notin L
  <2>1. G \in SUBSET L /\ H \in SUBSET {b} /\ (b \in H \/ into = b)
    BY <1>5 DEF G, H, into
  <2> QED BY <1>3, <1>12, <2>1
<1>15. \A a \in L3 : g.next[a] = nx3[a]
  <2> SUFFICES ASSUME NEW a \in L3 PROVE g.next[a] = nx3[a]
    OBVIOUS
  <2>1. CASE a = into
    BY <1>10, <1>13, <2>1
  <2>2. CASE a # into /\ a = cur
    BY <1>10, <1>13, <2>2
  <2>3. CASE a # into /\ a # cur
    <3>1. a \in L
      BY <1>14, <2>3
    <3> QED BY <1>5, <1>10, <1>13, <2>3, <3>1
  <2> QED BY <2>1, <2>2, <2>3
<1>16. \A a \in E3 : g.units[a] = v3[a] /\ (a # into => g.units[a] = h.units[a])
  <2> SUFFICES ASSUME NEW a \in E3 PROVE g.units[a] = v3[a] /\ (a # into => g.units[a] = h.units[a])
    OBVIOUS
  <2>1. CASE a = into
    BY <1>10, <1>13, <2>1
  <2>2. CASE a # into
    <3>1. a \in D /\ a # b
      BY <1>14, <2>2
    <3> QED BY <1>4, <1>10, <1>13, <2>2, <3>1
  <2> QED BY <2>1, <2>2
<1>17. HeapOK(g, U)
  <2>1. /\ L3 \in SUBSET (0 .. HeapEnd) /\ Circle(L3, nx3) /\ L3 \in SUBSET E3
        /\ Divides(E3, v3, U) /\ U \in SUBSET (0 .. HeapEnd) /\ v3[arena] = 1
    BY <1>10 DEF Ring
  <2>2. arena \in E3
    BY <2>1 DEF Circle
  <2>3. Circle(L3, g.next)
    BY ONLY <1>15, <2>1 DEF Circle
  <2>4. Divides(E3, g.units, U) /\ g.units[arena] = 1
    BY <1>16, <2>1, <2>2, DividesSame
  <2>5. NoneTouch(L3, g.units)
    BY <1>10, <1>14, <1>16 DEF NoneTouch
  <2>6. Ring(L3, g.next, E3, g.units, U)
    BY <2>1, <2>3, <2>4 DEF Ring
  <2> QED BY <1>10, <1>13, <2>5, <2>6 DEF HeapOK
<1>18. InUse(g) = InUse(h) \ {b} /\ \A a \in InUse(g) : g.units[a] = h.units[a]
  <2>1. InUse(g) = E3 \ L3 /\ InUse(h) = D \ L
    BY <1>13 DEF InUse
  <2>2. \A a \in E3 \ L3 : a # into
    BY <1>10
  <2> QED BY <1>14, <1>16, <2>1, <2>2
<1>19. g.units[into] >= n
  <2>1. g.units[into] = IF into = cur THEN h.units[cur] + all ELSE all
    BY <1>10, <1>14, <1>16
  <2> QED BY <1>3, <1>7, <1>8, <2>1
<1> QED BY <1>10, <1>13, <1>17, <1>18, <1>19
-----------------------------------------------------------------------------
(* kmalloc and kfree *)

\* What slob_alloc answers: a block of n units that was not in use, and a heap where it is.
Found(r, h, n, U) ==
  /\ HeapOK(r.heap, U)
  /\ r.block \notin InUse(h) /\ InUse(r.heap) = InUse(h) \cup {r.block}
  /\ r.heap.units[r.block] = n
  /\ \A a \in InUse(h) : r.heap.units[a] = h.units[a]

\* The search of slob_alloc, when some block has room.
LEMMA AllocSearchFinds ==
  ASSUME NEW h, NEW U, HeapOK(h, U), NEW n \in Nat, n >= 2, Roomy(h, n) # {}
  PROVE  Found(Search(h, n), h, n, U)
<1> DEFINE k == Min(Roomy(h, n))
           prev == Nth(h)[k-1]
           cur == Nth(h)[k]
<1>1. ListOK(h)
  BY HeapListOK
<1>2. Cardinality(DOMAIN h.next) \in Nat
  BY <1>1, ListFacts
<1>3. k \in Roomy(h, n)
  <2>1. Roomy(h, n) \subseteq Nat
    BY DEF Roomy
  <2> QED BY <2>1, MinIs
<1>4. k \in 1 .. Cardinality(DOMAIN h.next) /\ h.units[cur] >= n
  BY <1>3 DEF Roomy
<1> HIDE DEF k
<1>5. prev \in DOMAIN h.next /\ cur = h.next[prev]
  <2>1. k - 1 \in 0 .. Cardinality(DOMAIN h.next)
    BY <1>2, <1>4
  <2> QED BY <1>1, <1>4, <2>1, NthSteps
<1> HIDE DEF prev, cur
<1>6. Search(h, n) = [block |-> cur, heap |-> Carved(h, prev, cur, n)]
  BY DEF Search, k, prev, cur
<1> DEFINE g == Carved(h, prev, cur, n)
<1>7. /\ HeapOK(g, U) /\ cur \notin InUse(h) /\ InUse(g) = InUse(h) \cup {cur}
      /\ g.units[cur] = n /\ \A a \in InUse(h) : g.units[a] = h.units[a]
  BY <1>4, <1>5, CarvedOK
<1> HIDE DEF g
<1>8. Search(h, n).block = cur /\ Search(h, n).heap = g
  BY <1>6 DEF g
<1> QED BY <1>7, <1>8 DEF Found

\* The units of the pages of P, and the arena.
Owned(P) == {u \in Nat : u = arena \/ PageOf(u) \in P}

\* Those units are below the end of the heap, and no page begins at unit 1 or 2.
LEMMA OwnedFits ==
  ASSUME NEW P \in SUBSET PageNumbers
  PROVE  Owned(P) \in SUBSET (0 .. HeapEnd) /\ \A u \in Owned(P) : u = 0 \/ u >= 3
<1>1. HeapPages \in Nat /\ HeapPages + 1 \in Nat /\ P \in SUBSET (1 .. HeapPages)
  BY SlobAssumption DEF PageNumbers
<1>2. HeapEnd \in Nat /\ PageAt(1) \in Nat /\ PageAt(1) >= 3
  <2>1. PageAt(1) >= PageUnits
    BY PageAtIs
  <2> QED BY <1>1, <2>1, PageAtIs, PageUnitsAre DEF HeapEnd
<1>3. ASSUME NEW u \in Owned(P), u # 0 PROVE u <= HeapEnd /\ u >= 3
  <2>1. u \in Nat /\ PageOf(u) \in P
    BY <1>3 DEF Owned, arena
  <2>2. PageOf(u) \in Nat /\ 1 <= PageOf(u) /\ ~ (HeapPages + 1 <= PageOf(u))
    <3>1. PageOf(u) \in 1 .. HeapPages
      BY <1>1, <2>1
    <3> DEFINE q == PageOf(u)
    <3>2. q \in 1 .. HeapPages
      BY <3>1
    <3> HIDE DEF q
    <3>3. q \in Nat /\ 1 <= q /\ ~ (HeapPages + 1 <= q)
      BY <1>1, <3>2
    <3> QED BY <3>3 DEF q
  <2>3. PageAt(1) <= u /\ ~ (PageAt(HeapPages + 1) <= u)
    BY <1>1, <2>1, <2>2, PageOfIs
  <2> QED BY <1>2, <2>1, <2>3 DEF HeapEnd
<1>4. Owned(P) \in SUBSET Nat
  BY DEF Owned
<1> QED BY <1>2, <1>3, <1>4

\* A block in use can be given back.
LEMMA CanFreeUsed ==
  ASSUME NEW P \in SUBSET PageNumbers, NEW h, HeapOK(h, Owned(P)), NEW b \in InUse(h)
  PROVE  CanFree(h, b, h.units[b], Owned(P))
<1> DEFINE D == DOMAIN h.units
           L == DOMAIN h.next
<1>1. /\ arena \in L /\ L \in SUBSET D /\ arena = 0
      /\ Divides(D, h.units, Owned(P)) /\ h.units[arena] = 1 /\ NoneTouch(L, h.units)
      /\ \A a \in D : a \in Nat /\ h.units[a] \in Nat \ {0}
      /\ Owned(P) \in SUBSET (0 .. HeapEnd)
  BY HeapFacts
<1>2. ListOK(h)
  BY HeapListOK
<1>3. b \in D /\ b \notin L /\ b # 0
  BY <1>1 DEF InUse
<1>4. b >= 2
  <2>1. b \in Owned(P)
    BY <1>1, <1>3 DEF Divides
  <2> QED BY <1>3, <2>1, OwnedFits
<1>5. Divides(D \cup {b}, AddedTo(D, h.units, b, h.units[b]), Owned(P))
  <2>1. D \cup {b} = D /\ \A a \in D : AddedTo(D, h.units, b, h.units[b])[a] = h.units[a]
    BY <1>3 DEF AddedTo
  <2> QED BY <1>1, <2>1, DividesSame
<1> QED BY <1>1, <1>2, <1>3, <1>4, <1>5 DEF CanFree

\* So can a page that kmalloc has not had before.
LEMMA CanFreePage ==
  ASSUME NEW P \in SUBSET PageNumbers, NEW h, HeapOK(h, Owned(P)), NEW p \in PageNumbers \ P
  PROVE  /\ CanFree(h, PageAt(p), PageUnits, Owned(P \cup {p}))
         /\ PageAt(p) \notin DOMAIN h.units
<1> DEFINE D == DOMAIN h.units
           L == DOMAIN h.next
           b == PageAt(p)
           page == {x \in Nat : b <= x /\ x < b + PageUnits}
<1>1. /\ arena \in L /\ L \in SUBSET D /\ arena = 0
      /\ Divides(D, h.units, Owned(P)) /\ h.units[arena] = 1 /\ NoneTouch(L, h.units)
  BY HeapFacts
<1>2. ListOK(h)
  BY HeapListOK
<1>3. /\ p \in Nat /\ p # 0 /\ p + 1 \in Nat /\ b \in Nat /\ b >= PageUnits /\ PageUnits >= 3
      /\ PageUnits \in Nat /\ PageAt(p + 1) = b + PageUnits
  <2>1. p \in Nat /\ p # 0
    BY SlobAssumption DEF PageNumbers
  <2> QED BY <2>1, PageAtIs, PageUnitsAre
<1>4. ASSUME NEW x \in Nat PROVE b <= x /\ x < b + PageUnits <=> PageOf(x) = p
  <2>1. /\ PageOf(x) \in Nat /\ (b <= x <=> p <= PageOf(x))
        /\ (PageAt(p + 1) <= x <=> p + 1 <= PageOf(x))
    BY <1>3, PageOfIs
  <2> QED BY <1>3, <2>1
<1>5. \A x \in Owned(P) : ~ (b <= x /\ x < b + PageUnits)
  <2>1. \A x \in Owned(P) : x \in Nat /\ (x = 0 \/ PageOf(x) \in P)
    BY DEF Owned, arena
  <2> QED BY <1>3, <1>4, <2>1
<1>6. Owned(P) \cup page = Owned(P \cup {p})
  BY <1>4 DEF Owned
<1>7. Divides(D \cup {b}, AddedTo(D, h.units, b, PageUnits), Owned(P) \cup page) /\ b \notin D
  <2>1. PageUnits \in Nat \ {0}
    BY <1>3
  <2> HIDE DEF D, b
  <2> QED BY <1>1, <1>3, <1>5, <2>1, DividesAdded
<1>8. Owned(P \cup {p}) \in SUBSET (0 .. HeapEnd)
  BY OwnedFits
<1>9. b >= 2 /\ b \notin L
  BY <1>1, <1>3, <1>7
<1>10. Divides(D \cup {b}, AddedTo(D, h.units, b, PageUnits), Owned(P \cup {p}))
  BY ONLY <1>6, <1>7
<1> QED BY <1>1, <1>2, <1>3, <1>7, <1>8, <1>9, <1>10 DEF CanFree

\* slob_alloc, with a page or without.
LEMMA AllocsFind ==
  ASSUME NEW P \in SUBSET PageNumbers, HeapOK(heap, Owned(P)),
         freepages \in SUBSET PageNumbers, P \cap freepages = {},
         NEW size \in Nat, size > SLOB_UNIT, ~ AssertFails(size), NEW r \in Allocs(size)
  PROVE  /\ r.page \in SUBSET freepages
         /\ Found(r.found, heap, SLOB_UNITS(size), Owned(P \cup r.page))
<1> DEFINE n == SLOB_UNITS(size)
<1>1. n \in Nat /\ n >= 2 /\ n <= PageUnits
  BY UnitsAsked
<1>2. CASE Roomy(heap, n) # {}
  <2>1. r = [found |-> Search(heap, n), page |-> {}]
    BY <1>2 DEF Allocs
  <2>2. r.page = {} /\ r.found = Search(heap, n) /\ P \cup {} = P
    BY <2>1
  <2>3. Found(Search(heap, n), heap, n, Owned(P))
    BY <1>1, <1>2, AllocSearchFinds
  <2> QED BY <2>2, <2>3
<1>3. CASE Roomy(heap, n) = {}
  <2>1. PICK p \in freepages :
          r = [found |-> Search(Freed(heap, PageAt(p), PageUnits), n), page |-> {p}]
    BY <1>3 DEF Allocs
  <2> DEFINE g == Freed(heap, PageAt(p), PageUnits)
             U == Owned(P \cup {p})
  <2>2. CanFree(heap, PageAt(p), PageUnits, U) /\ PageAt(p) \notin DOMAIN heap.units
    <3>1. p \in PageNumbers \ P
      BY <2>1
    <3> QED BY <3>1, CanFreePage
  <2>3. /\ HeapOK(g, U) /\ InUse(g) = InUse(heap) \ {PageAt(p)}
        /\ \A a \in InUse(g) : g.units[a] = heap.units[a]
        /\ \E a \in DOMAIN g.next : g.units[a] >= PageUnits
    BY <2>2, FreedOK
  <2>4. r.page = {p} /\ r.found = Search(g, n)
    BY <2>1
  <2> HIDE DEF g
  <2>5. InUse(g) = InUse(heap)
    BY <2>2, <2>3 DEF InUse
  <2>6. Roomy(g, n) # {}
    <3>1. PICK a \in DOMAIN g.next : g.units[a] >= PageUnits
      BY <2>3
    <3>2. ListOK(g)
      BY <2>3, HeapListOK
    <3>3. PICK k \in 1 .. Cardinality(DOMAIN g.next) : Nth(g)[k] = a
      BY <3>1, <3>2, NthVisits
    <3>4. g.units[a] \in Nat
      BY <2>3, HeapFacts
    <3>5. g.units[Nth(g)[k]] >= n
      BY <1>1, <3>1, <3>3, <3>4, PageUnitsAre
    <3> QED BY <3>3, <3>5 DEF Roomy
  <2>7. Found(Search(g, n), g, n, U)
    BY <1>1, <2>3, <2>6, AllocSearchFinds
  <2>8. Found(Search(g, n), heap, n, U)
    BY <2>3, <2>5, <2>7 DEF Found
  <2> QED BY <2>1, <2>4, <2>8
<1> QED BY <1>2, <1>3
-----------------------------------------------------------------------------
(* Big blocks *)

\* 1 << order doubles, and is more than the order: no order but less than HeapPages has pages.
LEMMA PageCountIs ==
  /\ \A k \in 0 .. HeapPages : PageCount[k] \in Nat /\ PageCount[k] > k
  /\ PageCount[0] = 1
  /\ \A k \in 1 .. HeapPages : PageCount[k] = 2 * PageCount[k-1]
<1> DEFINE Def(f) == f = [k \in 0 .. HeapPages |-> IF k = 0 THEN 1 ELSE 2 * f[k-1]]
<1>1. HeapPages \in Nat
  BY SlobAssumption
<1>2. PageCount = CHOOSE f : Def(f)
  BY DEF PageCount
<1>3. \E f : Def(f)
  BY <1>1, Doubling
<1>4. Def(PageCount)
  <2> HIDE DEF Def
  <2> QED BY <1>2, <1>3
<1> QED BY <1>1, <1>4, Doubling

\* The order of a size that is kept: halved so often, the size is a page at most.
LEMMA OrderFits ==
  ASSUME NEW size \in Nat
  PROVE  /\ find_order(size) \in 0 .. HeapPages
         /\ find_order(size) # HeapPages => size \div PageCount[find_order(size)] <= PAGE_SIZE
<1> DEFINE K == {k \in 0 .. HeapPages : size \div PageCount[k] <= PAGE_SIZE}
<1>1. HeapPages \in Nat
  BY SlobAssumption
<1>2. {HeapPages} \cup K \subseteq Nat /\ {HeapPages} \cup K # {}
  BY <1>1
<1>3. Min({HeapPages} \cup K) \in {HeapPages} \cup K
  <2> HIDE DEF K
  <2> QED BY <1>2, MinIs
<1>4. find_order(size) \in {HeapPages} \cup K
  BY <1>3 DEF find_order
<1> QED BY <1>1, <1>4

\* A run of pages is not empty, and lies among the pages only when its order is less.
LEMMA RunFits ==
  ASSUME NEW page \in PageNumbers, NEW order \in 0 .. HeapPages, PageRun(page, order) \subseteq PageNumbers
  PROVE  order # HeapPages /\ page \in PageRun(page, order)
<1>1. /\ HeapPages \in Nat /\ PageCount[order] \in Nat /\ PageCount[order] > order
      /\ page \in 1 .. HeapPages
  BY SlobAssumption, PageCountIs DEF PageNumbers
<1> DEFINE c == PageCount[order]
<1> HIDE DEF c
<1>2. PageRun(page, order) = page .. page + c - 1 /\ c \in Nat /\ c > order
  BY <1>1 DEF PageRun, c
<1>3. page \in PageRun(page, order) /\ page + c - 1 \in PageRun(page, order)
  BY <1>1, <1>2
<1>4. page + c - 1 <= HeapPages
  BY <1>1, <1>3 DEF PageNumbers
<1> QED BY <1>1, <1>2, <1>3, <1>4

\* A size that is a page at most after order halvings is short of its pages by less than a
\* byte for each.
LEMMA ShortByLess ==
  ASSUME NEW size \in Nat, NEW pages \in Nat \ {0}, size \div pages <= PAGE_SIZE
  PROVE  /\ size - PAGE_SIZE * pages < pages
         /\ size % pages = 0 => PAGE_SIZE * pages >= size
<1> DEFINE q == size \div pages
<1>1. PAGE_SIZE \in Nat
  BY SlobAssumption
<1>2. q \in Nat /\ size % pages \in 0 .. pages - 1 /\ size = pages * q + (size % pages)
  <2>1. q \in Nat
    BY Quotient
  <2> QED BY <2>1
<1> HIDE DEF q
<1>3. q <= PAGE_SIZE
  BY DEF q
<1>4. pages * q <= PAGE_SIZE * pages
  BY <1>1, <1>2, <1>3
<1> DEFINE a == pages * q
           b == PAGE_SIZE * pages
<1>5. a \in Nat /\ b \in Nat /\ a <= b /\ size = a + (size % pages)
  BY <1>1, <1>2, <1>4
<1> HIDE DEF a, b
<1>6. size - b < pages /\ (size % pages = 0 => b >= size)
  BY <1>2, <1>5
<1> QED BY <1>6 DEF b

\* What a bigblock_t says, with the size that was asked for; and the pages it stands for.
BigBlock == [bb : Nat, order : 0 .. HeapPages, page : PageNumbers, size : Sizes]
RunOf(big) == PageRun(big.page, big.order)

\* The bigblock_t of the list s, the pages of its blocks, and the pages that are neither those
\* nor free: they hold the small blocks.
BBs(s) == {s[i].bb : i \in DOMAIN s}
RunsOf(s) == UNION {RunOf(s[i]) : i \in DOMAIN s}
KeptOf(s, free) == PageNumbers \ (free \cup RunsOf(s))

\* The big blocks of the list s, when the pages in free are left.
BigsOK(s, free) ==
  /\ s \in Seq(BigBlock) /\ free \in SUBSET PageNumbers
  /\ \A i \in DOMAIN s : /\ RunOf(s[i]) \subseteq PageNumbers \ free
                         /\ s[i].size \div PageCount[s[i].order] <= PAGE_SIZE
  /\ \A i, j \in DOMAIN s : i # j => s[i].bb # s[j].bb /\ RunOf(s[i]) \cap RunOf(s[j]) = {}

\* The page that slob_alloc gets is kept.
LEMMA BigsGive ==
  ASSUME NEW s, NEW free, BigsOK(s, free), NEW Q \in SUBSET free
  PROVE  BigsOK(s, free \ Q) /\ KeptOf(s, free \ Q) = KeptOf(s, free) \cup Q
<1>1. free \in SUBSET PageNumbers /\ \A i \in DOMAIN s : RunOf(s[i]) \subseteq PageNumbers \ free
  BY DEF BigsOK
<1>2. BigsOK(s, free \ Q)
  BY <1>1 DEF BigsOK
<1>3. Q \cap RunsOf(s) = {}
  BY <1>1 DEF RunsOf
<1>4. KeptOf(s, free \ Q) = KeptOf(s, free) \cup Q
  BY <1>1, <1>3 DEF KeptOf
<1> QED BY <1>2, <1>4

\* A big block goes to the front of the list with its pages.
LEMMA BigsPush ==
  ASSUME NEW s, NEW free, BigsOK(s, free), NEW e \in BigBlock, RunOf(e) \subseteq free,
         e.size \div PageCount[e.order] <= PAGE_SIZE, e.bb \notin BBs(s)
  PROVE  /\ BigsOK(<<e>> \o s, free \ RunOf(e))
         /\ BBs(<<e>> \o s) = BBs(s) \cup {e.bb}
         /\ KeptOf(<<e>> \o s, free \ RunOf(e)) = KeptOf(s, free)
<1> DEFINE t == <<e>> \o s
           R == RunOf(e)
<1>1. /\ s \in Seq(BigBlock) /\ free \in SUBSET PageNumbers
      /\ \A i \in DOMAIN s : /\ RunOf(s[i]) \subseteq PageNumbers \ free
                             /\ s[i].size \div PageCount[s[i].order] <= PAGE_SIZE
      /\ \A i, j \in DOMAIN s : i # j => s[i].bb # s[j].bb /\ RunOf(s[i]) \cap RunOf(s[j]) = {}
  BY DEF BigsOK
<1>2. /\ t \in Seq(BigBlock) /\ Len(t) = Len(s) + 1 /\ t[1] = e
      /\ \A i \in 2 .. Len(t) : t[i] = s[i-1]
  BY <1>1, PushFront
<1>3. DOMAIN t = 1 .. Len(s) + 1 /\ DOMAIN s = 1 .. Len(s) /\ Len(s) \in Nat
  BY <1>1, <1>2
<1> HIDE DEF t
<1>4. ASSUME NEW i \in DOMAIN t PROVE (i = 1 /\ t[i] = e) \/ (i # 1 /\ i - 1 \in DOMAIN s /\ t[i] = s[i-1])
  BY <1>2, <1>3
<1>5. ASSUME NEW i \in DOMAIN s PROVE i + 1 \in DOMAIN t /\ t[i+1] = s[i]
  <2>1. i + 1 \in 2 .. Len(t) /\ (i + 1) - 1 = i
    BY <1>2, <1>3
  <2> QED BY <1>2, <1>3, <2>1
<1>6. 1 \in DOMAIN t /\ t[1] = e
  BY <1>2, <1>3
<1>7. ASSUME NEW i \in DOMAIN t, NEW j \in DOMAIN t, i # j
      PROVE  t[i].bb # t[j].bb /\ RunOf(t[i]) \cap RunOf(t[j]) = {}
  <2>1. ASSUME NEW k \in DOMAIN s PROVE e.bb # s[k].bb /\ R \cap RunOf(s[k]) = {}
    BY <1>1 DEF BBs
  <2>2. CASE i = 1
    BY <1>4, <1>6, <1>7, <2>1, <2>2
  <2>3. CASE j = 1
    BY <1>4, <1>6, <1>7, <2>1, <2>3
  <2>4. CASE i # 1 /\ j # 1
    <3>1. i - 1 \in DOMAIN s /\ j - 1 \in DOMAIN s /\ i - 1 # j - 1 /\ t[i] = s[i-1] /\ t[j] = s[j-1]
      BY <1>3, <1>4, <1>7, <2>4
    <3> QED BY <1>1, <3>1
  <2> QED BY <2>2, <2>3, <2>4
<1>8. ASSUME NEW i \in DOMAIN t
      PROVE  /\ RunOf(t[i]) \subseteq PageNumbers \ (free \ R)
             /\ t[i].size \div PageCount[t[i].order] <= PAGE_SIZE
  <2>1. CASE t[i] = e
    BY <1>1, <2>1
  <2>2. CASE i - 1 \in DOMAIN s /\ t[i] = s[i-1]
    BY <1>1, <2>2
  <2> QED BY <1>4, <2>1, <2>2
<1>9. BigsOK(t, free \ R)
  BY <1>1, <1>2, <1>7, <1>8 DEF BigsOK
<1>10. BBs(t) = BBs(s) \cup {e.bb}
  BY <1>4, <1>5, <1>6 DEF BBs
<1>11. RunsOf(t) = RunsOf(s) \cup R
  BY <1>4, <1>5, <1>6 DEF RunsOf
<1>12. R \cap RunsOf(s) = {}
  BY <1>1 DEF RunsOf
<1>13. KeptOf(t, free \ R) = KeptOf(s, free)
  BY <1>1, <1>11, <1>12 DEF KeptOf
<1> QED BY <1>9, <1>10, <1>13 DEF t

\* A big block leaves the list and its pages are free.
LEMMA BigsRemove ==
  ASSUME NEW s, NEW free, BigsOK(s, free), NEW i \in DOMAIN s
  PROVE  /\ BigsOK(RemoveAt(s, i), free \cup RunOf(s[i]))
         /\ BBs(RemoveAt(s, i)) = BBs(s) \ {s[i].bb}
         /\ KeptOf(RemoveAt(s, i), free \cup RunOf(s[i])) = KeptOf(s, free)
<1> DEFINE t == RemoveAt(s, i)
           R == RunOf(s[i])
           Old(j) == IF j < i THEN j ELSE j + 1
<1>1. /\ s \in Seq(BigBlock) /\ free \in SUBSET PageNumbers
      /\ \A j \in DOMAIN s : /\ RunOf(s[j]) \subseteq PageNumbers \ free
                             /\ s[j].size \div PageCount[s[j].order] <= PAGE_SIZE
      /\ \A j, k \in DOMAIN s : j # k => s[j].bb # s[k].bb /\ RunOf(s[j]) \cap RunOf(s[k]) = {}
  BY DEF BigsOK
<1>2. DOMAIN s = 1 .. Len(s) /\ Len(s) \in Nat /\ i \in 1 .. Len(s)
  BY <1>1
<1>3. /\ t \in Seq(BigBlock) /\ Len(t) = Len(s) - 1
      /\ \A j \in 1 .. Len(t) : t[j] = IF j < i THEN s[j] ELSE s[j+1]
  BY <1>1, <1>2, RemoveOne
<1>4. DOMAIN t = 1 .. Len(s) - 1
  BY <1>3
<1> HIDE DEF t
<1>5. ASSUME NEW j \in DOMAIN t
      PROVE  Old(j) \in DOMAIN s /\ Old(j) # i /\ t[j] = s[Old(j)] /\ j \in Nat /\ Old(j) \in Nat
  BY <1>2, <1>3, <1>4
<1>6. ASSUME NEW k \in DOMAIN s, k # i PROVE \E j \in DOMAIN t : t[j] = s[k]
  <2>1. CASE k < i
    <3>1. k \in DOMAIN t /\ t[k] = s[k]
      BY <1>2, <1>3, <1>4, <2>1
    <3> QED BY <3>1
  <2>2. CASE ~ (k < i)
    <3>1. k - 1 \in DOMAIN t /\ ~ (k - 1 < i) /\ (k - 1) + 1 = k
      BY <1>2, <1>3, <1>4, <1>6, <2>2
    <3>2. t[k-1] = s[k]
      BY <1>3, <1>4, <3>1
    <3> QED BY <3>1, <3>2
  <2> QED BY <2>1, <2>2
<1>7. ASSUME NEW j \in DOMAIN t, NEW k \in DOMAIN t, j # k PROVE Old(j) # Old(k)
  BY <1>2, <1>4, <1>7
<1> HIDE DEF Old
<1>8. BigsOK(t, free \cup R)
  <2>1. \A j \in DOMAIN t : /\ RunOf(t[j]) \subseteq PageNumbers \ (free \cup R)
                            /\ t[j].size \div PageCount[t[j].order] <= PAGE_SIZE
    BY <1>1, <1>5
  <2>2. \A j, k \in DOMAIN t : j # k => t[j].bb # t[k].bb /\ RunOf(t[j]) \cap RunOf(t[k]) = {}
    BY <1>1, <1>5, <1>7
  <2>3. free \cup R \in SUBSET PageNumbers
    BY <1>1
  <2> QED BY <1>3, <2>1, <2>2, <2>3 DEF BigsOK
<1>9. BBs(t) = BBs(s) \ {s[i].bb}
  <2>1. ASSUME NEW b \in BBs(t) PROVE b \in BBs(s) /\ b # s[i].bb
    BY <1>1, <1>5 DEF BBs
  <2>2. ASSUME NEW b \in BBs(s), b # s[i].bb PROVE b \in BBs(t)
    BY <1>6, <2>2 DEF BBs
  <2> QED BY <2>1, <2>2
<1>10. RunsOf(t) \cup R = RunsOf(s)
  <2>1. ASSUME NEW p \in RunsOf(s) PROVE p \in RunsOf(t) \cup R
    BY <1>6 DEF RunsOf
  <2>2. ASSUME NEW p \in RunsOf(t) PROVE p \in RunsOf(s)
    BY <1>5 DEF RunsOf
  <2>3. ASSUME NEW p \in R PROVE p \in RunsOf(s)
    BY DEF RunsOf
  <2> QED BY <2>1, <2>2, <2>3
<1>11. KeptOf(t, free \cup R) = KeptOf(s, free)
  BY <1>10 DEF KeptOf
<1> QED BY <1>8, <1>9, <1>11 DEF t
-----------------------------------------------------------------------------
(* The invariant *)

\* The inductive invariant: the blocks of the heap divide the arena and the pages that are
\* neither free nor a big block's, the blocks that are not on the list are the small blocks
\* in use and the bigblock_t, each as long as it was asked for, and the big blocks have pages
\* of their own.
SlobInv ==
  /\ BigsOK(bigblocks, freepages)
  /\ HeapOK(heap, Owned(KeptOf(bigblocks, freepages)))
  /\ InUse(heap) = DOMAIN held \cup BBs(bigblocks)
  /\ DOMAIN held \cap BBs(bigblocks) = {}
  /\ \A b \in DOMAIN held : /\ held[b] \in Sizes /\ ~ AssertFails(held[b] + SLOB_UNIT)
                            /\ heap.units[b] = SLOB_UNITS(held[b] + SLOB_UNIT)
  /\ \A b \in BBs(bigblocks) : heap.units[b] = SLOB_UNITS(BIGBLOCK)

\* slob_init: a circle of the arena alone, and no page.
LEMMA SlobInitHolds == SlobInit => SlobInv
<1> SUFFICES ASSUME SlobInit PROVE SlobInv
  OBVIOUS
<1>1. /\ heap.free = arena /\ DOMAIN heap.next = {arena} /\ heap.next[arena] = arena
      /\ DOMAIN heap.units = {arena} /\ heap.units[arena] = 1
      /\ bigblocks = << >> /\ held = << >> /\ freepages = PageNumbers
  BY DEF SlobInit
<1>2. DOMAIN bigblocks = {} /\ DOMAIN held = {} /\ bigblocks \in Seq(BigBlock)
  BY <1>1
<1>3. BigsOK(bigblocks, freepages) /\ BBs(bigblocks) = {} /\ KeptOf(bigblocks, freepages) = {}
  BY <1>1, <1>2 DEF BigsOK, BBs, KeptOf
<1>4. Owned({}) = {arena}
  BY DEF Owned, arena
<1>5. HeapEnd \in Nat
  BY SlobAssumption, PageAtIs DEF HeapEnd
<1>6. Circle({arena}, heap.next)
  BY <1>1 DEF Circle, IsNext, arena
<1>7. Divides({arena}, heap.units, {arena})
  BY <1>1 DEF Divides, arena
<1>8. Ring({arena}, heap.next, {arena}, heap.units, {arena})
  BY <1>1, <1>5, <1>6, <1>7 DEF Ring, arena
<1>9. NoneTouch({arena}, heap.units)
  BY <1>1 DEF NoneTouch, arena
<1>10. HeapOK(heap, {arena})
  BY <1>1, <1>8, <1>9 DEF HeapOK
<1>11. InUse(heap) = {}
  BY <1>1 DEF InUse
<1> QED BY <1>2, <1>3, <1>4, <1>10, <1>11 DEF SlobInv

\* slob_alloc, in any state of the heap.
LEMMA AllocsKeep ==
  ASSUME SlobInv, NEW size \in Nat, size > SLOB_UNIT, ~ AssertFails(size), NEW r \in Allocs(size)
  PROVE  /\ r.page \in SUBSET freepages
         /\ BigsOK(bigblocks, freepages \ r.page)
         /\ HeapOK(r.found.heap, Owned(KeptOf(bigblocks, freepages \ r.page)))
         /\ r.found.block \in Nat /\ r.found.block \notin InUse(heap)
         /\ InUse(r.found.heap) = InUse(heap) \cup {r.found.block}
         /\ r.found.heap.units[r.found.block] = SLOB_UNITS(size)
         /\ \A a \in InUse(heap) : r.found.heap.units[a] = heap.units[a]
<1> DEFINE P == KeptOf(bigblocks, freepages)
           U == Owned(P \cup r.page)
<1>1. BigsOK(bigblocks, freepages) /\ HeapOK(heap, Owned(P))
  BY DEF SlobInv
<1>2. freepages \in SUBSET PageNumbers /\ P \in SUBSET PageNumbers /\ P \cap freepages = {}
  BY <1>1 DEF BigsOK, KeptOf
<1>3. /\ r.page \in SUBSET freepages
      /\ Found(r.found, heap, SLOB_UNITS(size), Owned(P \cup r.page))
  <2> HIDE DEF P
  <2> QED BY <1>1, <1>2, AllocsFind
<1>4. BigsOK(bigblocks, freepages \ r.page) /\ KeptOf(bigblocks, freepages \ r.page) = P \cup r.page
  BY <1>1, <1>3, BigsGive
<1> HIDE DEF P, U
<1>5. /\ HeapOK(r.found.heap, U) /\ r.found.block \notin InUse(heap)
      /\ InUse(r.found.heap) = InUse(heap) \cup {r.found.block}
      /\ r.found.heap.units[r.found.block] = SLOB_UNITS(size)
      /\ \A a \in InUse(heap) : r.found.heap.units[a] = heap.units[a]
  BY <1>3 DEF Found, U
<1>6. \A a \in DOMAIN r.found.heap.units : a \in Nat
  BY <1>5, HeapFacts
<1>7. r.found.block \in Nat
  BY <1>5, <1>6 DEF InUse
<1>8. HeapOK(r.found.heap, Owned(KeptOf(bigblocks, freepages \ r.page)))
  BY <1>4, <1>5 DEF U
<1> QED BY <1>3, <1>4, <1>5, <1>7, <1>8

\* slob_free of a block in use.
LEMMA FreeKeeps ==
  ASSUME NEW P \in SUBSET PageNumbers, NEW h, HeapOK(h, Owned(P)), NEW b \in InUse(h)
  PROVE  /\ HeapOK(Freed(h, b, h.units[b]), Owned(P))
         /\ InUse(Freed(h, b, h.units[b])) = InUse(h) \ {b}
         /\ \A a \in InUse(h) \ {b} : Freed(h, b, h.units[b]).units[a] = h.units[a]
<1>1. CanFree(h, b, h.units[b], Owned(P))
  BY CanFreeUsed
<1> DEFINE g == Freed(h, b, h.units[b])
<1>2. /\ HeapOK(g, Owned(P))
      /\ InUse(g) = InUse(h) \ {b} /\ \A a \in InUse(g) : g.units[a] = h.units[a]
  BY <1>1, FreedOK
<1> HIDE DEF g
<1>3. \A a \in InUse(h) \ {b} : g.units[a] = h.units[a]
  BY <1>2
<1> QED BY <1>2, <1>3 DEF g

\* What a block asks of slob_alloc, with the header that __kmalloc adds.
LEMMA SizesAre ==
  ASSUME NEW size \in Sizes
  PROVE  size \in Nat /\ size # 0 /\ size + SLOB_UNIT \in Nat /\ size + SLOB_UNIT > SLOB_UNIT
BY SlobAssumption

\* A bigblock_t is longer than a header and fits in a page.
LEMMA BigblockFits == BIGBLOCK \in Nat /\ BIGBLOCK > SLOB_UNIT /\ ~ AssertFails(BIGBLOCK)
BY SlobAssumption DEF AssertFails

\* kmalloc of a small size
LEMMA KmallocSmallKeeps ==
  ASSUME SlobInv, NEW size \in Sizes, KmallocSmall(size)
  PROVE  SlobInv'
<1>1. PICK r \in Allocs(size + SLOB_UNIT) :
        /\ heap' = r.found.heap
        /\ held' = [b \in DOMAIN held \cup {r.found.block} |->
                      IF b = r.found.block THEN size ELSE held[b]]
        /\ freepages' = freepages \ r.page
  BY DEF KmallocSmall
<1>2. bigblocks' = bigblocks /\ ~ AssertFails(size + SLOB_UNIT)
  BY DEF KmallocSmall
<1> DEFINE b0 == r.found.block
<1>3. /\ BigsOK(bigblocks', freepages')
      /\ HeapOK(heap', Owned(KeptOf(bigblocks', freepages')))
      /\ b0 \notin InUse(heap) /\ InUse(heap') = InUse(heap) \cup {b0}
      /\ heap'.units[b0] = SLOB_UNITS(size + SLOB_UNIT)
      /\ \A a \in InUse(heap) : heap'.units[a] = heap.units[a]
  BY <1>1, <1>2, SizesAre, AllocsKeep
<1>4. /\ InUse(heap) = DOMAIN held \cup BBs(bigblocks)
      /\ DOMAIN held \cap BBs(bigblocks) = {}
      /\ \A b \in DOMAIN held : /\ held[b] \in Sizes /\ ~ AssertFails(held[b] + SLOB_UNIT)
                                /\ heap.units[b] = SLOB_UNITS(held[b] + SLOB_UNIT)
      /\ \A b \in BBs(bigblocks) : heap.units[b] = SLOB_UNITS(BIGBLOCK)
  BY DEF SlobInv
<1>5. DOMAIN held' = DOMAIN held \cup {b0} /\ held'[b0] = size /\ \A b \in DOMAIN held : b # b0 => held'[b] = held[b]
  BY <1>1
<1>6. b0 \notin DOMAIN held /\ b0 \notin BBs(bigblocks)
  BY <1>3, <1>4
<1> HIDE DEF b0
<1>7. \A b \in DOMAIN held' : /\ held'[b] \in Sizes /\ ~ AssertFails(held'[b] + SLOB_UNIT)
                              /\ heap'.units[b] = SLOB_UNITS(held'[b] + SLOB_UNIT)
  <2> SUFFICES ASSUME NEW b \in DOMAIN held'
               PROVE  /\ held'[b] \in Sizes /\ ~ AssertFails(held'[b] + SLOB_UNIT)
                      /\ heap'.units[b] = SLOB_UNITS(held'[b] + SLOB_UNIT)
    OBVIOUS
  <2>1. CASE b = b0
    BY <1>2, <1>3, <1>5, <2>1
  <2>2. CASE b # b0
    <3>1. b \in DOMAIN held /\ b \in InUse(heap) /\ held'[b] = held[b] /\ heap'.units[b] = heap.units[b]
      BY <1>3, <1>4, <1>5, <2>2
    <3> QED BY <1>4, <3>1
  <2> QED BY <2>1, <2>2
<1>8. \A b \in BBs(bigblocks') : heap'.units[b] = SLOB_UNITS(BIGBLOCK)
  BY <1>2, <1>3, <1>4
<1>9. InUse(heap') = DOMAIN held' \cup BBs(bigblocks') /\ DOMAIN held' \cap BBs(bigblocks') = {}
  BY <1>2, <1>3, <1>4, <1>5, <1>6
<1> QED BY <1>3, <1>7, <1>8, <1>9 DEF SlobInv

\* kmalloc of a large size
LEMMA KmallocBigKeeps ==
  ASSUME SlobInv, NEW size \in Sizes, KmallocBig(size)
  PROVE  SlobInv'
<1>1. PICK r \in Allocs(BIGBLOCK) :
        LET left == freepages \ r.page
            order == find_order(size)
            runs == {p \in left : PageRun(p, order) \subseteq left}
        IN \/ \E p \in runs :
                /\ heap' = r.found.heap
                /\ bigblocks' = <<[bb |-> r.found.block, order |-> order, page |-> p,
                                   size |-> size]>> \o bigblocks
                /\ freepages' = left \ PageRun(p, order)
           \/ /\ runs = {}
              /\ FindsPlace(r.found.heap, r.found.block)
              /\ heap' = Freed(r.found.heap, r.found.block, SLOB_UNITS(BIGBLOCK))
              /\ UNCHANGED bigblocks
              /\ freepages' = left
  BY DEF KmallocBig
<1>2. held' = held
  BY DEF KmallocBig
<1> DEFINE b0 == r.found.block
           h == r.found.heap
           left == freepages \ r.page
           order == find_order(size)
           kept == KeptOf(bigblocks, left)
<1>3. /\ r.page \in SUBSET freepages
      /\ BigsOK(bigblocks, left) /\ HeapOK(h, Owned(kept))
      /\ b0 \in Nat /\ b0 \notin InUse(heap) /\ InUse(h) = InUse(heap) \cup {b0}
      /\ h.units[b0] = SLOB_UNITS(BIGBLOCK)
      /\ \A a \in InUse(heap) : h.units[a] = heap.units[a]
  BY BigblockFits, AllocsKeep
<1>4. /\ InUse(heap) = DOMAIN held \cup BBs(bigblocks)
      /\ DOMAIN held \cap BBs(bigblocks) = {}
      /\ \A b \in DOMAIN held : /\ held[b] \in Sizes /\ ~ AssertFails(held[b] + SLOB_UNIT)
                                /\ heap.units[b] = SLOB_UNITS(held[b] + SLOB_UNIT)
      /\ \A b \in BBs(bigblocks) : heap.units[b] = SLOB_UNITS(BIGBLOCK)
  BY DEF SlobInv
<1>5. b0 \notin DOMAIN held /\ b0 \notin BBs(bigblocks)
  BY <1>3, <1>4
<1>6. left \in SUBSET PageNumbers /\ kept \in SUBSET PageNumbers
  BY <1>3 DEF BigsOK, KeptOf
<1>7. CASE \E p \in left :
             /\ PageRun(p, order) \subseteq left
             /\ heap' = h
             /\ bigblocks' = <<[bb |-> b0, order |-> order, page |-> p, size |-> size]>> \o bigblocks
             /\ freepages' = left \ PageRun(p, order)
  <2>1. PICK p \in left :
          /\ PageRun(p, order) \subseteq left
          /\ heap' = h
          /\ bigblocks' = <<[bb |-> b0, order |-> order, page |-> p, size |-> size]>> \o bigblocks
          /\ freepages' = left \ PageRun(p, order)
    BY <1>7
  <2> DEFINE e == [bb |-> b0, order |-> order, page |-> p, size |-> size]
  <2>2. /\ order \in 0 .. HeapPages /\ p \in PageNumbers
        /\ order # HeapPages => size \div PageCount[order] <= PAGE_SIZE
    BY <1>6, SizesAre, OrderFits
  <2>3. order # HeapPages
    BY <1>6, <2>1, <2>2, RunFits
  <2>4. e \in BigBlock /\ e.bb = b0 /\ RunOf(e) = PageRun(p, order)
    BY <1>3, <2>2 DEF BigBlock, RunOf
  <2>5. e.size \div PageCount[e.order] <= PAGE_SIZE
    BY <2>2, <2>3
  <2>6. bigblocks' = <<e>> \o bigblocks /\ freepages' = left \ RunOf(e)
    BY <2>1, <2>4
  <2> HIDE DEF e, left, b0, h, kept
  <2>7. /\ BigsOK(<<e>> \o bigblocks, left \ RunOf(e))
        /\ BBs(<<e>> \o bigblocks) = BBs(bigblocks) \cup {e.bb}
        /\ KeptOf(<<e>> \o bigblocks, left \ RunOf(e)) = KeptOf(bigblocks, left)
    BY <1>3, <1>5, <2>1, <2>4, <2>5, BigsPush
  <2>8. /\ BigsOK(bigblocks', freepages') /\ BBs(bigblocks') = BBs(bigblocks) \cup {b0}
        /\ HeapOK(heap', Owned(KeptOf(bigblocks', freepages')))
    BY <1>3, <2>1, <2>4, <2>6, <2>7 DEF kept
  <2>9. \A b \in DOMAIN held' : /\ held'[b] \in Sizes /\ ~ AssertFails(held'[b] + SLOB_UNIT)
                                /\ heap'.units[b] = SLOB_UNITS(held'[b] + SLOB_UNIT)
    BY <1>2, <1>3, <1>4, <2>1
  <2>10. \A b \in BBs(bigblocks') : heap'.units[b] = SLOB_UNITS(BIGBLOCK)
    BY <1>3, <1>4, <2>1, <2>8
  <2>11. InUse(heap') = DOMAIN held' \cup BBs(bigblocks') /\ DOMAIN held' \cap BBs(bigblocks') = {}
    BY <1>2, <1>3, <1>4, <1>5, <2>1, <2>8
  <2> QED BY <2>8, <2>9, <2>10, <2>11 DEF SlobInv
<1>8. CASE /\ heap' = Freed(h, b0, SLOB_UNITS(BIGBLOCK))
           /\ bigblocks' = bigblocks /\ freepages' = left
  <2>1. b0 \in InUse(h)
    BY <1>3
  <2>2. /\ HeapOK(Freed(h, b0, h.units[b0]), Owned(kept))
        /\ InUse(Freed(h, b0, h.units[b0])) = InUse(h) \ {b0}
        /\ \A a \in InUse(h) \ {b0} : Freed(h, b0, h.units[b0]).units[a] = h.units[a]
    <3> HIDE DEF h, b0, kept
    <3> QED BY <1>3, <1>6, <2>1, FreeKeeps
  <2>3. heap' = Freed(h, b0, h.units[b0])
    BY <1>3, <1>8
  <2> HIDE DEF left, b0, h
  <2>4. HeapOK(heap', Owned(KeptOf(bigblocks', freepages'))) /\ BigsOK(bigblocks', freepages')
    BY <1>3, <1>8, <2>2, <2>3
  <2>5. InUse(heap') = InUse(heap) /\ \A a \in InUse(heap) : heap'.units[a] = heap.units[a]
    BY <1>3, <2>2, <2>3
  <2> QED BY <1>2, <1>4, <1>8, <2>4, <2>5 DEF SlobInv
<1> QED BY <1>1, <1>7, <1>8

\* kfree of a small block
LEMMA KfreeSmallKeeps ==
  ASSUME SlobInv, NEW b0 \in DOMAIN held, KfreeSmall(b0)
  PROVE  SlobInv'
<1>1. /\ heap' = Freed(heap, b0, heap.units[b0]) /\ bigblocks' = bigblocks /\ freepages' = freepages
      /\ held' = [b \in DOMAIN held \ {b0} |-> held[b]]
  BY DEF KfreeSmall, Restrict
<1>2. /\ BigsOK(bigblocks, freepages) /\ HeapOK(heap, Owned(KeptOf(bigblocks, freepages)))
      /\ InUse(heap) = DOMAIN held \cup BBs(bigblocks)
      /\ DOMAIN held \cap BBs(bigblocks) = {}
      /\ \A b \in DOMAIN held : /\ held[b] \in Sizes /\ ~ AssertFails(held[b] + SLOB_UNIT)
                                /\ heap.units[b] = SLOB_UNITS(held[b] + SLOB_UNIT)
      /\ \A b \in BBs(bigblocks) : heap.units[b] = SLOB_UNITS(BIGBLOCK)
  BY DEF SlobInv
<1>3. KeptOf(bigblocks, freepages) \in SUBSET PageNumbers /\ b0 \in InUse(heap)
  BY <1>2 DEF KeptOf
<1>4. /\ HeapOK(heap', Owned(KeptOf(bigblocks, freepages))) /\ InUse(heap') = InUse(heap) \ {b0}
      /\ \A a \in InUse(heap) \ {b0} : heap'.units[a] = heap.units[a]
  BY <1>1, <1>2, <1>3, FreeKeeps
<1>5. DOMAIN held' = DOMAIN held \ {b0} /\ \A b \in DOMAIN held' : held'[b] = held[b]
  BY <1>1
<1>6. \A b \in DOMAIN held' : /\ held'[b] \in Sizes /\ ~ AssertFails(held'[b] + SLOB_UNIT)
                              /\ heap'.units[b] = SLOB_UNITS(held'[b] + SLOB_UNIT)
  BY <1>2, <1>4, <1>5
<1>7. \A b \in BBs(bigblocks') : heap'.units[b] = SLOB_UNITS(BIGBLOCK)
  BY <1>1, <1>2, <1>4
<1>8. InUse(heap') = DOMAIN held' \cup BBs(bigblocks') /\ DOMAIN held' \cap BBs(bigblocks') = {}
  BY <1>1, <1>2, <1>4, <1>5
<1>9. BigsOK(bigblocks', freepages') /\ HeapOK(heap', Owned(KeptOf(bigblocks', freepages')))
  BY <1>1, <1>2, <1>4
<1> QED BY <1>6, <1>7, <1>8, <1>9 DEF SlobInv

\* kfree of a big block
LEMMA KfreeBigKeeps ==
  ASSUME SlobInv, NEW i \in DOMAIN bigblocks, KfreeBig(i)
  PROVE  SlobInv'
<1> DEFINE b0 == bigblocks[i].bb
<1>1. /\ heap' = Freed(heap, b0, SLOB_UNITS(BIGBLOCK)) /\ held' = held
      /\ bigblocks' = RemoveAt(bigblocks, i) /\ freepages' = freepages \cup RunOf(bigblocks[i])
  BY DEF KfreeBig, RunOf
<1>2. /\ BigsOK(bigblocks, freepages) /\ HeapOK(heap, Owned(KeptOf(bigblocks, freepages)))
      /\ InUse(heap) = DOMAIN held \cup BBs(bigblocks)
      /\ DOMAIN held \cap BBs(bigblocks) = {}
      /\ \A b \in DOMAIN held : /\ held[b] \in Sizes /\ ~ AssertFails(held[b] + SLOB_UNIT)
                                /\ heap.units[b] = SLOB_UNITS(held[b] + SLOB_UNIT)
      /\ \A b \in BBs(bigblocks) : heap.units[b] = SLOB_UNITS(BIGBLOCK)
  BY DEF SlobInv
<1>3. b0 \in BBs(bigblocks)
  BY DEF BBs
<1>4. KeptOf(bigblocks, freepages) \in SUBSET PageNumbers /\ b0 \in InUse(heap)
      /\ heap.units[b0] = SLOB_UNITS(BIGBLOCK)
  BY <1>2, <1>3 DEF KeptOf
<1> HIDE DEF b0
<1>5. /\ HeapOK(heap', Owned(KeptOf(bigblocks, freepages))) /\ InUse(heap') = InUse(heap) \ {b0}
      /\ \A a \in InUse(heap) \ {b0} : heap'.units[a] = heap.units[a]
  BY <1>1, <1>2, <1>4, FreeKeeps
<1>6. /\ BigsOK(bigblocks', freepages') /\ BBs(bigblocks') = BBs(bigblocks) \ {b0}
      /\ KeptOf(bigblocks', freepages') = KeptOf(bigblocks, freepages)
  BY <1>1, <1>2, BigsRemove DEF b0
<1>7. \A b \in DOMAIN held' : /\ held'[b] \in Sizes /\ ~ AssertFails(held'[b] + SLOB_UNIT)
                              /\ heap'.units[b] = SLOB_UNITS(held'[b] + SLOB_UNIT)
  BY <1>1, <1>2, <1>3, <1>5
<1>8. \A b \in BBs(bigblocks') : heap'.units[b] = SLOB_UNITS(BIGBLOCK)
  BY <1>2, <1>5, <1>6
<1>9. InUse(heap') = DOMAIN held' \cup BBs(bigblocks') /\ DOMAIN held' \cap BBs(bigblocks') = {}
  BY <1>1, <1>2, <1>3, <1>5, <1>6
<1>10. HeapOK(heap', Owned(KeptOf(bigblocks', freepages')))
  BY <1>5, <1>6
<1> QED BY <1>6, <1>7, <1>8, <1>9, <1>10 DEF SlobInv

\* Every call preserves the invariant, and so does a call that finds nothing.
LEMMA SlobStep == SlobInv /\ [SlobNext]_slob_vars => SlobInv'
<1> SUFFICES ASSUME SlobInv, [SlobNext]_slob_vars PROVE SlobInv'
  OBVIOUS
<1>1. CASE UNCHANGED slob_vars
  BY <1>1 DEF slob_vars, SlobInv
<1>2. ASSUME NEW size \in Sizes, KmallocSmall(size) PROVE SlobInv'
  BY <1>2, KmallocSmallKeeps
<1>3. ASSUME NEW size \in Sizes, KmallocPanics(size) PROVE SlobInv'
  BY <1>3 DEF KmallocPanics, SlobInv
<1>4. ASSUME NEW size \in Sizes, KmallocBig(size) PROVE SlobInv'
  BY <1>4, KmallocBigKeeps
<1>5. ASSUME NEW size \in Sizes, KmallocFails(size) PROVE SlobInv'
  BY <1>1, <1>5 DEF KmallocFails
<1>6. ASSUME NEW b \in DOMAIN held, KfreeSmall(b) PROVE SlobInv'
  BY <1>6, KfreeSmallKeeps
<1>7. ASSUME NEW i \in DOMAIN bigblocks, KfreeBig(i) PROVE SlobInv'
  BY <1>7, KfreeBigKeeps
<1>8. CASE Panicked
  BY <1>1, <1>8 DEF Panicked
<1> QED BY <1>1, <1>2, <1>3, <1>4, <1>5, <1>6, <1>7, <1>8 DEF SlobNext
-----------------------------------------------------------------------------
(* What the invariant says *)

\* The blocks a loop visits are those with a pointer.
LEMMA ListedAre ==
  ASSUME ListOK(heap)
  PROVE  ListedBlocks = DOMAIN heap.next
<1> DEFINE n == Cardinality(DOMAIN heap.next)
           L == DOMAIN heap.next
           w == Nth(heap)
<1>1. w \in [0 .. n -> L] /\ n \in Nat
  BY NthSteps, ListFacts
<1>2. \A c \in L : \E k \in 1 .. n : w[k] = c
  BY NthVisits
<1> HIDE DEF w, L, n
<1>3. {w[k] : k \in DOMAIN w} = L
  <2>1. DOMAIN w = 0 .. n
    BY <1>1
  <2>2. ASSUME NEW c \in L PROVE c \in {w[k] : k \in DOMAIN w}
    <3>1. PICK k \in 1 .. n : w[k] = c
      BY <1>2
    <3> QED BY <1>1, <2>1, <3>1
  <2>3. ASSUME NEW k \in DOMAIN w PROVE w[k] \in L
    BY <1>1
  <2> QED BY <2>2, <2>3
<1> QED BY <1>3 DEF ListedBlocks, w, L

\* In a circle the addresses wrap once.
LEMMA WrapsOnce ==
  ASSUME NEW n \in Nat, NEW L \in SUBSET (0 .. n), NEW nx, Circle(L, nx)
  PROVE  Cardinality({b \in L : nx[b] <= b}) = 1
<1>1. /\ arena \in L /\ arena = 0
      /\ \A a \in L : /\ a \in Nat /\ nx[a] \in L /\ nx[a] \in Nat
                      /\ \/ a < nx[a] /\ \A c \in L : c <= a \/ nx[a] <= c
                         \/ nx[a] = arena /\ \A c \in L : c <= a
  <2>1. L \in SUBSET Nat
    OBVIOUS
  <2> QED BY <2>1, CircleIs DEF arena
<1>2. PICK m \in L : \A k \in L : k <= m
  <2>1. L # {}
    BY <1>1
  <2> QED BY <2>1, HighestPlace
<1>3. nx[m] <= m
  BY <1>1, <1>2
<1>4. ASSUME NEW b \in L, nx[b] <= b PROVE b = m
  <2>1. \A c \in L : c <= b
    BY <1>1, <1>4
  <2>2. m <= b /\ b <= m /\ m \in Nat /\ b \in Nat
    BY <1>1, <1>2, <2>1
  <2> QED BY <2>2
<1>5. {b \in L : nx[b] <= b} = {m}
  BY <1>3, <1>4
<1> QED BY <1>5, FS_Singleton

\* The list of a heap is the circle that the code relies on.
LEMMA CircleHolds ==
  ASSUME SlobInv
  PROVE  CircleExact
<1> DEFINE U == Owned(KeptOf(bigblocks, freepages))
<1>1. HeapOK(heap, U)
  BY DEF SlobInv
<1> HIDE DEF U
<1>2. ListedBlocks = DOMAIN heap.next
  BY <1>1, HeapListOK, ListedAre
<1>3. /\ HeapEnd \in Nat /\ DOMAIN heap.next \in SUBSET (0 .. HeapEnd)
      /\ arena \in DOMAIN heap.next /\ Circle(DOMAIN heap.next, heap.next)
      /\ \A a \in DOMAIN heap.next : heap.next[a] \in DOMAIN heap.next
      /\ NoneTouch(DOMAIN heap.next, heap.units)
  BY <1>1, HeapFacts
<1> DEFINE L == DOMAIN heap.next
<1>4. Cardinality({b \in L : heap.next[b] <= b}) = 1
  <2> HIDE DEF L
  <2> QED BY <1>3, WrapsOnce DEF L
<1>5. \A b \in L : b + heap.units[b] # heap.next[b]
  BY <1>3 DEF NoneTouch
<1> QED BY <1>2, <1>3, <1>4, <1>5 DEF CircleExact

\* What is not on the list is in use, once.
LEMMA OwnersHold ==
  ASSUME SlobInv
  PROVE  OneOwner
<1> DEFINE U == Owned(KeptOf(bigblocks, freepages))
<1>1. HeapOK(heap, U) /\ InUse(heap) = DOMAIN held \cup BBs(bigblocks)
      /\ DOMAIN held \cap BBs(bigblocks) = {} /\ BigsOK(bigblocks, freepages)
  BY DEF SlobInv
<1> HIDE DEF U
<1>2. ListedBlocks = DOMAIN heap.next
  BY <1>1, HeapListOK, ListedAre
<1>3. DOMAIN heap.next \in SUBSET DOMAIN heap.units
  BY <1>1, HeapFacts
<1>4. Headers = InUse(heap)
  BY <1>1 DEF Headers, BBs
<1>5. DOMAIN heap.units = ListedBlocks \cup Headers /\ ListedBlocks \cap Headers = {}
  BY <1>2, <1>3, <1>4 DEF InUse
<1>6. \A i \in DOMAIN bigblocks : bigblocks[i].bb \notin DOMAIN held
  BY <1>1 DEF BBs
<1>7. \A i, j \in DOMAIN bigblocks : i # j => bigblocks[i].bb # bigblocks[j].bb
  BY <1>1 DEF BigsOK
<1> QED BY <1>5, <1>6, <1>7 DEF OneOwner

\* The units of a big block are those of its pages.
LEMMA BigUnitsAre ==
  ASSUME SlobInv, NEW i \in DOMAIN bigblocks
  PROVE  BigUnits(i) = {u \in Nat : PageOf(u) \in RunOf(bigblocks[i])}
<1> DEFINE p == bigblocks[i].page
           c == PageCount[bigblocks[i].order]
<1>1. bigblocks \in Seq(BigBlock)
  BY DEF SlobInv, BigsOK
<1>2. bigblocks[i] \in BigBlock
  BY <1>1
<1>3. p \in PageNumbers /\ bigblocks[i].order \in 0 .. HeapPages
  BY <1>2 DEF BigBlock
<1>4. p \in Nat /\ c \in Nat
  BY <1>3, PageCountIs DEF PageNumbers
<1>5. BigUnits(i) = PageAt(p) .. PageAt(p + c) - 1 /\ RunOf(bigblocks[i]) = p .. p + c - 1
  BY DEF BigUnits, RunOf, PageRun
<1> HIDE DEF p, c
<1>6. p + c \in Nat /\ PageAt(p) \in Nat /\ PageAt(p + c) \in Nat
  BY <1>4, PageAtIs
<1>7. ASSUME NEW u \in Nat PROVE u \in BigUnits(i) <=> PageOf(u) \in RunOf(bigblocks[i])
  <2>1. u \in PageAt(p) .. PageAt(p + c) - 1 <=> p <= PageOf(u) /\ PageOf(u) < p + c
    BY <1>4, <1>6, UnitsOfPages
  <2>2. PageOf(u) \in Nat
    BY PageOfIs
  <2> DEFINE q == PageOf(u)
  <2>3. q \in p .. p + c - 1 <=> p <= q /\ q < p + c
    <3>1. q \in Nat
      BY <2>2
    <3> HIDE DEF q
    <3> QED BY <1>4, <3>1
  <2> QED BY <1>5, <2>1, <2>3
<1>8. \A u \in BigUnits(i) : u \in Nat
  BY <1>5, <1>6
<1> QED BY <1>7, <1>8

\* The units of the pages taken are the units of blocks and of big blocks.
LEMMA DividedHolds ==
  ASSUME SlobInv
  PROVE  PagesDivided
<1> DEFINE K == KeptOf(bigblocks, freepages)
           D == DOMAIN heap.units
           taken == PageNumbers \ freepages
<1>1. BigsOK(bigblocks, freepages) /\ HeapOK(heap, Owned(K))
  BY DEF SlobInv
<1>2. /\ \A i \in DOMAIN bigblocks : RunOf(bigblocks[i]) \subseteq PageNumbers \ freepages
      /\ \A i, j \in DOMAIN bigblocks : i # j => RunOf(bigblocks[i]) \cap RunOf(bigblocks[j]) = {}
  BY <1>1 DEF BigsOK
<1>3. K \cup RunsOf(bigblocks) = taken /\ K \cap RunsOf(bigblocks) = {}
  BY <1>2 DEF KeptOf, RunsOf
<1>4. /\ Divides(D, heap.units, Owned(K))
      /\ \A a \in D : a \in Nat /\ heap.units[a] \in Nat \ {0}
      /\ \A a, b \in D : a < b => a + heap.units[a] <= b
  <2> HIDE DEF K
  <2> QED BY <1>1, HeapFacts
<1>5. \A i \in DOMAIN bigblocks : BigUnits(i) = {u \in Nat : PageOf(u) \in RunOf(bigblocks[i])}
  BY BigUnitsAre
<1> HIDE DEF K, D
<1>6. ASSUME NEW b \in D, NEW x
      PROVE  x \in Units(b) <=> x \in Nat /\ b <= x /\ x < b + heap.units[b]
  BY <1>4 DEF Units
<1>7. UNION {Units(b) : b \in D} = Owned(K)
  <2>1. ASSUME NEW x \in Owned(K) PROVE x \in UNION {Units(b) : b \in D}
    <3>1. x \in Nat
      BY DEF Owned
    <3>2. PICK b \in D : b <= x /\ x < b + heap.units[b]
      BY <1>4, <3>1 DEF Divides
    <3>3. x \in Units(b)
      BY <1>6, <3>1, <3>2
    <3> QED BY <3>3
  <2>2. ASSUME NEW b \in D, NEW x \in Units(b) PROVE x \in Owned(K)
    BY <1>4, <1>6 DEF Divides
  <2> QED BY <2>1, <2>2
<1>8. UNION {BigUnits(i) : i \in DOMAIN bigblocks} = {u \in Nat : PageOf(u) \in RunsOf(bigblocks)}
  BY <1>5 DEF RunsOf
<1>9. UNION {PageAt(p) .. PageAt(p + 1) - 1 : p \in taken} = {u \in Nat : PageOf(u) \in taken}
  <2>1. ASSUME NEW p \in taken
        PROVE  /\ p \in Nat
               /\ \A u : u \in PageAt(p) .. PageAt(p + 1) - 1 <=> u \in Nat /\ PageOf(u) = p
    <3>1. p \in Nat /\ p + 1 \in Nat /\ PageAt(p) \in Nat /\ PageAt(p + 1) \in Nat
      <4>1. p \in Nat /\ p + 1 \in Nat
        BY DEF PageNumbers
      <4> QED BY <4>1, PageAtIs
    <3>2. ASSUME NEW u \in Nat PROVE u \in PageAt(p) .. PageAt(p + 1) - 1 <=> PageOf(u) = p
      <4>1. u \in PageAt(p) .. PageAt(p + 1) - 1 <=> p <= PageOf(u) /\ PageOf(u) < p + 1
        BY <3>1, UnitsOfPages
      <4>2. PageOf(u) \in Nat
        BY PageOfIs
      <4> DEFINE q == PageOf(u)
      <4>3. p <= q /\ q < p + 1 <=> q = p
        <5>1. q \in Nat
          BY <4>2
        <5> HIDE DEF q
        <5> QED BY <3>1, <5>1
      <4> QED BY <4>1, <4>3
    <3>3. \A u \in PageAt(p) .. PageAt(p + 1) - 1 : u \in Nat
      BY <3>1
    <3> QED BY <3>1, <3>2, <3>3
  <2> HIDE DEF taken
  <2>2. ASSUME NEW u \in {v \in Nat : PageOf(v) \in taken}
        PROVE  u \in UNION {PageAt(p) .. PageAt(p + 1) - 1 : p \in taken}
    <3>1. PageOf(u) \in taken /\ u \in PageAt(PageOf(u)) .. PageAt(PageOf(u) + 1) - 1
      BY <2>1
    <3> QED BY <3>1
  <2>3. ASSUME NEW p \in taken, NEW u \in PageAt(p) .. PageAt(p + 1) - 1
        PROVE  u \in {v \in Nat : PageOf(v) \in taken}
    BY <2>1
  <2> QED BY <2>2, <2>3
<1>10. (UNION {Units(b) : b \in D}) \cup (UNION {BigUnits(i) : i \in DOMAIN bigblocks})
         = {arena} \cup (UNION {PageAt(p) .. PageAt(p + 1) - 1 : p \in taken})
  <2> HIDE DEF taken
  <2>1. Owned(K) = {arena} \cup {u \in Nat : PageOf(u) \in K}
    BY DEF Owned, arena
  <2>2. {u \in Nat : PageOf(u) \in K} \cup {u \in Nat : PageOf(u) \in RunsOf(bigblocks)}
          = {u \in Nat : PageOf(u) \in taken}
    BY <1>3
  <2> QED BY <1>7, <1>8, <1>9, <2>1, <2>2
<1>11. ASSUME NEW b \in D PROVE Units(b) # {}
  <2>1. b \in Units(b)
    BY <1>4, <1>6
  <2> QED BY <2>1
<1>12. ASSUME NEW b \in D, NEW c \in D, b # c PROVE Units(b) \cap Units(c) = {}
  <2> SUFFICES ASSUME NEW x \in Units(b), x \in Units(c) PROVE FALSE
    OBVIOUS
  <2>1. /\ x \in Nat /\ b <= x /\ x < b + heap.units[b] /\ c <= x /\ x < c + heap.units[c]
        /\ b \in Nat /\ c \in Nat
    BY <1>4, <1>6
  <2>2. heap.units[b] \in Nat /\ heap.units[c] \in Nat
    BY <1>4
  <2>3. CASE b < c
    <3>1. b + heap.units[b] <= c
      BY <1>4, <2>3
    <3> QED BY <2>1, <2>2, <3>1
  <2>4. CASE c < b
    <3>1. c + heap.units[c] <= b
      BY <1>4, <2>4
    <3> QED BY <2>1, <2>2, <3>1
  <2> QED BY <1>12, <2>1, <2>3, <2>4
<1>13. ASSUME NEW b \in D, NEW i \in DOMAIN bigblocks PROVE Units(b) \cap BigUnits(i) = {}
  <2> SUFFICES ASSUME NEW x \in Units(b), x \in BigUnits(i) PROVE FALSE
    OBVIOUS
  <2>1. x \in Owned(K) /\ x \in Nat /\ PageOf(x) \in RunOf(bigblocks[i])
    BY <1>5, <1>7
  <2>2. PageOf(x) \in RunsOf(bigblocks)
    BY <2>1 DEF RunsOf
  <2>3. x = arena
    BY <1>3, <2>1, <2>2 DEF Owned
  <2>4. ~ (PageAt(1) <= 0)
    BY PageAtIs, PageUnitsAre
  <2>5. PageOf(0) \in Nat /\ (PageAt(1) <= 0 <=> 1 <= PageOf(0))
    BY PageOfIs
  <2>6. PageOf(x) \in 1 .. HeapPages
    BY <1>2, <2>1 DEF PageNumbers
  <2> QED BY <2>3, <2>4, <2>5, <2>6 DEF arena
<1>14. ASSUME NEW i \in DOMAIN bigblocks, NEW j \in DOMAIN bigblocks, i # j
       PROVE  BigUnits(i) \cap BigUnits(j) = {}
  BY <1>2, <1>5, <1>14
<1> QED BY <1>10, <1>11, <1>12, <1>13, <1>14 DEF PagesDivided, D

\* What is behind the header, or the pages of a big block, cover what was asked.
LEMMA RoomHolds ==
  ASSUME SlobInv
  PROVE  RoomEnough
<1>1. ASSUME NEW b \in DOMAIN held PROVE Room(b) >= held[b]
  <2> DEFINE size == held[b]
             n == SLOB_UNITS(size + SLOB_UNIT)
  <2>1. size \in Sizes /\ ~ AssertFails(size + SLOB_UNIT) /\ heap.units[b] = n
    BY DEF SlobInv
  <2>2. size \in Nat /\ SLOB_UNIT \in Nat /\ size + SLOB_UNIT \in Nat /\ size + SLOB_UNIT > SLOB_UNIT
    BY <2>1, SizesAre, SlobAssumption
  <2>3. n \in Nat /\ n * SLOB_UNIT >= size + SLOB_UNIT
    BY <2>1, <2>2, UnitsAsked
  <2> HIDE DEF n, size
  <2>4. n * SLOB_UNIT \in Nat
    BY <2>2, <2>3
  <2>5. n * SLOB_UNIT - SLOB_UNIT >= size
    BY <2>2, <2>3, <2>4
  <2>6. Room(b) = n * SLOB_UNIT - SLOB_UNIT
    BY <2>1 DEF Room, Ksize
  <2> QED BY <2>5, <2>6 DEF size
<1>2. ASSUME NEW i \in DOMAIN bigblocks
      PROVE  LET size == bigblocks[i].size
                 pages == PageCount[bigblocks[i].order]
             IN size - KsizeBig(i) < pages /\ (size % pages = 0 => KsizeBig(i) >= size)
  <2> DEFINE size == bigblocks[i].size
             pages == PageCount[bigblocks[i].order]
  <2>1. bigblocks \in Seq(BigBlock) /\ size \div pages <= PAGE_SIZE
    BY DEF SlobInv, BigsOK
  <2>2. bigblocks[i] \in BigBlock
    BY <2>1
  <2>3. size \in Sizes /\ bigblocks[i].order \in 0 .. HeapPages
    BY <2>2 DEF BigBlock
  <2>4. size \in Nat /\ pages \in Nat \ {0}
    BY <2>3, SizesAre, PageCountIs
  <2>5. KsizeBig(i) = PAGE_SIZE * pages
    BY DEF KsizeBig
  <2> HIDE DEF size, pages
  <2>6. size - PAGE_SIZE * pages < pages /\ (size % pages = 0 => PAGE_SIZE * pages >= size)
    BY <2>1, <2>4, ShortByLess
  <2> QED BY <2>5, <2>6 DEF size, pages
<1> QED BY <1>1, <1>2 DEF RoomEnough

\* kmalloc's memory, for every size of page, unit and bigblock_t, every number of pages and
\* all sizes asked for: the free list is one circle in address order, every block has one
\* owner, the blocks divide the pages taken, a small block has room behind its header
\* for what was asked, and a big block is short by no more than find_order rounds off.
THEOREM KmallocAlwaysExact == SlobSpec => []KmallocExact
<1>1. SlobInit => SlobInv
  BY SlobInitHolds
<1>2. SlobInv /\ [SlobNext]_slob_vars => SlobInv'
  BY SlobStep
<1>3. SlobInv => KmallocExact
  BY CircleHolds, OwnersHold, DividedHolds, RoomHolds DEF KmallocExact
<1> QED BY <1>1, <1>2, <1>3, PTL DEF SlobSpec
-----------------------------------------------------------------------------
(* The buddy allocator: powers of two *)

\* 1 << k for the bits of a word.
LEMMA PowerIs ==
  /\ WordBits \in Nat
  /\ \A k \in 0 .. WordBits : Power[k] \in Nat /\ Power[k] > k
  /\ Power[0] = 1
  /\ \A k \in 1 .. WordBits : Power[k] = 2 * Power[k-1]
<1> DEFINE Def(f) == f = [k \in 0 .. WordBits |-> IF k = 0 THEN 1 ELSE 2 * f[k-1]]
<1>1. WordBits \in Nat
  BY BuddyAssumption
<1>2. Power = CHOOSE f : Def(f)
  BY DEF Power
<1>3. \E f : Def(f)
  BY <1>1, Doubling
<1>4. Def(Power)
  <2> HIDE DEF Def
  <2> QED BY <1>2, <1>3
<1> QED BY <1>1, <1>4, Doubling

\* A power of two is a multiple of each one before it.
LEMMA PowerDivides ==
  ASSUME NEW i \in 0 .. WordBits, NEW j \in 0 .. i
  PROVE  /\ Power[j] <= Power[i]
         /\ \E r \in Nat \ {0} : Power[i] = r * Power[j] /\ (j < i => \E s \in Nat : r = 2 * s)
<1> DEFINE P(k) == \E r \in Nat \ {0} : Power[k] = r * Power[j] /\ (j < k => \E s \in Nat : r = 2 * s)
           T == {k \in 0 .. WordBits : k >= j => P(k)}
<1>1. WordBits \in Nat /\ j \in 0 .. WordBits /\ Power[j] \in Nat
  BY PowerIs
<1>2. P(j)
  <2>1. Power[j] = 1 * Power[j] /\ 1 \in Nat \ {0}
    BY <1>1
  <2> QED BY <2>1
<1>3. 0 \in T
  <2>1. 0 >= j => j = 0
    BY <1>1
  <2> HIDE DEF P
  <2> QED BY <1>1, <1>2, <2>1
<1>4. ASSUME NEW k \in 1 .. WordBits, k - 1 \in T PROVE k \in T
  <2>1. CASE k < j
    BY <2>1, <1>1
  <2>2. CASE k = j
    <3> HIDE DEF P
    <3> QED BY <2>2, <1>1, <1>2
  <2>3. CASE k > j
    <3>1. PICK r \in Nat \ {0} : Power[k-1] = r * Power[j]
      BY <1>4, <2>3, <1>1
    <3>2. Power[k] = 2 * Power[k-1]
      BY PowerIs
    <3>3. Power[k] = (2 * r) * Power[j] /\ 2 * r \in Nat \ {0}
      BY <3>1, <3>2, <1>1
    <3>4. P(k)
      BY <3>3
    <3> HIDE DEF P
    <3> QED BY <3>4
  <2> QED BY <2>1, <2>2, <2>3, <1>1
<1>5. \A k \in 0 .. WordBits : k \in T
  <2> HIDE DEF T
  <2> QED BY <1>1, <1>3, <1>4, PlaceInduction
<1>6. P(i)
  <2> HIDE DEF P
  <2> QED BY <1>1, <1>5
<1>7. PICK r \in Nat \ {0} : Power[i] = r * Power[j]
  BY <1>6
<1>8. r * Power[j] >= Power[j]
  BY <1>1
<1> QED BY <1>6, <1>7, <1>8
-----------------------------------------------------------------------------
(* Exclusive or *)

\* What is left over is what a division says it is.
LEMMA DividesOnce ==
  ASSUME NEW x \in Nat, NEW d \in Nat \ {0}, NEW q \in Nat, NEW r \in 0 .. d - 1, x = d * q + r
  PROVE  x \div d = q /\ x % d = r
<1> DEFINE t == x \div d
<1>1. t \in Nat /\ \A n \in Nat : n * d <= x <=> n <= t
  BY Quotient
<1>2. x % d \in 0 .. d - 1 /\ x = d * t + (x % d)
  OBVIOUS
<1> HIDE DEF t
<1>3. d * q \in Nat /\ q * d = d * q /\ (q + 1) * d = d * q + d
  OBVIOUS
<1>4. q * d <= x /\ ~ ((q + 1) * d <= x) /\ q + 1 \in Nat
  BY <1>3
<1>5. q <= t /\ ~ (q + 1 <= t)
  BY <1>1, <1>4
<1>6. t = q
  BY <1>1, <1>5
<1>7. x = d * q + (x % d)
  BY <1>2, <1>6
<1> QED BY <1>2, <1>3, <1>6, <1>7 DEF t

\* Bit k of x.
Bit(x, k) == (x \div Power[k]) % 2

\* One bit more of a number.
LEMMA OneBit ==
  ASSUME NEW x \in Nat, NEW k \in 1 .. WordBits
  PROVE  /\ Bit(x, k - 1) \in {0, 1}
         /\ x % Power[k] = (x % Power[k-1]) + (IF Bit(x, k - 1) = 1 THEN Power[k-1] ELSE 0)
         /\ x % Power[k-1] \in Nat /\ x % Power[k] \in Nat
<1> DEFINE p == Power[k-1]
           d == Power[k]
<1>1. p \in Nat \ {0} /\ d = 2 * p
  <2>1. k - 1 \in 0 .. WordBits /\ k \in 0 .. WordBits
    BY PowerIs
  <2> QED BY <2>1, PowerIs
<1> DEFINE q == x \div p
           r == x % p
           s == q \div 2
           t == q % 2
<1> HIDE DEF p, d
<1>2. q \in Nat
  BY <1>1, Quotient
<1>3. r \in 0 .. p - 1 /\ x = p * q + r
  BY <1>1
<1> HIDE DEF q, r
<1>4. s \in Nat /\ t \in 0 .. 1 /\ q = 2 * s + t
  BY <1>2, Quotient
<1> HIDE DEF s, t
<1>5. p * q = d * s + p * t
  BY <1>1, <1>4
<1>6. t = 0 \/ t = 1
  BY <1>4
<1>7. p * t = IF t = 1 THEN p ELSE 0
  BY <1>1, <1>6
<1>8. x = d * s + (p * t + r)
  <2>1. d * s \in Nat /\ p * t \in Nat /\ r \in Nat
    BY <1>1, <1>3, <1>4
  <2> QED BY <1>3, <1>5, <2>1
<1>9. p * t + r \in 0 .. d - 1 /\ d \in Nat \ {0}
  BY <1>1, <1>3, <1>6, <1>7
<1>10. x % d = p * t + r
  BY <1>4, <1>8, <1>9, DividesOnce
<1>11. x % d = r + (IF t = 1 THEN p ELSE 0) /\ x % d \in Nat /\ r \in Nat
  BY <1>1, <1>3, <1>6, <1>7, <1>9, <1>10
<1>12. Bit(x, k - 1) = t
  BY DEF Bit, t, q, p
<1> QED BY <1>6, <1>11, <1>12 DEF r, p, d

\* The exclusive or of the k lowest bits.
LowBits(x, y, f) ==
  /\ f \in [0 .. WordBits -> Nat] /\ f[0] = 0
  /\ \A k \in 1 .. WordBits :
        f[k] = IF Bit(x, k - 1) = Bit(y, k - 1) THEN f[k-1] ELSE f[k-1] + Power[k-1]

\* x ^ y is what the bits make of it.
LEMMA XorIs ==
  ASSUME NEW x \in Nat, NEW y \in Nat
  PROVE  \E f : LowBits(x, y, f) /\ Xor(x, y) = f[WordBits]
<1> DEFINE n == WordBits
           Same(k) == (x \div Power[k-1]) % 2 = (y \div Power[k-1]) % 2
           step == [v \in Nat \X (1 .. n) |-> IF Same(v[2]) THEN v[1] ELSE v[1] + Power[v[2]-1]]
           Def(f) == f = [k \in 0 .. n |-> IF k = 0 THEN 0
                                           ELSE IF (x \div Power[k-1]) % 2 = (y \div Power[k-1]) % 2 THEN f[k-1]
                                           ELSE f[k-1] + Power[k-1]]
           low == CHOOSE f : Def(f)
<1>1. n \in Nat /\ \A k \in 1 .. n : k - 1 \in 0 .. n /\ Power[k-1] \in Nat
  <2>1. n \in Nat /\ \A k \in 1 .. n : k - 1 \in 0 .. n
    BY PowerIs
  <2> QED BY <2>1, PowerIs
<1>2. step \in [Nat \X (1 .. n) -> Nat]
  <2> HIDE DEF Same
  <2>1. ASSUME NEW v \in Nat \X (1 .. n) PROVE (IF Same(v[2]) THEN v[1] ELSE v[1] + Power[v[2]-1]) \in Nat
    <3>1. v[1] \in Nat /\ v[2] \in 1 .. n
      OBVIOUS
    <3>2. Power[v[2]-1] \in Nat
      BY <1>1, <3>1
    <3> QED BY <3>1, <3>2
  <2> QED BY <2>1
<1>3. PICK f : Builds(f, n, Nat, 0, step)
  <2> HIDE DEF step
  <2> QED BY <1>1, <1>2, BuildsExists
<1>4. f \in [0 .. n -> Nat] /\ f[0] = 0
  BY <1>3 DEF Builds
<1>5. ASSUME NEW k \in 1 .. n PROVE f[k] = IF Same(k) THEN f[k-1] ELSE f[k-1] + Power[k-1]
  <2> HIDE DEF Same
  <2>1. f[k] = step[<<f[k-1], k>>]
    BY <1>3 DEF Builds
  <2>2. f[k-1] \in Nat
    BY <1>1, <1>4
  <2>3. <<f[k-1], k>> \in Nat \X (1 .. n) /\ <<f[k-1], k>>[1] = f[k-1] /\ <<f[k-1], k>>[2] = k
    BY <2>2
  <2> QED BY <2>1, <2>3
<1>6. Def(f)
  <2>1. \A k \in 0 .. n : f[k] = IF k = 0 THEN 0 ELSE IF Same(k) THEN f[k-1] ELSE f[k-1] + Power[k-1]
    <3> HIDE DEF Same, n
    <3> QED BY <1>1, <1>4, <1>5
  <2>2. f = [k \in 0 .. n |-> IF k = 0 THEN 0 ELSE IF Same(k) THEN f[k-1] ELSE f[k-1] + Power[k-1]]
    <3> HIDE DEF Same, n
    <3> QED BY <1>4, <2>1
  <2> QED BY <2>2
<1>7. Def(low)
  <2> HIDE DEF Def
  <2> QED BY <1>6
<1>8. Xor(x, y) = low[WordBits]
  BY DEF Xor
<1> HIDE DEF low
<1>9. low[0] = 0 /\ \A k \in 1 .. n : low[k] = IF Same(k) THEN low[k-1] ELSE low[k-1] + Power[k-1]
  <2>1. low = [k \in 0 .. n |-> IF k = 0 THEN 0 ELSE IF Same(k) THEN low[k-1] ELSE low[k-1] + Power[k-1]]
    BY <1>7
  <2> HIDE DEF n, Same
  <2>2. \A k \in 0 .. n : low[k] = IF k = 0 THEN 0 ELSE IF Same(k) THEN low[k-1] ELSE low[k-1] + Power[k-1]
    BY <2>1
  <2> QED BY <1>1, <2>2
<1>10. low \in [0 .. n -> Nat]
  <2> DEFINE T == {k \in 0 .. n : low[k] \in Nat}
  <2> HIDE DEF n, Same
  <2>1. 0 \in T /\ \A k \in 1 .. n : k - 1 \in T => k \in T
    BY <1>1, <1>9
  <2>2. \A k \in 0 .. n : k \in T
    <3> HIDE DEF T
    <3> QED BY <1>1, <2>1, PlaceInduction
  <2>3. low = [k \in 0 .. n |-> low[k]]
    BY <1>7 DEF n
  <2> QED BY <2>2, <2>3
<1>11. LowBits(x, y, low)
  BY <1>9, <1>10 DEF LowBits, Bit
<1> QED BY <1>8, <1>11

\* The lowest bit that is set.
LEMMA LowestBit ==
  ASSUME NEW y \in Nat \ {0}, y < Power[WordBits]
  PROVE  \E j \in 0 .. WordBits - 1 : \E s \in Nat :
            /\ y = (2 * Power[j]) * s + Power[j] /\ Power[j+1] = 2 * Power[j]
            /\ \A k \in 0 .. j : y % Power[k] = 0
            /\ y % Power[j+1] = Power[j]
<1> DEFINE K == {k \in 0 .. WordBits : y % Power[k] # 0}
<1>1. WordBits \in 0 .. WordBits /\ Power[WordBits] \in Nat \ {0}
  <2>1. WordBits \in 0 .. WordBits
    BY PowerIs
  <2> QED BY <2>1, PowerIs
<1>2. y % Power[WordBits] = y
  <2>1. y = Power[WordBits] * 0 + y /\ y \in 0 .. Power[WordBits] - 1 /\ 0 \in Nat
    BY <1>1
  <2> QED BY <1>1, <2>1, DividesOnce
<1>3. WordBits \in K
  BY <1>1, <1>2
<1>4. PICK i \in K : \A k \in K : i <= k
  <2>1. K \subseteq Nat /\ K # {}
    BY <1>3
  <2> HIDE DEF K
  <2> QED BY <2>1, FirstPlace
<1>5. /\ i \in 0 .. WordBits /\ y % Power[i] # 0
      /\ \A k \in 0 .. WordBits : k < i => y % Power[k] = 0
  <2>1. ASSUME NEW k \in 0 .. WordBits, k < i, k \in K PROVE FALSE
    BY <1>4, <2>1
  <2> QED BY <2>1
<1> HIDE DEF K
<1>6. i # 0
  <2>1. y % 1 = 0
    OBVIOUS
  <2> QED BY <1>5, <2>1, PowerIs
<1> DEFINE j == i - 1
           p == Power[j]
           d == Power[i]
<1>7. j \in 0 .. WordBits - 1 /\ j + 1 = i /\ i \in 1 .. WordBits /\ j \in 0 .. WordBits /\ j < i
  BY <1>1, <1>5, <1>6
<1>8. p \in Nat \ {0} /\ d = 2 * p
  BY <1>5, <1>7, PowerIs
<1>9. \A k \in 0 .. j : y % Power[k] = 0
  <2>1. ASSUME NEW k \in 0 .. j PROVE k \in 0 .. WordBits /\ k < i
    BY <1>7, PowerIs
  <2> QED BY <1>5, <2>1
<1>10. y % p = 0
  BY <1>5, <1>7
<1>11. y % d = (y % p) + (IF Bit(y, i - 1) = 1 THEN p ELSE 0)
  BY <1>7, OneBit
<1>12. y % d # 0
  BY <1>5
<1> HIDE DEF p, d
<1>13. y % d = p
  <2>1. CASE Bit(y, i - 1) = 1
    <3>1. y % d = 0 + p
      BY <1>10, <1>11, <2>1
    <3> QED BY <1>8, <3>1
  <2>2. CASE Bit(y, i - 1) # 1
    <3>1. y % d = 0 + 0
      BY <1>10, <1>11, <2>2
    <3> QED BY <1>12, <3>1
  <2> QED BY <2>1, <2>2
<1> DEFINE s == y \div d
<1>14. d \in Nat \ {0}
  BY <1>8
<1>15. s \in Nat
  BY <1>14, Quotient
<1>16. y = d * s + (y % d)
  BY <1>14
<1> HIDE DEF s
<1>17. y = (2 * p) * s + p /\ d = 2 * p /\ y % d = p
  BY <1>8, <1>13, <1>16
<1> QED
  <2>1. Power[j+1] = d
    BY <1>7 DEF d
  <2>2. /\ y = (2 * Power[j]) * s + Power[j] /\ Power[j+1] = 2 * Power[j]
        /\ y % Power[j+1] = Power[j]
    BY <1>17, <2>1 DEF p
  <2> QED BY <1>7, <1>9, <1>15, <2>2

\* A multiple m * y has the lowest bit of y when m is odd.
LEMMA BitOfMultiple ==
  ASSUME NEW m \in Nat, NEW y \in Nat, NEW p \in Nat \ {0}, NEW s \in Nat, y = (2 * p) * s + p
  PROVE  (m * y) % (2 * p) = IF m % 2 = 1 THEN p ELSE 0
<1> DEFINE u == m \div 2
           t == m % 2
<1>1. u \in Nat /\ t \in 0 .. 1 /\ m = 2 * u + t
  BY Quotient
<1> HIDE DEF u, t
<1>2. t = 0 \/ t = 1
  BY <1>1
<1>3. CASE t = 0
  <2>1. m * y = (2 * u) * y
    BY <1>1, <1>3
  <2>2. (2 * u) * y = (2 * p) * (u * (2 * s + 1)) + 0
    BY <1>1
  <2>3. u * (2 * s + 1) \in Nat /\ 2 * p \in Nat \ {0} /\ 0 \in 0 .. 2 * p - 1 /\ m * y \in Nat
    BY <1>1
  <2>4. (m * y) % (2 * p) = 0
    BY ONLY <2>1, <2>2, <2>3, DividesOnce
  <2> QED BY <1>3, <2>4 DEF t
<1>4. CASE t = 1
  <2>1. m * y = (2 * u) * y + y
    BY <1>1, <1>4
  <2>2. (2 * u) * y = (2 * p) * (u * (2 * s + 1))
    BY <1>1
  <2>3. m * y = (2 * p) * (u * (2 * s + 1) + s) + p
    BY <1>1, <2>1, <2>2
  <2>4. u * (2 * s + 1) + s \in Nat /\ 2 * p \in Nat \ {0} /\ p \in 0 .. 2 * p - 1 /\ m * y \in Nat
    BY <1>1
  <2>5. (m * y) % (2 * p) = p
    BY ONLY <2>3, <2>4, DividesOnce
  <2> QED BY <1>4, <2>5 DEF t
<1> QED BY <1>2, <1>3, <1>4

\* The exclusive or of m * y and y: their sum without twice the bits they share.  These are
\* some bits of y when m is odd, not all when it is even, and never half of y.
LEMMA XorOfMultiple ==
  ASSUME NEW m \in Nat, NEW y \in Nat \ {0}, m * y < Power[WordBits], y < Power[WordBits]
  PROVE  \E a \in Nat : /\ Xor(m * y, y) = (m * y + y) - 2 * a
                        /\ a <= y /\ 2 * a # y
                        /\ IF m % 2 = 1 THEN a > 0 ELSE a < y
<1> DEFINE x == m * y
           n == WordBits
<1>1. x \in Nat /\ n \in Nat /\ x < Power[n] /\ y < Power[n]
  BY PowerIs
<1>2. PICK j \in 0 .. n - 1 : \E s \in Nat :
            /\ y = (2 * Power[j]) * s + Power[j] /\ Power[j+1] = 2 * Power[j]
            /\ \A k \in 0 .. j : y % Power[k] = 0
            /\ y % Power[j+1] = Power[j]
  BY LowestBit
<1>3. PICK s \in Nat :
            /\ y = (2 * Power[j]) * s + Power[j] /\ Power[j+1] = 2 * Power[j]
            /\ \A k \in 0 .. j : y % Power[k] = 0
            /\ y % Power[j+1] = Power[j]
  BY <1>2
<1> DEFINE p == Power[j]
           odd == m % 2 = 1
<1>4. j \in 0 .. n /\ p \in Nat \ {0}
  <2>1. j \in 0 .. n
    BY <1>1
  <2> QED BY <2>1, PowerIs
<1>5. x % Power[j+1] = IF odd THEN p ELSE 0
  <2>1. y = (2 * p) * s + p /\ Power[j+1] = 2 * p
    BY <1>3
  <2> HIDE DEF p
  <2>2. (m * y) % (2 * p) = IF odd THEN p ELSE 0
    BY <1>4, <2>1, BitOfMultiple
  <2> QED BY <2>1, <2>2
<1>6. PICK f : LowBits(x, y, f) /\ Xor(x, y) = f[n]
  BY <1>1, XorIs
<1> HIDE DEF x, odd
<1>7. /\ f \in [0 .. n -> Nat] /\ f[0] = 0
      /\ \A k \in 1 .. n :
           f[k] = IF Bit(x, k - 1) = Bit(y, k - 1) THEN f[k-1] ELSE f[k-1] + Power[k-1]
  BY <1>6 DEF LowBits
<1> DEFINE Shared(k, a) ==
             /\ a \in Nat /\ f[k] = ((x % Power[k]) + (y % Power[k])) - 2 * a
             /\ a <= y % Power[k]
             /\ \E c \in Nat : a = c * p
             /\ k > j => IF odd THEN a > 0 ELSE a < y % Power[k]
           T == {k \in 0 .. n : \E a : Shared(k, a)}
<1>8. 0 \in T
  <2>1. x % 1 = 0 /\ y % 1 = 0
    BY <1>1
  <2>2. Shared(0, 0)
    <3>1. 0 = 0 * p /\ ~ (0 > j)
      BY <1>1, <1>4
    <3> QED BY <1>7, <2>1, <3>1, PowerIs
  <2> HIDE DEF Shared
  <2> QED BY <1>1, <2>2
<1>9. ASSUME NEW k \in 1 .. n, k - 1 \in T PROVE k \in T
  <2>1. PICK a : Shared(k - 1, a)
    BY <1>9
  <2> DEFINE P == Power[k-1]
             bx == Bit(x, k - 1)
             by == Bit(y, k - 1)
             x0 == x % P
             y0 == y % P
             x1 == x % Power[k]
             y1 == y % Power[k]
             b == IF bx = 1 /\ by = 1 THEN a + P ELSE a
  <2>2. /\ bx \in {0, 1} /\ by \in {0, 1} /\ x0 \in Nat /\ y0 \in Nat /\ x1 \in Nat /\ y1 \in Nat
        /\ x1 = x0 + (IF bx = 1 THEN P ELSE 0) /\ y1 = y0 + (IF by = 1 THEN P ELSE 0)
    BY <1>1, OneBit
  <2>3. k - 1 \in 0 .. n /\ k \in 0 .. n /\ P \in Nat \ {0}
    <3>1. k - 1 \in 0 .. n /\ k \in 0 .. n
      BY <1>1
    <3> QED BY <3>1, PowerIs
  <2>4. /\ a \in Nat /\ f[k-1] = (x0 + y0) - 2 * a /\ a <= y0
        /\ \E c \in Nat : a = c * p
        /\ k - 1 > j => IF odd THEN a > 0 ELSE a < y0
    BY <2>1
  <2>5. f[k] = IF bx = by THEN f[k-1] ELSE f[k-1] + P
    BY <1>7
  <2>6. k <= j => by = 0
    <3>1. k <= j => k \in 0 .. j /\ k - 1 \in 0 .. j
      BY <1>1
    <3>2. k <= j => y1 = 0 /\ y0 = 0
      BY <1>3, <3>1
    <3> HIDE DEF y0, y1, P, by, bx, x0, x1
    <3> QED BY <2>2, <2>3, <3>2
  <2>7. k - 1 = j => /\ y0 = 0 /\ y1 = p /\ P = p /\ x1 = IF odd THEN p ELSE 0
    <3>1. k - 1 = j => k = j + 1 /\ j \in 0 .. j
      BY <1>1
    <3> QED BY <1>3, <1>5, <3>1
  <2>8. by = 1 => \E r \in Nat : P = r * p
    <3> SUFFICES ASSUME by = 1 PROVE \E r \in Nat : P = r * p
      OBVIOUS
    <3>1. ~ (k <= j) /\ j \in Int /\ k \in Int
      <4> HIDE DEF by
      <4> QED BY <2>6, <1>1
    <3>2. j \in 0 .. k - 1 /\ k - 1 \in 0 .. WordBits
      BY <1>1, <2>3, <3>1
    <3> QED BY <3>2, PowerDivides
  <2> HIDE DEF P, bx, by, x0, x1, y0, y1
  <2>9. b \in Nat /\ b <= y1
    BY <2>2, <2>3, <2>4
  <2>10. f[k] = (x1 + y1) - 2 * b
    <3>1. bx = 0 /\ by = 0 => f[k] = (x1 + y1) - 2 * b
      BY <2>2, <2>3, <2>4, <2>5
    <3>2. bx = 1 /\ by = 0 => f[k] = (x1 + y1) - 2 * b
      BY <2>2, <2>3, <2>4, <2>5
    <3>3. bx = 0 /\ by = 1 => f[k] = (x1 + y1) - 2 * b
      BY <2>2, <2>3, <2>4, <2>5
    <3>4. bx = 1 /\ by = 1 => f[k] = (x1 + y1) - 2 * b
      BY <2>2, <2>3, <2>4, <2>5
    <3> QED BY <2>2, <3>1, <3>2, <3>3, <3>4
  <2>11. \E c \in Nat : b = c * p
    <3>1. PICK c \in Nat : a = c * p
      BY <2>4
    <3>2. CASE bx = 1 /\ by = 1
      <4>1. PICK r \in Nat : P = r * p
        BY <2>8, <3>2
      <4>2. b = (c + r) * p /\ c + r \in Nat
        BY <1>4, <3>1, <3>2, <4>1
      <4> QED BY <4>2
    <3>3. CASE ~ (bx = 1 /\ by = 1)
      BY <3>1, <3>3
    <3> QED BY <3>2, <3>3
  <2>12. k > j => IF odd THEN b > 0 ELSE b < y1
    <3>1. CASE k - 1 > j
      <4>1. IF odd THEN a > 0 ELSE a < y0
        BY <2>4, <3>1
      <4> QED BY <2>2, <2>3, <2>4, <4>1
    <3>2. CASE k - 1 = j
      <4>1. a = 0 /\ y0 = 0 /\ y1 = p /\ P = p /\ x1 = IF odd THEN p ELSE 0
        BY <2>2, <2>4, <2>7, <3>2
      <4>2. by = 1
        BY <1>4, <2>2, <4>1
      <4>3. CASE odd
        <5>1. bx = 1
          <6>1. bx = 0 => x0 = p
            BY <2>2, <4>1, <4>3
          <6>2. x0 < P
            BY <1>1, <2>3 DEF x0
          <6> QED BY <1>4, <2>2, <4>1, <6>1, <6>2
        <5> QED BY <1>4, <4>1, <4>2, <4>3, <5>1
      <4>4. CASE ~ odd
        <5>1. bx = 0
          BY <2>2, <2>3, <4>1, <4>4
        <5> QED BY <1>4, <4>1, <4>2, <4>4, <5>1
      <4> QED BY <4>3, <4>4
    <3> QED BY <1>1, <3>1, <3>2
  <2>13. Shared(k, b)
    <3> HIDE DEF b
    <3> QED BY <2>9, <2>10, <2>11, <2>12 DEF x1, y1
  <2> HIDE DEF Shared, b
  <2> QED BY <2>3, <2>13
<1>10. n \in T
  <2>1. \A k \in 0 .. n : k \in T
    <3> HIDE DEF T
    <3> QED BY <1>1, <1>8, <1>9, PlaceInduction
  <2> QED BY <1>1, <2>1
<1>11. PICK a : Shared(n, a)
  BY <1>10
<1>12. x % Power[n] = x /\ y % Power[n] = y
  <2>1. n \in 0 .. n /\ Power[n] \in Nat \ {0}
    <3>1. n \in 0 .. n
      BY <1>1
    <3> QED BY <3>1, PowerIs
  <2> DEFINE d == Power[n]
  <2> HIDE DEF d
  <2>2. d \in Nat \ {0} /\ x = d * 0 + x /\ x \in 0 .. d - 1 /\ y = d * 0 + y /\ y \in 0 .. d - 1 /\ 0 \in Nat
    BY <1>1, <2>1 DEF d
  <2>3. x % d = x /\ y % d = y
    BY <1>1, <2>2, DividesOnce
  <2> QED BY <2>3 DEF d
<1>13. /\ a \in Nat /\ f[n] = (x + y) - 2 * a /\ a <= y
       /\ IF odd THEN a > 0 ELSE a < y
  <2>1. n > j
    BY <1>1
  <2> QED BY <1>11, <1>12, <2>1
<1>14. 2 * a # y
  <2>1. PICK c \in Nat : a = c * p
    BY <1>11
  <2> HIDE DEF p, T, Shared
  <2>2. y = p * (2 * s + 1)
    BY <1>3, <1>4 DEF p
  <2>3. 2 * a = p * (2 * c)
    BY <1>4, <2>1
  <2>4. ASSUME p * (2 * c) = p * (2 * s + 1) PROVE FALSE
    <3>1. 2 * c = 2 * s + 1
      BY ONLY <1>4, <2>4, c \in Nat, s \in Nat
    <3> QED BY ONLY <3>1, c \in Nat, s \in Nat
  <2> QED BY <2>2, <2>3, <2>4
<1> QED BY <1>6, <1>13, <1>14 DEF x, odd

\* When it is a multiple q of y too, q is the other one of the pair m is in.
LEMMA OtherOfPair ==
  ASSUME NEW m \in Nat, NEW y \in Nat \ {0}, m * y < Power[WordBits], y < Power[WordBits],
         NEW q \in Nat, Xor(m * y, y) = q * y
  PROVE  q = IF m % 2 = 1 THEN m - 1 ELSE m + 1
<1>1. PICK a \in Nat : /\ Xor(m * y, y) = (m * y + y) - 2 * a
                      /\ a <= y /\ 2 * a # y
                      /\ IF m % 2 = 1 THEN a > 0 ELSE a < y
  BY XorOfMultiple
<1> DEFINE e == (m + 1) - q
<1>2. 2 * a = e * y /\ e \in Int
  <2>1. q * y = (m * y + y) - 2 * a /\ m * y \in Nat /\ q * y \in Nat
    BY <1>1
  <2>2. ((m + 1) - q) * y = m * y + y - q * y
    OBVIOUS
  <2> QED BY <2>1, <2>2
<1> HIDE DEF e
<1>3. e >= 0
  <2> SUFFICES ASSUME e <= -1 PROVE FALSE
    BY <1>2
  <2>1. e * y <= (-1) * y
    BY <1>2
  <2> QED BY <1>2, <2>1
<1>4. e <= 2
  <2> SUFFICES ASSUME e >= 3 PROVE FALSE
    BY <1>2
  <2>1. e * y >= 3 * y
    BY <1>2
  <2> QED BY <1>1, <1>2, <2>1
<1>5. e # 1
  BY <1>1, <1>2
<1>6. m % 2 = 1 => e # 0
  BY <1>1, <1>2
<1>7. m % 2 # 1 => e # 2
  BY <1>1, <1>2
<1>8. IF m % 2 = 1 THEN e = 2 ELSE e = 0
  BY <1>2, <1>3, <1>4, <1>5, <1>6, <1>7
<1>9. q = (m + 1) - e
  BY DEF e
<1> QED BY <1>8, <1>9
-----------------------------------------------------------------------------
(* Blocks *)

\* The pages of the block c, its first page and its order.
PagesAt(c) == PagesOf(c[1], c[2])
PagesIn(B) == UNION {PagesAt(c) : c \in B}

\* The blocks that can be: a block of order k begins at a multiple of its size.
Halves == {c \in BuddyPages \X Orders :
             PagesAt(c) \subseteq BuddyPages /\ \E m \in Nat : c[1] = m * Power[c[2]]}

\* The blocks of B cover all the pages, each page once.
CoverOnce(B) ==
  /\ B \subseteq Halves
  /\ \A p \in BuddyPages : \E c \in B : p \in PagesAt(c)
  /\ \A c, d \in B : c # d => PagesAt(c) \cap PagesAt(d) = {}

\* A larger order is twice the size at least.
LEMMA PowerGrows ==
  ASSUME NEW i \in 0 .. WordBits, NEW j \in 0 .. WordBits, j < i
  PROVE  2 * Power[j] <= Power[i] /\ Power[j] < Power[i]
<1>1. Power[j] \in Nat \ {0} /\ j + 1 \in 0 .. i /\ j + 1 \in 1 .. WordBits /\ (j + 1) - 1 = j
  BY PowerIs
<1>2. Power[j+1] = 2 * Power[j] /\ Power[i] \in Nat
  BY <1>1, PowerIs
<1>3. Power[j+1] <= Power[i]
  BY <1>1, PowerDivides
<1> QED BY <1>1, <1>2, <1>3

\* The orders are numbers of bits.
LEMMA OrdersAre ==
  /\ max_order \in Nat /\ Orders = 0 .. max_order /\ BuddyPages \subseteq Nat
  /\ \A k \in Orders : k \in 0 .. WordBits /\ k \in Nat /\ Power[k] \in Nat \ {0} /\ k <= max_order
  /\ max_order \in Orders /\ 0 \in BuddyPages
<1>1. max_order \in 0 .. WordBits /\ WordBits \in Nat
  BY BuddyAssumption
<1>2. \A k \in 0 .. max_order : k \in 0 .. WordBits /\ k \in Nat
  BY <1>1
<1>3. Power[max_order] \in Nat \ {0}
  BY <1>1, PowerIs
<1>4. BuddyPages \subseteq Nat /\ 0 \in BuddyPages
  BY <1>3 DEF BuddyPages
<1> QED BY <1>1, <1>2, <1>4, PowerIs DEF Orders

\* The pages of a block.
LEMMA PagesOfIs ==
  ASSUME NEW b \in Nat, NEW k \in Orders
  PROVE  /\ \A x \in Nat : x \in PagesOf(b, k) <=> b <= x /\ x < b + Power[k]
         /\ PagesOf(b, k) \subseteq Nat /\ b \in PagesOf(b, k)
         /\ IsFiniteSet(PagesOf(b, k)) /\ Cardinality(PagesOf(b, k)) = Power[k]
<1> DEFINE n == Power[k]
<1>1. n \in Nat \ {0}
  BY OrdersAre
<1> HIDE DEF n
<1>2. b \in Int /\ b + n - 1 \in Int /\ ~ (b > b + n - 1) /\ (b + n - 1) - b + 1 = n
  BY <1>1
<1>3. /\ IsFiniteSet(b .. b + n - 1)
      /\ Cardinality(b .. b + n - 1) = IF b > b + n - 1 THEN 0 ELSE (b + n - 1) - b + 1
  BY ONLY <1>2, FS_Interval
<1>4. PagesOf(b, k) = b .. b + n - 1
  BY DEF PagesOf, n
<1>5. /\ \A x \in Nat : x \in PagesOf(b, k) <=> b <= x /\ x < b + n
      /\ PagesOf(b, k) \subseteq Nat /\ b \in PagesOf(b, k)
  BY <1>1, <1>4
<1> QED BY <1>2, <1>3, <1>4, <1>5 DEF n

\* What is known of a block.
LEMMA HalfIs ==
  ASSUME NEW c \in Halves
  PROVE  /\ c[1] \in BuddyPages /\ c[1] \in Nat /\ c[2] \in Orders /\ c = <<c[1], c[2]>>
         /\ c[1] \in PagesAt(c) /\ PagesAt(c) \subseteq BuddyPages
         /\ \E m \in Nat : c[1] = m * Power[c[2]]
<1>1. /\ c \in BuddyPages \X Orders /\ PagesAt(c) \subseteq BuddyPages
      /\ \E m \in Nat : c[1] = m * Power[c[2]]
  BY DEF Halves
<1>2. c[1] \in BuddyPages /\ c[2] \in Orders /\ c = <<c[1], c[2]>>
  BY <1>1
<1>3. c[1] \in Nat
  BY <1>2, OrdersAre
<1>4. c[1] \in PagesAt(c)
  BY <1>2, <1>3, PagesOfIs DEF PagesAt
<1> QED BY <1>1, <1>2, <1>3, <1>4

\* Two blocks that share a page are one.
LEMMA SharePage ==
  ASSUME NEW B, CoverOnce(B), NEW c \in B, NEW d \in B, NEW p, p \in PagesAt(c), p \in PagesAt(d)
  PROVE  c = d
BY DEF CoverOnce

\* Blocks are replaced by others that divide the same pages.
LEMMA Replaced ==
  ASSUME NEW B, CoverOnce(B), NEW C \in SUBSET B, NEW D \in SUBSET Halves, PagesIn(D) = PagesIn(C),
         \A c, d \in D : c # d => PagesAt(c) \cap PagesAt(d) = {}
  PROVE  CoverOnce((B \ C) \cup D)
<1> DEFINE E == (B \ C) \cup D
<1>1. E \subseteq Halves
  BY DEF CoverOnce
<1>2. ASSUME NEW p \in BuddyPages PROVE \E c \in E : p \in PagesAt(c)
  <2>1. PICK c \in B : p \in PagesAt(c)
    BY DEF CoverOnce
  <2>2. CASE c \in C
    <3>1. p \in PagesIn(D)
      BY <2>1, <2>2 DEF PagesIn
    <3> QED BY <3>1 DEF PagesIn
  <2> QED BY <2>1, <2>2
<1>3. ASSUME NEW c \in B \ C, NEW d \in D PROVE PagesAt(c) \cap PagesAt(d) = {}
  <2>1. ASSUME NEW p, p \in PagesAt(c), p \in PagesAt(d) PROVE FALSE
    <3>1. p \in PagesIn(C)
      BY <2>1 DEF PagesIn
    <3>2. PICK e \in C : p \in PagesAt(e)
      BY <3>1 DEF PagesIn
    <3>3. c = e
      BY <2>1, <3>2, SharePage
    <3> QED BY <3>2, <3>3
  <2> QED BY <2>1
<1>4. ASSUME NEW c \in E, NEW d \in E, c # d PROVE PagesAt(c) \cap PagesAt(d) = {}
  <2>1. CASE c \in B \ C /\ d \in B \ C
    BY <1>4, <2>1 DEF CoverOnce
  <2>2. CASE c \in B \ C /\ d \in D
    BY <1>3, <2>2
  <2>3. CASE c \in D /\ d \in B \ C
    BY <1>3, <2>3
  <2>4. CASE c \in D /\ d \in D
    BY <1>4, <2>4
  <2> QED BY <2>1, <2>2, <2>3, <2>4
<1> HIDE DEF E
<1>5. CoverOnce(E)
  BY <1>1, <1>2, <1>4 DEF CoverOnce
<1> QED BY <1>5 DEF E

\* What splitting the block b of order i down to order o leaves: the lower part, and the upper
\* half of every split.
Parts(b, i, o) == {<<b, o>>} \cup {<<b + Power[j], j>> : j \in o .. i - 1}

\* The parts are blocks, and divide the pages of the block.
LEMMA PartsDivide ==
  ASSUME NEW b, NEW i, <<b, i>> \in Halves, NEW o \in Orders, o <= i
  PROVE  /\ Parts(b, i, o) \subseteq Halves
         /\ PagesIn(Parts(b, i, o)) = PagesAt(<<b, i>>)
         /\ \A c, d \in Parts(b, i, o) : c # d => PagesAt(c) \cap PagesAt(d) = {}
<1>1. /\ b \in Nat /\ b \in BuddyPages /\ i \in Orders /\ PagesOf(b, i) \subseteq BuddyPages
      /\ \E m \in Nat : b = m * Power[i]
  BY HalfIs DEF PagesAt
<1>2. PICK m \in Nat : b = m * Power[i]
  BY <1>1
<1> DEFINE J == o .. i - 1
<1>3. /\ i \in Nat /\ o \in Nat /\ i \in 0 .. WordBits /\ Power[i] \in Nat \ {0} /\ Power[o] \in Nat \ {0}
      /\ o \in 0 .. i /\ o \in 0 .. WordBits
  BY <1>1, OrdersAre
<1>4. ASSUME NEW j \in J
      PROVE  /\ j \in Orders /\ j \in 0 .. i /\ j < i /\ j \in Nat /\ j >= o /\ Power[j] \in Nat \ {0}
             /\ 2 * Power[j] <= Power[i] /\ Power[o] <= Power[j] /\ j \in 0 .. WordBits
  <2>1. j \in Orders /\ j \in 0 .. i /\ j < i /\ j \in Nat /\ j >= o /\ o \in 0 .. j
    BY <1>1, <1>3, OrdersAre
  <2>2. j \in 0 .. WordBits /\ Power[j] \in Nat \ {0}
    BY <2>1, OrdersAre
  <2>3. 2 * Power[j] <= Power[i]
    BY <1>3, <2>1, <2>2, PowerGrows
  <2>4. Power[o] <= Power[j]
    BY <2>1, <2>2, PowerDivides
  <2> QED BY <2>1, <2>2, <2>3, <2>4
<1>5. \A x \in Nat : x \in PagesOf(b, i) <=> b <= x /\ x < b + Power[i]
  BY <1>1, PagesOfIs
<1>6. /\ PagesOf(b, o) \subseteq Nat
      /\ \A x \in Nat : x \in PagesOf(b, o) <=> b <= x /\ x < b + Power[o]
  BY <1>1, PagesOfIs
<1>7. Power[o] <= Power[i]
  BY <1>3, PowerDivides
<1>8. ASSUME NEW j \in J
      PROVE  /\ PagesOf(b + Power[j], j) \subseteq Nat /\ b + Power[j] \in PagesOf(b + Power[j], j)
             /\ \A x \in Nat : x \in PagesOf(b + Power[j], j) <=> b + Power[j] <= x /\ x < b + 2 * Power[j]
  <2>1. b + Power[j] \in Nat /\ j \in Orders /\ Power[j] \in Nat
    BY <1>1, <1>4
  <2>2. (b + Power[j]) + Power[j] = b + 2 * Power[j]
    BY <1>1, <2>1
  <2>3. /\ PagesOf(b + Power[j], j) \subseteq Nat /\ b + Power[j] \in PagesOf(b + Power[j], j)
        /\ \A x \in Nat : x \in PagesOf(b + Power[j], j) <=> b + Power[j] <= x /\ x < (b + Power[j]) + Power[j]
    BY <2>1, PagesOfIs
  <2> QED BY <2>2, <2>3
<1>9. PagesOf(b, o) \subseteq PagesOf(b, i)
  <2>1. ASSUME NEW x \in PagesOf(b, o) PROVE x \in PagesOf(b, i)
    <3>1. x \in Nat /\ b <= x /\ x < b + Power[o]
      BY <1>6
    <3>2. x < b + Power[i]
      BY <1>1, <1>3, <1>7, <3>1
    <3> QED BY <1>5, <3>1, <3>2
  <2> QED BY <2>1
<1>10. ASSUME NEW j \in J PROVE PagesOf(b + Power[j], j) \subseteq PagesOf(b, i)
  <2>1. ASSUME NEW x \in PagesOf(b + Power[j], j) PROVE x \in PagesOf(b, i)
    <3>1. x \in Nat /\ b + Power[j] <= x /\ x < b + 2 * Power[j]
      BY <1>8
    <3>2. b <= x /\ x < b + Power[i]
      BY <1>1, <1>3, <1>4, <3>1
    <3> QED BY <1>5, <3>1, <3>2
  <2> QED BY <2>1
<1>11. <<b, o>> \in Halves
  <2>1. PICK r \in Nat : Power[i] = r * Power[o]
    BY <1>3, PowerDivides
  <2>2. b = (m * r) * Power[o] /\ m * r \in Nat
    BY <1>2, <1>3, <2>1
  <2>3. <<b, o>> \in BuddyPages \X Orders /\ <<b, o>>[1] = b /\ <<b, o>>[2] = o
    BY <1>1
  <2>4. PagesAt(<<b, o>>) \subseteq BuddyPages
    BY <1>1, <1>9 DEF PagesAt
  <2> QED BY <2>2, <2>3, <2>4 DEF Halves
<1>12. ASSUME NEW j \in J PROVE <<b + Power[j], j>> \in Halves
  <2>1. PICK r \in Nat : Power[i] = r * Power[j]
    BY <1>3, <1>4, PowerDivides
  <2>2. b + Power[j] = (m * r + 1) * Power[j] /\ m * r + 1 \in Nat
    <3>1. b = (m * r) * Power[j] /\ Power[j] \in Nat
      BY <1>2, <1>3, <1>4, <2>1
    <3> DEFINE e == m * r
               q == Power[j]
    <3>2. e \in Nat /\ q \in Nat
      BY <3>1
    <3> HIDE DEF e, q
    <3>3. (e + 1) * q = e * q + q
      BY <3>2
    <3> QED BY <3>1, <3>2, <3>3 DEF e, q
  <2> DEFINE c == <<b + Power[j], j>>
  <2>3. PagesAt(c) = PagesOf(b + Power[j], j)
    BY DEF PagesAt
  <2>4. b + Power[j] \in BuddyPages
    BY <1>1, <1>8, <1>10
  <2>5. c \in BuddyPages \X Orders /\ c[1] = b + Power[j] /\ c[2] = j
    BY <1>4, <2>4
  <2>6. PagesAt(c) \subseteq BuddyPages
    BY <1>1, <1>10, <2>3
  <2> HIDE DEF c
  <2>7. c \in Halves
    BY <2>2, <2>5, <2>6 DEF Halves
  <2> QED BY <2>7 DEF c
<1>13. Parts(b, i, o) \subseteq Halves
  BY <1>11, <1>12 DEF Parts
<1>14. PagesAt(<<b, i>>) = PagesOf(b, i) /\ PagesAt(<<b, o>>) = PagesOf(b, o)
       /\ \A j \in J : PagesAt(<<b + Power[j], j>>) = PagesOf(b + Power[j], j)
  BY DEF PagesAt
<1>15. PagesIn(Parts(b, i, o)) \subseteq PagesOf(b, i)
  BY <1>9, <1>10, <1>14 DEF PagesIn, Parts
<1>16. ASSUME NEW x \in PagesOf(b, i) PROVE x \in PagesIn(Parts(b, i, o))
  <2>1. x \in Nat /\ b <= x /\ x < b + Power[i]
    BY <1>1, <1>5, OrdersAre
  <2>2. CASE x < b + Power[o]
    <3>1. x \in PagesAt(<<b, o>>)
      BY <1>6, <1>14, <2>1, <2>2
    <3> QED BY <3>1 DEF PagesIn, Parts
  <2>3. CASE ~ (x < b + Power[o])
    <3> DEFINE T == {j \in J : b + Power[j] <= x}
    <3>1. o # i /\ o \in J
      BY <1>3, <2>1, <2>3
    <3>2. o \in T
      BY <1>1, <1>3, <2>1, <2>3, <3>1
    <3>3. T \in SUBSET (0 .. i) /\ T # {}
      BY <1>4, <3>2
    <3>4. PICK j \in T : \A k \in T : k <= j
      <4> HIDE DEF T
      <4> QED BY <1>3, <3>3, HighestPlace
    <3>5. j \in J /\ b + Power[j] <= x
      BY <3>4
    <3>6. x < b + 2 * Power[j]
      <4>1. j + 1 \in 1 .. WordBits /\ (j + 1) - 1 = j
        BY <1>3, <1>4, <3>5, PowerIs
      <4>2. Power[j+1] = 2 * Power[j]
        BY <4>1, PowerIs
      <4>3. CASE j + 1 = i
        BY <2>1, <4>2, <4>3
      <4>4. CASE j + 1 # i
        <5>1. j + 1 \in J
          BY <1>3, <1>4, <3>5, <4>4
        <5>2. ~ (j + 1 <= j) /\ j \in Nat
          BY <1>4, <3>5
        <5>3. j + 1 \notin T
          BY <3>4, <5>2
        <5>4. ~ (b + Power[j+1] <= x)
          BY <5>1, <5>3
        <5> QED BY <1>1, <1>4, <2>1, <3>5, <4>2, <5>4
      <4> QED BY <4>3, <4>4
    <3>7. x \in PagesAt(<<b + Power[j], j>>)
      BY <1>8, <1>14, <2>1, <3>5, <3>6
    <3> QED BY <3>5, <3>7 DEF PagesIn, Parts
  <2> QED BY <2>2, <2>3
<1>17. PagesIn(Parts(b, i, o)) = PagesAt(<<b, i>>)
  BY <1>14, <1>15, <1>16
<1>18. ASSUME NEW j \in J PROVE PagesOf(b, o) \cap PagesOf(b + Power[j], j) = {}
  <2>1. ASSUME NEW x, x \in PagesOf(b, o), x \in PagesOf(b + Power[j], j) PROVE FALSE
    <3>1. x \in Nat /\ x < b + Power[o] /\ b + Power[j] <= x
      BY <1>6, <1>8, <2>1
    <3> QED BY <1>1, <1>3, <1>4, <3>1
  <2> QED BY <2>1
<1>19. ASSUME NEW j \in J, NEW k \in J, j # k
       PROVE  PagesOf(b + Power[j], j) \cap PagesOf(b + Power[k], k) = {}
  <2>1. ASSUME NEW x, x \in PagesOf(b + Power[j], j), x \in PagesOf(b + Power[k], k) PROVE FALSE
    <3>1. /\ x \in Nat /\ b + Power[j] <= x /\ x < b + 2 * Power[j]
          /\ b + Power[k] <= x /\ x < b + 2 * Power[k]
      BY <1>8, <2>1
    <3>2. j < k => 2 * Power[j] <= Power[k]
      BY <1>4, PowerGrows
    <3>3. k < j => 2 * Power[k] <= Power[j]
      BY <1>4, PowerGrows
    <3>4. j < k \/ k < j
      BY <1>4, <1>19
    <3> QED BY <1>1, <1>4, <3>1, <3>2, <3>3, <3>4
  <2> QED BY <2>1
<1>20. ASSUME NEW c \in Parts(b, i, o), NEW d \in Parts(b, i, o), c # d
       PROVE  PagesAt(c) \cap PagesAt(d) = {}
  <2>1. CASE c = <<b, o>> /\ d = <<b, o>>
    BY <1>20, <2>1
  <2>2. CASE c = <<b, o>> /\ \E j \in J : d = <<b + Power[j], j>>
    BY <1>14, <1>18, <2>2
  <2>3. CASE d = <<b, o>> /\ \E j \in J : c = <<b + Power[j], j>>
    BY <1>14, <1>18, <2>3
  <2>4. CASE (\E j \in J : c = <<b + Power[j], j>>) /\ (\E j \in J : d = <<b + Power[j], j>>)
    <3>1. PICK j \in J, k \in J : c = <<b + Power[j], j>> /\ d = <<b + Power[k], k>>
      BY <2>4
    <3>2. j # k
      BY <1>20, <3>1
    <3> QED BY <1>14, <1>19, <3>1, <3>2
  <2> QED BY <2>1, <2>2, <2>3, <2>4 DEF Parts
<1> QED BY <1>13, <1>17, <1>20

\* Two halves, the left one at an even multiple of their size, are a block of the next order.
LEMMA PairJoins ==
  ASSUME NEW k \in Orders, k < max_order, NEW m \in Nat, m % 2 = 0,
         <<m * Power[k], k>> \in Halves, <<(m + 1) * Power[k], k>> \in Halves
  PROVE  /\ <<m * Power[k], k + 1>> \in Halves
         /\ PagesAt(<<m * Power[k], k + 1>>) =
              PagesAt(<<m * Power[k], k>>) \cup PagesAt(<<(m + 1) * Power[k], k>>)
<1> DEFINE n == Power[k]
           b == m * n
           e == (m + 1) * n
<1>1. k + 1 \in Orders /\ k \in Nat /\ n \in Nat \ {0} /\ Power[k+1] = 2 * n
  <2>1. k + 1 \in Orders /\ k \in Nat /\ n \in Nat \ {0}
    BY OrdersAre
  <2>2. k + 1 \in 1 .. WordBits /\ (k + 1) - 1 = k
    BY <2>1, OrdersAre
  <2> QED BY <2>1, <2>2, PowerIs
<1>2. /\ b \in BuddyPages /\ PagesOf(b, k) \subseteq BuddyPages /\ PagesOf(e, k) \subseteq BuddyPages
      /\ b \in Nat /\ e \in Nat
  BY HalfIs DEF PagesAt
<1> HIDE DEF n
<1>3. e = b + n
  BY <1>1
<1> HIDE DEF b, e
<1>4. /\ \A x \in Nat : x \in PagesOf(b, k) <=> b <= x /\ x < b + n
      /\ \A x \in Nat : x \in PagesOf(e, k) <=> e <= x /\ x < e + n
      /\ \A x \in Nat : x \in PagesOf(b, k + 1) <=> b <= x /\ x < b + 2 * n
      /\ PagesOf(b, k) \subseteq Nat /\ PagesOf(e, k) \subseteq Nat /\ PagesOf(b, k + 1) \subseteq Nat
  BY <1>1, <1>2, PagesOfIs DEF n
<1>5. PagesOf(b, k + 1) = PagesOf(b, k) \cup PagesOf(e, k)
  <2>1. ASSUME NEW x \in Nat PROVE x \in PagesOf(b, k + 1) <=> x \in PagesOf(b, k) \/ x \in PagesOf(e, k)
    BY <1>1, <1>2, <1>3, <1>4
  <2> QED BY <1>4, <2>1
<1>6. \E h \in Nat : b = h * Power[k+1]
  <2>1. m = 2 * (m \div 2) /\ m \div 2 \in Nat
    <3>1. m = 2 * (m \div 2) + (m % 2)
      OBVIOUS
    <3> QED BY <3>1, Quotient
  <2> DEFINE h == m \div 2
  <2> HIDE DEF h
  <2>2. m = 2 * h /\ h \in Nat
    BY <2>1 DEF h
  <2>3. m * n = h * (2 * n)
    BY <1>1, <2>2
  <2> QED BY <1>1, <2>2, <2>3 DEF b
<1> DEFINE c == <<b, k + 1>>
<1>7. c \in BuddyPages \X Orders /\ c[1] = b /\ c[2] = k + 1 /\ PagesAt(c) = PagesOf(b, k + 1)
  BY <1>1, <1>2 DEF PagesAt
<1> HIDE DEF c
<1>8. c \in Halves
  BY <1>2, <1>5, <1>6, <1>7 DEF Halves
<1>9. PagesAt(<<b, k>>) = PagesOf(b, k) /\ PagesAt(<<e, k>>) = PagesOf(e, k)
  BY DEF PagesAt
<1>10. c \in Halves /\ PagesAt(c) = PagesAt(<<b, k>>) \cup PagesAt(<<e, k>>)
  BY <1>5, <1>7, <1>8, <1>9
<1> QED BY <1>10 DEF c, b, e, n

\* get_buddy: where it names the first page of a block of this order, that is the other half.
LEMMA BuddyIs ==
  ASSUME left_block \in BuddyPages, property[left_block] \in Orders, property[left_block] < max_order,
         NEW m \in Nat, left_block = m * Power[property[left_block]], IsPage(BuddyOffset),
         NEW q \in Nat, BuddyPage = q * Power[property[left_block]]
  PROVE  q = IF m % 2 = 1 THEN m - 1 ELSE m + 1
<1> DEFINE k == property[left_block]
           n == Power[k]
           s == SizeOfPage
           y == n * s
           top == Power[max_order]
<1>1. /\ n \in Nat \ {0} /\ s \in Nat \ {0} /\ top \in Nat \ {0} /\ s * top < Power[WordBits]
      /\ WordBits \in Nat /\ Power[WordBits] \in Nat
  <2>1. WordBits \in Nat /\ WordBits \in 0 .. WordBits
    BY PowerIs
  <2> QED BY <2>1, BuddyAssumption, OrdersAre, PowerIs
<1>2. n < top
  BY OrdersAre, PowerGrows
<1>3. left_block \in Nat /\ left_block < top
  BY <1>1 DEF BuddyPages
<1>4. BuddyOffset = Xor(left_block * s, y)
  BY DEF BuddyOffset
<1>5. BuddyOffset % s = 0 /\ BuddyPage = BuddyOffset \div s
  BY DEF IsPage, BuddyPage
<1>6. left_block = m * n /\ BuddyPage = q * n
  OBVIOUS
<1> HIDE DEF n, s, top, y
<1>7. y \in Nat \ {0}
  <2>1. n * s \in Nat /\ n * s >= s
    BY <1>1
  <2> QED BY <1>1, <2>1 DEF y
<1>8. left_block * s = m * y
  BY <1>1, <1>6 DEF y
<1>9. m * y < Power[WordBits]
  <2>1. left_block * s <= top * s
    BY <1>1, <1>3
  <2> QED BY <1>1, <1>3, <1>8, <2>1
<1>10. y < Power[WordBits]
  <2>1. n * s <= top * s
    BY <1>1, <1>2
  <2> QED BY <1>1, <2>1 DEF y
<1>11. BuddyOffset \in Nat
  <2>1. left_block * s \in Nat
    BY <1>1, <1>3
  <2>2. PICK f : LowBits(left_block * s, y, f) /\ Xor(left_block * s, y) = f[WordBits]
    BY <1>7, <2>1, XorIs
  <2> QED BY <1>1, <1>4, <2>2 DEF LowBits
<1>12. BuddyOffset = q * y
  <2>1. BuddyOffset = s * (BuddyOffset \div s) + (BuddyOffset % s)
    BY <1>1, <1>11
  <2>2. BuddyOffset = s * (q * n)
    BY <1>1, <1>5, <1>6, <1>11, <2>1
  <2> QED BY <1>1, <2>2 DEF y
<1>13. Xor(m * y, y) = q * y
  BY <1>4, <1>8, <1>12
<1> QED BY <1>7, <1>9, <1>10, <1>13, OtherOfPair
-----------------------------------------------------------------------------
(* The lists of blocks *)

\* The blocks that the lists hold, and the blocks in use, whose first pages are D.
OnLists(arr) == UNION {{<<b, k>> : b \in Range(arr[k])} : k \in Orders}
HeldAs(prop, D) == {<<b, prop[b]>> : b \in D}

\* The lists, the orders in the Page structures and the blocks in use fit together.
BlocksOK(arr, prop, D) ==
  /\ arr \in [Orders -> Seq(BuddyPages)] /\ prop \in [BuddyPages -> Orders \cup {-1}]
  /\ D \in SUBSET BuddyPages
  /\ \A k \in Orders : IsInjective(arr[k])
  /\ \A k \in Orders : \A b \in Range(arr[k]) : prop[b] = k /\ b \notin D
  /\ CoverOnce(OnLists(arr) \cup HeldAs(prop, D))

\* The blocks that the lists hold, one by one.
LEMMA OnListsAre ==
  ASSUME NEW arr
  PROVE  /\ \A b, k : <<b, k>> \in OnLists(arr) <=> k \in Orders /\ b \in Range(arr[k])
         /\ \A c \in OnLists(arr) : c = <<c[1], c[2]>>
<1>1. ASSUME NEW c \in OnLists(arr) PROVE \E k \in Orders : \E b \in Range(arr[k]) : c = <<b, k>>
  BY DEF OnLists
<1>2. ASSUME NEW b, NEW k, k \in Orders, b \in Range(arr[k]) PROVE <<b, k>> \in OnLists(arr)
  BY <1>2 DEF OnLists
<1>3. ASSUME NEW b, NEW k, <<b, k>> \in OnLists(arr) PROVE k \in Orders /\ b \in Range(arr[k])
  <2>1. PICK j \in Orders : \E a \in Range(arr[j]) : <<b, k>> = <<a, j>>
    BY <1>1, <1>3
  <2>2. PICK a \in Range(arr[j]) : <<b, k>> = <<a, j>>
    BY <2>1
  <2>3. b = a /\ k = j
    BY <2>2
  <2> QED BY <2>3
<1>4. ASSUME NEW c \in OnLists(arr) PROVE c = <<c[1], c[2]>>
  BY <1>1
<1> QED BY <1>2, <1>3, <1>4

\* list_del takes a block off its list.
LEMMA UnlinkIs ==
  ASSUME NEW S, NEW s \in Seq(S), IsInjective(s), NEW p \in Range(s)
  PROVE  Unlink(s, p) \in Seq(S) /\ IsInjective(Unlink(s, p)) /\ Range(Unlink(s, p)) = Range(s) \ {p}
<1> DEFINE i == CHOOSE i \in DOMAIN s : s[i] = p
<1>1. \E a \in DOMAIN s : s[a] = p
  BY DEF Range
<1>2. i \in DOMAIN s /\ s[i] = p
  BY <1>1
<1>3. i \in 1 .. Len(s)
  BY <1>2
<1>4. Unlink(s, p) = RemoveAt(s, i)
  BY DEF Unlink
<1> HIDE DEF i
<1>5. RemoveAt(s, i) \in Seq(S)
  BY <1>3, RemoveOne
<1>6. IsInjective(RemoveAt(s, i))
  BY <1>3, RemoveOneInjective
<1>7. Range(RemoveAt(s, i)) = Range(s) \ {s[i]}
  BY <1>3, RemoveOneRange
<1> QED BY <1>2, <1>4, <1>5, <1>6, <1>7

\* The first page of a block belongs to no other.
LEMMA FirstOfBlock ==
  ASSUME NEW B, CoverOnce(B), NEW c \in B, NEW d \in B, c[1] \in PagesAt(d)
  PROVE  c = d
<1>1. c \in Halves
  BY DEF CoverOnce
<1> QED BY <1>1, HalfIs, SharePage

\* free_pages gives a block back to the list of its order.
LEMMA GivenOK ==
  ASSUME NEW arr, NEW prop, NEW D, BlocksOK(arr, prop, D), NEW b \in D
  PROVE  /\ prop[b] \in Orders
         /\ BlocksOK([arr EXCEPT ![prop[b]] = <<b>> \o @], prop, D \ {b})
         /\ OnLists([arr EXCEPT ![prop[b]] = <<b>> \o @]) = OnLists(arr) \cup {<<b, prop[b]>>}
         /\ b \in Range([arr EXCEPT ![prop[b]] = <<b>> \o @][prop[b]])
         /\ PagesIn(OnLists(arr)) \cap PagesOf(b, prop[b]) = {}
<1> DEFINE k == prop[b]
           t == <<b>> \o arr[k]
           arr2 == [arr EXCEPT ![k] = t]
           B == OnLists(arr) \cup HeldAs(prop, D)
<1>1. /\ arr \in [Orders -> Seq(BuddyPages)] /\ prop \in [BuddyPages -> Orders \cup {-1}]
      /\ D \in SUBSET BuddyPages
      /\ \A j \in Orders : IsInjective(arr[j])
      /\ \A j \in Orders : \A a \in Range(arr[j]) : prop[a] = j /\ a \notin D
      /\ CoverOnce(B)
  BY DEF BlocksOK
<1>2. <<b, k>> \in B /\ <<b, k>> \in HeldAs(prop, D)
  BY DEF HeldAs
<1>3. k \in Orders /\ b \in BuddyPages /\ b \notin Range(arr[k])
  <2>1. <<b, k>> \in Halves
    BY <1>1, <1>2 DEF CoverOnce
  <2>2. <<b, k>>[2] \in Orders
    BY <2>1, HalfIs
  <2> QED BY <1>1, <2>2
<1> HIDE DEF k
<1>4. arr[k] \in Seq(BuddyPages) /\ IsInjective(arr[k])
  BY <1>1, <1>3
<1>5. t \in Seq(BuddyPages)
  BY <1>3, <1>4, PushFront
<1>6. Range(t) = Range(arr[k]) \cup {b}
  BY <1>3, <1>4, PushFrontRange
<1>7. IsInjective(t)
  BY <1>3, <1>4, PushFrontInjective
<1> HIDE DEF t
<1>8. /\ arr2 \in [Orders -> Seq(BuddyPages)] /\ arr2[k] = t
      /\ \A j \in Orders : j # k => arr2[j] = arr[j]
  BY <1>1, <1>3, <1>5
<1> HIDE DEF arr2
<1>9. \A j \in Orders : IsInjective(arr2[j])
  BY <1>1, <1>7, <1>8
<1>10. /\ Range(arr2[k]) = Range(arr[k]) \cup {b}
       /\ \A j \in Orders : j # k => Range(arr2[j]) = Range(arr[j])
  BY <1>6, <1>8
<1>11. ASSUME NEW j \in Orders, NEW a \in Range(arr2[j]) PROVE prop[a] = j /\ a \notin D \ {b}
  <2>1. CASE a \in Range(arr[j])
    BY <1>1, <2>1
  <2>2. CASE j = k /\ a = b
    BY <2>2 DEF k
  <2> QED BY <1>10, <1>11, <2>1, <2>2
<1>12. OnLists(arr2) = OnLists(arr) \cup {<<b, k>>}
  <2>1. ASSUME NEW c \in OnLists(arr2) PROVE c \in OnLists(arr) \cup {<<b, k>>}
    <3>1. c = <<c[1], c[2]>> /\ c[2] \in Orders /\ c[1] \in Range(arr2[c[2]])
      BY OnListsAre
    <3>2. c[1] \in Range(arr[c[2]]) \/ (c[1] = b /\ c[2] = k)
      BY <1>10, <3>1
    <3>3. CASE c[1] \in Range(arr[c[2]])
      <4>1. <<c[1], c[2]>> \in OnLists(arr)
        BY <3>1, <3>3, OnListsAre
      <4> QED BY <3>1, <4>1
    <3> QED BY <3>1, <3>2, <3>3
  <2>2. ASSUME NEW c \in OnLists(arr) PROVE c \in OnLists(arr2)
    <3>1. c = <<c[1], c[2]>> /\ c[2] \in Orders /\ c[1] \in Range(arr[c[2]])
      BY OnListsAre
    <3>2. <<c[1], c[2]>> \in OnLists(arr2)
      BY <1>10, <3>1, OnListsAre
    <3> QED BY <3>1, <3>2
  <2>3. <<b, k>> \in OnLists(arr2)
    <3>1. b \in Range(arr2[k])
      BY <1>10
    <3> QED BY <1>3, <3>1, OnListsAre
  <2> QED BY <2>1, <2>2, <2>3
<1>13. HeldAs(prop, D) = HeldAs(prop, D \ {b}) \cup {<<b, k>>}
  BY DEF HeldAs, k
<1>14. OnLists(arr2) \cup HeldAs(prop, D \ {b}) = B
  BY <1>12, <1>13
<1>15. BlocksOK(arr2, prop, D \ {b})
  BY <1>1, <1>8, <1>9, <1>11, <1>14 DEF BlocksOK
<1>16. PagesIn(OnLists(arr)) \cap PagesAt(<<b, k>>) = {}
  <2>1. ASSUME NEW x, x \in PagesIn(OnLists(arr)), x \in PagesAt(<<b, k>>) PROVE FALSE
    <3>1. PICK c \in OnLists(arr) : x \in PagesAt(c)
      BY <2>1 DEF PagesIn
    <3>2. c = <<b, k>>
      BY <1>1, <1>2, <2>1, <3>1, SharePage
    <3> QED BY <1>3, <3>1, <3>2, OnListsAre
  <2> QED BY <2>1
<1>17. PagesAt(<<b, k>>) = PagesOf(b, k)
  BY DEF PagesAt
<1>18. b \in Range(arr2[k])
  BY <1>3, <1>10
<1> QED BY <1>3, <1>12, <1>15, <1>16, <1>17, <1>18 DEF arr2, t, k

\* The first block of a list is split, its lower part used: the lists and the orders afterwards.
SplitLists(arr, i, o) ==
  [j \in Orders |-> IF j = i THEN Tail(arr[j])
                    ELSE IF o <= j /\ j < i THEN <<Head(arr[i]) + Power[j]>> \o arr[j]
                    ELSE arr[j]]
SplitOrders(prop, b, i, o) ==
  [p \in BuddyPages |-> IF p = b THEN o
                        ELSE IF \E j \in o .. i - 1 : p = b + Power[j]
                             THEN CHOOSE j \in o .. i - 1 : p = b + Power[j]
                        ELSE prop[p]]

\* alloc_pages takes a block for a request of order o from the list of order i.
LEMMA TakenOK ==
  ASSUME NEW arr, NEW prop, NEW D, BlocksOK(arr, prop, D), NEW o \in Orders, NEW i \in Orders, o <= i,
         arr[i] # << >>
  PROVE  LET b == Head(arr[i])
             arr2 == SplitLists(arr, i, o)
             prop2 == SplitOrders(prop, b, i, o)
         IN  /\ b \in BuddyPages /\ b \notin D
             /\ BlocksOK(arr2, prop2, D \cup {b})
             /\ prop2[b] = o /\ \A h \in D : prop2[h] = prop[h]
             /\ PagesIn(OnLists(arr)) = PagesIn(OnLists(arr2)) \cup PagesOf(b, o)
             /\ PagesIn(OnLists(arr2)) \cap PagesOf(b, o) = {}
<1> DEFINE b == Head(arr[i])
           J == o .. i - 1
           arr2 == SplitLists(arr, i, o)
           prop2 == SplitOrders(prop, b, i, o)
           F == OnLists(arr)
           H == HeldAs(prop, D)
           B == F \cup H
           U == {<<b + Power[j], j>> : j \in J}
<1>1. /\ arr \in [Orders -> Seq(BuddyPages)] /\ prop \in [BuddyPages -> Orders \cup {-1}]
      /\ D \in SUBSET BuddyPages
      /\ \A j \in Orders : IsInjective(arr[j])
      /\ \A j \in Orders : \A a \in Range(arr[j]) : prop[a] = j /\ a \notin D
      /\ CoverOnce(B)
  BY DEF BlocksOK
<1>2. /\ arr[i] \in Seq(BuddyPages) /\ b \in BuddyPages /\ b \in Range(arr[i])
      /\ Tail(arr[i]) \in Seq(BuddyPages) /\ IsInjective(Tail(arr[i]))
      /\ Range(Tail(arr[i])) = Range(arr[i]) \ {b}
  <2>1. arr[i] \in Seq(BuddyPages) /\ IsInjective(arr[i])
    BY <1>1
  <2> QED BY <2>1, PopFront
<1>3. b \in Nat /\ i \in Nat /\ o \in Nat /\ b \notin D
  BY <1>1, <1>2, OrdersAre
<1> HIDE DEF b
<1>4. <<b, i>> \in F /\ <<b, i>> \in B /\ <<b, i>> \in Halves /\ <<b, i>> \notin H
  <2>1. <<b, i>> \in F
    BY <1>2, OnListsAre
  <2>2. <<b, i>> \notin H
    <3>1. ASSUME NEW h \in D, <<b, i>> = <<h, prop[h]>> PROVE FALSE
      BY <1>3, <3>1
    <3> QED BY <3>1 DEF HeldAs
  <2> QED BY <1>1, <2>1, <2>2 DEF CoverOnce
<1>5. ASSUME NEW j \in J
      PROVE  /\ j \in Orders /\ j # i /\ j \in Nat /\ o <= j /\ j < i /\ j \in 0 .. WordBits
             /\ Power[j] \in Nat \ {0}
             /\ b + Power[j] \in BuddyPages /\ b + Power[j] \in PagesAt(<<b, i>>) /\ b + Power[j] # b
  <2>1. j \in Orders /\ j # i /\ j \in Nat /\ o <= j /\ j < i
    BY <1>3, OrdersAre
  <2>2. Power[j] \in Nat \ {0} /\ j \in 0 .. WordBits
    BY <2>1, OrdersAre
  <2>3. <<b + Power[j], j>> \in Parts(b, i, o)
    BY DEF Parts
  <2> DEFINE c == <<b + Power[j], j>>
  <2>4. c \in Halves /\ PagesAt(c) \subseteq PagesAt(<<b, i>>)
    BY <1>4, <2>3, PartsDivide DEF PagesIn
  <2>5. c[1] \in PagesAt(c) /\ c[1] \in BuddyPages /\ c[1] = b + Power[j]
    BY <2>4, HalfIs
  <2>6. b + Power[j] \in BuddyPages /\ b + Power[j] \in PagesAt(<<b, i>>)
    BY <2>4, <2>5
  <2> QED BY <1>3, <2>1, <2>2, <2>6
<1>6. b \in PagesAt(<<b, i>>)
  BY <1>4, HalfIs
\* No other block begins within the block.
<1>7. ASSUME NEW c \in B, c[1] \in PagesAt(<<b, i>>) PROVE c = <<b, i>>
  BY <1>1, <1>4, <1>7, FirstOfBlock
<1>8. ASSUME NEW a, NEW k \in Orders, a \in Range(arr[k]), a \in PagesAt(<<b, i>>) PROVE a = b /\ k = i
  <2>1. <<a, k>> \in B /\ <<a, k>>[1] = a
    BY <1>8, OnListsAre
  <2>2. <<a, k>> = <<b, i>>
    BY <1>7, <1>8, <2>1
  <2> QED BY <2>2
<1>9. ASSUME NEW h \in D PROVE h \notin PagesAt(<<b, i>>)
  <2>1. <<h, prop[h]>> \in B /\ <<h, prop[h]>>[1] = h
    BY DEF HeldAs
  <2>2. h \in PagesAt(<<b, i>>) => <<h, prop[h]>> = <<b, i>>
    BY <1>7, <2>1
  <2>3. h # b
    BY <1>3
  <2> QED BY <2>2, <2>3
\* The lists.
<1>10. /\ arr2[i] = Tail(arr[i])
       /\ \A j \in J : arr2[j] = <<b + Power[j]>> \o arr[j]
       /\ \A j \in Orders : j # i /\ j \notin J => arr2[j] = arr[j]
       /\ DOMAIN arr2 = Orders /\ arr2 = [j \in Orders |-> arr2[j]]
  <2>1. \A j \in Orders : j \in J <=> o <= j /\ j < i
    BY <1>3, OrdersAre
  <2>2. \A j \in J : j \in Orders /\ j # i
    BY <1>5
  <2> HIDE DEF J
  <2> QED BY <2>1, <2>2 DEF SplitLists, b
<1> HIDE DEF arr2
<1>11. ASSUME NEW j \in J
       PROVE  /\ arr2[j] \in Seq(BuddyPages) /\ IsInjective(arr2[j])
              /\ Range(arr2[j]) = Range(arr[j]) \cup {b + Power[j]}
  <2> DEFINE e == b + Power[j]
  <2>1. j \in Orders /\ j # i /\ e \in BuddyPages /\ e \in PagesAt(<<b, i>>) /\ e # b
    BY <1>5
  <2> HIDE DEF e
  <2>2. arr[j] \in Seq(BuddyPages) /\ IsInjective(arr[j])
    BY <1>1, <2>1
  <2>3. e \notin Range(arr[j])
    BY <1>8, <2>1
  <2>4. <<e>> \o arr[j] \in Seq(BuddyPages)
    BY <2>1, <2>2, PushFront
  <2>5. Range(<<e>> \o arr[j]) = Range(arr[j]) \cup {e}
    BY <2>1, <2>2, PushFrontRange
  <2>6. IsInjective(<<e>> \o arr[j])
    BY <2>1, <2>2, <2>3, PushFrontInjective
  <2> QED BY <1>10, <2>4, <2>5, <2>6 DEF e
<1>12. /\ Range(arr2[i]) = Range(arr[i]) \ {b}
       /\ \A j \in Orders : j # i /\ j \notin J => Range(arr2[j]) = Range(arr[j])
  BY <1>2, <1>10
<1>13. ASSUME NEW j \in Orders PROVE arr2[j] \in Seq(BuddyPages) /\ IsInjective(arr2[j])
  <2>1. CASE j = i
    BY <1>2, <1>10, <2>1
  <2>2. CASE j \in J
    BY <1>11, <2>2
  <2>3. CASE j # i /\ j \notin J
    BY <1>1, <1>10, <2>3
  <2> QED BY <2>1, <2>2, <2>3
<1>14. arr2 \in [Orders -> Seq(BuddyPages)]
  BY <1>10, <1>13
<1>15. ASSUME NEW k \in Orders, NEW a \in Range(arr2[k])
       PROVE  \/ a \in Range(arr[k]) /\ a # b
              \/ k \in J /\ a = b + Power[k]
  <2>1. CASE k = i
    BY <1>12, <2>1
  <2>2. CASE k \in J
    <3>1. a \in Range(arr[k]) \/ a = b + Power[k]
      BY <1>11, <2>2
    <3>2. b \notin Range(arr[k])
      BY <1>5, <1>6, <1>8, <2>2
    <3> QED BY <2>2, <3>1, <3>2
  <2>3. CASE k # i /\ k \notin J
    <3>1. a \in Range(arr[k])
      BY <1>12, <2>3
    <3>2. b \notin Range(arr[k])
      BY <1>6, <1>8, <2>3
    <3> QED BY <3>1, <3>2
  <2> QED BY <2>1, <2>2, <2>3
<1>16. ASSUME NEW k \in Orders, NEW a \in Range(arr[k]), a # b PROVE a \in Range(arr2[k])
  BY <1>11, <1>12, <1>16
\* The orders.
<1>17. /\ prop2 \in [BuddyPages -> Orders \cup {-1}] /\ prop2[b] = o
       /\ \A j \in J : prop2[b + Power[j]] = j
       /\ \A p \in BuddyPages : p \notin PagesAt(<<b, i>>) => prop2[p] = prop[p]
  <2>1. ASSUME NEW j \in J, NEW k \in J, b + Power[j] = b + Power[k] PROVE j = k
    <3>1. j < k => Power[j] < Power[k]
      BY <1>5, PowerGrows
    <3>2. k < j => Power[k] < Power[j]
      BY <1>5, PowerGrows
    <3> QED BY <1>3, <1>5, <2>1, <3>1, <3>2
  <2>2. ASSUME NEW p \in BuddyPages
        PROVE  prop2[p] = IF p = b THEN o
                          ELSE IF \E j \in J : p = b + Power[j]
                               THEN CHOOSE j \in J : p = b + Power[j]
                          ELSE prop[p]
    BY DEF SplitOrders
  <2>3. ASSUME NEW j \in J PROVE prop2[b + Power[j]] = j
    <3> DEFINE e == b + Power[j]
               k == CHOOSE k \in J : e = b + Power[k]
    <3>1. e \in BuddyPages /\ e # b
      BY <1>5
    <3>2. k \in J /\ e = b + Power[k]
      OBVIOUS
    <3>3. prop2[e] = k
      <4>1. \E a \in J : e = b + Power[a]
        OBVIOUS
      <4> HIDE DEF e
      <4> QED BY <2>2, <3>1, <4>1
    <3> HIDE DEF k
    <3>4. j = k
      BY <2>1, <3>2
    <3> QED BY <3>3, <3>4
  <2>4. prop2[b] = o
    BY <1>2, <2>2
  <2>5. ASSUME NEW p \in BuddyPages, p \notin PagesAt(<<b, i>>) PROVE prop2[p] = prop[p]
    <3>1. p # b /\ ~ \E j \in J : p = b + Power[j]
      BY <1>5, <1>6, <2>5
    <3> QED BY <2>2, <3>1
  <2>6. ASSUME NEW p \in BuddyPages PROVE prop2[p] \in Orders \cup {-1}
    <3>1. CASE \E j \in J : p = b + Power[j]
      <4>1. PICK j \in J : p = b + Power[j]
        BY <3>1
      <4>2. prop2[p] = j /\ j \in Orders
        BY <1>5, <2>3, <4>1
      <4> QED BY <4>2
    <3>2. CASE p = b
      BY <2>4, <3>2
    <3>3. CASE p # b /\ ~ \E j \in J : p = b + Power[j]
      <4>1. prop2[p] = prop[p]
        BY <2>2, <3>3
      <4> QED BY <1>1, <4>1
    <3> QED BY <3>1, <3>2, <3>3
  <2>7. DOMAIN prop2 = BuddyPages /\ prop2 = [p \in BuddyPages |-> prop2[p]]
    BY DEF SplitOrders
  <2> HIDE DEF prop2
  <2>8. prop2 \in [BuddyPages -> Orders \cup {-1}]
    BY <2>6, <2>7
  <2> QED BY <2>3, <2>4, <2>5, <2>8
<1> HIDE DEF prop2
<1>18. \A h \in D : prop2[h] = prop[h]
  BY <1>1, <1>9, <1>17
<1>19. ASSUME NEW k \in Orders, NEW a \in Range(arr2[k]) PROVE prop2[a] = k /\ a \notin D \cup {b}
  <2>1. CASE a \in Range(arr[k]) /\ a # b
    <3>1. prop[a] = k /\ a \notin D
      BY <1>1, <2>1
    <3>2. a \notin PagesAt(<<b, i>>)
      BY <1>8, <2>1
    <3>3. a \in BuddyPages
      <4>1. arr[k] \in Seq(BuddyPages)
        BY <1>1
      <4> QED BY <2>1, <4>1 DEF Range
    <3> QED BY <1>17, <2>1, <3>1, <3>2, <3>3
  <2>2. CASE k \in J /\ a = b + Power[k]
    <3>1. a \in PagesAt(<<b, i>>) /\ a # b
      BY <1>5, <2>2
    <3>2. a \notin D
      BY <1>9, <3>1
    <3> QED BY <1>17, <2>2, <3>1, <3>2
  <2> QED BY <1>15, <2>1, <2>2
\* The blocks.
<1>20. OnLists(arr2) = (F \ {<<b, i>>}) \cup U
  <2>1. ASSUME NEW c \in OnLists(arr2) PROVE c \in (F \ {<<b, i>>}) \cup U
    <3>1. c = <<c[1], c[2]>> /\ c[2] \in Orders /\ c[1] \in Range(arr2[c[2]])
      BY OnListsAre
    <3>2. CASE c[1] \in Range(arr[c[2]]) /\ c[1] # b
      <4>1. <<c[1], c[2]>> \in F
        BY <3>1, <3>2, OnListsAre
      <4>2. <<c[1], c[2]>> # <<b, i>>
        BY <3>2
      <4> QED BY <3>1, <4>1, <4>2
    <3>3. CASE c[2] \in J /\ c[1] = b + Power[c[2]]
      <4>1. c = <<b + Power[c[2]], c[2]>>
        BY <3>1, <3>3
      <4> QED BY <3>3, <4>1
    <3> QED BY <1>15, <3>1, <3>2, <3>3
  <2>2. ASSUME NEW c \in F, c # <<b, i>> PROVE c \in OnLists(arr2)
    <3>1. c = <<c[1], c[2]>> /\ c[2] \in Orders /\ c[1] \in Range(arr[c[2]])
      BY OnListsAre
    <3>2. c[1] # b
      <4>1. c[1] = b => c[2] = i
        BY <1>6, <1>8, <3>1
      <4> QED BY <2>2, <3>1, <4>1
    <3>3. <<c[1], c[2]>> \in OnLists(arr2)
      BY <1>16, <3>1, <3>2, OnListsAre
    <3> QED BY <3>1, <3>3
  <2>3. ASSUME NEW j \in J PROVE <<b + Power[j], j>> \in OnLists(arr2)
    <3>1. b + Power[j] \in Range(arr2[j]) /\ j \in Orders
      BY <1>5, <1>11
    <3> QED BY <3>1, OnListsAre
  <2> QED BY <2>1, <2>2, <2>3
<1>21. HeldAs(prop2, D \cup {b}) = H \cup {<<b, o>>}
  BY <1>17, <1>18 DEF HeldAs
<1>22. Parts(b, i, o) = U \cup {<<b, o>>}
  BY DEF Parts
<1>23. OnLists(arr2) \cup HeldAs(prop2, D \cup {b}) = (B \ {<<b, i>>}) \cup Parts(b, i, o)
  BY <1>4, <1>20, <1>21, <1>22
<1>24. /\ Parts(b, i, o) \subseteq Halves
       /\ PagesIn(Parts(b, i, o)) = PagesAt(<<b, i>>)
       /\ \A c, d \in Parts(b, i, o) : c # d => PagesAt(c) \cap PagesAt(d) = {}
  BY <1>4, PartsDivide, <1>3
<1>25. CoverOnce((B \ {<<b, i>>}) \cup Parts(b, i, o))
  <2>1. PagesIn({<<b, i>>}) = PagesAt(<<b, i>>)
    BY DEF PagesIn
  <2>2. {<<b, i>>} \in SUBSET B
    BY <1>4
  <2> HIDE DEF B
  <2> QED BY <1>1, <1>24, <2>1, <2>2, Replaced
<1>26. BlocksOK(arr2, prop2, D \cup {b})
  <2>1. D \cup {b} \in SUBSET BuddyPages
    BY <1>1, <1>2
  <2> QED BY <1>13, <1>14, <1>17, <1>19, <1>23, <1>25, <2>1 DEF BlocksOK
\* The pages.
<1>27. PagesAt(<<b, o>>) = PagesOf(b, o)
  BY DEF PagesAt
<1>28. PagesIn(F) = PagesIn(OnLists(arr2)) \cup PagesOf(b, o)
  <2>1. PagesIn(F) = PagesIn(F \ {<<b, i>>}) \cup PagesAt(<<b, i>>)
    BY <1>4 DEF PagesIn
  <2>2. PagesIn(Parts(b, i, o)) = PagesIn(U) \cup PagesAt(<<b, o>>)
    BY <1>22 DEF PagesIn
  <2>3. PagesIn(OnLists(arr2)) = PagesIn(F \ {<<b, i>>}) \cup PagesIn(U)
    BY <1>20 DEF PagesIn
  <2> QED BY <1>24, <1>27, <2>1, <2>2, <2>3
<1>29. PagesIn(OnLists(arr2)) \cap PagesOf(b, o) = {}
  <2>1. ASSUME NEW x, x \in PagesIn(OnLists(arr2)), x \in PagesOf(b, o) PROVE FALSE
    <3>1. PICK c \in OnLists(arr2) : x \in PagesAt(c)
      BY <2>1 DEF PagesIn
    <3>2. <<b, o>> \in Parts(b, i, o)
      BY <1>22
    <3>3. c = <<b, o>>
      <4> DEFINE E == (B \ {<<b, i>>}) \cup Parts(b, i, o)
      <4>1. c \in E /\ <<b, o>> \in E
        BY <1>23, <3>1, <3>2
      <4>2. CoverOnce(E)
        BY <1>25
      <4> HIDE DEF E
      <4> QED BY <1>27, <2>1, <3>1, <4>1, <4>2, SharePage
    <3>4. o \in Orders /\ b \in Range(arr2[o])
      BY <3>1, <3>3, OnListsAre
    <3> QED BY <1>19, <3>4
  <2> QED BY <2>1
<1> QED BY <1>2, <1>3, <1>17, <1>18, <1>26, <1>28, <1>29 DEF arr2, prop2, b

\* One turn of the loop of free_pages: two free blocks of order k, x and z, are off their list,
\* and their union, a block that begins at l, goes to the next one.
MergedLists(arr, k, x, z, l) ==
  [j \in Orders |-> IF j = k THEN Unlink(Unlink(arr[k], x), z)
                    ELSE IF j = k + 1 THEN <<l>> \o arr[j]
                    ELSE arr[j]]

\* That they are the halves of that block, and what becomes of the orders.
Merges(arr, prop, k, x, z, l, prop2) ==
  /\ k \in Orders /\ k < max_order
  /\ x \in Range(arr[k]) /\ z \in Range(arr[k]) /\ x # z /\ l \in {x, z}
  /\ <<l, k + 1>> \in Halves
  /\ PagesAt(<<l, k + 1>>) = PagesAt(<<x, k>>) \cup PagesAt(<<z, k>>)
  /\ prop2 \in [BuddyPages -> Orders \cup {-1}] /\ prop2[l] = k + 1
  /\ \A p \in BuddyPages : p # x /\ p # z => prop2[p] = prop[p]

\* The lists and the blocks in use still fit together.
LEMMA MergedOK ==
  ASSUME NEW arr, NEW prop, NEW D, BlocksOK(arr, prop, D),
         NEW k, NEW x, NEW z, NEW l, NEW prop2, Merges(arr, prop, k, x, z, l, prop2)
  PROVE  LET arr2 == MergedLists(arr, k, x, z, l)
         IN  /\ BlocksOK(arr2, prop2, D)
             /\ \A h \in D : prop2[h] = prop[h]
             /\ l \in Range(arr2[k+1]) /\ k + 1 \in Orders
             /\ PagesIn(OnLists(arr2)) = PagesIn(OnLists(arr))
<1> DEFINE arr2 == MergedLists(arr, k, x, z, l)
           F == OnLists(arr)
           H == HeldAs(prop, D)
           B == F \cup H
           C == {<<x, k>>, <<z, k>>}
           new == <<l, k + 1>>
<1> /\ k \in Orders /\ k < max_order
    /\ x \in Range(arr[k]) /\ z \in Range(arr[k]) /\ x # z /\ l \in {x, z}
    /\ <<l, k + 1>> \in Halves
    /\ PagesAt(<<l, k + 1>>) = PagesAt(<<x, k>>) \cup PagesAt(<<z, k>>)
    /\ prop2 \in [BuddyPages -> Orders \cup {-1}] /\ prop2[l] = k + 1
    /\ \A p \in BuddyPages : p # x /\ p # z => prop2[p] = prop[p]
  BY DEF Merges
<1>1. /\ arr \in [Orders -> Seq(BuddyPages)] /\ prop \in [BuddyPages -> Orders \cup {-1}]
      /\ D \in SUBSET BuddyPages
      /\ \A j \in Orders : IsInjective(arr[j])
      /\ \A j \in Orders : \A a \in Range(arr[j]) : prop[a] = j /\ a \notin D
      /\ CoverOnce(B)
  BY DEF BlocksOK
<1>2. k \in Nat /\ k + 1 \in Orders /\ k + 1 # k
  BY OrdersAre
<1>3. <<x, k>> \in F /\ <<z, k>> \in F /\ x \notin D /\ z \notin D
  BY <1>1, OnListsAre
<1>4. <<x, k>> \in Halves /\ <<z, k>> \in Halves /\ C \in SUBSET B
  <2>1. C \in SUBSET B
    BY <1>3
  <2>2. B \subseteq Halves
    BY <1>1 DEF CoverOnce
  <2> HIDE DEF B
  <2> QED BY <2>1, <2>2
<1>5. x \in BuddyPages /\ z \in BuddyPages /\ x \in PagesAt(<<x, k>>) /\ z \in PagesAt(<<z, k>>)
  <2>1. <<x, k>>[1] = x /\ <<z, k>>[1] = z
    OBVIOUS
  <2> QED BY <1>4, <2>1, HalfIs
\* The first page of either is on no other list.
<1>6. ASSUME NEW j \in Orders, NEW a \in Range(arr[j]), a = x \/ a = z PROVE j = k
  <2>1. prop[a] = j /\ prop[a] = k
    BY <1>1, <1>6
  <2> QED BY <2>1
\* The lists.
<1> DEFINE s == Unlink(Unlink(arr[k], x), z)
           t == <<l>> \o arr[k+1]
<1>7. s \in Seq(BuddyPages) /\ IsInjective(s) /\ Range(s) = (Range(arr[k]) \ {x}) \ {z}
  <2> DEFINE u == Unlink(arr[k], x)
  <2>1. arr[k] \in Seq(BuddyPages) /\ IsInjective(arr[k])
    BY <1>1
  <2>2. u \in Seq(BuddyPages) /\ IsInjective(u) /\ Range(u) = Range(arr[k]) \ {x}
    BY <2>1, UnlinkIs
  <2> HIDE DEF u
  <2>3. z \in Range(u)
    BY <2>2
  <2>4. Unlink(u, z) \in Seq(BuddyPages) /\ IsInjective(Unlink(u, z)) /\ Range(Unlink(u, z)) = Range(u) \ {z}
    BY <2>2, <2>3, UnlinkIs
  <2> QED BY <2>2, <2>4 DEF u
<1>8. t \in Seq(BuddyPages) /\ IsInjective(t) /\ Range(t) = Range(arr[k+1]) \cup {l}
  <2> DEFINE r == arr[k+1]
  <2>1. r \in Seq(BuddyPages) /\ IsInjective(r) /\ l \in BuddyPages
    BY <1>1, <1>2, <1>5
  <2>2. l \notin Range(r)
    BY <1>2, <1>6
  <2> HIDE DEF r
  <2>3. <<l>> \o r \in Seq(BuddyPages)
    BY <2>1, PushFront
  <2>4. Range(<<l>> \o r) = Range(r) \cup {l}
    BY <2>1, PushFrontRange
  <2>5. IsInjective(<<l>> \o r)
    BY <2>1, <2>2, PushFrontInjective
  <2> QED BY <2>3, <2>4, <2>5 DEF r
<1>9. /\ arr2[k] = s /\ arr2[k+1] = t
      /\ \A j \in Orders : j # k /\ j # k + 1 => arr2[j] = arr[j]
      /\ DOMAIN arr2 = Orders /\ arr2 = [j \in Orders |-> arr2[j]]
  <2> HIDE DEF s, t
  <2>1. arr2[k] = s
    BY DEF MergedLists, s
  <2>2. arr2[k+1] = t
    BY <1>2 DEF MergedLists, t
  <2> QED BY <2>1, <2>2 DEF MergedLists
<1> HIDE DEF arr2, s, t
<1>10. ASSUME NEW j \in Orders PROVE arr2[j] \in Seq(BuddyPages) /\ IsInjective(arr2[j])
  <2>1. CASE j = k
    BY <1>7, <1>9, <2>1
  <2>2. CASE j = k + 1
    BY <1>8, <1>9, <2>2
  <2>3. CASE j # k /\ j # k + 1
    BY <1>1, <1>9, <2>3
  <2> QED BY <2>1, <2>2, <2>3
<1>11. arr2 \in [Orders -> Seq(BuddyPages)]
  BY <1>9, <1>10
<1>12. ASSUME NEW j \in Orders, NEW a \in Range(arr2[j])
       PROVE  \/ a \in Range(arr[j]) /\ a # x /\ a # z
              \/ j = k + 1 /\ a = l
  <2>1. CASE j = k
    BY <1>7, <1>9, <2>1
  <2>2. CASE j # k /\ a \in Range(arr[j])
    BY <1>6, <2>2
  <2>3. CASE j # k /\ a \notin Range(arr[j])
    <3>1. j = k + 1
      BY <1>9, <2>3
    <3> QED BY <1>8, <1>9, <2>3, <3>1
  <2> QED BY <2>1, <2>2, <2>3
<1>13. ASSUME NEW j \in Orders, NEW a \in Range(arr[j]), a # x, a # z PROVE a \in Range(arr2[j])
  <2>1. CASE j = k
    BY <1>7, <1>9, <1>13, <2>1
  <2>2. CASE j = k + 1
    BY <1>8, <1>9, <2>2
  <2>3. CASE j # k /\ j # k + 1
    BY <1>9, <2>3
  <2> QED BY <2>1, <2>2, <2>3
<1>14. l \in Range(arr2[k+1])
  BY <1>8, <1>9
\* The orders.
<1>15. ASSUME NEW h \in D PROVE prop2[h] = prop[h]
  BY <1>1, <1>3
<1>16. ASSUME NEW j \in Orders, NEW a \in Range(arr2[j]) PROVE prop2[a] = j /\ a \notin D
  <2>1. CASE a \in Range(arr[j]) /\ a # x /\ a # z
    <3>1. prop[a] = j /\ a \notin D
      BY <1>1, <2>1
    <3>2. a \in BuddyPages
      <4>1. arr[j] \in Seq(BuddyPages)
        BY <1>1
      <4> QED BY <2>1, <4>1 DEF Range
    <3> QED BY <2>1, <3>1, <3>2
  <2>2. CASE j = k + 1 /\ a = l
    BY <1>3, <2>2
  <2> QED BY <1>12, <2>1, <2>2
\* The blocks.
<1>17. OnLists(arr2) = (F \ C) \cup {new}
  <2>1. ASSUME NEW c \in OnLists(arr2) PROVE c \in (F \ C) \cup {new}
    <3>1. c = <<c[1], c[2]>> /\ c[2] \in Orders /\ c[1] \in Range(arr2[c[2]])
      BY OnListsAre
    <3>2. CASE c[1] \in Range(arr[c[2]]) /\ c[1] # x /\ c[1] # z
      <4>1. <<c[1], c[2]>> \in F
        BY <3>1, <3>2, OnListsAre
      <4>2. <<c[1], c[2]>> # <<x, k>> /\ <<c[1], c[2]>> # <<z, k>>
        BY <3>2
      <4> QED BY <3>1, <4>1, <4>2
    <3>3. CASE c[2] = k + 1 /\ c[1] = l
      BY <3>1, <3>3
    <3> QED BY <1>12, <3>1, <3>2, <3>3
  <2>2. ASSUME NEW c \in F, c \notin C PROVE c \in OnLists(arr2)
    <3>1. c = <<c[1], c[2]>> /\ c[2] \in Orders /\ c[1] \in Range(arr[c[2]])
      BY OnListsAre
    <3>2. c[1] # x /\ c[1] # z
      <4>1. c[1] = x \/ c[1] = z => c[2] = k
        BY <1>6, <3>1
      <4> QED BY <2>2, <3>1, <4>1
    <3>3. <<c[1], c[2]>> \in OnLists(arr2)
      BY <1>13, <3>1, <3>2, OnListsAre
    <3> QED BY <3>1, <3>3
  <2>3. new \in OnLists(arr2)
    BY <1>2, <1>14, OnListsAre
  <2> QED BY <2>1, <2>2, <2>3
<1>18. HeldAs(prop2, D) = H
  BY <1>15 DEF HeldAs
<1>19. C \cap H = {}
  <2>1. ASSUME NEW h \in D PROVE <<h, prop[h]>> \notin C
    BY <1>3
  <2> QED BY <2>1 DEF HeldAs
<1>20. OnLists(arr2) \cup HeldAs(prop2, D) = (B \ C) \cup {new}
  BY <1>17, <1>18, <1>19
<1>21. PagesIn({new}) = PagesIn(C)
  BY DEF PagesIn
<1>22. CoverOnce((B \ C) \cup {new})
  <2>1. {new} \in SUBSET Halves /\ \A c, d \in {new} : c # d => PagesAt(c) \cap PagesAt(d) = {}
    OBVIOUS
  <2> HIDE DEF B, C, new
  <2> QED BY <1>1, <1>4, <1>21, <2>1, Replaced
<1>23. BlocksOK(arr2, prop2, D)
  BY <1>1, <1>10, <1>11, <1>16, <1>20, <1>22 DEF BlocksOK
<1>24. PagesIn(OnLists(arr2)) = PagesIn(F)
  <2>1. PagesIn(F) = PagesIn(F \ C) \cup PagesIn(C)
    BY <1>3 DEF PagesIn
  <2>2. PagesIn(OnLists(arr2)) = PagesIn(F \ C) \cup PagesIn({new})
    BY <1>17 DEF PagesIn
  <2> QED BY <1>21, <2>1, <2>2
<1> QED BY <1>2, <1>14, <1>15, <1>23, <1>24 DEF arr2
-----------------------------------------------------------------------------
(* The buddy allocator *)

\* While a block is merged, it is on the list of its order, and it may have PG_property; its
\* pages are counted in pnum.
BuddyInv ==
  /\ BlocksOK(buddy_array, property, DOMAIN allocated)
  /\ \A b \in DOMAIN allocated : property[b] = Order(allocated[b])
  /\ left_block \in BuddyPages \cup {NONE}
  /\ left_block = NONE => pnum = 0 /\ PG_property = DOMAIN allocated
  /\ left_block # NONE =>
       /\ property[left_block] \in Orders
       /\ left_block \in Range(buddy_array[property[left_block]])
       /\ DOMAIN allocated \subseteq PG_property
       /\ PG_property \subseteq DOMAIN allocated \cup {left_block}
  /\ buddy_nr_free \in Int /\ pnum \in Int
  /\ buddy_nr_free + pnum = Cardinality(PagesIn(OnLists(buddy_array)))

\* No block is named NONE.
LEMMA NoneIsNoPage == NONE \notin BuddyPages
BY OrdersAre DEF NONE

\* The free pages are pages, and there are no more of them than init_memmap was given.
LEMMA FreePagesAre ==
  ASSUME NEW arr, NEW prop, NEW D, BlocksOK(arr, prop, D)
  PROVE  /\ PagesIn(OnLists(arr)) \subseteq BuddyPages
         /\ IsFiniteSet(PagesIn(OnLists(arr)))
         /\ Cardinality(PagesIn(OnLists(arr))) \in Nat
         /\ Cardinality(PagesIn(OnLists(arr))) <= Power[max_order]
<1> DEFINE S == PagesIn(OnLists(arr))
<1>1. S \subseteq BuddyPages
  <2>1. ASSUME NEW c \in OnLists(arr) PROVE PagesAt(c) \subseteq BuddyPages
    <3>1. c \in Halves
      BY DEF BlocksOK, CoverOnce
    <3> QED BY <3>1, HalfIs
  <2> QED BY <2>1 DEF PagesIn
<1>2. PagesOf(0, max_order) = BuddyPages
  <2>1. 0 + Power[max_order] - 1 = Power[max_order] - 1
    BY OrdersAre
  <2> QED BY <2>1 DEF PagesOf, BuddyPages
<1>3. IsFiniteSet(BuddyPages) /\ Cardinality(BuddyPages) = Power[max_order]
  <2>1. 0 \in Nat /\ max_order \in Orders
    BY OrdersAre
  <2>2. IsFiniteSet(PagesOf(0, max_order)) /\ Cardinality(PagesOf(0, max_order)) = Power[max_order]
    BY ONLY <2>1, PagesOfIs
  <2> QED BY <1>2, <2>2
<1> HIDE DEF S
<1>4. IsFiniteSet(S) /\ Cardinality(S) <= Power[max_order]
  BY <1>1, <1>3, FS_Subset
<1>5. Cardinality(S) \in Nat
  BY <1>4, FS_CardinalityType
<1> QED BY <1>1, <1>4, <1>5 DEF S

\* A block's pages are more by their number.
LEMMA AddPages ==
  ASSUME NEW S, IsFiniteSet(S), NEW b \in Nat, NEW k \in Orders, S \cap PagesOf(b, k) = {}
  PROVE  Cardinality(S \cup PagesOf(b, k)) = Cardinality(S) + Power[k]
<1> DEFINE T == PagesOf(b, k)
<1>1. IsFiniteSet(T) /\ Cardinality(T) = Power[k] /\ Power[k] \in Nat
  BY PagesOfIs, OrdersAre
<1> HIDE DEF T
<1>2. S \cap T = {}
  BY DEF T
<1>3. Cardinality(S \cup T) = Cardinality(S) + Cardinality(T) - Cardinality(S \cap T)
  BY <1>1, FS_Union
<1>4. Cardinality(S) \in Nat /\ Cardinality({}) = 0
  BY FS_CardinalityType, FS_EmptySet
<1>5. Cardinality(S \cup T) = Cardinality(S) + Cardinality(T)
  <2>1. Cardinality(S \cap T) = 0
    BY <1>2, <1>4
  <2> QED BY <1>1, <1>3, <1>4, <2>1
<1> QED BY <1>1, <1>5 DEF T

\* What the invariant says of BuddyExact.
LEMMA BuddyInvExact == BuddyInv => BuddyExact
<1> SUFFICES ASSUME BuddyInv, Idle PROVE BuddyExact
  BY DEF BuddyExact
<1> DEFINE B == BuddyBlocks
<1>1. FreeBlocks = OnLists(buddy_array) /\ HeldBlocks = HeldAs(property, DOMAIN allocated)
  BY DEF FreeBlocks, OnLists, HeldBlocks, HeldAs
<1>2. B = OnLists(buddy_array) \cup HeldAs(property, DOMAIN allocated)
  BY <1>1 DEF BuddyBlocks
<1>3. /\ CoverOnce(B)
      /\ \A k \in Orders : \A b \in Range(buddy_array[k]) : property[b] = k
  BY <1>2 DEF BuddyInv, BlocksOK
<1> HIDE DEF B
<1>4. left_block = NONE /\ pnum = 0 /\ PG_property = DOMAIN allocated
  BY DEF Idle, BuddyInv
<1>5. ASSUME NEW p \in BuddyPages PROVE Cardinality({c \in B : p \in PagesOf(c[1], c[2])}) = 1
  <2>1. PICK d \in B : p \in PagesAt(d)
    BY <1>3 DEF CoverOnce
  <2>2. {c \in B : p \in PagesOf(c[1], c[2])} = {d}
    <3>1. ASSUME NEW c \in B PROVE p \in PagesOf(c[1], c[2]) <=> c = d
      BY <1>3, <2>1, SharePage DEF PagesAt
    <3> QED BY <3>1
  <2> QED BY <2>2, FS_Singleton
<1>6. ASSUME NEW c \in B PROVE c[1] % Power[c[2]] = 0 /\ property[c[1]] = c[2]
  <2>1. /\ c[1] \in Nat /\ c[2] \in Orders /\ c = <<c[1], c[2]>>
        /\ \E m \in Nat : c[1] = m * Power[c[2]]
    <3>1. c \in Halves
      BY <1>3 DEF CoverOnce
    <3> QED BY <3>1, HalfIs
  <2>2. property[c[1]] = c[2]
    <3>1. CASE c \in OnLists(buddy_array)
      BY <1>3, <3>1, <2>1, OnListsAre
    <3>2. CASE c \in HeldAs(property, DOMAIN allocated)
      BY <3>2 DEF HeldAs
    <3> QED BY <1>2, <3>1, <3>2
  <2>3. c[1] % Power[c[2]] = 0
    <3> DEFINE b == c[1]
               n == Power[c[2]]
    <3>1. PICK m \in Nat : b = m * n
      BY <2>1
    <3>2. n \in Nat \ {0} /\ b \in Nat
      BY <2>1, OrdersAre
    <3> HIDE DEF b, n
    <3>3. b = n * m + 0 /\ 0 \in 0 .. n - 1
      BY <3>1, <3>2
    <3>4. b % n = 0
      BY <3>2, <3>3, DividesOnce
    <3> QED BY <3>4 DEF b, n
  <2> QED BY <2>2, <2>3
<1>7. buddy_nr_free = Cardinality(UNION {PagesOf(c[1], c[2]) : c \in FreeBlocks})
  <2>1. UNION {PagesOf(c[1], c[2]) : c \in FreeBlocks} = PagesIn(OnLists(buddy_array))
    BY <1>1 DEF PagesIn, PagesAt
  <2>2. buddy_nr_free \in Int /\ buddy_nr_free + 0 = Cardinality(PagesIn(OnLists(buddy_array)))
    BY <1>4 DEF BuddyInv
  <2>3. buddy_nr_free + 0 = buddy_nr_free
    BY <2>2
  <2> QED BY <2>1, <2>2, <2>3
<1>8. \A b \in DOMAIN allocated : property[b] = Order(allocated[b])
  BY DEF BuddyInv
<1> QED BY <1>4, <1>5, <1>6, <1>7, <1>8 DEF BuddyExact, B

\* init_memmap leaves one block of all the pages.
LEMMA BuddyInitially == BuddyInit => BuddyInv
<1> SUFFICES ASSUME BuddyInit PROVE BuddyInv
  OBVIOUS
<1> DEFINE c == <<0, max_order>>
<1>1. /\ buddy_array = [k \in Orders |-> IF k = max_order THEN <<0>> ELSE << >>]
      /\ property = [p \in BuddyPages |-> IF p = 0 THEN max_order ELSE -1]
      /\ PG_property = {} /\ buddy_nr_free = Power[max_order] /\ left_block = NONE
      /\ pnum = 0 /\ allocated = << >>
  BY DEF BuddyInit
<1>2. max_order \in Orders /\ 0 \in BuddyPages /\ Power[max_order] \in Nat \ {0} /\ 0 \in Nat
  BY OrdersAre
<1>3. DOMAIN allocated = {}
  BY <1>1
<1>4. /\ buddy_array \in [Orders -> Seq(BuddyPages)]
      /\ property \in [BuddyPages -> Orders \cup {-1}]
  BY <1>1, <1>2
<1>5. \A k \in Orders : IsInjective(buddy_array[k]) /\ Range(buddy_array[k]) = IF k = max_order THEN {0} ELSE {}
  <2>1. IsInjective(<<0>>) /\ Range(<<0>>) = {0}
    BY DEF IsInjective, Range
  <2>2. IsInjective(<< >>) /\ Range(<< >>) = {}
    BY DEF IsInjective, Range
  <2> QED BY <1>1, <2>1, <2>2
<1>6. \A k \in Orders : \A b \in Range(buddy_array[k]) : k = max_order /\ b = 0
  BY <1>5
<1>7. \A k \in Orders : \A b \in Range(buddy_array[k]) : property[b] = k /\ b \notin DOMAIN allocated
  BY <1>1, <1>2, <1>3, <1>6
<1>8. OnLists(buddy_array) = {c}
  <2>1. c \in OnLists(buddy_array)
    BY <1>2, <1>5, OnListsAre
  <2>2. ASSUME NEW d \in OnLists(buddy_array) PROVE d = c
    <3>1. d = <<d[1], d[2]>> /\ d[2] \in Orders /\ d[1] \in Range(buddy_array[d[2]])
      BY OnListsAre
    <3> QED BY <1>6, <3>1
  <2> QED BY <2>1, <2>2
<1>9. PagesAt(c) = BuddyPages
  <2>1. 0 + Power[max_order] - 1 = Power[max_order] - 1
    BY <1>2
  <2> QED BY <2>1 DEF PagesAt, PagesOf, BuddyPages
<1>10. c \in Halves
  <2>1. c[1] = 0 /\ c[2] = max_order /\ c \in BuddyPages \X Orders
    BY <1>2
  <2>2. 0 = 0 * Power[max_order]
    BY <1>2
  <2> QED BY <1>9, <2>1, <2>2, <1>2 DEF Halves
<1>11. CoverOnce(OnLists(buddy_array) \cup HeldAs(property, DOMAIN allocated))
  <2>1. OnLists(buddy_array) \cup HeldAs(property, DOMAIN allocated) = {c}
    BY <1>3, <1>8 DEF HeldAs
  <2> HIDE DEF c
  <2> QED BY <1>9, <1>10, <2>1 DEF CoverOnce
<1>12. BlocksOK(buddy_array, property, DOMAIN allocated)
  BY <1>3, <1>4, <1>5, <1>7, <1>11 DEF BlocksOK
<1>13. buddy_nr_free + pnum = Cardinality(PagesIn(OnLists(buddy_array)))
  <2>1. PagesIn(OnLists(buddy_array)) = PagesOf(0, max_order)
    BY <1>8 DEF PagesIn, PagesAt
  <2>2. Cardinality(PagesOf(0, max_order)) = Power[max_order]
    BY ONLY <1>2, PagesOfIs
  <2> QED BY <1>1, <1>2, <2>1, <2>2
<1> QED BY <1>1, <1>2, <1>3, <1>12, <1>13 DEF BuddyInv

\* alloc_pages takes a block that no list holds afterwards.
LEMMA AllocPagesKeeps ==
  ASSUME BuddyInv, NEW n \in Requests, AllocPages(n)
  PROVE  BuddyInv'
<1> DEFINE o == Order(n)
           i == Min(Serve(o))
           b == Head(buddy_array[i])
           S == PagesIn(OnLists(buddy_array))
           S2 == PagesIn(OnLists(buddy_array'))
           D == DOMAIN allocated
<1>1. /\ BlocksOK(buddy_array, property, D)
      /\ \A h \in D : property[h] = Order(allocated[h])
      /\ left_block = NONE /\ pnum = 0 /\ PG_property = D
      /\ buddy_nr_free \in Int /\ buddy_nr_free + pnum = Cardinality(S)
  BY DEF BuddyInv, AllocPages, Idle
<1>2. S \subseteq BuddyPages /\ IsFiniteSet(S) /\ Cardinality(S) \in Nat /\ Cardinality(S) <= Power[max_order]
  BY <1>1, FreePagesAre
<1>3. n <= buddy_nr_free /\ Serve(o) # {} /\ n \in Nat
  BY <1>1, BuddyAssumption DEF AllocPages, Refused
<1> HIDE DEF S, S2
<1>4. buddy_nr_free = Cardinality(S)
  BY <1>1
<1>5. o \in Orders
  <2> DEFINE K == {k \in Orders : n <= Power[k]}
  <2>1. K \subseteq Nat
    BY OrdersAre
  <2>2. max_order \in K
    BY <1>2, <1>3, <1>4, OrdersAre
  <2>3. Min(K) \in K
    <3> HIDE DEF K
    <3> QED BY <2>1, <2>2, MinIs
  <2> QED BY <2>3 DEF Order
<1> HIDE DEF o
<1>6. i \in Orders /\ i >= o /\ buddy_array[i] # << >>
  <2>1. Serve(o) \subseteq Nat
    BY OrdersAre DEF Serve
  <2>2. Min(Serve(o)) \in Serve(o)
    BY <1>3, <2>1, MinIs
  <2> QED BY <2>2 DEF Serve
<1> HIDE DEF i
<1>7. o <= i
  BY <1>5, <1>6, OrdersAre
<1>8. /\ buddy_array' = [j \in Orders |-> ListAfterSplit(b, i, o, j)]
      /\ property' = PropertyAfterSplit(b, i, o)
      /\ PG_property' = PG_property \cup {b}
      /\ buddy_nr_free' = buddy_nr_free - Power[o]
      /\ allocated' = [p \in D \cup {b} |-> IF p = b THEN n ELSE allocated[p]]
      /\ left_block' = left_block /\ pnum' = pnum
  BY DEF AllocPages, o, i
<1>9. buddy_array' = SplitLists(buddy_array, i, o)
  BY <1>8 DEF SplitLists, ListAfterSplit
<1>10. property' = SplitOrders(property, b, i, o)
  BY <1>8 DEF SplitOrders, PropertyAfterSplit
<1>11. /\ b \in BuddyPages /\ b \notin D
       /\ BlocksOK(buddy_array', property', D \cup {b})
       /\ property'[b] = o /\ \A h \in D : property'[h] = property[h]
       /\ S = S2 \cup PagesOf(b, o) /\ S2 \cap PagesOf(b, o) = {}
  <2> DEFINE arr2 == SplitLists(buddy_array, i, o)
             prop2 == SplitOrders(property, b, i, o)
  <2>1. /\ b \in BuddyPages /\ b \notin D
        /\ BlocksOK(arr2, prop2, D \cup {b})
        /\ prop2[b] = o /\ \A h \in D : prop2[h] = property[h]
        /\ PagesIn(OnLists(buddy_array)) = PagesIn(OnLists(arr2)) \cup PagesOf(b, o)
        /\ PagesIn(OnLists(arr2)) \cap PagesOf(b, o) = {}
    <3> HIDE DEF D
    <3> QED BY <1>1, <1>5, <1>6, <1>7, TakenOK
  <2> HIDE DEF arr2, prop2
  <2>2. buddy_array' = arr2 /\ property' = prop2
    BY <1>9, <1>10 DEF arr2, prop2
  <2> QED BY <2>1, <2>2 DEF S, S2
<1> HIDE DEF b
<1>12. DOMAIN allocated' = D \cup {b}
  BY <1>8
<1>13. ASSUME NEW h \in D \cup {b} PROVE property'[h] = Order(allocated'[h])
  <2>1. CASE h = b
    <3>1. allocated'[h] = n
      BY <1>8, <2>1
    <3> QED BY <1>11, <2>1, <3>1 DEF o
  <2>2. CASE h # b
    <3>1. allocated'[h] = allocated[h]
      BY <1>8, <2>2
    <3> QED BY <1>1, <1>11, <2>2, <3>1
  <2> QED BY <2>1, <2>2
<1>14. Cardinality(S2) = Cardinality(S) - Power[o]
  <2>1. IsFiniteSet(S2) /\ Cardinality(S2) \in Nat
    BY <1>11, FreePagesAre DEF S2
  <2>2. b \in Nat
    BY <1>11, OrdersAre
  <2>3. Cardinality(S2 \cup PagesOf(b, o)) = Cardinality(S2) + Power[o]
    BY <1>5, <1>11, <2>1, <2>2, AddPages
  <2>4. Power[o] \in Nat
    BY <1>5, OrdersAre
  <2> QED BY <1>11, <2>1, <2>3, <2>4
<1>15. buddy_nr_free' \in Int /\ pnum' \in Int /\ buddy_nr_free' + pnum' = Cardinality(S2)
  <2>1. Power[o] \in Nat
    BY <1>5, OrdersAre
  <2> QED BY <1>1, <1>2, <1>4, <1>8, <1>14, <2>1
<1>16. left_block' = NONE /\ pnum' = 0 /\ PG_property' = D \cup {b}
  BY <1>1, <1>8
<1> HIDE DEF D
<1> QED BY <1>11, <1>12, <1>13, <1>15, <1>16 DEF BuddyInv, S2

\* free_pages puts the block on the list of its order.
LEMMA FreePagesKeeps ==
  ASSUME BuddyInv, NEW b \in DOMAIN allocated, FreePages(b)
  PROVE  BuddyInv'
<1> DEFINE k == property[b]
           D == DOMAIN allocated
           S == PagesIn(OnLists(buddy_array))
           S2 == PagesIn(OnLists(buddy_array'))
<1>1. /\ BlocksOK(buddy_array, property, D)
      /\ \A h \in D : property[h] = Order(allocated[h])
      /\ left_block = NONE /\ pnum = 0 /\ PG_property = D
      /\ buddy_nr_free \in Int /\ buddy_nr_free + pnum = Cardinality(S)
  BY DEF BuddyInv, FreePages, Idle
<1>2. /\ pnum' = Power[k] /\ left_block' = b
      /\ buddy_array' = [buddy_array EXCEPT ![k] = <<b>> \o @]
      /\ allocated' = [p \in D \ {b} |-> allocated[p]]
      /\ property' = property /\ PG_property' = PG_property /\ buddy_nr_free' = buddy_nr_free
  BY DEF FreePages
<1>3. /\ k \in Orders
      /\ BlocksOK(buddy_array', property, D \ {b})
      /\ OnLists(buddy_array') = OnLists(buddy_array) \cup {<<b, k>>}
      /\ b \in Range(buddy_array'[k])
      /\ S \cap PagesOf(b, k) = {}
  <2> DEFINE arr2 == [buddy_array EXCEPT ![property[b]] = <<b>> \o @]
  <2>1. /\ property[b] \in Orders
        /\ BlocksOK(arr2, property, D \ {b})
        /\ OnLists(arr2) = OnLists(buddy_array) \cup {<<b, property[b]>>}
        /\ b \in Range(arr2[property[b]])
        /\ PagesIn(OnLists(buddy_array)) \cap PagesOf(b, property[b]) = {}
    <3>1. b \in D /\ BlocksOK(buddy_array, property, D)
      BY <1>1
    <3> HIDE DEF D
    <3> QED BY <3>1, GivenOK
  <2>2. buddy_array' = arr2
    BY <1>2
  <2> HIDE DEF arr2
  <2> QED BY <2>1, <2>2
<1>4. DOMAIN allocated' = D \ {b} /\ \A h \in D \ {b} : allocated'[h] = allocated[h]
  BY <1>2
<1>5. S2 = S \cup PagesOf(b, k)
  <2>1. PagesAt(<<b, k>>) = PagesOf(b, k)
    BY DEF PagesAt
  <2> QED BY <1>3, <2>1 DEF PagesIn
<1>6. b \in BuddyPages /\ b \in Nat /\ b # NONE
  <2>1. b \in BuddyPages
    BY <1>1 DEF BlocksOK
  <2> QED BY <2>1, OrdersAre, NoneIsNoPage
<1>7. Cardinality(S2) = Cardinality(S) + Power[k]
  <2>1. IsFiniteSet(S)
    BY <1>1, FreePagesAre
  <2> HIDE DEF S, S2, k
  <2> QED BY <1>3, <1>5, <1>6, <2>1, AddPages
<1>8. buddy_nr_free' \in Int /\ pnum' \in Int /\ buddy_nr_free' + pnum' = Cardinality(S2)
  <2>1. Power[k] \in Nat
    BY <1>3, OrdersAre
  <2> HIDE DEF S, S2, k
  <2> QED BY <1>1, <1>2, <1>7, <2>1
<1> HIDE DEF D
<1>9. BlocksOK(buddy_array', property', DOMAIN allocated')
  BY <1>2, <1>3, <1>4
<1>10. \A h \in DOMAIN allocated' : property'[h] = Order(allocated'[h])
  BY <1>1, <1>2, <1>4
<1>11. /\ property'[left_block'] \in Orders
       /\ left_block' \in Range(buddy_array'[property'[left_block']])
       /\ DOMAIN allocated' \subseteq PG_property'
       /\ PG_property' \subseteq DOMAIN allocated' \cup {left_block'}
  BY <1>1, <1>2, <1>3, <1>4
<1> QED BY <1>2, <1>6, <1>8, <1>9, <1>10, <1>11 DEF BuddyInv

\* One turn of the loop: what the code takes for the buddy is the other half, so the two are a
\* block of the next order.
LEMMA MergeKeeps ==
  ASSUME BuddyInv, MergeBuddies
  PROVE  BuddyInv'
<1> DEFINE x == left_block
           z == BuddyPage
           k == property[left_block]
           n == Power[k]
           l == Min({left_block, BuddyPage})
           right == left_block > BuddyPage
           D == DOMAIN allocated
<1>1. /\ BlocksOK(buddy_array, property, D)
      /\ \A h \in D : property[h] = Order(allocated[h])
      /\ x \in BuddyPages \cup {NONE}
      /\ buddy_nr_free \in Int /\ pnum \in Int
      /\ buddy_nr_free + pnum = Cardinality(PagesIn(OnLists(buddy_array)))
  BY DEF BuddyInv
<1>2. x # NONE /\ k < max_order /\ IsPage(BuddyOffset) /\ z \in Range(buddy_array[k])
      /\ z \notin PG_property
  BY DEF MergeBuddies, Merging, IsFreeBuddy, LooksFree
<1>3. /\ k \in Orders /\ x \in Range(buddy_array[k]) /\ x \in BuddyPages
      /\ D \subseteq PG_property /\ PG_property \subseteq D \cup {x}
  BY <1>2 DEF BuddyInv
<1>4. /\ property' = [p \in BuddyPages |->
                        IF p = l THEN k + 1 ELSE IF p = x /\ right THEN -1 ELSE property[p]]
      /\ PG_property' = IF right THEN PG_property \ {x} ELSE PG_property
      /\ buddy_array' =
           [j \in Orders |->
              IF j = k THEN Unlink(Unlink(buddy_array[k], x), z)
              ELSE IF j = k + 1 THEN <<l>> \o buddy_array[j]
              ELSE buddy_array[j]]
      /\ left_block' = l
      /\ buddy_nr_free' = buddy_nr_free /\ pnum' = pnum /\ allocated' = allocated
  BY DEF MergeBuddies
\* Both are blocks of order k.
<1>5. /\ <<x, k>> \in Halves /\ <<z, k>> \in Halves
      /\ \A a \in Range(buddy_array[k]) : a \notin D /\ property[a] = k
      /\ property \in [BuddyPages -> Orders \cup {-1}]
  <2>1. <<x, k>> \in OnLists(buddy_array) /\ <<z, k>> \in OnLists(buddy_array)
    BY <1>2, <1>3, OnListsAre
  <2>2. OnLists(buddy_array) \subseteq Halves
    BY <1>1 DEF BlocksOK, CoverOnce
  <2> QED BY <1>1, <1>3, <2>1, <2>2 DEF BlocksOK
<1>6. z \in BuddyPages /\ \E m \in Nat : x = m * n
  BY <1>5, HalfIs
<1>7. \E q \in Nat : z = q * n
  BY <1>5, HalfIs
<1>8. PICK m \in Nat : x = m * n
  BY <1>6
<1>9. PICK q \in Nat : z = q * n
  BY <1>7
<1>10. q = IF m % 2 = 1 THEN m - 1 ELSE m + 1
  BY <1>2, <1>3, <1>8, <1>9, BuddyIs
<1>11. n \in Nat \ {0} /\ k \in Nat /\ k + 1 \in Orders /\ x \in Nat /\ z \in Nat
  BY <1>2, <1>3, <1>6, OrdersAre
<1>12. l = (IF right THEN z ELSE x) /\ l \in {x, z}
  <2>1. {x, z} \subseteq Nat
    BY <1>11
  <2>2. Min({x, z}) \in {x, z} /\ \A a \in {x, z} : Min({x, z}) <= a
    BY <2>1, MinIs
  <2> HIDE DEF x, z
  <2>3. l = Min({x, z}) /\ (right <=> x > z)
    BY DEF x, z
  <2> HIDE DEF l, right
  <2>4. l = x \/ l = z
    BY <2>2, <2>3
  <2>5. l <= x /\ l <= z
    BY <2>2, <2>3
  <2>6. CASE right
    BY <1>11, <2>3, <2>4, <2>5, <2>6
  <2>7. CASE ~ right
    BY <1>11, <2>3, <2>4, <2>5, <2>7
  <2> QED BY <2>6, <2>7
<1> HIDE DEF l
<1>13. m % 2 = 0 \/ m % 2 = 1
  OBVIOUS
<1> DEFINE Joins == /\ <<l, k + 1>> \in Halves
                    /\ PagesAt(<<l, k + 1>>) = PagesAt(<<x, k>>) \cup PagesAt(<<z, k>>)
                    /\ x # z
<1>14. ASSUME m % 2 = 0 PROVE Joins
  <2>1. q = m + 1
    BY <1>10, <1>14
  <2>2. (m + 1) * n = m * n + n
    <3> HIDE DEF n
    <3> QED BY <1>11
  <2>3. z = (m + 1) * n /\ z = x + n
    <3> HIDE DEF n
    <3> QED BY <1>8, <1>9, <2>1, <2>2
  <2>4. l = x /\ x # z
    <3> HIDE DEF n, x, z
    <3> QED BY <1>11, <1>12, <2>3 DEF x, z
  <2>5. /\ <<m * n, k + 1>> \in Halves
        /\ PagesAt(<<m * n, k + 1>>) = PagesAt(<<m * n, k>>) \cup PagesAt(<<(m + 1) * n, k>>)
    <3>1. <<m * n, k>> \in Halves /\ <<(m + 1) * n, k>> \in Halves
      BY <1>5, <1>8, <2>3
    <3> QED BY <1>2, <1>3, <1>14, <3>1, PairJoins
  <2> QED BY <1>8, <2>3, <2>4, <2>5
<1>15. ASSUME m % 2 = 1 PROVE Joins
  <2>1. q = m - 1 /\ m = q + 1
    BY <1>10, <1>15
  <2>2. (q + 1) * n = q * n + n
    <3> HIDE DEF n
    <3> QED BY <1>11
  <2>3. x = (q + 1) * n /\ x = z + n
    <3> HIDE DEF n
    <3> QED BY <1>8, <1>9, <2>1, <2>2
  <2>4. l = z /\ x # z
    <3> HIDE DEF n, x, z
    <3> QED BY <1>11, <1>12, <2>3 DEF x, z
  <2>5. q % 2 = 0
    BY <1>15, <2>1
  <2>6. /\ <<q * n, k + 1>> \in Halves
        /\ PagesAt(<<q * n, k + 1>>) = PagesAt(<<q * n, k>>) \cup PagesAt(<<(q + 1) * n, k>>)
    <3>1. <<q * n, k>> \in Halves /\ <<(q + 1) * n, k>> \in Halves
      BY <1>5, <1>9, <2>3
    <3> QED BY <1>2, <1>3, <2>5, <3>1, PairJoins
  <2> QED BY <1>9, <2>3, <2>4, <2>6
<1>16. Joins
  BY <1>13, <1>14, <1>15
\* The orders.
<1>17. /\ property' \in [BuddyPages -> Orders \cup {-1}] /\ property'[l] = k + 1
       /\ \A p \in BuddyPages : p # x /\ p # z => property'[p] = property[p]
  <2>1. l \in BuddyPages
    BY <1>3, <1>6, <1>12
  <2>2. \A p \in BuddyPages : (IF p = l THEN k + 1 ELSE IF p = x /\ right THEN -1 ELSE property[p])
                                \in Orders \cup {-1}
    BY <1>5, <1>11
  <2> HIDE DEF k, right, x, z
  <2> QED BY <1>4, <1>12, <2>1, <2>2
<1>18. buddy_array' = MergedLists(buddy_array, k, x, z, l)
  BY <1>4 DEF MergedLists
<1>19. /\ BlocksOK(buddy_array', property', D)
       /\ \A h \in D : property'[h] = property[h]
       /\ l \in Range(buddy_array'[k+1])
       /\ PagesIn(OnLists(buddy_array')) = PagesIn(OnLists(buddy_array))
  <2> HIDE DEF k, x, z, D
  <2> DEFINE arr2 == MergedLists(buddy_array, k, x, z, l)
  <2>1. /\ BlocksOK(arr2, property', D)
        /\ \A h \in D : property'[h] = property[h]
        /\ l \in Range(arr2[k+1])
        /\ PagesIn(OnLists(arr2)) = PagesIn(OnLists(buddy_array))
    <3>1. Merges(buddy_array, property, k, x, z, l, property')
      BY <1>2, <1>3, <1>12, <1>16, <1>17 DEF Merges
    <3>2. BlocksOK(buddy_array, property, D)
      BY <1>1
    <3> QED BY ONLY <3>1, <3>2, MergedOK
  <2> QED BY <1>18, <2>1
<1>20. x \notin D /\ z \notin D
  BY <1>2, <1>3, <1>5
<1>21. D \subseteq PG_property' /\ PG_property' \subseteq D \cup {l}
  <2>1. CASE right
    <3>1. PG_property' = PG_property \ {x}
      BY <1>4, <2>1
    <3> QED BY <1>3, <1>20, <3>1
  <2>2. CASE ~ right
    <3>1. PG_property' = PG_property /\ l = x
      BY <1>4, <1>12, <2>2
    <3> QED BY <1>3, <3>1
  <2> QED BY <2>1, <2>2
<1>22. l \in BuddyPages /\ l # NONE
  BY <1>3, <1>6, <1>12, NoneIsNoPage
<1> HIDE DEF k, D, x, z
<1>23. property'[left_block'] = k + 1 /\ DOMAIN allocated' = D /\ left_block' = l
  BY <1>4, <1>17 DEF D
<1>24. \A h \in DOMAIN allocated' : property'[h] = Order(allocated'[h])
  BY <1>1, <1>4, <1>19, <1>23
<1>25. /\ property'[left_block'] \in Orders
       /\ left_block' \in Range(buddy_array'[property'[left_block']])
       /\ DOMAIN allocated' \subseteq PG_property'
       /\ PG_property' \subseteq DOMAIN allocated' \cup {left_block'}
  BY <1>11, <1>19, <1>21, <1>23
<1>26. /\ buddy_nr_free' \in Int /\ pnum' \in Int
       /\ buddy_nr_free' + pnum' = Cardinality(PagesIn(OnLists(buddy_array')))
  BY <1>1, <1>4, <1>19
<1>27. BlocksOK(buddy_array', property', DOMAIN allocated')
  BY <1>19, <1>23
<1> QED BY <1>22, <1>23, <1>24, <1>25, <1>26, <1>27 DEF BuddyInv

\* The end of free_pages counts the pages and takes PG_property from the block.
LEMMA FreeEndsKeeps ==
  ASSUME BuddyInv, FreeEnds
  PROVE  BuddyInv'
<1> DEFINE D == DOMAIN allocated
<1>1. /\ left_block # NONE /\ PG_property' = PG_property \ {left_block}
      /\ buddy_nr_free' = buddy_nr_free + pnum /\ left_block' = NONE /\ pnum' = 0
      /\ buddy_array' = buddy_array /\ property' = property /\ allocated' = allocated
  BY DEF FreeEnds, Merging
<1>2. /\ BlocksOK(buddy_array, property, D)
      /\ \A b \in D : property[b] = Order(allocated[b])
      /\ property[left_block] \in Orders
      /\ left_block \in Range(buddy_array[property[left_block]])
      /\ D \subseteq PG_property /\ PG_property \subseteq D \cup {left_block}
      /\ buddy_nr_free \in Int /\ pnum \in Int
      /\ buddy_nr_free + pnum = Cardinality(PagesIn(OnLists(buddy_array)))
  BY <1>1 DEF BuddyInv
<1>3. left_block \notin D
  BY <1>2 DEF BlocksOK
<1>4. PG_property' = D
  BY <1>1, <1>2, <1>3
<1>5. /\ buddy_nr_free' \in Int /\ pnum' \in Int
      /\ buddy_nr_free' + pnum' = Cardinality(PagesIn(OnLists(buddy_array')))
  BY <1>1, <1>2
<1> QED BY <1>1, <1>2, <1>4, <1>5 DEF BuddyInv

\* The invariant is inductive.
LEMMA BuddyStep == BuddyInv /\ [BuddyNext]_buddy_vars => BuddyInv'
<1> SUFFICES ASSUME BuddyInv, [BuddyNext]_buddy_vars PROVE BuddyInv'
  OBVIOUS
\* What a refused request, a wrong merge and the end of the model leave as it was.
<1>1. ASSUME UNCHANGED <<buddy_array, property, PG_property, buddy_nr_free, left_block, pnum, allocated>>
      PROVE  BuddyInv'
  BY <1>1 DEF BuddyInv
<1>2. CASE UNCHANGED buddy_vars
  BY <1>1, <1>2 DEF buddy_vars
<1>3. CASE \E n \in Requests : AllocPages(n)
  BY <1>3, AllocPagesKeeps
<1>4. CASE \E n \in Requests : RefusePages(n)
  BY <1>2, <1>4 DEF RefusePages
<1>5. CASE \E b \in DOMAIN allocated : FreePages(b)
  BY <1>5, FreePagesKeeps
<1>6. CASE MergeBuddies
  BY <1>6, MergeKeeps
<1>7. CASE MergeWrong
  BY <1>1, <1>7 DEF MergeWrong
<1>8. CASE FreeEnds
  BY <1>8, FreeEndsKeeps
<1>9. CASE Broken
  BY <1>2, <1>9 DEF Broken
<1> QED BY <1>2, <1>3, <1>4, <1>5, <1>6, <1>7, <1>8, <1>9 DEF BuddyNext

\* The buddy allocator, for every number of pages, size of struct Page and word, and all
\* requests: until a merge has gone wrong, the free blocks and the blocks in use cover every page
\* once, each aligned to its size, and nr_free, the orders and PG_property say so.
THEOREM BuddyAlwaysExact == BuddySpec => []BuddyExact
<1>1. BuddyInit => BuddyInv
  BY BuddyInitially
<1>2. BuddyInv /\ [BuddyNext]_buddy_vars => BuddyInv'
  BY BuddyStep
<1>3. BuddyInv => BuddyExact
  BY BuddyInvExact
<1> QED BY <1>1, <1>2, <1>3, PTL DEF BuddySpec
=============================================================================
