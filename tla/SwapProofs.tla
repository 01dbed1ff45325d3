----------------------------- MODULE SwapProofs -----------------------------
(***************************************************************************)
(* Proofs about Swap: frames and disk slots are accounted for exactly, and *)
(* paging is invisible, for any number of pages, frames and disk slots.    *)
(***************************************************************************)
EXTENDS Swap, ListLemmas

\* The end of a list, when something is appended to it, and as one of its members.
LEMMA LastAppended ==
  ASSUME NEW S, NEW s \in Seq(S), NEW x \in S
  PROVE  Append(s, x) # << >> /\ Last(Append(s, x)) = x
BY DEF Last

LEMMA LastLinked ==
  ASSUME NEW S, NEW s \in Seq(S), s # << >>
  PROVE  Last(s) \in Range(s) /\ Last(s) = s[Len(s)] /\ Len(s) \in DOMAIN s
BY DEF Last, Range

\* What page v holds, by the entries P, the frames A and the slots D.
Content(P, A, D, v) ==
  CASE P[v] = 0 -> "none"
    [] P[v] \in Frame -> A[P[v]]
    [] OTHER -> D[P[v]]

\* After alloc_page, and the swap_out it may have called, the frame it returns is
\* nobody's, the tables are exact without it, and no page's content has changed.
LEMMA AllocFacts ==
  ASSUME IInv, NEW f \in Frame, NEW i \in Place, AllocPage(f, i)
  PROVE  /\ PteAfter(i) \in [VPage -> Frame \cup {0} \cup Slots]
         /\ DiskAfter(i) \in [Slots -> Value]
         /\ ListAfter(i) \in Seq(Frame) /\ IsInjective(ListAfter(i))
         /\ Range(ListAfter(i)) = Linked \ {f}
         /\ \A g \in Linked \ {f} : PteAfter(i)[pra_vaddr[g]] = g
         /\ \A v \in VPage : PteAfter(i)[v] \in Frame =>
              PteAfter(i)[v] = pte[v] /\ pte[v] # f
         /\ \A v \in VPage : PteAfter(i)[v] \notin Frame =>
              PteAfter(i)[v] = 0 \/ PteAfter(i)[v] = Slot(v)
         /\ \A v \in VPage : ~ Mapped(v) => PteAfter(i)[v] = pte[v]
         /\ \A v \in VPage : Content(PteAfter(i), data, DiskAfter(i), v) = mem[v]
<1>1. /\ pte \in [VPage -> Frame \cup {0} \cup Slots]
      /\ data \in [Frame -> Value] /\ disk \in [Slots -> Value]
      /\ pra_list \in Seq(Frame) /\ IsInjective(pra_list)
      /\ Linked \cap free = {}
      /\ \A g \in Linked : pra_vaddr[g] \in VPage /\ pte[pra_vaddr[g]] = g
      /\ \A v \in VPage : pte[v] \in Frame =>
           pte[v] \in Linked /\ pra_vaddr[pte[v]] = v
      /\ \A v \in VPage : pte[v] \notin Frame => pte[v] = 0 \/ pte[v] = Slot(v)
  BY DEF IInv, SwapTypes, FramesExact, Mapped, SwappedOut
<1>2. \A v \in VPage : Content(pte, data, disk, v) = mem[v]
  BY DEF Content, mem, Mapped
<1>3. CASE i = 0
  <2>1. f \in free /\ f \notin Linked
    BY <1>1, <1>3 DEF AllocPage
  <2>2. /\ PteAfter(i) = pte /\ DiskAfter(i) = disk /\ ListAfter(i) = pra_list
    BY <1>3 DEF PteAfter, DiskAfter, ListAfter
  <2> QED BY <1>1, <1>2, <2>1, <2>2 DEF Linked
<1>4. CASE i # 0
  <2> DEFINE u == OutPage(i)
  <2>1. i \in 1 .. Len(pra_list) /\ f = pra_list[i] /\ Slot(u) \in Slots
    BY <1>1, <1>4 DEF AllocPage, Place
  <2>2. f \in Linked /\ u = pra_vaddr[f]
    BY <1>1, <2>1 DEF Linked, Range, OutPage
  <2>3. u \in VPage /\ pte[u] = f
    BY <1>1, <2>2
  <2>4. /\ PteAfter(i) = [pte EXCEPT ![u] = Slot(u)]
        /\ DiskAfter(i) = [disk EXCEPT ![Slot(u)] = data[f]]
        /\ ListAfter(i) = RemoveAt(pra_list, i)
    BY <1>4, <2>1 DEF PteAfter, DiskAfter, ListAfter
  <2> HIDE DEF u
  <2>5. ListAfter(i) \in Seq(Frame) /\ IsInjective(ListAfter(i))
    BY <1>1, <2>1, <2>4, RemoveOne, RemoveOneInjective
  <2>6. Range(ListAfter(i)) = Linked \ {f}
    BY <1>1, <2>1, <2>4, RemoveOneRange DEF Linked
  <2>7. Slot(u) \notin Frame /\ Slot(u) # 0
    BY <2>1, <2>3, SwapAssumption DEF Slots
  <2>8. \A v \in VPage : PteAfter(i)[v] = IF v = u THEN Slot(u) ELSE pte[v]
    BY <1>1, <2>3, <2>4
  <2>9. \A v \in VPage : v # u => Slot(v) # Slot(u)
    BY <2>3, SwapAssumption DEF Slot
  <2>10. \A v \in VPage : v # u => pte[v] # f
    BY <1>1, <2>2
  <2>11. ASSUME NEW v \in VPage
         PROVE  Content(PteAfter(i), data, DiskAfter(i), v) = mem[v]
    <3>1. CASE v = u
      <4>1. Content(PteAfter(i), data, DiskAfter(i), v) = DiskAfter(i)[Slot(u)]
        BY <2>7, <2>8, <3>1 DEF Content
      <4>2. DiskAfter(i)[Slot(u)] = data[f]
        BY <1>1, <2>1, <2>4
      <4>3. f # 0
        BY <2>3, <1>1, SwapAssumption
      <4>4. mem[v] = data[f]
        BY <2>3, <3>1, <4>3 DEF mem, Mapped
      <4> QED BY <4>1, <4>2, <4>4
    <3>2. CASE v # u
      <4>1. PteAfter(i)[v] = pte[v]
        BY <2>8, <3>2
      <4>2. pte[v] \notin Frame /\ pte[v] # 0
              => pte[v] \in Slots /\ DiskAfter(i)[pte[v]] = disk[pte[v]]
        BY <1>1, <2>4, <2>9, <3>2
      <4> QED BY <1>2, <4>1, <4>2 DEF Content
    <3> QED BY <3>1, <3>2
  <2>12. \A g \in Linked \ {f} : pra_vaddr[g] # u
    BY <1>1, <2>3
  <2>13. PteAfter(i) \in [VPage -> Frame \cup {0} \cup Slots]
    <3>1. pte \in [VPage -> Frame \cup {0} \cup Slots]
      BY <1>1
    <3> QED BY <2>1, <2>4, <3>1
  <2>14. DiskAfter(i) \in [Slots -> Value]
    <3>1. data[f] \in Value /\ disk \in [Slots -> Value]
      BY <1>1
    <3> QED BY <3>1, <2>4
  <2>15. \A g \in Linked \ {f} : PteAfter(i)[pra_vaddr[g]] = g
    BY <1>1, <2>8, <2>12
  <2>16. \A v \in VPage : PteAfter(i)[v] \in Frame =>
           PteAfter(i)[v] = pte[v] /\ pte[v] # f
    BY <2>7, <2>8, <2>10
  <2>17. \A v \in VPage : PteAfter(i)[v] \notin Frame =>
           PteAfter(i)[v] = 0 \/ PteAfter(i)[v] = Slot(v)
    BY <1>1, <2>8
  <2>18. \A v \in VPage : ~ Mapped(v) => PteAfter(i)[v] = pte[v]
    BY <2>3, <2>8 DEF Mapped
  <2> QED BY <2>5, <2>6, <2>11, <2>13, <2>14, <2>15, <2>16, <2>17, <2>18
<1> QED BY <1>3, <1>4
-----------------------------------------------------------------------------
\* The entry that swap_in reads, if it is no frame, is the page's slot.
LEMMA SwapInEntry ==
  ASSUME IInv, NEW v \in VPage, Faults(v), NEW f \in Frame, NEW i \in Place,
         AllocPage(f, i), PteAfter(i)[v] \notin Frame
  PROVE  PteAfter(i)[v] \in Slots /\ PteAfter(i)[v] # 0
<1>1. PteAfter(i)[v] \in Frame \cup {0} \cup Slots
  BY AllocFacts
<1>2. CASE SwappedOut(v)
  BY <1>1, <1>2, AllocFacts DEF SwappedOut, Mapped
<1>3. CASE Mapped(v)
  <2>1. pte[v] # PteAfter(i)[v]
    BY <1>3 DEF Mapped
  <2>2. PteAfter(i) = [pte EXCEPT ![OutPage(i)] = Slot(OutPage(i))]
    BY <2>1 DEF PteAfter
  <2>3. PteAfter(i)[v] = Slot(v)
    BY <2>1, <2>2, <1>3 DEF IInv, SwapTypes
  <2> QED BY <1>1, <2>3, SwapAssumption DEF Slot
<1> QED BY <1>2, <1>3 DEF Faults

\* page_insert and swap_map_swappable link the new frame to its page.
LEMMA MapKeeps ==
  ASSUME IInv, NEW v \in VPage, NEW f \in Frame, NEW i \in Place,
         PteAfter(i)[v] \notin Frame, Map(v, f, i), data' \in [Frame -> Value]
  PROVE  IInv'
<1>1. AllocPage(f, i)
  BY DEF Map
<1> DEFINE P == PteAfter(i)
           L == ListAfter(i)
<1>2. /\ P \in [VPage -> Frame \cup {0} \cup Slots]
      /\ DiskAfter(i) \in [Slots -> Value]
      /\ L \in Seq(Frame) /\ IsInjective(L)
      /\ Range(L) = Linked \ {f}
      /\ \A g \in Linked \ {f} : P[pra_vaddr[g]] = g
      /\ \A u \in VPage : P[u] \in Frame => P[u] = pte[u] /\ pte[u] # f
      /\ \A u \in VPage : P[u] \notin Frame => P[u] = 0 \/ P[u] = Slot(u)
  BY <1>1, AllocFacts
<1>3. /\ pte' = [P EXCEPT ![v] = f] /\ disk' = DiskAfter(i) /\ free' = free \ {f}
      /\ pra_list' = Append(L, f) /\ visited' = VisitedAfter(i) \cup {f}
      /\ pra_vaddr' = [pra_vaddr EXCEPT ![f] = v] /\ stopped' = stopped
  BY DEF Map
<1> HIDE DEF P, L
<1>4. /\ SwapTypes /\ Linked \cap free = {}
      /\ \A g \in Linked : pra_vaddr[g] \in VPage
      /\ \A u \in VPage : pte[u] \in Frame =>
           pte[u] \in Linked /\ pra_vaddr[pte[u]] = u
  BY DEF IInv, FramesExact, Mapped
<1>5. Linked' = Linked \cup {f} /\ IsInjective(pra_list') /\ pra_list' \in Seq(Frame)
  <2>1. Range(Append(L, f)) = Range(L) \cup {f} /\ IsInjective(Append(L, f))
    BY <1>2, PushBack
  <2>2. Append(L, f) \in Seq(Frame)
    BY <1>2, AppendProperties
  <2> QED BY <1>2, <1>3, <2>1, <2>2 DEF Linked
<1>6. /\ curr_ptr' \in Frame \cup {HEAD} /\ stale' \in Frame \cup {HEAD}
      /\ curr_ptr' \in Linked' \cup {HEAD} \/ stale' \in Linked' \cup {HEAD}
  <2>1. CASE i = 0
    <3>1. curr_ptr' = curr_ptr /\ stale' = stale
      BY <2>1 DEF Map, MovesHand
    <3> QED BY <1>4, <1>5, <3>1 DEF SwapTypes, IInv, HandLeadsBack
  <2>2. CASE i # 0
    <3>1. i \in 1 .. Len(pra_list) /\ f = pra_list[i] /\ pra_list \in Seq(Frame)
      <4>1. pra_list \in Seq(Frame)
        BY <1>4 DEF SwapTypes
      <4> QED BY <1>1, <2>2, <4>1 DEF AllocPage
    <3>2. curr_ptr' = f
          /\ stale' = IF i = Len(pra_list) THEN HEAD ELSE pra_list[i + 1]
      BY <2>2, <3>1 DEF Map, MovesHand
    <3>3. stale' \in Frame \cup {HEAD}
      BY <3>1, <3>2
    <3> QED BY <1>5, <3>2, <3>3
  <2> QED BY <2>1, <2>2
<1>7. SwapTypes'
  <2>1. pte' \in [VPage -> Frame \cup {0} \cup Slots]
    BY <1>2, <1>3
  <2>2. pra_vaddr' \in [Frame -> VPage \cup {0}]
    BY <1>3, <1>4 DEF SwapTypes
  <2>3. free' \in SUBSET Frame /\ visited' \in SUBSET Frame
    BY <1>3, <1>4 DEF SwapTypes, VisitedAfter
  <2> QED BY <1>2, <1>3, <1>4, <1>5, <1>6, <2>1, <2>2, <2>3 DEF SwapTypes
<1>8. FramesExact'
  <2>1. P[v] \notin Frame
    BY DEF P
  <2>2. \A u \in VPage : pte'[u] = IF u = v THEN f ELSE P[u]
    BY <1>2, <1>3
  <2>3. \A g \in Frame : pra_vaddr'[g] = IF g = f THEN v ELSE pra_vaddr[g]
    BY <1>3, <1>4 DEF SwapTypes
  <2>4. Linked \subseteq Frame
    BY <1>4, RangeOfSeq DEF Linked, SwapTypes
  <2>5. \A g \in Linked' : pra_vaddr'[g] \in VPage /\ pte'[pra_vaddr'[g]] = g
    <3>1. pra_vaddr'[f] = v /\ pte'[v] = f
      BY <2>2, <2>3
    <3>2. ASSUME NEW g \in Linked, g # f
          PROVE  pra_vaddr'[g] \in VPage /\ pte'[pra_vaddr'[g]] = g
      <4>1. pra_vaddr'[g] = pra_vaddr[g] /\ pra_vaddr[g] \in VPage
        BY <1>4, <2>3, <2>4, <3>2
      <4>2. P[pra_vaddr[g]] = g
        BY <1>2, <3>2
      <4> QED BY <2>1, <2>2, <2>4, <4>1, <4>2
    <3> QED BY <1>5, <3>1, <3>2
  <2>6. \A u \in VPage : Mapped(u)' => pte'[u] \in Linked' /\ pra_vaddr'[pte'[u]] = u
    BY <1>2, <1>4, <1>5, <2>2, <2>3 DEF Mapped
  <2>7. \A u \in VPage : SwappedOut(u)' => pte'[u] = Slot(u)
    BY <1>2, <2>2 DEF SwappedOut
  <2>8. Linked' \cap free' = {}
    BY <1>3, <1>4, <1>5
  <2> QED BY <1>5, <2>5, <2>6, <2>7, <2>8 DEF FramesExact
<1>9. HandVisited'
  <2>1. pra_list' # << >> /\ Last(pra_list') = f
    BY <1>2, <1>3, LastAppended
  <2> QED BY <1>3, <2>1 DEF HandVisited
<1> QED BY <1>6, <1>7, <1>8, <1>9 DEF IInv, HandLeadsBack

\* The kernel's own pages leave the tables exact, even when one is swapped out
\* for them and the hand stays on it.
LEMMA KernelAllocKeeps ==
  ASSUME IInv, KernelAlloc
  PROVE  IInv'
<1>1. PICK f \in Frame, i \in Place :
        /\ AllocPage(f, i)
        /\ pte' = PteAfter(i) /\ disk' = DiskAfter(i) /\ free' = free \ {f}
        /\ pra_list' = ListAfter(i) /\ visited' = VisitedAfter(i)
        /\ MovesHand(i)
        /\ UNCHANGED <<data, pra_vaddr, stopped>>
  BY DEF KernelAlloc
<1>2. /\ pte' \in [VPage -> Frame \cup {0} \cup Slots]
      /\ disk' \in [Slots -> Value]
      /\ pra_list' \in Seq(Frame) /\ IsInjective(pra_list')
      /\ Linked' = Linked \ {f}
      /\ \A g \in Linked \ {f} : pte'[pra_vaddr[g]] = g
      /\ \A u \in VPage : pte'[u] \in Frame => pte'[u] = pte[u] /\ pte[u] # f
      /\ \A u \in VPage : pte'[u] \notin Frame => pte'[u] = 0 \/ pte'[u] = Slot(u)
  BY <1>1, AllocFacts DEF Linked
<1>3. /\ SwapTypes /\ Linked \cap free = {} /\ IsInjective(pra_list)
      /\ \A g \in Linked : pra_vaddr[g] \in VPage
      /\ \A u \in VPage : pte[u] \in Frame =>
           pte[u] \in Linked /\ pra_vaddr[pte[u]] = u
  BY DEF IInv, FramesExact, Mapped
<1>4. FramesExact'
  BY <1>1, <1>2, <1>3 DEF FramesExact, Mapped, SwappedOut
<1>5. /\ curr_ptr' \in Frame \cup {HEAD} /\ stale' \in Frame \cup {HEAD}
      /\ curr_ptr' \in Linked' \cup {HEAD} \/ stale' \in Linked' \cup {HEAD}
  <2>1. CASE i = 0
    <3>1. curr_ptr' = curr_ptr /\ stale' = stale
      BY <1>1, <2>1 DEF MovesHand
    <3>2. f \notin Linked
      <4>1. f \in free
        <5>1. pra_list \in Seq(Frame)
          BY <1>3 DEF SwapTypes
        <5> QED BY <1>1, <2>1, <5>1 DEF AllocPage
      <4> QED BY <1>3, <4>1
    <3>3. curr_ptr \in Linked \cup {HEAD} \/ stale \in Linked \cup {HEAD}
      BY DEF IInv, HandLeadsBack
    <3>4. Linked' = Linked
      BY <1>2, <3>2
    <3>5. curr_ptr \in Frame \cup {HEAD} /\ stale \in Frame \cup {HEAD}
      BY <1>3 DEF SwapTypes
    <3> QED BY <3>1, <3>3, <3>4, <3>5
  <2>2. CASE i # 0
    <3>1. pra_list \in Seq(Frame)
      BY <1>3 DEF SwapTypes
    <3>2. i \in 1 .. Len(pra_list) /\ f = pra_list[i]
      BY <1>1, <2>2, <3>1 DEF AllocPage
    <3>3. curr_ptr' = f
          /\ stale' = IF i = Len(pra_list) THEN HEAD ELSE pra_list[i + 1]
      BY <1>1, <2>2, <3>2 DEF MovesHand
    <3>4. i # Len(pra_list) => pra_list[i + 1] \in Linked \ {f}
      <4>1. i # Len(pra_list) => i + 1 \in DOMAIN pra_list /\ i \in DOMAIN pra_list
        BY <3>1, <3>2
      <4>2. i # Len(pra_list) => pra_list[i + 1] # pra_list[i]
        BY <1>3, <3>2, <4>1 DEF IsInjective
      <4> QED BY <3>2, <4>1, <4>2 DEF Linked, Range
    <3>5. Linked \subseteq Frame
      BY <3>1, RangeOfSeq DEF Linked
    <3> QED BY <1>2, <3>3, <3>4, <3>5
  <2> QED BY <2>1, <2>2
<1>6. SwapTypes'
  <2>1. free' \in SUBSET Frame /\ visited' \in SUBSET Frame
    BY <1>1, <1>3 DEF SwapTypes, VisitedAfter
  <2> QED BY <1>1, <1>2, <1>3, <1>5, <2>1 DEF SwapTypes
<1>7. HandVisited'
  <2>1. CASE i = 0
    <3>1. pra_list' = pra_list /\ visited' = visited /\ curr_ptr' = curr_ptr
      BY <1>1, <2>1 DEF ListAfter, VisitedAfter, MovesHand
    <3> QED BY <3>1 DEF IInv, HandVisited
  <2>2. CASE i # 0
    <3>1. pra_list \in Seq(Frame)
      BY <1>3 DEF SwapTypes
    <3>2. i \in 1 .. Len(pra_list) /\ f = pra_list[i] /\ curr_ptr' = f
      BY <1>1, <2>2, <3>1 DEF AllocPage, MovesHand
    <3>3. f \notin Linked'
      BY <1>2
    <3> QED BY <1>2, <3>2, <3>3, LastLinked DEF HandVisited, Linked
  <2> QED BY <2>1, <2>2
<1> QED BY <1>4, <1>5, <1>6, <1>7 DEF IInv, HandLeadsBack

\* Each step of the system keeps the tables exact.
LEMMA StepIInv ==
  ASSUME IInv, [SwapNext]_swap_vars
  PROVE  IInv'
<1>1. SwapTypes
  BY DEF IInv
<1>2. ASSUME NEW v \in VPage, FirstTouch(v) PROVE IInv'
  <2>1. PICK f \in Frame, i \in Place : Map(v, f, i)
    BY <1>2 DEF FirstTouch
  <2>2. ~ Mapped(v) /\ data' \in [Frame -> Value]
    BY <1>1, <1>2, SwapAssumption DEF FirstTouch, Mapped, SwapTypes
  <2>3. PteAfter(i)[v] \notin Frame
    BY <2>1, <2>2, AllocFacts DEF Map, Mapped
  <2> QED BY <2>1, <2>2, <2>3, MapKeeps
<1>3. ASSUME NEW v \in VPage, SwapIn(v) PROVE IInv'
  <2>1. PICK f \in Frame, i \in Place :
          /\ PteAfter(i)[v] \notin Frame /\ Map(v, f, i)
          /\ data' = [data EXCEPT ![f] = DiskAfter(i)[PteAfter(i)[v]]]
    BY <1>3 DEF SwapIn
  <2>2. /\ DiskAfter(i) \in [Slots -> Value]
        /\ PteAfter(i) \in [VPage -> Frame \cup {0} \cup Slots]
    BY <2>1, AllocFacts DEF Map
  <2>3. PteAfter(i)[v] \in Slots
    BY <1>3, <2>1, <2>2, SwapInEntry DEF SwapIn, Map
  <2>4. data' \in [Frame -> Value]
    BY <1>1, <2>1, <2>2, <2>3 DEF SwapTypes
  <2> QED BY <2>1, <2>4, MapKeeps
<1>4. ASSUME UNCHANGED <<pte, free, clock, pra_vaddr>>, SwapTypes' PROVE IInv'
  BY <1>4 DEF IInv, FramesExact, HandLeadsBack, HandVisited, Linked, Mapped,
              SwappedOut, clock
<1>5. ASSUME NEW v \in VPage, NEW x \in Value, Store(v, x) PROVE IInv'
  <2>1. SwapTypes'
    BY <1>1, <1>5 DEF Store, SwapTypes, clock
  <2> QED BY <1>4, <1>5, <2>1 DEF Store
<1>6. ASSUME NEW why \in {"invalid swap_entry_t", "no victim", "handle pgfault failed"},
             Halt(why)
      PROVE  IInv'
  <2>1. SwapTypes'
    BY <1>1, <1>6 DEF Halt, SwapTypes, clock
  <2> QED BY <1>4, <1>6, <2>1 DEF Halt
<1>7. ASSUME KernelFree PROVE IInv'
  <2>1. SwapTypes'
    BY <1>1, <1>7 DEF KernelFree, SwapTypes, clock
  <2>2. FramesExact' /\ HandLeadsBack' /\ HandVisited'
    BY <1>7 DEF KernelFree, IInv, FramesExact, HandLeadsBack, HandVisited, Linked,
                Mapped, SwappedOut, clock
  <2> QED BY <2>1, <2>2 DEF IInv
<1>8. ASSUME UNCHANGED swap_vars PROVE IInv'
  BY <1>8 DEF swap_vars, clock, IInv, SwapTypes, FramesExact, HandLeadsBack, HandVisited,
              Linked, Mapped, SwappedOut
<1> QED
  BY <1>2, <1>3, <1>5, <1>6, <1>7, <1>8, KernelAllocKeeps
     DEF SwapNext, FaultsAgain, BadAddress, DiskTooSmall, NoVictim, SwapStopped
-----------------------------------------------------------------------------
(* Theorems *)

\* Frames, page table and replacement list agree at every moment: no frame is
\* mapped twice, free and mapped, or mapped and beyond the reach of the clock.
THEOREM SwapCorrect == SwapSpec => []IInv
<1>1. SwapInit => IInv
  <2> SUFFICES ASSUME SwapInit PROVE IInv
    OBVIOUS
  <2>1. Linked = {}
    BY DEF SwapInit, Linked, Range
  <2>2. \A v \in VPage : pte[v] = 0 /\ 0 \notin Frame
    BY SwapAssumption DEF SwapInit
  <2>3. IsInjective(pra_list)
    BY DEF SwapInit, IsInjective
  <2> QED BY <2>1, <2>2, <2>3, SwapAssumption
          DEF SwapInit, IInv, SwapTypes, FramesExact, HandLeadsBack, HandVisited, Mapped,
              SwappedOut
<1> QED BY <1>1, StepIInv, PTL DEF SwapSpec

\* A step changes the content of at most one page, the one touched for the first
\* time or written, wherever the pages are kept before and after it.
LEMMA StepMemory ==
  ASSUME IInv, [SwapNext]_swap_vars
  PROVE  [Memory!Next]_mem
<1>1. SwapTypes
  BY DEF IInv
<1>2. \A v \in VPage : mem[v] = Content(pte, data, disk, v)
  BY DEF mem, Content, Mapped
<1>3. \A v \in VPage : mem'[v] = Content(pte', data', disk', v)
  BY DEF mem, Content, Mapped
<1>4. mem = [v \in VPage |-> mem[v]] /\ mem' = [v \in VPage |-> mem'[v]]
  BY DEF mem
<1>5. ASSUME NEW v \in VPage, NEW f \in Frame, NEW i \in Place, Map(v, f, i),
             \A g \in Frame : g # f => data'[g] = data[g]
      PROVE  mem' = [mem EXCEPT ![v] = data'[f]]
  <2>1. /\ \A u \in VPage : Content(PteAfter(i), data, DiskAfter(i), u) = mem[u]
        /\ \A u \in VPage : PteAfter(i)[u] \in Frame => PteAfter(i)[u] # f
        /\ PteAfter(i) \in [VPage -> Frame \cup {0} \cup Slots]
    BY <1>5, AllocFacts DEF Map
  <2>2. \A u \in VPage : pte'[u] = IF u = v THEN f ELSE PteAfter(i)[u]
    BY <1>5, <2>1 DEF Map
  <2>3. disk' = DiskAfter(i)
    BY <1>5 DEF Map
  <2>4. f # 0
    BY SwapAssumption
  <2>5. mem'[v] = data'[f]
    BY <1>3, <2>2, <2>4 DEF Content
  <2>6. ASSUME NEW u \in VPage, u # v PROVE mem'[u] = mem[u]
    <3>1. Content(pte', data', disk', u)
            = Content(PteAfter(i), data, DiskAfter(i), u)
      BY <1>5, <2>1, <2>2, <2>3, <2>6 DEF Content
    <3> QED BY <1>3, <2>1, <3>1
  <2> QED BY <1>4, <2>5, <2>6
<1>6. ASSUME NEW v \in VPage, FirstTouch(v) PROVE Memory!Next
  <2>1. PICK f \in Frame, i \in Place : Map(v, f, i)
    BY <1>6 DEF FirstTouch
  <2>2. ~ Mapped(v) /\ mem[v] = "none" /\ data' = data
    BY <1>2, <1>6, SwapAssumption DEF FirstTouch, Mapped, Content
  <2>3. mem' = [mem EXCEPT ![v] = data[f]] /\ data[f] \in Value
    BY <1>1, <1>5, <2>1, <2>2 DEF SwapTypes
  <2> QED BY <2>2, <2>3 DEF Memory!Next, Memory!Touch
<1>7. ASSUME NEW v \in VPage, SwapIn(v) PROVE UNCHANGED mem
  <2>1. PICK f \in Frame, i \in Place :
          /\ PteAfter(i)[v] \notin Frame /\ Map(v, f, i)
          /\ data' = [data EXCEPT ![f] = DiskAfter(i)[PteAfter(i)[v]]]
    BY <1>7 DEF SwapIn
  <2>2. PteAfter(i)[v] # 0
    BY <1>7, <2>1, SwapInEntry DEF SwapIn, Map
  <2>3. /\ data'[f] = DiskAfter(i)[PteAfter(i)[v]]
        /\ \A g \in Frame : g # f => data'[g] = data[g]
    BY <1>1, <2>1 DEF SwapTypes
  <2>4. Content(PteAfter(i), data, DiskAfter(i), v) = mem[v]
    BY <2>1, AllocFacts DEF Map
  <2>5. DiskAfter(i)[PteAfter(i)[v]] = mem[v]
    BY <2>1, <2>2, <2>4 DEF Content
  <2>6. mem' = [mem EXCEPT ![v] = data'[f]]
    BY <1>5, <2>1, <2>3
  <2> QED BY <1>4, <2>3, <2>5, <2>6
<1>8. ASSUME NEW v \in VPage, NEW x \in Value, Store(v, x) PROVE Memory!Next
  <2>1. /\ pte[v] \in Frame /\ data' = [data EXCEPT ![pte[v]] = x]
        /\ pte' = pte /\ disk' = disk
    BY <1>8 DEF Store, Mapped
  <2>2. \A u \in VPage : pte[u] \in Frame /\ u # v => pte[u] # pte[v]
    BY <2>1 DEF IInv, FramesExact, Mapped
  <2>3. mem'[v] = x /\ mem[v] # "none"
    <3>1. pte[v] # 0 /\ data[pte[v]] \in Value
      BY <1>1, <2>1, SwapAssumption DEF SwapTypes
    <3>2. data'[pte[v]] = x
      BY <1>1, <2>1 DEF SwapTypes
    <3> QED BY <1>2, <1>3, <2>1, <3>1, <3>2, SwapAssumption DEF Content
  <2>4. ASSUME NEW u \in VPage, u # v PROVE mem'[u] = mem[u]
    <3>1. pte[u] \in Frame => data'[pte[u]] = data[pte[u]]
      BY <1>1, <2>1, <2>2, <2>4 DEF SwapTypes
    <3> QED BY <1>2, <1>3, <2>1, <3>1 DEF Content
  <2>5. mem' = [mem EXCEPT ![v] = x]
    BY <1>4, <2>3, <2>4
  <2> QED BY <2>3, <2>5 DEF Memory!Next, Memory!Store
<1>9. ASSUME KernelAlloc PROVE UNCHANGED mem
  <2>1. PICK f \in Frame, i \in Place :
          /\ AllocPage(f, i) /\ pte' = PteAfter(i) /\ disk' = DiskAfter(i)
          /\ data' = data
    BY <1>9 DEF KernelAlloc
  <2>2. \A v \in VPage : Content(PteAfter(i), data, DiskAfter(i), v) = mem[v]
    BY <2>1, AllocFacts
  <2>3. \A v \in VPage : mem'[v] = mem[v]
    BY <1>3, <2>1, <2>2
  <2> QED BY <1>4, <2>3
<1>10. ASSUME KernelFree PROVE UNCHANGED mem
  <2>1. PICK f \in Frame \ (free \cup Linked), x \in Value :
          data' = [data EXCEPT ![f] = x]
    BY <1>10 DEF KernelFree
  <2>2. pte' = pte /\ disk' = disk
    BY <1>10 DEF KernelFree
  <2>3. \A v \in VPage : pte[v] \in Frame => data'[pte[v]] = data[pte[v]]
    BY <1>1, <2>1 DEF IInv, FramesExact, Mapped, SwapTypes
  <2>4. \A v \in VPage : mem'[v] = mem[v]
    BY <1>2, <1>3, <2>2, <2>3 DEF Content
  <2> QED BY <1>4, <2>4
<1>11. ASSUME UNCHANGED <<pte, data, disk>> PROVE UNCHANGED mem
  BY <1>11 DEF mem, Mapped
<1>12. ASSUME NEW why, Halt(why) PROVE UNCHANGED mem
  BY <1>11, <1>12 DEF Halt
<1>13. UNCHANGED swap_vars => UNCHANGED mem
  BY <1>11 DEF swap_vars
<1> QED
  BY <1>6, <1>7, <1>8, <1>9, <1>10, <1>12, <1>13
     DEF SwapNext, FaultsAgain, BadAddress, DiskTooSmall, NoVictim, SwapStopped

\* A program cannot tell that its pages are swapped: it reads what it last wrote,
\* for any number of pages, frames and slots, and whatever the kernel allocates.
THEOREM PagingIsInvisible == SwapSpec => PagingInvisible
<1>1. SwapInit => Memory!Init
  <2> SUFFICES ASSUME SwapInit PROVE mem = [v \in VPage |-> "none"]
    BY DEF Memory!Init
  <2>1. \A v \in VPage : pte[v] = 0
    BY DEF SwapInit
  <2>2. mem = [v \in VPage |-> mem[v]]
    BY DEF mem
  <2>3. \A v \in VPage : mem[v] = "none"
    BY <2>1, SwapAssumption DEF mem, Mapped
  <2> QED BY <2>2, <2>3
<1> QED BY <1>1, StepMemory, SwapCorrect, PTL DEF SwapSpec, PagingInvisible, Memory!Spec
-----------------------------------------------------------------------------
(* The clock *)

\* The frame under the hand is not the one that is taken, when it is the last of
\* several: the clock looks at the first of them before it comes back to the hand.
LEMMA HandPassedOver ==
  ASSUME IInv, NEW f \in Frame, NEW i \in Place, AllocPage(f, i),
         NEW v \in VPage, Mapped(v), PteAfter(i)[v] # pte[v],
         pte[v] = curr_ptr, curr_ptr = Last(pra_list)
  PROVE  Len(pra_list) = 1
<1>1. /\ pra_list \in Seq(Frame) /\ IsInjective(pra_list)
      /\ pte \in [VPage -> Frame \cup {0} \cup Slots]
      /\ \A g \in Linked : pra_vaddr[g] \in VPage /\ pte[pra_vaddr[g]] = g
  BY DEF IInv, SwapTypes, FramesExact
<1>2. i \in DOMAIN pra_list /\ IsVictim(i)
  BY DEF AllocPage, PteAfter
<1>3. pra_list # << >> /\ i \in 1 .. Len(pra_list) /\ Len(pra_list) \in Nat
  BY <1>1, <1>2
<1>4. pra_list[i] = curr_ptr
  <2>1. v = OutPage(i)
    BY <1>1, <1>3 DEF PteAfter
  <2>2. pra_list[i] \in Linked
    BY <1>2 DEF Linked, Range
  <2> QED BY <1>1, <2>1, <2>2 DEF OutPage
<1>5. curr_ptr = pra_list[Len(pra_list)] /\ Len(pra_list) \in DOMAIN pra_list
      /\ curr_ptr \in Linked
  BY <1>1, <1>3, LastLinked DEF Linked
<1>6. curr_ptr # HEAD
  BY SwapAssumption DEF Mapped, HEAD
<1>7. \A k \in DOMAIN pra_list : pra_list[k] = curr_ptr => k = Len(pra_list)
  BY <1>1, <1>5 DEF IsInjective
<1>8. i \notin Unvisited
  BY <1>3, <1>4 DEF Unvisited, IInv, HandVisited
<1>9. Starts(i)
  BY <1>2, <1>8 DEF IsVictim
<1>10. PICK k \in DOMAIN pra_list : pra_list[k] = curr_ptr /\ i = Around(k + 1)
  BY <1>5, <1>6, <1>9 DEF Starts
<1>11. k = Len(pra_list) /\ i = Len(pra_list)
  BY <1>2, <1>4, <1>7, <1>10
<1> QED BY <1>3, <1>10, <1>11 DEF Around

\* Two pages used in turn do not chase each other through one frame: what
\* _clock_swap_out_victim took last, and do_pgfault gave to the page that is now
\* newest, is not taken next, whatever the kernel allocates in between.
THEOREM NewestAlwaysStays == SwapSpec => NewestStays
<1>1. ASSUME IInv, [SwapNext]_swap_vars,
             NEW v \in VPage, Mapped(v), pte'[v] # pte[v], pte[v] = curr_ptr,
             curr_ptr = Last(pra_list)
      PROVE  Len(pra_list) = 1
  <2>1. pte \in [VPage -> Frame \cup {0} \cup Slots]
    BY <1>1 DEF IInv, SwapTypes
  <2>2. ASSUME NEW w \in VPage, NEW f \in Frame, NEW i \in Place, Map(w, f, i),
               PteAfter(i)[w] \notin Frame
        PROVE  PteAfter(i)[v] # pte[v]
    <3>1. PteAfter(i) \in [VPage -> Frame \cup {0} \cup Slots]
      BY <1>1, <2>2, AllocFacts DEF Map
    <3>2. pte' = [PteAfter(i) EXCEPT ![w] = f]
      BY <2>2 DEF Map
    <3>3. CASE v = w
      BY <1>1, <2>2, <3>3 DEF Mapped
    <3>4. CASE v # w
      BY <1>1, <3>1, <3>2, <3>4
    <3> QED BY <3>3, <3>4
  <2>3. ASSUME NEW w \in VPage, FirstTouch(w) PROVE Len(pra_list) = 1
    <3>1. PICK f \in Frame, i \in Place : Map(w, f, i)
      BY <2>3 DEF FirstTouch
    <3>2. AllocPage(f, i) /\ ~ Mapped(w)
      BY <2>3, <3>1, SwapAssumption DEF FirstTouch, Map, Mapped
    <3>3. PteAfter(i)[w] \notin Frame
      BY <1>1, <3>2, AllocFacts DEF Mapped
    <3> QED BY <1>1, <2>2, <3>1, <3>2, <3>3, HandPassedOver
  <2>4. ASSUME NEW w \in VPage, SwapIn(w) PROVE Len(pra_list) = 1
    <3>1. PICK f \in Frame, i \in Place : PteAfter(i)[w] \notin Frame /\ Map(w, f, i)
      BY <2>4 DEF SwapIn
    <3>2. AllocPage(f, i)
      BY <3>1 DEF Map
    <3> QED BY <1>1, <2>2, <3>1, <3>2, HandPassedOver
  <2>5. ASSUME KernelAlloc PROVE Len(pra_list) = 1
    <3>1. PICK f \in Frame, i \in Place : AllocPage(f, i) /\ pte' = PteAfter(i)
      BY <2>5 DEF KernelAlloc
    <3> QED BY <1>1, <3>1, HandPassedOver
  <2>6. ASSUME pte' = pte PROVE FALSE
    BY <1>1, <2>6
  <2> QED
    BY <1>1, <2>3, <2>4, <2>5, <2>6
       DEF SwapNext, FaultsAgain, BadAddress, DiskTooSmall, NoVictim, SwapStopped, Halt, Store,
           KernelFree, swap_vars
<1>2. IInv /\ [SwapNext]_swap_vars =>
        \A v \in VPage : Mapped(v) /\ pte'[v] # pte[v] /\ pte[v] = curr_ptr =>
          curr_ptr # Last(pra_list) \/ Len(pra_list) = 1
  BY <1>1
<1> QED BY <1>2, SwapCorrect, PTL DEF SwapSpec, NewestStays
=============================================================================
