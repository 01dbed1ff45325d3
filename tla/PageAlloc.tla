----------------------------- MODULE PageAlloc -----------------------------
(***************************************************************************)
(* What a page allocator promises its callers: pages that are handed out   *)
(* were free and adjacent, pages that come back are free again, and no     *)
(* other page changes hands.  FreeList implements this module.             *)
(***************************************************************************)
EXTENDS Integers

CONSTANTS
  NPages,      \* number of physical pages the allocator was given
  MaxRequest   \* the largest number of pages asked for, or given back, at once

VARIABLE free  \* the pages nobody holds

Pages == 1 .. NPages

\* The n pages that begin with page b.
Run(b, n) == b .. b + n - 1

Init == free = Pages

Alloc(b, n) == Run(b, n) \subseteq free /\ free' = free \ Run(b, n)

Free(b, n) == Run(b, n) \subseteq Pages \ free /\ free' = free \cup Run(b, n)

\* A call that is refused changes nothing.
Next ==
  /\ free' # free
  /\ \E b \in Pages, n \in 1 .. MaxRequest : Alloc(b, n) \/ Free(b, n)

Spec == Init /\ [][Next]_free
=============================================================================
