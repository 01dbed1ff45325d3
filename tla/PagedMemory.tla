---------------------------- MODULE PagedMemory ----------------------------
(***************************************************************************)
(* What demand paging promises a program: a page has some content once it  *)
(* has been touched, and then only the program's own stores change it,     *)
(* wherever the page is kept.  Swap implements this module.                *)
(***************************************************************************)
CONSTANTS VPage, Value, Untouched

VARIABLE mem   \* the content of each virtual page

Init == mem = [v \in VPage |-> Untouched]

Touch(v, x) == mem[v] = Untouched /\ mem' = [mem EXCEPT ![v] = x]

Store(v, x) == mem[v] # Untouched /\ mem' = [mem EXCEPT ![v] = x]

Next == \E v \in VPage, x \in Value : Touch(v, x) \/ Store(v, x)

Spec == Init /\ [][Next]_mem
=============================================================================
