------------------------------ MODULE PidAlloc ------------------------------
(***************************************************************************)
(* What the process table promises about process identifiers: a pid that   *)
(* is handed out is not the pid of a live process, and a pid stays live    *)
(* until its process is unlinked from proc_list.  Processes are counted    *)
(* too: a pid handed out twice would add a process and no live pid, which  *)
(* no step allows.  GetPid and Proc both implement this module.            *)
(***************************************************************************)
EXTENDS Integers

CONSTANT PidSet   \* the identifiers that may be handed out

VARIABLES live,   \* the identifiers of the processes on proc_list
          nr      \* how many processes there are

Init == live \in SUBSET PidSet /\ nr \in Nat

Alloc == \E pid \in PidSet \ live : live' = live \cup {pid} /\ nr' = nr + 1

Free == \E pid \in live : live' = live \ {pid} /\ nr' = nr - 1

Next == Alloc \/ Free

Spec == Init /\ [][Next]_<<live, nr>>
=============================================================================
