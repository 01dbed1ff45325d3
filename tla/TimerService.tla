---------------------------- MODULE TimerService ----------------------------
(***************************************************************************)
(* What timers promise: a timer set for n ticks is off n ticks later, not  *)
(* earlier and not later, unless it is cancelled.  Sched implements this   *)
(* module with a list of differences.                                      *)
(***************************************************************************)
EXTENDS Integers

CONSTANTS
  Client,      \* who may have a timer, one each
  MaxExpires

VARIABLE left  \* the ticks left to each timer that is set

Set(p, n) ==
  /\ p \notin DOMAIN left
  /\ left' = [q \in DOMAIN left \cup {p} |-> IF q = p THEN n ELSE left[q]]

Cancel(p) == left' = [q \in DOMAIN left \ {p} |-> left[q]]

Tick == left' = [q \in {r \in DOMAIN left : left[r] > 1} |-> left[q] - 1]

Init == left = [p \in {} |-> 0]

Next ==
  \/ \E p \in Client, n \in 1 .. MaxExpires : Set(p, n)
  \/ \E p \in Client : Cancel(p)
  \/ Tick

Spec == Init /\ [][Next]_left
=============================================================================
