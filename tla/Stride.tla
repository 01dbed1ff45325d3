------------------------------- MODULE Stride -------------------------------
(***************************************************************************)
(* The stride class of lab8 (default_sched_stride.c) under the scheduler   *)
(* framework (sched.c): the skew heap of runnable processes as its left,   *)
(* right and parent pointers (libs/skew_heap.h), and strides that wrap     *)
(* around and are compared by the sign of their difference.                *)
(*                                                                         *)
(* Words have Width bits where the code has 32, and BIG_STRIDE is          *)
(* 2^(Width-2) where it is 1<<30.  schedule() runs with interrupts off and *)
(* is one step.                                                            *)
(***************************************************************************)
EXTENDS Integers, FiniteSets

CONSTANTS
  Pid, idleproc, NULL,
  Width,            \* bits in a uint32_t
  Priority,         \* the values lab6_set_priority is called with
  MAX_TIME_SLICE,
  LongSleeps        \* FALSE: a process is woken while its stride is near the others

VARIABLES
  heap,             \* rq->lab6_run_pool as root, and the pointers of each process
  proc_num,
  lab6_stride, lab6_priority, time_slice,
  need_resched, current,
  asleep            \* the processes that are not runnable

vars == <<heap, proc_num, lab6_stride, lab6_priority, time_slice, need_resched,
          current, asleep>>

Word == 2^Width
BIG_STRIDE == 2^(Width - 2)

Proc == Pid \cup {idleproc}
-----------------------------------------------------------------------------
(* skew_heap.h, on heap records h and strides s *)

\* The difference of two words as int32_t reads it.
Signed(x, y) ==
  LET d == (x - y) % Word IN IF d < Word \div 2 THEN d ELSE d - Word

\* Mutant: words are compared as they are.
Less_Unsigned(s, p, q) == s[p] < s[q]

\* proc_stride_comp_f(p, q) == -1
Less(s, p, q) == Signed(s[p], s[q]) < 0

\* if (l) l->parent = a
SetParent(h, l, a) == IF l = NULL THEN h ELSE [h EXCEPT !.parent[l] = a]

Swapped(h, top, l) == [h EXCEPT !.left[top] = l, !.right[top] = h.left[top]]

\* skew_heap_merge: the root of the result is its root field.
RECURSIVE Merge(_, _, _, _)
Merge(h, s, a, b) ==
  IF a = NULL THEN [h EXCEPT !.root = b]
  ELSE IF b = NULL THEN [h EXCEPT !.root = a]
  ELSE LET top == IF Less(s, a, b) THEN a ELSE b
           below == IF top = a THEN Merge(h, s, h.right[a], b)
                               ELSE Merge(h, s, a, h.right[b])
           l == below.root
       IN  [SetParent(Swapped(below, top, l), l, top) EXCEPT !.root = top]

\* skew_heap_insert
Insert(h, s, b) ==
  Merge([h EXCEPT !.left[b] = NULL, !.right[b] = NULL, !.parent[b] = NULL],
        s, h.root, b)

\* Mutant: the subtree that takes the place of a node keeps its old parent.
Replaced_Stale(h, rep, p) == h

\* if (rep) rep->parent = p
Replaced(h, rep, p) == SetParent(h, rep, p)

\* skew_heap_remove.  The class takes out only the pick of stride_pick_next, which is the
\* root: the branch for a node with a parent is the library's, and is never taken here.
Remove(h, s, b) ==
  LET p == h.parent[b]
      m == Merge(h, s, h.left[b], h.right[b])
      r == Replaced(m, m.root, p)
  IN  IF p = NULL THEN r
      ELSE IF r.left[p] = b THEN [r EXCEPT !.left[p] = m.root, !.root = h.root]
      ELSE [r EXCEPT !.right[p] = m.root, !.root = h.root]

\* The pointers of b, which is out of the heap; stride_enqueue sets them anew.
Forget(h, b) ==
  [h EXCEPT !.left[b] = NULL, !.right[b] = NULL, !.parent[b] = NULL]
-----------------------------------------------------------------------------
(* The class under sched.c *)

\* Mutant: a priority of 1 makes two steps at once.
Pass_Double(p) == IF lab6_priority[p] = 0 THEN 2 * BIG_STRIDE
                  ELSE (2 * BIG_STRIDE) \div lab6_priority[p]

\* What stride_pick_next adds to the stride of p.
Pass(p) == IF lab6_priority[p] = 0 THEN BIG_STRIDE
           ELSE BIG_STRIDE \div lab6_priority[p]

\* stride_enqueue
Refilled(p) ==
  IF time_slice[p] = 0 THEN [time_slice EXCEPT ![p] = MAX_TIME_SLICE] ELSE time_slice

\* schedule(), called by a process that is still runnable if ready.  A runnable
\* process goes back into the heap; the root is picked, its stride grows while it
\* is in the heap, and then it is taken out.
Schedule(ready) ==
  LET slices == IF ready THEN Refilled(current) ELSE time_slice
      here == IF ready THEN Insert(heap, lab6_stride, current) ELSE heap
      num == IF ready THEN proc_num + 1 ELSE proc_num
      next == here.root
  IN  /\ time_slice' = slices
      /\ need_resched' = FALSE
      /\ IF next = NULL
         THEN /\ current' = idleproc /\ heap' = here /\ proc_num' = num
              /\ UNCHANGED lab6_stride
         ELSE /\ current' = next
              /\ lab6_stride' = [lab6_stride EXCEPT ![next] = (@ + Pass(next)) % Word]
              /\ heap' = Forget(Remove(here, lab6_stride', next), next)
              /\ proc_num' = num - 1

Running == current \in Pid
Runnable == Pid \ asleep

\* At the end of a trap from user mode: stride_proc_tick has asked for it.
Reschedules ==
  /\ need_resched
  /\ Schedule(Running)
  /\ UNCHANGED <<lab6_priority, asleep>>

\* do_yield
Yields ==
  /\ Running /\ ~ need_resched
  /\ Schedule(TRUE)
  /\ UNCHANGED <<lab6_priority, asleep>>

\* current goes to sleep.
Sleeps ==
  /\ Running /\ ~ need_resched
  /\ asleep' = asleep \cup {current}
  /\ Schedule(FALSE)
  /\ UNCHANGED lab6_priority

\* The strides of two processes are as far apart as one step of the slowest.
Near(p, q) ==
  Signed(lab6_stride[p], lab6_stride[q]) \in -BIG_STRIDE .. BIG_STRIDE

\* wakeup_proc, of a process that sleeps or a new one.
Wakeup(p) ==
  /\ p \in asleep
  /\ LongSleeps \/ \A q \in Runnable : Near(p, q)
  /\ asleep' = asleep \ {p}
  /\ heap' = Insert(heap, lab6_stride, p)
  /\ proc_num' = proc_num + 1
  /\ time_slice' = Refilled(p)
  /\ UNCHANGED <<lab6_stride, lab6_priority, need_resched, current>>

\* stride_proc_tick
Ticked(p) == IF time_slice[p] > 0 THEN time_slice[p] - 1 ELSE 0

\* The timer interrupt: sched_class_proc_tick.
Tick ==
  /\ ~ need_resched
  /\ IF Running
     THEN /\ time_slice' = [time_slice EXCEPT ![current] = Ticked(current)]
          /\ need_resched' = (Ticked(current) = 0)
     ELSE need_resched' = TRUE /\ UNCHANGED time_slice
  /\ UNCHANGED <<heap, proc_num, lab6_stride, lab6_priority, current, asleep>>

\* lab6_set_priority of current.
SetPriority ==
  /\ Running /\ ~ need_resched
  /\ \E x \in Priority : lab6_priority' = [lab6_priority EXCEPT ![current] = x]
  /\ UNCHANGED <<heap, proc_num, lab6_stride, time_slice, need_resched, current,
                 asleep>>

\* All processes are new: their strides are 0.
Init ==
  /\ heap = [root |-> NULL, left |-> [p \in Pid |-> NULL],
             right |-> [p \in Pid |-> NULL], parent |-> [p \in Pid |-> NULL]]
  /\ proc_num = 0
  /\ lab6_stride = [p \in Pid |-> 0]
  /\ lab6_priority = [p \in Pid |-> 0]
  /\ time_slice = [p \in Pid |-> 0]
  /\ need_resched = TRUE
  /\ current = idleproc
  /\ asleep = Pid

Next ==
  \/ Reschedules \/ Yields \/ Sleeps \/ Tick \/ SetPriority
  \/ \E p \in Pid : Wakeup(p)

Spec == Init /\ [][Next]_vars
-----------------------------------------------------------------------------
(* Properties *)

Waiting == Runnable \ {current}

Children(p) == {heap.left[p], heap.right[p]} \ {NULL}

\* Processes one reaches from the root in some steps.
Reached ==
  LET down[k \in 0 .. Cardinality(Pid)] ==
        IF k = 0 THEN {heap.root} \ {NULL}
        ELSE down[k-1] \cup UNION {Children(p) : p \in down[k-1]}
  IN  down[Cardinality(Pid)]

\* The heap is a tree of the processes that wait for the CPU, counted by proc_num,
\* each with the parent pointer that skew_heap_remove follows, and of the root none.
HeapExact ==
  /\ Reached = Waiting
  /\ proc_num = Cardinality(Waiting)
  /\ heap.root # NULL => heap.parent[heap.root] = NULL
  /\ \A p \in Waiting :
       /\ \A c \in Children(p) : heap.parent[c] = p
       /\ heap.left[p] # NULL => heap.left[p] # heap.right[p]

\* As long as no process comes back that slept for long, the strides of the runnable
\* processes stay within BIG_STRIDE of each other, although they wrap around: the
\* signs of their differences order them, and nobody in the heap is before its
\* parent, although the stride of the root grew while it was there.
StridesClose ==
  /\ \A p, q \in Runnable : Near(p, q)
  /\ \A p \in Waiting : \A c \in Children(p) :
       Signed(lab6_stride[c], lab6_stride[p]) >= 0

StrideExact == HeapExact /\ StridesClose

\* stride_pick_next: the process that gets the CPU has the least stride of those
\* that could have it, the one that gives it up included.  With StridesClose nobody
\* is passed over for more than BIG_STRIDE.
PicksLeast ==
  [][\A p \in Pid :
       lab6_stride'[p] # lab6_stride[p] =>
         /\ current' = p
         /\ \A q \in Waiting \cup (Waiting' \ asleep) :
              Signed(lab6_stride[p], lab6_stride[q]) <= 0]_vars
=============================================================================
