------------------------------ MODULE MCSched ------------------------------
(***************************************************************************)
(* The two scheduling classes of lab8: the round robin with the timers     *)
(* (Sched), and the stride class (Stride).  sched_init picks one of them   *)
(* for good; which says which one runs.                                    *)
(***************************************************************************)
EXTENDS Sched

CONSTANTS NULL, Width, Priority, STRIDE_SLICE, LongSleeps    \* of Stride

ASSUME StrideAssumption ==
  /\ Width \in Nat /\ Width > 1 /\ Priority \subseteq Nat
  /\ STRIDE_SLICE \in Nat \ {0} /\ LongSleeps \in BOOLEAN

VARIABLES
  which,
  heap, proc_num, lab6_stride, lab6_priority, slices, resched, runs, asleep

stride_vars == <<heap, proc_num, lab6_stride, lab6_priority, slices, resched, runs,
                 asleep>>
all_vars == <<which, vars, stride_vars>>

Passes == INSTANCE Stride WITH
  time_slice <- slices, need_resched <- resched, current <- runs,
  MAX_TIME_SLICE <- STRIDE_SLICE

ClassInit == which \in {"RR", "stride"} /\ Init /\ Passes!Init

RoundRobin(A) == which = "RR" /\ A /\ UNCHANGED <<which, stride_vars>>

ClassNext ==
  \/ RoundRobin(Next)
  \/ which = "stride" /\ Passes!Next /\ UNCHANGED <<which, vars>>

\* Under the round robin the kernel runs on, and a timer interrupt stays pending until
\* it is taken.
ClassSpec ==
  /\ ClassInit /\ [][ClassNext]_all_vars
  /\ WF_all_vars(RoundRobin(\E p \in Proc : KernelStep(p)))
  /\ SF_all_vars(RoundRobin(Tick))
-----------------------------------------------------------------------------
\* The properties of the stride class under names of their own: the heap is the set of
\* processes that wait, in the order of their strides, and the least gets the CPU.
StrideExact == Passes!StrideExact
PicksLeast == Passes!PicksLeast

\* Under the round robin a process that can run gets the CPU.
RunnableRuns ==
  \A p \in Pid : (which = "RR" /\ state[p] = "RUNNABLE") ~> current = p
=============================================================================
