------------------------------- MODULE Sched --------------------------------
(***************************************************************************)
(* The scheduler framework of lab8 (kern/schedule/sched.c) with the        *)
(* round-robin class (default_sched_c): the run queue, time slices, and    *)
(* the list of timers, in which a timer keeps the difference to the one    *)
(* before it.                                                              *)
(*                                                                         *)
(* The process and trap code of lab8 is not in the repository.  How it     *)
(* calls the scheduler follows from sched.c and dev_stdin.c: a process     *)
(* marks itself as sleeping, sets its timer, lets interrupts in and only   *)
(* then calls schedule(); when that returns it deletes its timer, which is *)
(* a local variable of the function it is about to leave.  Interrupts come *)
(* in user mode and between the sections of the kernel that hold them off. *)
(* pc says where a process stands:                                         *)
(*   run    in user mode                                                   *)
(*   marks  has marked itself as sleeping, before schedule()               *)
(*   off    in that schedule()                                             *)
(*   new    not created; gone: exited                                      *)
(***************************************************************************)
EXTENDS Integers, Sequences, FiniteSets, SequencesExt

CONSTANTS
  Pid, idleproc,
  first,          \* the first process, runnable after the boot
  MAX_TIME_SLICE,
  MaxExpires      \* bound: the longest sleep

ASSUME SchedAssumption ==
  /\ first \in Pid /\ idleproc \notin Pid
  /\ MAX_TIME_SLICE \in Nat \ {0}
  /\ MaxExpires \in Nat \ {0}

VARIABLES
  state, wait_state, time_slice, need_resched, current,
  run_list,     \* the processes on the run queue, in order
  timer_list,   \* the processes whose timers are on the list, in order
  expires,      \* the expires field of each process's timer
  pc

procs == <<state, wait_state, pc>>
queue == <<run_list, time_slice>>
timers == <<timer_list, expires>>
vars == <<procs, queue, timers, need_resched, current>>

Proc == Pid \cup {idleproc}

TypeOK ==
  /\ state \in [Proc -> {"UNINIT", "SLEEPING", "RUNNABLE", "ZOMBIE"}]
  /\ wait_state \in [Proc -> {"none", "WT_TIMER", "other"}]
  /\ time_slice \in [Pid -> 0 .. MAX_TIME_SLICE]
  /\ need_resched \in [Proc -> BOOLEAN]
  /\ current \in Proc
  /\ run_list \in Seq(Pid)
  /\ timer_list \in Seq(Pid)
  /\ expires \in [Pid -> 0 .. MaxExpires]
  /\ pc \in [Proc -> {"run", "marks", "off", "new", "gone"}]

Init ==
  /\ state = [p \in Proc |-> IF p \in {first, idleproc} THEN "RUNNABLE" ELSE "UNINIT"]
  /\ wait_state = [p \in Proc |-> "none"]
  /\ time_slice = [p \in Pid |-> IF p = first THEN MAX_TIME_SLICE ELSE 0]
  /\ need_resched = [p \in Proc |-> p = idleproc]
  /\ current = idleproc
  /\ run_list = <<first>>
  /\ timer_list = <<>>
  /\ expires = [p \in Pid |-> 0]
  /\ pc = [p \in Proc |-> IF p \in {first, idleproc} THEN "run" ELSE "new"]
-----------------------------------------------------------------------------
(* The run queue *)

\* Mutant: enqueued in front.
Enqueued_InFront(list, new) == new \o list

\* RR_enqueue of some processes, one after the other.
Enqueued(list, new) == list \o new

Refilled(new) ==
  [p \in Pid |-> IF p \in Range(new) /\ time_slice[p] = 0 THEN MAX_TIME_SLICE
                                                         ELSE time_slice[p]]

\* What schedule() puts on the run queue of the process that calls it.
Preempted ==
  IF state'[current] = "RUNNABLE" /\ current # idleproc THEN <<current>> ELSE <<>>

\* schedule()
Schedule ==
  LET list == Enqueued(run_list, Preempted)
  IN  /\ need_resched' = [need_resched EXCEPT ![current] = FALSE]
      /\ time_slice' = Refilled(Preempted)
      /\ IF list = <<>> THEN current' = idleproc /\ run_list' = list
                        ELSE current' = Head(list) /\ run_list' = Tail(list)

\* Those of the processes ps that are in S, in their order.
Among(ps, S) ==
  LET these[i \in 0 .. Len(ps)] ==
        IF i = 0 THEN <<>>
        ELSE IF ps[i] \in S THEN Append(these[i-1], ps[i]) ELSE these[i-1]
  IN  these[Len(ps)]

\* Mutant: the current process is enqueued as well.
Woken_CurrentToo(ps) == Among(ps, {p \in Proc : state[p] # "RUNNABLE"})

\* Of the processes ps, those that wakeup_proc enqueues.
Woken(ps) == Among(ps, {p \in Proc : state[p] # "RUNNABLE" /\ p # current})

\* wakeup_proc of each of ps.
Wakeup(ps) ==
  /\ state' = [p \in Proc |-> IF p \in Range(ps) THEN "RUNNABLE" ELSE state[p]]
  /\ wait_state' = [p \in Proc |-> IF p \in Range(ps) /\ state[p] # "RUNNABLE"
                                   THEN "none" ELSE wait_state[p]]
  /\ run_list' = Enqueued(run_list, Woken(ps))
-----------------------------------------------------------------------------
(* Timers *)

\* The ticks left to the i-th timer of the list l with the fields e: the sum of the
\* fields up to it.
DueIn(l, e, i) ==
  LET sum[k \in 0 .. i] == IF k = 0 THEN 0 ELSE sum[k-1] + e[l[k]]
  IN  sum[i]

Due(i) == DueIn(timer_list, expires, i)

\* How many timers of the list a new one for n ticks goes behind.
Before(n) == Cardinality({i \in 1 .. Len(timer_list) : Due(i) <= n})

\* The fields e, with d taken from the timer at place i, if there is one.
NextExpires(e, i, d) ==
  IF i > Len(timer_list) THEN e ELSE [e EXCEPT ![timer_list[i]] = @ - d]

\* add_timer
AddTimer(p, n) ==
  LET i == Before(n)
      d == n - Due(i)
  IN  /\ timer_list' = InsertAt(timer_list, i + 1, p)
      /\ expires' = [NextExpires(expires, i + 1, d) EXCEPT ![p] = d]

\* Mutant: a timer that is deleted leaves the others as they were.
Carried_Never(i) == expires

\* del_timer gives what is left of the i-th timer to the next one.
Carried(i) ==
  IF i = Len(timer_list) THEN expires
  ELSE [expires EXCEPT ![timer_list[i+1]] = @ + expires[timer_list[i]]]

\* Mutant: a process that wakes up early leaves its timer on the list.
DelTimer_Forgotten(p) == UNCHANGED timers

\* del_timer of p's timer; the field of a timer off the list is forgotten.
DelTimer(p) ==
  \/ p \notin Range(timer_list) /\ UNCHANGED timers
  \/ \E i \in 1 .. Len(timer_list) :
       /\ timer_list[i] = p
       /\ timer_list' = RemoveAt(timer_list, i)
       /\ expires' = [Carried(i) EXCEPT ![p] = 0]

\* How many timers reach 0 at a tick: the first one and those with no
\* difference to it.
Expired == Cardinality({i \in 1 .. Len(timer_list) : Due(i) = 1})

\* The loop of run_timer_list: the first timer counts down, those that expire
\* wake their processes and are deleted.
RunTimers ==
  IF timer_list = <<>> THEN Wakeup(<<>>) /\ UNCHANGED timers
  ELSE LET k == Expired
       IN  /\ Wakeup(SubSeq(timer_list, 1, k))
           /\ timer_list' = SubSeq(timer_list, k + 1, Len(timer_list))
           /\ expires' = [p \in Pid |->
                IF p \in Range(SubSeq(timer_list, 1, k)) THEN 0
                ELSE IF p = timer_list[1] THEN expires[p] - 1 ELSE expires[p]]

\* Mutant: a process whose slice is used up is not asked to stop.
ProcTick_NoResched(slice) == UNCHANGED need_resched

\* RR_proc_tick: current is asked to stop when its slice is used up; idleproc
\* at every tick.
ProcTick(slice) ==
  need_resched' = [need_resched EXCEPT ![current] = @ \/ slice = 0]

\* The timer interrupt: run_timer_list.
Tick ==
  /\ ~ (pc[current] = "run" /\ current # idleproc /\ need_resched[current])
  /\ RunTimers
  /\ LET filled == Refilled(Woken(SubSeq(timer_list, 1, Expired)))
         slice == IF current = idleproc \/ filled[current] = 0 THEN 0
                  ELSE filled[current] - 1
     IN  /\ time_slice' = [p \in Pid |-> IF p = current THEN slice ELSE filled[p]]
         /\ ProcTick(slice)
  /\ UNCHANGED <<pc, current>>
-----------------------------------------------------------------------------
(* Callers of the scheduler *)

\* p enters the kernel from user mode; a pending need_resched would have been
\* served before it got there.
Enters(p) == current = p /\ pc[p] = "run" /\ ~ need_resched[p]

\* p marks itself as sleeping, with a timer for n ticks.
SleepFor(p, n) ==
  /\ Enters(p)
  /\ state' = [state EXCEPT ![p] = "SLEEPING"]
  /\ wait_state' = [wait_state EXCEPT ![p] = "WT_TIMER"]
  /\ pc' = [pc EXCEPT ![p] = "marks"]
  /\ AddTimer(p, n)
  /\ UNCHANGED <<queue, need_resched, current>>

\* p marks itself as sleeping until somebody wakes it.
SleepOn(p) ==
  /\ Enters(p)
  /\ state' = [state EXCEPT ![p] = "SLEEPING"]
  /\ wait_state' = [wait_state EXCEPT ![p] = "other"]
  /\ pc' = [pc EXCEPT ![p] = "marks"]
  /\ UNCHANGED <<queue, timers, need_resched, current>>

\* The schedule() after that.
SwitchesAway(p) ==
  /\ current = p /\ pc[p] = "marks"
  /\ pc' = [pc EXCEPT ![p] = "off"]
  /\ UNCHANGED <<state, wait_state, timers>>
  /\ Schedule

\* schedule() has returned.
Returns(p) ==
  /\ current = p /\ pc[p] = "off"
  /\ pc' = [pc EXCEPT ![p] = "run"]
  /\ DelTimer(p)
  /\ UNCHANGED <<state, wait_state, queue, need_resched, current>>

\* p wakes a process that sleeps, or makes a new one runnable.
Wakes(p, q) ==
  /\ Enters(p) /\ state[q] \in {"SLEEPING", "UNINIT"}
  /\ Wakeup(<<q>>)
  /\ time_slice' = Refilled(Woken(<<q>>))
  /\ pc' = [pc EXCEPT ![q] = IF @ = "new" THEN "run" ELSE @]
  /\ UNCHANGED <<timers, need_resched, current>>

Exits(p) ==
  /\ Enters(p)
  /\ state' = [state EXCEPT ![p] = "ZOMBIE"]
  /\ pc' = [pc EXCEPT ![p] = "gone"]
  /\ UNCHANGED <<wait_state, timers>>
  /\ Schedule

\* do_yield, and the end of its trap.
Yields(p) ==
  /\ Enters(p)
  /\ UNCHANGED <<procs, timers>>
  /\ Schedule

\* The end of a trap from user mode, or cpu_idle.
Reschedules(p) ==
  /\ current = p /\ pc[p] = "run" /\ need_resched[p]
  /\ UNCHANGED <<procs, timers>>
  /\ Schedule

KernelStep(p) == SwitchesAway(p) \/ Returns(p) \/ Reschedules(p)

UserStep(p) ==
  \/ \E n \in 1 .. MaxExpires : SleepFor(p, n)
  \/ SleepOn(p) \/ Exits(p) \/ Yields(p)
  \/ \E q \in Pid : Wakes(p, q)

Next ==
  \/ \E p \in Pid : UserStep(p)
  \/ \E p \in Proc : KernelStep(p)
  \/ Tick

Spec == Init /\ [][Next]_vars
-----------------------------------------------------------------------------
(* Properties *)

\* The asserts of RR_enqueue and RR_dequeue: the run queue holds every process
\* that can run and is not running, and holds it once.
QueueExact ==
  /\ TypeOK
  /\ IsInjective(run_list)
  /\ Range(run_list) = {p \in Pid : state[p] = "RUNNABLE" /\ p # current}

\* A timer on the list is there once, has time left, and no more than the longest sleep;
\* for the first one this is the assert of run_timer_list.
TimersPending ==
  /\ IsInjective(timer_list)
  /\ \A i \in 1 .. Len(timer_list) : Due(i) \in 1 .. MaxExpires

\* A timer on the list lives on the stack of a function that has not returned.
TimersOnStack == \A p \in Range(timer_list) : pc[p] \in {"marks", "off"}

\* Nobody sleeps on a timer that will not wake it.
SleepersTimed == \A p \in Pid : wait_state[p] = "WT_TIMER" => p \in Range(timer_list)

\* The states are those of the places where the processes stand: who sleeps or is about
\* to is in schedule() or before it, and only the current process is before it.
StatesFit ==
  /\ state[idleproc] = "RUNNABLE" /\ pc[idleproc] = "run"
  /\ state[current] = "RUNNABLE" \/ pc[current] = "marks"
  /\ \A p \in Proc :
       /\ state[p] = "UNINIT" <=> pc[p] = "new"
       /\ state[p] = "ZOMBIE" <=> pc[p] = "gone"
       /\ state[p] = "SLEEPING" => pc[p] \in {"marks", "off"}
       /\ pc[p] = "marks" => p = current
       /\ wait_state[p] # "none" => state[p] = "SLEEPING"

\* What the timer interrupt relies on: no timer outlives its function, no timed sleeper
\* is without one, and each on the list has time left.
TimersExact == TimersPending /\ TimersOnStack /\ SleepersTimed /\ StatesFit

\* The ticks left to each timer on the list.
Left == [p \in Range(timer_list) |->
           Due(CHOOSE i \in 1 .. Len(timer_list) : timer_list[i] = p)]

\* The differences add up: every timer is off at the tick it was set for.
Service == INSTANCE TimerService WITH Client <- Pid, left <- Left
KeepsTime == Service!Spec

\* A process that sleeps on a timer comes back.
SleepersReturn == \A p \in Pid : wait_state[p] = "WT_TIMER" ~> (current = p /\ pc[p] = "run")
=============================================================================
