----------------------------- MODULE ProcProofs -----------------------------
(***************************************************************************)
(* Theorems about the process table for every set of pids, every bound and *)
(* every number of address spaces.  The first part proves the inductive    *)
(* invariant IInv: types, the places of control, the CPU, wait_state, the  *)
(* agreement of the tables and the count of users of each mm_struct.  The  *)
(* second part adds the family to it, FamilyInv: the kinship pointers,     *)
(* that nobody is its own ancestor, and what the sleepers wait for.        *)
(***************************************************************************)
EXTENDS Proc, ListLemmas, FiniteSetTheorems

-----------------------------------------------------------------------------
(* The parts of a step *)

\* schedule() gives the CPU to idleproc or to a runnable process of the list.
LEMMA ScheduleResult ==
  ASSUME TypeOK, Schedule, proc_list' \in Seq(Pid)
  PROVE  /\ need_resched' \in [Proc -> BOOLEAN]
         /\ current' \in Proc
         /\ \/ current' = idleproc
            \/ current' \in Pid /\ state'[current'] = "RUNNABLE"
<1>1. need_resched' \in [Proc -> BOOLEAN]
  BY DEF TypeOK, Schedule
<1>2. CASE current' = idleproc
  BY <1>1, <1>2 DEF Proc
<1>3. ASSUME NEW i \in 1 .. Len(proc_list'), CanRun(proc_list'[i]),
             current' = proc_list'[i]
      PROVE  current' \in Pid /\ state'[current'] = "RUNNABLE"
  <2>1. proc_list'[i] \in Pid
    OBVIOUS
  <2> QED BY <1>3, <2>1 DEF CanRun
<1> QED BY <1>1, <1>2, <1>3 DEF Schedule, Proc

\* The tables agree after a step that keeps them and keeps who exists.
LEMMA TablesFrame ==
  ASSUME TablesAgree, UNCHANGED <<proc_list, hashed, nr_process>>,
         \A p \in Pid : state'[p] = "UNUSED" <=> state[p] = "UNUSED"
  PROVE  TablesAgree'
BY DEF TablesAgree, Live

\* The users of address space m, when f gives each process its own.
Users(f, m) == {p \in Pid : f[p] = m}

LEMMA UsersFinite ==
  ASSUME NEW f, NEW m
  PROVE  IsFiniteSet(Users(f, m)) /\ Cardinality(Users(f, m)) \in Nat
<1>1. IsFiniteSet(Users(f, m))
  BY ProcAssumption, FS_Subset DEF Users
<1> QED BY <1>1, FS_CardinalityType

\* Giving p the address space v adds p to the users of v and takes it from
\* those of its former one.
LEMMA UsersChange ==
  ASSUME NEW f \in [Proc -> Mm \cup {NULL}], NEW p \in Pid,
         NEW v \in Mm \cup {NULL}, NEW m \in Mm,
         NEW g, \A x \in Pid : g[x] = IF x = p THEN v ELSE f[x]
  PROVE  Cardinality(Users(g, m)) =
           IF v = m /\ f[p] # m THEN Cardinality(Users(f, m)) + 1
           ELSE IF v # m /\ f[p] = m THEN Cardinality(Users(f, m)) - 1
           ELSE Cardinality(Users(f, m))
<1>1. \A x \in Pid : g[x] = IF x = p THEN v ELSE f[x]
  OBVIOUS
<1>2. IsFiniteSet(Users(f, m))
  BY UsersFinite
<1>3. CASE v = m /\ f[p] # m
  <2>1. Users(g, m) = Users(f, m) \cup {p} /\ p \notin Users(f, m)
    BY <1>1, <1>3 DEF Users
  <2> QED BY <1>2, <1>3, <2>1, FS_AddElement
<1>4. CASE v # m /\ f[p] = m
  <2>1. Users(g, m) = Users(f, m) \ {p} /\ p \in Users(f, m)
    BY <1>1, <1>4 DEF Users
  <2> QED BY <1>2, <1>4, <2>1, FS_RemoveElement
<1>5. CASE ~ (v = m /\ f[p] # m) /\ ~ (v # m /\ f[p] = m)
  <2>1. Users(g, m) = Users(f, m)
    BY <1>1, <1>5 DEF Users
  <2> QED BY <1>5, <2>1
<1> QED BY <1>3, <1>4, <1>5

LEMMA CountedByUsers == MmCounted <=> \A m \in Mm : mm_count[m] = Cardinality(Users(mm, m))
BY DEF MmCounted, Users

\* Dropping p's address space keeps the counts exact.
LEMMA DropCounted ==
  ASSUME TypeOK, MmCounted, NEW p \in Pid
  PROVE  /\ DropMm(p) \in [Mm -> Nat]
         /\ \A m \in Mm : DropMm(p)[m] = Cardinality(Users([mm EXCEPT ![p] = NULL], m))
<1> DEFINE f == [mm EXCEPT ![p] = NULL]
<1>1. /\ mm \in [Proc -> Mm \cup {NULL}] /\ mm_count \in [Mm -> Nat]
      /\ NULL \notin Mm /\ p \in Proc
  BY ProcAssumption DEF TypeOK, Proc
<1>2. ASSUME NEW m \in Mm
      PROVE  /\ Cardinality(Users(f, m)) =
                  IF mm[p] = m THEN mm_count[m] - 1 ELSE mm_count[m]
             /\ Cardinality(Users(f, m)) \in Nat
  <2>1. mm_count[m] = Cardinality(Users(mm, m))
    BY CountedByUsers
  <2>2. Cardinality(Users(f, m)) =
          IF NULL = m /\ mm[p] # m THEN Cardinality(Users(mm, m)) + 1
          ELSE IF NULL # m /\ mm[p] = m THEN Cardinality(Users(mm, m)) - 1
          ELSE Cardinality(Users(mm, m))
    <3>1. \A x \in Pid : f[x] = IF x = p THEN NULL ELSE mm[x]
      BY <1>1 DEF Proc
    <3> HIDE DEF f
    <3> QED BY <1>1, <3>1, UsersChange
  <2> QED BY <1>1, <2>1, <2>2, UsersFinite
<1>3. \A m \in Mm : DropMm(p)[m] = Cardinality(Users(f, m))
  BY <1>1, <1>2 DEF DropMm
<1>4. DropMm(p) \in [Mm -> Nat]
  BY <1>1, <1>2, <1>3 DEF DropMm
<1> QED BY <1>3, <1>4

\* Giving a process without one the address space v, with one user more.
LEMMA GiveCounted ==
  ASSUME NEW f \in [Proc -> Mm \cup {NULL}], NEW c \in [Mm -> Nat],
         \A m \in Mm : c[m] = Cardinality(Users(f, m)),
         NEW p \in Pid, f[p] = NULL, NEW v \in Mm,
         NEW g, \A x \in Pid : g[x] = IF x = p THEN v ELSE f[x],
         NEW m \in Mm
  PROVE  Cardinality(Users(g, m)) = IF v = m THEN c[m] + 1 ELSE c[m]
<1>1. Cardinality(Users(g, m)) =
        IF v = m /\ f[p] # m THEN Cardinality(Users(f, m)) + 1
        ELSE IF v # m /\ f[p] = m THEN Cardinality(Users(f, m)) - 1
        ELSE Cardinality(Users(f, m))
  BY UsersChange
<1> QED BY <1>1, ProcAssumption
-----------------------------------------------------------------------------
(* The inductive invariant *)

LEMMA InitIInv == Init => IInv
<1> SUFFICES ASSUME Init PROVE IInv
  OBVIOUS
<1>1. TypeOK
  BY ProcAssumption DEF Init, TypeOK, Proc
<1>2. PlacesFit /\ CurrentMayRun /\ WaitStateMeansSleep /\ MmOwners
  BY ProcAssumption
     DEF Init, PlacesFit, CurrentMayRun, WaitStateMeansSleep, MmOwners, Sleeps, Proc
<1>3. TablesAgree
  <2>1. Live = {initproc}
    BY DEF Init, Live, Range
  <2>2. IsInjective(proc_list) /\ nr_process = Len(proc_list) + 1
    BY DEF Init, IsInjective
  <2>3. {initproc} = {p \in Pid : state[p] # "UNUSED"}
    BY ProcAssumption DEF Init, Proc
  <2> QED BY <2>1, <2>2, <2>3 DEF TablesAgree, Init
<1>4. MmCounted
  <2> SUFFICES ASSUME NEW m \in Mm
               PROVE  mm_count[m] = Cardinality({p \in Pid : mm[p] = m})
    BY DEF MmCounted
  <2>1. {p \in Pid : mm[p] = m} = {}
    BY ProcAssumption DEF Init, Proc
  <2> QED BY <2>1, FS_EmptySet DEF Init
<1> QED BY <1>1, <1>2, <1>3, <1>4 DEF IInv

\* Steps that move current's place in the kernel, mark a process, or ask for a
\* reschedule, and neither switch, put to sleep nor start or end a process.
LEMMA TickIInv ==
  ASSUME IInv, NEW p \in Pid, NEW asks \in BOOLEAN, Tick(p, asks)
  PROVE  IInv'
<1> USE DEF Tick, Runs, Goes
<1>1. TypeOK'
  BY DEF IInv, TypeOK, links, memory, Proc
<1>2. PlacesFit' /\ CurrentMayRun' /\ WaitStateMeansSleep' /\ MmOwners'
  BY DEF IInv, TypeOK, PlacesFit, CurrentMayRun, WaitStateMeansSleep, MmOwners, Sleeps,
         memory, Proc
<1>3. TablesAgree' /\ MmCounted'
  BY TablesFrame DEF IInv, MmCounted, links, memory
<1> QED BY <1>1, <1>2, <1>3 DEF IInv

\* A tick in a kernel thread only asks for a reschedule.
LEMMA KernelTickIInv ==
  ASSUME IInv, KernelTick
  PROVE  IInv'
<1> USE DEF KernelTick
<1>1. TypeOK'
  BY ProcAssumption DEF IInv, TypeOK, links, memory, Proc
<1>2. PlacesFit' /\ CurrentMayRun' /\ WaitStateMeansSleep' /\ MmOwners'
  BY ProcAssumption
     DEF IInv, TypeOK, PlacesFit, CurrentMayRun, WaitStateMeansSleep, MmOwners,
         Sleeps, memory, Proc
<1>3. TablesAgree' /\ MmCounted'
  BY TablesFrame DEF IInv, TypeOK, MmCounted, links, memory, Proc, PlacesFit,
     WaitStateMeansSleep, Sleeps
<1> QED BY <1>1, <1>2, <1>3 DEF IInv

\* do_yield only asks for a reschedule.
LEMMA YieldIInv ==
  ASSUME IInv, NEW p \in Pid, Yield(p)
  PROVE  IInv'
<1> USE DEF Yield, Runs, Goes
<1>1. TypeOK'
  BY ProcAssumption DEF IInv, TypeOK, links, memory, Proc
<1>2. PlacesFit' /\ CurrentMayRun' /\ WaitStateMeansSleep' /\ MmOwners'
  BY ProcAssumption
     DEF IInv, TypeOK, PlacesFit, CurrentMayRun, WaitStateMeansSleep, MmOwners,
         Sleeps, memory, Proc
<1>3. TablesAgree' /\ MmCounted'
  BY TablesFrame DEF IInv, TypeOK, MmCounted, links, memory, Proc, PlacesFit,
     WaitStateMeansSleep, Sleeps
<1> QED BY <1>1, <1>2, <1>3 DEF IInv

\* A system call that fails changes no table.
LEMMA SyscallFailsIInv ==
  ASSUME IInv, NEW p \in Pid, SyscallFails(p)
  PROVE  IInv'
<1> USE DEF SyscallFails, Runs, Goes, NoSchedule
<1>1. TypeOK'
  BY ProcAssumption DEF IInv, TypeOK, links, memory, Proc
<1>2. PlacesFit' /\ CurrentMayRun' /\ WaitStateMeansSleep' /\ MmOwners'
  BY ProcAssumption
     DEF IInv, TypeOK, PlacesFit, CurrentMayRun, WaitStateMeansSleep, MmOwners,
         Sleeps, memory, Proc
<1>3. TablesAgree' /\ MmCounted'
  BY TablesFrame DEF IInv, TypeOK, MmCounted, links, memory, Proc, PlacesFit,
     WaitStateMeansSleep, Sleeps
<1> QED BY <1>1, <1>2, <1>3 DEF IInv

\* A trap that returns to the process it interrupted changes no table.
LEMMA TrapReturnsIInv ==
  ASSUME IInv, NEW p \in Pid, TrapReturns(p)
  PROVE  IInv'
<1> USE DEF TrapReturns, Runs, Goes, NoSchedule
<1>1. TypeOK'
  BY ProcAssumption DEF IInv, TypeOK, links, memory, Proc
<1>2. PlacesFit' /\ CurrentMayRun' /\ WaitStateMeansSleep' /\ MmOwners'
  BY ProcAssumption
     DEF IInv, TypeOK, PlacesFit, CurrentMayRun, WaitStateMeansSleep, MmOwners,
         Sleeps, memory, Proc
<1>3. TablesAgree' /\ MmCounted'
  BY TablesFrame DEF IInv, TypeOK, MmCounted, links, memory, Proc, PlacesFit,
     WaitStateMeansSleep, Sleeps
<1> QED BY <1>1, <1>2, <1>3 DEF IInv

\* do_wait without a child returns at once.
LEMMA WaitNoChildIInv ==
  ASSUME IInv, NEW p \in Pid, WaitNoChild(p)
  PROVE  IInv'
<1> USE DEF WaitNoChild, AtRepeat, Runs, NoSchedule
<1>1. TypeOK'
  BY ProcAssumption DEF IInv, TypeOK, links, memory, Proc
<1>2. PlacesFit' /\ CurrentMayRun' /\ WaitStateMeansSleep' /\ MmOwners'
  BY ProcAssumption
     DEF IInv, TypeOK, PlacesFit, CurrentMayRun, WaitStateMeansSleep, MmOwners,
         Sleeps, memory, Proc
<1>3. TablesAgree' /\ MmCounted'
  BY TablesFrame DEF IInv, TypeOK, MmCounted, links, memory, Proc, PlacesFit,
     WaitStateMeansSleep, Sleeps
<1> QED BY <1>1, <1>2, <1>3 DEF IInv

\* do_kill wakes its target together with clearing wait_state.
LEMMA KillIInv ==
  ASSUME IInv, NEW p \in Pid, Kill(p)
  PROVE  IInv'
<1> USE DEF Kill, Wakes, Runs, Goes, NoSchedule
<1>1. TypeOK'
  BY ProcAssumption DEF IInv, TypeOK, links, memory, Proc
<1>2. PlacesFit' /\ CurrentMayRun' /\ WaitStateMeansSleep' /\ MmOwners'
  BY ProcAssumption
     DEF IInv, TypeOK, PlacesFit, CurrentMayRun, WaitStateMeansSleep, MmOwners,
         Sleeps, memory, Proc
<1>3. TablesAgree' /\ MmCounted'
  BY TablesFrame DEF IInv, TypeOK, MmCounted, links, memory, Proc, PlacesFit,
     WaitStateMeansSleep, Sleeps
<1> QED BY <1>1, <1>2, <1>3 DEF IInv

\* A panic leaves everything as it was.
LEMMA HaltIInv ==
  ASSUME IInv, UserMainFails \/ InitEnds \/ Stopped
  PROVE  IInv'
<1>1. UNCHANGED <<state, wait_state, exiting, need_resched, current, pc, wpid,
                  parent, cptr, yptr, optr, proc_list, hashed, nr_process, mm, mm_count>>
      /\ (halted' = halted \/ halted' \in {"create user_main failed",
                                         "initproc exit", "init check failed"})
  BY DEF UserMainFails, InitEnds, Stopped, vars, links, memory
<1>2. TypeOK' /\ PlacesFit' /\ CurrentMayRun' /\ WaitStateMeansSleep' /\ MmOwners'
  BY <1>1 DEF IInv, TypeOK, PlacesFit, CurrentMayRun, WaitStateMeansSleep, MmOwners, Sleeps
<1>3. TablesAgree'
  BY <1>1, TablesFrame DEF IInv
<1>4. MmCounted'
  BY <1>1 DEF IInv, MmCounted
<1> QED BY <1>2, <1>3, <1>4 DEF IInv

\* A turn of do_exit's loop changes who is whose child, and may wake initproc.
LEMMA GiveChildIInv ==
  ASSUME IInv, NEW p \in Pid, GiveChild(p)
  PROVE  IInv'
<1> USE DEF GiveChild, WakesInit, Wakes, Runs, NoSchedule
<1>1. TypeOK'
  <2>1. /\ cptr[p] \in Pid /\ optr[cptr[p]] \in Pid \cup {NULL}
        /\ cptr[initproc] \in Pid \cup {NULL} /\ initproc \in Proc
    BY ProcAssumption DEF IInv, TypeOK, Proc
  <2>2. /\ parent' \in [Proc -> Proc \cup {NULL}] /\ cptr' \in [Proc -> Pid \cup {NULL}]
        /\ optr' \in [Proc -> Pid \cup {NULL}]
    BY <2>1 DEF IInv, TypeOK
  <2>3. yptr' \in [Proc -> Pid \cup {NULL}]
    BY <2>1 DEF IInv, TypeOK
  <2>4. state' \in [Proc -> {"UNUSED", "SLEEPING", "RUNNABLE", "ZOMBIE"}]
    BY DEF IInv, TypeOK
  <2>5. wait_state' \in [Proc -> {"none", "WT_CHILD"}]
    BY DEF IInv, TypeOK
  <2>6. UNCHANGED <<proc_list, hashed, nr_process, exiting, pc, wpid, halted, mm, mm_count,
                    current, need_resched>>
    BY DEF memory
  <2> QED BY <2>2, <2>3, <2>4, <2>5, <2>6 DEF IInv, TypeOK
<1>2. PlacesFit' /\ CurrentMayRun' /\ WaitStateMeansSleep' /\ MmOwners'
  BY ProcAssumption
     DEF IInv, TypeOK, PlacesFit, CurrentMayRun, WaitStateMeansSleep, MmOwners,
         Sleeps, memory, Proc
<1>3. TablesAgree' /\ MmCounted'
  BY TablesFrame DEF IInv, TypeOK, MmCounted, links, memory, Proc, PlacesFit,
     WaitStateMeansSleep, Sleeps
<1> QED BY <1>1, <1>2, <1>3 DEF IInv

\* cpu_idle hands the CPU to a runnable process, if there is one.
LEMMA CpuIdleIInv ==
  ASSUME IInv, CpuIdle
  PROVE  IInv'
<1> USE DEF CpuIdle, Runs
<1>1. /\ need_resched' \in [Proc -> BOOLEAN]
      /\ current' \in Proc
      /\ \/ current' = idleproc
         \/ current' \in Pid /\ state'[current'] = "RUNNABLE"
  BY ScheduleResult DEF IInv, TypeOK, links
<1>2. TypeOK'
  BY <1>1, ProcAssumption DEF IInv, TypeOK, links, memory, Proc
<1>3. PlacesFit' /\ CurrentMayRun' /\ WaitStateMeansSleep' /\ MmOwners'
  BY <1>1, ProcAssumption
     DEF IInv, TypeOK, PlacesFit, CurrentMayRun, WaitStateMeansSleep, MmOwners,
         Sleeps, memory, Proc
<1>4. TablesAgree' /\ MmCounted'
  BY TablesFrame, ProcAssumption DEF IInv, TypeOK, MmCounted, links, memory, Proc,
     PlacesFit, CurrentMayRun
<1> QED BY <1>2, <1>3, <1>4 DEF IInv

\* A process preempted at the end of trap() stays runnable.
LEMMA TrapPreemptsIInv ==
  ASSUME IInv, NEW p \in Pid, TrapPreempts(p)
  PROVE  IInv'
<1> USE DEF TrapPreempts, Runs, Goes
<1>1. /\ need_resched' \in [Proc -> BOOLEAN]
      /\ current' \in Proc
      /\ \/ current' = idleproc
         \/ current' \in Pid /\ state'[current'] = "RUNNABLE"
  BY ScheduleResult DEF IInv, TypeOK, links
<1>2. TypeOK'
  BY <1>1, ProcAssumption DEF IInv, TypeOK, links, memory, Proc
<1>3. PlacesFit' /\ CurrentMayRun' /\ WaitStateMeansSleep' /\ MmOwners'
  BY <1>1, ProcAssumption
     DEF IInv, TypeOK, PlacesFit, CurrentMayRun, WaitStateMeansSleep, MmOwners,
         Sleeps, memory, Proc
<1>4. TablesAgree' /\ MmCounted'
  BY TablesFrame, ProcAssumption DEF IInv, TypeOK, MmCounted, links, memory, Proc,
     PlacesFit, CurrentMayRun
<1> QED BY <1>2, <1>3, <1>4 DEF IInv

\* A zombie gives the CPU away for good.
LEMMA ExitSchedulesIInv ==
  ASSUME IInv, NEW p \in Pid, ExitSchedules(p)
  PROVE  IInv'
<1> USE DEF ExitSchedules, Runs, Goes
<1>1. /\ need_resched' \in [Proc -> BOOLEAN]
      /\ current' \in Proc
      /\ \/ current' = idleproc
         \/ current' \in Pid /\ state'[current'] = "RUNNABLE"
  BY ScheduleResult DEF IInv, TypeOK, links
<1>2. TypeOK'
  BY <1>1, ProcAssumption DEF IInv, TypeOK, links, memory, Proc
<1>3. PlacesFit' /\ CurrentMayRun' /\ WaitStateMeansSleep' /\ MmOwners'
  BY <1>1, ProcAssumption
     DEF IInv, TypeOK, PlacesFit, CurrentMayRun, WaitStateMeansSleep, MmOwners,
         Sleeps, memory, Proc
<1>4. TablesAgree' /\ MmCounted'
  BY TablesFrame, ProcAssumption DEF IInv, TypeOK, MmCounted, links, memory, Proc,
     PlacesFit, CurrentMayRun
<1> QED BY <1>2, <1>3, <1>4 DEF IInv

\* do_wait puts its caller to sleep with wait_state set, then schedules.
LEMMA WaitSleepsIInv ==
  ASSUME IInv, NEW p \in Pid, WaitSleeps(p)
  PROVE  IInv'
<1> USE DEF WaitSleeps, AtRepeat, Runs
<1>1. /\ need_resched' \in [Proc -> BOOLEAN]
      /\ current' \in Proc
      /\ \/ current' = idleproc
         \/ current' \in Pid /\ state'[current'] = "RUNNABLE"
  BY ScheduleResult DEF IInv, TypeOK, links
<1>2. TypeOK'
  BY <1>1, ProcAssumption DEF IInv, TypeOK, links, memory, Proc
<1>3. PlacesFit' /\ CurrentMayRun' /\ WaitStateMeansSleep' /\ MmOwners'
  BY <1>1, ProcAssumption
     DEF IInv, TypeOK, PlacesFit, CurrentMayRun, WaitStateMeansSleep, MmOwners,
         Sleeps, memory, Proc
<1>4. TablesAgree' /\ MmCounted'
  BY TablesFrame, ProcAssumption DEF IInv, TypeOK, MmCounted, links, memory, Proc,
     PlacesFit, CurrentMayRun
<1> QED BY <1>2, <1>3, <1>4 DEF IInv

\* do_exit up to the loop: p drops its address space, turns zombie and wakes
\* its parent if that waits.
LEMMA DoExitIInv ==
  ASSUME IInv, NEW p \in Pid, current = p,
         pc[p] \notin {"none", "exit", "dead"}, DoExit(p)
  PROVE  IInv'
<1>1. CASE p = initproc
  <2>1. UNCHANGED <<state, wait_state, exiting, need_resched, current, pc, wpid,
                    parent, cptr, yptr, optr, proc_list, hashed, nr_process, mm, mm_count>>
        /\ halted' = "initproc exit"
    BY <1>1 DEF DoExit, links, memory
  <2>2. TypeOK' /\ PlacesFit' /\ CurrentMayRun' /\ WaitStateMeansSleep' /\ MmOwners'
    BY <2>1
       DEF IInv, TypeOK, PlacesFit, CurrentMayRun, WaitStateMeansSleep, MmOwners, Sleeps
  <2>3. TablesAgree'
    BY <2>1, TablesFrame DEF IInv
  <2>4. MmCounted'
    BY <2>1 DEF IInv, MmCounted
  <2> QED BY <2>2, <2>3, <2>4 DEF IInv
<1>2. CASE p # initproc
  <2> DEFINE q == parent[p]
  <2>1. /\ state' = [x \in Proc |-> CASE x = p -> "ZOMBIE"
                                      [] x = q /\ wait_state[q] = "WT_CHILD" -> "RUNNABLE"
                                      [] OTHER -> state[x]]
        /\ wait_state' = [wait_state EXCEPT ![q] = "none"]
        /\ pc' = [pc EXCEPT ![p] = "exit"]
        /\ UNCHANGED <<exiting, wpid, halted, parent, cptr, yptr, optr, proc_list,
                       hashed, nr_process, current, need_resched>>
    BY <1>2 DEF DoExit, links, NoSchedule
  <2>2. mm' = [mm EXCEPT ![p] = NULL] /\ mm_count' = DropMm(p)
    BY <1>2 DEF DoExit
  <2>3. /\ mm_count' \in [Mm -> Nat]
        /\ \A m \in Mm : mm_count'[m] = Cardinality(Users(mm', m))
    BY <2>2, DropCounted DEF IInv
  <2>4. MmCounted'
    BY <2>3 DEF MmCounted, Users
  <2>5. mm' \in [Proc -> Mm \cup {NULL}]
    BY <2>2 DEF IInv, TypeOK
  <2>6. TypeOK'
    BY <2>1, <2>3, <2>5, ProcAssumption DEF IInv, TypeOK, Proc
  <2>12. /\ p # idleproc /\ p \in Proc /\ idleproc \in Proc /\ NULL \notin Proc
         /\ state[p] = "RUNNABLE" /\ current' = p /\ wait_state[p] # "WT_CHILD"
    BY <2>1, ProcAssumption DEF IInv, CurrentMayRun, WaitStateMeansSleep, Sleeps, Proc
  <2>13. \A x \in Proc : state'[x] =
          IF x = p THEN "ZOMBIE"
          ELSE IF x = q /\ wait_state[q] = "WT_CHILD" THEN "RUNNABLE"
          ELSE state[x]
    BY <2>1, <2>12
  <2>15. /\ wait_state \in [Proc -> {"none", "WT_CHILD"}]
         /\ mm \in [Proc -> Mm \cup {NULL}]
         /\ \E S : pc \in [Proc -> S]
    BY DEF IInv, TypeOK
  <2>14. \A x \in Proc : wait_state'[x] = IF x = q THEN "none" ELSE wait_state[x]
    BY <2>1, <2>15
  <2>16. \A x \in Proc : pc'[x] = IF x = p THEN "exit" ELSE pc[x]
    BY <2>1, <2>15
  <2>17. \A x \in Proc : mm'[x] = IF x = p THEN NULL ELSE mm[x]
    BY <2>2, <2>15
  <2>7. \A x \in Proc : x # p =>
          \/ state'[x] = state[x]
          \/ state[x] = "SLEEPING" /\ state'[x] = "RUNNABLE"
    <3>1. \A x \in Proc : wait_state[x] = "WT_CHILD" => state[x] = "SLEEPING"
      BY DEF IInv, WaitStateMeansSleep, Sleeps
    <3> HIDE DEF q
    <3> QED BY <2>13, <3>1
  <2> HIDE DEF q
  <2>8. PlacesFit' /\ CurrentMayRun'
    <3>1. CurrentMayRun'
      BY <2>12, <2>13, <2>14, <2>16, <2>17 DEF CurrentMayRun
    <3>2. state'[idleproc] = "RUNNABLE" /\ pc'[idleproc] = "idle"
      BY <2>12, <2>7, <2>14, <2>16, <2>17 DEF IInv, PlacesFit
    <3>3. pc'[initproc] \in {"start", "loop", "wait"}
      BY <1>2, <2>14, <2>16, <2>17, ProcAssumption DEF IInv, PlacesFit, Proc
    <3>4. \A x \in Pid : x # p =>
            /\ (pc'[x] = "none") <=> (state'[x] = "UNUSED")
            /\ (pc'[x] \in {"exit", "dead"}) <=> (state'[x] = "ZOMBIE")
            /\ Sleeps(x)' => pc'[x] = "wait"
            /\ pc'[x] \in {"exit", "ret"} => current' = x
            /\ pc'[x] \in {"start", "loop"} => x = initproc
            /\ pc'[x] # "idle"
      BY <2>1, <2>7, <2>14, <2>16, <2>17 DEF IInv, PlacesFit, Sleeps, Proc
    <3>5. Sleeps(p)' = FALSE /\ state'[p] = "ZOMBIE" /\ pc'[p] = "exit" /\ current' = p
      BY <2>12, <2>13, <2>14, <2>16, <2>17 DEF Sleeps
    <3> QED BY <3>1, <3>2, <3>3, <3>4, <3>5 DEF PlacesFit
  <2>9. WaitStateMeansSleep'
    BY <2>12, <2>13, <2>14, <2>16, <2>17 DEF IInv, TypeOK, WaitStateMeansSleep, Sleeps
  <2>10. MmOwners'
    BY <2>14, <2>16, <2>17 DEF IInv, MmOwners
  <2>11. TablesAgree'
    <3>1. \A x \in Pid : state'[x] = "UNUSED" <=> state[x] = "UNUSED"
      BY <2>12, <2>13, <2>7 DEF Proc
    <3> QED BY <2>1, <3>1, TablesFrame DEF IInv
  <2> QED BY <2>4, <2>6, <2>8, <2>9, <2>10, <2>11 DEF IInv
<1> QED BY <1>1, <1>2

\* Every way into do_exit: exit, a failed load_icode, and a pending kill seen
\* by trap() or by do_wait.
LEMMA ExitsIInv ==
  ASSUME IInv, NEW p \in Pid,
         Exit(p) \/ ExecFails(p) \/ TrapKilled(p) \/ WaitKilled(p)
  PROVE  IInv'
BY DoExitIInv DEF Exit, ExecFails, TrapKilled, WaitKilled, Runs

\* do_execve: the address space is dropped, then a fresh one is given.
LEMMA ExecIInv ==
  ASSUME IInv, NEW p \in Pid, Exec(p)
  PROVE  IInv'
<1>1. PICK m \in Mm : /\ DropMm(p)[m] = 0
                      /\ mm' = [mm EXCEPT ![p] = m]
                      /\ mm_count' = [DropMm(p) EXCEPT ![m] = 1]
  BY DEF Exec
<1>2. \E from \in {"user", "kmain"} : pc[p] = from
      /\ pc' = [pc EXCEPT ![p] = IF from = "user" THEN "ret" ELSE "user"]
  BY DEF Exec, Goes
<1>3. /\ current = p
      /\ UNCHANGED <<state, wait_state, exiting, wpid, halted, parent, cptr, yptr, optr,
                     proc_list, hashed, nr_process, current, need_resched>>
  BY DEF Exec, Runs, links, NoSchedule
<1>4. MmCounted' /\ mm_count' \in [Mm -> Nat]
  <2> DEFINE f == [mm EXCEPT ![p] = NULL]
  <2>1. /\ DropMm(p) \in [Mm -> Nat]
        /\ \A n \in Mm : DropMm(p)[n] = Cardinality(Users(f, n))
    BY DropCounted DEF IInv
  <2>2. /\ f \in [Proc -> Mm \cup {NULL}] /\ f[p] = NULL
        /\ \A x \in Pid : mm'[x] = IF x = p THEN m ELSE f[x]
    BY <1>1 DEF IInv, TypeOK, Proc
  <2> HIDE DEF f
  <2>3. \A n \in Mm : Cardinality(Users(mm', n)) =
                        IF m = n THEN DropMm(p)[n] + 1 ELSE DropMm(p)[n]
    BY <2>1, <2>2, GiveCounted
  <2>4. \A n \in Mm : mm_count'[n] = IF m = n THEN DropMm(p)[n] + 1 ELSE DropMm(p)[n]
    BY <1>1, <2>1
  <2>5. mm_count' \in [Mm -> Nat]
    BY <1>1, <2>1
  <2> QED BY <2>3, <2>4, <2>5 DEF MmCounted, Users
<1>5. TypeOK'
  <2>1. mm' \in [Proc -> Mm \cup {NULL}]
    BY <1>1, ProcAssumption DEF IInv, TypeOK, Proc
  <2>2. pc' \in [Proc -> {"user", "ret", "wait", "exit", "dead", "start", "loop",
                         "kmain", "idle", "none"}]
    <3>1. \/ pc' = [pc EXCEPT ![p] = "ret"]
          \/ pc' = [pc EXCEPT ![p] = "user"]
      BY <1>2
    <3> QED BY <3>1 DEF IInv, TypeOK
  <2> QED BY <1>3, <1>4, <2>1, <2>2 DEF IInv, TypeOK
<1>6. PlacesFit' /\ CurrentMayRun' /\ WaitStateMeansSleep' /\ MmOwners'
  <2>1. /\ \A x \in Proc : x # p => pc'[x] = pc[x] /\ mm'[x] = mm[x]
        /\ pc[p] \in {"user", "kmain"} /\ pc'[p] \in {"user", "ret"}
        /\ p \in Proc /\ p # idleproc
    BY <1>1, <1>2, ProcAssumption DEF IInv, TypeOK, Proc
  <2>2. PlacesFit'
    BY <1>3, <2>1, ProcAssumption DEF IInv, PlacesFit, Sleeps, Proc
  <2>3. CurrentMayRun' /\ WaitStateMeansSleep'
    BY <1>3, <2>1 DEF IInv, CurrentMayRun, WaitStateMeansSleep, Sleeps
  <2>4. MmOwners'
    BY <2>1 DEF IInv, MmOwners
  <2> QED BY <2>2, <2>3, <2>4
<1>7. TablesAgree'
  BY <1>3, TablesFrame DEF IInv
<1> QED BY <1>4, <1>5, <1>6, <1>7 DEF IInv

\* do_fork: the new process is in every table, at the head of proc_list, and
\* counted as a user of the address space it got.
LEMMA DoForkIInv ==
  ASSUME IInv, NEW p \in Pid, NEW flag, NEW from, NEW to, NEW child,
         current = p, DoFork(p, flag, from, to, child),
         \/ from = "user" /\ to = "ret" /\ child = "user"
         \/ from = "start" /\ to = "loop" /\ child = "kmain" /\ p = initproc
  PROVE  IInv'
<1>1. PICK q \in FreePids :
         /\ CopyMm(p, q, flag) /\ HashProc(q) /\ SetLinks(q, p)
         /\ state' = [state EXCEPT ![q] = "RUNNABLE"]
         /\ pc[p] = from
         /\ pc' = [pc EXCEPT ![p] = to, ![q] = child]
  BY DEF DoFork
<1>2. UNCHANGED <<wait_state, exiting, wpid, halted, current, need_resched>>
  BY DEF DoFork, NoSchedule
<1>3. /\ q \in Pid /\ q \notin Live /\ state[q] = "UNUSED" /\ pc[q] = "none"
      /\ mm[q] = NULL /\ wait_state[q] = "none" /\ q # p /\ q # initproc
  <2>1. q \in Pid /\ q \notin Live /\ state[q] = "UNUSED" /\ pc[q] = "none"
    BY DEF FreePids, IInv, TablesAgree, PlacesFit
  <2>2. mm[q] = NULL
    BY <2>1 DEF IInv, MmOwners, Proc
  <2>3. wait_state[q] = "none"
    BY <2>1 DEF IInv, TypeOK, WaitStateMeansSleep, Sleeps, Proc
  <2>4. q # p
    BY <1>1, <2>1
  <2>5. q # initproc
    BY <2>1 DEF IInv, PlacesFit
  <2> QED BY <2>1, <2>2, <2>3, <2>4, <2>5
<1>4. /\ MmCounted' /\ mm_count' \in [Mm -> Nat] /\ mm' \in [Proc -> Mm \cup {NULL}]
      /\ \A x \in Proc : x # q => mm'[x] = mm[x]
  <2>1. mm \in [Proc -> Mm \cup {NULL}] /\ mm_count \in [Mm -> Nat] /\ q \in Proc
    BY <1>3 DEF IInv, TypeOK, Proc
  <2>2. CASE UNCHANGED memory
    BY <2>1, <2>2 DEF IInv, MmCounted, memory
  <2>3. CASE ~ UNCHANGED memory
    <3>1. PICK v \in Mm : /\ mm' = [mm EXCEPT ![q] = v]
                          /\ mm_count' = [mm_count EXCEPT ![v] = @ + 1]
      <4>1. CASE flag = "CLONE_VM"
        BY <1>1, <2>1, <2>3, <4>1 DEF CopyMm, IInv, TypeOK, Proc
      <4>2. CASE flag # "CLONE_VM"
        <5>1. PICK m \in Mm : /\ mm_count[m] = 0 /\ mm' = [mm EXCEPT ![q] = m]
                              /\ mm_count' = [mm_count EXCEPT ![m] = 1]
          BY <1>1, <2>3, <4>2 DEF CopyMm
        <5>2. mm_count' = [mm_count EXCEPT ![m] = mm_count[m] + 1]
          <6>1. mm_count[m] + 1 = 1
            BY <5>1
          <6> QED BY <5>1, <6>1
        <5> QED BY <5>1, <5>2
      <4> QED BY <4>1, <4>2
    <3>2. \A x \in Proc : mm'[x] = IF x = q THEN v ELSE mm[x]
      BY <2>1, <3>1
    <3>3. \A m \in Mm : mm_count[m] = Cardinality(Users(mm, m))
      BY CountedByUsers DEF IInv
    <3>4. \A m \in Mm : Cardinality(Users(mm', m)) =
                          IF v = m THEN mm_count[m] + 1 ELSE mm_count[m]
      BY <1>3, <2>1, <3>2, <3>3, GiveCounted DEF Proc
    <3>5. mm_count' \in [Mm -> Nat] /\ MmCounted'
      BY <2>1, <3>1, <3>4 DEF MmCounted, Users
    <3>6. mm' \in [Proc -> Mm \cup {NULL}]
      BY <2>1, <3>1
    <3> QED BY <3>2, <3>5, <3>6
  <2> QED BY <2>2, <2>3
<1>5. /\ proc_list \in Seq(Pid) /\ proc_list' \in Seq(Pid)
      /\ Len(proc_list') = Len(proc_list) + 1
      /\ Live' = Live \cup {q}
      /\ IsInjective(proc_list')
  <2>1. proc_list \in Seq(Pid) /\ IsInjective(proc_list)
    BY DEF IInv, TypeOK, TablesAgree
  <2>2. proc_list' = <<q>> \o proc_list
    BY <1>1 DEF SetLinks
  <2>3. Range(<<q>> \o proc_list) = Range(proc_list) \cup {q}
    BY <1>3, <2>1, PushFrontRange
  <2>4. IsInjective(<<q>> \o proc_list)
    BY <1>3, <2>1, PushFrontInjective DEF Live
  <2> QED BY <1>3, <2>1, <2>2, <2>3, <2>4, PushFront DEF Live
<1>6. \A x \in Proc : /\ state'[x] = IF x = q THEN "RUNNABLE" ELSE state[x]
                      /\ pc'[x] = IF x = p THEN to ELSE IF x = q THEN child ELSE pc[x]
  BY <1>1, <1>3 DEF IInv, TypeOK, Proc
<1>7. TypeOK'
  <2>1. /\ cptr \in [Proc -> Pid \cup {NULL}] /\ yptr \in [Proc -> Pid \cup {NULL}]
        /\ p \in Proc /\ q \in Pid
    BY <1>3 DEF IInv, TypeOK, Proc
  <2>2. yptr' \in [Proc -> Pid \cup {NULL}]
    BY <1>1, <2>1 DEF SetLinks
  <2>3. cptr' \in [Proc -> Pid \cup {NULL}]
    BY <1>1, <2>1 DEF SetLinks
  <2>5. optr' \in [Proc -> Pid \cup {NULL}] /\ parent' \in [Proc -> Proc \cup {NULL}]
    <3>1. /\ optr \in [Proc -> Pid \cup {NULL}] /\ parent \in [Proc -> Proc \cup {NULL}]
          /\ cptr[p] \in Pid \cup {NULL}
      BY <2>1 DEF IInv, TypeOK
    <3>2. optr' = [optr EXCEPT ![q] = cptr[p]] /\ parent' = [parent EXCEPT ![q] = p]
      BY <1>1 DEF SetLinks
    <3> QED BY <2>1, <3>1, <3>2
  <2>6. nr_process' \in Nat /\ hashed' \in SUBSET Pid
    <3>1. nr_process' = nr_process + 1 /\ hashed' = hashed \cup {q}
      BY <1>1 DEF SetLinks, HashProc
    <3>2. nr_process \in Nat /\ hashed \subseteq Pid
      BY DEF IInv, TypeOK
    <3> QED BY <2>1, <3>1, <3>2
  <2>4. /\ state' \in [Proc -> {"UNUSED", "SLEEPING", "RUNNABLE", "ZOMBIE"}]
        /\ pc' \in [Proc -> {"user", "ret", "wait", "exit", "dead", "start", "loop",
                             "kmain", "idle", "none"}]
    BY <1>1 DEF IInv, TypeOK
  <2> QED BY <1>2, <1>4, <1>5, <2>2, <2>3, <2>4, <2>5, <2>6 DEF IInv, TypeOK
<1>8. PlacesFit'
  <2>1. ASSUME NEW x \in Pid
        PROVE  /\ (pc'[x] = "none") <=> (state'[x] = "UNUSED")
               /\ (pc'[x] \in {"exit", "dead"}) <=> (state'[x] = "ZOMBIE")
               /\ Sleeps(x)' => pc'[x] = "wait"
               /\ pc'[x] \in {"exit", "ret"} => current' = x
               /\ pc'[x] \in {"start", "loop"} => x = initproc
               /\ pc'[x] # "idle"
    <3>1. x \in Proc
      BY DEF Proc
    <3>2. CASE x = q
      BY <1>2, <1>3, <1>6, <3>1, <3>2 DEF Sleeps
    <3>3. CASE x = p
      <4>1. state[p] = "RUNNABLE"
        BY <1>1 DEF IInv, CurrentMayRun
      <4> QED BY <1>2, <1>3, <1>6, <3>1, <3>3, <4>1 DEF Sleeps
    <3>4. CASE x # q /\ x # p
      BY <1>2, <1>6, <3>1, <3>4 DEF IInv, PlacesFit, Sleeps
    <3> QED BY <3>2, <3>3, <3>4
  <2>2. state'[idleproc] = "RUNNABLE" /\ pc'[idleproc] = "idle"
    BY <1>3, <1>6, ProcAssumption DEF IInv, PlacesFit, Proc
  <2>3. pc'[initproc] \in {"start", "loop", "wait"}
    BY <1>1, <1>3, <1>6, ProcAssumption DEF IInv, PlacesFit, Proc
  <2> QED BY <2>1, <2>2, <2>3 DEF PlacesFit
<1>9. CurrentMayRun' /\ WaitStateMeansSleep'
  BY <1>1, <1>2, <1>3, <1>6, ProcAssumption
     DEF IInv, CurrentMayRun, WaitStateMeansSleep, Sleeps, Proc
<1>10. MmOwners'
  BY <1>1, <1>3, <1>4, <1>6 DEF IInv, MmOwners, Proc
<1>11. TablesAgree'
  <2>1. hashed' = Live' /\ nr_process' = Len(proc_list') + 1
    BY <1>1, <1>5 DEF IInv, TypeOK, TablesAgree, HashProc, SetLinks
  <2>2. Live' = {x \in Pid : state'[x] # "UNUSED"}
    BY <1>3, <1>5, <1>6 DEF IInv, TablesAgree, Proc
  <2> QED BY <1>5, <2>1, <2>2 DEF TablesAgree
<1> QED BY <1>4, <1>7, <1>8, <1>9, <1>10, <1>11 DEF IInv

\* fork by a user process, and init_main's kernel_thread.
LEMMA ForksIInv ==
  ASSUME IInv, NEW p \in Pid, Fork(p) \/ StartUserMain
  PROVE  IInv'
<1>1. CASE Fork(p)
  BY <1>1, DoForkIInv DEF Fork, Runs
<1>2. CASE StartUserMain
  BY <1>2, DoForkIInv, ProcAssumption DEF StartUserMain, Runs
<1> QED BY <1>1, <1>2

\* do_wait reaps: the zombie leaves every table, and nobody else changes place
\* but the waiter.
LEMMA WaitReapsIInv ==
  ASSUME IInv, NEW p \in Pid, WaitReaps(p)
  PROVE  IInv'
<1>1. PICK t \in Pid \cup {ANY} :
        /\ AtRepeat(p, t)
        /\ \E q \in Zombies(Candidates(p, t)) :
             /\ RemoveLinks(q)
             /\ hashed' = hashed \ {q}
             /\ state' = [state EXCEPT ![q] = "UNUSED"]
             /\ exiting' = [exiting EXCEPT ![q] = FALSE]
             /\ pc' = [pc EXCEPT ![q] = "none",
                                 ![p] = IF p = initproc THEN "loop" ELSE "ret"]
             /\ wpid' = [wpid EXCEPT ![q] = ANY, ![p] = ANY]
  BY DEF WaitReaps
<1>2. PICK q \in Zombies(Candidates(p, t)) :
        /\ RemoveLinks(q)
        /\ hashed' = hashed \ {q}
        /\ state' = [state EXCEPT ![q] = "UNUSED"]
        /\ exiting' = [exiting EXCEPT ![q] = FALSE]
        /\ pc' = [pc EXCEPT ![q] = "none",
                            ![p] = IF p = initproc THEN "loop" ELSE "ret"]
        /\ wpid' = [wpid EXCEPT ![q] = ANY, ![p] = ANY]
  BY <1>1
<1>3. /\ IF p = initproc THEN Schedule ELSE NoSchedule
      /\ UNCHANGED <<wait_state, halted, mm, mm_count>>
  BY DEF WaitReaps, memory
<1>4. /\ current = p /\ pc[p] \in {"user", "loop", "wait"}
      /\ pc[p] = "user" => p # initproc
  BY <1>1 DEF AtRepeat, Runs, IInv, PlacesFit
<1>5. q \in Pid /\ state[q] = "ZOMBIE"
  <2>1. hashed \subseteq Pid
    BY DEF IInv, TypeOK
  <2> QED BY <2>1 DEF Zombies, Candidates, Chain
<1>6. state[p] = "RUNNABLE" /\ q # p /\ q # initproc /\ pc[q] \in {"exit", "dead"}
  <2>1. state[p] = "RUNNABLE"
    BY <1>4 DEF IInv, CurrentMayRun
  <2>2. pc[q] \in {"exit", "dead"}
    BY <1>5 DEF IInv, PlacesFit
  <2> QED BY <1>5, <2>1, <2>2 DEF IInv, PlacesFit
<1>7. /\ \A x \in Proc : state'[x] = IF x = q THEN "UNUSED" ELSE state[x]
      /\ \A x \in Proc : pc'[x] =
            IF x = p THEN IF p = initproc THEN "loop" ELSE "ret"
            ELSE IF x = q THEN "none" ELSE pc[x]
  BY <1>2, <1>6 DEF IInv, TypeOK
<1>8. /\ proc_list \in Seq(Pid) /\ proc_list' \in Seq(Pid)
      /\ Len(proc_list') = Len(proc_list) - 1 /\ Len(proc_list) > 0
      /\ Live' = Live \ {q}
      /\ IsInjective(proc_list')
  <2>1. proc_list \in Seq(Pid) /\ IsInjective(proc_list)
    BY DEF IInv, TypeOK, TablesAgree
  <2>2. PICK i \in 1 .. Len(proc_list) :
          proc_list[i] = q /\ proc_list' = RemoveAt(proc_list, i)
    BY <1>2 DEF RemoveLinks
  <2>3. Range(RemoveAt(proc_list, i)) = Range(proc_list) \ {proc_list[i]}
    BY <2>1, RemoveOneRange
  <2>4. IsInjective(RemoveAt(proc_list, i))
    BY <2>1, RemoveOneInjective
  <2>5. /\ RemoveAt(proc_list, i) \in Seq(Pid)
        /\ Len(RemoveAt(proc_list, i)) = Len(proc_list) - 1
    BY <2>1, RemoveOne
  <2> QED BY <2>1, <2>2, <2>3, <2>4, <2>5 DEF Live
<1>16. nr_process' = Len(proc_list') + 1 /\ nr_process' \in Nat
  <2>1. nr_process' = nr_process - 1
    BY <1>2 DEF RemoveLinks
  <2>2. nr_process = Len(proc_list) + 1
    BY DEF IInv, TablesAgree
  <2>3. Len(proc_list) \in Nat
    BY <1>8
  <2> QED BY <1>8, <2>1, <2>2, <2>3
<1>9. /\ need_resched' \in [Proc -> BOOLEAN]
      /\ current' \in Proc
      /\ \/ current' = idleproc
         \/ current' \in Pid /\ state'[current'] = "RUNNABLE"
      /\ p # initproc => current' = p
  <2>1. CASE p = initproc
    BY <1>3, <1>8, <2>1, ScheduleResult DEF IInv
  <2>2. CASE p # initproc
    <3>1. current' = p /\ UNCHANGED need_resched
      BY <1>3, <1>4, <2>2 DEF NoSchedule
    <3>2. state'[p] = "RUNNABLE"
      BY <1>6, <1>7 DEF Proc
    <3> QED BY <2>2, <3>1, <3>2 DEF IInv, TypeOK, Proc
  <2> QED BY <2>1, <2>2
<1>10. TypeOK'
  <2>1. /\ cptr \in [Proc -> Pid \cup {NULL}] /\ yptr \in [Proc -> Pid \cup {NULL}]
        /\ optr \in [Proc -> Pid \cup {NULL}] /\ parent \in [Proc -> Proc \cup {NULL}]
        /\ q \in Proc
    BY <1>5 DEF IInv, TypeOK, Proc
  <2>2. yptr' \in [Proc -> Pid \cup {NULL}]
    BY <1>2, <2>1 DEF RemoveLinks, YptrWithout
  <2>3. optr' \in [Proc -> Pid \cup {NULL}]
    BY <1>2, <2>1 DEF RemoveLinks
  <2>4. cptr' \in [Proc -> Pid \cup {NULL}]
    BY <1>2, <2>1 DEF RemoveLinks
  <2>5. parent' \in [Proc -> Proc \cup {NULL}]
    BY <1>2, <2>1 DEF RemoveLinks
  <2>6. nr_process' \in Nat /\ hashed' \in SUBSET Pid
    BY <1>2, <1>16 DEF IInv, TypeOK
  <2>7. /\ state' \in [Proc -> {"UNUSED", "SLEEPING", "RUNNABLE", "ZOMBIE"}]
        /\ exiting' \in [Proc -> BOOLEAN]
        /\ pc' \in [Proc -> {"user", "ret", "wait", "exit", "dead", "start", "loop",
                             "kmain", "idle", "none"}]
        /\ wpid' \in [Proc -> Pid \cup {ANY}]
    BY <1>2 DEF IInv, TypeOK
  <2> QED BY <1>3, <1>8, <1>9, <2>2, <2>3, <2>4, <2>5, <2>6, <2>7 DEF IInv, TypeOK
<1>11. PlacesFit'
  <2>1. ASSUME NEW x \in Pid
        PROVE  /\ (pc'[x] = "none") <=> (state'[x] = "UNUSED")
               /\ (pc'[x] \in {"exit", "dead"}) <=> (state'[x] = "ZOMBIE")
               /\ Sleeps(x)' => pc'[x] = "wait"
               /\ pc'[x] \in {"exit", "ret"} => current' = x
               /\ pc'[x] \in {"start", "loop"} => x = initproc
               /\ pc'[x] # "idle"
    <3>1. x \in Proc
      BY DEF Proc
    <3>2. CASE x = q
      BY <1>6, <1>7, <3>1, <3>2 DEF Sleeps
    <3>3. CASE x = p
      BY <1>6, <1>7, <1>9, <3>1, <3>3 DEF Sleeps
    <3>4. CASE x # q /\ x # p
      BY <1>4, <1>7, <3>1, <3>4 DEF IInv, PlacesFit, Sleeps
    <3> QED BY <3>2, <3>3, <3>4
  <2>2. state'[idleproc] = "RUNNABLE" /\ pc'[idleproc] = "idle"
    BY <1>5, <1>7, ProcAssumption DEF IInv, PlacesFit, Proc
  <2>3. pc'[initproc] \in {"start", "loop", "wait"}
    BY <1>6, <1>7, ProcAssumption DEF IInv, PlacesFit, Proc
  <2> QED BY <2>1, <2>2, <2>3 DEF PlacesFit
<1>12. CurrentMayRun'
  BY <1>9, <1>11 DEF CurrentMayRun, PlacesFit
<1>13. WaitStateMeansSleep'
  BY <1>3, <1>5, <1>7 DEF IInv, WaitStateMeansSleep, Sleeps, Proc
<1>14. MmOwners' /\ MmCounted'
  BY <1>3, <1>5, <1>6, <1>7 DEF IInv, MmOwners, MmCounted, Proc
<1>15. TablesAgree'
  <2>1. hashed' = Live' /\ nr_process' = Len(proc_list') + 1
    BY <1>2, <1>8, <1>16 DEF IInv, TablesAgree
  <2>2. Live' = {x \in Pid : state'[x] # "UNUSED"}
    BY <1>5, <1>7, <1>8 DEF IInv, TablesAgree, Proc
  <2> QED BY <1>8, <2>1, <2>2 DEF TablesAgree
<1> QED BY <1>10, <1>11, <1>12, <1>13, <1>14, <1>15 DEF IInv
-----------------------------------------------------------------------------
(* The theorems *)

\* Every step of the specification keeps the invariant.
LEMMA StepIInv == IInv /\ [Next]_vars => IInv'
<1> SUFFICES ASSUME IInv, [Next]_vars PROVE IInv'
  OBVIOUS
<1>1. ASSUME NEW p \in Pid, UserStep(p) \/ KernelStep(p) PROVE IInv'
  <2>1. \/ Fork(p) \/ Exit(p) \/ Kill(p) \/ Yield(p) \/ SyscallFails(p)
        \/ WaitReaps(p) \/ WaitSleeps(p) \/ WaitNoChild(p) \/ Exec(p) \/ ExecFails(p)
        \/ TrapKilled(p) \/ TrapPreempts(p) \/ TrapReturns(p)
        \/ GiveChild(p) \/ ExitSchedules(p) \/ WaitKilled(p)
    BY <1>1 DEF UserStep, KernelStep
  <2> QED BY <2>1, ForksIInv, ExitsIInv, KillIInv, YieldIInv, SyscallFailsIInv,
             WaitReapsIInv, WaitSleepsIInv, WaitNoChildIInv, ExecIInv,
             TrapPreemptsIInv, TrapReturnsIInv, GiveChildIInv, ExitSchedulesIInv
<1>2. ASSUME NEW p \in Pid, NEW asks \in BOOLEAN, Tick(p, asks) PROVE IInv'
  BY <1>2, TickIInv
<1>3. CASE StartUserMain
  BY <1>3, ForksIInv, ProcAssumption
<1>4. CASE UserMainFails \/ InitEnds \/ Stopped
  BY <1>4, HaltIInv
<1>5. CASE CpuIdle
  BY <1>5, CpuIdleIInv
<1>6. CASE KernelTick
  BY <1>6, KernelTickIInv
<1>7. CASE UNCHANGED vars
  <2>1. UNCHANGED <<state, wait_state, exiting, need_resched, current, pc, wpid, halted,
                    parent, cptr, yptr, optr, proc_list, hashed, nr_process, mm, mm_count>>
    BY <1>7 DEF vars, links, memory
  <2>2. TypeOK' /\ PlacesFit' /\ CurrentMayRun' /\ WaitStateMeansSleep' /\ MmOwners'
    BY <2>1
       DEF IInv, TypeOK, PlacesFit, CurrentMayRun, WaitStateMeansSleep, MmOwners, Sleeps
  <2>3. TablesAgree'
    BY <2>1, TablesFrame DEF IInv
  <2>4. MmCounted'
    BY <2>1 DEF IInv, MmCounted
  <2> QED BY <2>2, <2>3, <2>4 DEF IInv
<1> QED BY <1>1, <1>2, <1>3, <1>4, <1>5, <1>6, <1>7 DEF Next, InitStep

\* The inductive invariant holds in every reachable state.
THEOREM ProcCorrect == Spec => []IInv
<1>1. Init => IInv
  BY InitIInv
<1>2. IInv /\ [Next]_vars => IInv'
  BY StepIInv
<1> QED BY <1>1, <1>2, PTL DEF Spec

\* schedule() never gives the CPU to a process that sleeps or is dead, whatever
\* exit, wait and kill do to the states: CurrentMayRun.
THEOREM CurrentAlwaysMayRun == Spec => []CurrentMayRun
BY ProcCorrect, PTL DEF IInv

\* The assert of wakeup_proc never fails, and a process marked as waiting sleeps:
\* WaitStateMeansSleep.
THEOREM WaitersSleep == Spec => []WaitStateMeansSleep
BY ProcCorrect, PTL DEF IInv

\* proc_list, the hash lists, the states and nr_process never disagree on which
\* processes exist: TablesAgree.
THEOREM TablesAlwaysAgree == Spec => []TablesAgree
BY ProcCorrect, PTL DEF IInv

\* mm_count is exact, so that the last user and nobody before it frees the
\* address space: MmCounted.
THEOREM MmAlwaysCounted == Spec => []MmCounted
BY ProcCorrect, PTL DEF IInv

\* The process that do_kill marks does not sleep afterwards: a sleeping process
\* has its wait_state set, which is what do_kill looks at.
LEMMA KillStep ==
  ASSUME IInv, [Next]_vars, NEW t \in Pid, ~ exiting[t], exiting'[t]
  PROVE  state'[t] # "SLEEPING"
<1>1. exiting \in [Proc -> BOOLEAN] /\ t \in Proc
  BY DEF IInv, TypeOK, Proc
<1>2. PICK p \in Pid : Kill(p) \/ WaitReaps(p)
  <2>1. exiting' # exiting
    BY <1>1
  <2>2. ~ UNCHANGED vars
    BY <2>1 DEF vars
  <2>3. ~ (StartUserMain \/ UserMainFails \/ InitEnds \/ CpuIdle \/ KernelTick \/ Stopped)
    BY <2>1, <2>2
       DEF StartUserMain, DoFork, UserMainFails, InitEnds, CpuIdle, KernelTick, Stopped
  <2>4. ASSUME NEW p \in Pid, NEW asks \in BOOLEAN PROVE ~ Tick(p, asks)
    BY <2>1 DEF Tick
  <2>5. ASSUME NEW p \in Pid
        PROVE  ~ (\/ Fork(p) \/ Yield(p) \/ SyscallFails(p) \/ WaitSleeps(p)
                  \/ WaitNoChild(p) \/ Exec(p) \/ TrapPreempts(p) \/ TrapReturns(p)
                  \/ GiveChild(p) \/ ExitSchedules(p))
    BY <2>1 DEF Fork, DoFork, Yield, SyscallFails, WaitSleeps, WaitNoChild, Exec,
                TrapPreempts, TrapReturns, GiveChild, ExitSchedules
  <2>6. ASSUME NEW p \in Pid PROVE ~ DoExit(p)
    BY <2>1 DEF DoExit
  <2> QED BY <2>2, <2>3, <2>4, <2>5, <2>6
          DEF Next, InitStep, UserStep, KernelStep, Exit, ExecFails, TrapKilled, WaitKilled
<1>3. CASE WaitReaps(p)
  <2>1. PICK q \in Pid \cup hashed : exiting' = [exiting EXCEPT ![q] = FALSE]
    BY <1>3 DEF WaitReaps, Zombies, Candidates, Chain
  <2> QED BY <1>1, <2>1
<1>4. CASE Kill(p)
  <2>1. PICK u \in KillTargets \cap hashed :
          /\ exiting' = [exiting EXCEPT ![u] = TRUE]
          /\ Wakes(u)
    BY <1>4 DEF Kill
  <2>2. u = t
    BY <1>1, <2>1
  <2>3. state'[t] = IF wait_state[t] = "WT_CHILD" THEN "RUNNABLE" ELSE state[t]
    BY <1>1, <2>1, <2>2 DEF Wakes, IInv, TypeOK
  <2>4. wait_state[t] = "WT_CHILD" <=> state[t] = "SLEEPING"
    BY <1>1 DEF IInv, WaitStateMeansSleep, Sleeps
  <2> QED BY <2>3, <2>4
<1> QED BY <1>2, <1>3, <1>4

\* A kill is seen by its target: do_kill leaves no process asleep with PF_EXITING
\* newly set, whatever it was doing: KillWakes.
THEOREM KillAlwaysWakes == Spec => KillWakes
<1>1. IInv /\ [Next]_vars => [KillSeen]_vars
  BY KillStep DEF KillSeen
<1> QED BY <1>1, ProcCorrect, PTL DEF Spec, KillWakes

-----------------------------------------------------------------------------
(* The family of processes *)

\* Somebody in the family is always runnable: a waiter waits for a child that
\* has not exited, and the waiters do not wait for each other in a ring.
LEMMA SomeoneRunnable ==
  ASSUME IInv, ParentsFit, NoCycle, WaitersFit
  PROVE  \E x \in Live : state[x] = "RUNNABLE"
<1> SUFFICES ASSUME \A x \in Live : state[x] # "RUNNABLE" PROVE FALSE
  OBVIOUS
<1>1. /\ Live \subseteq Pid
      /\ \A x \in Live : state[x] \in {"SLEEPING", "ZOMBIE"}
  BY DEF IInv, TypeOK, TablesAgree, Proc
<1> DEFINE S == {x \in Live : Sleeps(x)}
<1>2. initproc \in S
  <2>1. initproc \in Live /\ pc[initproc] \in {"start", "loop", "wait"}
    BY DEF ParentsFit, IInv, PlacesFit
  <2>2. state[initproc] # "ZOMBIE"
    BY <2>1, <1>1 DEF IInv, PlacesFit
  <2> QED BY <2>1, <2>2, <1>1 DEF Sleeps
<1>3. PICK w \in S : \A x \in S : parent[x] # w
  <2>1. S \in SUBSET Live /\ S # {}
    BY <1>2
  <2> HIDE DEF S
  <2> QED BY <2>1 DEF NoCycle
<1>4. PICK q \in Children(w) : wpid[w] \in {ANY, q}
  BY <1>1 DEF WaitersFit
<1>5. state[q] # "ZOMBIE" /\ q \in Live /\ parent[q] = w
  BY <1>1, <1>4 DEF WaitersFit, Children
<1>6. q \in S
  BY <1>1, <1>5 DEF Sleeps
<1> QED BY <1>3, <1>5, <1>6

\* So schedule() always finds a process, and idleproc is not chosen again.
LEMMA ScheduleFinds ==
  ASSUME Schedule, IInv', ParentsFit', NoCycle', WaitersFit'
  PROVE  current' # idleproc
<1>1. \E x \in Live' : state'[x] = "RUNNABLE"
  <2>1. (\E x \in Live : state[x] = "RUNNABLE")'
    BY SomeoneRunnable, PTL
  <2> QED BY <2>1
<1>2. proc_list' \in Seq(Pid)
  BY DEF IInv, TypeOK
<1>3. \A i \in 1 .. Len(proc_list') : proc_list'[i] \in Pid
  BY <1>2
<1>4. \E i \in 1 .. Len(proc_list') : CanRun(proc_list'[i])
  <2>1. DOMAIN proc_list' = 1 .. Len(proc_list')
    BY <1>2
  <2> QED BY <1>1, <2>1 DEF Live, Range, CanRun
<1> QED BY <1>3, <1>4, ProcAssumption DEF Schedule

\* Steps that leave the links as they are.
LEMMA LinksFrame ==
  ASSUME UNCHANGED links, ListsFit, AllReached, NoCycle,
         \A x \in Proc : pc'[x] = "exit" \/ pc'[x] = pc[x] \/ pc[x] # "exit" \/ cptr[x] = NULL
  PROVE  ListsFit' /\ AllReached' /\ NoCycle'
<1>1. UNCHANGED <<parent, cptr, yptr, optr, proc_list>>
  BY DEF links
<1>2. Live' = Live /\ \A p : Children(p)' = Children(p)
  BY <1>1 DEF Live, Children
<1>3. ListsFit'
  BY <1>1, <1>2 DEF ListsFit
<1>4. AllReached'
  <2> SUFFICES ASSUME NEW p \in Proc, NEW S \in SUBSET Pid,
                      cptr[p] # NULL => cptr[p] \in S,
                      \A r \in S : optr[r] # NULL => optr[r] \in S
               PROVE  Children(p) \subseteq S
    BY <1>1, <1>2 DEF AllReached
  <2> QED BY DEF AllReached
<1>5. NoCycle'
  BY <1>1, <1>2 DEF NoCycle
<1> QED BY <1>3, <1>4, <1>5

LEMMA ParentsFrame ==
  ASSUME UNCHANGED links, ParentsFit,
         \A x \in Proc : pc'[x] = "dead" => pc[x] = "dead" \/ Children(x) = {},
         Live \subseteq Proc
  PROVE  ParentsFit'
<1>1. UNCHANGED <<parent, proc_list>>
  BY DEF links
<1> QED BY <1>1 DEF ParentsFit, Live, Children

LEMMA WaitersFrame ==
  ASSUME UNCHANGED links, WaitersFit,
         \A p \in Pid : Sleeps(p)' =>
           /\ Sleeps(p) /\ wpid'[p] = wpid[p]
           /\ \A q \in Children(p) : state'[q] = "ZOMBIE" => state[q] = "ZOMBIE"
  PROVE  WaitersFit'
<1>1. \A p : Children(p)' = Children(p)
  BY DEF links, Children, Live
<1> QED BY <1>1 DEF WaitersFit

\* A process whose cptr is NULL has no children.
LEMMA NoChildren ==
  ASSUME AllReached, NEW p \in Proc, cptr[p] = NULL
  PROVE  Children(p) = {}
<1>1. {} \in SUBSET Pid
  OBVIOUS
<1> QED BY <1>1 DEF AllReached

\* A step that leaves the links alone, puts nobody to sleep, and takes nobody
\* out of do_exit who still has children.
LEMMA QuietFamily ==
  ASSUME IInv, Family, UNCHANGED links,
         \A x \in Proc : pc'[x] = "dead" => pc[x] = "dead" \/ cptr[x] = NULL,
         \A x \in Proc : pc[x] = "exit" => pc'[x] = "exit" \/ cptr[x] = NULL,
         \A p \in Pid : Sleeps(p)' =>
           /\ Sleeps(p) /\ wpid'[p] = wpid[p]
           /\ \A q \in Children(p) : state'[q] = "ZOMBIE" => state[q] = "ZOMBIE"
  PROVE  Family'
<1>1. ListsFit' /\ AllReached' /\ NoCycle'
  BY LinksFrame DEF Family
<1>2. ParentsFit'
  <2>1. \A x \in Proc : pc'[x] = "dead" => pc[x] = "dead" \/ Children(x) = {}
    BY NoChildren DEF Family
  <2>2. Live \subseteq Proc
    BY DEF IInv, TablesAgree, Proc
  <2> QED BY <2>1, <2>2, ParentsFrame DEF Family
<1>3. WaitersFit'
  BY WaitersFrame DEF Family
<1> QED BY <1>1, <1>2, <1>3 DEF Family

\* The steps that change neither a state nor the links: system calls that fail,
\* exec, yield, ticks, reschedules, and the panics.
LEMMA StillFamily ==
  ASSUME IInv, Family,
         \/ UNCHANGED <<links, state, pc, wpid>>
         \/ /\ UNCHANGED <<links, state>>
            /\ \E p \in Pid, from \in {"user", "kmain", "ret", "wait"}, to \in {"user", "ret"} :
                 /\ Goes(p, from, to)
                 /\ wpid' = [wpid EXCEPT ![p] = ANY] \/ UNCHANGED wpid
                 /\ state[p] = "RUNNABLE"
  PROVE  Family'
<1>1. CASE UNCHANGED <<links, state, pc, wpid>>
  BY <1>1, QuietFamily DEF Sleeps
<1>2. ASSUME UNCHANGED <<links, state>>,
             NEW p \in Pid, NEW from \in {"user", "kmain", "ret", "wait"}, NEW to \in {"user", "ret"},
             Goes(p, from, to), state[p] = "RUNNABLE",
             wpid' = [wpid EXCEPT ![p] = ANY] \/ UNCHANGED wpid
      PROVE  Family'
  <2>1. \A x \in Proc : pc'[x] = IF x = p THEN to ELSE pc[x]
    BY <1>2 DEF Goes, IInv, TypeOK, Proc
  <2>2. \A x \in Pid : x # p => wpid'[x] = wpid[x]
    BY <1>2 DEF IInv, TypeOK, Proc
  <2>3. pc[p] # "exit"
    BY <1>2 DEF Goes
  <2>4. \A x \in Pid : Sleeps(x)' => Sleeps(x) /\ wpid'[x] = wpid[x]
    BY <1>2, <2>2 DEF Sleeps
  <2>5. \A x \in Proc : /\ pc'[x] = "dead" => pc[x] = "dead"
                        /\ pc[x] = "exit" => pc'[x] = "exit"
    BY <2>1, <2>3
  <2> QED BY <1>2, <2>4, <2>5, QuietFamily
<1> QED BY <1>1, <1>2

\* What the children of p are, and how do_wait finds them: Candidates.
LEMMA ChainIsChildren ==
  ASSUME IInv, ListsFit, AllReached, NEW p \in Proc
  PROVE  Chain(cptr[p]) = Children(p)
<1>1. Children(p) \in SUBSET Pid
  BY DEF IInv, TablesAgree, Children
<1>2. CASE cptr[p] = NULL
  BY <1>2, NoChildren DEF Chain
<1>3. CASE cptr[p] # NULL
  <2>1. ASSUME NEW q \in Chain(cptr[p]) PROVE q \in Children(p)
    <3>1. cptr[p] \in Children(p)
      BY <1>3 DEF ListsFit
    <3>2. \A r \in Children(p) : optr[r] # NULL => optr[r] \in Children(p)
      BY DEF ListsFit, Children
    <3> QED BY <1>1, <1>3, <2>1, <3>1, <3>2 DEF Chain
  <2>2. ASSUME NEW q \in Children(p), NEW S \in SUBSET Pid, cptr[p] \in S,
               \A r \in S : optr[r] # NULL => optr[r] \in S
        PROVE  q \in S
    BY <2>2 DEF AllReached
  <2>3. Children(p) \subseteq Chain(cptr[p])
    BY <1>1, <1>3, <2>2 DEF Chain
  <2> QED BY <2>1, <2>3
<1> QED BY <1>2, <1>3

LEMMA CandidatesAre ==
  ASSUME IInv, ListsFit, AllReached, NEW p \in Pid, NEW t \in Pid \cup {ANY}
  PROVE  Candidates(p, t) = {q \in Children(p) : t \in {ANY, q}}
<1>1. CASE t = ANY
  BY <1>1, ChainIsChildren DEF Candidates, Proc
<1>2. CASE t # ANY
  BY <1>2 DEF Candidates, Children, IInv, TablesAgree
<1> QED BY <1>1, <1>2

\* do_kill ends a wait and starts none.
LEMMA KillFamily ==
  ASSUME IInv, Family, NEW p \in Pid, Kill(p)
  PROVE  Family'
<1>1. PICK t \in KillTargets \cap hashed : Wakes(t)
  BY DEF Kill
<1>2. /\ UNCHANGED <<wpid, links>> /\ pc[p] = "user" /\ pc' = [pc EXCEPT ![p] = "ret"]
  BY DEF Kill, Goes
<1>3. \A x \in Proc : pc'[x] = IF x = p THEN "ret" ELSE pc[x]
  BY <1>2 DEF IInv, TypeOK, Proc
<1>4. \A x \in Proc : state'[x] \in {state[x], "RUNNABLE"}
  BY <1>1 DEF Wakes, IInv, TypeOK, Proc
<1>5. \A x \in Pid : Sleeps(x)' => Sleeps(x)
  BY <1>4 DEF Sleeps, Proc
<1>6. \A x \in Proc : state'[x] = "ZOMBIE" => state[x] = "ZOMBIE"
  BY <1>4
<1>7. \A x \in Pid : Children(x) \subseteq Proc
  BY DEF IInv, TablesAgree, Children, Proc
<1> QED BY <1>2, <1>3, <1>5, <1>6, <1>7, QuietFamily

\* A process leaves do_exit's loop when it has no children left.
LEMMA ExitSchedulesFamily ==
  ASSUME IInv, Family, NEW p \in Pid, ExitSchedules(p)
  PROVE  Family'
<1>1. /\ UNCHANGED <<state, wpid, links>> /\ pc[p] = "exit" /\ cptr[p] = NULL
      /\ \A x \in Proc : pc'[x] = IF x = p THEN "dead" ELSE pc[x]
  BY DEF ExitSchedules, Goes, ChildrenGiven, IInv, TypeOK, Proc
<1> QED BY <1>1, QuietFamily DEF Sleeps

\* do_wait puts p to sleep when it has a child to wait for that has not exited.
LEMMA WaitSleepsFamily ==
  ASSUME IInv, Family, NEW p \in Pid, WaitSleeps(p)
  PROVE  Family'
<1>1. PICK t \in Pid \cup {ANY} :
        /\ HasChild(p, t) /\ Zombies(Candidates(p, t)) = {}
        /\ state' = [state EXCEPT ![p] = "SLEEPING"]
        /\ pc[p] \in {"user", "loop", "wait"} /\ pc' = [pc EXCEPT ![p] = "wait"]
        /\ wpid' = [wpid EXCEPT ![p] = t]
        /\ current = p
        /\ UNCHANGED links
  BY DEF WaitSleeps, AtRepeat, Runs
<1>2. /\ p \in Proc
      /\ \A x \in Proc : /\ state'[x] = IF x = p THEN "SLEEPING" ELSE state[x]
                         /\ pc'[x] = IF x = p THEN "wait" ELSE pc[x]
                         /\ wpid'[x] = IF x = p THEN t ELSE wpid[x]
  BY <1>1 DEF IInv, TypeOK, Proc
<1>3. ListsFit' /\ AllReached' /\ NoCycle'
  BY <1>1, <1>2, LinksFrame DEF Family
<1>4. ParentsFit'
  <2>1. Live \subseteq Proc
    BY DEF IInv, TablesAgree, Proc
  <2> QED BY <1>1, <1>2, <2>1, ParentsFrame DEF Family
<1>5. WaitersFit'
  <2>1. \A x : Children(x)' = Children(x)
    BY <1>1 DEF links, Children, Live
  <2>2. Children(p) \subseteq Proc /\ p \notin Children(p)
    <3>1. NoCycle /\ p \in Live
      BY <1>1 DEF Family, IInv, TablesAgree, CurrentMayRun
    <3>2. parent[p] # p
      <4>1. {p} \in SUBSET Live /\ {p} # {}
        BY <3>1
      <4> QED BY <3>1, <4>1 DEF NoCycle
    <3> QED BY <3>2 DEF IInv, TablesAgree, Children, Proc
  <2>3. \A q \in Children(p) : t \in {ANY, q} => state[q] # "ZOMBIE"
    BY <1>1, CandidatesAre DEF Zombies, Family
  <2>4. \E q \in Children(p) : t \in {ANY, q}
    BY <1>1, CandidatesAre DEF HasChild, Family
  <2>5. ASSUME NEW x \in Pid, Sleeps(x)'
        PROVE  /\ \E q \in Children(x) : wpid'[x] \in {ANY, q}
               /\ \A q \in Children(x) : wpid'[x] \in {ANY, q} => state'[q] # "ZOMBIE"
    <3>1. CASE x = p
      BY <1>2, <2>2, <2>3, <2>4, <3>1
    <3>2. CASE x # p
      <4>1. x \in Proc /\ Sleeps(x) /\ wpid'[x] = wpid[x]
        BY <1>2, <2>5, <3>2 DEF Sleeps, Proc
      <4>2. \A q \in Children(x) : state'[q] = "ZOMBIE" => state[q] = "ZOMBIE"
        <5>1. Children(x) \subseteq Proc
          BY DEF IInv, TablesAgree, Children, Proc
        <5> QED BY <1>2, <5>1
      <4> QED BY <4>1, <4>2 DEF Family, WaitersFit
    <3> QED BY <3>1, <3>2
  <2> QED BY <2>1, <2>5 DEF WaitersFit
<1> QED BY <1>3, <1>4, <1>5 DEF Family

\* do_exit wakes the parent before it hands the children on: nobody goes on
\* sleeping over the new zombie.
LEMMA DoExitFamily ==
  ASSUME IInv, Family, NEW p \in Pid, current = p,
         pc[p] \notin {"none", "exit", "dead"}, DoExit(p)
  PROVE  Family'
<1>1. CASE p = initproc
  BY <1>1, StillFamily DEF DoExit
<1>2. CASE p # initproc
  <2>1. /\ state' = [x \in Proc |-> CASE x = p -> "ZOMBIE"
                                      [] x = parent[p] /\ wait_state[parent[p]] = "WT_CHILD" -> "RUNNABLE"
                                      [] OTHER -> state[x]]
        /\ pc' = [pc EXCEPT ![p] = "exit"]
        /\ UNCHANGED <<wpid, links>>
    BY <1>2 DEF DoExit
  <2>2. p \in Proc /\ p \in Live /\ parent[p] \in Proc
    BY DEF IInv, TypeOK, CurrentMayRun, TablesAgree, Proc, Family, ParentsFit
  <2>3. \A x \in Proc : pc'[x] = IF x = p THEN "exit" ELSE pc[x]
    BY <2>1 DEF IInv, TypeOK
  <2>4. \A x \in Proc : state'[x] = IF x = p THEN "ZOMBIE"
                                    ELSE IF x = parent[p] /\ Sleeps(x) THEN "RUNNABLE"
                                    ELSE state[x]
    <3>1. wait_state[parent[p]] = "WT_CHILD" <=> Sleeps(parent[p])
      BY <2>2 DEF IInv, WaitStateMeansSleep
    <3>2. ASSUME NEW x \in Proc
          PROVE  state'[x] = IF x = p THEN "ZOMBIE"
                             ELSE IF x = parent[p] /\ wait_state[parent[p]] = "WT_CHILD"
                             THEN "RUNNABLE" ELSE state[x]
      <4>1. wait_state[p] # "WT_CHILD"
        BY <2>2 DEF IInv, CurrentMayRun, WaitStateMeansSleep, Sleeps
      <4> QED BY <2>1, <4>1
    <3> QED BY <3>1, <3>2
  <2>5. \A x \in Pid : Sleeps(x)' => Sleeps(x) /\ x # parent[p] /\ x # p
    BY <2>4 DEF Sleeps, Proc
  <2>6. \A x \in Pid : \A q \in Children(x) : x # parent[p] =>
          (state'[q] = "ZOMBIE" => state[q] = "ZOMBIE")
    BY <2>4 DEF Children, IInv, TablesAgree, Proc
  <2> QED BY <2>1, <2>2, <2>3, <2>5, <2>6, QuietFamily
<1> QED BY <1>1, <1>2

\* do_fork: the child, whose pid was free, becomes its parent's youngest.
LEMMA DoForkFamily ==
  ASSUME IInv, Family, NEW p \in Pid, NEW flag, NEW from, NEW to, NEW child,
         current = p, DoFork(p, flag, from, to, child),
         from \in {"user", "start"}, to \in {"ret", "loop"}, child \in {"user", "kmain"}
  PROVE  Family'
<1>1. PICK q \in FreePids :
         /\ SetLinks(q, p)
         /\ state' = [state EXCEPT ![q] = "RUNNABLE"]
         /\ pc[p] = from
         /\ pc' = [pc EXCEPT ![p] = to, ![q] = child]
  BY DEF DoFork
<1>2. UNCHANGED wpid
  BY DEF DoFork
<1>3. /\ q \in Pid /\ q \notin Live /\ p \in Live /\ q # p
      /\ Live \subseteq Pid /\ Live' = Live \cup {q}
      /\ p \in Proc /\ q \in Proc /\ NULL \notin Proc
  <2>1. proc_list \in Seq(Pid) /\ proc_list' = <<q>> \o proc_list
    BY <1>1 DEF IInv, TypeOK, SetLinks
  <2>2. q \in Pid /\ q \notin Live /\ p \in Live /\ Live \subseteq Pid
    BY <1>1 DEF FreePids, IInv, CurrentMayRun, TablesAgree
  <2>3. Live' = Live \cup {q}
    BY <2>1, <2>2, PushFrontRange DEF Live
  <2> QED BY <2>2, <2>3, ProcAssumption DEF Proc
<1>4. parent[q] = NULL /\ cptr[q] = NULL /\ yptr[q] = NULL /\ optr[q] = NULL
  BY <1>3 DEF Family, ListsFit
<1>5. /\ \A x \in Proc : parent'[x] = IF x = q THEN p ELSE parent[x]
      /\ \A x \in Proc : cptr'[x] = IF x = p THEN q ELSE cptr[x]
      /\ \A x \in Proc : optr'[x] = IF x = q THEN cptr[p] ELSE optr[x]
      /\ \A x \in Proc : yptr'[x] = IF x = cptr[p] THEN q ELSE yptr[x]
  <2>1. \A x \in Proc : parent'[x] = IF x = q THEN p ELSE parent[x]
    BY <1>1 DEF SetLinks, IInv, TypeOK
  <2>2. \A x \in Proc : cptr'[x] = IF x = p THEN q ELSE cptr[x]
    BY <1>1, <1>3, <1>4 DEF SetLinks, IInv, TypeOK
  <2>3. \A x \in Proc : optr'[x] = IF x = q THEN cptr[p] ELSE optr[x]
    BY <1>1 DEF SetLinks, IInv, TypeOK
  <2>4. cptr[p] # q
    BY <1>3 DEF Family, ListsFit, Children
  <2>5. \A x \in Proc : yptr'[x] = IF x = cptr[p] THEN q ELSE yptr[x]
    BY <1>1, <1>4, <2>4 DEF SetLinks
  <2> QED BY <2>1, <2>2, <2>3, <2>5
<1>6. \A x \in Proc : /\ state'[x] = IF x = q THEN "RUNNABLE" ELSE state[x]
                      /\ pc'[x] = IF x = q THEN child ELSE IF x = p THEN to ELSE pc[x]
  BY <1>1, <1>3 DEF IInv, TypeOK
<1>7. /\ \A x \in Live : parent[x] \in Proc /\ parent[x] # q /\ x # q
      /\ \A x \in Live : optr[x] # q
      /\ \A x \in Proc : cptr[x] # q
  BY <1>3, ProcAssumption DEF Family, ParentsFit, ListsFit, Children, Proc
<1>8. \A x \in Proc : Children(x)' = IF x = p THEN Children(p) \cup {q} ELSE Children(x)
  BY <1>3, <1>5 DEF Children, Proc
<1>9. ListsFit'
  <2>1. ASSUME NEW x \in Pid \ Live'
        PROVE  parent'[x] = NULL /\ cptr'[x] = NULL /\ yptr'[x] = NULL /\ optr'[x] = NULL
    <3>1. x \in Pid \ Live /\ x # q /\ x # p /\ x \in Proc
      BY <1>3 DEF Proc
    <3>2. x # cptr[p] \/ cptr[p] = NULL
      BY <1>3, <3>1 DEF Family, ListsFit, Children
    <3>3. parent[x] = NULL /\ cptr[x] = NULL /\ yptr[x] = NULL /\ optr[x] = NULL
      BY <3>1 DEF Family, ListsFit
    <3> QED BY <1>3, <1>5, <3>1, <3>2, <3>3
  <2>2. ASSUME NEW x \in Proc, cptr'[x] # NULL
        PROVE  /\ cptr'[x] \in Children(x)'
               /\ pc'[x] # "exit" => yptr'[cptr'[x]] = NULL
    <3>1. CASE x = p
      BY <1>3, <1>4, <1>5, <1>7, <1>8, <3>1
    <3>2. CASE x # p
      <4>1. /\ cptr'[x] = cptr[x] /\ cptr[x] \in Children(x)
            /\ pc[x] # "exit" => yptr[cptr[x]] = NULL
        BY <1>5, <2>2, <3>2 DEF Family, ListsFit
      <4>2. cptr[x] # cptr[p] /\ cptr[x] \in Proc
        BY <1>3, <3>2, <4>1 DEF Family, ListsFit, Children, Proc
      <4>3. x = q => pc[x] # "exit"
        BY <1>3 DEF IInv, TablesAgree, PlacesFit
      <4> QED BY <1>5, <1>6, <1>8, <3>2, <4>1, <4>2, <4>3
    <3> QED BY <3>1, <3>2
  <2>3. ASSUME NEW y \in Live'
        PROVE  /\ optr'[y] # NULL =>
                    /\ optr'[y] \in Live' /\ parent'[optr'[y]] = parent'[y]
                    /\ optr'[y] # cptr'[parent'[y]]
                    /\ yptr'[optr'[y]] = y
               /\ y # cptr'[parent'[y]] =>
                    /\ yptr'[y] \in Live' /\ parent'[yptr'[y]] = parent'[y]
                    /\ optr'[yptr'[y]] = y
    <3>1. CASE y = q
      <4>1. parent'[y] = p /\ cptr'[p] = q /\ optr'[y] = cptr[p]
        BY <1>3, <1>5, <3>1
      <4>2. cptr[p] # NULL => cptr[p] \in Live /\ parent[cptr[p]] = p /\ cptr[p] \in Proc /\ cptr[p] # q
        BY <1>3, <1>7 DEF Family, ListsFit, Children, Proc
      <4> QED BY <1>3, <1>5, <3>1, <4>1, <4>2
    <3>2. CASE y # q
      <4>1. /\ y \in Live /\ y \in Proc /\ parent'[y] = parent[y] /\ parent[y] \in Proc
            /\ optr'[y] = optr[y]
        BY <1>3, <1>5, <1>7, <3>2 DEF Proc
      <4>2. ASSUME optr[y] # NULL
            PROVE  /\ optr[y] \in Live' /\ parent'[optr[y]] = parent[y]
                   /\ optr[y] # cptr'[parent[y]]
                   /\ yptr'[optr[y]] = y
        <5>1. /\ optr[y] \in Live /\ parent[optr[y]] = parent[y] /\ optr[y] # cptr[parent[y]]
              /\ yptr[optr[y]] = y
          BY <4>1, <4>2 DEF Family, ListsFit, Children
        <5>2. optr[y] \in Proc /\ optr[y] # cptr[p] /\ optr[y] # q
          BY <1>3, <5>1 DEF Family, ListsFit, Children, Proc
        <5> QED BY <1>3, <1>5, <4>1, <5>1, <5>2
      <4>3. ASSUME y # cptr'[parent[y]]
            PROVE  /\ yptr'[y] \in Live' /\ parent'[yptr'[y]] = parent[y]
                   /\ optr'[yptr'[y]] = y
        <5>1. CASE y = cptr[p]
          <6>1. parent[y] = p /\ yptr'[y] = q /\ optr'[q] = cptr[p] /\ parent'[q] = p
            BY <1>3, <1>5, <4>1, <5>1, ProcAssumption DEF Family, ListsFit, Children
          <6> QED BY <1>3, <5>1, <6>1
        <5>2. CASE y # cptr[p]
          <6>1. y # cptr[parent[y]]
            BY <1>5, <4>1, <4>3, <5>2
          <6>2. yptr[y] \in Live /\ parent[yptr[y]] = parent[y] /\ optr[yptr[y]] = y
            BY <4>1, <6>1 DEF Family, ListsFit, Children
          <6>3. yptr[y] \in Proc /\ yptr[y] # q
            BY <1>3, <6>2 DEF Proc
          <6> QED BY <1>3, <1>5, <4>1, <5>2, <6>2, <6>3
        <5> QED BY <5>1, <5>2
      <4> QED BY <4>1, <4>2, <4>3
    <3> QED BY <3>1, <3>2
  <2> QED BY <2>1, <2>2, <2>3 DEF ListsFit, Children
<1>10. AllReached'
  <2> SUFFICES ASSUME NEW x \in Proc, NEW S \in SUBSET Pid,
                      cptr'[x] # NULL => cptr'[x] \in S,
                      \A r \in S : optr'[r] # NULL => optr'[r] \in S
               PROVE  Children(x)' \subseteq S
    BY DEF AllReached
  <2>1. \A r \in S : optr[r] # NULL => optr[r] \in S
    BY <1>4, <1>5 DEF Proc
  <2>2. CASE x = p
    <3>1. q \in S /\ (cptr[p] # NULL => cptr[p] \in S)
      BY <1>3, <1>5, <2>2
    <3>2. Children(p) \subseteq S
      BY <1>3, <2>1, <3>1 DEF Family, AllReached
    <3> QED BY <1>8, <2>2, <3>1, <3>2
  <2>3. CASE x # p
    <3>1. cptr[x] # NULL => cptr[x] \in S
      BY <1>5, <2>3
    <3>2. Children(x) \subseteq S
      BY <2>1, <3>1 DEF Family, AllReached
    <3> QED BY <1>8, <2>3, <3>2
  <2> QED BY <2>2, <2>3
<1>11. ParentsFit'
  BY <1>3, <1>5, <1>6, <1>7 DEF Family, ParentsFit, Proc
<1>12. NoCycle'
  <2> SUFFICES ASSUME NEW S \in SUBSET Live', S # {}
               PROVE  /\ \E x \in S : parent'[x] \notin S
                      /\ \E w \in S : \A x \in S : parent'[x] # w
    BY DEF NoCycle
  <2>1. \A x \in Live : parent'[x] = parent[x]
    BY <1>3, <1>5 DEF Proc
  <2>2. CASE q \notin S
    <3>1. S \in SUBSET Live
      BY <1>3, <2>2
    <3> QED BY <2>1, <3>1 DEF Family, NoCycle
  <2>3. CASE q \in S
    <3>1. \A x \in S : parent'[x] # q
      BY <1>3, <1>5, <1>7 DEF Proc
    <3>2. \E x \in S : parent'[x] \notin S
      <4>1. CASE S \ {q} = {}
        BY <1>3, <1>5, <2>3, <4>1
      <4>2. CASE S \ {q} # {}
        <5>1. S \ {q} \in SUBSET Live
          BY <1>3
        <5>2. PICK x \in S \ {q} : parent[x] \notin S \ {q}
          BY <4>2, <5>1 DEF Family, NoCycle
        <5> QED BY <2>1, <3>1, <5>1, <5>2
      <4> QED BY <4>1, <4>2
    <3> QED BY <2>3, <3>1, <3>2
  <2> QED BY <2>2, <2>3
<1>13. WaitersFit'
  <2> SUFFICES ASSUME NEW x \in Pid, Sleeps(x)'
               PROVE  /\ \E y \in Children(x)' : wpid'[x] \in {ANY, y}
                      /\ \A y \in Children(x)' : wpid'[x] \in {ANY, y} => state'[y] # "ZOMBIE"
    BY DEF WaitersFit
  <2>1. Sleeps(x) /\ x # p /\ x \in Proc /\ wpid'[x] = wpid[x]
    BY <1>2, <1>3, <1>6 DEF Sleeps, IInv, CurrentMayRun, Proc
  <2>2. \A y \in Children(x) : state'[y] = "ZOMBIE" => state[y] = "ZOMBIE"
    BY <1>3, <1>6 DEF Children, Proc
  <2> QED BY <1>8, <2>1, <2>2 DEF Family, WaitersFit
<1> QED BY <1>9, <1>10, <1>11, <1>12, <1>13 DEF Family

\* A turn of do_exit's loop: c leaves the list of p and heads that of initproc.
LEMMA GiveChildFamily ==
  ASSUME IInv, Family, NEW p \in Pid, GiveChild(p)
  PROVE  Family'
<1> DEFINE c == cptr[p]
           d == optr[c]
           h == cptr[initproc]
<1>1. /\ current = p /\ pc[p] = "exit" /\ c # NULL
      /\ parent' = [parent EXCEPT ![c] = initproc]
      /\ cptr' = [cptr EXCEPT ![p] = d, ![initproc] = c]
      /\ optr' = [optr EXCEPT ![c] = h]
      /\ yptr' = [x \in Proc |-> CASE x = c -> NULL
                                   [] x = h -> c
                                   [] OTHER -> yptr[x]]
      /\ UNCHANGED <<proc_list, pc, wpid>>
  BY DEF GiveChild, Runs
<1>2. /\ Live' = Live /\ Live \subseteq Pid /\ p \in Live /\ initproc \in Live
      /\ p # initproc /\ parent[initproc] = idleproc /\ idleproc \notin Pid
      /\ \A x \in Live : x \in Proc
      /\ p \in Proc /\ initproc \in Proc /\ NULL \notin Proc
  BY <1>1, ProcAssumption
     DEF Live, IInv, TablesAgree, PlacesFit, Family, ParentsFit, Proc
<1>3. /\ c \in Live /\ parent[c] = p /\ c # initproc
      /\ d # NULL => d \in Live /\ parent[d] = p /\ d # c /\ yptr[d] = c
      /\ h # NULL => h \in Live /\ parent[h] = initproc /\ h # c
  BY <1>1, <1>2 DEF Family, ListsFit, Children
<1>4. ASSUME NEW x \in Proc
      PROVE  /\ parent'[x] = IF x = c THEN initproc ELSE parent[x]
             /\ cptr'[x] = IF x = p THEN d ELSE IF x = initproc THEN c ELSE cptr[x]
             /\ optr'[x] = IF x = c THEN h ELSE optr[x]
             /\ yptr'[x] = IF x = c THEN NULL ELSE IF x = h THEN c ELSE yptr[x]
             /\ pc'[x] = pc[x]
  <2>1. parent'[x] = IF x = c THEN initproc ELSE parent[x]
    BY <1>1 DEF IInv, TypeOK
  <2>2. cptr'[x] = IF x = p THEN d ELSE IF x = initproc THEN c ELSE cptr[x]
    BY <1>1, <1>2 DEF IInv, TypeOK
  <2>3. optr'[x] = IF x = c THEN h ELSE optr[x]
    BY <1>1 DEF IInv, TypeOK
  <2>4. yptr'[x] = IF x = c THEN NULL ELSE IF x = h THEN c ELSE yptr[x]
    <3>1. c # h
      BY <1>1, <1>3
    <3> HIDE DEF c, h
    <3> QED BY <1>1, <3>1
  <2> QED BY <1>1, <2>1, <2>2, <2>3, <2>4
<1>5. \A x \in Live : optr[x] # c
  BY <1>1, <1>3 DEF Family, ListsFit, Children
<1> HIDE DEF c, d, h
<1>6. \A x \in Proc : Children(x)' = IF x = p THEN Children(p) \ {c}
                                     ELSE IF x = initproc THEN Children(initproc) \cup {c}
                                     ELSE Children(x)
  <2>1. \A x \in Live : parent'[x] = IF x = c THEN initproc ELSE parent[x]
    BY <1>2, <1>4
  <2> QED BY <1>2, <1>3, <2>1 DEF Children
<1>7. c = cptr[p] /\ d = optr[c] /\ h = cptr[initproc]
  BY DEF c, d, h
<1>8. cptr'[initproc] = c /\ c # NULL
  BY <1>1, <1>2, <1>4
<1>9. ListsFit'
  <2>1. ASSUME NEW x \in Pid \ Live'
        PROVE  parent'[x] = NULL /\ cptr'[x] = NULL /\ yptr'[x] = NULL /\ optr'[x] = NULL
    <3>1. x \in Pid \ Live /\ x # c /\ x # p /\ x # initproc /\ x # h /\ x \in Proc
      BY <1>2, <1>3 DEF Proc
    <3>2. parent[x] = NULL /\ cptr[x] = NULL /\ yptr[x] = NULL /\ optr[x] = NULL
      BY <3>1 DEF Family, ListsFit
    <3> QED BY <1>4, <3>1, <3>2
  <2>2. ASSUME NEW x \in Proc, cptr'[x] # NULL
        PROVE  /\ cptr'[x] \in Children(x)'
               /\ pc'[x] # "exit" => yptr'[cptr'[x]] = NULL
    <3>1. CASE x = p
      <4>1. cptr'[x] = d /\ pc'[x] = "exit"
        BY <1>1, <1>4, <3>1
      <4>2. d \in Children(p) \ {c}
        BY <1>3, <2>2, <4>1 DEF Children
      <4> QED BY <1>6, <3>1, <4>1, <4>2
    <3>2. CASE x = initproc
      BY <1>2, <1>3, <1>4, <1>6, <3>2
    <3>3. CASE x # p /\ x # initproc
      <4>1. /\ cptr'[x] = cptr[x] /\ cptr[x] \in Children(x)
            /\ pc[x] # "exit" => yptr[cptr[x]] = NULL
        BY <1>4, <2>2, <3>3 DEF Family, ListsFit
      <4>2. cptr[x] # c /\ cptr[x] # h /\ cptr[x] \in Proc
        BY <1>2, <1>3, <3>3, <4>1 DEF Children
      <4> QED BY <1>4, <1>6, <3>3, <4>1, <4>2
    <3> QED BY <3>1, <3>2, <3>3
  <2>3. ASSUME NEW y \in Live'
        PROVE  /\ optr'[y] # NULL =>
                    /\ optr'[y] \in Live' /\ parent'[optr'[y]] = parent'[y]
                    /\ optr'[y] # cptr'[parent'[y]]
                    /\ yptr'[optr'[y]] = y
               /\ y # cptr'[parent'[y]] =>
                    /\ yptr'[y] \in Live' /\ parent'[yptr'[y]] = parent'[y]
                    /\ optr'[yptr'[y]] = y
    <3>1. CASE y = c
      <4>1. parent'[y] = initproc /\ cptr'[initproc] = c /\ optr'[y] = h
        BY <1>2, <1>3, <1>4, <3>1
      <4> QED BY <1>2, <1>3, <1>4, <3>1, <4>1
    <3>2. CASE y # c
      <4>1. /\ y \in Live /\ y \in Proc /\ parent'[y] = parent[y] /\ optr'[y] = optr[y]
            /\ parent[y] \in Proc
        BY <1>2, <1>4, <3>2 DEF IInv, TypeOK, Family, ParentsFit, Proc
      <4>2. ASSUME optr[y] # NULL
            PROVE  /\ optr[y] \in Live' /\ parent'[optr[y]] = parent[y]
                   /\ optr[y] # cptr'[parent[y]]
                   /\ yptr'[optr[y]] = y
        <5>1. /\ optr[y] \in Live /\ parent[optr[y]] = parent[y] /\ optr[y] # cptr[parent[y]]
              /\ yptr[optr[y]] = y
          BY <4>1, <4>2 DEF Family, ListsFit, Children
        <5>2. optr[y] \in Proc /\ optr[y] # c /\ optr[y] # h
          BY <1>2, <1>3, <1>5, <1>7, <4>1, <5>1
        <5>3. optr[y] # cptr'[parent[y]]
          <6>1. CASE parent[y] = p
            BY <1>2, <1>3, <1>4, <3>2, <4>2, <5>1, <6>1
          <6>2. CASE parent[y] # p
            BY <1>4, <4>1, <5>1, <5>2, <6>2
          <6> QED BY <6>1, <6>2
        <5> QED BY <1>2, <1>4, <4>1, <5>1, <5>2, <5>3
      <4>3. ASSUME y # cptr'[parent[y]]
            PROVE  /\ yptr'[y] \in Live' /\ parent'[yptr'[y]] = parent[y]
                   /\ optr'[yptr'[y]] = y
        <5>1. CASE y = h
          <6>1. parent[y] = initproc /\ yptr'[y] = c /\ optr'[c] = h /\ parent'[c] = initproc
            BY <1>2, <1>3, <1>4, <3>2, <4>1, <5>1
          <6> QED BY <1>2, <1>3, <5>1, <6>1
        <5>2. CASE y # h
          <6>1. y # cptr[parent[y]]
            BY <1>4, <1>7, <3>2, <4>1, <4>3, <5>2
          <6>2. yptr[y] \in Live /\ parent[yptr[y]] = parent[y] /\ optr[yptr[y]] = y
            BY <4>1, <6>1 DEF Family, ListsFit, Children
          <6>3. yptr[y] # c
            BY <1>2, <1>3, <1>4, <1>7, <4>3, <6>2
          <6> QED BY <1>2, <1>4, <3>2, <4>1, <5>2, <6>2, <6>3
        <5> QED BY <5>1, <5>2
      <4> QED BY <4>1, <4>2, <4>3
    <3> QED BY <3>1, <3>2
  <2> QED BY <2>1, <2>2, <2>3 DEF ListsFit, Children
<1>10. AllReached'
  <2> SUFFICES ASSUME NEW x \in Proc, NEW S \in SUBSET Pid,
                      cptr'[x] # NULL => cptr'[x] \in S,
                      \A r \in S : optr'[r] # NULL => optr'[r] \in S
               PROVE  Children(x)' \subseteq S
    BY DEF AllReached
  <2>1. \A r \in Pid : r # c => optr[r] = optr'[r] /\ optr[r] # c
    <3>1. \A r \in Pid \ Live : optr[r] = NULL
      BY DEF Family, ListsFit
    <3>2. c # NULL
      BY <1>1
    <3> QED BY <1>4, <1>5, <3>1, <3>2 DEF Proc
  <2>2. CASE x = p
    <3>1. S \cup {c} \in SUBSET Pid /\ cptr[x] \in S \cup {c}
      BY <1>2, <1>3, <1>7, <2>2
    <3>2. \A r \in S \cup {c} : optr[r] # NULL => optr[r] \in S \cup {c}
      BY <1>2, <1>4, <1>7, <2>1, <2>2
    <3>3. Children(x) \subseteq S \cup {c}
      BY <3>1, <3>2 DEF Family, AllReached
    <3> QED BY <1>6, <2>2, <3>3
  <2>3. CASE x # p
    <3>1. S \ {c} \in SUBSET Pid
      OBVIOUS
    <3>2. cptr[x] # NULL => cptr[x] \in S \ {c}
      <4>1. CASE x = initproc
        <5>1. c \in S
          BY <1>8, <4>1
        <5>2. optr'[c] = h
          BY <1>2, <1>3, <1>4
        <5> QED BY <1>3, <1>7, <4>1, <5>1, <5>2
      <4>2. CASE x # initproc
        BY <1>3, <1>4, <2>3, <4>2 DEF Family, ListsFit, Children
      <4> QED BY <4>1, <4>2
    <3>3. \A r \in S \ {c} : optr[r] # NULL => optr[r] \in S \ {c}
      BY <2>1
    <3>4. Children(x) \subseteq S \ {c}
      BY <3>1, <3>2, <3>3 DEF Family, AllReached
    <3>5. x = initproc => c \in S
      BY <1>8
    <3> QED BY <1>6, <2>3, <3>4, <3>5
  <2> QED BY <2>2, <2>3
<1>11. ParentsFit'
  <2>1. /\ initproc \in Live' /\ parent'[initproc] = idleproc
    BY <1>2, <1>3, <1>4
  <2>2. ASSUME NEW x \in Live' \ {initproc}
        PROVE  parent'[x] \in Live' /\ pc'[parent'[x]] # "dead"
    <3>1. CASE x = c
      BY <1>1, <1>2, <1>4, <3>1 DEF IInv, PlacesFit
    <3>2. CASE x # c
      BY <1>1, <1>2, <1>4, <3>2 DEF Family, ParentsFit
    <3> QED BY <3>1, <3>2
  <2> QED BY <2>1, <2>2 DEF ParentsFit
<1>12. NoCycle'
  <2> SUFFICES ASSUME NEW S \in SUBSET Live', S # {}
               PROVE  /\ \E x \in S : parent'[x] \notin S
                      /\ \E w \in S : \A x \in S : parent'[x] # w
    BY DEF NoCycle
  <2>1. \A x \in Live : parent'[x] = IF x = c THEN initproc ELSE parent[x]
    BY <1>2, <1>4
  <2>2. S \in SUBSET Live /\ parent[initproc] \notin S
    BY <1>2
  <2>3. \E x \in S : parent'[x] \notin S
    <3>1. PICK x \in S : parent[x] \notin S
      BY <2>2 DEF Family, NoCycle
    <3> QED BY <1>2, <1>3, <2>1, <2>2, <3>1
  <2>4. \E w \in S : \A x \in S : parent'[x] # w
    <3>1. CASE c \in S /\ initproc \in S
      <4>1. S \ {initproc} \in SUBSET Live /\ S \ {initproc} # {}
        BY <1>3, <2>2, <3>1
      <4>2. PICK w \in S \ {initproc} : \A x \in S \ {initproc} : parent[x] # w
        BY <4>1 DEF Family, NoCycle
      <4> QED BY <1>2, <1>3, <2>1, <2>2, <4>2
    <3>2. CASE ~ (c \in S /\ initproc \in S)
      <4>1. PICK w \in S : \A x \in S : parent[x] # w
        BY <2>2 DEF Family, NoCycle
      <4> QED BY <2>1, <2>2, <3>2, <4>1
    <3> QED BY <3>1, <3>2
  <2> QED BY <2>3, <2>4
<1>13. WaitersFit'
  <2> SUFFICES ASSUME NEW x \in Pid, Sleeps(x)'
               PROVE  /\ \E y \in Children(x)' : wpid'[x] \in {ANY, y}
                      /\ \A y \in Children(x)' : wpid'[x] \in {ANY, y} => state'[y] # "ZOMBIE"
    BY DEF WaitersFit
  <2>1. /\ \A y \in Proc : state'[y] = state[y] \/ (y = initproc /\ state'[y] = "RUNNABLE")
        /\ state[c] = "ZOMBIE" => state'[initproc] # "SLEEPING"
    <3>1. WakesInit(c)
      BY DEF GiveChild, c
    <3>2. /\ \E T : state \in [Proc -> T]
          /\ wait_state[initproc] = "WT_CHILD" <=> state[initproc] = "SLEEPING"
      BY <1>2 DEF IInv, TypeOK, WaitStateMeansSleep, Sleeps
    <3>3. CASE state[c] = "ZOMBIE"
      <4>1. state' = [state EXCEPT ![initproc] = IF wait_state[initproc] = "WT_CHILD"
                                                 THEN "RUNNABLE" ELSE @]
        BY <3>1, <3>3 DEF WakesInit, Wakes
      <4> QED BY <1>2, <3>2, <4>1
    <3>4. CASE state[c] # "ZOMBIE"
      BY <3>1, <3>4 DEF WakesInit
    <3> QED BY <3>3, <3>4
  <2>2. Sleeps(x) /\ x # p /\ x \in Proc /\ wpid'[x] = wpid[x]
    BY <1>1, <1>2, <2>1 DEF Sleeps, IInv, CurrentMayRun, Proc
  <2>3. \A y \in Children(x) \cup {c} : state'[y] = "ZOMBIE" => state[y] = "ZOMBIE"
    BY <1>2, <1>3, <2>1 DEF Children
  <2>4. /\ \E y \in Children(x) : wpid[x] \in {ANY, y}
        /\ \A y \in Children(x) : wpid[x] \in {ANY, y} => state'[y] # "ZOMBIE"
    BY <2>2, <2>3 DEF Family, WaitersFit
  <2>5. CASE x = initproc
    <3>1. state'[c] # "ZOMBIE"
      BY <2>1, <2>3, <2>5 DEF Sleeps
    <3> QED BY <1>6, <2>2, <2>4, <2>5, <3>1
  <2>6. CASE x # initproc
    BY <1>6, <2>2, <2>4, <2>6
  <2> QED BY <2>5, <2>6
<1> QED BY <1>9, <1>10, <1>11, <1>12, <1>13 DEF Family

\* What do_wait reaps: a child of its caller that do_exit has left for good.
LEMMA ReapedIs ==
  ASSUME IInv, Family, NEW p \in Pid, NEW t \in Pid \cup {ANY}, AtRepeat(p, t),
         NEW q \in Zombies(Candidates(p, t))
  PROVE  /\ current = p /\ p \in Live /\ pc[p] \notin {"exit", "dead"}
         /\ q \in Live /\ q # p /\ q # initproc /\ parent[q] = p
         /\ state[q] = "ZOMBIE" /\ pc[q] = "dead"
         /\ Children(q) = {} /\ cptr[q] = NULL
<1>1. /\ current = p /\ p \in Live /\ state[p] = "RUNNABLE" /\ pc[p] \notin {"exit", "dead"}
  BY DEF AtRepeat, Runs, IInv, CurrentMayRun, TablesAgree
<1>2. q \in Live /\ parent[q] = p /\ state[q] = "ZOMBIE" /\ q \in Pid
  BY CandidatesAre DEF Zombies, Children, Family, IInv, TablesAgree
<1>3. q # p /\ pc[q] = "dead" /\ q # initproc
  BY <1>1, <1>2 DEF IInv, PlacesFit
<1>4. Children(q) = {}
  BY <1>2, <1>3, ProcAssumption DEF Family, ParentsFit, Children
<1>5. cptr[q] = NULL
  BY <1>2, <1>4 DEF Family, ListsFit, Proc
<1> QED BY <1>1, <1>2, <1>3, <1>4, <1>5

\* A process is not its own sibling.
LEMMA NoSelfLink ==
  ASSUME IInv, Family, NEW q \in Live
  PROVE  optr[q] # q
<1> SUFFICES ASSUME optr[q] = q PROVE FALSE
  OBVIOUS
<1>1. /\ q \in Pid /\ q # NULL /\ parent[q] \in Proc /\ q # cptr[parent[q]]
      /\ q \in Children(parent[q])
  BY ProcAssumption
     DEF IInv, TablesAgree, Family, ListsFit, ParentsFit, Children, Proc
<1>2. \A r \in Pid : optr[r] = q => r = q
  <2>1. \A r \in Live : optr[r] = q => yptr[q] = r
    BY <1>1 DEF Family, ListsFit
  <2>2. \A r \in Pid \ Live : optr[r] # q
    BY <1>1 DEF Family, ListsFit
  <2> QED BY <2>1, <2>2
<1>3. \A r \in Pid : optr[r] # NULL => optr[r] \in Pid
  BY DEF IInv, TypeOK, Proc
<1>4. cptr[parent[q]] # NULL => cptr[parent[q]] \in Pid \ {q}
  BY <1>1 DEF IInv, TypeOK
<1>5. \A r \in Pid \ {q} : optr[r] # NULL => optr[r] \in Pid \ {q}
  BY <1>2, <1>3
<1>6. Pid \ {q} \in SUBSET Pid
  OBVIOUS
<1>7. Children(parent[q]) \subseteq Pid \ {q}
  BY <1>1, <1>4, <1>5, <1>6 DEF Family, AllReached
<1> QED BY <1>1, <1>7

\* remove_links in do_wait: the zombie q leaves the list of its parent p, whose
\* other children stay linked in their order.
LEMMA WaitReapsFamily ==
  ASSUME IInv, IInv', Family, NEW p \in Pid, WaitReaps(p)
  PROVE  Family'
<1>0. PICK t \in Pid \cup {ANY} :
        /\ AtRepeat(p, t)
        /\ \E q \in Zombies(Candidates(p, t)) :
             /\ RemoveLinks(q)
             /\ state' = [state EXCEPT ![q] = "UNUSED"]
             /\ pc' = [pc EXCEPT ![q] = "none",
                                 ![p] = IF p = initproc THEN "loop" ELSE "ret"]
             /\ wpid' = [wpid EXCEPT ![q] = ANY, ![p] = ANY]
  BY DEF WaitReaps
<1>1. PICK q \in Zombies(Candidates(p, t)) :
        /\ RemoveLinks(q)
        /\ state' = [state EXCEPT ![q] = "UNUSED"]
        /\ pc' = [pc EXCEPT ![q] = "none",
                            ![p] = IF p = initproc THEN "loop" ELSE "ret"]
        /\ wpid' = [wpid EXCEPT ![q] = ANY, ![p] = ANY]
  BY <1>0
<1> DEFINE y == yptr[q]
           e == optr[q]
<1>2. /\ current = p /\ p \in Live /\ pc[p] \notin {"exit", "dead"}
      /\ q \in Live /\ q # p /\ q # initproc /\ parent[q] = p
      /\ state[q] = "ZOMBIE" /\ pc[q] = "dead"
      /\ Children(q) = {} /\ cptr[q] = NULL
  BY <1>0, ReapedIs
<1>3. /\ Live' = Live \ {q} /\ Live \subseteq Pid
      /\ \A x \in Live : x \in Proc
      /\ p \in Proc /\ NULL \notin Proc /\ idleproc \notin Pid
      /\ \A x \in Proc : pc[x] # "exit"
  <2>1. Live' = {x \in Pid : state'[x] # "UNUSED"} /\ Live = {x \in Pid : state[x] # "UNUSED"}
    BY DEF IInv, TablesAgree
  <2>2. \A x \in Pid : state'[x] = IF x = q THEN "UNUSED" ELSE state[x]
    BY <1>1 DEF IInv, TypeOK, Proc
  <2>3. \A x \in Proc : pc[x] # "exit"
    BY <1>2 DEF IInv, PlacesFit, Proc
  <2> QED BY <1>2, <2>1, <2>2, <2>3, ProcAssumption DEF Proc
<1>4. /\ e # NULL => /\ e \in Live /\ parent[e] = p /\ e # q /\ yptr[e] = q
                    /\ e # cptr[p]
      /\ y # NULL => /\ y \in Live /\ parent[y] = p /\ y # q /\ optr[y] = q
                    /\ q # cptr[p]
      /\ y = NULL => q = cptr[p]
  <2>1. e # NULL => e \in Live /\ parent[e] = p /\ e # q /\ yptr[e] = q /\ e # cptr[p]
    BY <1>2, NoSelfLink DEF Family, ListsFit, Children
  <2>2. q = cptr[p] => y = NULL
    BY <1>2, <1>3 DEF Family, ListsFit
  <2>3. q # cptr[p] => y \in Live /\ parent[y] = p /\ optr[y] = q
    BY <1>2 DEF Family, ListsFit, Children
  <2>4. y \in Live => y # NULL
    BY <1>3
  <2>5. optr[q] # q
    BY <1>2, NoSelfLink
  <2> QED BY <2>1, <2>2, <2>3, <2>4, <2>5
<1>5. ASSUME NEW x \in Proc
      PROVE  /\ parent'[x] = IF x = q THEN NULL ELSE parent[x]
             /\ cptr'[x] = IF y = NULL /\ x = p THEN e ELSE cptr[x]
             /\ optr'[x] = IF x = q THEN NULL ELSE IF x = y THEN e ELSE optr[x]
             /\ yptr'[x] = IF x = q THEN NULL ELSE IF x = e THEN y ELSE yptr[x]
             /\ pc'[x] = IF x = p THEN IF p = initproc THEN "loop" ELSE "ret"
                         ELSE IF x = q THEN "none" ELSE pc[x]
             /\ state'[x] = IF x = q THEN "UNUSED" ELSE state[x]
  <2>1. parent'[x] = IF x = q THEN NULL ELSE parent[x]
    <3>1. parent' = [parent EXCEPT ![q] = NULL]
      BY <1>1 DEF RemoveLinks
    <3>2. parent \in [Proc -> Proc \cup {NULL}]
      BY DEF IInv, TypeOK
    <3> QED BY ONLY <3>1, <3>2, x \in Proc
  <2>2. cptr'[x] = IF y = NULL /\ x = p THEN e ELSE cptr[x]
    <3>1. cptr \in [Proc -> Pid \cup {NULL}]
      BY DEF IInv, TypeOK
    <3>2. cptr' = IF y = NULL THEN [cptr EXCEPT ![p] = e] ELSE cptr
      BY <1>1, <1>2 DEF RemoveLinks
    <3> QED BY <3>1, <3>2
  <2>3. optr'[x] = IF x = q THEN NULL ELSE IF x = y THEN e ELSE optr[x]
    <3>1. y # q
      BY <1>3, <1>4, <1>2
    <3> QED BY <1>1, <3>1 DEF RemoveLinks
  <2>4. yptr'[x] = IF x = q THEN NULL ELSE IF x = e THEN y ELSE yptr[x]
    <3>1. e # q
      BY <1>2, NoSelfLink
    <3> QED BY <1>1, <3>1 DEF RemoveLinks, YptrWithout
  <2>5. pc'[x] = IF x = p THEN IF p = initproc THEN "loop" ELSE "ret"
                 ELSE IF x = q THEN "none" ELSE pc[x]
    <3>1. \E T : pc \in [Proc -> T]
      BY DEF IInv, TypeOK
    <3> QED BY <1>1, <1>2, <3>1
  <2>6. state'[x] = IF x = q THEN "UNUSED" ELSE state[x]
    <3>1. \E T : state \in [Proc -> T]
      BY DEF IInv, TypeOK
    <3> QED BY <1>1, <3>1
  <2> QED BY <2>1, <2>2, <2>3, <2>4, <2>5, <2>6
<1>6. y = yptr[q] /\ e = optr[q]
  OBVIOUS
<1> HIDE DEF y, e
<1>7. \A x \in Proc : Children(x)' = Children(x) \ {q}
  BY <1>2, <1>3, <1>5 DEF Children
<1>8. \A r \in Pid : optr[r] = q => r = y
  <2>1. \A r \in Live : optr[r] = q => yptr[q] = r
    BY <1>2, <1>3 DEF Family, ListsFit
  <2>2. \A r \in Pid \ Live : optr[r] # q
    BY <1>2, <1>3 DEF Family, ListsFit
  <2> QED BY <1>6, <2>1, <2>2
<1>9. ListsFit'
  <2>1. ASSUME NEW x \in Pid \ Live'
        PROVE  parent'[x] = NULL /\ cptr'[x] = NULL /\ yptr'[x] = NULL /\ optr'[x] = NULL
    <3>1. x \in Proc /\ x # p
      BY <1>2, <1>3 DEF Proc
    <3>2. CASE x = q
      BY <1>2, <1>5, <3>1, <3>2
    <3>3. CASE x # q
      <4>1. x \in Pid \ Live /\ x # y /\ x # e
        BY <1>3, <1>4, <3>1, <3>3
      <4>2. parent[x] = NULL /\ cptr[x] = NULL /\ yptr[x] = NULL /\ optr[x] = NULL
        BY <4>1 DEF Family, ListsFit
      <4> QED BY <1>5, <3>1, <3>3, <4>1, <4>2
    <3> QED BY <3>2, <3>3
  <2>2. ASSUME NEW x \in Proc, cptr'[x] # NULL
        PROVE  /\ cptr'[x] \in Children(x)'
               /\ pc'[x] # "exit" => yptr'[cptr'[x]] = NULL
    <3>1. CASE x = p /\ y = NULL
      <4>1. cptr'[x] = e /\ e \in Children(p) \ {q} /\ e \in Proc
        BY <1>3, <1>4, <1>5, <2>2, <3>1 DEF Children
      <4> QED BY <1>4, <1>5, <1>7, <3>1, <4>1
    <3>2. CASE ~ (x = p /\ y = NULL)
      <4>1. cptr'[x] = cptr[x] /\ cptr[x] \in Children(x) /\ yptr[cptr[x]] = NULL
        BY <1>3, <1>5, <2>2, <3>2 DEF Family, ListsFit
      <4>2. cptr[x] # q /\ cptr[x] # e /\ cptr[x] \in Proc
        BY <1>2, <1>3, <1>4, <2>2, <3>2, <4>1 DEF Children
      <4> QED BY <1>5, <1>7, <4>1, <4>2
    <3> QED BY <3>1, <3>2
  <2>3. ASSUME NEW x \in Live'
        PROVE  /\ optr'[x] # NULL =>
                    /\ optr'[x] \in Live' /\ parent'[optr'[x]] = parent'[x]
                    /\ optr'[x] # cptr'[parent'[x]]
                    /\ yptr'[optr'[x]] = x
               /\ x # cptr'[parent'[x]] =>
                    /\ yptr'[x] \in Live' /\ parent'[yptr'[x]] = parent'[x]
                    /\ optr'[yptr'[x]] = x
    <3>1. /\ x \in Live /\ x \in Proc /\ x # q /\ parent'[x] = parent[x]
          /\ parent[x] \in Proc
      BY <1>3, <1>5 DEF IInv, TypeOK, Family, ParentsFit, Proc
    <3>2. ASSUME optr'[x] # NULL
          PROVE  /\ optr'[x] \in Live' /\ parent'[optr'[x]] = parent[x]
                 /\ optr'[x] # cptr'[parent[x]]
                 /\ yptr'[optr'[x]] = x
      <4>1. CASE x = y
        <5>1. optr'[x] = e /\ e \in Live /\ e \in Proc /\ y # NULL
          BY <1>3, <1>4, <1>5, <3>1, <3>2, <4>1
        <5> QED BY <1>3, <1>4, <1>5, <3>1, <4>1, <5>1
      <4>2. CASE x # y
        <5>1. optr'[x] = optr[x]
          BY <1>5, <3>1, <4>2
        <5>2. /\ optr[x] \in Live /\ parent[optr[x]] = parent[x]
              /\ optr[x] # cptr[parent[x]] /\ yptr[optr[x]] = x
          BY <3>1, <3>2, <5>1 DEF Family, ListsFit, Children
        <5>3. optr[x] # q /\ optr[x] # e /\ optr[x] \in Proc
          BY <1>3, <1>4, <1>6, <3>1, <4>2, <5>2
        <5> QED BY <1>3, <1>5, <3>1, <5>1, <5>2, <5>3
      <4> QED BY <4>1, <4>2
    <3>3. ASSUME x # cptr'[parent[x]]
          PROVE  /\ yptr'[x] \in Live' /\ parent'[yptr'[x]] = parent[x]
                 /\ optr'[yptr'[x]] = x
      <4>1. CASE x = e
        <5>1. parent[x] = p /\ y # NULL /\ yptr'[x] = y
          BY <1>3, <1>4, <1>5, <3>1, <3>3, <4>1
        <5> QED BY <1>3, <1>4, <1>5, <4>1, <5>1
      <4>2. CASE x # e
        <5>1. x # cptr[parent[x]]
          BY <1>4, <1>5, <3>1, <3>3, <4>2
        <5>2. yptr[x] \in Live /\ parent[yptr[x]] = parent[x] /\ optr[yptr[x]] = x
          BY <3>1, <5>1 DEF Family, ListsFit, Children
        <5>3. /\ yptr[x] # q /\ yptr[x] \in Proc
              /\ yptr[x] # y
          BY <1>3, <1>4, <1>6, <3>1, <4>2, <5>2
        <5> QED BY <1>3, <1>5, <3>1, <4>2, <5>2, <5>3
      <4> QED BY <4>1, <4>2
    <3> QED BY <3>1, <3>2, <3>3
  <2> QED BY <2>1, <2>2, <2>3 DEF ListsFit, Children
<1>10. AllReached'
  <2> SUFFICES ASSUME NEW x \in Proc, NEW S \in SUBSET Pid,
                      cptr'[x] # NULL => cptr'[x] \in S,
                      \A r \in S : optr'[r] # NULL => optr'[r] \in S
               PROVE  Children(x)' \subseteq S
    BY DEF AllReached
  <2>1. \A r \in Pid : r # q /\ r # y => optr[r] = optr'[r] /\ optr[r] # q
    BY <1>5, <1>8 DEF Proc
  <2>2. y # NULL => optr[y] = q /\ optr'[y] = e
    BY <1>3, <1>4, <1>5
  <2>3. y = NULL => cptr[p] = q /\ cptr'[p] = e
    BY <1>3, <1>4, <1>5
  <2>4. x # p => cptr[x] # q
    BY <1>2, <1>3 DEF Family, ListsFit, Children
  <2>5. ~ (y = NULL /\ x = p) => cptr'[x] = cptr[x]
    BY <1>5
  <2>6. q \in Pid /\ (y # NULL => y \in Pid /\ q # cptr[p]) /\ NULL \notin Pid
    BY <1>2, <1>3, <1>4, ProcAssumption
  <2>7. CASE y \in S \/ (y = NULL /\ x = p)
    <3>1. S \cup {q} \in SUBSET Pid
      BY <2>6
    <3>2. cptr[x] # NULL => cptr[x] \in S \cup {q}
      BY <2>3, <2>5
    <3>3. e # NULL => e \in S
      BY <2>2, <2>3, <2>6, <2>7
    <3>4. \A r \in S \cup {q} : optr[r] # NULL => optr[r] \in S \cup {q}
      BY <1>6, <2>1, <2>2, <2>6, <3>3
    <3>5. Children(x) \subseteq S \cup {q}
      BY <3>1, <3>2, <3>4 DEF Family, AllReached
    <3> QED BY <1>7, <3>5
  <2>8. CASE ~ (y \in S \/ (y = NULL /\ x = p))
    <3>1. S \ {q} \in SUBSET Pid
      OBVIOUS
    <3>2. cptr[x] # NULL => cptr[x] \in S \ {q}
      BY <2>4, <2>5, <2>6, <2>8
    <3>3. \A r \in S \ {q} : optr[r] # NULL => optr[r] \in S \ {q}
      BY <2>1, <2>8
    <3>4. Children(x) \subseteq S \ {q}
      BY <3>1, <3>2, <3>3 DEF Family, AllReached
    <3> QED BY <1>7, <3>4
  <2> QED BY <2>7, <2>8
<1>11. ParentsFit'
  <2>1. initproc \in Live' /\ parent'[initproc] = idleproc
    BY <1>2, <1>3, <1>5 DEF Family, ParentsFit
  <2>2. ASSUME NEW x \in Live' \ {initproc}
        PROVE  parent'[x] \in Live' /\ pc'[parent'[x]] # "dead"
    <3>1. x \in Live /\ x # q /\ parent'[x] = parent[x] /\ parent[x] # q
      BY <1>2, <1>3, <1>5 DEF Children
    <3>2. parent[x] \in Live /\ pc[parent[x]] # "dead"
      BY <2>2, <3>1 DEF Family, ParentsFit
    <3> QED BY <1>3, <1>5, <3>1, <3>2
  <2> QED BY <2>1, <2>2 DEF ParentsFit
<1>12. NoCycle'
  <2> SUFFICES ASSUME NEW S \in SUBSET Live', S # {}
               PROVE  /\ \E x \in S : parent'[x] \notin S
                      /\ \E w \in S : \A x \in S : parent'[x] # w
    BY DEF NoCycle
  <2>1. S \in SUBSET Live /\ \A x \in S : parent'[x] = parent[x]
    BY <1>3, <1>5
  <2> QED BY <2>1 DEF Family, NoCycle
<1>13. WaitersFit'
  <2> SUFFICES ASSUME NEW x \in Pid, Sleeps(x)'
               PROVE  /\ \E z \in Children(x)' : wpid'[x] \in {ANY, z}
                      /\ \A z \in Children(x)' : wpid'[x] \in {ANY, z} => state'[z] # "ZOMBIE"
    BY DEF WaitersFit
  <2>1. x \in Proc /\ x # q /\ Sleeps(x)
    BY <1>5 DEF Sleeps, Proc
  <2>2. x # p
    BY <1>2, <2>1 DEF Sleeps, IInv, CurrentMayRun
  <2>3. wpid'[x] = wpid[x]
    <3>1. \E T : wpid \in [Proc -> T]
      BY DEF IInv, TypeOK
    <3> QED BY <1>1, <2>1, <2>2, <3>1
  <2>4. Children(x)' = Children(x)
    BY <1>2, <1>7, <2>1, <2>2 DEF Children
  <2>5. \A z \in Children(x) : state'[z] = "ZOMBIE" => state[z] = "ZOMBIE"
    BY <1>3, <1>5 DEF Children
  <2> QED BY <2>1, <2>3, <2>4, <2>5 DEF Family, WaitersFit
<1> QED BY <1>9, <1>10, <1>11, <1>12, <1>13 DEF Family

\* Every step of the specification keeps the family in order.
LEMMA StepFamily ==
  ASSUME IInv, IInv', Family, [Next]_vars
  PROVE  Family'
<1>1. ASSUME NEW p \in Pid, UserStep(p) \/ KernelStep(p) PROVE Family'
  <2>1. /\ CurrentMayRun
        /\ current = p /\ pc[p] # "exit" => state[p] = "RUNNABLE"
    BY DEF IInv, CurrentMayRun
  <2>2. CASE Fork(p)
    BY <2>2, DoForkFamily DEF Fork, Runs
  <2>3. CASE Exit(p) \/ ExecFails(p) \/ TrapKilled(p) \/ WaitKilled(p)
    BY <2>3, DoExitFamily DEF Exit, ExecFails, TrapKilled, WaitKilled, Runs
  <2>4. CASE Yield(p) \/ SyscallFails(p)
    BY <2>1, <2>4, StillFamily DEF Yield, SyscallFails, Runs, Goes
  <2>5. CASE TrapReturns(p) \/ TrapPreempts(p)
    BY <2>1, <2>5, StillFamily DEF TrapReturns, TrapPreempts, Runs, Goes
  <2>6. CASE Exec(p)
    BY <2>1, <2>6, StillFamily DEF Exec, Runs, Goes
  <2>7. CASE WaitNoChild(p)
    <3>1. /\ pc[p] \in {"user", "wait"} /\ pc' = [pc EXCEPT ![p] = "ret"]
          /\ wpid' = [wpid EXCEPT ![p] = ANY] /\ UNCHANGED <<state, links>>
          /\ current = p
      BY <2>7 DEF WaitNoChild, AtRepeat, Runs, IInv, PlacesFit
    <3> QED BY <2>1, <3>1, StillFamily DEF Goes
  <2>8. CASE Kill(p) \/ GiveChild(p) \/ ExitSchedules(p) \/ WaitSleeps(p) \/ WaitReaps(p)
    BY <2>8, KillFamily, GiveChildFamily, ExitSchedulesFamily, WaitSleepsFamily,
       WaitReapsFamily
  <2> QED BY <1>1, <2>2, <2>3, <2>4, <2>5, <2>6, <2>7, <2>8 DEF UserStep, KernelStep
<1>2. ASSUME NEW p \in Pid, NEW asks \in BOOLEAN, Tick(p, asks) PROVE Family'
  BY <1>2, StillFamily DEF Tick, Runs, Goes, IInv, CurrentMayRun
<1>3. CASE StartUserMain
  BY <1>3, DoForkFamily, ProcAssumption DEF StartUserMain, Runs
<1>4. CASE UserMainFails \/ InitEnds \/ CpuIdle \/ KernelTick \/ Stopped \/ UNCHANGED vars
  BY <1>4, StillFamily
     DEF UserMainFails, InitEnds, CpuIdle, KernelTick, Stopped, vars
<1> QED BY <1>1, <1>2, <1>3, <1>4 DEF Next, InitStep

\* A step that leaves idleproc with the CPU is not one of schedule().
LEMMA StepNeverAllAsleep ==
  ASSUME IInv, NeverAllAsleep, IInv', Family', [Next]_vars
  PROVE  NeverAllAsleep'
<1>1. Schedule => current' # idleproc
  BY ScheduleFinds DEF Family
<1>2. \A p \in Pid : p # idleproc
  BY ProcAssumption
<1>3. ASSUME NEW p \in Pid, UserStep(p) \/ KernelStep(p) PROVE current' # idleproc
  <2>1. current = p
    BY <1>3 DEF UserStep, KernelStep, Fork, Exit, Kill, Yield, SyscallFails, WaitReaps,
         WaitSleeps, WaitNoChild, Exec, ExecFails, TrapKilled, TrapPreempts, TrapReturns,
         GiveChild, ExitSchedules, WaitKilled, AtRepeat, Runs
  <2>2. \/ current' = current
        \/ Schedule
    BY <1>3 DEF UserStep, KernelStep, Fork, DoFork, Exit, DoExit, Kill, Yield, SyscallFails,
         WaitReaps, WaitSleeps, WaitNoChild, Exec, ExecFails, TrapKilled, TrapPreempts,
         TrapReturns, GiveChild, ExitSchedules, WaitKilled, NoSchedule
  <2> QED BY <1>1, <1>2, <2>1, <2>2
<1>4. ASSUME NEW p \in Pid, NEW asks \in BOOLEAN, Tick(p, asks) PROVE current' # idleproc
  BY <1>2, <1>4 DEF Tick, Runs
<1>5. CASE StartUserMain \/ UserMainFails \/ InitEnds
  BY <1>2, <1>5, ProcAssumption
     DEF StartUserMain, UserMainFails, InitEnds, DoFork, AtRepeat, Runs, NoSchedule,
         NeverAllAsleep
<1>6. CASE CpuIdle
  BY <1>1, <1>6 DEF CpuIdle, NeverAllAsleep
<1>7. CASE KernelTick \/ Stopped \/ UNCHANGED vars
  BY <1>7 DEF KernelTick, Stopped, vars, NeverAllAsleep
<1> QED BY <1>3, <1>4, <1>5, <1>6, <1>7 DEF Next, InitStep, NeverAllAsleep

\* When do_wait finds no child of initproc, nobody else is left: every other
\* process would descend from it.
LEMMA NobodyLeft ==
  ASSUME IInv, Family, Children(initproc) = {}
  PROVE  InitCheck
<1>1. initproc \in Pid /\ idleproc \notin Pid /\ Live \subseteq Pid /\ NULL \notin Live
  BY ProcAssumption DEF IInv, TablesAgree
<1>2. Live = {initproc}
  <2> SUFFICES ASSUME Live \ {initproc} # {} PROVE FALSE
    BY DEF Family, ParentsFit
  <2>1. PICK x \in Live \ {initproc} : parent[x] \notin Live \ {initproc}
    BY DEF Family, NoCycle
  <2>2. parent[x] = initproc
    BY <2>1 DEF Family, ParentsFit
  <2> QED BY <2>1, <2>2 DEF Children
<1>3. cptr[initproc] = NULL
  BY <1>1 DEF Family, ListsFit, Proc
<1>4. \A q \in Live : q = initproc /\ parent[q] = idleproc
  BY <1>2 DEF Family, ParentsFit
<1>5. cptr[idleproc] = initproc
  <2>1. initproc \in Children(idleproc) /\ idleproc \in Proc
    BY <1>2, <1>4 DEF Children, Proc
  <2>2. cptr[idleproc] # NULL
    BY <2>1, NoChildren DEF Family
  <2> QED BY <1>4, <2>1, <2>2 DEF Family, ListsFit, Children
<1>6. yptr[initproc] = NULL
  BY <1>1, <1>5, ProcAssumption DEF Family, ListsFit, IInv, PlacesFit, Proc
<1>7. optr[initproc] = NULL
  BY <1>2, <1>4, <1>5 DEF Family, ListsFit, Children
<1>8. Len(proc_list) = 1 /\ proc_list = <<initproc>>
  <2>1. proc_list \in Seq(Pid) /\ IsInjective(proc_list) /\ Range(proc_list) = {initproc}
    BY <1>2 DEF IInv, TypeOK, TablesAgree, Live
  <2>2. \A i \in 1 .. Len(proc_list) : proc_list[i] = initproc
    BY <2>1 DEF Range
  <2>3. Len(proc_list) # 0
    BY <2>1 DEF Range
  <2>4. Len(proc_list) < 2
    <3>1. SUFFICES ASSUME Len(proc_list) >= 2 PROVE FALSE
      BY <2>1
    <3>2. 1 \in DOMAIN proc_list /\ 2 \in DOMAIN proc_list
      BY <2>1, <3>1
    <3>3. proc_list[1] = proc_list[2]
      BY <2>1, <2>2, <3>1
    <3> QED BY <2>1, <3>2, <3>3 DEF IsInjective
  <2>5. Len(proc_list) = 1
    <3>1. Len(proc_list) \in Nat
      BY <2>1
    <3>2. \A n \in Nat : n # 0 /\ n < 2 => n = 1
      OBVIOUS
    <3> QED BY <2>3, <2>4, <3>1, <3>2
  <2> QED BY <2>1, <2>2, <2>5
<1>9. nr_process = 2
  BY <1>8 DEF IInv, TablesAgree
<1> QED BY <1>3, <1>6, <1>7, <1>8, <1>9 DEF InitCheck

LEMMA StepInitCheck ==
  ASSUME IInv, Family, InitCheckPasses, [Next]_vars
  PROVE  InitCheckPasses'
<1>1. CASE InitEnds
  <2>1. Candidates(initproc, ANY) = {}
    BY <1>1 DEF InitEnds, HasChild
  <2>2. Children(initproc) = {}
    BY <2>1, CandidatesAre, ProcAssumption DEF Family
  <2>3. InitCheck
    BY <2>2, NobodyLeft
  <2> QED BY <1>1, <2>3 DEF InitEnds, InitCheckPasses
<1>2. CASE UserMainFails \/ StartUserMain \/ CpuIdle \/ KernelTick \/ Stopped \/ UNCHANGED vars
  BY <1>2 DEF UserMainFails, StartUserMain, DoFork, CpuIdle, KernelTick, Stopped, vars,
              InitCheckPasses
<1>3. ASSUME NEW p \in Pid, NEW asks \in BOOLEAN, Tick(p, asks) PROVE InitCheckPasses'
  BY <1>3 DEF Tick, InitCheckPasses
<1>4. ASSUME NEW p \in Pid, UserStep(p) \/ KernelStep(p) PROVE InitCheckPasses'
  BY <1>4 DEF UserStep, KernelStep, Fork, DoFork, Exit, DoExit, Kill, Yield, SyscallFails,
       WaitReaps, WaitSleeps, WaitNoChild, Exec, ExecFails, TrapKilled, TrapPreempts,
       TrapReturns, GiveChild, ExitSchedules, WaitKilled, InitCheckPasses
<1> QED BY <1>1, <1>2, <1>3, <1>4 DEF Next, InitStep

LEMMA InitFamily ==
  ASSUME Init
  PROVE  Family /\ NeverAllAsleep /\ InitCheckPasses
<1>1. Live = {initproc}
  BY DEF Init, Live, Range
<1>2. /\ initproc \in Pid /\ idleproc \notin Pid /\ NULL \notin Proc
  BY ProcAssumption DEF Proc
<1>10. \A p \in Proc :
         /\ cptr[p] = IF p = idleproc THEN initproc ELSE NULL
         /\ yptr[p] = NULL /\ optr[p] = NULL
         /\ parent[p] = IF p = initproc THEN idleproc ELSE NULL
  BY DEF Init
<1>11. \A p \in Proc : Children(p) = IF p = idleproc THEN {initproc} ELSE {}
  BY <1>1, <1>2, <1>10 DEF Children, Proc
<1>3. \A p \in Proc :
        /\ Children(p) = IF p = idleproc THEN {initproc} ELSE {}
        /\ cptr[p] = IF p = idleproc THEN initproc ELSE NULL
        /\ yptr[p] = NULL /\ optr[p] = NULL
        /\ parent[p] = IF p = initproc THEN idleproc ELSE NULL
  BY <1>10, <1>11
<1>4. ListsFit
  BY <1>1, <1>2, <1>3 DEF ListsFit, Proc
<1>5. AllReached
  <2> SUFFICES ASSUME NEW p \in Proc, NEW S \in SUBSET Pid,
                      cptr[p] # NULL => cptr[p] \in S
               PROVE  Children(p) \subseteq S
    BY DEF AllReached
  <2> QED BY <1>2, <1>3 DEF Proc
<1>6. ParentsFit
  BY <1>1, <1>2, <1>3 DEF ParentsFit, Proc
<1>7. NoCycle
  <2> SUFFICES ASSUME NEW S \in SUBSET Live, S # {}
               PROVE  /\ \E x \in S : parent[x] \notin S
                      /\ \E w \in S : \A x \in S : parent[x] # w
    BY DEF NoCycle
  <2>1. S = {initproc} /\ parent[initproc] = idleproc
    BY <1>1, <1>2, <1>3 DEF Proc
  <2> QED BY <1>2, <2>1
<1>8. WaitersFit
  <2>1. \A p \in Pid : ~ Sleeps(p)
    BY DEF Init, Sleeps, Proc
  <2> QED BY <2>1 DEF WaitersFit
<1>9. NeverAllAsleep /\ InitCheckPasses
  BY <1>2 DEF Init, NeverAllAsleep, InitCheckPasses, Proc
<1> QED BY <1>4, <1>5, <1>6, <1>7, <1>8, <1>9 DEF Family

LEMMA StepFamilyInv == FamilyInv /\ [Next]_vars => FamilyInv'
BY StepIInv, StepFamily, StepNeverAllAsleep, StepInitCheck DEF FamilyInv

\* The inductive invariant of the family holds in every reachable state.
THEOREM FamilyCorrect == Spec => []FamilyInv
<1>1. Init => FamilyInv
  BY InitIInv, InitFamily DEF FamilyInv
<1>2. FamilyInv /\ [Next]_vars => FamilyInv'
  BY StepFamilyInv
<1> QED BY <1>1, <1>2, PTL DEF Spec

LEMMA FamilyGivesLists == FamilyInv => ChildLists
<1> SUFFICES ASSUME FamilyInv, NEW p \in Proc
             PROVE  /\ Chain(cptr[p]) = {q \in Live : parent[q] = p}
                    /\ \A q \in Chain(cptr[p]) :
                         /\ optr[q] # NULL => yptr[optr[q]] = q
                         /\ yptr[q] = NULL => cptr[p] = q
  BY DEF ChildLists
<1>1. Chain(cptr[p]) = Children(p)
  BY ChainIsChildren DEF FamilyInv, Family
<1>2. NULL \notin Live
  BY ProcAssumption DEF FamilyInv, IInv, TablesAgree
<1>3. \A q \in Children(p) :
        /\ optr[q] # NULL => yptr[optr[q]] = q
        /\ yptr[q] = NULL => cptr[p] = q
  BY <1>2 DEF FamilyInv, Family, ListsFit, Children
<1>4. Children(p) = {q \in Live : parent[q] = p}
  BY DEF Children
<1> QED BY <1>1, <1>3, <1>4

\* The kinship pointers that set_links, remove_links and do_exit keep are exact
\* at every switch of process: cptr and optr lead to every child of a process
\* and to nobody else, and yptr leads back: ChildLists.
THEOREM ListsAlwaysExact == Spec => []ChildLists
BY FamilyCorrect, FamilyGivesLists, PTL

\* do_exit leaves nobody behind: no process has a parent that will not wait for
\* it any more: ParentsAlive.
THEOREM ParentsAlwaysAlive == Spec => []ParentsAlive
<1>1. FamilyInv => ParentsAlive
  BY DEF FamilyInv, Family, ParentsFit, ParentsAlive
<1> QED BY <1>1, FamilyCorrect, PTL

\* Between do_wait's look at the children and do_exit's look at the parent's
\* wait_state no wakeup gets lost: NoLostWakeup.
THEOREM WakeupsNeverLost == Spec => []NoLostWakeup
<1>1. FamilyInv => NoLostWakeup
  <2> SUFFICES ASSUME FamilyInv, NEW p \in Pid, Sleeps(p)
               PROVE  /\ Candidates(p, wpid[p]) # {}
                      /\ Zombies(Candidates(p, wpid[p])) = {}
    BY DEF NoLostWakeup
  <2>1. wpid[p] \in Pid \cup {ANY}
    BY DEF FamilyInv, IInv, TypeOK, Proc
  <2>2. Candidates(p, wpid[p]) = {q \in Children(p) : wpid[p] \in {ANY, q}}
    BY <2>1, CandidatesAre DEF FamilyInv, Family
  <2> QED BY <2>2 DEF FamilyInv, Family, WaitersFit, Zombies
<1> QED BY <1>1, FamilyCorrect, PTL

\* However many processes wait for each other's children, one of them is
\* runnable, so idleproc runs only during the boot: NeverAllAsleep.
THEOREM SomeoneAlwaysRuns == Spec => []NeverAllAsleep
BY FamilyCorrect, PTL DEF FamilyInv

\* The asserts of init_main after its loop hold: InitCheckPasses.
THEOREM InitCheckAlwaysPasses == Spec => []InitCheckPasses
BY FamilyCorrect, PTL DEF FamilyInv

\* Only do_wait ends a process.
LEMMA OnlyReaped ==
  ASSUME IInv, Family, [Next]_vars, NEW x \in Pid, state[x] # "UNUSED", state'[x] = "UNUSED"
  PROVE  state[x] = "ZOMBIE" /\ pc[x] = "dead" /\ current = parent[x]
<1>1. \E T : state \in [Proc -> T]
  BY DEF IInv, TypeOK
<1>2. x \in Proc /\ state' # state
  BY DEF Proc
<1>3. \E p \in Pid : WaitReaps(p)
  <2>1. ASSUME NEW p \in Pid, UserStep(p) \/ KernelStep(p) PROVE WaitReaps(p)
    <3>1. CASE DoExit(p)
      BY <1>2, <3>1 DEF DoExit
    <3>2. CASE Fork(p)
      BY <1>1, <1>2, <3>2 DEF Fork, DoFork
    <3>3. CASE Kill(p)
      BY <1>1, <1>2, <3>3 DEF Kill, Wakes
    <3>4. CASE GiveChild(p)
      BY <1>1, <1>2, <3>4 DEF GiveChild, WakesInit, Wakes
    <3>5. CASE WaitSleeps(p)
      BY <1>1, <1>2, <3>5 DEF WaitSleeps
    <3> QED BY <1>2, <2>1, <3>1, <3>2, <3>3, <3>4, <3>5
         DEF UserStep, KernelStep, Exit, Yield, SyscallFails, WaitNoChild, Exec, ExecFails,
             TrapKilled, TrapPreempts, TrapReturns, ExitSchedules, WaitKilled
  <2>2. ~ StartUserMain
    BY <1>1, <1>2 DEF StartUserMain, DoFork
  <2>3. \A p \in Pid, asks \in BOOLEAN : ~ Tick(p, asks)
    BY <1>2 DEF Tick
  <2>4. ~ (UserMainFails \/ InitEnds \/ CpuIdle \/ KernelTick \/ Stopped \/ UNCHANGED vars)
    BY <1>2 DEF UserMainFails, InitEnds, CpuIdle, KernelTick, Stopped, vars
  <2> QED BY <2>1, <2>2, <2>3, <2>4 DEF Next, InitStep
<1>4. PICK p \in Pid : WaitReaps(p)
  BY <1>3
<1>5. PICK t \in Pid \cup {ANY} :
        /\ AtRepeat(p, t)
        /\ \E q \in Zombies(Candidates(p, t)) : state' = [state EXCEPT ![q] = "UNUSED"]
  BY <1>4 DEF WaitReaps
<1>6. PICK q \in Zombies(Candidates(p, t)) : state' = [state EXCEPT ![q] = "UNUSED"]
  BY <1>5
<1>7. x = q
  BY <1>1, <1>2, <1>6
<1> QED BY <1>5, <1>7, ReapedIs

\* A proc_struct is freed by its parent's do_wait only, and not before do_exit
\* has switched away from it for the last time: ReapedByParent.
THEOREM OnlyParentsReap == Spec => ReapedByParent
<1>1. FamilyInv /\ [Next]_vars =>
        [\A p \in Pid : state[p] # "UNUSED" /\ state'[p] = "UNUSED" =>
           state[p] = "ZOMBIE" /\ pc[p] = "dead" /\ current = parent[p]]_vars
  BY OnlyReaped DEF FamilyInv
<1> QED BY <1>1, FamilyCorrect, PTL DEF Spec, ReapedByParent
=============================================================================
