-------------------------------- MODULE Proc --------------------------------
(***************************************************************************)
(* The process table of Lab5 (kern/process/proc.c, kern/schedule/sched.c,  *)
(* the end of trap() in kern/trap/trap.c): fork, exec, exit, wait, kill,   *)
(* yield, the timer, and the round-robin scheduler.                        *)
(*                                                                         *)
(* The machine has one CPU and the kernel is never preempted: a timer      *)
(* interrupt taken in the kernel only sets need_resched, and trap() calls  *)
(* schedule() or do_exit() on its way back to user mode only.  Processes   *)
(* therefore interleave where schedule() is called, and each action below  *)
(* is what current does from one such point, or from the entry of a trap,  *)
(* to the next.  pc says where every process stands:                       *)
(*   user    in user mode (or about to enter it)                           *)
(*   ret     at the end of trap(), after the handler                       *)
(*   wait    in do_wait, at the call of schedule() that put it to sleep    *)
(*   exit    in do_exit, in the loop that gives the children to initproc   *)
(*   dead    switched away from in do_exit, never to run again             *)
(*   start, loop    initproc, before and in init_main's loop               *)
(*   kmain   the user_main kernel thread, before its kernel_execve         *)
(*   idle    idleproc, in cpu_idle                                         *)
(*   none    no proc_struct                                                *)
(*                                                                         *)
(* A proc_struct is named by its pid: live processes have different pids   *)
(* (GetPid).  Any free pid may be chosen, as PidAlloc promises.            *)
(***************************************************************************)
EXTENDS Integers, Sequences, FiniteSets, Functions, SequencesExt

CONSTANTS
  Pid,          \* pids, initproc's among them
  initproc,
  idleproc,
  NULL,
  ANY,          \* the pid argument 0 of do_wait
  Mm,           \* identities of mm_structs: the memory for address spaces
  MAX_PROCESS,
  CloneFlags,   \* flags fork is called with, out of {"COPY", "CLONE_VM"}
  KillTargets   \* pids user programs pass to kill

ASSUME ProcAssumption ==
  /\ initproc \in Pid
  /\ idleproc \notin Pid
  /\ NULL \notin Pid \cup {idleproc}
  /\ ANY \notin Pid
  /\ NULL \notin Mm
  /\ IsFiniteSet(Pid)
  /\ MAX_PROCESS \in Nat
  /\ KillTargets \subseteq Pid

VARIABLES
  state, parent, cptr, yptr, optr,   \* fields of proc_struct
  wait_state, exiting,               \* wait_state; flags & PF_EXITING
  need_resched, mm,
  proc_list,    \* the list, head first
  hashed,       \* the processes on the hash lists, which find_proc searches
  nr_process,
  current,
  mm_count,     \* mm_count of each mm_struct; 0: no such mm_struct
  pc, wpid,     \* where a process stands; the pid its do_wait waits for
  halted        \* "no", or why the kernel stopped (panic or assert)

links == <<parent, cptr, yptr, optr, proc_list, hashed, nr_process>>
memory == <<mm, mm_count>>
vars == <<state, wait_state, exiting, need_resched, current, pc, wpid, halted,
          links, memory>>

Proc == Pid \cup {idleproc}
Live == Range(proc_list)

TypeOK ==
  /\ state \in [Proc -> {"UNUSED", "SLEEPING", "RUNNABLE", "ZOMBIE"}]
  /\ parent \in [Proc -> Proc \cup {NULL}]
  /\ cptr \in [Proc -> Pid \cup {NULL}]
  /\ yptr \in [Proc -> Pid \cup {NULL}]
  /\ optr \in [Proc -> Pid \cup {NULL}]
  /\ wait_state \in [Proc -> {"none", "WT_CHILD"}]
  /\ exiting \in [Proc -> BOOLEAN]
  /\ need_resched \in [Proc -> BOOLEAN]
  /\ mm \in [Proc -> Mm \cup {NULL}]
  /\ proc_list \in Seq(Pid)
  /\ hashed \in SUBSET Pid
  /\ nr_process \in Nat
  /\ current \in Proc
  /\ mm_count \in [Mm -> Nat]
  /\ pc \in [Proc -> {"user", "ret", "wait", "exit", "dead", "start", "loop",
                      "kmain", "idle", "none"}]
  /\ wpid \in [Proc -> Pid \cup {ANY}]
  /\ halted \in {"no", "create user_main failed", "initproc exit",
                 "init check failed"}

\* After proc_init: idleproc runs and initproc, its child, is runnable.
Init ==
  /\ state = [p \in Proc |-> IF p \in {initproc, idleproc} THEN "RUNNABLE"
                                                           ELSE "UNUSED"]
  /\ parent = [p \in Proc |-> IF p = initproc THEN idleproc ELSE NULL]
  /\ cptr = [p \in Proc |-> IF p = idleproc THEN initproc ELSE NULL]
  /\ yptr = [p \in Proc |-> NULL]
  /\ optr = [p \in Proc |-> NULL]
  /\ wait_state = [p \in Proc |-> "none"]
  /\ exiting = [p \in Proc |-> FALSE]
  /\ need_resched = [p \in Proc |-> p = idleproc]
  /\ mm = [p \in Proc |-> NULL]
  /\ proc_list = <<initproc>>
  /\ hashed = {initproc}
  /\ nr_process = 2
  /\ current = idleproc
  /\ mm_count = [m \in Mm |-> 0]
  /\ pc = [p \in Proc |-> CASE p = initproc -> "start"
                            [] p = idleproc -> "idle"
                            [] OTHER -> "none"]
  /\ wpid = [p \in Proc |-> ANY]
  /\ halted = "no"
-----------------------------------------------------------------------------
(* The scheduler *)

Runs(p) == current = p /\ halted = "no"

\* p goes on from place "from" to place "to".
Goes(p, from, to) ==
  /\ pc[p] = from
  /\ pc' = [pc EXCEPT ![p] = to]

\* Mutant: the scan always starts at the head of the list.
Here_Head(list) == 0

\* The scan starts after current's place, or, from idleproc, at the list head.
Here(list) ==
  IF current = idleproc THEN 0
  ELSE CHOOSE k \in 1 .. Len(list) : list[k] = current

\* The turn of the i-th element in a scan that goes once round the list and
\* ends with current itself.
Turn(list, i) ==
  IF i > Here(list) THEN i - Here(list) ELSE i - Here(list) + Len(list)

\* Mutant: sleeping processes are scheduled too.
CanRun_NotZombie(p) == state'[p] \notin {"ZOMBIE", "UNUSED"}

CanRun(p) == state'[p] = "RUNNABLE"

\* schedule(), over the list and the states its caller leaves: the first
\* RUNNABLE process of the scan, or idleproc.
Schedule ==
  LET list == proc_list'
  IN  /\ need_resched' = [need_resched EXCEPT ![current] = FALSE]
      /\ \/ \E i \in 1 .. Len(list) :
              /\ CanRun(list[i])
              /\ \A j \in 1 .. Len(list) :
                   CanRun(list[j]) => Turn(list, i) <= Turn(list, j)
              /\ current' = list[i]
         \/ /\ \A i \in 1 .. Len(list) : ~ CanRun(list[i])
            /\ current' = idleproc

NoSchedule == UNCHANGED <<current, need_resched>>
-----------------------------------------------------------------------------
(* fork *)

\* set_links: q becomes the head of proc_list and the youngest child of p.
SetLinks(q, p) ==
  /\ proc_list' = <<q>> \o proc_list
  /\ parent' = [parent EXCEPT ![q] = p]
  /\ cptr' = [cptr EXCEPT ![p] = q, ![q] = NULL]
  /\ optr' = [optr EXCEPT ![q] = cptr[p]]
  /\ yptr' = [x \in Proc |-> CASE x = q -> NULL
                               [] x = cptr[p] -> q
                               [] OTHER -> yptr[x]]
  /\ nr_process' = nr_process + 1

\* copy_mm: nothing for a kernel thread, else share or duplicate the parent's.
CopyMm(p, q, flag) ==
  \/ mm[p] = NULL /\ UNCHANGED memory
  \/ /\ mm[p] # NULL /\ flag = "CLONE_VM"
     /\ mm' = [mm EXCEPT ![q] = mm[p]]
     /\ mm_count' = [mm_count EXCEPT ![mm[p]] = @ + 1]
  \/ /\ mm[p] # NULL /\ flag = "COPY"
     /\ \E m \in Mm : /\ mm_count[m] = 0
                      /\ mm' = [mm EXCEPT ![q] = m]
                      /\ mm_count' = [mm_count EXCEPT ![m] = 1]

\* get_pid returns the pid of no live process.
FreePids == Pid \ Live

\* Mutant: the new process is not put on the hash lists.
HashProc_Forgotten(q) == UNCHANGED hashed

HashProc(q) == hashed' = hashed \cup {q}

\* do_fork by p with success: the child starts at place "child".
DoFork(p, flag, from, to, child) ==
  /\ nr_process < MAX_PROCESS
  /\ \E q \in FreePids :
       /\ CopyMm(p, q, flag)
       /\ HashProc(q)
       /\ SetLinks(q, p)
       /\ state' = [state EXCEPT ![q] = "RUNNABLE"]
       /\ pc[p] = from
       /\ pc' = [pc EXCEPT ![p] = to, ![q] = child]
  /\ UNCHANGED <<wait_state, exiting, wpid, halted>>
  /\ NoSchedule

Fork(p) == Runs(p) /\ \E flag \in CloneFlags : DoFork(p, flag, "user", "ret", "user")

\* init_main: kernel_thread(user_main), or the panic when do_fork fails.
StartUserMain ==
  /\ Runs(initproc)
  /\ DoFork(initproc, "CLONE_VM", "start", "loop", "kmain")

UserMainFails ==
  /\ Runs(initproc) /\ pc[initproc] = "start"
  /\ halted' = "create user_main failed"
  /\ UNCHANGED <<state, wait_state, exiting, need_resched, current, pc, wpid,
                 links, memory>>

\* The error returns that leave the process table as it was: do_fork's
\* -E_NO_FREE_PROC and -E_NO_MEM, do_kill's -E_INVAL and -E_KILLED, the
\* -E_INVAL of do_wait and do_execve for a bad user pointer.
SyscallFails(p) ==
  /\ Runs(p) /\ Goes(p, "user", "ret")
  /\ UNCHANGED <<state, wait_state, exiting, wpid, halted, links, memory>>
  /\ NoSchedule
-----------------------------------------------------------------------------
(* exit *)

\* Mutant: an address space is freed by whoever drops it first.
DropMm_FreesShared(p) ==
  IF mm[p] = NULL THEN mm_count ELSE [mm_count EXCEPT ![mm[p]] = 0]

\* mm_count_dec, and the mm_struct freed at 0: the counts after p drops its mm.
DropMm(p) ==
  IF mm[p] = NULL THEN mm_count ELSE [mm_count EXCEPT ![mm[p]] = @ - 1]

\* wakeup_proc of q, when q sleeps in do_wait: what its callers test first.
Wakes(q) ==
  /\ state' = [state EXCEPT ![q] = IF wait_state[q] = "WT_CHILD"
                                   THEN "RUNNABLE" ELSE @]
  /\ wait_state' = [wait_state EXCEPT ![q] = "none"]

\* do_exit up to the loop over the children; initproc panics instead.
DoExit(p) ==
  IF p = initproc
  THEN /\ halted' = "initproc exit"
       /\ UNCHANGED <<state, wait_state, exiting, need_resched, current, pc,
                      wpid, links, memory>>
  ELSE LET q == parent[p]
           woken == wait_state[q] = "WT_CHILD"
       IN  /\ mm_count' = DropMm(p)
           /\ mm' = [mm EXCEPT ![p] = NULL]
           /\ state' = [x \in Proc |-> CASE x = p -> "ZOMBIE"
                                         [] x = q /\ woken -> "RUNNABLE"
                                         [] OTHER -> state[x]]
           /\ wait_state' = [wait_state EXCEPT ![q] = "none"]
           /\ pc' = [pc EXCEPT ![p] = "exit"]
           /\ UNCHANGED <<exiting, wpid, halted, links>>
           /\ NoSchedule

\* Mutant: initproc is not told of a zombie it is given.
WakesInit_Never(c) == UNCHANGED <<state, wait_state>>

\* initproc is woken for a child that has already exited.
WakesInit(c) ==
  IF state[c] = "ZOMBIE" THEN Wakes(initproc) ELSE UNCHANGED <<state, wait_state>>

\* One turn of do_exit's loop: the youngest child c goes to initproc, which is
\* woken if c has already exited.
GiveChild(p) ==
  LET c == cptr[p]
  IN  /\ Runs(p) /\ pc[p] = "exit" /\ c # NULL
      /\ parent' = [parent EXCEPT ![c] = initproc]
      /\ cptr' = [cptr EXCEPT ![p] = optr[c], ![initproc] = c]
      /\ optr' = [optr EXCEPT ![c] = cptr[initproc]]
      /\ yptr' = [x \in Proc |-> CASE x = c -> NULL
                                   [] x = cptr[initproc] -> c
                                   [] OTHER -> yptr[x]]
      /\ WakesInit(c)
      /\ UNCHANGED <<proc_list, hashed, nr_process, exiting, pc, wpid, halted,
                     memory>>
      /\ NoSchedule

\* Mutant: the exiting process keeps its children.
ChildrenGiven_Skipped(p) == TRUE

ChildrenGiven(p) == cptr[p] = NULL

\* The end of do_exit: p is switched away from and never runs again.
ExitSchedules(p) ==
  /\ Runs(p) /\ ChildrenGiven(p) /\ Goes(p, "exit", "dead")
  /\ UNCHANGED <<state, wait_state, exiting, wpid, halted, links, memory>>
  /\ Schedule

Exit(p) == Runs(p) /\ pc[p] = "user" /\ DoExit(p)
-----------------------------------------------------------------------------
(* wait *)

\* The processes reached from h along optr (the least set closed under it).
Chain(h) ==
  IF h = NULL THEN {}
  ELSE {q \in Pid : \A S \in SUBSET Pid :
          /\ h \in S
          /\ \A r \in S : optr[r] # NULL => optr[r] \in S
          => q \in S}

\* Mutant: any process may be waited for.
Candidates_NotOnlyOwn(p, t) ==
  IF t = ANY THEN Chain(cptr[p]) ELSE {q \in hashed : q = t}

\* The children do_wait looks at: all of them, or the one find_proc returns.
Candidates(p, t) ==
  IF t = ANY THEN Chain(cptr[p]) ELSE {q \in hashed : q = t /\ parent[q] = p}

Zombies(S) == {q \in S : state[q] = "ZOMBIE"}

\* p is at the label repeat: of do_wait for the pid t: at the call, in
\* init_main's loop, or back from schedule() and not killed meanwhile.
AtRepeat(p, t) ==
  /\ Runs(p)
  /\ \/ pc[p] = "user"
     \/ pc[p] = "loop" /\ t = ANY
     \/ pc[p] = "wait" /\ t = wpid[p] /\ ~ exiting[p]

\* Mutant: the elder sibling's yptr keeps pointing to the freed process.
YptrWithout_Dangling(q) == [yptr EXCEPT ![q] = NULL]

\* The yptr fields when q is taken out of its parent's list of children.
YptrWithout(q) ==
  [x \in Proc |-> CASE x = q -> NULL
                    [] x = optr[q] -> yptr[q]
                    [] OTHER -> yptr[x]]

\* remove_links, with the freed proc_struct's own pointers gone.
RemoveLinks(q) ==
  /\ \E i \in 1 .. Len(proc_list) :
       proc_list[i] = q /\ proc_list' = RemoveAt(proc_list, i)
  /\ optr' = [x \in Proc |-> CASE x = q -> NULL
                               [] x = yptr[q] -> optr[q]
                               [] OTHER -> optr[x]]
  /\ yptr' = YptrWithout(q)
  /\ cptr' = IF yptr[q] = NULL THEN [cptr EXCEPT ![parent[q]] = optr[q]]
                               ELSE cptr
  /\ parent' = [parent EXCEPT ![q] = NULL]
  /\ nr_process' = nr_process - 1

\* found: the first zombie is unlinked and freed; init_main then schedules.
WaitReaps(p) ==
  \E t \in Pid \cup {ANY} :
    /\ AtRepeat(p, t)
    /\ \E q \in Zombies(Candidates(p, t)) :
         /\ t = ANY => Zombies(Candidates(p, t)) \subseteq Chain(q)
         /\ RemoveLinks(q)
         /\ hashed' = hashed \ {q}
         /\ state' = [state EXCEPT ![q] = "UNUSED"]
         /\ exiting' = [exiting EXCEPT ![q] = FALSE]
         /\ pc' = [pc EXCEPT ![q] = "none",
                             ![p] = IF p = initproc THEN "loop" ELSE "ret"]
         /\ wpid' = [wpid EXCEPT ![q] = ANY, ![p] = ANY]
    /\ IF p = initproc THEN Schedule ELSE NoSchedule
    /\ UNCHANGED <<wait_state, halted, memory>>

\* Mutant: do_wait does not need a child to sleep.
HasChild_Assumed(p, t) == TRUE

\* haskid
HasChild(p, t) == Candidates(p, t) # {}

\* A child, but no zombie: sleep until one exits.
WaitSleeps(p) ==
  \E t \in Pid \cup {ANY} :
    /\ AtRepeat(p, t)
    /\ HasChild(p, t) /\ Zombies(Candidates(p, t)) = {}
    /\ state' = [state EXCEPT ![p] = "SLEEPING"]
    /\ wait_state' = [wait_state EXCEPT ![p] = "WT_CHILD"]
    /\ pc' = [pc EXCEPT ![p] = "wait"]
    /\ wpid' = [wpid EXCEPT ![p] = t]
    /\ UNCHANGED <<exiting, halted, links, memory>>
    /\ Schedule

\* -E_BAD_PROC to a user process.
WaitNoChild(p) ==
  \E t \in Pid \cup {ANY} :
    /\ AtRepeat(p, t) /\ p # initproc
    /\ ~ HasChild(p, t)
    /\ pc' = [pc EXCEPT ![p] = "ret"]
    /\ wpid' = [wpid EXCEPT ![p] = ANY]
    /\ UNCHANGED <<state, wait_state, exiting, halted, links, memory>>
    /\ NoSchedule

\* Back from schedule() with PF_EXITING set: do_exit(-E_KILLED).
WaitKilled(p) == Runs(p) /\ pc[p] = "wait" /\ exiting[p] /\ DoExit(p)

\* The asserts of init_main after its loop.
InitCheck ==
  /\ cptr[initproc] = NULL /\ yptr[initproc] = NULL /\ optr[initproc] = NULL
  /\ nr_process = 2
  /\ proc_list = <<initproc>>

\* Mutant: initproc takes "no zombie" for "no child".
InitEnds_TooEarly ==
  /\ AtRepeat(initproc, ANY) /\ Zombies(Candidates(initproc, ANY)) = {}
  /\ halted' = IF InitCheck THEN "initproc exit" ELSE "init check failed"
  /\ UNCHANGED <<state, wait_state, exiting, need_resched, current, pc, wpid,
                 links, memory>>

\* -E_BAD_PROC to init_main: it checks, returns, and do_exit panics.
InitEnds ==
  /\ AtRepeat(initproc, ANY) /\ ~ HasChild(initproc, ANY)
  /\ halted' = IF InitCheck THEN "initproc exit" ELSE "init check failed"
  /\ UNCHANGED <<state, wait_state, exiting, need_resched, current, pc, wpid,
                 links, memory>>
-----------------------------------------------------------------------------
(* kill, exec, yield *)

\* do_kill: mark t and wake it if it sleeps interruptibly.
Kill(p) ==
  /\ Runs(p) /\ Goes(p, "user", "ret")
  /\ \E t \in KillTargets \cap hashed :
       /\ ~ exiting[t]
       /\ exiting' = [exiting EXCEPT ![t] = TRUE]
       /\ Wakes(t)
  /\ UNCHANGED <<wpid, halted, links, memory>>
  /\ NoSchedule

\* do_execve with success: the old address space is dropped, a new one made.
Exec(p) ==
  /\ Runs(p)
  /\ Goes(p, "user", "ret") \/ Goes(p, "kmain", "user")
  /\ \E m \in Mm : /\ DropMm(p)[m] = 0
                   /\ mm' = [mm EXCEPT ![p] = m]
                   /\ mm_count' = [DropMm(p) EXCEPT ![m] = 1]
  /\ UNCHANGED <<state, wait_state, exiting, wpid, halted, links>>
  /\ NoSchedule

\* load_icode fails (no memory, bad image): do_exit, the mm already dropped.
ExecFails(p) == Runs(p) /\ pc[p] \in {"user", "kmain"} /\ DoExit(p)

Yield(p) ==
  /\ Runs(p) /\ Goes(p, "user", "ret")
  /\ need_resched' = [need_resched EXCEPT ![p] = TRUE]
  /\ UNCHANGED <<state, wait_state, exiting, current, wpid, halted, links,
                 memory>>
-----------------------------------------------------------------------------
(* The timer and the end of trap() *)

\* A tick in user mode; every TICK_NUM-th asks for a reschedule.
Tick(p, asks) ==
  /\ Runs(p) /\ Goes(p, "user", "ret")
  /\ need_resched' = [need_resched EXCEPT ![p] = @ \/ asks]
  /\ UNCHANGED <<state, wait_state, exiting, current, wpid, halted, links,
                 memory>>

\* A tick in a kernel thread, which runs with interrupts on: no more than this.
KernelTick ==
  /\ halted = "no"
  /\ current \in {initproc, idleproc} \/ pc[current] = "kmain"
  /\ need_resched' = [need_resched EXCEPT ![current] = TRUE]
  /\ UNCHANGED <<state, wait_state, exiting, current, pc, wpid, halted, links,
                 memory>>

\* trap() before it returns to user mode: die, be preempted, or go on.
TrapKilled(p) == Runs(p) /\ pc[p] = "ret" /\ exiting[p] /\ DoExit(p)

TrapPreempts(p) ==
  /\ Runs(p) /\ ~ exiting[p] /\ need_resched[p] /\ Goes(p, "ret", "user")
  /\ UNCHANGED <<state, wait_state, exiting, wpid, halted, links, memory>>
  /\ Schedule

TrapReturns(p) ==
  /\ Runs(p) /\ ~ exiting[p] /\ ~ need_resched[p] /\ Goes(p, "ret", "user")
  /\ UNCHANGED <<state, wait_state, exiting, wpid, halted, links, memory>>
  /\ NoSchedule

\* cpu_idle
CpuIdle ==
  /\ Runs(idleproc) /\ need_resched[idleproc]
  /\ UNCHANGED <<state, wait_state, exiting, pc, wpid, halted, links, memory>>
  /\ Schedule

\* panic(), or a failed assert: the machine stays where it is.
Stopped == halted # "no" /\ UNCHANGED vars
-----------------------------------------------------------------------------
\* What a user process may do of its own accord.
UserStep(p) ==
  \/ Fork(p) \/ Exit(p) \/ Kill(p) \/ Yield(p) \/ SyscallFails(p)
  \/ pc[p] = "user" /\ (\/ WaitReaps(p) \/ WaitSleeps(p) \/ WaitNoChild(p)
                        \/ Exec(p) \/ ExecFails(p))

\* What the kernel does for p once it has control.
KernelStep(p) ==
  \/ TrapKilled(p) \/ TrapPreempts(p) \/ TrapReturns(p)
  \/ GiveChild(p) \/ ExitSchedules(p) \/ WaitKilled(p)
  \/ pc[p] # "user" /\ (\/ WaitReaps(p) \/ WaitSleeps(p) \/ WaitNoChild(p)
                        \/ Exec(p) \/ ExecFails(p))

InitStep == StartUserMain \/ UserMainFails \/ InitEnds

Next ==
  \/ \E p \in Pid : UserStep(p) \/ KernelStep(p)
  \/ \E p \in Pid, asks \in BOOLEAN : Tick(p, asks)
  \/ InitStep \/ CpuIdle \/ KernelTick \/ Stopped

Spec == Init /\ [][Next]_vars

\* The kernel runs on, and the timer keeps asking: its interrupt stays pending
\* while the kernel runs and is taken when user mode is entered.
Fairness ==
  /\ WF_vars(InitStep \/ CpuIdle \/ \E p \in Pid : KernelStep(p))
  /\ SF_vars(\E p \in Pid : Tick(p, TRUE))

FairSpec == Spec /\ Fairness
-----------------------------------------------------------------------------
(* Properties *)

Sleeps(p) == state[p] = "SLEEPING"

\* cptr, yptr and optr of every process spell out exactly the set of its
\* children, so do_wait's scan misses none and do_exit leaves none behind.
ChildLists ==
  \A p \in Proc :
    /\ Chain(cptr[p]) = {q \in Live : parent[q] = p}
    /\ \A q \in Chain(cptr[p]) :
         /\ optr[q] # NULL => yptr[optr[q]] = q
         /\ yptr[q] = NULL => cptr[p] = q

\* A process that has left do_exit has no children: nobody's exit is reported
\* to a parent that will never wait for it.
ParentsAlive ==
  \A q \in Live : parent[q] = idleproc \/ pc[parent[q]] # "dead"

\* No lost wakeup: while a process sleeps in do_wait, the child it waits for
\* exists and has not exited.
NoLostWakeup ==
  \A p \in Pid : Sleeps(p) =>
    /\ Candidates(p, wpid[p]) # {}
    /\ Zombies(Candidates(p, wpid[p])) = {}

\* proc_list, the hash lists, the states and nr_process (which counts idleproc)
\* agree on which processes exist.
TablesAgree ==
  /\ hashed = Live
  /\ Live = {p \in Pid : state[p] # "UNUSED"}
  /\ IsInjective(proc_list)
  /\ nr_process = Len(proc_list) + 1

\* Only a process that may run has the CPU: RUNNABLE, or finishing do_exit.
CurrentMayRun ==
  state[current] = "RUNNABLE" \/ (state[current] = "ZOMBIE" /\ pc[current] = "exit")

\* wakeup_proc's assert(state != ZOMBIE) cannot fail: wait_state is set only
\* while a process sleeps.
WaitStateMeansSleep ==
  \A p \in Proc : (wait_state[p] = "WT_CHILD") <=> Sleeps(p)

\* The processes cannot all wait for each other: after the boot, idleproc never
\* gets the CPU.
NeverAllAsleep == current = idleproc => pc[initproc] = "start"

\* The asserts of init_main hold when its loop ends.
InitCheckPasses == halted # "init check failed"

\* mm_count counts the processes that use an mm_struct: it is freed by the last
\* of them, and not before.
MmCounted ==
  \A m \in Mm : mm_count[m] = Cardinality({p \in Pid : mm[p] = m})

\* Where a process stands fits its state: only current is on its way out of
\* trap() or in do_exit, a sleeping process is in do_wait, initproc never
\* leaves the kernel.
PlacesFit ==
  /\ state[idleproc] = "RUNNABLE" /\ pc[idleproc] = "idle"
  /\ pc[initproc] \in {"start", "loop", "wait"}
  /\ \A p \in Pid :
       /\ (pc[p] = "none") <=> (state[p] = "UNUSED")
       /\ (pc[p] \in {"exit", "dead"}) <=> (state[p] = "ZOMBIE")
       /\ Sleeps(p) => pc[p] = "wait"
       /\ pc[p] \in {"exit", "ret"} => current = p
       /\ pc[p] \in {"start", "loop"} => p = initproc
       /\ pc[p] # "idle"

\* Only a process that has not begun to exit has an address space.
MmOwners ==
  \A p \in Proc : mm[p] # NULL => p \in Pid /\ pc[p] \notin {"none", "exit", "dead"}

\* The inductive invariant of the scheduling and of the counters.
IInv == /\ TypeOK /\ PlacesFit /\ CurrentMayRun /\ WaitStateMeansSleep
        /\ TablesAgree /\ MmOwners /\ MmCounted

Children(p) == {q \in Live : parent[q] = p}

\* The sibling pointers of the live processes match each other and cptr, and a
\* free proc_struct has none.  In do_exit's loop the new youngest child keeps the
\* yptr to the sibling just given away, until its own turn.
ListsFit ==
  /\ \A x \in Pid \ Live : /\ parent[x] = NULL /\ cptr[x] = NULL
                           /\ yptr[x] = NULL /\ optr[x] = NULL
  /\ \A p \in Proc : cptr[p] # NULL =>
       /\ cptr[p] \in Children(p)
       /\ pc[p] # "exit" => yptr[cptr[p]] = NULL
  /\ \A q \in Live :
       /\ optr[q] # NULL => /\ optr[q] \in Children(parent[q]) \ {cptr[parent[q]]}
                           /\ yptr[optr[q]] = q
       /\ q # cptr[parent[q]] => /\ yptr[q] \in Children(parent[q])
                                /\ optr[yptr[q]] = q

\* Following optr from cptr[p] leaves out none of p's children.
AllReached ==
  \A p \in Proc : \A S \in SUBSET Pid :
    /\ cptr[p] # NULL => cptr[p] \in S
    /\ \A r \in S : optr[r] # NULL => optr[r] \in S
    => Children(p) \subseteq S

\* The parent of every process but initproc exists and is still in do_exit's
\* loop at the latest.
ParentsFit ==
  /\ initproc \in Live /\ parent[initproc] = idleproc
  /\ \A q \in Live \ {initproc} : parent[q] \in Live /\ pc[parent[q]] # "dead"

\* Nobody is its own ancestor: among any processes there is one whose parent is
\* not among them, and one that is nobody's parent.
NoCycle ==
  \A S \in SUBSET Live : S # {} =>
    /\ \E x \in S : parent[x] \notin S
    /\ \E w \in S : \A x \in S : parent[x] # w

\* NoLostWakeup in terms of parent: what p waits for exists and has not exited.
WaitersFit ==
  \A p \in Pid : Sleeps(p) =>
    /\ \E q \in Children(p) : wpid[p] \in {ANY, q}
    /\ \A q \in Children(p) : wpid[p] \in {ANY, q} => state[q] # "ZOMBIE"

Family == ListsFit /\ AllReached /\ ParentsFit /\ NoCycle /\ WaitersFit

\* The inductive invariant with the family of processes.
FamilyInv == IInv /\ Family /\ NeverAllAsleep /\ InitCheckPasses

\* Nobody takes a proc_struct away but its parent, by waiting for it.
ReapedByParent ==
  [][\A p \in Pid : state[p] # "UNUSED" /\ state'[p] = "UNUSED" =>
       state[p] = "ZOMBIE" /\ pc[p] = "dead" /\ current = parent[p]]_vars

\* do_kill wakes a process it finds asleep, so that it can see PF_EXITING.
KillSeen == \A p \in Pid : ~ exiting[p] /\ exiting'[p] => state'[p] # "SLEEPING"

KillWakes == [][KillSeen]_vars

\* The round robin starves nobody: a RUNNABLE process gets the CPU.
RunnableRuns ==
  \A p \in Pid : state[p] = "RUNNABLE" ~> (current = p \/ halted # "no")

\* A process left to initproc is waited for.
OrphansReaped ==
  \A p \in Pid : (state[p] = "ZOMBIE" /\ parent[p] = initproc)
                   ~> (state[p] = "UNUSED" \/ halted # "no")

\* do_kill kills: a process marked PF_EXITING exits.
KilledDies ==
  \A p \in Pid : exiting[p] ~> (state[p] \in {"ZOMBIE", "UNUSED"} \/ halted # "no")
=============================================================================
