------------------------------- MODULE MCLive -------------------------------
(***************************************************************************)
(* What must go on in the process table of Lab5: get_pid, which searches   *)
(* with interrupts off (GetPid), and the processes under the timer (Proc). *)
(* which says who is at work; the other stays as it was set up.            *)
(***************************************************************************)
EXTENDS GetPid

\* Of Proc, whose pids any free pid stands for.
CONSTANTS Pid, initproc, idleproc, NULL, ANY, Mm, CloneFlags, KillTargets

VARIABLES
  which,
  state, parent, cptr, yptr, optr, wait_state, exiting, need_resched, mm,
  linked, hashed, nr_process, current, mm_count, stands, wpid, halted

table_vars == <<state, parent, cptr, yptr, optr, wait_state, exiting, need_resched, mm,
                linked, hashed, nr_process, current, mm_count, stands, wpid, halted>>
all_vars == <<which, vars, table_vars>>

Table == INSTANCE Proc WITH proc_list <- linked, pc <- stands

LiveInit == which \in {"get_pid", "table"} /\ Init /\ Table!Init

GetsPid(A) == which = "get_pid" /\ A /\ UNCHANGED <<which, table_vars>>
Processes(A) == which = "table" /\ A /\ UNCHANGED <<which, vars>>

LiveNext == GetsPid(Next) \/ Processes(Table!Next)

\* The scan of get_pid goes on; so does the kernel, and the timer keeps coming.
LiveSpec ==
  /\ LiveInit /\ [][LiveNext]_all_vars
  /\ WF_all_vars(GetsPid(Scan))
  /\ WF_all_vars(Processes(Table!InitStep \/ Table!CpuIdle
                             \/ \E p \in Pid : Table!KernelStep(p)))
  /\ SF_all_vars(Processes(\E p \in Pid : Table!Tick(p, TRUE)))
-----------------------------------------------------------------------------
\* The processes: one that can run gets the CPU, and one that is left to initproc is
\* waited for.
RunnableRuns == which = "table" => Table!RunnableRuns
OrphansReaped == Table!OrphansReaped
=============================================================================
