------------------------------- MODULE GetPid -------------------------------
(***************************************************************************)
(* get_pid of Lab5/kern/process/proc.c: the pid allocator of do_fork.      *)
(*                                                                         *)
(* The function keeps two static variables between calls.  last_pid is the *)
(* pid handed out last; next_safe is a cached upper bound: every pid       *)
(* strictly between the two was free when proc_list was last scanned, so a *)
(* call that stays below next_safe skips the scan.  A call that reaches    *)
(* next_safe, or wraps past MAX_PID, rescans the list, one element per     *)
(* step of this model.  do_fork calls get_pid and links the new process    *)
(* with interrupts off, on one CPU, so a process can be unlinked           *)
(* (remove_links in do_wait) only between two calls.                       *)
(***************************************************************************)
EXTENDS Integers, Sequences, Functions, SequencesExt

CONSTANTS MAX_PROCESS,  \* bound on nr_process, which counts idleproc too
          MAX_PID       \* pids are 1 .. MAX_PID-1

\* The static_assert at the head of get_pid.
ASSUME PidRoomAssumption ==
  /\ MAX_PROCESS \in Nat \ {0}
  /\ MAX_PID \in Nat
  /\ MAX_PID > MAX_PROCESS

VARIABLES
  proc_list,   \* the pids of the linked processes, head of the list first
  last_pid,
  next_safe,
  pc,          \* "out": no call in progress; "scan": inside the while loop
  le           \* index in proc_list of the element the loop looks at next

vars == <<proc_list, last_pid, next_safe, pc, le>>

PidSet == 1 .. MAX_PID - 1
Live == Range(proc_list)

TypeOK ==
  /\ proc_list \in Seq(PidSet)
  /\ last_pid \in 1 .. MAX_PID
  /\ next_safe \in 1 .. MAX_PID
  /\ pc \in {"out", "scan"}
  /\ le \in 1 .. Len(proc_list) + 1

Init ==
  /\ proc_list = << >>
  /\ last_pid = MAX_PID
  /\ next_safe = MAX_PID
  /\ pc = "out"
  /\ le = 1
-----------------------------------------------------------------------------
(* The call *)

\* return last_pid, followed by set_links, which adds the process at the head.
Return(pid) ==
  /\ proc_list' = <<pid>> \o proc_list
  /\ last_pid' = pid
  /\ pc' = "out"
  /\ le' = 1

\* inside: and repeat: start a scan of the whole list for candidate pid.
StartScan(pid) ==
  /\ last_pid' = pid
  /\ next_safe' = MAX_PID
  /\ pc' = "scan"
  /\ le' = 1
  /\ UNCHANGED proc_list

\* do_fork only gets here while nr_process < MAX_PROCESS.
MayFork == Len(proc_list) + 1 < MAX_PROCESS

\* Mutant: the call trusts the window one pid too far.
CallInWindow_OffByOne ==
  /\ pc = "out" /\ MayFork
  /\ last_pid + 1 < MAX_PID
  /\ last_pid + 1 <= next_safe
  /\ Return(last_pid + 1)
  /\ UNCHANGED next_safe

\* The next pid is inside the cached window: no scan.
CallInWindow ==
  /\ pc = "out" /\ MayFork
  /\ last_pid + 1 < MAX_PID
  /\ last_pid + 1 < next_safe
  /\ Return(last_pid + 1)
  /\ UNCHANGED next_safe

CallWraps ==
  /\ pc = "out" /\ MayFork
  /\ last_pid + 1 >= MAX_PID
  /\ StartScan(1)

CallLeavesWindow ==
  /\ pc = "out" /\ MayFork
  /\ last_pid + 1 < MAX_PID
  /\ last_pid + 1 >= next_safe
  /\ StartScan(last_pid + 1)
-----------------------------------------------------------------------------
(* The body of the loop, for the process at index le *)

Looking == pc = "scan" /\ le <= Len(proc_list)

\* The candidate is taken and its successor is still below next_safe.
SkipTaken ==
  /\ Looking /\ proc_list[le] = last_pid
  /\ last_pid + 1 < next_safe
  /\ last_pid' = last_pid + 1
  /\ le' = le + 1
  /\ UNCHANGED <<proc_list, next_safe, pc>>

\* Mutant: the taken candidate is kept and the scan starts over.
RestartScan_KeepsPid ==
  /\ Looking /\ proc_list[le] = last_pid
  /\ last_pid + 1 >= next_safe
  /\ StartScan(last_pid)

\* Mutant: the search does not wrap past MAX_PID.
RestartScan_NoWrap ==
  /\ Looking /\ proc_list[le] = last_pid
  /\ last_pid + 1 >= next_safe
  /\ StartScan(last_pid + 1)

\* The candidate is taken and its successor leaves the window: goto repeat.
RestartScan ==
  /\ Looking /\ proc_list[le] = last_pid
  /\ last_pid + 1 >= next_safe
  /\ StartScan(IF last_pid + 1 >= MAX_PID THEN 1 ELSE last_pid + 1)

\* Mutant: the bound is narrowed to the last larger pid seen, not the least.
NarrowWindow_NotLeast ==
  /\ Looking /\ proc_list[le] > last_pid
  /\ next_safe' = proc_list[le]
  /\ le' = le + 1
  /\ UNCHANGED <<proc_list, last_pid, pc>>

NarrowWindow ==
  /\ Looking /\ proc_list[le] > last_pid
  /\ next_safe' = IF next_safe > proc_list[le] THEN proc_list[le] ELSE next_safe
  /\ le' = le + 1
  /\ UNCHANGED <<proc_list, last_pid, pc>>

PassSmaller ==
  /\ Looking /\ proc_list[le] < last_pid
  /\ le' = le + 1
  /\ UNCHANGED <<proc_list, last_pid, next_safe, pc>>

EndScan ==
  /\ pc = "scan" /\ le = Len(proc_list) + 1
  /\ Return(last_pid)
  /\ UNCHANGED next_safe

\* remove_links: a waited-for process leaves the list.
Unlink ==
  /\ pc = "out"
  /\ \E i \in 1 .. Len(proc_list) : proc_list' = RemoveAt(proc_list, i)
  /\ UNCHANGED <<last_pid, next_safe, pc, le>>
-----------------------------------------------------------------------------
Call == CallInWindow \/ CallWraps \/ CallLeavesWindow

Scan == SkipTaken \/ RestartScan \/ NarrowWindow \/ PassSmaller \/ EndScan

Next == Call \/ Scan \/ Unlink

\* The scan runs with interrupts off: nothing can keep it from going on.
Spec == Init /\ [][Next]_vars /\ WF_vars(Scan)
-----------------------------------------------------------------------------
(* Properties *)

\* Live processes have different pids: find_proc(pid) names one process.
UniquePids == IsInjective(proc_list)

\* Between two calls the cached window holds no live pid, whatever was linked
\* and unlinked since the scan that computed it: the reason get_pid may hand
\* out last_pid + 1 without looking at the list.
WindowIsFree ==
  pc = "out" => \A i \in 1 .. Len(proc_list) :
                  ~ (last_pid < proc_list[i] /\ proc_list[i] < next_safe)

\* During a scan the candidate and the pids above it, below next_safe, differ
\* from every pid already looked at.
ScannedIsFree ==
  pc = "scan" => \A i \in 1 .. le - 1 :
                   ~ (last_pid <= proc_list[i] /\ proc_list[i] < next_safe)

\* The window never lets a call hand out MAX_PID.
Bounds ==
  /\ pc = "out" /\ proc_list # << >> => last_pid < MAX_PID
  /\ pc = "scan" => last_pid < next_safe
  /\ pc = "out" => le = 1

\* Everything get_pid relies on at each step of the scan.
Inv == TypeOK /\ UniquePids /\ WindowIsFree /\ ScannedIsFree /\ Bounds

\* get_pid hands out a pid no live process has (the abstract allocator): each
\* new process makes one more pid live.
Abstract == INSTANCE PidAlloc WITH live <- Live, nr <- Len(proc_list)
AllocatesFresh == Abstract!Spec

\* The goto repeat / wrap-around search ends: MAX_PID > MAX_PROCESS leaves a
\* free pid, and the restarts do not cycle past it.
ScanEnds == pc = "scan" ~> pc = "out"
=============================================================================
