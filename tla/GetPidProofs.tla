---------------------------- MODULE GetPidProofs ----------------------------
(***************************************************************************)
(* Theorems about get_pid for every MAX_PROCESS < MAX_PID: the inductive   *)
(* invariant Inv of GetPid, and the implementation of PidAlloc.            *)
(***************************************************************************)
EXTENDS GetPid, ListLemmas

-----------------------------------------------------------------------------
\* UniquePids, said of the indices of a list.
LEMMA UniqueIndex ==
  ASSUME proc_list \in Seq(PidSet), UniquePids
  PROVE  \A i, j \in 1 .. Len(proc_list) :
           proc_list[i] = proc_list[j] => i = j
<1>1. DOMAIN proc_list = 1 .. Len(proc_list)
  OBVIOUS
<1> QED BY <1>1 DEF UniquePids, IsInjective
-----------------------------------------------------------------------------
(* The inductive invariant *)

LEMMA InitInv == Init => Inv
BY PidRoomAssumption
   DEF Init, Inv, TypeOK, UniquePids, WindowIsFree, ScannedIsFree, Bounds,
       PidSet, IsInjective

\* Handing out a pid no element of the list has, below a window that holds no
\* element either, keeps the invariant.
LEMMA ReturnInv ==
  ASSUME TypeOK, UniquePids, NEW pid \in PidSet, Return(pid),
         next_safe' \in 1 .. MAX_PID,
         \A i \in 1 .. Len(proc_list) :
           ~ (pid <= proc_list[i] /\ proc_list[i] < next_safe'),
         pid < next_safe'
  PROVE  Inv'
<1> USE PidRoomAssumption DEF TypeOK, PidSet
<1>1. /\ proc_list' \in Seq(PidSet) /\ Len(proc_list') = Len(proc_list) + 1
      /\ proc_list'[1] = pid
      /\ \A i \in 2 .. Len(proc_list') : proc_list'[i] = proc_list[i-1]
  BY PushFront DEF Return
<1>2. \A i \in 2 .. Len(proc_list') :
         i - 1 \in 1 .. Len(proc_list) /\ proc_list'[i] = proc_list[i-1]
  BY <1>1
<1>3. TypeOK'
  BY <1>1 DEF Return
<1>4. \A i \in 1 .. Len(proc_list) :
         /\ proc_list[i] # pid
         /\ ~ (pid < proc_list[i] /\ proc_list[i] < next_safe')
  BY DEF Return
<1>5. UniquePids'
  <2> SUFFICES ASSUME NEW i \in 1 .. Len(proc_list'),
                      NEW j \in 1 .. Len(proc_list'),
                      proc_list'[i] = proc_list'[j], i < j
               PROVE  FALSE
    BY <1>1 DEF UniquePids, IsInjective
  <2>0. j \in 2 .. Len(proc_list')
    BY <1>1
  <2>1. j - 1 \in 1 .. Len(proc_list) /\ proc_list'[j] = proc_list[j-1]
    BY <2>0, <1>2
  <2>2. CASE i = 1
    BY <2>1, <2>2, <1>1, <1>4
  <2>3. CASE i # 1
    <3>1. i \in 2 .. Len(proc_list')
      BY <2>3, <1>1
    <3>2. i - 1 \in 1 .. Len(proc_list) /\ proc_list'[i] = proc_list[i-1]
      BY <3>1, <1>2
    <3>3. i - 1 = j - 1
      BY <3>2, <2>1, UniqueIndex DEF TypeOK
    <3> QED BY <3>3
  <2> QED BY <2>2, <2>3
<1>6. WindowIsFree'
  <2> SUFFICES ASSUME NEW i \in 1 .. Len(proc_list')
               PROVE  ~ (pid < proc_list'[i] /\ proc_list'[i] < next_safe')
    BY DEF WindowIsFree, Return
  <2>1. CASE i = 1
    BY <2>1, <1>1
  <2>2. CASE i # 1
    <3>1. i \in 2 .. Len(proc_list')
      BY <2>2, <1>1
    <3> QED BY <3>1, <1>2, <1>4
  <2> QED BY <2>1, <2>2
<1>7. ScannedIsFree' /\ Bounds'
  BY DEF ScannedIsFree, Bounds, Return
<1> QED BY <1>3, <1>5, <1>6, <1>7 DEF Inv

LEMMA StartScanInv ==
  ASSUME Inv, NEW pid \in PidSet, StartScan(pid)
  PROVE  Inv'
BY PidRoomAssumption
   DEF Inv, TypeOK, UniquePids, WindowIsFree, ScannedIsFree, Bounds, PidSet,
       StartScan

LEMMA UnlinkInv ==
  ASSUME Inv, Unlink
  PROVE  Inv'
<1>1. /\ TypeOK /\ UniquePids /\ WindowIsFree /\ Bounds
      /\ pc = "out" /\ UNCHANGED <<last_pid, next_safe, pc, le>>
  BY DEF Inv, Unlink
<1>2. proc_list \in Seq(PidSet)
  BY <1>1 DEF TypeOK
<1>3. PICK i \in 1 .. Len(proc_list) : proc_list' = RemoveAt(proc_list, i)
  BY DEF Unlink
<1>4. /\ proc_list' \in Seq(PidSet) /\ Len(proc_list') = Len(proc_list) - 1
      /\ \A j \in 1 .. Len(proc_list') :
            proc_list'[j] = IF j < i THEN proc_list[j] ELSE proc_list[j+1]
  BY <1>2, <1>3, RemoveOne
<1>5. \A j \in 1 .. Len(proc_list') : \E k \in 1 .. Len(proc_list) :
         /\ proc_list'[j] = proc_list[k]
         /\ k = IF j < i THEN j ELSE j + 1
  BY <1>2, <1>4
<1>6. TypeOK'
  <2>1. le = 1 /\ Len(proc_list') \in Nat
    BY <1>1, <1>4 DEF Bounds
  <2> QED BY <1>1, <1>4, <2>1 DEF TypeOK
<1>7. UniquePids'
  <2> SUFFICES ASSUME NEW j \in 1 .. Len(proc_list'),
                      NEW k \in 1 .. Len(proc_list'),
                      proc_list'[j] = proc_list'[k]
               PROVE  j = k
    BY <1>4 DEF UniquePids, IsInjective
  <2>1. PICK a \in 1 .. Len(proc_list) :
          proc_list'[j] = proc_list[a] /\ a = IF j < i THEN j ELSE j + 1
    BY <1>5
  <2>2. PICK b \in 1 .. Len(proc_list) :
          proc_list'[k] = proc_list[b] /\ b = IF k < i THEN k ELSE k + 1
    BY <1>5
  <2>3. a = b
    BY <2>1, <2>2, <1>1, <1>2, UniqueIndex
  <2> QED BY <2>1, <2>2, <2>3
<1>8. WindowIsFree'
  BY <1>1, <1>5 DEF WindowIsFree
<1>9. ScannedIsFree' /\ Bounds'
  <2>1. proc_list' # << >> => proc_list # << >>
    BY <1>2, <1>4
  <2> QED BY <1>1, <2>1 DEF ScannedIsFree, Bounds
<1> QED BY <1>6, <1>7, <1>8, <1>9 DEF Inv

LEMMA StepInv == Inv /\ [Next]_vars => Inv'
<1> SUFFICES ASSUME Inv, [Next]_vars PROVE Inv'
  OBVIOUS
<1> USE PidRoomAssumption DEF Inv, TypeOK, PidSet
<1>1. CASE CallInWindow
  <2>1. \A i \in 1 .. Len(proc_list) :
          ~ (last_pid + 1 <= proc_list[i] /\ proc_list[i] < next_safe)
    BY <1>1 DEF CallInWindow, WindowIsFree
  <2> QED BY <1>1, <2>1, ReturnInv DEF CallInWindow
<1>2. CASE CallWraps
  BY <1>2, StartScanInv DEF CallWraps
<1>3. CASE CallLeavesWindow
  BY <1>3, StartScanInv DEF CallLeavesWindow
<1>4. CASE SkipTaken
  <2>1. TypeOK' /\ Bounds' /\ WindowIsFree' /\ UniquePids'
    BY <1>4 DEF SkipTaken, Looking, Bounds, WindowIsFree, UniquePids
  <2>2. ScannedIsFree'
    BY <1>4 DEF SkipTaken, Looking, ScannedIsFree
  <2> QED BY <2>1, <2>2
<1>5. CASE RestartScan
  BY <1>5, StartScanInv DEF RestartScan, Looking
<1>6. CASE NarrowWindow
  <2>1. TypeOK' /\ Bounds' /\ WindowIsFree' /\ UniquePids'
    BY <1>6 DEF NarrowWindow, Looking, Bounds, WindowIsFree, UniquePids
  <2>2. ScannedIsFree'
    <3>1. /\ le' = le + 1 /\ last_pid' = last_pid /\ proc_list' = proc_list
          /\ pc' = "scan" /\ pc = "scan" /\ le \in 1 .. Len(proc_list)
          /\ next_safe' <= next_safe /\ next_safe' <= proc_list[le]
          /\ last_pid < proc_list[le] /\ next_safe' \in Nat
      BY <1>6 DEF NarrowWindow, Looking
    <3>2. ASSUME NEW i \in 1 .. le
          PROVE  ~ (last_pid <= proc_list[i] /\ proc_list[i] < next_safe')
      <4>1. proc_list[i] \in Nat
        BY <3>1
      <4>2. CASE i = le
        BY <3>1, <4>1, <4>2
      <4>3. CASE i # le
        <5>1. i \in 1 .. le - 1
          BY <3>1, <4>3
        <5> QED BY <3>1, <4>1, <5>1 DEF ScannedIsFree
      <4> QED BY <4>2, <4>3
    <3>3. \A i \in 1 .. le' - 1 : i \in 1 .. le
      BY <3>1
    <3> QED BY <3>1, <3>2, <3>3 DEF ScannedIsFree
  <2> QED BY <2>1, <2>2
<1>7. CASE PassSmaller
  <2>1. TypeOK' /\ Bounds' /\ WindowIsFree' /\ UniquePids'
    BY <1>7 DEF PassSmaller, Looking, Bounds, WindowIsFree, UniquePids
  <2>2. ScannedIsFree'
    BY <1>7 DEF PassSmaller, Looking, ScannedIsFree
  <2> QED BY <2>1, <2>2
<1>8. CASE EndScan
  <2>1. \A i \in 1 .. Len(proc_list) :
          ~ (last_pid <= proc_list[i] /\ proc_list[i] < next_safe)
    BY <1>8 DEF EndScan, ScannedIsFree
  <2> QED BY <1>8, <2>1, ReturnInv DEF EndScan, Bounds
<1>9. CASE Unlink
  BY <1>9, UnlinkInv
<1>10. CASE UNCHANGED vars
  BY <1>10 DEF vars, UniquePids, WindowIsFree, ScannedIsFree, Bounds
<1> QED
  BY <1>1, <1>2, <1>3, <1>4, <1>5, <1>6, <1>7, <1>8, <1>9, <1>10
     DEF Next, Call, Scan
-----------------------------------------------------------------------------
(* Theorems *)

\* At every step of get_pid: the types, unique pids on proc_list, a window
\* free of live pids, and a scan that has excluded what it has looked at.
THEOREM GetPidCorrect == Spec => []Inv
<1> QED BY InitInv, StepInv, PTL DEF Spec

\* The pids of live processes are pairwise different, whatever was forked and
\* reaped since the counters were last reset.
THEOREM PidsAreUnique == Spec => []UniquePids
<1>1. Inv => UniquePids
  BY DEF Inv
<1> QED BY <1>1, GetPidCorrect, PTL

\* get_pid, with its cached window and its restarts, implements the abstract
\* allocator: it only ever hands out a pid no live process has.
THEOREM ImplementsPidAlloc == Spec => AllocatesFresh
<1>1. Init => Abstract!Init
  BY DEF Init, Abstract!Init, Live, Range, PidSet
<1>2. Inv /\ [Next]_vars => [Abstract!Next]_<<Live, Len(proc_list)>>
  <2> SUFFICES ASSUME Inv, [Next]_vars
               PROVE  [Abstract!Next]_<<Live, Len(proc_list)>>
    OBVIOUS
  <2>1. proc_list \in Seq(PidSet) /\ UniquePids /\ last_pid \in 1 .. MAX_PID
    BY DEF Inv, TypeOK
  <2>2. ASSUME NEW pid \in PidSet \ Live, Return(pid) PROVE Abstract!Alloc
    <3>1. Live' = Live \cup {pid}
      BY <2>1, <2>2, PushFrontRange DEF Return, Live
    <3>2. Len(proc_list') = Len(proc_list) + 1
      BY <2>1, <2>2, PushFront DEF Return
    <3> QED BY <3>1, <3>2 DEF Abstract!Alloc
  <2>3. \A x \in Live : \E i \in 1 .. Len(proc_list) : x = proc_list[i]
    BY <2>1 DEF Live, Range
  <2>4. CASE CallInWindow
    <3>1. last_pid + 1 \in PidSet
      BY <2>1, <2>4, PidRoomAssumption DEF CallInWindow, PidSet
    <3>2. last_pid + 1 \notin Live
      BY <2>1, <2>3, <2>4 DEF CallInWindow, Inv, TypeOK, WindowIsFree, PidSet
    <3> QED BY <2>2, <2>4, <3>1, <3>2 DEF CallInWindow, Abstract!Next
  <2>5. CASE EndScan
    <3>1. last_pid \in PidSet
      BY <2>1, <2>5, PidRoomAssumption
         DEF EndScan, Inv, TypeOK, Bounds, PidSet
    <3>2. last_pid \notin Live
      BY <2>1, <2>3, <2>5
         DEF EndScan, Inv, TypeOK, Bounds, ScannedIsFree, PidSet
    <3> QED BY <2>2, <2>5, <3>1, <3>2 DEF EndScan, Abstract!Next
  <2>6. CASE Unlink
    <3>1. PICK i \in 1 .. Len(proc_list) : proc_list' = RemoveAt(proc_list, i)
      BY <2>6 DEF Unlink
    <3>2. Live' = Live \ {proc_list[i]}
      BY <2>1, <3>1, RemoveOneRange DEF Live, UniquePids
    <3>3. proc_list[i] \in Live
      BY <2>1, <3>1 DEF Live, Range
    <3>4. Len(proc_list') = Len(proc_list) - 1
      BY <2>1, <3>1, RemoveOne
    <3> QED BY <3>2, <3>3, <3>4 DEF Abstract!Next, Abstract!Free
  <2>7. CASE UNCHANGED proc_list
    BY <2>7 DEF Live
  <2> QED
    BY <2>4, <2>5, <2>6, <2>7
       DEF Next, Call, Scan, vars, CallWraps, CallLeavesWindow, StartScan,
           SkipTaken, RestartScan, NarrowWindow, PassSmaller
<1> QED BY <1>1, <1>2, GetPidCorrect, PTL DEF Spec, AllocatesFresh, Abstract!Spec
=============================================================================
