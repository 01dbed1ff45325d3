------------------------------- MODULE MCProc -------------------------------
(***************************************************************************)
(* Instances of Proc for TLC.  User pids are interchangeable in the safety *)
(* runs, and so are address spaces.                                        *)
(***************************************************************************)
EXTENDS Proc, TLC

UserPids == Pid \ {initproc}
PidSymmetry == Permutations(UserPids)
Symmetry == PidSymmetry \cup Permutations(Mm)
=============================================================================
