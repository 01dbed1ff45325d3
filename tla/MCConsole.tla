----------------------------- MODULE MCConsole -----------------------------
(***************************************************************************)
(* The two ends of the console and what is between: the input device that  *)
(* readers and the keyboard interrupt share (Stdin), the library that      *)
(* prints and reads numbers (Lib), and the shell that reads lines and runs *)
(* them (Shell), each alone.  which says who runs.                         *)
(***************************************************************************)
EXTENDS Stdin

CONSTANTS
  Width, MaxField, MaxSize, MemSize,    \* of Lib
  Letter, BUFSIZE, EXEC_MAX_ARG_NUM     \* of Shell

ASSUME ConsoleAssumption ==
  /\ Width \in Nat \ {0} /\ {MaxField, MaxSize, MemSize} \subseteq Nat \ {0}
  /\ BUFSIZE \in Nat \ {0} /\ EXEC_MAX_ARG_NUM \in Nat

VARIABLES which, call, sh, buffer, procs

shell_vars == <<sh, buffer, procs>>
console_vars == <<which, vars, call, shell_vars>>

Library == INSTANCE Lib
User == INSTANCE Shell

ConsoleInit == which \in {"device", "library", "shell"} /\ Init /\ Library!Init /\ User!Init

Device(A) == which = "device" /\ A /\ UNCHANGED <<which, call, shell_vars>>

ConsoleNext ==
  \/ Device(Next)
  \/ which = "library" /\ Library!Next /\ UNCHANGED <<which, vars, shell_vars>>
  \/ which = "shell" /\ User!Next /\ UNCHANGED <<which, vars, call>>

\* schedule() returns to every reader that can run.
ConsoleSpec ==
  /\ ConsoleInit /\ [][ConsoleNext]_console_vars
  /\ \A r \in Reader : /\ WF_console_vars(Device(SwitchesAway(r)))
                       /\ SF_console_vars(Device(Back(r)))
-----------------------------------------------------------------------------
\* The properties of the parts under names of their own.  Numbers printed are read back,
\* and overlapping memory is moved whole.
LibraryExact == Library!LibraryExact

\* The shell: programs get the words of their command as they were typed, and run in
\* turn.
WordsExact == User!WordsExact
InTurn == User!InTurn
=============================================================================
