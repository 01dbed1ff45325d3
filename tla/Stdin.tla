------------------------------- MODULE Stdin --------------------------------
(***************************************************************************)
(* The console input device of lab8 (kern/fs/devs/dev_stdin.c): the ring   *)
(* buffer that the keyboard interrupt fills and that readers empty,        *)
(* sleeping on wait_queue while there is nothing to read.                  *)
(*                                                                         *)
(* Each section between local_intr_save and local_intr_restore is a step.  *)
(* A reader that finds the buffer empty puts itself on wait_queue, lets    *)
(* interrupts in and then calls schedule(); the kernel is not preempted,   *)
(* so until then only an interrupt comes between.  pc says where a reader  *)
(* stands:                                                                 *)
(*   user    not in dev_stdin_read                                         *)
(*   marks   on the wait queue, before schedule()                          *)
(*   off     in schedule()                                                 *)
(* The wait queue itself (wait.c) and whoever wakes a reader for another   *)
(* reason are not in the repository: wait_current_set, wait_current_del    *)
(* and wakeup_queue do here what their use in dev_stdin.c shows.           *)
(***************************************************************************)
EXTENDS Integers, Sequences, FiniteSets

CONSTANTS
  Reader,
  Char,            \* characters, '\0' not among them
  STDIN_BUFSIZE,
  MaxLen,          \* bound: the longest read
  MaxTyped         \* bound: how many characters are typed

ASSUME StdinAssumption ==
  /\ STDIN_BUFSIZE \in Nat \ {0}
  /\ MaxLen \in Nat
  /\ MaxTyped \in Nat

VARIABLES
  stdin_buffer, p_rpos, p_wpos,
  wait_queue,      \* the readers on it
  wakeup_flags,    \* of each reader's wait_t
  asleep,          \* the readers whose state is PROC_SLEEPING
  pc,
  rest,            \* len - ret of each reader
  typed, out,      \* history: the characters typed, and those read
  overrun          \* history: a character was typed into a full buffer

ring == <<stdin_buffer, p_wpos>>
vars == <<ring, p_rpos, wait_queue, wakeup_flags, asleep, pc, rest, typed, out, overrun>>

Slots == 0 .. STDIN_BUFSIZE - 1

TypeOK ==
  /\ stdin_buffer \in [Slots -> Char]
  /\ p_rpos \in Nat /\ p_wpos \in Nat
  /\ p_wpos - p_rpos \in 0 .. STDIN_BUFSIZE
  /\ wait_queue \in SUBSET Reader
  /\ wakeup_flags \in [Reader -> {"WT_INTERRUPTED", "WT_KBD"}]
  /\ asleep \in SUBSET Reader
  /\ pc \in [Reader -> {"user", "marks", "off"}]
  /\ rest \in [Reader -> 0 .. MaxLen]
  /\ typed \in Seq(Char) /\ out \in Seq(Char) /\ overrun \in BOOLEAN

\* stdin_device_init
Init ==
  /\ \E c \in Char : stdin_buffer = [i \in Slots |-> c]
  /\ p_rpos = 0 /\ p_wpos = 0
  /\ wait_queue = {} /\ asleep = {}
  /\ wakeup_flags = [r \in Reader |-> "WT_INTERRUPTED"]
  /\ pc = [r \in Reader |-> "user"]
  /\ rest = [r \in Reader |-> 0]
  /\ typed = <<>> /\ out = <<>> /\ overrun = FALSE

\* The n oldest characters nobody has read.
Unread(n) == [i \in 1 .. n |-> stdin_buffer[(p_rpos + i - 1) % STDIN_BUFSIZE]]
-----------------------------------------------------------------------------
(* The keyboard interrupt *)

\* Mutant: a full buffer takes one more character.
HasRoom_OneMore == p_wpos - p_rpos <= STDIN_BUFSIZE

HasRoom == p_wpos - p_rpos < STDIN_BUFSIZE

\* Mutant: one sleeping reader is woken, the others stay on the queue.
WakeupQueue_One ==
  IF wait_queue = {} THEN UNCHANGED <<wait_queue, wakeup_flags, asleep>>
  ELSE \E r \in wait_queue : /\ wait_queue' = wait_queue \ {r}
                             /\ asleep' = asleep \ {r}
                             /\ wakeup_flags' = [wakeup_flags EXCEPT ![r] = "WT_KBD"]

\* Mutant: the readers are taken off the queue and sleep on.
WakeupQueue_NoWakeup ==
  /\ wait_queue' = {}
  /\ wakeup_flags' = [r \in Reader |-> IF r \in wait_queue THEN "WT_KBD"
                                                           ELSE wakeup_flags[r]]
  /\ UNCHANGED asleep

\* wakeup_queue(wait_queue, WT_KBD, 1): all of them, and off the queue.
WakeupQueue ==
  /\ wait_queue' = {}
  /\ asleep' = asleep \ wait_queue
  /\ wakeup_flags' = [r \in Reader |-> IF r \in wait_queue THEN "WT_KBD"
                                                           ELSE wakeup_flags[r]]

\* dev_stdin_write.  The character is stored before the test for room.
Write(c) ==
  /\ Len(typed) < MaxTyped
  /\ stdin_buffer' = [stdin_buffer EXCEPT ![p_wpos % STDIN_BUFSIZE] = c]
  /\ p_wpos' = IF HasRoom THEN p_wpos + 1 ELSE p_wpos
  /\ WakeupQueue
  /\ typed' = Append(typed, c)
  /\ overrun' = (overrun \/ p_wpos - p_rpos = STDIN_BUFSIZE)
  /\ UNCHANGED <<p_rpos, pc, rest, out>>
-----------------------------------------------------------------------------
(* dev_stdin_read *)

Available == p_wpos - p_rpos

\* How many characters the loop takes for a reader that wants n more.
Taken(n) == IF n <= Available THEN n ELSE Available

\* Mutant: the last character is read again the next time.
Advanced_Short(n) == IF n > 1 THEN p_rpos + n - 1 ELSE p_rpos + n

Advanced(n) == p_rpos + n

\* wait_current_set; queued is the wait queue without r.
WaitCurrentSet(r, queued) ==
  /\ wait_queue' = queued \cup {r}
  /\ wakeup_flags' = [wakeup_flags EXCEPT ![r] = "WT_INTERRUPTED"]
  /\ asleep' = asleep \cup {r}
  /\ pc' = [pc EXCEPT ![r] = "marks"]

\* The loop of reader r, which wants n more characters: it takes what there is,
\* and returns, or goes to sleep.
Loop(r, n, queued) ==
  LET k == Taken(n)
  IN  /\ p_rpos' = Advanced(k)
      /\ out' = out \o Unread(k)
      /\ rest' = [rest EXCEPT ![r] = n - k]
      /\ \/ /\ k = n
            /\ wait_queue' = queued
            /\ pc' = [pc EXCEPT ![r] = "user"]
            /\ UNCHANGED <<wakeup_flags, asleep>>
         \/ k < n /\ WaitCurrentSet(r, queued)
      /\ UNCHANGED <<ring, typed, overrun>>

\* No reader is between its wait_current_set and its schedule().
Free == \A s \in Reader : pc[s] # "marks"

\* A process calls read for n characters.
Read(r, n) == Free /\ pc[r] = "user" /\ Loop(r, n, wait_queue)

SwitchesAway(r) ==
  /\ pc[r] = "marks"
  /\ pc' = [pc EXCEPT ![r] = "off"]
  /\ UNCHANGED <<ring, p_rpos, wait_queue, wakeup_flags, asleep, rest, typed, out, overrun>>

\* The reader looks again only when a key woke it.
TriesAgain(r) == wakeup_flags[r] = "WT_KBD"

\* schedule() returns: wait_current_del, and the loop again or the end of it.
Back(r) ==
  /\ Free /\ pc[r] = "off" /\ r \notin asleep
  /\ \/ TriesAgain(r) /\ Loop(r, rest[r], wait_queue \ {r})
     \/ /\ ~ TriesAgain(r)
        /\ wait_queue' = wait_queue \ {r}
        /\ pc' = [pc EXCEPT ![r] = "user"]
        /\ UNCHANGED <<ring, p_rpos, wakeup_flags, asleep, rest, typed, out, overrun>>

\* Somebody wakes a sleeping reader for another reason, a kill.
Interrupt(r) ==
  /\ Free /\ r \in asleep
  /\ asleep' = asleep \ {r}
  /\ UNCHANGED <<ring, p_rpos, wait_queue, wakeup_flags, pc, rest, typed, out, overrun>>

Next ==
  \/ \E c \in Char : Write(c)
  \/ \E r \in Reader : \/ \E n \in 0 .. MaxLen : Read(r, n)
                       \/ SwitchesAway(r) \/ Back(r) \/ Interrupt(r)

Spec == Init /\ [][Next]_vars
-----------------------------------------------------------------------------
(* Properties *)

\* Until a character is typed into a full buffer, what was read and what is
\* left in the ring are exactly what was typed, in that order, however many
\* readers share the device and wherever the ring wraps.
InOrder == ~ overrun => out \o Unread(Available) = typed

\* No lost wakeup: nobody is on the wait queue while there is something to
\* read, not even a reader that an interrupt caught before its schedule().
NoLostWakeup == wait_queue # {} => Available = 0

\* A reader that sleeps is on the wait queue, where the interrupt finds it.
SleepersQueued == asleep \subseteq wait_queue

\* Where the pointers stand and what the slots between them hold, as long as
\* no character came into a full buffer.
RingHolds ==
  ~ overrun =>
    /\ p_wpos = Len(typed) /\ p_rpos = Len(out)
    /\ \A i \in 1 .. p_rpos : out[i] = typed[i]
    /\ \A j \in p_rpos + 1 .. p_wpos : stdin_buffer[(j - 1) % STDIN_BUFSIZE] = typed[j]

\* The inductive invariant.
IInv == TypeOK /\ NoLostWakeup /\ SleepersQueued /\ RingHolds

\* A character typed while a reader is in the device does not stay unread.
CharactersRead ==
  \A r \in Reader : (pc[r] # "user" /\ Available > 0) ~> (Available = 0 \/ pc[r] = "user")
=============================================================================
