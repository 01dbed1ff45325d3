---------------------------- MODULE StdinProofs -----------------------------
(***************************************************************************)
(* Theorems about the console input device for every number of readers and *)
(* every size of the ring: no wakeup is lost, and what is read is what was *)
(* typed, in order, until a character is typed into a full buffer.         *)
(***************************************************************************)
EXTENDS Stdin, SequenceTheorems, TLAPS

-----------------------------------------------------------------------------
(* The ring *)

\* Division with remainder, for a divisor that is a constant of the model.
LEMMA DivMod ==
  ASSUME NEW B \in Nat \ {0}, NEW j \in Nat
  PROVE  j = B * (j \div B) + (j % B)
BY Z3

\* Two positions less than the size of the ring apart use different slots.
LEMMA SlotsDiffer ==
  ASSUME NEW B \in Nat \ {0}, NEW j \in Nat, NEW k \in Nat, j < k, k < j + B
  PROVE  j % B # k % B
<1> SUFFICES ASSUME j % B = k % B PROVE FALSE
  OBVIOUS
<1> DEFINE a == k \div B
           b == j \div B
<1>1. a \in Int /\ b \in Int
  OBVIOUS
<1>2. k - j = B * a - B * b
  BY DivMod
<1> HIDE DEF a, b
<1>3. k - j = B * (a - b)
  BY <1>1, <1>2
<1>4. CASE a - b <= 0
  BY <1>1, <1>3, <1>4
<1>5. CASE a - b >= 1
  BY <1>1, <1>3, <1>5
<1> QED BY <1>1, <1>4, <1>5

\* What a step of a reader takes out of the ring is a sequence of characters.
LEMMA UnreadType ==
  ASSUME TypeOK, NEW k \in 0 .. Available
  PROVE  /\ Unread(k) \in Seq(Char) /\ Len(Unread(k)) = k
         /\ \A i \in 1 .. k : Unread(k)[i] = stdin_buffer[(p_rpos + i - 1) % STDIN_BUFSIZE]
<1>1. k \in Nat
  BY DEF TypeOK, Available
<1>2. \A i \in 1 .. k : (p_rpos + i - 1) % STDIN_BUFSIZE \in Slots
  BY <1>1, StdinAssumption DEF TypeOK, Slots
<1>3. \A i \in 1 .. k : stdin_buffer[(p_rpos + i - 1) % STDIN_BUFSIZE] \in Char
  BY <1>2 DEF TypeOK
<1> QED BY <1>1, <1>3 DEF Unread

LEMMA InitIInv == Init => IInv
<1> SUFFICES ASSUME Init PROVE IInv
  OBVIOUS
<1>1. TypeOK
  BY StdinAssumption DEF Init, TypeOK, Slots
<1>2. NoLostWakeup /\ SleepersQueued
  BY DEF Init, NoLostWakeup, SleepersQueued
<1>3. RingHolds
  BY DEF Init, RingHolds
<1> QED BY <1>1, <1>2, <1>3 DEF IInv

\* The interrupt fills one slot, which is the slot of no other unread character,
\* and empties the wait queue.
LEMMA WriteIInv ==
  ASSUME IInv, NEW c \in Char, Write(c)
  PROVE  IInv'
<1> USE DEF Write
<1>1. /\ p_rpos \in Nat /\ p_wpos \in Nat /\ p_wpos - p_rpos \in 0 .. STDIN_BUFSIZE
      /\ typed \in Seq(Char) /\ out \in Seq(Char) /\ stdin_buffer \in [Slots -> Char]
      /\ STDIN_BUFSIZE \in Nat \ {0}
  BY StdinAssumption DEF IInv, TypeOK
<1>2. TypeOK'
  <2>1. p_wpos' \in Nat /\ p_wpos' - p_rpos' \in 0 .. STDIN_BUFSIZE
    BY <1>1 DEF HasRoom
  <2>2. stdin_buffer' \in [Slots -> Char] /\ typed' \in Seq(Char)
    <3>1. stdin_buffer' = [stdin_buffer EXCEPT ![p_wpos % STDIN_BUFSIZE] = c]
      BY Zenon
    <3>2. stdin_buffer' \in [Slots -> Char]
      BY <1>1, <3>1, Zenon
    <3>3. typed' = Append(typed, c)
      BY Zenon
    <3>4. typed' \in Seq(Char)
      BY <1>1, <3>3, AppendProperties
    <3> QED BY <3>2, <3>4
  <2>3. /\ wait_queue' \in SUBSET Reader /\ asleep' \in SUBSET Reader
        /\ wakeup_flags' \in [Reader -> {"WT_INTERRUPTED", "WT_KBD"}]
    BY DEF IInv, TypeOK, WakeupQueue
  <2>4. overrun' \in BOOLEAN
    BY Zenon
  <2> QED BY <2>1, <2>2, <2>3, <2>4 DEF IInv, TypeOK
<1>3. NoLostWakeup' /\ SleepersQueued'
  BY DEF IInv, NoLostWakeup, SleepersQueued, WakeupQueue
<1>4. RingHolds'
  <2> SUFFICES ASSUME ~ overrun' PROVE RingHolds'
    BY DEF RingHolds
  <2>0. ~ overrun /\ p_wpos - p_rpos # STDIN_BUFSIZE
    BY Zenon
  <2>1. ~ overrun /\ p_wpos - p_rpos < STDIN_BUFSIZE /\ p_wpos' = p_wpos + 1
    BY <1>1, <2>0 DEF HasRoom
  <2>2. /\ p_wpos = Len(typed) /\ p_rpos = Len(out)
        /\ \A i \in 1 .. p_rpos : out[i] = typed[i]
        /\ \A j \in p_rpos + 1 .. p_wpos : stdin_buffer[(j - 1) % STDIN_BUFSIZE] = typed[j]
    BY <2>1 DEF IInv, RingHolds
  <2>3. /\ Len(typed') = p_wpos + 1 /\ typed'[p_wpos + 1] = c
        /\ \A i \in 1 .. p_wpos : typed'[i] = typed[i]
    BY <1>1, <2>2
  <2>4. ASSUME NEW j \in p_rpos + 1 .. p_wpos + 1
        PROVE  stdin_buffer'[(j - 1) % STDIN_BUFSIZE] = typed'[j]
    <3>1. p_wpos % STDIN_BUFSIZE \in Slots /\ (j - 1) % STDIN_BUFSIZE \in Slots
      BY <1>1 DEF Slots
    <3>2. CASE j = p_wpos + 1
      BY <1>1, <2>3, <3>1, <3>2
    <3>3. CASE j # p_wpos + 1
      <4>1. j - 1 \in Nat /\ j - 1 < p_wpos /\ p_wpos < j - 1 + STDIN_BUFSIZE
        BY <1>1, <2>1, <3>3
      <4>2. (j - 1) % STDIN_BUFSIZE # p_wpos % STDIN_BUFSIZE
        BY <1>1, <4>1, SlotsDiffer
      <4>3. stdin_buffer'[(j - 1) % STDIN_BUFSIZE] = stdin_buffer[(j - 1) % STDIN_BUFSIZE]
        BY <1>1, <3>1, <4>2
      <4> QED BY <1>1, <2>2, <2>3, <3>3, <4>3
    <3> QED BY <3>2, <3>3
  <2>5. \A i \in 1 .. p_rpos : out'[i] = typed'[i]
    BY <1>1, <2>2, <2>3
  <2> QED BY <1>1, <2>1, <2>2, <2>3, <2>4, <2>5 DEF RingHolds
<1> QED BY <1>2, <1>3, <1>4 DEF IInv

\* The loop of a reader takes the oldest characters, and sleeps only when it
\* has taken them all.
LEMMA LoopIInv ==
  ASSUME IInv, NEW r \in Reader, NEW n \in 0 .. MaxLen,
         NEW queued, asleep \subseteq queued, queued \subseteq wait_queue,
         Loop(r, n, queued)
  PROVE  IInv'
<1> DEFINE k == Taken(n)
<1>1. /\ p_rpos \in Nat /\ p_wpos \in Nat /\ p_wpos - p_rpos \in 0 .. STDIN_BUFSIZE
      /\ typed \in Seq(Char) /\ out \in Seq(Char)
      /\ STDIN_BUFSIZE \in Nat \ {0} /\ MaxLen \in Nat
  BY StdinAssumption DEF IInv, TypeOK
<1>2. /\ k \in 0 .. Available /\ k \in 0 .. n /\ k \in Nat /\ Available \in Nat
      /\ k < n => k = Available
  BY <1>1 DEF Taken, Available
<1>3. /\ p_rpos' = p_rpos + k
      /\ out' = out \o Unread(k)
      /\ rest' = [rest EXCEPT ![r] = n - k]
      /\ UNCHANGED <<stdin_buffer, p_wpos, typed, overrun>>
      /\ \/ /\ k = n /\ wait_queue' = queued /\ pc' = [pc EXCEPT ![r] = "user"]
            /\ UNCHANGED <<wakeup_flags, asleep>>
         \/ k < n /\ WaitCurrentSet(r, queued)
  BY DEF Loop, Advanced, ring
<1>4. /\ Unread(k) \in Seq(Char) /\ Len(Unread(k)) = k
      /\ \A i \in 1 .. k : Unread(k)[i] = stdin_buffer[(p_rpos + i - 1) % STDIN_BUFSIZE]
  BY <1>2, UnreadType DEF IInv
<1> HIDE DEF k
<1>5. TypeOK'
  <2>1. p_rpos' \in Nat /\ p_wpos' \in Nat /\ p_wpos' - p_rpos' \in 0 .. STDIN_BUFSIZE
    BY <1>1, <1>2, <1>3 DEF Available
  <2>2. out' \in Seq(Char)
    BY <1>1, <1>3, <1>4
  <2>3. rest' \in [Reader -> 0 .. MaxLen]
    BY <1>1, <1>2, <1>3 DEF IInv, TypeOK
  <2>4. /\ wait_queue' \in SUBSET Reader /\ asleep' \in SUBSET Reader
        /\ wakeup_flags' \in [Reader -> {"WT_INTERRUPTED", "WT_KBD"}]
        /\ pc' \in [Reader -> {"user", "marks", "off"}]
    BY <1>3 DEF IInv, TypeOK, WaitCurrentSet
  <2> QED BY <1>3, <2>1, <2>2, <2>3, <2>4 DEF IInv, TypeOK
<1>6. NoLostWakeup'
  <2>1. CASE k < n
    BY <1>1, <1>2, <1>3, <2>1 DEF NoLostWakeup, Available
  <2>2. CASE k = n
    <3>1. wait_queue' # {} => Available = 0
      BY <1>3, <2>2, <1>2 DEF IInv, NoLostWakeup, WaitCurrentSet
    <3> QED BY <1>1, <1>2, <1>3, <3>1 DEF NoLostWakeup, Available
  <2> QED BY <1>2, <1>3, <2>1, <2>2
<1>7. SleepersQueued'
  BY <1>3 DEF SleepersQueued, WaitCurrentSet
<1>8. RingHolds'
  <2> SUFFICES ASSUME ~ overrun PROVE RingHolds'
    BY <1>3 DEF RingHolds
  <2>1. /\ p_wpos = Len(typed) /\ p_rpos = Len(out)
        /\ \A i \in 1 .. p_rpos : out[i] = typed[i]
        /\ \A j \in p_rpos + 1 .. p_wpos : stdin_buffer[(j - 1) % STDIN_BUFSIZE] = typed[j]
    BY DEF IInv, RingHolds
  <2> DEFINE u == Unread(k)
  <2>u. u \in Seq(Char) /\ Len(u) = k /\ out' = out \o u
    BY <1>3, <1>4
  <2>x. \A i \in 1 .. k : u[i] = stdin_buffer[(p_rpos + i - 1) % STDIN_BUFSIZE]
    BY <1>4
  <2> HIDE DEF u
  <2>2. /\ Len(out') = p_rpos + k
        /\ \A i \in 1 .. p_rpos + k :
              out'[i] = IF i <= p_rpos THEN out[i] ELSE u[i - p_rpos]
    BY <1>1, <1>2, <2>u, <2>1, ConcatProperties
  <2>3. ASSUME NEW i \in 1 .. p_rpos + k
        PROVE  out'[i] = typed[i]
    <3>1. CASE i <= p_rpos
      BY <1>1, <1>2, <2>1, <2>2, <3>1
    <3>2. CASE i > p_rpos
      <4>1. i - p_rpos \in 1 .. k /\ p_rpos + (i - p_rpos) - 1 = i - 1
        BY <1>1, <1>2, <3>2
      <4>2. out'[i] = u[i - p_rpos]
        BY <1>1, <1>2, <2>2, <3>2
      <4>4. u[i - p_rpos] = stdin_buffer[(i - 1) % STDIN_BUFSIZE]
        BY <2>x, <4>1
      <4>3. i \in p_rpos + 1 .. p_wpos
        BY <1>1, <1>2, <3>2 DEF Available
      <4> QED BY <2>1, <4>2, <4>3, <4>4
    <3> QED BY <1>1, <1>2, <3>1, <3>2
  <2>4. \A j \in p_rpos' + 1 .. p_wpos' : j \in p_rpos + 1 .. p_wpos
    BY <1>1, <1>2, <1>3
  <2> QED BY <1>3, <2>1, <2>2, <2>3, <2>4 DEF RingHolds
<1> QED BY <1>5, <1>6, <1>7, <1>8 DEF IInv

\* Steps that leave the ring alone and take a reader off the wait queue, or
\* out of its sleep.
LEMMA QuietIInv ==
  ASSUME IInv, NEW r \in Reader,
         \/ SwitchesAway(r)
         \/ Interrupt(r)
         \/ Back(r) /\ ~ TriesAgain(r)
  PROVE  IInv'
<1>1. /\ UNCHANGED <<stdin_buffer, p_wpos, p_rpos, wakeup_flags, rest, typed, out, overrun>>
      /\ wait_queue' \subseteq wait_queue
      /\ asleep' \subseteq asleep
      /\ \A s \in wait_queue \ wait_queue' : s \notin asleep'
      /\ pc' \in [Reader -> {"user", "marks", "off"}]
  BY DEF SwitchesAway, Interrupt, Back, ring, IInv, TypeOK
<1>2. TypeOK'
  BY <1>1 DEF IInv, TypeOK
<1>3. NoLostWakeup' /\ SleepersQueued'
  BY <1>1 DEF IInv, NoLostWakeup, SleepersQueued, Available
<1>4. RingHolds'
  BY <1>1 DEF IInv, RingHolds
<1> QED BY <1>2, <1>3, <1>4 DEF IInv

LEMMA StepIInv == IInv /\ [Next]_vars => IInv'
<1> SUFFICES ASSUME IInv, [Next]_vars PROVE IInv'
  OBVIOUS
<1>1. ASSUME NEW c \in Char, Write(c) PROVE IInv'
  BY <1>1, WriteIInv
<1>2. ASSUME NEW r \in Reader, NEW n \in 0 .. MaxLen, Read(r, n) PROVE IInv'
  BY <1>2, LoopIInv DEF Read, IInv, SleepersQueued
<1>3. ASSUME NEW r \in Reader, SwitchesAway(r) \/ Interrupt(r) PROVE IInv'
  BY <1>3, QuietIInv
<1>4. ASSUME NEW r \in Reader, Back(r) PROVE IInv'
  <2>1. CASE TriesAgain(r)
    <3>1. rest[r] \in 0 .. MaxLen
      BY DEF IInv, TypeOK
    <3>2. asleep \subseteq wait_queue \ {r}
      BY <1>4 DEF Back, IInv, SleepersQueued
    <3> QED BY <1>4, <2>1, <3>1, <3>2, LoopIInv DEF Back
  <2>2. CASE ~ TriesAgain(r)
    BY <1>4, <2>2, QuietIInv
  <2> QED BY <2>1, <2>2
<1>5. CASE UNCHANGED vars
  <2>1. UNCHANGED <<stdin_buffer, p_wpos, p_rpos, wait_queue, wakeup_flags, asleep, pc,
                    rest, typed, out, overrun>>
    BY <1>5 DEF vars, ring
  <2>2. TypeOK' /\ NoLostWakeup' /\ SleepersQueued'
    BY <2>1 DEF IInv, TypeOK, NoLostWakeup, SleepersQueued, Available
  <2>3. RingHolds'
    BY <2>1 DEF IInv, RingHolds
  <2> QED BY <2>2, <2>3 DEF IInv
<1> QED BY <1>1, <1>2, <1>3, <1>4, <1>5 DEF Next

\* The inductive invariant holds in every reachable state.
THEOREM StdinCorrect == Spec => []IInv
<1> QED BY InitIInv, StepIInv, PTL DEF Spec

\* No reader is left on the wait queue with something to read: NoLostWakeup.
THEOREM NoWakeupIsLost == Spec => []NoLostWakeup
BY StdinCorrect, PTL DEF IInv

\* A sleeping reader is where the keyboard interrupt finds it: SleepersQueued.
THEOREM SleepersAreQueued == Spec => []SleepersQueued
BY StdinCorrect, PTL DEF IInv

\* What was read, followed by what is left in the ring, is what was typed:
\* InOrder.
THEOREM CharactersInOrder == Spec => []InOrder
<1>1. IInv => InOrder
  <2> SUFFICES ASSUME IInv, ~ overrun PROVE out \o Unread(Available) = typed
    BY DEF InOrder
  <2>1. /\ p_rpos \in Nat /\ p_wpos \in Nat /\ p_wpos - p_rpos \in 0 .. STDIN_BUFSIZE
        /\ typed \in Seq(Char) /\ out \in Seq(Char) /\ STDIN_BUFSIZE \in Nat
    BY StdinAssumption DEF IInv, TypeOK
  <2>2. /\ p_wpos = Len(typed) /\ p_rpos = Len(out)
        /\ \A i \in 1 .. p_rpos : out[i] = typed[i]
        /\ \A j \in p_rpos + 1 .. p_wpos : stdin_buffer[(j - 1) % STDIN_BUFSIZE] = typed[j]
    BY DEF IInv, RingHolds
  <2> DEFINE k == Available
             u == Unread(k)
  <2>3. k \in Nat /\ k \in 0 .. Available /\ k = p_wpos - p_rpos
    BY <2>1 DEF Available
  <2>4. /\ u \in Seq(Char) /\ Len(u) = k
        /\ \A i \in 1 .. k : u[i] = stdin_buffer[(p_rpos + i - 1) % STDIN_BUFSIZE]
    BY <2>3, UnreadType DEF IInv
  <2> HIDE DEF k, u
  <2>5. /\ out \o u \in Seq(Char) /\ Len(out \o u) = p_wpos
        /\ \A i \in 1 .. p_wpos :
              (out \o u)[i] = IF i <= p_rpos THEN out[i] ELSE u[i - p_rpos]
    BY <2>1, <2>2, <2>3, <2>4, ConcatProperties
  <2>6. ASSUME NEW i \in 1 .. p_wpos PROVE (out \o u)[i] = typed[i]
    <3>1. CASE i <= p_rpos
      BY <2>1, <2>2, <2>5, <3>1
    <3>2. CASE i > p_rpos
      <4>1. i - p_rpos \in 1 .. k /\ p_rpos + (i - p_rpos) - 1 = i - 1
        BY <2>1, <2>3, <3>2
      <4>2. (out \o u)[i] = u[i - p_rpos]
        BY <2>1, <2>5, <3>2
      <4>4. u[i - p_rpos] = stdin_buffer[(i - 1) % STDIN_BUFSIZE]
        BY <2>4, <4>1
      <4>3. i \in p_rpos + 1 .. p_wpos
        BY <2>1, <3>2
      <4> QED BY <2>2, <4>2, <4>3, <4>4
    <3>3. i <= p_rpos \/ i > p_rpos
      BY <2>1
    <3> QED BY <3>1, <3>2, <3>3
  <2>7. out \o u = typed
    BY <2>1, <2>2, <2>5, <2>6, SeqEqual
  <2> QED BY <2>7 DEF u, k
<1> QED BY <1>1, StdinCorrect, PTL
=============================================================================
