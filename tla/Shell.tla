------------------------------- MODULE Shell --------------------------------
(***************************************************************************)
(* The shell of lab8 (user/sh.c): reading a line, and the processes that   *)
(* take it apart with gettoken, fork at ; and at |, redirect their input   *)
(* and output and execute programs.  Each has its own copy of the line, in *)
(* which gettoken writes the ends of the words; strings are pointers into  *)
(* that copy and reach as far as the next 0.                               *)
(*                                                                         *)
(* A step of a process is one round of the loop in runcmd.  The kernel is  *)
(* external: fork, open and exec may fail, waitpid comes back when the     *)
(* child has ended.                                                        *)
(***************************************************************************)
EXTENDS Integers, Sequences, FiniteSets, FiniteSetsExt, Functions

CONSTANTS
  Letter,             \* characters of words; "cd" counts as one
  BUFSIZE,
  EXEC_MAX_ARG_NUM

Nul == "nul"
Blank == " "
Quote == "\""
Symbols == {"<", "|", ">", "&", ";"}
Typeable == Letter \cup {Blank, Quote} \cup Symbols

VARIABLES
  sh,        \* what the shell does: prompt, read, wait, ended
  buffer,    \* the line, as far as it has been typed
  procs      \* the processes that work on the line, in the order of their forks

shell_vars == <<sh, buffer, procs>>
-----------------------------------------------------------------------------
(* gettoken *)

CharAt(s, i) == IF i <= Len(s) THEN s[i] ELSE Nul

\* The string that starts at i.
Text(s, i) == SubSeq(s, i, Min({k \in i .. Len(s) + 1 : CharAt(s, k) = Nul}) - 1)

SkipBlanks(s, i) == Min({k \in i .. Len(s) + 1 : CharAt(s, k) # Blank})

\* flag, in a word that starts at i.
InQuotes(s, i, k) == Cardinality({m \in i .. k - 1 : s[m] = Quote}) % 2 = 1

\* Mutant: a blank ends a word between quotes, too.
WordEnd_NoQuotes(s, i) ==
  Min({k \in i .. Len(s) + 1 : CharAt(s, k) \in Symbols \cup {Blank, Nul}})

\* Where the word that starts at i ends.
WordEnd(s, i) ==
  Min({k \in i .. Len(s) + 1 :
         \/ CharAt(s, k) = Nul
         \/ CharAt(s, k) \in Symbols \cup {Blank} /\ ~ InQuotes(s, i, k)})

\* The token at or behind i (0 for NULL): its kind, where it starts, what gettoken
\* makes of the line, and where it goes on.
gettoken(s, i) ==
  LET j == SkipBlanks(s, i)
      symbol == CharAt(s, j) \in Symbols
      end == IF symbol THEN j + 1 ELSE WordEnd(s, j)
      written == [m \in DOMAIN s |->
                    IF m \in i .. j - 1 \/ (symbol /\ m = j) THEN Nul
                    ELSE IF m \in j .. end - 1 /\ s[m] = Quote THEN Blank
                    ELSE s[m]]
  IN  IF i = 0 \/ CharAt(s, j) = Nul
      THEN [token |-> "end", t |-> 0, line |-> IF i = 0 THEN s ELSE written, cmd |-> i]
      ELSE [token |-> IF symbol THEN s[j] ELSE "w", t |-> j, line |-> written,
            cmd |-> IF CharAt(s, end) = Nul THEN 0 ELSE end]
-----------------------------------------------------------------------------
(* runcmd *)

\* What a descriptor is open on when it is not a file.
Console == <<"console">>
Unknown == <<"unknown">>

NewProcess ==
  [pc |-> "parse", line |-> buffer, cmd |-> 1, argv |-> <<>>,
   fd |-> [i \in {0, 1} |-> Console], child |-> 0]

Does(p, pc) == p \in DOMAIN procs /\ procs[p].pc = pc

\* p goes on as q; a child is added to the processes.
Becomes(p, q) == procs' = [procs EXCEPT ![p] = q]
Forks(p, q, c) == procs' = Append([procs EXCEPT ![p] = q], c)

Exits(p) == Becomes(p, [procs[p] EXCEPT !.pc = "gone"])

\* p after the next token of its line.
NextToken(p) == gettoken(procs[p].line, procs[p].cmd)
After(p, g) == [procs[p] EXCEPT !.line = g.line, !.cmd = g.cmd]

\* runit: nothing to do, cd (which tells only its own copy of shcwd), or a program.
RunIt(q) ==
  [q EXCEPT !.pc = IF q.argv = <<>> \/ Text(q.line, q.argv[1]) = <<"cd">>
                   THEN "gone" ELSE "exec"]

\* again: the next command starts.
Again(q) == [q EXCEPT !.argv = <<>>]

Parses(p, token) == Does(p, "parse") /\ NextToken(p).token = token

Word(p) ==
  /\ Parses(p, "w")
  /\ IF Len(procs[p].argv) = EXEC_MAX_ARG_NUM
     THEN Exits(p)
     ELSE Becomes(p, [After(p, NextToken(p)) EXCEPT !.argv = Append(@, NextToken(p).t)])

\* reopen, of the string that starts at the word: what comes behind the word has not
\* been written over yet.
Redirects(p, symbol, fd) ==
  /\ Parses(p, symbol)
  /\ LET file == gettoken(NextToken(p).line, NextToken(p).cmd)
     IN  \/ Exits(p)
         \/ /\ file.token = "w"
            /\ Becomes(p, [After(p, file) EXCEPT !.fd[fd] = Text(file.line, file.t)])

\* The descriptors p[0] and p[1] were never set: dup2 of one fails, or gives what it
\* happens to name, and closing both may close anything.
Connected(q) == {[q EXCEPT !.pc = "gone"], [q EXCEPT !.fd = [i \in {0, 1} |-> Unknown]]}

Pipes(p) ==
  /\ Parses(p, "|")
  /\ \/ Exits(p)
     \/ \E left \in Connected(RunIt(After(p, NextToken(p)))),
           right \in Connected(Again(After(p, NextToken(p)))) :
          Forks(p, left, right)

\* Mutant: the next command does not wait for the one before it.
WaitsFor_Nobody(q, c) == Again(q)

\* waitpid of the child c, and again.
WaitsFor(q, c) == [Again(q) EXCEPT !.pc = "wait", !.child = c]

Semicolon(p) ==
  /\ Parses(p, ";")
  /\ \/ Exits(p)
     \/ LET q == After(p, NextToken(p))
        IN  Forks(p, WaitsFor(q, Len(procs) + 1), RunIt(q))

Waited(p) ==
  /\ Does(p, "wait") /\ procs[procs[p].child].pc = "gone"
  /\ Becomes(p, [procs[p] EXCEPT !.pc = "parse", !.child = 0])

EndOfLine(p) == Parses(p, "end") /\ Becomes(p, RunIt(After(p, NextToken(p))))

BadToken(p) == Parses(p, "&") /\ Exits(p)

\* testfile and __exec
Executes(p) ==
  /\ Does(p, "exec")
  /\ Exits(p) \/ Becomes(p, [procs[p] EXCEPT !.pc = "runs"])

Ends(p) == Does(p, "runs") /\ Exits(p)
-----------------------------------------------------------------------------
(* readline and main *)

\* Bound: a line is typed when all processes of the last one have ended.
StartsLine ==
  /\ sh = "prompt" /\ \A p \in DOMAIN procs : procs[p].pc = "gone"
  /\ sh' = "read" /\ buffer' = <<>> /\ procs' = <<>>

Types(c) ==
  /\ sh = "read" /\ Len(buffer) < BUFSIZE - 1
  /\ buffer' = Append(buffer, c)
  /\ UNCHANGED <<sh, procs>>

Erases ==
  /\ sh = "read" /\ buffer # <<>>
  /\ buffer' = SubSeq(buffer, 1, Len(buffer) - 1)
  /\ UNCHANGED <<sh, procs>>

\* The end of the line, or of the input with something on the line; main asserts that
\* the fork succeeds.
Enters ==
  /\ sh = "read"
  /\ \/ sh' = "wait" /\ procs' = <<NewProcess>>
     \/ sh' = "ended" /\ UNCHANGED procs
  /\ UNCHANGED buffer

\* Control-C, an error of read, the end of the input.
EndsShell ==
  sh = "read" /\ sh' = "ended" /\ UNCHANGED <<buffer, procs>>

\* waitpid, and the next prompt.
Prompts ==
  /\ sh = "wait" /\ procs[1].pc = "gone"
  /\ sh' = "prompt"
  /\ UNCHANGED <<buffer, procs>>

ShellEnded == sh = "ended" /\ UNCHANGED shell_vars

Runs(p) ==
  \/ Word(p) \/ Redirects(p, "<", 0) \/ Redirects(p, ">", 1) \/ Pipes(p)
  \/ Semicolon(p) \/ Waited(p) \/ EndOfLine(p) \/ BadToken(p) \/ Executes(p) \/ Ends(p)

Init == sh = "prompt" /\ buffer = <<>> /\ procs = <<>>

Next ==
  \/ StartsLine \/ (\E c \in Typeable : Types(c)) \/ Erases \/ Enters \/ EndsShell
  \/ Prompts \/ ShellEnded
  \/ (\E p \in DOMAIN procs : Runs(p)) /\ UNCHANGED <<sh, buffer>>

Spec == Init /\ [][Next]_shell_vars
-----------------------------------------------------------------------------
(* Properties *)

\* What buffer means: the characters that end words, and where words start.
Separates(i) ==
  buffer[i] \in Symbols \cup {Blank} /\ ~ InQuotes(buffer, 1, i)
Separators(cs) == {i \in DOMAIN buffer : buffer[i] \in cs /\ Separates(i)}
WordStarts ==
  {i \in DOMAIN buffer : ~ Separates(i) /\ (i = 1 \/ Separates(i - 1))}
WordAt(i) ==
  LET end == Min({k \in i .. Len(buffer) + 1 : k = Len(buffer) + 1 \/ Separates(k)})
  IN  [m \in 1 .. end - i |-> IF buffer[i+m-1] = Quote THEN Blank ELSE buffer[i+m-1]]

\* The words behind a redirection.
Operands(cs) ==
  {i \in WordStarts :
     \E k \in Separators(cs) : k < i /\ k + 1 .. i - 1 \subseteq Separators({Blank})}

\* There is a separator among cs between i and j.
Apart(i, j, cs) == Separators(cs) \cap (i+1 .. j-1 \cup j+1 .. i-1) # {}

\* The processes with a program to run, and a position in the command each runs.
Busy == {p \in DOMAIN procs : procs[p].pc \in {"exec", "runs"}}
Command(p) == procs[p].argv[1]

\* A program gets the words of its command as arguments, none lost, split or joined
\* with what stands behind it, although all are pointers into a line that is being
\* written over.
WordsExact ==
  \A p \in Busy :
    LET argv == procs[p].argv
        words == {i \in WordStarts \ Operands({"<", ">"}) :
                    ~ Apart(i, Command(p), {";", "|"})}
    IN  /\ Range(argv) = words /\ Len(argv) = Cardinality(words)
        /\ Len(argv) <= EXEC_MAX_ARG_NUM
        /\ \A k, l \in DOMAIN argv : k < l => argv[k] < argv[l]
        /\ \A k \in DOMAIN argv : Text(procs[p].line, argv[k]) = WordAt(argv[k])

\* A file that a program reads from or writes to has the name of a word behind a
\* redirection.  It does not unless the word ends the line: reopen gets the name before
\* the next gettoken has written its end.
FileIsWord ==
  \A p \in Busy, fd \in {0, 1} :
    procs[p].fd[fd] \in
      {Console, Unknown} \cup {WordAt(i) : i \in Operands({IF fd = 0 THEN "<" ELSE ">"})}

\* Commands separated by ; run one after the other, and the shell prompts when they
\* have ended: two programs run at once, or one beside the prompt, only when there is
\* a | between or before them, whose right side nobody waits for.
InTurn ==
  /\ \A p, q \in Busy : p # q => Apart(Command(p), Command(q), {"|"})
  /\ sh = "prompt" => \A p \in Busy : Apart(0, Command(p), {"|"})
=============================================================================
