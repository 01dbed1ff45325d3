CONSTANTS
  Reader = {r1, r2}
  Char = {a, b}
  STDIN_BUFSIZE = 2
  MaxLen = 2
  MaxTyped = 4
  Width = 6
  MaxField = 3
  MaxSize = 5
  MemSize = 5
  Letter = {"a", "cd"}
  BUFSIZE = 6
  EXEC_MAX_ARG_NUM = 2
SPECIFICATION ConsoleSpec
INVARIANTS IInv InOrder NoLostWakeup LibraryExact WordsExact InTurn
PROPERTIES CharactersRead
