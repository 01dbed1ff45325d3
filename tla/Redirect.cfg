SPECIFICATION Spec
CONSTANTS
  Letter = {"a", "cd"}
  BUFSIZE = 6
  EXEC_MAX_ARG_NUM = 2
INVARIANT FileIsWord
