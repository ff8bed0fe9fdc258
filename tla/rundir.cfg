SPECIFICATION DirFairSpec
CONSTANTS
  Procs = {"p1", "p2", "p3"}
  Cleaners = {"c1"}
  Ids = {"a", "b"}
  Leftover = {"b"}
  IdOf <- MCIdOf
  NameOf <- MCNameOf
  PidOf <- MCPidOf
  Cli = {"p1", "p3"}
  Tokens = {"p1", "p3"}
  Blind = {"p1", "p3"}
  Exclusive = TRUE
  None = None
INVARIANTS LiveKeepsFiles NamesDistinct
PROPERTY DeadIsForgotten
CHECK_DEADLOCK FALSE
