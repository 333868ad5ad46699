\* One connection, no failures: the delete commands.
SPECIFICATION Spec
CONSTANTS
  Conns = {c1}
  Inputs = {"/start", "task_del", "word_del", "text"}
  MaxAsked = 2
  MaxFaults = 0
INVARIANTS
  PayloadsAsked
