CONSTANTS
  Callers = {u1}
  Names = {"", "angr"}
  EmptyName = ""
  MaxContext = 1
  MaxNesting = 1
  None = None
SPECIFICATION ExecutorSpec
INVARIANTS ContextDroppedOnce
CHECK_DEADLOCK FALSE
