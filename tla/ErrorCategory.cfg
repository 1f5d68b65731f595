CONSTANTS
  RustThreads = {t1}
  Failures = {"Conflict"}
  MaxCalls = 1
  MaxNested = 1
SPECIFICATION ErrorsSpec
INVARIANTS CategoryFaithful
CHECK_DEADLOCK FALSE
