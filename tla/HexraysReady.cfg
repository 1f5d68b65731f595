CONSTANTS
  Threads = {t1}
  Handles = {h1}
  Kinds = {"maturity"}
  MaxToken = 1
  MaxDepth = 1
SPECIFICATION Spec
INVARIANTS ReadyMeansInitialised
