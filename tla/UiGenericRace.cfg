CONSTANTS
  Threads = {t1, t2}
  GenericThreads = {t1, t2}
  Events <- OneEach
  MaxCallbacks = 2
  MaxDepth = 1
  VIEW_TOKEN_BASE = 10
  GENERIC_TOKEN_BASE = 20
SPECIFICATION Spec
INVARIANTS HeldTokensWork
