CONSTANTS
  Threads = {t1, t2}
  Handles = {h1, h2}
  Kinds = {"maturity", "create_hint"}
  MaxToken = 2
  MaxDepth = 2
  MaxElements = 2
  RustThreads = {t1, t2}
  Failures = {"Conflict"}
  MaxCalls = 3
  MaxNested = 2
  Addresses = {a1}
  ActionIds = {x}
  MaxClosures = 4
  MaxRunning = 2
  UiCodes = {"ui_widget_visible"}
  ViewCodes = {"view_curpos"}
  MaxSubscriptions = 3
SYMMETRY Symmetric
SPECIFICATION BindingSpec
INVARIANTS SessionsKeepHexraysUp ContextsOwnedOnce MarshallingSound ErrorIsOwn NoClosureLost
PROPERTIES ImplementsRegistry
