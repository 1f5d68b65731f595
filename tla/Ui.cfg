CONSTANTS
  Threads = {t1, t2}
  GenericThreads = {t1}
  Events <- OneEach
  MaxCallbacks = 2
  MaxDepth = 2
  VIEW_TOKEN_BASE = 10
  GENERIC_TOKEN_BASE = 20
  DbgThreads = {t1, t2}
  NoThread = NoThread
  Codes = {"bpt", "trace"}
  MaxDbgToken = 2
  MaxDbgDepth = 2
  SharedVaList = FALSE
  WidgetHandles = {w1, w2}
  Panels = {p1, p2}
  NoPanel = NoPanel
  MaxLines = 2
  MaxWidgetId = 4
  Backends = {"gdb", "win32"}
  Titles = {"", "gdb"}
  MaxBackends = 3
  NoBackend = NoBackend
  SignBit = 2
  MaxArguments = 2
  Doubles = {0, 1, 2}
  IdcReals <- SomeReals
  ToDouble <- SomeRounding
  NoDouble = 9
  Texts <- SomeTexts
SPECIFICATION UiSpec
INVARIANTS HandlersInOrder HeldTokensWork NothingOrphaned ViewersReadLiveLines DebuggerSound
PROPERTIES HooksReleased SuppressionSticks LockIsReleased ListenersImplementRegistry
