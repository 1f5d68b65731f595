CONSTANTS
  DbgThreads = {t1}
  NoThread = NoThread
  Codes = {"bpt"}
  MaxDbgToken = 2
  MaxDbgDepth = 2
  SharedVaList = TRUE
SPECIFICATION DbgSpec
INVARIANTS HandlersReadOwnArguments
