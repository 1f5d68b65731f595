CONSTANTS
  Threads = {t1, t2}
  Handles = {h1, h2}
  MaxFilters = 2
  MaxDepth = 2
  MaxInstructions = 4
  MaxBatch = 2
  Instructions <- SomeInstructions
  MaxNestedDepth = 4
  SdkWidth = 8
  Word = 16
  HelperCallInputs <- SomeCalls
  DefaultSpoiled = {0, 1}
  DefaultReturned = {0}
  OperandWidth = 8
  LocalVariables = 2
  MaxPart = 16
  RegisterVariables = {"reg"}
  StackVariables = {"stk"}
  OtherVariables = {"scattered"}
  Texts = {1}
  TypeTexts = {1, 2}
  UnparsableTypes = {2}
  Snapshots = {s1, s2}
  MaxEdits = 2
  MaxTakes = 2
  Wrappers = {w1, w2}
  Contexts = {c1, c2}
  Boxes = {b1, b2}
  FilterTokens = {f1}
  MaxOpened = 2
  MaxFrames = 3
  Items <- SomeItems
  Tree <- SomeTree
  Root = "body"
  NoItem = NoItem
  DataInX = {"p", "s", "v", "n", "helper"}
  DataInY = {"p", "v", "c"}
  Misread = Misread
  MaxSkips = 1
  Types <- SomeTypes
  SignatureTypes <- SomeSignature
  MaxTypeDepth = 3
  Functions <- SomeFunctions
  PrintedTexts <- SomeTexts
  PrintedText <- TextOfEach
  CallersOf <- SomeCallers
  OutsideAddress = 4
  NowhereAddress = 255
  Objects = {o1, o2}
  Cfuncs = {cf1, cf2}
  NoCfunc = NoCfunc
  CommentPlaces = {24}
  CommentTexts = {1}
SYMMETRY Symmetric
SPECIFICATION DecompilerSpec
INVARIANTS InstalledIsOwned LastEmittedInBlock ReadBackIsWhatWasEmitted HelperCallSound WrappersReachLiveObjects  DecompiledFunctionsSound
PROPERTIES ImplementsRegistry PlacedByPolicy BatchInOrder WrittenSettingsComeBack
