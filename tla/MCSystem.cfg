SPECIFICATION SystemSpec
CONSTANTS
  Threads = {t1, t2}
  NoThread = NoThread
  MaxBuffers = 2
  Sizes = {3, 6}
  DataSizes = {7}
  MaxHandles = 1
  PointerSizes = {0, 8}
  Word = 64
INVARIANTS
  AnswersAreWhole
  OwnFailureOnly
  FoundForGood
  FilledAsCounted
  PointersFitUnlessOverdrawn
PROPERTIES
  IgnoredForGood
  CallsReturn
\* A request that has been built is done with.
CHECK_DEADLOCK FALSE
