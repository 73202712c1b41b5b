SPECIFICATION GameSpec
CONSTANTS
  Low = 1
  High = 3
  Middle = 2
  Long = 4
  MaxInt = 6
  Byte = 5
  Threads = {t1, t2}
  TextThreads = {t1, t2}
  FixedWidths = {2}
  NarrowChars = {1}
  Tokens <- MCTokens
  Unfinished <- MCUnfinished
  MaxTokens = 2
  FirstSize = 2
  ItemWidth = 2
  PairWidth = 3
INVARIANTS
  ClockFollowsCounter
  
  OnlyOverlapOrUndrawnGoAstray
  
  WidestOrBeyondUnfinished
PROPERTIES
  BoostEnds
\* A text that has been measured is done with.
CHECK_DEADLOCK FALSE
