SPECIFICATION FairSpec
CONSTANTS
  Locales = {"ja", "zh-CN", "zh-TW", "zh-Hans", "zh-Hant", "ko", "en-US", "fr"}
INVARIANTS
  TypeOK
  SupportedIsComplete
  HooksFindTheirPointers
  CallersAreTheGame
  EngineComesFirst
PROPERTIES
  SupportedGetsPatched
\* A process that was aborted stops.
CHECK_DEADLOCK FALSE
