SPECIFICATION Spec
CONSTANTS
  MCKinds = {"b", "bl", "cond", "tbz", "ldrW", "ldrX", "ldrQ", "prfm", "adr", "adrp"}
  MCDisplacements <- MCEverywhere
  MCLows = {0, 1}
  Codes <- MCCodes
  Bases <- MCBases
  Trampolines <- MCTrampolines
  RwDistance = 65536
INVARIANTS MisledOnlyByKnown FitsTrampoline
\* The code has been moved.
CHECK_DEADLOCK FALSE
