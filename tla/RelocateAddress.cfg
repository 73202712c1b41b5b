SPECIFICATION Spec
CONSTANTS
  MCKinds = {"adr", "adrp"}
  MCDisplacements <- MCElsewhere
  MCLows = {0}
  Codes <- MCCodes
  Bases <- MCBases
  Trampolines <- MCTrampolines
  RwDistance = 65536
INVARIANTS LoadsItsAddress
\* The code has been moved.
CHECK_DEADLOCK FALSE
