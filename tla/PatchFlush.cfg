SPECIFICATION PatchSpec
CONSTANTS
  Page = 4096
  Line = 64
  Entries <- MCEntries
  Patches <- MCPatches
INVARIANTS
  PatchesReachTheCode
\* The patch has been made.
CHECK_DEADLOCK FALSE
