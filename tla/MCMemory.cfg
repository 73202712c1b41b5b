SPECIFICATION MemorySpec
CONSTANTS
  Buffers = {insns, inline}
  Size = 7
  Regions <- MCRegions
  Reservers = {"insns", "inline"}
  Wanted <- MCWanted
  Text = 3
  PoolPages = 2
  GamePages = {3}
  Page = 4096
  Line = 64
  Entries <- MCEntries
  Patches <- MCPatches
INVARIANTS
  
  HeapComesBackWhole
  RefusedOnlyWhenRobbed
  ReservationsApart
  ReservationsOutside
  PatchesStayMapped
  HooksReachTheCode
PROPERTIES
  SearchEnds
\* A patch ends, and an object whose creation left a mapping behind is not
\* used any more.
CHECK_DEADLOCK FALSE
