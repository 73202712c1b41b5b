------------------------------ MODULE MCMemory ------------------------------
(***************************************************************************)
(* The memory underneath the hook engine: the buffers of jit.c, how their  *)
(* addresses and those of second mappings are found, and the patches made  *)
(* through such a mapping.  No step of one reads a variable of another, so *)
(* a behaviour is one of any of the three, and the others stay as they     *)
(* begin.                                                                  *)
(***************************************************************************)
EXTENDS Jit, AddressSpace, MCCodePatch

VARIABLE part  \* which of the three moves

memoryVars == <<vars, spaceVars, patchVars, part>>

MCRegions == <<[start |-> 6, end |-> 7], [start |-> 0, end |-> 0], [start |-> 4, end |-> 6]>>
MCWanted == [r \in Reservers |-> IF r = "insns" THEN 1 ELSE 2]

MemoryInit ==
  /\ Init /\ SpaceInit /\ PatchInit
  /\ part \in {"jit", "space", "patch"}
  /\ part # "jit" => kernel = [version |-> 3, patched |-> FALSE, handle |-> FALSE]
  /\ part # "space" => \A p \in Space : IsFree(p)
  /\ part # "patch" => patch = CHOOSE p \in Hooks : TRUE

notSpace == <<vars, patchVars, part>>

MemoryNext ==
  \/ part = "jit" /\ Next /\ UNCHANGED <<spaceVars, patchVars, part>>
  \/ part = "space" /\ SpaceNext /\ UNCHANGED notSpace
  \/ part = "patch" /\ PatchNext /\ UNCHANGED <<vars, spaceVars, part>>

\* A thread that searches goes on searching.
MemorySpec ==
  /\ MemoryInit /\ [][MemoryNext]_memoryVars
  /\ WF_memoryVars(part = "space" /\ EngineSearch /\ UNCHANGED notSpace)
  /\ \A r \in Reservers :
       WF_memoryVars(part = "space" /\ Search(r) /\ UNCHANGED notSpace)
=============================================================================
