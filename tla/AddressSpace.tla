---------------------------- MODULE AddressSpace ----------------------------
(***************************************************************************)
(* How free addresses are found, by page: virtmemReserve (virtmem.c) for   *)
(* the buffers of jit.c, locateMappableSpaceModern (controlledpages.cpp)   *)
(* for the second mapping of a page of code, and the loop of A64HookInit   *)
(* that looks for room below the code.  All ask the kernel block by block, *)
(* and what they find is mapped later, by another system call; in between  *)
(* the game maps memory of its own, and nothing marks the addresses as     *)
(* spoken for.                                                             *)
(***************************************************************************)
EXTENDS Integers, Sequences

CONSTANTS
  Size,        \* the address space is 0..Size - 1
  Regions,     \* g_Region: the stack, heap and alias regions [start, end]
  Reservers,   \* callers of virtmemReserve, each with one reservation
  Wanted,      \* how many pages each of them asks for
  Text,        \* where the code of the module starts
  PoolPages,   \* the size of the pool of inline hooks
  GamePages    \* bound: where the game maps and unmaps

Space == 0..(Size - 1)

ASSUME SpaceAssumption ==
  /\ Size \in Nat \ {0}
  /\ Regions \in Seq([start : Nat, end : Nat])
  /\ Wanted \in [Reservers -> Nat \ {0}]
  /\ Reservers \cap {"patcher", "engine", "game", "free"} = {}
  /\ GamePages \subseteq Space /\ Text \in Space /\ PoolPages \in 1..Text

Patcher == "patcher"  \* ControlledPages::claim
Engine == "engine"    \* A64HookInit
Finders == Reservers \cup {Patcher, Engine}
Pages(f) == IF f = Patcher THEN 1 ELSE IF f = Engine THEN PoolPages ELSE Wanted[f]

VARIABLES
  taken,           \* the owner of each page, "free" for none
  g_VirtMemMutex,  \* the thread inside virtmemReserve, "free" for none
  g_CurrentAddr,
  wrapped,         \* a search went back to the start of the address space
  finder,          \* what each finder is doing
  addr,            \* where it searches, or what it has found
  robbed           \* finders whose find another has mapped since it was theirs

spaceVars == <<taken, g_VirtMemMutex, g_CurrentAddr, wrapped, finder, addr, robbed>>

Run(a, n) == a..(a + n - 1)
Found(f) == Run(addr[f], Pages(f))
HasFound(f) == finder[f] \in {"found", "mapped"}

SpaceInit ==
  /\ \E game \in SUBSET GamePages :
       taken = [p \in Space |-> IF p \in game THEN "game" ELSE "free"]
  /\ g_VirtMemMutex = "free" /\ g_CurrentAddr = 0 /\ wrapped = FALSE
  /\ finder = [f \in Finders |-> "idle"]
  /\ addr = [f \in Finders |-> 0]
  /\ robbed = {}

\* svcQueryMemory: the end of the block that page a is in, as a set of one.
IsFree(p) == taken[p] = "free"
BlockEnd(a) ==
  {e \in (a + 1)..Size : /\ \A p \in a..(e - 1) : IsFree(p) = IsFree(a)
                         /\ e = Size \/ IsFree(e) # IsFree(a)}

\* Mutant: the size of the block is not looked at.
FitsAnyBlock(a, n) == IsFree(a)

\* n pages from a on are free and in one block.
Fits(a, n) == a + n <= Size /\ \A p \in Run(a, n) : IsFree(p)

-----------------------------------------------------------------------------
(* virtmemReserve.                                                         *)

First(i, set) == \A j \in set : i <= j
InRegion(r, a) == r.start <= a /\ a < r.end

\* Mutant: only the start of the range is tested.
ReservedByStart(a, n) == {i \in DOMAIN Regions : InRegion(Regions[i], a)}

\* The regions that hold an end of the range.
ReservedAt(a, n) ==
  {i \in DOMAIN Regions : InRegion(Regions[i], a) \/ InRegion(Regions[i], a + n - 1)}

Reserve(r) ==
  /\ finder[r] = "idle" /\ g_VirtMemMutex = "free"
  /\ g_VirtMemMutex' = r
  /\ addr' = [addr EXCEPT ![r] = g_CurrentAddr]
  /\ finder' = [finder EXCEPT ![r] = "searching"]
  /\ UNCHANGED <<taken, g_CurrentAddr, wrapped, robbed>>

\* One round of the loop looks at the page behind a guard page, or at the
\* first one of the address space.
NextPage(r) == IF addr[r] + 1 \in Space THEN addr[r] + 1 ELSE 0

\* The page is taken or the block too small: the search goes on behind the block.
ReservePassBlock(r) ==
  LET a == NextPage(r) IN
  /\ finder[r] = "searching" /\ ~Fits(a, Pages(r))
  /\ \E e \in BlockEnd(a) : addr' = [addr EXCEPT ![r] = e]
  /\ wrapped' = (wrapped \/ a = 0)
  /\ UNCHANGED <<taken, g_VirtMemMutex, g_CurrentAddr, finder, robbed>>

\* Mutant: it goes on at the start of the reserved region and not at its end.
ReservePassRegionToStart(r) ==
  LET a == NextPage(r)
      reserved == ReservedAt(a, Pages(r)) IN
  /\ finder[r] = "searching" /\ Fits(a, Pages(r))
  /\ \E i \in reserved : First(i, reserved) /\ addr' = [addr EXCEPT ![r] = Regions[i].start]
  /\ wrapped' = (wrapped \/ a = 0)
  /\ UNCHANGED <<taken, g_VirtMemMutex, g_CurrentAddr, finder, robbed>>

\* The range is in a reserved region: the search goes on behind the first.
ReservePassRegion(r) ==
  LET a == NextPage(r)
      reserved == ReservedAt(a, Pages(r)) IN
  /\ finder[r] = "searching" /\ Fits(a, Pages(r))
  /\ \E i \in reserved : First(i, reserved) /\ addr' = [addr EXCEPT ![r] = Regions[i].end]
  /\ wrapped' = (wrapped \/ a = 0)
  /\ UNCHANGED <<taken, g_VirtMemMutex, g_CurrentAddr, finder, robbed>>

\* Mutant: the next search starts where this one did.
ReserveFindAgain(r) ==
  LET a == NextPage(r) IN
  /\ finder[r] = "searching"
  /\ Fits(a, Pages(r)) /\ ReservedAt(a, Pages(r)) = {}
  /\ addr' = [addr EXCEPT ![r] = a]
  /\ wrapped' = (wrapped \/ a = 0)
  /\ g_VirtMemMutex' = "free"
  /\ finder' = [finder EXCEPT ![r] = "found"]
  /\ UNCHANGED <<taken, g_CurrentAddr, robbed>>

ReserveFind(r) ==
  LET a == NextPage(r) IN
  /\ finder[r] = "searching"
  /\ Fits(a, Pages(r)) /\ ReservedAt(a, Pages(r)) = {}
  /\ addr' = [addr EXCEPT ![r] = a]
  /\ wrapped' = (wrapped \/ a = 0)
  /\ g_CurrentAddr' = a + Pages(r)
  /\ g_VirtMemMutex' = "free"
  /\ finder' = [finder EXCEPT ![r] = "found"]
  /\ UNCHANGED <<taken, robbed>>

-----------------------------------------------------------------------------
(* locateMappableSpaceModern, for one page.                                *)

\* The heap and the alias region, which the whole range must not touch.
Avoided == {i \in DOMAIN Regions : i > 1 /\ Regions[i].start < Regions[i].end}
Overlaps(a, n) == {i \in Avoided : Regions[i].start <= a + n - 1 /\ a <= Regions[i].end - 1}

Locate ==
  /\ finder[Patcher] = "idle"
  /\ finder' = [finder EXCEPT ![Patcher] = "searching"]
  /\ addr' = [addr EXCEPT ![Patcher] = 0]
  /\ UNCHANGED <<taken, g_VirtMemMutex, g_CurrentAddr, wrapped, robbed>>

LocatePass ==
  LET a == addr[Patcher]
      over == Overlaps(a, 1) IN
  /\ finder[Patcher] = "searching" /\ a \in Space
  /\ \/ \E i \in over : First(i, over) /\ addr' = [addr EXCEPT ![Patcher] = Regions[i].end]
     \/ /\ over = {} /\ ~Fits(a, 1)
        /\ \E e \in BlockEnd(a) : addr' = [addr EXCEPT ![Patcher] = e]
  /\ UNCHANGED <<taken, g_VirtMemMutex, g_CurrentAddr, wrapped, finder, robbed>>

LocateFind ==
  /\ finder[Patcher] = "searching" /\ addr[Patcher] \in Space
  /\ Overlaps(addr[Patcher], 1) = {} /\ Fits(addr[Patcher], 1)
  /\ finder' = [finder EXCEPT ![Patcher] = "found"]
  /\ robbed' = robbed \ {Patcher}
  /\ UNCHANGED <<taken, g_VirtMemMutex, g_CurrentAddr, wrapped, addr>>

\* R_UNLESS(cur_base < aslr_end): claim aborts the program.
LocateFails ==
  /\ finder[Patcher] = "searching" /\ addr[Patcher] \notin Space
  /\ finder' = [finder EXCEPT ![Patcher] = "failed"]
  /\ UNCHANGED <<taken, g_VirtMemMutex, g_CurrentAddr, wrapped, addr, robbed>>

-----------------------------------------------------------------------------
(* The loop of A64HookInit.                                                *)

EngineLook ==
  /\ finder[Engine] = "idle"
  /\ finder' = [finder EXCEPT ![Engine] = "searching"]
  /\ addr' = [addr EXCEPT ![Engine] = Text - PoolPages]
  /\ UNCHANGED <<taken, g_VirtMemMutex, g_CurrentAddr, wrapped, robbed>>

\* The pool goes to the end of the first block that is large enough ...
Pools ==
  {e \in BlockEnd(addr[Engine]) : e >= PoolPages /\ Fits(e - PoolPages, PoolPages)}

EngineFind ==
  /\ finder[Engine] = "searching" /\ addr[Engine] \in Space
  /\ \E e \in Pools : addr' = [addr EXCEPT ![Engine] = e - PoolPages]
  /\ finder' = [finder EXCEPT ![Engine] = "found"]
  /\ UNCHANGED <<taken, g_VirtMemMutex, g_CurrentAddr, wrapped, robbed>>

\* ... page by page downwards.  Below the first page every query fails, and
\* the loop does not end.
EnginePass ==
  /\ finder[Engine] = "searching" /\ addr[Engine] \in Space
  /\ Pools = {}
  /\ addr' = [addr EXCEPT ![Engine] = @ - 1]
  /\ UNCHANGED <<taken, g_VirtMemMutex, g_CurrentAddr, wrapped, finder, robbed>>

EngineSearch == EngineFind \/ EnginePass

-----------------------------------------------------------------------------
(* The mappings.                                                           *)

\* Whoever maps these pages takes them from all others that have found them.
Rob(f, pages) ==
  robbed' = (robbed \ {f}) \cup {g \in Finders \ {f} : finder[g] = "found" /\ Found(g) \cap pages # {}}

\* svcMapProcessMemory, svcMapProcessCodeMemory or svcControlCodeMemory.
Map(f) ==
  /\ finder[f] = "found" /\ \A p \in Found(f) : IsFree(p)
  /\ taken' = [p \in Space |-> IF p \in Found(f) THEN f ELSE taken[p]]
  /\ finder' = [finder EXCEPT ![f] = "mapped"]
  /\ Rob(f, Found(f))
  /\ UNCHANGED <<g_VirtMemMutex, g_CurrentAddr, wrapped, addr>>

\* The kernel refuses: claim aborts, the buffer cannot be used.
MapRefused(f) ==
  /\ finder[f] = "found" /\ \E p \in Found(f) : ~IsFree(p)
  /\ finder' = [finder EXCEPT ![f] = "refused"]
  /\ UNCHANGED <<taken, g_VirtMemMutex, g_CurrentAddr, wrapped, addr, robbed>>

\* A buffer that is to be written keeps its address, a page of code does not.
Unmap(f) ==
  /\ finder[f] = "mapped"
  /\ taken' = [p \in Space |-> IF p \in Found(f) THEN "free" ELSE taken[p]]
  /\ finder' = [finder EXCEPT ![f] = IF f = Patcher THEN "idle" ELSE "found"]
  /\ UNCHANGED <<g_VirtMemMutex, g_CurrentAddr, wrapped, addr, robbed>>

GameMap(p) ==
  /\ p \in GamePages /\ IsFree(p)
  /\ taken' = [taken EXCEPT ![p] = "game"]
  /\ Rob("game", {p})
  /\ UNCHANGED <<g_VirtMemMutex, g_CurrentAddr, wrapped, finder, addr>>

GameUnmap(p) ==
  /\ taken[p] = "game"
  /\ taken' = [taken EXCEPT ![p] = "free"]
  /\ UNCHANGED <<g_VirtMemMutex, g_CurrentAddr, wrapped, finder, addr, robbed>>

Search(r) == ReservePassBlock(r) \/ ReservePassRegion(r) \/ ReserveFind(r)
SpaceNext ==
  \/ \E r \in Reservers : Reserve(r) \/ Search(r)
  \/ Locate \/ LocatePass \/ LocateFind \/ LocateFails
  \/ EngineLook \/ EngineSearch
  \/ \E f \in Finders : Map(f) \/ MapRefused(f) \/ Unmap(f)
  \/ \E p \in Space : GameMap(p) \/ GameUnmap(p)

SpaceSpec == SpaceInit /\ [][SpaceNext]_spaceVars

-----------------------------------------------------------------------------
SpaceTypeOK ==
  /\ taken \in [Space -> Finders \cup {"game", "free"}]
  /\ g_VirtMemMutex \in Reservers \cup {"free"} /\ g_CurrentAddr \in Nat /\ wrapped \in BOOLEAN
  /\ finder \in [Finders -> {"idle", "searching", "found", "mapped", "refused", "failed"}]
  /\ addr \in [Finders -> Int]
  /\ robbed \subseteq Finders

\* Nothing but a mapping made by somebody else after the search makes the
\* kernel refuse what either search has found.
RefusedOnlyWhenRobbed == \A f \in Finders : finder[f] = "refused" => f \in robbed

\* Reservations are kept apart by g_CurrentAddr alone, which works until a
\* search has gone through the whole address space.
ReservationsApart ==
  \A r, s \in Reservers :
    r # s /\ HasFound(r) /\ HasFound(s) /\ Found(r) \cap Found(s) # {} => wrapped

\* A reservation touches no reserved region that is at least as large as it is:
\* to look at its two ends is then enough.
ReservationsOutside ==
  \A r \in Reservers, i \in DOMAIN Regions :
    /\ HasFound(r) /\ Regions[i].end - Regions[i].start >= Wanted[r]
    => Found(r) \cap Run(Regions[i].start, Regions[i].end - Regions[i].start) = {}

\* Room for n pages behind a guard page, in no reserved region.
Room(a, n) ==
  /\ a + n < Size
  /\ \A p \in a..(a + n) : IsFree(p) /\ \A i \in DOMAIN Regions : ~InRegion(Regions[i], p)

\* The two loops that have no other way out.  virtmemReserve returns if some
\* place stays large enough from some time on, whatever the game does with the
\* others; A64HookInit, which looks at each page once, if there is always room
\* below the code.
SearchEnds ==
  /\ \A r \in Reservers :
       (\E a \in Space : <>[]Room(a, Wanted[r]))
         => [](finder[r] = "searching" => <>(finder[r] # "searching"))
  /\ (\E a \in 0..(Text - PoolPages) : [](\A p \in Run(a, PoolPages) :
                                             IsFree(p) \/ taken[p] = Engine))
       => [](finder[Engine] = "searching" => <>(finder[Engine] # "searching"))
=============================================================================
