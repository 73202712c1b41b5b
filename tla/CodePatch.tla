------------------------------ MODULE CodePatch ------------------------------
(***************************************************************************)
(* Writing to the code and data of the game through a second mapping of    *)
(* its pages: ControlledPages::claim and unclaim, around the stores of     *)
(* sky_memcpy and of A64HookFunctionV.  A patch has an offset in its page, *)
(* and what it wrote has to leave the data cache, and what was there       *)
(* before the instruction cache, line by line.                             *)
(***************************************************************************)
EXTENDS Integers

CONSTANTS
  Page,      \* PAGE_SIZE
  Line,      \* bytes of a cache line
  Entries,   \* offsets in their pages of the functions that are hooked
  Patches    \* the other patches: [at, size, kind], a kind is "code" or "data"

VARIABLES
  patch,     \* the patch under way: [at, size, kind], or a hook
  step,      \* where it is
  unflushed, \* lines written whose data is only in the data cache
  stale      \* lines of the instruction cache with what was there before

patchVars == <<patch, step, unflushed, stale>>

\* A hook claims room for the patch it needs: one branch, or up to five words.
Hooks == [at : Entries, size : {4, 20}, kind : {"hook"}]

ASSUME PatchAssumption ==
  /\ Page \in Nat \ {0} /\ Line \in Nat \ {0}
  /\ Entries \subseteq 0..(Page - 1)
  /\ Patches \subseteq [at : 0..(Page - 1), size : Nat \ {0}, kind : {"code", "data"}]

AlignUp(n) == ((n + Page - 1) \div Page) * Page
Lines(at, n) == {byte \div Line : byte \in at..(at + n - 1)}

\* Mutant: a far patch is always five words long.
WrittenFive(p) == p.size

\* How many bytes the patch stores: A64HookFunctionV aligns the address that a
\* far patch loads, so that four of the five words are enough for most entries.
Written(p) ==
  IF p.kind = "hook" /\ p.size = 20 /\ (p.at + 8) % 8 = 0 THEN 16 ELSE p.size

PatchInit ==
  /\ patch \in Hooks \cup Patches
  /\ step = "start" /\ unflushed = {} /\ stale = {}

\* The two mappings of the pages from the one with the patch on: the size is
\* aligned without regard to the offset.  claim then compares eight bytes.
Inside(n) == patch.at + n <= AlignUp(patch.size)

Claim ==
  /\ step = "start"
  /\ step' = IF Inside(8) THEN "claimed" ELSE "fault"
  /\ UNCHANGED <<patch, unflushed, stale>>

\* The stores; some lines of code may be in the instruction cache.
Write ==
  LET lines == Lines(patch.at, Written(patch)) IN
  /\ step = "claimed"
  /\ step' = IF Inside(Written(patch)) THEN "written" ELSE "fault"
  /\ unflushed' = lines
  /\ stale' \in SUBSET IF patch.kind = "data" THEN {} ELSE lines
  /\ UNCHANGED patch

\* The cache writes a line back by itself.
WriteBack ==
  /\ \E l \in unflushed : unflushed' = unflushed \ {l}
  /\ UNCHANGED <<patch, step, stale>>

Flushed(lines) == unflushed' = unflushed \ lines /\ stale' = stale \ lines

\* Mutant: the hook leaves the caches to unclaim.
FlushHookForgotten ==
  /\ step = "written" /\ patch.kind = "hook"
  /\ step' = "flushed"
  /\ UNCHANGED <<patch, unflushed, stale>>

\* A hook flushes what it has claimed, by the address of the function.
FlushHook ==
  /\ step = "written" /\ patch.kind = "hook"
  /\ Flushed(Lines(patch.at, patch.size))
  /\ step' = "flushed"
  /\ UNCHANGED patch

\* unclaim flushes as many bytes as the patch has, from the start of the page.
Unclaim ==
  /\ step = IF patch.kind = "hook" THEN "flushed" ELSE "written"
  /\ Flushed(Lines(0, patch.size))
  /\ step' = "unclaimed"
  /\ UNCHANGED patch

PatchNext == Claim \/ Write \/ WriteBack \/ FlushHook \/ Unclaim
PatchSpec == PatchInit /\ [][PatchNext]_patchVars

-----------------------------------------------------------------------------
\* Where the program patches: the functions of the game begin at multiples of 16
\* bytes, and no other patch is too near the end of its page.
FunctionsAreAligned == Page % 16 = 0 /\ \A entry \in Entries : entry % 16 = 0
PatchesEndInTheirPage == \A p \in Patches : p.at + 8 <= Page /\ p.at + p.size <= Page

\* No patch of the program touches a page behind the ones that claim maps:
\* neither its stores nor the comparison that claim makes.
PatchesStayMapped == step # "fault"

\* A hook is in force when its pages are given back.
HooksReachTheCode ==
  step = "unclaimed" /\ patch.kind = "hook" => unflushed = {} /\ stale = {}

\* Every patch of code is: unclaim is to "invalidate caches"
\* (controlledpages.cpp:148).
PatchesReachTheCode ==
  step = "unclaimed" /\ patch.kind # "data" => unflushed = {} /\ stale = {}
=============================================================================
