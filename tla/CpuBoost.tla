------------------------------ MODULE CpuBoost ------------------------------
(***************************************************************************)
(* The CPU boost of ED7MiscPatches.cpp.  Four functions of the game are    *)
(* hooked and two flags carry over from one to the next.  Nothing is known *)
(* of the order in which the game calls them, of the threads it loads maps *)
(* on, nor of LoadBattle2 but that it returns zero or not, so everything   *)
(* is allowed.                                                             *)
(***************************************************************************)
CONSTANT Threads  \* threads of the game that load maps

VARIABLES
  LoadingBattle1, LoadingBattle2,  \* the flags of the code
  boost,   \* the mode set last by nn::oe::SetCpuBoostMode
  inMap,   \* the threads inside LoadMap_original
  gaveUp   \* the last battle load was given up and nothing ended the boost since

boostVars == <<LoadingBattle1, LoadingBattle2, boost, inMap, gaveUp>>

BoostInit ==
  /\ LoadingBattle1 = FALSE /\ LoadingBattle2 = FALSE
  /\ boost = FALSE /\ inMap = {}
  /\ gaveUp = FALSE

\* LoadBattle_hook: the boost stays on after it has returned.
LoadBattle ==
  /\ boost' = TRUE
  /\ LoadingBattle1' = TRUE
  /\ gaveUp' = FALSE
  /\ UNCHANGED <<LoadingBattle2, inMap>>

\* LoadBattle2_hook after the original has returned ret: a zero ends the
\* loading and leaves the boost as it is.
LoadBattle2(ret) ==
  /\ LoadingBattle1' = FALSE
  /\ IF LoadingBattle1 /\ ret # 0
     THEN boost' = FALSE /\ LoadingBattle2' = TRUE /\ gaveUp' = FALSE
     ELSE /\ gaveUp' = (gaveUp \/ LoadingBattle1)
          /\ UNCHANGED <<boost, LoadingBattle2>>
  /\ UNCHANGED inMap

\* LoadBattle3_hook after the original.
LoadBattle3 ==
  /\ IF LoadingBattle2
     THEN boost' = FALSE /\ LoadingBattle2' = FALSE /\ gaveUp' = FALSE
     ELSE UNCHANGED <<boost, LoadingBattle2, gaveUp>>
  /\ UNCHANGED <<LoadingBattle1, inMap>>

\* LoadMap_hook before and after the original.
LoadMapBegin(t) ==
  /\ t \notin inMap
  /\ boost' = TRUE
  /\ inMap' = inMap \cup {t}
  /\ UNCHANGED <<LoadingBattle1, LoadingBattle2, gaveUp>>

\* Mutant: the boost is not ended.
LoadMapEndForgotten(t) ==
  /\ t \in inMap
  /\ inMap' = inMap \ {t}
  /\ UNCHANGED <<LoadingBattle1, LoadingBattle2, boost, gaveUp>>

LoadMapEnd(t) ==
  /\ t \in inMap
  /\ boost' = FALSE /\ gaveUp' = FALSE
  /\ inMap' = inMap \ {t}
  /\ UNCHANGED <<LoadingBattle1, LoadingBattle2>>

BoostNext ==
  \/ LoadBattle \/ (\E ret \in {0, 1} : LoadBattle2(ret)) \/ LoadBattle3
  \/ \E t \in Threads : LoadMapBegin(t) \/ LoadMapEnd(t)

BoostSpec == BoostInit /\ [][BoostNext]_boostVars

-----------------------------------------------------------------------------
\* The boost outlives the loading it was switched on for in one case only: a
\* battle whose LoadBattle2 returned zero, where LoadBattle2_hook takes the flag
\* back and returns before it ends the boost.  Maps loaded at the same time,
\* calls left out or repeated and a late LoadBattle3 do not keep it on.
BoostOutlivesGivenUpBattles ==
  boost /\ inMap = {} /\ ~LoadingBattle1 => gaveUp
=============================================================================
