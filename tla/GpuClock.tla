------------------------------ MODULE GpuClock ------------------------------
(***************************************************************************)
(* The clock of the GPU (ED7MiscPatches.cpp): RenderTexture_hook raises it *)
(* when the frame rate is low and lowers it in two steps afterwards, and   *)
(* nvnQueuePresentTexture_hook measures the frame rate.  The two run on    *)
(* different threads and share the byte FPS without a lock;                *)
(* RenderTexture_hook reads it twice.                                      *)
(***************************************************************************)
EXTENDS Integers

CONSTANTS
  Low,      \* the highest FPS that raises the clock (57 in the code)
  High,     \* the lowest FPS that lets it go back to normal (59)
  Middle,   \* calls until the clock is lowered once (450)
  Long,     \* calls until it can be lowered to normal (1200)
  MaxInt,   \* the largest value of the int Counter
  Byte      \* how many values FPS and FPS_temp have (256)

ASSUME ThresholdAssumption ==
  /\ Low \in Nat /\ High \in Nat /\ Middle \in Nat /\ Long \in Nat
  /\ MaxInt \in Nat /\ Byte \in Nat
  /\ Low < High /\ High < Byte
  /\ 1 < Middle /\ Middle < Long /\ Long < MaxInt

VARIABLES
  Counter,   \* calls since the last low frame rate, -1 when the clock is normal
  FPS,       \* the last measurement
  FPS_temp,  \* frames of the measurement under way
  clock,     \* the last performance configuration: that of the game or MHz
  at         \* where RenderTexture_hook is

vars == <<Counter, FPS, FPS_temp, clock, at>>

Clocks == {"game", "307", "384", "460"}

Init ==
  /\ Counter = -1
  /\ FPS = Byte - 1
  /\ FPS_temp = 0
  /\ clock = "game"
  /\ at = "entry"

\* Counter += 1 on an int: past its largest value the builds wrap around.
Increment(n) == IF n = MaxInt THEN -MaxInt - 1 ELSE n + 1

\* Mutant: the counter starts over without the clock being raised.
RaiseForgotten ==
  LET start == IF FPS <= Low THEN 0 ELSE Counter
      count == IF start > -1 THEN Increment(start) ELSE start
  IN  /\ at = "entry"
      /\ Counter' = count
      /\ clock' = IF count = Middle THEN "384" ELSE clock
      /\ at' = "second test"
      /\ UNCHANGED <<FPS, FPS_temp>>

\* The first part of RenderTexture_hook, with the first read of FPS.
Raise ==
  LET start == IF FPS <= Low THEN 0 ELSE Counter
      count == IF start > -1 THEN Increment(start) ELSE start
  IN  /\ at = "entry"
      /\ Counter' = count
      /\ clock' = IF count = Middle THEN "384" ELSE IF FPS <= Low THEN "460" ELSE clock
      /\ at' = "second test"
      /\ UNCHANGED <<FPS, FPS_temp>>

\* Mutant: the frame rate has to be above the threshold.
LowerNever ==
  /\ at = "second test"
  /\ IF Counter >= Long /\ FPS < High
     THEN clock' = "307" /\ Counter' = -1
     ELSE UNCHANGED <<clock, Counter>>
  /\ at' = "entry"
  /\ UNCHANGED <<FPS, FPS_temp>>

\* The second part, with the second read of FPS.
Lower ==
  /\ at = "second test"
  /\ IF Counter >= Long /\ FPS >= High
     THEN clock' = "307" /\ Counter' = -1
     ELSE UNCHANGED <<clock, Counter>>
  /\ at' = "entry"
  /\ UNCHANGED <<FPS, FPS_temp>>

\* nvnQueuePresentTexture_hook before a second has passed.
Present ==
  /\ FPS_temp' = (FPS_temp + 1) % Byte
  /\ UNCHANGED <<Counter, FPS, clock, at>>

\* nvnQueuePresentTexture_hook when a second has passed: FPS = FPS_temp - 1.
Measure ==
  /\ FPS' = (((FPS_temp + 1) % Byte) + (Byte - 1)) % Byte
  /\ FPS_temp' = 0
  /\ UNCHANGED <<Counter, clock, at>>

RenderTexture == Raise \/ Lower
Next == RenderTexture \/ Present \/ Measure

Spec == Init /\ [][Next]_vars

\* The game goes on rendering.
FairSpec == Spec /\ WF_vars(RenderTexture)

-----------------------------------------------------------------------------
TypeOK ==
  /\ Counter \in (-MaxInt - 1)..MaxInt
  /\ FPS \in 0..(Byte - 1) /\ FPS_temp \in 0..(Byte - 1)
  /\ clock \in Clocks
  /\ at \in {"entry", "second test"}

\* The counter and the clock, which RenderTexture_hook keeps in two places, say
\* the same: 460 MHz until the middle of the boost, 384 MHz after it, and the
\* normal clock when nothing is counted.  A counter that overflows while the
\* frame rate stays between the two thresholds leaves 384 MHz behind.
ClockFollowsCounter ==
  /\ Counter = -1 => clock \in {"game", "307"}
  /\ 0 <= Counter /\ Counter < Middle => clock = "460"
  /\ Counter >= Middle \/ Counter < -1 => clock = "384"

\* The clock is never lowered from 460 MHz to normal at once, although another
\* thread changes FPS between its two uses in RenderTexture_hook.
LoweredInSteps == [][clock = "460" /\ clock' # "460" => clock' = "384"]_vars

\* From every state in which the counter is not about to overflow, a frame rate
\* that has recovered for good brings the normal clock back.
BoostEnds ==
  [](Counter \in -1..(MaxInt - 1) /\ [](FPS >= High) => <>(clock \in {"game", "307"}))
=============================================================================
