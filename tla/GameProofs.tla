----------------------------- MODULE GameProofs -----------------------------
(***************************************************************************)
(* The hooks on the running game, for every choice of their constants: the *)
(* clock of the GPU, the boost of the CPU, the global variables of the     *)
(* text hooks and the width of a window.                                   *)
(***************************************************************************)
EXTENDS MCGame, TLAPS, FiniteSetTheorems

-----------------------------------------------------------------------------
(* The clock of the GPU.                                                   *)


\* Besides the agreement, only that the counter is a number between the bounds
\* of an int is needed.
ClockInv == Counter \in (-MaxInt - 1)..MaxInt /\ ClockFollowsCounter

LEMMA InitClock == Init => ClockInv
BY ThresholdAssumption DEF Init, ClockInv, ClockFollowsCounter

LEMMA RaiseClock == ClockInv /\ Raise => ClockInv'
<1> SUFFICES ASSUME ClockInv, Raise PROVE ClockInv'
  OBVIOUS
<1> USE ThresholdAssumption
<1>1. CASE FPS <= Low
  <2>1. Increment(0) = 1
    BY DEF Increment
  <2>2. Counter' = Increment(0)
    <3>1. (IF FPS <= Low THEN 0 ELSE Counter) = 0 /\ 0 > -1
      BY <1>1
    <3> QED BY <3>1 DEF Raise
  <2>3. Counter' = 1 /\ Counter' # Middle
    BY <2>1, <2>2
  <2>4. clock' = IF Counter' = Middle THEN "384" ELSE "460"
    BY <1>1 DEF Raise
  <2>5. clock' = "460"
    BY <2>3, <2>4
  <2> QED BY <2>3, <2>5 DEF ClockInv, ClockFollowsCounter
<1>2. CASE ~(FPS <= Low) /\ Counter > -1
  <2>1. Counter' = Increment(Counter)
    BY <1>2 DEF Raise
  <2>2. clock' = IF Counter' = Middle THEN "384" ELSE clock
    BY <1>2 DEF Raise
  <2>3. CASE Counter = MaxInt
    <3>1. Counter' = -MaxInt - 1 /\ clock' = clock
      BY <2>1, <2>2, <2>3 DEF Increment
    <3>2. clock = "384"
      BY <2>3 DEF ClockInv, ClockFollowsCounter
    <3> QED BY <3>1, <3>2 DEF ClockInv, ClockFollowsCounter
  <2>4. CASE Counter # MaxInt
    <3>1. Counter' = Counter + 1
      BY <2>1, <2>4 DEF Increment
    <3> QED BY <1>2, <2>2, <2>4, <3>1 DEF ClockInv, ClockFollowsCounter
  <2> QED BY <2>3, <2>4
<1>3. CASE ~(FPS <= Low) /\ ~(Counter > -1)
  <2>1. Counter' = Counter
    BY <1>3 DEF Raise
  <2>2. Counter # Middle
    BY <1>3 DEF ClockInv
  <2>3. clock' = clock
    BY <1>3, <2>1, <2>2 DEF Raise
  <2> QED BY <2>1, <2>3 DEF ClockInv, ClockFollowsCounter
<1> QED BY <1>1, <1>2, <1>3

LEMMA LowerClock == ClockInv /\ Lower => ClockInv'
<1> SUFFICES ASSUME ClockInv, Lower PROVE ClockInv'
  OBVIOUS
<1>1. (clock' = "307" /\ Counter' = -1) \/ (clock' = clock /\ Counter' = Counter)
  BY DEF Lower
<1>2. CASE clock' = "307" /\ Counter' = -1
  BY <1>2, ThresholdAssumption DEF ClockInv, ClockFollowsCounter
<1>3. CASE clock' = clock /\ Counter' = Counter
  BY <1>3 DEF ClockInv, ClockFollowsCounter
<1> QED BY <1>1, <1>2, <1>3

LEMMA NextClock == ClockInv /\ [Next]_vars => ClockInv'
<1> SUFFICES ASSUME ClockInv, [Next]_vars PROVE ClockInv'
  OBVIOUS
<1>1. CASE Raise
  BY <1>1, RaiseClock
<1>2. CASE Lower
  BY <1>2, LowerClock
<1>3. CASE Present
  BY <1>3 DEF Present, ClockInv, ClockFollowsCounter
<1>4. CASE Measure
  BY <1>4 DEF Measure, ClockInv, ClockFollowsCounter
<1>5. CASE UNCHANGED vars
  BY <1>5 DEF vars, ClockInv, ClockFollowsCounter
<1> QED BY <1>1, <1>2, <1>3, <1>4, <1>5 DEF Next, RenderTexture

\* The strengthened invariant holds in every reachable state.
THEOREM ClockInvariance == Spec => []ClockInv
BY InitClock, NextClock, PTL DEF Spec

LEMMA Wraps ==
  ASSUME NEW n \in Int
  PROVE  n % Byte \in 0..(Byte - 1)
<1>1. Byte \in Nat \ {0}
  BY ThresholdAssumption
<1> QED BY <1>1, Z3

LEMMA MeasurementTypes ==
  ASSUME FPS_temp \in 0..(Byte - 1)
  PROVE  /\ 0 \in 0..(Byte - 1)
         /\ (FPS_temp + 1) % Byte \in 0..(Byte - 1)
         /\ (((FPS_temp + 1) % Byte) + (Byte - 1)) % Byte \in 0..(Byte - 1)
<1> DEFINE frames == (FPS_temp + 1) % Byte
<1>1. Byte \in Nat
  BY ThresholdAssumption
<1>2. FPS_temp + 1 \in Int
  BY <1>1
<1>3. frames \in 0..(Byte - 1)
  BY <1>2, Wraps, Zenon
<1> HIDE DEF frames
<1>4. frames + (Byte - 1) \in Int
  BY <1>1, <1>3
<1>5. (frames + (Byte - 1)) % Byte \in 0..(Byte - 1)
  BY <1>4, Wraps, Zenon
<1>6. 0 \in 0..(Byte - 1)
  BY <1>1
<1> QED BY <1>3, <1>5, <1>6 DEF frames

\* Every variable of the clock keeps its type; the counter is an int.
THEOREM ClockTypes == Spec => []TypeOK
<1> USE ThresholdAssumption DEF TypeOK
<1>1. Init => TypeOK
  BY DEF Init, Clocks
<1>2. TypeOK /\ ClockInv /\ ClockInv' /\ [Next]_vars => TypeOK'
  <2> SUFFICES ASSUME TypeOK, ClockInv', [Next]_vars PROVE TypeOK'
    OBVIOUS
  <2> USE DEF ClockInv
  <2>1. CASE Raise
    BY <2>1 DEF Raise, Clocks
  <2>2. CASE Lower
    BY <2>2 DEF Lower, Clocks
  <2>3. CASE Present
    BY <2>3, MeasurementTypes DEF Present
  <2>4. CASE Measure
    <3>1. FPS' \in 0..(Byte - 1)
      BY <2>4, MeasurementTypes, Zenon DEF Measure
    <3>2. FPS_temp' = 0 /\ UNCHANGED <<Counter, clock, at>>
      BY <2>4, Zenon DEF Measure
    <3>3. FPS_temp' \in 0..(Byte - 1)
      BY <3>2, MeasurementTypes, Zenon
    <3> QED BY <3>1, <3>2, <3>3, Zenon
  <2>5. CASE UNCHANGED vars
    BY <2>5 DEF vars
  <2> QED BY <2>1, <2>2, <2>3, <2>4, <2>5 DEF Next, RenderTexture
<1> QED BY <1>1, <1>2, ClockInvariance, PTL DEF Spec

\* RenderTexture_hook keeps Counter and the performance configuration in step,
\* for all thresholds in the order 1 < Middle < Long, however the thread that
\* measures interferes and also when the counter overflows.
THEOREM CounterTellsClock == Spec => []ClockFollowsCounter
<1>1. ClockInv => ClockFollowsCounter
  BY DEF ClockInv
<1> QED BY <1>1, ClockInvariance, PTL

\* The clock of the GPU is never lowered from 460 MHz to normal in one call of
\* RenderTexture_hook.
THEOREM ClockGoesDownInSteps == Spec => LoweredInSteps
<1>1. ClockInv /\ [Next]_vars => (clock = "460" /\ clock' # "460" => clock' = "384")
  <2> SUFFICES ASSUME ClockInv, [Next]_vars, clock = "460", clock' # "460"
               PROVE  clock' = "384"
    OBVIOUS
  <2>1. CASE Raise
    BY <2>1 DEF Raise
  <2>2. CASE Lower
    <3>1. Counter >= Long
      BY <2>2 DEF Lower
    <3>2. Counter >= Middle
      BY <3>1, ThresholdAssumption DEF ClockInv
    <3> QED BY <3>2 DEF ClockInv, ClockFollowsCounter
  <2>3. CASE Present \/ Measure \/ UNCHANGED vars
    BY <2>3 DEF Present, Measure, vars
  <2> QED BY <2>1, <2>2, <2>3 DEF Next, RenderTexture
<1>2. ClockInv /\ [Next]_vars =>
        [clock = "460" /\ clock' # "460" => clock' = "384"]_vars
  BY <1>1
<1> QED BY <1>2, ClockInvariance, PTL DEF Spec, LoweredInSteps

-----------------------------------------------------------------------------
(* The boost of the CPU.                                                   *)

\* The boost outlives its loading only after a battle that was given up: the
\* formula is inductive as it stands.
THEOREM BoostIsBounded == BoostSpec => []BoostOutlivesGivenUpBattles
<1> USE DEF BoostOutlivesGivenUpBattles
<1>1. BoostInit => BoostOutlivesGivenUpBattles
  BY DEF BoostInit
<1>2. BoostOutlivesGivenUpBattles /\ [BoostNext]_boostVars => BoostOutlivesGivenUpBattles'
  <2> SUFFICES ASSUME BoostOutlivesGivenUpBattles, [BoostNext]_boostVars
               PROVE  BoostOutlivesGivenUpBattles'
    OBVIOUS
  <2>1. CASE LoadBattle
    BY <2>1 DEF LoadBattle
  <2>2. ASSUME NEW ret \in {0, 1}, LoadBattle2(ret)
        PROVE  BoostOutlivesGivenUpBattles'
    BY <2>2 DEF LoadBattle2
  <2>3. CASE LoadBattle3
    BY <2>3 DEF LoadBattle3
  <2>4. ASSUME NEW t \in Threads, LoadMapBegin(t)
        PROVE  BoostOutlivesGivenUpBattles'
    BY <2>4 DEF LoadMapBegin
  <2>5. ASSUME NEW t \in Threads, LoadMapEnd(t)
        PROVE  BoostOutlivesGivenUpBattles'
    BY <2>5 DEF LoadMapEnd
  <2>6. CASE UNCHANGED boostVars
    BY <2>6 DEF boostVars
  <2> QED BY <2>1, <2>2, <2>3, <2>4, <2>5, <2>6 DEF BoostNext
<1> QED BY <1>1, <1>2, PTL DEF BoostSpec

-----------------------------------------------------------------------------
(* The text hooks: the types.                                              *)

\* What the hooks do to the frame of a thread.
LEMMA Enters ==
  ASSUME frame \in [TextThreads -> Frames], NEW t \in TextThreads,
         NEW in \in {"window", "save"}, NEW want \in FixedWidths \cup {None, 1}
  PROVE  [frame EXCEPT ![t].in = in, ![t].want = want] \in [TextThreads -> Frames]
BY DEF Frames

LEMMA Prints ==
  ASSUME frame \in [TextThreads -> Frames], NEW t \in TextThreads,
         CorrectFixedWidthValue \in BOOLEAN, PrintText(t)
  PROVE  frame' \in [TextThreads -> Frames]
BY DEF PrintText, Frames

LEMMA PrintEnds ==
  ASSUME frame \in [TextThreads -> Frames], NEW t \in TextThreads, PrintTextEnd(t)
  PROVE  frame' \in [TextThreads -> Frames]
<1> DEFINE new == [frame[t] EXCEPT !.in = frame[t].from, !.from = "game", !.fixed = FALSE]
<1>1. frame[t] \in Frames
  OBVIOUS
<1>2. new \in Frames
  BY <1>1 DEF Frames
<1>3. frame' = [frame EXCEPT ![t] = new]
  BY DEF PrintTextEnd, Frames
<1> HIDE DEF new
<1> QED BY <1>2, <1>3

\* Every variable of the text hooks keeps its type.
THEOREM TextTypes == TextSpec => []TextTypeOK
<1> USE DEF TextTypeOK, fixedVars, bookVars, None
<1>1. TextInit => TextTypeOK
  <2>1. TextInit => frame \in [TextThreads -> Frames]
    BY DEF TextInit, Outside, Frames
  <2> QED BY <2>1 DEF TextInit
<1>2. TextTypeOK /\ [TextNext]_textVars => TextTypeOK'
  <2> SUFFICES ASSUME TextTypeOK, [TextNext]_textVars PROVE TextTypeOK'
    OBVIOUS
  <2>1. CASE Store
    BY <2>1 DEF Store
  <2>2. ASSUME NEW t \in TextThreads, AnonymousText(t) PROVE TextTypeOK'
    <3>1. PICK override \in FixedWidths \cup {0, -1} :
                 /\ OriginalFixedWidth' = IF WidthFound(override) # None
                                          THEN WidthFound(override) ELSE OriginalFixedWidth
                 /\ stored' = IF override = -1 THEN None ELSE stored
                 /\ frame' = [frame EXCEPT ![t].in = "window", ![t].want = WidthFound(override)]
                 /\ CorrectFixedWidthValue' = (CorrectFixedWidthValue \/ WidthFound(override) # None)
      BY <2>2 DEF AnonymousText
    <3>2. WidthFound(override) \in FixedWidths \cup {None}
      BY DEF WidthFound
    <3>3. frame' \in [TextThreads -> Frames]
      BY <3>1, <3>2, Enters
    <3> QED BY <2>2, <3>1, <3>2, <3>3 DEF AnonymousText, Called
  <2>3. ASSUME NEW t \in TextThreads, AnonymousTextEnd(t) PROVE TextTypeOK'
    <3>1. frame' \in [TextThreads -> Frames]
      BY <2>3 DEF AnonymousTextEnd, Frames, Outside
    <3> QED BY <2>3, <3>1 DEF AnonymousTextEnd
  <2>4. ASSUME NEW t \in TextThreads, PrintText(t) PROVE TextTypeOK'
    <3>1. frame' \in [TextThreads -> Frames]
      BY <2>4, Prints
    <3> QED BY <2>4, <3>1 DEF PrintText, Called
  <2>5. ASSUME NEW t \in TextThreads, PrintTextEnd(t) PROVE TextTypeOK'
    <3>1. frame' \in [TextThreads -> Frames]
      BY <2>5, PrintEnds
    <3> QED BY <2>5, <3>1 DEF PrintTextEnd, Note
  <2>6. ASSUME NEW t \in TextThreads, BookDrawText(t) PROVE TextTypeOK'
    <3>1. frame' \in [TextThreads -> Frames]
      BY <2>6 DEF BookDrawText, Frames
    <3> QED BY <2>6, <3>1 DEF BookDrawText, Called
  <2>7. ASSUME NEW t \in TextThreads, BookDrawTextEnd(t) PROVE TextTypeOK'
    <3>1. frame' \in [TextThreads -> Frames]
      BY <2>7 DEF BookDrawTextEnd, Frames, Outside
    <3> QED BY <2>7, <3>1 DEF BookDrawTextEnd
  <2>8. ASSUME NEW t \in TextThreads, BookIsKana(t) PROVE TextTypeOK'
    <3>1. PICK c \in NarrowChars \cup {None} :
                 /\ \/ /\ IsKanaBookCheckDone' = TRUE /\ GetWidthDoneOnce' = FALSE
                       /\ IsKanaBookCheckCharacter' = c /\ DrawingBookText' = DrawingBookText
                    \/ UNCHANGED bookVars
                 /\ frame' = [frame EXCEPT ![t].want = IF frame[t].in = "book" THEN c ELSE None]
      BY <2>8 DEF BookIsKana
    <3>2. frame' \in [TextThreads -> Frames]
      BY <3>1 DEF Frames
    <3> QED BY <2>8, <3>1, <3>2 DEF BookIsKana, Called
  <2>9. ASSUME NEW t \in TextThreads, BookGetFontWidth(t) PROVE TextTypeOK'
    <3>1. frame' \in [TextThreads -> Frames]
      BY <2>9 DEF BookGetFontWidth, Frames
    <3> QED BY <2>9, <3>1 DEF BookGetFontWidth, Called, Note
  <2>10. ASSUME NEW t \in TextThreads, SaveListFontRender(t) PROVE TextTypeOK'
    <3>1. PICK wide \in BOOLEAN :
                 /\ HookFontHorizontalScale' = (HookFontHorizontalScale \/ wide)
                 /\ frame' = [frame EXCEPT ![t].in = "save", ![t].want = IF wide THEN 1 ELSE None]
      BY <2>10 DEF SaveListFontRender
    <3>2. frame' \in [TextThreads -> Frames]
      BY <3>1, Enters
    <3> QED BY <2>10, <3>1, <3>2 DEF SaveListFontRender, Called
  <2>11. ASSUME NEW t \in TextThreads, SaveListFontRenderEnd(t) PROVE TextTypeOK'
    <3>1. frame' \in [TextThreads -> Frames]
      BY <2>11 DEF SaveListFontRenderEnd, Frames, Outside
    <3> QED BY <2>11, <3>1 DEF SaveListFontRenderEnd
  <2>12. ASSUME NEW t \in TextThreads, DrawFontClip(t) PROVE TextTypeOK'
    <3>1. frame' \in [TextThreads -> Frames]
      BY <2>12 DEF DrawFontClip, Frames
    <3> QED BY <2>12, <3>1 DEF DrawFontClip, Called, Note
  <2>13. CASE UNCHANGED textVars
    BY <2>13 DEF textVars
  <2> QED BY <2>1, <2>2, <2>3, <2>4, <2>5, <2>6, <2>7, <2>8, <2>9, <2>10, <2>11, <2>12, <2>13 DEF TextNext, TextStep
<1> QED BY <1>1, <1>2, PTL DEF TextSpec

-----------------------------------------------------------------------------
(* What is left for the next text.                                         *)

Inside(t) == frame[t].in = "window" \/ frame[t].from = "window"

\* A flag that is set has somebody to take it back, and a thread that came to
\* PrintText from a window is still there.
LeftInv ==
  /\ frame \in [TextThreads -> Frames]
  /\ \A t \in TextThreads : frame[t].from = "window" => frame[t].in = "print"
  /\ CorrectFixedWidthValue => \E t \in TextThreads : Inside(t)
  /\ DrawingBookText \/ IsKanaBookCheckDone =>
       \E t \in TextThreads : frame[t].in = "book"

LEMMA LeftInvariance == TextSpec => []LeftInv
<1> USE DEF fixedVars, bookVars
<1>1. TextInit => LeftInv
  BY DEF TextInit, LeftInv, Outside, Frames, None
<1>2. LeftInv /\ TextTypeOK' /\ [TextNext]_textVars => LeftInv'
  <2> SUFFICES ASSUME LeftInv, TextTypeOK', [TextNext]_textVars PROVE LeftInv'
    OBVIOUS
  <2>0. frame' \in [TextThreads -> Frames]
    BY DEF TextTypeOK
  <2> USE <2>0 DEF LeftInv, Inside, Frames
  <2>1. CASE Store
    BY <2>1 DEF Store
  <2>2. ASSUME NEW t \in TextThreads, AnonymousText(t) PROVE LeftInv'
    BY <2>2 DEF AnonymousText
  <2>3. ASSUME NEW t \in TextThreads, AnonymousTextEnd(t) PROVE LeftInv'
    BY <2>3 DEF AnonymousTextEnd, Outside
  <2>4. ASSUME NEW t \in TextThreads, PrintText(t) PROVE LeftInv'
    BY <2>4 DEF PrintText
  <2>5. ASSUME NEW t \in TextThreads, PrintTextEnd(t) PROVE LeftInv'
    BY <2>5 DEF PrintTextEnd
  <2>6. ASSUME NEW t \in TextThreads, BookDrawText(t) PROVE LeftInv'
    BY <2>6 DEF BookDrawText
  <2>7. ASSUME NEW t \in TextThreads, BookDrawTextEnd(t) PROVE LeftInv'
    BY <2>7 DEF BookDrawTextEnd, Outside
  <2>8. ASSUME NEW t \in TextThreads, BookIsKana(t) PROVE LeftInv'
    BY <2>8 DEF BookIsKana
  <2>9. ASSUME NEW t \in TextThreads, BookGetFontWidth(t) PROVE LeftInv'
    <3>1. \A u \in TextThreads :
            frame'[u].in = frame[u].in /\ frame'[u].from = frame[u].from
      BY <2>9 DEF BookGetFontWidth
    <3>2. /\ UNCHANGED <<CorrectFixedWidthValue, DrawingBookText>>
          /\ IsKanaBookCheckDone' => IsKanaBookCheckDone
      BY <2>9 DEF BookGetFontWidth
    <3> QED BY <3>1, <3>2
  <2>10. ASSUME NEW t \in TextThreads, SaveListFontRender(t) PROVE LeftInv'
    BY <2>10 DEF SaveListFontRender
  <2>11. ASSUME NEW t \in TextThreads, SaveListFontRenderEnd(t) PROVE LeftInv'
    BY <2>11 DEF SaveListFontRenderEnd, Outside
  <2>12. ASSUME NEW t \in TextThreads, DrawFontClip(t) PROVE LeftInv'
    BY <2>12 DEF DrawFontClip
  <2>13. CASE UNCHANGED textVars
    BY <2>13 DEF textVars
  <2> QED BY <2>1, <2>2, <2>3, <2>4, <2>5, <2>6, <2>7, <2>8, <2>9, <2>10, <2>11, <2>12, <2>13 DEF TextNext, TextStep
<1> QED BY <1>1, <1>2, TextTypes, PTL DEF TextSpec

\* However many threads draw text and however their calls overlap, no flag of a
\* window or a book is left for a text outside of it.
THEOREM NothingLeft == TextSpec => []NothingLeftForNextText
<1>1. LeftInv => NothingLeftForNextText
  BY DEF LeftInv, NothingLeftForNextText, Inside
<1> QED BY <1>1, LeftInvariance, PTL

-----------------------------------------------------------------------------
(* What reaches another text.                                              *)

\* What the global variables hold is meant for the text that thread t draws.
Meant(t) ==
  /\ frame[t].in = "game" \/ (frame[t].in = "print" /\ frame[t].from = "game") =>
       frame[t].want = None /\ ~frame[t].fixed
  /\ Inside(t) =>
       /\ CorrectFixedWidthValue <=> frame[t].want # None
       /\ CorrectFixedWidthValue => OriginalFixedWidth = frame[t].want
       /\ frame[t].in = "print" => (frame[t].fixed <=> CorrectFixedWidthValue)
  /\ frame[t].in = "book" =>
       /\ DrawingBookText
       /\ frame[t].want = IF IsKanaBookCheckDone THEN IsKanaBookCheckCharacter ELSE None
  /\ frame[t].in = "save" /\ frame[t].want # None =>
       frame[t].want = 1 /\ HookFontHorizontalScale

\* As long as no two threads were inside the hooks at once, one thread at most
\* is, and all is meant for it; a scale that is set waits for its description
\* unless one was left undrawn.
AloneInv ==
  /\ ~together =>
       /\ \A t, u \in TextThreads : t # u => frame[t].in = "game" \/ frame[u].in = "game"
       /\ \A t \in TextThreads : Meant(t)
       /\ ~undrawn /\ HookFontHorizontalScale =>
            \E t \in TextThreads : frame[t].in = "save" /\ frame[t].want = 1
  /\ OnlyOverlapOrUndrawnGoAstray

\* All others are outside of the hooks.
Others(t) == \A u \in TextThreads \ {t} : frame[u].in = "game"

\* A set flag then is one of thread t.
LEMMA Before ==
  ASSUME AloneInv, LeftInv, ~together, NEW t \in TextThreads, Others(t)
  PROVE  /\ \A u \in TextThreads : Meant(u)
         /\ CorrectFixedWidthValue => Inside(t)
         /\ DrawingBookText \/ IsKanaBookCheckDone => frame[t].in = "book"
         /\ ~undrawn /\ HookFontHorizontalScale => frame[t].in = "save" /\ frame[t].want = 1
         /\ "window" \notin astray /\ "book" \notin astray
         /\ "clip" \in astray => undrawn
BY DEF AloneInv, LeftInv, Others, Inside, OnlyOverlapOrUndrawnGoAstray

\* And what is right for thread t after a step of its own is right for all.
LEMMA After ==
  ASSUME LeftInv, NEW t \in TextThreads, Others(t), \A u \in TextThreads : Meant(u),
         \A u \in TextThreads \ {t} : frame'[u] = frame[u],
         Meant(t)',
         ~undrawn' /\ HookFontHorizontalScale' => frame'[t].in = "save" /\ frame'[t].want = 1,
         "window" \notin astray' /\ "book" \notin astray',
         "clip" \in astray' => undrawn'
  PROVE  AloneInv'
<1>1. \A u \in TextThreads \ {t} : frame'[u].in = "game" /\ ~Inside(u)'
  BY DEF Others, LeftInv, Inside
<1>2. \A u \in TextThreads \ {t} : Meant(u)'
  BY <1>1 DEF Others, Meant
<1>3. \A u \in TextThreads : Meant(u)'
  BY <1>2
<1>4. OnlyOverlapOrUndrawnGoAstray'
  BY DEF OnlyOverlapOrUndrawnGoAstray
<1> QED BY <1>1, <1>3, <1>4 DEF AloneInv

LEMMA AloneInvariance == TextSpec => []AloneInv
<1>1. TextInit => AloneInv
  BY DEF TextInit, AloneInv, Meant, Inside, Outside, None, OnlyOverlapOrUndrawnGoAstray
<1>2. AloneInv /\ TextTypeOK /\ LeftInv /\ [TextNext]_textVars => AloneInv'
  <2> SUFFICES ASSUME AloneInv, TextTypeOK, LeftInv, [TextNext]_textVars PROVE AloneInv'
    OBVIOUS
  <2> USE DEF fixedVars, bookVars
  <2>0. frame \in [TextThreads -> Frames]
    BY DEF LeftInv
  <2>1. CASE Store
    BY <2>1 DEF Store, AloneInv, Meant, Inside, OnlyOverlapOrUndrawnGoAstray
  <2>2. CASE UNCHANGED textVars
    BY <2>2 DEF textVars, AloneInv, Meant, Inside, OnlyOverlapOrUndrawnGoAstray
  <2>3. ASSUME NEW t \in TextThreads, TextStep(t) PROVE AloneInv'
    <3>1. CASE together'
      BY <3>1 DEF AloneInv, OnlyOverlapOrUndrawnGoAstray
    <3>2. CASE ~together'
      <4>1. ~together /\ Others(t) /\ \A u \in TextThreads \ {t} : frame'[u] = frame[u]
        <5>1. CASE AnonymousText(t)
          BY <2>0, <3>2, <5>1 DEF AnonymousText, Called, AloneInv, Others, LeftInv, Frames
        <5>2. CASE AnonymousTextEnd(t)
          BY <2>0, <3>2, <5>2 DEF AnonymousTextEnd, Called, AloneInv, Others, LeftInv, Frames
        <5>3. CASE PrintText(t)
          BY <2>0, <3>2, <5>3 DEF PrintText, Called, AloneInv, Others, LeftInv, Frames
        <5>4. CASE PrintTextEnd(t)
          BY <2>0, <3>2, <5>4 DEF PrintTextEnd, Called, AloneInv, Others, LeftInv, Frames
        <5>5. CASE BookDrawText(t)
          BY <2>0, <3>2, <5>5 DEF BookDrawText, Called, AloneInv, Others, LeftInv, Frames
        <5>6. CASE BookDrawTextEnd(t)
          BY <2>0, <3>2, <5>6 DEF BookDrawTextEnd, Called, AloneInv, Others, LeftInv, Frames
        <5>7. CASE BookIsKana(t)
          BY <2>0, <3>2, <5>7 DEF BookIsKana, Called, AloneInv, Others, LeftInv, Frames
        <5>8. CASE BookGetFontWidth(t)
          BY <2>0, <3>2, <5>8 DEF BookGetFontWidth, Called, AloneInv, Others, LeftInv, Frames
        <5>9. CASE SaveListFontRender(t)
          BY <2>0, <3>2, <5>9 DEF SaveListFontRender, Called, AloneInv, Others, LeftInv, Frames
        <5>10. CASE SaveListFontRenderEnd(t)
          BY <2>0, <3>2, <5>10 DEF SaveListFontRenderEnd, Called, AloneInv, Others, LeftInv, Frames
        <5>11. CASE DrawFontClip(t)
          BY <2>0, <3>2, <5>11 DEF DrawFontClip, Called, AloneInv, Others, LeftInv, Frames
        <5> QED BY <2>3, <5>1, <5>2, <5>3, <5>4, <5>5, <5>6, <5>7, <5>8, <5>9, <5>10, <5>11 DEF TextStep
      <4> USE <2>0, <3>2, <4>1, Before, After
      <4>2. CASE AnonymousText(t)
        BY <4>2, Before, After DEF AnonymousText, Note, Meant, Inside, Outside, WidthFound, None, Frames, LeftInv
      <4>3. CASE AnonymousTextEnd(t)
        BY <4>3, Before, After DEF AnonymousTextEnd, Note, Meant, Inside, Outside, WidthFound, None, Frames, LeftInv
      <4>4. CASE PrintText(t)
        BY <4>4, Before, After DEF PrintText, Note, Meant, Inside, Outside, WidthFound, None, Frames, LeftInv
      <4>5. CASE PrintTextEnd(t)
        BY <4>5, Before, After DEF PrintTextEnd, Note, Meant, Inside, Outside, WidthFound, None, Frames, LeftInv
      <4>6. CASE BookDrawText(t)
        BY <4>6, Before, After DEF BookDrawText, Note, Meant, Inside, Outside, WidthFound, None, Frames, LeftInv
      <4>7. CASE BookDrawTextEnd(t)
        BY <4>7, Before, After DEF BookDrawTextEnd, Note, Meant, Inside, Outside, WidthFound, None, Frames, LeftInv
      <4>8. CASE BookIsKana(t)
        BY <4>8, Before, After DEF BookIsKana, Note, Meant, Inside, Outside, WidthFound, None, Frames, LeftInv
      <4>9. CASE BookGetFontWidth(t)
        BY <4>9, Before, After DEF BookGetFontWidth, Note, Meant, Inside, Outside, WidthFound, None, Frames, LeftInv
      <4>10. CASE SaveListFontRender(t)
        BY <4>10, Before, After DEF SaveListFontRender, Note, Meant, Inside, Outside, WidthFound, None, Frames, LeftInv
      <4>11. CASE SaveListFontRenderEnd(t)
        <5>1. frame'[t] = Outside /\ ~Inside(t)' /\ Meant(t)'
          BY <4>11 DEF SaveListFontRenderEnd, Meant, Inside, Outside
        <5>2. ~(~undrawn' /\ HookFontHorizontalScale')
          <6>1. undrawn' = (undrawn \/ frame[t].want # None)
            BY <4>11 DEF SaveListFontRenderEnd
          <6>2. frame[t].in = "save" /\ HookFontHorizontalScale' = HookFontHorizontalScale
            BY <4>11 DEF SaveListFontRenderEnd
          <6>3. CASE undrawn
            BY <6>1, <6>3
          <6>4. CASE ~undrawn /\ HookFontHorizontalScale
            <7>1. frame[t].want # None
              BY <6>4, Before DEF None
            <7> QED BY <6>1, <7>1
          <6> QED BY <6>2, <6>3, <6>4
        <5>3. astray' = astray /\ (undrawn => undrawn')
          BY <4>11 DEF SaveListFontRenderEnd
        <5> QED BY <5>1, <5>2, <5>3, Before, After
      <4>12. CASE DrawFontClip(t)
        BY <4>12, Before, After DEF DrawFontClip, Note, Meant, Inside, Outside, WidthFound, None, Frames, LeftInv
      <4> QED BY <2>3, <4>2, <4>3, <4>4, <4>5, <4>6, <4>7, <4>8, <4>9, <4>10, <4>11, <4>12 DEF TextStep
    <3> QED BY <3>1, <3>2
  <2> QED BY <2>1, <2>2, <2>3 DEF TextNext
<1> QED BY <1>1, <1>2, TextTypes, LeftInvariance, PTL DEF TextSpec

\* A value in a global variable reaches another text than its own only if two
\* threads were inside the hooks at once or a wide description was never drawn.
THEOREM OnlyOverlapOrUndrawn == TextSpec => []OnlyOverlapOrUndrawnGoAstray
<1>1. AloneInv => OnlyOverlapOrUndrawnGoAstray
  BY DEF AloneInv
<1> QED BY <1>1, AloneInvariance, PTL

-----------------------------------------------------------------------------
(* The width of a window.                                                  *)

\* Whole tokens, but for the last, which may have lost its end.
TextOK ==
  /\ tokens \in Seq(Tokens \cup Unfinished) /\ tokens # <<>>
  /\ \A i \in 1 .. Len(tokens) - 1 : tokens[i] \in Tokens

\* What every token is made of.
LEMMA TokenTypes ==
  ASSUME NEW t \in Tokens \cup Unfinished
  PROVE  /\ t.bytes \in Seq(STRING) /\ Len(t.bytes) \in Nat \ {0}
         /\ DOMAIN t.bytes = 1 .. Len(t.bytes)
         /\ t.adds \in Nat /\ t.size \in Nat /\ t.ends \in BOOLEAN
<1> USE DialogAssumption
<1>1. t.bytes \in Seq(STRING) /\ Len(t.bytes) \in Nat /\ DOMAIN t.bytes = 1 .. Len(t.bytes)
  OBVIOUS
<1>2. CASE t \in Unfinished
  <2>1. BrokenOff(t)
    BY <1>2
  <2>2. Len(t.bytes) >= 1
    BY <1>1, <2>1 DEF BrokenOff
  <2>3. t.adds = 0 /\ t.size = 0 /\ t.ends = FALSE
    BY <2>1 DEF BrokenOff, Means
  <2>4. Len(t.bytes) \in Nat \ {0} /\ t.adds \in Nat /\ t.size \in Nat
    BY <1>1, <2>2, <2>3
  <2>5. t.ends \in BOOLEAN
    BY <2>3, Zenon
  <2>6. QED
    BY <1>1, <2>4, <2>5, Zenon
<1>3. CASE t \in Tokens
  <2>1. Whole(t)
    BY <1>3
  <2>2. CASE SignMeans(t)
    <3>1. Len(t.bytes) >= 2
      BY <2>2 DEF SignMeans
    <3>2. t.adds \in Nat /\ t.ends = FALSE
      BY <2>2 DEF SignMeans, Means
    <3>3. t.size \in Nat
      <4>1. CASE t.size = 0
        BY <4>1
      <4>2. CASE t.size # 0
        <5>1. Len(t.bytes) >= 3 /\ t.size = Digits[t.bytes[Len(t.bytes) - 1]]
          BY <2>2, <4>2 DEF SignMeans, Means
        <5>2. t.bytes[Len(t.bytes) - 1] \in DOMAIN Digits
          BY <1>1, <2>2, <5>1 DEF SignMeans
        <5>3. QED
          BY <5>1, <5>2 DEF Digits
      <4>3. QED
        BY <4>1, <4>2
    <3>4. Len(t.bytes) \in Nat \ {0}
      BY <1>1, <3>1
    <3>5. t.ends \in BOOLEAN
      BY <3>2, Zenon
    <3>6. QED
      BY <1>1, <3>2, <3>3, <3>4, <3>5, Zenon
  <2>3. CASE ~SignMeans(t)
    <3>1. Len(t.bytes) \in {1, 2, 3} /\ t.adds \in {0, 1, PairWidth, ItemWidth + 1}
          /\ t.size = 0
      BY <2>1, <2>3 DEF Whole, Means
    <3>2. t.ends \in BOOLEAN
      BY <2>1, <2>3, Zenon DEF Whole, Means
    <3>3. PairWidth \in Nat /\ ItemWidth \in Nat
      OBVIOUS
    <3>4. Len(t.bytes) \in Nat \ {0} /\ t.adds \in Nat /\ t.size \in Nat
      <4> HIDE DialogAssumption
      <4>1. Len(t.bytes) \in Nat \ {0} /\ t.size \in Nat
        <5> DEFINE n == Len(t.bytes)
        <5>1. n \in {1, 2, 3}
          BY <3>1
        <5> HIDE DEF n
        <5>2. n \in Nat \ {0}
          BY <5>1
        <5>3. t.size \in Nat
          BY <3>1
        <5>4. QED
          BY <5>2, <5>3 DEF n
      <4>2. t.adds \in Nat
        BY <3>1, <3>3
      <4>3. QED
        BY <4>1, <4>2
    <3>5. QED
      BY <1>1, <3>2, <3>4, Zenon
  <2>4. QED
    BY <2>2, <2>3
<1>4. QED
  BY <1>2, <1>3

LEMMA TokensHaveTypes ==
  ASSUME TextOK
  PROVE  /\ Len(tokens) \in Nat \ {0} /\ DOMAIN tokens = 1 .. Len(tokens)
         /\ \A i \in 1 .. Len(tokens) :
              /\ tokens[i] \in Tokens \cup Unfinished
              /\ Len(tokens[i].bytes) \in Nat \ {0}
              /\ DOMAIN tokens[i].bytes = 1 .. Len(tokens[i].bytes)
              /\ tokens[i].adds \in Nat /\ tokens[i].size \in Nat /\ tokens[i].ends \in BOOLEAN
<1>1. /\ Len(tokens) \in Nat \ {0} /\ DOMAIN tokens = 1 .. Len(tokens)
      /\ \A i \in 1 .. Len(tokens) : tokens[i] \in Tokens \cup Unfinished
  BY DEF TextOK
<1>2. QED
  BY <1>1, TokenTypes

-----------------------------------------------------------------------------
(* Counting.                                                               *)

\* A union of finite sets, one for each of the first numbers.
LEMMA PiecesAreFinite ==
  ASSUME NEW n \in Nat, NEW f, DOMAIN f = 1 .. n, \A i \in 1 .. n : IsFiniteSet(f[i])
  PROVE  IsFiniteSet(UNION {f[i] : i \in 1 .. n})
<1> DEFINE T == {f[i] : i \in 1 .. n}
           g == [i \in 1 .. n |-> f[i]]
<1>1. IsFiniteSet(1 .. n)
  BY FS_Interval
<1>2. g \in Surjection(1 .. n, T)
  BY DEF Surjection
<1>3. IsFiniteSet(T)
  BY <1>1, <1>2, FS_Surjection
<1>4. \A S \in T : IsFiniteSet(S)
  OBVIOUS
<1> HIDE DEF T
<1>5. IsFiniteSet(UNION T)
  BY <1>3, <1>4, FS_UNION
<1>6. QED
  BY <1>5 DEF T

\* One piece more, which is as large as an interval and shares nothing with the
\* pieces before.
LEMMA OnePieceMore ==
  ASSUME NEW S, NEW i, NEW n \in Nat, IsFiniteSet(S), S \cap ({i} \X (1 .. n)) = {}
  PROVE  /\ Cardinality(S) \in Nat
         /\ Cardinality(S \cup ({i} \X (1 .. n))) = Cardinality(S) + n
<1> DEFINE P == {i} \X (1 .. n)
<1>1. IsFiniteSet(1 .. n) /\ Cardinality(1 .. n) = n
  BY FS_Interval
<1>2. IsFiniteSet({i}) /\ Cardinality({i}) = 1
  BY FS_Singleton
<1>3. IsFiniteSet(P) /\ Cardinality(P) = 1 * n
  BY <1>1, <1>2, FS_Product
<1>4. Cardinality(S \cap P) = 0
  BY FS_EmptySet
<1>5. Cardinality(S) \in Nat
  BY FS_CardinalityType
<1> HIDE DEF P
<1>6. Cardinality(S \cup P) = Cardinality(S) + Cardinality(P) - Cardinality(S \cap P)
  BY <1>3, FS_Union
<1>7. QED
  BY <1>3, <1>4, <1>5, <1>6 DEF P

\* A set of numbers with a last one has a maximum: of the sets of those that are
\* not below a member, the smallest has one.
LEMMA MaxExists ==
  ASSUME NEW n \in Nat, NEW S \in SUBSET (1 .. n), S # {}
  PROVE  Max(S) \in S /\ \A y \in S : y <= Max(S)
<1> DEFINE Up(k) == {y \in S : y >= k}
           F == {Up(k) : k \in S}
<1>1. IsFiniteSet(S)
  <2>1. IsFiniteSet(1 .. n)
    BY FS_Interval
  <2>2. QED
    BY <2>1, FS_Subset
<1>2. F \subseteq FiniteSubsetsOf(S)
  <2> SUFFICES ASSUME NEW k \in S
               PROVE  Up(k) \in FiniteSubsetsOf(S)
    OBVIOUS
  <2>1. Up(k) \in SUBSET S
    OBVIOUS
  <2>2. IsFiniteSet(Up(k))
    BY <1>1, <2>1, FS_Subset
  <2>3. QED
    BY <2>1, <2>2 DEF FiniteSubsetsOf
<1>3. F # {}
  OBVIOUS
<1>4. PICK U \in F : \A V \in F : ~(<<V, U>> \in StrictSubsetOrdering(S))
  <2> HIDE DEF F
  <2>1. QED
    BY <1>2, <1>3, FS_StrictSubsetOrderingWellFounded, WFMin
<1>5. PICK k \in S : U = Up(k)
  OBVIOUS
<1>6. \A y \in S : y <= k
  <2> SUFFICES ASSUME NEW y \in S, ~(y <= k)
               PROVE  FALSE
    OBVIOUS
  <2>1. k \in Int /\ y \in Int /\ \A x \in S : x \in Int
    OBVIOUS
  <2>2. ~(k >= y) /\ k >= k /\ \A x \in S : x >= y => x >= k
    BY <2>1
  <2>2a. Up(y) \subseteq Up(k) /\ k \in Up(k) /\ k \notin Up(y)
    BY <2>2, Zenon
  <2>3. Up(y) \in F /\ Up(y) \in SUBSET S /\ Up(k) \in SUBSET S
    OBVIOUS
  <2> HIDE DEF Up, F
  <2>4. <<Up(y), Up(k)>> \in StrictSubsetOrdering(S)
    BY <2>2a, <2>3 DEF StrictSubsetOrdering
  <2>5. QED
    BY <1>4, <1>5, <2>3, <2>4
<1>7. \E m \in S : \A y \in S : m >= y
  <2>1. \A y \in S : k >= y
    BY <1>6
  <2>2. QED
    BY <2>1
<1>8. Max(S) \in S /\ \A y \in S : Max(S) >= y
  BY <1>7, Zenon DEF Max
<1>9. \A y \in S : y \in Int
  OBVIOUS
<1> DEFINE m == Max(S)
<1> HIDE DEF m
<1>10. m \in S /\ \A y \in S : y <= m
  BY <1>8, <1>9 DEF m
<1>11. QED
  BY <1>10 DEF m

\* Who is in a set and above all others is its maximum.
LEMMA MaxIs ==
  ASSUME NEW S \in SUBSET Int, NEW m \in S, \A y \in S : y <= m
  PROVE  Max(S) = m
<1>1. \A y \in S : m >= y
  OBVIOUS
<1>2. Max(S) \in S /\ \A y \in S : Max(S) >= y
  BY <1>1, Zenon DEF Max
<1> DEFINE top == Max(S)
<1> HIDE DEF top
<1>3. top \in S /\ top >= m
  BY <1>2 DEF top
<1>4. top \in Int /\ m \in Int /\ top <= m
  BY <1>3
<1>5. top = m
  BY <1>3, <1>4
<1>6. QED
  BY <1>5 DEF top

LEMMA MinIs ==
  ASSUME NEW S \in SUBSET Int, NEW m \in S, \A y \in S : m <= y
  PROVE  Min(S) = m
<1>1. Min(S) \in S /\ \A y \in S : Min(S) <= y
  BY Zenon DEF Min
<1> DEFINE bottom == Min(S)
<1> HIDE DEF bottom
<1>2. bottom \in S /\ bottom <= m
  BY <1>1 DEF bottom
<1>3. bottom \in Int /\ m \in Int /\ m <= bottom
  BY <1>2
<1>4. bottom = m
  BY <1>2, <1>3
<1>5. QED
  BY <1>4 DEF bottom

-----------------------------------------------------------------------------
(* Where the tokens begin.                                                 *)

LEMMA BytesAre ==
  ASSUME TextOK
  PROVE  /\ IsFiniteSet(Bytes)
         /\ \A b : b \in Bytes <=> /\ b = <<b[1], b[2]>>
                                   /\ b[1] \in 1 .. Len(tokens)
                                   /\ b[2] \in 1 .. Len(tokens[b[1]].bytes)
<1> DEFINE f == [i \in 1 .. Len(tokens) |-> {i} \X DOMAIN tokens[i].bytes]
<1> USE TokensHaveTypes
<1>1. Bytes = UNION {f[i] : i \in 1 .. Len(tokens)}
  BY DEF Bytes
<1>2. \A i \in 1 .. Len(tokens) : IsFiniteSet(f[i])
  <2> SUFFICES ASSUME NEW i \in 1 .. Len(tokens)
               PROVE  IsFiniteSet({i} \X (1 .. Len(tokens[i].bytes)))
    OBVIOUS
  <2>1. IsFiniteSet({i}) /\ IsFiniteSet(1 .. Len(tokens[i].bytes))
    <3>1. Len(tokens[i].bytes) \in Int
      OBVIOUS
    <3>2. IsFiniteSet(1 .. Len(tokens[i].bytes))
      <4> DEFINE n == Len(tokens[i].bytes)
      <4>1. n \in Int
        BY <3>1
      <4> HIDE DEF n
      <4>2. IsFiniteSet(1 .. n)
        BY <4>1, FS_Interval
      <4>3. QED
        BY <4>2 DEF n
    <3>3. IsFiniteSet({i})
      BY FS_Singleton, Zenon
    <3>4. QED
      BY <3>2, <3>3
  <2>2. QED
    BY <2>1, FS_Product
<1>3. DOMAIN f = 1 .. Len(tokens) /\ Len(tokens) \in Nat
  OBVIOUS
<1>4. \A b : b \in Bytes <=> \E i \in 1 .. Len(tokens) : b \in {i} \X (1 .. Len(tokens[i].bytes))
  BY <1>1
<1>5. \A b : b \in Bytes <=> /\ b = <<b[1], b[2]>>
                             /\ b[1] \in 1 .. Len(tokens)
                             /\ b[2] \in 1 .. Len(tokens[b[1]].bytes)
  BY <1>4
<1> HIDE DEF f
<1>6. QED
  BY <1>1, <1>2, <1>3, <1>5, PiecesAreFinite

LEMMA StartStep ==
  ASSUME TextOK, NEW i \in 1 .. Len(tokens)
  PROVE  /\ Start(i) \in Nat \ {0}
         /\ Start(i + 1) = Start(i) + Len(tokens[i].bytes)
<1> DEFINE BytesBefore(j) == {b \in Bytes : b[1] < j}
           n == Len(tokens[i].bytes)
<1>1. n \in Nat
  BY TokensHaveTypes
<1>2. BytesBefore(i + 1) = BytesBefore(i) \cup ({i} \X (1 .. n))
  <2>1. \A b : b \in BytesBefore(i + 1) <=> b \in BytesBefore(i) \/ (b \in Bytes /\ b[1] = i)
    <3>1. \A b : b \in Bytes => b[1] \in Int
      BY BytesAre
    <3>2. QED
      BY <3>1
  <2>2. \A b : b \in Bytes /\ b[1] = i <=> b \in {i} \X (1 .. n)
    BY BytesAre
  <2>3. QED
    BY <2>1, <2>2
<1>3. BytesBefore(i) \cap ({i} \X (1 .. n)) = {}
  OBVIOUS
<1>4. IsFiniteSet(BytesBefore(i))
  BY BytesAre, FS_Subset
<1>5. Start(i) = 1 + Cardinality(BytesBefore(i)) /\ Start(i + 1) = 1 + Cardinality(BytesBefore(i + 1))
  BY DEF Start
<1> HIDE DEF BytesBefore, n
<1>6. /\ Cardinality(BytesBefore(i)) \in Nat
      /\ Cardinality(BytesBefore(i) \cup ({i} \X (1 .. n))) = Cardinality(BytesBefore(i)) + n
  BY <1>1, <1>3, <1>4, OnePieceMore
<1>7. Cardinality(BytesBefore(i + 1)) = Cardinality(BytesBefore(i)) + n
  BY <1>2, <1>6
<1>8. QED
  BY <1>1, <1>5, <1>6, <1>7 DEF n

LEMMA StartAtFirst ==
  ASSUME TextOK
  PROVE  Start(1) = 1
<1>1. {b \in Bytes : b[1] < 1} = {}
  BY BytesAre
<1>2. QED
  BY <1>1, FS_EmptySet DEF Start

\* A later token begins behind the end of an earlier one.
LEMMA StartOrder ==
  ASSUME TextOK, NEW i \in 1 .. Len(tokens), NEW j \in 1 .. Len(tokens) + 1, i < j
  PROVE  /\ Start(j) \in Nat
         /\ Start(i) + Len(tokens[i].bytes) <= Start(j)
<1> DEFINE BytesBefore(k) == {b \in Bytes : b[1] < k}
<1>1. IsFiniteSet(BytesBefore(j))
  BY BytesAre, FS_Subset
<1>2. BytesBefore(i + 1) \subseteq BytesBefore(j)
  <2>1. \A b \in Bytes : b[1] \in Int
    BY BytesAre
  <2>2. j \in Int /\ i \in Int
    BY TokensHaveTypes
  <2>3. QED
    BY <2>1, <2>2
<1>3. Start(i + 1) = 1 + Cardinality(BytesBefore(i + 1)) /\ Start(j) = 1 + Cardinality(BytesBefore(j))
  BY DEF Start
<1> HIDE DEF BytesBefore
<1>4. Cardinality(BytesBefore(i + 1)) <= Cardinality(BytesBefore(j))
      /\ Cardinality(BytesBefore(i + 1)) \in Nat /\ Cardinality(BytesBefore(j)) \in Nat
  BY <1>1, <1>2, FS_Subset, FS_CardinalityType
<1>5. QED
  BY <1>3, <1>4, StartStep

\* The text is the bytes of its tokens, one behind the other.
LEMMA TextIs ==
  ASSUME TextOK, NEW i \in 1 .. Len(tokens), NEW k \in 1 .. Len(tokens[i].bytes)
  PROVE  /\ Start(i) + k - 1 \in Nat \ {0} /\ Start(i) + k - 1 < Length
         /\ Text(Start(i) + k - 1) = tokens[i].bytes[k]
<1> DEFINE p == Start(i) + k - 1
<1>1. Len(tokens) \in Nat /\ Len(tokens[i].bytes) \in Nat /\ k \in Nat /\ k >= 1
      /\ k <= Len(tokens[i].bytes)
  BY TokensHaveTypes
<1>2. Start(i) \in Nat \ {0} /\ Length \in Nat /\ Start(i) + Len(tokens[i].bytes) <= Length
  BY <1>1, StartStep, StartOrder DEF Length
<1>3. p \in Nat \ {0} /\ p < Length
  BY <1>1, <1>2
<1>4. <<i, k>> \in Bytes
  BY BytesAre
<1>5. \A b \in Bytes : Start(b[1]) + b[2] - 1 = p => b = <<i, k>>
  <2> SUFFICES ASSUME NEW b \in Bytes, Start(b[1]) + b[2] - 1 = p
               PROVE  b = <<i, k>>
    OBVIOUS
  <2>1. b = <<b[1], b[2]>> /\ b[1] \in 1 .. Len(tokens)
        /\ b[2] \in 1 .. Len(tokens[b[1]].bytes)
    BY BytesAre
  <2>2. Len(tokens[b[1]].bytes) \in Nat /\ Start(b[1]) \in Nat
    BY <2>1, TokensHaveTypes, StartStep
  <2>3. ~(b[1] < i)
    <3> SUFFICES ASSUME b[1] < i
                 PROVE  FALSE
      OBVIOUS
    <3>1. Start(b[1]) + Len(tokens[b[1]].bytes) <= Start(i)
      BY <1>1, <2>1, StartOrder
    <3>2. QED
      BY <1>1, <1>2, <2>1, <2>2, <3>1
  <2>4. ~(i < b[1])
    <3> SUFFICES ASSUME i < b[1]
                 PROVE  FALSE
      OBVIOUS
    <3>1. Start(i) + Len(tokens[i].bytes) <= Start(b[1])
      BY <1>1, <2>1, StartOrder
    <3>2. QED
      BY <1>1, <1>2, <2>1, <2>2, <3>1
  <2>5. b[1] = i
    BY <2>1, <2>3, <2>4
  <2>6. b[2] = k
    BY <1>1, <1>2, <2>1, <2>2, <2>5
  <2>7. QED
    BY <2>1, <2>5, <2>6
<1>6. Start(<<i, k>>[1]) + <<i, k>>[2] - 1 = p
  OBVIOUS
<1> DEFINE place == CHOOSE b \in Bytes : Start(b[1]) + b[2] - 1 = p
<1>7. place \in Bytes /\ Start(place[1]) + place[2] - 1 = p
  <2> HIDE DEF p
  <2>1. QED
    BY <1>4, <1>6, Zenon
<1>8. place = <<i, k>>
  BY <1>5, <1>7, Zenon
<1>9. p # Length
  BY <1>2, <1>3
<1>10. Text(p) = tokens[place[1]].bytes[place[2]]
  <2> HIDE DEF p
  <2>1. QED
    BY <1>9, Zenon DEF Text
<1>11. Text(p) = tokens[i].bytes[k]
  <2> HIDE DEF p, place
  <2>1. place[1] = i /\ place[2] = k
    BY <1>8
  <2>2. QED
    BY <1>10, <2>1
<1>12. QED
  BY <1>3, <1>11

-----------------------------------------------------------------------------
(* What the tokens mean.                                                   *)

\* The size changes behind a token that sets one.
LEMMA SizeStep ==
  ASSUME TextOK
  PROVE  /\ SizeAt(1) = FirstSize
         /\ \A i \in 1 .. Len(tokens) :
              SizeAt(i + 1) = IF tokens[i].size # 0 THEN tokens[i].size ELSE SizeAt(i)
         /\ \A i \in 1 .. Len(tokens) + 1 : SizeAt(i) \in Nat
<1> DEFINE Setters(i) == {j \in 1 .. i - 1 : tokens[j].size # 0}
<1>1. \A i : SizeAt(i) = IF Setters(i) = {} THEN FirstSize ELSE tokens[Max(Setters(i))].size
  BY DEF SizeAt
<1>2. Len(tokens) \in Nat
  BY TokensHaveTypes
<1>3. Setters(1) = {}
  OBVIOUS
<1>4. ASSUME NEW i \in 1 .. Len(tokens)
      PROVE  SizeAt(i + 1) = IF tokens[i].size # 0 THEN tokens[i].size ELSE SizeAt(i)
  <2>1. \A j : j \in 1 .. (i + 1) - 1 <=> j \in 1 .. i - 1 \/ j = i
    BY <1>2
  <2>2. CASE tokens[i].size = 0
    <3>1. Setters(i + 1) = Setters(i)
      BY <2>1, <2>2
    <3> HIDE DEF Setters
    <3>2. QED
      BY <1>1, <2>2, <3>1
  <2>3. CASE tokens[i].size # 0
    <3>1. i \in Setters(i + 1) /\ Setters(i + 1) \in SUBSET Int
          /\ \A j \in Setters(i + 1) : j <= i
      BY <2>1, <2>3
    <3> HIDE DEF Setters
    <3>2. Max(Setters(i + 1)) = i
      BY <3>1, MaxIs
    <3>3. Setters(i + 1) # {}
      BY <3>1
    <3>4. SizeAt(i + 1) = tokens[i].size
      BY <1>1, <3>2, <3>3
    <3>5. QED
      BY <2>3, <3>4
  <2>4. QED
    BY <2>2, <2>3
<1>5. ASSUME NEW i \in 1 .. Len(tokens) + 1
      PROVE  SizeAt(i) \in Nat
  <2>1. CASE Setters(i) = {}
    <3>1. SizeAt(i) = FirstSize
      BY <1>1, <2>1
    <3>2. FirstSize \in Nat
      BY DialogAssumption
    <3>3. QED
      BY <3>1, <3>2
  <2>2. CASE Setters(i) # {}
    <3>1. Setters(i) \in SUBSET (1 .. Len(tokens))
      BY <1>2
    <3> HIDE DEF Setters
    <3>2. Max(Setters(i)) \in Setters(i)
      BY <1>2, <2>2, <3>1, MaxExists
    <3>3. tokens[Max(Setters(i))].size \in Nat
      BY <3>1, <3>2, TokensHaveTypes
    <3>4. QED
      BY <1>1, <2>2, <3>3
  <2>3. QED
    BY <2>1, <2>2
<1>6. SizeAt(1) = FirstSize
  BY <1>1, <1>3
<1>7. QED
  BY <1>4, <1>5, <1>6, Zenon

\* A line ends with a token that ends it.
LEMMA LineStep ==
  ASSUME TextOK
  PROVE  /\ LineOf(1) = 0
         /\ \A i \in 1 .. Len(tokens) + 1 : LineOf(i) \in 0 .. i - 1
         /\ \A i \in 1 .. Len(tokens) :
              LineOf(i + 1) = LineOf(i) + (IF tokens[i].ends THEN 1 ELSE 0)
         /\ \A i, j \in 1 .. Len(tokens) + 1 : i <= j => LineOf(i) <= LineOf(j)
<1> DEFINE Ends(i) == {j \in 1 .. i - 1 : tokens[j].ends}
<1>1. \A i : LineOf(i) = Cardinality(Ends(i))
  BY DEF LineOf
<1>2. Len(tokens) \in Nat
  BY TokensHaveTypes
<1>3. \A i \in Nat : Ends(i) \in SUBSET (1 .. i - 1)
  OBVIOUS
<1>4. Ends(1) = {}
  OBVIOUS
<1>5. ASSUME NEW i \in 1 .. Len(tokens)
      PROVE  /\ tokens[i].ends => Ends(i + 1) = Ends(i) \cup {i}
             /\ ~tokens[i].ends => Ends(i + 1) = Ends(i)
             /\ i \notin Ends(i)
  <2>1. \A j : j \in 1 .. (i + 1) - 1 <=> j \in 1 .. i - 1 \/ j = i
    BY <1>2
  <2>2. i \notin 1 .. i - 1
    OBVIOUS
  <2>3. QED
    BY <2>1, <2>2
<1>6. \A i, j \in 1 .. Len(tokens) + 1 : i <= j => Ends(i) \subseteq Ends(j)
  BY <1>2
<1> HIDE DEF Ends
<1>7. ASSUME NEW i \in 1 .. Len(tokens) + 1
      PROVE  IsFiniteSet(Ends(i)) /\ Cardinality(Ends(i)) \in 0 .. i - 1
  <2>1. i \in Nat /\ i - 1 \in Nat
    BY <1>2
  <2>2. IsFiniteSet(1 .. i - 1) /\ Cardinality(1 .. i - 1) = i - 1
    BY <2>1, FS_Interval
  <2>3. Ends(i) \in SUBSET (1 .. i - 1)
    BY <1>3, <2>1
  <2>4. IsFiniteSet(Ends(i)) /\ Cardinality(Ends(i)) <= i - 1
    BY <2>2, <2>3, FS_Subset
  <2>5. Cardinality(Ends(i)) \in Nat
    BY <2>4, FS_CardinalityType
  <2>6. QED
    BY <2>1, <2>4, <2>5
<1>8. LineOf(1) = 0
  BY <1>1, <1>4, FS_EmptySet
<1>9. ASSUME NEW i \in 1 .. Len(tokens)
      PROVE  LineOf(i + 1) = LineOf(i) + (IF tokens[i].ends THEN 1 ELSE 0)
  <2>1. IsFiniteSet(Ends(i)) /\ Cardinality(Ends(i)) \in Int
    BY <1>2, <1>7
  <2>2. CASE tokens[i].ends
    <3>1. Cardinality(Ends(i) \cup {i}) = Cardinality(Ends(i)) + 1
      BY <1>5, <2>1, FS_AddElement
    <3>2. LineOf(i + 1) = LineOf(i) + 1
      BY <1>1, <1>5, <2>2, <3>1
    <3>3. QED
      BY <2>2, <3>2
  <2>3. CASE ~tokens[i].ends
    <3>1. LineOf(i + 1) = LineOf(i) /\ LineOf(i) \in Int
      BY <1>1, <1>5, <2>1, <2>3
    <3>2. QED
      BY <2>3, <3>1
  <2>4. QED
    BY <2>2, <2>3
<1>10. ASSUME NEW i \in 1 .. Len(tokens) + 1, NEW j \in 1 .. Len(tokens) + 1, i <= j
       PROVE  LineOf(i) <= LineOf(j)
  <2>1. Ends(i) \in SUBSET Ends(j) /\ IsFiniteSet(Ends(j))
    BY <1>6, <1>7, <1>10
  <2>2. Cardinality(Ends(i)) <= Cardinality(Ends(j))
    BY <2>1, FS_Subset
  <2>3. QED
    BY <1>1, <2>2
<1>11. \A i \in 1 .. Len(tokens) + 1 : LineOf(i) \in 0 .. i - 1
  BY <1>1, <1>7
<1>12. QED
  BY <1>8, <1>9, <1>10, <1>11, Zenon

\* The part of a line that is in front of a token.
InFront(l, i) == {c \in Columns(l) : c[1] < i}

\* What is in a line.
LEMMA ColumnsAre ==
  ASSUME TextOK, NEW l
  PROVE  /\ IsFiniteSet(Columns(l)) /\ Cardinality(Columns(l)) \in Nat
         /\ \A c : c \in Columns(l) <=>
              /\ c = <<c[1], c[2]>>
              /\ c[1] \in 1 .. Len(tokens) /\ LineOf(c[1]) = l
              /\ c[2] \in 1 .. (tokens[c[1]].adds * SizeAt(c[1]))
<1> DEFINE On == {j \in DOMAIN tokens : LineOf(j) = l}
           Piece(i) == {i} \X (1 .. (tokens[i].adds * SizeAt(i)))
           f == [i \in 1 .. Len(tokens) |-> Piece(i)]
<1>1. Len(tokens) \in Nat /\ DOMAIN tokens = 1 .. Len(tokens)
  BY TokensHaveTypes
<1>2. Columns(l) = UNION {Piece(i) : i \in On}
  BY DEF Columns
<1>3. \A i \in 1 .. Len(tokens) : IsFiniteSet(Piece(i))
  <2> SUFFICES ASSUME NEW i \in 1 .. Len(tokens)
               PROVE  IsFiniteSet(Piece(i))
    OBVIOUS
  <2> DEFINE n == tokens[i].adds * SizeAt(i)
  <2>1. n \in Nat
    <3>1. tokens[i].adds \in Nat /\ SizeAt(i) \in Nat
      BY <1>1, TokensHaveTypes, SizeStep
    <3>2. QED
      BY <3>1
  <2> HIDE DEF n
  <2>2. IsFiniteSet(1 .. n)
    BY <2>1, FS_Interval
  <2>3. IsFiniteSet({i})
    BY FS_Singleton, Zenon
  <2>4. IsFiniteSet({i} \X (1 .. n))
    BY <2>2, <2>3, FS_Product
  <2>5. QED
    BY <2>4 DEF n
<1>4. \A c : c \in Columns(l) <=> \E i \in On : c \in Piece(i)
  <2> HIDE DEF On, Piece
  <2>1. QED
    BY <1>2
<1>5. \A c : c \in Columns(l) <=>
              /\ c = <<c[1], c[2]>>
              /\ c[1] \in 1 .. Len(tokens) /\ LineOf(c[1]) = l
              /\ c[2] \in 1 .. (tokens[c[1]].adds * SizeAt(c[1]))
  <2>1. \A c, i : c \in Piece(i) <=> /\ c = <<c[1], c[2]>> /\ c[1] = i
                                     /\ c[2] \in 1 .. (tokens[i].adds * SizeAt(i))
    OBVIOUS
  <2>2. \A i : i \in On <=> i \in 1 .. Len(tokens) /\ LineOf(i) = l
    BY <1>1
  <2> HIDE DEF On, Piece
  <2>3. QED
    BY <1>4, <2>1, <2>2
<1>6. IsFiniteSet(UNION {f[i] : i \in 1 .. Len(tokens)})
  <2>1. DOMAIN f = 1 .. Len(tokens) /\ \A i \in 1 .. Len(tokens) : f[i] = Piece(i)
    OBVIOUS
  <2> HIDE DEF f, Piece
  <2>2. QED
    BY <1>1, <1>3, <2>1, PiecesAreFinite
<1>7. Columns(l) \subseteq UNION {f[i] : i \in 1 .. Len(tokens)}
  <2>1. \A i \in On : i \in 1 .. Len(tokens) /\ f[i] = Piece(i)
    BY <1>1
  <2> HIDE DEF On, f, Piece
  <2>2. QED
    BY <1>4, <2>1
<1>8. IsFiniteSet(Columns(l))
  <2> HIDE DEF f
  <2>1. QED
    BY <1>6, <1>7, FS_Subset
<1>9. Cardinality(Columns(l)) \in Nat
  BY <1>8, FS_CardinalityType
<1>10. QED
  BY <1>5, <1>8, <1>9, Zenon

\* A token puts its columns behind those of its line in front of it.
LEMMA FrontStep ==
  ASSUME TextOK, NEW i \in 1 .. Len(tokens)
  PROVE  /\ Cardinality(InFront(LineOf(i), i)) \in Nat
         /\ Cardinality(InFront(LineOf(i), i + 1))
              = Cardinality(InFront(LineOf(i), i)) + tokens[i].adds * SizeAt(i)
<1> DEFINE l == LineOf(i)
           n == tokens[i].adds * SizeAt(i)
<1>1. Len(tokens) \in Nat
  BY TokensHaveTypes
<1>2. n \in Nat
  <2>1. tokens[i].adds \in Nat /\ SizeAt(i) \in Nat
    BY <1>1, TokensHaveTypes, SizeStep
  <2>2. QED
    BY <2>1
<1>3. IsFiniteSet(InFront(l, i))
  <2>1. IsFiniteSet(Columns(l))
    BY ColumnsAre
  <2>2. InFront(l, i) \subseteq Columns(l)
    BY DEF InFront
  <2>3. QED
    BY <2>1, <2>2, FS_Subset
<1>4. InFront(l, i + 1) = InFront(l, i) \cup ({i} \X (1 .. n))
  <2>1. \A c : c \in InFront(l, i + 1) <=> c \in Columns(l) /\ (c[1] < i \/ c[1] = i)
    <3>1. \A c \in Columns(l) : c[1] \in Int
      BY <1>1, ColumnsAre
    <3>2. \A c \in Columns(l) : c[1] < i + 1 <=> c[1] < i \/ c[1] = i
      BY <1>1, <3>1
    <3>3. QED
      BY <3>2 DEF InFront
  <2>2. \A c : c \in Columns(l) /\ c[1] = i <=> c \in {i} \X (1 .. n)
    <3>1. \A c : c \in {i} \X (1 .. n) <=> c = <<c[1], c[2]>> /\ c[1] = i /\ c[2] \in 1 .. n
      OBVIOUS
    <3>2. QED
      BY <3>1, ColumnsAre
  <2>3. QED
    BY <2>1, <2>2 DEF InFront
<1>5. InFront(l, i) \cap ({i} \X (1 .. n)) = {}
  BY <1>1 DEF InFront
<1> HIDE DEF l, n
<1>6. /\ Cardinality(InFront(l, i)) \in Nat
      /\ Cardinality(InFront(l, i) \cup ({i} \X (1 .. n))) = Cardinality(InFront(l, i)) + n
  BY <1>2, <1>3, <1>5, OnePieceMore
<1>7. QED
  BY <1>4, <1>6 DEF l, n

\* Nothing of a line is in front of where it begins, all of it is in front of the
\* next, and there is nothing on lines behind the last.
LEMMA LineEnds ==
  ASSUME TextOK
  PROVE  /\ \A l : Cardinality(InFront(l, 1)) = 0
         /\ \A i \in 1 .. Len(tokens) : tokens[i].ends =>
              /\ Cardinality(InFront(LineOf(i + 1), i + 1)) = 0
              /\ InFront(LineOf(i), i + 1) = Columns(LineOf(i))
         /\ LET last == LineOf(Len(tokens) + 1)
            IN  /\ InFront(last, Len(tokens) + 1) = Columns(last)
                /\ \A l \in Nat : l > last => Cardinality(Columns(l)) = 0
<1>1. Len(tokens) \in Nat
  BY TokensHaveTypes
<1>2. \A l : InFront(l, 1) = {}
  <2>1. \A l : \A c \in Columns(l) : c[1] \in 1 .. Len(tokens)
    BY ColumnsAre
  <2>2. QED
    BY <1>1, <2>1 DEF InFront
<1>3. ASSUME NEW i \in 1 .. Len(tokens), tokens[i].ends
      PROVE  /\ InFront(LineOf(i + 1), i + 1) = {}
             /\ InFront(LineOf(i), i + 1) = Columns(LineOf(i))
  <2>1. i \in 1 .. Len(tokens) + 1 /\ i + 1 \in 1 .. Len(tokens) + 1
    BY <1>1
  <2>2. LineOf(i + 1) = LineOf(i) + 1 /\ LineOf(i) \in Int
    <3>1. LineOf(i + 1) = LineOf(i) + 1
      BY <1>3, LineStep
    <3>2. LineOf(i) \in 0 .. i - 1
      BY <2>1, LineStep
    <3>3. QED
      BY <3>1, <3>2
  <2>3. ASSUME NEW c \in InFront(LineOf(i + 1), i + 1)
        PROVE  FALSE
    <3>1. c[1] \in 1 .. Len(tokens) /\ LineOf(c[1]) = LineOf(i + 1) /\ c[1] < i + 1
      BY ColumnsAre DEF InFront
    <3>2. c[1] \in 1 .. Len(tokens) + 1 /\ c[1] <= i
      BY <1>1, <3>1
    <3>3. LineOf(c[1]) <= LineOf(i)
      BY <2>1, <3>2, LineStep
    <3>4. QED
      BY <2>2, <3>1, <3>3
  <2>4. ASSUME NEW c \in Columns(LineOf(i))
        PROVE  c[1] < i + 1
    <3>1. c[1] \in 1 .. Len(tokens) /\ LineOf(c[1]) = LineOf(i)
      BY ColumnsAre
    <3>2. CASE i + 1 <= c[1]
      <4>1. LineOf(i + 1) <= LineOf(c[1])
        <5>1. c[1] \in 1 .. Len(tokens) + 1
          BY <1>1, <3>1
        <5>2. QED
          BY <2>1, <3>2, <5>1, LineStep
      <4>2. QED
        BY <2>2, <3>1, <4>1
    <3>3. QED
      BY <1>1, <3>1, <3>2
  <2>5. QED
    BY <2>3, <2>4 DEF InFront
<1>4. InFront(LineOf(Len(tokens) + 1), Len(tokens) + 1) = Columns(LineOf(Len(tokens) + 1))
  <2>1. \A c \in Columns(LineOf(Len(tokens) + 1)) : c[1] \in 1 .. Len(tokens)
    BY ColumnsAre
  <2>2. QED
    BY <1>1, <2>1 DEF InFront
<1>5. ASSUME NEW l \in Nat, l > LineOf(Len(tokens) + 1)
      PROVE  Columns(l) = {}
  <2> SUFFICES ASSUME NEW c \in Columns(l)
               PROVE  FALSE
    OBVIOUS
  <2>1. c[1] \in 1 .. Len(tokens) /\ LineOf(c[1]) = l
    BY ColumnsAre
  <2>2. c[1] \in 1 .. Len(tokens) + 1 /\ Len(tokens) + 1 \in 1 .. Len(tokens) + 1
        /\ c[1] <= Len(tokens) + 1
    BY <1>1, <2>1
  <2>3. LineOf(c[1]) <= LineOf(Len(tokens) + 1)
    BY <2>2, LineStep
  <2>4. LineOf(Len(tokens) + 1) \in Int
    <3>1. LineOf(Len(tokens) + 1) \in 0 .. (Len(tokens) + 1) - 1
      BY <2>2, LineStep
    <3>2. QED
      BY <3>1
  <2>5. QED
    BY <1>5, <2>1, <2>3, <2>4
<1>6. Cardinality({}) = 0
  BY FS_EmptySet
<1>7. QED
  BY <1>2, <1>3, <1>4, <1>5, <1>6, Zenon

-----------------------------------------------------------------------------
(* The loop keeps its place.                                               *)

\* The loop is about to read a token, with the size of its characters and the
\* width of its line up to there.
AtToken(i) ==
  /\ i \in 1 .. Len(tokens) + 1 /\ pos = Start(i)
  /\ currentTextWidth = SizeAt(i)
  /\ currentWidth = Cardinality(InFront(LineOf(i), i))
  /\ i = Len(tokens) + 1 => tokens[Len(tokens)] \in Tokens

\* It knows the widest of the lines before this one.
LongestSoFar(i) ==
  /\ longestWidth \in Nat
  /\ \A l \in 0 .. LineOf(i) - 1 : Cardinality(Columns(l)) <= longestWidth
  /\ \/ longestWidth = 0
     \/ \E l \in 0 .. LineOf(i) - 1 : Cardinality(Columns(l)) = longestWidth

DialogInv ==
  /\ TextOK
  /\ reading = "text" =>
       \/ \E i \in 1 .. Len(tokens) + 1 : AtToken(i) /\ LongestSoFar(i)
       \/ pos \in Nat /\ pos > Length /\ tokens[Len(tokens)] \in Unfinished
  /\ reading = "returned" => tokens[Len(tokens)] \in Tokens /\ longestWidth = Widest
  /\ reading = "beyond" => tokens[Len(tokens)] \in Unfinished

LEMMA MaxOfTwo ==
  ASSUME NEW a \in Nat, NEW b \in Nat
  PROVE  Max({a, b}) \in {a, b} /\ Max({a, b}) >= a /\ Max({a, b}) >= b
<1>1. CASE a <= b
  <2>1. Max({a, b}) = b
    BY <1>1, MaxIs
  <2>2. QED
    BY <1>1, <2>1
<1>2. CASE b <= a
  <2>1. Max({a, b}) = a
    BY <1>2, MaxIs
  <2>2. QED
    BY <1>2, <2>1
<1>3. QED
  BY <1>1, <1>2

\* What the first byte of a whole token says of the rest.
LEMMA FirstByte ==
  ASSUME NEW t \in Tokens
  PROVE  LET first == t.bytes[1]
             n == Len(t.bytes)
         IN  /\ first \in NarrowBytes => n = 1 /\ t.adds = 1 /\ t.size = 0 /\ ~t.ends
             /\ first = "06" => n = 1 /\ t.adds = 0 /\ t.size = 0 /\ ~t.ends
             /\ first = "newline" => n = 1 /\ t.adds = 0 /\ t.size = 0 /\ t.ends
             /\ first = "lead" => n = 2 /\ t.adds = PairWidth /\ t.size = 0 /\ ~t.ends
             /\ first = "color" => n = 2 /\ t.adds = 0 /\ t.size = 0 /\ ~t.ends
             /\ first = "item" => n = 3 /\ t.adds = ItemWidth + 1 /\ t.size = 0 /\ ~t.ends
             /\ first = "#" => SignMeans(t)
             /\ first # "NUL"
<1>1. Whole(t)
  BY DialogAssumption
<1>2. NarrowBytes = {"a", "S", "I", "1", "2"}
  BY DEF NarrowBytes, Digits
<1>3. QED
  BY <1>1, <1>2 DEF Whole, Means

\* What is said of a text does not change while it is measured.
LEMMA SameText ==
  ASSUME tokens' = tokens
  PROVE  /\ TextOK => TextOK'
         /\ Length' = Length /\ Widest' = Widest
         /\ \A i : Start(i)' = Start(i) /\ SizeAt(i)' = SizeAt(i) /\ LineOf(i)' = LineOf(i)
         /\ \A l : Columns(l)' = Columns(l)
         /\ \A l, i : InFront(l, i)' = InFront(l, i)
<1>1. TextOK => TextOK'
  BY DEF TextOK
<1>2. Bytes' = Bytes
  BY DEF Bytes
<1>3. \A i : Start(i)' = Start(i)
  BY <1>2 DEF Start
<1>4. Length' = Length
  BY <1>2 DEF Length, Start
<1>5. \A i : SizeAt(i)' = SizeAt(i) /\ LineOf(i)' = LineOf(i)
  BY DEF SizeAt, LineOf
<1>6. \A l : Columns(l)' = Columns(l)
  BY DEF Columns, SizeAt, LineOf
<1>7. \A l, i : InFront(l, i)' = InFront(l, i)
  BY DEF InFront, Columns, SizeAt, LineOf
<1>8. Widest' = Widest
  BY DEF Widest, Columns, SizeAt, LineOf
<1>9. QED
  BY <1>1, <1>3, <1>4, <1>5, <1>6, <1>7, <1>8, Zenon

\* A round that takes a whole token and does what the token means.
LEMMA Advance ==
  ASSUME TextOK, NEW i \in 1 .. Len(tokens), AtToken(i), LongestSoFar(i), reading' = "text",
         tokens[i] \in Tokens, ~tokens[i].ends,
         tokens' = tokens, longestWidth' = longestWidth,
         pos' = pos + Len(tokens[i].bytes),
         currentTextWidth' = IF tokens[i].size # 0 THEN tokens[i].size ELSE currentTextWidth,
         currentWidth' = currentWidth + tokens[i].adds * currentTextWidth
  PROVE  DialogInv'
<1>1. Len(tokens) \in Nat
  BY TokensHaveTypes
<1>2. i + 1 \in 1 .. Len(tokens) + 1
  BY <1>1
<1>3. pos' = Start(i + 1)
  BY StartStep DEF AtToken
<1>4. currentTextWidth' = SizeAt(i + 1)
  BY SizeStep DEF AtToken
<1>5. LineOf(i + 1) = LineOf(i)
  <2>1. i \in 1 .. Len(tokens) + 1
    BY <1>1
  <2>2. LineOf(i) \in 0 .. i - 1
    BY <2>1, LineStep
  <2>3. LineOf(i + 1) = LineOf(i) + 0
    BY LineStep
  <2>4. QED
    BY <2>2, <2>3
<1>6. currentWidth' = Cardinality(InFront(LineOf(i), i + 1))
  <2>1. currentWidth = Cardinality(InFront(LineOf(i), i)) /\ currentTextWidth = SizeAt(i)
    BY DEF AtToken
  <2>2. QED
    BY <2>1, FrontStep
<1>7. i + 1 = Len(tokens) + 1 => tokens[Len(tokens)] \in Tokens
  <2>1. i + 1 = Len(tokens) + 1 => i = Len(tokens)
    BY <1>1
  <2>2. QED
    BY <2>1
<1>8. AtToken(i + 1)'
  BY <1>2, <1>3, <1>4, <1>5, <1>6, <1>7, SameText DEF AtToken
<1>9. LongestSoFar(i + 1)'
  BY <1>5, SameText DEF LongestSoFar
<1>10. TextOK'
  BY SameText
<1>11. QED
  BY <1>2, <1>8, <1>9, <1>10 DEF DialogInv

\* The end of a line.
LEMMA AdvanceLine ==
  ASSUME TextOK, NEW i \in 1 .. Len(tokens), AtToken(i), LongestSoFar(i), reading' = "text",
         tokens[i] \in Tokens, tokens[i].ends, Len(tokens[i].bytes) = 1,
         tokens[i].adds = 0, tokens[i].size = 0,
         tokens' = tokens, longestWidth' = Max({currentWidth, longestWidth}),
         pos' = pos + 1, currentTextWidth' = currentTextWidth, currentWidth' = 0
  PROVE  DialogInv'
<1>1. Len(tokens) \in Nat
  BY TokensHaveTypes
<1>2. i \in 1 .. Len(tokens) + 1 /\ i + 1 \in 1 .. Len(tokens) + 1
  BY <1>1
<1>3. pos' = Start(i + 1)
  BY StartStep DEF AtToken
<1>4. currentTextWidth' = SizeAt(i + 1)
  BY SizeStep DEF AtToken
<1>5. LineOf(i + 1) = LineOf(i) + 1 /\ LineOf(i) \in Nat
  <2>1. LineOf(i) \in 0 .. i - 1
    BY <1>2, LineStep
  <2>2. LineOf(i + 1) = LineOf(i) + 1
    BY LineStep
  <2>3. QED
    BY <2>1, <2>2
<1>6. currentWidth' = Cardinality(InFront(LineOf(i + 1), i + 1))
  BY LineEnds
<1>7. i + 1 = Len(tokens) + 1 => tokens[Len(tokens)] \in Tokens
  <2>1. i + 1 = Len(tokens) + 1 => i = Len(tokens)
    BY <1>1
  <2>2. QED
    BY <2>1
<1>8. AtToken(i + 1)'
  BY <1>2, <1>3, <1>4, <1>6, <1>7, SameText DEF AtToken
<1>9. currentWidth = Cardinality(Columns(LineOf(i))) /\ currentWidth \in Nat
  <2>1. InFront(LineOf(i), i + 1) = Columns(LineOf(i))
    BY LineEnds
  <2>2. /\ Cardinality(InFront(LineOf(i), i)) \in Nat
        /\ Cardinality(InFront(LineOf(i), i + 1))
             = Cardinality(InFront(LineOf(i), i)) + tokens[i].adds * SizeAt(i)
    BY FrontStep
  <2>3. tokens[i].adds * SizeAt(i) = 0
    <3>1. SizeAt(i) \in Nat
      BY <1>2, SizeStep
    <3>2. QED
      BY <3>1
  <2>4. QED
    BY <2>1, <2>2, <2>3 DEF AtToken
<1>10. /\ longestWidth' \in {currentWidth, longestWidth} /\ longestWidth' \in Nat
       /\ longestWidth' >= currentWidth /\ longestWidth' >= longestWidth
  <2>1. longestWidth \in Nat
    BY DEF LongestSoFar
  <2>2. QED
    BY <1>9, <2>1, MaxOfTwo
<1>11. LongestSoFar(i + 1)'
  <2>1. \A l \in 0 .. LineOf(i + 1) - 1 : Cardinality(Columns(l)) <= longestWidth'
    <3> SUFFICES ASSUME NEW l \in 0 .. LineOf(i + 1) - 1
                 PROVE  Cardinality(Columns(l)) <= longestWidth'
      OBVIOUS
    <3>1. CASE l = LineOf(i)
      BY <1>9, <1>10, <3>1
    <3>2. CASE l \in 0 .. LineOf(i) - 1
      <4>1. Cardinality(Columns(l)) <= longestWidth /\ longestWidth \in Nat
        BY <3>2 DEF LongestSoFar
      <4>2. Cardinality(Columns(l)) \in Nat
        BY ColumnsAre
      <4>3. QED
        BY <1>10, <4>1, <4>2
    <3>3. QED
      BY <1>5, <3>1, <3>2
  <2>2. \/ longestWidth' = 0
        \/ \E l \in 0 .. LineOf(i + 1) - 1 : Cardinality(Columns(l)) = longestWidth'
    <3>1. LineOf(i) \in 0 .. LineOf(i + 1) - 1
          /\ \A l \in 0 .. LineOf(i) - 1 : l \in 0 .. LineOf(i + 1) - 1
      BY <1>5
    <3>2. CASE longestWidth' = currentWidth
      BY <1>9, <3>1, <3>2
    <3>3. CASE longestWidth' = longestWidth
      BY <3>1, <3>3 DEF LongestSoFar
    <3>4. QED
      BY <1>10, <3>2, <3>3
  <2>3. LineOf(i + 1)' = LineOf(i + 1) /\ \A l : Columns(l)' = Columns(l)
    BY SameText
  <2>4. longestWidth' \in Nat
    BY <1>10
  <2> HIDE DEF Max
  <2>5. QED
    BY <2>1, <2>2, <2>3, <2>4, Zenon DEF LongestSoFar
<1>12. TextOK'
  BY SameText
<1>13. QED
  BY <1>2, <1>8, <1>11, <1>12 DEF DialogInv

\* Behind the last token the widest line is known.
LEMMA WidestFound ==
  ASSUME TextOK, AtToken(Len(tokens) + 1), LongestSoFar(Len(tokens) + 1)
  PROVE  Max({currentWidth, longestWidth}) = Widest
<1> DEFINE n == Len(tokens)
           last == LineOf(n + 1)
           m == Max({currentWidth, longestWidth})
           Widths == {Cardinality(Columns(l)) : l \in 0 .. n}
<1>1. n \in Nat /\ n + 1 \in 1 .. n + 1
  BY TokensHaveTypes
<1>2. last \in Nat /\ last <= n
  <2>1. last \in 0 .. (n + 1) - 1
    BY <1>1, LineStep
  <2>2. QED
    BY <1>1, <2>1
<1>3. \A l : Cardinality(Columns(l)) \in Nat
  BY ColumnsAre
<1>4. currentWidth = Cardinality(Columns(last)) /\ currentWidth \in Nat
  <2>1. InFront(last, n + 1) = Columns(last)
    BY LineEnds
  <2>2. QED
    BY <1>3, <2>1 DEF AtToken
<1>5. longestWidth \in Nat
  BY DEF LongestSoFar
<1>6. m \in {currentWidth, longestWidth} /\ m >= currentWidth /\ m >= longestWidth
  BY <1>4, <1>5, MaxOfTwo
<1> HIDE DEF m
<1>7. \A l \in 0 .. n : Cardinality(Columns(l)) <= m
  <2> SUFFICES ASSUME NEW l \in 0 .. n
               PROVE  Cardinality(Columns(l)) <= m
    OBVIOUS
  <2>1. CASE l = last
    BY <1>4, <1>5, <1>6, <2>1
  <2>2. CASE l \in 0 .. last - 1
    <3>1. Cardinality(Columns(l)) <= longestWidth
      BY <2>2 DEF LongestSoFar
    <3>2. QED
      BY <1>3, <1>4, <1>5, <1>6, <3>1
  <2>3. CASE l > last
    <3>1. Cardinality(Columns(l)) = 0
      BY <1>1, <2>3, LineEnds
    <3>2. QED
      BY <1>4, <1>5, <1>6, <3>1
  <2>4. QED
    BY <1>1, <1>2, <2>1, <2>2, <2>3
<1>8. m \in Widths
  <2>1. last \in 0 .. n
    BY <1>1, <1>2
  <2>2. currentWidth \in Widths
    BY <1>4, <2>1
  <2>3. CASE m = currentWidth
    BY <2>2, <2>3
  <2>4. CASE m = longestWidth /\ longestWidth = 0
    <3>1. m = currentWidth
      BY <1>4, <1>6, <2>4
    <3>2. QED
      BY <2>2, <3>1
  <2>5. CASE m = longestWidth /\ longestWidth # 0
    <3>1. PICK l \in 0 .. last - 1 : Cardinality(Columns(l)) = longestWidth
      BY <2>5 DEF LongestSoFar
    <3>2. l \in 0 .. n
      BY <1>1, <1>2
    <3>3. QED
      BY <2>5, <3>1, <3>2
  <2>6. QED
    BY <1>6, <2>3, <2>4, <2>5
<1>9. \A w \in Widths : w <= m
  BY <1>7
<1>10. Widths \in SUBSET Int
  BY <1>3
<1> HIDE DEF Widths
<1>11. Max(Widths) = m
  BY <1>8, <1>9, <1>10, MaxIs
<1>12. QED
  BY <1>11 DEF Widest, Widths, m, n

\* The byte that begins a token decides the round, and a whole token is taken
\* as a whole whatever its other bytes are.
LEMMA TakesWhole ==
  ASSUME TextOK, reading = "text", NEW i \in 1 .. Len(tokens), AtToken(i), LongestSoFar(i),
         tokens[i] \in Tokens, DialogNext
  PROVE  DialogInv'
<1> DEFINE t == tokens[i]
           first == t.bytes[1]
           n == Len(t.bytes)
<1>1. Len(tokens) \in Nat /\ n \in Nat \ {0} /\ DOMAIN t.bytes = 1 .. n
      /\ t.adds \in Nat /\ t.size \in Nat /\ t.ends \in BOOLEAN
  BY TokensHaveTypes
<1>2. pos = Start(i) /\ pos \in Nat \ {0} /\ Length \in Nat /\ pos < Length
      /\ Text(pos) = first
  <2>1. 1 \in 1 .. n /\ Start(i) + 1 - 1 = Start(i)
    BY <1>1, StartStep
  <2>2. Start(i) \in Nat \ {0} /\ Start(i) < Length /\ Text(Start(i)) = first
    BY <2>1, TextIs
  <2>3. Length \in Nat
    BY <1>1, StartOrder DEF Length
  <2>4. QED
    BY <2>2, <2>3 DEF AtToken
<1>3. currentTextWidth \in Nat /\ currentWidth \in Nat
  <2>1. SizeAt(i) \in Nat
    BY <1>1, SizeStep
  <2>2. QED
    BY <2>1, FrontStep DEF AtToken
<1>4. /\ first \in NarrowBytes => n = 1 /\ t.adds = 1 /\ t.size = 0 /\ ~t.ends
      /\ first = "06" => n = 1 /\ t.adds = 0 /\ t.size = 0 /\ ~t.ends
      /\ first = "newline" => n = 1 /\ t.adds = 0 /\ t.size = 0 /\ t.ends
      /\ first = "lead" => n = 2 /\ t.adds = PairWidth /\ t.size = 0 /\ ~t.ends
      /\ first = "color" => n = 2 /\ t.adds = 0 /\ t.size = 0 /\ ~t.ends
      /\ first = "item" => n = 3 /\ t.adds = ItemWidth + 1 /\ t.size = 0 /\ ~t.ends
      /\ first = "#" => SignMeans(t)
      /\ first # "NUL"
  BY FirstByte
<1> HIDE DEF t, first, n
<1>5. \A bytes : Finds(bytes) => first \in bytes
  BY <1>2 DEF Finds
<1>6. ASSUME NEW units, NEW k, Adds(units, k), n = k, t.adds = units, t.size = 0, ~t.ends
      PROVE  DialogInv'
  <2>1. /\ tokens' = tokens /\ longestWidth' = longestWidth /\ reading' = "text"
        /\ pos' = pos + n /\ currentTextWidth' = currentTextWidth
        /\ currentWidth' = currentWidth + t.adds * currentTextWidth
    BY <1>6 DEF Adds
  <2>2. currentTextWidth' = IF t.size # 0 THEN t.size ELSE currentTextWidth
    BY <1>6, <2>1
  <2>3. QED
    BY <1>6, <2>1, <2>2, Advance DEF t, n
<1>7. CASE Narrow
  <2>1. first \in NarrowBytes /\ Adds(1, 1)
    BY <1>5, <1>7 DEF Narrow
  <2>2. QED
    BY <1>4, <1>6, <2>1
<1>8. CASE Pair
  <2>1. first = "lead" /\ Adds(PairWidth, 2)
    BY <1>5, <1>8 DEF Pair
  <2>2. QED
    BY <1>4, <1>6, <2>1
<1>9. CASE Item
  <2>1. first = "item" /\ Adds(ItemWidth + 1, 3)
    BY <1>5, <1>9 DEF Item
  <2>2. QED
    BY <1>4, <1>6, <2>1
<1>10. CASE Unknown06
  <2>1. first = "06" /\ Adds(0, 1)
    BY <1>5, <1>10 DEF Unknown06
  <2>2. QED
    BY <1>4, <1>6, <2>1
<1>11. CASE Color
  <2>1. first = "color" /\ Adds(0, 2)
    BY <1>5, <1>11 DEF Color
  <2>2. QED
    BY <1>4, <1>6, <2>1
<1>12. CASE NumberSign
  <2> DEFINE Letters == {p \in (pos + 1) .. Length : Text(p) \notin DOMAIN Digits}
             letter == Min(Letters)
             end == pos + n - 1
  <2>1. /\ first = "#"
        /\ currentTextWidth' = IF Text(letter) = "S" THEN Digits[Text(letter - 1)]
                               ELSE currentTextWidth
        /\ currentWidth' = currentWidth + IF Text(letter) = "I" THEN currentTextWidth ELSE 0
        /\ pos' = letter + 1
        /\ tokens' = tokens /\ longestWidth' = longestWidth /\ reading' = "text"
    <3>1. Finds({"#"})
      BY <1>12 DEF NumberSign
    <3>2. first = "#"
      BY <1>5, <3>1
    <3>3. QED
      BY <1>12, <3>2 DEF NumberSign
  <2>2. SignMeans(t)
    BY <1>4, <2>1
  <2>3. n >= 2 /\ t.bytes[n] \notin DOMAIN Digits
        /\ \A k \in 2 .. n - 1 : t.bytes[k] \in DOMAIN Digits
    BY <2>2 DEF SignMeans, n
  <2>4. \A k \in 1 .. n : pos + k - 1 < Length /\ Text(pos + k - 1) = t.bytes[k]
    BY <1>2, TextIs DEF t, n
  <2>5. end \in Nat /\ end \in (pos + 1) .. Length /\ Text(end) = t.bytes[n]
        /\ Text(end - 1) = t.bytes[n - 1]
    <3>1. n \in 1 .. n /\ n - 1 \in 1 .. n /\ pos + (n - 1) - 1 = end - 1
      BY <1>1, <1>2, <2>3
    <3>2. end < Length /\ Text(end) = t.bytes[n]
      BY <2>4, <3>1
    <3>3. Text(end - 1) = t.bytes[n - 1]
      BY <2>4, <3>1
    <3>4. end \in Nat /\ end >= pos + 1
      BY <1>1, <1>2, <2>3
    <3>5. QED
      BY <1>2, <3>2, <3>3, <3>4
  <2>6. letter = end
    <3>1. end \in Letters
      BY <2>3, <2>5
    <3>2. \A p \in Letters : end <= p
      <4> SUFFICES ASSUME NEW p \in (pos + 1) .. Length, p < end
                   PROVE  Text(p) \in DOMAIN Digits
        BY <1>2, <2>5
      <4>1. p - pos + 1 \in 2 .. n - 1 /\ p - pos + 1 \in 1 .. n
            /\ pos + (p - pos + 1) - 1 = p
        BY <1>1, <1>2
      <4>2. Text(p) = t.bytes[p - pos + 1]
        BY <2>4, <4>1
      <4>3. QED
        BY <2>3, <4>1, <4>2
    <3>3. Letters \in SUBSET Int
      BY <1>2
    <3> HIDE DEF Letters, end
    <3>4. QED
      BY <3>1, <3>2, <3>3, MinIs
  <2> HIDE DEF letter
  <2>7. pos' = pos + n
    BY <1>1, <1>2, <2>1, <2>6
  <2> HIDE DEF end
  <2>8. ~t.ends
    BY <2>2 DEF SignMeans, Means
  <2>9. currentTextWidth' = IF t.size # 0 THEN t.size ELSE currentTextWidth
    <3>1. CASE t.bytes[n] = "S"
      <4>1. n >= 3 /\ t.size = Digits[t.bytes[n - 1]]
        BY <2>2, <3>1 DEF SignMeans, Means, n
      <4>2. t.bytes[n - 1] \in DOMAIN Digits
        <5>1. n - 1 \in 2 .. n - 1
          BY <1>1, <4>1
        <5>2. QED
          BY <2>3, <5>1
      <4>3. t.size # 0
        BY <4>1, <4>2 DEF Digits
      <4>4. QED
        BY <2>1, <2>5, <2>6, <3>1, <4>1, <4>3
    <3>2. CASE t.bytes[n] # "S"
      <4>1. t.size = 0
        BY <2>2, <3>2 DEF SignMeans, Means, n
      <4>2. QED
        BY <2>1, <2>5, <2>6, <3>2, <4>1
    <3>3. QED
      BY <3>1, <3>2
  <2>10. currentWidth' = currentWidth + t.adds * currentTextWidth
    <3>1. CASE t.bytes[n] = "I"
      <4>1. t.adds = 1
        BY <2>2, <3>1 DEF SignMeans, Means, n
      <4>2. QED
        BY <1>3, <2>1, <2>5, <2>6, <3>1, <4>1
    <3>2. CASE t.bytes[n] # "I"
      <4>1. t.adds = 0
        BY <2>2, <3>2 DEF SignMeans, Means, n
      <4>2. QED
        BY <1>3, <2>1, <2>5, <2>6, <3>2, <4>1
    <3>3. QED
      BY <3>1, <3>2
  <2>11. QED
    BY <2>1, <2>7, <2>8, <2>9, <2>10, Advance DEF t, n
<1>13. CASE EndOfLine
  <2>1. first \in {"newline", "NUL"}
    BY <1>5, <1>13 DEF EndOfLine
  <2>2. first = "newline"
    BY <1>4, <2>1
  <2>3. n = 1 /\ t.adds = 0 /\ t.size = 0 /\ t.ends
    BY <1>4, <2>2
  <2>4. Text(pos) # "NUL"
    BY <1>2, <2>2
  <2>5. /\ tokens' = tokens /\ longestWidth' = Max({currentWidth, longestWidth})
        /\ pos' = pos + 1 /\ currentTextWidth' = currentTextWidth /\ currentWidth' = 0
        /\ reading' = "text"
    BY <1>13, <2>4 DEF EndOfLine
  <2>6. QED
    BY <2>3, <2>5, AdvanceLine DEF t, n
<1>14. CASE Beyond
  BY <1>2, <1>14 DEF Beyond
<1>15. QED
  BY <1>7, <1>8, <1>9, <1>10, <1>11, <1>12, <1>13, <1>14 DEF DialogNext

\* Behind the last token stands the terminator.
LEMMA Returns ==
  ASSUME TextOK, reading = "text",
         AtToken(Len(tokens) + 1), LongestSoFar(Len(tokens) + 1), DialogNext
  PROVE  DialogInv'
<1>1. pos = Length /\ Text(pos) = "NUL" /\ tokens[Len(tokens)] \in Tokens
  BY DEF AtToken, Length, Text
<1>2. Length \in Nat
  BY TokensHaveTypes, StartOrder DEF Length
<1>3. \A bytes : Finds(bytes) => "NUL" \in bytes
  BY <1>1 DEF Finds
<1>4. ~Narrow /\ ~Pair /\ ~Item /\ ~Unknown06 /\ ~Color /\ ~NumberSign
  <2>1. NarrowBytes = {"a", "S", "I", "1", "2"}
    BY DEF NarrowBytes, Digits
  <2>2. QED
    BY <1>3, <2>1 DEF Narrow, Pair, Item, Unknown06, Color, NumberSign
<1>5. ~Beyond
  BY <1>1, <1>2 DEF Beyond
<1>6. EndOfLine
  BY <1>4, <1>5 DEF DialogNext
<1>7. tokens' = tokens /\ reading' = "returned"
      /\ longestWidth' = Max({currentWidth, longestWidth})
  BY <1>1, <1>6 DEF EndOfLine
<1>8. longestWidth' = Widest'
  BY <1>7, WidestFound, SameText
<1>9. QED
  BY <1>1, <1>7, <1>8, SameText DEF DialogInv

\* A code that has lost its end takes the terminator for a part of it.
LEMMA RunsOver ==
  ASSUME TextOK, reading = "text", NEW i \in 1 .. Len(tokens), AtToken(i),
         tokens[i] \in Unfinished, i = Len(tokens), DialogNext
  PROVE  DialogInv'
<1> DEFINE t == tokens[i]
           first == t.bytes[1]
           n == Len(t.bytes)
<1>1. Len(tokens) \in Nat /\ n \in Nat \ {0} /\ DOMAIN t.bytes = 1 .. n
  BY TokensHaveTypes
<1>2. pos = Start(i) /\ pos \in Nat \ {0} /\ Length = pos + n
  BY <1>1, StartStep DEF AtToken, Length
<1>3. \A k \in 1 .. n : Text(pos + k - 1) = t.bytes[k]
  BY <1>2, TextIs
<1>4. Text(pos) = first
  <2>1. 1 \in 1 .. n /\ pos + 1 - 1 = pos
    BY <1>1, <1>2
  <2>2. QED
    BY <1>3, <2>1
<1>5. \/ n = 1 /\ first \in {"lead", "color"}
      \/ n \in 1 .. 2 /\ first = "item"
      \/ first = "#" /\ \A k \in 2 .. n : t.bytes[k] \in DOMAIN Digits
  BY DialogAssumption DEF BrokenOff
<1>6. tokens[Len(tokens)] \in Unfinished
  OBVIOUS
<1> HIDE DEF t, first, n
<1>7. \A bytes : Finds(bytes) => first \in bytes
  BY <1>4 DEF Finds
<1>8. ASSUME tokens' = tokens, reading' = "text", pos' \in Nat, pos' > Length
      PROVE  DialogInv'
  <2>1. pos' \in Nat /\ pos' > Length'
    BY <1>8, SameText
  <2>2. QED
    BY <1>6, <1>8, <2>1, SameText DEF DialogInv
<1>9. ASSUME NEW units, NEW k \in Nat, Adds(units, k), k > n
      PROVE  DialogInv'
  <2>1. tokens' = tokens /\ reading' = "text" /\ pos' = pos + k
    BY <1>9 DEF Adds
  <2>2. pos' \in Nat /\ pos' > Length
    BY <1>1, <1>2, <1>9, <2>1
  <2>3. QED
    BY <1>8, <2>1, <2>2
<1>10. CASE Pair
  <2>1. first = "lead" /\ Adds(PairWidth, 2)
    BY <1>7, <1>10 DEF Pair
  <2>2. n = 1
    BY <1>5, <2>1
  <2>3. QED
    BY <1>9, <2>1, <2>2
<1>11. CASE Item
  <2>1. first = "item" /\ Adds(ItemWidth + 1, 3)
    BY <1>7, <1>11 DEF Item
  <2>2. n \in 1 .. 2
    BY <1>5, <2>1
  <2>3. QED
    BY <1>9, <2>1, <2>2
<1>12. CASE Color
  <2>1. first = "color" /\ Adds(0, 2)
    BY <1>7, <1>12 DEF Color
  <2>2. n = 1
    BY <1>5, <2>1
  <2>3. QED
    BY <1>9, <2>1, <2>2
<1>13. CASE NumberSign
  <2> DEFINE Letters == {p \in (pos + 1) .. Length : Text(p) \notin DOMAIN Digits}
             letter == Min(Letters)
  <2>1. first = "#" /\ pos' = letter + 1 /\ tokens' = tokens /\ reading' = "text"
    <3>1. Finds({"#"})
      BY <1>13 DEF NumberSign
    <3>2. first = "#"
      BY <1>7, <3>1
    <3>3. QED
      BY <1>13, <3>2 DEF NumberSign
  <2>2. \A k \in 2 .. n : t.bytes[k] \in DOMAIN Digits
    BY <1>5, <2>1
  <2>3. Length \in Letters
    <3>1. Text(Length) = "NUL" /\ "NUL" \notin DOMAIN Digits
      BY DEF Text, Digits
    <3>2. Length \in (pos + 1) .. Length
      BY <1>1, <1>2
    <3>3. QED
      BY <3>1, <3>2
  <2>4. \A p \in Letters : Length <= p
    <3> SUFFICES ASSUME NEW p \in (pos + 1) .. Length, p < Length
                 PROVE  Text(p) \in DOMAIN Digits
      BY <1>1, <1>2
    <3>1. p - pos + 1 \in 2 .. n /\ p - pos + 1 \in 1 .. n /\ pos + (p - pos + 1) - 1 = p
      BY <1>1, <1>2
    <3>2. Text(p) = t.bytes[p - pos + 1]
      BY <1>3, <3>1
    <3>3. QED
      BY <2>2, <3>1, <3>2
  <2>5. Letters \in SUBSET Int
    BY <1>2
  <2> HIDE DEF Letters
  <2>6. letter = Length
    BY <2>3, <2>4, <2>5, MinIs
  <2> HIDE DEF letter
  <2>7. pos' \in Nat /\ pos' > Length
    BY <1>1, <1>2, <2>1, <2>6
  <2>8. QED
    BY <1>8, <2>1, <2>7
<1>14. ~Narrow /\ ~Unknown06 /\ ~EndOfLine /\ ~Beyond
  <2>1. NarrowBytes = {"a", "S", "I", "1", "2"}
    BY DEF NarrowBytes, Digits
  <2>2. first \in {"lead", "color", "item", "#"}
    BY <1>5
  <2>3. ~(pos > Length)
    BY <1>1, <1>2
  <2>4. QED
    BY <1>7, <2>1, <2>2, <2>3 DEF Narrow, Unknown06, EndOfLine, Beyond
<1>15. QED
  BY <1>10, <1>11, <1>12, <1>13, <1>14 DEF DialogNext

LEMMA DialogStarts == DialogInit => DialogInv
<1> SUFFICES ASSUME DialogInit
             PROVE  DialogInv
  OBVIOUS
<1>1. TextOK
  <2>1. PICK ts \in SeqOf(Tokens, MaxTokens), last \in Tokens \cup Unfinished :
          tokens = ts \o <<last>>
    BY DEF DialogInit
  <2>2. PICK m \in 0 .. MaxTokens : ts \in [1 .. m -> Tokens]
    BY <2>1 DEF SeqOf
  <2>3. m \in Nat
    BY DialogAssumption, <2>2
  <2>4. ts \in Seq(Tokens) /\ Len(ts) = m
    BY <2>2, <2>3
  <2>5. /\ tokens \in Seq(Tokens \cup Unfinished) /\ Len(tokens) = m + 1
        /\ \A i \in 1 .. m : tokens[i] = ts[i] /\ ts[i] \in Tokens
    BY <2>1, <2>2, <2>3, <2>4
  <2>6. tokens # <<>>
    BY <2>3, <2>5
  <2>7. QED
    BY <2>3, <2>5, <2>6 DEF TextOK
<1>2. Len(tokens) \in Nat \ {0} /\ 1 \in 1 .. Len(tokens) + 1 /\ 1 # Len(tokens) + 1
  BY <1>1, TokensHaveTypes
<1>3. AtToken(1)
  BY <1>1, <1>2, StartAtFirst, SizeStep, LineEnds DEF AtToken, DialogInit
<1>4. LongestSoFar(1)
  <2>1. LineOf(1) = 0
    BY <1>1, LineStep
  <2>2. QED
    BY <2>1 DEF LongestSoFar, DialogInit
<1>5. reading = "text"
  BY DEF DialogInit
<1>6. QED
  BY <1>1, <1>2, <1>3, <1>4, <1>5 DEF DialogInv

LEMMA DialogGoesOn == DialogInv /\ [DialogNext]_dialogVars => DialogInv'
<1> SUFFICES ASSUME DialogInv, [DialogNext]_dialogVars
             PROVE  DialogInv'
  OBVIOUS
<1>1. TextOK
  BY DEF DialogInv
<1>2. CASE UNCHANGED dialogVars
  <2>1. /\ tokens' = tokens /\ pos' = pos /\ currentTextWidth' = currentTextWidth
        /\ currentWidth' = currentWidth /\ longestWidth' = longestWidth /\ reading' = reading
    BY <1>2 DEF dialogVars
  <2>2. Len(tokens)' = Len(tokens) /\ TextOK' /\ Length' = Length /\ Widest' = Widest
    BY <1>1, <2>1, SameText
  <2>3. \A i : AtToken(i) => AtToken(i)'
    BY <2>1, SameText DEF AtToken
  <2>4. \A i : LongestSoFar(i) => LongestSoFar(i)'
    <3>1. \A i : LineOf(i)' = LineOf(i)
      BY <2>1, SameText
    <3>2. \A l : Columns(l)' = Columns(l)
      BY <2>1, SameText
    <3>3. QED
      BY <2>1, <3>1, <3>2, Zenon DEF LongestSoFar
  <2>5. QED
    BY <2>1, <2>2, <2>3, <2>4 DEF DialogInv
<1>3. CASE DialogNext
  <2>1. reading = "text"
    BY <1>3 DEF DialogNext, Narrow, Pair, Item, Unknown06, Color, NumberSign, EndOfLine, Beyond, Finds
  <2>2. CASE pos \in Nat /\ pos > Length /\ tokens[Len(tokens)] \in Unfinished
    <3>1. Length \in Nat
      BY <1>1, TokensHaveTypes, StartOrder DEF Length
    <3>2. CASE Beyond
      <4>1. reading' = "beyond" /\ tokens' = tokens
        BY <3>2 DEF Beyond
      <4>2. QED
        BY <1>1, <2>2, <4>1, SameText DEF DialogInv
    <3>3. CASE \E bytes : Finds(bytes)
      <4>1. pos <= Length
        BY <3>3 DEF Finds
      <4>2. QED
        BY <2>2, <3>1, <4>1
    <3>4. QED
      BY <1>3, <3>2, <3>3
      DEF DialogNext, Narrow, Pair, Item, Unknown06, Color, NumberSign, EndOfLine
  <2>3. ASSUME NEW i \in 1 .. Len(tokens) + 1, AtToken(i), LongestSoFar(i)
        PROVE  DialogInv'
    <3>1. CASE i = Len(tokens) + 1
      BY <1>1, <1>3, <2>1, <2>3, <3>1, Returns
    <3>2. CASE i # Len(tokens) + 1
      <4>1. i \in 1 .. Len(tokens)
        BY <1>1, <3>2, TokensHaveTypes
      <4>2. CASE tokens[i] \in Tokens
        BY <1>1, <1>3, <2>1, <2>3, <4>1, <4>2, TakesWhole
      <4>3. CASE tokens[i] \notin Tokens
        <5>1. tokens[i] \in Unfinished
          BY <1>1, <4>1, <4>3, TokensHaveTypes
        <5>2. ~(i \in 1 .. Len(tokens) - 1)
          BY <1>1, <4>3 DEF TextOK
        <5>3. Len(tokens) \in Nat
          BY <1>1, TokensHaveTypes
        <5>4. i = Len(tokens)
          BY <4>1, <5>2, <5>3
        <5>5. QED
          BY <1>1, <1>3, <2>1, <2>3, <4>1, <5>1, <5>4, RunsOver
      <4>4. QED
        BY <4>2, <4>3
    <3>3. QED
      BY <3>1, <3>2
  <2>4. QED
    BY <2>1, <2>2, <2>3 DEF DialogInv
<1>4. QED
  BY <1>2, <1>3

\* Of every text, of whatever codes and however long, the loop returns the width of
\* the widest line; and it reads on behind the text exactly if the text breaks off
\* inside a code.
THEOREM WidestIsMeasured == DialogSpec => []WidestOrBeyondUnfinished
<1>1. DialogInv => WidestOrBeyondUnfinished
  BY DEF DialogInv, WidestOrBeyondUnfinished, Last
<1>2. QED
  BY <1>1, DialogStarts, DialogGoesOn, PTL DEF DialogSpec

-----------------------------------------------------------------------------
(* The hooks side by side.                                                 *)

\* None of them takes a step that another could not take alone.
LEMMA GameParts ==
  GameSpec => Spec /\ BoostSpec /\ TextSpec /\ DialogSpec
<1>1. GameInit => Init /\ BoostInit /\ TextInit /\ DialogInit
  BY DEF GameInit
<1>2. [ClockStep \/ BoostStep \/ TextHookStep \/ DialogStep]_gameVars
        => /\ [Next]_vars /\ [BoostNext]_boostVars /\ [TextNext]_textVars
           /\ [DialogNext]_dialogVars
  BY DEF ClockStep, BoostStep, TextHookStep, DialogStep, gameVars
<1>3. QED
  BY <1>1, <1>2, PTL DEF GameSpec, Spec, BoostSpec, TextSpec, DialogSpec

\* What the hooks of the running game promise, all of it at once.
THEOREM GameIsRight ==
  GameSpec => /\ [](ClockFollowsCounter /\ BoostOutlivesGivenUpBattles)
              /\ LoweredInSteps
              /\ [](NothingLeftForNextText /\ OnlyOverlapOrUndrawnGoAstray)
              /\ []WidestOrBeyondUnfinished
BY GameParts, CounterTellsClock, ClockGoesDownInSteps, BoostIsBounded, NothingLeft,
   OnlyOverlapOrUndrawn, WidestIsMeasured, PTL
=============================================================================
