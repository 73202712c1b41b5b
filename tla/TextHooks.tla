------------------------------ MODULE TextHooks ------------------------------
(***************************************************************************)
(* The hooks of ED7VWFontFix.cpp that pass a value through global          *)
(* variables from one game function to another that runs inside it:        *)
(* the fixed width of a window from AnonymousText to PrintText, the        *)
(* character of a book from BookIsKana to BookGetFontWidth, and the        *)
(* horizontal scale of a save description to DrawFontClip.  Which of the   *)
(* game's functions call which, and on how many threads, is the game's.    *)
(***************************************************************************)
EXTENDS Integers

CONSTANTS
  TextThreads,  \* threads of the game that draw text
  FixedWidths,  \* widths a script can ask for
  NarrowChars   \* characters of a book found in FontAdvanceTable

ASSUME TextAssumption == FixedWidths \subseteq Nat \ {0} /\ NarrowChars \subseteq Nat \ {0}

\* No fixed width, so that it is computed; no character of FontAdvanceTable
\* (kana, or the first byte of a pair), so that the width of the game is kept.
None == 0

VARIABLES
  CorrectFixedWidthValue, OriginalFixedWidth,
  stored,    \* v25[285] of the window: a width stored for the next text
  DrawingBookText, IsKanaBookCheckDone, IsKanaBookCheckCharacter, GetWidthDoneOnce,
  HookFontHorizontalScale,
  frame,     \* the hook each thread is inside of, and what its text should get
  together,  \* two threads have been inside these hooks at once
  undrawn,   \* a wide description ended without a call of DrawFontClip
  astray     \* the kinds of text that got a value meant for another one

fixedVars == <<CorrectFixedWidthValue, OriginalFixedWidth, stored>>
bookVars == <<DrawingBookText, IsKanaBookCheckDone, IsKanaBookCheckCharacter, GetWidthDoneOnce>>
textVars == <<fixedVars, bookVars, HookFontHorizontalScale, frame, together, undrawn, astray>>

Frames == [in : {"game", "window", "print", "book", "save"}, from : {"game", "window"},
           want : FixedWidths \cup NarrowChars \cup {None, 1}, fixed : BOOLEAN]
Outside == [in |-> "game", from |-> "game", want |-> None, fixed |-> FALSE]

TextInit ==
  /\ CorrectFixedWidthValue = FALSE /\ OriginalFixedWidth = None /\ stored = None
  /\ DrawingBookText = FALSE /\ IsKanaBookCheckDone = FALSE
  /\ IsKanaBookCheckCharacter = None /\ GetWidthDoneOnce = FALSE
  /\ HookFontHorizontalScale = FALSE
  /\ frame = [t \in TextThreads |-> Outside]
  /\ together = FALSE /\ undrawn = FALSE /\ astray = {}

\* Every call notes whether another thread is inside one of the hooks.
Called(t) == together' = (together \/ \E u \in TextThreads \ {t} : frame[u].in # "game")
Note(kind, got, want) == astray' = IF got = want THEN astray ELSE astray \cup {kind}

-----------------------------------------------------------------------------
(* Windows with a fixed width.                                             *)

\* The game stores a width for the next text of the window.
Store ==
  /\ \E w \in FixedWidths : stored' = w
  /\ UNCHANGED <<CorrectFixedWidthValue, OriginalFixedWidth, bookVars,
                 HookFontHorizontalScale, frame, together, undrawn, astray>>

\* The width CMessageWindow__AnonymousText_hook finds: its argument, or for
\* the argument -1 the stored one.
WidthFound(override) == IF override = -1 THEN stored ELSE override

\* From entry to the call of the original function.
AnonymousText(t) ==
  /\ frame[t].in = "game"
  /\ \E override \in FixedWidths \cup {0, -1} :
       LET w == WidthFound(override) IN
       /\ CorrectFixedWidthValue' = (CorrectFixedWidthValue \/ w # None)
       /\ OriginalFixedWidth' = IF w # None THEN w ELSE OriginalFixedWidth
       /\ stored' = IF override = -1 THEN None ELSE stored
       /\ frame' = [frame EXCEPT ![t].in = "window", ![t].want = w]
  /\ Called(t)
  /\ UNCHANGED <<bookVars, HookFontHorizontalScale, undrawn, astray>>

\* Mutant: the flag is left as it is.
AnonymousTextEndKept(t) ==
  /\ frame[t].in = "window"
  /\ frame' = [frame EXCEPT ![t] = Outside]
  /\ UNCHANGED <<fixedVars, bookVars, HookFontHorizontalScale, together, undrawn, astray>>

AnonymousTextEnd(t) ==
  /\ frame[t].in = "window"
  /\ CorrectFixedWidthValue' = FALSE
  /\ frame' = [frame EXCEPT ![t] = Outside]
  /\ UNCHANGED <<OriginalFixedWidth, stored, bookVars, HookFontHorizontalScale,
                 together, undrawn, astray>>

\* CMessageWindow__PrintText_hook looks at the flag before the original ...
PrintText(t) ==
  /\ frame[t].in \in {"game", "window"}
  /\ frame' = [frame EXCEPT ![t].in = "print", ![t].from = frame[t].in,
                            ![t].fixed = CorrectFixedWidthValue]
  /\ Called(t)
  /\ UNCHANGED <<fixedVars, bookVars, HookFontHorizontalScale, undrawn, astray>>

\* ... and at the width after it.
PrintTextEnd(t) ==
  /\ frame[t].in = "print"
  /\ Note("window", IF frame[t].fixed THEN OriginalFixedWidth ELSE None, frame[t].want)
  /\ frame' = [frame EXCEPT ![t].in = frame[t].from, ![t].from = "game", ![t].fixed = FALSE]
  /\ UNCHANGED <<fixedVars, bookVars, HookFontHorizontalScale, together, undrawn>>

-----------------------------------------------------------------------------
(* Books.                                                                  *)

BookDrawText(t) ==
  /\ frame[t].in = "game"
  /\ DrawingBookText' = TRUE
  /\ frame' = [frame EXCEPT ![t].in = "book"]
  /\ Called(t)
  /\ UNCHANGED <<fixedVars, IsKanaBookCheckDone, IsKanaBookCheckCharacter, GetWidthDoneOnce,
                 HookFontHorizontalScale, undrawn, astray>>

BookDrawTextEnd(t) ==
  /\ frame[t].in = "book"
  /\ DrawingBookText' = FALSE /\ IsKanaBookCheckDone' = FALSE
  /\ frame' = [frame EXCEPT ![t] = Outside]
  /\ UNCHANGED <<fixedVars, IsKanaBookCheckCharacter, GetWidthDoneOnce,
                 HookFontHorizontalScale, together, undrawn, astray>>

\* The game asks of other texts as well whether a character is kana.
BookIsKana(t) ==
  /\ frame[t].in \in {"game", "book"}
  /\ \E c \in NarrowChars \cup {None} :
       /\ IF DrawingBookText
          THEN /\ IsKanaBookCheckDone' = TRUE /\ GetWidthDoneOnce' = FALSE
               /\ IsKanaBookCheckCharacter' = c
               /\ UNCHANGED DrawingBookText
          ELSE UNCHANGED bookVars
       /\ frame' = [frame EXCEPT ![t].want =
                                 IF frame[t].in = "book" THEN c ELSE None]
  /\ Called(t)
  /\ UNCHANGED <<fixedVars, HookFontHorizontalScale, undrawn, astray>>

\* The first width after a check is the one of the character checked; want is
\* the character this thread's book has checked last.
BookGetFontWidth(t) ==
  LET hit == DrawingBookText /\ IsKanaBookCheckDone
      got == IF hit THEN IsKanaBookCheckCharacter ELSE None IN
  /\ frame[t].in \in {"game", "book"}
  /\ IsKanaBookCheckDone' = (IsKanaBookCheckDone /\ ~hit)
  /\ GetWidthDoneOnce' = IF hit THEN ~GetWidthDoneOnce ELSE GetWidthDoneOnce
  /\ Note("book", got, frame[t].want)
  /\ frame' = [frame EXCEPT ![t].want = None]
  /\ Called(t)
  /\ UNCHANGED <<fixedVars, DrawingBookText, IsKanaBookCheckCharacter,
                 HookFontHorizontalScale, undrawn>>

-----------------------------------------------------------------------------
(* Save descriptions, in the game that has wide ones.                      *)

\* want = 1: the description is wide and has not been drawn yet.
SaveListFontRender(t) ==
  /\ frame[t].in = "game"
  /\ \E wide \in BOOLEAN :
       /\ HookFontHorizontalScale' = (HookFontHorizontalScale \/ wide)
       /\ frame' = [frame EXCEPT ![t].in = "save", ![t].want = IF wide THEN 1 ELSE None]
  /\ Called(t)
  /\ UNCHANGED <<fixedVars, bookVars, undrawn, astray>>

SaveListFontRenderEnd(t) ==
  /\ frame[t].in = "save"
  /\ undrawn' = (undrawn \/ frame[t].want # None)
  /\ frame' = [frame EXCEPT ![t] = Outside]
  /\ UNCHANGED <<fixedVars, bookVars, HookFontHorizontalScale, together, astray>>

\* Mutant: the scale is not taken back.
DrawFontClipKept(t) ==
  /\ frame[t].in \in {"game", "save"}
  /\ Note("clip", IF HookFontHorizontalScale THEN 1 ELSE None, frame[t].want)
  /\ frame' = [frame EXCEPT ![t].want = None]
  /\ Called(t)
  /\ UNCHANGED <<fixedVars, bookVars, HookFontHorizontalScale, undrawn>>

DrawFontClip(t) ==
  /\ frame[t].in \in {"game", "save"}
  /\ Note("clip", IF HookFontHorizontalScale THEN 1 ELSE None, frame[t].want)
  /\ HookFontHorizontalScale' = FALSE
  /\ frame' = [frame EXCEPT ![t].want = None]
  /\ Called(t)
  /\ UNCHANGED <<fixedVars, bookVars, undrawn>>

TextStep(t) ==
  \/ AnonymousText(t) \/ AnonymousTextEnd(t) \/ PrintText(t) \/ PrintTextEnd(t)
  \/ BookDrawText(t) \/ BookDrawTextEnd(t) \/ BookIsKana(t) \/ BookGetFontWidth(t)
  \/ SaveListFontRender(t) \/ SaveListFontRenderEnd(t) \/ DrawFontClip(t)

TextNext == Store \/ \E t \in TextThreads : TextStep(t)
TextSpec == TextInit /\ [][TextNext]_textVars

-----------------------------------------------------------------------------
TextTypeOK ==
  /\ CorrectFixedWidthValue \in BOOLEAN /\ OriginalFixedWidth \in FixedWidths \cup {None}
  /\ stored \in FixedWidths \cup {None}
  /\ DrawingBookText \in BOOLEAN /\ IsKanaBookCheckDone \in BOOLEAN
  /\ IsKanaBookCheckCharacter \in NarrowChars \cup {None} /\ GetWidthDoneOnce \in BOOLEAN
  /\ HookFontHorizontalScale \in BOOLEAN
  /\ frame \in [TextThreads -> Frames]
  /\ together \in BOOLEAN /\ undrawn \in BOOLEAN
  /\ astray \subseteq {"window", "book", "clip"}

\* What one hook leaves in the global variables for another reaches the text it
\* is meant for: a window or a book gets the width of another text only if two
\* threads were inside these hooks at once, and a scale reaches another text
\* only then or after a wide description that was not drawn at all.
OnlyOverlapOrUndrawnGoAstray ==
  /\ astray \cap {"window", "book"} # {} => together
  /\ "clip" \in astray => together \/ undrawn

\* When no thread is inside a window or a book, neither flag is left for the
\* next text, however the calls of the threads overlapped.
NothingLeftForNextText ==
  /\ (\A t \in TextThreads : frame[t].in # "window" /\ frame[t].from # "window")
       => ~CorrectFixedWidthValue
  /\ (\A t \in TextThreads : frame[t].in # "book")
       => ~DrawingBookText /\ ~IsKanaBookCheckDone
=============================================================================
