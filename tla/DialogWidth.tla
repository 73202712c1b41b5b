----------------------------- MODULE DialogWidth -----------------------------
(***************************************************************************)
(* GetWidthForDialogBoxContents (ED7VWFontFix.cpp): the width of the text  *)
(* of a window, measured byte by byte before the game draws it.  The text  *)
(* holds characters and codes of several bytes, and a byte means something *)
(* else as part of a code.  A width counts units of the character size.    *)
(***************************************************************************)
EXTENDS Naturals, Sequences, SequencesExt, FiniteSetsExt

CONSTANTS
  Tokens,      \* characters and codes, each with what it means (see Widest)
  Unfinished,  \* beginnings of codes that a text can break off in
  MaxTokens,   \* bound: tokens of a text before the last
  FirstSize,   \* the size of the characters at the start
  ItemWidth,   \* units of the name of an item
  PairWidth    \* units of a character of two bytes; a narrow one has 1

VARIABLES
  tokens,   \* the text as it is meant
  pos,       \* the byte that is read next
  currentTextWidth, currentWidth, longestWidth,
  reading   \* "text", "returned", or "beyond" the terminator of the text

dialogVars == <<tokens, pos, currentTextWidth, currentWidth, longestWidth, reading>>

Digits == [b \in {"1", "2"} |-> IF b = "1" THEN 1 ELSE 2]
NarrowBytes == {"a", "S", "I"} \cup DOMAIN Digits

-----------------------------------------------------------------------------
(* What the game makes of texts, by the first byte of a token: the bytes   *)
(* that it has, the units that it adds to its line, the size that it sets  *)
(* for the characters behind it (or 0), and whether it ends the line.      *)

Means(t, adds, size, ends) == t.adds = adds /\ t.size = size /\ t.ends = ends

\* Digits, and a letter that says what they are for: I shows a sprite, S sets
\* the size to that of its last digit (it has one), any other does nothing.
SignMeans(t) ==
  LET n == Len(t.bytes) IN
  /\ n >= 2 /\ t.bytes[n] \notin DOMAIN Digits
  /\ \A k \in 2..(n - 1) : t.bytes[k] \in DOMAIN Digits
  /\ \/ t.bytes[n] = "S" /\ n >= 3 /\ Means(t, 0, Digits[t.bytes[n - 1]], FALSE)
     \/ t.bytes[n] = "I" /\ Means(t, 1, 0, FALSE)
     \/ t.bytes[n] \notin {"S", "I"} /\ Means(t, 0, 0, FALSE)

Whole(t) ==
  LET first == t.bytes[1]
      n == Len(t.bytes)
  IN  \/ n = 1 /\ first \in NarrowBytes /\ Means(t, 1, 0, FALSE)
      \/ n = 1 /\ first = "06" /\ Means(t, 0, 0, FALSE)
      \/ n = 1 /\ first = "newline" /\ Means(t, 0, 0, TRUE)
      \/ n = 2 /\ first = "lead" /\ Means(t, PairWidth, 0, FALSE)
      \/ n = 2 /\ first = "color" /\ Means(t, 0, 0, FALSE)
      \/ n = 3 /\ first = "item" /\ Means(t, ItemWidth + 1, 0, FALSE)
      \/ first = "#" /\ SignMeans(t)

\* A code that has lost its end means nothing.
BrokenOff(t) ==
  LET first == t.bytes[1]
      n == Len(t.bytes)
  IN  /\ Means(t, 0, 0, FALSE)
      /\ \/ n = 1 /\ first \in {"lead", "color"}
         \/ n \in 1..2 /\ first = "item"
         \/ n >= 1 /\ first = "#" /\ \A k \in 2..n : t.bytes[k] \in DOMAIN Digits

ASSUME DialogAssumption ==
  /\ {MaxTokens, FirstSize, ItemWidth, PairWidth} \subseteq Nat
  /\ \A t \in Tokens \cup Unfinished : t.bytes \in Seq(STRING)
  /\ \A t \in Tokens : Whole(t)
  /\ \A t \in Unfinished : BrokenOff(t)

-----------------------------------------------------------------------------
(* The bytes of the text, one token behind the other, and a terminator.    *)

Bytes == UNION {{i} \X DOMAIN tokens[i].bytes : i \in DOMAIN tokens}
Start(i) == 1 + Cardinality({b \in Bytes : b[1] < i})
Length == Start(Len(tokens) + 1)

Text(p) ==
  IF p = Length THEN "NUL"
  ELSE LET b == CHOOSE b \in Bytes : Start(b[1]) + b[2] - 1 = p
       IN  tokens[b[1]].bytes[b[2]]

DialogInit ==
  /\ tokens \in {ts \o <<last>> : ts \in SeqOf(Tokens, MaxTokens), last \in Tokens \cup Unfinished}
  /\ pos = 1
  /\ currentTextWidth = FirstSize /\ currentWidth = 0 /\ longestWidth = 0
  /\ reading = "text"

-----------------------------------------------------------------------------
(* The rounds of the loop, by the byte they find.                          *)

Finds(bytes) == reading = "text" /\ pos <= Length /\ Text(pos) \in bytes

\* The round adds units to the line and goes on with the n-th byte from here.
Adds(units, n) ==
  /\ currentWidth' = currentWidth + units * currentTextWidth
  /\ pos' = pos + n
  /\ UNCHANGED <<tokens, currentTextWidth, longestWidth, reading>>

Narrow == Finds(NarrowBytes) /\ Adds(1, 1)

\* Mutant: the second byte is measured as well.
PairByBytes == Finds({"lead"}) /\ Adds(PairWidth, 1)

Pair == Finds({"lead"}) /\ Adds(PairWidth, 2)

\* The name of the item and its icon; its number has two bytes, of any value.
Item == Finds({"item"}) /\ Adds(ItemWidth + 1, 3)

Unknown06 == Finds({"06"}) /\ Adds(0, 1)
Color == Finds({"color"}) /\ Adds(0, 2)

\* The digits are skipped, and so is the letter, whatever it is.
NumberSign ==
  LET letter == Min({p \in (pos + 1)..Length : Text(p) \notin DOMAIN Digits}) IN
  /\ Finds({"#"})
  /\ currentTextWidth' = IF Text(letter) = "S" THEN Digits[Text(letter - 1)]
                         ELSE currentTextWidth
  /\ currentWidth' = currentWidth + IF Text(letter) = "I" THEN currentTextWidth ELSE 0
  /\ pos' = letter + 1
  /\ UNCHANGED <<tokens, longestWidth, reading>>

\* Control characters end a line, the terminator the last one.
EndOfLine ==
  /\ Finds({"newline", "NUL"})
  /\ longestWidth' = Max({currentWidth, longestWidth})
  /\ IF Text(pos) = "NUL"
     THEN reading' = "returned" /\ UNCHANGED <<pos, currentWidth>>
     ELSE pos' = pos + 1 /\ currentWidth' = 0 /\ UNCHANGED reading
  /\ UNCHANGED <<tokens, currentTextWidth>>

\* What follows the terminator is not part of the text.
Beyond ==
  /\ reading = "text" /\ pos > Length
  /\ reading' = "beyond"
  /\ UNCHANGED <<tokens, pos, currentTextWidth, currentWidth, longestWidth>>

DialogNext ==
  Narrow \/ Pair \/ Item \/ Unknown06 \/ Color \/ NumberSign \/ EndOfLine \/ Beyond

DialogSpec == DialogInit /\ [][DialogNext]_dialogVars

-----------------------------------------------------------------------------
(* The widest line, by what the tokens mean.                               *)

\* The size of the characters of a token, set by the last before it that sets one.
SizeAt(i) ==
  LET setters == {j \in 1..(i - 1) : tokens[j].size # 0}
  IN  IF setters = {} THEN FirstSize ELSE tokens[Max(setters)].size

LineOf(i) == Cardinality({j \in 1..(i - 1) : tokens[j].ends})

\* The columns of a line, one token beside the other.
Columns(l) ==
  UNION {{i} \X (1..(tokens[i].adds * SizeAt(i))) : i \in {j \in DOMAIN tokens : LineOf(j) = l}}

Widest == Max({Cardinality(Columns(l)) : l \in 0..Len(tokens)})

\* The loop never loses its place: whatever bytes the codes hold, also those
\* of a terminator or of another code, it returns the width of the widest line;
\* and it leaves the text exactly when the text breaks off inside a code.
WidestOrBeyondUnfinished ==
  /\ reading = "returned" => Last(tokens) \in Tokens /\ longestWidth = Widest
  /\ reading = "beyond" => Last(tokens) \in Unfinished
=============================================================================
