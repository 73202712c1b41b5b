------------------------------- MODULE MCGame -------------------------------
(***************************************************************************)
(* Hooks on the running game that share no state with each other: the two  *)
(* performance patches, the texts and the width of a window.  A behaviour  *)
(* is one of any of them, and the others stay as they begin.               *)
(***************************************************************************)
EXTENDS GpuClock, CpuBoost, TextHooks, DialogWidth

VARIABLE part  \* which of the four moves

gameVars == <<vars, boostVars, textVars, dialogVars, part>>

-----------------------------------------------------------------------------
(* The texts of windows.  An item has the byte of a terminator and that of *)
(* another code in its number, a color the one of a terminator.            *)

Token(bytes, adds, size, ends) == [bytes |-> bytes, adds |-> adds, size |-> size, ends |-> ends]

MCTokens == {
  Token(<<"a">>, 1, 0, FALSE), Token(<<"lead", "S">>, PairWidth, 0, FALSE),
  Token(<<"item", "NUL", "#">>, ItemWidth + 1, 0, FALSE),
  Token(<<"06">>, 0, 0, FALSE), Token(<<"color", "NUL">>, 0, 0, FALSE),
  Token(<<"#", "1", "S">>, 0, 1, FALSE), Token(<<"#", "2", "I">>, 1, 0, FALSE),
  Token(<<"#", "1", "2", "a">>, 0, 0, FALSE), Token(<<"newline">>, 0, 0, TRUE)}

MCUnfinished ==
  {Token(bytes, 0, 0, FALSE) :
     bytes \in {<<"lead">>, <<"item">>, <<"item", "#">>, <<"color">>, <<"#">>, <<"#", "1">>}}

-----------------------------------------------------------------------------
GameInit ==
  /\ Init /\ BoostInit /\ TextInit /\ DialogInit
  /\ part \in {"clock", "boost", "text", "dialog"}
  /\ part # "dialog" => tokens = <<CHOOSE t \in Tokens : t.ends>>

ClockStep == part = "clock" /\ Next /\ UNCHANGED <<boostVars, textVars, dialogVars, part>>
BoostStep == part = "boost" /\ BoostNext /\ UNCHANGED <<vars, textVars, dialogVars, part>>
TextHookStep == part = "text" /\ TextNext /\ UNCHANGED <<vars, boostVars, dialogVars, part>>
DialogStep == part = "dialog" /\ DialogNext /\ UNCHANGED <<vars, boostVars, textVars, part>>

\* The game goes on rendering.
GameSpec ==
  /\ GameInit
  /\ [][ClockStep \/ BoostStep \/ TextHookStep \/ DialogStep]_gameVars
  /\ WF_gameVars(ClockStep /\ RenderTexture)
=============================================================================
