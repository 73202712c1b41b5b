---------------------------- MODULE MCHookEngine ----------------------------
(* Two threads install three hooks, two of them on one function, while two *)
(* others call.                                                            *)
EXTENDS HookRefinement, TLC

CONSTANTS f1, f2, h1, h2, h3

MCFunctions == {f1, f2}
MCHooks == {h1, h2, h3}
MCSymbol == (h1 :> f1) @@ (h2 :> f1) @@ (h3 :> f2)
=============================================================================
