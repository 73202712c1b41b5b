--------------------------- MODULE HookRefinement ---------------------------
(***************************************************************************)
(* HookEngine implements HookChain where nothing can fault: the patches    *)
(* are single stores and the JIT buffer is of type JitMemory.  The chain   *)
(* of a function is read off the words at its entry and the trampolines.   *)
(***************************************************************************)
EXTENDS HookLinking, Sequences

\* The hooks reached from x, an entry or the content of a trampoline.
RECURSIVE ChainFrom(_)
ChainFrom(x) ==
  IF x \notin Hooks THEN <<>>
  ELSE <<x>> \o IF x \in CallsOriginal THEN ChainFrom(trampoline[original[x]])
                                       ELSE <<>>

chain == [f \in Functions |-> ChainFrom(entry[f])]

\* What remains of a call is what the pointers say when they are followed
\* now, from the place the caller has reached.
pending ==
  LET Rest(x) == ChainFrom(x)
      Ends(s) == IF s # <<>> /\ s[Len(s)] \notin CallsOriginal THEN s
                 ELSE Append(s, Body)
  IN [c \in Callers |->
        CASE cpc[c] = "replacement" -> Ends(Rest(at[c]))
          [] cpc[c] = "trampoline" -> Tail(Ends(Rest(at[c])))
          [] cpc[c] \in {"prologue", "body"} -> <<Body>>
          [] OTHER -> <<>>]

Abstract == INSTANCE HookChain

\* The engine behaves like the chain of hooks: an installation takes effect at
\* once for the calls that enter later, and no call in progress notices it.
ImplementsHookChain == Abstract!Spec
=============================================================================
