---------------------------- MODULE HookLinking -----------------------------
(***************************************************************************)
(* HookEngine implements HookLinks where nothing can fault: the patches    *)
(* are single stores and the JIT buffer is of type JitMemory.  The links   *)
(* are the words at the entries and the contents of the trampolines.       *)
(***************************************************************************)
EXTENDS HookEngine

CONSTANTS Body, Nothing

ASSUME LinkAssumption == Body \notin Hooks /\ Nothing \notin Hooks /\ Body # Nothing

\* What the copied or patched instructions lead to.
LeadsTo(x) == IF x \in Hooks THEN x ELSE Body

newest == [f \in Functions |-> LeadsTo(entry[f])]

\* A hook is installed in the step that patches its function.
installed ==
  {h \in requested : \A i \in Installers :
     job[i] = h => ipc[i] \in {"idle", "toExecutable", "unlock"}}

older == [h \in Hooks |->
  IF h \in installed /\ h \in CallsOriginal THEN LeadsTo(trampoline[original[h]]) ELSE Nothing]

target == [c \in Callers |-> IF cpc[c] = "entry" THEN callee[c] ELSE NoFunction]

\* A caller on its way through a trampoline is about to run what that leads to.
running == [c \in Callers |->
  CASE cpc[c] = "replacement"          -> at[c]
    [] cpc[c] = "trampoline"           -> LeadsTo(trampoline[original[at[c]]])
    [] cpc[c] \in {"prologue", "body"} -> Body
    [] OTHER                           -> Nothing]

Links == INSTANCE HookLinks

\* Every installation takes effect in one step, that of its patch, and from then on
\* nothing changes what the `_original` of its hook leads to: not the slots that are
\* handed out later, nor what is copied into them, nor the patches of other hooks on
\* the same function.
ImplementsHookLinks == Links!Spec
=============================================================================
