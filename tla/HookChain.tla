----------------------------- MODULE HookChain -----------------------------
(***************************************************************************)
(* What the hook engine promises the patches of ed7hook.                   *)
(*                                                                         *)
(* Every hookable function has a chain of replacements, newest first.      *)
(* Installing a hook puts it in front of the chain in one step.  A call    *)
(* fixes what it will run at the moment it enters the function: the        *)
(* replacements of the chain in order, as long as each one calls its       *)
(* `_original`, and behind the last of them the function's own body.       *)
(* Nothing that happens after that moment changes the call.                *)
(***************************************************************************)
EXTENDS Sequences

CONSTANTS Functions,      \* the game functions that can be hooked
          Hooks,          \* the replacements
          Symbol,         \* Symbol[h]: the function that h replaces
          CallsOriginal,  \* the replacements that call their `_original`
          Callers,        \* the threads of the game
          NoFunction,     \* the value of target for a thread that is not calling
          Body            \* stands for the body of the function

VARIABLES chain,    \* chain[f]: the hooks installed on f, newest first
          target,   \* target[c]: the function c has called and not yet entered
          pending   \* pending[c]: what is still to run of the call that c is in

vars == <<chain, target, pending>>

\* What a call runs when it enters a function with chain s.  A hook that does
\* not call its `_original` can only be the last one of a chain.
Outcome(s) ==
  IF s # <<>> /\ s[Len(s)] \notin CallsOriginal THEN s ELSE Append(s, Body)

Init ==
  /\ chain = [f \in Functions |-> <<>>]
  /\ target = [c \in Callers |-> NoFunction]
  /\ pending = [c \in Callers |-> <<>>]

\* A replacement that does not call its `_original` hides the older ones.
Install(h) ==
  /\ chain' = [chain EXCEPT ![Symbol[h]] =
                 <<h>> \o IF h \in CallsOriginal THEN @ ELSE <<>>]
  /\ UNCHANGED <<target, pending>>

Call(c, f) ==
  /\ target[c] = NoFunction
  /\ pending[c] = <<>>
  /\ target' = [target EXCEPT ![c] = f]
  /\ UNCHANGED <<chain, pending>>

Enter(c) ==
  /\ target[c] # NoFunction
  /\ pending' = [pending EXCEPT ![c] = Outcome(chain[target[c]])]
  /\ target' = [target EXCEPT ![c] = NoFunction]
  /\ UNCHANGED chain

Run(c) ==
  /\ pending[c] # <<>>
  /\ pending' = [pending EXCEPT ![c] = Tail(@)]
  /\ UNCHANGED <<chain, target>>

Next ==
  \/ \E h \in Hooks : Install(h)
  \/ \E c \in Callers : Enter(c) \/ Run(c) \/ \E f \in Functions : Call(c, f)

Spec == Init /\ [][Next]_vars
=============================================================================
