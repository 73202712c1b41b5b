----------------------------- MODULE HookLinks -----------------------------
(***************************************************************************)
(* The chains of HookChain as the hooks see them: every function knows its *)
(* newest replacement, and every replacement that calls its `_original`    *)
(* the one that was the newest when it was installed.  That link is set    *)
(* once, in the step that installs the replacement, so a call that has     *)
(* entered a function finds behind a replacement what was there before it. *)
(***************************************************************************)
CONSTANTS Functions,      \* the game functions that can be hooked
          Hooks,          \* the replacements
          Symbol,         \* Symbol[h]: the function that h replaces
          CallsOriginal,  \* the replacements that call their `_original`
          Callers,        \* the threads of the game
          NoFunction,     \* the value of target for a thread that is not calling
          Body,           \* stands for the body of a function
          Nothing         \* no replacement and no body

VARIABLES newest,     \* newest[f]: what a call of f runs first
          older,      \* older[h]: what the `_original` of h runs
          installed,  \* the replacements that have been installed
          target,     \* target[c]: the function c has called and not yet entered
          running     \* running[c]: what c is to run next in the call it is in

vars == <<newest, older, installed, target, running>>

Init ==
  /\ newest = [f \in Functions |-> Body]
  /\ older = [h \in Hooks |-> Nothing]
  /\ installed = {}
  /\ target = [c \in Callers |-> NoFunction]
  /\ running = [c \in Callers |-> Nothing]

Install(h) ==
  /\ h \notin installed
  /\ installed' = installed \cup {h}
  /\ newest' = [newest EXCEPT ![Symbol[h]] = h]
  /\ older' = [older EXCEPT ![h] = IF h \in CallsOriginal THEN newest[Symbol[h]] ELSE Nothing]
  /\ UNCHANGED <<target, running>>

Call(c, f) ==
  /\ target[c] = NoFunction /\ running[c] = Nothing
  /\ target' = [target EXCEPT ![c] = f]
  /\ UNCHANGED <<newest, older, installed, running>>

Enter(c) ==
  /\ target[c] # NoFunction
  /\ running' = [running EXCEPT ![c] = newest[target[c]]]
  /\ target' = [target EXCEPT ![c] = NoFunction]
  /\ UNCHANGED <<newest, older, installed>>

Run(c) ==
  /\ running[c] # Nothing
  /\ running' = [running EXCEPT ![c] = IF @ \in Hooks THEN older[@] ELSE Nothing]
  /\ UNCHANGED <<newest, older, installed, target>>

Next ==
  \/ \E h \in Hooks : Install(h)
  \/ \E c \in Callers : Enter(c) \/ Run(c) \/ \E f \in Functions : Call(c, f)

Spec == Init /\ [][Next]_vars
=============================================================================
