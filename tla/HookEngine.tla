----------------------------- MODULE HookEngine -----------------------------
(***************************************************************************)
(* The inline hook engine of source/skyline/inlinehook/And64InlineHook.cpp *)
(* and the game threads that run through what it has patched.              *)
(*                                                                         *)
(* A64HookFunction(symbol, replace, &original) makes `symbol` jump to      *)
(* `replace` and leaves in `original` a trampoline: the instructions that  *)
(* the jump overwrote, relocated, and a jump back behind them.  The        *)
(* trampolines are slots of one JIT buffer that is made writable for each  *)
(* installation and executable again after it.  Installers serialise on    *)
(* hookMutex; the threads that call the functions take no lock.            *)
(*                                                                         *)
(* The instructions at the entry of a function are abstracted to whether   *)
(* they are the game's own or jump to a hook's replacement.  A function is *)
(* `far' when its replacements lie out of the reach of one B instruction:  *)
(* it is patched with several stores instead of one.                       *)
(***************************************************************************)
EXTENDS Integers, FiniteSets

CONSTANTS
  Functions,      \* the functions that can be hooked
  Hooks,          \* the replacements; each is installed at most once
  Symbol,         \* Symbol[h]: the function that h replaces
  Far,            \* the functions out of reach of a B instruction
  WithResult,     \* the hooks installed with result # NULL
  CallsOriginal,  \* the hooks that call their `_original`
  Installers,     \* the threads that call A64HookFunction
  Callers,        \* the threads that call the functions
  CodeMemory,     \* TRUE if the JIT buffer is of type JitType_CodeMemory
  MaxBackups,     \* A64_MAX_BACKUPS, the number of trampoline slots
  NoOne, NoHook, NoFunction, Null, Game, Empty

ASSUME HookAssumption ==
  /\ Symbol \in [Hooks -> Functions]
  /\ Far \subseteq Functions
  /\ WithResult \subseteq Hooks
  /\ CallsOriginal \subseteq WithResult
  /\ CodeMemory \in BOOLEAN

\* ed7hook installs fewer hooks than there are slots; the engine does not
\* check it.
ASSUME SlotAssumption ==
  /\ IsFiniteSet(Hooks)
  /\ MaxBackups \in Nat
  /\ Cardinality(Hooks) <= MaxBackups

ASSUME DistinctAssumption ==
  /\ NoOne \notin Installers
  /\ NoHook \notin Hooks
  /\ NoFunction \notin Functions
  /\ Null \notin Int
  /\ Game \notin Hooks /\ Empty \notin Hooks /\ Game # Empty

VARIABLES
  hookMutex,     \* the installer that owns hookMutex, or NoOne
  isExecutable,  \* __insns_jit.is_executable
  index,         \* __index, the last slot handed out
  original,      \* original[h]: the slot written through result, or Null
  trampoline,    \* trampoline[s]: where the copied instructions of s lead
  entry,         \* entry[f]: Game, or the hook that f jumps to
  torn,          \* torn[f]: some but not all words of a far patch are stored
  requested,     \* the hooks for which A64HookFunction has been called
  ipc, job,      \* the step an installer is at, and the hook it installs
  cpc, callee,   \* the step a caller is at, and the function it has called
  at,            \* the hook whose replacement a caller runs
  raced,         \* raced[c]: an installation overlapped the call of c
  aborted        \* R_ERRORONFAIL has stopped the process

jitVars    == <<isExecutable, index, original, trampoline>>
codeVars   == <<entry, torn>>
workVars   == <<ipc, job, requested>>
callVars   == <<cpc, callee, at>>
vars == <<hookMutex, jitVars, codeVars, workVars, callVars, raced, aborted>>

Slots == 0..(MaxBackups - 1)

InstallerSteps == {"idle", "lock", "toWritable", "allocate", "fix", "patch",
                   "patchRest", "toExecutable", "unlock"}
CallerSteps == {"out", "entry", "prologue", "replacement", "trampoline",
                "body", "fault"}

Init ==
  /\ hookMutex = NoOne
  /\ isExecutable = TRUE                     \* A64HookInit leaves it so
  /\ index = -1
  /\ original = [h \in Hooks |-> Null]
  /\ trampoline = [s \in Slots |-> Empty]
  /\ entry = [f \in Functions |-> Game]
  /\ torn = [f \in Functions |-> FALSE]
  /\ requested = {}
  /\ ipc = [i \in Installers |-> "idle"]
  /\ job = [i \in Installers |-> NoHook]
  /\ cpc = [c \in Callers |-> "out"]
  /\ callee = [c \in Callers |-> NoFunction]
  /\ at = [c \in Callers |-> NoHook]
  /\ raced = [c \in Callers |-> FALSE]
  /\ aborted = FALSE

-----------------------------------------------------------------------------
(* A64HookFunction, one action per step of the code.                       *)

Goto(i, step) == ipc' = [ipc EXCEPT ![i] = step] /\ UNCHANGED <<job, requested>>

\* A thread calls A64HookFunction for a hook that was not installed before.
StartHook(i, h) ==
  /\ ipc[i] = "idle"
  /\ h \notin requested
  /\ requested' = requested \cup {h}
  /\ job' = [job EXCEPT ![i] = h]
  /\ ipc' = [ipc EXCEPT ![i] = "lock"]
  /\ UNCHANGED <<hookMutex, jitVars, codeVars, callVars, raced, aborted>>

\* Mutant: the mutex is not taken.
LockHookMutexUnlocked(i) ==
  /\ ipc[i] = "lock"
  /\ hookMutex' = i
  /\ raced' = [c \in Callers |-> TRUE]
  /\ Goto(i, "toWritable")
  /\ UNCHANGED <<jitVars, codeVars, callVars, aborted>>

\* LockMutex.  From here on the calls in progress overlap the installation.
LockHookMutex(i) ==
  /\ ipc[i] = "lock"
  /\ hookMutex = NoOne
  /\ hookMutex' = i
  /\ raced' = [c \in Callers |-> TRUE]
  /\ Goto(i, "toWritable")
  /\ UNCHANGED <<jitVars, codeVars, callVars, aborted>>

\* jitTransitionToWritable succeeds.  A JIT buffer of type CodeMemory
\* disappears from rx_addr, and all the trampolines with it.
ToWritable(i) ==
  /\ ipc[i] = "toWritable"
  /\ isExecutable' = FALSE
  /\ Goto(i, IF job[i] \in WithResult THEN "allocate" ELSE "patch")
  /\ UNCHANGED <<hookMutex, index, original, trampoline, codeVars, callVars,
                 raced, aborted>>

\* Mutant: the index is read and not increased.
AllocateTrampolineNoIncrease(i) ==
  /\ ipc[i] = "allocate"
  /\ original' = [original EXCEPT ![job[i]] = index + 1]
  /\ Goto(i, "fix")
  /\ UNCHANGED <<index, hookMutex, isExecutable, trampoline, codeVars, callVars,
                 raced, aborted>>

\* FastAllocateTrampoline and the store to *result.  The index is not
\* compared with A64_MAX_BACKUPS.
AllocateTrampoline(i) ==
  /\ ipc[i] = "allocate"
  /\ index' = index + 1
  /\ original' = [original EXCEPT ![job[i]] = index']
  /\ Goto(i, "fix")
  /\ UNCHANGED <<hookMutex, isExecutable, trampoline, codeVars, callVars,
                 raced, aborted>>

\* Mutant: the entry is copied after the patch, so the trampoline of a hook
\* leads back to its own replacement.
FixInstructionsLate(i) ==
  /\ ipc[i] = "fix"
  /\ trampoline' = [trampoline EXCEPT ![original[job[i]]] = job[i]]
  /\ Goto(i, "patch")
  /\ UNCHANGED <<hookMutex, isExecutable, index, original, codeVars, callVars,
                 raced, aborted>>

\* Mutant: nothing is copied to the trampoline.
FixInstructionsNothing(i) ==
  /\ ipc[i] = "fix"
  /\ Goto(i, "patch")
  /\ UNCHANGED <<hookMutex, jitVars, codeVars, callVars, raced, aborted>>

\* __fix_instructions copies the entry of the function: a jump that an
\* earlier installation left there becomes an absolute one to the same hook.
FixInstructions(i) ==
  /\ ipc[i] = "fix"
  /\ trampoline' = [trampoline EXCEPT ![original[job[i]]] = entry[Symbol[job[i]]]]
  /\ Goto(i, "patch")
  /\ UNCHANGED <<hookMutex, isExecutable, index, original, codeVars, callVars,
                 raced, aborted>>

\* The function is within reach: one compare-and-swap of its first word.
PatchNear(i) ==
  /\ ipc[i] = "patch"
  /\ Symbol[job[i]] \notin Far
  /\ entry' = [entry EXCEPT ![Symbol[job[i]]] = job[i]]
  /\ Goto(i, "toExecutable")
  /\ UNCHANGED <<hookMutex, jitVars, torn, callVars, raced, aborted>>

\* The first words of a far patch, NOP, LDR X17, BR X17.  Over an earlier far
\* patch these stores change nothing: the same words are already there.
PatchFarWords(i) ==
  /\ ipc[i] = "patch"
  /\ Symbol[job[i]] \in Far
  /\ torn' = [torn EXCEPT ![Symbol[job[i]]] = (entry[Symbol[job[i]]] = Game)]
  /\ Goto(i, "patchRest")
  /\ UNCHANGED <<hookMutex, jitVars, entry, callVars, raced, aborted>>

\* The aligned eight-byte store of the address of the replacement.
PatchFarAddress(i) ==
  /\ ipc[i] = "patchRest"
  /\ entry' = [entry EXCEPT ![Symbol[job[i]]] = job[i]]
  /\ torn' = [torn EXCEPT ![Symbol[job[i]]] = FALSE]
  /\ Goto(i, "toExecutable")
  /\ UNCHANGED <<hookMutex, jitVars, callVars, raced, aborted>>

\* Mutant: the buffer stays writable.
ToExecutableForgotten(i) ==
  /\ ipc[i] = "toExecutable"
  /\ Goto(i, "unlock")
  /\ UNCHANGED <<hookMutex, jitVars, codeVars, callVars, raced, aborted>>

\* jitTransitionToExecutable succeeds.
ToExecutable(i) ==
  /\ ipc[i] = "toExecutable"
  /\ isExecutable' = TRUE
  /\ Goto(i, "unlock")
  /\ UNCHANGED <<hookMutex, index, original, trampoline, codeVars, callVars,
                 raced, aborted>>

\* Mutant: an early return leaves the mutex locked.
UnlockHookMutexForgotten(i) ==
  /\ ipc[i] = "unlock"
  /\ ipc' = [ipc EXCEPT ![i] = "idle"]
  /\ job' = [job EXCEPT ![i] = NoHook]
  /\ UNCHANGED <<hookMutex, requested, jitVars, codeVars, callVars, raced, aborted>>

\* UnlockMutex, and A64HookFunction returns.
UnlockHookMutex(i) ==
  /\ ipc[i] = "unlock"
  /\ hookMutex' = NoOne
  /\ ipc' = [ipc EXCEPT ![i] = "idle"]
  /\ job' = [job EXCEPT ![i] = NoHook]
  /\ UNCHANGED <<requested, jitVars, codeVars, callVars, raced, aborted>>

\* The kernel refuses a transition of the buffer or a mapping that
\* ControlledPages asks for: R_ERRORONFAIL stops the process.
Abort(i) ==
  /\ ipc[i] \in {"toWritable", "fix", "patch", "toExecutable"}
  /\ aborted' = TRUE
  /\ UNCHANGED <<hookMutex, jitVars, codeVars, workVars, callVars, raced>>

InstallerStep(i) ==
  \/ LockHookMutex(i)      \/ ToWritable(i)    \/ AllocateTrampoline(i)
  \/ FixInstructions(i)    \/ PatchNear(i)     \/ PatchFarWords(i)
  \/ PatchFarAddress(i)    \/ ToExecutable(i)  \/ UnlockHookMutex(i)

-----------------------------------------------------------------------------
(* A thread of the game that calls a function.                             *)

\* A caller goes to a step and leaves everything but its own state alone.
Moves(c, step, hook) ==
  /\ cpc' = [cpc EXCEPT ![c] = step]
  /\ at' = [at EXCEPT ![c] = hook]
  /\ UNCHANGED <<hookMutex, jitVars, codeVars, workVars, aborted>>

Call(c, f) ==
  /\ cpc[c] = "out"
  /\ callee' = [callee EXCEPT ![c] = f]
  /\ raced' = [raced EXCEPT ![c] = hookMutex # NoOne]
  /\ Moves(c, "entry", NoHook)

\* The caller fetches the first word of the function.  In a half-written far
\* patch it may run the game's instructions or anything else.
Enter(c) ==
  /\ cpc[c] = "entry"
  /\ \/ /\ entry[callee[c]] \in Hooks
        /\ Moves(c, "replacement", entry[callee[c]])
     \/ /\ entry[callee[c]] = Game
        /\ Moves(c, IF callee[c] \in Far THEN "prologue" ELSE "body", NoHook)
     \/ torn[callee[c]] /\ Moves(c, "fault", NoHook)
  /\ UNCHANGED <<callee, raced>>

\* The caller executes the other words that a far patch overwrites.
Prologue(c) ==
  /\ cpc[c] = "prologue"
  /\ \/ Moves(c, "body", NoHook)
     \/ /\ torn[callee[c]] \/ entry[callee[c]] # Game
        /\ Moves(c, "fault", NoHook)
  /\ UNCHANGED <<callee, raced>>

\* The replacement runs and calls its `_original`, or returns without it.
RunReplacement(c) ==
  /\ cpc[c] = "replacement"
  /\ IF at[c] \in CallsOriginal THEN Moves(c, "trampoline", at[c])
                                ELSE Moves(c, "out", NoHook)
  /\ UNCHANGED <<callee, raced>>

\* Whether the processor can fetch instructions from a slot.
Fetchable(s) ==
  /\ s \in Slots
  /\ trampoline[s] # Empty
  /\ isExecutable \/ ~CodeMemory

\* The caller branches to `_original` and runs the copied instructions.
RunTrampoline(c) ==
  /\ cpc[c] = "trampoline"
  /\ LET s == original[at[c]] IN
       \/ ~Fetchable(s) /\ Moves(c, "fault", NoHook)
       \/ /\ Fetchable(s) /\ trampoline[s] = Game
          /\ Moves(c, "body", NoHook)
       \/ /\ Fetchable(s) /\ trampoline[s] \in Hooks
          /\ Moves(c, "replacement", trampoline[s])
  /\ UNCHANGED <<callee, raced>>

RunBody(c) ==
  /\ cpc[c] = "body"
  /\ Moves(c, "out", NoHook)
  /\ UNCHANGED <<callee, raced>>

CallerStep(c) ==
  \/ Enter(c) \/ Prologue(c) \/ RunReplacement(c) \/ RunTrampoline(c) \/ RunBody(c)

-----------------------------------------------------------------------------
Next ==
  /\ ~aborted
  /\ \/ \E i \in Installers :
          InstallerStep(i) \/ Abort(i) \/ \E h \in Hooks : StartHook(i, h)
     \/ \E c \in Callers : CallerStep(c) \/ \E f \in Functions : Call(c, f)

Spec == Init /\ [][Next]_vars

\* The scheduler of the console runs every thread that can run.  Nothing
\* obliges a thread to install a hook or to call a function.
Fairness ==
  /\ \A i \in Installers : WF_vars(~aborted /\ InstallerStep(i))
  /\ \A c \in Callers : WF_vars(~aborted /\ CallerStep(c))

FairSpec == Spec /\ Fairness

-----------------------------------------------------------------------------
TypeOK ==
  /\ hookMutex \in Installers \cup {NoOne}
  /\ isExecutable \in BOOLEAN
  /\ index \in Int /\ index >= -1
  /\ original \in [Hooks -> Nat \cup {Null}]
  /\ trampoline \in [Slots -> Hooks \cup {Game, Empty}]
  /\ entry \in [Functions -> Hooks \cup {Game}]
  /\ torn \in [Functions -> BOOLEAN]
  /\ requested \subseteq Hooks
  /\ ipc \in [Installers -> InstallerSteps]
  /\ job \in [Installers -> Hooks \cup {NoHook}]
  /\ cpc \in [Callers -> CallerSteps]
  /\ callee \in [Callers -> Functions \cup {NoFunction}]
  /\ at \in [Callers -> Hooks \cup {NoHook}]
  /\ raced \in [Callers -> BOOLEAN]
  /\ aborted \in BOOLEAN

\* A call can go wrong only if an installation overlapped it, and even then
\* only through a trampoline that CodeMemory has unmapped or a patch of several
\* words: `*result` and the trampoline are complete before the function jumps
\* to the replacement (A64HookFunction, A64HookFunctionV).
FaultOnlyDuringInstall ==
  \A c \in Callers :
    cpc[c] = "fault" => raced[c] /\ (CodeMemory \/ callee[c] \in Far)

\* When no one is installing, the engine is at rest: the trampolines can be
\* executed and every function has a whole instruction at its entry
\* (A64HookFunction restores both before UnlockMutex).
AtRest ==
  hookMutex = NoOne => isExecutable /\ \A f \in Functions : ~torn[f]

\* Two hooks never share a trampoline, and no slot lies outside the buffer
\* (FastAllocateTrampoline).
OwnTrampolines ==
  \A h \in Hooks : original[h] # Null =>
    /\ original[h] \in Slots
    /\ \A g \in Hooks \ {h} : original[g] # original[h]

\* Every call of A64HookFunction returns, unless the process is aborted.
InstallsReturn ==
  \A i \in Installers : (ipc[i] # "idle") ~> (ipc[i] = "idle" \/ aborted)

\* Every call of a hooked function returns or faults: the chain through the
\* trampolines ends in the game's code and is never a cycle.
CallsEnd ==
  \A c \in Callers : (cpc[c] = "entry") ~> (cpc[c] \in {"out", "fault"} \/ aborted)
=============================================================================
