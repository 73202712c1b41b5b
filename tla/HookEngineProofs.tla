-------------------------- MODULE HookEngineProofs --------------------------
(***************************************************************************)
(* For every set of functions, hooks, installers and callers: the types    *)
(* are respected, a call faults only when an installation overlaps it, the *)
(* engine is at rest when no one holds the mutex, and every hook has a     *)
(* trampoline of its own inside the buffer.  Where nothing can fault, the  *)
(* engine implements HookLinks.                                            *)
(***************************************************************************)
EXTENDS HookLinking, FiniteSetTheorems, TLAPS

\* The steps at which an installer owns hookMutex.
Owning == InstallerSteps \ {"idle", "lock"}

\* The steps that an installer takes after *result has been written, and
\* those after the trampoline has been filled.
Allocated == {"fix", "patch", "patchRest", "toExecutable", "unlock"}
Filled == Allocated \ {"fix"}

\* Exactly the installers that own the mutex are inside A64HookFunction.
MutexInv ==
  \A i \in Installers : ipc[i] \in Owning <=> hookMutex = i

\* Each installer in A64HookFunction works on a hook of its own.
JobInv ==
  /\ \A i \in Installers : ipc[i] # "idle" => job[i] \in requested
  /\ \A i, j \in Installers :
       i # j /\ ipc[i] # "idle" /\ ipc[j] # "idle" => job[i] # job[j]

\* The buffer is executable, and only the patch in progress is torn, unless
\* the owner of the mutex is between its two transitions.
RestInv ==
  /\ hookMutex = NoOne => isExecutable
  /\ \A i \in Installers : ipc[i] = "unlock" => isExecutable
  /\ \A f \in Functions : torn[f] =>
       f \in Far /\ \E i \in Installers : ipc[i] = "patchRest" /\ Symbol[job[i]] = f
  /\ \A i \in Installers : ipc[i] = "patchRest" => Symbol[job[i]] \in Far

\* A hook that jumps through its `_original` finds a filled slot there.
Usable(h) ==
  h \in WithResult => original[h] \in Slots /\ trampoline[original[h]] # Empty

\* A hook is not referred to before A64HookFunction patches its function.
Unpatched(h) ==
  \/ h \notin requested
  \/ \E i \in Installers : job[i] = h /\ ipc[i] \in InstallerSteps \ {"idle", "toExecutable", "unlock"}

\* Every hook that a thread can reach is usable.
ReachInv ==
  /\ \A h \in Hooks : ~ Unpatched(h) => Usable(h)
  /\ \A f \in Functions : entry[f] \in Hooks => ~ Unpatched(entry[f])
  /\ \A s \in Slots : trampoline[s] \in Hooks => ~ Unpatched(trampoline[s])
  /\ \A c \in Callers : at[c] \in Hooks => ~ Unpatched(at[c])
  /\ \A c \in Callers : cpc[c] \in {"replacement", "trampoline"} => at[c] \in Hooks
  /\ \A c \in Callers : cpc[c] # "out" => callee[c] \in Functions
  /\ \A c \in Callers : cpc[c] = "trampoline" => at[c] \in WithResult
  /\ \A i \in Installers : ipc[i] \in Filled => Usable(job[i])

\* The slots handed out are those of the hooks that have passed
\* AllocateTrampoline, one for each.
SlotInv ==
  /\ index + 1 = Cardinality({h \in Hooks : original[h] # Null})
  /\ \A h \in Hooks : original[h] # Null => original[h] <= index
  /\ \A g, h \in Hooks : g # h /\ original[g] # Null => original[g] # original[h]
  /\ \A h \in Hooks : original[h] # Null => h \in requested
  /\ \A i \in Installers : ipc[i] \in {"lock", "toWritable", "allocate"} =>
       original[job[i]] = Null
  /\ \A i \in Installers :
       /\ ipc[i] = "allocate" => job[i] \in WithResult
       /\ ipc[i] = "fix" => original[job[i]] # Null

\* What a caller meets after an installation has overlapped its call.
RaceInv ==
  /\ \A c \in Callers : hookMutex # NoOne => raced[c] \/ cpc[c] = "out"
  /\ \A c \in Callers : cpc[c] = "prologue" =>
       callee[c] \in Far /\ (entry[callee[c]] = Game \/ raced[c])

IInv ==
  /\ TypeOK
  /\ MutexInv
  /\ JobInv
  /\ RestInv
  /\ ReachInv
  /\ SlotInv
  /\ RaceInv
  /\ FaultOnlyDuringInstall

-----------------------------------------------------------------------------
LEMMA IInvInit == Init => IInv
<1> SUFFICES ASSUME Init PROVE IInv
  OBVIOUS
<1> USE HookAssumption, SlotAssumption, DistinctAssumption DEF Init
<1>1. TypeOK
  <2>1. hookMutex = NoOne /\ isExecutable \in BOOLEAN /\ index \in Int /\ index >= -1
    OBVIOUS
  <2>2. /\ original \in [Hooks -> Nat \cup {Null}]
        /\ trampoline \in [Slots -> Hooks \cup {Game, Empty}]
        /\ entry \in [Functions -> Hooks \cup {Game}]
        /\ torn \in [Functions -> BOOLEAN]
    OBVIOUS
  <2>3. /\ requested \subseteq Hooks
        /\ ipc \in [Installers -> InstallerSteps]
        /\ job \in [Installers -> Hooks \cup {NoHook}]
    BY DEF InstallerSteps
  <2>4. /\ cpc \in [Callers -> CallerSteps]
        /\ callee \in [Callers -> Functions \cup {NoFunction}]
        /\ at \in [Callers -> Hooks \cup {NoHook}]
        /\ raced \in [Callers -> BOOLEAN] /\ aborted \in BOOLEAN
    BY DEF CallerSteps
  <2> QED
    BY <2>1, <2>2, <2>3, <2>4 DEF TypeOK
<1>2. MutexInv
  BY DEF MutexInv, Owning
<1>3. JobInv
  BY DEF JobInv
<1>4. RestInv
  BY DEF RestInv
<1>5. ReachInv
  BY DEF ReachInv, Unpatched, Usable, Filled, Allocated
<1>6. SlotInv
  <2>1. {h \in Hooks : original[h] # Null} = {}
    OBVIOUS
  <2>2. Cardinality({h \in Hooks : original[h] # Null}) = 0
    BY <2>1, FS_EmptySet
  <2>3. index + 1 = 0
    OBVIOUS
  <2> QED
    BY <2>2, <2>3 DEF SlotInv
<1>7. RaceInv
  BY DEF RaceInv
<1>8. FaultOnlyDuringInstall
  BY DEF FaultOnlyDuringInstall
<1> QED
  BY <1>1, <1>2, <1>3, <1>4, <1>5, <1>6, <1>7, <1>8 DEF IInv

\* No hook has a slot behind the last one handed out, and there are no more
\* slots than hooks.
LEMMA IndexInBuffer == TypeOK /\ SlotInv => index < MaxBackups
<1> SUFFICES ASSUME TypeOK, SlotInv PROVE index < MaxBackups
  OBVIOUS
<1> DEFINE Given == {h \in Hooks : original[h] # Null}
<1>1. Cardinality(Given) <= Cardinality(Hooks) /\ Cardinality(Hooks) \in Nat
  BY SlotAssumption, FS_Subset, FS_CardinalityType
<1>2. index + 1 = Cardinality(Given) /\ index \in Int
  BY DEF SlotInv, TypeOK
<1> QED
  BY <1>1, <1>2, SlotAssumption

LEMMA IInvStep == IInv /\ [Next]_vars => IInv'
<1> SUFFICES ASSUME IInv, [Next]_vars PROVE IInv'
  OBVIOUS
<1> USE HookAssumption, DistinctAssumption DEF IInv
<1>1. ASSUME NEW i \in Installers, NEW h \in Hooks, StartHook(i, h) PROVE IInv'
  <2> USE <1>1 DEF StartHook
  <2>1. TypeOK'
    BY DEF TypeOK, JobInv, InstallerSteps, CallerSteps, vars, jitVars, codeVars, workVars, callVars
  <2>2. MutexInv'
    BY DEF TypeOK, MutexInv, Owning, InstallerSteps, vars, jitVars, codeVars, workVars, callVars
  <2>3. JobInv'
    BY DEF TypeOK, JobInv, vars, jitVars, codeVars, workVars, callVars
  <2>4. RestInv'
    BY DEF TypeOK, MutexInv, JobInv, RestInv, Owning, InstallerSteps, vars, jitVars, codeVars, workVars, callVars
  <2>5. ReachInv'
    BY DEF TypeOK, MutexInv, JobInv, ReachInv, SlotInv, Owning, Allocated, Filled, Usable, Unpatched, InstallerSteps, vars, jitVars, codeVars, workVars, callVars
  <2>6. SlotInv'
    BY DEF TypeOK, JobInv, SlotInv, vars, jitVars, codeVars, workVars, callVars
  <2>7. RaceInv'
    BY DEF TypeOK, MutexInv, RestInv, RaceInv, Owning, InstallerSteps, vars, jitVars, codeVars, workVars, callVars
  <2>8. FaultOnlyDuringInstall'
    BY DEF TypeOK, MutexInv, RestInv, ReachInv, RaceInv, FaultOnlyDuringInstall, Owning, Allocated, Filled, Usable, Unpatched, InstallerSteps, vars, jitVars, codeVars, workVars, callVars
  <2> QED
    BY <2>1, <2>2, <2>3, <2>4, <2>5, <2>6, <2>7, <2>8
<1>2. ASSUME NEW i \in Installers, LockHookMutex(i) PROVE IInv'
  <2> USE <1>2 DEF LockHookMutex, Goto
  <2>1. TypeOK'
    BY DEF TypeOK, JobInv, InstallerSteps, CallerSteps, vars, jitVars, codeVars, workVars, callVars
  <2>2. MutexInv'
    BY DEF TypeOK, MutexInv, Owning, InstallerSteps, vars, jitVars, codeVars, workVars, callVars
  <2>3. JobInv'
    BY DEF TypeOK, JobInv, vars, jitVars, codeVars, workVars, callVars
  <2>4. RestInv'
    BY DEF TypeOK, MutexInv, JobInv, RestInv, Owning, InstallerSteps, vars, jitVars, codeVars, workVars, callVars
  <2>5. ReachInv'
    BY DEF TypeOK, MutexInv, JobInv, ReachInv, SlotInv, Owning, Allocated, Filled, Usable, Unpatched, InstallerSteps, vars, jitVars, codeVars, workVars, callVars
  <2>6. SlotInv'
    BY DEF TypeOK, JobInv, SlotInv, vars, jitVars, codeVars, workVars, callVars
  <2>7. RaceInv'
    BY DEF TypeOK, MutexInv, RestInv, RaceInv, Owning, InstallerSteps, vars, jitVars, codeVars, workVars, callVars
  <2>8. FaultOnlyDuringInstall'
    BY DEF TypeOK, MutexInv, RestInv, ReachInv, RaceInv, FaultOnlyDuringInstall, Owning, Allocated, Filled, Usable, Unpatched, InstallerSteps, vars, jitVars, codeVars, workVars, callVars
  <2> QED
    BY <2>1, <2>2, <2>3, <2>4, <2>5, <2>6, <2>7, <2>8
<1>3. ASSUME NEW i \in Installers, ToWritable(i) PROVE IInv'
  <2> USE <1>3 DEF ToWritable, Goto
  <2>1. TypeOK'
    BY DEF TypeOK, JobInv, InstallerSteps, CallerSteps, vars, jitVars, codeVars, workVars, callVars
  <2>2. MutexInv'
    BY DEF TypeOK, MutexInv, Owning, InstallerSteps, vars, jitVars, codeVars, workVars, callVars
  <2>3. JobInv'
    BY DEF TypeOK, JobInv, vars, jitVars, codeVars, workVars, callVars
  <2>4. RestInv'
    BY DEF TypeOK, MutexInv, JobInv, RestInv, Owning, InstallerSteps, vars, jitVars, codeVars, workVars, callVars
  <2>5. ReachInv'
    BY DEF TypeOK, MutexInv, JobInv, ReachInv, SlotInv, Owning, Allocated, Filled, Usable, Unpatched, InstallerSteps, vars, jitVars, codeVars, workVars, callVars
  <2>6. SlotInv'
    BY DEF TypeOK, JobInv, SlotInv, vars, jitVars, codeVars, workVars, callVars
  <2>7. RaceInv'
    BY DEF TypeOK, MutexInv, RestInv, RaceInv, Owning, InstallerSteps, vars, jitVars, codeVars, workVars, callVars
  <2>8. FaultOnlyDuringInstall'
    BY DEF TypeOK, MutexInv, RestInv, ReachInv, RaceInv, FaultOnlyDuringInstall, Owning, Allocated, Filled, Usable, Unpatched, InstallerSteps, vars, jitVars, codeVars, workVars, callVars
  <2> QED
    BY <2>1, <2>2, <2>3, <2>4, <2>5, <2>6, <2>7, <2>8
<1>4. ASSUME NEW i \in Installers, AllocateTrampoline(i) PROVE IInv'
  <2> USE <1>4 DEF AllocateTrampoline, Goto
  <2>1. TypeOK'
    BY DEF TypeOK, JobInv, InstallerSteps, CallerSteps, vars, jitVars, codeVars, workVars, callVars
  <2>2. MutexInv'
    BY DEF TypeOK, MutexInv, Owning, InstallerSteps, vars, jitVars, codeVars, workVars, callVars
  <2>3. JobInv'
    BY DEF TypeOK, JobInv, vars, jitVars, codeVars, workVars, callVars
  <2>4. RestInv'
    BY DEF TypeOK, MutexInv, JobInv, RestInv, Owning, InstallerSteps, vars, jitVars, codeVars, workVars, callVars
  <2>5. ReachInv'
    BY DEF TypeOK, MutexInv, JobInv, ReachInv, SlotInv, Owning, Allocated, Filled, Usable, Unpatched, InstallerSteps, vars, jitVars, codeVars, workVars, callVars
  <2>6. SlotInv'
    <3> DEFINE Given == {h \in Hooks : original[h] # Null}
    <3>1. /\ job[i] \in Hooks /\ job[i] \in requested
          /\ original[job[i]] = Null
          /\ index \in Int /\ index' = index + 1 /\ index' \in Nat /\ index' # Null
          /\ original \in [Hooks -> Nat \cup {Null}]
          /\ original' = [original EXCEPT ![job[i]] = index']
      BY DEF TypeOK, JobInv, SlotInv
    <3>2. Given' = Given \cup {job[i]} /\ job[i] \notin Given
      BY <3>1
    <3>3. Cardinality(Given') = Cardinality(Given) + 1
      <4>1. IsFiniteSet(Given)
        BY SlotAssumption, FS_Subset
      <4> QED
        BY <3>2, <4>1, FS_AddElement
    <3>4. index' + 1 = Cardinality({h \in Hooks : original[h] # Null})'
      <4>1. index + 1 = Cardinality(Given)
        BY DEF SlotInv
      <4> QED
        BY <3>1, <3>3, <4>1
    <3>5. \A h \in Hooks : original[h] # Null => original[h] \in Nat /\ original[h] <= index
      BY <3>1 DEF SlotInv
    <3>6. \A h \in Hooks : original'[h] # Null => original'[h] <= index'
      BY <3>1, <3>5
    <3>7. \A g, h \in Hooks : g # h /\ original'[g] # Null => original'[g] # original'[h]
      BY <3>1, <3>5 DEF SlotInv
    <3>8. \A h \in Hooks : original'[h] # Null => h \in requested'
      BY <3>1 DEF SlotInv
    <3>9. \A k \in Installers :
            /\ ipc'[k] \in {"lock", "toWritable", "allocate"} => original'[job'[k]] = Null
            /\ ipc'[k] = "allocate" => job'[k] \in WithResult
            /\ ipc'[k] = "fix" => original'[job'[k]] # Null
      BY <3>1 DEF TypeOK, JobInv, SlotInv
    <3> QED
      BY <3>4, <3>6, <3>7, <3>8, <3>9 DEF SlotInv
  <2>7. RaceInv'
    BY DEF TypeOK, MutexInv, RestInv, RaceInv, Owning, InstallerSteps, vars, jitVars, codeVars, workVars, callVars
  <2>8. FaultOnlyDuringInstall'
    BY DEF TypeOK, MutexInv, RestInv, ReachInv, RaceInv, FaultOnlyDuringInstall, Owning, Allocated, Filled, Usable, Unpatched, InstallerSteps, vars, jitVars, codeVars, workVars, callVars
  <2> QED
    BY <2>1, <2>2, <2>3, <2>4, <2>5, <2>6, <2>7, <2>8
<1>5. ASSUME NEW i \in Installers, FixInstructions(i) PROVE IInv'
  <2> USE <1>5 DEF FixInstructions, Goto
  <2>1. TypeOK'
    BY DEF TypeOK, JobInv, InstallerSteps, CallerSteps, vars, jitVars, codeVars, workVars, callVars
  <2>2. MutexInv'
    BY DEF TypeOK, MutexInv, Owning, InstallerSteps, vars, jitVars, codeVars, workVars, callVars
  <2>3. JobInv'
    BY DEF TypeOK, JobInv, vars, jitVars, codeVars, workVars, callVars
  <2>4. RestInv'
    BY DEF TypeOK, MutexInv, JobInv, RestInv, Owning, InstallerSteps, vars, jitVars, codeVars, workVars, callVars
  <2>5. ReachInv'
    <3>1. original[job[i]] \in Slots
      <4>1. job[i] \in Hooks /\ original[job[i]] \in Nat /\ original[job[i]] <= index
        BY DEF TypeOK, JobInv, SlotInv
      <4>2. index < MaxBackups /\ index \in Int /\ MaxBackups \in Nat
        BY IndexInBuffer, SlotAssumption DEF TypeOK
      <4> QED
        BY <4>1, <4>2 DEF Slots
    <3>2. trampoline' = [trampoline EXCEPT ![original[job[i]]] = entry[Symbol[job[i]]]]
          /\ entry[Symbol[job[i]]] \in Hooks \cup {Game} /\ job[i] \in Hooks
      BY DEF TypeOK, JobInv
    <3>3. \A h \in Hooks : Unpatched(h)' <=> Unpatched(h)
      BY DEF TypeOK, Unpatched, InstallerSteps
    <3>4. \A h \in Hooks : Usable(h) => Usable(h)'
      BY <3>1, <3>2 DEF TypeOK, Usable
    <3>5. \A k \in Installers : ipc'[k] \in Filled => Usable(job[k])'
      BY <3>1, <3>2, <3>4 DEF TypeOK, JobInv, ReachInv, Usable, Filled, Allocated
    <3>6. \A s \in Slots : trampoline'[s] \in Hooks => ~ Unpatched(trampoline[s])'
      <4>1. \A s \in Slots : trampoline'[s] \in Hooks => ~ Unpatched(trampoline'[s])
        BY <3>1, <3>2 DEF TypeOK, ReachInv
      <4> QED
        BY <4>1 DEF TypeOK, Unpatched, InstallerSteps
    <3> QED
      BY <3>3, <3>4, <3>5, <3>6 DEF ReachInv, jitVars, codeVars, callVars, TypeOK
  <2>6. SlotInv'
    BY DEF TypeOK, JobInv, SlotInv, vars, jitVars, codeVars, workVars, callVars
  <2>7. RaceInv'
    BY DEF TypeOK, MutexInv, RestInv, RaceInv, Owning, InstallerSteps, vars, jitVars, codeVars, workVars, callVars
  <2>8. FaultOnlyDuringInstall'
    BY DEF TypeOK, MutexInv, RestInv, ReachInv, RaceInv, FaultOnlyDuringInstall, Owning, Allocated, Filled, Usable, Unpatched, InstallerSteps, vars, jitVars, codeVars, workVars, callVars
  <2> QED
    BY <2>1, <2>2, <2>3, <2>4, <2>5, <2>6, <2>7, <2>8
<1>6. ASSUME NEW i \in Installers, PatchNear(i) PROVE IInv'
  <2> USE <1>6 DEF PatchNear, Goto
  <2>1. TypeOK'
    BY DEF TypeOK, JobInv, InstallerSteps, CallerSteps, vars, jitVars, codeVars, workVars, callVars
  <2>2. MutexInv'
    BY DEF TypeOK, MutexInv, Owning, InstallerSteps, vars, jitVars, codeVars, workVars, callVars
  <2>3. JobInv'
    BY DEF TypeOK, JobInv, vars, jitVars, codeVars, workVars, callVars
  <2>4. RestInv'
    BY DEF TypeOK, MutexInv, JobInv, RestInv, Owning, InstallerSteps, vars, jitVars, codeVars, workVars, callVars
  <2>5. ReachInv'
    BY DEF TypeOK, MutexInv, JobInv, ReachInv, SlotInv, Owning, Allocated, Filled, Usable, Unpatched, InstallerSteps, vars, jitVars, codeVars, workVars, callVars
  <2>6. SlotInv'
    BY DEF TypeOK, JobInv, SlotInv, vars, jitVars, codeVars, workVars, callVars
  <2>7. RaceInv'
    BY DEF TypeOK, MutexInv, RestInv, RaceInv, Owning, InstallerSteps, vars, jitVars, codeVars, workVars, callVars
  <2>8. FaultOnlyDuringInstall'
    BY DEF TypeOK, MutexInv, RestInv, ReachInv, RaceInv, FaultOnlyDuringInstall, Owning, Allocated, Filled, Usable, Unpatched, InstallerSteps, vars, jitVars, codeVars, workVars, callVars
  <2> QED
    BY <2>1, <2>2, <2>3, <2>4, <2>5, <2>6, <2>7, <2>8
<1>7. ASSUME NEW i \in Installers, PatchFarWords(i) PROVE IInv'
  <2> USE <1>7 DEF PatchFarWords, Goto
  <2>1. TypeOK'
    BY DEF TypeOK, JobInv, InstallerSteps, CallerSteps, vars, jitVars, codeVars, workVars, callVars
  <2>2. MutexInv'
    BY DEF TypeOK, MutexInv, Owning, InstallerSteps, vars, jitVars, codeVars, workVars, callVars
  <2>3. JobInv'
    BY DEF TypeOK, JobInv, vars, jitVars, codeVars, workVars, callVars
  <2>4. RestInv'
    BY DEF TypeOK, MutexInv, JobInv, RestInv, Owning, InstallerSteps, vars, jitVars, codeVars, workVars, callVars
  <2>5. ReachInv'
    BY DEF TypeOK, MutexInv, JobInv, ReachInv, SlotInv, Owning, Allocated, Filled, Usable, Unpatched, InstallerSteps, vars, jitVars, codeVars, workVars, callVars
  <2>6. SlotInv'
    BY DEF TypeOK, JobInv, SlotInv, vars, jitVars, codeVars, workVars, callVars
  <2>7. RaceInv'
    BY DEF TypeOK, MutexInv, RestInv, RaceInv, Owning, InstallerSteps, vars, jitVars, codeVars, workVars, callVars
  <2>8. FaultOnlyDuringInstall'
    BY DEF TypeOK, MutexInv, RestInv, ReachInv, RaceInv, FaultOnlyDuringInstall, Owning, Allocated, Filled, Usable, Unpatched, InstallerSteps, vars, jitVars, codeVars, workVars, callVars
  <2> QED
    BY <2>1, <2>2, <2>3, <2>4, <2>5, <2>6, <2>7, <2>8
<1>8. ASSUME NEW i \in Installers, PatchFarAddress(i) PROVE IInv'
  <2> USE <1>8 DEF PatchFarAddress, Goto
  <2>1. TypeOK'
    BY DEF TypeOK, JobInv, InstallerSteps, CallerSteps, vars, jitVars, codeVars, workVars, callVars
  <2>2. MutexInv'
    BY DEF TypeOK, MutexInv, Owning, InstallerSteps, vars, jitVars, codeVars, workVars, callVars
  <2>3. JobInv'
    BY DEF TypeOK, JobInv, vars, jitVars, codeVars, workVars, callVars
  <2>4. RestInv'
    BY DEF TypeOK, MutexInv, JobInv, RestInv, Owning, InstallerSteps, vars, jitVars, codeVars, workVars, callVars
  <2>5. ReachInv'
    BY DEF TypeOK, MutexInv, JobInv, ReachInv, SlotInv, Owning, Allocated, Filled, Usable, Unpatched, InstallerSteps, vars, jitVars, codeVars, workVars, callVars
  <2>6. SlotInv'
    BY DEF TypeOK, JobInv, SlotInv, vars, jitVars, codeVars, workVars, callVars
  <2>7. RaceInv'
    BY DEF TypeOK, MutexInv, RestInv, RaceInv, Owning, InstallerSteps, vars, jitVars, codeVars, workVars, callVars
  <2>8. FaultOnlyDuringInstall'
    BY DEF TypeOK, MutexInv, RestInv, ReachInv, RaceInv, FaultOnlyDuringInstall, Owning, Allocated, Filled, Usable, Unpatched, InstallerSteps, vars, jitVars, codeVars, workVars, callVars
  <2> QED
    BY <2>1, <2>2, <2>3, <2>4, <2>5, <2>6, <2>7, <2>8
<1>9. ASSUME NEW i \in Installers, ToExecutable(i) PROVE IInv'
  <2> USE <1>9 DEF ToExecutable, Goto
  <2>1. TypeOK'
    BY DEF TypeOK, JobInv, InstallerSteps, CallerSteps, vars, jitVars, codeVars, workVars, callVars
  <2>2. MutexInv'
    BY DEF TypeOK, MutexInv, Owning, InstallerSteps, vars, jitVars, codeVars, workVars, callVars
  <2>3. JobInv'
    BY DEF TypeOK, JobInv, vars, jitVars, codeVars, workVars, callVars
  <2>4. RestInv'
    BY DEF TypeOK, MutexInv, JobInv, RestInv, Owning, InstallerSteps, vars, jitVars, codeVars, workVars, callVars
  <2>5. ReachInv'
    BY DEF TypeOK, MutexInv, JobInv, ReachInv, SlotInv, Owning, Allocated, Filled, Usable, Unpatched, InstallerSteps, vars, jitVars, codeVars, workVars, callVars
  <2>6. SlotInv'
    BY DEF TypeOK, JobInv, SlotInv, vars, jitVars, codeVars, workVars, callVars
  <2>7. RaceInv'
    BY DEF TypeOK, MutexInv, RestInv, RaceInv, Owning, InstallerSteps, vars, jitVars, codeVars, workVars, callVars
  <2>8. FaultOnlyDuringInstall'
    BY DEF TypeOK, MutexInv, RestInv, ReachInv, RaceInv, FaultOnlyDuringInstall, Owning, Allocated, Filled, Usable, Unpatched, InstallerSteps, vars, jitVars, codeVars, workVars, callVars
  <2> QED
    BY <2>1, <2>2, <2>3, <2>4, <2>5, <2>6, <2>7, <2>8
<1>10. ASSUME NEW i \in Installers, UnlockHookMutex(i) PROVE IInv'
  <2> USE <1>10 DEF UnlockHookMutex, Goto
  <2>1. TypeOK'
    BY DEF TypeOK, JobInv, InstallerSteps, CallerSteps, vars, jitVars, codeVars, workVars, callVars
  <2>2. MutexInv'
    BY DEF TypeOK, MutexInv, Owning, InstallerSteps, vars, jitVars, codeVars, workVars, callVars
  <2>3. JobInv'
    BY DEF TypeOK, JobInv, vars, jitVars, codeVars, workVars, callVars
  <2>4. RestInv'
    BY DEF TypeOK, MutexInv, JobInv, RestInv, Owning, InstallerSteps, vars, jitVars, codeVars, workVars, callVars
  <2>5. ReachInv'
    BY DEF TypeOK, MutexInv, JobInv, ReachInv, SlotInv, Owning, Allocated, Filled, Usable, Unpatched, InstallerSteps, vars, jitVars, codeVars, workVars, callVars
  <2>6. SlotInv'
    BY DEF TypeOK, JobInv, SlotInv, vars, jitVars, codeVars, workVars, callVars
  <2>7. RaceInv'
    BY DEF TypeOK, MutexInv, RestInv, RaceInv, Owning, InstallerSteps, vars, jitVars, codeVars, workVars, callVars
  <2>8. FaultOnlyDuringInstall'
    BY DEF TypeOK, MutexInv, RestInv, ReachInv, RaceInv, FaultOnlyDuringInstall, Owning, Allocated, Filled, Usable, Unpatched, InstallerSteps, vars, jitVars, codeVars, workVars, callVars
  <2> QED
    BY <2>1, <2>2, <2>3, <2>4, <2>5, <2>6, <2>7, <2>8
<1>11. ASSUME NEW i \in Installers, Abort(i) PROVE IInv'
  <2> USE <1>11 DEF Abort, Goto
  <2>1. TypeOK'
    BY DEF TypeOK, JobInv, InstallerSteps, CallerSteps, vars, jitVars, codeVars, workVars, callVars
  <2>2. MutexInv'
    BY DEF TypeOK, MutexInv, Owning, InstallerSteps, vars, jitVars, codeVars, workVars, callVars
  <2>3. JobInv'
    BY DEF TypeOK, JobInv, vars, jitVars, codeVars, workVars, callVars
  <2>4. RestInv'
    BY DEF TypeOK, MutexInv, JobInv, RestInv, Owning, InstallerSteps, vars, jitVars, codeVars, workVars, callVars
  <2>5. ReachInv'
    BY DEF TypeOK, MutexInv, JobInv, ReachInv, SlotInv, Owning, Allocated, Filled, Usable, Unpatched, InstallerSteps, vars, jitVars, codeVars, workVars, callVars
  <2>6. SlotInv'
    BY DEF TypeOK, JobInv, SlotInv, vars, jitVars, codeVars, workVars, callVars
  <2>7. RaceInv'
    BY DEF TypeOK, MutexInv, RestInv, RaceInv, Owning, InstallerSteps, vars, jitVars, codeVars, workVars, callVars
  <2>8. FaultOnlyDuringInstall'
    BY DEF TypeOK, MutexInv, RestInv, ReachInv, RaceInv, FaultOnlyDuringInstall, Owning, Allocated, Filled, Usable, Unpatched, InstallerSteps, vars, jitVars, codeVars, workVars, callVars
  <2> QED
    BY <2>1, <2>2, <2>3, <2>4, <2>5, <2>6, <2>7, <2>8
<1>12. ASSUME NEW c \in Callers, NEW f \in Functions, Call(c, f) PROVE IInv'
  <2> USE <1>12 DEF Call, Moves
  <2>1. TypeOK'
    BY DEF TypeOK, JobInv, InstallerSteps, CallerSteps, vars, jitVars, codeVars, workVars, callVars
  <2>2. MutexInv'
    BY DEF TypeOK, MutexInv, Owning, InstallerSteps, vars, jitVars, codeVars, workVars, callVars
  <2>3. JobInv'
    BY DEF TypeOK, JobInv, vars, jitVars, codeVars, workVars, callVars
  <2>4. RestInv'
    BY DEF TypeOK, MutexInv, JobInv, RestInv, Owning, InstallerSteps, vars, jitVars, codeVars, workVars, callVars
  <2>5. ReachInv'
    BY DEF TypeOK, MutexInv, JobInv, ReachInv, SlotInv, Owning, Allocated, Filled, Usable, Unpatched, InstallerSteps, vars, jitVars, codeVars, workVars, callVars
  <2>6. SlotInv'
    <3>1. UNCHANGED <<index, original, requested, ipc, job>>
      BY DEF vars, jitVars, codeVars, workVars, callVars
    <3> QED
      BY <3>1 DEF SlotInv
  <2>7. RaceInv'
    <3>1. \A d \in Callers : hookMutex' # NoOne => raced'[d] \/ cpc'[d] = "out"
      BY DEF TypeOK, RaceInv
    <3>2. \A d \in Callers : cpc'[d] = "prologue" =>
            callee'[d] \in Far /\ (entry'[callee'[d]] = Game \/ raced'[d])
      BY DEF TypeOK, RaceInv, codeVars
    <3> QED
      BY <3>1, <3>2 DEF RaceInv
  <2>8. FaultOnlyDuringInstall'
    BY DEF TypeOK, MutexInv, RestInv, ReachInv, RaceInv, FaultOnlyDuringInstall, Owning, Allocated, Filled, Usable, Unpatched, InstallerSteps, vars, jitVars, codeVars, workVars, callVars
  <2> QED
    BY <2>1, <2>2, <2>3, <2>4, <2>5, <2>6, <2>7, <2>8
<1>13. ASSUME NEW c \in Callers, Enter(c) PROVE IInv'
  <2> USE <1>13 DEF Enter, Moves
  <2>1. TypeOK'
    BY DEF TypeOK, JobInv, InstallerSteps, CallerSteps, vars, jitVars, codeVars, workVars, callVars
  <2>2. MutexInv'
    BY DEF TypeOK, MutexInv, Owning, InstallerSteps, vars, jitVars, codeVars, workVars, callVars
  <2>3. JobInv'
    BY DEF TypeOK, JobInv, vars, jitVars, codeVars, workVars, callVars
  <2>4. RestInv'
    BY DEF TypeOK, MutexInv, JobInv, RestInv, Owning, InstallerSteps, vars, jitVars, codeVars, workVars, callVars
  <2>5. ReachInv'
    BY DEF TypeOK, MutexInv, JobInv, ReachInv, SlotInv, Owning, Allocated, Filled, Usable, Unpatched, InstallerSteps, vars, jitVars, codeVars, workVars, callVars
  <2>6. SlotInv'
    <3>1. UNCHANGED <<index, original, requested, ipc, job>>
      BY DEF vars, jitVars, codeVars, workVars, callVars
    <3> QED
      BY <3>1 DEF SlotInv
  <2>7. RaceInv'
    BY DEF TypeOK, MutexInv, RestInv, RaceInv, Owning, InstallerSteps, vars, jitVars, codeVars, workVars, callVars
  <2>8. FaultOnlyDuringInstall'
    BY DEF TypeOK, MutexInv, RestInv, ReachInv, RaceInv, FaultOnlyDuringInstall, Owning, Allocated, Filled, Usable, Unpatched, InstallerSteps, vars, jitVars, codeVars, workVars, callVars
  <2> QED
    BY <2>1, <2>2, <2>3, <2>4, <2>5, <2>6, <2>7, <2>8
<1>14. ASSUME NEW c \in Callers, Prologue(c) PROVE IInv'
  <2> USE <1>14 DEF Prologue, Moves
  <2>1. TypeOK'
    BY DEF TypeOK, JobInv, InstallerSteps, CallerSteps, vars, jitVars, codeVars, workVars, callVars
  <2>2. MutexInv'
    BY DEF TypeOK, MutexInv, Owning, InstallerSteps, vars, jitVars, codeVars, workVars, callVars
  <2>3. JobInv'
    BY DEF TypeOK, JobInv, vars, jitVars, codeVars, workVars, callVars
  <2>4. RestInv'
    BY DEF TypeOK, MutexInv, JobInv, RestInv, Owning, InstallerSteps, vars, jitVars, codeVars, workVars, callVars
  <2>5. ReachInv'
    BY DEF TypeOK, MutexInv, JobInv, ReachInv, SlotInv, Owning, Allocated, Filled, Usable, Unpatched, InstallerSteps, vars, jitVars, codeVars, workVars, callVars
  <2>6. SlotInv'
    <3>1. UNCHANGED <<index, original, requested, ipc, job>>
      BY DEF vars, jitVars, codeVars, workVars, callVars
    <3> QED
      BY <3>1 DEF SlotInv
  <2>7. RaceInv'
    BY DEF TypeOK, MutexInv, RestInv, RaceInv, Owning, InstallerSteps, vars, jitVars, codeVars, workVars, callVars
  <2>8. FaultOnlyDuringInstall'
    BY DEF TypeOK, MutexInv, RestInv, ReachInv, RaceInv, FaultOnlyDuringInstall, Owning, Allocated, Filled, Usable, Unpatched, InstallerSteps, vars, jitVars, codeVars, workVars, callVars
  <2> QED
    BY <2>1, <2>2, <2>3, <2>4, <2>5, <2>6, <2>7, <2>8
<1>15. ASSUME NEW c \in Callers, RunReplacement(c) PROVE IInv'
  <2> USE <1>15 DEF RunReplacement, Moves
  <2>1. TypeOK'
    BY DEF TypeOK, JobInv, InstallerSteps, CallerSteps, vars, jitVars, codeVars, workVars, callVars
  <2>2. MutexInv'
    BY DEF TypeOK, MutexInv, Owning, InstallerSteps, vars, jitVars, codeVars, workVars, callVars
  <2>3. JobInv'
    BY DEF TypeOK, JobInv, vars, jitVars, codeVars, workVars, callVars
  <2>4. RestInv'
    BY DEF TypeOK, MutexInv, JobInv, RestInv, Owning, InstallerSteps, vars, jitVars, codeVars, workVars, callVars
  <2>5. ReachInv'
    BY DEF TypeOK, MutexInv, JobInv, ReachInv, SlotInv, Owning, Allocated, Filled, Usable, Unpatched, InstallerSteps, vars, jitVars, codeVars, workVars, callVars
  <2>6. SlotInv'
    <3>1. UNCHANGED <<index, original, requested, ipc, job>>
      BY DEF vars, jitVars, codeVars, workVars, callVars
    <3> QED
      BY <3>1 DEF SlotInv
  <2>7. RaceInv'
    BY DEF TypeOK, MutexInv, RestInv, RaceInv, Owning, InstallerSteps, vars, jitVars, codeVars, workVars, callVars
  <2>8. FaultOnlyDuringInstall'
    BY DEF TypeOK, MutexInv, RestInv, ReachInv, RaceInv, FaultOnlyDuringInstall, Owning, Allocated, Filled, Usable, Unpatched, InstallerSteps, vars, jitVars, codeVars, workVars, callVars
  <2> QED
    BY <2>1, <2>2, <2>3, <2>4, <2>5, <2>6, <2>7, <2>8
<1>16. ASSUME NEW c \in Callers, RunTrampoline(c) PROVE IInv'
  <2> USE <1>16 DEF RunTrampoline, Moves, Fetchable
  <2>1. TypeOK'
    BY DEF TypeOK, JobInv, InstallerSteps, CallerSteps, vars, jitVars, codeVars, workVars, callVars
  <2>2. MutexInv'
    BY DEF TypeOK, MutexInv, Owning, InstallerSteps, vars, jitVars, codeVars, workVars, callVars
  <2>3. JobInv'
    BY DEF TypeOK, JobInv, vars, jitVars, codeVars, workVars, callVars
  <2>4. RestInv'
    BY DEF TypeOK, MutexInv, JobInv, RestInv, Owning, InstallerSteps, vars, jitVars, codeVars, workVars, callVars
  <2>5. ReachInv'
    BY DEF TypeOK, MutexInv, JobInv, ReachInv, SlotInv, Owning, Allocated, Filled, Usable, Unpatched, InstallerSteps, vars, jitVars, codeVars, workVars, callVars
  <2>6. SlotInv'
    <3>1. UNCHANGED <<index, original, requested, ipc, job>>
      BY DEF vars, jitVars, codeVars, workVars, callVars
    <3> QED
      BY <3>1 DEF SlotInv
  <2>7. RaceInv'
    BY DEF TypeOK, MutexInv, RestInv, RaceInv, Owning, InstallerSteps, vars, jitVars, codeVars, workVars, callVars
  <2>8. FaultOnlyDuringInstall'
    BY DEF TypeOK, MutexInv, RestInv, ReachInv, RaceInv, FaultOnlyDuringInstall, Owning, Allocated, Filled, Usable, Unpatched, InstallerSteps, vars, jitVars, codeVars, workVars, callVars
  <2> QED
    BY <2>1, <2>2, <2>3, <2>4, <2>5, <2>6, <2>7, <2>8
<1>17. ASSUME NEW c \in Callers, RunBody(c) PROVE IInv'
  <2> USE <1>17 DEF RunBody, Moves
  <2>1. TypeOK'
    BY DEF TypeOK, JobInv, InstallerSteps, CallerSteps, vars, jitVars, codeVars, workVars, callVars
  <2>2. MutexInv'
    BY DEF TypeOK, MutexInv, Owning, InstallerSteps, vars, jitVars, codeVars, workVars, callVars
  <2>3. JobInv'
    BY DEF TypeOK, JobInv, vars, jitVars, codeVars, workVars, callVars
  <2>4. RestInv'
    BY DEF TypeOK, MutexInv, JobInv, RestInv, Owning, InstallerSteps, vars, jitVars, codeVars, workVars, callVars
  <2>5. ReachInv'
    BY DEF TypeOK, MutexInv, JobInv, ReachInv, SlotInv, Owning, Allocated, Filled, Usable, Unpatched, InstallerSteps, vars, jitVars, codeVars, workVars, callVars
  <2>6. SlotInv'
    <3>1. UNCHANGED <<index, original, requested, ipc, job>>
      BY DEF vars, jitVars, codeVars, workVars, callVars
    <3> QED
      BY <3>1 DEF SlotInv
  <2>7. RaceInv'
    BY DEF TypeOK, MutexInv, RestInv, RaceInv, Owning, InstallerSteps, vars, jitVars, codeVars, workVars, callVars
  <2>8. FaultOnlyDuringInstall'
    BY DEF TypeOK, MutexInv, RestInv, ReachInv, RaceInv, FaultOnlyDuringInstall, Owning, Allocated, Filled, Usable, Unpatched, InstallerSteps, vars, jitVars, codeVars, workVars, callVars
  <2> QED
    BY <2>1, <2>2, <2>3, <2>4, <2>5, <2>6, <2>7, <2>8
<1>18. CASE UNCHANGED vars
  BY <1>18 DEF TypeOK, MutexInv, JobInv, RestInv, ReachInv, SlotInv, RaceInv, FaultOnlyDuringInstall, Owning, Allocated, Filled, Usable, Unpatched, InstallerSteps, CallerSteps, vars, jitVars, codeVars, workVars, callVars
<1> QED
  BY <1>1, <1>2, <1>3, <1>4, <1>5, <1>6, <1>7, <1>8, <1>9, <1>10, <1>11, <1>12, <1>13, <1>14, <1>15, <1>16, <1>17, <1>18 DEF Next, InstallerStep, CallerStep

-----------------------------------------------------------------------------
\* IInv is an invariant of the engine.
THEOREM Invariance == Spec => []IInv
BY IInvInit, IInvStep, PTL DEF Spec

\* Every variable keeps its type.
THEOREM TypeCorrect == Spec => []TypeOK
<1>1. IInv => TypeOK
  BY DEF IInv
<1> QED
  BY <1>1, Invariance, PTL

\* A call faults only if an installation overlapped it, and then only through
\* an unmapped trampoline or a patch of several words.
THEOREM FaultsAreRaces == Spec => []FaultOnlyDuringInstall
<1>1. IInv => FaultOnlyDuringInstall
  BY DEF IInv
<1> QED
  BY <1>1, Invariance, PTL

\* Whenever no installer holds the mutex, the trampolines can be executed and
\* no function is half patched.
THEOREM RestsWhenUnlocked == Spec => []AtRest
<1>1. IInv => AtRest
  <2> SUFFICES ASSUME IInv, hookMutex = NoOne
               PROVE  isExecutable /\ \A f \in Functions : ~torn[f]
    BY DEF AtRest
  <2>1. isExecutable
    BY DEF IInv, RestInv
  <2>2. \A i \in Installers : ipc[i] # "patchRest"
    BY DistinctAssumption DEF IInv, MutexInv, Owning, InstallerSteps
  <2>3. \A f \in Functions : ~torn[f]
    BY <2>2 DEF IInv, RestInv
  <2> QED
    BY <2>1, <2>3
<1> QED
  BY <1>1, Invariance, PTL

\* No two hooks share a trampoline and every trampoline is inside the buffer.
THEOREM TrampolinesAreOwn == Spec => []OwnTrampolines
<1>1. IInv => OwnTrampolines
  <2> SUFFICES ASSUME IInv, NEW h \in Hooks, original[h] # Null
               PROVE  /\ original[h] \in Slots
                      /\ \A g \in Hooks \ {h} : original[g] # original[h]
    BY DEF OwnTrampolines
  <2>1. original[h] \in Nat /\ original[h] <= index
    BY DEF IInv, TypeOK, SlotInv
  <2>2. index < MaxBackups /\ index \in Int /\ MaxBackups \in Nat
    BY IndexInBuffer, SlotAssumption DEF IInv, TypeOK
  <2>3. original[h] \in Slots
    BY <2>1, <2>2 DEF Slots
  <2>4. \A g \in Hooks \ {h} : original[g] # original[h]
    BY DEF IInv, SlotInv
  <2> QED
    BY <2>3, <2>4
<1> QED
  BY <1>1, Invariance, PTL

-----------------------------------------------------------------------------
(* The engine implements HookLinks.                                        *)

\* From the moment a trampoline is filled until the patch is made, nobody else
\* changes the entry that was copied.
CopyInv ==
  \A i \in Installers : ipc[i] \in {"patch", "patchRest"} /\ job[i] \in WithResult =>
    trampoline[original[job[i]]] = entry[Symbol[job[i]]]

LEMMA CopyInit == Init => CopyInv
BY DEF Init, CopyInv

\* The slot of a hook is in the buffer.
LEMMA SlotInBuffer ==
  ASSUME IInv, NEW h \in Hooks, original[h] # Null
  PROVE  original[h] \in Slots
<1>1. original[h] \in Nat /\ original[h] <= index
  BY DEF IInv, TypeOK, SlotInv
<1>2. index < MaxBackups /\ index \in Int /\ MaxBackups \in Nat
  BY IndexInBuffer, SlotAssumption DEF IInv, TypeOK
<1> QED
  BY <1>1, <1>2 DEF Slots

\* An installer that owns the mutex is alone inside A64HookFunction.
LEMMA OwnerIsAlone ==
  ASSUME IInv, NEW i \in Installers, ipc[i] \in Owning,
         NEW k \in Installers, ipc[k] \in Owning
  PROVE  k = i
BY DEF IInv, MutexInv

LEMMA CopyStep == IInv /\ CopyInv /\ [Next]_vars => CopyInv'
<1> SUFFICES ASSUME IInv, CopyInv, [Next]_vars PROVE CopyInv'
  OBVIOUS
<1> USE DEF CopyInv
<1>0. /\ ipc \in [Installers -> InstallerSteps] /\ job \in [Installers -> Hooks \cup {NoHook}]
      /\ trampoline \in [Slots -> Hooks \cup {Game, Empty}]
      /\ \A i \in Installers : ipc[i] # "idle" => job[i] \in Hooks
  BY DEF IInv, TypeOK, JobInv
<1>o. {"allocate", "fix", "patch", "patchRest"} \subseteq Owning
  BY DEF Owning, InstallerSteps
<1>1. ASSUME NEW i \in Installers, NEW h \in Hooks, StartHook(i, h) PROVE CopyInv'
  BY <1>0, <1>1 DEF StartHook, jitVars, codeVars
<1>2. ASSUME NEW i \in Installers, LockHookMutex(i) PROVE CopyInv'
  BY <1>0, <1>2 DEF LockHookMutex, Goto, jitVars, codeVars
<1>3. ASSUME NEW i \in Installers, ToWritable(i) PROVE CopyInv'
  BY <1>0, <1>3 DEF ToWritable, Goto, codeVars
<1>4. ASSUME NEW i \in Installers, AllocateTrampoline(i) PROVE CopyInv'
  BY <1>0, <1>o, <1>4, OwnerIsAlone DEF AllocateTrampoline, Goto
<1>5. ASSUME NEW i \in Installers, FixInstructions(i) PROVE CopyInv'
  <2>1. job[i] \in Hooks /\ original[job[i]] # Null
    BY <1>0, <1>5 DEF FixInstructions, IInv, SlotInv
  <2>2. original[job[i]] \in Slots
    BY <2>1, SlotInBuffer
  <2>3. \A k \in Installers : ipc'[k] \in {"patch", "patchRest"} => k = i
    BY <1>0, <1>o, <1>5, OwnerIsAlone DEF FixInstructions, Goto
  <2> QED
    BY <1>0, <1>5, <2>2, <2>3 DEF FixInstructions, Goto, codeVars
<1>6. ASSUME NEW i \in Installers, PatchNear(i) \/ PatchFarAddress(i) PROVE CopyInv'
  <2>1. \A k \in Installers : ipc'[k] \notin {"patch", "patchRest"}
    BY <1>0, <1>o, <1>6, OwnerIsAlone DEF PatchNear, PatchFarAddress, Goto
  <2> QED
    BY <2>1
<1>7. ASSUME NEW i \in Installers, PatchFarWords(i) PROVE CopyInv'
  BY <1>0, <1>7 DEF PatchFarWords, Goto, jitVars
<1>8. ASSUME NEW i \in Installers, ToExecutable(i) \/ UnlockHookMutex(i) \/ Abort(i)
      PROVE  CopyInv'
  <2>1. /\ UNCHANGED <<trampoline, original, entry>>
        /\ \A k \in Installers : ipc'[k] \in {"patch", "patchRest"} =>
             ipc[k] = ipc'[k] /\ job'[k] = job[k]
    BY <1>0, <1>8
       DEF ToExecutable, UnlockHookMutex, Abort, Goto, jitVars, codeVars, workVars
  <2> QED
    BY <2>1
<1>9. ASSUME NEW c \in Callers, CallerStep(c) \/ \E f \in Functions : Call(c, f)
      PROVE  CopyInv'
  <2>1. UNCHANGED <<jitVars, codeVars, workVars>>
    BY <1>9 DEF CallerStep, Enter, Prologue, RunReplacement, RunTrampoline, RunBody, Call, Moves
  <2> QED
    BY <2>1 DEF jitVars, codeVars, workVars
<1>10. CASE UNCHANGED vars
  BY <1>10 DEF vars, jitVars, codeVars, workVars
<1> QED
  BY <1>1, <1>2, <1>3, <1>4, <1>5, <1>6, <1>7, <1>8, <1>9, <1>10 DEF Next, InstallerStep

\* Where nothing can fault, no caller is ever inside a patch of several words.
LEMMA NothingFaults ==
  ASSUME Far = {}, CodeMemory = FALSE, IInv, NEW c \in Callers
  PROVE  /\ cpc[c] \in {"out", "entry", "replacement", "trampoline", "body"}
         /\ \A f \in Functions : ~torn[f]
BY DEF IInv, TypeOK, CallerSteps, FaultOnlyDuringInstall, RaceInv, RestInv

LEMMA InstalledIsPatched ==
  ASSUME IInv, NEW h \in Hooks
  PROVE  h \in installed <=> ~Unpatched(h)
BY DEF IInv, TypeOK, installed, Unpatched, InstallerSteps

LEMMA LinksInit == Init => Links!Init
BY DistinctAssumption, LinkAssumption
   DEF Init, Links!Init, newest, older, installed, target, running, LeadsTo

\* A step that changes no entry, no caller and no trampoline of a hook that has been
\* installed cannot be seen.
LEMMA Unseen ==
  ASSUME IInv, UNCHANGED <<entry, callVars>>, installed' = installed,
         \A h \in Hooks : h \in installed /\ h \in WithResult =>
           trampoline'[original'[h]] = trampoline[original[h]]
  PROVE  UNCHANGED Links!vars
<1>1. UNCHANGED newest
  BY DEF newest, LeadsTo
<1>2. UNCHANGED older
  <2>1. \A h \in Hooks : h \in installed /\ h \in CallsOriginal =>
          LeadsTo(trampoline'[original'[h]]) = LeadsTo(trampoline[original[h]])
    BY HookAssumption
  <2> QED
    BY <2>1 DEF older, LeadsTo
<1>3. UNCHANGED target
  BY DEF target, callVars
<1>4. UNCHANGED running
  <2>1. \A c \in Callers : cpc[c] = "trampoline" =>
          trampoline'[original'[at[c]]] = trampoline[original[at[c]]]
    BY InstalledIsPatched DEF IInv, ReachInv
  <2> QED
    BY <2>1 DEF running, LeadsTo, callVars
<1> QED
  BY <1>1, <1>2, <1>3, <1>4 DEF Links!vars

\* The steps of an installer are not seen, but for the patch, which installs its hook.
LEMMA InstallerLinks ==
  ASSUME Far = {}, CodeMemory = FALSE, IInv, CopyInv, NEW i \in Installers,
         InstallerStep(i) \/ Abort(i) \/ \E h \in Hooks : StartHook(i, h)
  PROVE  Links!Next \/ UNCHANGED Links!vars
<1>0. /\ ipc \in [Installers -> InstallerSteps] /\ job \in [Installers -> Hooks \cup {NoHook}]
      /\ trampoline \in [Slots -> Hooks \cup {Game, Empty}]
      /\ original \in [Hooks -> Nat \cup {Null}] /\ entry \in [Functions -> Hooks \cup {Game}]
      /\ NoHook \notin Hooks
      /\ ipc[i] # "idle" => job[i] \in Hooks /\ job[i] \in requested
      /\ \A k \in Installers : ipc[k] # "idle" /\ ipc[i] # "idle" /\ job[k] = job[i] => k = i
  BY DistinctAssumption DEF IInv, TypeOK, JobInv
<1>1. ASSUME NEW h \in Hooks, StartHook(i, h) PROVE UNCHANGED Links!vars
  <2>1. h \notin installed /\ h \notin installed'
    BY <1>0, <1>1 DEF StartHook, installed
  <2>2. \A g \in Hooks \ {h} : g \in installed' <=> g \in installed
    BY <1>0, <1>1 DEF StartHook, installed
  <2>3. installed \subseteq Hooks /\ installed' \subseteq Hooks
    BY <1>1 DEF StartHook, installed, IInv, TypeOK
  <2> QED
    BY <1>1, <2>1, <2>2, <2>3, Unseen DEF StartHook, jitVars, codeVars
<1>2. CASE LockHookMutex(i) \/ ToWritable(i) \/ ToExecutable(i) \/ UnlockHookMutex(i) \/ Abort(i)
  <2>1. UNCHANGED <<entry, callVars, original, trampoline, requested>>
    BY <1>2 DEF LockHookMutex, ToWritable, ToExecutable, UnlockHookMutex, Abort, Goto,
                jitVars, codeVars, workVars
  <2>2. \A k \in Installers, h \in Hooks :
          (job'[k] = h => ipc'[k] \in {"idle", "toExecutable", "unlock"}) <=>
          (job[k] = h => ipc[k] \in {"idle", "toExecutable", "unlock"})
    BY <1>0, <1>2 DEF LockHookMutex, ToWritable, ToExecutable, UnlockHookMutex, Abort, Goto,
                      workVars
  <2>3. requested \subseteq Hooks
    BY DEF IInv, TypeOK
  <2>4. installed' = installed
    BY <2>1, <2>2, <2>3 DEF installed
  <2> QED
    BY <2>1, <2>4, Unseen
<1>3. CASE AllocateTrampoline(i)
  <2>1. job[i] \notin installed /\ UNCHANGED <<entry, callVars, trampoline, requested, job>>
    BY <1>0, <1>3 DEF AllocateTrampoline, Goto, installed, codeVars
  <2>2. installed' = installed
    BY <1>0, <1>3 DEF AllocateTrampoline, Goto, installed
  <2>3. \A h \in Hooks : h \in installed => original'[h] = original[h]
    BY <1>0, <1>3, <2>1 DEF AllocateTrampoline
  <2> QED
    BY <2>1, <2>2, <2>3, Unseen
<1>4. CASE FixInstructions(i)
  <2>1. /\ job[i] \notin installed /\ job[i] \in Hooks /\ original[job[i]] # Null
        /\ UNCHANGED <<entry, callVars, original, requested, job>>
    BY <1>0, <1>4 DEF FixInstructions, Goto, installed, codeVars, IInv, SlotInv
  <2>2. installed' = installed
    BY <1>0, <1>4 DEF FixInstructions, Goto, installed
  <2>3. ASSUME NEW h \in Hooks, h \in installed, h \in WithResult
        PROVE  trampoline'[original'[h]] = trampoline[original[h]]
    <3>1. original[h] \in Slots
      BY <2>3, InstalledIsPatched DEF IInv, ReachInv, Usable
    <3>2. original[h] # original[job[i]]
      BY <2>1, <2>3 DEF IInv, SlotInv
    <3> QED
      BY <1>0, <1>4, <2>1, <3>1, <3>2 DEF FixInstructions
  <2> QED
    BY <2>1, <2>2, <2>3, Unseen
<1>5. CASE PatchNear(i)
  <2> DEFINE h == job[i]
  <2>1. /\ h \in Hooks /\ h \in requested /\ h \notin installed /\ Symbol[h] \in Functions
        /\ entry' = [entry EXCEPT ![Symbol[h]] = h]
        /\ ipc' = [ipc EXCEPT ![i] = "toExecutable"]
        /\ UNCHANGED <<callVars, original, trampoline, requested, job>>
    BY <1>0, <1>5, HookAssumption DEF PatchNear, Goto, installed, jitVars
  <2>2. installed' = installed \cup {h}
    <3>1. requested \subseteq Hooks
      BY DEF IInv, TypeOK
    <3>2. \A g \in Hooks : g \in installed' <=> g \in installed \/ g = h
      BY <1>0, <1>5, <2>1 DEF PatchNear, installed
    <3> QED
      BY <2>1, <3>1, <3>2 DEF installed
  <2>3. newest' = [newest EXCEPT ![Symbol[h]] = h]
    BY <1>0, <2>1 DEF newest, LeadsTo
  <2>4. older' = [older EXCEPT ![h] = IF h \in CallsOriginal THEN newest[Symbol[h]] ELSE Nothing]
    <3>1. h \in CallsOriginal => trampoline[original[h]] = entry[Symbol[h]]
      BY <1>5, HookAssumption DEF PatchNear, CopyInv
    <3>2. newest[Symbol[h]] = LeadsTo(entry[Symbol[h]])
      BY <2>1 DEF newest
    <3>3. older'[h] = IF h \in CallsOriginal THEN newest[Symbol[h]] ELSE Nothing
      BY <2>1, <2>2, <3>1, <3>2 DEF older, LeadsTo
    <3>4. \A g \in Hooks \ {h} : older'[g] = older[g]
      BY <2>1, <2>2 DEF older, LeadsTo
    <3> QED
      BY <2>1, <3>3, <3>4 DEF older
  <2>5. UNCHANGED <<target, running>>
    BY <2>1 DEF target, running, LeadsTo, callVars
  <2> QED
    BY <2>1, <2>2, <2>3, <2>4, <2>5 DEF Links!Next, Links!Install
<1>6. ~PatchFarWords(i) /\ ~PatchFarAddress(i)
  BY <1>0 DEF PatchFarWords, PatchFarAddress, IInv, RestInv
<1> QED
  BY <1>1, <1>2, <1>3, <1>4, <1>5, <1>6 DEF InstallerStep

\* A caller enters and runs what the links say; its way through a trampoline is not
\* seen.
LEMMA CallerLinks ==
  ASSUME Far = {}, CodeMemory = FALSE, IInv, NEW c \in Callers,
         CallerStep(c) \/ \E f \in Functions : Call(c, f)
  PROVE  Links!Next \/ UNCHANGED Links!vars
<1>0. /\ cpc \in [Callers -> CallerSteps] /\ at \in [Callers -> Hooks \cup {NoHook}]
      /\ callee \in [Callers -> Functions \cup {NoFunction}]
      /\ entry \in [Functions -> Hooks \cup {Game}] /\ Game \notin Hooks /\ Empty \notin Hooks
      /\ NoFunction \notin Functions
      /\ Body \notin Hooks /\ Nothing \notin Hooks /\ Body # Nothing
      /\ cpc[c] # "out" => callee[c] \in Functions
      /\ cpc[c] \in {"replacement", "trampoline"} =>
           at[c] \in Hooks /\ at[c] \in installed
  BY DistinctAssumption, LinkAssumption, InstalledIsPatched DEF IInv, TypeOK, ReachInv
<1>1. UNCHANGED <<entry, original, trampoline, installed>>
  BY DEF CallerStep, Enter, Prologue, RunReplacement, RunTrampoline, RunBody, Call, Moves,
         jitVars, codeVars, workVars, installed
<1>2. UNCHANGED <<newest, older>>
  BY <1>1 DEF newest, older, LeadsTo
<1>3. ASSUME NEW step \in CallerSteps, NEW hook \in Hooks \cup {NoHook}, Moves(c, step, hook),
             UNCHANGED callee
      PROVE  /\ target' = [target EXCEPT ![c] = IF step = "entry" THEN callee[c] ELSE NoFunction]
             /\ running' = [running EXCEPT ![c] =
                  CASE step = "replacement"          -> hook
                    [] step = "trampoline"           -> LeadsTo(trampoline[original[hook]])
                    [] step \in {"prologue", "body"} -> Body
                    [] OTHER                         -> Nothing]
  BY <1>0, <1>1, <1>3 DEF Moves, target, running, LeadsTo
<1>4. ASSUME NEW f \in Functions, Call(c, f) PROVE Links!Next
  <2>1. target[c] = NoFunction /\ running[c] = Nothing
    BY <1>4 DEF Call, target, running
  <2>2. target' = [target EXCEPT ![c] = f] /\ UNCHANGED running
    BY <1>0, <1>1, <1>4 DEF Call, Moves, target, running, LeadsTo
  <2> QED
    BY <1>1, <1>2, <2>1, <2>2 DEF Links!Next, Links!Call
<1>5. CASE Enter(c)
  <2> DEFINE first == entry[callee[c]]
  <2>1. /\ cpc[c] = "entry" /\ target[c] = callee[c] /\ callee[c] \in Functions
        /\ running[c] = Nothing /\ newest[callee[c]] = LeadsTo(first) /\ first \in Hooks \cup {Game}
        /\ target[c] # NoFunction
    BY <1>0, <1>5 DEF Enter, target, running, newest
  <2>2. CASE first \in Hooks /\ Moves(c, "replacement", first)
    <3>1. target' = [target EXCEPT ![c] = NoFunction] /\ running' = [running EXCEPT ![c] = first]
      BY <1>3, <1>5, <2>2 DEF Enter, CallerSteps
    <3> QED
      BY <1>1, <1>2, <2>1, <2>2, <3>1 DEF Links!Next, Links!Enter, LeadsTo
  <2>3. CASE first = Game /\ Moves(c, "body", NoHook)
    <3>1. target' = [target EXCEPT ![c] = NoFunction] /\ running' = [running EXCEPT ![c] = Body]
      BY <1>3, <1>5, <2>3 DEF Enter, CallerSteps
    <3>2. LeadsTo(first) = Body
      BY <1>0, <2>3 DEF LeadsTo
    <3> QED
      BY <1>1, <1>2, <2>1, <3>1, <3>2 DEF Links!Next, Links!Enter
  <2> QED
    BY <1>5, <2>1, <2>2, <2>3, NothingFaults DEF Enter
<1>6. CASE RunReplacement(c)
  <2>1. /\ at[c] \in Hooks /\ at[c] \in installed /\ cpc[c] = "replacement"
        /\ running[c] = at[c] /\ target[c] = NoFunction
        /\ running[c] # Nothing
    BY <1>0, <1>6 DEF RunReplacement, running, target
  <2>2. target' = target
    BY <1>0, <1>6 DEF RunReplacement, Moves, target
  <2>3. CASE at[c] \in CallsOriginal
    <3>1. running' = [running EXCEPT ![c] = LeadsTo(trampoline[original[at[c]]])]
      BY <1>3, <1>6, <2>1, <2>3 DEF RunReplacement, CallerSteps
    <3>2. older[at[c]] = LeadsTo(trampoline[original[at[c]]])
      BY <2>1, <2>3 DEF older
    <3> QED
      BY <1>1, <1>2, <2>1, <2>2, <3>1, <3>2 DEF Links!Next, Links!Run
  <2>4. CASE at[c] \notin CallsOriginal
    <3>1. running' = [running EXCEPT ![c] = Nothing]
      BY <1>3, <1>6, <2>1, <2>4 DEF RunReplacement, CallerSteps
    <3>2. older[at[c]] = Nothing
      BY <2>1, <2>4 DEF older
    <3> QED
      BY <1>1, <1>2, <2>1, <2>2, <3>1, <3>2 DEF Links!Next, Links!Run
  <2> QED
    BY <2>3, <2>4
<1>7. CASE RunTrampoline(c)
  <2> DEFINE s == original[at[c]]
  <2>1. cpc[c] = "trampoline" /\ running[c] = LeadsTo(trampoline[s]) /\ target[c] = NoFunction
    BY <1>7 DEF RunTrampoline, running, target
  <2>2. Fetchable(s)
    BY <1>0, <2>1, InstalledIsPatched DEF IInv, ReachInv, Usable, Fetchable
  <2>3. target' = target
    BY <1>0, <1>7 DEF RunTrampoline, Moves, target
  <2>4. running' = running
    <3>1. CASE trampoline[s] = Game /\ Moves(c, "body", NoHook)
      <4>1. running' = [running EXCEPT ![c] = Body]
        BY <1>3, <1>7, <3>1 DEF RunTrampoline, CallerSteps
      <4> QED
        BY <1>0, <2>1, <3>1, <4>1 DEF LeadsTo, running
    <3>2. CASE trampoline[s] \in Hooks /\ Moves(c, "replacement", trampoline[s])
      <4>1. running' = [running EXCEPT ![c] = trampoline[s]]
        BY <1>3, <1>7, <3>2 DEF RunTrampoline, CallerSteps
      <4> QED
        BY <1>0, <2>1, <3>2, <4>1 DEF LeadsTo, running
    <3> QED
      BY <1>7, <2>2, <3>1, <3>2 DEF RunTrampoline
  <2> QED
    BY <1>1, <1>2, <2>3, <2>4 DEF Links!vars
<1>8. CASE RunBody(c)
  <2>1. running[c] = Body /\ Body # Nothing /\ Body \notin Hooks
    BY <1>0, <1>8 DEF RunBody, running
  <2>2. target' = target
    BY <1>0, <1>8 DEF RunBody, Moves, target
  <2>3. running' = [running EXCEPT ![c] = Nothing]
    BY <1>3, <1>8 DEF RunBody, CallerSteps
  <2> QED
    BY <1>1, <1>2, <2>1, <2>2, <2>3 DEF Links!Next, Links!Run
<1>9. ~Prologue(c)
  BY NothingFaults DEF Prologue
<1> QED
  BY <1>4, <1>5, <1>6, <1>7, <1>8, <1>9 DEF CallerStep

\* Where patches are single stores and trampolines stay executable, the engine
\* implements the links: every call that has entered a function finds behind each
\* replacement what was there when that was installed.
THEOREM EngineLinks ==
  ASSUME Far = {}, CodeMemory = FALSE
  PROVE  Spec => ImplementsHookLinks
<1>1. IInv /\ CopyInv /\ [Next]_vars => [Links!Next]_Links!vars
  <2> SUFFICES ASSUME IInv, CopyInv, [Next]_vars PROVE Links!Next \/ UNCHANGED Links!vars
    OBVIOUS
  <2>1. CASE UNCHANGED vars
    <3>1. UNCHANGED <<entry, callVars, original, trampoline, installed>>
      BY <2>1 DEF vars, jitVars, codeVars, workVars, installed
    <3> QED
      BY <3>1, Unseen
  <2>2. CASE Next
    BY <2>2, InstallerLinks, CallerLinks DEF Next
  <2> QED
    BY <2>1, <2>2
<1>2. Spec => []CopyInv
  BY CopyInit, CopyStep, Invariance, PTL DEF Spec
<1> QED
  BY <1>1, <1>2, LinksInit, Invariance, PTL DEF Spec, ImplementsHookLinks, Links!Spec
=============================================================================
