-------------------------------- MODULE Jit ---------------------------------
(***************************************************************************)
(* jit.c: the buffers that hold the trampolines.  A buffer is heap memory  *)
(* (src_addr) the kernel lends to a second address (rx_addr) for execution *)
(* and, with a code memory object, to a third one (rw_addr) for writing.   *)
(* Which of the two kinds a process gets depends on the kernel.  Every     *)
(* system call may be refused, and has to be when the memory is not in the *)
(* state the call needs.                                                   *)
(***************************************************************************)
EXTENDS Naturals

CONSTANT Buffers  \* the Jit objects

Types == {"JitMemory", "CodeMemory", "Unavailable"}

VARIABLES
  kernel,   \* version, JIT patch and whether the process knows its own handle
  jit,      \* the fields of the Jit objects
  memory,   \* what the kernel has mapped for each of them
  promise,  \* what the last successful call says of the buffer
  refusal   \* the refusals that matter: of a permission, of a rollback

vars == <<kernel, jit, memory, promise, refusal>>

\* The kind of buffer jitCreate chooses.  envIsSyscallHinted is always true.
JitTypeFor(k) ==
  IF k.version >= 4 /\ (k.version < 5 \/ k.patched) THEN "JitMemory"
  ELSE IF k.handle THEN "CodeMemory" ELSE "Unavailable"

Objects == [type : Types, src : BOOLEAN, isExecutable : BOOLEAN]
Untouched == [type |-> "Unavailable", src |-> FALSE, isExecutable |-> FALSE]

\* lent: the kernel holds the heap pages for a code memory object that is open
\* or mapped.  owner, slave: the mappings at rw_addr and rx_addr of that object.
\* code: what svcMapProcessCodeMemory made of rx_addr.
Mappings == [lent : BOOLEAN, open : BOOLEAN, owner : BOOLEAN, slave : BOOLEAN,
             code : {"unmapped", "mapped", "executable"}]
Unmapped == [lent |-> FALSE, open |-> FALSE, owner |-> FALSE, slave |-> FALSE,
             code |-> "unmapped"]

Init ==
  /\ kernel \in [version : 3..6, patched : BOOLEAN, handle : BOOLEAN]
  /\ jit = [b \in Buffers |-> Untouched]
  /\ memory = [b \in Buffers |-> Unmapped]
  /\ promise = [b \in Buffers |-> "none"]
  /\ refusal = [b \in Buffers |-> {}]

-----------------------------------------------------------------------------
(* The system calls.                                                       *)

\* svcCloseHandle of the object: the pages come back unless they are mapped.
Closed(m) == [m EXCEPT !.open = FALSE, !.lent = m.owner \/ m.slave]

CanUnmapOwner(b) == memory[b].open /\ memory[b].owner
CanUnmapSlave(b) == memory[b].open /\ memory[b].slave

\* What the addresses of the buffer can be used for.
CanWrite(b) ==
  CASE jit[b].type = "JitMemory"  -> memory[b].owner
    [] jit[b].type = "CodeMemory" -> jit[b].src /\ memory[b].code = "unmapped"
    [] OTHER                      -> FALSE

CanRun(b) ==
  CASE jit[b].type = "JitMemory"  -> memory[b].slave
    [] jit[b].type = "CodeMemory" -> memory[b].code = "executable"
    [] OTHER                      -> FALSE

-----------------------------------------------------------------------------
(* jitCreate, on an object that has no buffer.                             *)

\* An object whose creation left a mapping behind is not created again: the
\* one caller, A64HookInit, aborts on a failure.
Fresh(b) ==
  ~jit[b].src /\ promise[b] \in {"none", "refused"} /\ memory[b] = Unmapped

\* No kind of buffer to be had, or no memory: the object stays as it is.
CreateUnavailable(b) ==
  /\ Fresh(b)
  /\ promise' = [promise EXCEPT ![b] = "refused"]
  /\ UNCHANGED <<kernel, jit, memory, refusal>>

Created(b) ==
  /\ jit' = [jit EXCEPT ![b] = [type |-> JitTypeFor(kernel), src |-> TRUE,
                                isExecutable |-> FALSE]]
  /\ promise' = [promise EXCEPT ![b] = "created"]

\* CodeMemory needs no system call yet.
CreateCodeMemory(b) ==
  /\ Fresh(b) /\ JitTypeFor(kernel) = "CodeMemory"
  /\ Created(b)
  /\ UNCHANGED <<kernel, memory, refusal>>

\* svcCreateCodeMemory, MapOwner and MapSlave all succeed.
CreateJitMemory(b) ==
  /\ Fresh(b) /\ JitTypeFor(kernel) = "JitMemory"
  /\ Created(b)
  /\ memory' = [memory EXCEPT ![b] = [Unmapped EXCEPT !.lent = TRUE, !.open = TRUE,
                                                      !.owner = TRUE, !.slave = TRUE]]
  /\ UNCHANGED <<kernel, refusal>>

RolledBack(b, stillOwner) ==
  /\ jit' = [jit EXCEPT ![b] = [type |-> "JitMemory", src |-> FALSE,
                                isExecutable |-> FALSE]]
  /\ memory' = [memory EXCEPT ![b] = Closed([Unmapped EXCEPT !.owner = stillOwner])]
  /\ promise' = [promise EXCEPT ![b] = "refused"]

\* svcCreateCodeMemory or MapOwner is refused: the handle, if any, is closed
\* and the heap memory freed.
CreateRefused(b) ==
  /\ Fresh(b) /\ JitTypeFor(kernel) = "JitMemory"
  /\ RolledBack(b, FALSE)
  /\ UNCHANGED <<kernel, refusal>>

\* MapSlave is refused: UnmapOwner undoes MapOwner, and nobody looks whether
\* it was refused itself.
CreateSlaveRefused(b) ==
  /\ Fresh(b) /\ JitTypeFor(kernel) = "JitMemory"
  /\ \E stillOwner \in BOOLEAN :
       /\ RolledBack(b, stillOwner)
       /\ refusal' = [refusal EXCEPT ![b] =
                        IF stillOwner THEN @ \cup {"rollback"} ELSE @]
  /\ UNCHANGED kernel

-----------------------------------------------------------------------------
(* The transitions.  Live(b): the object was created and never closed.     *)

Live(b) == jit[b].src /\ promise[b] # "half closed"

\* jitTransitionToWritable: the pages are unmapped only if is_executable says
\* that they are mapped.
ToWritable(b) ==
  /\ Live(b)
  /\ memory' = IF jit[b].type = "CodeMemory" /\ jit[b].isExecutable
               THEN [memory EXCEPT ![b].code = "unmapped"] ELSE memory
  /\ jit' = [jit EXCEPT ![b].isExecutable = FALSE]
  /\ promise' = [promise EXCEPT ![b] = "writable"]
  /\ UNCHANGED <<kernel, refusal>>

\* svcUnmapProcessCodeMemory is refused: nothing changes, the caller is told.
ToWritableRefused(b) ==
  /\ Live(b) /\ jit[b].type = "CodeMemory" /\ jit[b].isExecutable
  /\ UNCHANGED vars

\* Mutant: only the flag is set.
ToExecutableForgotten(b) ==
  /\ Live(b)
  /\ jit' = [jit EXCEPT ![b].isExecutable = TRUE]
  /\ promise' = [promise EXCEPT ![b] = "executable"]
  /\ UNCHANGED <<kernel, memory, refusal>>

\* jitTransitionToExecutable.  Mapping pages that are mapped already is refused.
ToExecutable(b) ==
  LET maps == jit[b].type = "CodeMemory" /\ ~jit[b].isExecutable IN
  /\ Live(b)
  /\ maps => memory[b].code = "unmapped"
  /\ memory' = IF maps THEN [memory EXCEPT ![b].code = "executable"] ELSE memory
  /\ jit' = [jit EXCEPT ![b].isExecutable = TRUE]
  /\ promise' = [promise EXCEPT ![b] = "executable"]
  /\ UNCHANGED <<kernel, refusal>>

\* svcMapProcessCodeMemory is refused.
ToExecutableRefused(b) ==
  /\ Live(b) /\ jit[b].type = "CodeMemory" /\ ~jit[b].isExecutable
  /\ UNCHANGED vars

\* The pages are mapped, svcSetProcessMemoryPermission is refused, and the call
\* of jitTransitionToWritable does nothing because is_executable is not set yet.
\* The caller knows only that the buffer is not executable.
ToExecutablePermissionRefused(b) ==
  /\ Live(b) /\ jit[b].type = "CodeMemory" /\ ~jit[b].isExecutable
  /\ memory[b].code = "unmapped"
  /\ memory' = [memory EXCEPT ![b].code = "mapped"]
  /\ refusal' = [refusal EXCEPT ![b] = @ \cup {"permission"}]
  /\ promise' = [promise EXCEPT ![b] = "created"]
  /\ UNCHANGED <<kernel, jit>>

-----------------------------------------------------------------------------
(* jitClose.                                                               *)

Free(b) == jit' = [jit EXCEPT ![b].src = FALSE, ![b].isExecutable = FALSE]

CloseCodeMemory(b) ==
  /\ Live(b) /\ jit[b].type = "CodeMemory"
  /\ memory' = IF jit[b].isExecutable
               THEN [memory EXCEPT ![b].code = "unmapped"] ELSE memory
  /\ Free(b)
  /\ promise' = [promise EXCEPT ![b] = "closed"]
  /\ UNCHANGED <<kernel, refusal>>

\* Mutant: the memory is freed before the object is closed and unmapped.
CloseJitMemoryFreeFirst(b) ==
  /\ jit[b].src /\ jit[b].type = "JitMemory"
  /\ CanUnmapOwner(b) /\ CanUnmapSlave(b)
  /\ jit' = [jit EXCEPT ![b].src = FALSE]
  /\ promise' = [promise EXCEPT ![b] = "closed"]
  /\ UNCHANGED <<kernel, memory, refusal>>

CloseJitMemory(b) ==
  /\ jit[b].src /\ jit[b].type = "JitMemory"
  /\ CanUnmapOwner(b) /\ CanUnmapSlave(b)
  /\ memory' = [memory EXCEPT ![b] = Closed([@ EXCEPT !.owner = FALSE, !.slave = FALSE])]
  /\ jit' = [jit EXCEPT ![b].src = FALSE]
  /\ promise' = [promise EXCEPT ![b] = "closed"]
  /\ UNCHANGED <<kernel, refusal>>

\* UnmapOwner succeeds and UnmapSlave is refused: the error is returned with
\* the writable mapping gone and the executable one still there.
CloseSlaveRefused(b) ==
  /\ jit[b].src /\ jit[b].type = "JitMemory"
  /\ CanUnmapOwner(b)
  /\ memory' = [memory EXCEPT ![b].owner = FALSE]
  /\ promise' = [promise EXCEPT ![b] = "half closed"]
  /\ UNCHANGED <<kernel, jit, refusal>>

\* The first system call of jitClose is refused, always so when it was already
\* done by an earlier jitClose.
CloseRefused(b) ==
  /\ jit[b].src
  /\ jit[b].type = "CodeMemory" => jit[b].isExecutable
  /\ UNCHANGED vars

\* jitClose on a closed object: src_addr is NULL and the handle is stale.
CloseAgain(b) ==
  /\ promise[b] = "closed"
  /\ UNCHANGED vars

Next ==
  \E b \in Buffers :
    \/ CreateUnavailable(b) \/ CreateCodeMemory(b) \/ CreateJitMemory(b)
    \/ CreateRefused(b) \/ CreateSlaveRefused(b)
    \/ ToWritable(b) \/ ToWritableRefused(b)
    \/ ToExecutable(b) \/ ToExecutableRefused(b) \/ ToExecutablePermissionRefused(b)
    \/ CloseCodeMemory(b) \/ CloseJitMemory(b) \/ CloseSlaveRefused(b) \/ CloseRefused(b)
    \/ CloseAgain(b)

Spec == Init /\ [][Next]_vars

-----------------------------------------------------------------------------
TypeOK ==
  /\ kernel \in [version : 3..6, patched : BOOLEAN, handle : BOOLEAN]
  /\ jit \in [Buffers -> Objects]
  /\ memory \in [Buffers -> Mappings]
  /\ promise \in [Buffers -> {"none", "refused", "created", "writable", "executable",
                              "half closed", "closed"}]
  /\ refusal \in [Buffers -> SUBSET {"permission", "rollback"}]

\* After jitTransitionToWritable has returned success rw_addr can be written.
WritableMeansWritable ==
  \A b \in Buffers : promise[b] = "writable" => CanWrite(b)

\* Only a refused svcSetProcessMemoryPermission, the error path of
\* jitTransitionToExecutable, makes a later success of jitTransitionToWritable
\* a lie; no other refusal, in whatever order of calls, does.
WritableUnlessPermissionRefused ==
  \A b \in Buffers :
    promise[b] = "writable" /\ "permission" \notin refusal[b] => CanWrite(b)

\* After jitTransitionToExecutable has returned success rx_addr can be run.
ExecutableMeansExecutable ==
  \A b \in Buffers : promise[b] = "executable" => CanRun(b)

\* What the success of a transition says of the buffer is so, with the one
\* exception above.
SuccessHolds == WritableUnlessPermissionRefused /\ ExecutableMeansExecutable

\* Heap memory that jitCreate or jitClose gave back is neither lent to the
\* kernel nor mapped for code, unless the kernel refused a permission or the
\* rollback of a creation.
HeapComesBackWhole ==
  \A b \in Buffers :
    ~jit[b].src /\ refusal[b] = {} =>
      ~memory[b].lent /\ ~memory[b].slave /\ memory[b].code = "unmapped"

\* A buffer whose jitClose undid the writable mapping and was refused the other
\* one stays that way: every retry begins with unmapping what is unmapped.
HalfClosedForGood ==
  [][\A b \in Buffers :
       promise[b] = "half closed" =>
         promise'[b] = "half closed" /\ jit'[b].src /\ memory'[b].lent]_vars
=============================================================================
