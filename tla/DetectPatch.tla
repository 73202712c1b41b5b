---------------------------- MODULE DetectPatch ----------------------------
(***************************************************************************)
(* detectJitKernelPatch and detectIgnoreJitKernelPatch of detect.c.  The   *)
(* probe needs memory and a CodeMemory object and may get neither, and     *)
(* then nothing is kept and the next call tries again.                     *)
(***************************************************************************)
EXTENDS Callers

VARIABLES
  patched,                   \* the kernel is patched
  g_JitKernelPatchCached,
  g_JitKernelPatchDetected,
  owner,                     \* of g_JitKernelPatchMutex
  at,                        \* where each thread is
  failed,                    \* the probe of the thread's call has failed
  answer,                    \* what the call that is done returned
  sure,                      \* a call had returned TRUE before this call began
  ignored                    \* detectIgnoreJitKernelPatch has begun to write

vars == <<patched, g_JitKernelPatchCached, g_JitKernelPatchDetected, owner, at,
          failed, answer, sure, ignored>>

Holding == {"test again", "probe", "publish", "unlock",
            "ignore", "ignore publish", "ignore unlock"}
Places == {"idle", "lock", "read", "done", "ignore lock"} \cup Holding

Init ==
  /\ patched \in BOOLEAN
  /\ g_JitKernelPatchCached = FALSE /\ g_JitKernelPatchDetected = FALSE
  /\ owner = NoThread
  /\ at = [t \in Threads |-> "idle"]
  /\ failed = [t \in Threads |-> FALSE]
  /\ answer = [t \in Threads |-> FALSE]
  /\ sure = [t \in Threads |-> FALSE]
  /\ ignored = FALSE

Goto(t, place) == at' = [at EXCEPT ![t] = place]

\* The call of detectJitKernelPatch and the test that takes no mutex.
Call(t) ==
  /\ at[t] \in {"idle", "done"}
  /\ Goto(t, IF g_JitKernelPatchCached THEN "read" ELSE "lock")
  /\ failed' = [failed EXCEPT ![t] = FALSE]
  /\ sure' = [sure EXCEPT ![t] = \E u \in Threads : at[u] = "done" /\ answer[u]]
  /\ UNCHANGED <<patched, g_JitKernelPatchCached, g_JitKernelPatchDetected,
                 owner, answer, ignored>>

Lock(t) ==
  /\ at[t] = "lock" /\ owner = NoThread
  /\ owner' = t
  /\ Goto(t, "test again")
  /\ UNCHANGED <<patched, g_JitKernelPatchCached, g_JitKernelPatchDetected,
                 failed, answer, sure, ignored>>

\* Mutant: the flag is not tested again under the mutex, and what was detected
\* is cleared before the probe as g_Version is in _CacheVersion.
TestAgainDropped(t) ==
  /\ at[t] = "test again"
  /\ g_JitKernelPatchDetected' = FALSE
  /\ Goto(t, "probe")
  /\ UNCHANGED <<patched, g_JitKernelPatchCached, owner, failed, answer, sure,
                 ignored>>

TestAgain(t) ==
  /\ at[t] = "test again"
  /\ Goto(t, IF g_JitKernelPatchCached THEN "unlock" ELSE "probe")
  /\ UNCHANGED <<patched, g_JitKernelPatchCached, g_JitKernelPatchDetected,
                 owner, failed, answer, sure, ignored>>

\* Mutant: the result of a failed probe is kept.
ProbeFailsKept(t) ==
  /\ at[t] = "probe"
  /\ failed' = [failed EXCEPT ![t] = TRUE]
  /\ Goto(t, "publish")
  /\ UNCHANGED <<patched, g_JitKernelPatchCached, g_JitKernelPatchDetected,
                 owner, answer, sure, ignored>>

\* memalign or svcCreateCodeMemory fails: nothing is kept.
ProbeFails(t) ==
  /\ at[t] = "probe"
  /\ failed' = [failed EXCEPT ![t] = TRUE]
  /\ Goto(t, "unlock")
  /\ UNCHANGED <<patched, g_JitKernelPatchCached, g_JitKernelPatchDetected,
                 owner, answer, sure, ignored>>

\* The operation -1 is an invalid value for a patched kernel, for another one
\* the object is in the wrong hands.
Probe(t) ==
  /\ at[t] = "probe"
  /\ g_JitKernelPatchDetected' = patched
  /\ Goto(t, "publish")
  /\ UNCHANGED <<patched, g_JitKernelPatchCached, owner, failed, answer, sure,
                 ignored>>

Publish(t) ==
  /\ at[t] = "publish"
  /\ g_JitKernelPatchCached' = TRUE
  /\ Goto(t, "unlock")
  /\ UNCHANGED <<patched, g_JitKernelPatchDetected, owner, failed, answer, sure,
                 ignored>>

Unlock(t) ==
  /\ at[t] = "unlock"
  /\ owner' = NoThread
  /\ Goto(t, "read")
  /\ UNCHANGED <<patched, g_JitKernelPatchCached, g_JitKernelPatchDetected,
                 failed, answer, sure, ignored>>

\* g_JitKernelPatchDetected is read without the mutex.
Return(t) ==
  /\ at[t] = "read"
  /\ answer' = [answer EXCEPT ![t] = g_JitKernelPatchDetected]
  /\ Goto(t, "done")
  /\ UNCHANGED <<patched, g_JitKernelPatchCached, g_JitKernelPatchDetected,
                 owner, failed, sure, ignored>>

\* detectIgnoreJitKernelPatch.
IgnoreCall(t) ==
  /\ at[t] \in {"idle", "done"}
  /\ Goto(t, "ignore lock")
  /\ UNCHANGED <<patched, g_JitKernelPatchCached, g_JitKernelPatchDetected,
                 owner, failed, answer, sure, ignored>>

IgnoreLock(t) ==
  /\ at[t] = "ignore lock" /\ owner = NoThread
  /\ owner' = t
  /\ Goto(t, "ignore")
  /\ UNCHANGED <<patched, g_JitKernelPatchCached, g_JitKernelPatchDetected,
                 failed, answer, sure, ignored>>

Ignore(t) ==
  /\ at[t] = "ignore"
  /\ g_JitKernelPatchDetected' = FALSE
  /\ ignored' = TRUE
  /\ Goto(t, "ignore publish")
  /\ UNCHANGED <<patched, g_JitKernelPatchCached, owner, failed, answer, sure>>

\* Mutant: what is to be ignored is not kept as known.
IgnorePublishForgotten(t) ==
  /\ at[t] = "ignore publish"
  /\ Goto(t, "ignore unlock")
  /\ UNCHANGED <<patched, g_JitKernelPatchDetected, owner, failed, answer, sure,
                 ignored, g_JitKernelPatchCached>>

IgnorePublish(t) ==
  /\ at[t] = "ignore publish"
  /\ g_JitKernelPatchCached' = TRUE
  /\ Goto(t, "ignore unlock")
  /\ UNCHANGED <<patched, g_JitKernelPatchDetected, owner, failed, answer, sure,
                 ignored>>

IgnoreUnlock(t) ==
  /\ at[t] = "ignore unlock"
  /\ owner' = NoThread
  /\ Goto(t, "idle")
  /\ UNCHANGED <<patched, g_JitKernelPatchCached, g_JitKernelPatchDetected,
                 failed, answer, sure, ignored>>

Step(t) ==
  \/ Call(t) \/ Lock(t) \/ TestAgain(t) \/ ProbeFails(t) \/ Probe(t)
  \/ Publish(t) \/ Unlock(t) \/ Return(t)
  \/ IgnoreCall(t) \/ IgnoreLock(t) \/ Ignore(t) \/ IgnorePublish(t)
  \/ IgnoreUnlock(t)

Next == \E t \in Threads : Step(t)

Spec == Init /\ [][Next]_vars

-----------------------------------------------------------------------------
\* The types, and that the mutex belongs to the thread that is between a lock
\* and its unlock.
TypeOK ==
  /\ patched \in BOOLEAN
  /\ g_JitKernelPatchCached \in BOOLEAN /\ g_JitKernelPatchDetected \in BOOLEAN
  /\ owner \in Threads \cup {NoThread}
  /\ at \in [Threads -> Places]
  /\ failed \in [Threads -> BOOLEAN] /\ answer \in [Threads -> BOOLEAN]
  /\ sure \in [Threads -> BOOLEAN]
  /\ ignored \in BOOLEAN
  /\ \A t \in Threads : owner = t <=> at[t] \in Holding

\* A patched kernel is denied only to a call whose own probe failed, unless the
\* patch is to be ignored: no caller sees the flag of another thread before the
\* result that belongs to it, and no failed probe is remembered for the others.
OwnFailureOnly == \A t \in Threads :
  at[t] = "done" /\ ~answer[t] /\ patched => failed[t] \/ ignored

\* Callers agree in time: once a call has found the patch, a call begun later
\* finds it too, until the patch is to be ignored.
FoundForGood == \A t \in Threads :
  at[t] = "done" /\ sure[t] => answer[t] \/ ignored

\* detectIgnoreJitKernelPatch is for good: no thread that was in the middle of
\* its probe brings the patch back.
IgnoredForGood == [][ignored => ~g_JitKernelPatchDetected']_vars
=============================================================================
