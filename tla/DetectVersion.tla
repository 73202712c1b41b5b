--------------------------- MODULE DetectVersion ---------------------------
(***************************************************************************)
(* detectKernelVersion of detect.c: the kernel is asked which information  *)
(* it knows, the answer is built up in g_Version and kept for later calls. *)
(* The flag g_VersionCached is tested without the mutex first.             *)
(***************************************************************************)
EXTENDS Callers, Integers

VARIABLES
  kernel,           \* the version of the kernel
  g_VersionCached,
  g_Version,
  versionOwner,     \* of g_VersionMutex: no thread or one
  versionAt,        \* where each thread is
  probe,            \* the next version the owner of the mutex tries
  version           \* what the last call of each thread returned, 0 before

versionVars ==
  <<kernel, g_VersionCached, g_Version, versionOwner, versionAt, probe, version>>

Versions == 1..6
VersionHolding == {"test again", "probe", "publish", "unlock"}
VersionPlaces == {"idle", "lock", "read"} \cup VersionHolding

VersionInit ==
  /\ kernel \in Versions
  /\ g_VersionCached = FALSE /\ g_Version = 0
  /\ versionOwner = {}
  /\ versionAt = [t \in Threads |-> "idle"]
  /\ probe = 1
  /\ version = [t \in Threads |-> 0]

VersionGoto(t, place) == versionAt' = [versionAt EXCEPT ![t] = place]

\* The call, with the test of the flag that takes no mutex.
CallVersion(t) ==
  /\ versionAt[t] = "idle"
  /\ VersionGoto(t, IF g_VersionCached THEN "read" ELSE "lock")
  /\ UNCHANGED <<kernel, g_VersionCached, g_Version, versionOwner, probe, version>>

LockVersion(t) ==
  /\ versionAt[t] = "lock" /\ versionOwner = {}
  /\ versionOwner' = {t}
  /\ VersionGoto(t, "test again")
  /\ UNCHANGED <<kernel, g_VersionCached, g_Version, probe, version>>

\* Mutant: the flag is not tested again under the mutex.
TestVersionAgainDropped(t) ==
  /\ versionAt[t] = "test again"
  /\ VersionGoto(t, "probe")
  /\ probe' = 1
  /\ UNCHANGED <<kernel, g_VersionCached, g_Version, versionOwner, version>>

TestVersionAgain(t) ==
  /\ versionAt[t] = "test again"
  /\ IF g_VersionCached
     THEN VersionGoto(t, "unlock") /\ UNCHANGED probe
     ELSE VersionGoto(t, "probe") /\ probe' = 1
  /\ UNCHANGED <<kernel, g_VersionCached, g_Version, versionOwner, version>>

\* g_Version = 1, then one svcGetInfo after the other raises it: the kernels of
\* a version know what the earlier ones know.
ProbeVersion(t) ==
  /\ versionAt[t] = "probe"
  /\ g_Version' = IF probe <= kernel THEN probe ELSE g_Version
  /\ IF probe = 6
     THEN VersionGoto(t, "publish") /\ UNCHANGED probe
     ELSE probe' = probe + 1 /\ UNCHANGED versionAt
  /\ UNCHANGED <<kernel, g_VersionCached, versionOwner, version>>

PublishVersion(t) ==
  /\ versionAt[t] = "publish"
  /\ g_VersionCached' = TRUE
  /\ VersionGoto(t, "unlock")
  /\ UNCHANGED <<kernel, g_Version, versionOwner, probe, version>>

\* Mutant: the early return keeps the mutex.
UnlockVersionForgotten(t) ==
  /\ versionAt[t] = "unlock"
  /\ VersionGoto(t, "read")
  /\ UNCHANGED <<kernel, g_VersionCached, g_Version, probe, version, versionOwner>>

UnlockVersion(t) ==
  /\ versionAt[t] = "unlock"
  /\ versionOwner' = {}
  /\ VersionGoto(t, "read")
  /\ UNCHANGED <<kernel, g_VersionCached, g_Version, probe, version>>

\* detectKernelVersion reads g_Version without the mutex.
ReturnVersion(t) ==
  /\ versionAt[t] = "read"
  /\ version' = [version EXCEPT ![t] = g_Version]
  /\ VersionGoto(t, "idle")
  /\ UNCHANGED <<kernel, g_VersionCached, g_Version, versionOwner, probe>>

VersionStep(t) ==
  \/ LockVersion(t) \/ TestVersionAgain(t) \/ ProbeVersion(t)
  \/ PublishVersion(t) \/ UnlockVersion(t) \/ ReturnVersion(t)

VersionNext == \E t \in Threads : CallVersion(t) \/ VersionStep(t)

VersionSpec == VersionInit /\ [][VersionNext]_versionVars

-----------------------------------------------------------------------------
\* The types, and that the mutex belongs to the thread that is between Lock and
\* Unlock.
VersionTypeOK ==
  /\ kernel \in Versions
  /\ g_VersionCached \in BOOLEAN
  /\ g_Version \in 0..6
  /\ versionOwner \subseteq Threads
  /\ versionAt \in [Threads -> VersionPlaces]
  /\ probe \in Versions
  /\ version \in [Threads -> 0..6]
  /\ \A t \in Threads : versionOwner = {t} <=> versionAt[t] \in VersionHolding

\* No caller ever gets one of the values g_Version has on the way to the
\* version: not the one that tests the flag without the mutex, nor the one that
\* has waited for the mutex while another asked the kernel.
AnswersAreWhole == \A t \in Threads : version[t] \in {0, kernel}

\* Every call returns: the double test leaves no thread behind at the mutex.
CallsReturn == \A t \in Threads : versionAt[t] # "idle" ~> versionAt[t] = "idle"
=============================================================================
